------------------------------ MODULE Escalation ------------------------------
(***************************************************************************)
(* agent/escalation.py: the timer behind the proposals that wait for an    *)
(* approval.  One loop looks at all sessions, one after the other, and     *)
(* waits for Slack and the incident providers whenever it reminds of a     *)
(* proposal or rejects it; the other sessions wait as well.                *)
(*                                                                         *)
(* Module Approval has one session in detail and no time; here a session   *)
(* is only its proposal, and all sessions are there from the start.        *)
(***************************************************************************)
EXTENDS Lifespan

CONSTANTS
    MaxProposals,   \* the sessions, numbered in the order of their creation
    Sla,            \* the SLA of each, by its severity
    CheckInterval,  \* EscalationConfig.check_interval
    MaxCallback     \* the time within which _on_escalate returns

Proposals == 1..MaxProposals

ASSUME EscalationAssumption ==
    /\ MaxProposals \in Nat
    /\ Sla \in [Proposals -> Nat \ {0}]
    /\ CheckInterval \in Nat /\ MaxCallback \in Nat

VARIABLES
    proposal,  \* "since" is updated_at, when it began to await approval
    reminded,  \* the sessions whose EscalationState has reminder_sent
    check      \* where EscalationTimer._loop is: asleep until a time, or in the
               \* callback of a session, begun at a time; "asOf" is its now

escalationVars == <<proposal, reminded, check>>

EscalationTypeOK ==
    /\ proposal \in [Proposals -> [at: {"open", "awaiting", "answered", "rejected"},
                                   since: 0..MaxNow]]
    /\ reminded \in SUBSET Proposals
    /\ check \in [at: {"off", "asleep", "calling"}, asOf: 0..MaxNow,
                  session: 0..MaxProposals, time: Nat]

Off == [at |-> "off", asOf |-> 0, session |-> 0, time |-> 0]

EscalationInit ==
    /\ proposal = [p \in Proposals |-> [at |-> "open", since |-> 0]]
    /\ reminded = {}
    /\ check = Off

-----------------------------------------------------------------------------
Propose(p) ==
    /\ server = "up"
    /\ proposal[p].at = "open"
    /\ proposal' = [proposal EXCEPT ![p] = [at |-> "awaiting", since |-> now]]
    /\ UNCHANGED <<reminded, check, lifespanVars>>

\* A click, or a delivery that resolves the alert.
Decide(p) ==
    /\ proposal[p].at = "awaiting"
    /\ proposal' = [proposal EXCEPT ![p].at = "answered"]
    /\ UNCHANGED <<reminded, check, lifespanVars>>

\* The two deadlines of EscalationState: updated_at does not change while a
\* session awaits approval, so it does not matter when the state was made.
ReminderDue(p, asOf) == p \notin reminded /\ asOf >= proposal[p].since + Sla[p]
\* Mutants: one flag serves both deadlines; both are the same.
RejectDueUnlessReminded(p, asOf) ==
    p \notin reminded /\ asOf >= proposal[p].since + 2 * Sla[p]
RejectDueAtOnce(p, asOf) == asOf >= proposal[p].since + Sla[p]
RejectDue(p, asOf) == asOf >= proposal[p].since + 2 * Sla[p]

Breach(p, asOf) ==
    proposal[p].at = "awaiting" /\ (RejectDue(p, asOf) \/ ReminderDue(p, asOf))

\* _check_sessions from session p on, up to the next callback, or the next
\* sleep.  Whether a session still awaits approval is read when it has its turn;
\* what the time is, was read when the check began.
VisitFrom(first, asOf) ==
    \/ /\ \A p \in Proposals : p >= first => ~Breach(p, asOf)
       /\ check' = [at |-> "asleep", asOf |-> asOf, session |-> 0, time |-> now + CheckInterval]
       /\ UNCHANGED <<proposal, reminded>>
    \/ \E p \in Proposals :
         /\ p >= first /\ Breach(p, asOf)
         /\ \A q \in first..(p - 1) : ~Breach(q, asOf)
         /\ check' = [at |-> "calling", asOf |-> asOf, session |-> p, time |-> now]
         /\ \/ /\ RejectDue(p, asOf)
               /\ proposal' = [proposal EXCEPT ![p].at = "rejected"]
               /\ UNCHANGED reminded
            \/ /\ ~RejectDue(p, asOf)
               /\ reminded' = reminded \cup {p}
               /\ UNCHANGED proposal

CheckSessions ==
    /\ check.at = "asleep" /\ now >= check.time
    /\ VisitFrom(1, now)
    /\ UNCHANGED lifespanVars

FinishCallback ==
    /\ check.at = "calling"
    /\ VisitFrom(check.session + 1, check.asOf)
    /\ UNCHANGED lifespanVars

\* A check begins when its time has come, and a callback is over in time.
TimerInTime ==
    /\ check.at = "asleep" => now < check.time
    /\ check.at = "calling" => now < check.time + MaxCallback

StartTimer ==
    /\ check' = [at |-> "asleep", asOf |-> now, session |-> 0, time |-> now]
    /\ UNCHANGED <<proposal, reminded>>

\* The sessions are gone with the process.
StopTimer ==
    /\ proposal' = [p \in Proposals |-> [at |-> "open", since |-> 0]]
    /\ reminded' = {}
    /\ check' = Off

EscalationNext ==
    \/ \E p \in Proposals : Propose(p) \/ Decide(p)
    \/ CheckSessions \/ FinishCallback

-----------------------------------------------------------------------------
(* Properties that hold. *)

\* A proposal awaits approval for twice its SLA at most, and for what a check
\* may take longer: its interval, and a callback for every session in the check
\* that was under way, and for every other session in the next one.
AnsweredInTime ==
    \A p \in Proposals :
        proposal[p].at = "awaiting" =>
            now < proposal[p].since + 2 * Sla[p] + CheckInterval
                     + (2 * MaxProposals - 1) * MaxCallback

\* The timer rejects no proposal that it has not reminded of in an earlier check,
\* if a check with a callback for every other session, and the interval, fit into
\* the SLA.
RemindedFirst ==
    \A p \in Proposals :
        proposal[p].at = "rejected" /\ CheckInterval + (MaxProposals - 1) * MaxCallback <= Sla[p]
            => p \in reminded
=============================================================================
