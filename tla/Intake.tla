------------------------------- MODULE Intake -------------------------------
(***************************************************************************)
(* webhooks/grafana.py with the SessionStore of agent/session.py: alerts   *)
(* come in, are deduplicated by fingerprint, counted against the session   *)
(* limit and investigated in background tasks.  A task creates its session *)
(* only when the event loop starts it, after the delivery was answered.    *)
(*                                                                         *)
(* alert_correlator.correlate never finds a session, since nothing calls   *)
(* register_session; it is left out.                                       *)
(***************************************************************************)
EXTENDS Naturals, Sequences, FiniteSets

CONSTANTS
    Alerts,       \* one per fingerprint, or an alert without one
    Anonymous,    \* the alerts without a fingerprint
    Limit,        \* MAX_CONCURRENT_SESSIONS, 0: no limit
    MultiAgent,   \* settings.multi_agent_enabled
    Burst,        \* how many investigations are asked for, by one delivery or
                  \* by several, before the event loop starts the first of them
    MaxSessions   \* bound: sessions ever created

ASSUME IntakeAssumption ==
    /\ Anonymous \subseteq Alerts
    /\ Limit \in Nat /\ MultiAgent \in BOOLEAN
    /\ Burst \in Nat \ {0} /\ MaxSessions \in Nat

VARIABLES
    pending,  \* the alerts whose tasks are scheduled and have not started
    sessions  \* session_store._sessions, in the order of their creation

vars == <<pending, sessions>>

\* "fresh" is alert_received or investigating, "active" any later phase that is
\* not terminal, "evicted" no longer in the store.  "tasked": a task is in
\* investigate with this session.  "extra" remembers that the session became
\* active by something else than a delivery: it is a second session of the same
\* task, or it had been closed before.
Session == [alert: Alerts, status: {"fresh", "active", "closed", "evicted"},
            tasked: BOOLEAN, extra: BOOLEAN]

TypeOK ==
    /\ pending \in Seq(Alerts)
    /\ Len(pending) <= Burst
    /\ sessions \in Seq(Session)

Init ==
    /\ pending = <<>>
    /\ sessions = <<>>

Ids == 1..Len(sessions)
Active == {i \in Ids : sessions[i].status \in {"fresh", "active"}}
ActiveOf(a) == {i \in Active : sessions[i].alert = a}

\* get_by_fingerprint: the oldest active session.
FirstActiveOf(a) == CHOOSE i \in ActiveOf(a) : \A j \in ActiveOf(a) : i <= j

\* What moving a session to a phase does to its record.
Moved(s, status) ==
    IF s.status = "evicted" THEN s
    ELSE [s EXCEPT !.status = status,
                   !.extra = @ \/ (s.status = "closed" /\ status # "closed")]

Move(i, status) == sessions' = [sessions EXCEPT ![i] = Moved(@, status)]

-----------------------------------------------------------------------------
\* Mutants: an alert is skipped only while a task investigates it; the limit is
\* off by one.
IsNewOrFinished(a) == a \in Anonymous \/ \A i \in ActiveOf(a) : ~sessions[i].tasked
IsNew(a) == a \in Anonymous \/ ActiveOf(a) = {}
UnderLimitInclusive == Limit > 0 => Cardinality(Active) <= Limit
UnderLimit == Limit > 0 => Cardinality(Active) < Limit

Admitted(a) == IsNew(a) /\ UnderLimit

\* A POST: all its alerts are looked at without an await, hence in one and the
\* same state of the store; those that are not admitted are skipped.
ReceiveAlerts(admitted) ==
    /\ \A n \in 1..Len(admitted) : Admitted(admitted[n])
    /\ Len(pending) + Len(admitted) <= Burst
    /\ Len(sessions) + Len(pending) + Len(admitted) <= MaxSessions
    /\ pending' = pending \o admitted
    /\ UNCHANGED sessions

Created(a, extra) ==
    [alert |-> a, status |-> "fresh", tasked |-> TRUE, extra |-> extra]

\* The oldest scheduled task starts and runs to its first await.
StartTask ==
    /\ pending # <<>>
    /\ pending' = Tail(pending)
    /\ sessions' = Append(sessions, Created(Head(pending), FALSE))

\* MultiAgentOrchestrator: the triage is done, the specialist takes over.
StartSpecialist(i) ==
    /\ MultiAgent
    /\ sessions[i].tasked
    /\ Move(i, "fresh")
    /\ UNCHANGED pending

\* MultiAgentOrchestrator: an exception while nothing has come of the session
\* yet.  The single agent starts from the alert, with a session of its own.
FallBack(i) ==
    /\ MultiAgent
    /\ sessions[i].tasked /\ sessions[i].status = "fresh"
    /\ Len(sessions) + Len(pending) < MaxSessions
    /\ sessions' = Append([sessions EXCEPT ![i].tasked = FALSE],
                          Created(sessions[i].alert, TRUE))
    /\ UNCHANGED pending

\* The answer of Claude is processed: a diagnosis or a fix makes the session
\* active, an escalation or a failure closes it, whatever it was before.
Conclude(i) ==
    /\ sessions[i].tasked
    /\ \E status \in {"active", "closed"} : Move(i, status)
    /\ UNCHANGED pending

\* Mutant: investigate returns with nothing done about the session.
FinishTaskAnyhow(i) ==
    /\ sessions[i].tasked
    /\ sessions' = [sessions EXCEPT ![i].tasked = FALSE]
    /\ UNCHANGED pending
\* investigate returns, and the session is in a phase it can be returned in.
FinishTask(i) ==
    /\ sessions[i].tasked /\ sessions[i].status # "fresh"
    /\ sessions' = [sessions EXCEPT ![i].tasked = FALSE]
    /\ UNCHANGED pending

\* An active session is closed by the handlers of the module Approval, and a
\* stale approval there opens a closed one again.
Close(i) ==
    /\ i \in Active /\ sessions[i].status = "active"
    /\ Move(i, "closed")
    /\ UNCHANGED pending

Reopen(i) ==
    /\ sessions[i].status = "closed" /\ ~sessions[i].tasked
    /\ Move(i, "active")
    /\ UNCHANGED pending

\* receive_grafana_resolved, for one alert of the delivery.
ReceiveResolved(a) ==
    /\ a \notin Anonymous
    /\ ActiveOf(a) # {}
    /\ Move(FirstActiveOf(a), "closed")
    /\ UNCHANGED pending

\* RetentionManager._evict_in_memory_sessions, for one session that was closed
\* long enough ago: by then its task has returned.
Evict(i) ==
    /\ sessions[i].status = "closed" /\ ~sessions[i].tasked
    /\ Move(i, "evicted")
    /\ UNCHANGED pending

\* The alerts that one POST can add.
Deliveries == UNION {[1..n -> Alerts] : n \in 1..Burst}

Next ==
    \/ \E d \in Deliveries : ReceiveAlerts(d)
    \/ StartTask
    \/ \E i \in Ids :
         StartSpecialist(i) \/ FallBack(i) \/ Conclude(i) \/ FinishTask(i)
           \/ Close(i) \/ Reopen(i) \/ Evict(i)
    \/ \E a \in Alerts : ReceiveResolved(a)

Spec == Init /\ [][Next]_vars

-----------------------------------------------------------------------------
(* Properties that hold. *)

\* The sessions a delivery is responsible for.
Delivered(a) == {i \in ActiveOf(a) : ~sessions[i].extra}
PendingOf(a) == {n \in 1..Len(pending) : pending[n] = a}

\* An alert never gets more sessions from deliveries than were asked for at
\* once: with deliveries that wait for the tasks of the one before (Burst = 1)
\* that is one session per fingerprint, however often it is delivered.
DuplicatesOnlyInBurst ==
    \A a \in Alerts \ Anonymous :
        Cardinality(Delivered(a)) + Cardinality(PendingOf(a)) <= Burst

\* The same for MAX_CONCURRENT_SESSIONS: deliveries exceed it by what is asked
\* for at once, less one.
LimitExceededOnlyByBurst ==
    Limit > 0 =>
        Cardinality({i \in Active : ~sessions[i].extra}) + Len(pending)
            <= Limit + Burst - 1

Own(a) == {i \in Ids : sessions[i].alert = a}
Left(a) == {i \in Own(a) : sessions[i].status = "fresh" /\ ~sessions[i].tasked}

\* A session that looks as if it were being investigated without a task that
\* does so blocks its fingerprint for good.  Only the fallback of the pipeline
\* leaves such sessions behind, and each time another session takes over: an
\* alert never has more of them than of those, and closing or evicting the
\* later ones changes nothing about it.
LeftBehindOnlyByFallback ==
    \A a \in Alerts : \A i \in Left(a) :
        Cardinality({j \in Left(a) : j >= i})
            <= Cardinality({j \in Own(a) : j > i /\ sessions[j].extra})
=============================================================================
