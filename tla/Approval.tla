------------------------------ MODULE Approval ------------------------------
(***************************************************************************)
(* The human-in-the-loop half of the agent: what may happen to one session *)
(* from the moment its fix waits for approval until everything that was    *)
(* started for it has finished.                                            *)
(*                                                                         *)
(* All of it runs on one asyncio event loop, so the code between two       *)
(* awaits is one step.  A handler is a task: its pc says which await it is *)
(* suspended at.  The tasks are                                            *)
(*   - slack/bot.py _handle_approve, _handle_reject, _handle_rollback, one *)
(*     per button click (the buttons stay in the channel, so there may be  *)
(*     any number of clicks, by anybody, at any time);                     *)
(*   - agent/executor.py FixExecutor.execute, inside _handle_approve;      *)
(*   - webhooks/grafana.py receive_grafana_resolved, one per delivery;     *)
(*   - the escalation timer with its _on_escalate callback, which opens    *)
(*     incidents with the external providers;                              *)
(*   - the _record_to_memory tasks that terminal transitions schedule.     *)
(***************************************************************************)
EXTENDS Session

CONSTANTS
    Approvers,   \* clicks on "Approve Fix"
    Rejecters,   \* clicks on "Reject"
    Resolvers,   \* deliveries of "resolved" for this fingerprint by Grafana
    Rollbackers, \* clicks on "Execute Rollback"
    ViaGroup,    \* the approve clicks by users who are not in the allowlist
                 \* while Slack groups are configured: authorize looks them up
    Providers,   \* the enabled incident providers
    Reliable,    \* the providers whose calls do not fail
    MaxRounds    \* MAX_EXECUTION_ROUNDS

Handlers == Approvers \cup Rejecters \cup Resolvers \cup Rollbackers

ASSUME HandlersAssumption ==
    /\ Approvers \cap (Rejecters \cup Resolvers \cup Rollbackers) = {}
    /\ Rejecters \cap (Resolvers \cup Rollbackers) = {}
    /\ Resolvers \cap Rollbackers = {}
    /\ ViaGroup \subseteq Approvers
    /\ Reliable \subseteq Providers

ASSUME MaxRoundsAssumption == MaxRounds \in Nat

VARIABLES
    session,     \* the DiagnosisSession
    admissible,  \* does evaluate_guardrails pass?  Its inputs (the proposal, the
                 \* alert, the diagnosis, the fix confidence) no longer change
    cached,      \* is the Slack group in _group_members_cache?
    pc,          \* where each handler is
    rounds,      \* rounds made by the executor loop of each approve handler
    live,        \* the handlers that have changed the cluster (dry_run=false)
    offered,     \* has the rollback button been posted?
    todo,        \* the providers resolve_all has still to visit, per handler
    timer,       \* the escalation timer and its callback
    ids,         \* the providers in session.incident_ids
    open,        \* the providers where an incident of this session is open
    memory       \* the outcomes incident memory holds for this session

vars == <<session, admissible, cached, pc, rounds, live, offered, todo, timer,
          ids, open, memory>>

\* An approve handler whose approval went through and that has not yet moved
\* the session on: it will execute the fix or fail the session.
Working == {"approved", "announcing", "executing"}

PCs == {"idle", "authorizing", "refused", "succeeded", "unsuccessful",
        "posting", "rolling", "resolving", "done"} \cup Working

TimerType == [at: {"sleeping", "posting", "creating"}, overdue: 0..2,
              reminded: BOOLEAN, todo: SUBSET Providers, made: SUBSET Providers]

TypeOK ==
    /\ session \in SessionType
    /\ admissible \in BOOLEAN
    /\ cached \in BOOLEAN
    /\ pc \in [Handlers -> PCs]
    /\ rounds \in [Approvers -> 0..MaxRounds]
    /\ live \in SUBSET Handlers
    /\ offered \in BOOLEAN
    /\ todo \in [Handlers -> SUBSET Providers]
    /\ timer \in TimerType
    /\ ids \in SUBSET Providers
    /\ open \in SUBSET Providers
    /\ memory \in SUBSET Outcomes

\* _process_final_response has parsed a fix, with or without a diagnosis.
Proposed(diagnosed) ==
    RequestApproval(SetFixProposal(
        IF diagnosed THEN SetDiagnosis(NewSession) ELSE NewSession))

Init ==
    /\ session \in {Proposed(d) : d \in BOOLEAN}
    /\ admissible \in BOOLEAN
    /\ cached = FALSE
    /\ pc = [h \in Handlers |-> "idle"]
    /\ rounds = [c \in Approvers |-> 0]
    /\ live = {}
    /\ offered = FALSE
    /\ todo = [h \in Handlers |-> {}]
    /\ timer = [at |-> "sleeping", overdue |-> 0, reminded |-> FALSE,
                todo |-> {}, made |-> {}]
    /\ ids = {}
    /\ open = {}
    /\ memory = {}

GoTo(h, where) == pc' = [pc EXCEPT ![h] = where]

-----------------------------------------------------------------------------
(* _handle_approve *)

\* authorize has returned.  ALLOWED approves the session, in whatever phase it
\* is by now; DENIED and NEEDS_SENIOR only post a message.
Decide(c) ==
    \/ GoTo(c, "approved") /\ session' = Approve(session)
    \/ GoTo(c, "refused") /\ UNCHANGED session

\* Mutants: the phase is not checked; it is only checked against executing.
AwaitsAnything == TRUE
AwaitsUnlessExecuting == session.phase # "executing"
AwaitsApproval == session.phase = "awaiting_approval"

\* The phase is checked here, and only here.  authorize suspends only when it
\* has to fetch the members of a group.
StartApprove(c) ==
    /\ pc[c] = "idle"
    /\ \/ /\ ~AwaitsApproval
          /\ GoTo(c, "refused")
          /\ UNCHANGED session
       \/ /\ AwaitsApproval
          /\ c \in ViaGroup /\ ~cached
          /\ GoTo(c, "authorizing")
          /\ UNCHANGED session
       \/ /\ AwaitsApproval
          /\ c \notin ViaGroup \/ cached
          /\ Decide(c)
    /\ UNCHANGED <<admissible, cached, rounds, live, offered, todo, timer, ids,
                   open, memory>>

\* A failed fetch is cached as well, as an empty group.
FinishAuthorize(c) ==
    /\ pc[c] = "authorizing"
    /\ cached' = TRUE
    /\ Decide(c)
    /\ UNCHANGED <<admissible, rounds, live, offered, todo, timer, ids, open,
                   memory>>

\* Mutant: a blocked fix is reported, and the session left as it is.
PreflightForgets(c) ==
    /\ pc[c] = "approved"
    /\ GoTo(c, IF admissible THEN "announcing" ELSE "done")
    /\ UNCHANGED <<session, admissible, cached, rounds, live, offered, todo,
                   timer, ids, open, memory>>

\* The incidents are acknowledged and the confirmation is posted: guardrails.
Preflight(c) ==
    /\ pc[c] = "approved"
    /\ \/ admissible /\ GoTo(c, "announcing") /\ UNCHANGED session
       \/ ~admissible /\ GoTo(c, "done") /\ session' = Fail(session)
    /\ UNCHANGED <<admissible, cached, rounds, live, offered, todo, timer, ids,
                   open, memory>>

\* FixExecutor.execute evaluates the guardrails again, then reads the cluster
\* (a stale diagnosis is logged, never an obstacle).
StartExecute(c) ==
    /\ pc[c] = "announcing"
    /\ GoTo(c, IF admissible THEN "executing" ELSE "unsuccessful")
    /\ session' = IF admissible THEN session ELSE Fail(session)
    /\ UNCHANGED <<admissible, cached, rounds, live, offered, todo, timer, ids,
                   open, memory>>

MoreRounds(c) == rounds[c] < MaxRounds

\* One round of the executor loop: a call of Claude and the tools it asked
\* for, among them perhaps a mutation that is not a dry run.
RunRound(c) ==
    /\ pc[c] = "executing"
    /\ MoreRounds(c)
    /\ rounds' = [rounds EXCEPT ![c] = @ + 1]
    /\ live' \in {live, live \cup {c}}
    /\ UNCHANGED <<session, admissible, cached, pc, offered, todo, timer, ids,
                   open, memory>>

\* The loop has returned and its text is parsed.  Everything but STATUS:
\* SUCCESS fails the session, an exception included; ROLLBACK_NEEDED also
\* makes the handler post the rollback button.
FinishExecute(c) ==
    /\ pc[c] = "executing"
    /\ \/ /\ session' = MarkResolved(session)
          /\ GoTo(c, "succeeded")
          /\ UNCHANGED offered
       \/ /\ session' = Fail(session)
          /\ GoTo(c, "unsuccessful")
          /\ offered' \in {offered, TRUE}
    /\ UNCHANGED <<admissible, cached, rounds, live, todo, timer, ids, open,
                   memory>>

\* resolve_all is called if the session knows of an incident.
ResolveOrFinish(h) ==
    \/ ids # {} /\ GoTo(h, "resolving") /\ todo' = [todo EXCEPT ![h] = Providers]
    \/ ids = {} /\ GoTo(h, "done") /\ UNCHANGED todo

\* The result is posted; a failure only adds notes to the incidents.
Report(c) ==
    /\ \/ pc[c] = "succeeded" /\ ResolveOrFinish(c)
       \/ pc[c] = "unsuccessful" /\ GoTo(c, "done") /\ UNCHANGED todo
    /\ UNCHANGED <<session, admissible, cached, rounds, live, offered, timer,
                   ids, open, memory>>

\* resolve_all visits one provider; it reads the session's incident ids as
\* they are now.  A provider that fails is logged and skipped.
ResolveIncident(h, p) ==
    /\ pc[h] = "resolving"
    /\ p \in todo[h]
    /\ todo' = [todo EXCEPT ![h] = @ \ {p}]
    /\ \/ open' = open \ (ids \cap {p})
       \/ p \notin Reliable /\ UNCHANGED open
    /\ GoTo(h, IF todo[h] = {p} THEN "done" ELSE "resolving")
    /\ UNCHANGED <<session, admissible, cached, rounds, live, offered, timer,
                   ids, memory>>

-----------------------------------------------------------------------------
(* _handle_reject, receive_grafana_resolved and _handle_rollback *)

\* Neither the phase nor the user is checked.
StartReject(r) ==
    /\ pc[r] = "idle"
    /\ session' = Reject(session)
    /\ GoTo(r, "posting")
    /\ UNCHANGED <<admissible, cached, rounds, live, offered, todo, timer, ids,
                   open, memory>>

FinishReject(r) ==
    /\ pc[r] = "posting"
    /\ ResolveOrFinish(r)
    /\ UNCHANGED <<session, admissible, cached, rounds, live, offered, timer,
                   ids, open, memory>>

\* get_by_fingerprint only returns active sessions.
GrafanaResolved(g) ==
    /\ pc[g] = "idle"
    /\ \/ IsActive(session) /\ session' = MarkResolved(session) /\ ResolveOrFinish(g)
       \/ ~IsActive(session) /\ GoTo(g, "done") /\ UNCHANGED <<session, todo>>
    /\ UNCHANGED <<admissible, cached, rounds, live, offered, timer, ids, open,
                   memory>>

\* Mutant: the button comes with the approval request.
RollbackOfferedAtOnce == TRUE
RollbackOffered == offered

\* A proposal without a rollback plan ends the handler.
StartRollback(k) ==
    /\ RollbackOffered
    /\ pc[k] = "idle"
    /\ GoTo(k, "rolling") \/ GoTo(k, "done")
    /\ UNCHANGED <<session, admissible, cached, rounds, live, offered, todo,
                   timer, ids, open, memory>>

\* rollback_deployment runs live if the plan says "rollout undo" and the alert
\* names a deployment; otherwise the plan is posted for manual execution.
FinishRollback(k) ==
    /\ pc[k] = "rolling"
    /\ live' \in {live, live \cup {k}}
    /\ GoTo(k, "done")
    /\ UNCHANGED <<session, admissible, cached, rounds, offered, todo, timer,
                   ids, open, memory>>

-----------------------------------------------------------------------------
(* EscalationTimer._check_sessions and server.py _on_escalate *)

\* A deadline of the session passes: first its SLA, then twice its SLA.  The
\* deadlines are looked at only while the session awaits approval.
Elapse ==
    /\ session.phase = "awaiting_approval"
    /\ timer.overdue < 2
    /\ timer' = [timer EXCEPT !.overdue = @ + 1]
    /\ UNCHANGED <<session, admissible, cached, pc, rounds, live, offered, todo,
                   ids, open, memory>>

\* Mutant: a reminder also cancels the second deadline.
PastDeadlineUnreminded == timer.overdue = 2 /\ ~timer.reminded
PastDeadline == timer.overdue = 2

AutoReject ==
    /\ timer.at = "sleeping"
    /\ session.phase = "awaiting_approval"
    /\ PastDeadline
    /\ session' = Reject(session)
    /\ timer' = [timer EXCEPT !.at = "posting"]
    /\ UNCHANGED <<admissible, cached, pc, rounds, live, offered, todo, ids,
                   open, memory>>

Remind ==
    /\ timer.at = "sleeping"
    /\ session.phase = "awaiting_approval"
    /\ timer.overdue = 1
    /\ ~timer.reminded
    /\ timer' = [timer EXCEPT !.at = "posting", !.reminded = TRUE]
    /\ UNCHANGED <<session, admissible, cached, pc, rounds, live, offered, todo,
                   ids, open, memory>>

\* The message is in Slack.  Without providers the callback is over.
Escalated ==
    /\ timer.at = "posting"
    /\ timer' = IF Providers = {} THEN [timer EXCEPT !.at = "sleeping"]
                ELSE [timer EXCEPT !.at = "creating", !.todo = Providers,
                                   !.made = {}]
    /\ UNCHANGED <<session, admissible, cached, pc, rounds, live, offered, todo,
                   ids, open, memory>>

\* create_incident on one provider.  The call may fail before the provider has
\* opened the incident or, the answer being lost, after; only an answer counts.
CreateIncident(p) ==
    /\ timer.at = "creating"
    /\ p \in timer.todo
    /\ \/ /\ open' = open \cup {p}
          /\ timer' = [timer EXCEPT !.todo = @ \ {p}, !.made = @ \cup {p}]
       \/ /\ p \notin Reliable
          /\ open' \in {open, open \cup {p}}
          /\ timer' = [timer EXCEPT !.todo = @ \ {p}]
    /\ UNCHANGED <<session, admissible, cached, pc, rounds, live, offered, todo,
                   ids, memory>>

\* Mutant: the ids are stored only if nobody closed the session meanwhile.
StoreIncidentIdsIfActive ==
    /\ timer.at = "creating"
    /\ timer.todo = {}
    /\ ids' = IF IsActive(session) THEN ids \cup timer.made ELSE ids
    /\ timer' = [timer EXCEPT !.at = "sleeping", !.made = {}]
    /\ UNCHANGED <<session, admissible, cached, pc, rounds, live, offered, todo,
                   open, memory>>
\* All providers have been asked: the ids they returned go into the session,
\* whatever has become of it.
StoreIncidentIds ==
    /\ timer.at = "creating"
    /\ timer.todo = {}
    /\ ids' = ids \cup timer.made
    /\ timer' = [timer EXCEPT !.at = "sleeping", !.made = {}]
    /\ UNCHANGED <<session, admissible, cached, pc, rounds, live, offered, todo,
                   open, memory>>

-----------------------------------------------------------------------------
\* A scheduled _record_to_memory task runs: it reads the session as it is now.
\* Sessions without a diagnosis are not recorded, a failed INSERT is only logged,
\* and the embedding that comes before the INSERT may hang.
RecordToMemory ==
    /\ session.recording > 0
    /\ session' = RecordStarted(session)
    /\ \/ session.diagnosed /\ memory' = memory \cup {DetermineOutcome(session)}
       \/ UNCHANGED memory
    /\ UNCHANGED <<admissible, cached, pc, rounds, live, offered, todo, timer,
                   ids, open>>

\* The steps after an await of Slack, of the database or of nothing, ...
Approving(c) ==
    FinishAuthorize(c) \/ Preflight(c) \/ StartExecute(c) \/ Report(c)

\* ... and those of the executor, which waits for Claude and for Kubernetes.
Executing(c) == RunRound(c) \/ FinishExecute(c)

Notifying(h) == \E p \in Providers : ResolveIncident(h, p)

Escalating ==
    \/ AutoReject \/ Remind \/ Escalated
    \/ \E p \in Providers : CreateIncident(p)
    \/ StoreIncidentIds

Next ==
    \/ \E c \in Approvers : StartApprove(c) \/ Approving(c) \/ Executing(c)
    \/ \E r \in Rejecters : StartReject(r) \/ FinishReject(r)
    \/ \E g \in Resolvers : GrafanaResolved(g)
    \/ \E k \in Rollbackers : StartRollback(k) \/ FinishRollback(k)
    \/ \E h \in Handlers : Notifying(h)
    \/ Elapse
    \/ Escalating
    \/ RecordToMemory

Spec == Init /\ [][Next]_vars

\* The event loop runs every task that is ready, time passes, and the calls of
\* Slack and of the incident providers, which have timeouts, return or raise.
\* The calls of Kubernetes have none (k8s_client.py:90): nothing says that an
\* executor, or a rollback, ever comes back.  Nobody has to click, and Grafana
\* has to deliver nothing.
Fairness ==
    /\ \A c \in Approvers : WF_vars(Approving(c))
    /\ \A r \in Rejecters : WF_vars(FinishReject(r))
    /\ \A h \in Handlers : WF_vars(Notifying(h))
    /\ WF_vars(Elapse) /\ WF_vars(Escalating) /\ WF_vars(RecordToMemory)

FairSpec == Spec /\ Fairness

-----------------------------------------------------------------------------
(* Properties that hold. *)

\* The approve clicks that were granted.
Granted == {c \in Approvers : pc[c] \notin {"idle", "authorizing", "refused"}}

\* README.md:66: a fix is never executed without human approval.  Whatever
\* changes the cluster for this session, a rollback included, comes after a
\* granted click, and only if the guardrails passed.
NothingLiveUnapproved == live # {} => Granted # {} /\ admissible

\* A session that says "executing" is being moved on by somebody: no path
\* through _handle_approve and the executor, exceptions and blocked guardrails
\* included, leaves it in that phase for good.
ExecutingHasOwner ==
    session.phase = "executing" => \E c \in Approvers : pc[c] \in Working

\* The escalation timer looks at the phase only.  While it says "awaiting
\* approval" nobody has been granted anything and nothing was changed or
\* recorded, so the timer never rejects a fix that is being executed.
AwaitingIsUntouched ==
    session.phase = "awaiting_approval" =>
        Granted = {} /\ live = {} /\ memory = {} /\ session.status = "pending"

\* A session that is over is reopened only by an approval that was waiting for
\* the Slack group at that moment: every other late click or delivery leaves
\* it over (in this or another terminal phase).
ReopenedOnlyByStaleClick ==
    [][session.phase \in Terminal /\ session'.phase \notin Terminal =>
         \E c \in Approvers : pc[c] = "authorizing" /\ pc'[c] = "approved"]_vars

\* slack/bot.py:58, "avoid double-approvals".  With an allowlist and no Slack
\* groups (then nothing is awaited between the check of the phase and the
\* approval), the fix is executed for one click at most.
SingleExecution == \A c, d \in Granted : c = d

\* With an allowlist and no Slack groups, a session is recorded only after its
\* end, and never with the outcome "unknown".
RecordedAfterEnd ==
    /\ session.recording > 0 => session.phase \in Terminal
    /\ "unknown" \notin memory

\* Incident memory calls a session a success only if its fix was let run or
\* Grafana said that the alert is gone (be it without the fix): however many
\* recordings are made and whatever the session is by then, a proposal that was
\* only rejected or left to the timer is never one.
SuccessIsExplained ==
    "success" \in memory =>
        Granted # {} \/ \E g \in Resolvers : pc[g] # "idle"

\* The incidents that providers which do not fail have opened can all be
\* resolved: their ids are in the session or with the callback that will store
\* them, although other handlers, and other providers' failures, come between.
\* (A handler that resolves too early misses them: see the README.)
IncidentsAreKnown == open \cap Reliable \subseteq ids \cup timer.made

\* Even if nobody ever clicks, the session ends for good and every recording
\* that was scheduled has read it: some handler or the timer closes it.  Only one
\* thing keeps it from ending, an executor whose call of Kubernetes hangs: the
\* session is then executing for good, where the timer does not look at it.
EventuallySettles ==
    \/ <>[](session.phase \in Terminal /\ session.recording = 0)
    \/ \E c \in Approvers :
         <>[](pc[c] = "executing" /\ session.phase = "executing")

\* How the fix stands, for those who have to say yes.
State == IF session.phase = "awaiting_approval" THEN "waiting"
         ELSE IF IsActive(session) THEN "running" ELSE "over"

Promised == INSTANCE Consent WITH Approvals <- Approvers, Late <- ViaGroup,
                state <- State, granted <- Granted, changed <- live # {},
                remembered <- memory

\* However the handlers, the timer and the recordings interleave, what can be
\* seen of the session is what the module Consent promises.
KeepsItsPromise == Promised!Spec
=============================================================================
