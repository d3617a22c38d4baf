-------------------------- MODULE Approval_proofs --------------------------
(***************************************************************************)
(* For any number of clicks, deliveries, providers and executor rounds.    *)
(*                                                                         *)
(* The invariant is built in two stages.  TypeOK needs nothing else.  Inv  *)
(* adds what is true whatever the RBAC policy is; Exclusive what is true   *)
(* when no approve click has to look up a Slack group, so that             *)
(* _handle_approve checks the phase and approves in one step.              *)
(***************************************************************************)
EXTENDS Approval, TLAPS

-----------------------------------------------------------------------------
(* The methods of a session *)

\* DiagnosisSession.transition moves the phase, schedules one recording if the
\* phase is terminal, and touches nothing else.
LEMMA TransitionFacts ==
    ASSUME NEW s \in SessionType, NEW p \in Phases
    PROVE  /\ Transition(s, p) \in SessionType
           /\ Transition(s, p).phase = p
           /\ Transition(s, p).status = s.status
           /\ p \in Terminal => Transition(s, p).recording = s.recording + 1
           /\ p \notin Terminal => Transition(s, p).recording = s.recording
<1> DEFINE n == IF p \in Terminal THEN s.recording + 1 ELSE s.recording
<1>1. n \in Nat
  BY DEF SessionType
<1>2. Transition(s, p) = [s EXCEPT !.phase = p, !.recording = n]
  BY DEF Transition
<1> HIDE DEF n
<1>3. /\ Transition(s, p) \in SessionType
      /\ Transition(s, p).recording = n
      /\ Transition(s, p).phase = p
      /\ Transition(s, p).status = s.status
  BY <1>1, <1>2 DEF SessionType
<1>4. QED
  BY <1>3 DEF n

\* Which phases are terminal.
LEMMA PhaseFacts ==
    /\ Terminal \subseteq Phases
    /\ {"resolved", "escalated", "failed"} \subseteq Terminal
    /\ {"diagnosed", "fix_proposed", "awaiting_approval", "executing"}
          \subseteq Phases \ Terminal
  BY DEF Phases, Terminal

\* set_diagnosis, set_fix_proposal and request_approval keep the type; nothing
\* is recorded, and nobody has answered, on the way to a proposal.
LEMMA ProposalFacts ==
    ASSUME NEW s \in SessionType
    PROVE  /\ SetDiagnosis(s) \in SessionType
           /\ SetDiagnosis(s).status = s.status
           /\ SetDiagnosis(s).recording = s.recording
           /\ SetFixProposal(s) \in SessionType
           /\ SetFixProposal(s).status = s.status
           /\ SetFixProposal(s).recording = s.recording
           /\ RequestApproval(s) \in SessionType
           /\ RequestApproval(s).phase = "awaiting_approval"
           /\ RequestApproval(s).status = s.status
           /\ RequestApproval(s).recording = s.recording
<1>1. /\ SetDiagnosis(s) \in SessionType
      /\ SetDiagnosis(s).status = s.status
      /\ SetDiagnosis(s).recording = s.recording
  <2> DEFINE d == [s EXCEPT !.diagnosed = TRUE]
  <2>1. d \in SessionType /\ d.status = s.status /\ d.recording = s.recording
    BY DEF SessionType
  <2>2. SetDiagnosis(s) = Transition(d, "diagnosed")
    BY DEF SetDiagnosis
  <2> HIDE DEF d
  <2>3. "diagnosed" \in Phases /\ "diagnosed" \notin Terminal
    BY PhaseFacts
  <2>4. QED
    BY <2>1, <2>2, <2>3, TransitionFacts
<1>2. /\ SetFixProposal(s) \in SessionType
      /\ SetFixProposal(s).status = s.status
      /\ SetFixProposal(s).recording = s.recording
  <2> DEFINE f == [s EXCEPT !.proposal = @ + 1]
  <2>1. s.proposal + 1 \in Nat
    BY DEF SessionType
  <2>2. f \in SessionType /\ f.status = s.status
    BY <2>1 DEF SessionType
  <2>3. f.recording = s.recording
    BY DEF SessionType
  <2>4. SetFixProposal(s) = Transition(f, "fix_proposed")
    BY DEF SetFixProposal
  <2> HIDE DEF f
  <2>5. "fix_proposed" \in Phases /\ "fix_proposed" \notin Terminal
    BY PhaseFacts
  <2>6. QED
    BY <2>2, <2>3, <2>4, <2>5, TransitionFacts
<1>3. "awaiting_approval" \in Phases /\ "awaiting_approval" \notin Terminal
  BY PhaseFacts
<1>4. QED
  BY <1>1, <1>2, <1>3, TransitionFacts DEF RequestApproval

\* approve keeps the type and moves the session to executing, in whatever phase
\* it was; nothing is recorded.
LEMMA ApproveFacts ==
    ASSUME NEW s \in SessionType
    PROVE  /\ Approve(s) \in SessionType
           /\ Approve(s).phase = "executing"
           /\ Approve(s).recording = s.recording
<1> DEFINE a == [s EXCEPT !.status = "approved"]
<1>1. a \in SessionType /\ a.recording = s.recording
  BY DEF SessionType, ApprovalStatuses
<1>2. Approve(s) = Transition(a, "executing")
  BY DEF Approve
<1> HIDE DEF a
<1>3. "executing" \in Phases /\ "executing" \notin Terminal
  BY PhaseFacts
<1>4. QED
  BY <1>1, <1>2, <1>3, TransitionFacts

\* What a session is after a terminal transition from s.
Closed(s, t) == /\ t \in SessionType
                /\ t.phase \in Terminal
                /\ t.recording = s.recording + 1

\* reject, mark_resolved, escalate and fail close the session.
LEMMA ClosingFacts ==
    ASSUME NEW s \in SessionType
    PROVE  /\ Closed(s, Reject(s))
           /\ Closed(s, MarkResolved(s))
           /\ Closed(s, Escalate(s))
           /\ Closed(s, Fail(s))
<1>1. /\ "resolved" \in Phases /\ "resolved" \in Terminal
      /\ "escalated" \in Phases /\ "escalated" \in Terminal
      /\ "failed" \in Phases /\ "failed" \in Terminal
  BY PhaseFacts
<1>2. Closed(s, Reject(s))
  <2> DEFINE r == [s EXCEPT !.status = "rejected"]
  <2>1. r \in SessionType /\ r.recording = s.recording
    BY DEF SessionType, ApprovalStatuses
  <2>2. Reject(s) = Transition(r, "resolved")
    BY DEF Reject
  <2> HIDE DEF r
  <2>3. Closed(r, Transition(r, "resolved"))
    BY <1>1, <2>1, TransitionFacts DEF Closed
  <2>4. QED
    BY <2>1, <2>2, <2>3 DEF Closed
<1>3. Closed(s, MarkResolved(s))
  <2> DEFINE m == [s EXCEPT !.executed = TRUE]
  <2>1. m \in SessionType /\ m.recording = s.recording
    BY DEF SessionType
  <2>2. MarkResolved(s) = Transition(m, "resolved")
    BY DEF MarkResolved
  <2> HIDE DEF m
  <2>3. Closed(m, Transition(m, "resolved"))
    BY <1>1, <2>1, TransitionFacts DEF Closed
  <2>4. QED
    BY <2>1, <2>2, <2>3 DEF Closed
<1>4. Closed(s, Escalate(s))
  BY <1>1, TransitionFacts DEF Escalate, Closed
<1>5. Closed(s, Fail(s))
  BY <1>1, TransitionFacts DEF Fail, Closed
<1>6. QED
  BY <1>2, <1>3, <1>4, <1>5

\* Running a scheduled recording only lowers the count of scheduled ones.
LEMMA RecordStartedFacts ==
    ASSUME NEW s \in SessionType, s.recording > 0
    PROVE  /\ RecordStarted(s) \in SessionType
           /\ RecordStarted(s).phase = s.phase
           /\ RecordStarted(s).status = s.status
           /\ RecordStarted(s).recording = s.recording - 1
  BY DEF RecordStarted, SessionType

\* Nothing has been executed of the session, and if it is resolved then because
\* it was rejected.
Unexecuted(s) == ~s.executed /\ (s.phase = "resolved" => s.status = "rejected")

\* A session of which nothing was executed is not a success, and neither a
\* rejection nor a recording makes it one.
LEMMA UnexecutedFacts ==
    ASSUME NEW s \in SessionType, Unexecuted(s)
    PROVE  /\ DetermineOutcome(s) # "success"
           /\ Unexecuted(Reject(s))
           /\ Unexecuted(RecordStarted(s))
<1>1. DetermineOutcome(s) # "success"
  BY DEF Unexecuted, DetermineOutcome
<1>2. Unexecuted(RecordStarted(s))
  BY DEF Unexecuted, RecordStarted, SessionType
<1>3. Unexecuted(Reject(s))
  <2> DEFINE r == [s EXCEPT !.status = "rejected"]
             n == IF "resolved" \in Terminal THEN r.recording + 1 ELSE r.recording
  <2>1. r \in SessionType /\ r.status = "rejected" /\ r.executed = s.executed
    BY DEF SessionType, ApprovalStatuses
  <2>2. Reject(s) = [r EXCEPT !.phase = "resolved", !.recording = n]
    BY DEF Reject, Transition
  <2> HIDE DEF r, n
  <2>3. Reject(s).status = "rejected" /\ Reject(s).executed = s.executed
    BY <2>1, <2>2 DEF SessionType
  <2>4. QED
    BY <2>3 DEF Unexecuted
<1>4. QED
  BY <1>1, <1>2, <1>3

\* _determine_outcome knows every terminal phase.
LEMMA OutcomeFacts ==
    ASSUME NEW s \in SessionType
    PROVE  /\ DetermineOutcome(s) \in Outcomes
           /\ s.phase \in Terminal => DetermineOutcome(s) # "unknown"
  BY DEF DetermineOutcome, Outcomes, SessionType, Terminal, ApprovalStatuses

-----------------------------------------------------------------------------
(* The invariant *)

\* Past Preflight, the guardrails have passed; so they have wherever the cluster
\* may have been changed, or a rollback was offered or runs.
Cleared ==
    /\ \A c \in Approvers : pc[c] \in {"announcing", "executing"} => admissible
    /\ offered \/ live # {} \/ (\E k \in Rollbackers : pc[k] = "rolling")
          => admissible /\ Granted # {}

\* A session awaiting approval has not been recorded and will not be, yet.
Unrecorded == session.phase = "awaiting_approval" => session.recording = 0

Inv == Cleared /\ Unrecorded /\ AwaitingIsUntouched /\ ExecutingHasOwner

\* Every handler is at one place, and is what it is.
LEMMA HandlerFacts ==
    /\ Approvers \subseteq Handlers
    /\ Rejecters \subseteq Handlers
    /\ Resolvers \subseteq Handlers
    /\ Rollbackers \subseteq Handlers
  BY DEF Handlers

-----------------------------------------------------------------------------
(* Types *)

\* A session that was proposed awaits approval, unanswered and unrecorded.
LEMMA ProposedFacts ==
    ASSUME NEW d \in BOOLEAN
    PROVE  /\ Proposed(d) \in SessionType
           /\ Proposed(d).phase = "awaiting_approval"
           /\ Proposed(d).status = "pending"
           /\ Proposed(d).recording = 0
<1>1. /\ NewSession \in SessionType
      /\ NewSession.status = "pending"
      /\ NewSession.recording = 0
  BY DEF NewSession, SessionType, Phases, ApprovalStatuses
<1> DEFINE s == IF d THEN SetDiagnosis(NewSession) ELSE NewSession
<1>2. s \in SessionType /\ s.status = "pending" /\ s.recording = 0
  BY <1>1, ProposalFacts
<1>3. Proposed(d) = RequestApproval(SetFixProposal(s))
  BY DEF Proposed
<1> HIDE DEF s
<1> DEFINE t == SetFixProposal(s)
<1>4. t \in SessionType /\ t.status = "pending" /\ t.recording = 0
  BY <1>2, ProposalFacts
<1>5. Proposed(d) = RequestApproval(t)
  BY <1>3
<1> HIDE DEF t
<1>6. QED
  BY <1>4, <1>5, ProposalFacts

LEMMA InitType == Init => TypeOK
<1> SUFFICES ASSUME Init PROVE TypeOK
  OBVIOUS
<1>1. session \in SessionType
  BY ProposedFacts DEF Init
<1>2. pc \in [Handlers -> PCs] /\ rounds \in [Approvers -> 0..MaxRounds]
  BY MaxRoundsAssumption DEF Init, PCs, Working
<1>3. timer \in TimerType
  BY DEF Init, TimerType
<1>4. todo \in [Handlers -> SUBSET Providers]
  BY DEF Init
<1>5. admissible \in BOOLEAN /\ cached \in BOOLEAN /\ offered \in BOOLEAN
  BY DEF Init
<1>6. /\ live \in SUBSET Handlers
      /\ ids \in SUBSET Providers /\ open \in SUBSET Providers
      /\ memory \in SUBSET Outcomes
  BY DEF Init
<1>7. QED
  BY <1>1, <1>2, <1>3, <1>4, <1>5, <1>6 DEF TypeOK

\* A handler that moves moves alone.
LEMMA GoToFacts ==
    ASSUME TypeOK, NEW h \in Handlers, NEW where \in PCs, GoTo(h, where)
    PROVE  /\ pc' \in [Handlers -> PCs]
           /\ pc'[h] = where
           /\ \A g \in Handlers : g # h => pc'[g] = pc[g]
  BY DEF TypeOK, GoTo

LEMMA PlaceFacts ==
    /\ {"idle", "authorizing", "refused", "approved", "announcing", "executing",
        "succeeded", "unsuccessful"} \subseteq PCs
    /\ {"posting", "rolling", "resolving", "done"} \subseteq PCs
  BY DEF PCs, Working

\* The variables every disjunct of a handler's step leaves alone.
LEMMA ResolveOrFinishType ==
    ASSUME TypeOK, NEW h \in Handlers, ResolveOrFinish(h)
    PROVE  /\ pc' \in [Handlers -> PCs]
           /\ pc'[h] \in {"resolving", "done"}
           /\ \A g \in Handlers : g # h => pc'[g] = pc[g]
           /\ todo' \in [Handlers -> SUBSET Providers]
<1>1. CASE GoTo(h, "resolving") /\ todo' = [todo EXCEPT ![h] = Providers]
  BY <1>1, GoToFacts, PlaceFacts DEF TypeOK
<1>2. CASE GoTo(h, "done") /\ UNCHANGED todo
  BY <1>2, GoToFacts, PlaceFacts DEF TypeOK
<1>3. QED
  BY <1>1, <1>2 DEF ResolveOrFinish

\* Every step keeps the types.
LEMMA StepType ==
    ASSUME TypeOK, [Next]_vars
    PROVE  TypeOK'
<1>1. session \in SessionType
  BY DEF TypeOK
<1>2. ASSUME NEW c \in Approvers, Decide(c)
      PROVE  session' \in SessionType /\ pc' \in [Handlers -> PCs]
  BY <1>1, <1>2, ApproveFacts, GoToFacts, PlaceFacts, HandlerFacts DEF Decide
<1>3. ASSUME NEW c \in Approvers, StartApprove(c)
      PROVE  TypeOK'
  <2>1. CASE Decide(c)
    BY <1>2, <1>3, <2>1 DEF StartApprove, TypeOK
  <2>2. CASE GoTo(c, "refused") /\ UNCHANGED session
    BY <1>3, <2>2, GoToFacts, PlaceFacts, HandlerFacts DEF StartApprove, TypeOK
  <2>3. CASE GoTo(c, "authorizing") /\ UNCHANGED session
    BY <1>3, <2>3, GoToFacts, PlaceFacts, HandlerFacts DEF StartApprove, TypeOK
  <2>4. QED
    BY <1>3, <2>1, <2>2, <2>3 DEF StartApprove
<1>4. ASSUME NEW c \in Approvers, FinishAuthorize(c)
      PROVE  TypeOK'
  BY <1>2, <1>4 DEF FinishAuthorize, TypeOK
<1>5. ASSUME NEW c \in Approvers, Preflight(c)
      PROVE  TypeOK'
  <2>1. session' \in SessionType
    BY <1>1, <1>5, ClosingFacts DEF Preflight, Closed
  <2>2. pc' \in [Handlers -> PCs]
    BY <1>5, GoToFacts, PlaceFacts, HandlerFacts DEF Preflight
  <2>3. QED
    BY <1>5, <2>1, <2>2 DEF Preflight, TypeOK
<1>6. ASSUME NEW c \in Approvers, StartExecute(c)
      PROVE  TypeOK'
  <2>1. session' \in SessionType
    BY <1>1, <1>6, ClosingFacts DEF StartExecute, Closed
  <2>2. pc' \in [Handlers -> PCs]
    BY <1>6, GoToFacts, PlaceFacts, HandlerFacts DEF StartExecute
  <2>3. QED
    BY <1>6, <2>1, <2>2 DEF StartExecute, TypeOK
<1>7. ASSUME NEW c \in Approvers, RunRound(c)
      PROVE  TypeOK'
  <2>1. rounds' \in [Approvers -> 0..MaxRounds]
    BY <1>7, MaxRoundsAssumption DEF RunRound, MoreRounds, TypeOK
  <2>2. live' \in SUBSET Handlers
    BY <1>7, HandlerFacts DEF RunRound, TypeOK
  <2>3. QED
    BY <1>7, <2>1, <2>2 DEF RunRound, TypeOK
<1>8. ASSUME NEW c \in Approvers, FinishExecute(c)
      PROVE  TypeOK'
  <2>1. session' \in SessionType
    BY <1>1, <1>8, ClosingFacts DEF FinishExecute, Closed
  <2>2. pc' \in [Handlers -> PCs]
    BY <1>8, GoToFacts, PlaceFacts, HandlerFacts DEF FinishExecute
  <2>3. offered' \in BOOLEAN
    BY <1>8 DEF FinishExecute, TypeOK
  <2>4. QED
    BY <1>8, <2>1, <2>2, <2>3 DEF FinishExecute, TypeOK
<1>9. ASSUME NEW c \in Approvers, Report(c)
      PROVE  TypeOK'
  <2>1. CASE ResolveOrFinish(c)
    BY <1>9, <2>1, ResolveOrFinishType, HandlerFacts DEF Report, TypeOK
  <2>2. CASE GoTo(c, "done") /\ UNCHANGED todo
    BY <1>9, <2>2, GoToFacts, PlaceFacts, HandlerFacts DEF Report, TypeOK
  <2>3. QED
    BY <1>9, <2>1, <2>2 DEF Report
<1>10. ASSUME NEW r \in Rejecters, StartReject(r)
       PROVE  TypeOK'
  BY <1>1, <1>10, ClosingFacts, GoToFacts, PlaceFacts, HandlerFacts
     DEF StartReject, Closed, TypeOK
<1>11. ASSUME NEW r \in Rejecters, FinishReject(r)
       PROVE  TypeOK'
  BY <1>11, ResolveOrFinishType, HandlerFacts DEF FinishReject, TypeOK
<1>12. ASSUME NEW g \in Resolvers, GrafanaResolved(g)
       PROVE  TypeOK'
  <2>1. CASE session' = MarkResolved(session) /\ ResolveOrFinish(g)
    BY <1>1, <1>12, <2>1, ClosingFacts, ResolveOrFinishType, HandlerFacts
       DEF GrafanaResolved, Closed, TypeOK
  <2>2. CASE GoTo(g, "done") /\ UNCHANGED <<session, todo>>
    BY <1>12, <2>2, GoToFacts, PlaceFacts, HandlerFacts DEF GrafanaResolved, TypeOK
  <2>3. QED
    BY <1>12, <2>1, <2>2 DEF GrafanaResolved
<1>13. ASSUME NEW k \in Rollbackers, StartRollback(k)
       PROVE  TypeOK'
  BY <1>13, GoToFacts, PlaceFacts, HandlerFacts DEF StartRollback, TypeOK
<1>14. ASSUME NEW k \in Rollbackers, FinishRollback(k)
       PROVE  TypeOK'
  BY <1>14, GoToFacts, PlaceFacts, HandlerFacts DEF FinishRollback, TypeOK
<1>15. ASSUME NEW h \in Handlers, Notifying(h)
       PROVE  TypeOK'
  <2>1. PICK p \in Providers : ResolveIncident(h, p)
    BY <1>15 DEF Notifying
  <2>2. pc' \in [Handlers -> PCs]
    BY <2>1, GoToFacts, PlaceFacts DEF ResolveIncident
  <2>3. todo' \in [Handlers -> SUBSET Providers] /\ open' \in SUBSET Providers
    BY <2>1 DEF ResolveIncident, TypeOK
  <2>4. QED
    BY <2>1, <2>2, <2>3 DEF ResolveIncident, TypeOK
<1>16. CASE Elapse
  <2>1. timer.overdue + 1 \in 0..2
    BY <1>16 DEF Elapse, TypeOK, TimerType
  <2>2. timer' \in TimerType
    BY <1>16, <2>1 DEF Elapse, TypeOK, TimerType
  <2>3. QED
    BY <1>16, <2>2 DEF Elapse, TypeOK
<1>17. CASE AutoReject
  <2>1. timer' \in TimerType
    BY <1>17 DEF AutoReject, TypeOK, TimerType
  <2>2. session' \in SessionType
    BY <1>1, <1>17, ClosingFacts DEF AutoReject, Closed
  <2>3. QED
    BY <1>17, <2>1, <2>2 DEF AutoReject, TypeOK
<1>18. CASE Remind
  <2>1. timer' \in TimerType
    BY <1>18 DEF Remind, TypeOK, TimerType
  <2>2. QED
    BY <1>18, <2>1 DEF Remind, TypeOK
<1>19. CASE Escalated
  <2>1. timer' \in TimerType
    BY <1>19 DEF Escalated, TypeOK, TimerType
  <2>2. QED
    BY <1>19, <2>1 DEF Escalated, TypeOK
<1>20. ASSUME NEW p \in Providers, CreateIncident(p)
       PROVE  TypeOK'
  <2>1. timer' \in TimerType
    <3>1. timer.todo \ {p} \in SUBSET Providers /\ timer.made \cup {p} \in SUBSET Providers
      BY DEF TypeOK, TimerType
    <3>2. CASE timer' = [timer EXCEPT !.todo = @ \ {p}, !.made = @ \cup {p}]
      BY <3>1, <3>2 DEF TypeOK, TimerType
    <3>3. CASE timer' = [timer EXCEPT !.todo = @ \ {p}]
      BY <3>1, <3>3 DEF TypeOK, TimerType
    <3>4. QED
      BY <1>20, <3>2, <3>3 DEF CreateIncident
  <2>2. open' \in SUBSET Providers
    BY <1>20 DEF CreateIncident, TypeOK
  <2>3. QED
    BY <1>20, <2>1, <2>2 DEF CreateIncident, TypeOK
<1>21. CASE StoreIncidentIds
  <2>1. timer' \in TimerType /\ ids' \in SUBSET Providers
    BY <1>21 DEF StoreIncidentIds, TypeOK, TimerType
  <2>2. QED
    BY <1>21, <2>1 DEF StoreIncidentIds, TypeOK
<1>22. CASE RecordToMemory
  <2>1. session' \in SessionType
    BY <1>1, <1>22, RecordStartedFacts DEF RecordToMemory
  <2>2. memory' \in SUBSET Outcomes
    BY <1>1, <1>22, OutcomeFacts DEF RecordToMemory, TypeOK
  <2>3. QED
    BY <1>22, <2>1, <2>2 DEF RecordToMemory, TypeOK
<1>23. CASE UNCHANGED vars
  BY <1>23 DEF vars, TypeOK
<1>24. QED
  BY <1>3, <1>4, <1>5, <1>6, <1>7, <1>8, <1>9, <1>10, <1>11, <1>12, <1>13,
     <1>14, <1>15, <1>16, <1>17, <1>18, <1>19, <1>20, <1>21, <1>22, <1>23
     DEF Next, Approving, Executing, Escalating

\* Every variable keeps its type, whatever the numbers of clicks, deliveries,
\* providers and rounds.
THEOREM TypeCorrect == Spec => []TypeOK
<1>1. QED
  BY InitType, StepType, PTL DEF Spec

-----------------------------------------------------------------------------
(* Whatever the RBAC policy *)

LEMMA InitInv == Init => Inv
<1> SUFFICES ASSUME Init PROVE Inv
  OBVIOUS
<1>1. /\ session.phase = "awaiting_approval"
      /\ session.status = "pending"
      /\ session.recording = 0
  BY ProposedFacts DEF Init
<1>2. \A h \in Handlers : pc[h] = "idle"
  BY DEF Init
<1>3. Granted = {}
  BY <1>2, HandlerFacts DEF Granted
<1>4. Cleared
  BY <1>2, HandlerFacts DEF Init, Cleared
<1>5. QED
  BY <1>1, <1>3, <1>4 DEF Init, Inv, Unrecorded, AwaitingIsUntouched, ExecutingHasOwner

\* A step in which no approve handler moves, and the session is as it was or
\* closed, keeps the invariant, if what it does to the cluster is a rollback's.
LEMMA ByStandersKeepInv ==
    ASSUME TypeOK, Inv,
           \A c \in Approvers : pc'[c] = pc[c],
           session' = session \/ Closed(session, session'),
           UNCHANGED <<admissible, offered>>,
           live' = live \/ \E k \in Rollbackers : pc[k] = "rolling",
           \A k \in Rollbackers : pc'[k] = "rolling" => pc[k] = "rolling" \/ offered,
           memory' = memory \/ session.recording > 0
    PROVE  Inv'
<1>1. Granted' = Granted
  BY DEF Granted
<1>2. Cleared'
  BY <1>1 DEF Inv, Cleared
<1>3. ASSUME session'.phase = "awaiting_approval"
      PROVE  session' = session /\ memory' = memory /\ live' = live
  BY <1>3, PhaseFacts DEF Closed, Inv, Unrecorded, AwaitingIsUntouched, Cleared
<1>4. Unrecorded' /\ AwaitingIsUntouched'
  BY <1>1, <1>3 DEF Inv, Unrecorded, AwaitingIsUntouched
<1>5. ExecutingHasOwner'
  BY PhaseFacts DEF Inv, ExecutingHasOwner, Closed
<1>6. QED
  BY <1>2, <1>4, <1>5 DEF Inv

\* An approval that is granted, in whatever phase the session is by then.
LEMMA GrantKeepsInv ==
    ASSUME TypeOK, Inv, NEW c \in Approvers,
           GoTo(c, "approved"), session' = Approve(session),
           UNCHANGED <<admissible, offered, live, memory>>
    PROVE  Inv'
<1>1. /\ pc'[c] = "approved"
      /\ \A g \in Handlers : g # c => pc'[g] = pc[g]
  BY GoToFacts, PlaceFacts, HandlerFacts
<1>2. session'.phase = "executing"
  BY ApproveFacts DEF TypeOK
<1>3. Granted \subseteq Granted'
  BY <1>1, HandlerFacts DEF Granted
<1>4. \A k \in Rollbackers : pc'[k] = pc[k]
  BY <1>1, HandlerFacts, HandlersAssumption
<1>5. Cleared'
  BY <1>1, <1>3, <1>4, HandlerFacts DEF Inv, Cleared
<1>6. ExecutingHasOwner'
  BY <1>1 DEF ExecutingHasOwner, Working
<1>7. QED
  BY <1>2, <1>5, <1>6 DEF Inv, Unrecorded, AwaitingIsUntouched

\* An approve handler that was not granted, and is not granted now.
LEMMA RefusalKeepsInv ==
    ASSUME TypeOK, Inv, NEW c \in Approvers,
           pc[c] \in {"idle", "authorizing"},
           NEW where \in {"authorizing", "refused"}, GoTo(c, where),
           UNCHANGED <<session, admissible, offered, live, memory>>
    PROVE  Inv'
<1>1. /\ pc'[c] = where
      /\ \A g \in Handlers : g # c => pc'[g] = pc[g]
  BY GoToFacts, PlaceFacts, HandlerFacts
<1>2. Granted' = Granted
  BY <1>1, HandlerFacts DEF Granted
<1>3. \A k \in Rollbackers : pc'[k] = pc[k]
  BY <1>1, HandlerFacts, HandlersAssumption
<1>4. Cleared'
  BY <1>1, <1>2, <1>3, HandlerFacts DEF Inv, Cleared
<1>5. \A d \in Approvers : pc[d] \in Working => pc'[d] = pc[d]
  BY <1>1, HandlerFacts DEF Working
<1>6. ExecutingHasOwner'
  BY <1>5 DEF Inv, ExecutingHasOwner
<1>7. QED
  BY <1>2, <1>4, <1>6 DEF Inv, Unrecorded, AwaitingIsUntouched

\* An approve handler that was granted and goes on: it stays in charge, or it
\* was not or closes the session.
LEMMA WorkKeepsInv ==
    ASSUME TypeOK, Inv, NEW c \in Granted,
           NEW where \in PCs \ {"idle", "authorizing", "refused"},
           \A g \in Handlers : pc'[g] = IF g = c THEN where ELSE pc[g],
           \/ Closed(session, session')
           \/ session' = session /\ (pc[c] \in Working => where \in Working),
           where \in {"announcing", "executing"} => admissible,
           offered' # offered \/ live' # live => admissible,
           UNCHANGED <<admissible, memory>>
    PROVE  Inv'
<1>1. c \in Approvers /\ c \in Handlers
  BY HandlerFacts DEF Granted
<1>2. Granted' = Granted
  BY <1>1, HandlerFacts DEF Granted
<1>3. \A k \in Rollbackers : pc'[k] = pc[k]
  BY <1>1, HandlerFacts, HandlersAssumption
<1>4. Cleared'
  BY <1>1, <1>2, <1>3, HandlerFacts DEF Inv, Cleared
<1>5. session.phase # "awaiting_approval" /\ session'.phase # "awaiting_approval"
  BY PhaseFacts DEF Inv, AwaitingIsUntouched, Closed
<1>6. ExecutingHasOwner'
  <2>1. CASE Closed(session, session')
    BY <2>1, PhaseFacts DEF ExecutingHasOwner, Closed
  <2>2. CASE session' = session /\ (pc[c] \in Working => where \in Working)
    <3>1. \A d \in Approvers : pc[d] \in Working => pc'[d] \in Working
      BY <2>2, HandlerFacts
    <3>2. QED
      BY <2>2, <3>1 DEF Inv, ExecutingHasOwner
  <2>3. QED
    BY <2>1, <2>2
<1>7. QED
  BY <1>4, <1>5, <1>6 DEF Inv, Unrecorded, AwaitingIsUntouched

LEMMA StepInv ==
    ASSUME TypeOK, Inv, [Next]_vars
    PROVE  Inv'
<1>1. session \in SessionType
  BY DEF TypeOK
<1>2. ASSUME NEW c \in Approvers, StartApprove(c)
      PROVE  Inv'
  <2>1. CASE GoTo(c, "approved") /\ session' = Approve(session)
    BY <1>2, <2>1, GrantKeepsInv DEF StartApprove
  <2>2. CASE GoTo(c, "refused") /\ UNCHANGED session
    BY <1>2, <2>2, RefusalKeepsInv DEF StartApprove
  <2>3. CASE GoTo(c, "authorizing") /\ UNCHANGED session
    BY <1>2, <2>3, RefusalKeepsInv DEF StartApprove
  <2>4. QED
    BY <1>2, <2>1, <2>2, <2>3 DEF StartApprove, Decide
<1>3. ASSUME NEW c \in Approvers, FinishAuthorize(c)
      PROVE  Inv'
  <2>1. CASE GoTo(c, "approved") /\ session' = Approve(session)
    BY <1>3, <2>1, GrantKeepsInv DEF FinishAuthorize
  <2>2. CASE GoTo(c, "refused") /\ UNCHANGED session
    BY <1>3, <2>2, RefusalKeepsInv DEF FinishAuthorize
  <2>3. QED
    BY <1>3, <2>1, <2>2 DEF FinishAuthorize, Decide
<1>4. ASSUME NEW c \in Approvers, NEW where, GoTo(c, where)
      PROVE  \A g \in Handlers : pc'[g] = IF g = c THEN where ELSE pc[g]
  BY <1>4 DEF GoTo, TypeOK
<1>5. \A c \in Approvers : pc[c] \notin {"idle", "authorizing", "refused"} => c \in Granted
  BY DEF Granted
<1>6. ASSUME NEW c \in Approvers, Preflight(c)
      PROVE  Inv'
  <2>1. CASE admissible /\ GoTo(c, "announcing") /\ UNCHANGED session
    BY <1>4, <1>5, <1>6, <2>1, WorkKeepsInv, PlaceFacts DEF Preflight, Working
  <2>2. CASE GoTo(c, "done") /\ session' = Fail(session)
    BY <1>1, <1>4, <1>5, <1>6, <2>2, WorkKeepsInv, ClosingFacts, PlaceFacts DEF Preflight
  <2>3. QED
    BY <1>6, <2>1, <2>2 DEF Preflight
<1>7. ASSUME NEW c \in Approvers, StartExecute(c)
      PROVE  Inv'
  <2>1. CASE admissible
    BY <1>4, <1>5, <1>7, <2>1, WorkKeepsInv, PlaceFacts DEF StartExecute, Working
  <2>2. CASE ~admissible
    BY <1>1, <1>4, <1>5, <1>7, <2>2, WorkKeepsInv, ClosingFacts, PlaceFacts DEF StartExecute
  <2>3. QED
    BY <2>1, <2>2
<1>8. ASSUME NEW c \in Approvers, RunRound(c)
      PROVE  Inv'
  <2>1. admissible
    BY <1>8 DEF RunRound, Inv, Cleared
  <2>2. \A g \in Handlers : pc'[g] = IF g = c THEN "executing" ELSE pc[g]
    BY <1>8 DEF RunRound
  <2>3. QED
    BY <1>5, <1>8, <2>1, <2>2, WorkKeepsInv, PlaceFacts DEF RunRound, Working
<1>9. ASSUME NEW c \in Approvers, FinishExecute(c)
      PROVE  Inv'
  <2>1. admissible
    BY <1>9 DEF FinishExecute, Inv, Cleared
  <2>2. CASE GoTo(c, "succeeded") /\ session' = MarkResolved(session)
    BY <1>1, <1>4, <1>5, <1>9, <2>1, <2>2, WorkKeepsInv, ClosingFacts, PlaceFacts
       DEF FinishExecute
  <2>3. CASE GoTo(c, "unsuccessful") /\ session' = Fail(session)
    BY <1>1, <1>4, <1>5, <1>9, <2>1, <2>3, WorkKeepsInv, ClosingFacts, PlaceFacts
       DEF FinishExecute
  <2>4. QED
    BY <1>9, <2>2, <2>3 DEF FinishExecute
<1>10. ASSUME NEW c \in Approvers, Report(c)
       PROVE  Inv'
  <2>1. CASE GoTo(c, "resolving")
    BY <1>4, <1>5, <1>10, <2>1, WorkKeepsInv, PlaceFacts DEF Report, Working
  <2>2. CASE GoTo(c, "done")
    BY <1>4, <1>5, <1>10, <2>2, WorkKeepsInv, PlaceFacts DEF Report, Working
  <2>3. QED
    BY <1>10, <2>1, <2>2 DEF Report, ResolveOrFinish
<1>11. ASSUME NEW h \in Handlers \ Approvers, NEW where, GoTo(h, where)
       PROVE  /\ \A c \in Approvers : pc'[c] = pc[c]
              /\ \A g \in Handlers : pc'[g] = IF g = h THEN where ELSE pc[g]
  BY <1>11, HandlerFacts DEF GoTo, TypeOK
<1>12. /\ Rejecters \subseteq Handlers \ Approvers
       /\ Resolvers \subseteq Handlers \ Approvers
       /\ Rollbackers \subseteq Handlers \ Approvers
       /\ (Rejecters \cup Resolvers) \cap Rollbackers = {}
  BY HandlerFacts, HandlersAssumption
<1>13. ASSUME NEW r \in Rejecters, StartReject(r)
       PROVE  Inv'
  <2>1. \A k \in Rollbackers : pc'[k] = pc[k]
    BY <1>11, <1>12, <1>13, HandlerFacts DEF StartReject
  <2>2. QED
    BY <1>1, <1>11, <1>12, <1>13, <2>1, ByStandersKeepInv, ClosingFacts DEF StartReject
<1>14. ASSUME NEW r \in Rejecters \cup Resolvers, ResolveOrFinish(r)
       PROVE  \A g \in Approvers \cup Rollbackers : pc'[g] = pc[g]
  BY <1>11, <1>12, <1>14, HandlerFacts DEF ResolveOrFinish
<1>15. ASSUME NEW r \in Rejecters, FinishReject(r)
       PROVE  Inv'
  BY <1>14, <1>15, ByStandersKeepInv DEF FinishReject
<1>16. ASSUME NEW g \in Resolvers, GrafanaResolved(g)
       PROVE  Inv'
  <2>1. CASE session' = MarkResolved(session) /\ ResolveOrFinish(g)
    BY <1>1, <1>14, <1>16, <2>1, ByStandersKeepInv, ClosingFacts DEF GrafanaResolved
  <2>2. CASE GoTo(g, "done") /\ UNCHANGED session
    <3>1. \A k \in Rollbackers : pc'[k] = pc[k]
      BY <1>11, <1>12, <2>2, HandlerFacts
    <3>2. QED
      BY <1>11, <1>12, <1>16, <2>2, <3>1, ByStandersKeepInv DEF GrafanaResolved
  <2>3. QED
    BY <1>16, <2>1, <2>2 DEF GrafanaResolved
<1>17. ASSUME NEW k \in Rollbackers, StartRollback(k)
       PROVE  Inv'
  <2>1. \A c \in Approvers : pc'[c] = pc[c]
    BY <1>11, <1>12, <1>17 DEF StartRollback
  <2>2. offered
    BY <1>17 DEF StartRollback, RollbackOffered
  <2>3. QED
    BY <1>17, <2>1, <2>2, ByStandersKeepInv DEF StartRollback
<1>18. ASSUME NEW k \in Rollbackers, FinishRollback(k)
       PROVE  Inv'
  <2>1. \A c \in Approvers : pc'[c] = pc[c]
    BY <1>11, <1>12, <1>18 DEF FinishRollback
  <2>2. \A j \in Rollbackers : pc'[j] = "rolling" => pc[j] = "rolling"
    BY <1>11, <1>12, <1>18, HandlerFacts DEF FinishRollback
  <2>3. QED
    BY <1>18, <2>1, <2>2, ByStandersKeepInv DEF FinishRollback
<1>19. ASSUME NEW h \in Handlers, Notifying(h)
       PROVE  Inv'
  <2>1. PICK p \in Providers : ResolveIncident(h, p)
    BY <1>19 DEF Notifying
  <2>2. \A k \in Rollbackers : pc'[k] = "rolling" => pc[k] = "rolling"
    BY <2>1, HandlerFacts DEF ResolveIncident, GoTo, TypeOK
  <2>3. CASE h \in Approvers
    <3>1. PICK where \in {"done", "resolving"} : GoTo(h, where)
      BY <2>1 DEF ResolveIncident
    <3>2. QED
      BY <1>4, <1>5, <2>1, <2>3, <3>1, WorkKeepsInv, PlaceFacts DEF ResolveIncident, Working
  <2>4. CASE h \notin Approvers
    <3>1. \A c \in Approvers : pc'[c] = pc[c]
      BY <1>11, <2>1, <2>4 DEF ResolveIncident
    <3>2. QED
      BY <2>1, <2>2, <3>1, ByStandersKeepInv DEF ResolveIncident
  <2>5. QED
    BY <2>3, <2>4
<1>20. CASE AutoReject
  BY <1>1, <1>20, ByStandersKeepInv, ClosingFacts DEF AutoReject
<1>21. CASE Elapse \/ Remind \/ Escalated
  BY <1>21, ByStandersKeepInv DEF Elapse, Remind, Escalated
<1>22. CASE StoreIncidentIds \/ \E p \in Providers : CreateIncident(p)
  BY <1>22, ByStandersKeepInv DEF StoreIncidentIds, CreateIncident
<1>23. CASE RecordToMemory
  <2>1. session'.phase = session.phase /\ session'.status = session.status
    BY <1>1, <1>23, RecordStartedFacts DEF RecordToMemory
  <2>2. session.phase # "awaiting_approval"
    BY <1>1, <1>23 DEF RecordToMemory, Inv, Unrecorded, SessionType
  <2>3. QED
    BY <1>23, <2>1, <2>2
       DEF RecordToMemory, Inv, Cleared, Granted, Unrecorded, AwaitingIsUntouched,
           ExecutingHasOwner
<1>24. CASE UNCHANGED vars
  BY <1>24, ByStandersKeepInv DEF vars
<1>25. QED
  BY <1>2, <1>3, <1>6, <1>7, <1>8, <1>9, <1>10, <1>13, <1>15, <1>16, <1>17,
     <1>18, <1>19, <1>20, <1>21, <1>22, <1>23, <1>24 DEF Next, Approving, Executing, Escalating

LEMMA Invariance == Spec => []Inv
<1>1. QED
  BY InitType, InitInv, StepType, StepInv, PTL DEF Spec

\* A fix is not executed, nor rolled back, without a granted approval and
\* guardrails that passed.
THEOREM NoUnapprovedChange == Spec => []NothingLiveUnapproved
<1>1. Inv => NothingLiveUnapproved
  BY DEF Inv, Cleared, NothingLiveUnapproved
<1>2. QED
  BY <1>1, Invariance, PTL

\* A session in phase executing is always in some handler's hands.
THEOREM NeverStuckExecuting == Spec => []ExecutingHasOwner
<1>1. Inv => ExecutingHasOwner
  BY DEF Inv
<1>2. QED
  BY <1>1, Invariance, PTL

\* The timer can only reject what nobody was granted.
THEOREM TimerRejectsOnlyUntouched == Spec => []AwaitingIsUntouched
<1>1. Inv => AwaitingIsUntouched
  BY DEF Inv
<1>2. QED
  BY <1>1, Invariance, PTL

-----------------------------------------------------------------------------
(* Reopening, double execution and the recordings *)

\* The three kinds of step.  A click is granted: at once, or when the group
\* has been fetched.
GrantStep(c) ==
    /\ pc[c] = "idle" => session.phase = "awaiting_approval"
    /\ pc[c] \in {"idle", "authorizing"}
    /\ pc'[c] = "approved"
    /\ \A d \in Approvers : d # c => pc'[d] = pc[d]
    /\ session' = Approve(session)
    /\ memory' = memory /\ admissible' = admissible /\ live' = live

\* Nobody is granted; the session stays as it is or is closed, and what changes
\* the cluster does not close it in the same step.
OtherStep ==
    /\ Granted' = Granted
    /\ \A c \in Approvers : pc'[c] = "authorizing" => pc[c] = "authorizing" \/ c \in ViaGroup
    /\ session' = session \/ Closed(session, session')
    /\ memory' = memory /\ admissible' = admissible
    /\ live \subseteq live' /\ (live' = live \/ session' = session)

\* A scheduled recording is made.
RecordStep ==
    /\ session.recording > 0
    /\ session' = RecordStarted(session)
    /\ pc' = pc
    /\ memory' \in {memory, memory \cup {DetermineOutcome(session)}}
    /\ admissible' = admissible /\ live' = live

\* A step of an approve handler that is not the granting of its click.
LEMMA ApproverMoves ==
    ASSUME TypeOK, NEW c \in Approvers, NEW where \in PCs, GoTo(c, where),
           (pc[c] \in {"idle", "authorizing", "refused"})
             <=> (where \in {"idle", "authorizing", "refused"}),
           where = "authorizing" => c \in ViaGroup,
           session' = session \/ Closed(session, session'),
           memory' = memory, admissible' = admissible,
           live \subseteq live', live' = live \/ session' = session
    PROVE  OtherStep
<1>1. pc'[c] = where /\ \A d \in Approvers : d # c => pc'[d] = pc[d]
  BY GoToFacts, HandlerFacts
<1>2. Granted' = Granted
  BY <1>1 DEF Granted
<1>3. QED
  BY <1>1, <1>2 DEF OtherStep

\* A step in which no approve handler moves.
LEMMA OthersMove ==
    ASSUME \A c \in Approvers : pc'[c] = pc[c],
           session' = session \/ Closed(session, session'),
           memory' = memory, admissible' = admissible,
           live \subseteq live', live' = live \/ session' = session
    PROVE  OtherStep
  BY DEF OtherStep, Granted

LEMMA StepShape ==
    ASSUME TypeOK, [Next]_vars
    PROVE  (\E c \in Approvers : GrantStep(c)) \/ OtherStep \/ RecordStep
<1>1. session \in SessionType
  BY DEF TypeOK
<1>2. ASSUME NEW c \in Approvers, StartApprove(c)
      PROVE  GrantStep(c) \/ OtherStep
  <2>1. CASE AwaitsApproval /\ GoTo(c, "approved") /\ session' = Approve(session)
    BY <1>2, <2>1, GoToFacts, PlaceFacts, HandlerFacts
       DEF StartApprove, AwaitsApproval, GrantStep
  <2>2. CASE GoTo(c, "refused") /\ UNCHANGED session
    BY <1>2, <2>2, ApproverMoves, PlaceFacts DEF StartApprove
  <2>3. CASE c \in ViaGroup /\ GoTo(c, "authorizing") /\ UNCHANGED session
    BY <1>2, <2>3, ApproverMoves, PlaceFacts DEF StartApprove
  <2>4. QED
    BY <1>2, <2>1, <2>2, <2>3 DEF StartApprove, Decide
<1>3. ASSUME NEW c \in Approvers, FinishAuthorize(c)
      PROVE  GrantStep(c) \/ OtherStep
  <2>1. CASE GoTo(c, "approved") /\ session' = Approve(session)
    BY <1>3, <2>1, GoToFacts, PlaceFacts, HandlerFacts DEF FinishAuthorize, GrantStep
  <2>2. CASE GoTo(c, "refused") /\ UNCHANGED session
    BY <1>3, <2>2, ApproverMoves, PlaceFacts DEF FinishAuthorize
  <2>3. QED
    BY <1>3, <2>1, <2>2 DEF FinishAuthorize, Decide
<1>4. ASSUME NEW c \in Approvers, Preflight(c)
      PROVE  OtherStep
  <2>1. session' = session \/ Closed(session, session')
    BY <1>1, <1>4, ClosingFacts DEF Preflight
  <2>2. PICK where \in {"announcing", "done"} : GoTo(c, where)
    BY <1>4 DEF Preflight
  <2>3. QED
    BY <1>4, <2>1, <2>2, ApproverMoves, PlaceFacts DEF Preflight
<1>5. ASSUME NEW c \in Approvers, StartExecute(c)
      PROVE  OtherStep
  <2>1. session' = session \/ Closed(session, session')
    BY <1>1, <1>5, ClosingFacts DEF StartExecute
  <2>2. PICK where \in {"executing", "unsuccessful"} : GoTo(c, where)
    BY <1>5 DEF StartExecute
  <2>3. QED
    BY <1>5, <2>1, <2>2, ApproverMoves, PlaceFacts DEF StartExecute
<1>6. ASSUME NEW c \in Approvers, RunRound(c)
      PROVE  OtherStep
  BY <1>6, OthersMove DEF RunRound
<1>7. ASSUME NEW c \in Approvers, FinishExecute(c)
      PROVE  OtherStep
  <2>1. session' = session \/ Closed(session, session')
    BY <1>1, <1>7, ClosingFacts DEF FinishExecute
  <2>2. PICK where \in {"succeeded", "unsuccessful"} : GoTo(c, where)
    BY <1>7 DEF FinishExecute
  <2>3. QED
    BY <1>7, <2>1, <2>2, ApproverMoves, PlaceFacts DEF FinishExecute
<1>8. ASSUME NEW c \in Approvers, Report(c)
      PROVE  OtherStep
  <2>1. PICK where \in {"resolving", "done"} : GoTo(c, where)
    BY <1>8 DEF Report, ResolveOrFinish
  <2>2. QED
    BY <1>8, <2>1, ApproverMoves, PlaceFacts DEF Report
<1>9. ASSUME NEW h \in Handlers \ Approvers, NEW where, GoTo(h, where)
      PROVE  \A c \in Approvers : pc'[c] = pc[c]
  BY <1>9, HandlerFacts DEF GoTo, TypeOK
<1>10. /\ Rejecters \subseteq Handlers \ Approvers
       /\ Resolvers \subseteq Handlers \ Approvers
       /\ Rollbackers \subseteq Handlers \ Approvers
  BY HandlerFacts, HandlersAssumption
<1>11. ASSUME NEW r \in Rejecters, StartReject(r)
       PROVE  OtherStep
  BY <1>1, <1>9, <1>10, <1>11, OthersMove, ClosingFacts DEF StartReject
<1>12. ASSUME NEW r \in Rejecters, FinishReject(r)
       PROVE  OtherStep
  BY <1>9, <1>10, <1>12, OthersMove DEF FinishReject, ResolveOrFinish
<1>13. ASSUME NEW g \in Resolvers, GrafanaResolved(g)
       PROVE  OtherStep
  <2>1. session' = session \/ Closed(session, session')
    BY <1>1, <1>13, ClosingFacts DEF GrafanaResolved
  <2>2. PICK where \in {"resolving", "done"} : GoTo(g, where)
    BY <1>13 DEF GrafanaResolved, ResolveOrFinish
  <2>3. QED
    BY <1>9, <1>10, <1>13, <2>1, <2>2, OthersMove DEF GrafanaResolved
<1>14. ASSUME NEW k \in Rollbackers, StartRollback(k) \/ FinishRollback(k)
       PROVE  OtherStep
  BY <1>9, <1>10, <1>14, OthersMove DEF StartRollback, FinishRollback
<1>15. ASSUME NEW h \in Handlers, Notifying(h)
       PROVE  OtherStep
  <2>1. PICK p \in Providers : ResolveIncident(h, p)
    BY <1>15 DEF Notifying
  <2>2. PICK where \in {"resolving", "done"} : GoTo(h, where)
    BY <2>1 DEF ResolveIncident
  <2>3. CASE h \in Approvers
    BY <2>1, <2>2, <2>3, ApproverMoves, PlaceFacts DEF ResolveIncident
  <2>4. CASE h \notin Approvers
    BY <1>9, <2>1, <2>2, <2>4, OthersMove DEF ResolveIncident
  <2>5. QED
    BY <2>3, <2>4
<1>16. CASE Elapse \/ Escalating
  <2>1. session' = session \/ Closed(session, session')
    BY <1>1, <1>16, ClosingFacts
       DEF Elapse, Escalating, AutoReject, Remind, Escalated, CreateIncident,
           StoreIncidentIds
  <2>2. UNCHANGED <<pc, memory, admissible, live>>
    BY <1>16
       DEF Elapse, Escalating, AutoReject, Remind, Escalated, CreateIncident,
           StoreIncidentIds
  <2>3. QED
    BY <2>1, <2>2, OthersMove
<1>17. CASE RecordToMemory
  BY <1>17 DEF RecordToMemory, RecordStep
<1>18. CASE UNCHANGED vars
  BY <1>18, OthersMove DEF vars
<1>19. QED
  BY <1>2, <1>3, <1>4, <1>5, <1>6, <1>7, <1>8, <1>11, <1>12, <1>13, <1>14,
     <1>15, <1>16, <1>17, <1>18 DEF Next, Approving, Executing

\* A session that is over is reopened only by an approval that had been waiting
\* for the members of a group.
THEOREM ReopenedOnlyByStaleClickAlways == Spec => ReopenedOnlyByStaleClick
<1> DEFINE Reopened == session.phase \in Terminal /\ session'.phase \notin Terminal
<1>1. ASSUME TypeOK, [Next]_vars, Reopened
      PROVE  \E c \in Approvers : pc[c] = "authorizing" /\ pc'[c] = "approved"
  <2>1. CASE \E c \in Approvers : GrantStep(c)
    BY <1>1, <2>1, PhaseFacts DEF GrantStep
  <2>2. CASE OtherStep
    BY <1>1, <2>2 DEF OtherStep, Closed
  <2>3. CASE RecordStep
    BY <1>1, <2>3, RecordStartedFacts DEF RecordStep, TypeOK
  <2>4. QED
    BY <1>1, <2>1, <2>2, <2>3, StepShape
<1>2. TypeOK /\ [Next]_vars =>
        [Reopened => \E c \in Approvers : pc[c] = "authorizing" /\ pc'[c] = "approved"]_vars
  BY <1>1
<1>3. QED
  BY <1>2, TypeCorrect, PTL DEF Spec, ReopenedOnlyByStaleClick

-----------------------------------------------------------------------------
(* Successes *)

\* Nobody was granted anything, and Grafana has not delivered "resolved".
Unexplained == Granted = {} /\ \A g \in Resolvers : pc[g] = "idle"

\* Until then the session is rejected at most, and nothing says "success".
Modest == Unexplained => Unexecuted(session) /\ "success" \notin memory

\* A step after which nobody was granted anything and nothing was delivered
\* comes from such a state, and does no more than reject or record.
LEMMA UnexplainedStep ==
    ASSUME TypeOK, [Next]_vars, Unexplained'
    PROVE  /\ Unexplained
           /\ \/ RecordStep
              \/ memory' = memory /\ session' \in {session, Reject(session)}
<1> DEFINE Goal == /\ Unexplained
                   /\ memory' = memory /\ session' \in {session, Reject(session)}
<1>1. CASE \E c \in Approvers : GrantStep(c)
  BY <1>1 DEF GrantStep, Unexplained, Granted
<1>2. CASE RecordStep
  BY <1>2 DEF RecordStep, Unexplained, Granted
<1>3. CASE OtherStep
  <2>1. Granted = {} /\ memory' = memory
    BY <1>3 DEF OtherStep, Unexplained
  <2>2. ASSUME NEW c \in Approvers
        PROVE  pc[c] \in {"idle", "authorizing", "refused"}
               /\ pc'[c] \in {"idle", "authorizing", "refused"}
    BY <2>1 DEF Granted, Unexplained
  <2>3. ASSUME NEW h \in Handlers, NEW where, where # "idle", GoTo(h, where),
               session' \in {session, Reject(session)}
        PROVE  Goal
    <3>1. pc'[h] = where /\ \A g \in Handlers : g # h => pc'[g] = pc[g]
      BY <2>3 DEF GoTo, TypeOK
    <3>2. \A g \in Resolvers : pc[g] = "idle"
      BY <2>3, <3>1, HandlerFacts DEF Unexplained
    <3>3. QED
      BY <2>1, <2>3, <3>2 DEF Unexplained
  <2>4. ASSUME pc' = pc, session' \in {session, Reject(session)}
        PROVE  Goal
    BY <2>1, <2>4 DEF Unexplained
  <2>5. ASSUME NEW c \in Approvers, StartApprove(c)
        PROVE  Goal
    <3>1. CASE GoTo(c, "approved")
      BY <2>2, <3>1, HandlerFacts DEF GoTo, TypeOK
    <3>2. CASE GoTo(c, "refused") /\ UNCHANGED session
      BY <2>3, <3>2, HandlerFacts
    <3>3. CASE GoTo(c, "authorizing") /\ UNCHANGED session
      BY <2>3, <3>3, HandlerFacts
    <3>4. QED
      BY <2>5, <3>1, <3>2, <3>3 DEF StartApprove, Decide
  <2>6. ASSUME NEW c \in Approvers, FinishAuthorize(c)
        PROVE  Goal
    <3>1. CASE GoTo(c, "approved")
      BY <2>2, <3>1, HandlerFacts DEF GoTo, TypeOK
    <3>2. CASE GoTo(c, "refused") /\ UNCHANGED session
      BY <2>3, <3>2, HandlerFacts
    <3>3. QED
      BY <2>6, <3>1, <3>2 DEF FinishAuthorize, Decide
  <2>7. ASSUME NEW c \in Approvers,
               \/ Preflight(c) \/ StartExecute(c) \/ RunRound(c)
               \/ FinishExecute(c) \/ Report(c)
        PROVE  FALSE
    BY <2>2, <2>7 DEF Preflight, StartExecute, RunRound, FinishExecute, Report
  <2>8. ASSUME NEW r \in Rejecters, StartReject(r)
        PROVE  Goal
    <3>1. GoTo(r, "posting") /\ session' = Reject(session)
      BY <2>8 DEF StartReject
    <3>2. QED
      BY <2>3, <3>1, HandlerFacts
  <2>9. ASSUME NEW r \in Rejecters, FinishReject(r)
        PROVE  Goal
    <3>1. PICK where \in {"resolving", "done"} : GoTo(r, where)
      BY <2>9 DEF FinishReject, ResolveOrFinish
    <3>2. session' = session
      BY <2>9 DEF FinishReject
    <3>3. QED
      BY <2>3, <3>1, <3>2, HandlerFacts
  <2>10. ASSUME NEW g \in Resolvers, GrafanaResolved(g)
         PROVE  FALSE
    <3>1. PICK where \in {"resolving", "done"} : GoTo(g, where)
      BY <2>10 DEF GrafanaResolved, ResolveOrFinish
    <3>2. pc'[g] = where
      BY <3>1, HandlerFacts DEF GoTo, TypeOK
    <3>3. QED
      BY <3>1, <3>2 DEF Unexplained
  <2>11. ASSUME NEW k \in Rollbackers, StartRollback(k) \/ FinishRollback(k)
         PROVE  Goal
    <3>1. PICK where \in {"rolling", "done"} : GoTo(k, where)
      BY <2>11 DEF StartRollback, FinishRollback
    <3>2. session' = session
      BY <2>11 DEF StartRollback, FinishRollback
    <3>3. QED
      BY <2>3, <3>1, <3>2, HandlerFacts
  <2>12. ASSUME NEW h \in Handlers, Notifying(h)
         PROVE  Goal
    <3>1. PICK where \in {"resolving", "done"} : GoTo(h, where)
      BY <2>12 DEF Notifying, ResolveIncident
    <3>2. session' = session
      BY <2>12 DEF Notifying, ResolveIncident
    <3>3. QED
      BY <2>3, <3>1, <3>2
  <2>13. CASE Elapse \/ Escalating
    BY <2>4, <2>13
       DEF Elapse, Escalating, AutoReject, Remind, Escalated, CreateIncident,
           StoreIncidentIds
  <2>14. CASE RecordToMemory
    BY <2>1, <2>14 DEF RecordToMemory, RecordStep, Unexplained
  <2>15. CASE UNCHANGED vars
    BY <2>4, <2>15 DEF vars
  <2>16. QED
    BY <2>5, <2>6, <2>7, <2>8, <2>9, <2>10, <2>11, <2>12, <2>13, <2>14, <2>15
       DEF Next, Approving, Executing
<1>4. QED
  BY <1>1, <1>2, <1>3, StepShape

\* Incident memory calls a session a success only if its fix was let run or
\* Grafana said that the alert is gone.
THEOREM SuccessAlwaysExplained == Spec => []SuccessIsExplained
<1>1. Init => Modest
  <2> SUFFICES ASSUME Init PROVE Modest
    OBVIOUS
  <2>1. ASSUME NEW d \in BOOLEAN
        PROVE  Unexecuted(Proposed(d))
    <3>1. Proposed(d).phase = "awaiting_approval"
      BY ProposedFacts
    <3>2. ~Proposed(d).executed
      BY DEF Proposed, RequestApproval, SetFixProposal, SetDiagnosis, Transition,
             NewSession, Terminal
    <3>3. QED
      BY <3>1, <3>2 DEF Unexecuted
  <2>2. QED
    BY <2>1 DEF Init, Modest
<1>2. TypeOK /\ Modest /\ [Next]_vars => Modest'
  <2> SUFFICES ASSUME TypeOK, Modest, [Next]_vars, Unexplained'
               PROVE  Unexecuted(session') /\ "success" \notin memory'
    BY DEF Modest
  <2>1. Unexecuted(session) /\ "success" \notin memory
    BY UnexplainedStep DEF Modest
  <2>2. CASE RecordStep
    <3>1. /\ DetermineOutcome(session) # "success"
          /\ Unexecuted(RecordStarted(session))
      BY <2>1, UnexecutedFacts DEF TypeOK
    <3>2. QED
      BY <2>1, <2>2, <3>1 DEF RecordStep
  <2>3. CASE memory' = memory /\ session' \in {session, Reject(session)}
    <3>1. Unexecuted(Reject(session))
      BY <2>1, UnexecutedFacts DEF TypeOK
    <3>2. QED
      BY <2>1, <2>3, <3>1
  <2>4. QED
    BY <2>2, <2>3, UnexplainedStep
<1>3. Modest => SuccessIsExplained
  BY DEF Modest, SuccessIsExplained, Unexplained
<1>4. QED
  BY <1>1, <1>2, <1>3, TypeCorrect, PTL DEF Spec

-----------------------------------------------------------------------------
(* Without group lookups *)

\* With no group to look up, no approval is ever in flight.
NothingInFlight == \A c \in Approvers : pc[c] # "authorizing"

Exclusive == NothingInFlight /\ SingleExecution /\ RecordedAfterEnd

LEMMA InitExclusive == Init => Exclusive
<1> SUFFICES ASSUME Init PROVE Exclusive
  OBVIOUS
<1>1. \A c \in Approvers : pc[c] = "idle"
  BY HandlerFacts DEF Init
<1>2. session.recording = 0
  BY ProposedFacts DEF Init
<1>3. QED
  BY <1>1, <1>2
     DEF Exclusive, NothingInFlight, SingleExecution, Granted, RecordedAfterEnd, Init

\* A click is granted only in a session that awaits approval, which nobody else
\* was granted and nothing was recorded of.
LEMMA StepExclusive ==
    ASSUME ViaGroup = {}, TypeOK, Inv, Exclusive, [Next]_vars
    PROVE  Exclusive'
<1>1. ASSUME NEW c \in Approvers, GrantStep(c)
      PROVE  Exclusive'
  <2>1. session.phase = "awaiting_approval"
    BY <1>1 DEF GrantStep, Exclusive, NothingInFlight
  <2>2. Granted = {} /\ session.recording = 0
    BY <2>1 DEF Inv, AwaitingIsUntouched, Unrecorded
  <2>3. Granted' \subseteq {c}
    BY <1>1, <2>2 DEF GrantStep, Granted
  <2>4. session'.recording = 0
    BY <1>1, <2>2, ApproveFacts DEF GrantStep, TypeOK
  <2>5. NothingInFlight'
    BY <1>1 DEF GrantStep, Exclusive, NothingInFlight
  <2>6. RecordedAfterEnd'
    BY <1>1, <2>4 DEF GrantStep, Exclusive, RecordedAfterEnd
  <2>7. SingleExecution'
    BY <2>3 DEF SingleExecution
  <2>8. QED
    BY <2>5, <2>6, <2>7 DEF Exclusive
<1>2. CASE OtherStep
  <2>1. NothingInFlight' /\ SingleExecution'
    BY <1>2 DEF OtherStep, Exclusive, NothingInFlight, SingleExecution
  <2>2. RecordedAfterEnd'
    BY <1>2 DEF OtherStep, Closed, Exclusive, RecordedAfterEnd
  <2>3. QED
    BY <2>1, <2>2 DEF Exclusive
<1>3. CASE RecordStep
  <2>1. NothingInFlight' /\ SingleExecution'
    BY <1>3 DEF RecordStep, Exclusive, NothingInFlight, SingleExecution, Granted
  <2>2. session.phase \in Terminal /\ session'.phase = session.phase
    BY <1>3, RecordStartedFacts DEF RecordStep, Exclusive, RecordedAfterEnd, TypeOK
  <2>3. "unknown" \notin memory'
    BY <1>3, <2>2, OutcomeFacts DEF RecordStep, Exclusive, RecordedAfterEnd, TypeOK
  <2>4. QED
    BY <2>1, <2>2, <2>3 DEF Exclusive, RecordedAfterEnd
<1>4. QED
  BY <1>1, <1>2, <1>3, StepShape

LEMMA Exclusion ==
    ASSUME ViaGroup = {}
    PROVE  Spec => []Exclusive
<1>1. TypeOK /\ Inv /\ Exclusive /\ [Next]_vars => Exclusive'
  BY StepExclusive
<1>2. QED
  BY <1>1, InitExclusive, TypeCorrect, Invariance, PTL DEF Spec

\* Without group lookups a fix is executed for one click at most, however many
\* people click, and whatever the timer, Grafana and the others do meanwhile.
THEOREM ApprovedOnce ==
    ASSUME ViaGroup = {}
    PROVE  Spec => []SingleExecution
<1>1. Exclusive => SingleExecution
  BY DEF Exclusive
<1>2. QED
  BY <1>1, Exclusion, PTL

\* Without group lookups no session is recorded before its end.
THEOREM NeverRecordedEarly ==
    ASSUME ViaGroup = {}
    PROVE  Spec => []RecordedAfterEnd
<1>1. Exclusive => RecordedAfterEnd
  BY DEF Exclusive
<1>2. QED
  BY <1>1, Exclusion, PTL

-----------------------------------------------------------------------------
(* The incidents of providers that do not fail stay within reach. *)

\* Between two callbacks the timer holds no ids.
Tracked ==
    /\ IncidentsAreKnown
    /\ timer.at # "creating" => timer.made = {}

LEMMA InitTracked == Init => Tracked
  BY DEF Init, Tracked, IncidentsAreKnown

\* Only the callback opens incidents and collects their ids.
LEMMA OthersKeepTracked ==
    ASSUME Tracked, open' \subseteq open, ids' = ids,
           timer' = timer \/ (timer'.at # "creating" /\ timer.at # "creating"
                                /\ timer'.made = timer.made)
    PROVE  Tracked'
  BY DEF Tracked, IncidentsAreKnown

LEMMA StepTracked == TypeOK /\ Tracked /\ [Next]_vars => Tracked'
<1> SUFFICES ASSUME TypeOK, Tracked, [Next]_vars
             PROVE  Tracked'
  OBVIOUS
<1>0. timer \in TimerType
  BY DEF TypeOK
<1>1. ASSUME NEW c \in Approvers,
             StartApprove(c) \/ Approving(c) \/ Executing(c)
      PROVE  Tracked'
  BY <1>1, OthersKeepTracked
     DEF StartApprove, Approving, Executing, FinishAuthorize, Preflight, StartExecute,
         RunRound, FinishExecute, Report
<1>2. ASSUME NEW r \in Rejecters, StartReject(r) \/ FinishReject(r)
      PROVE  Tracked'
  BY <1>2, OthersKeepTracked DEF StartReject, FinishReject
<1>3. ASSUME NEW g \in Resolvers, GrafanaResolved(g)
      PROVE  Tracked'
  BY <1>3, OthersKeepTracked DEF GrafanaResolved
<1>4. ASSUME NEW k \in Rollbackers, StartRollback(k) \/ FinishRollback(k)
      PROVE  Tracked'
  BY <1>4, OthersKeepTracked DEF StartRollback, FinishRollback
<1>5. ASSUME NEW h \in Handlers, Notifying(h)
      PROVE  Tracked'
  BY <1>5, OthersKeepTracked DEF Notifying, ResolveIncident
<1>6. CASE Elapse
  <2>1. timer'.at = timer.at /\ timer'.made = timer.made
    BY <1>0, <1>6 DEF Elapse, TimerType
  <2>2. QED
    BY <1>6, <2>1 DEF Elapse, Tracked, IncidentsAreKnown
<1>7. CASE AutoReject \/ Remind
  <2>1. timer.at # "creating" /\ timer'.at # "creating" /\ timer'.made = timer.made
    BY <1>0, <1>7 DEF AutoReject, Remind, TimerType
  <2>2. QED
    BY <1>7, <2>1, OthersKeepTracked DEF AutoReject, Remind
<1>8. CASE Escalated
  <2>1. timer.made = {} /\ timer'.made = {}
    BY <1>0, <1>8 DEF Escalated, Tracked, TimerType
  <2>2. QED
    BY <1>8, <2>1 DEF Escalated, Tracked, IncidentsAreKnown
<1>9. ASSUME NEW p \in Providers, CreateIncident(p)
      PROVE  Tracked'
  <2>1. timer'.at = timer.at
    BY <1>0, <1>9 DEF CreateIncident, TimerType
  <2>2. CASE open' = open \cup {p} /\ timer' = [timer EXCEPT !.todo = @ \ {p}, !.made = @ \cup {p}]
    <3>1. timer'.made = timer.made \cup {p}
      BY <1>0, <2>2 DEF TimerType
    <3>2. QED
      BY <1>9, <2>1, <2>2, <3>1 DEF CreateIncident, Tracked, IncidentsAreKnown
  <2>3. CASE p \notin Reliable /\ open' \in {open, open \cup {p}}
               /\ timer' = [timer EXCEPT !.todo = @ \ {p}]
    <3>1. timer'.made = timer.made
      BY <1>0, <2>3 DEF TimerType
    <3>2. QED
      BY <1>9, <2>1, <2>3, <3>1 DEF CreateIncident, Tracked, IncidentsAreKnown
  <2>4. QED
    BY <1>9, <2>2, <2>3 DEF CreateIncident
<1>10. CASE StoreIncidentIds
  <2>1. timer'.made = {}
    BY <1>0, <1>10 DEF StoreIncidentIds, TimerType
  <2>2. QED
    BY <1>10, <2>1 DEF StoreIncidentIds, Tracked, IncidentsAreKnown
<1>11. CASE RecordToMemory
  BY <1>11, OthersKeepTracked DEF RecordToMemory
<1>12. CASE UNCHANGED vars
  BY <1>12, OthersKeepTracked DEF vars
<1>13. QED
  BY <1>1, <1>2, <1>3, <1>4, <1>5, <1>6, <1>7, <1>8, <1>9, <1>10, <1>11, <1>12
     DEF Next, Escalating

\* Whatever overlaps with the callback, an incident that a provider which does
\* not fail has opened can be resolved by its id.
THEOREM IncidentsAlwaysKnown == Spec => []IncidentsAreKnown
<1>1. TypeOK /\ Tracked /\ [Next]_vars => Tracked'
  BY StepTracked
<1>2. Tracked => IncidentsAreKnown
  BY DEF Tracked
<1>3. QED
  BY <1>1, <1>2, InitTracked, TypeCorrect, PTL DEF Spec
-----------------------------------------------------------------------------
(* The promise *)

\* Only a click that asks for the group waits for it, and an executing session
\* has a recording scheduled only if such a click was granted: it was over then.
OnlyLateUnknown ==
    /\ \A c \in Approvers : pc[c] = "authorizing" => c \in ViaGroup
    /\ session.recording > 0 /\ session.phase \notin Terminal
          => Granted \cap ViaGroup # {}

LEMMA InitOnlyLate == Init => OnlyLateUnknown
<1> SUFFICES ASSUME Init PROVE OnlyLateUnknown
  OBVIOUS
<1>1. \A c \in Approvers : pc[c] = "idle"
  BY HandlerFacts DEF Init
<1>2. session.recording = 0
  BY ProposedFacts DEF Init
<1> QED BY <1>1, <1>2 DEF OnlyLateUnknown

LEMMA GrantedFacts ==
    ASSUME NEW c \in Approvers, GrantStep(c)
    PROVE  c \notin Granted /\ Granted' = Granted \cup {c}
BY DEF GrantStep, Granted

LEMMA StepOnlyLate ==
    ASSUME TypeOK, Inv, OnlyLateUnknown, [Next]_vars
    PROVE  OnlyLateUnknown'
<1>1. ASSUME NEW c \in Approvers, GrantStep(c) PROVE OnlyLateUnknown'
  <2>1. Granted' = Granted \cup {c}
    BY <1>1, GrantedFacts
  <2>2. session'.recording = session.recording
    BY <1>1, ApproveFacts DEF GrantStep, TypeOK
  <2>3. CASE pc[c] = "authorizing"
    BY <1>1, <2>1, <2>3 DEF GrantStep, OnlyLateUnknown
  <2>4. CASE pc[c] = "idle"
    <3>1. session.recording = 0
      BY <1>1, <2>4 DEF GrantStep, Inv, Unrecorded
    <3> QED BY <1>1, <2>2, <3>1 DEF GrantStep, OnlyLateUnknown
  <2> QED BY <1>1, <2>3, <2>4 DEF GrantStep
<1>2. CASE OtherStep
  BY <1>2 DEF OtherStep, OnlyLateUnknown, Closed
<1>3. CASE RecordStep
  <2>1. session'.phase = session.phase /\ Granted' = Granted
    BY <1>3, RecordStartedFacts DEF RecordStep, TypeOK, Granted
  <2> QED BY <1>3, <2>1 DEF RecordStep, OnlyLateUnknown
<1> QED BY <1>1, <1>2, <1>3, StepShape

\* What the promise calls the state of the fix.
LEMMA StateFacts ==
    /\ session.phase \in Terminal => State = "over"
    /\ session.phase = "awaiting_approval" => State = "waiting"
    /\ session.phase \notin Terminal \cup {"awaiting_approval"} => State = "running"
BY DEF State, IsActive, Terminal

\* Every step of the handlers is one that was promised, or changes nothing the
\* promise speaks of.
LEMMA PromisedStep ==
    ASSUME TypeOK, Inv, Inv', OnlyLateUnknown, [Next]_vars
    PROVE  [Promised!Next]_(Promised!vars)
<1>1. ASSUME NEW c \in Approvers, GrantStep(c) PROVE Promised!Next
  <2>1. c \notin Granted /\ Granted' = Granted \cup {c}
    BY <1>1, GrantedFacts
  <2>2. State = "waiting" \/ c \in ViaGroup
    BY <1>1, StateFacts DEF GrantStep, OnlyLateUnknown
  <2>3. session'.phase = "executing"
    BY <1>1, ApproveFacts DEF GrantStep, TypeOK
  <2>4. State' = "running"
    BY <2>3 DEF State, IsActive, Terminal
  <2>5. Promised!Grant(c)
    BY <1>1, <2>1, <2>2, <2>4 DEF GrantStep, Promised!Grant
  <2> QED BY <2>5 DEF Promised!Next
<1>2. CASE OtherStep
  <2>1. CASE live' # live
    <3>1. live' # {} /\ session' = session
      BY <1>2, <2>1 DEF OtherStep
    <3>2. admissible /\ Granted # {}
      BY <1>2, <3>1 DEF OtherStep, Inv, Cleared
    <3>3. State' = State
      BY <3>1 DEF State
    <3>4. Promised!Change
      BY <1>2, <3>1, <3>2, <3>3 DEF OtherStep, Promised!Change
    <3> QED BY <3>4 DEF Promised!Next
  <2>2. CASE live' = live /\ session' = session
    <3>1. State' = State
      BY <2>2 DEF State
    <3> QED BY <1>2, <2>2, <3>1 DEF OtherStep, Promised!vars
  <2>3. CASE live' = live /\ Closed(session, session')
    <3>1. State' = "over"
      BY <2>3 DEF Closed, State, IsActive, Terminal
    <3>2. Promised!End
      BY <1>2, <2>3, <3>1 DEF OtherStep, Promised!End
    <3> QED BY <3>2 DEF Promised!Next
  <2> QED BY <1>2, <2>1, <2>2, <2>3 DEF OtherStep
<1>3. CASE RecordStep
  <2> DEFINE outcome == DetermineOutcome(session)
  <2>1. session'.phase = session.phase /\ session.recording > 0
    BY <1>3, RecordStartedFacts DEF RecordStep, TypeOK
  <2>2. State' = State /\ Granted' = Granted
    BY <1>3, <2>1 DEF RecordStep, State, IsActive, Granted
  <2>3. CASE memory' = memory
    BY <1>3, <2>2, <2>3 DEF RecordStep, Promised!vars
  <2>4. CASE memory' = memory \cup {outcome}
    <3>1. outcome \in {"success", "rejected", "escalated", "failed", "unknown"}
      BY OutcomeFacts DEF TypeOK, Outcomes
    <3>2. CASE session.phase \in Terminal
      <4>1. outcome # "unknown" /\ State = "over"
        BY <3>2, OutcomeFacts, StateFacts DEF TypeOK
      <4>2. Promised!Remember(outcome)
        BY <1>3, <2>2, <2>4, <4>1 DEF RecordStep, Promised!Remember
      <4> QED BY <3>1, <4>2 DEF Promised!Next
    <3>3. CASE session.phase \notin Terminal
      <4>1. outcome = "unknown"
        BY <3>3 DEF DetermineOutcome, Terminal
      <4>2. session.phase # "awaiting_approval" /\ Granted \cap ViaGroup # {}
        BY <2>1, <3>3 DEF Inv, Unrecorded, OnlyLateUnknown
      <4>3. State = "running"
        BY <3>3, <4>2, StateFacts
      <4>4. Promised!Remember(outcome)
        BY <1>3, <2>2, <2>4, <4>1, <4>2, <4>3 DEF RecordStep, Promised!Remember
      <4> QED BY <3>1, <4>4 DEF Promised!Next
    <3> QED BY <3>2, <3>3
  <2> QED BY <1>3, <2>3, <2>4 DEF RecordStep
<1> QED BY <1>1, <1>2, <1>3, StepShape

\* The handlers, the executor, the timer and the recordings implement Consent.
THEOREM PromiseKept == Spec => KeepsItsPromise
<1>1. Init => Promised!Init
  <2> SUFFICES ASSUME Init PROVE Promised!Init
    OBVIOUS
  <2>1. \A c \in Approvers : pc[c] = "idle"
    BY HandlerFacts DEF Init
  <2>2. State = "waiting" /\ Granted = {}
    BY <2>1, ProposedFacts, StateFacts DEF Init, Granted
  <2> QED BY <2>2 DEF Init, Promised!Init
<1>2. TypeOK /\ Inv /\ Inv' /\ OnlyLateUnknown /\ [Next]_vars
        => OnlyLateUnknown' /\ [Promised!Next]_(Promised!vars)
  BY StepOnlyLate, PromisedStep
<1> QED BY <1>1, <1>2, InitOnlyLate, TypeCorrect, Invariance, PTL
        DEF Spec, KeepsItsPromise, Promised!Spec
=============================================================================
