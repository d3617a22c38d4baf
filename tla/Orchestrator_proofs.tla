------------------------ MODULE Orchestrator_proofs ------------------------
(***************************************************************************)
(* For any number of rounds, enforcement rounds and required tools, any    *)
(* specialists, any token budget, and any number of closings from outside; *)
(* then of the conversation, for any parameters of its pruning.            *)
(***************************************************************************)
EXTENDS Conversation, SequenceTheorems, TLAPS

\* What an investigation that has produced something, or ended, looks like.
Concluded == at \in {"scoring", "reviewing"} \cup Returned =>
                session.phase \notin {"alert_received", "investigating"}

\* The budget was looked at just before the call.
PaidBelowBudget == TokenBudget > 0 =>
    tokens < TokenBudget + (IF at = "calling" THEN 0 ELSE MaxUsage)

\* request_approval is called only for a fix.
AwaitingHasFix == session.phase = "awaiting_approval" => session.proposal > 0

\* Nothing is found before the loop of a specialist.
NothingYet == at \in {"triage", "recall"} =>
                 ~session.diagnosed /\ session.proposal = 0

Inv == /\ Concluded
       /\ NothingYet
       /\ PaidBelowBudget
       /\ ToolsOrThreeWarnings
       /\ AwaitingHasFix
       /\ ReviewedOrRevised

-----------------------------------------------------------------------------
(* The session *)

\* DiagnosisSession.transition moves the phase, schedules one recording if the
\* phase is terminal, and touches nothing else.
LEMMA TransitionFacts ==
    ASSUME NEW s \in SessionType, NEW p \in Phases
    PROVE  /\ Transition(s, p) \in SessionType
           /\ Transition(s, p).phase = p
           /\ Transition(s, p).recording =
                 IF p \in Terminal THEN s.recording + 1 ELSE s.recording
           /\ Transition(s, p).status = s.status
           /\ Transition(s, p).executed = s.executed
           /\ Transition(s, p).diagnosed = s.diagnosed
           /\ Transition(s, p).proposal = s.proposal
<1> DEFINE n == IF p \in Terminal THEN s.recording + 1 ELSE s.recording
<1>1. n \in Nat
  BY DEF SessionType
<1>2. Transition(s, p) = [s EXCEPT !.phase = p, !.recording = n]
  BY DEF Transition
<1> HIDE DEF n
<1>3. /\ Transition(s, p) \in SessionType
      /\ Transition(s, p).phase = p /\ Transition(s, p).recording = n
      /\ Transition(s, p).status = s.status
      /\ Transition(s, p).executed = s.executed
      /\ Transition(s, p).diagnosed = s.diagnosed
      /\ Transition(s, p).proposal = s.proposal
  BY <1>1, <1>2 DEF SessionType
<1> QED BY <1>3 DEF n

LEMMA PhaseNames ==
    /\ {"alert_received", "investigating", "diagnosed", "fix_proposed",
        "awaiting_approval", "escalated", "failed", "resolved"} \subseteq Phases
    /\ {"escalated", "failed", "resolved"} \subseteq Terminal
    /\ {"investigating", "diagnosed", "fix_proposed", "awaiting_approval"}
          \cap Terminal = {}
BY DEF Phases, Terminal

\* A session that is closed keeps what was found, and is neither being
\* investigated nor awaiting approval.
Ended(s, t) == /\ t \in SessionType
               /\ t.phase \in Terminal
               /\ t.diagnosed = s.diagnosed /\ t.proposal = s.proposal

LEMMA EndedFacts ==
    ASSUME NEW s \in SessionType
    PROVE  /\ Ended(s, Escalate(s)) /\ Escalate(s).phase = "escalated"
           /\ Ended(s, Fail(s)) /\ Fail(s).phase = "failed"
           /\ Ended(s, MarkResolved(s)) /\ MarkResolved(s).phase = "resolved"
           /\ Ended(s, Reject(s)) /\ Reject(s).phase = "resolved"
<1>1. /\ "escalated" \in Phases /\ "failed" \in Phases /\ "resolved" \in Phases
      /\ "escalated" \in Terminal /\ "failed" \in Terminal /\ "resolved" \in Terminal
  BY PhaseNames
<1>2. ASSUME NEW t \in SessionType, t.diagnosed = s.diagnosed,
             t.proposal = s.proposal, NEW p \in Phases, p \in Terminal
      PROVE  Ended(s, Transition(t, p)) /\ Transition(t, p).phase = p
  BY <1>2, TransitionFacts DEF Ended
<1>3. Escalate(s) = Transition(s, "escalated") /\ Fail(s) = Transition(s, "failed")
  BY DEF Escalate, Fail
<1>4. Ended(s, MarkResolved(s)) /\ MarkResolved(s).phase = "resolved"
  <2> DEFINE m == [s EXCEPT !.executed = TRUE]
  <2>1. m \in SessionType /\ m.diagnosed = s.diagnosed /\ m.proposal = s.proposal
    BY DEF SessionType
  <2>2. MarkResolved(s) = Transition(m, "resolved")
    BY DEF MarkResolved
  <2> HIDE DEF m
  <2> QED BY <1>1, <1>2, <2>1, <2>2
<1>5. Ended(s, Reject(s)) /\ Reject(s).phase = "resolved"
  <2> DEFINE r == [s EXCEPT !.status = "rejected"]
  <2>1. r \in SessionType /\ r.diagnosed = s.diagnosed /\ r.proposal = s.proposal
    BY DEF SessionType, ApprovalStatuses
  <2>2. Reject(s) = Transition(r, "resolved")
    BY DEF Reject
  <2> HIDE DEF r
  <2> QED BY <1>1, <1>2, <2>1, <2>2
<1> QED BY <1>1, <1>2, <1>3, <1>4, <1>5

\* The closing operators keep the answer and count one recording each; only
\* mark_resolved and reject leave a trace of their own.
LEMMA EscalateKeeps ==
    ASSUME NEW s \in SessionType
    PROVE  /\ Escalate(s).status = s.status /\ Escalate(s).executed = s.executed
           /\ Escalate(s).recording = s.recording + 1
           /\ Fail(s).status = s.status /\ Fail(s).executed = s.executed
<1>1. /\ "escalated" \in Phases /\ "failed" \in Phases
      /\ "escalated" \in Terminal
  BY PhaseNames
<1> QED BY <1>1, TransitionFacts DEF Escalate, Fail

LEMMA DiagnosisKeeps ==
    ASSUME NEW s \in SessionType
    PROVE  /\ SetDiagnosis(s) \in SessionType
           /\ SetDiagnosis(s).phase = "diagnosed"
           /\ SetDiagnosis(s).proposal = s.proposal
           /\ SetDiagnosis(s).status = s.status
           /\ SetDiagnosis(s).executed = s.executed
           /\ SetDiagnosis(s).recording = s.recording
<1> DEFINE d == [s EXCEPT !.diagnosed = TRUE]
<1>1. /\ d \in SessionType /\ d.proposal = s.proposal /\ d.executed = s.executed
      /\ d.status = s.status /\ d.recording = s.recording
  BY DEF SessionType
<1>2. SetDiagnosis(s) = Transition(d, "diagnosed")
  BY DEF SetDiagnosis
<1>3. "diagnosed" \in Phases /\ "diagnosed" \notin Terminal
  BY PhaseNames
<1> HIDE DEF d
<1> QED BY <1>1, <1>2, <1>3, TransitionFacts

\* set_fix_proposal followed by request_approval.
LEMMA ProposeKeeps ==
    ASSUME NEW s \in SessionType
    PROVE  /\ RequestApproval(SetFixProposal(s)) \in SessionType
           /\ RequestApproval(SetFixProposal(s)).phase = "awaiting_approval"
           /\ RequestApproval(SetFixProposal(s)).proposal = s.proposal + 1
           /\ RequestApproval(SetFixProposal(s)).status = s.status
           /\ RequestApproval(SetFixProposal(s)).executed = s.executed
           /\ RequestApproval(SetFixProposal(s)).recording = s.recording
<1>1. /\ s.proposal + 1 \in Nat
      /\ "fix_proposed" \in Phases /\ "fix_proposed" \notin Terminal
      /\ "awaiting_approval" \in Phases /\ "awaiting_approval" \notin Terminal
  BY PhaseNames DEF SessionType
<1> DEFINE f == [s EXCEPT !.proposal = @ + 1]
<1>2. /\ f \in SessionType /\ f.proposal = s.proposal + 1
      /\ f.executed = s.executed /\ f.status = s.status
      /\ f.recording = s.recording
  BY <1>1 DEF SessionType
<1>3. SetFixProposal(s) = Transition(f, "fix_proposed")
  BY DEF SetFixProposal
<1> HIDE DEF f
<1> DEFINE t == SetFixProposal(s)
<1>4. /\ t \in SessionType /\ t.proposal = s.proposal + 1
      /\ t.executed = s.executed /\ t.status = s.status
      /\ t.recording = s.recording
  BY <1>1, <1>2, <1>3, TransitionFacts
<1>5. RequestApproval(t) = Transition(t, "awaiting_approval")
  BY DEF RequestApproval
<1> HIDE DEF t
<1>6. /\ RequestApproval(t) \in SessionType
      /\ RequestApproval(t).phase = "awaiting_approval"
      /\ RequestApproval(t).proposal = s.proposal + 1
      /\ RequestApproval(t).status = s.status
      /\ RequestApproval(t).executed = s.executed
      /\ RequestApproval(t).recording = s.recording
  BY <1>1, <1>4, <1>5, TransitionFacts
<1> QED BY <1>6 DEF t

\* _process_final_response escalates, or finds something.
LEMMA ProcessedFacts ==
    ASSUME NEW s \in SessionType, NEW answer \in Answers
    PROVE  /\ Processed(s, answer) \in SessionType
           /\ Processed(s, answer).status = s.status
           /\ Processed(s, answer).executed = s.executed
           /\ \/ /\ Processed(s, answer).phase = "escalated"
                 /\ Processed(s, answer).proposal = s.proposal
                 /\ Processed(s, answer).diagnosed = s.diagnosed
                 /\ Processed(s, answer).recording = s.recording + 1
              \/ /\ Processed(s, answer).phase = "diagnosed"
                 /\ Processed(s, answer).recording = s.recording
              \/ /\ Processed(s, answer).phase = "awaiting_approval"
                 /\ Processed(s, answer).proposal > 0
                 /\ Processed(s, answer).recording = s.recording
<1>1. CASE answer \in {"escalation", "nothing"}
  <2>1. Processed(s, answer) = Escalate(s)
    BY <1>1 DEF Processed
  <2> QED BY <2>1, EndedFacts, EscalateKeeps DEF Ended
<1>2. CASE answer = "diagnosis"
  <2>1. Processed(s, answer) = SetDiagnosis(s)
    BY <1>2 DEF Processed
  <2> QED BY <2>1, DiagnosisKeeps
<1>3. ASSUME NEW t \in SessionType, t.status = s.status,
             t.executed = s.executed, t.recording = s.recording,
             Processed(s, answer) = RequestApproval(SetFixProposal(t))
      PROVE  /\ Processed(s, answer) \in SessionType
             /\ Processed(s, answer).status = s.status
             /\ Processed(s, answer).executed = s.executed
             /\ Processed(s, answer).phase = "awaiting_approval"
             /\ Processed(s, answer).proposal > 0
             /\ Processed(s, answer).recording = s.recording
  <2>1. t.proposal \in Nat
    BY DEF SessionType
  <2> QED BY <1>3, <2>1, ProposeKeeps
<1>4. CASE answer = "fix"
  <2>1. Processed(s, answer) = RequestApproval(SetFixProposal(s))
    BY <1>4 DEF Processed
  <2> QED BY <1>3, <2>1
<1>5. CASE answer = "both"
  <2>1. Processed(s, answer) = RequestApproval(SetFixProposal(SetDiagnosis(s)))
    BY <1>5 DEF Processed
  <2> QED BY <1>3, <2>1, DiagnosisKeeps
<1> QED BY <1>1, <1>2, <1>4, <1>5 DEF Answers

-----------------------------------------------------------------------------
(* Shapes of steps *)

\* The head of the loop escalates the session and returns, or leaves the
\* session alone and calls Claude with a budget that is not spent.
LEMMA EnterRoundFacts ==
    ASSUME TypeOK, NEW s \in SessionType, NEW used, EnterRound(s, used)
    PROVE  /\ session' \in SessionType
           /\ rounds' \in 0..MaxToolRounds
           /\ \/ at' = "returned" /\ session' = Escalate(s)
              \/ at' = "calling" /\ session' = s /\ ~BudgetSpent(used)
<1>1. Escalate(s) \in SessionType
  BY EndedFacts DEF Ended
<1>2. rounds \in 0..MaxToolRounds /\ (RoundsLeft => rounds + 1 \in 0..MaxToolRounds)
  BY OrchestratorAssumption DEF TypeOK, RoundsLeft
<1> QED BY <1>1, <1>2 DEF EnterRound, BudgetStops

\* The specialist starts with what is known of the session.
LEMMA StartFacts ==
    ASSUME NEW s \in SessionType
    PROVE  /\ Transition(s, "investigating") \in SessionType
           /\ Transition(s, "investigating").phase = "investigating"
           /\ Transition(s, "investigating").diagnosed = s.diagnosed
           /\ Transition(s, "investigating").proposal = s.proposal
           /\ Transition(s, "investigating").status = s.status
           /\ Transition(s, "investigating").executed = s.executed
           /\ Transition(s, "investigating").recording = s.recording
<1>1. "investigating" \in Phases /\ "investigating" \notin Terminal
  BY PhaseNames
<1> QED BY <1>1, TransitionFacts

\* What is missing of an agent's requirements.
LEMMA MissingFacts ==
    ASSUME NEW a \in Agents
    PROVE  Requirements[a] \in SUBSET UNION {Requirements[b] : b \in Agents}
OBVIOUS

LEMMA InitFacts ==
    ASSUME Init
    PROVE  /\ TypeOK
           /\ at \in {"opening", "triage"}
           /\ ~session.diagnosed /\ session.proposal = 0
           /\ session.status = "pending" /\ ~session.executed
           /\ session.recording = 0
           /\ session.phase # "awaiting_approval"
<1>1. /\ NewSession \in SessionType /\ ~NewSession.diagnosed
      /\ NewSession.proposal = 0 /\ NewSession.status = "pending"
      /\ ~NewSession.executed /\ NewSession.recording = 0
      /\ NewSession.phase = "alert_received"
  BY DEF NewSession, SessionType, Phases, ApprovalStatuses
<1>2. /\ session \in SessionType /\ session.phase # "awaiting_approval"
      /\ ~session.diagnosed /\ session.proposal = 0
      /\ session.status = "pending" /\ ~session.executed
      /\ session.recording = 0
  <2>1. session = Transition(NewSession, "investigating") \/ session = NewSession
    BY DEF Init
  <2> QED BY <1>1, <2>1, StartFacts
<1>3. /\ agent \in Agents \cup {"triage"}
      /\ at \in {"opening", "triage"}
      /\ missing \in SUBSET UNION {Requirements[b] : b \in Agents}
  <2>1. "general" \in Agents
    BY DEF Agents
  <2>2. Requirements["general"] \in SUBSET UNION {Requirements[b] : b \in Agents}
    BY <2>1, MissingFacts
  <2> QED BY <2>1, <2>2 DEF Init
<1>4. 0 \in 0..MaxToolRounds /\ 0 \in 0..MaxEnforcementRounds /\ 0 \in 0..Closings
  BY OrchestratorAssumption
<1>5. TypeOK
  BY <1>2, <1>3, <1>4 DEF Init, TypeOK, Running
<1> QED BY <1>2, <1>3, <1>5

\* Every step keeps the types.
LEMMA StepType ==
    ASSUME TypeOK, [Next]_vars
    PROVE  TypeOK'
<1>1. session \in SessionType /\ tokens \in Nat
  BY DEF TypeOK
<1>2. /\ Escalate(session) \in SessionType /\ Fail(session) \in SessionType
      /\ MarkResolved(session) \in SessionType /\ Reject(session) \in SessionType
  BY <1>1, EndedFacts DEF Ended
<1>3. {"returned", "cut", "abandoned", "recall", "calling", "tools", "scoring",
       "reviewing"} \subseteq Running \cup Over
  BY DEF Running, Over, Returned
<1>4. Pay => tokens' \in Nat
  BY <1>1, OrchestratorAssumption DEF Pay
<1>5. CASE Open
  <2>1. CASE EnterRound(session, tokens)
    BY <1>1, <1>3, <1>5, <2>1, EnterRoundFacts DEF Open, TypeOK
  <2>2. CASE session' = Fail(session) /\ at' = "returned" /\ UNCHANGED rounds
    BY <1>2, <1>3, <1>5, <2>2 DEF Open, TypeOK
  <2> QED BY <1>5, <2>1, <2>2 DEF Open
<1>6. CASE CallFails
  BY <1>2, <1>3, <1>6 DEF CallFails, TypeOK
<1>7. CASE AsksForTools
  BY <1>3, <1>4, <1>7 DEF AsksForTools, TypeOK
<1>8. CASE RunTools
  <2>1. missing' \in SUBSET UNION {Requirements[a] : a \in Agents}
    BY <1>8 DEF RunTools, TypeOK
  <2> QED BY <1>1, <1>3, <1>8, <2>1, EnterRoundFacts DEF RunTools, TypeOK
<1>9. CASE Enforce
  <2>1. enforced' \in 0..MaxEnforcementRounds
    BY <1>9, OrchestratorAssumption DEF Enforce, Enforced, TypeOK
  <2>2. tokens' \in Nat
    BY <1>4, <1>9 DEF Enforce
  <2> QED BY <1>1, <1>3, <1>9, <2>1, <2>2, EnterRoundFacts DEF Enforce, TypeOK
<1>10. ASSUME NEW answer \in Answers, Conclude(answer) PROVE TypeOK'
  <2>1. session' \in SessionType
    BY <1>1, <1>10, ProcessedFacts DEF Conclude
  <2>2. at' \in {"scoring", "reviewing", "returned"}
    BY <1>10 DEF Conclude
  <2>3. tokens' \in Nat
    BY <1>4, <1>10 DEF Conclude
  <2> QED BY <1>3, <1>10, <2>1, <2>2, <2>3 DEF Conclude, TypeOK
<1>11. ASSUME NEW answer \in Answers, CutOff(answer) PROVE TypeOK'
  <2>1. session' \in SessionType /\ tokens' \in Nat
    BY <1>1, <1>4, <1>11, ProcessedFacts DEF CutOff
  <2> QED BY <1>3, <1>11, <2>1 DEF CutOff, TypeOK
<1>12. CASE Scored
  BY <1>3, <1>12 DEF Scored, TypeOK
<1>13. CASE Approved
  <2>1. reviewed' \in Nat
    BY <1>1, <1>13 DEF Approved, SessionType
  <2> QED BY <1>3, <1>13, <2>1 DEF Approved, TypeOK
<1>14. CASE Rejected
  BY <1>2, <1>3, <1>14 DEF Rejected, TypeOK
<1>15. CASE Revise
  BY <1>1, <1>3, <1>15, EnterRoundFacts DEF Revise, TypeOK
<1>16. CASE ClosedOutside
  <2>1. closings' \in 0..Closings
    BY <1>16, OrchestratorAssumption DEF ClosedOutside, TypeOK
  <2> QED BY <1>2, <1>16, <2>1 DEF ClosedOutside, TypeOK
<1>17. CASE Classify
  <2>1. agent' \in Agents
    BY <1>17, OrchestratorAssumption DEF Classify, Agents
  <2>2. missing' \in SUBSET UNION {Requirements[a] : a \in Agents}
    BY <1>17, <2>1, MissingFacts DEF Classify
  <2>3. session' \in SessionType /\ at' \in Running \cup Over
    BY <1>1, <1>2, <1>3, <1>17 DEF Classify, PipelineFails
  <2> QED BY <1>17, <2>1, <2>2, <2>3 DEF Classify, TypeOK
<1>18. CASE StartSpecialist
  <2> DEFINE t == Transition(session, "investigating")
  <2>1. t \in SessionType
    BY <1>1, StartFacts
  <2>2. EnterRound(t, tokens) \/ (session' = t /\ at' = "abandoned" /\ rounds' = rounds)
    BY <1>18 DEF StartSpecialist
  <2> HIDE DEF t
  <2>3. session' \in SessionType /\ at' \in Running \cup Over
        /\ rounds' \in 0..MaxToolRounds
    BY <1>3, <2>1, <2>2, EnterRoundFacts DEF TypeOK
  <2> QED BY <1>18, <2>3 DEF StartSpecialist, TypeOK
<1>19. CASE UNCHANGED vars
  BY <1>19 DEF vars, TypeOK
<1> QED BY <1>5, <1>6, <1>7, <1>8, <1>9, <1>10, <1>11, <1>12, <1>13, <1>14,
           <1>15, <1>16, <1>17, <1>18, <1>19 DEF Next, Investigating

\* The types of the loop's variables.
THEOREM TypeCorrect == Spec => []TypeOK
<1>1. Init => TypeOK
  BY InitFacts
<1>2. TypeOK /\ [Next]_vars => TypeOK'
  BY StepType
<1> QED BY <1>1, <1>2, PTL DEF Spec

-----------------------------------------------------------------------------
(* The invariant *)

LEMMA InitInv == Init => Inv
<1> SUFFICES ASSUME Init PROVE Inv
  OBVIOUS
<1>1. at \in {"opening", "triage"} /\ tokens = 0
  BY InitFacts DEF Init
<1>2. /\ Concluded /\ NothingYet /\ AwaitingHasFix
      /\ ToolsOrThreeWarnings /\ ReviewedOrRevised
  BY <1>1, InitFacts DEF Concluded, NothingYet, AwaitingHasFix,
                         ToolsOrThreeWarnings, ReviewedOrRevised, Returned
<1>3. PaidBelowBudget
  BY <1>1, OrchestratorAssumption DEF PaidBelowBudget
<1> QED BY <1>2, <1>3 DEF Inv

\* The steps that end at the head of the loop, with a session s that has as
\* much to show as before.
LEMMA HeadInv ==
    ASSUME TypeOK, Inv, NEW s \in SessionType, s.diagnosed = session.diagnosed,
           s.proposal = session.proposal,
           s.phase = "awaiting_approval" => s.proposal > 0,
           NEW used \in Nat, used = tokens', EnterRound(s, used),
           TokenBudget > 0 => used < TokenBudget + MaxUsage,
           session.diagnosed \/ session.proposal > 0
              => missing' = {} \/ enforced' = MaxEnforcementRounds
    PROVE  Inv'
<1>1. Ended(s, Escalate(s)) /\ Escalate(s).phase = "escalated"
  BY EndedFacts
<1>2. \/ at' = "returned" /\ session' = Escalate(s)
      \/ at' = "calling" /\ session' = s /\ ~BudgetSpent(used)
  BY EnterRoundFacts
<1>3. CASE at' = "returned" /\ session' = Escalate(s)
  <2>1. /\ session'.phase = "escalated" /\ session'.diagnosed = session.diagnosed
        /\ session'.proposal = session.proposal
    BY <1>1, <1>3 DEF Ended
  <2>2. PaidBelowBudget'
    BY <1>3 DEF PaidBelowBudget
  <2> QED BY <1>3, <2>1, <2>2 DEF Inv, Concluded, NothingYet, AwaitingHasFix,
                                  ToolsOrThreeWarnings, ReviewedOrRevised
<1>4. CASE at' = "calling" /\ session' = s /\ ~BudgetSpent(used)
  <2>1. PaidBelowBudget'
    <3>1. TokenBudget > 0 => ~(used >= TokenBudget)
      BY <1>4 DEF BudgetSpent
    <3>2. TokenBudget > 0 => used < TokenBudget
      BY <3>1, OrchestratorAssumption
    <3> QED BY <1>4, <3>2, OrchestratorAssumption DEF PaidBelowBudget
  <2>2. /\ Concluded' /\ NothingYet' /\ ToolsOrThreeWarnings'
        /\ AwaitingHasFix' /\ ReviewedOrRevised'
    BY <1>4 DEF Inv, Concluded, NothingYet, AwaitingHasFix,
                ToolsOrThreeWarnings, ReviewedOrRevised, Returned
  <2> QED BY <2>1, <2>2 DEF Inv
<1> QED BY <1>2, <1>3, <1>4

\* The steps that close the session: nothing new is found.
LEMMA ClosingInv ==
    ASSUME TypeOK, Inv, Ended(session, session'), at # "cut",
           at' \in {at, "returned"}, at' = at => at \notin Returned,
           tokens' = tokens,
           missing' = missing \/ (~session.diagnosed /\ session.proposal = 0),
           enforced' = enforced
    PROVE  Inv'
<1>1. /\ session'.phase \notin {"alert_received", "investigating", "awaiting_approval"}
      /\ session'.diagnosed = session.diagnosed
      /\ session'.proposal = session.proposal
  BY PhaseNames DEF Ended, Terminal
<1>2. PaidBelowBudget'
  BY OrchestratorAssumption DEF Inv, PaidBelowBudget, TypeOK
<1>3. ToolsOrThreeWarnings' /\ NothingYet'
  BY <1>1 DEF Inv, ToolsOrThreeWarnings, NothingYet
<1> QED BY <1>1, <1>2, <1>3 DEF Inv, Concluded, AwaitingHasFix, ReviewedOrRevised

\* What one answer costs.
LEMMA PayInv ==
    ASSUME TypeOK, Inv, at = "calling", Pay
    PROVE  /\ tokens' \in Nat
           /\ TokenBudget > 0 => tokens' < TokenBudget + MaxUsage
<1>1. PICK u \in 0..MaxUsage : tokens' = tokens + u
  BY DEF Pay
<1>2. tokens \in Nat /\ (TokenBudget > 0 => tokens < TokenBudget)
  BY OrchestratorAssumption DEF TypeOK, Inv, PaidBelowBudget
<1> QED BY <1>1, <1>2, OrchestratorAssumption

LEMMA StepInv ==
    ASSUME TypeOK, Inv, [Next]_vars
    PROVE  Inv'
<1>1. session \in SessionType /\ tokens \in Nat
  BY DEF TypeOK
<1>2. /\ Ended(session, Escalate(session)) /\ Ended(session, Fail(session))
      /\ Ended(session, MarkResolved(session)) /\ Ended(session, Reject(session))
  BY <1>1, EndedFacts
<1>3. TokenBudget > 0 => tokens < TokenBudget + MaxUsage
  BY <1>1, OrchestratorAssumption DEF Inv, PaidBelowBudget
<1>4. at # "cut" /\ (session.diagnosed \/ session.proposal > 0)
         => missing = {} \/ enforced = MaxEnforcementRounds
  BY DEF Inv, ToolsOrThreeWarnings
<1>0. session.phase = "awaiting_approval" => session.proposal > 0
  BY DEF Inv, AwaitingHasFix
<1>5. CASE Open
  <2>0. at # "cut" /\ UNCHANGED <<tokens, missing, enforced>>
    BY <1>5 DEF Open
  <2>1. CASE EnterRound(session, tokens)
    BY <1>0, <1>1, <1>3, <1>4, <2>0, <2>1, HeadInv
  <2>2. CASE session' = Fail(session) /\ at' = "returned"
    <3>1. Ended(session, session')
      BY <1>2, <2>2 DEF Ended
    <3>2. at' \in {at, "returned"} /\ (at' = at => at \notin Returned)
      BY <1>5, <2>2 DEF Open, Returned
    <3> QED BY <2>0, <3>1, <3>2, ClosingInv
  <2> QED BY <1>5, <2>1, <2>2 DEF Open
<1>6. CASE CallFails
  <2>1. /\ at = "calling" /\ at' = "returned" /\ session' = Escalate(session)
        /\ at # "cut" /\ UNCHANGED <<tokens, missing, enforced>>
    BY <1>6 DEF CallFails
  <2>2. Ended(session, session')
    BY <1>2, <2>1 DEF Ended
  <2>3. at' \in {at, "returned"} /\ (at' = at => at \notin Returned)
    BY <2>1 DEF Returned
  <2> QED BY <2>1, <2>2, <2>3, ClosingInv
<1>7. CASE AsksForTools
  <2>1. PaidBelowBudget'
    BY <1>7, PayInv DEF AsksForTools, PaidBelowBudget
  <2>2. /\ Concluded' /\ NothingYet' /\ ToolsOrThreeWarnings'
        /\ AwaitingHasFix' /\ ReviewedOrRevised'
    BY <1>7 DEF AsksForTools, Inv, Concluded, NothingYet, ToolsOrThreeWarnings,
                AwaitingHasFix, ReviewedOrRevised, Returned
  <2> QED BY <2>1, <2>2 DEF Inv
<1>8. CASE RunTools
  <2>1. /\ at = "tools" /\ missing' \in SUBSET missing /\ EnterRound(session, tokens)
        /\ tokens' = tokens /\ enforced' = enforced
    BY <1>8 DEF RunTools
  <2>2. session.diagnosed \/ session.proposal > 0
           => missing' = {} \/ enforced' = MaxEnforcementRounds
    BY <1>4, <2>1
  <2> QED BY <1>0, <1>1, <1>3, <2>1, <2>2, HeadInv
<1>9. CASE Enforce
  <2>1. /\ at = "calling" /\ Enforced /\ Pay /\ missing' = missing
        /\ EnterRound(session, tokens')
    BY <1>9 DEF Enforce
  <2>2. ~(session.diagnosed \/ session.proposal > 0)
    BY <1>4, <2>1, OrchestratorAssumption DEF Enforced, TypeOK
  <2>3. tokens' \in Nat /\ (TokenBudget > 0 => tokens' < TokenBudget + MaxUsage)
    BY <2>1, PayInv
  <2> QED BY <1>0, <1>1, <2>1, <2>2, <2>3, HeadInv
<1>10. ASSUME NEW answer \in Answers, Conclude(answer) PROVE Inv'
  <2>1. /\ at = "calling" /\ ~Enforced /\ Pay
        /\ session' = Processed(session, answer)
        /\ at' = IF session'.diagnosed /\ session'.proposal > 0 THEN "scoring"
                 ELSE IF Reviews(session') THEN "reviewing" ELSE "returned"
        /\ missing' = missing /\ enforced' = enforced
        /\ agent' = agent /\ retried' = retried /\ reviewed' = reviewed
    BY <1>10 DEF Conclude
  <2>2. \/ session'.phase \in {"escalated", "diagnosed"}
        \/ session'.phase = "awaiting_approval" /\ session'.proposal > 0
    BY <1>1, <2>1, ProcessedFacts
  <2>3. missing' = {} \/ enforced' = MaxEnforcementRounds
    BY <2>1, OrchestratorAssumption DEF Enforced, TypeOK
  <2>4. PaidBelowBudget'
    <3>1. at' # "calling"
      BY <2>1
    <3> QED BY <2>1, <3>1, PayInv DEF PaidBelowBudget
  <2>5. Concluded' /\ NothingYet' /\ AwaitingHasFix' /\ ToolsOrThreeWarnings'
    BY <2>1, <2>2, <2>3 DEF Concluded, NothingYet, AwaitingHasFix,
                            ToolsOrThreeWarnings
  <2>6. ReviewedOrRevised'
    <3> SUFFICES ASSUME Verification, agent' = "general", at' = "returned",
                        session'.phase = "awaiting_approval"
                 PROVE  retried'
      BY DEF ReviewedOrRevised
    <3>1. ~Reviews(session') /\ session'.proposal > 0
      BY <2>1, <2>2
    <3> QED BY <2>1, <3>1 DEF Reviews
  <2> QED BY <2>4, <2>5, <2>6 DEF Inv
<1>11. ASSUME NEW answer \in Answers, CutOff(answer) PROVE Inv'
  <2>1. /\ at = "calling" /\ Pay /\ at' = "cut"
        /\ session' = Processed(session, answer)
    BY <1>11 DEF CutOff
  <2>2. \/ session'.phase \in {"escalated", "diagnosed"}
        \/ session'.phase = "awaiting_approval" /\ session'.proposal > 0
    BY <1>1, <2>1, ProcessedFacts
  <2>3. PaidBelowBudget'
    BY <2>1, PayInv DEF PaidBelowBudget
  <2> QED BY <2>1, <2>2, <2>3 DEF Inv, Concluded, NothingYet, AwaitingHasFix,
                                  ToolsOrThreeWarnings, ReviewedOrRevised
<1>12. CASE Scored
  <2>1. /\ at = "scoring" /\ session' = session /\ tokens' = tokens
        /\ at' = IF Reviews(session) THEN "reviewing" ELSE "returned"
        /\ missing' = missing /\ enforced' = enforced
        /\ agent' = agent /\ retried' = retried /\ reviewed' = reviewed
    BY <1>12 DEF Scored
  <2>2. /\ PaidBelowBudget' /\ Concluded' /\ NothingYet'
        /\ AwaitingHasFix' /\ ToolsOrThreeWarnings'
    BY <2>1 DEF Inv, PaidBelowBudget, Concluded, NothingYet, AwaitingHasFix,
                ToolsOrThreeWarnings, Returned
  <2>3. ReviewedOrRevised'
    <3> SUFFICES ASSUME Verification, agent = "general", at' = "returned",
                        session.phase = "awaiting_approval"
                 PROVE  retried'
      BY <2>1 DEF ReviewedOrRevised
    <3>1. ~Reviews(session) /\ session.proposal > 0
      BY <2>1 DEF Inv, AwaitingHasFix
    <3> QED BY <2>1, <3>1 DEF Reviews
  <2> QED BY <2>2, <2>3 DEF Inv
<1>13. CASE Approved
  <2>1. /\ at = "reviewing" /\ session' = session /\ at' = "returned"
        /\ reviewed' = session.proposal
        /\ tokens' = tokens /\ missing' = missing /\ enforced' = enforced
    BY <1>13 DEF Approved
  <2> QED BY <2>1 DEF Inv, PaidBelowBudget, Concluded, NothingYet, AwaitingHasFix,
                      ToolsOrThreeWarnings, ReviewedOrRevised
<1>14. CASE Rejected
  <2>1. /\ at = "reviewing" /\ at' = "returned" /\ session' = Escalate(session)
        /\ at # "cut" /\ UNCHANGED <<tokens, missing, enforced>>
    BY <1>14 DEF Rejected
  <2>2. Ended(session, session')
    BY <1>2, <2>1 DEF Ended
  <2>3. at' \in {at, "returned"} /\ (at' = at => at \notin Returned)
    BY <2>1 DEF Returned
  <2> QED BY <2>1, <2>2, <2>3, ClosingInv
<1>15. CASE Revise
  <2>1. /\ at = "reviewing" /\ EnterRound(session, tokens) /\ tokens' = tokens
        /\ missing' = missing /\ enforced' = enforced
    BY <1>15 DEF Revise
  <2> QED BY <1>0, <1>1, <1>3, <1>4, <2>1, HeadInv
<1>16. CASE ClosedOutside
  <2>1. Ended(session, session')
    BY <1>2, <1>16 DEF ClosedOutside
  <2>2. at \notin Returned /\ at' = at /\ UNCHANGED <<tokens, missing, enforced>>
    BY <1>16 DEF ClosedOutside, Over
  <2>3. at # "cut"
    BY <2>2 DEF Returned
  <2> QED BY <2>1, <2>2, <2>3, ClosingInv
<1>17. CASE Classify
  <2>1. /\ at = "triage" /\ tokens' = tokens /\ enforced' = enforced
        /\ ~session.diagnosed /\ session.proposal = 0
    BY <1>17 DEF Classify, Inv, NothingYet
  <2>2. CASE session' = session /\ at' \in {"recall", "abandoned"}
    BY <2>1, <2>2 DEF Inv, PaidBelowBudget, Concluded, NothingYet, AwaitingHasFix,
                      ToolsOrThreeWarnings, ReviewedOrRevised, Returned
  <2>3. CASE session' = Fail(session) /\ at' = "returned"
    <3>1. Ended(session, session')
      BY <1>2, <2>3 DEF Ended
    <3>2. at # "cut" /\ at' \in {at, "returned"} /\ (at' = at => at \notin Returned)
      BY <2>1, <2>3 DEF Returned
    <3> QED BY <2>1, <3>1, <3>2, ClosingInv
  <2> QED BY <1>17, <2>2, <2>3 DEF Classify, PipelineFails
<1>18. CASE StartSpecialist
  <2> DEFINE t == Transition(session, "investigating")
  <2>1. /\ t \in SessionType /\ t.phase = "investigating"
        /\ t.diagnosed = session.diagnosed /\ t.proposal = session.proposal
    BY <1>1, StartFacts
  <2>2. /\ EnterRound(t, tokens) \/ (session' = t /\ at' = "abandoned")
        /\ at = "recall" /\ tokens' = tokens
        /\ missing' = missing /\ enforced' = enforced
    BY <1>18 DEF StartSpecialist
  <2> HIDE DEF t
  <2>3. ~session.diagnosed /\ session.proposal = 0
    BY <2>2 DEF Inv, NothingYet
  <2>4. CASE EnterRound(t, tokens)
    BY <1>1, <1>3, <2>1, <2>2, <2>3, <2>4, HeadInv
  <2>5. CASE session' = t /\ at' = "abandoned"
    BY <2>1, <2>2, <2>3, <2>5
       DEF Inv, PaidBelowBudget, Concluded, NothingYet, AwaitingHasFix,
           ToolsOrThreeWarnings, ReviewedOrRevised, Returned
  <2> QED BY <2>2, <2>4, <2>5
<1>19. CASE UNCHANGED vars
  BY <1>19 DEF vars, Inv, PaidBelowBudget, Concluded, NothingYet, AwaitingHasFix,
               ToolsOrThreeWarnings, ReviewedOrRevised
<1> QED BY <1>5, <1>6, <1>7, <1>8, <1>9, <1>10, <1>11, <1>12, <1>13, <1>14,
           <1>15, <1>16, <1>17, <1>18, <1>19 DEF Next, Investigating

LEMMA Invariance == Spec => [](TypeOK /\ Inv)
<1>1. Init => TypeOK /\ Inv
  BY InitFacts, InitInv
<1>2. TypeOK /\ Inv /\ [Next]_vars => (TypeOK /\ Inv)'
  BY StepType, StepInv
<1> QED BY <1>1, <1>2, PTL DEF Spec

\* No return of investigate leaves a session that looks as if it were still
\* being investigated.
THEOREM NeverLeftInvestigatingAlways == Spec => []NeverLeftInvestigating
<1>1. Inv => NeverLeftInvestigating
  BY DEF Inv, Concluded, NeverLeftInvestigating
<1> QED BY <1>1, Invariance, PTL

\* The token budget is exceeded by less than one call.
THEOREM BudgetKept == Spec => []OvershootsByOneCall
<1>1. TypeOK /\ Inv => OvershootsByOneCall
  BY OrchestratorAssumption DEF TypeOK, Inv, PaidBelowBudget, OvershootsByOneCall
<1> QED BY <1>1, Invariance, PTL

\* Claude gets a finding accepted only with the required tools, after all the
\* enforcement rounds, or by being cut off.
THEOREM ToolsEnforced == Spec => []ToolsOrThreeWarnings
<1>1. Inv => ToolsOrThreeWarnings
  BY DEF Inv
<1> QED BY <1>1, Invariance, PTL

\* A proposal that was not cut off passed the reviewer or answers its feedback.
THEOREM ProposalsReviewed == Spec => []ReviewedOrRevised
<1>1. Inv => ReviewedOrRevised
  BY DEF Inv
<1> QED BY <1>1, Invariance, PTL

-----------------------------------------------------------------------------
(* The hand-over, if nothing closes the session meanwhile *)

\* Nobody has answered, and only a session that ended is recorded.
Unanswered == session.status = "pending" /\ ~session.executed

RecordedIsOver == session.recording # 0 =>
    \/ session.phase = "escalated" /\ at \in {"scoring"} \cup Returned
    \/ session.phase = "failed" /\ at \in Returned

\* Steps that escalate or fail an unanswered session and return.
LEMMA ClosingHandOver ==
    ASSUME TypeOK, Unanswered,
           session' = Escalate(session) \/ session' = Fail(session),
           at' \in Returned
    PROVE  Unanswered' /\ RecordedIsOver'
<1>1. session \in SessionType
  BY DEF TypeOK
<1>2. /\ session'.phase \in {"escalated", "failed"}
      /\ session'.status = session.status
      /\ session'.executed = session.executed
  BY <1>1, EndedFacts, EscalateKeeps
<1> QED BY <1>2 DEF Unanswered, RecordedIsOver

LEMMA HeadHandOver ==
    ASSUME TypeOK, NEW s \in SessionType, s.status = "pending", ~s.executed,
           s.recording = 0, NEW used, EnterRound(s, used)
    PROVE  Unanswered' /\ RecordedIsOver'
<1>1. CASE at' = "returned" /\ session' = Escalate(s)
  <2>1. at' \in Returned
    BY <1>1 DEF Returned
  <2>2. /\ session'.phase = "escalated"
        /\ session'.status = "pending" /\ ~session'.executed
    BY <1>1, EndedFacts, EscalateKeeps
  <2> QED BY <2>1, <2>2 DEF Unanswered, RecordedIsOver
<1>2. CASE session' = s
  BY <1>2 DEF Unanswered, RecordedIsOver
<1> QED BY <1>1, <1>2, EnterRoundFacts

LEMMA StepHandOver ==
    ASSUME TypeOK, Unanswered, RecordedIsOver, [Next]_vars, closings' = 0
    PROVE  Unanswered' /\ RecordedIsOver'
<1>1. session \in SessionType /\ closings \in 0..Closings
  BY DEF TypeOK
<1>2. at \notin {"scoring"} \cup Returned => session.recording = 0
  BY DEF RecordedIsOver
<1>0. session.status = "pending" /\ ~session.executed
  BY DEF Unanswered
<1>3. ASSUME NEW answer \in Answers, at = "calling",
             session' = Processed(session, answer),
             at' \in {"reviewing", "returned", "cut"} \/ at' = "scoring",
             session'.phase = "escalated" => at' \in {"scoring"} \cup Returned
      PROVE  Unanswered' /\ RecordedIsOver'
  <2>1. session.recording = 0
    BY <1>2, <1>3 DEF Returned
  <2>2. /\ session'.status = session.status /\ session'.executed = session.executed
        /\ session'.recording # 0 => session'.phase = "escalated"
    BY <1>1, <1>3, <2>1, ProcessedFacts
  <2> QED BY <1>3, <2>2 DEF Unanswered, RecordedIsOver
<1>4. CASE Open
  <2>1. at = "opening"
    BY <1>4 DEF Open
  <2>2. session.recording = 0
    BY <1>2, <2>1 DEF Returned
  <2>3. CASE EnterRound(session, tokens)
    BY <1>0, <1>1, <2>2, <2>3, HeadHandOver
  <2>4. CASE session' = Fail(session) /\ at' = "returned"
    <3>1. at' \in Returned
      BY <2>4 DEF Returned
    <3> QED BY <2>4, <3>1, ClosingHandOver
  <2> QED BY <1>4, <2>3, <2>4 DEF Open
<1>5. CASE CallFails
  <2>1. session' = Escalate(session) /\ at' \in Returned
    BY <1>5 DEF CallFails, Returned
  <2> QED BY <2>1, ClosingHandOver
<1>6. CASE AsksForTools
  <2>1. at = "calling" /\ session' = session
    BY <1>6 DEF AsksForTools
  <2>2. session.recording = 0
    BY <1>2, <2>1 DEF Returned
  <2> QED BY <2>1, <2>2 DEF Unanswered, RecordedIsOver
<1>7. CASE RunTools
  <2>1. at = "tools" /\ EnterRound(session, tokens)
    BY <1>7 DEF RunTools
  <2>2. session.recording = 0
    BY <1>2, <2>1 DEF Returned
  <2> QED BY <1>0, <1>1, <2>1, <2>2, HeadHandOver
<1>8. CASE Enforce
  <2>1. at = "calling" /\ EnterRound(session, tokens')
    BY <1>8 DEF Enforce
  <2>2. session.recording = 0
    BY <1>2, <2>1 DEF Returned
  <2> QED BY <1>0, <1>1, <2>1, <2>2, HeadHandOver
<1>9. ASSUME NEW answer \in Answers, Conclude(answer)
      PROVE  Unanswered' /\ RecordedIsOver'
  <2>1. /\ at = "calling" /\ session' = Processed(session, answer)
        /\ at' \in {"scoring", "reviewing", "returned"}
        /\ at' = "reviewing" => Reviews(session')
    BY <1>9 DEF Conclude
  <2>2. session'.phase = "escalated" => at' \in {"scoring"} \cup Returned
    BY <2>1 DEF Reviews, Returned
  <2> QED BY <1>3, <2>1, <2>2
<1>10. ASSUME NEW answer \in Answers, CutOff(answer)
       PROVE  Unanswered' /\ RecordedIsOver'
  <2>1. at = "calling" /\ session' = Processed(session, answer) /\ at' = "cut"
    BY <1>10 DEF CutOff
  <2>2. at' \in {"scoring"} \cup Returned
    BY <2>1 DEF Returned
  <2> QED BY <1>3, <2>1, <2>2
<1>11. CASE Scored
  <2>1. /\ at = "scoring" /\ session' = session
        /\ \/ at' = "reviewing" /\ session.phase # "escalated"
           \/ at' = "returned"
    BY <1>11 DEF Scored, Reviews
  <2> QED BY <2>1 DEF Unanswered, RecordedIsOver, Returned
<1>12. CASE Approved
  <2>1. session' = session /\ at = "reviewing"
    BY <1>12 DEF Approved
  <2>2. session.recording = 0
    BY <1>2, <2>1 DEF Returned
  <2> QED BY <2>1, <2>2 DEF Unanswered, RecordedIsOver
<1>13. CASE Rejected
  <2>1. session' = Escalate(session) /\ at' \in Returned
    BY <1>13 DEF Rejected, Returned
  <2> QED BY <2>1, ClosingHandOver
<1>14. CASE Revise
  <2>1. at = "reviewing" /\ EnterRound(session, tokens)
    BY <1>14 DEF Revise
  <2>2. session.recording = 0
    BY <1>2, <2>1 DEF Returned
  <2> QED BY <1>0, <1>1, <2>1, <2>2, HeadHandOver
<1>15. CASE ClosedOutside
  BY <1>1, <1>15, OrchestratorAssumption DEF ClosedOutside, OrchestratorAssumption
<1>16. CASE Classify
  <2>1. at = "triage" /\ at' \in {"recall", "abandoned", "returned"}
    BY <1>16 DEF Classify, PipelineFails
  <2>2. session.recording = 0
    BY <1>2, <2>1 DEF Returned
  <2>3. CASE session' = session
    BY <2>2, <2>3 DEF Unanswered, RecordedIsOver
  <2>4. CASE session' = Fail(session) /\ at' = "returned"
    <3>1. at' \in Returned
      BY <2>4 DEF Returned
    <3> QED BY <2>4, <3>1, ClosingHandOver
  <2> QED BY <1>16, <2>3, <2>4 DEF Classify, PipelineFails
<1>17. CASE StartSpecialist
  <2> DEFINE t == Transition(session, "investigating")
  <2>1. at = "recall" /\ (EnterRound(t, tokens) \/ session' = t)
    BY <1>17 DEF StartSpecialist
  <2>2. session.recording = 0
    BY <1>2, <2>1 DEF Returned
  <2>3. /\ t \in SessionType /\ t.status = "pending" /\ ~t.executed
        /\ t.recording = 0
    BY <1>0, <1>1, <2>2, StartFacts
  <2> HIDE DEF t
  <2>4. CASE EnterRound(t, tokens)
    BY <2>3, <2>4, HeadHandOver
  <2>5. CASE session' = t
    BY <2>3, <2>5 DEF Unanswered, RecordedIsOver
  <2> QED BY <2>1, <2>4, <2>5
<1>18. CASE UNCHANGED vars
  BY <1>18 DEF vars, Unanswered, RecordedIsOver
<1> QED BY <1>4, <1>5, <1>6, <1>7, <1>8, <1>9, <1>10, <1>11, <1>12, <1>13,
           <1>14, <1>15, <1>16, <1>17, <1>18 DEF Next, Investigating

\* The number of closings never goes back to zero.
LEMMA StillUndisturbed ==
    ASSUME TypeOK, [Next]_vars, closings' = 0
    PROVE  closings = 0
<1>1. closings \in Nat
  BY OrchestratorAssumption DEF OrchestratorAssumption, TypeOK
<1>2. closings' = closings \/ closings' = closings + 1
  BY DEF Next, Investigating, Classify, StartSpecialist, Open, CallFails, AsksForTools, RunTools, Enforce,
         Conclude, CutOff, Scored, Approved, Rejected, Revise, ClosedOutside, vars
<1> QED BY <1>1, <1>2

Undisturbed == closings = 0 => Unanswered /\ RecordedIsOver

\* Undisturbed, the investigation hands over a proposal that nobody has
\* answered and that was not recorded: the initial states of Approval.
THEOREM HandsOverCleanly == Spec => []CleanHandOver
<1>1. Init => Undisturbed
  BY InitFacts DEF Undisturbed, Unanswered, RecordedIsOver
<1>2. TypeOK /\ Undisturbed /\ [Next]_vars => Undisturbed'
  <2> SUFFICES ASSUME TypeOK, Undisturbed, [Next]_vars, closings' = 0
               PROVE  Unanswered' /\ RecordedIsOver'
    BY DEF Undisturbed
  <2>1. closings = 0
    BY StillUndisturbed
  <2>2. Unanswered /\ RecordedIsOver
    BY <2>1 DEF Undisturbed
  <2> QED BY <2>2, StepHandOver
<1>3. Inv /\ Undisturbed => CleanHandOver
  BY DEF Inv, AwaitingHasFix, Undisturbed, Unanswered, RecordedIsOver,
         CleanHandOver
<1> QED BY <1>1, <1>2, <1>3, Invariance, PTL DEF Spec

-----------------------------------------------------------------------------
(* Closed sessions *)

\* Only a final answer, or a specialist that starts, reopens a session that was
\* closed from outside.
THEOREM ReopenedOnlyByAnswerAlways == Spec => ReopenedOnlyByAnswer
<1> DEFINE Reopened == session.phase \in Terminal /\ session'.phase \notin Terminal
<1>1. ASSUME TypeOK, [Next]_vars, Reopened
      PROVE  at = "recall" \/ (at = "calling" /\ at' # "calling")
  <2>0. CASE Classify
    BY <1>1, <2>0, EndedFacts DEF Classify, PipelineFails, TypeOK, Ended
  <2>00. CASE StartSpecialist
    BY <2>00 DEF StartSpecialist
  <2>1. session \in SessionType
    BY <1>1 DEF TypeOK
  <2>2. session' # session
    BY <1>1
  <2>3. /\ session' # Escalate(session) /\ session' # Fail(session)
        /\ session' # MarkResolved(session) /\ session' # Reject(session)
    BY <1>1, <2>1, EndedFacts, PhaseNames
  <2>4. ASSUME NEW used PROVE ~EnterRound(session, used)
    BY <1>1, <2>1, <2>2, <2>3, EnterRoundFacts
  <2>5. ~Open /\ ~CallFails /\ ~RunTools /\ ~Enforce /\ ~Revise
    BY <2>3, <2>4 DEF Open, CallFails, RunTools, Enforce, Revise
  <2>6. ~AsksForTools /\ ~Scored /\ ~Approved /\ ~Rejected /\ ~ClosedOutside
    BY <2>2, <2>3 DEF AsksForTools, Scored, Approved, Rejected, ClosedOutside
  <2>7. \/ Classify \/ StartSpecialist
        \/ \E answer \in Answers : Conclude(answer) \/ CutOff(answer)
    BY <1>1, <2>2, <2>5, <2>6 DEF Next, Investigating, vars
  <2> QED BY <2>0, <2>00, <2>7 DEF Conclude, CutOff
<1>2. TypeOK /\ [Next]_vars
        => [Reopened => at = "recall" \/ (at = "calling" /\ at' # "calling")]_vars
  BY <1>1
<1> QED BY <1>2, TypeCorrect, PTL DEF Spec, ReopenedOnlyByAnswer

-----------------------------------------------------------------------------
(* The conversation: what appending and pruning do to a list of messages *)

Answered(m, i) ==
    m[i].kind = "tool_use" =>
        i < Len(m) /\ m[i + 1] = [kind |-> "tool_result", round |-> m[i].round]

Called(m, i) ==
    m[i].kind = "tool_result" => m[i - 1] = [kind |-> "tool_use", round |-> m[i].round]

Turns(m) ==
    /\ m # <<>> => m[1].kind = "opening"
    /\ \A i \in 1..Len(m) : m[i].kind \in AssistantKinds <=> i % 2 = 0

\* What can be sent, but for the message before the cut of a conversation that
\* is pruned.
Whole(m, prunes) ==
    /\ \A i \in 1..Len(m) : Answered(m, i) \/ (prunes /\ i = KeepStart)
    /\ \A i \in 2..Len(m) : Called(m, i)

\* A conversation the user had the last word in.
Fit(m, prunes) == Turns(m) /\ Whole(m, prunes) /\ Len(m) % 2 = 1

LEMMA KindFacts ==
    /\ {"tool_use", "text"} \subseteq AssistantKinds
    /\ \A e \in Message : e.kind \in AssistantKinds \cup UserKinds
    /\ AssistantKinds \cap UserKinds = {}
    /\ {"opening", "tool_result", "reminder", "summary"} \subseteq UserKinds
BY DEF AssistantKinds, UserKinds, Message

\* Appending somebody else's message keeps the turns.
LEMMA AppendTurns ==
    ASSUME NEW m \in Seq(Message), Turns(m), NEW e \in Message,
           e.kind \in AssistantKinds <=> Len(m) % 2 = 1,
           m = <<>> => e.kind = "opening"
    PROVE  Turns(Append(m, e))
<1> DEFINE a == Append(m, e)
<1>1. /\ Len(m) \in Nat /\ Len(a) = Len(m) + 1
      /\ \A i \in 1..Len(m) : a[i] = m[i]
      /\ a[Len(m) + 1] = e
  BY AppendProperties, LenProperties
<1>2. m = <<>> <=> Len(m) = 0
  BY EmptySeq
<1> HIDE DEF a
<1>3. a[1].kind = "opening"
  <2>1. CASE m = <<>>
    BY <1>1, <1>2, <2>1
  <2>2. CASE m # <<>>
    <3>1. 1 \in 1..Len(m)
      BY <1>1, <1>2, <2>2
    <3> QED BY <1>1, <2>2, <3>1 DEF Turns
  <2> QED BY <2>1, <2>2
<1>4. ASSUME NEW i \in 1..Len(a) PROVE a[i].kind \in AssistantKinds <=> i % 2 = 0
  <2>1. CASE i \in 1..Len(m)
    BY <1>1, <2>1 DEF Turns
  <2>2. CASE i = Len(m) + 1
    <3>1. i % 2 = 0 <=> Len(m) % 2 = 1
      BY <1>1, <2>2
    <3> QED BY <1>1, <2>2, <3>1
  <2> QED BY <1>1, <2>1, <2>2
<1>5. Turns(a)
  BY <1>3, <1>4 DEF Turns
<1> QED BY <1>5 DEF a

\* Claude answers.
LEMMA AnswerFacts ==
    ASSUME NEW m \in Seq(Message), NEW prunes, Fit(m, prunes),
           NEW e \in Message, e.kind \in AssistantKinds
    PROVE  Append(m, e) \in Seq(Message) /\ Turns(Append(m, e))
<1>1. Len(m) # 0
  BY DEF Fit
<1>2. m # <<>>
  BY <1>1, EmptySeq
<1> QED BY <1>2, AppendTurns, AppendProperties DEF Fit

\* An answer and what it is answered with: the results of the tools, if and only
\* if it asked for tools.
LEMMA ExchangeFacts ==
    ASSUME NEW m \in Seq(Message), NEW prunes, Fit(m, prunes),
           NEW e \in Message, NEW r \in Message,
           e.kind \in AssistantKinds, r.kind \notin AssistantKinds,
           e.kind = "tool_use" \/ r.kind = "tool_result"
              => /\ e.kind = "tool_use"
                 /\ r = [kind |-> "tool_result", round |-> e.round]
    PROVE  /\ Append(Append(m, e), r) \in Seq(Message)
           /\ Fit(Append(Append(m, e), r), prunes)
           /\ Len(Append(Append(m, e), r)) = Len(m) + 2
<1> DEFINE a == Append(m, e)
<1> DEFINE b == Append(a, r)
<1>1. /\ a \in Seq(Message) /\ a # <<>>
      /\ Len(m) \in Nat /\ Len(a) = Len(m) + 1
      /\ \A i \in 1..Len(m) : a[i] = m[i]
      /\ a[Len(m) + 1] = e
  BY AppendProperties, LenProperties
<1>2. Turns(a)
  BY AnswerFacts
<1> HIDE DEF a
<1>3. /\ b \in Seq(Message) /\ Len(b) = Len(a) + 1
      /\ \A i \in 1..Len(a) : b[i] = a[i]
      /\ b[Len(a) + 1] = r
  BY <1>1, AppendProperties
<1>4. Turns(b)
  <2>1. Len(a) % 2 = 0
    BY <1>1 DEF Fit
  <2> QED BY <1>1, <1>2, <2>1, AppendTurns
<1> HIDE DEF b
<1>5. /\ Len(b) = Len(m) + 2
      /\ \A i \in 1..Len(m) : b[i] = m[i]
      /\ b[Len(m) + 1] = e /\ b[Len(m) + 2] = r
  BY <1>1, <1>3
<1>6. ASSUME NEW i \in 1..Len(b) PROVE Answered(b, i) \/ (prunes /\ i = KeepStart)
  <2>1. CASE i \in 1..Len(m)
    <3>1. CASE prunes /\ i = KeepStart
      BY <3>1
    <3>2. CASE Answered(m, i)
      <4>1. m[i].kind = "tool_use" => i + 1 \in 1..Len(m)
        BY <1>1, <2>1, <3>2 DEF Answered
      <4> QED BY <1>1, <1>5, <2>1, <3>2, <4>1 DEF Answered
    <3> QED BY <2>1, <3>1, <3>2 DEF Fit, Whole
  <2>2. CASE i = Len(m) + 1
    BY <1>1, <1>5, <2>2 DEF Answered
  <2>3. CASE i = Len(m) + 2
    BY <1>5, <2>3, KindFacts DEF Answered
  <2> QED BY <1>1, <1>5, <2>1, <2>2, <2>3
<1>7. ASSUME NEW i \in 2..Len(b) PROVE Called(b, i)
  <2>1. CASE i \in 2..Len(m)
    <3>1. b[i] = m[i] /\ b[i - 1] = m[i - 1]
      BY <1>1, <1>5, <2>1
    <3> QED BY <2>1, <3>1 DEF Fit, Whole, Called
  <2>2. CASE i = Len(m) + 1
    BY <1>5, <2>2, KindFacts DEF Called
  <2>3. CASE i = Len(m) + 2
    <3>1. i - 1 = Len(m) + 1
      BY <1>1, <2>3
    <3>2. r.kind = "tool_result" => e = [kind |-> "tool_use", round |-> r.round]
      BY DEF Message
    <3> QED BY <1>5, <2>3, <3>1, <3>2 DEF Called
  <2> QED BY <1>1, <1>5, <2>1, <2>2, <2>3
<1>8. Len(b) % 2 = 1
  BY <1>1, <1>5 DEF Fit
<1>9. Fit(b, prunes)
  BY <1>4, <1>6, <1>7, <1>8 DEF Fit, Whole
<1> QED BY <1>3, <1>5, <1>9 DEF a, b

\* Pruning, message by message.
LEMMA PrunedFacts ==
    ASSUME NEW m \in Seq(Message), Len(m) > PruneAbove
    PROVE  /\ Pruned(m) \in Seq(Message)
           /\ Len(Pruned(m)) = KeepStart + 1 + KeepEnd
           /\ \A i \in 1..KeepStart : Pruned(m)[i] = m[i]
           /\ Pruned(m)[KeepStart + 1] = [kind |-> "summary", round |-> 0]
           /\ \A i \in KeepStart + 2..KeepStart + 1 + KeepEnd :
                Pruned(m)[i] = m[i + (Len(m) - (KeepStart + 1 + KeepEnd))]
<1> DEFINE head == SubSeq(m, 1, KeepStart)
           sum == <<[kind |-> "summary", round |-> 0]>>
           from == Len(m) - KeepEnd + 1
           tail == SubSeq(m, from, Len(m))
           top == head \o sum
<1>1. /\ Len(m) \in Nat /\ from \in Nat /\ from > KeepStart + 2
      /\ KeepStart \in Nat /\ KeepEnd \in Nat /\ KeepEnd > 0
      /\ KeepStart < Len(m)
  BY LenProperties, PruningAssumption
<1>2. \A i \in 1..Len(m) : m[i] \in Message
  BY ElementOfSeq
<1>3. /\ head \in Seq(Message) /\ Len(head) = KeepStart
      /\ \A i \in 1..KeepStart : head[i] = m[i]
  <2>1. \A i \in 1..KeepStart : m[i] \in Message
    BY <1>1, <1>2
  <2>2. /\ head \in Seq(Message)
        /\ Len(head) = IF 1 <= KeepStart THEN KeepStart - 1 + 1 ELSE 0
        /\ \A i \in 1..KeepStart - 1 + 1 : head[i] = m[1 + i - 1]
    BY <1>1, <2>1, SubSeqProperties
  <2> HIDE DEF head
  <2>3. 1 <= KeepStart /\ KeepStart - 1 + 1 = KeepStart
    BY <1>1, PruningAssumption
  <2>4. \A i \in 1..KeepStart : 1 + i - 1 = i
    BY <1>1
  <2> QED BY <2>2, <2>3, <2>4
<1>4. /\ sum \in Seq(Message) /\ Len(sum) = 1
      /\ sum[1] = [kind |-> "summary", round |-> 0]
  BY DEF Message, UserKinds
<1>5. /\ tail \in Seq(Message) /\ Len(tail) = KeepEnd
      /\ \A i \in 1..KeepEnd : tail[i] = m[i + (Len(m) - KeepEnd)]
  <2>1. \A i \in from..Len(m) : m[i] \in Message
    BY <1>1, <1>2
  <2>2. /\ tail \in Seq(Message)
        /\ Len(tail) = IF from <= Len(m) THEN Len(m) - from + 1 ELSE 0
        /\ \A i \in 1..Len(m) - from + 1 : tail[i] = m[from + i - 1]
    BY <1>1, <2>1, SubSeqProperties
  <2> HIDE DEF tail
  <2> QED BY <1>1, <2>2
<1> HIDE DEF head, sum, tail
<1>6. /\ top \in Seq(Message) /\ Len(top) = KeepStart + 1
      /\ \A i \in 1..KeepStart : top[i] = m[i]
      /\ top[KeepStart + 1] = [kind |-> "summary", round |-> 0]
  <2>1. /\ top \in Seq(Message) /\ Len(top) = Len(head) + Len(sum)
        /\ \A i \in 1..Len(head) + Len(sum) : top[i] =
             IF i <= Len(head) THEN head[i] ELSE sum[i - Len(head)]
    BY <1>3, <1>4, ConcatProperties
  <2> HIDE DEF top
  <2> QED BY <1>1, <1>3, <1>4, <2>1
<1>7. Pruned(m) = top \o tail
  BY DEF Pruned, head, sum, tail
<1> HIDE DEF top
<1>8. /\ Pruned(m) \in Seq(Message) /\ Len(Pruned(m)) = KeepStart + 1 + KeepEnd
      /\ \A i \in 1..KeepStart + 1 + KeepEnd : Pruned(m)[i] =
           IF i <= KeepStart + 1 THEN top[i] ELSE tail[i - (KeepStart + 1)]
  <2> DEFINE whole == top \o tail
  <2>1. /\ whole \in Seq(Message) /\ Len(whole) = Len(top) + Len(tail)
        /\ \A i \in 1..Len(top) + Len(tail) : whole[i] =
             IF i <= Len(top) THEN top[i] ELSE tail[i - Len(top)]
    BY <1>5, <1>6, ConcatProperties
  <2> HIDE DEF whole
  <2>2. Len(top) + Len(tail) = KeepStart + 1 + KeepEnd
    BY <1>1, <1>5, <1>6
  <2>3. /\ whole \in Seq(Message) /\ Len(whole) = KeepStart + 1 + KeepEnd
        /\ \A i \in 1..KeepStart + 1 + KeepEnd : whole[i] =
             IF i <= KeepStart + 1 THEN top[i] ELSE tail[i - (KeepStart + 1)]
    BY <1>6, <2>1, <2>2
  <2> QED BY <1>7, <2>3 DEF whole
<1>9. ASSUME NEW i \in KeepStart + 2..KeepStart + 1 + KeepEnd
      PROVE  Pruned(m)[i] = m[i + (Len(m) - (KeepStart + 1 + KeepEnd))]
  <2>1. /\ i - (KeepStart + 1) \in 1..KeepEnd
        /\ i - (KeepStart + 1) + (Len(m) - KeepEnd)
             = i + (Len(m) - (KeepStart + 1 + KeepEnd))
        /\ i \in 1..KeepStart + 1 + KeepEnd /\ ~(i <= KeepStart + 1)
    BY <1>1
  <2> QED BY <1>5, <1>8, <2>1
<1> QED BY <1>1, <1>6, <1>8, <1>9

\* Pruning a conversation the user had the last word in: the cut is between an
\* answer and what the user said to it, and the tail starts with an answer.
LEMMA PrunedFit ==
    ASSUME NEW m \in Seq(Message), Len(m) > PruneAbove, Fit(m, TRUE)
    PROVE  Fit(Pruned(m), TRUE)
<1> DEFINE p == Pruned(m)
           gap == Len(m) - (KeepStart + 1 + KeepEnd)
<1>1. /\ Len(m) \in Nat /\ KeepStart \in Nat /\ KeepEnd \in Nat
      /\ KeepStart > 0 /\ KeepEnd > 0
      /\ KeepStart % 2 = 0 /\ KeepEnd % 2 = 0 /\ Len(m) % 2 = 1
  BY LenProperties, PruningAssumption DEF Fit
<1>2. gap \in Nat /\ gap > 0 /\ gap % 2 = 0
  BY <1>1, PruningAssumption
<1>3. /\ Len(p) = KeepStart + 1 + KeepEnd
      /\ \A i \in 1..KeepStart : p[i] = m[i]
      /\ p[KeepStart + 1] = [kind |-> "summary", round |-> 0]
      /\ \A i \in KeepStart + 2..KeepStart + 1 + KeepEnd : p[i] = m[i + gap]
  BY PrunedFacts
<1>4. Len(m) = KeepStart + 1 + KeepEnd + gap
  BY <1>1
<1>0. KeepStart + 1 + KeepEnd \in Nat /\ (KeepStart + 1 + KeepEnd) % 2 = 1
  BY <1>1
<1>5. Len(p) \in Nat /\ Len(p) % 2 = 1
  BY <1>0, <1>3
<1> HIDE DEF p, gap
<1>6. Turns(p)
  <2>1. p[1].kind = "opening"
    <3>1. m # <<>>
      BY <1>1, EmptySeq
    <3> QED BY <1>1, <1>3, <3>1 DEF Fit, Turns
  <2>2. ASSUME NEW i \in 1..Len(p) PROVE p[i].kind \in AssistantKinds <=> i % 2 = 0
    <3>1. CASE i \in 1..KeepStart
      <4>1. i \in 1..Len(m)
        BY <1>1, <1>2, <1>4, <3>1
      <4> QED BY <1>3, <3>1, <4>1 DEF Fit, Turns
    <3>2. CASE i = KeepStart + 1
      <4>1. i % 2 # 0
        BY <1>1, <3>2
      <4>2. p[i].kind = "summary"
        BY <1>3, <3>2
      <4> QED BY <4>1, <4>2, KindFacts
    <3>3. CASE i \in KeepStart + 2..KeepStart + 1 + KeepEnd
      <4>1. i + gap \in 1..Len(m)
        BY <1>1, <1>2, <1>4, <3>3
      <4>2. (i + gap) % 2 = 0 <=> i % 2 = 0
        BY <1>2, <3>3
      <4> QED BY <1>3, <3>3, <4>1, <4>2 DEF Fit, Turns
    <3> QED BY <1>1, <1>3, <3>1, <3>2, <3>3
  <2> QED BY <2>1, <2>2 DEF Turns
<1>7. ASSUME NEW i \in 1..Len(p), i # KeepStart PROVE Answered(p, i)
  <2>1. CASE i \in 1..KeepStart - 1
    <3>1. i \in 1..Len(m) /\ p[i] = m[i] /\ p[i + 1] = m[i + 1]
      BY <1>1, <1>2, <1>3, <1>4, <2>1
    <3>2. i < Len(p)
      BY <1>1, <1>3, <2>1
    <3> QED BY <1>7, <3>1, <3>2 DEF Fit, Whole, Answered
  <2>2. CASE i = KeepStart + 1
    BY <1>3, <2>2 DEF Answered
  <2>3. CASE i \in KeepStart + 2..KeepStart + 1 + KeepEnd
    <3>1. i + gap \in 1..Len(m) /\ i + gap # KeepStart
      BY <1>1, <1>2, <1>4, <2>3
    <3>0. p[i] = m[i + gap]
      BY <1>3, <2>3
    <3>2. Answered(m, i + gap)
      BY <3>1 DEF Fit, Whole
    <3>3. ASSUME p[i].kind = "tool_use"
          PROVE  i < Len(p) /\ p[i + 1] = m[i + gap + 1]
      <4>1. i + gap < Len(m)
        BY <3>0, <3>2, <3>3 DEF Answered
      <4>0. Len(p) = KeepStart + 1 + KeepEnd
        BY <1>3
      <4>2. i < Len(p) /\ i + 1 \in KeepStart + 2..KeepStart + 1 + KeepEnd
            /\ i + 1 + gap = i + gap + 1
        BY <1>1, <1>2, <1>4, <2>3, <4>0, <4>1
      <4>3. p[i + 1] = m[i + 1 + gap]
        BY <1>3, <4>2
      <4> QED BY <4>2, <4>3
    <3> QED BY <3>0, <3>2, <3>3 DEF Answered
  <2> QED BY <1>1, <1>3, <1>7, <2>1, <2>2, <2>3
<1>8. ASSUME NEW i \in 2..Len(p) PROVE Called(p, i)
  <2>1. CASE i \in 2..KeepStart
    <3>1. i \in 2..Len(m) /\ p[i] = m[i] /\ p[i - 1] = m[i - 1]
      BY <1>1, <1>2, <1>3, <1>4, <2>1
    <3> QED BY <3>1 DEF Fit, Whole, Called
  <2>2. CASE i = KeepStart + 1
    BY <1>3, <2>2 DEF Called
  <2>3. CASE i = KeepStart + 2
    <3>1. i \in 1..Len(p) /\ i % 2 = 0
      BY <1>1, <1>3, <2>3
    <3>2. p[i].kind \in AssistantKinds
      BY <1>6, <3>1 DEF Turns
    <3> QED BY <3>2, KindFacts DEF Called
  <2>4. CASE i \in KeepStart + 3..KeepStart + 1 + KeepEnd
    <3>1. i + gap \in 2..Len(m) /\ p[i] = m[i + gap] /\ p[i - 1] = m[(i + gap) - 1]
      <4>1. i - 1 \in KeepStart + 2..KeepStart + 1 + KeepEnd /\ (i - 1) + gap = (i + gap) - 1
        BY <1>1, <1>2, <2>4
      <4>2. i \in KeepStart + 2..KeepStart + 1 + KeepEnd /\ i + gap \in 2..Len(m)
        BY <1>1, <1>2, <1>4, <2>4
      <4> QED BY <1>3, <4>1, <4>2
    <3>2. Called(m, i + gap)
      BY <3>1 DEF Fit, Whole
    <3> QED BY <3>1, <3>2 DEF Called
  <2>5. \/ i \in 2..KeepStart \/ i = KeepStart + 1 \/ i = KeepStart + 2
        \/ i \in KeepStart + 3..KeepStart + 1 + KeepEnd
    BY <1>1, <1>3
  <2> QED BY <2>1, <2>2, <2>3, <2>4, <2>5
<1>9. Fit(p, TRUE)
  BY <1>5, <1>6, <1>7, <1>8 DEF Fit, Whole
<1> QED BY <1>9 DEF p

\* The conversation an investigation opens with.
LEMMA OpeningFacts ==
    ASSUME NEW e \in Message, e.kind = "opening", NEW prunes
    PROVE  /\ Append(<<>>, e) \in Seq(Message)
           /\ Len(Append(<<>>, e)) = 1
           /\ Fit(Append(<<>>, e), prunes)
<1> DEFINE a == Append(<<>>, e)
<1>1. <<>> \in Seq(Message) /\ Len(<<>>) = 0 /\ Turns(<<>>)
  BY EmptySeq DEF Turns
<1>2. /\ a \in Seq(Message) /\ Len(a) = 1
      /\ a[1] = e
  BY <1>1, AppendProperties
<1>3. Turns(a)
  <2>1. e.kind \in AssistantKinds <=> Len(<<>>) % 2 = 1
    BY <1>1, KindFacts
  <2> QED BY <1>1, <2>1, AppendTurns
<1> HIDE DEF a
<1>4. Whole(a, prunes)
  BY <1>2 DEF Whole, Answered
<1> QED BY <1>2, <1>3, <1>4 DEF Fit, a

-----------------------------------------------------------------------------
(* The conversation in the loop *)

\* Nothing is said before the loop.
NotBegun == at \in {"triage", "recall", "opening"} => messages = <<>> /\ rounds = 0

\* What is sent, and how long it is.
SentIsFit == at = "calling" =>
    /\ Fit(messages, MayBePruned)
    /\ Len(messages) <= 2 * rounds - 1
    /\ agent = "general" => Len(messages) <= PruneAbove

\* While tools run or the answer is examined, the answer is the last message.
AnswerIsLast == at \in {"tools", "scoring", "reviewing"} =>
    \E m \in Seq(Message) :
        /\ messages = Append(m, Said(IF at = "tools" THEN "tool_use" ELSE "text"))
        /\ Fit(m, MayBePruned)
        /\ Len(m) <= 2 * rounds - 1

Talk == /\ messages \in Seq(Message)
        /\ Turns(messages)
        /\ NotBegun
        /\ SentIsFit
        /\ AnswerIsLast

LEMMA SaidFacts ==
    ASSUME TypeOK, NEW kind \in AssistantKinds \cup UserKinds
    PROVE  Said(kind) \in Message /\ Said(kind).kind = kind /\ Said(kind).round = rounds
BY OrchestratorAssumption DEF TypeOK, Said, Message

\* Once the loop is left, only the turns matter.
LEMMA SilentTalk ==
    ASSUME messages' \in Seq(Message), Turns(messages'), at' \in Over
    PROVE  Talk'
BY DEF Talk, NotBegun, SentIsFit, AnswerIsLast, Over, Returned, Turns

\* The head of the loop, with the conversation m.
LEMMA HeadTalk ==
    ASSUME TypeOK, NEW s, NEW used, EnterRound(s, used), agent' = agent,
           NEW m \in Seq(Message), Fit(m, MayBePruned),
           Len(m) <= 2 * rounds + 1, messages' = Entered(m)
    PROVE  Talk'
<1>1. rounds \in Nat /\ Len(m) \in Nat /\ PruneAbove \in Nat
  BY LenProperties, OrchestratorAssumption, PruningAssumption DEF TypeOK
<1>2. \/ at' = "returned"
      \/ at' = "calling" /\ RoundsLeft /\ rounds' = rounds + 1
  BY DEF EnterRound
<1>3. CASE RoundsLeft /\ agent = "general" /\ Len(m) > PruneAbove
  <2>1. messages' = Pruned(m)
    BY <1>3 DEF Entered, Sent
  <2>2. Fit(m, TRUE)
    BY DEF Fit, Whole
  <2>3. Fit(messages', TRUE) /\ Turns(messages')
    BY <1>3, <2>1, <2>2, PrunedFit DEF Fit
  <2>4. /\ messages' \in Seq(Message)
        /\ Len(messages') = KeepStart + 1 + KeepEnd
    BY <1>3, <2>1, PrunedFacts
  <2>5. CASE at' = "calling" /\ rounds' = rounds + 1
    <3>1. 2 * rounds' - 1 = 2 * rounds + 1
      BY <1>1, <2>5
    <3>2. Len(messages') <= PruneAbove /\ Len(messages') <= 2 * rounds' - 1
      BY <1>1, <1>3, <2>4, <3>1, PruningAssumption
    <3>3. MayBePruned'
      BY <1>1, <1>3, <3>1 DEF MayBePruned
    <3>4. SentIsFit'
      BY <2>3, <3>2, <3>3 DEF SentIsFit, Fit, Whole, Turns, Answered, Called
    <3>5. NotBegun' /\ AnswerIsLast'
      BY <2>5 DEF NotBegun, AnswerIsLast
    <3> QED BY <2>3, <2>4, <3>4, <3>5 DEF Talk, Turns
  <2>6. CASE at' = "returned"
    <3>1. at' \in Over
      BY <2>6 DEF Over, Returned
    <3> QED BY <2>3, <2>4, <3>1, SilentTalk
  <2> QED BY <1>2, <2>5, <2>6
<1>4. CASE ~(RoundsLeft /\ agent = "general" /\ Len(m) > PruneAbove)
  <2>1. messages' = m
    BY <1>4 DEF Entered, Sent
  <2>2. Turns(messages')
    BY <2>1 DEF Fit
  <2>3. CASE at' = "calling" /\ RoundsLeft /\ rounds' = rounds + 1
    <3>1. 2 * rounds' - 1 = 2 * rounds + 1
      BY <1>1, <2>3
    <3>2. /\ Len(messages') <= 2 * rounds' - 1
          /\ agent = "general" => Len(messages') <= PruneAbove
      BY <1>1, <1>4, <2>1, <2>3, <3>1
    <3>3. MayBePruned => MayBePruned'
      BY <1>1, <3>1 DEF MayBePruned
    <3>4. SentIsFit'
      BY <2>1, <3>2, <3>3 DEF SentIsFit, Fit, Whole, Turns, Answered, Called
    <3>5. NotBegun' /\ AnswerIsLast'
      BY <2>3 DEF NotBegun, AnswerIsLast
    <3> QED BY <2>1, <2>2, <3>4, <3>5 DEF Talk, Turns
  <2>4. CASE at' = "returned"
    <3>1. at' \in Over
      BY <2>4 DEF Over, Returned
    <3> QED BY <2>1, <2>2, <3>1, SilentTalk
  <2> QED BY <1>2, <2>3, <2>4
<1> QED BY <1>3, <1>4

\* An answer is recorded and something is awaited, or the loop is left.
LEMMA AnswerTalk ==
    ASSUME TypeOK, Talk, at = "calling", agent' = agent, rounds' = rounds,
           NEW kind \in {"tool_use", "text"},
           messages' = Append(messages, Said(kind)),
           \/ at' = "tools" /\ kind = "tool_use"
           \/ at' \in {"scoring", "reviewing"} /\ kind = "text"
           \/ at' \in Over
    PROVE  Talk'
<1>1. Fit(messages, MayBePruned) /\ Len(messages) <= 2 * rounds - 1
      /\ messages \in Seq(Message)
  BY DEF Talk, SentIsFit
<1>2. Said(kind) \in Message /\ Said(kind).kind \in AssistantKinds
  BY SaidFacts, KindFacts
<1>3. messages' \in Seq(Message) /\ Turns(messages')
  BY <1>1, <1>2, AnswerFacts
<1>4. CASE at' \in Over
  BY <1>3, <1>4, SilentTalk
<1>5. CASE at' \in {"tools", "scoring", "reviewing"}
  <2>1. kind = IF at' = "tools" THEN "tool_use" ELSE "text"
    BY <1>5 DEF Over, Returned
  <2>2. AnswerIsLast'
    BY <1>1, <2>1 DEF AnswerIsLast, MayBePruned, Said, Fit, Whole, Turns, Answered, Called
  <2>3. NotBegun' /\ SentIsFit'
    BY <1>5 DEF NotBegun, SentIsFit
  <2> QED BY <1>3, <2>2, <2>3 DEF Talk, Turns
<1> QED BY <1>4, <1>5

LEMMA StepTalk ==
    ASSUME TypeOK, Talk, [ConversationNext]_<<vars, messages>>
    PROVE  Talk'
<1>1. messages \in Seq(Message) /\ Turns(messages) /\ rounds \in Nat
  BY OrchestratorAssumption DEF Talk, TypeOK
<1>2. \A kind \in AssistantKinds \cup UserKinds :
         Said(kind) \in Message /\ Said(kind).kind = kind /\ Said(kind).round = rounds
  BY SaidFacts
<1>3. {"tool_use", "text", "opening", "tool_result", "reminder"}
          \subseteq AssistantKinds \cup UserKinds
  BY DEF AssistantKinds, UserKinds
<1>4. CASE Begin
  <2>1. at \in {"recall", "opening"} /\ agent' = agent
    BY <1>4 DEF Begin, Open, StartSpecialist
  <2>2. messages = <<>> /\ rounds = 0
    BY <2>1 DEF Talk, NotBegun
  <2> DEFINE m == Append(messages, Said("opening"))
  <2>3. m \in Seq(Message) /\ Len(m) = 1 /\ Fit(m, MayBePruned)
    BY <1>2, <1>3, <2>2, OpeningFacts
  <2>4. messages' = Entered(m) \/ messages' = messages
    BY <1>4 DEF Begin
  <2> HIDE DEF m
  <2>5. CASE messages' = Entered(m)
    <3>1. CASE \E s, used : EnterRound(s, used)
      <4>1. Len(m) <= 2 * rounds + 1
        BY <2>2, <2>3
      <4> QED BY <2>1, <2>3, <2>5, <3>1, <4>1, HeadTalk
    <3>2. CASE at' \in Over
      <4>1. messages' \in Seq(Message) /\ Turns(messages')
        <5>1. Len(m) <= PruneAbove
          BY <2>3, PruningAssumption
        <5>2. messages' = m
          BY <2>3, <2>5, <5>1, PruningAssumption DEF Entered, Sent
        <5> QED BY <2>3, <5>2 DEF Fit
      <4> QED BY <3>2, <4>1, SilentTalk
    <3>3. (\E s, used : EnterRound(s, used)) \/ at' \in Over
      BY <1>4 DEF Begin, Open, StartSpecialist, Over, Returned
    <3> QED BY <3>1, <3>2, <3>3
  <2>6. CASE messages' = messages /\ messages' # Entered(m)
    <3>1. at' \in Over
      BY <1>4, <2>6 DEF Begin, m, Over, Returned
    <3> QED BY <1>1, <2>6, <3>1, SilentTalk
  <2> QED BY <2>4, <2>5, <2>6
<1>5. CASE AsksInTurn
  <2>1. /\ at = "calling" /\ at' = "tools" /\ agent' = agent /\ rounds' = rounds
        /\ messages' = Append(messages, Said("tool_use"))
    BY <1>5 DEF AsksInTurn, AsksForTools
  <2> QED BY <2>1, AnswerTalk
<1>6. ASSUME NEW m \in Seq(Message), Fit(m, MayBePruned),
             Len(m) <= 2 * rounds - 1,
             NEW ask \in {"tool_use", "text"}, NEW reply \in {"tool_result", "reminder"},
             ask = "tool_use" <=> reply = "tool_result",
             NEW s, NEW used, EnterRound(s, used), agent' = agent,
             messages' = Entered(Append(Append(m, Said(ask)), Said(reply)))
      PROVE  Talk'
  <2>1. /\ Said(ask) \in Message /\ Said(reply) \in Message
        /\ Said(ask).kind \in AssistantKinds /\ Said(reply).kind \notin AssistantKinds
    BY <1>2, <1>3, <1>6, KindFacts
  <2>2. Said(ask).kind = "tool_use" \/ Said(reply).kind = "tool_result"
          => /\ Said(ask).kind = "tool_use"
             /\ Said(reply) = [kind |-> "tool_result", round |-> Said(ask).round]
    BY <1>6 DEF Said
  <2> DEFINE b == Append(Append(m, Said(ask)), Said(reply))
  <2>3. b \in Seq(Message) /\ Fit(b, MayBePruned) /\ Len(b) = Len(m) + 2
    BY <1>6, <2>1, <2>2, ExchangeFacts
  <2>4. Len(b) <= 2 * rounds + 1
    <3>1. Len(m) \in Nat
      BY LenProperties
    <3> HIDE DEF b
    <3> QED BY <1>1, <1>6, <2>3, <3>1
  <2>5. messages' = Entered(b)
    BY <1>6
  <2> HIDE DEF b
  <2> QED BY <1>6, <2>3, <2>4, <2>5, HeadTalk
<1>7. CASE AnswersTools
  <2>1. /\ at = "tools" /\ agent' = agent /\ EnterRound(session, tokens)
        /\ messages' = Entered(Append(messages, Said("tool_result")))
    BY <1>7 DEF AnswersTools, RunTools
  <2>2. PICK m \in Seq(Message) : /\ messages = Append(m, Said("tool_use"))
                                  /\ Fit(m, MayBePruned)
                                  /\ Len(m) <= 2 * rounds - 1
    BY <2>1 DEF Talk, AnswerIsLast
  <2> QED BY <1>6, <2>1, <2>2
<1>8. CASE Reminds
  <2>1. /\ at = "calling" /\ agent' = agent /\ EnterRound(session, tokens')
        /\ messages' = Entered(Append(Append(messages, Said("text")), Said("reminder")))
    BY <1>8 DEF Reminds, Enforce
  <2>2. Fit(messages, MayBePruned) /\ Len(messages) <= 2 * rounds - 1
    BY <2>1 DEF Talk, SentIsFit
  <2> QED BY <1>1, <1>6, <2>1, <2>2
<1>9. CASE Finishes
  <2>1. /\ at = "calling" /\ agent' = agent /\ rounds' = rounds
        /\ messages' = Append(messages, Said("text"))
        /\ at' \in {"scoring", "reviewing", "returned", "cut"}
    BY <1>9 DEF Finishes, Conclude, CutOff
  <2>2. at' \in {"scoring", "reviewing"} \/ at' \in Over
    BY <2>1 DEF Over, Returned
  <2> QED BY <2>1, <2>2, AnswerTalk
<1>10. CASE ReviewReminds
  <2>1. /\ at = "reviewing" /\ agent' = agent /\ EnterRound(session, tokens)
        /\ messages' = Entered(Append(messages, Said("reminder")))
    BY <1>10 DEF ReviewReminds, Revise
  <2>2. PICK m \in Seq(Message) : /\ messages = Append(m, Said("text"))
                                  /\ Fit(m, MayBePruned)
                                  /\ Len(m) <= 2 * rounds - 1
    BY <2>1 DEF Talk, AnswerIsLast
  <2> QED BY <1>6, <2>1, <2>2
<1>11. CASE SaysNothing
  <2>1. messages' = messages
    BY <1>11 DEF SaysNothing
  <2>2. CASE at' \in Over
    BY <1>1, <2>1, <2>2, SilentTalk
  <2>3. CASE Classify /\ at' = "recall"
    <3>1. at = "triage" /\ rounds' = rounds
      BY <2>3 DEF Classify
    <3> QED BY <1>1, <2>1, <2>3, <3>1
            DEF Talk, NotBegun, SentIsFit, AnswerIsLast, Turns
  <2>4. CASE Scored /\ at' = "reviewing"
    <3>1. at = "scoring" /\ rounds' = rounds /\ agent' = agent
      BY <2>4 DEF Scored
    <3>2. PICK m \in Seq(Message) : /\ messages = Append(m, Said("text"))
                                    /\ Fit(m, MayBePruned)
                                    /\ Len(m) <= 2 * rounds - 1
      BY <3>1 DEF Talk, AnswerIsLast
    <3>3. AnswerIsLast'
      BY <2>1, <2>4, <3>1, <3>2
         DEF AnswerIsLast, MayBePruned, Said, Fit, Whole, Turns, Answered, Called
    <3> QED BY <1>1, <2>1, <2>4, <3>3 DEF Talk, NotBegun, SentIsFit, Turns
  <2>5. CASE ClosedOutside
    <3>1. UNCHANGED <<at, agent, rounds, messages>>
      BY <2>1, <2>5 DEF ClosedOutside
    <3> QED BY <3>1 DEF Talk, NotBegun, SentIsFit, AnswerIsLast,
                        MayBePruned, Said, Fit, Whole, Turns, Answered, Called
  <2>6. \/ at' \in Over \/ ClosedOutside
        \/ Classify /\ at' = "recall"
        \/ Scored /\ at' = "reviewing"
    BY <1>11 DEF SaysNothing, Classify, PipelineFails, CallFails, Scored, Approved,
                 Rejected, Over, Returned
  <2> QED BY <2>2, <2>3, <2>4, <2>5, <2>6
<1>12. CASE UNCHANGED <<vars, messages>>
  BY <1>12 DEF vars, Talk, NotBegun, SentIsFit, AnswerIsLast,
               MayBePruned, Said, Fit, Whole, Turns, Answered, Called
<1> QED BY <1>4, <1>5, <1>7, <1>8, <1>9, <1>10, <1>11, <1>12 DEF ConversationNext

LEMMA InitTalk == ConversationInit => Talk
<1> SUFFICES ASSUME ConversationInit PROVE Talk
  OBVIOUS
<1>1. messages = <<>> /\ rounds = 0 /\ at \in {"opening", "triage"}
  BY DEF ConversationInit, Init
<1>2. messages \in Seq(Message) /\ Turns(messages)
  BY <1>1, EmptySeq DEF Turns
<1> QED BY <1>1, <1>2 DEF Talk, NotBegun, SentIsFit, AnswerIsLast

\* The loop with its conversation is the loop: what is proved of one is true of
\* the other.
THEOREM ConversationIsInvestigation == ConversationSpec => Spec
<1>1. ConversationInit => Init
  BY DEF ConversationInit
<1>2. [ConversationNext]_<<vars, messages>> => [Next]_vars
  BY DEF ConversationNext, Begin, AsksInTurn, AnswersTools, Reminds, Finishes,
         ReviewReminds, SaysNothing, Next, Investigating
<1> QED BY <1>1, <1>2, PTL DEF ConversationSpec, Spec

LEMMA TalkInvariant == ConversationSpec => []Talk
<1>1. ConversationSpec => []TypeOK
  BY ConversationIsInvestigation, TypeCorrect, PTL
<1>2. TypeOK /\ Talk /\ [ConversationNext]_<<vars, messages>> => Talk'
  BY StepTalk
<1> QED BY <1>1, <1>2, InitTalk, PTL DEF ConversationSpec

\* Users and Claude take turns, whatever is pruned.
THEOREM TurnsAreTaken == ConversationSpec => []TakesTurns
<1>1. Talk => TakesTurns
  BY DEF Talk, Turns, TakesTurns
<1> QED BY <1>1, TalkInvariant, PTL

\* What is sent is bounded.
THEOREM ContextIsBounded == ConversationSpec => []BoundedContext
<1>1. Talk => BoundedContext
  BY DEF Talk, SentIsFit, BoundedContext
<1> QED BY <1>1, TalkInvariant, PTL

\* Only the message at the cut can be separated from what followed it.
THEOREM CallsKeepTheirResults == ConversationSpec => []OnlyTheCutDangles
<1>1. Talk => OnlyTheCutDangles
  BY DEF Talk, SentIsFit, Fit, Whole, Answered, Called, OnlyTheCutDangles, AnsweredAt
<1> QED BY <1>1, TalkInvariant, PTL

\* The conversation of a specialist, and of the general agent before it is long
\* enough to be pruned, is one the API accepts.
THEOREM UnprunedIsAccepted ==
    ConversationSpec => [](at = "calling" /\ ~MayBePruned => WellFormed)
<1>1. OnlyTheCutDangles => (at = "calling" /\ ~MayBePruned => WellFormed)
  BY DEF OnlyTheCutDangles, WellFormed
<1> QED BY <1>1, CallsKeepTheirResults, PTL
=============================================================================
