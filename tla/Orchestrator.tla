---------------------------- MODULE Orchestrator ----------------------------
(***************************************************************************)
(* agent/orchestrator.py and agent/multi_agent: the loop in which Claude   *)
(* inspects the cluster until it gives a diagnosis, a fix or an            *)
(* escalation.  It is run by the general agent, or by the specialist that  *)
(* triage has chosen, with the differences of SpecialistAgent._run_loop.   *)
(* One session, from its creation to the return of investigate; "at" is    *)
(* the await the task is suspended at.  Meanwhile webhooks/grafana.py may  *)
(* resolve the session and, while it waits for approval during the review, *)
(* agent/escalation.py may reject it.                                      *)
(***************************************************************************)
EXTENDS Session

CONSTANTS
    MaxToolRounds,        \* MAX_TOOL_ROUNDS
    MaxEnforcementRounds, \* 3, agent/multi_agent/tool_subsets.py
    Domains,              \* SpecialistDomain
    Route,                \* what route_alert says of the alert
    Requirements,         \* of each agent, what check_required_tools_met asks
                          \* for, each met by calling a tool; of "general":
                          \* get_events, and one of get_pod_status and
                          \* get_node_conditions
    TokenBudget,          \* settings.max_tokens_per_session, 0: unlimited
    MaxUsage,             \* the most tokens one call of Claude can use
    Verification,         \* settings.fix_verification_enabled
    Closings              \* bound: closings from outside during the loop

Agents == Domains \cup {"general"}

ASSUME OrchestratorAssumption ==
    /\ "general" \notin Domains /\ "triage" \notin Domains
    /\ Route \in Domains
    /\ Requirements = [a \in Agents |-> Requirements[a]]
    /\ MaxToolRounds \in Nat /\ MaxEnforcementRounds \in Nat
    /\ TokenBudget \in Nat /\ MaxUsage \in Nat
    /\ Verification \in BOOLEAN
    /\ Closings \in Nat

VARIABLES
    session,
    agent,    \* who investigates: "triage" until a specialist was chosen
    at,       \* where investigate is suspended, or how it returned
    rounds,   \* rounds of the loop that were started
    tokens,   \* session.total_tokens_used
    missing,  \* the requirements no tool call has met
    enforced, \* session._enforcement_rounds
    retried,  \* session._verification_retried
    reviewed, \* the proposal the reviewer was last content with, 0: none
    closings  \* closings from outside so far

vars == <<session, agent, at, rounds, tokens, missing, enforced, retried, reviewed, closings>>

Running == {"triage", "recall", "opening", "calling", "tools", "scoring", "reviewing"}

\* "cut": the loop ended on a stop_reason that is neither end_turn nor tool_use.
Returned == {"returned", "cut"}

\* "abandoned": the pipeline has failed, and the general agent investigates the
\* alert in a session of its own.
Over == Returned \cup {"abandoned"}

TypeOK ==
    /\ session \in SessionType
    /\ agent \in Agents \cup {"triage"}
    /\ at \in Running \cup Over
    /\ rounds \in 0..MaxToolRounds
    /\ tokens \in Nat
    /\ missing \in SUBSET UNION {Requirements[a] : a \in Agents}
    /\ enforced \in 0..MaxEnforcementRounds
    /\ retried \in BOOLEAN
    /\ reviewed \in Nat
    /\ closings \in 0..Closings

\* investigate of the general agent, and of the pipeline.
Init ==
    /\ \/ /\ agent = "general" /\ at = "opening"
          /\ session = Transition(NewSession, "investigating")
          /\ missing = Requirements["general"]
       \/ /\ agent = "triage" /\ at = "triage"
          /\ session = NewSession
          /\ missing = {}
    /\ rounds = 0
    /\ tokens = 0
    /\ enforced = 0
    /\ retried = FALSE
    /\ reviewed = 0
    /\ closings = 0

-----------------------------------------------------------------------------
BudgetSpent(used) == TokenBudget > 0 /\ used >= TokenBudget

RoundsLeft == rounds < MaxToolRounds

\* Mutant: the spent budget is not looked at.
BudgetIgnored(used) == FALSE
BudgetStops(used) == BudgetSpent(used)

\* Mutant: the rounds are not counted.
EnterRoundUncounted(s, used) ==
    /\ ~BudgetStops(used) /\ session' = s /\ at' = "calling"
    /\ UNCHANGED rounds

\* The head of the loop, up to the call of Claude: s is the session and used
\* the tokens at that point.
EnterRound(s, used) ==
    \/ /\ ~RoundsLeft
       /\ session' = Escalate(s) /\ at' = "returned" /\ UNCHANGED rounds
    \/ /\ RoundsLeft
       /\ rounds' = rounds + 1
       /\ \/ BudgetStops(used) /\ session' = Escalate(s) /\ at' = "returned"
          \/ ~BudgetStops(used) /\ session' = s /\ at' = "calling"

\* MultiAgentOrchestrator.investigate, when an exception was raised: the session
\* is left as it is, unless something has come of it meanwhile.
PipelineFails ==
    IF session.phase \in {"alert_received", "investigating"}
    THEN at' = "abandoned" /\ UNCHANGED session
    ELSE at' = "returned" /\ session' = Fail(session)

\* Haiku has chosen a specialist, or it failed or was unsure and route_alert
\* has.  The import of the knowledge base, which comes next, may raise.
Classify ==
    /\ at = "triage"
    /\ \/ agent' \in Domains
       \/ agent' = Route
    /\ missing' = Requirements[agent']
    /\ \/ at' = "recall" /\ UNCHANGED session
       \/ PipelineFails
    /\ UNCHANGED <<rounds, tokens, enforced, retried, reviewed, closings>>

\* The incident memory has answered: the specialist starts, whatever became of
\* the session meanwhile.
StartSpecialist ==
    /\ at = "recall"
    /\ \/ EnterRound(Transition(session, "investigating"), tokens)
       \/ /\ session' = Transition(session, "investigating")
          /\ at' = "abandoned" /\ UNCHANGED rounds
    /\ UNCHANGED <<agent, tokens, missing, enforced, retried, reviewed, closings>>

\* The runbook, the memory and the opening message are ready (a failed recall
\* and a failed pre-fetch are ignored), or an exception fails the session.
Open ==
    /\ at = "opening"
    /\ \/ EnterRound(session, tokens)
       \/ session' = Fail(session) /\ at' = "returned" /\ UNCHANGED rounds
    /\ UNCHANGED <<agent, tokens, missing, enforced, retried, reviewed, closings>>

\* All retries of the call failed, or the answer is one not to be retried.
CallFails ==
    /\ at = "calling"
    /\ session' = Escalate(session)
    /\ at' = "returned"
    /\ UNCHANGED <<agent, rounds, tokens, missing, enforced, retried, reviewed, closings>>

\* Every answer is paid for.
Pay == tokens' \in {tokens + u : u \in 0..MaxUsage}

AsksForTools ==
    /\ at = "calling"
    /\ Pay
    /\ at' = "tools"
    /\ UNCHANGED <<session, agent, rounds, missing, enforced, retried, reviewed, closings>>

\* dispatch never raises; a tool counts as called even if it failed.
RunTools ==
    /\ at = "tools"
    /\ missing' \in SUBSET missing
    /\ EnterRound(session, tokens)
    /\ UNCHANGED <<agent, tokens, enforced, retried, reviewed, closings>>

\* What the text of the final answer parses to.
Answers == {"escalation", "nothing", "diagnosis", "fix", "both"}

\* Mutants: an answer that does not parse leaves the session alone; approval is
\* requested for a diagnosis without a fix.
ProcessedSilently(s, answer) ==
    IF answer = "nothing" THEN s
    ELSE IF answer = "escalation" THEN Escalate(s)
    ELSE RequestApproval(SetFixProposal(SetDiagnosis(s)))
ProcessedDedented(s, answer) ==
    CASE answer \in {"escalation", "nothing"} -> Escalate(s)
      [] answer = "diagnosis" -> RequestApproval(SetDiagnosis(s))
      [] answer \in {"fix", "both"} -> RequestApproval(SetFixProposal(SetDiagnosis(s)))
\* _process_final_response
Processed(s, answer) ==
    CASE answer \in {"escalation", "nothing"} -> Escalate(s)
      [] answer = "diagnosis" -> SetDiagnosis(s)
      [] answer = "fix" -> RequestApproval(SetFixProposal(s))
      [] answer = "both" -> RequestApproval(SetFixProposal(SetDiagnosis(s)))

\* Mutant: no answer is ever sent back for missing tools.
NeverEnforced == FALSE
\* The agent is told to call the required tools first, a limited number of times.
Enforced == enforced < MaxEnforcementRounds /\ missing # {}

Enforce ==
    /\ at = "calling"
    /\ Enforced
    /\ enforced' = enforced + 1
    /\ Pay
    /\ EnterRound(session, tokens')
    /\ UNCHANGED <<agent, missing, retried, reviewed, closings>>

\* Mutant: only a fix that comes with a diagnosis is reviewed.
ReviewsDiagnosed(s) ==
    agent = "general" /\ Verification /\ s.proposal > 0 /\ s.diagnosed /\ ~retried
\* Does _verify_and_maybe_retry call the reviewer?  Specialists have none.
Reviews(s) ==
    /\ agent = "general" /\ Verification
    /\ s.proposal > 0 /\ s.phase # "escalated" /\ ~retried

\* end_turn.  Scoring the fix needs a diagnosis and a fix; without an await it
\* is followed by the review at once.
Conclude(answer) ==
    /\ at = "calling"
    /\ ~Enforced
    /\ Pay
    /\ session' = Processed(session, answer)
    /\ at' = IF session'.diagnosed /\ session'.proposal > 0 THEN "scoring"
             ELSE IF Reviews(session') THEN "reviewing" ELSE "returned"
    /\ UNCHANGED <<agent, rounds, missing, enforced, retried, reviewed, closings>>

\* Any other stop_reason without tool calls (max_tokens, say): the text is
\* processed as it is, and the loop ends.
CutOff(answer) ==
    /\ at = "calling"
    /\ Pay
    /\ session' = Processed(session, answer)
    /\ at' = "cut"
    /\ UNCHANGED <<agent, rounds, missing, enforced, retried, reviewed, closings>>

Scored ==
    /\ at = "scoring"
    /\ at' = IF Reviews(session) THEN "reviewing" ELSE "returned"
    /\ UNCHANGED <<session, agent, rounds, tokens, missing, enforced, retried, reviewed, closings>>

\* APPROVE, an unreadable verdict and a failed call of the reviewer are one.
Approved ==
    /\ at = "reviewing"
    /\ reviewed' = session.proposal
    /\ at' = "returned"
    /\ UNCHANGED <<session, agent, rounds, tokens, missing, enforced, retried, closings>>

Rejected ==
    /\ at = "reviewing"
    /\ session' = Escalate(session)
    /\ at' = "returned"
    /\ UNCHANGED <<agent, rounds, tokens, missing, enforced, retried, reviewed, closings>>

\* Mutant: the session is put back to investigating for its revision.
RevisePutsBack ==
    /\ at = "reviewing"
    /\ retried' = TRUE
    /\ EnterRound(Transition(session, "investigating"), tokens)
    /\ UNCHANGED <<agent, tokens, missing, enforced, reviewed, closings>>

Revise ==
    /\ at = "reviewing"
    /\ retried' = TRUE
    /\ EnterRound(session, tokens)
    /\ UNCHANGED <<agent, tokens, missing, enforced, reviewed, closings>>

-----------------------------------------------------------------------------
\* receive_grafana_resolved finds the session active, or the escalation timer
\* finds it overdue.
ClosedOutside ==
    /\ at \notin Over
    /\ closings < Closings
    /\ closings' = closings + 1
    /\ \/ IsActive(session) /\ session' = MarkResolved(session)
       \/ session.phase = "awaiting_approval" /\ session' = Reject(session)
    /\ UNCHANGED <<agent, at, rounds, tokens, missing, enforced, retried, reviewed>>

Investigating ==
    \/ Classify \/ StartSpecialist
    \/ Open \/ CallFails \/ AsksForTools \/ RunTools \/ Enforce
    \/ \E answer \in Answers : Conclude(answer) \/ CutOff(answer)
    \/ Scored \/ Approved \/ Rejected \/ Revise

Next == Investigating \/ ClosedOutside

Spec == Init /\ [][Next]_vars

\* The awaits that reach the Kubernetes API (the tools, and the pre-fetch of the
\* opening message) or the embedding service (the recall): nothing gives these
\* calls a timeout (k8s_client.py:90, agent/embeddings.py:88).
Hanging == {"recall", "opening", "tools"}

\* The calls of Claude, which have timeouts and a bounded number of retries, and
\* those of the database return or raise.
Fairness == WF_vars(Investigating /\ at \notin Hanging)

FairSpec == Spec /\ Fairness

-----------------------------------------------------------------------------
(* Properties that hold. *)

\* No way out of the loop, an exception, an exhausted budget or a closing from
\* outside included, leaves the session looking as if it were being
\* investigated: such a session would block its fingerprint for good.  (The one
\* the pipeline abandons to its fallback does; see Intake.)
NeverLeftInvestigating ==
    at \in Returned => session.phase \notin {"alert_received", "investigating"}

\* MAX_TOKENS_PER_SESSION is checked before a call, so what an investigation
\* spends stays below the budget plus one call.
OvershootsByOneCall == TokenBudget > 0 => tokens < TokenBudget + MaxUsage

\* Except by being cut off, Claude gets a diagnosis or a fix accepted only when
\* the required tools were called or all enforcement rounds are used up.
ToolsOrThreeWarnings ==
    at # "cut" /\ (session.diagnosed \/ session.proposal > 0)
        => missing = {} \/ enforced = MaxEnforcementRounds

\* The proposal the general agent ends with passed the reviewer, or is the one
\* revision that followed its feedback, unless the answer was cut off.
ReviewedOrRevised ==
    Verification /\ agent = "general" /\ at = "returned" /\ session.phase = "awaiting_approval"
        => reviewed = session.proposal \/ retried

\* Unless something closed the session meanwhile, it is handed to the people in
\* Slack unanswered and unrecorded: where the module Approval starts from.
CleanHandOver ==
    closings = 0 /\ session.phase = "awaiting_approval"
        => /\ session.proposal > 0
           /\ session.status = "pending" /\ ~session.executed
           /\ session.recording = 0

\* A session that is over, because Grafana reports its alert resolved or because
\* the timer gave up, is reopened only by the answer of Claude that was under
\* way, or by the specialist that starts after the triage; neither tools nor the
\* review, which come after such an answer, do that.
ReopenedOnlyByAnswer ==
    [][session.phase \in Terminal /\ session'.phase \notin Terminal =>
         at = "recall" \/ (at = "calling" /\ at' # "calling")]_vars

\* The investigation ends, since rounds, enforcement and review are all bounded;
\* or one of its calls hangs, and it stays where it is for good.
Terminates == <>(at \in Over) \/ \E place \in Hanging : <>[](at = place)

=============================================================================
