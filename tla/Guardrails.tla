----------------------------- MODULE Guardrails -----------------------------
(***************************************************************************)
(* agent/guardrails.py and the confidence score it reads                   *)
(* (agent/incident_memory.py): which proposals are blocked, as a function  *)
(* of the proposal and of what happened to the same fix before.            *)
(*                                                                         *)
(* A proposal carries what the checks find in its text: "namespace" (the   *)
(* alert is in a blocked namespace), "values" (it needs values from a      *)
(* human), "replicas" (it scales beyond MAX_REPLICA_COUNT) and "image" (it *)
(* deploys :latest).  Warnings change nothing and are left out.            *)
(***************************************************************************)
EXTENDS Naturals

Findings == {"namespace", "values", "replicas", "image"}

\* RiskLevel, in the order of risk_order.
Risks == {"low", "medium", "high", "critical"}
RiskIndex == [low |-> 0, medium |-> 1, high |-> 2, critical |-> 3]

\* Confidence; "none": the session has no diagnosis.
Confidences == {"none", "low", "medium", "high"}

FixType == [risk: Risks, confidence: Confidences, evidence: Nat,
            findings: SUBSET Findings]

\* What incident memory says of earlier sessions with this alert and this fix.
HistoryType == {h \in [total: Nat, successes: Nat] : h.successes <= h.total}
NoHistory == [total |-> 0, successes |-> 0]

\* conf_map, weighted, in thousandths.
DiagnosisWeight == [low |-> 120, medium |-> 240, high |-> 400]

EvidenceWeight(n) == IF n >= 5 THEN 200 ELSE 40 * n

\* Mutant: the rate of failure.
FixRateBelowFailing(h, limit) ==
    IF h.total = 0 THEN 200 < limit
    ELSE 400 * (h.total - h.successes) < limit * h.total
\* Is the weighted success rate, 1/2 without history, below limit thousandths?
FixRateBelow(h, limit) ==
    IF h.total = 0 THEN 200 < limit ELSE 400 * h.successes < limit * h.total

\* get_fix_confidence(...).score < 0.3, in exact arithmetic
ScoreTooLow(fix, h) ==
    LET others == DiagnosisWeight[fix.confidence] + EvidenceWeight(fix.evidence)
    IN  others < 300 /\ FixRateBelow(h, 300 - others)

\* evaluate_guardrails: the reasons to block.  A session without a diagnosis
\* has no score either.
Blockers(fix, h) ==
    fix.findings
    \cup {b \in {"risk"} : RiskIndex[fix.risk] >= RiskIndex["critical"]}
    \cup {b \in {"confidence"} : fix.confidence = "low"}
    \cup {b \in {"score"} : fix.confidence # "none" /\ ScoreTooLow(fix, h)}
=============================================================================
