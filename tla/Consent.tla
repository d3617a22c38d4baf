------------------------------ MODULE Consent ------------------------------
(***************************************************************************)
(* What the people who approve fixes are promised: a fix waits until one   *)
(* of them says yes or it is dropped; the cluster is changed for it only   *)
(* after a yes, and only if the fix is admissible; once it is over nothing *)
(* but a late yes takes it up again, and what is remembered of it is how   *)
(* it ended.                                                               *)
(***************************************************************************)
CONSTANTS
    Approvals, \* the clicks that may say yes
    Late       \* those that may count although the fix no longer waits

VARIABLES
    state,      \* waiting, running, over
    admissible, \* does the fix pass the guardrails?
    granted,    \* the clicks that said yes
    changed,    \* has the cluster been changed?
    remembered  \* the outcomes that were recorded

vars == <<state, admissible, granted, changed, remembered>>

Init ==
    /\ state = "waiting"
    /\ admissible \in BOOLEAN
    /\ granted = {}
    /\ changed = FALSE
    /\ remembered = {}

\* A click counts once.
Grant(c) ==
    /\ c \notin granted
    /\ state = "waiting" \/ c \in Late
    /\ granted' = granted \cup {c}
    /\ state' = "running"
    /\ UNCHANGED <<admissible, changed, remembered>>

\* The fix, or its rollback; what has begun may outlast the end.
Change ==
    /\ granted # {} /\ admissible
    /\ changed' = TRUE
    /\ UNCHANGED <<state, admissible, granted, remembered>>

\* Dropped, done, failed, or no longer needed.
End ==
    /\ state' = "over"
    /\ UNCHANGED <<admissible, granted, changed, remembered>>

\* Only after a late yes is it possible that nobody knows the outcome.
Remember(outcome) ==
    /\ IF outcome = "unknown" THEN state = "running" /\ granted \cap Late # {}
                              ELSE state = "over"
    /\ remembered' = remembered \cup {outcome}
    /\ UNCHANGED <<state, admissible, granted, changed>>

Next ==
    \/ \E c \in Approvals : Grant(c)
    \/ Change
    \/ End
    \/ \E outcome \in {"success", "rejected", "escalated", "failed", "unknown"} :
         Remember(outcome)

Spec == Init /\ [][Next]_vars
=============================================================================
