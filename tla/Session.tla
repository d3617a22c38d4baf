------------------------------ MODULE Session ------------------------------
(***************************************************************************)
(* agent/session.py: one diagnosis session.  A session is a record, and    *)
(* every method of DiagnosisSession that moves it is an operator from the  *)
(* session before the call to the session after it, so that a handler      *)
(* which makes several calls without an await in between is one step that  *)
(* composes them.                                                          *)
(*                                                                         *)
(* No method looks at the phase it leaves: the guards, where there are     *)
(* any, belong to the callers and are modelled with them.                  *)
(***************************************************************************)
EXTENDS Naturals

Phases == {"alert_received", "investigating", "diagnosed", "fix_proposed",
           "awaiting_approval", "executing", "resolved", "escalated", "failed"}

Terminal == {"resolved", "failed", "escalated"}

ApprovalStatuses == {"pending", "approved", "rejected"}

\* The fields of a session the handlers read.  "proposal" counts the calls of
\* set_fix_proposal (0: no fix_proposal); "recording" counts the
\* _record_to_memory tasks that are scheduled and have not run.
SessionType == [phase: Phases, status: ApprovalStatuses, executed: BOOLEAN,
                diagnosed: BOOLEAN, proposal: Nat, recording: Nat]

NewSession == [phase |-> "alert_received", status |-> "pending",
               executed |-> FALSE, diagnosed |-> FALSE,
               proposal |-> 0, recording |-> 0]

IsActive(s) == s.phase \notin Terminal

\* Mutant: every transition schedules a recording.
TransitionRecordingAll(s, p) == [s EXCEPT !.phase = p, !.recording = @ + 1]

\* transition: a terminal phase schedules a _record_to_memory task.
Transition(s, p) ==
    [s EXCEPT !.phase = p,
              !.recording = IF p \in Terminal THEN @ + 1 ELSE @]

SetDiagnosis(s) == Transition([s EXCEPT !.diagnosed = TRUE], "diagnosed")

SetFixProposal(s) == Transition([s EXCEPT !.proposal = @ + 1], "fix_proposed")

RequestApproval(s) == Transition(s, "awaiting_approval")

Approve(s) == Transition([s EXCEPT !.status = "approved"], "executing")

Reject(s) == Transition([s EXCEPT !.status = "rejected"], "resolved")

MarkResolved(s) == Transition([s EXCEPT !.executed = TRUE], "resolved")

Escalate(s) == Transition(s, "escalated")

\* Mutant: a failed execution offers the proposal again.
FailToApproval(s) == Transition(s, "awaiting_approval")

Fail(s) == Transition(s, "failed")

\* A _record_to_memory task starts: it is no longer scheduled.
RecordStarted(s) == [s EXCEPT !.recording = @ - 1]

Outcomes == {"success", "rejected", "escalated", "failed", "unknown"}

\* Mutant: whatever was resolved counts as a success, rejections included.
OutcomeByPhase(s) ==
    CASE s.phase = "resolved" -> "success"
      [] s.phase = "escalated" -> "escalated"
      [] s.phase = "failed" -> "failed"
      [] OTHER -> "unknown"
\* IncidentMemory._determine_outcome, evaluated when the task runs.
DetermineOutcome(s) ==
    CASE s.phase = "resolved" /\ s.executed -> "success"
      [] s.phase = "resolved" /\ ~s.executed /\ s.status = "rejected" -> "rejected"
      [] s.phase = "resolved" /\ ~s.executed /\ s.status # "rejected" -> "success"
      [] s.phase = "escalated" -> "escalated"
      [] s.phase = "failed" -> "failed"
      [] OTHER -> "unknown"
=============================================================================
