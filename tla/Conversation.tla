---------------------------- MODULE Conversation ----------------------------
(***************************************************************************)
(* The loop of Orchestrator with the conversation it keeps in              *)
(* session.messages: what every step appends, and what                     *)
(* _prune_conversation drops once the conversation of the general agent is *)
(* long.  SpecialistAgent._run_loop does not prune.                        *)
(***************************************************************************)
EXTENDS Orchestrator, Sequences

CONSTANTS
    PruneAbove, \* 20
    KeepStart,  \* 4
    KeepEnd     \* 8

ASSUME PruningAssumption ==
    /\ PruneAbove \in Nat /\ KeepStart \in Nat /\ KeepEnd \in Nat
    /\ KeepStart > 0 /\ KeepStart % 2 = 0
    /\ KeepEnd > 0 /\ KeepEnd % 2 = 0
    /\ KeepStart + KeepEnd + 1 <= PruneAbove

VARIABLE messages \* session.messages

AssistantKinds == {"tool_use", "text"}
UserKinds == {"opening", "tool_result", "reminder", "summary"}

\* A message and the round it belongs to (0: the opening, a summary).
Message == [kind: AssistantKinds \cup UserKinds, round: Nat]

\* Mutants: the first message is not among those that are kept; the tail
\* starts one message early; the middle is kept behind its summary.
PrunedWithoutOpening(msgs) ==
    SubSeq(msgs, 2, KeepStart + 1)
        \o <<[kind |-> "summary", round |-> 0]>>
        \o SubSeq(msgs, Len(msgs) - KeepEnd + 1, Len(msgs))
PrunedOddTail(msgs) ==
    SubSeq(msgs, 1, KeepStart)
        \o <<[kind |-> "summary", round |-> 0]>>
        \o SubSeq(msgs, Len(msgs) - KeepEnd, Len(msgs))
PrunedInFull(msgs) ==
    SubSeq(msgs, 1, KeepStart)
        \o <<[kind |-> "summary", round |-> 0]>>
        \o SubSeq(msgs, KeepStart + 1, Len(msgs))
Pruned(msgs) ==
    SubSeq(msgs, 1, KeepStart)
        \o <<[kind |-> "summary", round |-> 0]>>
        \o SubSeq(msgs, Len(msgs) - KeepEnd + 1, Len(msgs))

Sent(msgs) == IF Len(msgs) > PruneAbove THEN Pruned(msgs) ELSE msgs

\* The conversation after the head of a round: the general agent prunes it
\* before anything else, the budget included.
Entered(msgs) == IF RoundsLeft /\ agent = "general" THEN Sent(msgs) ELSE msgs

Said(kind) == [kind |-> kind, round |-> rounds]

-----------------------------------------------------------------------------
\* The API takes a conversation only if every tool_use is followed at once by
\* its results; otherwise it answers 400.
AnsweredAt(i) ==
    messages[i].kind = "tool_use" =>
        /\ i < Len(messages)
        /\ messages[i + 1] = [kind |-> "tool_result", round |-> messages[i].round]

WellFormed == \A i \in 1..Len(messages) : AnsweredAt(i)

\* The opening message: the loop starts with it, unless preparing it failed.
Begin ==
    /\ Open \/ StartSpecialist
    /\ \/ messages' = Entered(Append(messages, Said("opening")))
       \/ /\ at' = "abandoned" \/ (at' = "returned" /\ session' = Fail(session))
          /\ UNCHANGED messages

\* call_anthropic_with_retry does not repeat a 400: what the API refuses is
\* escalated, and nothing that follows an answer happens.
AsksInTurn ==
    /\ WellFormed
    /\ AsksForTools
    /\ messages' = Append(messages, Said("tool_use"))

AnswersTools ==
    /\ RunTools
    /\ messages' = Entered(Append(messages, Said("tool_result")))

Reminds ==
    /\ WellFormed
    /\ Enforce
    /\ messages' = Entered(Append(Append(messages, Said("text")), Said("reminder")))

Finishes ==
    /\ WellFormed
    /\ \E answer \in Answers : Conclude(answer) \/ CutOff(answer)
    /\ messages' = Append(messages, Said("text"))

\* The reviewer's feedback.
ReviewReminds ==
    /\ Revise
    /\ messages' = Entered(Append(messages, Said("reminder")))

SaysNothing ==
    /\ Classify \/ CallFails \/ Scored \/ Approved \/ Rejected \/ ClosedOutside
    /\ UNCHANGED messages

ConversationInit == Init /\ messages = <<>>

ConversationNext ==
    \/ Begin \/ AsksInTurn \/ AnswersTools \/ Reminds \/ Finishes
    \/ ReviewReminds \/ SaysNothing

ConversationSpec == ConversationInit /\ [][ConversationNext]_<<vars, messages>>

-----------------------------------------------------------------------------
(* Properties that hold. *)

\* However often the conversation is pruned, users and Claude take turns in
\* it and it starts with the alert: the tail that is kept starts with an
\* answer, whatever the length at which the pruning happens.
TakesTurns ==
    /\ messages # <<>> => messages[1].kind = "opening"
    /\ \A i \in 1..Len(messages) :
         messages[i].kind \in AssistantKinds <=> i % 2 = 0

\* What the general agent sends never grows above the length that triggers
\* pruning; what a specialist sends is bounded only by its rounds.
BoundedContext ==
    at = "calling" =>
        /\ Len(messages) <= 2 * rounds - 1
        /\ agent = "general" => Len(messages) <= PruneAbove

\* So many rounds were started that the conversation may have been pruned.
MayBePruned == agent = "general" /\ 2 * rounds - 1 > PruneAbove

\* Pruning never separates the results of a recent call from the call, nor
\* does it leave results without their call: of what is sent, only the message
\* at the cut after the first KeepStart can have lost what followed it, and
\* only once the conversation was long enough to be pruned.
OnlyTheCutDangles ==
    at = "calling" =>
        /\ \A i \in 1..Len(messages) : AnsweredAt(i) \/ (MayBePruned /\ i = KeepStart)
        /\ \A i \in 2..Len(messages) : messages[i].kind = "tool_result" =>
             messages[i - 1] = [kind |-> "tool_use", round |-> messages[i].round]

-----------------------------------------------------------------------------
(* What the repository says and the code does not do. *)

\* agent/orchestrator.py:490: pruning keeps "opening context + first tool
\* calls".  The conversation it leaves is one that can be sent.
NeverRefused == at = "calling" => WellFormed
=============================================================================
