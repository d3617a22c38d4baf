--------------------------- MODULE MCConversation ---------------------------
(***************************************************************************)
(* Conversation, and with it Orchestrator, with the numbers of the code,   *)
(* seen in two ways: "talk" looks at investigations that go through all    *)
(* their rounds, with few differences between the agents, and "loop" at    *)
(* investigations whose calls are paid for, against a small budget, while  *)
(* the session may be closed from outside.                                 *)
(***************************************************************************)
EXTENDS Conversation

MCRequirements ==
    [a \in Agents |->
        IF a = "general" THEN {"get_events", "get_pod_status|get_node_conditions"}
        ELSE {"get_pod_status", "get_pod_logs", "get_events"}]

VARIABLE focus

\* A call that was answered has used tokens.
EveryCallUses ==
    at = "calling" /\ messages' # messages => tokens' # tokens

\* No call uses any, all required tools or none are called in a round, one
\* domain stands for all, and nothing happens to the session meanwhile.
OnlyTalk ==
    /\ tokens = 0 /\ closings = 0
    /\ agent # "network"
    /\ missing \in {{}} \cup {Requirements[a] : a \in Agents}

Focussed == IF focus = "talk" THEN OnlyTalk' ELSE EveryCallUses

MCInit == ConversationInit /\ focus \in {"talk", "loop"}

\* Neither view holds back a step that fairness speaks of: they only choose
\* among its outcomes.
MCNext == ConversationNext /\ UNCHANGED focus /\ Focussed

MCSpec == MCInit /\ [][MCNext]_<<vars, messages, focus>> /\ Fairness
=============================================================================
