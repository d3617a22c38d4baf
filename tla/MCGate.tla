------------------------------- MODULE MCGate -------------------------------
(***************************************************************************)
(* Gate with a user and a senior, two proposals and two policies: under    *)
(* the one with a group nothing is recorded, and under the other one the   *)
(* group has no members.                                                   *)
(***************************************************************************)
EXTENDS Gate, TLC

CONSTANTS user, senior, s1, s2, c1, c2

MCPolicies ==
    {[listed |-> {}, seniors |-> {senior}, group |-> TRUE, minRisk |-> "high"],
     [listed |-> {user}, seniors |-> {}, group |-> FALSE, minRisk |-> "high"]}

\* The first is blocked by its score after a single failure or rejection.
restart == [risk |-> "high", confidence |-> "medium", evidence |-> 1, findings |-> {}]
recreate == [risk |-> "critical", confidence |-> "high", evidence |-> 0, findings |-> {}]
MCFixes == {restart, recreate}

\* The summary of the first fix is part of that of the second.
MCSummary == restart :> "restart" @@ recreate :> "restart and recreate"
MCSummaries == {"restart", "restart and recreate"}
MCMatches == [g \in MCSummaries |-> MCSummaries]

MCEarlier == {NoHistory, [total |-> 1, successes |-> 1]}

MCInit ==
    /\ Init
    /\ IF policy.group THEN memory = [g \in Summaries |-> NoHistory] ELSE members = {}

MCNext == Next /\ (policy.group => UNCHANGED memory)

MCSpec == MCInit /\ [][MCNext]_vars

Symmetric == Permutations({s1, s2}) \cup Permutations({c1, c2})
=============================================================================
