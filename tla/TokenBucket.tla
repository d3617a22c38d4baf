---------------------------- MODULE TokenBucket -----------------------------
(***************************************************************************)
(* What a rate limiter promises: every key has a credit that grows with    *)
(* time up to a capacity, and a request is allowed exactly if the credit   *)
(* of its key pays for it.  Credit is measured in units of time: a request *)
(* costs the time in which the sustained rate grants one.                  *)
(*                                                                         *)
(* spent and ticks watch a window that may be opened at any moment: what   *)
(* was granted since then, and how long ago that was.                      *)
(***************************************************************************)
EXTENDS Naturals

CONSTANTS Keys, Capacity, Cost

VARIABLES credit, answer, spent, ticks

vars == <<credit, answer, spent, ticks>>

NoAnswer == [key |-> {}, allowed |-> FALSE]

Init ==
    /\ credit = [k \in Keys |-> Capacity]
    /\ answer = NoAnswer
    /\ spent = [k \in Keys |-> 0]
    /\ ticks = 0

Tick ==
    /\ credit' = [k \in Keys |-> IF credit[k] < Capacity THEN credit[k] + 1
                                 ELSE Capacity]
    /\ ticks' = ticks + 1
    /\ UNCHANGED <<answer, spent>>

Grant(k) ==
    /\ credit[k] >= Cost
    /\ credit' = [credit EXCEPT ![k] = @ - Cost]
    /\ answer' = [key |-> k, allowed |-> TRUE]
    /\ spent' = [spent EXCEPT ![k] = @ + Cost]
    /\ UNCHANGED ticks

Deny(k) ==
    /\ credit[k] < Cost
    /\ answer' = [key |-> k, allowed |-> FALSE]
    /\ UNCHANGED <<credit, spent, ticks>>

OpenWindow ==
    /\ spent' = [k \in Keys |-> 0]
    /\ ticks' = 0
    /\ UNCHANGED <<credit, answer>>

Next == Tick \/ OpenWindow \/ \E k \in Keys : Grant(k) \/ Deny(k)

Spec == Init /\ [][Next]_vars
=============================================================================
