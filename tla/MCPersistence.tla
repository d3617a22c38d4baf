---------------------------- MODULE MCPersistence ----------------------------
(***************************************************************************)
(* Persistence with two sessions.                                          *)
(***************************************************************************)
EXTENDS Persistence, TLC

CONSTANTS s1, s2

SessionSymmetry == Permutations(Sessions)
=============================================================================
