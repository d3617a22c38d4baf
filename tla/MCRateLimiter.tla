--------------------------- MODULE MCRateLimiter ----------------------------
(***************************************************************************)
(* Interactions over a RateLimiter.  A behaviour is either about the       *)
(* limiter, with two keys and a clock that passes several cleanups, or     *)
(* about the cache, with one key and less time (focus).                    *)
(***************************************************************************)
EXTENDS Interactions, TLC

CONSTANTS k1, k2, a1, a2, a3

ActionSymmetry == Permutations({a1, a2, a3})

VARIABLE focus

MCInit == InteractionsInit /\ focus \in {"limiter", "cache"}

MCNext ==
    /\ UNCHANGED focus
    /\ InteractionsNext
    /\ focus = "limiter" => UNCHANGED <<seen, carried>>
    /\ focus = "cache" => now' <= 6 /\ UNCHANGED bucket[k2]

MCSpec == MCInit /\ [][MCNext]_<<vars, cacheVars, focus>>
=============================================================================
