---------------------------- MODULE RateLimiter -----------------------------
(***************************************************************************)
(* observability/rate_limit.py: a token bucket per key that is refilled    *)
(* only when the key is used, and a cleanup that forgets the buckets which *)
(* were not used for long.  allow runs under a lock, so it is one step;    *)
(* the few readings of the clock it makes are one.                         *)
(*                                                                         *)
(* A token is Cost units of time (1 / rate), so that refilling adds the    *)
(* elapsed time itself.                                                    *)
(***************************************************************************)
EXTENDS Naturals

CONSTANTS
    Keys,            \* the endpoints the limiter is asked about
    Capacity,        \* burst / rate
    Cost,            \* 1 / rate
    CleanupInterval, \* cleanup_interval
    MaxTime          \* bound: how far the clock goes

\* The default interval of 60 s is far above burst / rate (2 s) in each of the
\* three limiters of the module.
ASSUME RateLimiterAssumption ==
    /\ Capacity \in Nat /\ Cost \in Nat \ {0}
    /\ CleanupInterval \in Nat /\ MaxTime \in Nat
    /\ Capacity <= 2 * CleanupInterval

VARIABLES
    now,         \* time.monotonic()
    known,       \* the keys of _buckets
    bucket,      \* _buckets; of a key that is not known, a bucket of the past
    lastCleanup, \* _last_cleanup
    answer,      \* what allow returned last, and for which key
    spent,       \* history: granted since a moment that was picked at will
    ticks        \* history: the time since then

vars == <<now, known, bucket, lastCleanup, answer, spent, ticks>>

Bucket == [tokens: 0..Capacity, last_refill: Nat]

NoAnswer == [key |-> {}, allowed |-> FALSE]

TypeOK ==
    /\ now \in 0..MaxTime
    /\ known \in SUBSET Keys
    /\ bucket \in [Keys -> Bucket]
    /\ \A k \in Keys : bucket[k].last_refill <= now
    /\ lastCleanup \in 0..now
    /\ spent \in [Keys -> Nat]
    /\ ticks \in Nat

Full == [tokens |-> Capacity, last_refill |-> now]

Init ==
    /\ now = 0
    /\ known = {}
    /\ bucket = [k \in Keys |-> Full]
    /\ lastCleanup = 0
    /\ answer = NoAnswer
    /\ spent = [k \in Keys |-> 0]
    /\ ticks = 0

-----------------------------------------------------------------------------
\* Mutants: a refill may exceed the burst; unused buckets are forgotten early.
RefilledUncapped(b) == b.tokens + (now - b.last_refill)
Refilled(b) ==
    IF b.tokens + (now - b.last_refill) < Capacity
    THEN b.tokens + (now - b.last_refill) ELSE Capacity

StaleEarly(k) == bucket[k].last_refill + CleanupInterval \div 2 < now
Stale(k) == bucket[k].last_refill + 2 * CleanupInterval < now

\* _maybe_cleanup
CleanupDue == now - lastCleanup >= CleanupInterval
Kept == IF CleanupDue THEN {k \in known : ~Stale(k)} ELSE known

\* allow(k): clean up, get or make the bucket, consume.
Allow(k) ==
    LET level == Refilled(IF k \in Kept THEN bucket[k] ELSE Full)
        granted == level >= Cost
    IN  /\ lastCleanup' = IF CleanupDue THEN now ELSE lastCleanup
        /\ known' = Kept \cup {k}
        /\ bucket' = [bucket EXCEPT ![k] =
                        [tokens |-> IF granted THEN level - Cost ELSE level,
                         last_refill |-> now]]
        /\ answer' = [key |-> k, allowed |-> granted]
        /\ spent' = IF granted THEN [spent EXCEPT ![k] = @ + Cost] ELSE spent
        /\ UNCHANGED <<now, ticks>>

Tick ==
    /\ now < MaxTime
    /\ now' = now + 1
    /\ ticks' = ticks + 1
    /\ UNCHANGED <<known, bucket, lastCleanup, answer, spent>>

OpenWindow ==
    /\ spent' = [k \in Keys |-> 0]
    /\ ticks' = 0
    /\ UNCHANGED <<now, known, bucket, lastCleanup, answer>>

Next == Tick \/ OpenWindow \/ \E k \in Keys : Allow(k)

Spec == Init /\ [][Next]_vars

-----------------------------------------------------------------------------
(* Properties that hold. *)

\* In any window of time a key is granted no more than the burst and what the
\* rate allows for the length of the window, however often its bucket was
\* forgotten and made again meanwhile.
WithinRate == \A k \in Keys : spent[k] <= Capacity + ticks

\* The credit a key has, with or without a bucket.
Credit == [k \in Keys |-> IF k \in known THEN Refilled(bucket[k]) ELSE Capacity]

Ideal == INSTANCE TokenBucket WITH credit <- Credit

\* Refilling late and forgetting buckets cannot be noticed: every request gets
\* the answer it would get from buckets that are refilled all the time and
\* never forgotten.
AnswersLikeIdeal == Ideal!Spec
=============================================================================
