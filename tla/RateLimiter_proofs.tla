------------------------- MODULE RateLimiter_proofs -------------------------
(***************************************************************************)
(* Theorems about RateLimiter, for every rate, burst, cleanup interval and *)
(* set of keys with Capacity <= 2 * CleanupInterval, and about the cache   *)
(* behind one of them (Interactions), for every size.                      *)
(***************************************************************************)
EXTENDS Interactions, TLAPS

\* What a window has spent and what is left of the credit together.
Inv == TypeOK /\ \A k \in Keys : spent[k] + Credit[k] <= Capacity + ticks

LEMMA InitType == Init => TypeOK
BY RateLimiterAssumption DEF Init, TypeOK, Full, Bucket

\* A refilled bucket holds at most the burst.
LEMMA RefilledInRange ==
    ASSUME TypeOK, NEW b \in Bucket, b.last_refill <= now
    PROVE  Refilled(b) \in 0..Capacity
BY RateLimiterAssumption DEF TypeOK, Bucket, Refilled

\* A bucket that is forgotten was full.
LEMMA StaleIsFull ==
    ASSUME TypeOK, NEW k \in Keys, Stale(k)
    PROVE  Refilled(bucket[k]) = Capacity
<1>1. bucket[k].tokens \in 0..Capacity /\ bucket[k].last_refill \in 0..now
      /\ now \in Nat
  BY DEF TypeOK, Bucket
<1>2. now - bucket[k].last_refill > 2 * CleanupInterval
  BY <1>1, RateLimiterAssumption DEF Stale
<1> QED BY <1>1, <1>2, RateLimiterAssumption DEF Refilled

\* Cleaning up changes nobody's credit.
LEMMA LevelIsCredit ==
    ASSUME TypeOK, NEW k \in Keys
    PROVE  /\ Refilled(IF k \in Kept THEN bucket[k] ELSE Full) = Credit[k]
           /\ Credit[k] \in 0..Capacity
<1>1. bucket[k] \in Bucket /\ bucket[k].last_refill <= now /\ now \in Nat
  BY DEF TypeOK
<1>2. Full \in Bucket /\ Full.last_refill <= now /\ Refilled(Full) = Capacity
  BY <1>1, RateLimiterAssumption DEF Full, Bucket, Refilled
<1>3. Kept \subseteq known /\ (k \in known \ Kept => Stale(k))
  BY DEF Kept
<1>4. Refilled(bucket[k]) \in 0..Capacity
  BY <1>1, RefilledInRange
<1>5. Credit[k] = IF k \in known THEN Refilled(bucket[k]) ELSE Capacity
  BY DEF Credit
<1> HIDE DEF Kept, Full, Refilled, Credit, Stale
<1>6. CASE k \in Kept
  BY <1>3, <1>4, <1>5, <1>6
<1>7. CASE k \notin Kept
  <2>1. CASE k \in known
    BY <1>2, <1>3, <1>4, <1>5, <1>7, <2>1, StaleIsFull
  <2>2. CASE k \notin known
    BY <1>2, <1>5, <1>7, <2>2, RateLimiterAssumption
  <2> QED BY <2>1, <2>2
<1> QED BY <1>6, <1>7

-----------------------------------------------------------------------------
\* allow, seen from the credit: only the key that is asked about is charged.
LEMMA AllowCharges ==
    ASSUME TypeOK, NEW k \in Keys, Allow(k)
    PROVE  /\ TypeOK'
           /\ \A l \in Keys \ {k} : Credit'[l] = Credit[l]
           /\ \/ /\ Credit[k] >= Cost
                 /\ Credit'[k] = Credit[k] - Cost
                 /\ answer' = [key |-> k, allowed |-> TRUE]
                 /\ spent' = [spent EXCEPT ![k] = @ + Cost]
              \/ /\ Credit[k] < Cost
                 /\ Credit'[k] = Credit[k]
                 /\ answer' = [key |-> k, allowed |-> FALSE]
                 /\ spent' = spent
<1> DEFINE level == Refilled(IF k \in Kept THEN bucket[k] ELSE Full)
           left == IF level >= Cost THEN level - Cost ELSE level
<1>1. level = Credit[k] /\ level \in 0..Capacity
  BY LevelIsCredit
<1>2. /\ known' = Kept \cup {k}
      /\ bucket' = [bucket EXCEPT ![k] = [tokens |-> left, last_refill |-> now]]
      /\ lastCleanup' = IF CleanupDue THEN now ELSE lastCleanup
      /\ answer' = [key |-> k, allowed |-> (level >= Cost)]
      /\ spent' = IF level >= Cost THEN [spent EXCEPT ![k] = @ + Cost] ELSE spent
      /\ now' = now /\ ticks' = ticks
  BY DEF Allow
<1> HIDE DEF level
<1>3. left \in 0..Capacity
  BY <1>1, RateLimiterAssumption
<1>4. Kept \subseteq known
  BY DEF Kept
<1> HIDE DEF left
<1>5. TypeOK'
  <2>1. now' \in 0..MaxTime /\ now' \in Nat /\ ticks' \in Nat
    BY <1>2, RateLimiterAssumption DEF TypeOK
  <2>2. known' \in SUBSET Keys
    BY <1>2, <1>4 DEF TypeOK
  <2>3. bucket' \in [Keys -> Bucket]
    BY <1>2, <1>3, RateLimiterAssumption DEF TypeOK, Bucket
  <2>4. \A l \in Keys : bucket'[l].last_refill <= now'
    BY <1>2, RateLimiterAssumption DEF TypeOK
  <2>5. lastCleanup' \in 0..now'
    BY <1>2, RateLimiterAssumption DEF TypeOK
  <2>6. spent' \in [Keys -> Nat]
    BY <1>2, RateLimiterAssumption DEF TypeOK
  <2> QED BY <2>1, <2>2, <2>3, <2>4, <2>5, <2>6 DEF TypeOK
<1>6. ASSUME NEW l \in Keys \ {k} PROVE Credit'[l] = Credit[l]
  <2>1. bucket'[l] = bucket[l] /\ (l \in known' <=> l \in Kept) /\ now' = now
    BY <1>2 DEF TypeOK
  <2>2. Credit'[l] = IF l \in known' THEN Refilled(bucket[l]) ELSE Capacity
    BY <2>1 DEF Credit, Refilled
  <2>3. Credit[l] = IF l \in known THEN Refilled(bucket[l]) ELSE Capacity
    BY DEF Credit
  <2>4. l \in known \ Kept => Refilled(bucket[l]) = Capacity
    BY StaleIsFull DEF Kept
  <2> QED BY <1>4, <2>1, <2>2, <2>3, <2>4
<1>7. Credit'[k] = left
  <2>1. bucket'[k] = [tokens |-> left, last_refill |-> now] /\ k \in known'
    BY <1>2 DEF TypeOK
  <2>2. Credit'[k] = IF left + (now - now) < Capacity
                     THEN left + (now - now) ELSE Capacity
    BY <1>2, <2>1 DEF Credit, Refilled
  <2> QED BY <1>3, <2>2, RateLimiterAssumption DEF TypeOK
<1>8. CASE level >= Cost
  BY <1>1, <1>2, <1>5, <1>6, <1>7, <1>8 DEF left
<1>9. CASE ~(level >= Cost)
  <2>1. (level >= Cost) = FALSE
    BY <1>9
  <2>2. answer' = [key |-> k, allowed |-> FALSE] /\ spent' = spent
    BY <1>2, <1>9, <2>1
  <2>3. level < Cost /\ left = level
    BY <1>1, <1>9, RateLimiterAssumption DEF left
  <2> QED BY <1>1, <1>5, <1>6, <1>7, <2>2, <2>3
<1> QED BY <1>8, <1>9

\* Time gives everybody one unit of credit, up to the capacity.
LEMMA TickRefills ==
    ASSUME TypeOK, Tick
    PROVE  /\ TypeOK'
           /\ \A k \in Keys : Credit'[k] = IF Credit[k] < Capacity
                                           THEN Credit[k] + 1 ELSE Capacity
<1>1. TypeOK'
  <2>1. \A k \in Keys : bucket[k].last_refill \in Nat
    BY DEF TypeOK, Bucket
  <2>2. /\ now \in Nat /\ now < MaxTime /\ now' = now + 1 /\ ticks' = ticks + 1
        /\ UNCHANGED <<known, bucket, lastCleanup, spent>>
    BY DEF TypeOK, Tick
  <2>3. now' \in 0..MaxTime /\ lastCleanup' \in 0..now' /\ ticks' \in Nat
    BY <2>2, RateLimiterAssumption DEF TypeOK
  <2>4. \A k \in Keys : bucket'[k].last_refill <= now'
    BY <2>1, <2>2 DEF TypeOK
  <2> QED BY <2>2, <2>3, <2>4 DEF TypeOK
<1>2. ASSUME NEW k \in Keys
      PROVE  Credit'[k] = IF Credit[k] < Capacity THEN Credit[k] + 1 ELSE Capacity
  <2>1. bucket[k].tokens \in 0..Capacity /\ bucket[k].last_refill \in 0..now
        /\ now \in Nat
    BY DEF TypeOK, Bucket
  <2>2. now' = now + 1 /\ bucket' = bucket /\ known' = known
    BY DEF Tick
  <2>3. CASE k \in known
    BY <2>1, <2>2, <2>3, RateLimiterAssumption DEF Credit, Refilled
  <2>4. CASE k \notin known
    BY <2>1, <2>2, <2>4, RateLimiterAssumption DEF Credit, Refilled
  <2> QED BY <2>3, <2>4
<1> QED BY <1>1, <1>2

LEMMA WindowKeepsCredit ==
    ASSUME TypeOK, OpenWindow
    PROVE  TypeOK' /\ Credit' = Credit
<1>1. TypeOK'
  BY DEF TypeOK, OpenWindow
<1>2. now' = now /\ bucket' = bucket /\ known' = known
  BY DEF OpenWindow
<1>3. Credit' = Credit
  BY <1>2 DEF Credit, Refilled
<1> QED BY <1>1, <1>3

-----------------------------------------------------------------------------
LEMMA InvInit == Init => Inv
<1> SUFFICES ASSUME Init PROVE Inv
  OBVIOUS
<1>1. TypeOK
  BY InitType
<1>2. \A k \in Keys : spent[k] = 0 /\ ticks = 0 /\ Credit[k] = Capacity
  BY DEF Init, Credit
<1> QED BY <1>1, <1>2, RateLimiterAssumption DEF Inv

LEMMA InvStep == Inv /\ [Next]_vars => Inv'
<1> SUFFICES ASSUME Inv, [Next]_vars PROVE Inv'
  OBVIOUS
<1>1. TypeOK /\ \A k \in Keys : spent[k] + Credit[k] <= Capacity + ticks
  BY DEF Inv
<1>2. \A k \in Keys : Credit[k] \in 0..Capacity
  BY <1>1, LevelIsCredit
<1>3. spent \in [Keys -> Nat] /\ ticks \in Nat
  BY <1>1 DEF TypeOK
<1>4. CASE Tick
  <2>1. TypeOK' /\ spent' = spent /\ ticks' = ticks + 1
    BY <1>1, <1>4, TickRefills DEF Tick
  <2>2. ASSUME NEW k \in Keys PROVE spent'[k] + Credit'[k] <= Capacity + ticks'
    <3>1. Credit'[k] = IF Credit[k] < Capacity THEN Credit[k] + 1 ELSE Capacity
      BY <1>1, <1>4, TickRefills
    <3> QED BY <1>1, <1>2, <1>3, <2>1, <3>1, RateLimiterAssumption
  <2> QED BY <2>1, <2>2 DEF Inv
<1>5. CASE OpenWindow
  <2>1. TypeOK' /\ Credit' = Credit
    BY <1>1, <1>5, WindowKeepsCredit
  <2>2. ASSUME NEW k \in Keys PROVE spent'[k] + Credit'[k] <= Capacity + ticks'
    BY <1>2, <1>5, <2>1, RateLimiterAssumption DEF OpenWindow
  <2> QED BY <2>1, <2>2 DEF Inv
<1>6. ASSUME NEW k \in Keys, Allow(k) PROVE Inv'
  <2>1. ticks' = ticks
    BY <1>6 DEF Allow
  <2>2. TypeOK'
    BY <1>1, <1>6, AllowCharges
  <2>3. \A l \in Keys \ {k} : Credit'[l] = Credit[l]
    BY <1>1, <1>6, AllowCharges
  <2>4. \/ spent' = [spent EXCEPT ![k] = @ + Cost] /\ Credit'[k] = Credit[k] - Cost
        \/ spent' = spent /\ Credit'[k] = Credit[k]
    BY <1>1, <1>6, AllowCharges
  <2>5. ASSUME NEW l \in Keys PROVE spent'[l] + Credit'[l] <= Capacity + ticks'
    <3>1. CASE l = k
      BY <1>1, <1>2, <1>3, <2>1, <2>4, <3>1, RateLimiterAssumption
    <3>2. CASE l # k
      BY <1>1, <1>2, <1>3, <2>1, <2>3, <2>4, <3>2
    <3> QED BY <3>1, <3>2
  <2> QED BY <2>2, <2>5 DEF Inv
<1>7. CASE UNCHANGED vars
  <2>1. TypeOK'
    BY <1>1, <1>7 DEF TypeOK, vars
  <2>2. Credit' = Credit /\ spent' = spent /\ ticks' = ticks
    BY <1>7 DEF vars, Credit, Refilled
  <2> QED BY <1>1, <2>1, <2>2 DEF Inv
<1> QED BY <1>4, <1>5, <1>6, <1>7 DEF Next

\* The types of the limiter's buckets and clocks.
THEOREM TypeCorrect == Spec => []TypeOK
<1>1. Inv => TypeOK
  BY DEF Inv
<1> QED BY <1>1, InvInit, InvStep, PTL DEF Spec

\* No window of time grants a key more than the burst and the rate times the
\* length of the window.
THEOREM RateIsKept == Spec => []WithinRate
<1>1. Inv => WithinRate
  <2> SUFFICES ASSUME Inv, NEW k \in Keys PROVE spent[k] <= Capacity + ticks
    BY DEF WithinRate
  <2>1. Credit[k] \in 0..Capacity
    BY LevelIsCredit DEF Inv
  <2> QED BY <2>1, RateLimiterAssumption DEF Inv, TypeOK
<1> QED BY <1>1, InvInit, InvStep, PTL DEF Spec

-----------------------------------------------------------------------------
\* One step of the limiter is a step of the ideal bucket, or none.
LEMMA IdealStep == Inv /\ [Next]_vars => [Ideal!Next]_Ideal!vars
<1> SUFFICES ASSUME Inv, [Next]_vars PROVE [Ideal!Next]_Ideal!vars
  OBVIOUS
<1>1. TypeOK
  BY DEF Inv
<1>2. Credit = [k \in Keys |-> Credit[k]] /\ Credit' = [k \in Keys |-> Credit'[k]]
  BY DEF Credit
<1>3. CASE Tick
  <2>1. Credit' = [k \in Keys |-> IF Credit[k] < Capacity THEN Credit[k] + 1
                                  ELSE Capacity]
    BY <1>1, <1>2, <1>3, TickRefills
  <2>2. Ideal!Tick
    BY <1>3, <2>1 DEF Tick, Ideal!Tick
  <2> QED BY <2>2 DEF Ideal!Next
<1>4. CASE OpenWindow
  <2>1. Ideal!OpenWindow
    BY <1>1, <1>4, WindowKeepsCredit DEF OpenWindow, Ideal!OpenWindow
  <2> QED BY <2>1 DEF Ideal!Next
<1>5. ASSUME NEW k \in Keys, Allow(k) PROVE [Ideal!Next]_Ideal!vars
  <2>1. ticks' = ticks
    BY <1>5 DEF Allow
  <2>2. \A l \in Keys \ {k} : Credit'[l] = Credit[l]
    BY <1>1, <1>5, AllowCharges
  <2>3. CASE Credit[k] >= Cost /\ Credit'[k] = Credit[k] - Cost
             /\ answer' = [key |-> k, allowed |-> TRUE]
             /\ spent' = [spent EXCEPT ![k] = @ + Cost]
    <3>1. Credit' = [Credit EXCEPT ![k] = @ - Cost]
      BY <1>2, <2>2, <2>3
    <3>2. Ideal!Grant(k)
      BY <2>1, <2>3, <3>1 DEF Ideal!Grant
    <3> QED BY <3>2 DEF Ideal!Next
  <2>4. CASE Credit[k] < Cost /\ Credit'[k] = Credit[k]
             /\ answer' = [key |-> k, allowed |-> FALSE] /\ spent' = spent
    <3>1. Credit' = Credit
      BY <1>2, <2>2, <2>4
    <3>2. Ideal!Deny(k)
      BY <2>1, <2>4, <3>1 DEF Ideal!Deny
    <3> QED BY <3>2 DEF Ideal!Next
  <2> QED BY <1>1, <1>5, <2>3, <2>4, AllowCharges
<1>6. CASE UNCHANGED vars
  <2>1. Credit' = Credit
    BY <1>6 DEF vars, Credit, Refilled
  <2> QED BY <1>6, <2>1 DEF vars, Ideal!vars
<1> QED BY <1>3, <1>4, <1>5, <1>6 DEF Next

\* The limiter implements the ideal token bucket.
THEOREM ImplementsIdeal == Spec => AnswersLikeIdeal
<1>1. Init => Ideal!Init
  <2> SUFFICES ASSUME Init PROVE Ideal!Init
    OBVIOUS
  <2>1. Credit = [k \in Keys |-> Capacity]
    BY DEF Init, Credit
  <2> QED BY <2>1 DEF Init, Ideal!Init, NoAnswer, Ideal!NoAnswer
<1> QED BY <1>1, InvInit, InvStep, IdealStep, PTL
        DEF Spec, AnswersLikeIdeal, Ideal!Spec

-----------------------------------------------------------------------------
(* The cache behind the limiter *)

Price(n) == Cost * n

\* The window has granted n requests more than those that are still being read.
Paid(n) == Price(reading) + Price(n) <= spent[Endpoint] + Price(carried)

\* The action is still in the cache, and the place it has there was paid for.
Held(a) ==
    \/ Paid(MaxSeen + 1)
    \/ \E i \in 1..Len(seen) : seen[i] = a /\ Paid(Len(seen) - i + 1)

\* Whatever pushes an action on towards the end of the cache was granted.
CacheInv ==
    /\ Paid(0)
    /\ again => Paid(MaxSeen + 2)
    /\ \A a \in handled : Held(a)

LEMMA PriceFacts ==
    /\ Price(0) = 0
    /\ \A n \in Nat : Price(n) \in Nat /\ Price(n + 1) = Price(n) + Cost
<1>1. Cost \in Nat
  BY RateLimiterAssumption
<1> QED BY <1>1 DEF Price

LEMMA SpentType == ASSUME TypeOK PROVE spent[Endpoint] \in Nat /\ Cost \in Nat /\ MaxSeen \in Nat
BY InteractionsAssumption, RateLimiterAssumption DEF TypeOK

\* A request whose body has been read ...
LEMMA ReadCounts ==
    ASSUME TypeOK, CacheTypeOK, reading > 0, reading' = reading - 1,
           UNCHANGED <<spent, carried>>, NEW n \in Nat, Paid(n)
    PROVE  Paid(n + 1)' /\ Paid(n)'
<1>1. /\ reading \in Nat /\ carried \in Nat /\ reading - 1 \in Nat
      /\ (reading - 1) + 1 = reading
  BY InteractionsAssumption DEF CacheTypeOK
<1>2. /\ Price(reading) = Price(reading - 1) + Cost /\ Price(n + 1) = Price(n) + Cost
      /\ Price(reading) \in Nat /\ Price(reading - 1) \in Nat /\ Price(n) \in Nat
      /\ Price(carried) \in Nat
  BY <1>1, PriceFacts
<1>3. Price(reading - 1) + Price(n + 1) <= spent[Endpoint] + Price(carried)
  BY <1>2, SpentType DEF Paid
<1>4. Price(reading - 1) + Price(n) <= spent[Endpoint] + Price(carried)
  BY <1>2, SpentType DEF Paid
<1> QED BY <1>3, <1>4 DEF Paid, Price

\* ... and one that the limiter answers: either way nothing paid is lost.
LEMMA GrantKeeps ==
    ASSUME TypeOK, CacheTypeOK, NEW k \in Keys, Allow(k),
           reading' = IF k = Endpoint /\ answer'.allowed THEN reading + 1 ELSE reading,
           carried' = carried, NEW n \in Nat, Paid(n)
    PROVE  Paid(n)'
<1>1. reading \in Nat /\ carried \in Nat
  BY InteractionsAssumption DEF CacheTypeOK
<1>2. /\ Price(reading + 1) = Price(reading) + Cost
      /\ Price(reading) \in Nat /\ Price(n) \in Nat /\ Price(carried) \in Nat
  BY <1>1, PriceFacts
<1>3. Endpoint \in Keys /\ spent \in [Keys -> Nat]
  BY InteractionsAssumption DEF TypeOK
<1>4. \/ answer'.allowed = TRUE /\ spent' = [spent EXCEPT ![k] = @ + Cost]
      \/ answer'.allowed = FALSE /\ spent' = spent
  BY AllowCharges
<1>5. \/ reading' = reading + 1 /\ spent'[Endpoint] = spent[Endpoint] + Cost
      \/ reading' = reading /\ spent'[Endpoint] >= spent[Endpoint] /\ spent'[Endpoint] \in Nat
  BY <1>3, <1>4, SpentType
<1>6. Price(reading') + Price(n) <= spent'[Endpoint] + Price(carried)
  <2>1. CASE reading' = reading + 1 /\ spent'[Endpoint] = spent[Endpoint] + Cost
    BY <1>2, <2>1, SpentType DEF Paid
  <2>2. CASE reading' = reading /\ spent'[Endpoint] >= spent[Endpoint] /\ spent'[Endpoint] \in Nat
    BY <1>2, <2>2, SpentType DEF Paid
  <2> QED BY <1>5, <2>1, <2>2
<1> QED BY <1>6 DEF Paid, Price

\* If nothing paid is lost, and neither cache nor history change, it still holds.
LEMMA PaidKeeps ==
    ASSUME CacheTypeOK, CacheInv, UNCHANGED <<seen, handled, again>>,
           \A n \in Nat : Paid(n) => Paid(n)'
    PROVE  CacheInv'
<1>1. MaxSeen + 1 \in Nat /\ MaxSeen + 2 \in Nat
  BY InteractionsAssumption
<1>2. \A i \in 1..Len(seen) : Len(seen) - i + 1 \in Nat
  BY DEF CacheTypeOK
<1>3. Paid(0)' /\ (again' => Paid(MaxSeen + 2)')
  BY <1>1 DEF CacheInv
<1>4. ASSUME NEW a \in handled
      PROVE  Held(a)'
  <2>1. CASE Paid(MaxSeen + 1)
    BY <1>1, <2>1 DEF Held, Paid, Price
  <2>2. CASE \E i \in 1..Len(seen) : seen[i] = a /\ Paid(Len(seen) - i + 1)
    <3>1. PICK i \in 1..Len(seen) : seen[i] = a /\ Paid(Len(seen) - i + 1)
      BY <2>2
    <3>2. PICK n \in Nat : n = Len(seen) - i + 1
      BY <1>2
    <3>3. Paid(n)'
      BY <3>1, <3>2
    <3> QED BY <3>1, <3>2, <3>3 DEF Held, Paid, Price
  <2> QED BY <2>1, <2>2 DEF CacheInv, Held
<1> QED BY <1>3, <1>4 DEF CacheInv, Paid, Price

\* The oldest key makes room for the new one, and the others move on by one.
LEMMA Moved ==
    ASSUME CacheTypeOK, NEW a \in Actions, seen' = Append(Room(seen), a)
    PROVE  /\ seen' \in Seq(Actions) /\ Len(seen') <= MaxSeen
           /\ Len(seen') \in 1..Len(seen') /\ seen'[Len(seen')] = a
           /\ IF Len(seen) >= MaxSeen
              THEN /\ Len(seen) = MaxSeen /\ Len(seen') = MaxSeen
                   /\ \A i \in 1..Len(seen) : i # 1 =>
                        i - 1 \in 1..Len(seen') /\ seen'[i - 1] = seen[i]
              ELSE /\ Len(seen') = Len(seen) + 1
                   /\ \A i \in 1..Len(seen) : i \in 1..Len(seen') /\ seen'[i] = seen[i]
<1>1. seen \in Seq(Actions) /\ Len(seen) \in Nat /\ Len(seen) <= MaxSeen /\ MaxSeen \in Nat /\ MaxSeen >= 1
  BY InteractionsAssumption DEF CacheTypeOK
<1>2. CASE Len(seen) >= MaxSeen
  <2>1. Room(seen) = Tail(seen) /\ seen # <<>>
    BY <1>1, <1>2 DEF Room
  <2>2. /\ Tail(seen) \in Seq(Actions) /\ Len(Tail(seen)) = Len(seen) - 1
        /\ \A j \in 1..Len(Tail(seen)) : Tail(seen)[j] = seen[j + 1]
    BY <1>1, <2>1
  <2>3. /\ seen' \in Seq(Actions) /\ Len(seen') = Len(seen)
        /\ seen'[Len(seen')] = a
        /\ \A j \in 1..Len(Tail(seen)) : seen'[j] = Tail(seen)[j]
    BY <1>1, <2>1, <2>2
  <2> QED BY <1>1, <1>2, <2>2, <2>3
<1>3. CASE ~(Len(seen) >= MaxSeen)
  <2>1. Room(seen) = seen
    BY <1>3 DEF Room
  <2>2. /\ seen' \in Seq(Actions) /\ Len(seen') = Len(seen) + 1
        /\ seen'[Len(seen')] = a
        /\ \A j \in 1..Len(seen) : seen'[j] = seen[j]
    BY <1>1, <2>1
  <2> QED BY <1>1, <1>3, <2>2
<1> QED BY <1>2, <1>3

LEMMA HandleKeeps ==
    ASSUME TypeOK, CacheTypeOK, CacheInv, NEW a \in Actions, Handle(a)
    PROVE  CacheTypeOK' /\ CacheInv'
<1>1. /\ reading > 0 /\ reading' = reading - 1 /\ UNCHANGED <<spent, carried>>
      /\ handled' = handled \cup {a} /\ again' = (again \/ a \in handled)
      /\ seen' = Append(Room(seen), a)
      /\ \A i \in 1..Len(seen) : seen[i] # a
  BY DEF Handle, Known, vars
<1>2. /\ seen' \in Seq(Actions) /\ Len(seen') <= MaxSeen
      /\ Len(seen') \in 1..Len(seen') /\ seen'[Len(seen')] = a
  BY <1>1, Moved
<1>3. CacheTypeOK'
  BY <1>1, <1>2, InteractionsAssumption DEF CacheTypeOK
<1>4. \A n \in Nat : Paid(n) => Paid(n)' /\ Paid(n + 1)'
  BY <1>1, ReadCounts
<1>5. /\ MaxSeen \in Nat /\ MaxSeen + 1 \in Nat /\ (MaxSeen + 1) + 1 = MaxSeen + 2
      /\ MaxSeen + 2 \in Nat /\ Len(seen) \in Nat /\ Len(seen') \in Nat
  BY <1>2, InteractionsAssumption DEF CacheTypeOK
<1>6. Paid(0)' /\ Paid(1)'
  <2>1. 0 \in Nat /\ 0 + 1 = 1
    OBVIOUS
  <2> QED BY <1>4, <2>1 DEF CacheInv
<1>7. again' => Paid(MaxSeen + 2)'
  <2>1. CASE again
    BY <1>4, <1>5, <2>1 DEF CacheInv
  <2>2. CASE a \in handled
    <3>1. Paid(MaxSeen + 1)
      BY <1>1, <2>2 DEF CacheInv, Held
    <3> QED BY <1>4, <1>5, <3>1
  <2> QED BY <1>1, <2>1, <2>2
<1>8. ASSUME NEW b \in handled'
      PROVE  Held(b)'
  <2>1. CASE b = a
    <3>1. Len(seen') - Len(seen') + 1 = 1
      BY <1>5
    <3> QED BY <1>2, <1>6, <2>1, <3>1 DEF Held, Paid, Price
  <2>2. CASE Paid(MaxSeen + 1)
    <3>1. Paid(MaxSeen + 1)'
      BY <1>4, <1>5, <2>2
    <3> QED BY <3>1 DEF Held, Paid, Price
  <2>3. CASE \E i \in 1..Len(seen) : seen[i] = b /\ Paid(Len(seen) - i + 1)
    <3>1. PICK i \in 1..Len(seen) : seen[i] = b /\ Paid(Len(seen) - i + 1)
      BY <2>3
    <3>2. PICK n \in Nat : n = Len(seen) - i + 1
      <4>1. Len(seen) - i + 1 \in Nat
        BY <1>5
      <4> QED BY <4>1
    <3>3. Paid(n + 1)'
      BY <1>4, <3>1, <3>2
    <3>4. CASE Len(seen) >= MaxSeen
      <4>1. /\ Len(seen) = MaxSeen /\ Len(seen') = MaxSeen
            /\ i # 1 => i - 1 \in 1..Len(seen') /\ seen'[i - 1] = seen[i]
        BY <1>1, <3>4, Moved
      <4>2. CASE i = 1
        <5>1. n + 1 = MaxSeen + 1
          BY <1>5, <3>2, <4>1, <4>2
        <5>2. Paid(MaxSeen + 1)'
          BY <3>3, <5>1 DEF Paid, Price
        <5> QED BY <5>2 DEF Held, Paid, Price
      <4>3. CASE i # 1
        <5>1. Len(seen') - (i - 1) + 1 = n + 1
          BY <1>5, <3>2, <4>1
        <5> QED BY <3>1, <3>3, <4>1, <4>3, <5>1 DEF Held, Paid, Price
      <4> QED BY <4>2, <4>3
    <3>5. CASE ~(Len(seen) >= MaxSeen)
      <4>1. Len(seen') = Len(seen) + 1 /\ i \in 1..Len(seen') /\ seen'[i] = seen[i]
        BY <1>1, <3>5, Moved
      <4>2. Len(seen') - i + 1 = n + 1
        BY <1>5, <3>2, <4>1
      <4> QED BY <3>1, <3>3, <4>1, <4>2 DEF Held, Paid, Price
    <3> QED BY <3>4, <3>5
  <2>4. b = a \/ Held(b)
    BY <1>1 DEF CacheInv
  <2> QED BY <2>1, <2>2, <2>3, <2>4 DEF Held
<1> QED BY <1>3, <1>6, <1>7, <1>8 DEF CacheInv

LEMMA CacheStep ==
    ASSUME TypeOK, CacheTypeOK, CacheInv, [InteractionsNext]_<<vars, cacheVars>>
    PROVE  CacheTypeOK' /\ CacheInv'
<1>1. Endpoint \in Keys /\ MaxReading \in Nat
  BY InteractionsAssumption
<1>2. reading \in Nat
  BY <1>1 DEF CacheTypeOK
<1>3. CASE Receive
  <2>1. /\ Allow(Endpoint) /\ UNCHANGED <<seen, handled, again, carried>> /\ reading < MaxReading
        /\ reading' = IF answer'.allowed THEN reading + 1 ELSE reading
    BY <1>3 DEF Receive
  <2>2. \A n \in Nat : Paid(n) => Paid(n)'
    BY <1>1, <2>1, GrantKeeps
  <2>3. CacheTypeOK'
    BY <1>1, <1>2, <2>1 DEF CacheTypeOK
  <2> QED BY <2>1, <2>2, <2>3, PaidKeeps
<1>4. CASE Discard \/ \E a \in Actions : Deduplicate(a)
  <2>1. /\ UNCHANGED <<seen, handled, again, carried, spent>>
        /\ reading > 0 /\ reading' = reading - 1
    BY <1>4 DEF Discard, Deduplicate, vars
  <2>2. \A n \in Nat : Paid(n) => Paid(n)'
    BY <2>1, ReadCounts
  <2>3. CacheTypeOK'
    BY <1>1, <1>2, <2>1 DEF CacheTypeOK
  <2> QED BY <2>1, <2>2, <2>3, PaidKeeps
<1>5. CASE \E a \in Actions : Handle(a)
  BY <1>5, HandleKeeps
<1>6. CASE Watch
  <2>1. /\ seen' = seen /\ handled' = {} /\ again' = FALSE /\ carried' = reading
        /\ reading' = reading /\ spent' = [k \in Keys |-> 0]
    BY <1>6 DEF Watch, OpenWindow
  <2>2. CacheTypeOK'
    BY <2>1 DEF CacheTypeOK
  <2>3. Price(0) = 0 /\ Price(reading) \in Nat
    BY <1>2, PriceFacts
  <2>4. Price(reading') + Price(0) <= spent'[Endpoint] + Price(carried')
    BY <1>1, <2>1, <2>3
  <2> QED BY <2>1, <2>2, <2>4 DEF CacheInv, Paid, Price
<1>7. CASE (Tick \/ \E k \in Keys \ {Endpoint} : Allow(k)) /\ UNCHANGED cacheVars
  <2>1. UNCHANGED <<seen, handled, again, carried, reading>>
    BY <1>7 DEF cacheVars
  <2>2. CacheTypeOK'
    BY <2>1 DEF CacheTypeOK
  <2>3. CASE Tick
    <3>1. spent' = spent
      BY <2>3 DEF Tick
    <3>2. \A n \in Nat : Paid(n) => Paid(n)'
      BY <2>1, <3>1 DEF Paid, Price
    <3> QED BY <2>1, <2>2, <3>2, PaidKeeps
  <2>4. CASE \E k \in Keys \ {Endpoint} : Allow(k)
    <3>1. \A n \in Nat : Paid(n) => Paid(n)'
      BY <2>1, <2>4, GrantKeeps
    <3> QED BY <2>1, <2>2, <3>1, PaidKeeps
  <2> QED BY <1>7, <2>3, <2>4
<1>8. CASE UNCHANGED <<vars, cacheVars>>
  BY <1>8 DEF vars, cacheVars, CacheTypeOK, CacheInv, Held, Paid, Price
<1> QED BY <1>3, <1>4, <1>5, <1>6, <1>7, <1>8 DEF InteractionsNext

LEMMA LimiterStep ==
    ASSUME [InteractionsNext]_<<vars, cacheVars>>
    PROVE  [Next]_vars
<1>1. Endpoint \in Keys
  BY InteractionsAssumption
<1> QED BY <1>1 DEF InteractionsNext, Receive, Discard, Deduplicate, Handle, Watch, Next

\* The limiter behind the endpoint is the one the theorems above are about.
THEOREM InteractionsImplementLimiter == InteractionsSpec => Spec
<1>1. InteractionsInit => Init
  BY DEF InteractionsInit
<1>2. [InteractionsNext]_<<vars, cacheVars>> => [Next]_vars
  BY LimiterStep
<1> QED BY <1>1, <1>2, PTL DEF InteractionsSpec, Spec

\* A repeated action is handled once, however large the cache and however fast
\* the limiter: displacing its key takes MaxSeen requests, and each was granted.
THEOREM HandledOnceAlways == InteractionsSpec => []HandledOnce
<1>1. InteractionsInit => CacheTypeOK /\ CacheInv
  <2> SUFFICES ASSUME InteractionsInit PROVE CacheTypeOK /\ CacheInv
    OBVIOUS
  <2>1. spent[Endpoint] = 0 /\ Price(0) = 0
    BY InteractionsAssumption, PriceFacts DEF InteractionsInit, Init
  <2>2. CacheTypeOK
    <3>1. MaxSeen \in Nat /\ MaxReading \in Nat /\ 0 \in 0..MaxReading
      BY InteractionsAssumption
    <3>2. <<>> \in Seq(Actions) /\ Len(<<>>) = 0 /\ 0 <= MaxSeen
      BY <3>1
    <3>3. seen = <<>> /\ reading = 0 /\ carried = 0 /\ handled = {} /\ again = FALSE
      BY DEF InteractionsInit
    <3> QED BY <3>1, <3>2, <3>3 DEF CacheTypeOK
  <2> QED BY <2>1, <2>2 DEF InteractionsInit, CacheInv, Paid
<1>2. InteractionsSpec => []Inv
  BY InvInit, InvStep, InteractionsImplementLimiter, PTL DEF Spec
<1>3. Inv => TypeOK
  BY DEF Inv
<1>4. TypeOK /\ CacheTypeOK /\ CacheInv /\ [InteractionsNext]_<<vars, cacheVars>>
        => (CacheTypeOK /\ CacheInv)'
  BY CacheStep
<1>5. Inv /\ CacheTypeOK /\ CacheInv => HandledOnce
  <2> SUFFICES ASSUME Inv, CacheTypeOK, CacheInv, again
               PROVE  ~(Capacity + ticks + Cost * carried < Cost * (MaxSeen + 2))
    BY DEF HandledOnce
  <2>1. spent[Endpoint] + Credit[Endpoint] <= Capacity + ticks /\ Credit[Endpoint] \in 0..Capacity
    BY InteractionsAssumption, LevelIsCredit DEF Inv
  <2>2. Price(reading) + Price(MaxSeen + 2) <= spent[Endpoint] + Price(carried)
    BY DEF CacheInv, Paid
  <2>3. /\ Price(reading) \in Nat /\ Price(MaxSeen + 2) \in Nat /\ Price(carried) \in Nat
        /\ spent[Endpoint] \in Nat /\ ticks \in Nat /\ Capacity \in Nat
    <3>1. reading \in Nat /\ carried \in Nat /\ MaxSeen + 2 \in Nat
      BY InteractionsAssumption DEF CacheTypeOK
    <3> QED BY <3>1, PriceFacts, SpentType, RateLimiterAssumption DEF Inv, TypeOK
  <2>4. Capacity + ticks + Price(carried) >= Price(MaxSeen + 2)
    BY <2>1, <2>2, <2>3
  <2>5. ~(Capacity + ticks + Price(carried) < Price(MaxSeen + 2))
    BY <2>3, <2>4
  <2> QED BY <2>5 DEF Price
<1> QED BY <1>1, <1>2, <1>3, <1>4, <1>5, PTL DEF InteractionsSpec
=============================================================================
