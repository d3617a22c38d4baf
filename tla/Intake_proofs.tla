---------------------------- MODULE Intake_proofs ----------------------------
(***************************************************************************)
(* For any alerts, any session limit, any number of investigations asked   *)
(* for at once, and any number of sessions.                                *)
(*                                                                         *)
(* The first two invariants are inductive with the types.  The third one   *)
(* is not, since it says nothing of the sessions before the oldest one     *)
(* that is left behind: the invariant counts from every session on.        *)
(***************************************************************************)
EXTENDS Intake, FiniteSetTheorems, SequenceTheorems, TLAPS

\* The sessions that count against the limit and that deliveries answer for.
Counted == {i \in Active : ~sessions[i].extra}

\* From k on: what is left behind, and what took over after k.
LeftFrom(a, k) == {j \in Left(a) : j >= k}
TookOverAfter(a, k) == {j \in Own(a) : j > k /\ sessions[j].extra}

NoneLeftAlone ==
    \A a \in Alerts : \A k \in Nat :
        Cardinality(LeftFrom(a, k)) <= Cardinality(TookOverAfter(a, k))

Inv == /\ DuplicatesOnlyInBurst
       /\ LimitExceededOnlyByBurst
       /\ NoneLeftAlone

Statuses == {"fresh", "active", "closed", "evicted"}

-----------------------------------------------------------------------------
(* Sets of sessions *)

LEMMA SequenceFacts ==
    ASSUME TypeOK
    PROVE  /\ Len(sessions) \in Nat /\ Len(pending) \in Nat
           /\ \A i \in Ids : sessions[i] \in Session
           /\ \A n \in 1..Len(pending) : pending[n] \in Alerts
           /\ Burst \in Nat /\ Burst > 0 /\ Limit \in Nat
BY LenProperties, ElementOfSeq, IntakeAssumption DEF TypeOK, Ids

\* A subset of an initial segment of the numbers can be counted, and what is
\* contained in it has no more elements.
LEMMA CountFacts ==
    ASSUME NEW n \in Nat, NEW S \in SUBSET (1..n), NEW T \in SUBSET S
    PROVE  /\ Cardinality(S) \in Nat /\ Cardinality(T) \in Nat
           /\ Cardinality(T) <= Cardinality(S)
           /\ Cardinality(S) <= n
           /\ IsFiniteSet(S)
<1>1. IsFiniteSet(1..n) /\ Cardinality(1..n) = n
  BY FS_Interval
<1>2. IsFiniteSet(S) /\ Cardinality(S) <= n
  BY <1>1, FS_Subset
<1>3. IsFiniteSet(T) /\ Cardinality(T) <= Cardinality(S)
  BY <1>2, FS_Subset
<1> QED BY <1>2, <1>3, FS_CardinalityType

\* A set with one more number.
LEMMA OneMore ==
    ASSUME NEW n \in Nat, NEW S \in SUBSET (1..n), NEW T \in SUBSET (S \cup {n + 1})
    PROVE  Cardinality(T) <= Cardinality(S) + 1 /\ Cardinality(T) \in Nat
<1>1. IsFiniteSet(S) /\ Cardinality(S) \in Nat
  BY CountFacts
<1>2. n + 1 \notin S
  OBVIOUS
<1>3. /\ IsFiniteSet(S \cup {n + 1})
      /\ Cardinality(S \cup {n + 1}) = Cardinality(S) + 1
  BY <1>1, <1>2, FS_AddElement
<1>4. IsFiniteSet(T) /\ Cardinality(T) <= Cardinality(S \cup {n + 1})
  BY <1>3, FS_Subset
<1> QED BY <1>3, <1>4, FS_CardinalityType

\* What transition does to the record of a session.
LEMMA MovedFacts ==
    ASSUME NEW s \in Session, NEW status \in Statuses
    PROVE  /\ Moved(s, status) \in Session
           /\ Moved(s, status).alert = s.alert
           /\ Moved(s, status).tasked = s.tasked
           /\ s.extra => Moved(s, status).extra
           /\ Moved(s, status).status = (IF s.status = "evicted" THEN "evicted" ELSE status)
           /\ ~Moved(s, status).extra /\ Moved(s, status).status \in {"fresh", "active"}
                => s.status \in {"fresh", "active"}
<1>1. CASE s.status = "evicted"
  BY <1>1 DEF Moved
<1>2. CASE s.status # "evicted"
  <2> DEFINE x == s.extra \/ (s.status = "closed" /\ status # "closed")
  <2>1. x \in BOOLEAN
    BY DEF Session
  <2>2. Moved(s, status) = [s EXCEPT !.status = status, !.extra = x]
    BY <1>2 DEF Moved
  <2> HIDE DEF x
  <2>3. /\ Moved(s, status) \in Session
        /\ Moved(s, status).alert = s.alert
        /\ Moved(s, status).tasked = s.tasked
        /\ Moved(s, status).status = status
        /\ Moved(s, status).extra = x
    BY <2>1, <2>2 DEF Session, Statuses
  <2>4. s.status \in {"fresh", "active", "closed"}
    BY <1>2 DEF Session
  <2> QED BY <1>2, <2>3, <2>4 DEF x
<1> QED BY <1>1, <1>2

\* A step in which no alert is received and no session created: nothing becomes
\* active again as if it were a first session, and nothing is left behind.
Quiet ==
    /\ pending' = pending
    /\ sessions' \in Seq(Session) /\ Len(sessions') = Len(sessions)
    /\ \A j \in Ids :
         /\ sessions'[j].alert = sessions[j].alert
         /\ sessions[j].extra => sessions'[j].extra
         /\ sessions'[j].status \in {"fresh", "active"} /\ ~sessions'[j].extra
              => sessions[j].status \in {"fresh", "active"}
         /\ sessions'[j].status = "fresh" /\ ~sessions'[j].tasked
              => sessions[j].status = "fresh" /\ ~sessions[j].tasked

LEMMA MoveQuiet ==
    ASSUME TypeOK, NEW i \in Ids, NEW status \in Statuses,
           status = "fresh" => sessions[i].tasked,
           Move(i, status), pending' = pending
    PROVE  Quiet
<1>1. sessions \in Seq(Session) /\ i \in 1..Len(sessions) /\ sessions[i] \in Session
  BY SequenceFacts DEF TypeOK, Ids
<1> DEFINE t == Moved(sessions[i], status)
<1>2. /\ t \in Session
      /\ t.alert = sessions[i].alert /\ t.tasked = sessions[i].tasked
      /\ sessions[i].extra => t.extra
      /\ t.status = (IF sessions[i].status = "evicted" THEN "evicted" ELSE status)
      /\ ~t.extra /\ t.status \in {"fresh", "active"}
           => sessions[i].status \in {"fresh", "active"}
  BY <1>1, MovedFacts
<1>3. sessions' = [sessions EXCEPT ![i] = t]
  BY DEF Move
<1> HIDE DEF t
<1>4. /\ sessions' \in Seq(Session) /\ Len(sessions') = Len(sessions)
      /\ \A j \in 1..Len(sessions) : sessions'[j] = IF j = i THEN t ELSE sessions[j]
  BY <1>1, <1>2, <1>3, ExceptSeq
<1>5. ASSUME NEW j \in Ids
      PROVE  /\ sessions'[j].alert = sessions[j].alert
             /\ sessions[j].extra => sessions'[j].extra
             /\ sessions'[j].status \in {"fresh", "active"} /\ ~sessions'[j].extra
                  => sessions[j].status \in {"fresh", "active"}
             /\ sessions'[j].status = "fresh" /\ ~sessions'[j].tasked
                  => sessions[j].status = "fresh" /\ ~sessions[j].tasked
  <2>1. CASE j = i
    <3>1. sessions'[j] = t
      BY <1>4, <2>1 DEF Ids
    <3>2. ~(t.status = "fresh" /\ ~t.tasked)
      BY <1>2
    <3> QED BY <1>2, <2>1, <3>1, <3>2
  <2>2. CASE j # i
    <3>1. sessions'[j] = sessions[j]
      BY <1>4, <2>2 DEF Ids
    <3> QED BY <3>1
  <2> QED BY <2>1, <2>2
<1> QED BY <1>4, <1>5 DEF Quiet

-----------------------------------------------------------------------------
(* Types *)

\* What a POST can add.
LEMMA DeliveryFacts ==
    ASSUME NEW d \in Deliveries
    PROVE  /\ d \in Seq(Alerts)
           /\ Len(d) \in Nat /\ Len(d) > 0
           /\ \A n \in 1..Len(d) : d[n] \in Alerts
<1>1. PICK n \in 1..Burst : d \in [1..n -> Alerts]
  BY DEF Deliveries
<1>2. n \in Nat /\ n > 0
  BY <1>1, IntakeAssumption
<1>3. d \in Seq(Alerts)
  BY <1>1, <1>2, SeqDef
<1>4. Len(d) \in Nat /\ DOMAIN d = 1..Len(d)
  BY <1>3, LenProperties
<1>5. 1 \in 1..Len(d)
  BY <1>1, <1>2, <1>4
<1> QED BY <1>3, <1>4, <1>5, ElementOfSeq

\* The record of a new session.
LEMMA CreatedFacts ==
    ASSUME NEW a \in Alerts, NEW extra \in BOOLEAN
    PROVE  /\ Created(a, extra) \in Session
           /\ Created(a, extra).alert = a /\ Created(a, extra).status = "fresh"
           /\ Created(a, extra).tasked /\ Created(a, extra).extra = extra
BY DEF Created, Session

\* What is appended comes behind the rest.
LEMMA Appended ==
    ASSUME NEW S, NEW s \in Seq(S), NEW e \in S, NEW t, t = Append(s, e)
    PROVE  /\ t \in Seq(S) /\ Len(t) = Len(s) + 1
           /\ \A i \in 1..Len(s) : t[i] = s[i]
           /\ t[Len(s) + 1] = e
BY AppendProperties

\* The oldest scheduled task starts.
LEMMA StartFacts ==
    ASSUME TypeOK, StartTask
    PROVE  /\ pending[1] \in Alerts
           /\ pending' \in Seq(Alerts) /\ Len(pending') = Len(pending) - 1
           /\ Len(pending) > 0
           /\ \A n \in 1..Len(pending') : pending'[n] = pending[n + 1]
           /\ sessions' \in Seq(Session) /\ Len(sessions') = Len(sessions) + 1
           /\ \A i \in Ids : sessions'[i] = sessions[i]
           /\ sessions'[Len(sessions) + 1] = Created(pending[1], FALSE)
<1>1. pending \in Seq(Alerts) /\ pending # <<>> /\ pending' = Tail(pending)
      /\ sessions \in Seq(Session)
      /\ sessions' = Append(sessions, Created(Head(pending), FALSE))
  BY DEF TypeOK, StartTask
<1>2. Len(pending) \in Nat \ {0}
  BY <1>1, EmptySeq
<1>3. Head(pending) = pending[1] /\ pending[1] \in Alerts
  BY <1>1, <1>2, ElementOfSeq
<1>4. Created(pending[1], FALSE) \in Session
  BY <1>3, CreatedFacts
<1>5. /\ pending' \in Seq(Alerts) /\ Len(pending') = Len(pending) - 1
      /\ \A n \in 1..Len(pending') : pending'[n] = pending[n + 1]
  BY <1>1, HeadTailProperties
<1>6. PICK c \in Session : c = Created(pending[1], FALSE)
  BY <1>4
<1>7. sessions \in Seq(Session) /\ sessions' = Append(sessions, c)
  BY <1>1, <1>3, <1>6
<1>8. /\ sessions' \in Seq(Session) /\ Len(sessions') = Len(sessions) + 1
      /\ \A i \in 1..Len(sessions) : sessions'[i] = sessions[i]
      /\ sessions'[Len(sessions) + 1] = c
  BY <1>7, Appended
<1>9. Len(pending) > 0
  BY <1>2
<1>10. \A i \in Ids : sessions'[i] = sessions[i]
  BY <1>8 DEF Ids
<1>11. sessions'[Len(sessions) + 1] = Created(pending[1], FALSE)
  BY <1>6, <1>8
<1> QED BY <1>3, <1>5, <1>8, <1>9, <1>10, <1>11

\* The single agent takes over from the pipeline.
LEMMA FallBackFacts ==
    ASSUME TypeOK, NEW i \in Ids, FallBack(i)
    PROVE  /\ pending' = pending /\ sessions[i].tasked
           /\ sessions' \in Seq(Session) /\ Len(sessions') = Len(sessions) + 1
           /\ \A j \in Ids :
                /\ sessions'[j].alert = sessions[j].alert
                /\ sessions'[j].status = sessions[j].status
                /\ sessions'[j].extra = sessions[j].extra
                /\ j # i => sessions'[j].tasked = sessions[j].tasked
           /\ sessions'[Len(sessions) + 1] = Created(sessions[i].alert, TRUE)
           /\ sessions[i].alert \in Alerts
<1>1. /\ sessions \in Seq(Session) /\ i \in 1..Len(sessions) /\ sessions[i] \in Session
      /\ Len(sessions) \in Nat
  BY SequenceFacts DEF TypeOK, Ids
<1> DEFINE t == [sessions[i] EXCEPT !.tasked = FALSE]
           u == [sessions EXCEPT ![i] = t]
           c == Created(sessions[i].alert, TRUE)
<1>2. /\ t \in Session /\ t.alert = sessions[i].alert
      /\ t.status = sessions[i].status /\ t.extra = sessions[i].extra
  BY <1>1 DEF Session
<1>3. sessions[i].alert \in Alerts
  BY <1>1 DEF Session
<1>4. c \in Session
  BY <1>3, CreatedFacts
<1>5. sessions' = Append(u, c)
  BY DEF FallBack
<1> HIDE DEF t
<1>6. /\ u \in Seq(Session) /\ Len(u) = Len(sessions)
      /\ \A j \in 1..Len(sessions) : u[j] = IF j = i THEN t ELSE sessions[j]
  BY <1>1, <1>2, ExceptSeq
<1> HIDE DEF u, c
<1>7. /\ sessions' \in Seq(Session) /\ Len(sessions') = Len(sessions) + 1
      /\ \A j \in 1..Len(sessions) : sessions'[j] = u[j]
      /\ sessions'[Len(sessions) + 1] = c
  BY <1>4, <1>5, <1>6, AppendProperties
<1>8. ASSUME NEW j \in Ids
      PROVE  /\ sessions'[j].alert = sessions[j].alert
             /\ sessions'[j].status = sessions[j].status
             /\ sessions'[j].extra = sessions[j].extra
             /\ j # i => sessions'[j].tasked = sessions[j].tasked
  BY <1>2, <1>6, <1>7 DEF Ids
<1>9. pending' = pending /\ sessions[i].tasked
  BY DEF FallBack
<1> QED BY <1>3, <1>7, <1>8, <1>9 DEF c

\* Every step but the three that add to a sequence is quiet.
LEMMA QuietSteps ==
    ASSUME TypeOK, NEW i \in Ids,
           \/ StartSpecialist(i) \/ Conclude(i) \/ FinishTask(i)
           \/ Close(i) \/ Reopen(i) \/ Evict(i)
    PROVE  Quiet
<1>1. sessions \in Seq(Session) /\ i \in 1..Len(sessions) /\ sessions[i] \in Session
  BY SequenceFacts DEF TypeOK, Ids
<1>2. CASE StartSpecialist(i)
  <2>1. sessions[i].tasked /\ Move(i, "fresh") /\ pending' = pending
    BY <1>2 DEF StartSpecialist
  <2>2. "fresh" \in Statuses
    BY DEF Statuses
  <2> QED BY <2>1, <2>2, MoveQuiet
<1>3. CASE Conclude(i)
  <2>1. PICK status \in {"active", "closed"} : Move(i, status)
    BY <1>3 DEF Conclude
  <2>2. status \in Statuses /\ status # "fresh" /\ pending' = pending
    BY <1>3 DEF Conclude, Statuses
  <2> QED BY <2>1, <2>2, MoveQuiet
<1>4. CASE FinishTask(i)
  <2> DEFINE t == [sessions[i] EXCEPT !.tasked = FALSE]
  <2>1. /\ t \in Session /\ t.alert = sessions[i].alert
        /\ t.status = sessions[i].status /\ t.extra = sessions[i].extra
    BY <1>1 DEF Session
  <2>2. sessions' = [sessions EXCEPT ![i] = t] /\ pending' = pending
        /\ sessions[i].status # "fresh"
    BY <1>4 DEF FinishTask
  <2> HIDE DEF t
  <2>3. /\ sessions' \in Seq(Session) /\ Len(sessions') = Len(sessions)
        /\ \A j \in 1..Len(sessions) : sessions'[j] = IF j = i THEN t ELSE sessions[j]
    BY <1>1, <2>1, <2>2, ExceptSeq
  <2> QED BY <2>1, <2>2, <2>3 DEF Quiet, Ids
<1>5. CASE Close(i) \/ Reopen(i) \/ Evict(i)
  <2>1. PICK status \in {"closed", "active", "evicted"} : Move(i, status)
    BY <1>5 DEF Close, Reopen, Evict
  <2>2. status \in Statuses /\ status # "fresh" /\ pending' = pending
    BY <1>5 DEF Close, Reopen, Evict, Statuses
  <2> QED BY <2>1, <2>2, MoveQuiet
<1> QED BY <1>2, <1>3, <1>4, <1>5

\* So is a resolved delivery, whichever session it is about.
LEMMA ResolvedQuiet ==
    ASSUME TypeOK, NEW a \in Alerts, ReceiveResolved(a)
    PROVE  Quiet
<1> DEFINE i == FirstActiveOf(a)
<1>1. Move(i, "closed") /\ pending' = pending
  BY DEF ReceiveResolved
<1> HIDE DEF i
<1>2. CASE i \in Ids
  <2>1. "closed" \in Statuses
    BY DEF Statuses
  <2> QED BY <1>1, <1>2, <2>1, MoveQuiet
<1>3. CASE i \notin Ids
  <2>1. sessions \in Seq(Session) /\ DOMAIN sessions = Ids
    BY LenProperties DEF TypeOK, Ids
  <2>2. sessions' = sessions
    BY <1>1, <1>3, <2>1, LenProperties DEF Move
  <2> QED BY <1>1, <2>1, <2>2 DEF Quiet
<1> QED BY <1>2, <1>3

\* Every step, in the shapes the proofs tell apart.
LEMMA Steps ==
    ASSUME TypeOK, [Next]_vars
    PROVE  \/ \E d \in Deliveries : ReceiveAlerts(d)
           \/ StartTask
           \/ \E i \in Ids : FallBack(i)
           \/ Quiet
<1>1. CASE UNCHANGED vars
  BY <1>1 DEF vars, Quiet, TypeOK
<1> QED BY <1>1, QuietSteps, ResolvedQuiet DEF Next

LEMMA StepType ==
    ASSUME TypeOK, [Next]_vars
    PROVE  TypeOK'
<1>1. pending \in Seq(Alerts) /\ Len(pending) <= Burst /\ sessions \in Seq(Session)
      /\ Len(pending) \in Nat /\ Burst \in Nat
  BY SequenceFacts DEF TypeOK
<1>2. ASSUME NEW d \in Deliveries, ReceiveAlerts(d) PROVE TypeOK'
  <2>1. d \in Seq(Alerts)
    BY DeliveryFacts
  <2>2. pending' \in Seq(Alerts) /\ Len(pending') = Len(pending) + Len(d)
    BY <1>1, <1>2, <2>1, ConcatProperties DEF ReceiveAlerts
  <2> QED BY <1>1, <1>2, <2>2 DEF ReceiveAlerts, TypeOK
<1>3. CASE StartTask
  BY <1>1, <1>3, StartFacts DEF TypeOK
<1>4. ASSUME NEW i \in Ids, FallBack(i) PROVE TypeOK'
  BY <1>1, <1>4, FallBackFacts DEF TypeOK
<1>5. CASE Quiet
  BY <1>1, <1>5 DEF Quiet, TypeOK
<1> QED BY <1>2, <1>3, <1>4, <1>5, Steps

\* The types of the store and of the queue of tasks.
THEOREM TypeCorrect == Spec => []TypeOK
<1>1. Init => TypeOK
  BY EmptySeq, IntakeAssumption DEF Init, TypeOK
<1>2. TypeOK /\ [Next]_vars => TypeOK'
  BY StepType
<1> QED BY <1>1, <1>2, PTL DEF Spec

-----------------------------------------------------------------------------
(* The invariant *)

\* A quiet step only takes sessions away from what is counted.
LEMMA QuietInv ==
    ASSUME TypeOK, Inv, Quiet
    PROVE  Inv'
<1>1. Len(sessions) \in Nat /\ Len(pending) \in Nat /\ Burst \in Nat /\ Limit \in Nat
  BY SequenceFacts
<1>2. Ids' = Ids /\ Ids = 1..Len(sessions)
  BY DEF Ids, Quiet
<1>3. ASSUME NEW j \in Ids
      PROVE  /\ sessions'[j].alert = sessions[j].alert
             /\ sessions[j].extra => sessions'[j].extra
             /\ sessions'[j].status \in {"fresh", "active"} /\ ~sessions'[j].extra
                  => sessions[j].status \in {"fresh", "active"}
             /\ sessions'[j].status = "fresh" /\ ~sessions'[j].tasked
                  => sessions[j].status = "fresh" /\ ~sessions[j].tasked
  BY DEF Quiet
<1>4. ASSUME NEW a \in Alerts \ Anonymous
      PROVE  (Cardinality(Delivered(a)) + Cardinality(PendingOf(a)) <= Burst)'
  <2>1. Delivered(a) \in SUBSET (1..Len(sessions))
    BY <1>2 DEF Delivered, ActiveOf, Active
  <2>2. Delivered(a)' \in SUBSET Delivered(a)
    BY <1>2, <1>3 DEF Delivered, ActiveOf, Active
  <2>3. /\ Cardinality(Delivered(a)') <= Cardinality(Delivered(a))
        /\ Cardinality(Delivered(a)') \in Nat /\ Cardinality(Delivered(a)) \in Nat
    BY <1>1, <2>1, <2>2, CountFacts
  <2>4. PendingOf(a)' = PendingOf(a) /\ PendingOf(a) \in SUBSET (1..Len(pending))
    BY DEF PendingOf, Quiet
  <2>5. Cardinality(PendingOf(a)) \in Nat
    BY <1>1, <2>4, CountFacts
  <2>6. Cardinality(Delivered(a)) + Cardinality(PendingOf(a)) <= Burst
    BY DEF Inv, DuplicatesOnlyInBurst
  <2> QED BY <1>1, <2>3, <2>4, <2>5, <2>6
<1>5. LimitExceededOnlyByBurst'
  <2>1. Counted \in SUBSET (1..Len(sessions))
    BY <1>2 DEF Counted, Active
  <2>2. Counted' \in SUBSET Counted
    BY <1>2, <1>3 DEF Counted, Active
  <2>3. /\ Cardinality(Counted') <= Cardinality(Counted)
        /\ Cardinality(Counted') \in Nat /\ Cardinality(Counted) \in Nat
    BY <1>1, <2>1, <2>2, CountFacts
  <2>4. Limit > 0 => Cardinality(Counted) + Len(pending) <= Limit + Burst - 1
    BY DEF Inv, LimitExceededOnlyByBurst, Counted
  <2>5. Limit > 0 => Cardinality(Counted') + Len(pending') <= Limit + Burst - 1
    BY <1>1, <2>3, <2>4 DEF Quiet
  <2> QED BY <2>5 DEF LimitExceededOnlyByBurst, Counted
<1>6. ASSUME NEW a \in Alerts, NEW k \in Nat
      PROVE  (Cardinality(LeftFrom(a, k)) <= Cardinality(TookOverAfter(a, k)))'
  <2>1. /\ LeftFrom(a, k) \in SUBSET (1..Len(sessions))
        /\ TookOverAfter(a, k)' \in SUBSET (1..Len(sessions))
    BY <1>2 DEF LeftFrom, TookOverAfter, Left, Own
  <2>2. /\ LeftFrom(a, k)' \in SUBSET LeftFrom(a, k)
        /\ TookOverAfter(a, k) \in SUBSET TookOverAfter(a, k)'
    BY <1>2, <1>3 DEF LeftFrom, TookOverAfter, Left, Own
  <2>3. /\ Cardinality(LeftFrom(a, k)') <= Cardinality(LeftFrom(a, k))
        /\ Cardinality(LeftFrom(a, k)') \in Nat /\ Cardinality(LeftFrom(a, k)) \in Nat
    BY <1>1, <2>1, <2>2, CountFacts
  <2>4. /\ Cardinality(TookOverAfter(a, k)) <= Cardinality(TookOverAfter(a, k)')
        /\ Cardinality(TookOverAfter(a, k)) \in Nat
        /\ Cardinality(TookOverAfter(a, k)') \in Nat
    BY <1>1, <2>1, <2>2, CountFacts
  <2>5. Cardinality(LeftFrom(a, k)) <= Cardinality(TookOverAfter(a, k))
    BY DEF Inv, NoneLeftAlone
  <2> QED BY <2>3, <2>4, <2>5
<1> QED BY <1>4, <1>5, <1>6 DEF Inv, DuplicatesOnlyInBurst, NoneLeftAlone

\* A POST admits only alerts none of whose sessions is active, and only while
\* there is room for one more session.
LEMMA ReceiveInv ==
    ASSUME TypeOK, Inv, NEW d \in Deliveries, ReceiveAlerts(d)
    PROVE  Inv'
<1>1. /\ Len(sessions) \in Nat /\ Len(pending) \in Nat /\ Burst \in Nat /\ Limit \in Nat
      /\ pending \in Seq(Alerts)
  BY SequenceFacts DEF TypeOK
<1>2. /\ d \in Seq(Alerts) /\ Len(d) \in Nat /\ Len(d) > 0
      /\ \A n \in 1..Len(d) : d[n] \in Alerts
  BY DeliveryFacts
<1>3. /\ \A n \in 1..Len(d) : Admitted(d[n])
      /\ Len(pending) + Len(d) <= Burst
      /\ pending' = pending \o d /\ sessions' = sessions
  BY DEF ReceiveAlerts
<1>4. /\ Len(pending') = Len(pending) + Len(d)
      /\ \A n \in 1..Len(pending) + Len(d) :
           pending'[n] = IF n <= Len(pending) THEN pending[n] ELSE d[n - Len(pending)]
  BY <1>1, <1>2, <1>3, ConcatProperties
<1>5. Len(pending') \in Nat /\ Len(pending') <= Burst
  BY <1>1, <1>2, <1>3, <1>4
<1>6. ASSUME NEW a \in Alerts \ Anonymous
      PROVE  (Cardinality(Delivered(a)) + Cardinality(PendingOf(a)) <= Burst)'
  <2>1. Delivered(a)' = Delivered(a)
    BY <1>3 DEF Delivered, ActiveOf, Active, Ids
  <2>2. CASE \E n \in 1..Len(d) : d[n] = a
    <3>1. ActiveOf(a) = {}
      BY <1>3, <2>2 DEF Admitted, IsNew
    <3>2. Cardinality(Delivered(a)') = 0
      BY <2>1, <3>1, FS_EmptySet DEF Delivered
    <3>3. PendingOf(a)' \in SUBSET (1..Len(pending'))
      BY DEF PendingOf
    <3>4. Cardinality(PendingOf(a)') \in Nat
          /\ Cardinality(PendingOf(a)') <= Len(pending')
      BY <1>5, <3>3, CountFacts
    <3> QED BY <1>1, <1>5, <3>2, <3>4
  <2>3. CASE ~\E n \in 1..Len(d) : d[n] = a
    <3>1. ASSUME NEW n \in 1..Len(pending'), pending'[n] = a
          PROVE  n \in 1..Len(pending) /\ pending[n] = a
      <4>1. CASE n <= Len(pending)
        BY <1>1, <1>4, <1>5, <3>1, <4>1
      <4>2. CASE ~(n <= Len(pending))
        <5>1. n - Len(pending) \in 1..Len(d) /\ n \in 1..Len(pending) + Len(d)
          BY <1>1, <1>2, <1>4, <4>2
        <5> QED BY <1>4, <2>3, <3>1, <4>2, <5>1
      <4> QED BY <4>1, <4>2
    <3>2. PendingOf(a)' \in SUBSET PendingOf(a)
      BY <3>1 DEF PendingOf
    <3>3. PendingOf(a) \in SUBSET (1..Len(pending))
      BY DEF PendingOf
    <3>4. /\ Cardinality(PendingOf(a)') <= Cardinality(PendingOf(a))
          /\ Cardinality(PendingOf(a)') \in Nat /\ Cardinality(PendingOf(a)) \in Nat
      BY <1>1, <3>2, <3>3, CountFacts
    <3>5. Delivered(a) \in SUBSET (1..Len(sessions))
      BY DEF Delivered, ActiveOf, Active, Ids
    <3>6. Cardinality(Delivered(a)) \in Nat
      BY <1>1, <3>5, CountFacts
    <3>7. Cardinality(Delivered(a)) + Cardinality(PendingOf(a)) <= Burst
      BY DEF Inv, DuplicatesOnlyInBurst
    <3> QED BY <1>1, <2>1, <3>4, <3>6, <3>7
  <2> QED BY <2>2, <2>3
<1>7. LimitExceededOnlyByBurst'
  <2> SUFFICES ASSUME Limit > 0
               PROVE  (Cardinality(Counted) + Len(pending) <= Limit + Burst - 1)'
    BY DEF LimitExceededOnlyByBurst, Counted
  <2>1. Cardinality(Active) < Limit
    <3>1. 1 \in 1..Len(d)
      BY <1>2
    <3> QED BY <1>3, <3>1 DEF Admitted, UnderLimit
  <2>2. Active \in SUBSET (1..Len(sessions)) /\ Counted \in SUBSET Active
    BY DEF Active, Counted, Ids
  <2>3. /\ Cardinality(Counted) \in Nat /\ Cardinality(Active) \in Nat
        /\ Cardinality(Counted) <= Cardinality(Active)
    BY <1>1, <2>2, CountFacts
  <2>4. Counted' = Counted
    BY <1>3 DEF Counted, Active, Ids
  <2>5. Cardinality(Counted') + Len(pending') <= Limit + Burst - 1
    BY <1>1, <1>5, <2>1, <2>3, <2>4
  <2> QED BY <2>5
<1>8. NoneLeftAlone'
  BY <1>3 DEF Inv, NoneLeftAlone, LeftFrom, TookOverAfter, Left, Own, Ids
<1> QED BY <1>6, <1>7, <1>8 DEF Inv, DuplicatesOnlyInBurst

\* A task that starts turns one scheduled investigation into one session.
LEMMA StartInv ==
    ASSUME TypeOK, Inv, StartTask
    PROVE  Inv'
<1>1. /\ Len(sessions) \in Nat /\ Len(pending) \in Nat /\ Burst \in Nat /\ Limit \in Nat
  BY SequenceFacts
<1> DEFINE new == Len(sessions) + 1
           b == pending[1]
<1>2. /\ Len(pending') = Len(pending) - 1 /\ Len(pending) > 0
      /\ \A n \in 1..Len(pending') : pending'[n] = pending[n + 1]
      /\ Len(sessions') = new
      /\ \A i \in Ids : sessions'[i] = sessions[i]
      /\ sessions'[new] = Created(b, FALSE) /\ b \in Alerts
  BY StartFacts
<1>3. /\ sessions'[new].alert = b /\ sessions'[new].tasked
      /\ ~sessions'[new].extra
  BY <1>2, CreatedFacts
<1>4. Ids = 1..Len(sessions) /\ Ids' = Ids \cup {new} /\ new \notin Ids
  BY <1>1, <1>2 DEF Ids
<1> HIDE DEF new
<1>5. ASSUME NEW a \in Alerts \ Anonymous
      PROVE  (Cardinality(Delivered(a)) + Cardinality(PendingOf(a)) <= Burst)'
  <2>1. Delivered(a) \in SUBSET (1..Len(sessions))
    BY <1>4 DEF Delivered, ActiveOf, Active
  <2>2. /\ PendingOf(a) \in SUBSET (1..Len(pending))
        /\ PendingOf(a)' \in SUBSET (1..Len(pending'))
    BY DEF PendingOf
  <2>3. Cardinality(Delivered(a)) \in Nat /\ Cardinality(PendingOf(a)) \in Nat
        /\ IsFiniteSet(PendingOf(a))
    BY <1>1, <2>1, <2>2, CountFacts
  <2>4. Cardinality(Delivered(a)) + Cardinality(PendingOf(a)) <= Burst
    BY DEF Inv, DuplicatesOnlyInBurst
  <2> DEFINE rest == PendingOf(a) \ {1}
             shift == [n \in PendingOf(a)' |-> n + 1]
  <2>5. shift \in Injection(PendingOf(a)', rest)
    <3>1. ASSUME NEW n \in PendingOf(a)' PROVE n + 1 \in rest
      <4>1. n \in 1..Len(pending') /\ pending'[n] = a
        BY DEF PendingOf
      <4>2. n + 1 \in 1..Len(pending) /\ n + 1 # 1
        BY <1>1, <1>2, <4>1
      <4> QED BY <1>2, <4>1, <4>2 DEF PendingOf
    <3>2. \A n \in PendingOf(a)' : n \in Int
      BY DEF PendingOf
    <3> QED BY <3>1, <3>2 DEF Injection, IsInjective
  <2>6. /\ IsFiniteSet(rest)
        /\ Cardinality(rest) = IF 1 \in PendingOf(a) THEN Cardinality(PendingOf(a)) - 1
                               ELSE Cardinality(PendingOf(a))
    BY <2>3, FS_RemoveElement
  <2> HIDE DEF rest, shift
  <2>7. /\ IsFiniteSet(PendingOf(a)')
        /\ Cardinality(PendingOf(a)') <= Cardinality(rest)
    BY <2>5, <2>6, FS_Injection
  <2>8. Cardinality(PendingOf(a)') \in Nat
    BY <2>7, FS_CardinalityType
  <2>9. CASE b = a
    <3>1. 1 \in PendingOf(a)
      BY <1>1, <1>2, <2>9 DEF PendingOf
    <3>2. Delivered(a)' \in SUBSET (Delivered(a) \cup {Len(sessions) + 1})
      BY <1>2, <1>4 DEF Delivered, ActiveOf, Active, new
    <3>3. Cardinality(Delivered(a)') <= Cardinality(Delivered(a)) + 1
          /\ Cardinality(Delivered(a)') \in Nat
      BY <1>1, <2>1, <3>2, OneMore
    <3> QED BY <1>1, <2>3, <2>4, <2>6, <2>7, <2>8, <3>1, <3>3
  <2>10. CASE b # a
    <3>1. Delivered(a)' = Delivered(a)
      BY <1>2, <1>3, <1>4, <2>10 DEF Delivered, ActiveOf, Active
    <3> QED BY <1>1, <2>3, <2>4, <2>6, <2>7, <2>8, <3>1
  <2> QED BY <2>9, <2>10
<1>6. LimitExceededOnlyByBurst'
  <2>1. Counted \in SUBSET (1..Len(sessions))
    BY <1>4 DEF Counted, Active
  <2>2. Counted' \in SUBSET (Counted \cup {Len(sessions) + 1})
    BY <1>2, <1>4 DEF Counted, Active, new
  <2>3. /\ Cardinality(Counted') <= Cardinality(Counted) + 1
        /\ Cardinality(Counted') \in Nat
    BY <1>1, <2>1, <2>2, OneMore
  <2>4. Cardinality(Counted) \in Nat
    BY <1>1, <2>1, CountFacts
  <2>5. Limit > 0 => Cardinality(Counted) + Len(pending) <= Limit + Burst - 1
    BY DEF Inv, LimitExceededOnlyByBurst, Counted
  <2>6. Limit > 0 => Cardinality(Counted') + Len(pending') <= Limit + Burst - 1
    BY <1>1, <1>2, <2>3, <2>4, <2>5
  <2> QED BY <2>6 DEF LimitExceededOnlyByBurst, Counted
<1>7. ASSUME NEW a \in Alerts, NEW k \in Nat
      PROVE  (Cardinality(LeftFrom(a, k)) <= Cardinality(TookOverAfter(a, k)))'
  <2>1. /\ LeftFrom(a, k)' = LeftFrom(a, k)
        /\ TookOverAfter(a, k)' = TookOverAfter(a, k)
    BY <1>2, <1>3, <1>4 DEF LeftFrom, TookOverAfter, Left, Own
  <2>2. Cardinality(LeftFrom(a, k)) <= Cardinality(TookOverAfter(a, k))
    BY DEF Inv, NoneLeftAlone
  <2> QED BY <2>1, <2>2
<1> QED BY <1>5, <1>6, <1>7 DEF Inv, DuplicatesOnlyInBurst, NoneLeftAlone

\* The fallback leaves one session behind, and one takes over after it.
LEMMA FallBackInv ==
    ASSUME TypeOK, Inv, NEW i \in Ids, FallBack(i)
    PROVE  Inv'
<1> DEFINE new == Len(sessions) + 1
           b == sessions[i].alert
<1>1. Len(sessions) \in Nat /\ Len(pending) \in Nat
  BY SequenceFacts
<1>2. /\ pending' = pending /\ sessions[i].tasked
      /\ Len(sessions') = new
      /\ \A j \in Ids :
           /\ sessions'[j].alert = sessions[j].alert
           /\ sessions'[j].status = sessions[j].status
           /\ sessions'[j].extra = sessions[j].extra
           /\ j # i => sessions'[j].tasked = sessions[j].tasked
      /\ sessions'[new] = Created(b, TRUE) /\ b \in Alerts
  BY FallBackFacts
<1>3. /\ sessions'[new].alert = b /\ sessions'[new].tasked /\ sessions'[new].extra
  BY <1>2, CreatedFacts
<1>4. Ids = 1..Len(sessions) /\ Ids' = Ids \cup {new} /\ new \notin Ids
      /\ i \in Nat /\ i < new /\ new \in Nat
  BY <1>1, <1>2 DEF Ids
<1> HIDE DEF new
<1>5. DuplicatesOnlyInBurst'
  <2>1. ASSUME NEW a \in Alerts PROVE Delivered(a)' = Delivered(a)
    BY <1>2, <1>3, <1>4 DEF Delivered, ActiveOf, Active
  <2>2. ASSUME NEW a \in Alerts PROVE PendingOf(a)' = PendingOf(a)
    BY <1>2 DEF PendingOf
  <2>3. ASSUME NEW a \in Alerts \ Anonymous
        PROVE  (Cardinality(Delivered(a)) + Cardinality(PendingOf(a)) <= Burst)'
    <3>1. Cardinality(Delivered(a)) + Cardinality(PendingOf(a)) <= Burst
      BY DEF Inv, DuplicatesOnlyInBurst
    <3> QED BY <2>1, <2>2, <3>1
  <2> QED BY <2>3 DEF DuplicatesOnlyInBurst
<1>6. LimitExceededOnlyByBurst'
  <2>1. Counted' = Counted
    BY <1>2, <1>3, <1>4 DEF Counted, Active
  <2> QED BY <1>2, <2>1 DEF Inv, LimitExceededOnlyByBurst, Counted
<1>7. ASSUME NEW a \in Alerts, NEW k \in Nat
      PROVE  (Cardinality(LeftFrom(a, k)) <= Cardinality(TookOverAfter(a, k)))'
  <2> DEFINE L == LeftFrom(a, k)
             T == TookOverAfter(a, k)
  <2>1. L \in SUBSET (1..Len(sessions)) /\ T \in SUBSET (1..Len(sessions))
    BY <1>4 DEF LeftFrom, TookOverAfter, Left, Own
  <2>2. /\ Cardinality(L) \in Nat /\ Cardinality(T) \in Nat
        /\ IsFiniteSet(L) /\ IsFiniteSet(T)
    BY <1>1, <2>1, CountFacts
  <2>3. Cardinality(L) <= Cardinality(T)
    BY DEF Inv, NoneLeftAlone
  <2>4. CASE a = b /\ k <= i
    <3>1. L' \in SUBSET (L \cup {i})
      BY <1>2, <1>3, <1>4 DEF LeftFrom, Left, Own
    <3>2. IsFiniteSet(L \cup {i}) /\ Cardinality(L \cup {i}) <= Cardinality(L) + 1
          /\ Cardinality(L \cup {i}) \in Nat
      BY <2>2, FS_AddElement
    <3>3. Cardinality(L') <= Cardinality(L) + 1 /\ Cardinality(L') \in Nat
      BY <2>2, <3>1, <3>2, FS_Subset, FS_CardinalityType
    <3>6. T \subseteq Ids /\ new \notin T
      BY <1>4 DEF TookOverAfter, Own
    <3>7. new \in T'
      <4>1. new \in Ids' /\ new > k
        BY <1>4, <2>4
      <4>2. sessions'[new].alert = a /\ sessions'[new].extra
        BY <1>3, <2>4
      <4> QED BY <4>1, <4>2 DEF TookOverAfter, Own
    <3>8. \A j \in Ids : j \in T' <=> j \in T
      BY <1>2, <1>4 DEF TookOverAfter, Own
    <3>9. T' \subseteq Ids'
      BY DEF TookOverAfter, Own
    <3>4. T' = T \cup {new} /\ new \notin T
      <4> HIDE DEF T
      <4> QED BY <1>4, <3>6, <3>7, <3>8, <3>9
    <3>5. Cardinality(T') = Cardinality(T) + 1
      BY <2>2, <3>4, FS_AddElement
    <3> QED BY <2>2, <2>3, <3>3, <3>5
  <2>5. CASE ~(a = b /\ k <= i)
    <3>1. L' \in SUBSET L
      BY <1>2, <1>3, <1>4, <2>5 DEF LeftFrom, Left, Own
    <3>2. T \in SUBSET T' /\ T' \in SUBSET (T \cup {Len(sessions) + 1})
      BY <1>2, <1>3, <1>4 DEF TookOverAfter, Own, new
    <3>3. Cardinality(L') <= Cardinality(L) /\ Cardinality(L') \in Nat
      BY <1>1, <2>1, <3>1, CountFacts
    <3>4. T' \in SUBSET (1..Len(sessions) + 1)
      BY <1>1, <2>1, <3>2
    <3>5. Cardinality(T) <= Cardinality(T') /\ Cardinality(T') \in Nat
      BY <1>1, <3>2, <3>4, CountFacts
    <3> QED BY <2>2, <2>3, <3>3, <3>5
  <2> QED BY <2>4, <2>5
<1> QED BY <1>5, <1>6, <1>7 DEF Inv, NoneLeftAlone

LEMMA InitInv == Init => Inv
<1> SUFFICES ASSUME Init PROVE Inv
  OBVIOUS
<1>1. Len(sessions) = 0 /\ Len(pending) = 0 /\ Ids = {}
  BY DEF Init, Ids
<1>2. Burst \in Nat /\ Burst > 0 /\ Limit \in Nat
  BY IntakeAssumption
<1>3. ASSUME NEW a \in Alerts \ Anonymous
      PROVE  Cardinality(Delivered(a)) + Cardinality(PendingOf(a)) <= Burst
  <2>1. Delivered(a) = {} /\ PendingOf(a) = {}
    BY <1>1 DEF Delivered, ActiveOf, Active, PendingOf
  <2> QED BY <1>2, <2>1, FS_EmptySet
<1>4. LimitExceededOnlyByBurst
  <2>1. {i \in Active : ~sessions[i].extra} = {}
    BY <1>1 DEF Active
  <2>2. Cardinality({i \in Active : ~sessions[i].extra}) = 0
    BY <2>1, FS_EmptySet
  <2>3. Limit > 0 => 0 + 0 <= Limit + Burst - 1
    BY <1>2
  <2> QED BY <1>1, <2>2, <2>3 DEF LimitExceededOnlyByBurst
<1>5. ASSUME NEW a \in Alerts, NEW k \in Nat
      PROVE  Cardinality(LeftFrom(a, k)) <= Cardinality(TookOverAfter(a, k))
  <2>1. LeftFrom(a, k) = {} /\ TookOverAfter(a, k) = {}
    BY <1>1 DEF LeftFrom, TookOverAfter, Left, Own
  <2> QED BY <2>1, FS_EmptySet
<1> QED BY <1>3, <1>4, <1>5 DEF Inv, DuplicatesOnlyInBurst, NoneLeftAlone

LEMMA Invariance == Spec => []Inv
<1>1. TypeOK /\ Inv /\ [Next]_vars => Inv'
  BY Steps, QuietInv, ReceiveInv, StartInv, FallBackInv
<1> QED BY <1>1, InitInv, TypeCorrect, PTL DEF Spec

\* An alert gets no more sessions from deliveries than were asked for at once.
THEOREM DuplicatesBounded == Spec => []DuplicatesOnlyInBurst
<1>1. Inv => DuplicatesOnlyInBurst
  BY DEF Inv
<1> QED BY <1>1, Invariance, PTL

\* Deliveries that wait for the tasks of the one before never open a second
\* session for a fingerprint.
THEOREM OneSessionPerFingerprint ==
    ASSUME Burst = 1
    PROVE  Spec => [](\A a \in Alerts \ Anonymous : \A i, j \in Delivered(a) : i = j)
<1>1. ASSUME TypeOK, DuplicatesOnlyInBurst, NEW a \in Alerts \ Anonymous,
             NEW i \in Delivered(a), NEW j \in Delivered(a)
      PROVE  i = j
  <2>1. Len(sessions) \in Nat /\ Len(pending) \in Nat
    BY <1>1, SequenceFacts
  <2>2. /\ Delivered(a) \in SUBSET (1..Len(sessions))
        /\ PendingOf(a) \in SUBSET (1..Len(pending))
    BY DEF Delivered, ActiveOf, Active, Ids, PendingOf
  <2>3. /\ Cardinality(Delivered(a)) \in Nat /\ Cardinality(PendingOf(a)) \in Nat
        /\ IsFiniteSet(Delivered(a))
    BY <2>1, <2>2, CountFacts
  <2>4. Cardinality(Delivered(a)) + Cardinality(PendingOf(a)) <= 1
    BY <1>1 DEF DuplicatesOnlyInBurst
  <2>5. Cardinality(Delivered(a)) # 0
    BY <2>3, FS_EmptySet
  <2>6. Cardinality(Delivered(a)) = 1
    BY <2>3, <2>4, <2>5
  <2> QED BY <2>3, <2>6, FS_Singleton
<1>2. TypeOK /\ DuplicatesOnlyInBurst
        => \A a \in Alerts \ Anonymous : \A i, j \in Delivered(a) : i = j
  BY <1>1
<1> QED BY <1>2, TypeCorrect, DuplicatesBounded, PTL

\* Deliveries exceed the session limit by less than what is asked for at once.
THEOREM LimitNearlyKept == Spec => []LimitExceededOnlyByBurst
<1>1. Inv => LimitExceededOnlyByBurst
  BY DEF Inv
<1> QED BY <1>1, Invariance, PTL

\* For every session that is left behind, another one took over after it.
THEOREM LeftBehindTakenOver == Spec => []LeftBehindOnlyByFallback
<1>1. Inv /\ TypeOK => LeftBehindOnlyByFallback
  <2> SUFFICES ASSUME Inv, TypeOK, NEW a \in Alerts, NEW i \in Left(a)
               PROVE  Cardinality({j \in Left(a) : j >= i})
                        <= Cardinality({j \in Own(a) : j > i /\ sessions[j].extra})
    BY DEF LeftBehindOnlyByFallback
  <2>1. i \in Nat
    BY SequenceFacts DEF Left, Own, Ids
  <2> QED BY <2>1 DEF Inv, NoneLeftAlone, LeftFrom, TookOverAfter
<1> QED BY <1>1, Invariance, TypeCorrect, PTL
=============================================================================
