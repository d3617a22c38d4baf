------------------------- MODULE Persistence_proofs -------------------------
(***************************************************************************)
(* For any sessions, numbers of transitions and retention periods: the     *)
(* audit log never runs ahead of the table, a row is stale only after      *)
(* overlapping saves or a failure, and a finished session leaves the table *)
(* unless a recent one keeps it there.                                     *)
(***************************************************************************)
EXTENDS Persistence, TLAPS

\* A task saves what it was scheduled for or something newer, and the entry it
\* is about to append is of a transition that was written.
Tracked ==
    \A t \in saves :
        /\ t.version <= session[t.session].version
        /\ t.at = "saving" => t.row.session = t.session /\ t.row.version >= t.version
        /\ t.at = "auditing" => newest[t.session] > t.version

\* Nothing is under way for a session that was not created.
Fresh == \A s \in Sessions : session[s].at = "new" => SavesOf(s) = {}

Inv == Tracked /\ Fresh /\ AuditedWasWritten

-----------------------------------------------------------------------------
(* Types *)

LEMMA InitType == Init => TypeOK
<1> SUFFICES ASSUME Init PROVE TypeOK
  OBVIOUS
<1>1. 0 \in Versions /\ 0 \in Days /\ 0 \in 0..(MaxVersion + 1) /\ 0 \in 0..2
  BY PersistenceAssumption DEF Versions, Days
<1>2. session \in [Sessions -> Memory]
  BY <1>1 DEF Init, Memory
<1>3. newest \in [Sessions -> 0..(MaxVersion + 1)]
  BY <1>1 DEF Init
<1>4. QED
  BY <1>1, <1>2, <1>3 DEF Init, TypeOK

\* What a task does to the saves keeps their type.
LEMMA SaveTypes ==
    ASSUME TypeOK, NEW s \in Sessions, NEW v \in Versions, NEW r \in Row
    PROVE  /\ [session |-> s, version |-> v, at |-> "scheduled"] \in Save
           /\ [session |-> s, version |-> v, at |-> "auditing"] \in Save
           /\ [session |-> s, version |-> v, at |-> "saving", row |-> r] \in Save
  BY DEF Save

LEMMA SaveFacts ==
    ASSUME TypeOK, NEW t \in saves
    PROVE  /\ t.session \in Sessions /\ t.version \in Versions
           /\ t.at \in {"scheduled", "saving", "auditing"}
           /\ t.at = "saving" => t.row \in Row
  BY DEF TypeOK, Save

LEMMA InMemoryType ==
    ASSUME TypeOK, NEW s \in Sessions
    PROVE  InMemory(s) \in Row
  BY DEF TypeOK, InMemory, Memory, Row

\* The upsert: the session has the row that was written, the others have theirs.
LEMMA WriteFacts ==
    ASSUME TypeOK, NEW r \in Row, Write(r)
    PROVE  /\ rows' \subseteq Row
           /\ \A p, q \in rows' : p.session = q.session => p = q
           /\ Saved(r.session)' = {r}
           /\ \A s \in Sessions : s # r.session => Saved(s)' = Saved(s)
           /\ newest' \in [Sessions -> 0..(MaxVersion + 1)]
           /\ newest'[r.session] > r.version
           /\ \A s \in Sessions : newest'[s] >= newest[s]
<1>1. r.session \in Sessions /\ r.version \in 0..MaxVersion
  BY DEF Row, Versions
<1>2. rows' = (rows \ Saved(r.session)) \cup {r}
  BY DEF Write, Written
<1>3. rows' \subseteq Row /\ \A p, q \in rows' : p.session = q.session => p = q
  BY <1>2 DEF TypeOK, Saved
<1>4. /\ Saved(r.session)' = {r}
      /\ \A s \in Sessions : s # r.session => Saved(s)' = Saved(s)
  BY <1>2 DEF Saved
<1> DEFINE n == IF newest[r.session] > r.version THEN newest[r.session] ELSE r.version + 1
<1>5. newest' = [newest EXCEPT ![r.session] = n]
  BY DEF Write
<1>6. newest[r.session] \in 0..(MaxVersion + 1) /\ \A s \in Sessions : newest[s] \in Nat
  BY <1>1, PersistenceAssumption DEF TypeOK
<1>7. n \in 0..(MaxVersion + 1) /\ n > r.version /\ n >= newest[r.session]
  BY <1>1, <1>6, PersistenceAssumption
<1> HIDE DEF n
<1>8. /\ newest' \in [Sessions -> 0..(MaxVersion + 1)]
      /\ newest'[r.session] = n
      /\ \A s \in Sessions : s # r.session => newest'[s] = newest[s]
  BY <1>1, <1>5, <1>7 DEF TypeOK
<1>9. \A s \in Sessions : newest'[s] >= newest[s]
  BY <1>6, <1>7, <1>8
<1>10. QED
  BY <1>3, <1>4, <1>7, <1>8, <1>9

\* A transition counts, and changes no other session.
LEMMA MoveFacts ==
    ASSUME TypeOK, NEW s \in Sessions, NEW over \in BOOLEAN, Move(s, over)
    PROVE  /\ session' \in [Sessions -> Memory]
           /\ session[s].version + 1 \in Versions
           /\ session'[s].version = session[s].version + 1
           /\ session'[s].at = "here"
           /\ \A u \in Sessions : u # s => session'[u] = session[u]
<1>1. session[s] \in Memory /\ now \in Days
  BY DEF TypeOK
<1>2. session[s].version \in 0..MaxVersion /\ session[s].version < MaxVersion
  BY <1>1 DEF Memory, Versions, Move
<1>3. session[s].version + 1 \in Versions
  BY <1>2, PersistenceAssumption DEF Versions
<1> DEFINE m == [at |-> "here", version |-> session[s].version + 1,
                 over |-> over, updated |-> now]
<1>4. m \in Memory
  BY <1>1, <1>3 DEF Memory
<1>5. session' = [session EXCEPT ![s] = m]
  BY DEF Move
<1> HIDE DEF m
<1>6. /\ session' \in [Sessions -> Memory]
      /\ session'[s] = m
      /\ \A u \in Sessions : u # s => session'[u] = session[u]
  BY <1>4, <1>5 DEF TypeOK
<1>7. QED
  BY <1>3, <1>6 DEF m

LEMMA StepType ==
    ASSUME TypeOK, [Next]_vars
    PROVE  TypeOK'
<1>1. 0 \in Versions
  BY PersistenceAssumption DEF Versions
<1>2. ASSUME NEW s \in Sessions, Create(s)
      PROVE  TypeOK'
  <2>1. session' \in [Sessions -> Memory]
    BY <1>1, <1>2 DEF Create, Memory, TypeOK
  <2>2. [session |-> s, version |-> 0, at |-> "scheduled"] \in Save
    BY <1>1 DEF Save
  <2>3. saves' \subseteq Save
    BY <1>2, <2>2 DEF Create, Schedule, TypeOK
  <2>4. QED
    BY <1>2, <2>1, <2>3 DEF Create, TypeOK
<1>3. ASSUME NEW s \in Sessions, NEW over \in BOOLEAN, Move(s, over)
      PROVE  TypeOK'
  <2>1. [session |-> s, version |-> session[s].version + 1, at |-> "scheduled"] \in Save
    BY <1>3, MoveFacts DEF Save
  <2>2. saves' \subseteq Save
    BY <1>3, <2>1 DEF Move, Schedule, TypeOK
  <2>3. QED
    BY <1>3, <2>2, MoveFacts DEF Move, TypeOK
<1>4. ASSUME NEW t \in saves, Serialize(t)
      PROVE  TypeOK'
  <2>1. [session |-> t.session, version |-> t.version, at |-> "saving",
         row |-> InMemory(t.session)] \in Save
    BY SaveFacts, InMemoryType DEF Save
  <2>2. saves' \subseteq Save
    BY <1>4, <2>1 DEF Serialize, Step, TypeOK
  <2>3. overlapped' \subseteq Sessions
    BY <1>4, SaveFacts DEF Serialize, TypeOK
  <2>4. QED
    BY <1>4, <2>2, <2>3 DEF Serialize, TypeOK
<1>5. ASSUME NEW t \in saves, Upsert(t)
      PROVE  TypeOK'
  <2>1. t.row \in Row /\ Write(t.row)
    BY <1>5, SaveFacts DEF Upsert
  <2>2. [session |-> t.session, version |-> t.version, at |-> "auditing"] \in Save
    BY SaveFacts DEF Save
  <2>3. saves' \subseteq Save
    BY <1>5, <2>2 DEF Upsert, Step, TypeOK
  <2>4. QED
    BY <1>5, <2>1, <2>3, WriteFacts DEF Upsert, TypeOK
<1>6. ASSUME NEW t \in saves, UpsertFails(t)
      PROVE  TypeOK'
  <2>1. CASE Write(t.row)
    <3>1. t.row \in Row
      BY <1>6, SaveFacts DEF UpsertFails
    <3>2. QED
      BY <1>6, <2>1, <3>1, WriteFacts DEF UpsertFails, TypeOK
  <2>2. CASE UNCHANGED <<rows, newest>>
    BY <1>6, <2>2 DEF UpsertFails, TypeOK
  <2>3. QED
    BY <1>6, <2>1, <2>2 DEF UpsertFails
<1>7. ASSUME NEW t \in saves, Audit(t) \/ AuditFails(t)
      PROVE  TypeOK'
  <2>1. [session |-> t.session, version |-> t.version, day |-> now] \in Entry
    BY SaveFacts DEF Entry, TypeOK
  <2>2. audit' \subseteq Entry
    BY <1>7, <2>1 DEF Audit, AuditFails, TypeOK
  <2>3. QED
    BY <1>7, <2>2 DEF Audit, AuditFails, TypeOK
<1>8. CASE Crash
  <2>1. \A s \in Sessions : [session[s] EXCEPT !.at = "lost"] \in Memory
    BY DEF TypeOK, Memory
  <2>2. session' \in [Sessions -> Memory]
    BY <1>8, <2>1 DEF Crash, TypeOK
  <2>3. QED
    BY <1>8, <2>2 DEF Crash, TypeOK
<1>9. CASE StartCleanup
  BY <1>9 DEF StartCleanup, TypeOK
<1>10. CASE PruneSessions
  <2>1. rows' \subseteq rows /\ sweeps' \in 0..2
    BY <1>10 DEF PruneSessions, TypeOK
  <2>2. QED
    BY <1>10, <2>1 DEF PruneSessions, TypeOK
<1>11. CASE PruneAudit
  <2>1. audit' \subseteq audit /\ sweeps' \in 0..2
    BY <1>11 DEF PruneAudit, Kept, TypeOK
  <2>2. QED
    BY <1>11, <2>1 DEF PruneAudit, TypeOK
<1>12. CASE Tick
  <2>1. now' \in Days /\ sweeps' \in 0..2
    BY <1>12, PersistenceAssumption DEF Tick, TypeOK, Days
  <2>2. QED
    BY <1>12, <2>1 DEF Tick, TypeOK
<1>13. CASE UNCHANGED vars
  BY <1>13 DEF vars, TypeOK
<1>14. QED
  BY <1>2, <1>3, <1>4, <1>5, <1>6, <1>7, <1>8, <1>9, <1>10, <1>11, <1>12, <1>13
     DEF Next, Saving

\* The types, with one row at most for a session.
THEOREM TypeCorrect == Spec => []TypeOK
<1>1. TypeOK /\ [Next]_vars => TypeOK'
  BY StepType
<1>2. QED
  BY <1>1, InitType, PTL DEF Spec

-----------------------------------------------------------------------------
(* The audit log *)

LEMMA InitInv == Init => Inv
  BY DEF Init, Inv, Tracked, Fresh, AuditedWasWritten, SavesOf

\* Versions and histories are numbers.
LEMMA Numbers ==
    ASSUME TypeOK
    PROVE  /\ \A s \in Sessions : session[s].version \in Nat /\ newest[s] \in Nat
           /\ \A t \in saves : t.version \in Nat /\ t.session \in Sessions
           /\ \A t \in saves : t.at = "saving" => t.row.version \in Nat
           /\ \A e \in audit : e.version \in Nat /\ e.session \in Sessions
<1>1. Versions \subseteq Nat /\ 0..(MaxVersion + 1) \subseteq Nat
  BY DEF Versions
<1>2. \A s \in Sessions : session[s].version \in Nat /\ newest[s] \in Nat
  BY <1>1 DEF TypeOK, Memory
<1>3. \A t \in saves : t.version \in Nat /\ t.session \in Sessions
  BY <1>1, SaveFacts
<1>4. \A t \in saves : t.at = "saving" => t.row.version \in Nat
  BY <1>1, SaveFacts DEF Row
<1>5. \A e \in audit : e.version \in Nat /\ e.session \in Sessions
  BY <1>1 DEF TypeOK, Entry
<1>6. QED
  BY <1>2, <1>3, <1>4, <1>5

\* A step that starts no task, moves none on and appends nothing to the log,
\* while sessions and the table only go forward.
LEMMA QuietKeepsInv ==
    ASSUME TypeOK, TypeOK', Inv, saves' \subseteq saves, audit' \subseteq audit,
           \A s \in Sessions :
               /\ session'[s].version >= session[s].version
               /\ session'[s].at = "new" => session[s].at = "new"
               /\ newest'[s] >= newest[s]
    PROVE  Inv'
<1>1. /\ \A s \in Sessions : /\ session[s].version \in Nat /\ newest[s] \in Nat
                             /\ session'[s].version \in Nat /\ newest'[s] \in Nat
      /\ \A t \in saves : t.version \in Nat /\ t.session \in Sessions
      /\ \A e \in audit : e.version \in Nat /\ e.session \in Sessions
  BY Numbers DEF TypeOK, Memory, Versions
<1>2. Tracked'
  BY <1>1 DEF Inv, Tracked
<1>3. Fresh'
  BY DEF Inv, Fresh, SavesOf
<1>4. AuditedWasWritten'
  BY <1>1 DEF Inv, AuditedWasWritten
<1>5. QED
  BY <1>2, <1>3, <1>4 DEF Inv

\* A new task, for a session that goes forward.
LEMMA ScheduleKeepsInv ==
    ASSUME TypeOK, TypeOK', Inv, NEW s \in Sessions, NEW v \in Versions,
           Schedule(s, v), UNCHANGED <<audit, newest>>,
           session'[s].version = v, session'[s].at = "here",
           SavesOf(s) = {} \/ v >= session[s].version,
           \A u \in Sessions : u # s => session'[u] = session[u]
    PROVE  Inv'
<1>1. v \in Nat
  BY DEF Versions
<1>2. Tracked'
  <2>1. ASSUME NEW t \in saves
        PROVE  t.version <= session'[t.session].version
    <3>1. CASE t.session # s
      BY <2>1, <3>1, Numbers DEF Inv, Tracked
    <3>2. CASE t.session = s
      BY <1>1, <2>1, <3>2, Numbers DEF Inv, Tracked, SavesOf
    <3>3. QED
      BY <3>1, <3>2
  <2>2. ASSUME NEW t \in saves', t \notin saves
        PROVE  t = [session |-> s, version |-> v, at |-> "scheduled"]
    BY <2>2 DEF Schedule
  <2>3. \A t \in saves' : t.version <= session'[t.session].version
    BY <1>1, <2>1, <2>2
  <2>4. \A t \in saves' : t \in saves \/ t.at = "scheduled"
    BY <2>2
  <2>5. QED
    BY <2>3, <2>4 DEF Inv, Tracked
<1>3. Fresh'
  BY DEF Inv, Fresh, SavesOf, Schedule
<1>4. AuditedWasWritten'
  BY DEF Inv, AuditedWasWritten
<1>5. QED
  BY <1>2, <1>3, <1>4 DEF Inv

\* A task that goes on to its next step, perhaps having written.
LEMMA StepKeepsInv ==
    ASSUME TypeOK, TypeOK', Inv, NEW t \in saves, NEW n \in Save, Step(t, n),
           n.session = t.session, n.version = t.version,
           n.at = "saving" => n.row.session = n.session /\ n.row.version >= n.version,
           n.at = "auditing" => newest'[n.session] > n.version,
           UNCHANGED <<session, audit>>,
           \A s \in Sessions : newest'[s] >= newest[s]
    PROVE  Inv'
<1>1. /\ \A s \in Sessions : newest[s] \in Nat /\ newest'[s] \in Nat
      /\ \A u \in saves : u.version \in Nat /\ u.session \in Sessions
      /\ \A e \in audit : e.version \in Nat /\ e.session \in Sessions
  BY Numbers DEF TypeOK
<1>2. \A u \in saves' : u \in saves \/ u = n
  BY DEF Step
<1>3. Tracked'
  <2>1. ASSUME NEW u \in saves, u.at = "auditing"
        PROVE  newest'[u.session] > u.version
    BY <1>1, <2>1 DEF Inv, Tracked
  <2>2. QED
    BY <1>2, <2>1 DEF Inv, Tracked
<1>4. Fresh'
  BY <1>2 DEF Inv, Fresh, SavesOf
<1>5. AuditedWasWritten'
  BY <1>1 DEF Inv, AuditedWasWritten
<1>6. QED
  BY <1>3, <1>4, <1>5 DEF Inv

\* Every step keeps the invariant.
LEMMA StepInv ==
    ASSUME TypeOK, Inv, [Next]_vars
    PROVE  Inv'
<1>1. TypeOK'
  BY StepType
<1>2. \A s \in Sessions : session[s].version \in Nat /\ newest[s] \in Nat
  BY Numbers
<1>3. ASSUME session' = session, newest' = newest, saves' \subseteq saves,
             audit' \subseteq audit
      PROVE  Inv'
  BY <1>1, <1>2, <1>3, QuietKeepsInv
<1>4. ASSUME NEW s \in Sessions, Create(s)
      PROVE  Inv'
  <2>1. 0 \in Versions
    BY PersistenceAssumption DEF Versions
  <2>2. /\ Schedule(s, 0) /\ UNCHANGED <<audit, newest>>
        /\ session'[s].version = 0 /\ session'[s].at = "here"
        /\ \A u \in Sessions : u # s => session'[u] = session[u]
    BY <1>4 DEF Create, TypeOK
  <2>3. SavesOf(s) = {}
    BY <1>4 DEF Create, Inv, Fresh
  <2>4. QED
    BY <1>1, <2>1, <2>2, <2>3, ScheduleKeepsInv
<1>5. ASSUME NEW s \in Sessions, NEW over \in BOOLEAN, Move(s, over)
      PROVE  Inv'
  <2> DEFINE v == session[s].version + 1
  <2>1. /\ v \in Versions /\ session'[s].version = v /\ session'[s].at = "here"
        /\ \A u \in Sessions : u # s => session'[u] = session[u]
    BY <1>5, MoveFacts
  <2>2. v >= session[s].version
    BY <1>2
  <2>3. Schedule(s, v) /\ UNCHANGED <<audit, newest>>
    BY <1>5 DEF Move
  <2> HIDE DEF v
  <2>4. QED
    BY <1>1, <2>1, <2>2, <2>3, ScheduleKeepsInv
<1>6. ASSUME NEW t \in saves, Serialize(t)
      PROVE  Inv'
  <2> DEFINE n == [session |-> t.session, version |-> t.version, at |-> "saving",
                   row |-> InMemory(t.session)]
  <2>1. n \in Save
    BY SaveFacts, InMemoryType, SaveTypes
  <2>2. Step(t, n) /\ UNCHANGED <<session, audit, newest>>
    BY <1>6 DEF Serialize
  <2>3. n.row.session = n.session /\ n.row.version >= n.version
    BY <1>2, SaveFacts, Numbers DEF Inv, Tracked, InMemory
  <2>4. n.session = t.session /\ n.version = t.version /\ n.at = "saving"
    OBVIOUS
  <2> HIDE DEF n
  <2>5. \A s \in Sessions : newest'[s] >= newest[s]
    BY <1>2, <2>2
  <2>6. QED
    BY <1>1, <2>1, <2>2, <2>3, <2>4, <2>5, StepKeepsInv
<1>7. ASSUME NEW t \in saves, Upsert(t)
      PROVE  Inv'
  <2> DEFINE n == [session |-> t.session, version |-> t.version, at |-> "auditing"]
  <2>1. n \in Save
    BY SaveFacts DEF Save
  <2>2. Step(t, n) /\ UNCHANGED <<session, audit>>
    BY <1>7 DEF Upsert
  <2>3. n.session = t.session /\ n.version = t.version /\ n.at = "auditing"
    OBVIOUS
  <2> HIDE DEF n
  <2>4. t.row \in Row /\ Write(t.row)
    BY <1>7, SaveFacts DEF Upsert
  <2>5. /\ newest'[t.row.session] > t.row.version
        /\ \A s \in Sessions : newest'[s] >= newest[s]
    BY <2>4, WriteFacts
  <2>6. t.row.session = t.session /\ t.row.version >= t.version
    BY <1>7 DEF Upsert, Inv, Tracked
  <2>7. newest'[n.session] > n.version
    <3>1. newest'[t.session] \in Nat /\ t.version \in Nat /\ t.row.version \in Nat
      BY <1>1, <1>7, Numbers DEF TypeOK, Upsert
    <3>2. newest'[t.session] > t.row.version
      BY <2>5, <2>6
    <3>3. QED
      BY <2>3, <2>6, <3>1, <3>2
  <2>8. QED
    BY <1>1, <2>1, <2>2, <2>3, <2>5, <2>7, StepKeepsInv
<1>8. ASSUME NEW t \in saves, UpsertFails(t)
      PROVE  Inv'
  <2>1. CASE UNCHANGED <<rows, newest>>
    BY <1>3, <1>8, <2>1 DEF UpsertFails
  <2>2. CASE Write(t.row)
    <3>1. \A s \in Sessions : newest'[s] >= newest[s]
      BY <1>8, <2>2, SaveFacts, WriteFacts DEF UpsertFails
    <3>2. session' = session /\ audit' = audit /\ saves' \subseteq saves
      BY <1>8 DEF UpsertFails
    <3>3. QED
      BY <1>1, <1>2, <3>1, <3>2, QuietKeepsInv
  <2>3. QED
    BY <1>8, <2>1, <2>2 DEF UpsertFails
<1>9. ASSUME NEW t \in saves, Audit(t) \/ AuditFails(t)
      PROVE  Inv'
  <2>1. newest[t.session] > t.version
    BY <1>9 DEF Audit, AuditFails, Inv, Tracked
  <2>2. AuditedWasWritten'
    BY <1>9, <2>1 DEF Audit, AuditFails, Inv, AuditedWasWritten
  <2>3. Tracked' /\ Fresh'
    BY <1>9 DEF Audit, AuditFails, Inv, Tracked, Fresh, SavesOf
  <2>4. QED
    BY <2>2, <2>3 DEF Inv
<1>10. CASE Crash
  <2>1. \A s \in Sessions : session'[s].version = session[s].version
    BY <1>10 DEF Crash, TypeOK, Memory
  <2>2. \A s \in Sessions : session'[s].at = "new" => session[s].at = "new"
    BY <1>10 DEF Crash, TypeOK, Memory
  <2>3. saves' \subseteq saves /\ audit' = audit /\ newest' = newest
    BY <1>10 DEF Crash
  <2>4. QED
    BY <1>1, <1>2, <2>1, <2>2, <2>3, QuietKeepsInv
<1>11. CASE StartCleanup \/ PruneSessions \/ PruneAudit \/ Tick \/ UNCHANGED vars
  BY <1>3, <1>11 DEF StartCleanup, PruneSessions, PruneAudit, Kept, Tick, vars
<1>12. QED
  BY <1>4, <1>5, <1>6, <1>7, <1>8, <1>9, <1>10, <1>11 DEF Next, Saving

LEMMA Invariance == Spec => []Inv
<1>1. TypeOK /\ Inv /\ [Next]_vars => Inv'
  BY StepInv
<1>2. QED
  BY <1>1, InitInv, TypeCorrect, PTL DEF Spec

\* Whichever saves overtake each other or fail, an entry in the audit log is of
\* a transition the table has seen.
THEOREM AuditNeverAhead == Spec => []AuditedWasWritten
<1>1. Inv => AuditedWasWritten
  BY DEF Inv
<1>2. QED
  BY <1>1, Invariance, PTL

-----------------------------------------------------------------------------
(* The table *)

\* No two saves of the session are on their way.
Alone(s) == \A t, u \in SavesOf(s) : t.at = "saving" /\ u.at = "saving" => t = u

\* A save of the session as it is now is on its way, or is going to be.
Pending(s) ==
    \E t \in SavesOf(s) :
        t.at = "scheduled" \/ (t.at = "saving" /\ t.row = InMemory(s))

InTable(s) == Saved(s) = {InMemory(s)} \/ (Saved(s) = {} /\ session[s].over)

Settled(s) == InTable(s) /\ \A t \in SavesOf(s) : t.at # "saving"

Undisturbed(s) == session[s].at = "here" /\ s \notin overlapped /\ ~lossy

Watch(s) == Undisturbed(s) => Alone(s) /\ (Pending(s) \/ Settled(s))

Watched == \A s \in Sessions : Watch(s)

\* A session is watched as before if nothing happens to it.
LEMMA ElsewhereWatched ==
    ASSUME NEW s \in Sessions, Watch(s), session'[s] = session[s],
           SavesOf(s)' = SavesOf(s), Saved(s)' = Saved(s),
           overlapped \subseteq overlapped', lossy' = lossy
    PROVE  Watch(s)'
<1>1. InMemory(s)' = InMemory(s)
  BY DEF InMemory
<1>2. Undisturbed(s)' => Undisturbed(s)
  BY DEF Undisturbed
<1>3. Alone(s) => Alone(s)'
  BY DEF Alone
<1>4. Pending(s) => Pending(s)'
  BY <1>1 DEF Pending
<1>5. Settled(s) => Settled(s)'
  BY <1>1 DEF Settled, InTable
<1>6. QED
  BY <1>2, <1>3, <1>4, <1>5 DEF Watch

\* A task that goes on, or is new or over, is none of another session.
LEMMA SavesElsewhere ==
    ASSUME NEW s, NEW t, NEW n, t.session # s, n.session # s
    PROVE  /\ Step(t, n) => SavesOf(s)' = SavesOf(s)
           /\ saves' = saves \ {t} => SavesOf(s)' = SavesOf(s)
  BY DEF Step, SavesOf

\* A newly scheduled save will write the session as it is then.
LEMMA ScheduledWatched ==
    ASSUME NEW s \in Sessions, NEW v, Schedule(s, v), Alone(s)
    PROVE  Watch(s)'
<1> DEFINE n == [session |-> s, version |-> v, at |-> "scheduled"]
<1>1. n.session = s /\ n.at = "scheduled"
  OBVIOUS
<1>2. saves' = saves \cup {n}
  BY DEF Schedule
<1> HIDE DEF n
<1>3. SavesOf(s)' = SavesOf(s) \cup {n}
  BY <1>1, <1>2 DEF SavesOf
<1>4. Alone(s)' /\ Pending(s)'
  BY <1>1, <1>3 DEF Alone, Pending
<1>5. QED
  BY <1>4 DEF Watch

LEMMA ScheduledElsewhere ==
    ASSUME NEW s, NEW u, NEW v, Schedule(u, v), u # s
    PROVE  SavesOf(s)' = SavesOf(s)
  BY DEF Schedule, SavesOf

LEMMA StepWatched ==
    ASSUME TypeOK, Inv, Watched, [Next]_vars, NEW s \in Sessions
    PROVE  Watch(s)'
<1>1. Watch(s)
  BY DEF Watched
<1>2. ASSUME NEW u \in Sessions, Create(u)
      PROVE  Watch(s)'
  <2>1. CASE u = s
    <3>1. SavesOf(s) = {}
      BY <1>2, <2>1 DEF Create, Inv, Fresh
    <3>2. Alone(s)
      BY <3>1 DEF Alone
    <3>3. QED
      BY <1>2, <2>1, <3>2, ScheduledWatched DEF Create
  <2>2. CASE u # s
    <3>1. session'[s] = session[s] /\ Saved(s)' = Saved(s)
      BY <1>2, <2>2 DEF Create, TypeOK, Saved
    <3>2. Schedule(u, 0) /\ UNCHANGED <<overlapped, lossy>>
      BY <1>2 DEF Create
    <3>3. SavesOf(s)' = SavesOf(s)
      BY <2>2, <3>2, ScheduledElsewhere
    <3>4. QED
      BY <1>1, <3>1, <3>2, <3>3, ElsewhereWatched
  <2>3. QED
    BY <2>1, <2>2
<1>3. ASSUME NEW u \in Sessions, NEW over \in BOOLEAN, Move(u, over)
      PROVE  Watch(s)'
  <2>1. Schedule(u, session[u].version + 1) /\ UNCHANGED <<rows, overlapped, lossy>>
    BY <1>3 DEF Move
  <2>2. CASE u = s
    <3>1. Undisturbed(s)' => Undisturbed(s)
      BY <1>3, <2>1, <2>2 DEF Undisturbed, Move
    <3>2. Undisturbed(s)' => Alone(s)
      BY <1>1, <3>1 DEF Watch
    <3>3. Alone(s) => Watch(s)'
      BY <2>1, <2>2, ScheduledWatched
    <3>4. QED
      BY <3>2, <3>3 DEF Watch
  <2>3. CASE u # s
    <3>1. session'[s] = session[s]
      BY <1>3, <2>3, MoveFacts
    <3>2. Saved(s)' = Saved(s)
      BY <2>1 DEF Saved
    <3>3. SavesOf(s)' = SavesOf(s)
      BY <2>1, <2>3, ScheduledElsewhere
    <3>4. QED
      BY <1>1, <2>1, <3>1, <3>2, <3>3, ElsewhereWatched
  <2>4. QED
    BY <2>2, <2>3
<1>4. ASSUME NEW t \in saves, Serialize(t)
      PROVE  Watch(s)'
  <2> DEFINE n == [session |-> t.session, version |-> t.version, at |-> "saving",
                   row |-> InMemory(t.session)]
  <2>1. Step(t, n) /\ session' = session /\ rows' = rows /\ lossy' = lossy
    BY <1>4 DEF Serialize
  <2>2. n.session = t.session /\ n.at = "saving" /\ n.row = InMemory(t.session)
    OBVIOUS
  <2> HIDE DEF n
  <2>3. InMemory(s)' = InMemory(s) /\ Saved(s)' = Saved(s)
    BY <2>1 DEF InMemory, Saved
  <2>4. overlapped \subseteq overlapped'
    BY <1>4 DEF Serialize
  <2>5. CASE t.session # s
    BY <1>1, <2>1, <2>2, <2>3, <2>4, <2>5, SavesElsewhere, ElsewhereWatched
  <2>6. CASE t.session = s
    <3>1. SUFFICES ASSUME Undisturbed(s)'
                   PROVE  Alone(s)' /\ Pending(s)'
      BY DEF Watch
    <3>2. \A u \in SavesOf(s) : u.at # "saving"
      BY <1>4, <2>6, <3>1 DEF Serialize, Undisturbed
    <3>3. SavesOf(s)' = (SavesOf(s) \ {t}) \cup {n}
      BY <2>1, <2>2, <2>6 DEF Step, SavesOf
    <3>4. Alone(s)'
      BY <3>2, <3>3 DEF Alone
    <3>5. Pending(s)'
      BY <2>2, <2>3, <2>6, <3>3 DEF Pending
    <3>6. QED
      BY <3>4, <3>5
  <2>7. QED
    BY <2>5, <2>6
<1>5. ASSUME NEW t \in saves, Upsert(t)
      PROVE  Watch(s)'
  <2> DEFINE n == [session |-> t.session, version |-> t.version, at |-> "auditing"]
  <2>1. /\ Step(t, n) /\ session' = session
        /\ overlapped' = overlapped /\ lossy' = lossy
    BY <1>5 DEF Upsert
  <2>2. n.session = t.session /\ n.at = "auditing"
    OBVIOUS
  <2> HIDE DEF n
  <2>3. t.at = "saving" /\ t.row \in Row /\ Write(t.row)
    BY <1>5, SaveFacts DEF Upsert
  <2>4. t.row.session = t.session
    BY <2>3 DEF Inv, Tracked
  <2>5. /\ Saved(t.session)' = {t.row}
        /\ s # t.session => Saved(s)' = Saved(s)
    BY <2>3, <2>4, WriteFacts
  <2>6. InMemory(s)' = InMemory(s)
    BY <2>1 DEF InMemory
  <2>7. CASE t.session # s
    BY <1>1, <2>1, <2>2, <2>5, <2>7, SavesElsewhere, ElsewhereWatched
  <2>8. CASE t.session = s
    <3>1. SUFFICES ASSUME Undisturbed(s)'
                   PROVE  Alone(s)' /\ (Pending(s)' \/ Settled(s)')
      BY DEF Watch
    <3>2. t \in SavesOf(s)
      BY <2>8 DEF SavesOf
    <3>3. SavesOf(s)' = (SavesOf(s) \ {t}) \cup {n}
      BY <2>1, <2>2, <2>8 DEF Step, SavesOf
    <3>4. Alone(s) /\ (Pending(s) \/ Settled(s))
      BY <1>1, <2>1, <3>1 DEF Watch, Undisturbed
    <3>5. \A u \in SavesOf(s)' : u.at # "saving"
      BY <2>2, <2>3, <3>2, <3>3, <3>4 DEF Alone
    <3>6. Alone(s)'
      BY <3>5 DEF Alone
    <3>7. PICK u \in SavesOf(s) : \/ u.at = "scheduled"
                                  \/ u.at = "saving" /\ u.row = InMemory(s)
      BY <2>3, <3>2, <3>4 DEF Pending, Settled
    <3>8. CASE u.at = "scheduled"
      <4>1. u \in SavesOf(s)'
        BY <2>3, <3>3, <3>8
      <4>2. QED
        BY <3>6, <3>8, <4>1 DEF Pending
    <3>9. CASE u.at = "saving" /\ u.row = InMemory(s)
      <4>1. u = t
        BY <2>3, <3>2, <3>4, <3>9 DEF Alone
      <4>2. Saved(s)' = {InMemory(s)'}
        BY <2>5, <2>6, <2>8, <3>9, <4>1
      <4>3. QED
        BY <3>5, <3>6, <4>2 DEF Settled, InTable
    <3>10. QED
      BY <3>7, <3>8, <3>9
  <2>9. QED
    BY <2>7, <2>8
<1>6. ASSUME NEW t \in saves, Audit(t)
      PROVE  Watch(s)'
  <2>1. /\ t.at = "auditing" /\ saves' = saves \ {t} /\ session' = session
        /\ rows' = rows /\ overlapped' = overlapped /\ lossy' = lossy
    BY <1>6 DEF Audit
  <2>2. InMemory(s)' = InMemory(s) /\ Saved(s)' = Saved(s)
    BY <2>1 DEF InMemory, Saved
  <2>3. SavesOf(s)' = SavesOf(s) \ {t}
    BY <2>1 DEF SavesOf
  <2>4. Alone(s) => Alone(s)'
    BY <2>3 DEF Alone
  <2>5. Pending(s) => Pending(s)'
    BY <2>1, <2>2, <2>3 DEF Pending
  <2>6. Settled(s) => Settled(s)'
    BY <2>1, <2>2, <2>3 DEF Settled, InTable
  <2>7. QED
    BY <1>1, <2>1, <2>4, <2>5, <2>6 DEF Watch, Undisturbed
<1>7. ASSUME lossy'
      PROVE  Watch(s)'
  BY <1>7 DEF Watch, Undisturbed
<1>8. CASE PruneSessions
  <2>1. /\ saves' = saves /\ session' = session
        /\ overlapped' = overlapped /\ lossy' = lossy
    BY <1>8 DEF PruneSessions
  <2>2. InMemory(s)' = InMemory(s) /\ SavesOf(s)' = SavesOf(s)
    BY <2>1 DEF InMemory, SavesOf
  <2>3. rows' = rows \/ rows' = rows \ Expired
    BY <1>8 DEF PruneSessions
  <2>4. ASSUME InTable(s)
        PROVE  InTable(s)'
    <3>1. InMemory(s).over = session[s].over
      BY DEF InMemory
    <3>2. \/ Saved(s)' = Saved(s)
          \/ Saved(s)' = {} /\ (Saved(s) = {InMemory(s)} => InMemory(s).over)
      BY <2>3, <2>4 DEF InTable, Saved, Expired
    <3>3. QED
      BY <2>1, <2>2, <2>4, <3>1, <3>2 DEF InTable
  <2>5. (Alone(s) => Alone(s)') /\ (Pending(s) => Pending(s)')
    BY <2>2 DEF Alone, Pending
  <2>6. QED
    BY <1>1, <2>1, <2>2, <2>4, <2>5 DEF Watch, Undisturbed, Settled
<1>9. ASSUME UNCHANGED <<session, saves, rows, overlapped, lossy>>
      PROVE  Watch(s)'
  BY <1>1, <1>9, ElsewhereWatched DEF SavesOf, Saved
<1>10. ASSUME NEW t \in saves, UpsertFails(t) \/ AuditFails(t)
       PROVE  Watch(s)'
  BY <1>7, <1>10 DEF UpsertFails, AuditFails
<1>11. CASE Crash
  BY <1>7, <1>11 DEF Crash
<1>12. CASE StartCleanup \/ PruneAudit \/ Tick \/ UNCHANGED vars
  BY <1>9, <1>12 DEF StartCleanup, PruneAudit, Tick, vars
<1>13. QED
  BY <1>2, <1>3, <1>4, <1>5, <1>6, <1>8, <1>10, <1>11, <1>12 DEF Next, Saving

\* Unless two saves of it were on their way at once, a statement failed or the
\* process stopped, a session of which the saves are done is in the table as it
\* is in memory, or was pruned.
THEOREM StaleOnlyByOverlapAlways == Spec => []StaleOnlyByOverlap
<1>1. Init => Watched
  BY DEF Init, Watched, Watch, Undisturbed
<1>2. TypeOK /\ Inv /\ Watched /\ [Next]_vars => Watched'
  BY StepWatched DEF Watched
<1>3. Watched => StaleOnlyByOverlap
  <2> SUFFICES ASSUME Watched, NEW s \in Sessions, session[s].at = "here",
                      SavesOf(s) = {}, s \notin overlapped, ~lossy
               PROVE  InTable(s)
    BY DEF StaleOnlyByOverlap, InTable
  <2>1. Undisturbed(s)
    BY DEF Undisturbed
  <2>2. Settled(s)
    BY <2>1 DEF Watched, Watch, Pending
  <2>3. QED
    BY <2>2 DEF Settled
<1>4. QED
  BY <1>1, <1>2, <1>3, TypeCorrect, Invariance, PTL DEF Spec

-----------------------------------------------------------------------------
(* Retention *)

\* A task that saves a session finishes on the day of the transition, so an
\* entry is no younger than the row it refers to; a cleanup without an outage
\* leaves no old entry, and the next one no expired row, unless an entry of
\* another expired row hinders it: one that is not old, nor is that row.
Today ==
    \A t \in saves :
        /\ session[t.session].updated = now
        /\ t.at = "saving" => t.row.session = t.session /\ t.row.updated = now
        /\ t.at = "auditing" => \A r \in Saved(t.session) : r.updated = now

Younger ==
    /\ \A r \in rows : r.updated <= now
    /\ \A e \in audit : e.day <= now /\ \A r \in Saved(e.session) : e.day <= r.updated

Held(r) ==
    /\ SessionRetention < AuditRetention
    /\ \E q \in rows : q.session # r.session /\ ~Old(q.updated, AuditRetention)

OnlyHeld == \A r \in Expired : Old(r.updated, AuditRetention) => Held(r)

Swept ==
    /\ sweeps >= 1 => \A e \in audit : ~Old(e.day, AuditRetention)
    /\ sweeps = 2 \/ (sweeps = 1 /\ cleanup = "audit") => OnlyHeld
    /\ NoneOutlivesItsAudit

Retained == Today /\ Younger /\ Swept

\* No row goes, but rows of today may come or replace others.
RowsOfToday ==
    /\ \A r \in rows' : r \in rows \/ r.updated = now
    /\ \A q \in rows : \E p \in rows' : p.session = q.session /\ (p = q \/ p.updated = now)

LEMMA RetentionTypes ==
    ASSUME TypeOK
    PROVE  /\ now \in Nat /\ \A r \in rows : r.updated \in Nat
           /\ \A e \in audit : e.day \in Nat
           /\ SessionRetention \in Nat \ {0} /\ AuditRetention \in Nat \ {0}
  BY PersistenceAssumption DEF TypeOK, Row, Entry, Days

LEMMA HeldKept ==
    ASSUME TypeOK, NEW r, Held(r), RowsOfToday, UNCHANGED now
    PROVE  Held(r)'
<1> USE RetentionTypes
<1>1. PICK q \in rows : q.session # r.session /\ ~Old(q.updated, AuditRetention)
  BY DEF Held
<1>2. PICK p \in rows' : p.session = q.session /\ (p = q \/ p.updated = now)
  BY DEF RowsOfToday
<1>3. ~Old(p.updated, AuditRetention)'
  BY <1>1, <1>2 DEF Old
<1>4. QED
  BY <1>1, <1>2, <1>3 DEF Held

\* Swept does not notice rows and entries of today.
LEMMA SweptKept ==
    ASSUME TypeOK, Swept, UNCHANGED <<now, sweeps>>, RowsOfToday,
           \A e \in audit' : e \in audit \/ e.day = now,
           cleanup' = cleanup \/ (cleanup' # "audit" /\ sweeps # 2)
    PROVE  Swept'
<1> USE RetentionTypes
<1>1. sweeps' >= 1 => \A e \in audit' : ~Old(e.day, AuditRetention)'
  BY DEF Swept, Old
<1>2. ASSUME OnlyHeld
      PROVE  OnlyHeld'
  <2> SUFFICES ASSUME NEW r \in Expired', Old(r.updated, AuditRetention)'
               PROVE  Held(r)'
    BY DEF OnlyHeld
  <2>1. r \in rows' /\ r.over /\ r.updated + SessionRetention < now
    BY DEF Expired, Old
  <2>2. r \in rows
    BY <2>1 DEF RowsOfToday
  <2>3. Held(r)
    BY <1>2, <2>1, <2>2 DEF OnlyHeld, Expired, Old
  <2>4. QED
    BY <2>3, HeldKept
<1>3. (sweeps = 2 \/ (sweeps = 1 /\ cleanup = "audit"))' => OnlyHeld'
  BY <1>2 DEF Swept
<1>4. NoneOutlivesItsAudit'
  <2> SUFFICES ASSUME NEW r \in rows', r.over,
                      r.updated + Larger(SessionRetention, AuditRetention) + 1 < now
               PROVE  /\ SessionRetention < AuditRetention
                      /\ \E q \in rows' : /\ q.session # r.session
                                         /\ q.updated + AuditRetention + 1 >= now
    BY DEF NoneOutlivesItsAudit
  <2>1. r \in rows
    BY DEF RowsOfToday, Larger
  <2>2. PICK q \in rows : q.session # r.session /\ q.updated + AuditRetention + 1 >= now
    BY <2>1 DEF Swept, NoneOutlivesItsAudit
  <2>3. PICK p \in rows' : p.session = q.session /\ (p = q \/ p.updated = now)
    BY DEF RowsOfToday
  <2>4. SessionRetention < AuditRetention
    BY <2>1 DEF Swept, NoneOutlivesItsAudit
  <2>5. p.updated + AuditRetention + 1 >= now
    BY <2>2, <2>3
  <2>6. QED
    BY <2>2, <2>3, <2>4, <2>5
<1>5. QED
  BY <1>1, <1>3, <1>4 DEF Swept

LEMMA SameRows ==
    ASSUME Retained, TypeOK, UNCHANGED <<rows, now>>,
           \A e \in audit' : \/ e \in audit
                             \/ e.day = now /\ \A r \in Saved(e.session) : r.updated = now
    PROVE  Younger'
<1> USE RetentionTypes
<1>1. \A e \in audit' : e.day <= now /\ \A r \in Saved(e.session) : e.day <= r.updated
  BY DEF Retained, Younger, Saved
<1>2. QED
  BY <1>1 DEF Retained, Younger, Saved

\* A transition is of today, and so is the save it schedules.
LEMMA ScheduleRetained ==
    ASSUME TypeOK, Retained, NEW s \in Sessions, NEW v,
           Schedule(s, v), session'[s].updated = now,
           \A u \in Sessions \ {s} : session'[u] = session[u],
           UNCHANGED <<rows, audit, now, cleanup, sweeps>>
    PROVE  Retained'
<1>1. Today'
  <2> SUFFICES ASSUME NEW t \in saves'
               PROVE  /\ session'[t.session].updated = now
                      /\ t.at = "saving" => t.row.session = t.session /\ t.row.updated = now
                      /\ t.at = "auditing" => \A r \in Saved(t.session) : r.updated = now
    BY DEF Today, Saved
  <2>1. CASE t \in saves
    BY <2>1, SaveFacts DEF Retained, Today
  <2>2. CASE t = [session |-> s, version |-> v, at |-> "scheduled"]
    BY <2>2
  <2>3. QED
    BY <2>1, <2>2 DEF Schedule
<1>2. Younger'
  BY SameRows
<1>3. Swept'
  BY SweptKept DEF Retained, RowsOfToday
<1>4. QED
  BY <1>1, <1>2, <1>3 DEF Retained

\* The upsert of a row of today.
LEMMA WriteRetained ==
    ASSUME TypeOK, Retained, NEW t \in saves, t.at = "saving", Write(t.row),
           UNCHANGED <<session, audit, now, cleanup, sweeps>>,
           saves' \subseteq saves \cup
               {[session |-> t.session, version |-> t.version, at |-> "auditing"]}
    PROVE  Retained'
<1>1. t.row \in Row /\ t.row.session = t.session /\ t.row.updated = now /\ t.session \in Sessions
  BY SaveFacts DEF Retained, Today
<1>2. rows' = (rows \ Saved(t.session)) \cup {t.row}
  BY <1>1 DEF Write, Written
<1>3. /\ Saved(t.session)' = {t.row}
      /\ \A u : u # t.session => Saved(u)' = Saved(u)
  BY <1>1, <1>2 DEF Saved
<1>4. Today'
  <2> SUFFICES ASSUME NEW u \in saves'
               PROVE  /\ session[u.session].updated = now
                      /\ u.at = "saving" => u.row.session = u.session /\ u.row.updated = now
                      /\ u.at = "auditing" => \A r \in Saved(u.session)' : r.updated = now
    BY DEF Today, Saved
  <2>1. CASE u \in saves
    BY <1>1, <1>3, <2>1 DEF Retained, Today
  <2>2. CASE u = [session |-> t.session, version |-> t.version, at |-> "auditing"]
    BY <1>1, <1>3, <2>2 DEF Retained, Today
  <2>3. QED
    BY <2>1, <2>2
<1>5. Younger'
  <2>1. \A r \in rows' : r.updated <= now
    BY <1>1, <1>2, RetentionTypes DEF Retained, Younger
  <2>2. ASSUME NEW e \in audit
        PROVE  \A r \in Saved(e.session)' : e.day <= r.updated
    BY <1>1, <1>3 DEF Retained, Younger
  <2>3. QED
    BY <2>1, <2>2 DEF Retained, Younger, Saved
<1>6. Swept'
  <2>1. RowsOfToday
    BY <1>1, <1>2 DEF RowsOfToday, Saved
  <2>2. QED
    BY <2>1, SweptKept DEF Retained
<1>7. QED
  BY <1>4, <1>5, <1>6 DEF Retained

LEMMA StepRetained ==
    ASSUME TypeOK, Retained, [Next]_vars
    PROVE  Retained'
<1>1. session \in [Sessions -> Memory]
  BY DEF TypeOK
<1>2. ASSUME NEW s \in Sessions, Create(s)
      PROVE  Retained'
  BY <1>1, <1>2, ScheduleRetained DEF Create
<1>3. ASSUME NEW s \in Sessions, NEW over \in BOOLEAN, Move(s, over)
      PROVE  Retained'
  BY <1>1, <1>3, ScheduleRetained DEF Move
<1>4. ASSUME NEW t \in saves, Serialize(t)
      PROVE  Retained'
  <2> DEFINE n == [session |-> t.session, version |-> t.version, at |-> "saving",
                   row |-> InMemory(t.session)]
  <2>1. n.session = t.session /\ n.at = "saving" /\ n.row.session = t.session
           /\ n.row.updated = session[t.session].updated
    BY DEF InMemory
  <2>2. saves' = (saves \ {t}) \cup {n} /\ UNCHANGED <<session, rows, audit, now, cleanup, sweeps>>
    BY <1>4 DEF Serialize, Step
  <2> HIDE DEF n
  <2>3. Today'
    BY <2>1, <2>2 DEF Retained, Today, Saved
  <2>4. Younger' /\ Swept'
    BY <2>2, SameRows, SweptKept DEF Retained, RowsOfToday
  <2>5. QED
    BY <2>3, <2>4 DEF Retained
<1>5. ASSUME NEW t \in saves, Upsert(t)
      PROVE  Retained'
  BY <1>5, WriteRetained DEF Upsert, Step
\* Steps that only end saves and append entries of today.
<1>6. ASSUME saves' \subseteq saves, UNCHANGED <<rows, now, sweeps>>,
             \A s \in Sessions : session'[s].updated = session[s].updated,
             \A e \in audit' : \/ e \in audit
                               \/ e.day = now /\ \A r \in Saved(e.session) : r.updated = now,
             cleanup' = cleanup \/ (cleanup' # "audit" /\ sweeps # 2)
      PROVE  Retained'
  <2>1. Today'
    BY <1>6, SaveFacts DEF Retained, Today, Saved
  <2>2. Younger' /\ Swept'
    BY <1>6, SameRows, SweptKept DEF Retained, RowsOfToday
  <2>3. QED
    BY <2>1, <2>2 DEF Retained
<1>7. ASSUME NEW t \in saves, UpsertFails(t)
      PROVE  Retained'
  <2>1. CASE UNCHANGED <<rows, newest>>
    BY <1>6, <1>7, <2>1 DEF UpsertFails
  <2>2. CASE Write(t.row)
    BY <1>7, <2>2, WriteRetained DEF UpsertFails
  <2>3. QED
    BY <1>7, <2>1, <2>2 DEF UpsertFails
<1>8. ASSUME NEW t \in saves, Audit(t) \/ AuditFails(t)
      PROVE  Retained'
  <2> DEFINE new == [session |-> t.session, version |-> t.version, day |-> now]
  <2>1. new.day = now /\ new.session = t.session
    OBVIOUS
  <2>2. audit' \subseteq audit \cup {new}
    BY <1>8 DEF Audit, AuditFails
  <2>3. \A r \in Saved(t.session) : r.updated = now
    BY <1>8 DEF Audit, AuditFails, Retained, Today
  <2> HIDE DEF new
  <2>4. \A e \in audit' : \/ e \in audit
                          \/ e.day = now /\ \A r \in Saved(e.session) : r.updated = now
    BY <2>1, <2>2, <2>3
  <2>5. QED
    BY <1>6, <1>8, <2>4 DEF Audit, AuditFails
<1>9. CASE Crash
  <2>1. \A s \in Sessions : session'[s].updated = session[s].updated
    BY <1>1, <1>9 DEF Crash, Memory
  <2>2. Today' /\ Younger'
    BY <1>9, <2>1, SameRows DEF Crash, Retained, Today
  <2>3. Swept'
    BY <1>9 DEF Crash, Retained, Swept, OnlyHeld, Held, Expired, Old, NoneOutlivesItsAudit
  <2>4. QED
    BY <2>2, <2>3 DEF Retained
<1>10. CASE StartCleanup
  BY <1>6, <1>10 DEF StartCleanup
<1>11. CASE PruneSessions
  <2>1. /\ cleanup = "sessions" /\ cleanup' = "audit" /\ rows' \subseteq rows
        /\ UNCHANGED <<session, saves, audit, now>>
        /\ sweeps' \in {sweeps, 0}
    BY <1>11 DEF PruneSessions
  <2>2. Today' /\ Younger'
    BY <2>1 DEF Retained, Today, Younger, Saved
  <2>3. rows' = rows \/ rows' = rows \ Expired
    BY <1>11 DEF PruneSessions
  <2>4. ASSUME rows' = rows \ Expired
        PROVE  Swept'
    <3>1. Expired' = {}
      BY <2>1, <2>4 DEF Expired, Old
    <3>2. NoneOutlivesItsAudit'
      BY <2>1, <2>4, RetentionTypes DEF NoneOutlivesItsAudit, Expired, Old, Larger
    <3>3. QED
      BY <2>1, <3>1, <3>2 DEF Retained, Swept, OnlyHeld, Old
  <2>5. ASSUME rows' = rows, rows' # rows \ Expired
        PROVE  Swept'
    <3>1. sweeps' >= 1 => OnlyHeld
      <4> SUFFICES ASSUME sweeps' >= 1, NEW r \in Expired, Old(r.updated, AuditRetention)
                   PROVE  Held(r)
        BY DEF OnlyHeld
      <4>1. PICK q \in Expired, e \in audit : e.session = q.session
        BY <1>11, <2>5 DEF PruneSessions
      <4>2. q \in rows /\ r \in rows /\ q.updated + SessionRetention < now /\ q \in Saved(e.session)
        BY <4>1 DEF Expired, Old, Saved
      <4>3. e.day <= q.updated
        BY <4>2 DEF Retained, Younger
      <4>4. sweeps >= 1
        BY <2>1
      <4>5. ~(e.day + AuditRetention < now)
        BY <4>4 DEF Retained, Swept, Old
      <4>6. ~Old(q.updated, AuditRetention) /\ SessionRetention < AuditRetention
        BY <4>2, <4>3, <4>5, RetentionTypes DEF Old
      <4>7. q.session # r.session
        BY <4>2, <4>6 DEF TypeOK
      <4>8. QED
        BY <4>2, <4>6, <4>7 DEF Held
    <3>2. OnlyHeld' <=> OnlyHeld
      BY <2>1, <2>5 DEF OnlyHeld, Held, Expired, Old
    <3>3. NoneOutlivesItsAudit'
      BY <2>1, <2>5 DEF Retained, Swept, NoneOutlivesItsAudit
    <3>4. QED
      BY <2>1, <3>1, <3>2, <3>3 DEF Retained, Swept, Old
  <2>6. QED
    BY <2>2, <2>3, <2>4, <2>5 DEF Retained
<1>12. CASE PruneAudit
  <2>1. /\ cleanup = "audit" /\ cleanup' = "asleep" /\ audit' \subseteq audit
        /\ UNCHANGED <<session, saves, rows, now>>
    BY <1>12 DEF PruneAudit, Kept
  <2>2. Today' /\ Younger'
    BY <2>1 DEF Retained, Today, Younger, Saved
  <2>3. (OnlyHeld' <=> OnlyHeld) /\ NoneOutlivesItsAudit'
    BY <2>1 DEF Retained, Swept, OnlyHeld, Held, Expired, Old, NoneOutlivesItsAudit
  <2>4. ASSUME sweeps' = 0 /\ UNCHANGED audit
        PROVE  Swept'
    BY <2>1, <2>3, <2>4 DEF Retained, Swept
  <2>5. ASSUME /\ audit' = Kept
               /\ sweeps' = IF sweeps < 2 THEN sweeps + 1 ELSE sweeps
        PROVE  Swept'
    <3>1. sweeps \in 0..2
      BY DEF TypeOK
    <3>2. sweeps' = 2 => OnlyHeld'
      BY <2>1, <2>3, <2>5, <3>1 DEF Retained, Swept
    <3>3. QED
      BY <2>1, <2>3, <2>5, <3>2 DEF Retained, Swept, Kept, Old
  <2>6. Swept'
    BY <1>12, <2>4, <2>5 DEF PruneAudit
  <2>7. QED
    BY <2>2, <2>6 DEF Retained
<1>13. CASE Tick
  <2>1. /\ saves = {} /\ cleanup = "asleep" /\ sweeps = 2 /\ now' = now + 1 /\ sweeps' = 0
        /\ UNCHANGED <<session, saves, rows, audit, cleanup>>
    BY <1>13 DEF Tick
  <2>2. OnlyHeld
    BY <2>1 DEF Retained, Swept
  <2>3. NoneOutlivesItsAudit'
    <3> SUFFICES ASSUME NEW r \in rows, r.over,
                        r.updated + Larger(SessionRetention, AuditRetention) + 1 < now + 1
                 PROVE  /\ SessionRetention < AuditRetention
                        /\ \E q \in rows : /\ q.session # r.session
                                          /\ q.updated + AuditRetention + 1 >= now + 1
      BY <2>1 DEF NoneOutlivesItsAudit
    <3>1. r \in Expired /\ Old(r.updated, AuditRetention)
      BY RetentionTypes DEF Expired, Old, Larger
    <3>2. Held(r)
      BY <2>2, <3>1 DEF OnlyHeld
    <3>3. QED
      BY <3>2, RetentionTypes DEF Held, Old
  <2>4. Today' /\ Younger'
    BY <2>1, RetentionTypes DEF Retained, Today, Younger, Saved
  <2>5. QED
    BY <2>1, <2>3, <2>4 DEF Retained, Swept
<1>14. CASE UNCHANGED vars
  BY <1>6, <1>14 DEF vars
<1>15. QED
  BY <1>2, <1>3, <1>4, <1>5, <1>7, <1>8, <1>9, <1>10, <1>11, <1>12, <1>13, <1>14 DEF Next, Saving

\* Whatever the retention periods: a session that is over leaves the table a day
\* after both, whatever saves, outages and crashes come between, or shares the
\* table with another that changed within AUDIT_RETENTION_DAYS, and then only if
\* the audit log is kept longer than the sessions, as it is by default.
THEOREM FinishedSessionsLeave == Spec => []NoneOutlivesItsAudit
<1>1. Init => Retained
  BY RetentionTypes, InitType
     DEF Init, Retained, Today, Younger, Swept, OnlyHeld, Expired, Old, NoneOutlivesItsAudit
<1>2. TypeOK /\ Retained /\ [Next]_vars => Retained'
  BY StepRetained
<1>3. Retained => NoneOutlivesItsAudit
  BY DEF Retained, Swept
<1>4. QED
  BY <1>1, <1>2, <1>3, TypeCorrect, PTL DEF Spec
=============================================================================
