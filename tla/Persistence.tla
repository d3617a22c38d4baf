----------------------------- MODULE Persistence -----------------------------
(***************************************************************************)
(* What PostgreSQL knows of the sessions.  Every transition schedules a    *)
(* task (agent/session.py, _persist_and_audit) that upserts the session    *)
(* and then appends to the audit log; nobody waits for these tasks, and    *)
(* each statement takes a connection of its own from the pool (db.py).     *)
(* Once an hour agent/retention.py deletes old rows of both tables.        *)
(*                                                                         *)
(* Time passes in days.  The pool has ten connections, more than the saves *)
(* under way here, so a save that was started later may well be faster.    *)
(***************************************************************************)
EXTENDS Naturals, FiniteSets

CONSTANTS
    Sessions,         \* the ids of the sessions
    MaxVersion,       \* bound: transitions of a session
    SessionRetention, \* SESSION_RETENTION_DAYS
    AuditRetention,   \* AUDIT_RETENTION_DAYS
    MaxDay            \* bound: the last day

ASSUME PersistenceAssumption ==
    /\ MaxVersion \in Nat /\ MaxDay \in Nat
    /\ SessionRetention \in Nat \ {0} /\ AuditRetention \in Nat \ {0}

VARIABLES
    session,    \* the sessions in memory
    saves,      \* the tasks that save a session and have not finished
    rows,       \* the table sessions
    audit,      \* the table audit_log
    newest,     \* history: 1 + the newest version ever written, per session
    overlapped, \* history: the sessions of which two saves were on their way at once
    lossy,      \* history: has a statement failed, or the process stopped?
    now,        \* the day
    cleanup,    \* where RetentionManager.cleanup is
    sweeps      \* cleanups of today without an outage

vars == <<session, saves, rows, audit, newest, overlapped, lossy, now, cleanup, sweeps>>

Versions == 0..MaxVersion
Days == 0..MaxDay

\* A session counts its transitions; "over" is a terminal phase, and "updated"
\* the day of the last transition.  "new": not created; "lost": the process that
\* had it stopped.
Memory == [at: {"new", "here", "lost"}, version: Versions, over: BOOLEAN, updated: Days]

\* A row is what _serialize_session found in memory.
Row == [session: Sessions, version: Versions, over: BOOLEAN, updated: Days]

\* A task belongs to the transition to a version, and is not started, in the
\* upsert of a row, or in the INSERT of the audit entry.
Save == [session: Sessions, version: Versions, at: {"scheduled", "auditing"}]
            \cup [session: Sessions, version: Versions, at: {"saving"}, row: Row]

Entry == [session: Sessions, version: Versions, day: Days]

TypeOK ==
    /\ session \in [Sessions -> Memory]
    /\ saves \subseteq Save
    /\ rows \subseteq Row
    /\ \A r, q \in rows : r.session = q.session => r = q
    /\ audit \subseteq Entry
    /\ newest \in [Sessions -> 0..(MaxVersion + 1)]
    /\ overlapped \subseteq Sessions
    /\ lossy \in BOOLEAN
    /\ now \in Days
    /\ cleanup \in {"asleep", "sessions", "audit"}
    /\ sweeps \in 0..2

Init ==
    /\ session = [s \in Sessions |->
                    [at |-> "new", version |-> 0, over |-> FALSE, updated |-> 0]]
    /\ saves = {}
    /\ rows = {}
    /\ audit = {}
    /\ newest = [s \in Sessions |-> 0]
    /\ overlapped = {}
    /\ lossy = FALSE
    /\ now = 0
    /\ cleanup = "asleep"
    /\ sweeps = 0

Saved(s) == {r \in rows : r.session = s}
SavesOf(s) == {t \in saves : t.session = s}

-----------------------------------------------------------------------------
(* Sessions *)

Schedule(s, version) ==
    saves' = saves \cup {[session |-> s, version |-> version, at |-> "scheduled"]}

Create(s) ==
    /\ session[s].at = "new"
    /\ session' = [session EXCEPT ![s] =
                     [at |-> "here", version |-> 0, over |-> FALSE, updated |-> now]]
    /\ Schedule(s, 0)
    /\ UNCHANGED <<rows, audit, newest, overlapped, lossy, now, cleanup, sweeps>>

\* A handler has the session still in hand when it was evicted from the store:
\* eviction does not matter here.
Move(s, over) ==
    /\ session[s].at = "here"
    /\ session[s].version < MaxVersion
    /\ session' = [session EXCEPT ![s] =
                     [at |-> "here", version |-> session[s].version + 1,
                      over |-> over, updated |-> now]]
    /\ Schedule(s, session[s].version + 1)
    /\ UNCHANGED <<rows, audit, newest, overlapped, lossy, now, cleanup, sweeps>>

-----------------------------------------------------------------------------
(* Saves *)

InMemory(s) == [session |-> s, version |-> session[s].version,
                over |-> session[s].over, updated |-> session[s].updated]

Step(t, next) == saves' = (saves \ {t}) \cup {next}

\* The task starts: the session is serialized as it is now, and the statement
\* is sent.
Serialize(t) ==
    /\ t.at = "scheduled"
    /\ Step(t, [session |-> t.session, version |-> t.version, at |-> "saving",
                row |-> InMemory(t.session)])
    /\ overlapped' = overlapped \cup
         {s \in {t.session} : \E u \in SavesOf(s) : u.at = "saving"}
    /\ UNCHANGED <<session, rows, audit, newest, lossy, now, cleanup, sweeps>>

\* Mutant: ON CONFLICT DO NOTHING.
WrittenOnce(r) == IF Saved(r.session) = {} THEN rows \cup {r} ELSE rows
\* ON CONFLICT (id) DO UPDATE
Written(r) == (rows \ Saved(r.session)) \cup {r}

Write(r) ==
    /\ rows' = Written(r)
    /\ newest' = [newest EXCEPT ![r.session] =
                    IF @ > r.version THEN @ ELSE r.version + 1]

Upsert(t) ==
    /\ t.at = "saving"
    /\ Write(t.row)
    /\ Step(t, [session |-> t.session, version |-> t.version, at |-> "auditing"])
    /\ UNCHANGED <<session, audit, overlapped, lossy, now, cleanup, sweeps>>

\* The statement timed out, perhaps after it took effect: there will be no
\* audit entry.
UpsertFails(t) ==
    /\ t.at = "saving"
    /\ Write(t.row) \/ UNCHANGED <<rows, newest>>
    /\ saves' = saves \ {t}
    /\ lossy' = TRUE
    /\ UNCHANGED <<session, audit, overlapped, now, cleanup, sweeps>>

\* The foreign key: an entry needs the row of its session.
Referenced(t) == Saved(t.session) # {}

\* Mutant: the entry is written while the session is being saved.
AuditEarly(t) ==
    /\ t.at = "saving"
    /\ audit' = audit \cup {[session |-> t.session, version |-> t.version, day |-> now]}
    /\ UNCHANGED <<session, saves, rows, newest, overlapped, lossy, now, cleanup, sweeps>>

Audit(t) ==
    /\ t.at = "auditing"
    /\ Referenced(t)
    /\ audit' = audit \cup {[session |-> t.session, version |-> t.version, day |-> now]}
    /\ saves' = saves \ {t}
    /\ UNCHANGED <<session, rows, newest, overlapped, lossy, now, cleanup, sweeps>>

\* The foreign key or the connection does not permit it; the latter perhaps
\* after the INSERT took effect.
AuditFails(t) ==
    /\ t.at = "auditing"
    /\ \/ /\ Referenced(t)
          /\ audit' = audit \cup
               {[session |-> t.session, version |-> t.version, day |-> now]}
       \/ UNCHANGED audit
    /\ saves' = saves \ {t}
    /\ lossy' = TRUE
    /\ UNCHANGED <<session, rows, newest, overlapped, now, cleanup, sweeps>>

\* The process stops.  The next one starts with an empty store: nothing calls
\* load_active_sessions.
Crash ==
    /\ session' = [s \in Sessions |->
                     IF session[s].at = "here" THEN [session[s] EXCEPT !.at = "lost"]
                     ELSE session[s]]
    /\ saves' = {}
    /\ lossy' = TRUE
    /\ cleanup' = "asleep"
    /\ UNCHANGED <<rows, audit, newest, overlapped, now, sweeps>>

-----------------------------------------------------------------------------
(* Retention *)

Old(day, retention) == day + retention < now

StartCleanup ==
    /\ cleanup = "asleep"
    /\ sweeps < 2
    /\ cleanup' = "sessions"
    /\ UNCHANGED <<session, saves, rows, audit, newest, overlapped, lossy, now, sweeps>>

Expired == {r \in rows : r.over /\ Old(r.updated, SessionRetention)}

\* One DELETE for all of them: a single one the audit log still refers to, or
\* an outage, and none is deleted.  The cleanup goes on all the same.
PruneSessions ==
    /\ cleanup = "sessions"
    /\ cleanup' = "audit"
    /\ LET referenced == \E r \in Expired, e \in audit : e.session = r.session
       IN  \/ ~referenced /\ rows' = rows \ Expired /\ UNCHANGED sweeps
           \/ referenced /\ UNCHANGED <<rows, sweeps>>
           \/ UNCHANGED rows /\ sweeps' = 0
    /\ UNCHANGED <<session, saves, audit, newest, overlapped, lossy, now>>

\* Mutant: an entry is kept for a day more.
KeptLate == {e \in audit : ~Old(e.day, AuditRetention + 1)}
Kept == {e \in audit : ~Old(e.day, AuditRetention)}

PruneAudit ==
    /\ cleanup = "audit"
    /\ cleanup' = "asleep"
    /\ \/ /\ audit' = Kept
          /\ sweeps' = IF sweeps < 2 THEN sweeps + 1 ELSE sweeps
       \/ UNCHANGED audit /\ sweeps' = 0
    /\ UNCHANGED <<session, saves, rows, newest, overlapped, lossy, now>>

\* Saves take seconds and cleanups an hour: on every day all saves finish and
\* two cleanups meet no outage.
Tick ==
    /\ saves = {} /\ cleanup = "asleep" /\ sweeps = 2
    /\ now < MaxDay
    /\ now' = now + 1
    /\ sweeps' = 0
    /\ UNCHANGED <<session, saves, rows, audit, newest, overlapped, lossy, cleanup>>

Saving(t) == Serialize(t) \/ Upsert(t) \/ UpsertFails(t) \/ Audit(t) \/ AuditFails(t)

Next ==
    \/ \E s \in Sessions : Create(s)
    \/ \E s \in Sessions, over \in BOOLEAN : Move(s, over)
    \/ \E t \in saves : Saving(t)
    \/ Crash
    \/ StartCleanup \/ PruneSessions \/ PruneAudit
    \/ Tick

Spec == Init /\ [][Next]_vars

-----------------------------------------------------------------------------
(* Properties that hold. *)

\* The audit log never runs ahead of the table: when it has an entry for a
\* transition, the session was written once with that transition or a later
\* one, whichever saves overtook each other or failed.
AuditedWasWritten == \A e \in audit : newest[e.session] > e.version

\* When its saves are done, the row of a session is what is in memory, unless
\* two saves of it were on their way at once or a statement failed.
StaleOnlyByOverlap ==
    \A s \in Sessions :
        session[s].at = "here" /\ SavesOf(s) = {} /\ s \notin overlapped /\ ~lossy
            => \/ Saved(s) = {InMemory(s)}
               \/ Saved(s) = {} /\ session[s].over

Larger(m, n) == IF m > n THEN m ELSE n

\* A session that is over is gone from the table a day after both retention
\* periods, or else another session keeps it there: one whose own row changed
\* within AUDIT_RETENTION_DAYS, which only happens when the audit log is kept
\* longer than the sessions.  (The defaults are 90 and 30 days, so as long as
\* sessions keep coming, each may keep all the earlier ones.)
NoneOutlivesItsAudit ==
    \A r \in rows :
        r.over /\ r.updated + Larger(SessionRetention, AuditRetention) + 1 < now
            => /\ SessionRetention < AuditRetention
               /\ \E q \in rows : /\ q.session # r.session
                                 /\ q.updated + AuditRetention + 1 >= now

-----------------------------------------------------------------------------
(* A property that does not hold. *)

\* agent/retention.py:6: "Resolved sessions: 30 days".  The cleanup deletes the
\* sessions first, and the foreign key of the audit log does not let it.
SessionsLeave == \A r \in rows : r.over => r.updated + SessionRetention + 1 >= now
=============================================================================
