------------------------------ MODULE Runbooks ------------------------------
(***************************************************************************)
(* The runbook files, knowledge/loader.py (RunbookStore) and               *)
(* knowledge/hot_reload.py (RunbookWatcher), and the two stores that are   *)
(* filled from the files: the one of the lifespan, which the watcher keeps *)
(* up to date, and the one of tools/knowledge_base.py, which the agents    *)
(* search.  Other processes edit the files at any time.                    *)
(*                                                                         *)
(* A version of a file is its modification time; a runbook is known by the *)
(* file and the version it was read from (RunbookVersion).                 *)
(***************************************************************************)
EXTENDS Lifespan, FiniteSets

CONSTANTS
    Files,    \* numbers, in the order in which load_directory reads them
    Ids,      \* the ids that the metadata of a file may have
    Stem,     \* path.stem of each file
    NoId,     \* what a file that was never whole has instead of an id
    MaxEdits  \* bound: writes and removals of files

ASSUME RunbooksAssumption ==
    /\ Files \subseteq Nat \ {0}
    /\ Stem \in [Files -> Ids]
    /\ NoId \notin Ids
    /\ MaxEdits \in Nat

VARIABLES
    files,    \* the directory
    edits,
    store,    \* RunbookStore of the lifespan
    watcher,  \* the task of RunbookWatcher.run
    listed,   \* the files glob has found, and whose stat is still to come
    current,  \* the stats of _snapshot, or current_files
    snapshot, \* RunbookWatcher._file_mtimes
    agents,   \* tools.knowledge_base._store, empty until the module is imported
    \* What has happened since the process started, for the properties:
    unseen,   \* the files edited before the first snapshot saw them, and not
              \* found changed by a check since
    left,     \* the ids some file has had, and then another, or was removed
              \* under another name
    gone      \* the names of the files that were removed

watcherVars == <<store, watcher, listed, current, snapshot>>
historyVars == <<unseen, left, gone>>
runbookVars == <<files, edits, watcherVars, agents, historyVars>>

Version == 0..MaxEdits

\* A link may lead nowhere: the kubelet swaps the directory behind the links of
\* a ConfigMap before it removes the links of keys that are gone.
FileStates == {"absent", "whole", "broken", "dangling"}

\* A file that is not whole keeps the id it had.
FileType == [state: FileStates, mtime: Version, id: Ids \cup {NoId}]

\* file = 0: nothing is loaded under this id.
Stores == [Ids -> [file: Files \cup {0}, version: Version]]
Empty == [i \in Ids |-> [file |-> 0, version |-> 0]]

Mtimes == [f \in Files |-> files[f].mtime]
Unknown == [f \in Files |-> 0]

RunbooksTypeOK ==
    /\ files \in [Files -> FileType]
    /\ edits \in Version
    /\ store \in Stores
    /\ watcher \in {"none", "starting", "sleeping", "checking", "dead"}
    /\ listed \in SUBSET Files
    /\ current \in [Files -> Version]
    /\ snapshot \in [Files -> Version]
    /\ agents \in Stores
    /\ unseen \in SUBSET Files
    /\ left \in SUBSET (Ids \cup {NoId})
    /\ gone \in SUBSET Ids

RunbooksInit ==
    /\ files = [f \in Files |-> [state |-> "absent", mtime |-> 0, id |-> NoId]]
    /\ edits = 0
    /\ store = Empty
    /\ watcher = "none"
    /\ listed = {}
    /\ current = Unknown
    /\ snapshot = Unknown
    /\ agents = Empty
    /\ unseen = {} /\ left = {} /\ gone = {}

-----------------------------------------------------------------------------
Present == {f \in Files : files[f].state # "absent"}

\* Nothing has looked at the file since load_directory has read it.
NotYetSeen(f) == server = "starting" \/ (watcher = "starting" /\ f \in listed)

\* A file is written, whole with an id or otherwise, or removed.
Edit(f, state, id) ==
    /\ edits < MaxEdits
    /\ state = "absent" => f \in Present
    /\ edits' = edits + 1
    /\ files' = [files EXCEPT ![f] =
                    [state |-> state,
                     mtime |-> IF state = "absent" THEN 0 ELSE edits',
                     id |-> IF state = "whole" THEN id ELSE @.id]]
    /\ unseen' = IF NotYetSeen(f) THEN unseen \cup {f} ELSE unseen
    /\ left' = IF files'[f].id # files[f].id \/ (state = "absent" /\ Stem[f] # files[f].id)
               THEN left \cup {files[f].id} ELSE left
    /\ gone' = IF state = "absent" THEN gone \cup {Stem[f]} ELSE gone
    /\ UNCHANGED <<watcherVars, agents, lifespanVars>>

\* load_directory raises at the first file that cannot be read or parsed.
Loads == \A f \in Present : files[f].state = "whole"

Carriers(i) == {f \in Files : files[f].state = "whole" /\ files[f].id = i}
FromFile(f) == [file |-> f, version |-> files[f].mtime]

\* Of several files with one id, the last one is kept.
Directory ==
    {d \in [Ids -> {FromFile(f) : f \in Files} \cup {Empty[i] : i \in Ids}] :
        \A i \in Ids :
            IF Carriers(i) = {} THEN d[i] = Empty[i]
            ELSE \E f \in Carriers(i) : d[i] = FromFile(f) /\ \A g \in Carriers(i) : g <= f}

StartRunbooks ==
    /\ Loads
    /\ store' \in Directory
    /\ unseen' = {} /\ left' = {} /\ gone' = {}
    /\ UNCHANGED <<files, edits, watcher, listed, current, snapshot, agents>>

-----------------------------------------------------------------------------
(* RunbookWatcher.run.  glob lists the directory, then every file is statted; *)
(* nothing but CancelledError is caught around it.                            *)

\* _snapshot, which comes first.
StartWatching ==
    /\ watcher' = "starting"
    /\ listed' = Present
    /\ current' = Unknown
    /\ UNCHANGED <<files, edits, store, snapshot, agents, historyVars>>

\* After the poll interval: _check_changes.
ListFiles ==
    /\ watcher = "sleeping"
    /\ watcher' = "checking"
    /\ listed' = Present
    /\ current' = Unknown
    /\ UNCHANGED <<files, edits, store, snapshot, agents, historyVars, lifespanVars>>

\* path.stat() raises if the file has gone since it was listed, or is a link
\* that leads nowhere: the task ends.
StatFile(f) ==
    /\ f \in listed
    /\ \/ /\ files[f].state \in {"whole", "broken"}
          /\ listed' = listed \ {f}
          /\ current' = [current EXCEPT ![f] = files[f].mtime]
          /\ UNCHANGED watcher
       \/ /\ files[f].state \in {"absent", "dangling"}
          /\ watcher' = "dead"
          /\ listed' = {}
          /\ UNCHANGED current
    /\ UNCHANGED <<files, edits, store, snapshot, agents, historyVars, lifespanVars>>

FirstSnapshot ==
    /\ watcher = "starting" /\ listed = {}
    /\ watcher' = "sleeping"
    /\ snapshot' = current
    /\ UNCHANGED <<files, edits, store, listed, current, agents, historyVars, lifespanVars>>

\* Mutant: only added and removed files count as changes.
ChangesByName == \E f \in Files : (current[f] = 0) # (snapshot[f] = 0)
Changes == current # snapshot

NoChanges ==
    /\ watcher = "checking" /\ listed = {}
    /\ ~Changes
    /\ watcher' = "sleeping"
    /\ UNCHANGED <<files, edits, store, listed, current, snapshot, agents, historyVars, lifespanVars>>

Changed == {f \in Files : current[f] # snapshot[f] /\ current[f] # 0}
Removed == {f \in Files : current[f] = 0 /\ snapshot[f] # 0}

\* The files are read in any order; one that is broken, or gone again, is
\* counted as an error and leaves its runbook as it was.
Reloaded ==
    {s \in [Ids -> {store[i] : i \in Ids} \cup {FromFile(f) : f \in Files}] :
        \A i \in Ids :
            LET fs == Carriers(i) \cap Changed
            IN IF fs = {} THEN s[i] = store[i] ELSE \E f \in fs : s[i] = FromFile(f)}

\* A removed file is known by its name only.
Dropped == {Stem[f] : f \in Removed}

\* Mutant: the snapshot is taken again after the files were read.
ReloadResnapshot ==
    /\ watcher = "checking" /\ listed = {}
    /\ Changes
    /\ \E s \in Reloaded : store' = [i \in Ids |-> IF i \in Dropped THEN Empty[i] ELSE s[i]]
    /\ snapshot' = Mtimes
    /\ unseen' = unseen \ (Changed \cup Removed)
    /\ watcher' = "sleeping"
    /\ UNCHANGED <<files, edits, listed, current, agents, left, gone, lifespanVars>>
\* The rest of _check_changes.
Reload ==
    /\ watcher = "checking" /\ listed = {}
    /\ Changes
    /\ \E s \in Reloaded : store' = [i \in Ids |-> IF i \in Dropped THEN Empty[i] ELSE s[i]]
    /\ snapshot' = current
    /\ unseen' = unseen \ (Changed \cup Removed)
    /\ watcher' = "sleeping"
    /\ UNCHANGED <<files, edits, listed, current, agents, left, gone, lifespanVars>>

Watch ==
    \/ ListFiles \/ FirstSnapshot \/ NoChanges \/ Reload
    \/ \E f \in Files : StatFile(f)

StopRunbooks ==
    /\ store' = Empty
    /\ agents' = Empty
    /\ watcher' = "none"
    /\ listed' = {}
    /\ current' = Unknown
    /\ snapshot' = Unknown
    /\ UNCHANGED <<files, edits, historyVars>>

\* The first investigation, or the first health check, imports
\* tools.knowledge_base; the import fails while a file is broken, and is tried
\* again by the next one.
ImportKnowledgeBase ==
    /\ server = "up" /\ agents = Empty
    /\ Loads
    /\ agents' \in Directory
    /\ UNCHANGED <<files, edits, watcherVars, historyVars, lifespanVars>>

\* The steps that neither start nor stop the process.  POST
\* /admin/runbooks/reload fills a store of its own and drops it: no step.
RunbooksNext ==
    \/ \E f \in Files, state \in FileStates, id \in Ids : Edit(f, state, id)
    \/ Watch
    \/ ImportKnowledgeBase

-----------------------------------------------------------------------------
(* Properties that hold. *)

\* The watcher has seen the file as it is, and could read it.
Settled(f) ==
    /\ snapshot[f] = files[f].mtime
    /\ files[f].state \in {"absent", "whole"}
    /\ f \notin unseen

\* Between two checks the watched store and the directory agree on the files
\* the watcher has seen, however the edits fell between its listing, its stats
\* and its reads.  What is loaded under an id is what its file holds, and that
\* file is there, unless a file has had that id and was given another, or was
\* removed under another name; and a file that is there has its id loaded,
\* unless a file of that name was removed.
WatchedIsOnDisk ==
    watcher = "sleeping" =>
        /\ \A i \in Ids \ left :
             LET f == store[i].file
             IN f # 0 /\ Settled(f) => f \in Carriers(i) /\ store[i] = FromFile(f)
        /\ \A f \in Present :
             Settled(f) => store[files[f].id].file # 0 \/ files[f].id \in gone

\* Once nobody edits the files any more, a server that runs has seen them all,
\* unless its watcher has died of a file that could not be statted.
EditsArrive == <>[](server = "up" => snapshot = Mtimes \/ watcher = "dead")

-----------------------------------------------------------------------------
(* What the repository says and the code does not do. *)

\* knowledge/hot_reload.py:7: the watcher "Detects new, modified, and deleted
\* runbook YAML files".  When it has looked at the directory as it is, and can
\* read all of it, the store holds the runbooks of the directory.
FollowsDirectory ==
    watcher = "sleeping" /\ snapshot = Mtimes /\ Loads =>
        \A i \in Ids :
            IF Carriers(i) = {} THEN store[i] = Empty[i]
            ELSE \E f \in Carriers(i) : store[i] = FromFile(f)
=============================================================================
