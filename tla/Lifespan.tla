------------------------------ MODULE Lifespan ------------------------------
(***************************************************************************)
(* server.py: the life of the server process, as far as its background     *)
(* tasks are concerned.  lifespan loads what they watch and creates their  *)
(* tasks; a task runs for the first time after lifespan has yielded.       *)
(***************************************************************************)
EXTENDS Naturals

CONSTANTS
    MaxStarts,   \* bound: starts of the process
    MaxNow       \* bound: time

ASSUME LifespanAssumption == MaxStarts \in Nat /\ MaxNow \in Nat \ {0}

VARIABLES
    server,   \* "starting": lifespan has loaded the runbooks and the settings,
              \* and the watchers' tasks have not run yet
    starts,
    now

lifespanVars == <<server, starts, now>>

LifespanTypeOK ==
    /\ server \in {"down", "starting", "up"}
    /\ starts \in 0..MaxStarts
    /\ now \in 1..MaxNow

LifespanInit == server = "down" /\ starts = 0 /\ now = 1

Tick ==
    /\ now < MaxNow
    /\ now' = now + 1
    /\ UNCHANGED <<server, starts>>

\* lifespan up to its yield.
Launch ==
    /\ server = "down" /\ starts < MaxStarts
    /\ server' = "starting"
    /\ starts' = starts + 1
    /\ UNCHANGED now

\* The tasks of the watchers begin to run.
BeginWatching ==
    /\ server = "starting"
    /\ server' = "up"
    /\ UNCHANGED <<starts, now>>

\* The process ends, by a shutdown or by a crash, with all it had in memory.
Stop ==
    /\ server # "down"
    /\ server' = "down"
    /\ UNCHANGED <<starts, now>>
=============================================================================
