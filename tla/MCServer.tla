------------------------------ MODULE MCServer ------------------------------
(***************************************************************************)
(* Server with two files, two fields, one agent and two proposals.  The    *)
(* tasks share nothing but the life of the process and the clock, and the  *)
(* health checks read nothing but the key: a behaviour of this model moves *)
(* only what it is about (focus).                                          *)
(***************************************************************************)
EXTENDS Server

VARIABLE focus

\* a.yaml and b.yaml.
MCStem == <<"a", "b">>

MCInit == Init /\ focus \in {"runbooks", "secrets", "health", "proposals"}

\* The proposals have SLAs of their severities.
MCSla == <<2, 1>>

\* For the health checks, whose process is started once, and which leave the
\* escalation timer nothing to do: the first rotation replaces or removes the key
\* alone, and is the only one; the settings are reloaded on request.
RotatesKeyOnce ==
    /\ mounted' # mounted =>
         mounted'.mtime = 2 /\ \A f \in Fields \ {ApiKey} : mounted'.value[f] = 1
    /\ reader' # "poll"

MCNext ==
    /\ UNCHANGED focus
    /\ \/ Lifecycle /\ (focus \in {"health", "proposals"} => starts' = 1)
       \/ focus = "runbooks" /\ WatchRunbooks
       \/ focus = "secrets" /\ WatchSecrets
       \/ focus = "health" /\ TimerInTime /\ (CheckHealth \/ (WatchSecrets /\ RotatesKeyOnce))
       \/ focus = "health" /\ ((PassTime /\ now < 4) \/ (Escalate /\ UNCHANGED proposal))
       \/ focus = "proposals" /\ (Escalate \/ PassTime)

MCSpec == MCInit /\ [][MCNext]_<<vars, focus>> /\ Fairness
=============================================================================
