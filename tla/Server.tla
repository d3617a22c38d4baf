------------------------------- MODULE Server -------------------------------
(***************************************************************************)
(* The server process with what its background tasks watch and cache: the  *)
(* runbooks, the secrets, the proposals that await approval, and the       *)
(* health of the agents.  A restart starts all of them anew from what is   *)
(* on disk.                                                                *)
(***************************************************************************)
EXTENDS Runbooks, Health, Escalation

vars == <<lifespanVars, runbookVars, credentialVars, healthVars, escalationVars>>

TypeOK ==
    /\ LifespanTypeOK
    /\ RunbooksTypeOK /\ CredentialsTypeOK /\ HealthTypeOK /\ EscalationTypeOK

Init == LifespanInit /\ RunbooksInit /\ CredentialsInit /\ HealthInit /\ EscalationInit

\* The server does not start while a runbook is broken.
Start == /\ Launch /\ StartRunbooks /\ StartCredentials
         /\ UNCHANGED <<healthVars, escalationVars>>

Serve == /\ BeginWatching /\ StartWatching /\ StartTimer
         /\ UNCHANGED <<credentialVars, healthVars>>

End == Stop /\ StopRunbooks /\ StopCredentials /\ StopHealth /\ StopTimer

Lifecycle == Start \/ Serve \/ End

\* Time passes, for as long as everything that is due has been done.
PassTime ==
    /\ Tick
    /\ PingsInTime /\ TimerInTime
    /\ UNCHANGED <<runbookVars, credentialVars, healthVars, escalationVars>>

WatchRunbooks == RunbooksNext /\ UNCHANGED <<credentialVars, healthVars, escalationVars>>
WatchSecrets == CredentialsNext /\ UNCHANGED <<runbookVars, healthVars, escalationVars>>
CheckHealth == HealthNext /\ UNCHANGED <<runbookVars, escalationVars>>
Escalate == EscalationNext /\ UNCHANGED <<runbookVars, credentialVars, healthVars>>

Next == Lifecycle \/ PassTime \/ WatchRunbooks \/ WatchSecrets \/ CheckHealth \/ Escalate

Spec == Init /\ [][Next]_vars

\* The tasks of the server run, and the watcher polls for as long as it lives;
\* nobody has to edit, to stop or to restart anything.
Fairness ==
    /\ WF_vars(Serve)
    /\ WF_vars(Watch /\ UNCHANGED <<credentialVars, healthVars, escalationVars>>)

FairSpec == Spec /\ Fairness
=============================================================================
