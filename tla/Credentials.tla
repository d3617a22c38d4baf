---------------------------- MODULE Credentials ----------------------------
(***************************************************************************)
(* agent/secret_reload.py: the secrets are mounted as files, which the     *)
(* kubelet replaces all at once when a Secret is rotated; SecretReloader   *)
(* notices the new modification time and reads the files one by one into   *)
(* the settings, and POST /admin/secrets/reload reads them at once.        *)
(* Both are synchronous: nothing else of the server runs meanwhile.        *)
(***************************************************************************)
EXTENDS Lifespan

CONSTANTS
    Fields,       \* RELOADABLE_SECRETS
    MaxRotations  \* bound: replacements of the mounted files

ASSUME CredentialsAssumption == MaxRotations \in Nat

VARIABLES
    mounted,    \* the volume: modification time, and of each field the
                \* modification time of its value, 0 if it is absent or empty
    settings,   \* the fields of the settings singleton, 0 if empty
    lastMtime,  \* SecretReloader._last_mtime
    reading,    \* the files that are still to be read
    reader,     \* who reads them, "nobody" if reading is over
    statted,    \* current_mtime of the check that reads them
    skipped     \* the fields that were out of date at the first check

credentialVars == <<mounted, settings, lastMtime, reading, reader, statted, skipped>>

Mtime == 0..MaxRotations + 1

CredentialsTypeOK ==
    /\ mounted \in [mtime: Mtime \ {0}, value: [Fields -> Mtime]]
    /\ settings \in [Fields -> Mtime]
    /\ lastMtime \in Mtime
    /\ reading \in SUBSET Fields
    /\ reader \in {"nobody", "poll", "force"}
    /\ statted \in Mtime
    /\ skipped \in SUBSET Fields

CredentialsInit ==
    /\ mounted = [mtime |-> 1, value |-> [f \in Fields |-> 1]]
    /\ settings = [f \in Fields |-> 0]
    /\ lastMtime = 0
    /\ reading = {} /\ reader = "nobody" /\ statted = 0
    /\ skipped = {}

-----------------------------------------------------------------------------
\* The kubelet swaps the symlink ..data: some values are new, some are gone.
Rotate(renewed, gone) ==
    /\ mounted.mtime <= MaxRotations
    /\ mounted' =
         [mtime |-> mounted.mtime + 1,
          value |-> [f \in Fields |->
                        IF f \in gone THEN 0
                        ELSE IF f \in renewed THEN mounted.mtime + 1
                        ELSE mounted.value[f]]]
    /\ UNCHANGED <<settings, lastMtime, reading, reader, statted, skipped, lifespanVars>>

\* The environment of a new process has the values of the Secret.
StartCredentials ==
    /\ settings' = mounted.value
    /\ lastMtime' = 0
    /\ skipped' = {}
    /\ UNCHANGED <<mounted, reading, reader, statted>>

StopCredentials ==
    /\ reading' = {} /\ reader' = "nobody"
    /\ UNCHANGED <<mounted, settings, lastMtime, statted, skipped>>

OutOfDate == {f \in Fields : mounted.value[f] \notin {0, settings[f]}}

\* _check_and_reload reads nothing the first time ...
FirstCheck ==
    /\ server = "up" /\ reader = "nobody" /\ lastMtime = 0
    /\ lastMtime' = mounted.mtime
    /\ skipped' = OutOfDate
    /\ UNCHANGED <<mounted, settings, reading, reader, statted, lifespanVars>>

\* Mutant: the modification time is remembered before the files are read.
CheckEarly ==
    /\ server = "up" /\ reader = "nobody" /\ lastMtime > 0
    /\ mounted.mtime > lastMtime
    /\ reading' = Fields /\ reader' = "poll"
    /\ statted' = mounted.mtime /\ lastMtime' = mounted.mtime
    /\ UNCHANGED <<mounted, settings, skipped, lifespanVars>>
\* ... and reloads later, when the modification time has grown.
CheckSecrets ==
    /\ server = "up" /\ reader = "nobody" /\ lastMtime > 0
    /\ mounted.mtime > lastMtime
    /\ reading' = Fields /\ reader' = "poll"
    /\ statted' = mounted.mtime
    /\ UNCHANGED <<mounted, settings, lastMtime, skipped, lifespanVars>>

\* force_reload does not look at the modification time.
ForceReload ==
    /\ server = "up" /\ reader = "nobody"
    /\ reading' = Fields /\ reader' = "force"
    /\ UNCHANGED <<mounted, settings, lastMtime, statted, skipped, lifespanVars>>

\* reload_secrets_from_files, one field: a missing or an empty file changes
\* nothing.  Only the check remembers, after the last one, what it had statted.
ReadSecret(f) ==
    /\ f \in reading
    /\ settings' = [settings EXCEPT ![f] =
                        IF mounted.value[f] = 0 THEN @ ELSE mounted.value[f]]
    /\ skipped' = skipped \ {f}
    /\ reading' = reading \ {f}
    /\ IF reading' = {}
       THEN /\ lastMtime' = IF reader = "poll" THEN statted ELSE lastMtime
            /\ reader' = "nobody"
       ELSE UNCHANGED <<lastMtime, reader>>
    /\ UNCHANGED <<mounted, statted, lifespanVars>>

\* A file cannot be read, say because it is swapped away: the check logs it,
\* the endpoint answers with an error.
ReadFails ==
    /\ reading # {}
    /\ reading' = {} /\ reader' = "nobody"
    /\ UNCHANGED <<mounted, settings, lastMtime, statted, skipped, lifespanVars>>

CredentialsNext ==
    \/ \E renewed, gone \in SUBSET Fields : Rotate(renewed, gone)
    \/ FirstCheck \/ CheckSecrets \/ ForceReload
    \/ \E f \in Fields : ReadSecret(f)
    \/ ReadFails

-----------------------------------------------------------------------------
(* Properties that hold. *)

\* A mounted secret that differs from the settings will be read by the next
\* check, whatever rotations, failed reads and forced reloads came before,
\* unless it was rotated between the start of the process and the first check.
StaleOnlyUntilCheck ==
    server = "up" /\ reader = "nobody" =>
        \A f \in OutOfDate : lastMtime < mounted.mtime \/ f \in skipped
=============================================================================
