---------------------------- MODULE Server_proofs ----------------------------
(***************************************************************************)
(* For any files, fields, agents, sessions and bounds: what the server     *)
(* keeps in memory of the runbook files, of the mounted secrets and of the *)
(* health of the agents is as recent as the properties say, and no proposal*)
(* waits longer than they say.  The four parts share only the life of the  *)
(* process and its clock, and each has an invariant of its own.            *)
(***************************************************************************)
EXTENDS Server, TLAPS

\* Only the watcher's reading of a settled volume leaves the settings behind.
CredentialsInv ==
    /\ lastMtime <= mounted.mtime
    /\ reader = "nobody" => reading = {}
    /\ server # "up" => reader = "nobody"
    /\ server = "starting" => lastMtime = 0
    /\ reader = "poll" => statted <= mounted.mtime
    /\ reader = "poll" /\ statted = mounted.mtime => OutOfDate \subseteq reading
    /\ server = "up" /\ lastMtime = mounted.mtime => OutOfDate \subseteq skipped

\* A ping that was answered "ok" started before its key was revoked, if it was.
HealthInv ==
    /\ \A p \in pings :
         /\ p.since <= now /\ now <= p.since + MaxFlight
         /\ p.answer = "ok" => revoked[p.key] = 0 \/ p.since <= revoked[p.key]
    /\ \A a \in Agents :
         cache[a].status = "ok" =>
             /\ cache[a].key \in Keys /\ cache[a].at <= now
             /\ \/ revoked[cache[a].key] = 0
                \/ cache[a].at <= revoked[cache[a].key] + MaxFlight

\* What the watcher will hold for the modification time of the file: what it has
\* just loaded, until it first looks at the file, and what it saw from then on.
View(f) ==
    IF NotYetSeen(f) THEN files[f].mtime
    ELSE IF watcher = "starting" THEN current[f] ELSE snapshot[f]

Watching == server = "starting" \/ watcher \in {"starting", "sleeping", "checking"}

\* What is loaded under an id, and not known to be stale, is what its file holds.
LoadedInv(i) ==
    LET f == store[i].file
    IN f # 0 =>
        /\ files[f].id = i \/ i \in left
        /\ files[f].mtime = 0 => Stem[f] = i \/ i \in left
        /\ f \notin unseen /\ i \notin left =>
             /\ View(f) # 0
             /\ files[f].state = "whole" /\ files[f].mtime = View(f) =>
                  files[f].id = i /\ store[i].version = files[f].mtime

\* A file that is seen as it is has its id loaded, and one that has gone is known
\* to have gone before the watcher finds out.
FileInv(f) ==
    /\ f \notin unseen /\ files[f].state = "whole" /\ files[f].mtime = View(f) =>
         store[files[f].id].file # 0 \/ files[f].id \in gone
    /\ View(f) # 0 /\ files[f].mtime = 0 => Stem[f] \in gone

\* What a check has listed and statted: the files it misses have gone, and what
\* was loaded from them has their name or has lost its id before.
CheckedInv ==
    /\ \A i \in Ids :
         LET f == store[i].file
         IN f # 0 /\ f \notin listed /\ current[f] = 0 => Stem[f] = i \/ i \in left
    /\ \A f \in Files :
         /\ current[f] # 0 /\ files[f].mtime = 0 => Stem[f] \in gone
         /\ f \notin listed /\ current[f] = 0 /\ snapshot[f] # 0 => Stem[f] \in gone

FilesInv ==
    \A f \in Files :
        /\ files[f].mtime <= edits /\ snapshot[f] <= edits /\ current[f] <= edits
        /\ files[f].state = "absent" <=> files[f].mtime = 0
        /\ files[f].state = "whole" => files[f].id \in Ids

RunbooksInv ==
    /\ FilesInv
    /\ server = "up" <=> watcher # "none"
    /\ listed # {} => watcher \in {"starting", "checking"}
    /\ Watching => (\A i \in Ids : LoadedInv(i)) /\ (\A f \in Files : FileInv(f))
    /\ watcher = "checking" => CheckedInv

\* The time of n callbacks, one after the other.
Calls(n) == n * MaxCallback

\* Has the check under way, or the last one, passed the session?
Passed(p) == check.at = "asleep" \/ p <= check.session

\* A session that had no callback in the check under way has not delayed it.
Unreminded(p) ==
    proposal[p].at \in {"open", "awaiting"} /\ p \notin reminded

Waits(p) ==
    /\ proposal[p].at = "open" => p \notin reminded
    /\ proposal[p].at = "awaiting" =>
         check.asOf < proposal[p].since + 2 * Sla[p]
                        + (IF Passed(p) THEN 0 ELSE Calls(MaxProposals) + CheckInterval)
    /\ Unreminded(p) =>
         /\ check.at = "asleep" =>
              check.time <= check.asOf + Calls(MaxProposals - 1) + CheckInterval
         /\ check.at = "calling" =>
              p # check.session
                /\ (p < check.session => check.time <= check.asOf + Calls(check.session - 2))
         /\ proposal[p].at = "awaiting" =>
              check.asOf < proposal[p].since + Sla[p]
                             + (IF Passed(p) THEN 0 ELSE Calls(MaxProposals - 1) + CheckInterval)
    /\ proposal[p].at = "rejected" /\ CheckInterval + Calls(MaxProposals - 1) <= Sla[p]
         => p \in reminded

EscalationInv ==
    /\ server # "up" => check.at = "off" /\ \A p \in Proposals : proposal[p].at = "open"
    /\ server = "up" => check.at # "off" /\ check.asOf <= now
    /\ check.at = "asleep" =>
         now <= check.time /\ check.time <= check.asOf + Calls(MaxProposals) + CheckInterval
    /\ check.at = "calling" =>
         /\ check.session \in Proposals
         /\ check.time <= now /\ now <= check.time + MaxCallback
         /\ check.time <= check.asOf + Calls(check.session - 1)
    /\ \A p \in Proposals : Waits(p)

-----------------------------------------------------------------------------
(* Types *)

LEMMA InitType == Init => TypeOK
<1> SUFFICES ASSUME Init PROVE TypeOK
  OBVIOUS
<1> USE DEF Init
<1>1. LifespanTypeOK
  BY LifespanAssumption DEF LifespanInit, LifespanTypeOK
<1>2. RunbooksTypeOK
  <2>1. 0 \in Version
    BY RunbooksAssumption DEF Version
  <2>2. files \in [Files -> FileType]
    BY <2>1 DEF RunbooksInit, FileType, FileStates
  <2>3. Empty \in Stores
    BY <2>1 DEF Empty, Stores
  <2>4. QED
    BY <2>1, <2>2, <2>3 DEF RunbooksInit, RunbooksTypeOK, Unknown
<1>3. CredentialsTypeOK
  BY CredentialsAssumption DEF CredentialsInit, CredentialsTypeOK, Mtime
<1>4. HealthTypeOK
  BY LifespanAssumption, HealthAssumption, CredentialsAssumption
     DEF HealthInit, HealthTypeOK, NoEntry, Status, Mtime, CredentialsInit
<1>5. EscalationTypeOK
  BY LifespanAssumption, EscalationAssumption DEF EscalationInit, EscalationTypeOK, Off
<1>6. QED
  BY <1>1, <1>2, <1>3, <1>4, <1>5 DEF TypeOK

LEMMA RunbooksApart == RunbooksNext => UNCHANGED lifespanVars
BY DEF RunbooksNext, Edit, Watch, ListFiles, StatFile, FirstSnapshot, NoChanges, Reload,
       ImportKnowledgeBase, lifespanVars

LEMMA LifespanType ==
    ASSUME LifespanTypeOK, [Next]_vars
    PROVE  LifespanTypeOK'
<1> USE LifespanAssumption DEF LifespanTypeOK
<1>1. CASE Lifecycle
  BY <1>1 DEF Lifecycle, Start, Serve, End, Launch, BeginWatching, Stop
<1>2. CASE PassTime
  BY <1>2 DEF PassTime, Tick
<1>3. CASE UNCHANGED lifespanVars
  BY <1>3 DEF lifespanVars
<1>4. CASE WatchRunbooks \/ WatchSecrets
  BY <1>3, <1>4, RunbooksApart DEF WatchRunbooks,
                    WatchSecrets, CredentialsNext, Rotate, FirstCheck, CheckSecrets,
                    ForceReload, ReadSecret, ReadFails
<1>5. CASE CheckHealth \/ Escalate
  BY <1>3, <1>5 DEF CheckHealth, HealthNext, Revoke, CheckAgent, Answer, FinishCheck,
                    Escalate, EscalationNext, Propose, Decide, CheckSessions, FinishCallback
<1>6. QED
  BY <1>1, <1>2, <1>3, <1>4, <1>5 DEF Next, vars

-----------------------------------------------------------------------------
(* Secrets *)

LEMMA CredentialsStep ==
    ASSUME LifespanTypeOK, CredentialsTypeOK, CredentialsInv, [Next]_vars
    PROVE  CredentialsTypeOK' /\ CredentialsInv'
<1> USE CredentialsAssumption, HealthAssumption
<1>1. CASE Start
  BY <1>1 DEF Start, Launch, StartCredentials, CredentialsTypeOK, CredentialsInv, Mtime
<1>2. CASE Serve
  <2>1. lastMtime = 0 /\ mounted.mtime # 0 /\ reader = "nobody"
    BY <1>2 DEF Serve, BeginWatching, CredentialsInv, CredentialsTypeOK
  <2>2. QED
    BY <1>2, <2>1 DEF Serve, BeginWatching, CredentialsTypeOK, CredentialsInv, credentialVars, OutOfDate
<1>3. CASE End
  BY <1>3 DEF End, Stop, StopCredentials, CredentialsTypeOK, CredentialsInv
<1>4. CASE UNCHANGED <<credentialVars, server>>
  BY <1>4 DEF credentialVars, CredentialsTypeOK, CredentialsInv, OutOfDate
<1>5. CASE \E renewed, lost \in SUBSET Fields : Rotate(renewed, lost)
  <2> PICK renewed \in SUBSET Fields, lost \in SUBSET Fields : Rotate(renewed, lost)
    BY <1>5
  <2>1. /\ mounted.mtime \in Mtime \ {0} /\ mounted.value \in [Fields -> Mtime]
        /\ mounted.mtime + 1 \in Mtime \ {0}
    BY DEF Rotate, CredentialsTypeOK, Mtime
  <2> DEFINE value == [f \in Fields |-> IF f \in lost THEN 0
                                        ELSE IF f \in renewed THEN mounted.mtime + 1
                                        ELSE mounted.value[f]]
  <2>2. value \in [Fields -> Mtime]
    BY <2>1 DEF Mtime
  <2>3. mounted' = [mtime |-> mounted.mtime + 1, value |-> value]
    BY DEF Rotate
  <2> HIDE DEF value
  <2>4. mounted'.mtime = mounted.mtime + 1 /\ mounted' \in [mtime: Mtime \ {0}, value: [Fields -> Mtime]]
    BY <2>1, <2>2, <2>3
  <2>5. CredentialsTypeOK'
    BY <2>4 DEF Rotate, CredentialsTypeOK
  <2>6. /\ lastMtime \in Mtime /\ statted \in Mtime /\ mounted.mtime \in Nat
        /\ lastMtime' # mounted'.mtime /\ (reader = "poll" => statted' # mounted'.mtime)
    BY <2>1, <2>4 DEF Rotate, CredentialsTypeOK, CredentialsInv, Mtime
  <2>7. CredentialsInv'
    BY <2>4, <2>6 DEF Rotate, CredentialsInv, lifespanVars, Mtime
  <2>8. QED
    BY <2>5, <2>7
<1>6. CASE FirstCheck
  BY <1>6 DEF FirstCheck, CredentialsTypeOK, CredentialsInv, OutOfDate, Mtime, lifespanVars
<1>7. CASE CheckSecrets
  BY <1>7 DEF CheckSecrets, CredentialsTypeOK, CredentialsInv, OutOfDate, Mtime, lifespanVars
<1>8. CASE ForceReload
  BY <1>8 DEF ForceReload, CredentialsTypeOK, CredentialsInv, OutOfDate, Mtime, lifespanVars
<1>9. ASSUME NEW f \in Fields, ReadSecret(f)
      PROVE  CredentialsTypeOK' /\ CredentialsInv'
  <2>1. /\ mounted.mtime \in Mtime \ {0} /\ mounted.value \in [Fields -> Mtime]
        /\ settings \in [Fields -> Mtime]
    BY DEF CredentialsTypeOK
  <2>2. settings' \in [Fields -> Mtime]
    BY <1>9, <2>1 DEF ReadSecret
  <2>3. CredentialsTypeOK'
    BY <1>9, <2>2 DEF ReadSecret, CredentialsTypeOK
  <2>4. OutOfDate' \subseteq OutOfDate \ {f}
    BY <1>9, <2>1 DEF ReadSecret, OutOfDate
  <2>5. reader # "nobody" /\ server = "up"
    BY <1>9 DEF ReadSecret, CredentialsInv
  <2>6. CASE reading' = {}
    <3>1. CASE reader = "poll"
      <4>1. lastMtime' = statted /\ reader' = "nobody" /\ reading \subseteq {f}
        BY <1>9, <2>6, <3>1 DEF ReadSecret
      <4>2. statted = mounted.mtime => OutOfDate' = {}
        BY <2>4, <3>1, <4>1 DEF CredentialsInv
      <4>3. QED
        BY <1>9, <2>3, <2>5, <2>6, <3>1, <4>1, <4>2 DEF ReadSecret, CredentialsInv, lifespanVars
    <3>2. CASE reader # "poll"
      <4>1. lastMtime' = lastMtime /\ reader' = "nobody" /\ skipped' = skipped \ {f}
        BY <1>9, <2>6, <3>2 DEF ReadSecret
      <4>2. QED
        BY <1>9, <2>3, <2>4, <2>5, <2>6, <4>1 DEF ReadSecret, CredentialsInv, lifespanVars
    <3>3. QED
      BY <3>1, <3>2
  <2>7. CASE reading' # {}
    <3>1. lastMtime' = lastMtime /\ reader' = reader /\ skipped' = skipped \ {f} /\ reading' = reading \ {f}
      BY <1>9, <2>7 DEF ReadSecret
    <3>2. QED
      BY <1>9, <2>3, <2>4, <2>5, <3>1 DEF ReadSecret, CredentialsInv, lifespanVars
  <2>8. QED
    BY <2>3, <2>6, <2>7
<1>10. CASE ReadFails
  BY <1>10 DEF ReadFails, CredentialsTypeOK, CredentialsInv, OutOfDate, lifespanVars
<1>11. CASE WatchRunbooks
  BY <1>4, <1>11, RunbooksApart DEF WatchRunbooks, lifespanVars
<1>12. CASE CheckHealth
  BY <1>4, <1>12 DEF CheckHealth, HealthNext, Revoke, CheckAgent, Answer, FinishCheck, lifespanVars
<1>13. CASE PassTime
  BY <1>4, <1>13 DEF PassTime, Tick
<1>14. CASE Escalate
  BY <1>4, <1>14 DEF Escalate, EscalationNext, Propose, Decide, CheckSessions, FinishCallback, lifespanVars
<1>15. QED
  BY <1>1, <1>2, <1>3, <1>4, <1>5, <1>6, <1>7, <1>8, <1>9, <1>10, <1>11, <1>12, <1>13, <1>14
     DEF Next, Lifecycle, WatchSecrets, CredentialsNext, vars, lifespanVars

LEMMA CredentialsAlways == Spec => [](LifespanTypeOK /\ CredentialsTypeOK /\ CredentialsInv)
<1>1. Init => LifespanTypeOK /\ CredentialsTypeOK
  BY InitType DEF TypeOK
<1>2. Init => CredentialsInv
  BY DEF Init, LifespanInit, CredentialsInit, CredentialsInv
<1>3. LifespanTypeOK /\ CredentialsTypeOK /\ CredentialsInv /\ [Next]_vars
        => (LifespanTypeOK /\ CredentialsTypeOK /\ CredentialsInv)'
  BY LifespanType, CredentialsStep
<1>4. QED
  BY <1>1, <1>2, <1>3, PTL DEF Spec

\* A mounted secret that differs from the settings will be read by the next
\* check, unless it was rotated before the first one.
THEOREM SecretsArriveWithNextCheck == Spec => []StaleOnlyUntilCheck
<1>1. CredentialsTypeOK /\ CredentialsInv => StaleOnlyUntilCheck
  <2> SUFFICES ASSUME CredentialsTypeOK, CredentialsInv, server = "up",
                      NEW f \in OutOfDate, ~(lastMtime < mounted.mtime)
               PROVE  f \in skipped
    BY DEF StaleOnlyUntilCheck
  <2>1. lastMtime = mounted.mtime
    BY CredentialsAssumption DEF CredentialsTypeOK, CredentialsInv, Mtime
  <2>2. QED
    BY <2>1 DEF CredentialsInv
<1>2. QED
  BY <1>1, CredentialsAlways, PTL

-----------------------------------------------------------------------------
(* Health of the agents *)

LEMMA HealthStep ==
    ASSUME LifespanTypeOK, CredentialsTypeOK, HealthTypeOK, HealthInv, [Next]_vars
    PROVE  HealthTypeOK' /\ HealthInv'
<1> USE LifespanAssumption, HealthAssumption, CredentialsAssumption
<1>1. CASE UNCHANGED <<healthVars, now>>
  BY <1>1 DEF healthVars, HealthTypeOK, HealthInv
<1>2. CASE End
  BY <1>2 DEF End, Stop, StopHealth, HealthTypeOK, HealthInv, NoEntry, Status, Mtime
<1>3. CASE PassTime
  BY <1>3 DEF PassTime, Tick, PingsInTime, healthVars, LifespanTypeOK, HealthTypeOK, HealthInv, Ping, Keys
<1>4. ASSUME NEW k \in Keys, Revoke(k)
      PROVE  HealthTypeOK' /\ HealthInv'
  <2>1. /\ now \in 1..MaxNow /\ revoked \in [Keys -> 0..MaxNow]
        /\ revoked' = [revoked EXCEPT ![k] = now]
        /\ now' = now /\ pings' = pings /\ cache' = cache
    BY <1>4 DEF Revoke, LifespanTypeOK, HealthTypeOK, lifespanVars
  <2>2. HealthTypeOK'
    BY <2>1 DEF HealthTypeOK
  <2>3. ASSUME NEW p \in pings
        PROVE  p.answer = "ok" => revoked'[p.key] = 0 \/ p.since <= revoked'[p.key]
    <3>1. p.key \in Keys /\ p.since <= now
      BY DEF HealthTypeOK, HealthInv, Ping
    <3>2. QED
      BY <2>1, <3>1 DEF HealthInv
  <2>4. ASSUME NEW a \in Agents, cache[a].status = "ok"
        PROVE  \/ revoked'[cache[a].key] = 0
               \/ cache[a].at <= revoked'[cache[a].key] + MaxFlight
    <3>1. cache[a].key \in Keys /\ cache[a].at <= now /\ cache[a].at \in 0..MaxNow
      BY <2>4 DEF HealthInv, HealthTypeOK
    <3>2. QED
      BY <2>1, <2>4, <3>1 DEF HealthInv
  <2>5. HealthInv'
    BY <2>1, <2>3, <2>4 DEF HealthInv
  <2>6. QED
    BY <2>2, <2>5
<1>5. ASSUME NEW a \in Agents, NEW force \in BOOLEAN, CheckAgent(a, force)
      PROVE  HealthTypeOK' /\ HealthInv'
  <2>1. /\ now \in 1..MaxNow /\ now' = now /\ revoked' = revoked
    BY <1>5 DEF CheckAgent, LifespanTypeOK, lifespanVars
  <2>2. CASE settings[ApiKey] = 0
    <3> DEFINE entry == [at |-> now, status |-> "error", key |-> 0]
    <3>1. cache' = [cache EXCEPT ![a] = entry] /\ pings' = pings
      BY <1>5, <2>2 DEF CheckAgent
    <3>2. entry \in [at: 0..MaxNow, status: Status \cup {"none"}, key: Mtime] /\ entry.status # "ok"
      BY <2>1 DEF Status, Mtime
    <3>3. QED
      BY <2>1, <2>2, <3>1, <3>2 DEF HealthTypeOK, HealthInv
  <2>3. CASE settings[ApiKey] # 0
    <3> DEFINE ping == [agent |-> a, key |-> settings[ApiKey], since |-> now, answer |-> "none"]
    <3>1. settings[ApiKey] \in Keys
      BY <2>3 DEF CredentialsTypeOK, Mtime, Keys
    <3>2. ping \in Ping /\ ping.since = now /\ ping.answer # "ok"
      BY <2>1, <3>1 DEF Ping, Status
    <3>3. cache' = cache /\ pings' \subseteq pings \cup {ping}
      BY <1>5, <2>3 DEF CheckAgent
    <3>4. HealthTypeOK'
      BY <2>1, <2>3, <3>2, <3>3 DEF HealthTypeOK
    <3>5. HealthInv'
      BY <2>1, <2>3, <3>2, <3>3 DEF HealthInv
    <3>6. QED
      BY <3>4, <3>5
  <2>4. QED
    BY <2>2, <2>3
<1>6. ASSUME NEW p \in pings, Answer(p)
      PROVE  HealthTypeOK' /\ HealthInv'
  <2> PICK status \in Status : /\ status = "ok" => revoked[p.key] = 0
                               /\ pings' = (pings \ {p}) \cup {[p EXCEPT !.answer = status]}
    BY <1>6 DEF Answer
  <2> DEFINE q == [p EXCEPT !.answer = status]
  <2>1. p \in Ping
    BY DEF HealthTypeOK
  <2>2. q \in Ping /\ q.since = p.since /\ q.key = p.key /\ q.answer = status
    BY <2>1 DEF Ping
  <2>3. now' = now /\ revoked' = revoked /\ cache' = cache
    BY <1>6 DEF Answer, lifespanVars
  <2>4. pings' = (pings \ {p}) \cup {q}
    OBVIOUS
  <2> HIDE DEF q
  <2>5. QED
    BY <2>2, <2>3, <2>4 DEF HealthTypeOK, HealthInv
<1>7. ASSUME NEW p \in pings, FinishCheck(p)
      PROVE  HealthTypeOK' /\ HealthInv'
  <2> DEFINE entry == [at |-> now, status |-> p.answer, key |-> IF p.answer = "ok" THEN p.key ELSE 0]
  <2>1. p \in Ping /\ now \in 1..MaxNow /\ now' = now /\ revoked' = revoked
    BY <1>7 DEF FinishCheck, LifespanTypeOK, HealthTypeOK, lifespanVars
  <2>2. /\ entry \in [at: 0..MaxNow, status: Status \cup {"none"}, key: Mtime]
        /\ entry.at = now /\ entry.status = p.answer /\ (p.answer = "ok" => entry.key = p.key)
    BY <2>1 DEF Ping, Keys, Mtime
  <2>3. cache' = [cache EXCEPT ![p.agent] = entry] /\ pings' = pings \ {p}
    BY <1>7 DEF FinishCheck
  <2> HIDE DEF entry
  <2>4. HealthTypeOK'
    BY <2>1, <2>2, <2>3 DEF HealthTypeOK, Ping
  <2>5. ASSUME NEW a \in Agents, cache'[a].status = "ok"
        PROVE  /\ cache'[a].key \in Keys /\ cache'[a].at <= now
               /\ \/ revoked[cache'[a].key] = 0
                  \/ cache'[a].at <= revoked[cache'[a].key] + MaxFlight
    <3>1. CASE a = p.agent
      <4>1. cache'[a] = entry
        BY <2>3, <3>1 DEF HealthTypeOK
      <4>2. p.answer = "ok" /\ entry.key = p.key /\ p.key \in Keys /\ p.since \in Nat
        BY <2>1, <2>2, <2>5, <4>1 DEF Ping
      <4>3. now <= p.since + MaxFlight /\ (revoked[p.key] = 0 \/ p.since <= revoked[p.key])
        BY <4>2 DEF HealthInv
      <4>4. revoked[p.key] \in Nat
        BY <4>2 DEF HealthTypeOK
      <4>5. QED
        BY <2>1, <2>2, <4>1, <4>2, <4>3, <4>4
    <3>2. CASE a # p.agent
      <4>1. cache'[a] = cache[a]
        BY <2>3, <3>2 DEF HealthTypeOK
      <4>2. QED
        BY <2>5, <4>1 DEF HealthInv
    <3>3. QED
      BY <3>1, <3>2
  <2>6. HealthInv'
    BY <2>1, <2>3, <2>5 DEF HealthInv
  <2>7. QED
    BY <2>4, <2>6
<1>8. QED
  <2>1. CASE Start \/ Serve \/ WatchRunbooks \/ WatchSecrets \/ Escalate \/ UNCHANGED vars
    <3>1. UNCHANGED <<healthVars, now>>
      BY <2>1, RunbooksApart
              DEF Start, Serve, Launch, BeginWatching, vars, lifespanVars, WatchRunbooks,
                  WatchSecrets, CredentialsNext, Rotate, FirstCheck, CheckSecrets, ForceReload,
                  ReadSecret, ReadFails,
                  Escalate, EscalationNext, Propose, Decide, CheckSessions, FinishCallback
    <3>2. QED
      BY <1>1, <3>1
  <2>2. QED
    BY <1>2, <1>3, <1>4, <1>5, <1>6, <1>7, <2>1 DEF Next, Lifecycle, CheckHealth, HealthNext

\* What /ready/agents serves as "ok" was true not longer ago than the cache
\* keeps an entry and a ping may last.
THEOREM OkIsRecentAlways == Spec => []OkIsRecent
<1> DEFINE Inv == LifespanTypeOK /\ CredentialsTypeOK /\ CredentialsInv
           IInv == HealthTypeOK /\ HealthInv
<1>1. Init => IInv
  <2>1. Init => HealthTypeOK
    BY InitType DEF TypeOK
  <2>2. Init => HealthInv
    BY DEF Init, LifespanInit, HealthInit, HealthInv, NoEntry
  <2>3. QED
    BY <2>1, <2>2
<1>2. Inv /\ IInv /\ [Next]_vars => IInv'
  BY HealthStep
<1>3. LifespanTypeOK /\ IInv => OkIsRecent
  <2> SUFFICES ASSUME LifespanTypeOK, HealthTypeOK, HealthInv, NEW a \in Agents, Cached(a), cache[a].status = "ok"
               PROVE  \/ revoked[cache[a].key] = 0
                      \/ now - revoked[cache[a].key] < TTL + MaxFlight
    BY DEF OkIsRecent
  <2>1. cache[a].key \in Keys /\ cache[a].at \in 0..MaxNow /\ revoked[cache[a].key] \in 0..MaxNow
    BY DEF HealthTypeOK, HealthInv
  <2>2. QED
    BY <2>1, LifespanAssumption, HealthAssumption DEF LifespanTypeOK, HealthTypeOK, HealthInv, Cached
<1>4. QED
  BY <1>1, <1>2, <1>3, CredentialsAlways, PTL DEF Spec
-----------------------------------------------------------------------------
(* Runbooks *)

\* What a load or a reload puts into a store are files and their versions.
LEMMA LoadedTypes ==
    ASSUME RunbooksTypeOK
    PROVE  /\ Empty \in Stores
           /\ Directory \subseteq Stores
           /\ Reloaded \subseteq Stores
           /\ 0 \in Version
           /\ Mtimes \in [Files -> Version] /\ Unknown \in [Files -> Version]
<1>1. 0 \in Version /\ \A f \in Files : files[f].mtime \in Version
  BY RunbooksAssumption DEF RunbooksTypeOK, FileType, Version
<1>2. \A i \in Ids : store[i] \in [file: Files \cup {0}, version: Version]
  BY DEF RunbooksTypeOK, Stores
<1>3. \A f \in Files : FromFile(f) \in [file: Files \cup {0}, version: Version]
  BY <1>1 DEF FromFile
<1>4. Empty \in Stores /\ \A i \in Ids : Empty[i] \in [file: Files \cup {0}, version: Version]
  BY <1>1 DEF Empty, Stores
<1>5. ASSUME NEW d \in Directory PROVE d \in Stores
  BY <1>3, <1>4 DEF Directory, Stores
<1>6. ASSUME NEW s \in Reloaded PROVE s \in Stores
  BY <1>2, <1>3 DEF Reloaded, Stores
<1>7. QED
  BY <1>1, <1>4, <1>5, <1>6 DEF Mtimes, Unknown

LEMMA ViewTypes ==
    ASSUME RunbooksTypeOK, RunbooksInv, NEW f \in Files
    PROVE  View(f) \in Nat /\ files[f].mtime \in Nat /\ edits \in Nat /\ View(f) <= edits
BY DEF RunbooksTypeOK, FileType, Version, RunbooksInv, FilesInv, View

\* Steps that change neither a file nor what is known of it keep what is said of
\* the store.
LEMMA SameView ==
    ASSUME RunbooksTypeOK, Watching, \A i \in Ids : LoadedInv(i), \A f \in Files : FileInv(f),
           UNCHANGED <<files, store, unseen, left, gone>>,
           \A f \in Files : View(f)' = View(f)
    PROVE  (\A i \in Ids : LoadedInv(i)') /\ (\A f \in Files : FileInv(f)')
<1>1. ASSUME NEW i \in Ids PROVE LoadedInv(i)'
  <2>1. store[i].file \in Files \cup {0}
    BY DEF RunbooksTypeOK, Stores
  <2>2. CASE store[i].file = 0
    BY <2>2 DEF LoadedInv
  <2>3. CASE store[i].file \in Files
    <3>1. View(store[i].file)' = View(store[i].file)
      BY <2>3
    <3>2. LoadedInv(i)
      OBVIOUS
    <3>3. QED
      BY <3>1, <3>2 DEF LoadedInv
  <2>4. QED
    BY <2>1, <2>2, <2>3
<1>2. ASSUME NEW f \in Files PROVE FileInv(f)'
  <2>1. FileInv(f) /\ View(f)' = View(f)
    OBVIOUS
  <2>2. QED
    BY <2>1 DEF FileInv
<1>3. QED
  BY <1>1, <1>2

LEMMA EditKeeps ==
    ASSUME RunbooksTypeOK, RunbooksInv,
           NEW g \in Files, NEW state \in FileStates, NEW id \in Ids, Edit(g, state, id)
    PROVE  RunbooksTypeOK' /\ RunbooksInv'
<1>1. /\ edits \in Nat /\ edits' = edits + 1 /\ edits' \in Version /\ 0 \in Version
      /\ UNCHANGED <<store, watcher, listed, current, snapshot, agents, server>>
  BY RunbooksAssumption DEF Edit, RunbooksTypeOK, Version, lifespanVars, watcherVars
<1> DEFINE entry == [state |-> state,
                     mtime |-> IF state = "absent" THEN 0 ELSE edits',
                     id |-> IF state = "whole" THEN id ELSE files[g].id]
<1>2. files' = [files EXCEPT ![g] = entry]
  BY DEF Edit, RunbooksTypeOK
<1>3. /\ entry \in FileType
      /\ entry.state = state /\ entry.id = IF state = "whole" THEN id ELSE files[g].id
      /\ entry.mtime = 0 <=> state = "absent"
      /\ entry.mtime = 0 \/ entry.mtime = edits + 1
  BY <1>1 DEF FileType, RunbooksTypeOK
<1> HIDE DEF entry
<1>4. files' \in [Files -> FileType] /\ files'[g] = entry /\ \A f \in Files \ {g} : files'[f] = files[f]
  BY <1>2, <1>3 DEF RunbooksTypeOK
<1>5. /\ unseen' = IF NotYetSeen(g) THEN unseen \cup {g} ELSE unseen
      /\ left' = IF entry.id # files[g].id \/ (state = "absent" /\ Stem[g] # files[g].id)
                 THEN left \cup {files[g].id} ELSE left
      /\ gone' = IF state = "absent" THEN gone \cup {Stem[g]} ELSE gone
  BY <1>4 DEF Edit
<1>6. RunbooksTypeOK'
  <2>1. files[g].id \in Ids \cup {NoId} /\ Stem[g] \in Ids
    BY RunbooksAssumption DEF RunbooksTypeOK, FileType
  <2>2. left' \in SUBSET (Ids \cup {NoId}) /\ gone' \in SUBSET Ids /\ unseen' \in SUBSET Files
    BY <1>5, <2>1 DEF RunbooksTypeOK
  <2>3. QED
    BY <1>1, <1>4, <2>2 DEF RunbooksTypeOK
<1>7. FilesInv'
  <2>1. \A f \in Files : snapshot[f] \in Nat /\ current[f] \in Nat /\ files[f].mtime \in Nat
    BY DEF RunbooksTypeOK, FileType, Version
  <2>2. \A f \in Files : snapshot'[f] <= edits' /\ current'[f] <= edits'
    BY <1>1, <2>1 DEF RunbooksInv, FilesInv
  <2>3. files'[g].mtime <= edits' /\ (files'[g].state = "absent" <=> files'[g].mtime = 0)
          /\ (files'[g].state = "whole" => files'[g].id \in Ids)
    BY <1>1, <1>3, <1>4
  <2>4. \A f \in Files \ {g} :
          /\ files'[f].mtime <= edits'
          /\ files'[f].state = "absent" <=> files'[f].mtime = 0
          /\ files'[f].state = "whole" => files'[f].id \in Ids
    BY <1>1, <1>4, <2>1 DEF RunbooksInv, FilesInv
  <2>5. QED
    BY <2>2, <2>3, <2>4 DEF FilesInv
<1>8. \A f \in Files : View(f)' = View(f) \/ (f = g /\ NotYetSeen(g))
  BY <1>1, <1>4 DEF View, NotYetSeen
<1>9. NotYetSeen(g) => g \in unseen'
  BY <1>5
<1>10. ~NotYetSeen(g) => View(g)' = View(g) /\ View(g) \in Nat /\ View(g) <= edits
  BY <1>8, ViewTypes
<1>11. unseen \subseteq unseen' /\ left \subseteq left' /\ gone \subseteq gone'
         /\ (g # g => FALSE) /\ \A f \in Files \ {g} : f \in unseen' => f \in unseen
  BY <1>5
<1>12. ASSUME Watching', NEW i \in Ids
       PROVE  LoadedInv(i)'
  <2>1. Watching /\ store'[i] = store[i] /\ store[i].file \in Files \cup {0}
    BY <1>1, <1>12 DEF Watching, RunbooksTypeOK, Stores
  <2>2. LoadedInv(i)
    BY <2>1 DEF RunbooksInv
  <2>3. CASE store[i].file = 0
    BY <2>1, <2>3 DEF LoadedInv
  <2>4. CASE store[i].file \in Files \ {g}
    BY <1>4, <1>8, <1>11, <2>1, <2>2, <2>4 DEF LoadedInv
  <2>5. CASE store[i].file = g /\ store[i].file # 0
    <3>1. files[g].id = i \/ i \in left
      BY <2>2, <2>5 DEF LoadedInv
    <3>2. files'[g].id = i \/ i \in left'
      BY <1>4, <1>5, <3>1
    <3>3. files'[g].mtime = 0 => Stem[g] = i \/ i \in left'
      BY <1>3, <1>4, <1>5, <3>1
    <3>4. ASSUME g \notin unseen', i \notin left'
          PROVE  View(g)' # 0 /\ files'[g].mtime # View(g)'
      <4>1. ~NotYetSeen(g) /\ g \notin unseen /\ i \notin left
        BY <1>9, <1>11, <3>4
      <4>2. View(g) # 0
        BY <2>2, <2>5, <4>1 DEF LoadedInv
      <4>3. QED
        BY <1>1, <1>3, <1>4, <1>10, <4>1, <4>2
    <3>5. QED
      BY <2>1, <2>5, <3>2, <3>3, <3>4 DEF LoadedInv
  <2>6. QED
    BY <2>1, <2>3, <2>4, <2>5
<1>13. ASSUME Watching', NEW f \in Files
       PROVE  FileInv(f)'
  <2>1. Watching
    BY <1>1, <1>13 DEF Watching
  <2>2. FileInv(f)
    BY <2>1 DEF RunbooksInv
  <2>3. CASE f # g
    BY <1>1, <1>4, <1>8, <1>11, <2>2, <2>3 DEF FileInv
  <2>4. CASE f = g
    <3>1. files'[g].mtime = 0 => Stem[g] \in gone'
      BY <1>3, <1>4, <1>5
    <3>2. ASSUME g \notin unseen', files'[g].state = "whole"
          PROVE  files'[g].mtime # View(g)'
      BY <1>1, <1>3, <1>4, <1>9, <1>10, <3>2
    <3>3. QED
      BY <2>4, <3>1, <3>2 DEF FileInv
  <2>5. QED
    BY <2>3, <2>4
<1>14. ASSUME watcher' = "checking"
       PROVE  CheckedInv'
  <2>1. CheckedInv
    BY <1>1, <1>14 DEF RunbooksInv
  <2>2. ASSUME NEW f \in Files, current[f] # 0, files'[f].mtime = 0
        PROVE  Stem[f] \in gone'
    <3>1. CASE f = g
      BY <1>3, <1>4, <1>5, <2>2, <3>1
    <3>2. CASE f # g
      BY <1>4, <1>11, <2>1, <2>2, <3>2 DEF CheckedInv
    <3>3. QED
      BY <3>1, <3>2
  <2>3. \A i \in Ids :
          store[i].file # 0 /\ store[i].file \notin listed /\ current[store[i].file] = 0 =>
              Stem[store[i].file] = i \/ i \in left'
    BY <1>11, <2>1 DEF CheckedInv
  <2>4. \A f \in Files : f \notin listed /\ current[f] = 0 /\ snapshot[f] # 0 => Stem[f] \in gone'
    BY <1>11, <2>1 DEF CheckedInv
  <2>5. QED
    BY <1>1, <2>2, <2>3, <2>4 DEF CheckedInv
<1>15. /\ server' = "up" <=> watcher' # "none"
       /\ listed' # {} => watcher' \in {"starting", "checking"}
  BY <1>1 DEF RunbooksInv
<1>16. QED
  BY <1>6, <1>7, <1>12, <1>13, <1>14, <1>15 DEF RunbooksInv

\* Loading the directory: what is loaded is what the files hold.
LEMMA StartKeeps ==
    ASSUME RunbooksTypeOK, RunbooksInv, Start
    PROVE  RunbooksTypeOK' /\ RunbooksInv'
<1>1. /\ store' \in Directory /\ server = "down" /\ server' = "starting"
      /\ unseen' = {} /\ left' = {} /\ gone' = {}
      /\ UNCHANGED <<files, edits, watcher, listed, current, snapshot, agents>>
  BY DEF Start, Launch, StartRunbooks
<1>2. RunbooksTypeOK'
  BY <1>1, LoadedTypes DEF RunbooksTypeOK
<1>3. watcher' = "none"
  BY <1>1 DEF RunbooksInv
<1>4. FilesInv'
  BY <1>1 DEF RunbooksInv, FilesInv
<1>5. \A f \in Files : View(f)' = files[f].mtime
  BY <1>1 DEF View, NotYetSeen
<1>6. \A f \in Files : 0 # f
  BY RunbooksAssumption
<1>7. ASSUME NEW i \in Ids PROVE LoadedInv(i)'
  <2>1. CASE Carriers(i) = {}
    BY <1>1, <2>1 DEF Directory, Empty, LoadedInv
  <2>2. CASE Carriers(i) # {}
    <3>1. PICK f \in Carriers(i) : store'[i] = FromFile(f)
      BY <1>1, <2>2 DEF Directory
    <3>2. /\ f \in Files /\ files[f].state = "whole" /\ files[f].id = i
          /\ store'[i].file = f /\ store'[i].version = files[f].mtime
      BY <3>1 DEF Carriers, FromFile
    <3>3. files[f].mtime # 0
      BY <3>2 DEF RunbooksInv, FilesInv
    <3>4. View(f)' = files[f].mtime
      BY <1>5, <3>2
    <3>5. QED
      BY <1>1, <3>2, <3>3, <3>4 DEF LoadedInv
  <2>3. QED
    BY <2>1, <2>2
<1>8. ASSUME NEW f \in Files PROVE FileInv(f)'
  <2>1. ASSUME files[f].state = "whole" PROVE store'[files[f].id].file # 0
    <3>1. files[f].id \in Ids /\ f \in Carriers(files[f].id)
      BY <2>1 DEF RunbooksInv, FilesInv, Carriers
    <3>2. PICK g \in Carriers(files[f].id) : store'[files[f].id] = FromFile(g)
      BY <1>1, <3>1 DEF Directory
    <3>3. QED
      BY <1>6, <3>2 DEF FromFile, Carriers
  <2>2. View(f)' = files[f].mtime
    BY <1>5
  <2>3. QED
    BY <1>1, <2>1, <2>2 DEF FileInv
<1>9. QED
  BY <1>1, <1>2, <1>3, <1>4, <1>7, <1>8 DEF RunbooksInv

LEMMA ServeKeeps ==
    ASSUME RunbooksTypeOK, RunbooksInv, Serve
    PROVE  RunbooksTypeOK' /\ RunbooksInv'
<1>1. /\ server = "starting" /\ server' = "up" /\ watcher' = "starting"
      /\ listed' = Present /\ current' = Unknown
      /\ UNCHANGED <<files, edits, store, snapshot, agents, unseen, left, gone>>
  BY DEF Serve, BeginWatching, StartWatching, historyVars
<1>2. RunbooksTypeOK'
  BY <1>1, LoadedTypes DEF RunbooksTypeOK, Present
<1>3. FilesInv'
  <2>1. \A f \in Files : current'[f] = 0 /\ 0 <= edits
    BY <1>1 DEF Unknown, RunbooksTypeOK, Version
  <2>2. QED
    BY <1>1, <2>1 DEF RunbooksInv, FilesInv
<1>4. \A f \in Files : View(f)' = View(f)
  <2>1. \A f \in Files : f \notin Present => files[f].mtime = 0
    BY DEF RunbooksInv, FilesInv, Present
  <2>2. QED
    BY <1>1, <2>1 DEF View, NotYetSeen, Unknown
<1>5. Watching
  BY <1>1 DEF Watching
<1>6. (\A i \in Ids : LoadedInv(i)') /\ (\A f \in Files : FileInv(f)')
  BY <1>1, <1>4, <1>5, SameView DEF RunbooksInv
<1>7. QED
  BY <1>1, <1>2, <1>3, <1>6 DEF RunbooksInv

\* A check begins: the files it does not find have gone.
LEMMA ListKeeps ==
    ASSUME RunbooksTypeOK, RunbooksInv, ListFiles
    PROVE  RunbooksTypeOK' /\ RunbooksInv'
<1>1. /\ watcher = "sleeping" /\ watcher' = "checking"
      /\ listed' = Present /\ current' = Unknown
      /\ UNCHANGED <<files, edits, store, snapshot, agents, unseen, left, gone, server>>
  BY DEF ListFiles, historyVars, lifespanVars
<1>2. RunbooksTypeOK'
  BY <1>1, LoadedTypes DEF RunbooksTypeOK, Present
<1>3. \A f \in Files : current'[f] = 0 /\ 0 <= edits
  BY <1>1 DEF Unknown, RunbooksTypeOK, Version
<1>4. FilesInv'
  BY <1>1, <1>3 DEF RunbooksInv, FilesInv
<1>5. server = "up"
  BY <1>1 DEF RunbooksInv
<1>6. \A f \in Files : View(f)' = View(f) /\ View(f) = snapshot[f]
  BY <1>1, <1>5 DEF View, NotYetSeen
<1>7. Watching
  BY <1>1 DEF Watching
<1>8. (\A i \in Ids : LoadedInv(i)) /\ (\A f \in Files : FileInv(f))
  BY <1>7 DEF RunbooksInv
<1>9. (\A i \in Ids : LoadedInv(i)') /\ (\A f \in Files : FileInv(f)')
  BY <1>1, <1>6, <1>7, <1>8, SameView
<1>10. \A f \in Files : f \notin listed' => files[f].mtime = 0
  BY <1>1 DEF RunbooksInv, FilesInv, Present
<1>11. CheckedInv'
  <2>1. ASSUME NEW i \in Ids, store[i].file # 0, store[i].file \notin listed'
        PROVE  Stem[store[i].file] = i \/ i \in left
    <3>1. store[i].file \in Files
      BY <2>1 DEF RunbooksTypeOK, Stores
    <3>2. QED
      BY <1>8, <1>10, <2>1, <3>1 DEF LoadedInv
  <2>2. ASSUME NEW f \in Files, f \notin listed', snapshot[f] # 0
        PROVE  Stem[f] \in gone
    BY <1>6, <1>8, <1>10, <2>2 DEF FileInv
  <2>3. QED
    BY <1>1, <1>3, <2>1, <2>2 DEF CheckedInv
<1>12. QED
  BY <1>1, <1>2, <1>4, <1>5, <1>9, <1>11 DEF RunbooksInv

LEMMA StatKeeps ==
    ASSUME RunbooksTypeOK, RunbooksInv, NEW g \in Files, StatFile(g)
    PROVE  RunbooksTypeOK' /\ RunbooksInv'
<1>1. /\ g \in listed /\ watcher \in {"starting", "checking"} /\ server = "up"
      /\ UNCHANGED <<files, edits, store, snapshot, agents, unseen, left, gone, server>>
  BY DEF StatFile, historyVars, lifespanVars, RunbooksInv
<1>2. CASE watcher' = "dead" /\ listed' = {} /\ UNCHANGED current
  <2>1. RunbooksTypeOK'
    BY <1>1, <1>2 DEF RunbooksTypeOK
  <2>2. FilesInv'
    BY <1>1, <1>2 DEF RunbooksInv, FilesInv
  <2>3. QED
    BY <1>1, <1>2, <2>1, <2>2 DEF RunbooksInv, Watching
<1>3. CASE /\ files[g].state \in {"whole", "broken"}
           /\ listed' = listed \ {g}
           /\ current' = [current EXCEPT ![g] = files[g].mtime]
           /\ UNCHANGED watcher
  <2>1. files[g].mtime \in Version /\ files[g].mtime # 0 /\ files[g].mtime <= edits
    BY <1>3 DEF RunbooksTypeOK, FileType, RunbooksInv, FilesInv
  <2>2. current'[g] = files[g].mtime /\ \A f \in Files \ {g} : current'[f] = current[f]
    BY <1>3 DEF RunbooksTypeOK
  <2>3. RunbooksTypeOK'
    BY <1>1, <1>3, <2>1 DEF RunbooksTypeOK
  <2>4. FilesInv'
    BY <1>1, <2>1, <2>2 DEF RunbooksInv, FilesInv
  <2>5. \A f \in Files : View(f)' = View(f)
    BY <1>1, <1>3, <2>2 DEF View, NotYetSeen
  <2>6. Watching
    BY <1>1 DEF Watching
  <2>7. (\A i \in Ids : LoadedInv(i)') /\ (\A f \in Files : FileInv(f)')
    BY <1>1, <2>5, <2>6, SameView DEF RunbooksInv
  <2>8. ASSUME watcher' = "checking" PROVE CheckedInv'
    <3>1. CheckedInv
      BY <1>3, <2>8 DEF RunbooksInv
    <3>2. \A f \in Files : current'[f] = 0 /\ f \notin listed' => current[f] = 0 /\ f \notin listed
      BY <1>3, <2>1, <2>2
    <3>3. \A i \in Ids : store[i].file \in Files \cup {0}
      BY DEF RunbooksTypeOK, Stores
    <3>4. \A f \in Files : current'[f] # 0 /\ files[f].mtime = 0 => current[f] # 0
      BY <2>1, <2>2
    <3>5. QED
      BY <1>1, <3>1, <3>2, <3>3, <3>4 DEF CheckedInv
  <2>9. QED
    BY <1>1, <1>3, <2>3, <2>4, <2>7, <2>8 DEF RunbooksInv
<1>4. QED
  BY <1>2, <1>3 DEF StatFile

\* A snapshot, the first one or that of a check that finds no changes, adds
\* nothing to what the stats have shown.
LEMMA SnapshotKeeps ==
    ASSUME RunbooksTypeOK, RunbooksInv, FirstSnapshot \/ NoChanges
    PROVE  RunbooksTypeOK' /\ RunbooksInv'
<1>1. /\ watcher \in {"starting", "checking"} /\ watcher' = "sleeping" /\ listed = {}
      /\ IF watcher = "starting" THEN snapshot' = current ELSE UNCHANGED snapshot
      /\ UNCHANGED <<files, edits, store, listed, current, agents, unseen, left, gone, server>>
  BY DEF FirstSnapshot, NoChanges, historyVars, lifespanVars
<1>2. server = "up"
  BY <1>1 DEF RunbooksInv
<1>3. RunbooksTypeOK'
  BY <1>1 DEF RunbooksTypeOK
<1>4. FilesInv'
  BY <1>1 DEF RunbooksInv, FilesInv
<1>5. \A f \in Files : View(f)' = View(f)
  BY <1>1, <1>2 DEF View, NotYetSeen
<1>6. Watching
  BY <1>1 DEF Watching
<1>7. (\A i \in Ids : LoadedInv(i)') /\ (\A f \in Files : FileInv(f)')
  BY <1>1, <1>5, <1>6, SameView DEF RunbooksInv
<1>8. QED
  BY <1>1, <1>2, <1>3, <1>4, <1>7 DEF RunbooksInv

\* A reload takes the files that have changed as they are now, and not as they
\* were when they were statted; a file edited since is not taken for settled.
LEMMA ReloadKeeps ==
    ASSUME RunbooksTypeOK, RunbooksInv, Reload
    PROVE  RunbooksTypeOK' /\ RunbooksInv'
<1>1. /\ watcher = "checking" /\ listed = {} /\ watcher' = "sleeping"
      /\ snapshot' = current /\ unseen' = unseen \ (Changed \cup Removed)
      /\ UNCHANGED <<files, edits, listed, current, agents, left, gone, server>>
  BY DEF Reload, lifespanVars
<1>2. PICK s \in Reloaded : store' = [i \in Ids |-> IF i \in Dropped THEN Empty[i] ELSE s[i]]
  BY DEF Reload
<1>3. server = "up" /\ CheckedInv /\ Watching
  BY <1>1 DEF RunbooksInv, Watching
<1>4. (\A i \in Ids : LoadedInv(i)) /\ (\A f \in Files : FileInv(f))
  BY <1>3 DEF RunbooksInv
<1>5. RunbooksTypeOK'
  <2>1. s \in Stores /\ Empty \in Stores
    BY LoadedTypes
  <2>2. store' \in Stores
    BY <1>2, <2>1 DEF Stores
  <2>3. QED
    BY <1>1, <2>2 DEF RunbooksTypeOK
<1>6. FilesInv'
  BY <1>1 DEF RunbooksInv, FilesInv
<1>7. \A f \in Files : View(f) = snapshot[f] /\ View(f)' = current[f]
  BY <1>1, <1>3 DEF View, NotYetSeen
<1>8. ASSUME NEW i \in Ids, i \notin Dropped
      PROVE  \/ store'[i] = store[i] /\ Carriers(i) \cap Changed = {}
             \/ \E f \in Carriers(i) \cap Changed : store'[i] = FromFile(f)
  <2>1. store'[i] = s[i]
    BY <1>2, <1>8
  <2>2. QED
    BY <2>1 DEF Reloaded
<1>9. \A i \in Dropped : i \in Ids => store'[i].file = 0
  BY <1>2 DEF Empty
<1>10. \A f \in Removed : Stem[f] \in gone /\ Stem[f] \in Dropped
  BY <1>1, <1>3 DEF Removed, Dropped, CheckedInv
<1>11. ASSUME NEW i \in Ids PROVE LoadedInv(i)'
  <2>1. CASE i \in Dropped
    BY <1>9, <2>1 DEF LoadedInv
  <2>2. ASSUME i \notin Dropped, NEW f \in Carriers(i) \cap Changed, store'[i] = FromFile(f)
        PROVE  LoadedInv(i)'
    <3>1. /\ f \in Files /\ files[f].state = "whole" /\ files[f].id = i /\ current[f] # 0
          /\ store'[i].file = f /\ store'[i].version = files[f].mtime
      BY <2>2 DEF Carriers, Changed, FromFile
    <3>2. files[f].mtime # 0 /\ View(f)' # 0
      BY <1>7, <3>1 DEF RunbooksInv, FilesInv
    <3>3. QED
      BY <1>1, <3>1, <3>2 DEF LoadedInv
  <2>3. CASE i \notin Dropped /\ store'[i] = store[i] /\ Carriers(i) \cap Changed = {}
    <3>1. store[i].file \in Files \cup {0}
      BY DEF RunbooksTypeOK, Stores
    <3>2. CASE store[i].file = 0
      BY <2>3, <3>2 DEF LoadedInv
    <3>3. CASE store[i].file \in Files /\ store[i].file # 0
      <4>0. PICK f \in Files : f = store[i].file /\ f # 0
        BY <3>3
      <4>1. f = store[i].file /\ f # 0 /\ store'[i].file = f /\ store'[i].version = store[i].version
        BY <2>3, <4>0
      <4>2. /\ files[f].id = i \/ i \in left
            /\ files[f].mtime = 0 => Stem[f] = i \/ i \in left
        BY <1>4, <4>1 DEF LoadedInv
      <4>3. current[f] = 0 => Stem[f] = i \/ i \in left
        BY <1>1, <1>3, <4>1 DEF CheckedInv
      <4>4. f \in Removed => i \in left
        BY <1>10, <2>3, <4>3 DEF Removed
      <4>5. ASSUME f \notin unseen', i \notin left
            PROVE  /\ View(f)' # 0
                   /\ files[f].state = "whole" /\ files[f].mtime = View(f)' =>
                        files[f].id = i /\ store[i].version = files[f].mtime
        <5>1. CASE f \in Changed
          <6>1. View(f)' # 0
            BY <1>7, <4>1, <5>1 DEF Changed
          <6>2. files[f].state # "whole"
            BY <2>3, <4>1, <4>2, <4>5, <5>1 DEF Carriers
          <6>3. QED
            BY <6>1, <6>2
        <5>2. CASE f \notin Changed
          <6>1. current[f] = snapshot[f] /\ f \notin unseen
            BY <1>1, <4>1, <4>4, <4>5, <5>2 DEF Changed, Removed
          <6>2. LoadedInv(i)
            BY <1>4
          <6>3. QED
            BY <1>7, <4>1, <4>5, <6>1, <6>2 DEF LoadedInv
        <5>3. QED
          BY <5>1, <5>2
      <4>6. QED
        BY <1>1, <4>1, <4>2, <4>5 DEF LoadedInv
    <3>4. QED
      BY <3>1, <3>2, <3>3
  <2>4. QED
    BY <1>8, <2>1, <2>2, <2>3
<1>12. ASSUME NEW f \in Files PROVE FileInv(f)'
  <2>1. View(f)' # 0 /\ files[f].mtime = 0 => Stem[f] \in gone
    BY <1>3, <1>7 DEF CheckedInv
  <2>2. ASSUME f \notin unseen', files[f].state = "whole", files[f].mtime = View(f)'
        PROVE  store'[files[f].id].file # 0 \/ files[f].id \in gone
    <3>1. files[f].id \in Ids /\ files[f].mtime # 0 /\ current[f] = files[f].mtime
      BY <1>7, <2>2 DEF RunbooksInv, FilesInv
    <3>2. CASE files[f].id \in Dropped
      BY <1>10, <3>2 DEF Dropped
    <3>3. CASE \E g \in Carriers(files[f].id) \cap Changed : store'[files[f].id] = FromFile(g)
      BY <3>3, RunbooksAssumption DEF FromFile, Carriers
    <3>4. CASE store'[files[f].id] = store[files[f].id] /\ Carriers(files[f].id) \cap Changed = {}
      <4>1. f \notin Changed /\ f \notin Removed
        BY <2>2, <3>1, <3>4 DEF Carriers, Removed
      <4>2. current[f] = snapshot[f] /\ f \notin unseen
        BY <1>1, <2>2, <3>1, <4>1 DEF Changed
      <4>3. FileInv(f)
        BY <1>4
      <4>4. QED
        BY <1>7, <2>2, <3>1, <3>4, <4>2, <4>3 DEF FileInv
    <3>5. QED
      BY <1>8, <3>1, <3>2, <3>3, <3>4
  <2>3. QED
    BY <1>1, <2>1, <2>2 DEF FileInv
<1>13. QED
  BY <1>1, <1>3, <1>5, <1>6, <1>11, <1>12 DEF RunbooksInv

LEMMA EndKeeps ==
    ASSUME RunbooksTypeOK, RunbooksInv, End
    PROVE  RunbooksTypeOK' /\ RunbooksInv'
<1>1. /\ server' = "down" /\ watcher' = "none"
      /\ store' = Empty /\ agents' = Empty /\ listed' = {}
      /\ current' = Unknown /\ snapshot' = Unknown
      /\ UNCHANGED <<files, edits, unseen, left, gone>>
  BY DEF End, Stop, StopRunbooks, historyVars
<1>2. RunbooksTypeOK'
  BY <1>1, LoadedTypes DEF RunbooksTypeOK
<1>3. \A f \in Files : current'[f] = 0 /\ snapshot'[f] = 0 /\ 0 <= edits
  BY <1>1 DEF Unknown, RunbooksTypeOK, Version
<1>4. FilesInv'
  BY <1>1, <1>3 DEF RunbooksInv, FilesInv
<1>5. QED
  BY <1>1, <1>2, <1>4 DEF RunbooksInv, Watching

LEMMA RunbooksSame ==
    ASSUME RunbooksTypeOK, RunbooksInv,
           UNCHANGED <<files, edits, watcherVars, historyVars, server>>, agents' \in Stores
    PROVE  RunbooksTypeOK' /\ RunbooksInv'
<1>1. UNCHANGED <<files, edits, store, watcher, listed, current, snapshot, unseen, left, gone, server>>
  BY DEF watcherVars, historyVars
<1>2. RunbooksTypeOK'
  BY <1>1 DEF RunbooksTypeOK
<1>3. FilesInv'
  BY <1>1 DEF RunbooksInv, FilesInv
<1>4. \A f \in Files : View(f)' = View(f)
  BY <1>1 DEF View, NotYetSeen
<1>5. Watching => (\A i \in Ids : LoadedInv(i)') /\ (\A f \in Files : FileInv(f)')
  BY <1>1, <1>4, SameView DEF RunbooksInv
<1>6. watcher = "checking" => CheckedInv'
  BY <1>1 DEF RunbooksInv, CheckedInv
<1>7. QED
  BY <1>1, <1>2, <1>3, <1>5, <1>6 DEF RunbooksInv, Watching

LEMMA RunbooksStep ==
    ASSUME LifespanTypeOK, RunbooksTypeOK, RunbooksInv, [Next]_vars
    PROVE  RunbooksTypeOK' /\ RunbooksInv'
<1>1. CASE Start
  BY <1>1, StartKeeps
<1>2. CASE Serve
  BY <1>2, ServeKeeps
<1>3. CASE End
  BY <1>3, EndKeeps
<1>4. CASE UNCHANGED <<runbookVars, server>>
  <2>1. UNCHANGED <<files, edits, watcherVars, historyVars, server>> /\ agents' \in Stores
    BY <1>4 DEF runbookVars, RunbooksTypeOK
  <2>2. QED
    BY <2>1, RunbooksSame
<1>5. CASE ImportKnowledgeBase
  <2>1. UNCHANGED <<files, edits, watcherVars, historyVars, server>> /\ agents' \in Stores
    BY <1>5, LoadedTypes DEF ImportKnowledgeBase, lifespanVars
  <2>2. QED
    BY <2>1, RunbooksSame
<1>6. CASE \E f \in Files, state \in FileStates, id \in Ids : Edit(f, state, id)
  BY <1>6, EditKeeps
<1>7. CASE Watch
  BY <1>7, ListKeeps, StatKeeps, SnapshotKeeps, ReloadKeeps DEF Watch
<1>8. CASE WatchSecrets
  BY <1>4, <1>8 DEF WatchSecrets, CredentialsNext, Rotate, FirstCheck, CheckSecrets, ForceReload,
                    ReadSecret, ReadFails, lifespanVars
<1>9. CASE CheckHealth
  BY <1>4, <1>9 DEF CheckHealth, HealthNext, Revoke, CheckAgent, Answer, FinishCheck, lifespanVars
<1>10. CASE PassTime
  BY <1>4, <1>10 DEF PassTime, Tick
<1>11. CASE Escalate
  BY <1>4, <1>11 DEF Escalate, EscalationNext, Propose, Decide, CheckSessions, FinishCallback, lifespanVars
<1>12. QED
  BY <1>1, <1>2, <1>3, <1>4, <1>5, <1>6, <1>7, <1>8, <1>9, <1>10, <1>11
     DEF Next, Lifecycle, WatchRunbooks, RunbooksNext, vars, lifespanVars

LEMMA RunbooksAlways == Spec => [](LifespanTypeOK /\ RunbooksTypeOK /\ RunbooksInv)
<1>1. Init => LifespanTypeOK /\ RunbooksTypeOK
  BY InitType DEF TypeOK
<1>2. Init => RunbooksInv
  BY RunbooksAssumption
     DEF Init, LifespanInit, RunbooksInit, RunbooksInv, FilesInv, Watching, Unknown
<1>3. LifespanTypeOK /\ RunbooksTypeOK /\ RunbooksInv /\ [Next]_vars
        => (LifespanTypeOK /\ RunbooksTypeOK /\ RunbooksInv)'
  BY LifespanType, RunbooksStep
<1>4. QED
  BY <1>1, <1>2, <1>3, PTL DEF Spec

\* Between two checks the watched store and the directory agree on the files the
\* watcher has seen, but for the ids that a file has given up and the names that
\* were removed, for any files, ids, names and edits before, between and during
\* the checks.
THEOREM WatchedIsOnDiskAlways == Spec => []WatchedIsOnDisk
<1>1. RunbooksTypeOK /\ RunbooksInv => WatchedIsOnDisk
  <2> SUFFICES ASSUME RunbooksTypeOK, RunbooksInv, watcher = "sleeping"
               PROVE  WatchedIsOnDisk
    BY DEF WatchedIsOnDisk
  <2>1. server = "up" /\ (\A i \in Ids : LoadedInv(i)) /\ (\A f \in Files : FileInv(f))
    BY DEF RunbooksInv, Watching
  <2>2. \A f \in Files : View(f) = snapshot[f]
    BY <2>1 DEF View, NotYetSeen
  <2>3. ASSUME NEW i \in Ids \ left, store[i].file # 0, Settled(store[i].file)
        PROVE  store[i].file \in Carriers(i) /\ store[i] = FromFile(store[i].file)
    <3> DEFINE f == store[i].file
    <3>1. store[i] \in [file: Files \cup {0}, version: Version] /\ f \in Files
      BY <2>3 DEF RunbooksTypeOK, Stores
    <3>2. View(f) = files[f].mtime /\ f \notin unseen /\ files[f].state \in {"absent", "whole"}
      BY <2>2, <2>3, <3>1 DEF Settled
    <3>3. View(f) # 0 /\ (files[f].state = "whole" /\ files[f].mtime = View(f) =>
                            files[f].id = i /\ store[i].version = files[f].mtime)
      BY <2>1, <2>3, <3>2 DEF LoadedInv
    <3>4. files[f].state = "whole"
      BY <3>1, <3>2, <3>3 DEF RunbooksInv, FilesInv
    <3>5. QED
      BY <3>1, <3>2, <3>3, <3>4 DEF Carriers, FromFile
  <2>4. ASSUME NEW f \in Present, Settled(f)
        PROVE  store[files[f].id].file # 0 \/ files[f].id \in gone
    BY <2>1, <2>2, <2>4 DEF FileInv, Settled, Present
  <2>5. QED
    BY <2>3, <2>4 DEF WatchedIsOnDisk
<1>2. QED
  BY <1>1, RunbooksAlways, PTL

-----------------------------------------------------------------------------
(* Proposals *)

LEMMA CallsFacts ==
    /\ Calls(0) = 0
    /\ \A n \in Nat : Calls(n) \in Nat /\ Calls(n + 1) = Calls(n) + MaxCallback
    /\ \A m, n \in Nat : m <= n => Calls(m) <= Calls(n)
<1>1. MaxCallback \in Nat
  BY EscalationAssumption
<1>2. Calls(0) = 0 /\ \A n \in Nat : Calls(n) \in Nat /\ Calls(n + 1) = Calls(n) + MaxCallback
  BY <1>1 DEF Calls
<1>3. ASSUME NEW m \in Nat, NEW n \in Nat, m <= n
      PROVE  Calls(m) <= Calls(n)
  <2>1. PICK d \in Nat : n = m + d
    BY <1>3
  <2>2. d * MaxCallback \in Nat /\ m * MaxCallback \in Nat
    BY <1>1
  <2>3. (m + d) * MaxCallback = m * MaxCallback + d * MaxCallback
    BY <1>1
  <2>4. QED
    BY <2>1, <2>2, <2>3 DEF Calls
<1>4. QED
  BY <1>2, <1>3

\* What holds before a visit of the sessions from one on, as of some time.
Before(first, asOf) ==
    /\ now <= asOf + Calls(first - 1)
    /\ \A p \in Proposals :
         /\ proposal[p].at = "open" => p \notin reminded
         /\ proposal[p].at = "awaiting" =>
              asOf < proposal[p].since + 2 * Sla[p]
                       + (IF p < first THEN 0 ELSE Calls(MaxProposals) + CheckInterval)
         /\ Unreminded(p) =>
              /\ p < first => now <= asOf + Calls(first - 2)
              /\ proposal[p].at = "awaiting" =>
                   asOf < proposal[p].since + Sla[p]
                            + (IF p < first THEN 0 ELSE Calls(MaxProposals - 1) + CheckInterval)
         /\ proposal[p].at = "rejected" /\ CheckInterval + Calls(MaxProposals - 1) <= Sla[p]
              => p \in reminded

LEMMA ProposalFacts ==
    ASSUME EscalationTypeOK, NEW p \in Proposals
    PROVE  /\ p \in Nat /\ p >= 1 /\ p <= MaxProposals /\ MaxProposals \in Nat
           /\ proposal[p].since \in Nat /\ Sla[p] \in Nat /\ Sla[p] >= 1
           /\ CheckInterval \in Nat /\ MaxCallback \in Nat
           /\ Calls(MaxProposals) \in Nat /\ Calls(MaxProposals - 1) \in Nat
<1>1. p \in Nat /\ p >= 1 /\ p <= MaxProposals /\ MaxProposals \in Nat
  BY EscalationAssumption DEF Proposals
<1>2. Calls(MaxProposals) \in Nat /\ Calls(MaxProposals - 1) \in Nat
  BY <1>1, CallsFacts
<1>3. QED
  BY <1>1, <1>2, EscalationAssumption DEF EscalationTypeOK

\* The visit ends with the next sleep: no session from "first" on is in breach.
LEMMA VisitToSleep ==
    ASSUME LifespanTypeOK, EscalationTypeOK, server = "up",
           NEW first \in Nat, first >= 1, first <= MaxProposals + 1,
           NEW asOf \in 0..MaxNow, asOf <= now, Before(first, asOf),
           \A p \in Proposals : p >= first => ~Breach(p, asOf),
           check' = [at |-> "asleep", asOf |-> asOf, session |-> 0, time |-> now + CheckInterval],
           UNCHANGED <<proposal, reminded, lifespanVars>>
    PROVE  EscalationTypeOK' /\ EscalationInv'
<1>1. /\ now \in Nat /\ asOf \in Nat /\ CheckInterval \in Nat /\ MaxProposals \in Nat
      /\ now' = now /\ server' = server
  BY LifespanAssumption, EscalationAssumption DEF LifespanTypeOK, lifespanVars
<1>2. /\ check'.at = "asleep" /\ check'.asOf = asOf /\ check'.session = 0
      /\ check'.time = now + CheckInterval /\ check'.time \in Nat
  BY <1>1
<1>3. EscalationTypeOK'
  BY <1>1, <1>2 DEF EscalationTypeOK
<1>4. check'.time <= asOf + Calls(MaxProposals) + CheckInterval
  <2>1. Calls(first - 1) \in Nat /\ Calls(MaxProposals) \in Nat /\ Calls(first - 1) <= Calls(MaxProposals)
    BY <1>1, CallsFacts
  <2>2. QED
    BY <1>1, <1>2, <2>1 DEF Before
<1>5. ASSUME NEW p \in Proposals
      PROVE  Waits(p)'
  <2>1. /\ p \in Nat /\ p >= 1 /\ p <= MaxProposals
        /\ proposal[p].since \in Nat /\ Sla[p] \in Nat
    BY ProposalFacts
  <2>2. proposal[p].at = "awaiting" => asOf < proposal[p].since + 2 * Sla[p]
    BY <2>1 DEF Before, Breach, RejectDue
  <2>3. Unreminded(p) /\ proposal[p].at = "awaiting" => asOf < proposal[p].since + Sla[p]
    BY <2>1 DEF Before, Breach, ReminderDue, Unreminded
  <2>4. Unreminded(p) => check'.time <= asOf + Calls(MaxProposals - 1) + CheckInterval
    <3>1. CASE p < first
      <4>1. first - 2 \in Nat /\ MaxProposals - 1 \in Nat /\ first - 2 <= MaxProposals - 1
        BY <1>1, <2>1, <3>1
      <4>2. /\ Calls(first - 2) \in Nat /\ Calls(MaxProposals - 1) \in Nat
            /\ Calls(first - 2) <= Calls(MaxProposals - 1)
        BY <4>1, CallsFacts
      <4>3. Unreminded(p) => now <= asOf + Calls(first - 2)
        BY <3>1 DEF Before
      <4>4. QED
        BY <1>1, <1>2, <4>2, <4>3
    <3>2. CASE p >= first
      <4>1. first - 1 \in Nat /\ MaxProposals - 1 \in Nat /\ first - 1 <= MaxProposals - 1
        BY <1>1, <2>1, <3>2
      <4>2. /\ Calls(first - 1) \in Nat /\ Calls(MaxProposals - 1) \in Nat
            /\ Calls(first - 1) <= Calls(MaxProposals - 1)
        BY <4>1, CallsFacts
      <4>3. now <= asOf + Calls(first - 1)
        BY DEF Before
      <4>4. QED
        BY <1>1, <1>2, <4>2, <4>3
    <3>3. QED
      BY <2>1, <3>1, <3>2
  <2>5. Passed(p)' /\ Unreminded(p)' = Unreminded(p)
    BY <1>2 DEF Passed, Unreminded
  <2>6. (proposal[p].at = "open" => p \notin reminded)'
    BY DEF Before
  <2>7. (proposal[p].at = "rejected" /\ CheckInterval + Calls(MaxProposals - 1) <= Sla[p]
           => p \in reminded)'
    BY DEF Before
  <2>8. QED
    BY <1>2, <2>1, <2>2, <2>3, <2>4, <2>5, <2>6, <2>7 DEF Waits
<1>6. QED
  BY <1>1, <1>2, <1>3, <1>4, <1>5 DEF EscalationInv

\* The visit ends in the callback of a session that is in breach.
LEMMA VisitToCallback ==
    ASSUME LifespanTypeOK, EscalationTypeOK, server = "up",
           NEW first \in Nat, first >= 1, first <= MaxProposals + 1,
           NEW asOf \in 0..MaxNow, asOf <= now, Before(first, asOf),
           NEW c \in Proposals, c >= first, Breach(c, asOf),
           \A q \in first..(c - 1) : ~Breach(q, asOf),
           check' = [at |-> "calling", asOf |-> asOf, session |-> c, time |-> now],
           \/ /\ RejectDue(c, asOf)
              /\ proposal' = [proposal EXCEPT ![c].at = "rejected"]
              /\ UNCHANGED reminded
           \/ /\ ~RejectDue(c, asOf)
              /\ reminded' = reminded \cup {c}
              /\ UNCHANGED proposal,
           UNCHANGED lifespanVars
    PROVE  EscalationTypeOK' /\ EscalationInv'
<1>1. /\ now \in Nat /\ asOf \in Nat /\ MaxProposals \in Nat
      /\ CheckInterval \in Nat /\ MaxCallback \in Nat
      /\ now' = now /\ server' = server
  BY LifespanAssumption, EscalationAssumption DEF LifespanTypeOK, lifespanVars
<1>2. check'.at = "calling" /\ check'.asOf = asOf /\ check'.session = c /\ check'.time = now
  OBVIOUS
<1>3. c \in Nat /\ c >= 1 /\ c <= MaxProposals
  BY ProposalFacts
<1>4. proposal \in [Proposals -> [at: {"open", "awaiting", "answered", "rejected"}, since: 0..MaxNow]]
  BY DEF EscalationTypeOK
<1>5. /\ proposal' \in [Proposals -> [at: {"open", "awaiting", "answered", "rejected"}, since: 0..MaxNow]]
      /\ \A p \in Proposals : proposal'[p].since = proposal[p].since
      /\ \A p \in Proposals \ {c} : proposal'[p].at = proposal[p].at
      /\ proposal'[c].at = IF RejectDue(c, asOf) THEN "rejected" ELSE proposal[c].at
  <2>1. CASE RejectDue(c, asOf)
    BY <1>4, <2>1
  <2>2. CASE ~RejectDue(c, asOf)
    BY <1>4, <2>2
  <2>3. QED
    BY <2>1, <2>2
<1>6. reminded' = IF RejectDue(c, asOf) THEN reminded ELSE reminded \cup {c}
  OBVIOUS
<1>7. EscalationTypeOK'
  BY <1>1, <1>2, <1>3, <1>5, <1>6 DEF EscalationTypeOK
<1>8. check'.time <= asOf + Calls(c - 1)
  <2>1. first - 1 \in Nat /\ c - 1 \in Nat /\ first - 1 <= c - 1
    BY <1>1, <1>3
  <2>2. Calls(first - 1) \in Nat /\ Calls(c - 1) \in Nat /\ Calls(first - 1) <= Calls(c - 1)
    BY <2>1, CallsFacts
  <2>3. QED
    BY <1>1, <1>2, <2>2 DEF Before
<1>9. Waits(c)'
  <2>1. proposal[c].since \in Nat /\ Sla[c] \in Nat /\ Calls(MaxProposals - 1) \in Nat
    BY ProposalFacts
  <2>2. proposal[c].at = "awaiting" /\ Passed(c)'
    BY <1>2, <1>3 DEF Breach, Passed
  <2>3. CASE RejectDue(c, asOf)
    <3>1. proposal'[c].at = "rejected" /\ reminded' = reminded
      BY <1>5, <1>6, <2>3
    <3>2. ASSUME CheckInterval + Calls(MaxProposals - 1) <= Sla[c]
          PROVE  c \in reminded
      <4>1. SUFFICES ASSUME c \notin reminded
                     PROVE  FALSE
        OBVIOUS
      <4>2. asOf < proposal[c].since + Sla[c] + Calls(MaxProposals - 1) + CheckInterval
        BY <1>1, <1>3, <2>1, <2>2, <4>1 DEF Before, Unreminded
      <4>3. asOf >= proposal[c].since + 2 * Sla[c]
        BY <2>3 DEF RejectDue
      <4>4. QED
        BY <1>1, <2>1, <3>2, <4>2, <4>3
    <3>3. QED
      BY <3>1, <3>2 DEF Waits, Unreminded
  <2>4. CASE ~RejectDue(c, asOf)
    <3>1. proposal'[c].at = "awaiting" /\ c \in reminded' /\ proposal'[c].since = proposal[c].since
      BY <1>5, <1>6, <2>2, <2>4
    <3>2. asOf < proposal[c].since + 2 * Sla[c]
      BY <2>1, <2>4 DEF RejectDue
    <3>3. QED
      BY <1>2, <2>1, <2>2, <3>1, <3>2 DEF Waits, Unreminded
  <2>5. QED
    BY <2>3, <2>4
<1>10. ASSUME NEW p \in Proposals, p # c
       PROVE  Waits(p)'
  <2>1. /\ p \in Nat /\ p >= 1 /\ p <= MaxProposals
        /\ proposal[p].since \in Nat /\ Sla[p] \in Nat
        /\ Calls(MaxProposals) \in Nat /\ Calls(MaxProposals - 1) \in Nat
    BY ProposalFacts
  <2>2. /\ proposal'[p].at = proposal[p].at /\ proposal'[p].since = proposal[p].since
        /\ p \in reminded' <=> p \in reminded
        /\ Unreminded(p)' <=> Unreminded(p)
    BY <1>5, <1>6, <1>10 DEF Unreminded
  <2>3. p < c /\ p >= first => ~Breach(p, asOf)
    BY <1>3, <2>1
  <2>4. Passed(p)' <=> p < c
    BY <1>2, <1>3, <1>10, <2>1 DEF Passed
  <2>5. proposal[p].at = "awaiting" =>
          asOf < proposal[p].since + 2 * Sla[p]
                   + (IF p < c THEN 0 ELSE Calls(MaxProposals) + CheckInterval)
    <3>1. CASE p < first
      BY <1>1, <1>3, <2>1, <3>1 DEF Before
    <3>2. CASE p >= first /\ p < c
      BY <1>1, <1>3, <2>1, <2>3, <3>2 DEF Breach, RejectDue
    <3>3. CASE p >= first /\ ~(p < c)
      BY <1>1, <2>1, <3>3 DEF Before
    <3>4. QED
      BY <2>1, <3>1, <3>2, <3>3
  <2>6. Unreminded(p) /\ proposal[p].at = "awaiting" =>
          asOf < proposal[p].since + Sla[p]
                   + (IF p < c THEN 0 ELSE Calls(MaxProposals - 1) + CheckInterval)
    <3>1. CASE p < first
      BY <1>1, <1>3, <2>1, <3>1 DEF Before
    <3>2. CASE p >= first /\ p < c
      BY <1>1, <1>3, <2>1, <2>3, <3>2 DEF Breach, ReminderDue, Unreminded
    <3>3. CASE p >= first /\ ~(p < c)
      BY <1>1, <2>1, <3>3 DEF Before
    <3>4. QED
      BY <2>1, <3>1, <3>2, <3>3
  <2>7. Unreminded(p) /\ p < c => now <= asOf + Calls(c - 2)
    <3>1. CASE p < first /\ p < c
      <4>1. first - 2 \in Nat /\ c - 2 \in Nat /\ first - 2 <= c - 2
        BY <1>1, <1>3, <2>1, <3>1
      <4>2. Calls(first - 2) \in Nat /\ Calls(c - 2) \in Nat /\ Calls(first - 2) <= Calls(c - 2)
        BY <4>1, CallsFacts
      <4>3. Unreminded(p) => now <= asOf + Calls(first - 2)
        BY <3>1 DEF Before
      <4>4. QED
        BY <1>1, <4>2, <4>3
    <3>2. CASE p >= first /\ p < c
      <4>1. first - 1 \in Nat /\ c - 2 \in Nat /\ first - 1 <= c - 2
        BY <1>1, <1>3, <2>1, <3>2
      <4>2. Calls(first - 1) \in Nat /\ Calls(c - 2) \in Nat /\ Calls(first - 1) <= Calls(c - 2)
        BY <4>1, CallsFacts
      <4>3. now <= asOf + Calls(first - 1)
        BY DEF Before
      <4>4. QED
        BY <1>1, <4>2, <4>3
    <3>3. QED
      BY <2>1, <3>1, <3>2
  <2>8. (proposal[p].at = "open" => p \notin reminded)'
    BY <2>2 DEF Before
  <2>9. (proposal[p].at = "rejected" /\ CheckInterval + Calls(MaxProposals - 1) <= Sla[p]
           => p \in reminded)'
    BY <2>2 DEF Before
  <2>10. QED
    BY <1>2, <1>10, <2>1, <2>2, <2>4, <2>5, <2>6, <2>7, <2>8, <2>9 DEF Waits
<1>11. QED
  BY <1>1, <1>2, <1>3, <1>7, <1>8, <1>9, <1>10 DEF EscalationInv

LEMMA VisitKeeps ==
    ASSUME LifespanTypeOK, EscalationTypeOK, server = "up",
           NEW first \in Nat, first >= 1, first <= MaxProposals + 1,
           NEW asOf \in 0..MaxNow, asOf <= now, Before(first, asOf),
           VisitFrom(first, asOf), UNCHANGED lifespanVars
    PROVE  EscalationTypeOK' /\ EscalationInv'
  BY VisitToSleep, VisitToCallback DEF VisitFrom

LEMMA ProposeKeeps ==
    ASSUME LifespanTypeOK, EscalationTypeOK, EscalationInv, NEW p \in Proposals, Propose(p)
    PROVE  EscalationTypeOK' /\ EscalationInv'
<1>1. /\ server = "up" /\ proposal[p].at = "open" /\ check' = check /\ reminded' = reminded
      /\ server' = server /\ now' = now /\ now \in 0..MaxNow /\ now \in Nat
  BY LifespanAssumption DEF Propose, LifespanTypeOK, lifespanVars
<1>2. /\ proposal' \in [Proposals -> [at: {"open", "awaiting", "answered", "rejected"}, since: 0..MaxNow]]
      /\ \A q \in Proposals : q # p => proposal'[q] = proposal[q]
      /\ proposal'[p].at = "awaiting" /\ proposal'[p].since = now
  BY <1>1 DEF Propose, EscalationTypeOK
<1>3. EscalationTypeOK'
  BY <1>1, <1>2 DEF EscalationTypeOK
<1>4. ASSUME NEW q \in Proposals, q # p
      PROVE  Waits(q)'
  BY <1>1, <1>2, <1>4 DEF EscalationInv, Waits, Passed, Unreminded
<1>5. Waits(p)'
  <2>1. check.asOf <= now /\ check.asOf \in Nat
    BY <1>1, LifespanAssumption DEF EscalationInv, EscalationTypeOK
  <2>2. /\ Sla[p] \in Nat /\ Sla[p] >= 1 /\ CheckInterval \in Nat
        /\ Calls(MaxProposals) \in Nat /\ Calls(MaxProposals - 1) \in Nat
    BY ProposalFacts
  <2>3. Waits(p) /\ Unreminded(p)
    BY <1>1 DEF EscalationInv, Waits, Unreminded
  <2>4. /\ check.asOf < now + 2 * Sla[p]
                          + (IF Passed(p) THEN 0 ELSE Calls(MaxProposals) + CheckInterval)
        /\ check.asOf < now + Sla[p]
                          + (IF Passed(p) THEN 0 ELSE Calls(MaxProposals - 1) + CheckInterval)
    <3>1. CASE Passed(p)
      BY <1>1, <2>1, <2>2, <3>1
    <3>2. CASE ~Passed(p)
      BY <1>1, <2>1, <2>2, <3>2
    <3>3. QED
      BY <3>1, <3>2
  <2>5. Passed(p)' <=> Passed(p)
    BY <1>1 DEF Passed
  <2>6. QED
    BY <1>1, <1>2, <2>3, <2>4, <2>5 DEF Waits, Unreminded
<1>6. QED
  BY <1>1, <1>3, <1>4, <1>5 DEF EscalationInv

LEMMA DecideKeeps ==
    ASSUME LifespanTypeOK, EscalationTypeOK, EscalationInv, NEW p \in Proposals, Decide(p)
    PROVE  EscalationTypeOK' /\ EscalationInv'
<1>1. /\ proposal[p].at = "awaiting" /\ check' = check /\ reminded' = reminded
      /\ server' = server /\ now' = now
  BY DEF Decide, lifespanVars
<1>2. /\ proposal' \in [Proposals -> [at: {"open", "awaiting", "answered", "rejected"}, since: 0..MaxNow]]
      /\ \A q \in Proposals : q # p => proposal'[q] = proposal[q]
      /\ proposal'[p].at = "answered"
  BY DEF Decide, EscalationTypeOK
<1>3. EscalationTypeOK'
  BY <1>1, <1>2 DEF EscalationTypeOK
<1>4. ASSUME NEW q \in Proposals
      PROVE  Waits(q)'
  BY <1>1, <1>2 DEF EscalationInv, Waits, Passed, Unreminded
<1>5. QED
  BY <1>1, <1>3, <1>4 DEF EscalationInv

LEMMA CheckSessionsKeeps ==
    ASSUME LifespanTypeOK, EscalationTypeOK, EscalationInv, CheckSessions
    PROVE  EscalationTypeOK' /\ EscalationInv'
<1>1. check.at = "asleep" /\ VisitFrom(1, now) /\ UNCHANGED lifespanVars
  BY DEF CheckSessions
<1>2. server = "up"
  BY <1>1 DEF EscalationInv
<1>3. now \in 0..MaxNow /\ now \in Nat /\ check.asOf \in Nat /\ check.time \in Nat /\ MaxProposals \in Nat
  BY LifespanAssumption, EscalationAssumption DEF LifespanTypeOK, EscalationTypeOK
<1>4. now <= check.time
  BY <1>1 DEF EscalationInv
<1>5. Before(1, now)
  <2>1. now <= now + Calls(1 - 1)
    BY <1>3, CallsFacts
  <2>2. ASSUME NEW p \in Proposals
        PROVE  /\ proposal[p].at = "open" => p \notin reminded
               /\ proposal[p].at = "awaiting" =>
                    now < proposal[p].since + 2 * Sla[p] + Calls(MaxProposals) + CheckInterval
               /\ Unreminded(p) /\ proposal[p].at = "awaiting" =>
                    now < proposal[p].since + Sla[p] + Calls(MaxProposals - 1) + CheckInterval
               /\ proposal[p].at = "rejected" /\ CheckInterval + Calls(MaxProposals - 1) <= Sla[p]
                    => p \in reminded
    <3>1. Waits(p) /\ Passed(p) /\ check.time <= check.asOf + Calls(MaxProposals) + CheckInterval
      BY <1>1 DEF EscalationInv, Passed
    <3>2. /\ proposal[p].since \in Nat /\ Sla[p] \in Nat /\ CheckInterval \in Nat
          /\ Calls(MaxProposals) \in Nat /\ Calls(MaxProposals - 1) \in Nat
      BY ProposalFacts
    <3>3. proposal[p].at = "awaiting" => check.asOf < proposal[p].since + 2 * Sla[p]
      BY <3>1, <3>2 DEF Waits
    <3>4. Unreminded(p) =>
            /\ check.time <= check.asOf + Calls(MaxProposals - 1) + CheckInterval
            /\ proposal[p].at = "awaiting" => check.asOf < proposal[p].since + Sla[p]
      BY <1>1, <3>1, <3>2 DEF Waits
    <3>5. QED
      BY <1>3, <1>4, <3>1, <3>2, <3>3, <3>4 DEF Waits
  <2>3. \A p \in Proposals : ~(p < 1)
    BY ProposalFacts
  <2>4. ASSUME NEW p \in Proposals
        PROVE  /\ proposal[p].since \in Nat /\ Sla[p] \in Nat /\ CheckInterval \in Nat
               /\ Calls(MaxProposals) \in Nat /\ Calls(MaxProposals - 1) \in Nat
    BY ProposalFacts
  <2>5. QED
    BY <2>1, <2>2, <2>3, <2>4 DEF Before
<1>6. QED
  BY <1>1, <1>2, <1>3, <1>5, VisitKeeps

LEMMA FinishCallbackKeeps ==
    ASSUME LifespanTypeOK, EscalationTypeOK, EscalationInv, FinishCallback
    PROVE  EscalationTypeOK' /\ EscalationInv'
<1> DEFINE c == check.session
<1>1. check.at = "calling" /\ VisitFrom(c + 1, check.asOf) /\ UNCHANGED lifespanVars
  BY DEF FinishCallback
<1>2. server = "up"
  BY <1>1 DEF EscalationInv
<1>3. /\ now \in Nat /\ check.asOf \in Nat /\ check.asOf \in 0..MaxNow /\ check.time \in Nat
      /\ MaxProposals \in Nat /\ MaxCallback \in Nat
  BY LifespanAssumption, EscalationAssumption DEF LifespanTypeOK, EscalationTypeOK
<1>4. /\ c \in Proposals /\ check.asOf <= now /\ now <= check.time + MaxCallback
      /\ check.time <= check.asOf + Calls(c - 1)
  BY <1>1, <1>2 DEF EscalationInv
<1>5. c \in Nat /\ c >= 1 /\ c <= MaxProposals
  BY <1>4, ProposalFacts
<1>6. Calls(c) \in Nat /\ Calls(c - 1) \in Nat /\ Calls(c) = Calls(c - 1) + MaxCallback
  <2>1. c - 1 \in Nat /\ (c - 1) + 1 = c
    BY <1>5
  <2>2. QED
    BY <1>5, <2>1, CallsFacts
<1>7. Before(c + 1, check.asOf)
  <2>1. now <= check.asOf + Calls((c + 1) - 1)
    <3>1. (c + 1) - 1 = c
      BY <1>5
    <3>2. QED
      BY <1>3, <1>4, <1>6, <3>1
  <2>2. ASSUME NEW p \in Proposals
        PROVE  Waits(p) /\ (p < c + 1 <=> Passed(p)) /\ p \in Nat
    BY <1>1, <1>5, ProposalFacts DEF EscalationInv, Passed
  <2>3. ASSUME NEW p \in Proposals, Unreminded(p), p < c + 1
        PROVE  now <= check.asOf + Calls((c + 1) - 2)
    <3>1. p # c /\ (p < c => check.time <= check.asOf + Calls(c - 2))
      BY <1>1, <2>2, <2>3 DEF Waits
    <3>2. p \in Nat /\ p >= 1
      BY ProposalFacts
    <3>3. p < c /\ c - 2 \in Nat /\ (c - 2) + 1 = c - 1 /\ (c + 1) - 2 = c - 1
      BY <1>5, <2>3, <3>1, <3>2
    <3>4. Calls(c - 2) \in Nat /\ Calls(c - 1) = Calls(c - 2) + MaxCallback
      BY <3>3, CallsFacts
    <3>5. QED
      BY <1>3, <1>4, <3>1, <3>3, <3>4
  <2>4. QED
    BY <2>1, <2>2, <2>3 DEF Before, Waits
<1>8. c + 1 \in Nat /\ c + 1 >= 1 /\ c + 1 <= MaxProposals + 1
  BY <1>3, <1>5
<1> HIDE DEF c
<1>9. QED
  BY <1>1, <1>2, <1>3, <1>4, <1>7, <1>8, VisitKeeps

LEMMA EscalationStep ==
    ASSUME LifespanTypeOK, EscalationTypeOK, EscalationInv, [Next]_vars
    PROVE  EscalationTypeOK' /\ EscalationInv'
<1>1. now \in Nat /\ now \in 0..MaxNow /\ MaxNow \in Nat
  BY LifespanAssumption DEF LifespanTypeOK
<1>2. /\ CheckInterval \in Nat /\ MaxCallback \in Nat /\ MaxProposals \in Nat
      /\ Calls(MaxProposals) \in Nat /\ 0 \in 0..MaxProposals /\ 0 \in 0..MaxNow
  <2>1. CheckInterval \in Nat /\ MaxCallback \in Nat /\ MaxProposals \in Nat
    BY EscalationAssumption
  <2>2. Calls(MaxProposals) \in Nat
    BY <2>1, CallsFacts
  <2>3. QED
    BY <1>1, <2>1, <2>2
<1>3. ASSUME UNCHANGED <<escalationVars, server, now>>
      PROVE  EscalationTypeOK' /\ EscalationInv'
  BY <1>3 DEF EscalationTypeOK, EscalationInv, Waits, Passed, Unreminded, escalationVars
<1>4. CASE Start
  BY <1>4 DEF Start, Launch, EscalationTypeOK, EscalationInv, Waits, Passed, Unreminded, escalationVars
<1>5. CASE Serve
  <2>1. /\ server = "starting" /\ server' = "up" /\ now' = now
        /\ proposal' = proposal /\ reminded' = reminded
        /\ check' = [at |-> "asleep", asOf |-> now, session |-> 0, time |-> now]
    BY <1>5 DEF Serve, BeginWatching, StartTimer
  <2>2. \A p \in Proposals : proposal[p].at = "open" /\ p \notin reminded
    BY <2>1 DEF EscalationInv, Waits
  <2>3. EscalationTypeOK'
    BY <1>1, <1>2, <2>1 DEF EscalationTypeOK
  <2>4. \A n \in Nat : now <= now + n + CheckInterval
    BY <1>1, <1>2
  <2>5. ASSUME NEW p \in Proposals
        PROVE  Waits(p)' /\ proposal'[p].at = "open"
    <3>1. Calls(MaxProposals - 1) \in Nat
      BY ProposalFacts
    <3>2. QED
      BY <2>1, <2>2, <2>4, <3>1 DEF Waits, Unreminded
  <2>6. QED
    BY <1>1, <1>2, <2>1, <2>3, <2>4, <2>5 DEF EscalationInv
<1>6. CASE End
  BY <1>1, <1>2, <1>6 DEF End, Stop, StopTimer, Off, EscalationTypeOK, EscalationInv, Waits, Unreminded
<1>7. CASE PassTime
  <2>1. /\ now' = now + 1 /\ server' = server /\ TimerInTime
        /\ proposal' = proposal /\ reminded' = reminded /\ check' = check
    BY <1>7 DEF PassTime, Tick, escalationVars
  <2>2. check.time \in Nat /\ check.asOf \in Nat
    BY LifespanAssumption DEF EscalationTypeOK
  <2>3. EscalationTypeOK' /\ \A p \in Proposals : Waits(p)'
    BY <2>1 DEF EscalationTypeOK, EscalationInv, Waits, Passed, Unreminded
  <2>4. QED
    BY <1>1, <1>2, <2>1, <2>2, <2>3 DEF EscalationInv, TimerInTime
<1>8. CASE WatchRunbooks
  BY <1>3, <1>8, RunbooksApart DEF WatchRunbooks, lifespanVars
<1>9. CASE WatchSecrets
  BY <1>3, <1>9 DEF WatchSecrets, CredentialsNext, Rotate, FirstCheck, CheckSecrets, ForceReload,
                    ReadSecret, ReadFails, lifespanVars
<1>10. CASE CheckHealth
  BY <1>3, <1>10 DEF CheckHealth, HealthNext, Revoke, CheckAgent, Answer, FinishCheck, lifespanVars
<1>11. CASE Escalate
  BY <1>11, ProposeKeeps, DecideKeeps, CheckSessionsKeeps, FinishCallbackKeeps
     DEF Escalate, EscalationNext
<1>12. CASE UNCHANGED vars
  BY <1>3, <1>12 DEF vars, lifespanVars
<1>13. QED
  BY <1>4, <1>5, <1>6, <1>7, <1>8, <1>9, <1>10, <1>11, <1>12 DEF Next, Lifecycle

LEMMA EscalationAlways == Spec => [](LifespanTypeOK /\ EscalationTypeOK /\ EscalationInv)
<1>1. Init => LifespanTypeOK /\ EscalationTypeOK
  BY InitType DEF TypeOK
<1>2. Init => EscalationInv
  BY DEF Init, LifespanInit, EscalationInit, EscalationInv, Off, Waits, Unreminded
<1>3. LifespanTypeOK /\ EscalationTypeOK /\ EscalationInv /\ [Next]_vars
        => (LifespanTypeOK /\ EscalationTypeOK /\ EscalationInv)'
  BY LifespanType, EscalationStep
<1>4. QED
  BY <1>1, <1>2, <1>3, PTL DEF Spec

\* However many sessions are due at once, and whenever they were proposed, none
\* waits longer than its SLA, one interval and the callbacks of two checks allow.
THEOREM AnsweredInTimeAlways == Spec => []AnsweredInTime
<1>1. LifespanTypeOK /\ EscalationTypeOK /\ EscalationInv => AnsweredInTime
  <2> SUFFICES ASSUME LifespanTypeOK, EscalationTypeOK, EscalationInv,
                      NEW p \in Proposals, proposal[p].at = "awaiting"
               PROVE  now < proposal[p].since + 2 * Sla[p] + CheckInterval
                              + (2 * MaxProposals - 1) * MaxCallback
    BY DEF AnsweredInTime
  <2>1. /\ p \in Nat /\ p >= 1 /\ p <= MaxProposals /\ MaxProposals \in Nat
        /\ proposal[p].since \in Nat /\ Sla[p] \in Nat
        /\ CheckInterval \in Nat /\ MaxCallback \in Nat
        /\ Calls(MaxProposals) \in Nat /\ Calls(MaxProposals - 1) \in Nat
    BY ProposalFacts
  <2>2. now \in Nat /\ check.time \in Nat /\ check.asOf \in Nat /\ check.session \in Nat
    BY <2>1, LifespanAssumption DEF LifespanTypeOK, EscalationTypeOK
  <2>3. (2 * MaxProposals - 1) * MaxCallback = Calls(MaxProposals) + Calls(MaxProposals - 1)
    BY <2>1 DEF Calls
  <2>4. server = "up" /\ check.at \in {"asleep", "calling"} /\ Waits(p)
    BY DEF EscalationInv, EscalationTypeOK
  <2>5. CASE check.at = "asleep"
    <3>1. now <= check.time /\ check.time <= check.asOf + Calls(MaxProposals) + CheckInterval
      BY <2>5 DEF EscalationInv
    <3>2. check.asOf < proposal[p].since + 2 * Sla[p]
      BY <2>1, <2>4, <2>5 DEF Waits, Passed
    <3>3. QED
      BY <2>1, <2>2, <2>3, <3>1, <3>2
  <2>6. CASE check.at = "calling"
    <3>1. /\ check.session \in Proposals /\ now <= check.time + MaxCallback
          /\ check.time <= check.asOf + Calls(check.session - 1)
      BY <2>6 DEF EscalationInv
    <3>2. check.session \in Nat /\ check.session >= 1 /\ check.session <= MaxProposals
      BY <3>1, ProposalFacts
    <3>3. Calls(check.session - 1) \in Nat /\ Calls(check.session) \in Nat
          /\ Calls(check.session) = Calls(check.session - 1) + MaxCallback
      <4>1. check.session - 1 \in Nat /\ (check.session - 1) + 1 = check.session
        BY <3>2
      <4>2. QED
        BY <3>2, <4>1, CallsFacts
    <3>4. now <= check.asOf + Calls(check.session)
      BY <2>1, <2>2, <3>1, <3>3
    <3>5. CASE p <= check.session
      <4>1. check.asOf < proposal[p].since + 2 * Sla[p]
        BY <2>1, <2>4, <3>5 DEF Waits, Passed
      <4>2. Calls(check.session) <= Calls(MaxProposals)
        BY <2>1, <3>2, CallsFacts
      <4>3. QED
        BY <2>1, <2>2, <2>3, <3>3, <3>4, <4>1, <4>2
    <3>6. CASE ~(p <= check.session)
      <4>1. ~Passed(p)
        BY <2>6, <3>6 DEF Passed
      <4>2. check.asOf < proposal[p].since + 2 * Sla[p] + Calls(MaxProposals) + CheckInterval
        BY <2>1, <2>4, <4>1 DEF Waits
      <4>3. MaxProposals - 1 \in Nat /\ check.session <= MaxProposals - 1
        BY <2>1, <3>2, <3>6
      <4>4. Calls(check.session) <= Calls(MaxProposals - 1)
        BY <3>2, <4>3, CallsFacts
      <4>5. QED
        BY <2>1, <2>2, <2>3, <3>3, <3>4, <4>2, <4>4
    <3>7. QED
      BY <3>5, <3>6
  <2>7. QED
    BY <2>4, <2>5, <2>6
<1>2. QED
  BY <1>1, EscalationAlways, PTL

\* The reminder comes first as long as the other sessions' callbacks and the
\* interval fit into the SLA; the invariant says why: a session without a callback
\* of its own in a check leaves one callback less to wait for.
THEOREM RemindedFirstAlways == Spec => []RemindedFirst
<1>1. EscalationInv => RemindedFirst
  BY DEF EscalationInv, Waits, RemindedFirst, Calls
<1>2. QED
  BY <1>1, EscalationAlways, PTL

\* The variables of the process, of the files and of what it keeps of them have
\* their types.
THEOREM TypeCorrect == Spec => []TypeOK
<1> DEFINE Inv == HealthTypeOK /\ HealthInv
<1>1. Init => Inv
  <2>1. Init => HealthTypeOK
    BY InitType DEF TypeOK
  <2>2. Init => HealthInv
    BY DEF Init, LifespanInit, HealthInit, HealthInv, NoEntry
  <2>3. QED
    BY <2>1, <2>2
<1>2. LifespanTypeOK /\ CredentialsTypeOK /\ Inv /\ [Next]_vars => Inv'
  BY HealthStep
<1>3. Spec => []Inv
  BY <1>1, <1>2, CredentialsAlways, PTL DEF Spec
<1>4. LifespanTypeOK /\ RunbooksTypeOK /\ CredentialsTypeOK /\ Inv /\ EscalationTypeOK => TypeOK
  BY DEF TypeOK
<1>5. QED
  BY <1>3, <1>4, CredentialsAlways, RunbooksAlways, EscalationAlways, PTL
=============================================================================
