---------------------------- MODULE Gate_proofs ----------------------------
(***************************************************************************)
(* For any policies, users, proposals, summaries, clicks and sessions:     *)
(* only entitled users get a fix executed, nobody is refused without a     *)
(* reason, and the score has no way back.                                  *)
(***************************************************************************)
EXTENDS Gate, FiniteSetTheorems, TLAPS

\* An answer of Slack, or what is remembered of one: whoever is in it was a
\* member once, and whoever is not in it has an excuse for being refused.
Honest(answer) == answer \subseteq was /\ Users \ answer \subseteq excused

Entitled(u, fix) ==
    /\ Configured =>
         u \in policy.listed \cup policy.seniors \cup (IF policy.group THEN was ELSE {})
    /\ policy.seniors # {} /\ RiskIndex[fix.risk] >= RiskIndex[policy.minRisk]
         => u \in policy.seniors

Asking == {"fetching", "answered", "denied", "needs_senior", "allowed", "running"}

\* What is true of a click, as far as it has got.
Sound(c) ==
    /\ click[c].at \in Asking => session[click[c].session].at # "none"
    /\ click[c].at \in {"fetching", "answered"} => policy.group
    /\ click[c].at = "answered" => Honest(click[c].answer)
    /\ click[c].at = "allowed" =>
         Entitled(click[c].user, session[click[c].session].fix)
    /\ click[c].at = "denied" =>
         /\ click[c].user \notin policy.listed \cup policy.seniors
         /\ policy.group => click[c].user \in excused

Remembered ==
    /\ Honest(members)
    /\ \A answer \in cache : Honest(answer)

Inv == Remembered /\ RunByEntitled /\ \A c \in Clicks : Sound(c)

\* A session that has a proposal keeps it, and what it was scored with.
Keeps ==
    \A s \in Sessions : session[s].at # "none" =>
        /\ session'[s].at # "none" /\ session'[s].fix = session[s].fix
        /\ session'[s].group = session[s].group /\ session'[s].known = session[s].known

-----------------------------------------------------------------------------
(* Types *)

LEMMA PolicyFacts ==
    ASSUME TypeOK
    PROVE  /\ policy.listed \in SUBSET Users /\ policy.seniors \in SUBSET Users
           /\ policy.group \in BOOLEAN /\ policy.minRisk \in Risks
  BY GateAssumption DEF TypeOK, PolicyType

LEMMA ClickFacts ==
    ASSUME TypeOK, NEW c \in Clicks
    PROVE  /\ click[c].at \in Asking => click[c].user \in Users /\ click[c].session \in Sessions
           /\ click[c].at = "answered" => click[c].answer \in SUBSET Users
           /\ click[c].at \in Asking \cup {"idle", "done"}
  BY DEF TypeOK, Click, Asking

LEMMA StandingFacts ==
    ASSUME TypeOK, NEW s \in Sessions, session[s].at # "none"
    PROVE  /\ session[s].fix \in Fixes /\ session[s].known \in HistoryType
           /\ session[s].group \in Summaries /\ session[s].executed \in BOOLEAN
           /\ session[s].at \in {"awaiting", "executing", "over"}
  BY DEF TypeOK, Standing

LEMMA ClickTypes ==
    ASSUME NEW u \in Users, NEW s \in Sessions
    PROVE  /\ [at |-> "done"] \in Click
           /\ \A where \in {"fetching", "denied", "needs_senior", "allowed", "running"} :
                [at |-> where, user |-> u, session |-> s] \in Click
           /\ \A answer \in SUBSET Users :
                [at |-> "answered", user |-> u, session |-> s, answer |-> answer] \in Click
  BY DEF Click

LEMMA PlacedFacts ==
    ASSUME TypeOK, NEW s \in Sessions, session[s].at # "none",
           NEW where \in {"awaiting", "executing", "over"}, NEW executed \in BOOLEAN,
           session' = Placed(s, where, executed)
    PROVE  session' \in [Sessions -> Standing] /\ Keeps
<1> DEFINE new == [at |-> where, fix |-> session[s].fix, group |-> session[s].group,
                   known |-> session[s].known, executed |-> executed]
<1>1. new \in Standing
  BY StandingFacts DEF Standing
<1>2. session' = [session EXCEPT ![s] = new]
  BY DEF Placed
<1>3. /\ new.at = where /\ new.fix = session[s].fix
      /\ new.group = session[s].group /\ new.known = session[s].known
  OBVIOUS
<1> HIDE DEF new
<1>4. session \in [Sessions -> Standing]
  BY DEF TypeOK
<1>5. session' \in [Sessions -> Standing]
  BY <1>1, <1>2, <1>4
<1>6. Keeps
  BY <1>2, <1>3, <1>4 DEF Keeps
<1>7. QED
  BY <1>5, <1>6

LEMMA MemoryFacts ==
    ASSUME TypeOK, NEW g \in Summaries
    PROVE  /\ memory[g] \in HistoryType /\ memory[g].total \in Nat /\ memory[g].successes \in Nat
           /\ memory[g] = [total |-> memory[g].total, successes |-> memory[g].successes]
           /\ memory[g].successes <= memory[g].total
  BY DEF TypeOK, HistoryType

LEMMA RecordedFacts ==
    ASSUME TypeOK, NEW s \in Sessions, session[s].at # "none",
           NEW success \in BOOLEAN, Recorded(s, success)
    PROVE  memory' \in [Summaries -> HistoryType] /\ (~success => Eased = {})
<1> DEFINE g == Summary[session[s].fix]
           row == [total |-> memory[g].total + 1,
                   successes |-> memory[g].successes + IF success THEN 1 ELSE 0]
<1>1. g \in Summaries
  BY StandingFacts, GateAssumption
<1>2. memory \in [Summaries -> HistoryType]
  BY DEF TypeOK
<1>3. CASE UNCHANGED memory
  BY <1>2, <1>3, MemoryFacts DEF Eased
<1>4. CASE memory' = [memory EXCEPT ![g] = row]
  <2>1. row \in HistoryType
    <3>1. /\ memory[g].total \in Nat /\ memory[g].successes \in Nat
          /\ memory[g].successes <= memory[g].total
      BY <1>1, MemoryFacts
    <3>2. QED
      BY <3>1 DEF HistoryType
  <2>2. memory' \in [Summaries -> HistoryType]
    BY <1>2, <1>4, <2>1
  <2>3. ASSUME ~success, NEW h \in Summaries
        PROVE  memory'[h].successes = memory[h].successes /\ ~(memory'[h].total < memory[h].total)
    BY <1>1, <1>2, <1>4, <2>3, MemoryFacts
  <2>4. QED
    BY <2>2, <2>3 DEF Eased
<1>5. QED
  BY <1>2, <1>3, <1>4 DEF Recorded

LEMMA OutdatedFacts ==
    ASSUME TypeOK, Outdated
    PROVE  scored' \subseteq Sessions /\ barred' \subseteq [fix: Fixes, group: Summaries]
  BY DEF TypeOK, Outdated

\* authorize returns: the click has a verdict, and an approved session goes on.
LEMMA ReturnFacts ==
    ASSUME TypeOK, NEW c \in Clicks, NEW u \in Users, NEW s \in Sessions,
           session[s].at # "none", NEW inGroup, Return(c, u, s, inGroup)
    PROVE  /\ session' \in [Sessions -> Standing] /\ Keeps
           /\ Verdict(u, session[s].fix, inGroup) \in {"denied", "needs_senior", "allowed"}
           /\ click' = [click EXCEPT ![c] =
                [at |-> Verdict(u, session[s].fix, inGroup), user |-> u, session |-> s]]
<1> DEFINE verdict == Verdict(u, session[s].fix, inGroup)
<1>1. verdict \in {"denied", "needs_senior", "allowed"}
  BY DEF Verdict
<1>2. click' = [click EXCEPT ![c] = [at |-> verdict, user |-> u, session |-> s]]
  BY DEF Return
<1>3. session' = session \/ session' = MovedTo(s, "executing")
  BY DEF Return
<1>4. CASE session' = session
  BY <1>1, <1>2, <1>4 DEF TypeOK, Keeps
<1>5. CASE session' = MovedTo(s, "executing")
  <2>1. session[s].executed \in BOOLEAN
    BY StandingFacts
  <2>2. session' \in [Sessions -> Standing] /\ Keeps
    BY <1>5, <2>1, PlacedFacts DEF MovedTo
  <2>3. QED
    BY <1>1, <1>2, <2>2
<1>6. QED
  BY <1>1, <1>2, <1>3, <1>4, <1>5

LEMMA ReturnTypes ==
    ASSUME TypeOK, NEW c \in Clicks, NEW u \in Users, NEW s \in Sessions,
           session[s].at # "none", NEW inGroup, Return(c, u, s, inGroup)
    PROVE  click' \in [Clicks -> Click] /\ session' \in [Sessions -> Standing]
<1>1. PICK verdict \in {"denied", "needs_senior", "allowed"} :
        click' = [click EXCEPT ![c] = [at |-> verdict, user |-> u, session |-> s]]
  BY ReturnFacts
<1>2. [at |-> verdict, user |-> u, session |-> s] \in Click
  BY ClickTypes
<1>3. click' \in [Clicks -> Click]
  BY <1>1, <1>2 DEF TypeOK
<1>4. QED
  BY <1>3, ReturnFacts

LEMMA InitType == Init => TypeOK
<1> SUFFICES ASSUME Init PROVE TypeOK
  OBVIOUS
<1>1. cache \in SUBSET SUBSET Users /\ Cardinality(cache) <= 1
  BY FS_EmptySet DEF Init
<1>2. click \in [Clicks -> Click]
  BY DEF Init, Click
<1>3. session \in [Sessions -> Standing]
  BY DEF Init, Standing
<1>4. memory \in [Summaries -> HistoryType]
  BY GateAssumption DEF Init
<1>5. QED
  BY <1>1, <1>2, <1>3, <1>4 DEF Init, TypeOK

\* The session of a click that is on its way has a proposal.
LEMMA AskedFacts ==
    ASSUME TypeOK, Inv, NEW c \in Clicks, click[c].at \in Asking
    PROVE  /\ click[c].user \in Users /\ click[c].session \in Sessions
           /\ session[click[c].session].at # "none"
  BY ClickFacts DEF Inv, Sound

LEMMA StepType == TypeOK /\ Inv /\ [Next]_vars => TypeOK'
<1> SUFFICES ASSUME TypeOK, Inv, [Next]_vars PROVE TypeOK'
  OBVIOUS
<1>1. click \in [Clicks -> Click] /\ session \in [Sessions -> Standing]
  BY DEF TypeOK
<1>2. ASSUME NEW u \in Users, ChangeMembers(u)
      PROVE  TypeOK'
  BY <1>2 DEF ChangeMembers, TypeOK
<1>3. ASSUME NEW s \in Sessions, NEW fix \in Fixes, Propose(s, fix)
      PROVE  TypeOK'
  <2>1. PICK g \in Matches[Summary[fix]] : \E known \in {memory[g], NoHistory} :
          session' = [session EXCEPT ![s] =
            [at |-> "awaiting", fix |-> fix, group |-> g, known |-> known, executed |-> FALSE]]
    BY <1>3 DEF Propose
  <2>2. PICK known \in {memory[g], NoHistory} :
          session' = [session EXCEPT ![s] =
            [at |-> "awaiting", fix |-> fix, group |-> g, known |-> known, executed |-> FALSE]]
    BY <2>1
  <2>3. g \in Summaries
    BY GateAssumption
  <2>4. known \in HistoryType
    <3>1. memory[g] \in HistoryType
      BY <2>3, MemoryFacts
    <3>2. NoHistory \in HistoryType
      BY DEF NoHistory, HistoryType
    <3>3. QED
      BY <2>2, <3>1, <3>2
  <2>5. [at |-> "awaiting", fix |-> fix, group |-> g, known |-> known, executed |-> FALSE] \in Standing
    BY <2>3, <2>4 DEF Standing
  <2>6. session' \in [Sessions -> Standing] /\ scored' \subseteq Sessions
    BY <1>1, <1>3, <2>2, <2>5 DEF Propose, TypeOK
  <2>7. QED
    BY <1>3, <2>6 DEF Propose, TypeOK
<1>4. ASSUME NEW s \in Sessions, Reject(s)
      PROVE  TypeOK'
  <2>1. session[s].at # "none" /\ session[s].executed \in BOOLEAN
    BY <1>4, StandingFacts DEF Reject
  <2>2. session' \in [Sessions -> Standing]
    BY <1>4, <2>1, PlacedFacts DEF Reject, MovedTo
  <2>3. memory' \in [Summaries -> HistoryType]
    BY <1>4, <2>1, RecordedFacts DEF Reject
  <2>4. QED
    BY <1>4, <2>2, <2>3, OutdatedFacts DEF Reject, TypeOK
<1>5. ASSUME NEW s \in Sessions, Resolve(s)
      PROVE  TypeOK'
  <2>1. session[s].at # "none"
    BY <1>5 DEF Resolve
  <2>2. session' \in [Sessions -> Standing]
    BY <1>5, <2>1, PlacedFacts DEF Resolve, Executed
  <2>3. memory' \in [Summaries -> HistoryType]
    BY <1>5, <2>1, RecordedFacts DEF Resolve
  <2>4. QED
    BY <1>5, <2>2, <2>3, OutdatedFacts DEF Resolve, TypeOK
<1>6. ASSUME NEW c \in Clicks, NEW u \in Users, NEW s \in Sessions, Approve(c, u, s)
      PROVE  TypeOK'
  <2>1. session[s].at # "none"
    BY <1>6 DEF Approve
  <2>2. ASSUME NEW inGroup, Return(c, u, s, inGroup)
        PROVE  click' \in [Clicks -> Click] /\ session' \in [Sessions -> Standing]
    BY <2>1, <2>2, ReturnTypes
  <2>3. CASE /\ click' = [click EXCEPT ![c] = [at |-> "fetching", user |-> u, session |-> s]]
             /\ session' = session
    <3>1. [at |-> "fetching", user |-> u, session |-> s] \in Click
      BY ClickTypes
    <3>2. click' \in [Clicks -> Click]
      BY <1>1, <2>3, <3>1
    <3>3. QED
      BY <1>1, <1>6, <2>3, <3>2 DEF Approve, TypeOK
  <2>4. CASE Return(c, u, s, FALSE)
    BY <1>6, <2>2, <2>4 DEF Approve, TypeOK
  <2>5. CASE Return(c, u, s, u \in UNION cache)
    BY <1>6, <2>2, <2>5 DEF Approve, TypeOK
  <2>6. QED
    BY <1>6, <2>3, <2>4, <2>5 DEF Approve
<1>7. ASSUME NEW c \in Clicks, Answer(c)
      PROVE  TypeOK'
  <2>1. PICK answer \in {members, {}} :
          /\ click' = [click EXCEPT ![c] =
               [at |-> "answered", user |-> click[c].user, session |-> click[c].session,
                answer |-> answer]]
          /\ excused' = IF answer = members THEN excused ELSE Users
    BY <1>7 DEF Answer
  <2>2. click[c].user \in Users /\ click[c].session \in Sessions
    BY <1>7, ClickFacts DEF Answer, Asking
  <2>3. answer \in SUBSET Users
    BY DEF TypeOK
  <2>4. [at |-> "answered", user |-> click[c].user, session |-> click[c].session,
         answer |-> answer] \in Click
    BY <2>2, <2>3, ClickTypes
  <2>5. click' \in [Clicks -> Click]
    BY <1>1, <2>1, <2>4
  <2>6. QED
    BY <1>7, <2>1, <2>5 DEF Answer, TypeOK
<1>8. ASSUME NEW c \in Clicks, FinishFetch(c)
      PROVE  TypeOK'
  <2>1. /\ click[c].user \in Users /\ click[c].session \in Sessions
        /\ click[c].answer \in SUBSET Users
    BY <1>8, ClickFacts DEF FinishFetch, Asking
  <2>2. cache' \in SUBSET SUBSET Users /\ Cardinality(cache') <= 1
    <3>1. cache' = {click[c].answer}
      BY <1>8 DEF FinishFetch, Cached
    <3>2. Cardinality(cache') = 1
      BY <3>1, FS_Singleton
    <3>3. QED
      BY <2>1, <3>1, <3>2
  <2>3. session[click[c].session].at # "none"
    BY <1>8, AskedFacts DEF FinishFetch, Asking
  <2>4. click' \in [Clicks -> Click] /\ session' \in [Sessions -> Standing]
    <3>1. Return(c, click[c].user, click[c].session, click[c].user \in click[c].answer)
      BY <1>8 DEF FinishFetch
    <3>2. QED
      BY <2>1, <2>3, <3>1, ReturnTypes
  <2>5. QED
    BY <1>8, <2>2, <2>4 DEF FinishFetch, TypeOK
<1>9. ASSUME NEW c \in Clicks, Guard(c)
      PROVE  TypeOK'
  <2> DEFINE s == click[c].session
             fix == session[s].fix
             blockers == Blockers(fix, session[s].known)
  <2>1. click[c].user \in Users /\ s \in Sessions /\ session[s].at # "none"
    BY <1>9, AskedFacts DEF Guard, Asking
  <2>2. fix \in Fixes /\ session[s].group \in Summaries /\ session[s].executed \in BOOLEAN
    BY <2>1, StandingFacts
  <2>4. CASE blockers = {}
    <3>1. click' = [click EXCEPT ![c] =
            [at |-> "running", user |-> click[c].user, session |-> s]]
      BY <1>9, <2>4 DEF Guard
    <3>2. [at |-> "running", user |-> click[c].user, session |-> s] \in Click
      BY <2>1, ClickTypes
    <3>3. click' \in [Clicks -> Click]
      BY <1>1, <3>1, <3>2
    <3>4. ran' \subseteq [fix: Fixes, by: Users]
      BY <1>9, <2>1, <2>2, <2>4 DEF Guard, TypeOK
    <3>5. UNCHANGED <<policy, members, cache, was, excused, session, memory, scored, barred>>
      BY <1>9, <2>4 DEF Guard
    <3>6. QED
      BY <3>3, <3>4, <3>5 DEF TypeOK
  <2>5. CASE blockers # {}
    <3>1. click' = [click EXCEPT ![c] = [at |-> "done"]]
      BY <1>9, <2>5 DEF Guard
    <3>2. [at |-> "done"] \in Click
      BY <2>1, ClickTypes
    <3>3. click' \in [Clicks -> Click]
      BY <1>1, <3>1, <3>2
    <3>4. session' = MovedTo(s, "over") /\ Recorded(s, FALSE)
      BY <1>9, <2>5 DEF Guard
    <3>5. session' \in [Sessions -> Standing] /\ memory' \in [Summaries -> HistoryType]
      BY <2>1, <2>2, <3>4, PlacedFacts, RecordedFacts DEF MovedTo
    <3>6. barred' \subseteq [fix: Fixes, group: Summaries]
      <4> DEFINE bar == [fix |-> fix, group |-> session[s].group]
      <4>1. bar \in [fix: Fixes, group: Summaries]
        BY <2>2
      <4>2. barred' = barred \cup {b \in {bar} : s \in scored /\ "score" \in blockers}
        BY <1>9, <2>5 DEF Guard
      <4> HIDE DEF bar
      <4>3. QED
        BY <4>1, <4>2 DEF TypeOK
    <3>7. UNCHANGED <<policy, members, cache, was, excused, scored, ran>>
      BY <1>9, <2>5 DEF Guard
    <3>8. QED
      BY <3>3, <3>5, <3>6, <3>7 DEF TypeOK
  <2>6. QED
    BY <2>4, <2>5
<1>10. ASSUME NEW c \in Clicks, Finish(c)
       PROVE  TypeOK'
  <2>1. /\ click[c].user \in Users /\ click[c].session \in Sessions
        /\ session[click[c].session].at # "none"
    BY <1>10, AskedFacts DEF Finish, Asking
  <2>2. session[click[c].session].executed \in BOOLEAN
    BY <2>1, StandingFacts
  <2>3. click' \in [Clicks -> Click]
    BY <1>1, <1>10, <2>1, ClickTypes DEF Finish
  <2>4. session' \in [Sessions -> Standing] /\ memory' \in [Summaries -> HistoryType]
    <3>1. CASE session' = Executed(click[c].session) /\ Recorded(click[c].session, TRUE)
      BY <2>1, <3>1, PlacedFacts, RecordedFacts DEF Executed
    <3>2. CASE session' = MovedTo(click[c].session, "over") /\ Recorded(click[c].session, FALSE)
      BY <2>1, <2>2, <3>2, PlacedFacts, RecordedFacts DEF MovedTo
    <3>3. QED
      BY <1>10, <3>1, <3>2 DEF Finish
  <2>5. QED
    BY <1>10, <2>3, <2>4, OutdatedFacts DEF Finish, TypeOK
<1>11. CASE Prune
  <2>1. memory' \in [Summaries -> HistoryType]
    BY <1>11, GateAssumption DEF Prune, Rows, HistoryType
  <2>2. QED
    BY <1>11, <2>1, OutdatedFacts DEF Prune, TypeOK
<1>12. CASE UNCHANGED vars
  BY <1>12 DEF vars, TypeOK
<1>13. QED
  BY <1>2, <1>3, <1>4, <1>5, <1>6, <1>7, <1>8, <1>9, <1>10, <1>11, <1>12 DEF Next

-----------------------------------------------------------------------------
(* The invariant *)

\* Histories only grow, the policy stays, and no session loses its proposal.
Monotone ==
    /\ Keeps /\ policy' = policy
    /\ was \subseteq was' /\ excused \subseteq excused'

LEMMA HonestKept ==
    ASSUME Monotone, NEW answer, Honest(answer)
    PROVE  answer \subseteq was' /\ Users \ answer \subseteq excused'
  BY DEF Monotone, Honest

LEMMA EntitledKept ==
    ASSUME Monotone, NEW u, NEW fix, Entitled(u, fix)
    PROVE  /\ Configured' =>
                u \in policy'.listed \cup policy'.seniors
                        \cup (IF policy'.group THEN was' ELSE {})
           /\ policy'.seniors # {} /\ RiskIndex[fix.risk] >= RiskIndex[policy'.minRisk]
                => u \in policy'.seniors
  BY DEF Monotone, Entitled, Configured

LEMMA SoundKept ==
    ASSUME TypeOK, Inv, Monotone, NEW c \in Clicks, click'[c] = click[c]
    PROVE  Sound(c)'
<1> DEFINE s == click[c].session
<1>1. click[c].at \in Asking =>
        /\ s \in Sessions /\ session[s].at # "none"
        /\ session'[s].at # "none" /\ session'[s].fix = session[s].fix
  BY AskedFacts DEF Monotone, Keeps
<1>2. Sound(c)
  BY DEF Inv
<1>3. (click[c].at = "answered" => Honest(click[c].answer))'
  BY <1>2, HonestKept DEF Sound, Honest
<1>4. (click[c].at = "allowed" => Entitled(click[c].user, session[click[c].session].fix))'
  <2>1. CASE click[c].at = "allowed"
    <3>1. Entitled(click[c].user, session[s].fix)
      BY <1>2, <2>1 DEF Sound
    <3>2. session'[s].fix = session[s].fix
      BY <1>1, <2>1 DEF Asking
    <3>3. QED
      BY <3>1, <3>2, EntitledKept DEF Entitled
  <2>2. QED
    BY <2>1
<1>5. (click[c].at = "denied" =>
         /\ click[c].user \notin policy.listed \cup policy.seniors
         /\ policy.group => click[c].user \in excused)'
  BY <1>2 DEF Sound, Monotone
<1>6. (click[c].at \in {"fetching", "answered"} => policy.group)'
  BY <1>2 DEF Sound, Monotone
<1>7. QED
  BY <1>1, <1>3, <1>4, <1>5, <1>6 DEF Sound

LEMMA NoneMoved ==
    ASSUME TypeOK, Inv, Monotone, Remembered', RunByEntitled', click' = click
    PROVE  Inv'
<1>1. \A c \in Clicks : Sound(c)'
  BY SoundKept
<1>2. QED
  BY <1>1 DEF Inv

LEMMA OneMoved ==
    ASSUME TypeOK, Inv, Monotone, Remembered', RunByEntitled', NEW c \in Clicks,
           Sound(c)', \A d \in Clicks \ {c} : click'[d] = click[d]
    PROVE  Inv'
<1>1. \A d \in Clicks : Sound(d)'
  BY SoundKept
<1>2. QED
  BY <1>1 DEF Inv

LEMMA RememberedKept ==
    ASSUME Inv, Monotone, members' = members, cache' = cache
    PROVE  Remembered'
<1>1. Honest(members)'
  BY HonestKept DEF Inv, Remembered, Honest
<1>2. \A answer \in cache : Honest(answer)'
  BY HonestKept DEF Inv, Remembered, Honest
<1>3. QED
  BY <1>1, <1>2 DEF Remembered

LEMMA RunKept ==
    ASSUME Inv, Monotone, ran' = ran
    PROVE  RunByEntitled'
  BY DEF Inv, Monotone, RunByEntitled, Configured

\* What a click knows when authorize returns.
LEMMA ReturnSound ==
    ASSUME TypeOK, Monotone, NEW c \in Clicks, NEW u \in Users, NEW s \in Sessions,
           session[s].at # "none", NEW inGroup, Return(c, u, s, inGroup),
           inGroup => policy.group /\ u \in was,
           policy.group /\ ~inGroup => u \in policy.listed \/ u \in excused
    PROVE  /\ Sound(c)'
           /\ \A d \in Clicks \ {c} : click'[d] = click[d]
<1> DEFINE verdict == Verdict(u, session[s].fix, inGroup)
           fix == session[s].fix
<1>1. click' = [click EXCEPT ![c] = [at |-> verdict, user |-> u, session |-> s]]
  BY ReturnFacts
<1>2. click \in [Clicks -> Click]
  BY DEF TypeOK
<1>3. click'[c].at = verdict /\ click'[c].user = u /\ click'[c].session = s
  BY <1>1, <1>2
<1>4. verdict \in {"denied", "needs_senior", "allowed"}
  BY ReturnFacts
<1>5. session'[s].at # "none" /\ session'[s].fix = fix
  BY DEF Monotone, Keeps
<1>6. verdict = "allowed" => Entitled(u, fix)
  <2> SUFFICES ASSUME verdict = "allowed" PROVE Entitled(u, fix)
    OBVIOUS
  <2>1. Authorized(u, inGroup) /\ ~(Configured /\ NeedsSenior(u, fix))
    BY DEF Verdict
  <2>2. policy.seniors # {} => Configured
    BY DEF Configured
  <2>3. policy.seniors # {} /\ RiskIndex[fix.risk] >= RiskIndex[policy.minRisk]
          => u \in policy.seniors
    BY <2>1, <2>2 DEF NeedsSenior
  <2>4. Configured => u \in policy.listed \/ u \in policy.seniors \/ inGroup
    BY <2>1 DEF Authorized
  <2>5. QED
    BY <2>3, <2>4 DEF Entitled
<1>7. verdict = "denied" =>
        /\ u \notin policy.listed \cup policy.seniors
        /\ policy.group => u \in excused
  BY DEF Verdict, Authorized
<1>8. (click[c].at = "allowed" => Entitled(click[c].user, session[click[c].session].fix))'
  BY <1>3, <1>5, <1>6, EntitledKept DEF Entitled
<1>9. (click[c].at = "denied" =>
         /\ click[c].user \notin policy.listed \cup policy.seniors
         /\ policy.group => click[c].user \in excused)'
  BY <1>3, <1>7 DEF Monotone
<1>10. click'[c].at \notin {"fetching", "answered"} /\ session'[click'[c].session].at # "none"
  BY <1>3, <1>4, <1>5
<1>11. QED
  BY <1>1, <1>2, <1>8, <1>9, <1>10 DEF Sound

LEMMA InitInv == Init => Inv
<1> SUFFICES ASSUME Init PROVE Inv
  OBVIOUS
<1>1. Remembered
  BY DEF Init, Remembered, Honest
<1>2. \A c \in Clicks : Sound(c)
  BY DEF Init, Sound, Asking
<1>3. QED
  BY <1>1, <1>2 DEF Init, Inv, RunByEntitled

LEMMA StepInv == TypeOK /\ Inv /\ [Next]_vars => Inv'
<1> SUFFICES ASSUME TypeOK, Inv, [Next]_vars PROVE Inv'
  OBVIOUS
<1>1. click \in [Clicks -> Click] /\ session \in [Sessions -> Standing]
  BY DEF TypeOK
\* Steps that change neither clicks nor what Slack has said.
<1>2. ASSUME Keeps, UNCHANGED <<policy, members, cache, was, excused, click, ran>>
      PROVE  Inv'
  <2>1. Monotone
    BY <1>2 DEF Monotone
  <2>2. Remembered' /\ RunByEntitled'
    BY <1>2, <2>1, RememberedKept, RunKept
  <2>3. QED
    BY <1>2, <2>1, <2>2, NoneMoved
\* Steps of a click after which it is neither answered, nor allowed, nor denied.
<1>3. ASSUME NEW c \in Clicks, Keeps, UNCHANGED <<policy, members, cache, was, excused>>,
             RunByEntitled', NEW new, click' = [click EXCEPT ![c] = new],
             new.at \in {"fetching", "running"} => session'[new.session].at # "none",
             new.at \in {"fetching", "running", "done"},
             new.at = "fetching" => policy.group
      PROVE  Inv'
  <2>1. Monotone
    BY <1>3 DEF Monotone
  <2>2. Remembered'
    BY <1>3, <2>1, RememberedKept
  <2>3. click'[c] = new /\ \A d \in Clicks \ {c} : click'[d] = click[d]
    BY <1>1, <1>3
  <2>4. Sound(c)'
    BY <1>3, <2>3 DEF Sound, Asking
  <2>5. QED
    BY <1>3, <2>1, <2>2, <2>3, <2>4, OneMoved
<1>4. ASSUME NEW u \in Users, ChangeMembers(u)
      PROVE  Inv'
  <2>1. Monotone
    BY <1>4 DEF ChangeMembers, Monotone, Keeps
  <2>2. Honest(members)'
    BY <1>4 DEF ChangeMembers, Honest
  <2>3. \A answer \in cache' : Honest(answer)'
    BY <1>4, <2>1, HonestKept DEF ChangeMembers, Inv, Remembered, Honest
  <2>4. Remembered' /\ RunByEntitled'
    BY <1>4, <2>1, <2>2, <2>3, RunKept DEF Remembered, ChangeMembers
  <2>5. QED
    BY <1>4, <2>1, <2>4, NoneMoved DEF ChangeMembers
<1>5. ASSUME NEW s \in Sessions, NEW fix \in Fixes, Propose(s, fix)
      PROVE  Inv'
  <2>1. Keeps
    BY <1>1, <1>5 DEF Propose, Keeps
  <2>2. QED
    BY <1>2, <1>5, <2>1 DEF Propose
<1>6. ASSUME NEW s \in Sessions, Reject(s) \/ Resolve(s)
      PROVE  Inv'
  <2>1. session[s].at # "none"
    BY <1>6 DEF Reject, Resolve
  <2>2. session[s].executed \in BOOLEAN
    BY <2>1, StandingFacts
  <2>3. Keeps
    BY <1>6, <2>1, <2>2, PlacedFacts DEF Reject, Resolve, MovedTo, Executed
  <2>4. QED
    BY <1>2, <1>6, <2>3 DEF Reject, Resolve
<1>7. ASSUME NEW c \in Clicks, NEW u \in Users, NEW s \in Sessions, Approve(c, u, s)
      PROVE  Inv'
  <2>1. session[s].at # "none"
    BY <1>7 DEF Approve
  <2>2. ASSUME NEW inGroup, Return(c, u, s, inGroup),
               inGroup => policy.group /\ u \in was,
               policy.group /\ ~inGroup => u \in policy.listed \/ u \in excused
        PROVE  Inv'
    <3>1. Monotone
      BY <1>7, <2>1, <2>2, ReturnFacts DEF Approve, Monotone
    <3>2. Remembered' /\ RunByEntitled'
      BY <1>7, <3>1, RememberedKept, RunKept DEF Approve
    <3>3. Sound(c)' /\ \A d \in Clicks \ {c} : click'[d] = click[d]
      BY <2>1, <2>2, <3>1, ReturnSound
    <3>4. QED
      BY <3>1, <3>2, <3>3, OneMoved
  <2>3. CASE ~AsksGroup(u) /\ Return(c, u, s, FALSE)
    BY <2>2, <2>3 DEF AsksGroup
  <2>4. CASE AsksGroup(u) /\ cache # {} /\ Return(c, u, s, u \in UNION cache)
    <3>1. PICK answer \in cache : u \in UNION cache => u \in answer
      BY <2>4
    <3>2. Honest(answer)
      BY DEF Inv, Remembered
    <3>3. u \in UNION cache => policy.group /\ u \in was
      BY <2>4, <3>1, <3>2 DEF Honest, AsksGroup
    <3>4. u \notin UNION cache => u \in excused
      BY <3>2 DEF Honest
    <3>5. QED
      BY <2>2, <2>4, <3>3, <3>4
  <2>5. CASE /\ AsksGroup(u)
             /\ click' = [click EXCEPT ![c] = [at |-> "fetching", user |-> u, session |-> s]]
             /\ session' = session
    <3> DEFINE new == [at |-> "fetching", user |-> u, session |-> s]
    <3>1. new.at = "fetching" /\ new.session = s
      OBVIOUS
    <3>2. Keeps /\ RunByEntitled' /\ UNCHANGED <<policy, members, cache, was, excused>>
      BY <1>7, <2>5 DEF Approve, Keeps, Inv, RunByEntitled, Configured
    <3>3. click' = [click EXCEPT ![c] = new]
      BY <2>5
    <3> HIDE DEF new
    <3>4. QED
      BY <1>3, <2>1, <2>5, <3>1, <3>2, <3>3 DEF AsksGroup
  <2>6. QED
    BY <1>7, <2>3, <2>4, <2>5 DEF Approve
<1>8. ASSUME NEW c \in Clicks, Answer(c)
      PROVE  Inv'
  <2>1. PICK answer \in {members, {}} :
          /\ click' = [click EXCEPT ![c] =
               [at |-> "answered", user |-> click[c].user, session |-> click[c].session,
                answer |-> answer]]
          /\ excused' = IF answer = members THEN excused ELSE Users
    BY <1>8 DEF Answer
  <2>2. session[click[c].session].at # "none" /\ policy.group
    BY <1>8, AskedFacts DEF Answer, Asking, Inv, Sound
  <2>3. Monotone
    BY <1>8, <2>1 DEF Answer, Monotone, Keeps, TypeOK
  <2>4. Remembered' /\ RunByEntitled'
    BY <1>8, <2>3, RememberedKept, RunKept DEF Answer
  <2>5. /\ click'[c].at = "answered" /\ click'[c].session = click[c].session
        /\ click'[c].answer = answer
        /\ \A d \in Clicks \ {c} : click'[d] = click[d]
    BY <1>1, <2>1
  <2>6. Honest(members)
    BY DEF Inv, Remembered
  <2>7. answer \subseteq was' /\ Users \ answer \subseteq excused'
    BY <1>8, <2>1, <2>6 DEF Answer, Honest
  <2>8. Sound(c)'
    BY <1>8, <2>2, <2>5, <2>7 DEF Answer, Sound, Honest, Asking
  <2>9. QED
    BY <2>3, <2>4, <2>5, <2>8, OneMoved
<1>9. ASSUME NEW c \in Clicks, FinishFetch(c)
      PROVE  Inv'
  <2> DEFINE u == click[c].user
             s == click[c].session
             answer == click[c].answer
  <2>1. u \in Users /\ s \in Sessions /\ session[s].at # "none"
    BY <1>9, AskedFacts DEF FinishFetch, Asking
  <2>2. Honest(answer) /\ policy.group
    BY <1>9 DEF FinishFetch, Inv, Sound
  <2>3. Return(c, u, s, u \in answer) /\ cache' = {answer}
    BY <1>9 DEF FinishFetch, Cached
  <2>4. Monotone
    BY <1>9, <2>1, <2>3, ReturnFacts DEF FinishFetch, Monotone
  <2>5. RunByEntitled'
    BY <1>9, <2>4, RunKept DEF FinishFetch
  <2>6. Remembered'
    BY <1>9, <2>2, <2>3, <2>4, HonestKept DEF FinishFetch, Remembered, Inv, Honest
  <2>7. /\ u \in answer => u \in was
        /\ u \notin answer => u \in excused
    BY <2>1, <2>2 DEF Honest
  <2>8. Sound(c)' /\ \A d \in Clicks \ {c} : click'[d] = click[d]
    <3>1. ASSUME NEW inGroup, Return(c, u, s, inGroup),
                 inGroup => policy.group /\ u \in was,
                 policy.group /\ ~inGroup => u \in policy.listed \/ u \in excused
          PROVE  Sound(c)' /\ \A d \in Clicks \ {c} : click'[d] = click[d]
      BY <2>1, <2>4, <3>1, ReturnSound
    <3>2. u \in answer => policy.group /\ u \in was
      BY <2>2, <2>7
    <3>3. policy.group /\ u \notin answer => u \in policy.listed \/ u \in excused
      BY <2>7
    <3>4. Return(c, u, s, u \in answer)
      BY <2>3
    <3> HIDE DEF u, s, answer
    <3>5. QED
      BY <3>1, <3>2, <3>3, <3>4
  <2>9. QED
    BY <2>4, <2>5, <2>6, <2>8, OneMoved
<1>10. ASSUME NEW c \in Clicks, Guard(c)
       PROVE  Inv'
  <2> DEFINE s == click[c].session
             fix == session[s].fix
             blockers == Blockers(fix, session[s].known)
  <2>1. s \in Sessions /\ session[s].at # "none" /\ session[s].executed \in BOOLEAN
    BY <1>10, AskedFacts, StandingFacts DEF Guard, Asking
  <2>2. UNCHANGED <<policy, members, cache, was, excused>>
    BY <1>10 DEF Guard
  <2>3. CASE blockers = {}
    <3> DEFINE new == [at |-> "running", user |-> click[c].user, session |-> s]
               run == [fix |-> fix, by |-> click[c].user]
    <3>1. click' = [click EXCEPT ![c] = new] /\ ran' = ran \cup {run} /\ session' = session
      BY <1>10, <2>3 DEF Guard
    <3>2. new.at = "running" /\ new.session = s /\ run.fix = fix /\ run.by = click[c].user
      OBVIOUS
    <3>4. Entitled(click[c].user, fix)
      BY <1>10 DEF Guard, Inv, Sound
    <3> HIDE DEF new, run
    <3>5. RunByEntitled'
      <4>1. \A r \in ran : Entitled(r.by, r.fix)
        BY DEF Inv, RunByEntitled, Entitled
      <4>2. \A r \in ran' : Entitled(r.by, r.fix)
        BY <3>1, <3>2, <3>4, <4>1
      <4>3. QED
        BY <2>2, <4>2 DEF RunByEntitled, Entitled, Configured
    <3>6. Keeps
      BY <3>1 DEF Keeps
    <3>7. QED
      BY <1>3, <2>1, <2>2, <3>1, <3>2, <3>5, <3>6
  <2>4. CASE blockers # {}
    <3> DEFINE new == [at |-> "done"]
    <3>1. click' = [click EXCEPT ![c] = new] /\ session' = MovedTo(s, "over") /\ ran' = ran
      BY <1>10, <2>4 DEF Guard
    <3>2. new.at = "done"
      OBVIOUS
    <3> HIDE DEF new
    <3>3. Keeps
      BY <2>1, <3>1, PlacedFacts DEF MovedTo
    <3>4. RunByEntitled'
      BY <2>2, <3>1 DEF Inv, RunByEntitled, Configured
    <3>5. QED
      BY <1>3, <2>2, <3>1, <3>2, <3>3, <3>4
  <2>5. QED
    BY <2>3, <2>4
<1>11. ASSUME NEW c \in Clicks, Finish(c)
       PROVE  Inv'
  <2> DEFINE s == click[c].session
             new == [at |-> "done"]
  <2>1. s \in Sessions /\ session[s].at # "none" /\ session[s].executed \in BOOLEAN
    BY <1>11, AskedFacts, StandingFacts DEF Finish, Asking
  <2>2. UNCHANGED <<policy, members, cache, was, excused, ran>>
    BY <1>11 DEF Finish
  <2>3. Keeps
    BY <1>11, <2>1, PlacedFacts DEF Finish, MovedTo, Executed
  <2>4. click' = [click EXCEPT ![c] = new]
    BY <1>11 DEF Finish
  <2>5. new.at = "done"
    OBVIOUS
  <2> HIDE DEF new
  <2>6. RunByEntitled'
    BY <2>2 DEF Inv, RunByEntitled, Configured
  <2>7. QED
    BY <1>3, <2>2, <2>3, <2>4, <2>5, <2>6
<1>12. CASE Prune \/ UNCHANGED vars
  <2>1. Keeps
    BY <1>12 DEF Prune, vars, Keeps
  <2>2. QED
    BY <1>2, <1>12, <2>1 DEF Prune, vars
<1>13. QED
  BY <1>4, <1>5, <1>6, <1>7, <1>8, <1>9, <1>10, <1>11, <1>12 DEF Next

LEMMA StepKeeps == TypeOK /\ Inv /\ [Next]_vars => Keeps
<1> SUFFICES ASSUME TypeOK, Inv, [Next]_vars PROVE Keeps
  OBVIOUS
<1>1. CASE UNCHANGED session
  BY <1>1 DEF Keeps
<1>2. ASSUME NEW s \in Sessions, NEW fix \in Fixes, Propose(s, fix)
      PROVE  Keeps
  BY <1>2 DEF Propose, Keeps, TypeOK
<1>3. ASSUME NEW s \in Sessions, Reject(s) \/ Resolve(s)
      PROVE  Keeps
  <2>1. session[s].at # "none" /\ session[s].executed \in BOOLEAN
    BY <1>3, StandingFacts DEF Reject, Resolve
  <2>2. QED
    BY <1>3, <2>1, PlacedFacts DEF Reject, Resolve, MovedTo, Executed
<1>4. ASSUME NEW c \in Clicks, NEW u \in Users, NEW s \in Sessions, Approve(c, u, s)
      PROVE  Keeps
  BY <1>1, <1>4, ReturnFacts DEF Approve
<1>5. ASSUME NEW c \in Clicks, FinishFetch(c) \/ Guard(c) \/ Finish(c)
      PROVE  Keeps
  <2>1. /\ click[c].user \in Users /\ click[c].session \in Sessions
        /\ session[click[c].session].at # "none"
    BY <1>5, AskedFacts DEF FinishFetch, Guard, Finish, Asking
  <2>2. session[click[c].session].executed \in BOOLEAN
    BY <2>1, StandingFacts
  <2>3. CASE FinishFetch(c)
    BY <2>1, <2>3, ReturnFacts DEF FinishFetch
  <2>4. CASE Guard(c) \/ Finish(c)
    <3>1. \/ session' = session \/ session' = MovedTo(click[c].session, "over")
          \/ session' = Executed(click[c].session)
      BY <2>4 DEF Guard, Finish
    <3>2. QED
      BY <1>1, <2>1, <2>2, <3>1, PlacedFacts DEF MovedTo, Executed
  <2>5. QED
    BY <1>5, <2>3, <2>4
<1>6. QED
  BY <1>1, <1>2, <1>3, <1>4, <1>5 DEF Next, ChangeMembers, Prune, Answer, vars

LEMMA Invariance == Spec => [](TypeOK /\ Inv)
<1>1. TypeOK /\ Inv /\ [Next]_vars => TypeOK' /\ Inv'
  BY StepType, StepInv
<1>2. QED
  BY <1>1, InitType, InitInv, PTL DEF Spec

\* The types of the policy, the clicks, the sessions and incident memory.
THEOREM TypeCorrect == Spec => []TypeOK
<1>1. QED
  BY Invariance, PTL

\* Whatever is executed was approved by somebody entitled to it and passed the
\* guardrails, however clicks, fetches and changes of the group interleave.
THEOREM RunsAreEntitled == Spec => []RunByEntitled
<1>1. Inv => RunByEntitled
  BY DEF Inv
<1>2. QED
  BY <1>1, Invariance, PTL

\* Nobody in the allowlist and no senior is ever refused, and no member of the
\* group unless they were no member once or a fetch has failed.
THEOREM RefusalsHaveReasons == Spec => []RefusedWithReason
<1>1. Inv => RefusedWithReason
  BY DEF Inv, Sound, RefusedWithReason
<1>2. QED
  BY <1>1, Invariance, PTL

-----------------------------------------------------------------------------
(* The score *)

\* A session's score, and what it barred, are of what incident memory says, but
\* for failures since; and more failures never raise a score.
Scored ==
    /\ \A s \in scored :
         /\ session[s].at # "none"
         /\ session[s].known.total # 0 =>
              /\ session[s].known.successes = memory[session[s].group].successes
              /\ session[s].known.total <= memory[session[s].group].total
    /\ \A b \in barred :
         b.fix.confidence # "none" /\ ScoreTooLow(b.fix, memory[b.group])

\* The weight of a diagnosis and its evidence leaves the rate one of few limits,
\* none of which a fix without history falls below.
LEMMA Limits ==
    ASSUME NEW fix \in FixType, fix.confidence # "none",
           NEW others, others = DiagnosisWeight[fix.confidence] + EvidenceWeight(fix.evidence),
           others < 300
    PROVE  300 - others \in {20, 60, 100, 140, 180}
<1>1. fix.confidence \in {"low", "medium", "high"} /\ fix.evidence \in Nat
  BY DEF FixType, Confidences
<1>2. DiagnosisWeight[fix.confidence] \in {120, 240, 400}
  BY <1>1 DEF DiagnosisWeight
<1>3. EvidenceWeight(fix.evidence) \in {0, 40, 80, 120, 160, 200}
  BY <1>1 DEF EvidenceWeight
<1>4. QED
  BY <1>2, <1>3

\* A fix without history is never scored too low.
LEMMA NeverTooLow ==
    ASSUME NEW fix \in FixType, fix.confidence # "none", NEW h, h.total = 0
    PROVE  ~ScoreTooLow(fix, h)
<1> DEFINE others == DiagnosisWeight[fix.confidence] + EvidenceWeight(fix.evidence)
<1>1. CASE others < 300
  <2>1. 300 - others \in {20, 60, 100, 140, 180}
    BY <1>1, Limits
  <2> HIDE DEF others
  <2> DEFINE limit == 300 - others
  <2>2. limit \in {20, 60, 100, 140, 180}
    BY <2>1
  <2> HIDE DEF limit
  <2>3. ~FixRateBelow(h, limit)
    BY <2>2 DEF FixRateBelow
  <2>4. QED
    BY <2>3 DEF ScoreTooLow, limit, others
<1>2. QED
  BY <1>1 DEF ScoreTooLow

\* More failures never raise a score.
LEMMA TooLowStays ==
    ASSUME NEW fix \in FixType, fix.confidence # "none",
           NEW h \in HistoryType, NEW g \in HistoryType,
           ScoreTooLow(fix, h), g.successes = h.successes, h.total <= g.total
    PROVE  ScoreTooLow(fix, g)
<1> DEFINE others == DiagnosisWeight[fix.confidence] + EvidenceWeight(fix.evidence)
<1>1. others < 300 /\ FixRateBelow(h, 300 - others)
  BY DEF ScoreTooLow
<1>2. 300 - others \in {20, 60, 100, 140, 180}
  BY <1>1, Limits
<1> HIDE DEF others
<1> DEFINE limit == 300 - others
<1>3. limit \in {20, 60, 100, 140, 180} /\ FixRateBelow(h, limit)
  BY <1>1, <1>2
<1> HIDE DEF limit
<1>4. h.total \in Nat /\ g.total \in Nat /\ h.successes \in Nat
  BY DEF HistoryType
<1>5. h.total # 0 /\ 400 * h.successes < limit * h.total
  BY <1>3 DEF FixRateBelow
<1>6. g.total # 0 /\ 400 * g.successes < limit * g.total
  BY <1>3, <1>4, <1>5
<1>7. FixRateBelow(g, limit)
  BY <1>6 DEF FixRateBelow
<1>8. QED
  BY <1>1, <1>7 DEF ScoreTooLow, limit, others

\* A summary that is not eased has the successes it had, and no fewer rows.
LEMMA NotEased ==
    ASSUME TypeOK, TypeOK', NEW g \in Summaries \ Eased
    PROVE  memory'[g].successes = memory[g].successes /\ memory[g].total <= memory'[g].total
<1>1. memory'[g].total \in Nat /\ memory[g].total \in Nat
  BY DEF TypeOK, HistoryType
<1>2. QED
  BY <1>1 DEF Eased

LEMMA SameMemory == TypeOK /\ UNCHANGED memory => Eased = {}
<1> SUFFICES ASSUME TypeOK, UNCHANGED memory PROVE Eased = {}
  OBVIOUS
<1>1. \A g \in Summaries : memory[g].total \in Nat
  BY MemoryFacts
<1>2. QED
  BY <1>1 DEF Eased

\* A step keeps Scored if what it scores is what incident memory says, or
\* nothing, and what it bars was scored too low by a score that is not outdated.
LEMMA ScoredKept ==
    ASSUME TypeOK, TypeOK', Scored, Keeps,
           \A s \in scored' :
               \/ s \in scored /\ session[s].group \notin Eased
               \/ /\ session'[s].at # "none" /\ UNCHANGED memory
                  /\ session'[s].known \in {memory[session'[s].group], NoHistory},
           \A b \in barred' :
               \/ b \in barred /\ b.group \notin Eased
               \/ /\ Eased = {} /\ b.fix.confidence # "none"
                  /\ \E s \in scored :
                       /\ b = [fix |-> session[s].fix, group |-> session[s].group]
                       /\ ScoreTooLow(b.fix, session[s].known)
    PROVE  Scored'
<1>1. ASSUME NEW s \in scored, session[s].group \notin Eased
      PROVE  /\ session[s].at # "none" /\ session[s].known \in HistoryType
             /\ session[s].group \in Summaries
             /\ session[s].known.total # 0 =>
                  /\ session[s].known.successes = memory'[session[s].group].successes
                  /\ session[s].known.total <= memory'[session[s].group].total
  <2>1. s \in Sessions /\ session[s].at # "none"
    BY DEF Scored, TypeOK
  <2>2. session[s].known \in HistoryType /\ session[s].group \in Summaries
    BY <2>1, StandingFacts
  <2>3. session[s].known.total \in Nat /\ memory[session[s].group].total \in Nat
          /\ memory'[session[s].group].total \in Nat
    BY <2>2 DEF TypeOK, HistoryType
  <2>4. /\ memory'[session[s].group].successes = memory[session[s].group].successes
        /\ memory[session[s].group].total <= memory'[session[s].group].total
    BY <1>1, <2>2, NotEased
  <2>5. QED
    BY <2>1, <2>2, <2>3, <2>4 DEF Scored
<1>2. ASSUME NEW s \in scored'
      PROVE  /\ session'[s].at # "none"
             /\ session'[s].known.total # 0 =>
                  /\ session'[s].known.successes = memory'[session'[s].group].successes
                  /\ session'[s].known.total <= memory'[session'[s].group].total
  <2>1. s \in Sessions
    BY DEF TypeOK
  <2>2. CASE s \in scored /\ session[s].group \notin Eased
    <3>1. session[s].at # "none"
      BY <1>1, <2>2
    <3>2. session'[s].at # "none" /\ session'[s].known = session[s].known
            /\ session'[s].group = session[s].group
      BY <2>1, <3>1 DEF Keeps
    <3>3. QED
      BY <1>1, <2>2, <3>2
  <2>3. CASE /\ session'[s].at # "none" /\ UNCHANGED memory
             /\ session'[s].known \in {memory[session'[s].group], NoHistory}
    <3>1. session'[s].group \in Summaries
      <4>1. session' \in [Sessions -> Standing]
        BY DEF TypeOK
      <4>2. QED
        BY <2>1, <2>3, <4>1 DEF Standing
    <3>2. memory[session'[s].group].total \in Nat
      BY <3>1, MemoryFacts
    <3>3. QED
      BY <2>3, <3>2 DEF NoHistory
  <2>4. QED
    BY <2>2, <2>3
<1>3. ASSUME NEW b \in barred'
      PROVE  b.fix.confidence # "none" /\ ScoreTooLow(b.fix, memory'[b.group])
  <2>1. b.fix \in Fixes /\ b.fix \in FixType /\ b.group \in Summaries
    BY GateAssumption DEF TypeOK
  <2>2. /\ memory[b.group] \in HistoryType /\ memory'[b.group] \in HistoryType
    BY <2>1 DEF TypeOK
  <2>3. CASE b \in barred /\ b.group \notin Eased
    <3>1. /\ memory'[b.group].successes = memory[b.group].successes
          /\ memory[b.group].total <= memory'[b.group].total
      BY <2>1, <2>3, NotEased
    <3>2. b.fix.confidence # "none" /\ ScoreTooLow(b.fix, memory[b.group])
      BY <2>3 DEF Scored
    <3>3. QED
      BY <2>1, <2>2, <3>1, <3>2, TooLowStays
  <2>4. CASE /\ Eased = {} /\ b.fix.confidence # "none"
             /\ \E s \in scored :
                  /\ b = [fix |-> session[s].fix, group |-> session[s].group]
                  /\ ScoreTooLow(b.fix, session[s].known)
    <3>1. PICK s \in scored :
            /\ b = [fix |-> session[s].fix, group |-> session[s].group]
            /\ ScoreTooLow(b.fix, session[s].known)
      BY <2>4
    <3>2. /\ session[s].known \in HistoryType
          /\ session[s].known.total # 0 =>
               /\ session[s].known.successes = memory'[b.group].successes
               /\ session[s].known.total <= memory'[b.group].total
      BY <1>1, <2>4, <3>1
    <3>3. session[s].known.total # 0
      BY <2>1, <2>4, <3>1, <3>2, NeverTooLow
    <3>4. QED
      BY <2>1, <2>2, <2>4, <3>1, <3>2, <3>3, TooLowStays
  <2>5. QED
    BY <2>3, <2>4
<1>4. QED
  BY <1>2, <1>3 DEF Scored

LEMMA StepScored ==
    ASSUME TypeOK, TypeOK', Inv, Scored, [Next]_vars
    PROVE  Scored'
<1>1. Keeps
  BY StepKeeps
<1>2. ASSUME UNCHANGED <<memory, scored, barred>>
      PROVE  Scored'
  <2>1. Eased = {}
    BY <1>2, SameMemory
  <2>2. QED
    BY <1>1, <1>2, <2>1, ScoredKept
<1>3. ASSUME Outdated
      PROVE  Scored'
  BY <1>1, <1>3, ScoredKept DEF Outdated
<1>4. ASSUME NEW s \in Sessions, NEW fix \in Fixes, Propose(s, fix)
      PROVE  Scored'
  <2>1. PICK g \in Matches[Summary[fix]] : \E known \in {memory[g], NoHistory} :
          session' = [session EXCEPT ![s] =
            [at |-> "awaiting", fix |-> fix, group |-> g, known |-> known, executed |-> FALSE]]
    BY <1>4 DEF Propose
  <2>2. PICK known \in {memory[g], NoHistory} :
          session' = [session EXCEPT ![s] =
            [at |-> "awaiting", fix |-> fix, group |-> g, known |-> known, executed |-> FALSE]]
    BY <2>1
  <2>3. session'[s].at # "none" /\ session'[s].group = g /\ session'[s].known = known
    BY <2>2 DEF TypeOK
  <2>4. scored' = scored \cup {s} /\ UNCHANGED <<memory, barred>>
    BY <1>4 DEF Propose
  <2>5. Eased = {}
    BY <2>4, SameMemory
  <2>6. \A r \in scored' :
          \/ r \in scored /\ session[r].group \notin Eased
          \/ /\ session'[r].at # "none" /\ UNCHANGED memory
             /\ session'[r].known \in {memory[session'[r].group], NoHistory}
    BY <2>3, <2>4, <2>5
  <2>7. \A b \in barred' : b \in barred /\ b.group \notin Eased
    BY <2>4, <2>5
  <2>8. QED
    BY <1>1, <2>6, <2>7, ScoredKept
<1>5. ASSUME NEW c \in Clicks, Guard(c)
      PROVE  Scored'
  <2> DEFINE s == click[c].session
             blockers == Blockers(session[s].fix, session[s].known)
  <2>1. s \in Sessions /\ session[s].at # "none"
    BY <1>5, AskedFacts DEF Guard, Asking
  <2>2. CASE blockers = {}
    BY <1>2, <1>5, <2>2 DEF Guard
  <2>3. CASE blockers # {}
    <3>1. /\ Recorded(s, FALSE) /\ scored' = scored
          /\ barred' = barred \cup
               {b \in {[fix |-> session[s].fix, group |-> session[s].group]} :
                  s \in scored /\ "score" \in blockers}
      BY <1>5, <2>3 DEF Guard
    <3>2. Eased = {}
      BY <2>1, <3>1, RecordedFacts
    <3>3. session[s].fix.findings \subseteq Findings
      <4>1. session[s].fix \in FixType
        BY <2>1, StandingFacts, GateAssumption
      <4>2. QED
        BY <4>1 DEF FixType
    <3>4. "score" \in blockers =>
            session[s].fix.confidence # "none" /\ ScoreTooLow(session[s].fix, session[s].known)
      BY <3>3 DEF Blockers, Findings
    <3>5. \A r \in scored' : r \in scored /\ session[r].group \notin Eased
      BY <3>1, <3>2
    <3>6. ASSUME NEW b \in barred'
          PROVE  \/ b \in barred /\ b.group \notin Eased
                 \/ /\ Eased = {} /\ b.fix.confidence # "none"
                    /\ \E r \in scored :
                         /\ b = [fix |-> session[r].fix, group |-> session[r].group]
                         /\ ScoreTooLow(b.fix, session[r].known)
      <4>1. CASE b \in barred
        BY <3>2, <4>1
      <4>2. CASE b \notin barred
        <5>1. b = [fix |-> session[s].fix, group |-> session[s].group]
                /\ s \in scored /\ "score" \in blockers
          BY <3>1, <4>2
        <5>2. b.fix = session[s].fix
          BY <5>1
        <5>3. QED
          BY <3>2, <3>4, <5>1, <5>2
      <4>3. QED
        BY <4>1, <4>2
    <3>7. QED
      BY <1>1, <3>5, <3>6, ScoredKept
  <2>4. QED
    BY <2>2, <2>3
<1>6. QED
  BY <1>2, <1>3, <1>4, <1>5
     DEF Next, ChangeMembers, Prune, Reject, Resolve, Approve, Answer, FinishFetch, Finish, vars

\* For any fixes, summaries, matches, histories and interleavings: what bars a fix
\* bars it until its summary gains a success or loses rows.
THEOREM NoWayBackAlways == Spec => []NoWayBack
<1>1. Init => Scored
  BY DEF Init, Scored
<1>2. TypeOK /\ TypeOK' /\ Inv /\ Scored /\ [Next]_vars => Scored'
  BY StepScored
<1>3. Scored => NoWayBack
  BY DEF Scored, NoWayBack
<1>4. QED
  BY <1>1, <1>2, <1>3, Invariance, PTL DEF Spec
=============================================================================
