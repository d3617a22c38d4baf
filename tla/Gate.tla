-------------------------------- MODULE Gate --------------------------------
(***************************************************************************)
(* Who may run which fix: the approval policy (agent/rbac.py) with its     *)
(* cache of Slack group members, the guardrails, and the success rates     *)
(* that earlier sessions left in incident memory.  Several sessions with   *)
(* the same alert, in different namespaces, share the policy and the       *)
(* memory, which groups them by the summaries of their fixes.              *)
(*                                                                         *)
(* Module Approval has the single session in detail; here a session is     *)
(* only where it stands.                                                   *)
(***************************************************************************)
EXTENDS Guardrails, FiniteSets

CONSTANTS
    Users,     \* the Slack users
    Policies,  \* the configurations of ApprovalPolicy considered
    Fixes,     \* the proposals considered
    Summaries, \* the summaries of fixes that incident memory has
    Summary,   \* the summary of each proposal
    Matches,   \* the summaries that contain a summary, or are contained in it
    Sessions,  \* the sessions with this alert
    Clicks,    \* clicks on "Approve Fix"
    Earlier,   \* what incident memory may say of a summary at the start
    MaxTotal   \* bound: rows of a summary in incident memory

PolicyType == [listed: SUBSET Users, seniors: SUBSET Users, group: BOOLEAN,
               minRisk: Risks]

ASSUME GateAssumption ==
    /\ Policies \subseteq PolicyType
    /\ Fixes \subseteq FixType
    /\ Summary \in [Fixes -> Summaries]
    /\ Matches \in [Summaries -> SUBSET Summaries]
    /\ \A g \in Summaries : g \in Matches[g]
    /\ Earlier \subseteq HistoryType
    /\ MaxTotal \in Nat

VARIABLES
    policy,   \* the configuration
    members,  \* the members of the group, in Slack
    cache,    \* what _group_members_cache has for the group: nothing, or an answer
    was,      \* history: the users who were members once
    excused,  \* history: the users who were no members once, and everybody
              \* after a fetch that failed
    click,    \* where each click is
    session,  \* where each session is
    memory,   \* the rows of incident memory with this alert, by summary
    ran,      \* history: what was executed, and who approved it
    \* History, kept until a success is recorded for the summary or a row of it
    \* is pruned:
    scored,   \* the sessions that were scored with it
    barred    \* the fixes that their score has blocked, and the summary it was of

\* What incident memory may have of one summary.
Rows == {h \in [total: 0..MaxTotal, successes: 0..MaxTotal] : h.successes <= h.total}

vars == <<policy, members, cache, was, excused, click, session, memory, ran, scored, barred>>

Click == [at: {"idle", "done"}]
            \cup [at: {"fetching", "denied", "needs_senior", "allowed", "running"},
                  user: Users, session: Sessions]
            \cup [at: {"answered"}, user: Users, session: Sessions,
                  answer: SUBSET Users]

\* "known" is what incident memory said when the fix was scored, and "group" the
\* summary of which it said it.
Standing == [at: {"none"}]
            \cup [at: {"awaiting", "executing", "over"}, fix: Fixes,
                  group: Summaries, known: HistoryType, executed: BOOLEAN]

TypeOK ==
    /\ policy \in Policies
    /\ members \in SUBSET Users
    /\ cache \in SUBSET SUBSET Users /\ Cardinality(cache) <= 1
    /\ was \in SUBSET Users /\ excused \in SUBSET Users
    /\ click \in [Clicks -> Click]
    /\ session \in [Sessions -> Standing]
    /\ memory \in [Summaries -> HistoryType]
    /\ ran \subseteq [fix: Fixes, by: Users]
    /\ scored \subseteq Sessions
    /\ barred \subseteq [fix: Fixes, group: Summaries]

Init ==
    /\ policy \in Policies
    /\ members \in SUBSET Users
    /\ cache = {}
    /\ was = members
    /\ excused = Users \ members
    /\ click = [c \in Clicks |-> [at |-> "idle"]]
    /\ session = [s \in Sessions |-> [at |-> "none"]]
    /\ memory \in [Summaries -> Earlier]
    /\ ran = {}
    /\ scored = {}
    /\ barred = {}

\* Somebody joins or leaves the group, if the policy has one.
ChangeMembers(u) ==
    /\ policy.group
    /\ members' = IF u \in members THEN members \ {u} ELSE members \cup {u}
    /\ was' = was \cup members'
    /\ excused' = excused \cup (Users \ members')
    /\ UNCHANGED <<policy, cache, click, session, memory, ran, scored, barred>>

-----------------------------------------------------------------------------
(* Sessions and their outcomes *)

\* The row is inserted with the summary of the session's fix, or the INSERT fails
\* and is only logged.
Recorded(s, success) ==
    LET g == Summary[session[s].fix]
    IN  \/ UNCHANGED memory
        \/ /\ memory[g].total < MaxTotal
           /\ memory' = [memory EXCEPT ![g] =
                [total |-> @.total + 1,
                 successes |-> @.successes + IF success THEN 1 ELSE 0]]

\* History: a summary that has gained a success, or has lost rows, is scored anew.
Eased == {g \in Summaries : \/ memory'[g].successes # memory[g].successes
                            \/ memory'[g].total < memory[g].total}
Outdated ==
    /\ scored' = {s \in scored : session[s].group \notin Eased}
    /\ barred' = {b \in barred : b.group \notin Eased}

\* The retention manager deletes the rows older than MEMORY_RETENTION_DAYS: any
\* of them, for their ages are not modelled.
Prune ==
    /\ memory' \in [Summaries -> Rows]
    /\ \A g \in Summaries :
         /\ memory'[g].successes <= memory[g].successes
         /\ memory'[g].total - memory'[g].successes <= memory[g].total - memory[g].successes
    /\ memory' # memory
    /\ Outdated
    /\ UNCHANGED <<policy, members, cache, was, excused, click, session, ran>>

\* The fix is proposed, and scored with what incident memory says now of a
\* summary that matches its own: the first one the query returns, in no order.
\* If the query fails the score is that of a fix without history, which is never
\* too low; so an answer that was cut off, which is not scored, is the same case.
Propose(s, fix) ==
    /\ session[s].at = "none"
    /\ \E g \in Matches[Summary[fix]] : \E known \in {memory[g], NoHistory} :
         session' = [session EXCEPT ![s] =
             [at |-> "awaiting", fix |-> fix, group |-> g, known |-> known,
              executed |-> FALSE]]
    /\ scored' = scored \cup {s}
    /\ UNCHANGED <<policy, members, cache, was, excused, click, memory, ran, barred>>

Placed(s, where, executed) ==
    [session EXCEPT ![s] = [at |-> where, fix |-> session[s].fix, group |-> session[s].group,
                            known |-> session[s].known, executed |-> executed]]
MovedTo(s, where) == Placed(s, where, session[s].executed)
Executed(s) == Placed(s, "over", TRUE)

\* A click on "Reject", in any phase, or the timer's.  RESOLVED is recorded as a
\* success if a fix of the session was executed.
Reject(s) ==
    /\ session[s].at # "none"
    /\ session' = MovedTo(s, "over")
    /\ Recorded(s, session[s].executed) /\ Outdated
    /\ UNCHANGED <<policy, members, cache, was, excused, click, ran>>

\* Grafana says that the alert is gone.
Resolve(s) ==
    /\ session[s].at \in {"awaiting", "executing"}
    /\ session' = Executed(s)
    /\ Recorded(s, TRUE) /\ Outdated
    /\ UNCHANGED <<policy, members, cache, was, excused, click, ran>>

-----------------------------------------------------------------------------
(* ApprovalPolicy.authorize, and _handle_approve around it *)

Configured == policy.listed # {} \/ policy.seniors # {} \/ policy.group

\* Mutant: whoever may approve at all may approve every fix.
NeedsSeniorNever(u, fix) == FALSE
NeedsSenior(u, fix) ==
    /\ policy.seniors # {}
    /\ RiskIndex[fix.risk] >= RiskIndex[policy.minRisk]
    /\ u \notin policy.seniors

Authorized(u, inGroup) ==
    ~Configured \/ u \in policy.listed \/ inGroup \/ u \in policy.seniors

Verdict(u, fix, inGroup) ==
    IF ~Authorized(u, inGroup) THEN "denied"
    ELSE IF Configured /\ NeedsSenior(u, fix) THEN "needs_senior" ELSE "allowed"

\* authorize returns.  The risk is that of the proposal when it was called, and
\* an allowed session is approved in whatever phase it is by now.
Return(c, u, s, inGroup) ==
    LET verdict == Verdict(u, session[s].fix, inGroup)
    IN  /\ click' = [click EXCEPT ![c] = [at |-> verdict, user |-> u, session |-> s]]
        /\ session' = IF verdict = "allowed" THEN MovedTo(s, "executing") ELSE session

AsksGroup(u) == policy.group /\ u \notin policy.listed

Approve(c, u, s) ==
    /\ click[c].at = "idle"
    /\ session[s].at = "awaiting"
    /\ \/ /\ ~AsksGroup(u)
          /\ Return(c, u, s, FALSE)
       \/ /\ AsksGroup(u) /\ cache # {}
          /\ Return(c, u, s, u \in UNION cache)
       \/ /\ AsksGroup(u) /\ cache = {}
          /\ click' = [click EXCEPT ![c] = [at |-> "fetching", user |-> u, session |-> s]]
          /\ UNCHANGED session
    /\ UNCHANGED <<policy, members, cache, was, excused, memory, ran, scored, barred>>

\* Slack answers; a failed call counts as the answer that nobody is a member.
Answer(c) ==
    /\ click[c].at = "fetching"
    /\ \E answer \in {members, {}} :
         /\ click' = [click EXCEPT ![c] =
              [at |-> "answered", user |-> click[c].user, session |-> click[c].session,
               answer |-> answer]]
         /\ excused' = IF answer = members THEN excused ELSE Users
    /\ UNCHANGED <<policy, members, cache, was, session, memory, ran, scored, barred>>

\* Mutant: an answer is kept beside what the cache had.
CachedBeside(c) == cache \cup {click[c].answer}
\* Mutant: the cached answer is that of the user only.
CachedAlone(c) == {click[c].answer \cap {click[c].user}}
Cached(c) == {click[c].answer}

\* Of two fetches under way, the one that ends last is kept.
FinishFetch(c) ==
    /\ click[c].at = "answered"
    /\ cache' = Cached(c)
    /\ Return(c, click[c].user, click[c].session, click[c].user \in click[c].answer)
    /\ UNCHANGED <<policy, members, was, excused, memory, ran, scored, barred>>

\* The guardrails, with the score as it was when the fix was proposed.
Guard(c) ==
    /\ click[c].at = "allowed"
    /\ LET s == click[c].session
           fix == session[s].fix
           blockers == Blockers(fix, session[s].known)
       IN  \/ /\ blockers = {}
              /\ click' = [click EXCEPT ![c] =
                   [at |-> "running", user |-> click[c].user, session |-> s]]
              /\ ran' = ran \cup {[fix |-> fix, by |-> click[c].user]}
              /\ UNCHANGED <<session, memory, scored, barred>>
           \/ /\ blockers # {}
              /\ click' = [click EXCEPT ![c] = [at |-> "done"]]
              /\ session' = MovedTo(s, "over")
              /\ Recorded(s, FALSE)
              /\ barred' = barred \cup
                   {b \in {[fix |-> fix, group |-> session[s].group]} :
                      s \in scored /\ "score" \in blockers}
              /\ UNCHANGED <<scored, ran>>
    /\ UNCHANGED <<policy, members, cache, was, excused>>

\* The fix worked, or did not.
Finish(c) ==
    /\ click[c].at = "running"
    /\ click' = [click EXCEPT ![c] = [at |-> "done"]]
    /\ \/ session' = Executed(click[c].session) /\ Recorded(click[c].session, TRUE)
       \/ session' = MovedTo(click[c].session, "over") /\ Recorded(click[c].session, FALSE)
    /\ Outdated
    /\ UNCHANGED <<policy, members, cache, was, excused, ran>>

Next ==
    \/ \E u \in Users : ChangeMembers(u)
    \/ Prune
    \/ \E s \in Sessions, fix \in Fixes : Propose(s, fix)
    \/ \E s \in Sessions : Reject(s) \/ Resolve(s)
    \/ \E c \in Clicks, u \in Users, s \in Sessions : Approve(c, u, s)
    \/ \E c \in Clicks : Answer(c) \/ FinishFetch(c) \/ Guard(c) \/ Finish(c)

Spec == Init /\ [][Next]_vars

-----------------------------------------------------------------------------
(* Properties that hold. *)

\* Whatever was executed was approved by somebody who is in the allowlist, is a
\* senior or was once in the group, and by a senior if its risk calls for one,
\* whichever clicks waited for Slack meanwhile, and whoever joined or left.
RunByEntitled ==
    \A r \in ran :
        /\ Configured =>
             r.by \in policy.listed \cup policy.seniors
                        \cup (IF policy.group THEN was ELSE {})
        /\ policy.seniors # {} /\ RiskIndex[r.fix.risk] >= RiskIndex[policy.minRisk]
             => r.by \in policy.seniors

\* Nobody is refused without a reason: seniors and listed users never are,
\* whatever Slack answers, and a user who was always in the group only if a
\* fetch of its members has failed (which is then remembered).
RefusedWithReason ==
    \A c \in Clicks : click[c].at = "denied" =>
        /\ click[c].user \notin policy.listed \cup policy.seniors
        /\ policy.group => click[c].user \in excused

\* The score has no way back of its own: after it blocked a fix for what incident
\* memory says of a summary, that summary keeps blocking the fix, for whichever
\* session is scored with it, until a session that was not blocked, or an alert
\* that went away by itself, adds a success to it, or rows of it are pruned.
\* Rejections and blocked executions count as failures.
NoWayBack == \A b \in barred : ScoreTooLow(b.fix, memory[b.group])
=============================================================================
