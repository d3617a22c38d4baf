------------------------------- MODULE Health -------------------------------
(***************************************************************************)
(* agent/multi_agent/health.py: AgentHealthChecker behind /ready and       *)
(* /ready/agents.  A check pings Claude with the key of the settings in a  *)
(* thread and caches the result; several requests may check one agent at   *)
(* the same time.  Multi-agent mode is on: without it every check but that *)
(* of the executor answers "not_configured".                               *)
(***************************************************************************)
EXTENDS Credentials, FiniteSets

CONSTANTS
    ApiKey,     \* anthropic_api_key, one of the fields
    Agents,     \* agents that are checked by a ping
    TTL,        \* HEALTH_CACHE_TTL
    MaxFlight,  \* the time within which a ping is answered or times out
    MaxPings    \* bound: pings at one time

ASSUME HealthAssumption ==
    /\ ApiKey \in Fields
    /\ TTL \in Nat /\ MaxFlight \in Nat /\ MaxPings \in Nat

VARIABLES
    revoked,  \* when the owner of a key revoked it, 0 if it is valid
    pings,    \* the pings under way; answer is "none" until Claude has answered
    cache     \* AgentHealthChecker._cache

healthVars == <<revoked, pings, cache>>

Keys == 1..MaxRotations + 1
Status == {"ok", "degraded", "error"}
Ping == [agent: Agents, key: Keys, since: 1..MaxNow, answer: Status \cup {"none"}]
NoEntry == [at |-> 0, status |-> "none", key |-> 0]

HealthTypeOK ==
    /\ revoked \in [Keys -> 0..MaxNow]
    /\ pings \in SUBSET Ping
    /\ cache \in [Agents -> [at: 0..MaxNow, status: Status \cup {"none"}, key: Mtime]]

HealthInit ==
    /\ revoked = [k \in Keys |-> 0]
    /\ pings = {}
    /\ cache = [a \in Agents |-> NoEntry]

-----------------------------------------------------------------------------
\* A ping that is not answered in time is over by then.
PingsInTime == \A p \in pings : now - p.since < MaxFlight

\* A key that was replaced is revoked.
Revoke(k) ==
    /\ revoked[k] = 0
    /\ k < mounted.mtime /\ k # mounted.value[ApiKey]
    /\ revoked' = [revoked EXCEPT ![k] = now]
    /\ UNCHANGED <<pings, cache, credentialVars, lifespanVars>>

\* _get_cached returns the entry.
Cached(a) == cache[a].status # "none" /\ now - cache[a].at < TTL

\* Mutant: an entry that is served is stored again.
CheckAgentRestamps(a, force) ==
    /\ server = "up" /\ reader = "nobody"
    /\ IF Cached(a) /\ ~force
       THEN cache' = [cache EXCEPT ![a].at = now] /\ UNCHANGED pings
       ELSE /\ settings[ApiKey] # 0 /\ Cardinality(pings) < MaxPings
            /\ pings' = pings \cup {[agent |-> a, key |-> settings[ApiKey],
                                     since |-> now, answer |-> "none"]}
            /\ UNCHANGED cache
    /\ UNCHANGED <<revoked, credentialVars, lifespanVars>>
\* check_triage, check_specialist, check_coordinator, check_executor.  A cached
\* result is served as it is; without a key, there is nothing to ping with.
CheckAgent(a, force) ==
    /\ server = "up" /\ reader = "nobody"
    /\ force \/ ~Cached(a)
    /\ \/ /\ settings[ApiKey] = 0
          /\ cache' = [cache EXCEPT ![a] = [at |-> now, status |-> "error", key |-> 0]]
          /\ UNCHANGED pings
       \/ /\ settings[ApiKey] # 0 /\ Cardinality(pings) < MaxPings
          /\ pings' = pings \cup {[agent |-> a, key |-> settings[ApiKey],
                                   since |-> now, answer |-> "none"]}
          /\ UNCHANGED cache
    /\ UNCHANGED <<revoked, credentialVars, lifespanVars>>

\* Claude is throttled or out of reach at any time, and refuses a revoked key.
Answer(p) ==
    /\ p \in pings /\ p.answer = "none"
    /\ \E status \in Status :
         /\ status = "ok" => revoked[p.key] = 0
         /\ pings' = (pings \ {p}) \cup {[p EXCEPT !.answer = status]}
    /\ UNCHANGED <<revoked, cache, credentialVars, lifespanVars>>

\* The thread is done, and _set_cache stores what it returned.
FinishCheck(p) ==
    /\ p \in pings /\ p.answer # "none" /\ reader = "nobody"
    /\ cache' = [cache EXCEPT ![p.agent] =
                    [at |-> now, status |-> p.answer,
                     key |-> IF p.answer = "ok" THEN p.key ELSE 0]]
    /\ pings' = pings \ {p}
    /\ UNCHANGED <<revoked, credentialVars, lifespanVars>>

StopHealth ==
    /\ pings' = {}
    /\ cache' = [a \in Agents |-> NoEntry]
    /\ UNCHANGED revoked

HealthNext ==
    \/ \E k \in Keys : Revoke(k)
    \/ \E a \in Agents, force \in BOOLEAN : CheckAgent(a, force)
    \/ \E p \in pings : Answer(p) \/ FinishCheck(p)

-----------------------------------------------------------------------------
(* Properties that hold. *)

\* An "ok" that /ready/agents serves was true not longer ago than the cache
\* keeps it and a ping may last, although a forced check bypasses the cache and
\* a late ping may overwrite the result of a newer one.
OkIsRecent ==
    \A a \in Agents :
        Cached(a) /\ cache[a].status = "ok" =>
            LET at == revoked[cache[a].key]
            IN at = 0 \/ now - at < TTL + MaxFlight
=============================================================================
