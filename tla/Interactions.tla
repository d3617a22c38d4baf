---------------------------- MODULE Interactions ----------------------------
(***************************************************************************)
(* slack/bot.py, handle_interaction: the endpoint behind the buttons.  A   *)
(* request is granted by the rate limiter, its body is awaited, and its    *)
(* action is handed to a handler unless the idempotency cache knows it.    *)
(* Slack and the network deliver an action as often as they like.          *)
(*                                                                         *)
(* The cache is bounded; what keeps Slack's retries from being handled     *)
(* again is that the limiter does not let enough other actions through to  *)
(* displace one.  Slack sends one action per request for a button.         *)
(***************************************************************************)
EXTENDS RateLimiter, Sequences

CONSTANTS
    Endpoint,   \* "interactions", the only key slack_limiter is asked about
    Actions,    \* trigger_id and action_id
    MaxSeen,    \* max_size
    MaxReading  \* bound: requests whose body is awaited

ASSUME InteractionsAssumption ==
    /\ Endpoint \in Keys
    /\ MaxSeen \in Nat \ {0} /\ MaxReading \in Nat

VARIABLES
    reading,  \* the number of requests whose body is awaited
    seen,     \* _IdempotencyCache._seen, the oldest key first
    handled,  \* history: the actions handled since spent and ticks began
    again,    \* history: one of them was handled again
    carried   \* history: the requests that were being read by then

cacheVars == <<reading, seen, handled, again, carried>>

CacheTypeOK ==
    /\ reading \in 0..MaxReading /\ carried \in 0..MaxReading
    /\ seen \in Seq(Actions) /\ Len(seen) <= MaxSeen
    /\ handled \in SUBSET Actions
    /\ again \in BOOLEAN

InteractionsInit ==
    /\ Init
    /\ reading = 0 /\ seen = <<>>
    /\ handled = {} /\ again = FALSE /\ carried = 0

-----------------------------------------------------------------------------
\* A request arrives, and is refused with 429 or read.
Receive ==
    /\ reading < MaxReading
    /\ Allow(Endpoint)
    /\ reading' = IF answer'.allowed THEN reading + 1 ELSE reading
    /\ UNCHANGED <<seen, handled, again, carried>>

\* The signature is not Slack's, or the payload is empty: it has cost a token.
Discard ==
    /\ reading > 0
    /\ reading' = reading - 1
    /\ UNCHANGED <<vars, seen, handled, again, carried>>

Known(a) == \E i \in 1..Len(seen) : seen[i] = a

\* Mutant: popitem without its argument removes the newest.
RoomOfNewest(s) == IF Len(s) >= MaxSeen THEN SubSeq(s, 1, Len(s) - 1) ELSE s
Room(s) == IF Len(s) >= MaxSeen THEN Tail(s) ELSE s

\* check_and_mark: a key that is known stays where it is ...
Deduplicate(a) ==
    /\ reading > 0 /\ Known(a)
    /\ reading' = reading - 1
    /\ UNCHANGED <<vars, seen, handled, again, carried>>

\* ... and a new one takes the place of the oldest, and gets a handler.
Handle(a) ==
    /\ reading > 0 /\ ~Known(a)
    /\ reading' = reading - 1
    /\ seen' = Append(Room(seen), a)
    /\ handled' = handled \cup {a}
    /\ again' = (again \/ a \in handled)
    /\ UNCHANGED <<vars, carried>>

Watch ==
    /\ OpenWindow
    /\ handled' = {} /\ again' = FALSE /\ carried' = reading
    /\ UNCHANGED <<reading, seen>>

InteractionsNext ==
    \/ Receive \/ Discard
    \/ \E a \in Actions : Deduplicate(a) \/ Handle(a)
    \/ Watch
    \/ (Tick \/ \E k \in Keys \ {Endpoint} : Allow(k)) /\ UNCHANGED cacheVars

InteractionsSpec == InteractionsInit /\ [][InteractionsNext]_<<vars, cacheVars>>

-----------------------------------------------------------------------------
(* A property that holds. *)

\* An action that is delivered again is not handled again, as long as the time
\* between is too short for the limiter to grant what it takes to displace its
\* key: one request for it, MaxSeen for others, and the one that repeats it.  The
\* requests that were being read when the time began are granted already.
HandledOnce ==
    Capacity + ticks + Cost * carried < Cost * (MaxSeen + 2) => ~again
=============================================================================
