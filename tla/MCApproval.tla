---------------------------- MODULE MCApproval ----------------------------
(***************************************************************************)
(* Approval with a few clicks, deliveries and providers.                   *)
(***************************************************************************)
EXTENDS Approval

CONSTANTS a1, a2, r1, g1, k1, pd, og

\* Which clicks and deliveries come together: two approvals, one of them by
\* way of the Slack group; an approval that may be late and what closes the
\* session meanwhile; an approval, what closes the session, and a rollback.
Scenes == {{a1, a2}, {a2, r1}, {a2, g1}, {a1, r1, k1}, {a1, g1, k1}}

\* The bound keeps back clicks and deliveries only: every step that fairness
\* speaks of is that of a handler that has come, or of the timer.
OneScene ==
    \E come \in Scenes : \A h \in Handlers \ come : pc[h] = "idle"

MCNext == Next /\ OneScene'

MCSpec == Init /\ [][MCNext]_vars /\ Fairness
=============================================================================
