----------------------------- MODULE MCCluster -----------------------------
(***************************************************************************)
(* Cluster with a template of an image, a limit that may be absent, and    *)
(* the annotation of restarts.                                             *)
(***************************************************************************)
EXTENDS Cluster

MCFields == {"image", "limits", "restartedAt"}

\* The limit may be there before the fix, or not.
MCInitial == {[f \in MCFields |-> IF f = "image" THEN 1 ELSE IF f = "limits" THEN l ELSE 0]
                : l \in {0, 1}}
=============================================================================
