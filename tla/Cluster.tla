------------------------------- MODULE Cluster -------------------------------
(***************************************************************************)
(* tools/cluster_mutate.py: the six tools that change the cluster, and who *)
(* calls them for one incident: the agent that diagnoses it, which has the *)
(* whole registry of agent/tool_registry.py; the executor of the approved  *)
(* fix (agent/executor.py); and the rollback button (slack/bot.py).  Other *)
(* people change the cluster too, and the Deployment controller of         *)
(* Kubernetes numbers the rollouts some time after they were asked for.    *)
(*                                                                         *)
(* The tools act on the Deployment of the alert, its ReplicaSets, the pod  *)
(* of the alert, and the objects that can be created.  What a patch or a   *)
(* restart reads first only goes into the answer.                          *)
(***************************************************************************)
EXTENDS Naturals, FiniteSets

CONSTANTS
    Fields,      \* of the pod template; 0 is the value of an absent one
    MaxValue,
    Required,    \* the fields that Kubernetes does not let anyone remove
    Restarted,   \* the field that is the annotation restartedAt
    Initial,     \* templates the Deployment may have at first
    Scales,      \* replica counts that are asked for
    SafetyLimit, \* 100
    Names,       \* objects that are created
    MaxLive,     \* bound: live calls of the tools
    MaxOthers,   \* bound: changes by other people
    MaxClicks    \* bound: clicks on the rollback button

ASSUME ClusterAssumption ==
    /\ Restarted \in Fields
    /\ Initial \subseteq [Fields -> 0..MaxValue]
    /\ MaxValue \in Nat /\ Scales \subseteq Nat /\ SafetyLimit \in Nat
    /\ MaxLive \in Nat /\ MaxOthers \in Nat /\ MaxClicks \in Nat

VARIABLES
    template,   \* Deployment.spec.template
    revision,   \* ReplicaSets: the revision of the one with this template, 0: none
    annotation, \* the revision in the annotation of the Deployment
    objects,    \* replica count, pod of the alert, what was created
    stage,      \* of the session: investigating, awaiting, executing, done
    calls,      \* the call each caller has under way
    before,     \* the template when the execution began
    history,    \* of the template since then: changes by the executor, by
                \* rollbacks and by others, and (hasty) whether one of them was
                \* decided on before the controller had numbered the one before
    live,       \* the callers that changed the cluster
    used        \* live calls and clicks so far

vars == <<template, revision, annotation, objects, stage, calls, before, history, live, used>>

Template == [Fields -> 0..MaxValue]
Callers == {"investigator", "executor", "click1", "click2"}
Clicks == {"click1", "click2"}
Tools == {"patch_resource", "scale_deployment", "rollback_deployment",
          "restart_deployment", "delete_pod", "create_resource"}

\* rev, target and hasty are what rollback_deployment has found out so far.
Call(tool, dryRun, at, rev, target, hasty) ==
    [tool |-> tool, dryRun |-> dryRun, at |-> at,
     rev |-> rev, target |-> target, hasty |-> hasty]
Calls == [tool: Tools \cup {"none"}, dryRun: BOOLEAN, at: {"none", "started", "read", "listed"},
          rev: Nat, target: Template, hasty: {0, 1}]

Nothing == [f \in Fields |-> 0]
NoCall == Call("none", TRUE, "none", 0, Nothing, 0)
Objects == [replicas: Nat, pod: BOOLEAN, created: SUBSET Names]
History == [fixes: Nat, undone: Nat, others: Nat, hasty: {0, 1}]

TypeOK ==
    /\ template \in Template /\ before \in Template
    /\ revision \in [Template -> Nat] /\ annotation \in Nat \ {0}
    /\ objects \in Objects
    /\ stage \in {"investigating", "awaiting", "executing", "done"}
    /\ calls \in [Callers -> Calls]
    /\ history \in History
    /\ live \in SUBSET Callers
    /\ used \in [live: 0..MaxLive, others: 0..MaxOthers, clicks: 0..MaxClicks]

NoHistory == [fixes |-> 0, undone |-> 0, others |-> 0, hasty |-> 0]

Init ==
    /\ template \in Initial
    /\ revision = [t \in Template |-> IF t = template THEN 1 ELSE 0]
    /\ annotation = 1
    /\ objects = [replicas |-> 1, pod |-> TRUE, created |-> {}]
    /\ stage = "investigating"
    /\ calls = [c \in Callers |-> NoCall]
    /\ before = template
    /\ history = NoHistory
    /\ live = {}
    /\ used = [live |-> 0, others |-> 0, clicks |-> 0]

-----------------------------------------------------------------------------
(* Kubernetes. *)

\* A strategic merge patch: what the patch does not mention stays.
Merge(t, patch) == [f \in Fields |-> IF patch[f] # 0 THEN patch[f] ELSE t[f]]

Only(f, v) == [g \in Fields |-> IF g = f THEN v ELSE 0]

\* The controller has seen the template and numbered its ReplicaSet.
Observed == revision[template] = annotation

\* It creates the ReplicaSet, or uses the one that has this template again.
ObserveRollout ==
    /\ ~Observed
    /\ revision' = [revision EXCEPT ![template] = annotation + 1]
    /\ annotation' = annotation + 1
    /\ UNCHANGED <<template, objects, stage, calls, before, history, live, used>>

Hasty == IF Observed THEN 0 ELSE 1

Counted(h, who, hasty) ==
    [fixes |-> IF who = "executor" THEN h.fixes + 1 ELSE h.fixes,
     undone |-> IF who \in Clicks THEN h.undone + 1 ELSE h.undone,
     others |-> IF who = "others" THEN h.others + 1 ELSE h.others,
     hasty |-> IF hasty = 1 THEN 1 ELSE h.hasty]

\* Somebody rolls out something with kubectl, which may remove a field.
OtherChange ==
    /\ used.others < MaxOthers
    /\ used' = [used EXCEPT !.others = @ + 1]
    /\ \E f \in Fields, v \in 0..MaxValue :
         /\ v # template[f] /\ (f \in Required => v # 0)
         /\ template' = [template EXCEPT ![f] = v]
    /\ history' = Counted(history, "others", Hasty)
    /\ UNCHANGED <<revision, annotation, objects, stage, calls, before, live>>

-----------------------------------------------------------------------------
(* The session. *)

Idle(c) == calls[c] = NoCall

\* The diagnosis ends with a fix that waits for approval.
Propose ==
    /\ stage = "investigating" /\ Idle("investigator")
    /\ stage' = "awaiting"
    /\ UNCHANGED <<template, revision, annotation, objects, calls, before, history, live, used>>

\* A human approves, and the executor begins.
Approve ==
    /\ stage = "awaiting"
    /\ stage' = "executing"
    /\ before' = template
    /\ history' = NoHistory
    /\ UNCHANGED <<template, revision, annotation, objects, calls, live, used>>

\* The executor's last answer; the button is offered if it says ROLLBACK_NEEDED.
FinishExecution ==
    /\ stage = "executing" /\ Idle("executor")
    /\ stage' = "done"
    /\ UNCHANGED <<template, revision, annotation, objects, calls, before, history, live, used>>

-----------------------------------------------------------------------------
(* The tools. *)

\* Who dispatches tools from the registry with the tools that change things.
MayCall(c) ==
    \/ c = "investigator" /\ stage = "investigating"
    \/ c = "executor" /\ stage = "executing"

\* dispatch: Claude chooses the tool and whether it is a dry run.
Dispatch(c, tool, dryRun) ==
    /\ MayCall(c) /\ Idle(c)
    /\ dryRun \/ used.live < MaxLive
    /\ used' = [used EXCEPT !.live = @ + (IF dryRun THEN 0 ELSE 1)]
    /\ calls' = [calls EXCEPT ![c] = Call(tool, dryRun, "started", 0, Nothing, 0)]
    /\ UNCHANGED <<template, revision, annotation, objects, stage, before, history, live>>

\* _handle_rollback: a live rollback_deployment to the previous revision.
ClickRollback(c) ==
    /\ stage = "done" /\ Idle(c) /\ used.clicks < MaxClicks
    /\ used' = [used EXCEPT !.clicks = @ + 1]
    /\ calls' = [calls EXCEPT ![c] =
                    Call("rollback_deployment", FALSE, "started", 0, Nothing, 0)]
    /\ UNCHANGED <<template, revision, annotation, objects, stage, before, history, live>>

Returned(c) == calls' = [calls EXCEPT ![c] = NoCall]

\* The Kubernetes API answers with an error: whatever was under way, dispatch
\* returns it as the result of the call.
CallFails(c) ==
    /\ ~Idle(c)
    /\ Returned(c)
    /\ UNCHANGED <<template, revision, annotation, objects, stage, before, history, live, used>>

\* A change of the template by c.
Patched(c, t, hasty) ==
    /\ template' = t
    /\ history' = IF t = template THEN history ELSE Counted(history, c, hasty)
    /\ live' = live \cup {c}

DryRun(c) ==
    /\ calls[c].at = "started" /\ calls[c].dryRun
    /\ calls[c].tool # "rollback_deployment"
    /\ Returned(c)
    /\ UNCHANGED <<template, revision, annotation, objects, stage, before, history, live, used>>

Running(c, tool) ==
    calls[c].tool = tool /\ calls[c].at = "started" /\ ~calls[c].dryRun

\* Claude's patch sets a field, or removes it with a null.
PatchResource(c) ==
    /\ Running(c, "patch_resource")
    /\ \E f \in Fields \ {Restarted}, v \in 0..MaxValue :
         /\ f \in Required => v # 0
         /\ Patched(c, [template EXCEPT ![f] = v], Hasty)
    /\ Returned(c)
    /\ UNCHANGED <<revision, annotation, objects, stage, before, used>>

\* restartedAt gets a value it did not have.
RestartDeployment(c) ==
    /\ Running(c, "restart_deployment")
    /\ template[Restarted] < MaxValue
    /\ Patched(c, Merge(template, Only(Restarted, template[Restarted] + 1)), Hasty)
    /\ Returned(c)
    /\ UNCHANGED <<revision, annotation, objects, stage, before, used>>

Changed(c, o) ==
    /\ objects' = o
    /\ live' = live \cup {c}
    /\ Returned(c)
    /\ UNCHANGED <<template, revision, annotation, stage, before, history, used>>

ScaleDeployment(c) ==
    /\ Running(c, "scale_deployment")
    /\ \E n \in Scales : n <= SafetyLimit /\ Changed(c, [objects EXCEPT !.replicas = n])

\* The pod of the alert is replaced by one with another name.
DeletePod(c) ==
    /\ Running(c, "delete_pod") /\ objects.pod
    /\ Changed(c, [objects EXCEPT !.pod = FALSE])

\* Creating an object that exists is a conflict.
CreateResource(c) ==
    /\ Running(c, "create_resource")
    /\ \E n \in Names \ objects.created :
         Changed(c, [objects EXCEPT !.created = @ \cup {n}])

\* rollback_deployment reads the Deployment; the target is the revision before
\* its own, or the one that was asked for, which the button never does ...
ReadDeployment(c) ==
    /\ calls[c].tool = "rollback_deployment" /\ calls[c].at = "started"
    /\ \E rev \in IF c \in Clicks THEN {annotation - 1} ELSE 0..annotation :
         calls' = [calls EXCEPT ![c] =
                      Call("rollback_deployment", calls[c].dryRun, "read", rev, Nothing, Hasty)]
    /\ UNCHANGED <<template, revision, annotation, objects, stage, before, history, live, used>>

\* Mutant: the target is the oldest ReplicaSet that is left.
TargetOldest(c) == {t \in Template : revision[t] # 0 /\
                       \A u \in Template : revision[u] # 0 => revision[t] <= revision[u]}
\* The ReplicaSet with the target revision.
Target(c) == {t \in Template : revision[t] # 0 /\ revision[t] = calls[c].rev}

\* ... and then its ReplicaSets, among which it looks for the target.
ListReplicaSets(c) ==
    /\ calls[c].at = "read"
    /\ \/ /\ Target(c) = {}
          /\ Returned(c)
       \/ /\ Target(c) # {} /\ calls[c].dryRun
          /\ Returned(c)
       \/ /\ ~calls[c].dryRun
          /\ \E t \in Target(c) :
               calls' = [calls EXCEPT ![c] =
                            Call("rollback_deployment", FALSE, "listed", calls[c].rev, t,
                                 calls[c].hasty)]
    /\ UNCHANGED <<template, revision, annotation, objects, stage, before, history, live, used>>

\* The patch is the template of the target.
RollbackDeployment(c) ==
    /\ calls[c].at = "listed"
    /\ Patched(c, Merge(template, calls[c].target), calls[c].hasty)
    /\ Returned(c)
    /\ UNCHANGED <<revision, annotation, objects, stage, before, used>>

Mutate(c) ==
    \/ DryRun(c) \/ CallFails(c)
    \/ PatchResource(c) \/ RestartDeployment(c) \/ ScaleDeployment(c)
    \/ DeletePod(c) \/ CreateResource(c)
    \/ ReadDeployment(c) \/ ListReplicaSets(c) \/ RollbackDeployment(c)

Next ==
    \/ ObserveRollout \/ OtherChange
    \/ Propose \/ Approve \/ FinishExecution
    \/ \E c \in Callers, tool \in Tools, dryRun \in BOOLEAN : Dispatch(c, tool, dryRun)
    \/ \E c \in Clicks : ClickRollback(c)
    \/ \E c \in Callers : Mutate(c)

Spec == Init /\ [][Next]_vars

-----------------------------------------------------------------------------
(* Properties that hold. *)

\* One rollback undoes a fix that was one rollout: every field the template had
\* before gets its value back, provided nobody else changed the template since
\* the execution began and the controller had numbered each rollout before the
\* next one was decided on.  A field that the fix added stays.
RollbackRestores ==
    history = [fixes |-> 1, undone |-> 1, others |-> 0, hasty |-> 0] =>
        \A f \in Fields : before[f] # 0 => template[f] = before[f]

-----------------------------------------------------------------------------
(* A property that does not hold. *)

\* README.md: the agent never executes a fix without human approval.
ChangesAreApproved == stage \in {"investigating", "awaiting"} => live = {}
=============================================================================
