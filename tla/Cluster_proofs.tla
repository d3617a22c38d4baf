---------------------------- MODULE Cluster_proofs ----------------------------
(***************************************************************************)
(* For any template, any values of its fields, and any number of calls,    *)
(* changes by other people and clicks.                                     *)
(***************************************************************************)
EXTENDS Cluster, TLAPS

\* The numbers of the ReplicaSets: none twice, none beyond the annotation.
Numbered ==
    /\ annotation > 0
    /\ \A t \in Template : revision[t] <= annotation
    /\ \A t, u \in Template : revision[t] = revision[u] /\ revision[t] > 0 => t = u

\* Who has a call under way depends on the stage.
Staged ==
    /\ stage # "investigating" => Idle("investigator")
    /\ stage # "executing" => Idle("executor")
    /\ stage # "done" => history.undone = 0 /\ \A c \in Clicks : Idle(c)
    /\ stage \in {"investigating", "awaiting"} => history.fixes = 0
    /\ \A c \in Clicks : calls[c].tool \in {"none", "rollback_deployment"}

Begun == stage \in {"executing", "done"}
Undone(fixes) == Begun /\ history.fixes = fixes /\ history.undone = 0 /\ history.others = 0

\* Before the fix: the template is the one that was approved for a change, and
\* what the executor's rollback has seen of it is still so.
BeforeFix ==
    Undone(0) =>
        /\ template = before
        /\ calls["executor"].at \in {"read", "listed"} /\ calls["executor"].hasty = 0
              => Observed

\* After it: the revision of the old template is the one before the current one,
\* as soon as the new one is numbered; and that is the one a click looks for.
AfterFix ==
    Undone(1) /\ history.hasty = 0 =>
        /\ template # before
        /\ revision[before] = IF Observed THEN annotation - 1 ELSE annotation
        /\ revision[before] > 0
        /\ \A c \in Clicks : calls[c].hasty = 0 =>
              /\ calls[c].at = "read" => Observed /\ calls[c].rev = revision[before]
              /\ calls[c].at = "listed" => calls[c].target = before

Inv == Numbered /\ Staged /\ BeforeFix /\ AfterFix /\ RollbackRestores
-----------------------------------------------------------------------------
(* Types *)

LEMMA MergeType ==
    ASSUME NEW t \in Template, NEW p \in Template
    PROVE  Merge(t, p) \in Template
BY DEF Merge, Template

LEMMA OnlyType ==
    ASSUME NEW f \in Fields, NEW v \in 0..MaxValue
    PROVE  Only(f, v) \in Template
<1>1. 0 \in 0..MaxValue
  BY ClusterAssumption
<1> QED BY <1>1 DEF Only, Template

LEMMA NothingType == Nothing \in Template /\ NoCall \in Calls /\ NoHistory \in History
<1>1. Nothing \in Template
  BY ClusterAssumption DEF Nothing, Template
<1> QED BY <1>1 DEF NoCall, Call, Calls, NoHistory, History

LEMMA CallType ==
    ASSUME NEW tool \in Tools \cup {"none"}, NEW dryRun \in BOOLEAN,
           NEW at \in {"none", "started", "read", "listed"}, NEW rev \in Nat,
           NEW target \in Template, NEW hasty \in {0, 1}
    PROVE  /\ Call(tool, dryRun, at, rev, target, hasty) \in Calls
           /\ Call(tool, dryRun, at, rev, target, hasty).tool = tool
           /\ Call(tool, dryRun, at, rev, target, hasty).at = at
           /\ Call(tool, dryRun, at, rev, target, hasty).rev = rev
           /\ Call(tool, dryRun, at, rev, target, hasty).target = target
           /\ Call(tool, dryRun, at, rev, target, hasty).hasty = hasty
BY DEF Call, Calls

\* What a call is, seen from outside.
LEMMA CallFacts ==
    ASSUME TypeOK, NEW c \in Callers
    PROVE  /\ calls[c] \in Calls /\ calls[c].tool \in Tools \cup {"none"}
           /\ calls[c].dryRun \in BOOLEAN /\ calls[c].rev \in Nat
           /\ calls[c].target \in Template /\ calls[c].hasty \in {0, 1}
           /\ Idle(c) => calls[c].tool = "none" /\ calls[c].at = "none"
<1>1. calls[c] \in Calls
  BY DEF TypeOK
<1>2. NoCall.tool = "none" /\ NoCall.at = "none"
  BY DEF NoCall, Call
<1> QED BY <1>1, <1>2 DEF Calls, Idle

LEMMA CountedType ==
    ASSUME NEW h \in History, NEW who, NEW hasty \in {0, 1}
    PROVE  Counted(h, who, hasty) \in History
BY DEF Counted, History

LEMMA HastyType == Hasty \in {0, 1} /\ (Hasty = 0 <=> Observed)
BY DEF Hasty

\* A step that changes one call.
LEMMA CallsType ==
    ASSUME TypeOK, NEW c \in Callers, NEW k \in Calls,
           calls' = [calls EXCEPT ![c] = k]
    PROVE  /\ calls' \in [Callers -> Calls] /\ calls'[c] = k
           /\ \A d \in Callers \ {c} : calls'[d] = calls[d]
BY DEF TypeOK

\* A step that changes the template through a tool.
LEMMA PatchedType ==
    ASSUME TypeOK, NEW c \in Callers, NEW t \in Template, NEW hasty \in {0, 1},
           Patched(c, t, hasty), Returned(c),
           UNCHANGED <<revision, annotation, objects, stage, before, used>>
    PROVE  TypeOK'
<1>1. calls' \in [Callers -> Calls]
  BY NothingType, CallsType DEF Returned
<1>2. history' \in History
  BY CountedType DEF Patched, TypeOK
<1>3. live' \in SUBSET Callers
  BY DEF Patched, TypeOK
<1> QED BY <1>1, <1>2, <1>3 DEF TypeOK, Patched

\* A step that changes something else of the cluster.
LEMMA ChangedType ==
    ASSUME TypeOK, NEW c \in Callers, NEW o \in Objects, Changed(c, o)
    PROVE  TypeOK'
<1>1. calls' \in [Callers -> Calls]
  BY NothingType, CallsType DEF Returned, Changed
<1> QED BY <1>1 DEF TypeOK, Changed

\* A step that changes a call and nothing else but the bounds.
LEMMA QuietType ==
    ASSUME TypeOK, NEW c \in Callers, NEW k \in Calls,
           calls' = [calls EXCEPT ![c] = k],
           used' \in [live: 0..MaxLive, others: 0..MaxOthers, clicks: 0..MaxClicks],
           UNCHANGED <<template, revision, annotation, objects, stage, before, history, live>>
    PROVE  TypeOK'
<1>1. calls' \in [Callers -> Calls]
  BY CallsType
<1> QED BY <1>1 DEF TypeOK

LEMMA InitType == Init => TypeOK
<1> SUFFICES ASSUME Init PROVE TypeOK
  OBVIOUS
<1>1. /\ template \in Template /\ before \in Template
      /\ revision \in [Template -> Nat] /\ annotation \in Nat \ {0}
  BY ClusterAssumption DEF Init, Template
<1>2. objects \in Objects
  BY DEF Init, Objects
<1>3. calls \in [Callers -> Calls] /\ history \in History
  BY NothingType DEF Init
<1>4. used \in [live: 0..MaxLive, others: 0..MaxOthers, clicks: 0..MaxClicks]
  BY ClusterAssumption DEF Init
<1> QED BY <1>1, <1>2, <1>3, <1>4 DEF Init, TypeOK

LEMMA StepType ==
    ASSUME TypeOK, [Next]_vars
    PROVE  TypeOK'
<1>1. CASE ObserveRollout
  <2>1. annotation' \in Nat \ {0} /\ revision' \in [Template -> Nat]
    BY <1>1 DEF ObserveRollout, TypeOK
  <2> QED BY <1>1, <2>1 DEF ObserveRollout, TypeOK
<1>2. CASE OtherChange
  <2>1. template' \in Template
    BY <1>2, ClusterAssumption DEF OtherChange, TypeOK, Template
  <2>2. history' \in History
    BY <1>2, CountedType, HastyType DEF OtherChange, TypeOK
  <2>3. used' \in [live: 0..MaxLive, others: 0..MaxOthers, clicks: 0..MaxClicks]
    BY <1>2, ClusterAssumption DEF OtherChange, TypeOK
  <2> QED BY <1>2, <2>1, <2>2, <2>3 DEF OtherChange, TypeOK
<1>3. CASE Propose
  BY <1>3 DEF Propose, TypeOK
<1>4. CASE Approve
  BY <1>4, NothingType DEF Approve, TypeOK
<1>5. CASE FinishExecution
  BY <1>5 DEF FinishExecution, TypeOK
<1>6. ASSUME NEW c \in Callers, NEW tool \in Tools, NEW dryRun \in BOOLEAN,
             Dispatch(c, tool, dryRun)
      PROVE  TypeOK'
  <2>1. Call(tool, dryRun, "started", 0, Nothing, 0) \in Calls
    BY CallType, NothingType
  <2>2. used' \in [live: 0..MaxLive, others: 0..MaxOthers, clicks: 0..MaxClicks]
    BY <1>6, ClusterAssumption DEF Dispatch, TypeOK
  <2> QED BY <1>6, <2>1, <2>2, QuietType DEF Dispatch
<1>7. ASSUME NEW c \in Clicks, ClickRollback(c) PROVE TypeOK'
  <2>1. c \in Callers
    BY DEF Clicks, Callers
  <2>2. Call("rollback_deployment", FALSE, "started", 0, Nothing, 0) \in Calls
    BY CallType, NothingType DEF Tools
  <2>3. used' \in [live: 0..MaxLive, others: 0..MaxOthers, clicks: 0..MaxClicks]
    BY <1>7, ClusterAssumption DEF ClickRollback, TypeOK
  <2> QED BY <1>7, <2>1, <2>2, <2>3, QuietType DEF ClickRollback
<1>8. ASSUME NEW c \in Callers, Mutate(c) PROVE TypeOK'
  <2>0. used \in [live: 0..MaxLive, others: 0..MaxOthers, clicks: 0..MaxClicks]
    BY DEF TypeOK
  <2>1. CASE DryRun(c)
    BY <2>0, <2>1, NothingType, QuietType DEF DryRun, Returned
  <2>2. CASE CallFails(c)
    BY <2>0, <2>2, NothingType, QuietType DEF CallFails, Returned
  <2>3. CASE PatchResource(c)
    <3>1. PICK f \in Fields \ {Restarted}, v \in 0..MaxValue :
             Patched(c, [template EXCEPT ![f] = v], Hasty)
      BY <2>3 DEF PatchResource
    <3>2. [template EXCEPT ![f] = v] \in Template
      BY DEF TypeOK, Template
    <3>3. Returned(c) /\ UNCHANGED <<revision, annotation, objects, stage, before, used>>
      BY <2>3 DEF PatchResource
    <3> QED BY <3>1, <3>2, <3>3, HastyType, PatchedType
  <2>4. CASE RestartDeployment(c)
    <3> DEFINE v == template[Restarted] + 1
    <3>1. v \in 0..MaxValue
      BY <2>4, ClusterAssumption DEF RestartDeployment, TypeOK, Template
    <3>2. /\ Patched(c, Merge(template, Only(Restarted, v)), Hasty) /\ Returned(c)
          /\ UNCHANGED <<revision, annotation, objects, stage, before, used>>
      BY <2>4 DEF RestartDeployment
    <3> HIDE DEF v
    <3>3. Merge(template, Only(Restarted, v)) \in Template
      BY <3>1, OnlyType, MergeType, ClusterAssumption DEF TypeOK
    <3> QED BY <3>2, <3>3, HastyType, PatchedType
  <2>5. CASE ScaleDeployment(c)
    <3>1. PICK n \in Scales : Changed(c, [objects EXCEPT !.replicas = n])
      BY <2>5 DEF ScaleDeployment
    <3>2. [objects EXCEPT !.replicas = n] \in Objects
      BY ClusterAssumption DEF TypeOK, Objects
    <3> QED BY <3>1, <3>2, ChangedType
  <2>6. CASE DeletePod(c)
    <3>1. [objects EXCEPT !.pod = FALSE] \in Objects
      BY DEF TypeOK, Objects
    <3> QED BY <2>6, <3>1, ChangedType DEF DeletePod
  <2>7. CASE CreateResource(c)
    <3>1. PICK n \in Names \ objects.created :
             Changed(c, [objects EXCEPT !.created = @ \cup {n}])
      BY <2>7 DEF CreateResource
    <3>2. [objects EXCEPT !.created = @ \cup {n}] \in Objects
      BY DEF TypeOK, Objects
    <3> QED BY <3>1, <3>2, ChangedType
  <2>8. CASE ReadDeployment(c)
    <3>1. PICK rev \in IF c \in Clicks THEN {annotation - 1} ELSE 0..annotation :
             calls' = [calls EXCEPT ![c] =
                Call("rollback_deployment", calls[c].dryRun, "read", rev, Nothing, Hasty)]
      BY <2>8 DEF ReadDeployment
    <3>2. rev \in Nat
      BY DEF TypeOK
    <3>3. Call("rollback_deployment", calls[c].dryRun, "read", rev, Nothing, Hasty) \in Calls
      BY <3>2, CallFacts, HastyType, NothingType DEF Call, Calls, Tools
    <3>4. UNCHANGED <<template, revision, annotation, objects, stage, before, history, live>>
          /\ used' = used
      BY <2>8 DEF ReadDeployment
    <3> QED BY <2>0, <3>1, <3>3, <3>4, QuietType
  <2>9. CASE ListReplicaSets(c)
    <3>0. UNCHANGED <<template, revision, annotation, objects, stage, before, history, live>>
          /\ used' = used
      BY <2>9 DEF ListReplicaSets
    <3>1. CASE Returned(c)
      BY <2>0, <3>0, <3>1, NothingType, QuietType DEF Returned
    <3>2. ASSUME NEW t \in Target(c),
                 calls' = [calls EXCEPT ![c] =
                    Call("rollback_deployment", FALSE, "listed", calls[c].rev, t, calls[c].hasty)]
          PROVE  TypeOK'
      <4>1. t \in Template
        BY DEF Target
      <4>2. Call("rollback_deployment", FALSE, "listed", calls[c].rev, t, calls[c].hasty)
               \in Calls
        BY <4>1, CallFacts DEF Call, Calls, Tools
      <4> QED BY <2>0, <3>0, <3>2, <4>2, QuietType
    <3> QED BY <2>9, <3>1, <3>2 DEF ListReplicaSets
  <2>10. CASE RollbackDeployment(c)
    <3>1. Merge(template, calls[c].target) \in Template
      BY CallFacts, MergeType DEF TypeOK
    <3> QED BY <2>10, <3>1, CallFacts, PatchedType DEF RollbackDeployment
  <2> QED BY <1>8, <2>1, <2>2, <2>3, <2>4, <2>5, <2>6, <2>7, <2>8, <2>9, <2>10 DEF Mutate
<1>9. CASE UNCHANGED vars
  BY <1>9 DEF vars, TypeOK
<1> QED BY <1>1, <1>2, <1>3, <1>4, <1>5, <1>6, <1>7, <1>8, <1>9 DEF Next

\* The types of the cluster, the calls and the history.
THEOREM TypeCorrect == Spec => []TypeOK
<1>1. TypeOK /\ [Next]_vars => TypeOK'
  BY StepType
<1> QED BY <1>1, InitType, PTL DEF Spec

-----------------------------------------------------------------------------
(* The invariant *)

LEMMA ClicksAreCallers == Clicks \subseteq Callers /\ "executor" \in Callers /\ "executor" \notin Clicks
BY DEF Clicks, Callers

LEMMA InitInv == Init => Inv
<1> SUFFICES ASSUME Init PROVE Inv
  OBVIOUS
<1>1. /\ history.fixes = 0 /\ history.undone = 0
      /\ stage = "investigating" /\ annotation = 1
  BY DEF Init, NoHistory
<1>2. \A c \in Callers : Idle(c) /\ calls[c].tool = "none"
  BY DEF Init, Idle, NoCall, Call
<1>3. Numbered
  BY <1>1, ClusterAssumption DEF Init, Numbered, Template
<1>4. Staged
  BY <1>1, <1>2, ClicksAreCallers DEF Staged
<1>5. BeforeFix /\ AfterFix
  BY <1>1 DEF BeforeFix, AfterFix, Undone, Begun
<1>6. RollbackRestores
  BY <1>1 DEF RollbackRestores
<1> QED BY <1>3, <1>4, <1>5, <1>6 DEF Inv

\* A caller acts only at its stage.
LEMMA CallerStage ==
    ASSUME TypeOK, Inv, NEW c \in Callers, ~Idle(c)
    PROVE  /\ c = "investigator" => stage = "investigating"
           /\ c = "executor" => stage = "executing"
           /\ c \in Clicks => stage = "done"
BY DEF Inv, Staged

\* A step that changes one call, and nothing of the template.
LEMMA QuietInv ==
    ASSUME TypeOK, Inv, NEW c \in Callers, NEW k \in Calls,
           calls' = [calls EXCEPT ![c] = k],
           UNCHANGED <<template, revision, annotation, stage, before, history>>,
           k # NoCall => /\ c = "investigator" => stage = "investigating"
                         /\ c = "executor" => stage = "executing"
                         /\ c \in Clicks => stage = "done"
                                            /\ k.tool = "rollback_deployment",
           c = "executor" /\ k.at \in {"read", "listed"} /\ k.hasty = 0 /\ Undone(0)
              => Observed,
           c \in Clicks /\ k.hasty = 0 /\ Undone(1) /\ history.hasty = 0
              => /\ k.at = "read" => Observed /\ k.rev = revision[before]
                 /\ k.at = "listed" => k.target = before
    PROVE  Inv'
<1>1. calls'[c] = k /\ \A d \in Callers \ {c} : calls'[d] = calls[d]
  BY CallsType
<1>2. NoCall.tool = "none"
  BY DEF NoCall, Call
<1>3. Numbered'
  BY DEF Inv, Numbered
<1>4. Staged'
  <2>1. \A d \in Callers : Idle(d)' <=> (IF d = c THEN k = NoCall ELSE Idle(d))
    BY <1>1 DEF Idle
  <2>2. \A d \in Clicks : calls'[d].tool \in {"none", "rollback_deployment"}
    BY <1>1, <1>2, ClicksAreCallers DEF Inv, Staged
  <2>3. "investigator" \in Callers
    BY DEF Callers
  <2> QED BY <2>1, <2>2, <2>3, ClicksAreCallers DEF Inv, Staged
<1>5. (Undone(0)' <=> Undone(0)) /\ (Undone(1)' <=> Undone(1)) /\ (Observed' <=> Observed)
  BY DEF Undone, Begun, Observed
<1>6. BeforeFix'
  BY <1>1, <1>5, ClicksAreCallers DEF Inv, BeforeFix
<1>7. AfterFix'
  BY <1>1, <1>5, ClicksAreCallers DEF Inv, AfterFix
<1>8. RollbackRestores'
  BY DEF Inv, RollbackRestores
<1> QED BY <1>3, <1>4, <1>6, <1>7, <1>8 DEF Inv

\* A call that ends without having changed the template.
LEMMA ReturnedInv ==
    ASSUME TypeOK, Inv, NEW c \in Callers, Returned(c),
           UNCHANGED <<template, revision, annotation, stage, before, history>>
    PROVE  Inv'
<1>1. NoCall.at = "none"
  BY DEF NoCall, Call
<1> QED BY <1>1, NothingType, QuietInv DEF Returned

\* What a change of the template by c makes of the history.
LEMMA CountedFacts ==
    ASSUME TypeOK, NEW c \in Callers, NEW hasty \in {0, 1}
    PROVE  LET h == Counted(history, c, hasty)
           IN  /\ h.others = history.others
               /\ h.fixes = IF c = "executor" THEN history.fixes + 1 ELSE history.fixes
               /\ h.undone = IF c \in Clicks THEN history.undone + 1 ELSE history.undone
               /\ h.hasty = 0 => hasty = 0 /\ history.hasty = 0
BY DEF Counted, TypeOK, History, Callers

\* A tool changes the template.
LEMMA PatchedInv ==
    ASSUME TypeOK, Inv, NEW c \in Callers, ~Idle(c), NEW t \in Template,
           NEW hasty \in {0, 1}, Patched(c, t, hasty), Returned(c),
           UNCHANGED <<revision, annotation, stage, before>>,
           c = "executor" /\ hasty = 0 /\ Undone(0) => Observed,
           c \in Clicks /\ hasty = 0 /\ Undone(1) /\ history.hasty = 0
              => \A f \in Fields : before[f] # 0 => t[f] = before[f]
    PROVE  Inv'
<1>1. CASE t = template
  BY <1>1, ReturnedInv DEF Patched
<1>2. CASE t # template
  <2>1. template' = t /\ history' = Counted(history, c, hasty)
    BY <1>2 DEF Patched
  <2>2. /\ history'.others = history.others
        /\ history'.fixes = IF c = "executor" THEN history.fixes + 1 ELSE history.fixes
        /\ history'.undone = IF c \in Clicks THEN history.undone + 1 ELSE history.undone
        /\ history'.hasty = 0 => hasty = 0 /\ history.hasty = 0
    BY <2>1, CountedFacts
  <2>3. /\ history.fixes \in Nat /\ history.undone \in Nat /\ history.others \in Nat
        /\ template \in Template /\ before \in Template
        /\ revision \in [Template -> Nat] /\ annotation \in Nat
    BY DEF TypeOK, History
  <2>4. /\ c = "investigator" => stage = "investigating"
        /\ c = "executor" => stage = "executing"
        /\ c \in Clicks => stage = "done"
    BY CallerStage
  <2>5. calls'[c] = NoCall /\ \A d \in Callers \ {c} : calls'[d] = calls[d]
    BY NothingType, CallsType DEF Returned
  <2>6. NoCall.tool = "none" /\ NoCall.at = "none"
    BY DEF NoCall, Call
  <2>7. /\ stage # "done" => history.undone = 0 /\ \A d \in Clicks : Idle(d)
        /\ stage \in {"investigating", "awaiting"} => history.fixes = 0
    BY DEF Inv, Staged
  <2>8. c \in {"investigator", "executor"} \cup Clicks /\ "investigator" \notin Clicks
    BY DEF Callers, Clicks
  <2>9. Numbered'
    BY DEF Inv, Numbered
  <2>10. Staged'
    <3>1. \A d \in Callers : Idle(d)' <=> (d = c \/ Idle(d))
      BY <2>5 DEF Idle
    <3>2. \A d \in Clicks : calls'[d].tool \in {"none", "rollback_deployment"}
      BY <2>5, <2>6, ClicksAreCallers DEF Inv, Staged
    <3>3. "investigator" \in Callers
      BY DEF Callers
    <3>4. stage # "done" => history'.undone = 0
      BY <2>2, <2>4, <2>7
    <3>5. stage \in {"investigating", "awaiting"} => history'.fixes = 0
      BY <2>2, <2>4, <2>7
    <3> QED BY <3>1, <3>2, <3>3, <3>4, <3>5, ClicksAreCallers DEF Inv, Staged
  <2>11. BeforeFix'
    <3>1. ~Undone(0)'
      BY <2>2, <2>3, <2>4, <2>8, <1>2, ClicksAreCallers DEF Undone, Begun
    <3> QED BY <3>1 DEF BeforeFix
  <2>12. AfterFix'
    <3> SUFFICES ASSUME Undone(1)', history'.hasty = 0
                 PROVE  AfterFix'
      BY DEF AfterFix
    <3>1. c = "executor" /\ Undone(0) /\ stage = "executing" /\ hasty = 0
      BY <2>2, <2>3, <2>4, <2>8, ClicksAreCallers DEF Undone, Begun
    <3>2. template = before /\ Observed
      BY <3>1 DEF Inv, BeforeFix
    <3>3. revision[before] = annotation /\ annotation > 0
      BY <3>2 DEF Observed, Inv, Numbered
    <3>4. template' # before /\ ~(Observed')
      BY <1>2, <2>1, <2>3, <3>2, <3>3 DEF Observed, Inv, Numbered
    <3>5. \A d \in Clicks : calls'[d].at = "none"
      BY <2>5, <2>6, <2>7, <3>1, ClicksAreCallers DEF Idle
    <3> QED BY <3>3, <3>4, <3>5 DEF AfterFix
  <2>13. RollbackRestores'
    <3> DEFINE h == [fixes |-> 1, undone |-> 1, others |-> 0, hasty |-> 0]
    <3> SUFFICES ASSUME history' = h
                 PROVE  \A f \in Fields : before[f] # 0 => template'[f] = before[f]
      BY DEF RollbackRestores
    <3>1. /\ history'.fixes = 1 /\ history'.undone = 1
          /\ history'.others = 0 /\ history'.hasty = 0
      OBVIOUS
    <3>2. c \in Clicks
      BY <2>2, <2>3, <2>4, <2>7, <2>8, <3>1
    <3>3. Undone(1) /\ hasty = 0 /\ history.hasty = 0
      BY <2>2, <2>3, <2>4, <3>1, <3>2, ClicksAreCallers DEF Undone, Begun
    <3> QED BY <2>1, <3>2, <3>3
  <2> QED BY <2>9, <2>10, <2>11, <2>12, <2>13 DEF Inv
<1> QED BY <1>1, <1>2

\* The steps of a tool.
LEMMA MutateInv ==
    ASSUME TypeOK, Inv, NEW c \in Callers, Mutate(c)
    PROVE  Inv'
<1>0. /\ c \in Clicks => calls[c].tool \in {"none", "rollback_deployment"}
      /\ ~Idle(c) => /\ c = "investigator" => stage = "investigating"
                     /\ c = "executor" => stage = "executing"
                     /\ c \in Clicks => stage = "done"
  BY CallerStage DEF Inv, Staged
<1>1. CASE DryRun(c)
  BY <1>1, ReturnedInv DEF DryRun
<1>2. CASE CallFails(c)
  BY <1>2, ReturnedInv DEF CallFails
<1>3. ASSUME NEW tool, tool \notin {"none", "rollback_deployment"}, Running(c, tool),
             NEW t \in Template, Patched(c, t, Hasty), Returned(c),
             UNCHANGED <<revision, annotation, stage, before>>
      PROVE  Inv'
  <2>1. ~Idle(c) /\ c \notin Clicks
    BY <1>0, <1>3, CallFacts DEF Running
  <2> QED BY <1>3, <2>1, HastyType, PatchedInv
<1>4. CASE PatchResource(c)
  <2>1. PICK f \in Fields \ {Restarted}, v \in 0..MaxValue :
           Patched(c, [template EXCEPT ![f] = v], Hasty)
    BY <1>4 DEF PatchResource
  <2>2. [template EXCEPT ![f] = v] \in Template
    BY DEF TypeOK, Template
  <2>3. /\ Running(c, "patch_resource") /\ Returned(c)
        /\ UNCHANGED <<revision, annotation, stage, before>>
    BY <1>4 DEF PatchResource
  <2> QED BY <1>3, <2>1, <2>2, <2>3
<1>5. CASE RestartDeployment(c)
  <2> DEFINE v == template[Restarted] + 1
  <2>1. v \in 0..MaxValue
    BY <1>5, ClusterAssumption DEF RestartDeployment, TypeOK, Template
  <2>2. /\ Running(c, "restart_deployment") /\ Returned(c)
        /\ Patched(c, Merge(template, Only(Restarted, v)), Hasty)
        /\ UNCHANGED <<revision, annotation, stage, before>>
    BY <1>5 DEF RestartDeployment
  <2> HIDE DEF v
  <2>3. Merge(template, Only(Restarted, v)) \in Template
    BY <2>1, OnlyType, MergeType, ClusterAssumption DEF TypeOK
  <2> QED BY <1>3, <2>2, <2>3
<1>6. ASSUME NEW o, Changed(c, o) PROVE Inv'
  BY <1>6, ReturnedInv DEF Changed
<1>7. CASE ScaleDeployment(c) \/ DeletePod(c) \/ CreateResource(c)
  BY <1>6, <1>7 DEF ScaleDeployment, DeletePod, CreateResource
<1>8. CASE ReadDeployment(c)
  <2>1. PICK rev \in IF c \in Clicks THEN {annotation - 1} ELSE 0..annotation :
           calls' = [calls EXCEPT ![c] =
              Call("rollback_deployment", calls[c].dryRun, "read", rev, Nothing, Hasty)]
    BY <1>8 DEF ReadDeployment
  <2> DEFINE k == Call("rollback_deployment", calls[c].dryRun, "read", rev, Nothing, Hasty)
  <2>2. rev \in Nat /\ (c \in Clicks => rev = annotation - 1)
    BY DEF TypeOK
  <2>3. /\ k \in Calls /\ k.at = "read" /\ k.rev = rev /\ k.hasty = Hasty
        /\ k.tool = "rollback_deployment"
    BY <2>2, CallFacts, HastyType, NothingType DEF Call, Calls, Tools
  <2>4. /\ ~Idle(c)
        /\ UNCHANGED <<template, revision, annotation, stage, before, history>>
    BY <1>8, CallFacts DEF ReadDeployment
  <2>5. calls' = [calls EXCEPT ![c] = k]
    BY <2>1
  <2> HIDE DEF k
  <2>6. c \in Clicks /\ k.hasty = 0 /\ Undone(1) /\ history.hasty = 0
           => Observed /\ k.rev = revision[before]
    <3> SUFFICES ASSUME c \in Clicks, k.hasty = 0, Undone(1), history.hasty = 0
                 PROVE  Observed /\ k.rev = revision[before]
      OBVIOUS
    <3>1. Observed
      BY <2>3, HastyType
    <3>2. revision[before] = annotation - 1
      BY <3>1 DEF Inv, AfterFix
    <3> QED BY <2>2, <2>3, <3>1, <3>2
  <2>7. k.hasty = 0 => Observed
    BY <2>3, HastyType
  <2> QED BY <1>0, <2>3, <2>4, <2>5, <2>6, <2>7, QuietInv
<1>9. CASE ListReplicaSets(c)
  <2>0. /\ UNCHANGED <<template, revision, annotation, stage, before, history>>
        /\ calls[c].at = "read" /\ ~Idle(c)
    BY <1>9, CallFacts DEF ListReplicaSets
  <2>1. CASE Returned(c)
    BY <2>0, <2>1, ReturnedInv
  <2>2. ASSUME NEW t \in Target(c),
               calls' = [calls EXCEPT ![c] =
                  Call("rollback_deployment", FALSE, "listed", calls[c].rev, t, calls[c].hasty)]
        PROVE  Inv'
    <3> DEFINE k == Call("rollback_deployment", FALSE, "listed", calls[c].rev, t, calls[c].hasty)
    <3>1. t \in Template /\ revision[t] # 0 /\ revision[t] = calls[c].rev
      BY DEF Target
    <3>2. /\ k \in Calls /\ k.at = "listed" /\ k.target = t
          /\ k.hasty = calls[c].hasty /\ k.tool = "rollback_deployment"
      BY <3>1, CallFacts DEF Call, Calls, Tools
    <3>3. calls' = [calls EXCEPT ![c] = k]
      BY <2>2
    <3> HIDE DEF k
    <3>4. c = "executor" /\ k.hasty = 0 /\ Undone(0) => Observed
      BY <2>0, <3>2 DEF Inv, BeforeFix
    <3>5. c \in Clicks /\ k.hasty = 0 /\ Undone(1) /\ history.hasty = 0 => k.target = before
      <4> SUFFICES ASSUME c \in Clicks, k.hasty = 0, Undone(1), history.hasty = 0
                   PROVE  t = before
        BY <3>2
      <4>1. calls[c].rev = revision[before] /\ revision[before] > 0
        BY <2>0, <3>2 DEF Inv, AfterFix
      <4>2. before \in Template
        BY DEF TypeOK
      <4> QED BY <3>1, <4>1, <4>2 DEF Inv, Numbered
    <3> QED BY <1>0, <2>0, <3>2, <3>3, <3>4, <3>5, QuietInv
  <2> QED BY <1>9, <2>1, <2>2 DEF ListReplicaSets
<1>10. CASE RollbackDeployment(c)
  <2> DEFINE t == Merge(template, calls[c].target)
  <2>1. /\ calls[c].at = "listed" /\ ~Idle(c) /\ Returned(c)
        /\ Patched(c, t, calls[c].hasty)
        /\ UNCHANGED <<revision, annotation, stage, before>>
    BY <1>10, CallFacts DEF RollbackDeployment
  <2>2. t \in Template /\ calls[c].hasty \in {0, 1}
    BY CallFacts, MergeType DEF TypeOK
  <2>3. c = "executor" /\ calls[c].hasty = 0 /\ Undone(0) => Observed
    BY <2>1 DEF Inv, BeforeFix
  <2>4. c \in Clicks /\ calls[c].hasty = 0 /\ Undone(1) /\ history.hasty = 0
           => \A f \in Fields : before[f] # 0 => t[f] = before[f]
    <3> SUFFICES ASSUME c \in Clicks, calls[c].hasty = 0, Undone(1), history.hasty = 0
                 PROVE  \A f \in Fields : before[f] # 0 => t[f] = before[f]
      OBVIOUS
    <3>1. calls[c].target = before
      BY <2>1 DEF Inv, AfterFix
    <3> QED BY <3>1 DEF Merge
  <2> HIDE DEF t
  <2> QED BY <2>1, <2>2, <2>3, <2>4, PatchedInv
<1> QED BY <1>1, <1>2, <1>4, <1>5, <1>7, <1>8, <1>9, <1>10 DEF Mutate

LEMMA StepInv ==
    ASSUME TypeOK, Inv, [Next]_vars
    PROVE  Inv'
<1>0. /\ history.fixes \in Nat /\ history.undone \in Nat /\ history.others \in Nat
      /\ template \in Template /\ before \in Template
      /\ revision \in [Template -> Nat] /\ annotation \in Nat
  BY DEF TypeOK, History
<1>1. CASE ObserveRollout
  <2>1. /\ ~Observed /\ annotation' = annotation + 1
        /\ revision' = [revision EXCEPT ![template] = annotation + 1]
        /\ UNCHANGED <<template, stage, calls, before, history>>
    BY <1>1 DEF ObserveRollout
  <2>2. /\ revision'[template] = annotation + 1
        /\ \A t \in Template \ {template} : revision'[t] = revision[t]
    BY <1>0, <2>1
  <2>3. Observed'
    BY <2>1, <2>2 DEF Observed
  <2>4. Numbered'
    <3>1. annotation' > 0 /\ \A t \in Template : revision'[t] <= annotation'
      BY <1>0, <2>1, <2>2 DEF Inv, Numbered
    <3>2. ASSUME NEW t \in Template, NEW u \in Template,
                 revision'[t] = revision'[u], revision'[t] > 0
          PROVE  t = u
      <4>1. \A w \in Template \ {template} : revision'[w] < annotation + 1
        BY <1>0, <2>2 DEF Inv, Numbered
      <4> QED BY <1>0, <2>2, <3>2, <4>1 DEF Inv, Numbered
    <3> QED BY <3>1, <3>2 DEF Numbered
  <2>5. Staged'
    BY <2>1 DEF Inv, Staged, Idle
  <2>6. (Undone(0)' <=> Undone(0)) /\ (Undone(1)' <=> Undone(1))
    BY <2>1 DEF Undone, Begun
  <2>7. BeforeFix'
    BY <2>1, <2>3, <2>6 DEF Inv, BeforeFix
  <2>8. AfterFix'
    <3> SUFFICES ASSUME Undone(1), history.hasty = 0
                 PROVE  AfterFix'
      BY <2>1, <2>6 DEF AfterFix
    <3>1. template # before /\ revision[before] = annotation /\ annotation > 0
      BY <2>1 DEF Inv, AfterFix, Numbered
    <3>2. revision'[before] = annotation' - 1 /\ revision'[before] > 0
      BY <1>0, <2>1, <2>2, <3>1
    <3>3. \A c \in Clicks : calls[c].hasty = 0 =>
             calls[c].at # "read" /\ (calls[c].at = "listed" => calls[c].target = before)
      BY <2>1 DEF Inv, AfterFix
    <3> QED BY <2>1, <2>3, <3>1, <3>2, <3>3 DEF AfterFix
  <2>9. RollbackRestores'
    BY <2>1 DEF Inv, RollbackRestores
  <2> QED BY <2>4, <2>5, <2>7, <2>8, <2>9 DEF Inv
<1>2. CASE OtherChange
  <2>1. /\ history' = Counted(history, "others", Hasty)
        /\ UNCHANGED <<revision, annotation, stage, calls, before>>
    BY <1>2 DEF OtherChange
  <2>2. /\ history'.others = history.others + 1
        /\ history'.fixes = history.fixes /\ history'.undone = history.undone
    BY <2>1 DEF Counted, Clicks
  <2>3. Numbered' /\ Staged'
    BY <2>1, <2>2 DEF Inv, Numbered, Staged, Idle
  <2>4. history'.others # 0
    BY <1>0, <2>2
  <2> QED BY <2>3, <2>4 DEF Inv, BeforeFix, AfterFix, Undone, RollbackRestores
<1>3. CASE Propose
  <2>1. /\ stage = "investigating" /\ stage' = "awaiting" /\ Idle("investigator")
        /\ UNCHANGED <<template, revision, annotation, calls, before, history>>
    BY <1>3 DEF Propose
  <2>2. Numbered' /\ RollbackRestores'
    BY <2>1 DEF Inv, Numbered, RollbackRestores
  <2>3. Staged'
    BY <2>1 DEF Inv, Staged, Idle
  <2> QED BY <2>1, <2>2, <2>3 DEF Inv, BeforeFix, AfterFix, Undone, Begun
<1>4. CASE Approve
  <2>1. /\ stage = "awaiting" /\ stage' = "executing"
        /\ before' = template /\ history' = NoHistory
        /\ UNCHANGED <<template, revision, annotation, calls>>
    BY <1>4 DEF Approve
  <2>2. history'.fixes = 0 /\ history'.undone = 0
    BY <2>1 DEF NoHistory
  <2>3. Numbered'
    BY <2>1 DEF Inv, Numbered
  <2>4. Staged'
    BY <2>1, <2>2 DEF Inv, Staged, Idle
  <2>5. calls["executor"].at = "none"
    BY <2>1, ClicksAreCallers, CallFacts DEF Inv, Staged
  <2>6. BeforeFix'
    BY <2>1, <2>5 DEF BeforeFix
  <2>7. AfterFix' /\ RollbackRestores'
    BY <2>2 DEF AfterFix, Undone, RollbackRestores
  <2> QED BY <2>3, <2>4, <2>6, <2>7 DEF Inv
<1>5. CASE FinishExecution
  <2>1. /\ stage = "executing" /\ stage' = "done" /\ Idle("executor")
        /\ UNCHANGED <<template, revision, annotation, calls, before, history>>
    BY <1>5 DEF FinishExecution
  <2>2. Numbered' /\ RollbackRestores'
    BY <2>1 DEF Inv, Numbered, RollbackRestores
  <2>3. Staged'
    BY <2>1 DEF Inv, Staged, Idle
  <2>4. /\ Undone(0)' <=> Undone(0)
        /\ Undone(1)' <=> Undone(1)
        /\ Observed' <=> Observed
    BY <2>1 DEF Undone, Begun, Observed
  <2>5. BeforeFix' /\ AfterFix'
    BY <2>1, <2>4 DEF Inv, BeforeFix, AfterFix
  <2> QED BY <2>2, <2>3, <2>5 DEF Inv
<1>6. ASSUME NEW c \in Callers, NEW tool \in Tools, NEW dryRun \in BOOLEAN,
             Dispatch(c, tool, dryRun)
      PROVE  Inv'
  <2> DEFINE k == Call(tool, dryRun, "started", 0, Nothing, 0)
  <2>1. k \in Calls /\ k.at = "started"
    BY CallType, NothingType
  <2>2. /\ MayCall(c) /\ calls' = [calls EXCEPT ![c] = k]
        /\ UNCHANGED <<template, revision, annotation, stage, before, history>>
    BY <1>6 DEF Dispatch
  <2>3. /\ c = "investigator" => stage = "investigating"
        /\ c = "executor" => stage = "executing"
        /\ c \notin Clicks
    BY <2>2 DEF MayCall, Clicks
  <2> HIDE DEF k
  <2> QED BY <2>1, <2>2, <2>3, QuietInv
<1>7. ASSUME NEW c \in Clicks, ClickRollback(c) PROVE Inv'
  <2> DEFINE k == Call("rollback_deployment", FALSE, "started", 0, Nothing, 0)
  <2>1. k \in Calls /\ k.at = "started" /\ k.tool = "rollback_deployment"
    BY NothingType DEF Call, Calls, Tools
  <2>2. /\ stage = "done" /\ calls' = [calls EXCEPT ![c] = k]
        /\ UNCHANGED <<template, revision, annotation, stage, before, history>>
    BY <1>7 DEF ClickRollback
  <2>3. c \in Callers /\ c # "executor" /\ c # "investigator"
    BY DEF Clicks, Callers
  <2> HIDE DEF k
  <2> QED BY <2>1, <2>2, <2>3, QuietInv
<1>8. ASSUME NEW c \in Callers, Mutate(c) PROVE Inv'
  BY <1>8, MutateInv
<1>9. CASE UNCHANGED vars
  BY <1>9 DEF vars, Inv, Numbered, Staged, Idle, BeforeFix, AfterFix, Undone, Begun,
              Observed, RollbackRestores
<1> QED BY <1>1, <1>2, <1>3, <1>4, <1>5, <1>6, <1>7, <1>8, <1>9 DEF Next

\* One rollback undoes a fix that was one rollout, whatever the fix was, if
\* nobody else changed the template and no rollout was decided on before the
\* one before it was numbered.
THEOREM OneRollbackRestores == Spec => []RollbackRestores
<1>1. TypeOK /\ Inv /\ [Next]_vars => Inv'
  BY StepInv
<1>2. Inv => RollbackRestores
  BY DEF Inv
<1> QED BY <1>1, <1>2, InitInv, TypeCorrect, PTL DEF Spec
-----------------------------------------------------------------------------
(* Who changes the cluster, and when *)

\* The target of a rollback is looked up by dry runs too, but never kept.
ListedIsLive == \A c \in Callers : calls[c].at = "listed" => ~calls[c].dryRun

\* Whatever the tools change, a caller has a live call under way for it.
ChangesByLiveCalls ==
    objects' # objects \/ live' # live \/ (template' # template /\ ~OtherChange) =>
        \E c \in Callers : ~Idle(c) /\ ~calls[c].dryRun /\ live' = live \cup {c}

LEMMA ListedKept ==
    ASSUME TypeOK, ListedIsLive, NEW c \in Callers, NEW k,
           calls' = [calls EXCEPT ![c] = k], k.at = "listed" => ~k.dryRun
    PROVE  ListedIsLive'
<1>1. calls'[c] = k /\ \A d \in Callers \ {c} : calls'[d] = calls[d]
  BY DEF TypeOK
<1> QED BY <1>1 DEF ListedIsLive

LEMMA MutateChanges ==
    ASSUME TypeOK, ListedIsLive, NEW c \in Callers, Mutate(c)
    PROVE  ChangesByLiveCalls /\ ListedIsLive'
<1>1. NoCall.at = "none" /\ NoCall.dryRun
  BY DEF NoCall, Call
<1>2. ASSUME Returned(c) PROVE ListedIsLive'
  BY <1>1, <1>2, ListedKept DEF Returned
<1>3. ASSUME NEW tool, Running(c, tool) PROVE ~Idle(c) /\ ~calls[c].dryRun
  BY <1>1, <1>3 DEF Running, Idle
<1>4. CASE DryRun(c)
  BY <1>2, <1>4 DEF DryRun, ChangesByLiveCalls
<1>5. CASE CallFails(c)
  BY <1>2, <1>5 DEF CallFails, ChangesByLiveCalls
<1>6. CASE PatchResource(c)
  BY <1>2, <1>3, <1>6 DEF PatchResource, Patched, ChangesByLiveCalls
<1>7. CASE RestartDeployment(c)
  BY <1>2, <1>3, <1>7 DEF RestartDeployment, Patched, ChangesByLiveCalls
<1>8. CASE ScaleDeployment(c)
  BY <1>2, <1>3, <1>8 DEF ScaleDeployment, Changed, ChangesByLiveCalls
<1>9. CASE DeletePod(c)
  BY <1>2, <1>3, <1>9 DEF DeletePod, Changed, ChangesByLiveCalls
<1>10. CASE CreateResource(c)
  BY <1>2, <1>3, <1>10 DEF CreateResource, Changed, ChangesByLiveCalls
<1>11. CASE ReadDeployment(c)
  <2>1. PICK rev : calls' = [calls EXCEPT ![c] =
           Call("rollback_deployment", calls[c].dryRun, "read", rev, Nothing, Hasty)]
    BY <1>11 DEF ReadDeployment
  <2>2. Call("rollback_deployment", calls[c].dryRun, "read", rev, Nothing, Hasty).at = "read"
    BY DEF Call
  <2>3. ListedIsLive'
    BY <2>1, <2>2, ListedKept
  <2> QED BY <1>11, <2>3 DEF ReadDeployment, ChangesByLiveCalls
<1>12. CASE ListReplicaSets(c)
  <2>1. CASE Returned(c)
    BY <1>2, <1>12, <2>1 DEF ListReplicaSets, ChangesByLiveCalls
  <2>2. CASE ~Returned(c)
    <3>1. PICK t : calls' = [calls EXCEPT ![c] =
             Call("rollback_deployment", FALSE, "listed", calls[c].rev, t, calls[c].hasty)]
      BY <1>12, <2>2 DEF ListReplicaSets
    <3>2. ~Call("rollback_deployment", FALSE, "listed", calls[c].rev, t,
                calls[c].hasty).dryRun
      BY DEF Call
    <3>3. ListedIsLive'
      BY <3>1, <3>2, ListedKept
    <3> QED BY <1>12, <3>3 DEF ListReplicaSets, ChangesByLiveCalls
  <2> QED BY <2>1, <2>2
<1>13. CASE RollbackDeployment(c)
  <2>1. ~Idle(c) /\ ~calls[c].dryRun
    BY <1>1, <1>13 DEF RollbackDeployment, ListedIsLive, Idle
  <2> QED BY <1>2, <1>13, <2>1 DEF RollbackDeployment, Patched, ChangesByLiveCalls
<1> QED BY <1>4, <1>5, <1>6, <1>7, <1>8, <1>9, <1>10, <1>11, <1>12, <1>13 DEF Mutate

LEMMA StepChanges ==
    ASSUME TypeOK, ListedIsLive, [Next]_vars
    PROVE  ChangesByLiveCalls /\ ListedIsLive'
<1>1. CASE ObserveRollout \/ OtherChange \/ Propose \/ Approve \/ FinishExecution
  BY <1>1 DEF ObserveRollout, OtherChange, Propose, Approve, FinishExecution,
              ChangesByLiveCalls, ListedIsLive
<1>2. ASSUME NEW c \in Callers, NEW k,
             calls' = [calls EXCEPT ![c] = k], k.at = "started",
             UNCHANGED <<template, objects, live>>
      PROVE  ChangesByLiveCalls /\ ListedIsLive'
  BY <1>2, ListedKept DEF ChangesByLiveCalls
<1>3. ASSUME NEW c \in Callers, NEW tool \in Tools, NEW dryRun \in BOOLEAN,
             Dispatch(c, tool, dryRun)
      PROVE  ChangesByLiveCalls /\ ListedIsLive'
  <2>1. Call(tool, dryRun, "started", 0, Nothing, 0).at = "started"
    BY DEF Call
  <2> QED BY <1>2, <1>3, <2>1 DEF Dispatch
<1>4. ASSUME NEW c \in Clicks, ClickRollback(c)
      PROVE  ChangesByLiveCalls /\ ListedIsLive'
  <2>1. Call("rollback_deployment", FALSE, "started", 0, Nothing, 0).at = "started"
    BY DEF Call
  <2> QED BY <1>2, <1>4, <2>1, ClicksAreCallers DEF ClickRollback
<1>5. ASSUME NEW c \in Callers, Mutate(c) PROVE ChangesByLiveCalls /\ ListedIsLive'
  BY <1>5, MutateChanges
<1>6. CASE UNCHANGED vars
  BY <1>6 DEF vars, ChangesByLiveCalls, ListedIsLive
<1> QED BY <1>1, <1>3, <1>4, <1>5, <1>6 DEF Next

LEMMA InitListed == Init => ListedIsLive
BY DEF Init, ListedIsLive, NoCall, Call

\* Execution begins with the approval, and only with it.
LEMMA StageOrder ==
    ASSUME [Next]_vars, stage' \in {"investigating", "awaiting"}
    PROVE  stage \in {"investigating", "awaiting"}
BY DEF Next, vars, ObserveRollout, OtherChange, Propose, Approve, FinishExecution,
       Dispatch, ClickRollback, Mutate, DryRun, CallFails, PatchResource,
       RestartDeployment, ScaleDeployment, DeletePod, CreateResource, Changed,
       ReadDeployment, ListReplicaSets, RollbackDeployment

\* A dry run changes nothing, not even one of rollback_deployment, which asks
\* the API several things before it could.
THEOREM DryRunsChangeNothing == Spec => [][ChangesByLiveCalls]_vars
<1>1. TypeOK /\ ListedIsLive /\ [Next]_vars => ListedIsLive' /\ ChangesByLiveCalls
  BY StepChanges
<1> QED BY <1>1, InitListed, TypeCorrect, PTL DEF Spec

\* While a proposal awaits its approval no tool changes the cluster: the agent
\* that diagnosed has no call left under way, and nobody else has one yet.
QuietWhileAwaiting ==
    stage = "awaiting" =>
        UNCHANGED <<objects, live>> /\ (template' # template => OtherChange)

\* No tool changes the cluster between the proposal and its approval.
THEOREM NothingWhileAwaiting == Spec => [][QuietWhileAwaiting]_vars
<1>1. TypeOK /\ Inv /\ ListedIsLive /\ [Next]_vars
        => Inv' /\ ListedIsLive' /\ QuietWhileAwaiting
  <2> SUFFICES ASSUME TypeOK, Inv, ListedIsLive, [Next]_vars
               PROVE  QuietWhileAwaiting
    BY StepInv, StepChanges
  <2>1. ChangesByLiveCalls
    BY StepChanges
  <2>2. stage = "awaiting" => \A c \in Callers : Idle(c)
    BY CallerStage DEF Callers, Clicks
  <2> QED BY <2>1, <2>2 DEF ChangesByLiveCalls, QuietWhileAwaiting
<1> QED BY <1>1, InitInv, InitListed, TypeCorrect, PTL DEF Spec

\* What does break the promise that nothing changes unapproved is the agent that
\* diagnoses, alone.
OnlyInvestigatorEarly ==
    stage \in {"investigating", "awaiting"} => live \subseteq {"investigator"}

\* Neither the executor nor a click on the rollback button changes anything
\* before the approval.
THEOREM OnlyInvestigatorUnapproved == Spec => []OnlyInvestigatorEarly
<1>1. Init => OnlyInvestigatorEarly
  BY DEF Init, OnlyInvestigatorEarly
<1>2. ASSUME TypeOK, Inv, ListedIsLive, OnlyInvestigatorEarly, [Next]_vars
      PROVE  OnlyInvestigatorEarly'
  <2> SUFFICES ASSUME stage' \in {"investigating", "awaiting"}
               PROVE  live' \subseteq {"investigator"}
    BY DEF OnlyInvestigatorEarly
  <2>1. stage \in {"investigating", "awaiting"}
    BY <1>2, StageOrder
  <2>2. live \subseteq {"investigator"}
    BY <1>2, <2>1 DEF OnlyInvestigatorEarly
  <2>3. \A c \in Callers : ~Idle(c) => c = "investigator"
    BY <1>2, <2>1, CallerStage DEF Callers, Clicks
  <2> QED BY <1>2, <2>2, <2>3, StepChanges DEF ChangesByLiveCalls
<1>3. TypeOK /\ Inv /\ ListedIsLive /\ [Next]_vars => Inv' /\ ListedIsLive'
  BY StepInv, StepChanges
<1> QED BY <1>1, <1>2, <1>3, InitInv, InitListed, TypeCorrect, PTL DEF Spec
=============================================================================
