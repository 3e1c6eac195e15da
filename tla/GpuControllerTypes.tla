--------------------------- MODULE GpuControllerTypes ---------------------------
(***************************************************************************)
(* Type correctness of the reconciler, for any CRs, specs, clusters, pods  *)
(* and bounds: what the API server stores is a CR with conditions that     *)
(* have the statuses and reasons of the CRD, versions reach the cache in   *)
(* order, and the release holds what some reconcile asked for.             *)
(***************************************************************************)
EXTENDS GpuController, ConditionsProofs, PreflightProofs, SequenceTheorems

K8sOK ==
  /\ api \in [CRs -> CR \union {NoCR}] /\ cache \in [CRs -> CR \union {NoCR}]
  /\ pipe \in [CRs -> Seq(CR \union {NoCR})] /\ \A n \in CRs : Len(pipe[n]) <= MaxLag

HelmOK ==
  /\ release \in Helm!Releases /\ phase \in {"idle", "called", "acting"}
  /\ want \in Configs \union {Absent} /\ result \in Helm!Results

WorkerOK ==
  /\ queue \subseteq CRs /\ timers \subseteq CRs /\ pc \in PC
  /\ seen \in [DriverReady : CondStatus \X Reasons, ValidatorPassed : CondStatus \X Reasons]

WorldOK ==
  /\ ns \in {"none", "active", "terminating"}
  /\ nodes \in Clusters /\ pods \in [PodNames -> Pod \union {NoPod}]
  /\ driver \in [state : DriverStates, config : Configs \union {Absent}]
  /\ policy \in PolicyStates

BoundsOK == user \in 0..MaxUser /\ env \in 0..MaxEnv /\ faults \in 0..MaxFaults

\* The type invariant is made of these.
LEMMA TypeParts ==
  /\ TypeOK <=> K8sOK /\ HelmOK /\ WorkerOK /\ WorldOK /\ BoundsOK
  /\ TypeOK' <=> (K8sOK /\ HelmOK /\ WorkerOK /\ WorldOK /\ BoundsOK)'
BY DEF TypeOK, K8sOK, HelmOK, WorkerOK, WorldOK, BoundsOK

-----------------------------------------------------------------------------
(* The API server.                                                          *)

\* obj is stored as the next version of n.
Stored(n, obj) ==
  api' = [api EXCEPT ![n] = obj] /\ pipe' = [pipe EXCEPT ![n] = Append(@, obj)]

\* A write stores a new version, or there is nothing new about it.
LEMMA WriteStores ==
  ASSUME K8sOK, NEW n \in CRs, NEW obj \in CR \union {NoCR}, Write(n, obj), UNCHANGED cache
  PROVE  K8sOK' /\ (UNCHANGED <<api, pipe>> \/ Stored(n, obj))
<1>1. CASE UNCHANGED <<api, pipe>>
  BY <1>1 DEF K8sOK
<1>2. CASE Stored(n, obj) /\ Len(pipe[n]) < MaxLag
  <2>1. pipe[n] \in Seq(CR \union {NoCR})
    BY DEF K8sOK
  <2>2. /\ Append(pipe[n], obj) \in Seq(CR \union {NoCR})
        /\ Len(Append(pipe[n], obj)) = Len(pipe[n]) + 1
        /\ Len(pipe[n]) \in Nat
    BY <2>1, AppendProperties, LenProperties
  <2>3. Len(Append(pipe[n], obj)) <= MaxLag
    BY <1>2, <2>2, BoundsAssumption
  <2> QED BY <1>2, <2>2, <2>3 DEF K8sOK, Stored
<1> QED BY <1>1, <1>2 DEF Write, Stored

\* client.Update of a CR (gpu_controller.go 157, 381).
LEMMA UpdateStores ==
  ASSUME K8sOK, BoundsOK, NEW n \in CRs, NEW obj \in CR \union {NoCR}, NEW ok \in BOOLEAN,
         Update(n, obj, ok), UNCHANGED cache
  PROVE  /\ K8sOK' /\ faults' \in 0..MaxFaults
         /\ \/ UNCHANGED <<api, pipe>>
            \/ pipe[n] = <<>> /\ api[n] # NoCR /\ Stored(n, obj)
<1>1. CASE ok /\ pipe[n] = <<>> /\ api[n] # NoCR /\ Write(n, obj) /\ UNCHANGED faults
  BY <1>1, WriteStores DEF BoundsOK
<1>2. CASE UNCHANGED <<api, pipe, faults>>
  BY <1>2 DEF K8sOK, BoundsOK
<1>3. CASE Fault /\ UNCHANGED <<api, pipe>>
  BY <1>3, BoundsAssumption DEF K8sOK, BoundsOK, Fault
<1> QED BY <1>1, <1>2, <1>3 DEF Update

\* A CR without its finalizer is one, or gone.
LEMMA WithoutFinalizerOK ==
  ASSUME NEW cr \in CR
  PROVE  /\ WithoutFinalizer(cr) \in CR \union {NoCR}
         /\ WithoutFinalizer(cr) # NoCR => ~WithoutFinalizer(cr).finalizer
<1>1. [cr EXCEPT !.finalizer = FALSE] \in CR /\ ~[cr EXCEPT !.finalizer = FALSE].finalizer
  BY DEF CR
<1> QED BY <1>1 DEF WithoutFinalizer

\* What a status update may set: types with a status and a reason of the CRD.
Updates == UNION {[S -> CondStatus \X Reasons] : S \in SUBSET CondTypes}

\* The conditions that applyStatus computes can be stored (gpu_controller.go 386-431).
LEMMA NewCondsOK ==
  ASSUME NEW cr \in CR, NEW upd \in Updates, NEW includeReady \in BOOLEAN
  PROVE  NewConds(cr, upd, includeReady) \in [CondTypes -> Condition]
<1> DEFINE written == SetConditions(cr.conds, upd, cr.gen)
<1>1. cr.conds \in [CondTypes -> Condition] /\ cr.gen \in Nat
  BY DEF CR
<1>2. written \in [CondTypes -> Condition]
  <2> SUFFICES ASSUME NEW t \in CondTypes
               PROVE  (IF t \in DOMAIN upd THEN Cond(upd[t][1], upd[t][2], cr.gen)
                       ELSE cr.conds[t]) \in Condition
    BY DEF SetConditions
  <2>1. CASE t \in DOMAIN upd
    <3>1. upd[t] \in CondStatus \X Reasons
      BY <2>1 DEF Updates
    <3> QED BY <1>1, <2>1, <3>1 DEF Cond, Condition
  <2>2. CASE t \notin DOMAIN upd
    BY <1>1, <2>2
  <2> QED BY <2>1, <2>2
<1>3. ComputeReadySummary(written, cr.gen) \in Condition
  BY <1>1, <1>2, ReadyIsCondition DEF CondList
<1> HIDE DEF written
<1>4. [written EXCEPT !["Ready"] = ComputeReadySummary(written, cr.gen)]
        \in [CondTypes -> Condition]
  BY <1>2, <1>3
<1> QED BY <1>2, <1>4 DEF NewConds, written

\* A version that differs from the latest in its conditions only.
SameBut(n, obj) ==
  /\ api[n] \in CR /\ obj \in CR
  /\ obj.finalizer = api[n].finalizer /\ obj.deleting = api[n].deleting

\* applyStatus replaces the conditions and leaves the rest alone.
LEMMA ApplyStatusStores ==
  ASSUME K8sOK, BoundsOK, NEW n \in CRs, NEW upd \in Updates, NEW includeReady \in BOOLEAN,
         NEW ok \in BOOLEAN, ApplyStatus(n, upd, includeReady, ok), UNCHANGED cache
  PROVE  /\ K8sOK' /\ faults' \in 0..MaxFaults
         /\ UNCHANGED <<api, pipe>> \/ \E obj \in CR : SameBut(n, obj) /\ Stored(n, obj)
<1>1. CASE UNCHANGED <<api, pipe, faults>>
  BY <1>1 DEF K8sOK, BoundsOK
<1>2. CASE Fault /\ UNCHANGED <<api, pipe>>
  BY <1>2, BoundsAssumption DEF K8sOK, BoundsOK, Fault
<1>3. ASSUME cache[n] # NoCR, UNCHANGED faults, api[n] # NoCR,
             Write(n, [api[n] EXCEPT !.conds = NewConds(cache[n], upd, includeReady)])
      PROVE  /\ K8sOK' /\ faults' \in 0..MaxFaults
             /\ UNCHANGED <<api, pipe>> \/ \E obj \in CR : SameBut(n, obj) /\ Stored(n, obj)
  <2> DEFINE new == NewConds(cache[n], upd, includeReady)
             obj == [api[n] EXCEPT !.conds = new]
  <2>1. cache[n] \in CR /\ api[n] \in CR
    BY <1>3 DEF K8sOK
  <2>2. new \in [CondTypes -> Condition]
    BY <2>1, NewCondsOK
  <2> HIDE DEF new
  <2>3. obj \in CR /\ obj.finalizer = api[n].finalizer /\ obj.deleting = api[n].deleting
    BY <2>1, <2>2 DEF CR
  <2>4. Write(n, obj)
    BY <1>3 DEF new
  <2> HIDE DEF obj
  <2>5. K8sOK' /\ (UNCHANGED <<api, pipe>> \/ Stored(n, obj))
    BY <2>3, <2>4, WriteStores
  <2> QED BY <1>3, <2>1, <2>3, <2>5 DEF SameBut, BoundsOK
<1> QED BY <1>1, <1>2, <1>3 DEF ApplyStatus

\* The updates of the conditions in gpu_controller.go.
LEMMA UpdatesOK ==
  /\ [Ready |-> <<"False", "ForbiddenCRName">>] \in Updates
  /\ \A c \in {<<"Unknown", "Waiting">>, <<"False", "Failed">>} : [Preflight |-> c] \in Updates
  /\ [Preflight |-> Passed, HelmInstalled |-> <<"False", "Failed">>] \in Updates
  /\ [HelmInstalled |-> <<"Unknown", "Uninstalling">>] \in Updates
  /\ [WorkloadProtection |-> <<"False", "ActiveGPUWorkloads">>] \in Updates
  /\ \A d, v \in CondStatus \X Reasons :
       [Preflight |-> Passed, HelmInstalled |-> <<"True", "Installed">>,
        DriverReady |-> d, ValidatorPassed |-> v] \in Updates
<1>1. Inputs = {"Preflight", "HelmInstalled", "DriverReady", "ValidatorPassed"}
  BY DEF Inputs, Managed
<1>2. CondTypes = {"Preflight", "HelmInstalled", "DriverReady", "ValidatorPassed",
                   "WorkloadProtection", "Ready"}
  BY <1>1 DEF CondTypes
<1>3. /\ {<<"False", "ForbiddenCRName">>, <<"Unknown", "Waiting">>, <<"False", "Failed">>,
          <<"Unknown", "Uninstalling">>, <<"False", "ActiveGPUWorkloads">>,
          <<"True", "Installed">>, Passed} \subseteq CondStatus \X Reasons
  BY DEF CondStatus, Reasons, Passed
<1>4. \A x \in CondStatus \X Reasons :
        /\ [Ready |-> x] \in Updates
        /\ [Preflight |-> x] \in Updates
        /\ [HelmInstalled |-> x] \in Updates
        /\ [WorkloadProtection |-> x] \in Updates
  <2> SUFFICES ASSUME NEW x \in CondStatus \X Reasons
               PROVE  /\ [Ready |-> x] \in [{"Ready"} -> CondStatus \X Reasons]
                      /\ [Preflight |-> x] \in [{"Preflight"} -> CondStatus \X Reasons]
                      /\ [HelmInstalled |-> x] \in [{"HelmInstalled"} -> CondStatus \X Reasons]
                      /\ [WorkloadProtection |-> x]
                           \in [{"WorkloadProtection"} -> CondStatus \X Reasons]
    BY <1>2 DEF Updates
  <2> QED OBVIOUS
<1>5. \A x, y \in CondStatus \X Reasons : [Preflight |-> x, HelmInstalled |-> y] \in Updates
  <2> SUFFICES ASSUME NEW x \in CondStatus \X Reasons, NEW y \in CondStatus \X Reasons
               PROVE  [Preflight |-> x, HelmInstalled |-> y]
                        \in [{"Preflight", "HelmInstalled"} -> CondStatus \X Reasons]
    BY <1>2 DEF Updates
  <2> QED OBVIOUS
<1>6. \A x, y, d, v \in CondStatus \X Reasons :
        [Preflight |-> x, HelmInstalled |-> y, DriverReady |-> d, ValidatorPassed |-> v] \in Updates
  <2> SUFFICES ASSUME NEW x \in CondStatus \X Reasons, NEW y \in CondStatus \X Reasons,
                      NEW d \in CondStatus \X Reasons, NEW v \in CondStatus \X Reasons
               PROVE  [Preflight |-> x, HelmInstalled |-> y, DriverReady |-> d, ValidatorPassed |-> v]
                        \in [Inputs -> CondStatus \X Reasons]
    BY DEF Updates, CondTypes
  <2> QED BY <1>1
<1> QED BY <1>3, <1>4, <1>5, <1>6

-----------------------------------------------------------------------------
(* The Installer.                                                           *)

\* A reconcile asks the Installer for the spec with the OS of the GPU nodes.
LEMMA ProceedOS == RunPreflight(nodes).outcome = "Proceed" /\ WorldOK => RunPreflight(nodes).os \in OSTypes
<1> SUFFICES ASSUME RunPreflight(nodes).outcome = "Proceed", WorldOK
             PROVE  RunPreflight(nodes).os \in OSTypes
  OBVIOUS
<1>1. nodes \in Clusters
  BY DEF WorldOK
<1>2. /\ GPUNodes(nodes) # {}
      /\ \E os \in OSTypes : \A n \in GPUNodes(nodes) : DetectNodeOS(nodes[n]) = os
      /\ \A n \in GPUNodes(nodes) : DetectNodeOS(nodes[n]) = RunPreflight(nodes).os
  BY <1>1, ProceedMeansOneOS
<1> QED BY <1>2

\* A call to the Installer begins.
LEMMA StartOK ==
  ASSUME HelmOK, NEW w \in Configs \union {Absent}, Helm!Start(w)
  PROVE  HelmOK'
BY DEF HelmOK, Helm!Start, Helm!Results

\* The Installer at work, or failing.
LEMMA InstallerOK ==
  ASSUME HelmOK, Helm!Work \/ Helm!FinishFailed \/ Helm!GiveUp
  PROVE  HelmOK'
<1> USE DEF HelmOK, Helm!Releases, Helm!Results, Helm!Pending, Helm!Rel, Helm!NoRelease,
            Helm!InStatus, Helm!Continue, Helm!Return
<1>1. CASE Helm!Recover
  BY <1>1 DEF Helm!Recover
<1>2. CASE Helm!Advance
  BY <1>2 DEF Helm!Advance
<1>3. CASE Helm!Unchanged
  BY <1>3 DEF Helm!Unchanged
<1>4. CASE Helm!Finish
  BY <1>4 DEF Helm!Finish
<1>5. CASE Helm!Remove
  BY <1>5 DEF Helm!Remove
<1>6. CASE Helm!Purged
  BY <1>6 DEF Helm!Purged
<1>7. CASE Helm!NothingToRemove
  BY <1>7 DEF Helm!NothingToRemove
<1>8. CASE Helm!FinishFailed
  BY <1>8 DEF Helm!FinishFailed
<1>9. CASE Helm!GiveUp
  BY <1>9 DEF Helm!GiveUp
<1> QED BY <1>1, <1>2, <1>3, <1>4, <1>5, <1>6, <1>7, <1>8, <1>9 DEF Helm!Work

-----------------------------------------------------------------------------
(* The steps of the reconciler.                                             *)

\* Most steps leave the CRs as they are.
LEMMA SameCRs == K8sOK /\ UNCHANGED <<api, pipe, cache>> => K8sOK'
BY DEF K8sOK

\* What a step leaves alone keeps its type.
LEMMA SameParts ==
  /\ HelmOK /\ UNCHANGED helm => HelmOK'
  /\ WorldOK /\ UNCHANGED <<ns, world>> => WorldOK'
  /\ BoundsOK /\ UNCHANGED bounds /\ faults' \in 0..MaxFaults => BoundsOK'
BY DEF HelmOK, helm, WorldOK, world, BoundsOK, bounds

\* A failure stays within its bound.
LEMMA FaultOK == BoundsOK /\ (Fault \/ UNCHANGED faults) => faults' \in 0..MaxFaults
BY BoundsAssumption DEF BoundsOK, Fault

\* The end of a reconcile.
LEMMA FinishOK ==
  ASSUME WorkerOK, NEW n \in CRs, NEW again \in BOOLEAN, Finish(n, again),
         queue' \subseteq CRs, UNCHANGED seen \/ seen' = NothingSeen
  PROVE  WorkerOK'
<1>1. NothingSeen \in [DriverReady : CondStatus \X Reasons, ValidatorPassed : CondStatus \X Reasons]
  BY DEF NothingSeen, CondStatus, Reasons
<1> QED BY <1>1 DEF WorkerOK, Finish, PC

\* The steps that a reconcile of n begins with (Reconcile, 111-171).
LEMMA ReconcileTypeOK ==
  ASSUME TypeOK, NEW n \in CRs, Reconcile(n)
  PROVE  TypeOK'
<1> USE TypeParts
<1>1. CASE ReconcileNothing(n)
  BY <1>1, SameCRs, SameParts, FaultOK DEF ReconcileNothing, Take, k8s, WorkerOK
<1>2. CASE ReconcileRogue(n)
  <2>1. PICK ok \in BOOLEAN :
          /\ ApplyStatus(n, [Ready |-> <<"False", "ForbiddenCRName">>], FALSE, ok)
          /\ Finish(n, ~ok)
    BY <1>2 DEF ReconcileRogue
  <2>2. K8sOK' /\ faults' \in 0..MaxFaults
    BY <1>2, <2>1, UpdatesOK, ApplyStatusStores DEF ReconcileRogue
  <2>3. WorkerOK'
    BY <1>2, <2>1, FinishOK DEF ReconcileRogue, Take, WorkerOK
  <2> QED BY <1>2, <2>2, <2>3, SameParts DEF ReconcileRogue
<1>3. CASE AddFinalizer(n)
  <2> DEFINE obj == [cache[n] EXCEPT !.finalizer = TRUE]
  <2>1. PICK ok \in BOOLEAN : Update(n, obj, ok) /\ Finish(n, ~ok)
    BY <1>3 DEF AddFinalizer
  <2>2. cache[n] \in CR
    BY <1>3 DEF AddFinalizer, Live, K8sOK
  <2>3. obj \in CR
    BY <2>2 DEF CR
  <2> HIDE DEF obj
  <2>4. K8sOK' /\ faults' \in 0..MaxFaults
    BY <1>3, <2>1, <2>3, UpdateStores DEF AddFinalizer
  <2>5. WorkerOK'
    BY <1>3, <2>1, FinishOK DEF AddFinalizer, Take, WorkerOK
  <2> QED BY <1>3, <2>4, <2>5, SameParts DEF AddFinalizer
<1>4. CASE ReconcilePreflight(n)
  <2>1. HelmOK'
    <3>1. CASE UNCHANGED helm
      BY <3>1, SameParts
    <3>2. CASE /\ RunPreflight(nodes).outcome = "Proceed"
               /\ Helm!Start(<<cache[n].spec, RunPreflight(nodes).os>>)
      <4>1. cache[n].spec \in Specs
        BY <1>4 DEF ReconcilePreflight, Live, K8sOK, CR
      <4>2. <<cache[n].spec, RunPreflight(nodes).os>> \in Configs
        BY <3>2, <4>1, ProceedOS DEF Configs
      <4> QED BY <3>2, <4>2, StartOK
    <3> QED BY <1>4, <3>1, <3>2 DEF ReconcilePreflight
  <2>2. WorkerOK'
    BY <1>4 DEF ReconcilePreflight, Take, WorkerOK, PC
  <2> QED BY <1>4, <2>1, <2>2, SameCRs, SameParts, FaultOK DEF ReconcilePreflight, k8s
<1>5. CASE NodesUnreadable(n)
  <2>1. WorkerOK'
    BY <1>5, FinishOK DEF NodesUnreadable, Take, WorkerOK
  <2> QED BY <1>5, <2>1, SameCRs, SameParts, FaultOK DEF NodesUnreadable, k8s
<1>6. CASE DropRogueFinalizer(n)
  <2>1. PICK ok \in BOOLEAN : Update(n, WithoutFinalizer(cache[n]), ok) /\ Finish(n, ~ok)
    BY <1>6 DEF DropRogueFinalizer
  <2>2. WithoutFinalizer(cache[n]) \in CR \union {NoCR}
    BY <1>6 DEF DropRogueFinalizer, Deleting, WithoutFinalizer, K8sOK, CR
  <2>3. K8sOK' /\ faults' \in 0..MaxFaults
    BY <1>6, <2>1, <2>2, UpdateStores DEF DropRogueFinalizer
  <2>4. WorkerOK'
    BY <1>6, <2>1, FinishOK DEF DropRogueFinalizer, Take, WorkerOK
  <2> QED BY <1>6, <2>3, <2>4, SameParts DEF DropRogueFinalizer
<1>7. CASE ReconcileDelete(n)
  BY <1>7, SameCRs, SameParts, FaultOK DEF ReconcileDelete, Take, k8s, WorkerOK, PC
<1> QED BY <1>1, <1>2, <1>3, <1>4, <1>5, <1>6, <1>7 DEF Reconcile

\* Those that report, and end the reconcile.
LEMMA ReportTypeOK ==
  ASSUME TypeOK,
         \/ PreflightWarn \/ PreflightError \/ InstallFailed \/ UpdateStatus
         \/ MarkUninstalling \/ DeletionBlocked
  PROVE  TypeOK'
<1> USE TypeParts
<1>1. CASE PreflightWarn
  <2>1. PICK ok \in BOOLEAN :
          ApplyStatus(Expected, [Preflight |-> <<"Unknown", "Waiting">>],
                      FALSE, ok)
    BY <1>1 DEF PreflightWarn
  <2>2. K8sOK' /\ faults' \in 0..MaxFaults
    BY <1>1, <2>1, NamesAssumption, UpdatesOK, ApplyStatusStores DEF PreflightWarn
  <2>3. WorkerOK'
    BY <1>1, NamesAssumption, FinishOK DEF PreflightWarn, WorkerOK
  <2> QED BY <1>1, <2>2, <2>3, SameParts DEF PreflightWarn
<1>2. CASE PreflightError
  <2>1. PICK ok \in BOOLEAN :
          ApplyStatus(Expected, [Preflight |-> <<"False", "Failed">>],
                      FALSE, ok)
    BY <1>2 DEF PreflightError
  <2>2. K8sOK' /\ faults' \in 0..MaxFaults
    BY <1>2, <2>1, NamesAssumption, UpdatesOK, ApplyStatusStores DEF PreflightError
  <2>3. WorkerOK'
    BY <1>2, NamesAssumption, FinishOK DEF PreflightError, WorkerOK
  <2> QED BY <1>2, <2>2, <2>3, SameParts DEF PreflightError
<1>3. CASE InstallFailed
  <2>1. PICK ok \in BOOLEAN :
          ApplyStatus(Expected, [Preflight |-> Passed, HelmInstalled |-> <<"False", "Failed">>],
                      FALSE, ok)
    BY <1>3 DEF InstallFailed
  <2>2. K8sOK' /\ faults' \in 0..MaxFaults
    BY <1>3, <2>1, NamesAssumption, UpdatesOK, ApplyStatusStores DEF InstallFailed
  <2>3. WorkerOK'
    BY <1>3, NamesAssumption, FinishOK DEF InstallFailed, WorkerOK
  <2> QED BY <1>3, <2>2, <2>3, SameParts DEF InstallFailed
<1>4. CASE UpdateStatus
  <2>1. PICK ok \in BOOLEAN :
          ApplyStatus(Expected, [Preflight |-> Passed, HelmInstalled |-> <<"True", "Installed">>,
                      DriverReady |-> seen.DriverReady, ValidatorPassed |-> seen.ValidatorPassed],
                      TRUE, ok)
    BY <1>4 DEF UpdateStatus
  <2>a. seen.DriverReady \in CondStatus \X Reasons /\ seen.ValidatorPassed \in CondStatus \X Reasons
    BY DEF WorkerOK
  <2>2. K8sOK' /\ faults' \in 0..MaxFaults
    BY <1>4, <2>1, <2>a, NamesAssumption, UpdatesOK, ApplyStatusStores DEF UpdateStatus
  <2>3. WorkerOK'
    BY <1>4, NamesAssumption, FinishOK DEF UpdateStatus, WorkerOK
  <2> QED BY <1>4, <2>2, <2>3, SameParts DEF UpdateStatus
<1>5. CASE MarkUninstalling
  <2>1. PICK ok \in BOOLEAN :
          ApplyStatus(Expected, [HelmInstalled |-> <<"Unknown", "Uninstalling">>],
                      FALSE, ok)
    BY <1>5 DEF MarkUninstalling
  <2>2. K8sOK' /\ faults' \in 0..MaxFaults
    BY <1>5, <2>1, NamesAssumption, UpdatesOK, ApplyStatusStores DEF MarkUninstalling
  <2>3. WorkerOK'
    BY <1>5 DEF MarkUninstalling, WorkerOK, PC
  <2> QED BY <1>5, <2>2, <2>3, SameParts DEF MarkUninstalling
<1>6. CASE DeletionBlocked
  <2>1. PICK ok \in BOOLEAN :
          ApplyStatus(Expected, [WorkloadProtection |-> <<"False", "ActiveGPUWorkloads">>],
                      FALSE, ok)
    BY <1>6 DEF DeletionBlocked
  <2>2. K8sOK' /\ faults' \in 0..MaxFaults
    BY <1>6, <2>1, NamesAssumption, UpdatesOK, ApplyStatusStores DEF DeletionBlocked
  <2>3. WorkerOK'
    BY <1>6, NamesAssumption, FinishOK DEF DeletionBlocked, WorkerOK
  <2> QED BY <1>6, <2>2, <2>3, SameParts DEF DeletionBlocked
<1> QED BY <1>1, <1>2, <1>3, <1>4, <1>5, <1>6

\* The rest: calls to the Installer, checks, and the deletion.
LEMMA WorkTypeOK ==
  ASSUME TypeOK,
         \/ HelmWorks \/ HelmFails \/ CheckDriver \/ CheckClusterPolicy
         \/ BeginUninstall \/ DeleteNamespace \/ RemoveFinalizer
  PROVE  TypeOK'
<1> USE TypeParts
<1>1. CASE HelmWorks
  <2>1. HelmOK'
    BY <1>1, InstallerOK DEF HelmWorks
  <2>2. WorkerOK'
    BY <1>1 DEF HelmWorks, AfterHelm, WorkerOK, PC
  <2>3. WorldOK'
    BY <1>1 DEF HelmWorks, WorldOK, world
  <2> QED BY <1>1, <2>1, <2>2, <2>3, SameCRs, SameParts, FaultOK DEF HelmWorks, k8s
<1>2. CASE HelmFails
  <2>1. HelmOK'
    BY <1>2, InstallerOK DEF HelmFails
  <2>2. WorkerOK'
    BY <1>2, NamesAssumption DEF HelmFails, Finish, WorkerOK, PC
  <2> QED BY <1>2, <2>1, <2>2, SameCRs, SameParts, FaultOK DEF HelmFails, k8s
<1>3. CASE CheckDriver
  <2>1. DriverStatus \in CondStatus \X Reasons /\ ReadError \in CondStatus \X Reasons
    BY DEF DriverStatus, ReadError, CondStatus, Reasons
  <2>2. WorkerOK'
    BY <1>3, <2>1 DEF CheckDriver, WorkerOK, PC
  <2> QED BY <1>3, <2>2, SameCRs, SameParts, FaultOK DEF CheckDriver, k8s
<1>4. CASE CheckClusterPolicy
  <2>1. PolicyStatus \in CondStatus \X Reasons /\ ReadError \in CondStatus \X Reasons
    BY DEF PolicyStatus, ReadError, CondStatus, Reasons
  <2>2. WorkerOK'
    BY <1>4, <2>1 DEF CheckClusterPolicy, WorkerOK, PC
  <2> QED BY <1>4, <2>2, SameCRs, SameParts, FaultOK DEF CheckClusterPolicy, k8s
<1>5. CASE BeginUninstall
  <2>1. HelmOK' /\ WorkerOK'
    BY <1>5, StartOK DEF BeginUninstall, WorkerOK, PC
  <2> QED BY <1>5, <2>1, SameCRs, SameParts, FaultOK DEF BeginUninstall, k8s
<1>6. CASE DeleteNamespace
  <2>1. WorkerOK' /\ WorldOK'
    BY <1>6, NamesAssumption DEF DeleteNamespace, Finish, WorkerOK, WorldOK, PC, world
  <2> QED BY <1>6, <2>1, SameCRs, SameParts, FaultOK DEF DeleteNamespace, k8s
<1>7. CASE RemoveFinalizer
  <2>1. K8sOK' /\ faults' \in 0..MaxFaults
    <3>1. CASE UNCHANGED <<api, pipe, faults>>
      BY <1>7, <3>1, SameCRs, FaultOK DEF RemoveFinalizer
    <3>2. ASSUME cache[Expected] # NoCR, NEW ok \in BOOLEAN,
                 Update(Expected, WithoutFinalizer(cache[Expected]), ok)
          PROVE  K8sOK' /\ faults' \in 0..MaxFaults
      <4>1. WithoutFinalizer(cache[Expected]) \in CR \union {NoCR}
        BY <3>2, NamesAssumption, WithoutFinalizerOK DEF K8sOK
      <4>2. UNCHANGED cache
        BY <1>7 DEF RemoveFinalizer
      <4> QED BY <3>2, <4>1, <4>2, NamesAssumption, UpdateStores
    <3> QED BY <1>7, <3>1, <3>2 DEF RemoveFinalizer
  <2>2. WorkerOK'
    BY <1>7, NamesAssumption, FinishOK DEF RemoveFinalizer, WorkerOK
  <2> QED BY <1>7, <2>1, <2>2, SameParts DEF RemoveFinalizer
<1> QED BY <1>1, <1>2, <1>3, <1>4, <1>5, <1>6, <1>7

-----------------------------------------------------------------------------
(* The other steps.                                                         *)

\* The informer, the timers and the restart.
LEMMA MachineryTypeOK ==
  ASSUME TypeOK, Machinery \/ Crash
  PROVE  TypeOK'
<1> USE TypeParts
<1>1. ASSUME NEW n \in CRs, Deliver(n)
      PROVE  TypeOK'
  <2>1. pipe[n] \in Seq(CR \union {NoCR}) /\ pipe[n] # <<>>
    BY <1>1 DEF K8sOK, Deliver
  <2>2. /\ Head(pipe[n]) \in CR \union {NoCR} /\ Tail(pipe[n]) \in Seq(CR \union {NoCR})
        /\ Len(Tail(pipe[n])) = Len(pipe[n]) - 1 /\ Len(pipe[n]) \in Nat
    BY <2>1, HeadTailProperties, LenProperties
  <2>3. Len(Tail(pipe[n])) <= MaxLag
    BY <2>2, BoundsAssumption DEF K8sOK
  <2>4. K8sOK'
    BY <1>1, <2>2, <2>3 DEF Deliver, K8sOK
  <2>5. WorkerOK'
    BY <1>1 DEF Deliver, WorkerOK
  <2> QED BY <1>1, <2>4, <2>5, SameParts, FaultOK DEF Deliver
<1>2. ASSUME NEW n \in CRs, TimerFires(n)
      PROVE  TypeOK'
  <2>1. WorkerOK'
    BY <1>2 DEF TimerFires, WorkerOK
  <2> QED BY <1>2, <2>1, SameCRs, SameParts, FaultOK DEF TimerFires, k8s
<1>3. CASE Crash
  <2>1. <<>> \in Seq(CR \union {NoCR}) /\ Len(<<>>) <= MaxLag
    BY BoundsAssumption, EmptySeq
  <2>2. K8sOK'
    BY <1>3, <2>1 DEF Crash, K8sOK
  <2>3. HelmOK'
    BY <1>3 DEF Crash, HelmOK, Helm!Results
  <2>4. WorkerOK'
    BY <1>3 DEF Crash, WorkerOK, PC, NothingSeen, CondStatus, Reasons
  <2> QED BY <1>3, <2>2, <2>3, <2>4, SameParts, FaultOK DEF Crash
<1> QED BY <1>1, <1>2, <1>3 DEF Machinery

\* A CR that a user creates, edits or deletes.
LEMMA UsersStore ==
  ASSUME K8sOK, NEW n \in CRs, Create(n) \/ Edit(n) \/ Delete(n)
  PROVE  /\ K8sOK'
         /\ \/ UNCHANGED <<api, pipe>>
            \/ /\ api[n] = NoCR
               /\ \E obj \in CR : /\ obj.finalizer => n \in Preset
                                 /\ ~obj.deleting /\ Stored(n, obj)
            \/ \E obj \in CR : SameBut(n, obj) /\ Stored(n, obj)
            \/ /\ api[n] \in CR /\ ~api[n].finalizer /\ ~api[n].deleting /\ Stored(n, NoCR)
            \/ \E obj \in CR : /\ api[n] \in CR /\ api[n].finalizer
                              /\ obj.finalizer /\ obj.deleting /\ Stored(n, obj)
<1> UNCHANGED cache
  BY DEF Create, Edit, Delete, ByUser
<1>1. CASE Create(n)
  <2>1. PICK s \in Specs, f \in BOOLEAN :
          /\ f => n \in Preset
          /\ Write(n, [spec |-> s, gen |-> 1, deleting |-> FALSE, finalizer |-> f, conds |-> NoConds])
    BY <1>1 DEF Create
  <2> DEFINE obj == [spec |-> s, gen |-> 1, deleting |-> FALSE, finalizer |-> f, conds |-> NoConds]
  <2>2. NoConds \in [CondTypes -> Condition]
    BY DEF NoConds, Condition
  <2>3. obj \in CR /\ (obj.finalizer => n \in Preset) /\ ~obj.deleting
    BY <2>1, <2>2 DEF CR
  <2> HIDE DEF obj
  <2>4. K8sOK' /\ (UNCHANGED <<api, pipe>> \/ Stored(n, obj))
    BY <2>1, <2>3, WriteStores DEF obj
  <2> QED BY <1>1, <2>3, <2>4 DEF Create
<1>2. CASE Edit(n)
  <2>1. PICK s \in Specs : Write(n, [api[n] EXCEPT !.spec = s, !.gen = @ + 1])
    BY <1>2 DEF Edit
  <2> DEFINE obj == [api[n] EXCEPT !.spec = s, !.gen = @ + 1]
  <2>2. api[n] \in CR
    BY <1>2 DEF Edit, K8sOK
  <2>3. obj \in CR /\ SameBut(n, obj)
    <3>1. api[n].gen \in Nat
      BY <2>2 DEF CR
    <3>2. api[n].gen + 1 \in Nat
      BY <3>1
    <3> QED BY <2>2, <3>2 DEF CR, SameBut
  <2> HIDE DEF obj
  <2>4. K8sOK' /\ (UNCHANGED <<api, pipe>> \/ Stored(n, obj))
    BY <2>1, <2>3, WriteStores DEF obj
  <2> QED BY <2>3, <2>4
<1>3. CASE Delete(n) /\ api[n].finalizer
  <2> DEFINE obj == [api[n] EXCEPT !.deleting = TRUE, !.gen = @ + 1]
  <2>1. api[n] \in CR /\ Write(n, obj)
    BY <1>3 DEF Delete, K8sOK
  <2>2. obj \in CR /\ obj.finalizer /\ obj.deleting
    <3>1. api[n].gen \in Nat
      BY <2>1 DEF CR
    <3>2. api[n].gen + 1 \in Nat
      BY <3>1
    <3> QED BY <1>3, <2>1, <3>2 DEF CR
  <2> HIDE DEF obj
  <2>3. K8sOK' /\ (UNCHANGED <<api, pipe>> \/ Stored(n, obj))
    BY <2>1, <2>2, WriteStores
  <2> QED BY <1>3, <2>1, <2>2, <2>3
<1>4. CASE Delete(n) /\ ~api[n].finalizer
  <2>1. api[n] \in CR /\ ~api[n].deleting /\ Write(n, NoCR)
    BY <1>4 DEF Delete, K8sOK
  <2>2. K8sOK' /\ (UNCHANGED <<api, pipe>> \/ Stored(n, NoCR))
    BY <2>1, WriteStores
  <2> QED BY <1>4, <2>1, <2>2
<1> QED BY <1>1, <1>2, <1>3, <1>4

\* Users have no other effect.
LEMMA UsersTypeOK ==
  ASSUME TypeOK, Users
  PROVE  TypeOK'
<1> USE TypeParts
<1>1. PICK n \in CRs : Create(n) \/ Edit(n) \/ Delete(n)
  BY DEF Users
<1>2. K8sOK' /\ ByUser
  BY <1>1, UsersStore DEF Create, Edit, Delete
<1>3. WorkerOK' /\ BoundsOK'
  BY <1>2, BoundsAssumption DEF ByUser, User, WorkerOK, BoundsOK
<1> QED BY <1>2, <1>3, SameParts DEF ByUser

\* The cluster.
LEMMA ClusterTypeOK ==
  ASSUME TypeOK, Cluster
  PROVE  TypeOK'
<1> USE TypeParts
<1>1. ASSUME UNCHANGED <<timers, pc, seen>>, UNCHANGED queue \/ EnqueueGpu
      PROVE  WorkerOK'
  BY <1>1 DEF WorkerOK, EnqueueGpu
<1>2. ASSUME UNCHANGED <<user, faults>>, UNCHANGED env \/ Env
      PROVE  BoundsOK'
  BY <1>2, BoundsAssumption DEF BoundsOK, Env
<1>3. ASSUME NEW m \in Nodes, NodeChanges(m)
      PROVE  TypeOK'
  <2>1. WorldOK'
    BY <1>3 DEF NodeChanges, WorldOK, Clusters
  <2> QED BY <1>1, <1>2, <1>3, <2>1, SameCRs, SameParts DEF NodeChanges, k8s
<1>4. ASSUME NEW p \in PodNames, PodChanges(p)
      PROVE  TypeOK'
  <2>1. pods[p] \in Pod \union {NoPod}
    BY DEF WorldOK
  <2>2. Becomes(pods[p]) \subseteq Pod \union {NoPod}
    <3>1. CASE pods[p] = NoPod
      BY <3>1, InitAssumption DEF Becomes
    <3>2. CASE pods[p] \in Pod /\ pods[p] # NoPod
      <4>1. [pods[p] EXCEPT !.terminating = TRUE] \in Pod
        BY <3>2 DEF Pod
      <4>2. \A ph \in PodPhases : [pods[p] EXCEPT !.phase = ph] \in Pod
        BY <3>2 DEF Pod
      <4> QED BY <3>2, <4>1, <4>2 DEF Becomes
    <3> QED BY <2>1, <3>1, <3>2
  <2>3. WorldOK'
    BY <1>4, <2>2 DEF PodChanges, WorldOK
  <2> QED BY <1>1, <1>2, <1>4, <2>3, SameCRs, SameParts DEF PodChanges, k8s
<1>5. CASE DriverFollows
  <2>1. release.config \in Configs \union {Absent}
    BY DEF HelmOK, Helm!Releases, Helm!NoRelease, Helm!Rel
  <2>2. WorldOK'
    BY <1>5, <2>1 DEF DriverFollows, WorldOK, DriverStates
  <2> QED BY <1>1, <1>2, <1>5, <2>2, SameCRs, SameParts DEF DriverFollows, k8s, bounds
<1>6. CASE DriverSetback
  <2>1. WorldOK'
    BY <1>6 DEF DriverSetback, WorldOK, DriverStates
  <2> QED BY <1>1, <1>2, <1>6, <2>1, SameCRs, SameParts DEF DriverSetback, k8s
<1>7. CASE PolicyFollows \/ PolicySetback
  <2>1. WorldOK'
    BY <1>7 DEF PolicyFollows, PolicySetback, WorldOK, PolicyStates
  <2> QED BY <1>1, <1>2, <1>7, <2>1, SameCRs, SameParts DEF PolicyFollows, PolicySetback, k8s, bounds
<1>8. CASE NamespaceGone
  <2>1. HelmOK' /\ WorldOK'
    BY <1>8 DEF NamespaceGone, HelmOK, WorldOK, world, Helm!Releases
  <2> QED BY <1>1, <1>2, <1>8, <2>1, SameCRs, SameParts DEF NamespaceGone, k8s, bounds
<1> QED BY <1>3, <1>4, <1>5, <1>6, <1>7, <1>8 DEF Cluster

\* A step that changes nothing.
LEMMA StutterTypeOK == TypeOK /\ UNCHANGED vars => TypeOK'
BY TypeParts, SameCRs, SameParts, FaultOK DEF vars, k8s, WorkerOK

\* The operator starts on a cluster without CRs and without the release.
LEMMA InitTypeOK == Init => TypeOK
<1> SUFFICES ASSUME Init PROVE TypeOK
  OBVIOUS
<1>1. K8sOK
  BY EmptySeq, BoundsAssumption DEF Init, K8sOK
<1>2. HelmOK
  BY DEF Init, Helm!Init, HelmOK, Helm!Releases, Helm!NoRelease, Helm!Results
<1>3. WorkerOK /\ WorldOK /\ BoundsOK
  BY InitAssumption, BoundsAssumption
  DEF Init, WorkerOK, WorldOK, BoundsOK, PC, NothingSeen, CondStatus, Reasons, DriverStates, PolicyStates
<1> QED BY <1>1, <1>2, <1>3, TypeParts

\* The type invariant is inductive as it stands.
LEMMA NextTypeOK == TypeOK /\ [Next]_vars => TypeOK'
BY ReconcileTypeOK, ReportTypeOK, WorkTypeOK, MachineryTypeOK, UsersTypeOK, ClusterTypeOK, StutterTypeOK
DEF Next, Worker

\* The reconciler stores nothing but CRs with well-formed conditions, keeps its place
\* and its queue, and installs only what some spec asks for on a supported OS.
THEOREM TypeCorrect == Spec => []TypeOK
BY InitTypeOK, NextTypeOK, PTL DEF Spec

=============================================================================
