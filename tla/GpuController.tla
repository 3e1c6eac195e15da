----------------------------- MODULE GpuController -----------------------------
(***************************************************************************)
(* The reconciler of Gpu CRs (internal/controller/gpu_controller.go) with  *)
(* the controller-runtime machinery it runs in.                            *)
(*                                                                         *)
(* The API server holds the CRs in api.  Every write appends the new       *)
(* version to pipe, from where the informer takes them one by one into     *)
(* cache and enqueues the CR.  The reconciler reads CRs from cache only,   *)
(* and writes to api: an Update fails on a version that is not the latest, *)
(* a status Patch goes through on whatever is there.  One worker takes CRs *)
(* off queue; timers holds those that are to be enqueued again later, by   *)
(* RequeueAfter or by the rate limiter after an error.                     *)
(*                                                                         *)
(* Steps of the reconciler that other processes cannot tell apart are one  *)
(* action: a Get from the cache followed at once by the write that uses    *)
(* it, a List followed by the call it leads to.                            *)
(*                                                                         *)
(* Left out: status.operatorVersion and status.driver; messages; the reads *)
(* of the informer caches of Nodes, DaemonSets and Pods show what is in    *)
(* nodes, driver and pods.                                                 *)
(***************************************************************************)
EXTENDS Conditions, Preflight, Workloads, Sequences

CONSTANTS
  CRs,        \* names of Gpu CRs
  Expected,   \* expectedCRName: the one the operator looks after
  Preset,     \* the CRs that users may create with the finalizer already on
  Specs,      \* what a spec can ask for
  NoCR,       \* no CR of that name
  Absent,     \* argument of Uninstall
  InitNodes,  \* the clusters the operator may start on
  InitPods,   \* and the pods that may be there
  NewPods,    \* what pods look like when they are created
  Rollout,    \* bound: FALSE if the driver never gets to the nodes
  MaxLag,     \* bound: versions of a CR on their way to the cache
  MaxUser,    \* bound: creations, edits and deletions of CRs
  MaxEnv,     \* bound: changes of nodes and pods, and setbacks of the driver
  MaxFaults,  \* bound: failing API and Helm calls, and crashes
  MaxEvents   \* bound: all of these taken together

ASSUME NamesAssumption == Expected \in CRs /\ Preset \subseteq CRs
ASSUME InitAssumption ==
  /\ InitNodes \subseteq Clusters /\ InitPods \subseteq [PodNames -> Pod \union {NoPod}]
  /\ NewPods \subseteq Pod /\ Rollout \in BOOLEAN
ASSUME BoundsAssumption ==
  /\ MaxLag \in Nat /\ MaxUser \in Nat /\ MaxEnv \in Nat
  /\ MaxFaults \in Nat /\ MaxEvents \in Nat

VARIABLES
  api,        \* the CRs at the API server
  pipe,       \* versions of each CR that the informer has yet to see
  cache,      \* the CRs as the informer last saw them
  queue,      \* the work queue
  timers,     \* CRs that will be enqueued again
  pc,         \* where the worker is, in a reconcile of the Expected CR
  seen,       \* what checkDriverDaemonSet and checkClusterPolicy returned
  release, phase, want, result,  \* the Helm release and the call to the Installer
  ns,         \* the namespace gpu-operator: "none", "active" or "terminating"
  nodes,      \* the cluster's nodes
  pods,       \* the cluster's pods
  driver,     \* the driver DaemonSets: [state, config], config being what they roll out
  policy,     \* state of the ClusterPolicy
  user, env, faults              \* how much of each bound is used up

k8s == <<api, pipe, cache>>
helm == <<release, phase, want, result>>
world == <<nodes, pods, driver, policy>>
bounds == <<user, env>>
vars == <<k8s, queue, timers, pc, seen, helm, ns, world, bounds, faults>>

\* What a release is installed with: BuildValues of the spec and the detected OS.
Configs == Specs \X OSTypes

Helm == INSTANCE Installer WITH Values <- Configs

PC == {"idle", "warn", "error", "installing", "failed", "driver", "policy", "status",
       "deleting", "workloads", "removing", "namespace", "finalizer"}

CR == [spec : Specs, gen : Nat, deleting : BOOLEAN, finalizer : BOOLEAN,
       conds : [CondTypes -> Condition]]

ASSUME AbsenceAssumption == NoCR \notin CR /\ Absent \notin Configs

DriverStates == {"missing", "empty", "progressing", "ready"}
PolicyStates == {"missing", "notReady", "ignored", "ready"}

-----------------------------------------------------------------------------
(* The API server and the clients of it.                                    *)

\* Store obj as n.  A write that changes nothing is no new version.
Write(n, obj) ==
  IF obj = api[n] THEN UNCHANGED <<api, pipe>>
  ELSE /\ Len(pipe[n]) < MaxLag
       /\ api' = [api EXCEPT ![n] = obj]
       /\ pipe' = [pipe EXCEPT ![n] = Append(@, obj)]

EventsLeft == user + env + faults < MaxEvents

Fault == faults < MaxFaults /\ EventsLeft /\ faults' = faults + 1

\* client.Update of the cached version of n: a conflict if it is not the latest.
Update(n, obj, ok) ==
  \/ ok /\ pipe[n] = <<>> /\ api[n] # NoCR /\ Write(n, obj) /\ UNCHANGED faults
  \/ ~ok /\ (pipe[n] # <<>> \/ api[n] = NoCR) /\ UNCHANGED <<api, pipe, faults>>
  \/ ~ok /\ Fault /\ UNCHANGED <<api, pipe>>

\* What n is without its finalizer.
WithoutFinalizer(cr) == IF cr.deleting THEN NoCR ELSE [cr EXCEPT !.finalizer = FALSE]

\* The conditions that applyStatus computes from the cached CR.
NewConds(cr, upd, includeReady) ==
  LET written == SetConditions(cr.conds, upd, cr.gen)
  IN  IF includeReady
      THEN [written EXCEPT !["Ready"] = ComputeReadySummary(written, cr.gen)]
      ELSE written

\* applyStatus: nothing is sent if the cached status is already as wanted, else
\* a merge patch that replaces the whole list, on whatever n is by now.
ApplyStatus(n, upd, includeReady, ok) ==
  \/ /\ ok /\ cache[n] # NoCR /\ UNCHANGED faults
     /\ \E new \in {NewConds(cache[n], upd, includeReady)} :
          IF new = cache[n].conds THEN UNCHANGED <<api, pipe>>
          ELSE api[n] # NoCR /\ Write(n, [api[n] EXCEPT !.conds = new])
  \/ /\ ~ok /\ UNCHANGED <<api, pipe, faults>>
     /\ \/ cache[n] = NoCR
        \/ /\ cache[n] # NoCR /\ api[n] = NoCR
           /\ NewConds(cache[n], upd, includeReady) # cache[n].conds
  \/ ~ok /\ Fault /\ UNCHANGED <<api, pipe>>

\* Every CR the cache holds is enqueued on an event of a Node or DaemonSet.
EnqueueGpu == queue' = queue \union {n \in CRs : cache[n] # NoCR}

-----------------------------------------------------------------------------
(* The informer, the queue and the timers.                                  *)

Deliver(n) ==
  /\ pipe[n] # <<>>
  /\ cache' = [cache EXCEPT ![n] = Head(pipe[n])]
  /\ pipe' = [pipe EXCEPT ![n] = Tail(@)]
  /\ queue' = queue \union {n}
  /\ UNCHANGED <<api, timers, pc, seen, helm, ns, world, bounds, faults>>

TimerFires(n) ==
  /\ n \in timers
  /\ timers' = timers \ {n} /\ queue' = queue \union {n}
  /\ UNCHANGED <<k8s, pc, seen, helm, ns, world, bounds, faults>>

Take(n) == pc = "idle" /\ n \in queue /\ queue' = queue \ {n}

\* The end of a reconcile: n is enqueued again later, or not.
Finish(n, again) ==
  /\ pc' = "idle"
  /\ timers' = IF again THEN timers \union {n} ELSE timers

-----------------------------------------------------------------------------
(* Reconcile.                                                               *)

\* The CR is gone, or is being deleted and none of the operator's business.
ReconcileNothing(n) ==
  /\ Take(n)
  /\ \/ cache[n] = NoCR
     \/ cache[n] # NoCR /\ cache[n].deleting /\ ~cache[n].finalizer
  /\ UNCHANGED <<k8s, timers, pc, seen, helm, ns, world, bounds, faults>>

Live(n) == cache[n] # NoCR /\ ~cache[n].deleting

\* A CR with another name is flagged and otherwise left alone.
ReconcileRogue(n) ==
  /\ Take(n) /\ Live(n) /\ n # Expected
  /\ \E ok \in BOOLEAN :
       /\ ApplyStatus(n, [Ready |-> <<"False", "ForbiddenCRName">>], FALSE, ok)
       /\ Finish(n, ~ok)
  /\ UNCHANGED <<cache, seen, helm, ns, world, bounds>>

\* Wrong variant: a failed update of the finalizer waits for the next event.
AddFinalizerNoRetry(n) ==
  /\ Take(n) /\ Live(n) /\ n = Expected /\ ~cache[n].finalizer
  /\ \E ok \in BOOLEAN :
       Update(n, [cache[n] EXCEPT !.finalizer = TRUE], ok) /\ Finish(n, FALSE)
  /\ UNCHANGED <<cache, seen, helm, ns, world, bounds>>

\* The finalizer is put on before anything is installed.
AddFinalizer(n) ==
  /\ Take(n) /\ Live(n) /\ n = Expected /\ ~cache[n].finalizer
  /\ \E ok \in BOOLEAN :
       Update(n, [cache[n] EXCEPT !.finalizer = TRUE], ok) /\ Finish(n, ~ok)
  /\ UNCHANGED <<cache, seen, helm, ns, world, bounds>>

\* Wrong variant: the finalizer need not be there yet.
ReconcilePreflightEarly(n) ==
  /\ Take(n) /\ Live(n) /\ n = Expected
  /\ RunPreflight(nodes).outcome = "Proceed" /\ pc' = "installing"
  /\ Helm!Start(<<cache[n].spec, RunPreflight(nodes).os>>)
  /\ UNCHANGED <<k8s, timers, seen, ns, world, bounds, faults>>


\* runPreflight decides; on Proceed installOrUpgrade calls the Installer.
ReconcilePreflight(n) ==
  /\ Take(n) /\ Live(n) /\ n = Expected /\ cache[n].finalizer
  /\ LET pre == RunPreflight(nodes)
     IN  \/ pre.outcome = "Warn" /\ pc' = "warn" /\ UNCHANGED helm
         \/ pre.outcome = "Error" /\ pc' = "error" /\ UNCHANGED helm
         \/ /\ pre.outcome = "Proceed" /\ pc' = "installing"
            /\ Helm!Start(<<cache[n].spec, pre.os>>)
  /\ UNCHANGED <<k8s, timers, seen, ns, world, bounds, faults>>

\* The nodes cannot be listed: nothing is reported, the reconcile is retried.
NodesUnreadable(n) ==
  /\ Take(n) /\ Live(n) /\ n = Expected /\ cache[n].finalizer
  /\ Fault /\ Finish(n, TRUE)
  /\ UNCHANGED <<k8s, seen, helm, ns, world, bounds>>

PreflightWarn ==
  /\ pc = "warn"
  /\ \E ok \in BOOLEAN :
       ApplyStatus(Expected, [Preflight |-> <<"Unknown", "Waiting">>], FALSE, ok)
  /\ Finish(Expected, TRUE)
  /\ UNCHANGED <<cache, queue, seen, helm, ns, world, bounds>>

\* A hard blocker: no requeue unless the status could not be written.
PreflightError ==
  /\ pc = "error"
  /\ \E ok \in BOOLEAN :
       /\ ApplyStatus(Expected, [Preflight |-> <<"False", "Failed">>], FALSE, ok)
       /\ Finish(Expected, ~ok)
  /\ UNCHANGED <<cache, queue, seen, helm, ns, world, bounds>>

-----------------------------------------------------------------------------
(* installOrUpgrade, and Uninstall: the Installer at work.                  *)

\* Nothing can be created in a namespace that is being deleted.
Creates == release' # release /\ release'.status \in Helm!Pending

\* Where the reconcile goes on when the Installer has returned.
AfterHelm ==
  pc' = IF phase' # "idle" THEN pc
        ELSE IF result' \in {"changed", "unchanged"} THEN "driver" ELSE "namespace"

HelmWorks ==
  /\ pc \in {"installing", "removing"}
  /\ Helm!Work /\ (Creates => ns # "terminating")
  /\ ns' = IF Creates THEN "active" ELSE ns
  /\ AfterHelm
  /\ UNCHANGED <<k8s, queue, timers, seen, world, bounds, faults>>

\* A release that recoverPending does not know how to recover.
Unrecoverable == release.status \in {"pending-rollback", "uninstalling"}

\* What makes InstallOrUpgrade fail every time: such a release, or a namespace that
\* is on its way out.
Refused == pc = "installing" /\ phase = "called" /\ (ns = "terminating" \/ Unrecoverable)

\* Wrong variants: the error of an install is only logged, and that of an
\* uninstall does not keep the namespace from being deleted.
HelmFailsLogged ==
  /\ pc = "installing"
  /\ Helm!FinishFailed \/ Helm!GiveUp
  /\ result' = "error" /\ Fault /\ pc' = "driver"
  /\ UNCHANGED <<k8s, queue, timers, seen, ns, world, bounds>>
HelmFailsForced ==
  /\ pc = "removing" /\ Helm!GiveUp
  /\ result' = "error" /\ Fault /\ pc' = "namespace"
  /\ UNCHANGED <<k8s, queue, timers, seen, ns, world, bounds>>

HelmFails ==
  /\ pc \in {"installing", "removing"}
  /\ Helm!FinishFailed \/ Helm!GiveUp
  /\ result' = "error"
  /\ \/ Refused /\ UNCHANGED faults
     \/ ~Refused /\ Fault
  /\ IF pc = "installing" THEN pc' = "failed" /\ UNCHANGED timers ELSE Finish(Expected, TRUE)
  /\ UNCHANGED <<k8s, queue, seen, ns, world, bounds>>

Passed == <<"True", "Passed">>

\* The failure is reported; whether that succeeds or not, it is retried.
InstallFailed ==
  /\ pc = "failed"
  /\ \E ok \in BOOLEAN :
       ApplyStatus(Expected,
                   [Preflight |-> Passed, HelmInstalled |-> <<"False", "Failed">>], FALSE, ok)
  /\ Finish(Expected, TRUE)
  /\ UNCHANGED <<cache, queue, seen, helm, ns, world, bounds>>

\* checkDriverDaemonSet, for what the DaemonSets' statuses add up to.
DriverStatus ==
  CASE driver.state = "ready" -> <<"True", "Ready">>
    [] driver.state = "progressing" -> <<"Unknown", "Progressing">>
    [] OTHER -> <<"Unknown", "Waiting">>

\* Wrong variant: the state of the ClusterPolicy is passed on as the reason.
PolicyStatusRaw == <<IF policy = "ready" THEN "True" ELSE "Unknown", policy>>

PolicyStatus ==
  CASE policy = "ready" -> <<"True", "Ready">>
    [] policy = "notReady" -> <<"Unknown", "Progressing">>
    [] OTHER -> <<"Unknown", "Waiting">>

ReadError == <<"False", "ReadError">>

NothingSeen == [DriverReady |-> <<"Unknown", "Waiting">>, ValidatorPassed |-> <<"Unknown", "Waiting">>]

CheckDriver ==
  /\ pc = "driver" /\ pc' = "policy"
  /\ \/ seen' = [seen EXCEPT !.DriverReady = DriverStatus] /\ UNCHANGED faults
     \/ seen' = [seen EXCEPT !.DriverReady = ReadError] /\ Fault
  /\ UNCHANGED <<k8s, queue, timers, helm, ns, world, bounds>>

CheckClusterPolicy ==
  /\ pc = "policy" /\ pc' = "status"
  /\ \/ seen' = [seen EXCEPT !.ValidatorPassed = PolicyStatus] /\ UNCHANGED faults
     \/ seen' = [seen EXCEPT !.ValidatorPassed = ReadError] /\ Fault
  /\ UNCHANGED <<k8s, queue, timers, helm, ns, world, bounds>>

\* Wrong variant: the summary is left to the next reconcile.
UpdateStatusPartial ==
  /\ pc = "status"
  /\ \E ok \in BOOLEAN :
       ApplyStatus(Expected,
         [Preflight |-> Passed, HelmInstalled |-> <<"True", "Installed">>,
          DriverReady |-> seen.DriverReady, ValidatorPassed |-> seen.ValidatorPassed], FALSE, ok)
  /\ seen' = NothingSeen
  /\ Finish(Expected, TRUE)
  /\ UNCHANGED <<cache, queue, helm, ns, world, bounds>>

\* Everything the reconcile found out is written, with the Ready summary.  The
\* requeue is for the ClusterPolicy, which is not watched.
UpdateStatus ==
  /\ pc = "status"
  /\ \E ok \in BOOLEAN :
       ApplyStatus(Expected,
         [Preflight |-> Passed, HelmInstalled |-> <<"True", "Installed">>,
          DriverReady |-> seen.DriverReady, ValidatorPassed |-> seen.ValidatorPassed], TRUE, ok)
  /\ seen' = NothingSeen
  /\ Finish(Expected, TRUE)
  /\ UNCHANGED <<cache, queue, helm, ns, world, bounds>>

-----------------------------------------------------------------------------
(* reconcileDelete.                                                         *)

Deleting(n) == cache[n] # NoCR /\ cache[n].deleting /\ cache[n].finalizer

DropRogueFinalizer(n) ==
  /\ Take(n) /\ Deleting(n) /\ n # Expected
  /\ \E ok \in BOOLEAN : Update(n, WithoutFinalizer(cache[n]), ok) /\ Finish(n, ~ok)
  /\ UNCHANGED <<cache, seen, helm, ns, world, bounds>>

\* Wrong variant: the name of the CR is not looked at.
ReconcileDeleteAny(n) ==
  /\ Take(n) /\ Deleting(n) /\ pc' = "deleting"
  /\ UNCHANGED <<k8s, timers, seen, helm, ns, world, bounds, faults>>

ReconcileDelete(n) ==
  /\ Take(n) /\ Deleting(n) /\ n = Expected
  /\ pc' = "deleting"
  /\ UNCHANGED <<k8s, timers, seen, helm, ns, world, bounds, faults>>

\* Best effort: deletion goes on if the status cannot be written.
MarkUninstalling ==
  /\ pc = "deleting"
  /\ \E ok \in BOOLEAN :
       ApplyStatus(Expected, [HelmInstalled |-> <<"Unknown", "Uninstalling">>], FALSE, ok)
  /\ pc' = "workloads"
  /\ UNCHANGED <<cache, queue, timers, seen, helm, ns, world, bounds>>

\* Wrong variant: a blocked deletion waits for the next event.
DeletionBlockedNoRetry ==
  /\ pc = "workloads" /\ DetectActiveGPUWorkloads(pods) # {}
  /\ ApplyStatus(Expected, [WorkloadProtection |-> <<"False", "ActiveGPUWorkloads">>],
                 FALSE, TRUE)
  /\ Finish(Expected, FALSE)
  /\ UNCHANGED <<cache, queue, seen, helm, ns, world, bounds>>

\* Pods are using GPUs: say so and try again later.
DeletionBlocked ==
  /\ pc = "workloads" /\ DetectActiveGPUWorkloads(pods) # {}
  /\ \E ok \in BOOLEAN :
       ApplyStatus(Expected, [WorkloadProtection |-> <<"False", "ActiveGPUWorkloads">>],
                   FALSE, ok)
  /\ Finish(Expected, TRUE)
  /\ UNCHANGED <<cache, queue, seen, helm, ns, world, bounds>>

\* No pods are using GPUs, or they cannot be listed: uninstall.
BeginUninstall ==
  /\ pc = "workloads"
  /\ \/ DetectActiveGPUWorkloads(pods) = {} /\ UNCHANGED faults
     \/ DetectActiveGPUWorkloads(pods) # {} /\ Fault
  /\ pc' = "removing" /\ Helm!Start(Absent)
  /\ UNCHANGED <<k8s, queue, timers, seen, ns, world, bounds>>

\* The Delete call returns at once; the namespace goes when its content has gone.
DeleteNamespace ==
  /\ pc = "namespace"
  /\ \/ /\ ns' = IF ns = "none" THEN "none" ELSE "terminating"
        /\ pc' = "finalizer" /\ UNCHANGED <<timers, faults>>
     \/ Fault /\ Finish(Expected, TRUE) /\ UNCHANGED ns
  /\ UNCHANGED <<k8s, queue, seen, helm, world, bounds>>

\* The CR is read again: it may be gone, or be another one by now.
RemoveFinalizer ==
  /\ pc = "finalizer"
  /\ \/ cache[Expected] = NoCR /\ Finish(Expected, FALSE) /\ UNCHANGED <<api, pipe, faults>>
     \/ /\ cache[Expected] # NoCR
        /\ \E ok \in BOOLEAN :
             /\ Update(Expected, WithoutFinalizer(cache[Expected]), ok)
             /\ Finish(Expected, ~ok)
  /\ UNCHANGED <<cache, queue, seen, helm, ns, world, bounds>>

-----------------------------------------------------------------------------
(* A crash, and the restart: the informer lists the CRs and enqueues them.  *)

Crash ==
  /\ Fault
  /\ pc' = "idle" /\ seen' = NothingSeen /\ timers' = {}
  /\ cache' = api /\ pipe' = [n \in CRs |-> <<>>]
  /\ queue' = {n \in CRs : api[n] # NoCR}
  /\ phase' = "idle" /\ result' = "none" /\ UNCHANGED <<release, want>>
  /\ UNCHANGED <<api, ns, world, bounds>>

-----------------------------------------------------------------------------
(* Users.                                                                   *)

User == user < MaxUser /\ EventsLeft /\ user' = user + 1

ByUser ==
  /\ User
  /\ UNCHANGED <<cache, queue, timers, pc, seen, helm, ns, world, env, faults>>

Create(n) ==
  /\ api[n] = NoCR
  /\ \E s \in Specs, f \in BOOLEAN :
       /\ f => n \in Preset
       /\ Write(n, [spec |-> s, gen |-> 1, deleting |-> FALSE, finalizer |-> f, conds |-> NoConds])
  /\ ByUser

Edit(n) ==
  /\ api[n] # NoCR
  /\ \E s \in Specs \ {api[n].spec} : Write(n, [api[n] EXCEPT !.spec = s, !.gen = @ + 1])
  /\ ByUser

Delete(n) ==
  /\ api[n] # NoCR /\ ~api[n].deleting
  /\ Write(n, IF api[n].finalizer THEN [api[n] EXCEPT !.deleting = TRUE, !.gen = @ + 1] ELSE NoCR)
  /\ ByUser

-----------------------------------------------------------------------------
(* The cluster.                                                             *)

Env == env < MaxEnv /\ EventsLeft /\ env' = env + 1

NodeChanges(m) ==
  /\ Env
  /\ \E x \in (Node \union {NoNode}) \ {nodes[m]} :
       /\ nodes' = [nodes EXCEPT ![m] = x]
       /\ IF GpuNodeChanged(nodes[m], x) THEN EnqueueGpu ELSE UNCHANGED queue
  /\ UNCHANGED <<k8s, timers, pc, seen, helm, ns, pods, driver, policy, user, faults>>

\* What a pod can become.
Becomes(pod) ==
  IF pod = NoPod THEN NewPods
  ELSE {[pod EXCEPT !.terminating = TRUE]}
         \union (IF pod.phase \in {"Succeeded", "Failed"} THEN {NoPod}
                 ELSE {[pod EXCEPT !.phase = ph] : ph \in PodPhases \ {"Pending"}})
         \union (IF pod.terminating THEN {NoPod} ELSE {})

\* Pods are not watched.
PodChanges(p) ==
  /\ Env
  /\ \E x \in Becomes(pods[p]) \ {pods[p]} : pods' = [pods EXCEPT ![p] = x]
  /\ UNCHANGED <<k8s, queue, timers, pc, seen, helm, ns, nodes, driver, policy, user, faults>>

\* The DaemonSets follow the release: a new configuration is rolled out, becomes
\* ready, and is removed with the release.  They are watched.
DriverFollows ==
  /\ Rollout
  /\ \/ /\ release.status = "deployed" /\ driver.config # release.config
        /\ driver' = [state |-> "progressing", config |-> release.config]
     \/ driver.state \in {"progressing", "empty"} /\ driver' = [driver EXCEPT !.state = "ready"]
     \/ /\ release = Helm!NoRelease /\ driver.state # "missing"
        /\ driver' = [state |-> "missing", config |-> Absent]
  /\ EnqueueGpu
  /\ UNCHANGED <<k8s, timers, pc, seen, helm, ns, nodes, pods, policy, bounds, faults>>

\* A driver pod fails, or the last GPU node goes.
DriverSetback ==
  /\ Env
  /\ driver.state = "ready" /\ \E s \in {"progressing", "empty"} : driver' = [driver EXCEPT !.state = s]
  /\ EnqueueGpu
  /\ UNCHANGED <<k8s, timers, pc, seen, helm, ns, nodes, pods, policy, user, faults>>

\* The ClusterPolicy follows the driver; it is not watched.
PolicyFollows ==
  /\ policy' = CASE driver.state = "missing" -> "missing"
                 [] driver.state = "ready" -> "ready"
                 [] OTHER -> "notReady"
  /\ policy' # policy
  /\ UNCHANGED <<k8s, queue, timers, pc, seen, helm, ns, nodes, pods, driver, bounds, faults>>

PolicySetback ==
  /\ Env
  /\ policy \in {"ready", "notReady"} /\ policy' = "ignored"
  /\ UNCHANGED <<k8s, queue, timers, pc, seen, helm, ns, nodes, pods, driver, user, faults>>

\* The namespace is gone with all that was in it, the release's Secrets included.
NamespaceGone ==
  /\ ns = "terminating" /\ ns' = "none"
  /\ release' = Helm!NoRelease /\ UNCHANGED <<phase, want, result>>
  /\ UNCHANGED <<k8s, queue, timers, pc, seen, world, bounds, faults>>

-----------------------------------------------------------------------------
Init ==
  /\ api = [n \in CRs |-> NoCR] /\ cache = api /\ pipe = [n \in CRs |-> <<>>]
  /\ queue = {} /\ timers = {} /\ pc = "idle" /\ seen = NothingSeen
  /\ Helm!Init /\ ns = "none"
  /\ nodes \in InitNodes /\ pods \in InitPods
  /\ driver = [state |-> "missing", config |-> Absent] /\ policy = "missing"
  /\ user = 0 /\ env = 0 /\ faults = 0

Reconcile(n) ==
  \/ ReconcileNothing(n) \/ ReconcileRogue(n) \/ AddFinalizer(n) \/ ReconcilePreflight(n)
  \/ NodesUnreadable(n) \/ DropRogueFinalizer(n) \/ ReconcileDelete(n)

Worker ==
  \/ \E n \in CRs : Reconcile(n)
  \/ PreflightWarn \/ PreflightError
  \/ HelmWorks \/ HelmFails \/ InstallFailed
  \/ CheckDriver \/ CheckClusterPolicy \/ UpdateStatus
  \/ MarkUninstalling \/ DeletionBlocked \/ BeginUninstall
  \/ DeleteNamespace \/ RemoveFinalizer

Machinery == \E n \in CRs : Deliver(n) \/ TimerFires(n)

Users == \E n \in CRs : Create(n) \/ Edit(n) \/ Delete(n)

Cluster ==
  \/ \E m \in Nodes : NodeChanges(m)
  \/ \E p \in PodNames : PodChanges(p)
  \/ DriverFollows \/ DriverSetback \/ PolicyFollows \/ PolicySetback
  \/ NamespaceGone

Next == Worker \/ Machinery \/ Crash \/ Users \/ Cluster

Spec == Init /\ [][Next]_vars

\* The worker and the informer go on, no CR waits in the queue for ever (it is
\* first in, first out), timers expire, and the cluster does its part: the driver
\* is rolled out and a deleted namespace disappears.
Fairness ==
  /\ WF_vars(Worker) /\ \A n \in CRs : SF_vars(Reconcile(n))
  /\ \A n \in CRs : WF_vars(Deliver(n)) /\ WF_vars(TimerFires(n))
  /\ WF_vars(DriverFollows) /\ WF_vars(PolicyFollows) /\ WF_vars(NamespaceGone)

FairSpec == Spec /\ Fairness

-----------------------------------------------------------------------------
(* Properties.                                                              *)

TypeOK ==
  /\ api \in [CRs -> CR \union {NoCR}] /\ cache \in [CRs -> CR \union {NoCR}]
  /\ pipe \in [CRs -> Seq(CR \union {NoCR})] /\ \A n \in CRs : Len(pipe[n]) <= MaxLag
  /\ queue \subseteq CRs /\ timers \subseteq CRs /\ pc \in PC
  /\ release \in Helm!Releases /\ phase \in {"idle", "called", "acting"}
  /\ want \in Configs \union {Absent} /\ result \in Helm!Results
  /\ ns \in {"none", "active", "terminating"}
  /\ nodes \in Clusters /\ pods \in [PodNames -> Pod \union {NoPod}]
  /\ driver \in [state : DriverStates, config : Configs \union {Absent}]
  /\ policy \in PolicyStates
  /\ seen \in [DriverReady : CondStatus \X Reasons, ValidatorPassed : CondStatus \X Reasons]
  /\ user \in 0..MaxUser /\ env \in 0..MaxEnv /\ faults \in 0..MaxFaults

\* A release is never left without the CR whose deletion will remove it: while
\* there is one, the CR gpu exists and has the finalizer, or the namespace that
\* holds the release is on its way out.
NoOrphanedRelease ==
  release # Helm!NoRelease =>
    \/ api[Expected] # NoCR /\ api[Expected].finalizer
    \/ ns = "terminating"

\* The namespace is deleted only under a release that has been removed, or that
\* Uninstall does not see (installer.go 137-143).
NamespaceAfterRelease == ns = "terminating" => release.status \notin {"deployed", "failed"}

Asleep == pc = "idle" /\ queue = {} /\ timers = {} /\ \A n \in CRs : pipe[n] = <<>>

Settled(n) ==
  \/ api[n] = NoCR
  \/ n # Expected /\ api[n].conds["Ready"] = Cond("False", "ForbiddenCRName", api[n].gen)
  \/ /\ n = Expected /\ ~api[n].deleting
     /\ RunPreflight(nodes).outcome = "Error"
     /\ api[n].conds["Preflight"] = Cond("False", "Failed", api[n].gen)

\* No trigger is lost: the operator rests only if nothing is left to be done.
\* After a preflight error nothing requeues the CR, so the Node watch and its
\* predicate alone have to bring it back (gpu_controller.go 226-229).
NothingForgotten == Asleep => \A n \in CRs : Settled(n)

\* A complete or failed release is uninstalled only while the CR is being
\* deleted, and never because of what the cache still shows of a former CR.
UninstallNeedsDeletion ==
  [][release.status \in {"deployed", "failed"} /\ release'.status = "uninstalling"
       => api[Expected] # NoCR /\ api[Expected].deleting]_vars

\* While the status that reports a release as installed is being put together,
\* this release is deployed: it is the one the reconcile asked for, and neither a
\* failed call nor a namespace on its way out has taken it away.
ReportedReleaseExists ==
  pc \in {"driver", "policy", "status"} => release = Helm!Rel("deployed", want) /\ want # Absent

\* A container of the pod is using a GPU, or is waiting for one.
NeedsGPU(pod) ==
  /\ pod # NoPod /\ pod.phase \in {"Pending", "Running"}
  /\ \E r \in GPUResources : r \in pod.limits["containers"] \/ r \in pod.limits["initContainers"]

\* A pod of the users' that keeps the GPU support from being removed: the operator's
\* own pods do not, and neither do pods on their way out.
Blocks(pod) == NeedsGPU(pod) /\ ~pod.home /\ ~pod.terminating

\* GPU support is not taken away from under the users' pods: the uninstall begins
\* only if none needs a GPU, those that are still to start one and those that need
\* it in an init container included, and nothing else makes the operator remove a
\* complete or failed release.  The exception is the one of the code, a list of pods
\* that fails (gpu_controller.go 325-346).
WorkloadsSpared ==
  [][/\ pc # "removing" /\ pc' = "removing" /\ UNCHANGED faults
          => \A p \in PodNames : ~Blocks(pods[p])
     /\ release.status \in {"deployed", "failed"} /\ release'.status = "uninstalling"
          => pc = "removing"]_vars

\* A deleted CR goes away, unless a user's pod needs a GPU for ever; pods that have
\* finished, pods on their way out and the pods of the GPU support itself do not
\* hold it up (gpu_controller.go 547-566).
DeletionCompletes ==
  \A n \in CRs :
    <>[](\/ api[n] = NoCR \/ ~api[n].deleting
         \/ n = Expected /\ \E p \in PodNames : Blocks(pods[p]))

Shows(cr, t, status) == cr.conds[t].status = status /\ cr.conds[t].gen = cr.gen

\* What each input of Ready is to show when the release is installed and left alone.
InTheEnd ==
  [Preflight |-> "True", HelmInstalled |-> "True",
   DriverReady |-> DriverStatus[1], ValidatorPassed |-> PolicyStatus[1]]

\* Once the users and the cluster leave it alone, a CR shows what is the case
\* and, if the nodes allow it, its own spec is what is installed.  If two failures
\* have left a release that recoverPending (installer.go 183-214) does not recover,
\* nothing is installed any more, and the CR says so.
StatusConverges ==
  LET cr == api[Expected]  pre == RunPreflight(nodes) IN
  <>[](cr # NoCR /\ ~cr.deleting =>
         CASE pre.outcome = "Warn" -> Shows(cr, "Preflight", "Unknown")
           [] pre.outcome = "Error" -> Shows(cr, "Preflight", "False")
           [] pre.outcome = "Proceed" /\ Unrecoverable ->
                Shows(cr, "Preflight", "True") /\ Shows(cr, "HelmInstalled", "False")
           [] pre.outcome = "Proceed" /\ ~Unrecoverable ->
                /\ release = Helm!Rel("deployed", <<cr.spec, pre.os>>)
                /\ \A t \in Inputs : Shows(cr, t, InTheEnd[t])
                /\ Shows(cr, "Ready", IF \A t \in Inputs : InTheEnd[t] = "True" THEN "True" ELSE "Unknown"))


-----------------------------------------------------------------------------
(* What the documentation and the comments say, and the code does not do.   *)

\* docs/user/00-30-installation.md 74-75: the finalizer runs helm uninstall when
\* the CR is deleted; so once it is gone and all is quiet, the release is gone too.
DeletedMeansUninstalled ==
  Asleep /\ api[Expected] = NoCR => release = Helm!NoRelease \/ ns = "terminating"

\* docs/user/README.md: Ready is True only when all four input conditions are.
IsReady(cr) == cr # NoCR /\ cr.conds["Ready"].status = "True"

ReadyIsSummary ==
  IsReady(api[Expected]) => \A t \in Inputs : api[Expected].conds[t].status = "True"

\* config/crd/bases 111-115: observedGeneration is the generation that the
\* condition was set based upon; so HelmInstalled=True for the current one means
\* that the current spec is installed.
ObservedMeansInstalled ==
  LET cr == api[Expected] IN
  cr # NoCR /\ ~cr.deleting /\ Shows(cr, "HelmInstalled", "True")
    => \E os \in OSTypes : release.config = <<cr.spec, os>>

\* gpu_controller.go 383-385: conditions that a status update does not list are
\* left untouched on the live object.
OthersUntouched ==
  [][(pc \in {"warn", "error"}) /\ api[Expected] # NoCR /\ api'[Expected] # NoCR
       => \A t \in CondTypes \ {"Preflight"} :
            api'[Expected].conds[t] = api[Expected].conds[t]]_vars

=============================================================================
