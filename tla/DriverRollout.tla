----------------------------- MODULE DriverRollout -----------------------------
(***************************************************************************)
(* From the spec of the Gpu CR to drivers on the nodes and back to the      *)
(* status: the values installed, the driver DaemonSets that the NVIDIA GPU  *)
(* Operator keeps (one for each kernel), their status counters, which lag   *)
(* behind the pods, and checkDriverDaemonSet, which adds the counters up.   *)
(*                                                                         *)
(* The DaemonSet controller counts a node for the DaemonSet it belongs to   *)
(* only, so ready and updated never exceed desired in one set of counters;  *)
(* numberAvailable is numberReady, as the DaemonSets have no minReadySeconds.*)
(***************************************************************************)
EXTENDS HelmValues, Integers, FiniteSets

CONSTANTS
  Nodes,         \* names of GPU nodes
  Kernels,       \* kernel versions
  NoKernel,      \* of a node that is not there
  None,          \* no release, no DaemonSet, no pod
  ChartVersion,  \* the driver version that the chart installs by default
  OS,            \* operating systems of the GPU nodes, one in each behaviour
  Specs,         \* specs that are asked for,
  InitSpecs,     \* those to begin with,
  InitKernels,   \* and kernels of the nodes
  MaxEdits,      \* bound on edits of the spec
  MaxChanges     \* bound on what nodes and driver pods do of their own accord

ASSUME RolloutAssumption ==
  /\ IsFiniteSet(Nodes) /\ IsFiniteSet(Kernels) /\ NoKernel \notin Kernels
  /\ OS \subseteq Systems /\ InitSpecs \subseteq Specs /\ Specs \subseteq GpuSpec
  /\ InitKernels \subseteq [Nodes -> Kernels \union {NoKernel}] /\ MaxEdits \in Nat /\ MaxChanges \in Nat

VARIABLES
  spec,    \* of the CR
  os,      \* of the GPU nodes
  pc,      \* "idle", or "driver": Helm is done, the DaemonSets are read next
  values,  \* of the deployed release
  kernel,  \* of every node
  sets,    \* the driver DaemonSets
  pods,    \* the driver pod on every node
  plugin,  \* the time-slicing config that the device plugin was started with
  report,  \* what the status says of the driver
  edits, changes

reconciler == <<pc, values, report>>
cluster == <<sets, pods, plugin>>
inputs == <<spec, os, kernel, edits, changes>>
vars == <<reconciler, cluster, inputs>>

Image == [version : Versions \union {ChartVersion}, kernel : Kernels]
Counts == [desired : Nat, ready : Nat, updated : Nat]
DaemonSet == [image : Image, status : Counts]
Pod == [image : Image, ready : BOOLEAN]
Slicing == [name : {TimeSlicingConfigMapName(n) : n \in Replicas}, data : Replicas]

\* That there is no pod, or no time slicing, is not a pod or a time slicing.
ASSUME NoneAssumption == None \notin Pod /\ None \notin Slicing

Report(status, reason, version, nodesReady) ==
  [status |-> status, reason |-> reason, version |-> version, nodesReady |-> nodesReady]

-----------------------------------------------------------------------------
(* What the chart makes of its values.                                      *)

\* A version is written into the image name, be it a number or a text.
DriverVersion(vals) ==
  IF Has(vals["driver"], "version") THEN vals["driver"]["version"].of ELSE ChartVersion

PluginConfig(vals) == IF Has(vals, "devicePlugin") THEN vals["devicePlugin"].config ELSE None

NodesWith(k) == {n \in Nodes : kernel[n] = k}

Wanted(k) == [version |-> DriverVersion(values), kernel |-> k]

Running(k) == {n \in NodesWith(k) : pods[n] # None /\ pods[n].ready}

CountsNow(k) ==
  [desired |-> Cardinality(NodesWith(k)), ready |-> Cardinality(Running(k)),
   updated |-> Cardinality({n \in NodesWith(k) : pods[n] # None /\ pods[n].image = sets[k].image})]

-----------------------------------------------------------------------------
(* The reconciler.                                                          *)

\* installOrUpgrade: nothing is upgraded if the values are those installed.
InstallOrUpgrade ==
  /\ pc = "idle" /\ pc' = "driver"
  /\ \E n \in Nodes : kernel[n] # NoKernel
  /\ values' = BuildValues(spec, os)
  /\ UNCHANGED <<report, cluster, inputs>>

\* Wrong variant: the tag is taken for the version.
WholeTag(ds) == <<ds.image.version, ds.image.kernel>>

\* The image tag up to the first dash, of the DaemonSet's template.
DriverVersionFromDaemonSet(ds) == ds.image.version

Present == {k \in Kernels : sets[k] # None}

\* The sum over all DaemonSets, as the size of a disjoint union.
Total(field) == Cardinality(UNION {{k} \X (1..sets[k].status[field]) : k \in Present})

\* The version is reported only if all DaemonSets have the same.
CommonVersion ==
  LET found == {DriverVersionFromDaemonSet(sets[k]) : k \in Present}
  IN  IF Cardinality(found) = 1 THEN CHOOSE v \in found : TRUE ELSE None

\* Wrong variant: pods of the former driver count as well.
RolledOutReadyOnly == Total("ready") >= Total("desired")

RolledOut == Total("ready") >= Total("desired") /\ Total("updated") >= Total("desired")

NotFound == Report("Unknown", "Waiting", None, 0)

DriverReport ==
  IF Present = {} THEN NotFound
  ELSE LET verdict == CASE Total("desired") = 0 -> <<"Unknown", "Waiting">>
                        [] Total("desired") > 0 /\ ~RolledOut -> <<"Unknown", "Progressing">>
                        [] Total("desired") > 0 /\ RolledOut -> <<"True", "Ready">>
       IN  Report(verdict[1], verdict[2], CommonVersion, Total("ready"))

Change == changes < MaxChanges /\ changes' = changes + 1

\* The report follows at once on the upgrade.  The DaemonSets may be unreadable.
CheckDriverDaemonSet ==
  /\ pc = "driver" /\ pc' = "idle"
  /\ \/ report' = DriverReport /\ UNCHANGED changes
     \/ Change /\ report' = Report("False", "ReadError", None, 0)
  /\ UNCHANGED <<values, cluster, spec, os, kernel, edits>>

-----------------------------------------------------------------------------
(* The NVIDIA GPU Operator and the DaemonSet controller.                    *)

RenderDaemonSet(k) ==
  /\ values # None /\ NodesWith(k) # {}
  /\ \/ /\ sets[k] = None
        /\ sets' = [sets EXCEPT ![k] = [image |-> Wanted(k),
                                        status |-> [desired |-> 0, ready |-> 0, updated |-> 0]]]
     \/ /\ sets[k] # None /\ sets[k].image # Wanted(k)
        /\ sets' = [sets EXCEPT ![k].image = Wanted(k)]
  /\ UNCHANGED <<reconciler, pods, plugin, inputs>>

\* The DaemonSet of a kernel that no node runs any more is removed.
RemoveDaemonSet(k) ==
  /\ sets[k] # None /\ NodesWith(k) = {}
  /\ sets' = [sets EXCEPT ![k] = None]
  /\ UNCHANGED <<reconciler, pods, plugin, inputs>>

SyncStatus(k) ==
  /\ sets[k] # None /\ sets[k].status # CountsNow(k)
  /\ sets' = [sets EXCEPT ![k].status = CountsNow(k)]
  /\ UNCHANGED <<reconciler, pods, plugin, inputs>>

\* A node gets a pod of the current template; a former one is replaced.
CreatePod(n) ==
  /\ kernel[n] # NoKernel /\ sets[kernel[n]] # None
  /\ ~(pods[n] # None /\ pods[n].image = sets[kernel[n]].image)
  /\ pods' = [pods EXCEPT ![n] = [image |-> sets[kernel[n]].image, ready |-> FALSE]]
  /\ UNCHANGED <<reconciler, sets, plugin, inputs>>

PodReady(n) ==
  /\ pods[n] # None /\ ~pods[n].ready
  /\ pods' = [pods EXCEPT ![n].ready = TRUE]
  /\ UNCHANGED <<reconciler, sets, plugin, inputs>>

\* The device plugin is started again only if its config has another name.
RestartPlugin ==
  /\ values # None
  /\ LET config == PluginConfig(values)
     IN  /\ IF None \in {config, plugin} THEN config # plugin ELSE config.name # plugin.name
         /\ plugin' = config
  /\ UNCHANGED <<reconciler, sets, pods, inputs>>

-----------------------------------------------------------------------------
(* Users and nodes.                                                         *)

Edit ==
  /\ edits < MaxEdits /\ edits' = edits + 1
  /\ \E s \in Specs \ {spec} : spec' = s
  /\ UNCHANGED <<reconciler, cluster, os, kernel, changes>>

\* A node joins, leaves, or comes back with another kernel.
NodeChanges(n) ==
  /\ Change
  /\ \E k \in (Kernels \union {NoKernel}) \ {kernel[n]} : kernel' = [kernel EXCEPT ![n] = k]
  /\ pods' = [pods EXCEPT ![n] = None]
  /\ UNCHANGED <<reconciler, sets, plugin, spec, os, edits>>

PodFails(n) ==
  /\ Change
  /\ pods[n] # None /\ pods[n].ready /\ pods' = [pods EXCEPT ![n].ready = FALSE]
  /\ UNCHANGED <<reconciler, sets, plugin, spec, os, kernel, edits>>

-----------------------------------------------------------------------------
Init ==
  /\ spec \in InitSpecs /\ os \in OS /\ kernel \in InitKernels
  /\ pc = "idle" /\ values = None /\ report = NotFound
  /\ sets = [k \in Kernels |-> None] /\ pods = [n \in Nodes |-> None] /\ plugin = None
  /\ edits = 0 /\ changes = 0

Reconcile == InstallOrUpgrade \/ CheckDriverDaemonSet

Rollout ==
  \/ \E k \in Kernels : RenderDaemonSet(k) \/ RemoveDaemonSet(k) \/ SyncStatus(k)
  \/ \E n \in Nodes : CreatePod(n) \/ PodReady(n)
  \/ RestartPlugin

Environment == Edit \/ \E n \in Nodes : NodeChanges(n) \/ PodFails(n)

Next == Reconcile \/ Rollout \/ Environment

Spec == Init /\ [][Next]_vars

\* The reconciler is called every 30 seconds; of the NVIDIA GPU Operator and the
\* DaemonSet controller it is enough that one of them does something.
Fairness == WF_vars(Reconcile) /\ WF_vars(Rollout)

FairSpec == Spec /\ Fairness

-----------------------------------------------------------------------------
(* Properties.                                                              *)

TypeOK ==
  /\ spec \in Specs /\ os \in OS /\ pc \in {"idle", "driver"}
  /\ values # None => values["driver"].repository \in {"gardenlinux", "nvidia"}
  /\ kernel \in [Nodes -> Kernels \union {NoKernel}]
  /\ sets \in [Kernels -> DaemonSet \union {None}]
  /\ pods \in [Nodes -> Pod \union {None}]
  /\ plugin \in Slicing \union {None}
  /\ report.status \in {"True", "False", "Unknown"}
  /\ report.version \in Versions \union {ChartVersion, None} /\ report.nodesReady \in Nat
  /\ edits \in 0..MaxEdits /\ changes \in 0..MaxChanges

Members == {n \in Nodes : kernel[n] # NoKernel}

Served(n) == pods[n] = [image |-> Wanted(kernel[n]), ready |-> TRUE]

\* Each kernel in use has a DaemonSet of the installed release, and the counters
\* of all DaemonSets are up to date.
Current ==
  /\ values # None
  /\ \A k \in Kernels :
       IF NodesWith(k) = {} THEN sets[k] = None
       ELSE sets[k] # None /\ sets[k].image = Wanted(k) /\ sets[k].status = CountsNow(k)

\* Adding up the counters of all DaemonSets tells whether every node on every
\* kernel version has a ready driver (gpu_controller.go 433-436), also in a
\* cluster of several kernels, as long as the counters are current.
ReadyIsReadyEverywhere ==
  Current => (DriverReport.status = "True" <=> Members # {} /\ \A n \in Members : Served(n))

\* A release is upgraded only for a difference that the chart shows: asking for
\* the version that the base has anyway is none (values.go 77-103).  Without a
\* base there is one upgrade for nothing, when a spec begins or ceases to name the
\* version that the chart installs by default.
UpgradesMakeADifference ==
  [][values # None /\ values' # values
       => \/ DriverVersion(values') # DriverVersion(values)
          \/ PluginConfig(values') # PluginConfig(values)
          \/ /\ DriverVersion(values) = ChartVersion
             /\ Has(values["driver"], "version") # Has(values'["driver"], "version")]_vars

\* The version that a spec asks for, else that of Garden Linux or of the chart.
EffectiveVersion ==
  IF spec.version # Unset THEN spec.version
  ELSE IF os = "gardenlinux" THEN BaseVersion ELSE ChartVersion

\* In the end every node runs the driver version that the spec asks for, and the
\* status says so: the version and the number of nodes included.
RolloutReported ==
  <>[](Members # {} =>
         /\ \A n \in Members : pods[n] # None /\ pods[n].image.version = EffectiveVersion
         /\ report = Report("True", "Ready", EffectiveVersion, Cardinality(Members)))

\* In the end the device plugin runs with the number of time slices of the spec,
\* though it is started again only for a config of another name (values.go 30-33).
SharingFollows ==
  <>[](Members # {} =>
         IF spec.replicas = Unset THEN plugin = None
         ELSE plugin # None /\ plugin.data = spec.replicas)

=============================================================================
