------------------------------- MODULE Workloads -------------------------------
(***************************************************************************)
(* Which pods keep the GPU support from being removed: podRequestsGPU and  *)
(* detectActiveGPUWorkloads (internal/controller/gpu_controller.go).       *)
(*                                                                         *)
(* A pod is what the code reads of it: whether it is in the namespace      *)
(* gpu-operator, its phase, whether it has a deletion timestamp, and the   *)
(* resources that its containers and its init containers have limits for.  *)
(***************************************************************************)
CONSTANTS
  PodNames,      \* names of pods
  Resources,     \* names of resources
  GPUResources,  \* those with a prefix in gpuResourcePrefixes
  NoPod          \* no pod of that name

PodPhases == {"Pending", "Running", "Succeeded", "Failed", "Unknown"}

ContainerLists == {"containers", "initContainers"}

Pod == [home : BOOLEAN, phase : PodPhases, terminating : BOOLEAN,
        limits : [ContainerLists -> SUBSET Resources]]

ASSUME PodAssumption == GPUResources \subseteq Resources /\ NoPod \notin Pod

PodRequestsGPU(pod) == \E list \in ContainerLists : pod.limits[list] \intersect GPUResources # {}

\* Wrong variant: a pod that has finished counts until it is removed.
DetectActiveGPUWorkloadsAnyPhase(pods) ==
  {p \in PodNames : pods[p] # NoPod /\ ~pods[p].home /\ ~pods[p].terminating /\ PodRequestsGPU(pods[p])}

\* Wrong variant: a pod that waits to be scheduled is not active yet.
DetectActiveGPUWorkloadsRunning(pods) ==
  {p \in PodNames : pods[p] # NoPod /\ ~pods[p].home /\ ~pods[p].terminating
                      /\ pods[p].phase = "Running" /\ PodRequestsGPU(pods[p])}

DetectActiveGPUWorkloads(pods) ==
  {p \in PodNames :
     /\ pods[p] # NoPod /\ ~pods[p].home /\ ~pods[p].terminating
     /\ pods[p].phase \in {"Running", "Pending"}
     /\ PodRequestsGPU(pods[p])}

=============================================================================
