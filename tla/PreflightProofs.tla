---------------------------- MODULE PreflightProofs ----------------------------
(***************************************************************************)
(* Preflight for every cluster: which clusters it lets pass, and that the  *)
(* Node watch misses nothing it depends on.                                *)
(***************************************************************************)
EXTENDS Preflight, FiniteSetTheorems, TLAPS

\* Node events that the predicate drops leave membership and images of the GPU
\* nodes alone.
LEMMA SilentNode ==
  ASSUME NEW old, NEW new, ~GpuNodeChanged(old, new)
  PROVE  /\ IsGPUNode(old) <=> IsGPUNode(new)
         /\ IsGPUNode(new) => old.image = new.image
BY DEF GpuNodeChanged

\* After a preflight error the reconciler sleeps until the Node watch wakes it
\* (gpu_controller.go 226-229): if gpuNodeChangedPredicate drops the events of
\* every node, preflight has the same outcome, OS and reason as before.
THEOREM DroppedEventsChangeNothing ==
  ASSUME NEW old \in Clusters, NEW new \in Clusters,
         \A n \in Nodes : ~GpuNodeChanged(old[n], new[n])
  PROVE  RunPreflight(new) = RunPreflight(old)
<1>1. GPUNodes(new) = GPUNodes(old)
  BY SilentNode DEF GPUNodes
<1>2. \A n \in GPUNodes(new) :
        /\ new[n].image = old[n].image
        /\ DetectNodeOS(new[n]) = DetectNodeOS(old[n])
  BY SilentNode DEF GPUNodes, DetectNodeOS
<1>3. Unsupported(new) = Unsupported(old)
  BY <1>1, <1>2 DEF Unsupported
<1>4. GPUNodeOSes(new) = GPUNodeOSes(old)
  BY <1>1, <1>2 DEF GPUNodeOSes
<1> QED
  BY <1>1, <1>3, <1>4 DEF RunPreflight

\* Two elements of a set count as more than one.
LEMMA MoreThanOne ==
  ASSUME NEW S, IsFiniteSet(S), NEW x \in S
  PROVE  Cardinality(S) > 1 <=> \E y \in S : y # x
<1>1. IsFiniteSet(S \ {x}) /\ Cardinality(S \ {x}) = Cardinality(S) - 1
  BY FS_RemoveElement
<1>2. Cardinality(S \ {x}) \in Nat /\ Cardinality(S) \in Nat
  BY <1>1, FS_CardinalityType
<1>3. Cardinality(S \ {x}) = 0 <=> S \ {x} = {}
  BY <1>1, FS_EmptySet
<1> QED
  BY <1>1, <1>2, <1>3

\* RunPreflight lets a cluster pass iff it has GPU nodes and all of them run the
\* same supported OS, and the OS it returns is theirs: gpu_controller.go hands it
\* to BuildValues as the OS of all GPU nodes.
THEOREM ProceedMeansOneOS ==
  ASSUME NEW cluster \in Clusters
  PROVE  /\ RunPreflight(cluster).outcome = "Proceed" <=>
              /\ GPUNodes(cluster) # {}
              /\ \E os \in OSTypes : \A n \in GPUNodes(cluster) : DetectNodeOS(cluster[n]) = os
         /\ RunPreflight(cluster).outcome = "Proceed" =>
              \A n \in GPUNodes(cluster) : DetectNodeOS(cluster[n]) = RunPreflight(cluster).os
<1> DEFINE gpus == GPUNodes(cluster)
           oses == GPUNodeOSes(cluster)
<1>1. Unsupported(cluster) = {} <=> \A n \in gpus : DetectNodeOS(cluster[n]) # "unknown"
  BY DEF Unsupported
<1>2. \A n \in gpus : DetectNodeOS(cluster[n]) \in OSTypes \union {"unknown"}
  BY DEF DetectNodeOS, OSTypes
<1>3. CASE gpus = {}
  BY <1>3 DEF RunPreflight, Outcome
<1>4. CASE gpus # {} /\ Unsupported(cluster) # {}
  BY <1>1, <1>4 DEF RunPreflight, Outcome, OSTypes
<1>5. CASE gpus # {} /\ Unsupported(cluster) = {}
  <2>1. oses \subseteq OSTypes /\ oses # {}
    BY <1>1, <1>2, <1>5 DEF GPUNodeOSes
  <2>2. IsFiniteSet(OSTypes) /\ IsFiniteSet(oses)
    <3>1. IsFiniteSet({}) /\ IsFiniteSet({} \union {"ubuntu"})
      BY FS_EmptySet, FS_AddElement
    <3>2. IsFiniteSet(({} \union {"ubuntu"}) \union {"gardenlinux"})
      BY <3>1, FS_AddElement
    <3>3. OSTypes = ({} \union {"ubuntu"}) \union {"gardenlinux"}
      BY DEF OSTypes
    <3> QED
      BY <2>1, <3>2, <3>3, FS_Subset
  <2>3. PICK os \in oses : TRUE
    BY <2>1
  <2>4. Cardinality(oses) > 1 <=> \E y \in oses : y # os
    BY <2>2, MoreThanOne
  <2>5. CASE Cardinality(oses) > 1
    BY <1>5, <2>4, <2>5 DEF RunPreflight, Outcome, GPUNodeOSes
  <2>6. CASE ~(Cardinality(oses) > 1)
    <3>1. oses = {os} /\ os \in OSTypes
      BY <2>1, <2>3, <2>4, <2>6
    <3>2. \A n \in gpus : DetectNodeOS(cluster[n]) = os
      BY <3>1 DEF GPUNodeOSes
    <3>3. (CHOOSE x \in oses : TRUE) = os
      BY <3>1
    <3> QED
      BY <1>5, <2>6, <3>1, <3>2, <3>3 DEF RunPreflight, Outcome
  <2> QED
    BY <2>5, <2>6
<1> QED
  BY <1>3, <1>4, <1>5

=============================================================================
