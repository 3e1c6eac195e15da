------------------------------- MODULE Preflight -------------------------------
(***************************************************************************)
(* GPU node detection, the preflight check (internal/detection) and the    *)
(* predicate that filters Node events (gpuNodeChangedPredicate).           *)
(*                                                                         *)
(* A cluster maps every node name to the two fields the code reads, the    *)
(* instance-type label and the OS image, or to NoNode.                     *)
(***************************************************************************)
EXTENDS Integers, FiniteSets

CONSTANTS
  Nodes,        \* node names
  Types,        \* instance types a node can be labelled with (none at all is one)
  GPUTypes,     \* those with a prefix in instanceTypePrefixes
  Images,       \* OS images
  GardenLinux,  \* the images that contain "garden linux"
  Ubuntu,       \* the images that contain "ubuntu"
  NoNode        \* no node of that name


Node == [type : Types, image : Images]

Clusters == [Nodes -> Node \union {NoNode}]

ASSUME NoNodeAssumption == NoNode \notin Node

OSTypes == {"gardenlinux", "ubuntu"}

IsGPUNode(node) == node # NoNode /\ node.type \in GPUTypes

\* An image that contains both names is Garden Linux.
DetectNodeOS(node) ==
  IF node.image \in GardenLinux THEN "gardenlinux"
  ELSE IF node.image \in Ubuntu THEN "ubuntu"
  ELSE "unknown"

GPUNodes(cluster) == {n \in Nodes : IsGPUNode(cluster[n])}

\* The GPU nodes with an unsupported OS, as the reason of the error lists them.
Unsupported(cluster) ==
  {<<n, cluster[n].image>> : n \in {m \in GPUNodes(cluster) : DetectNodeOS(cluster[m]) = "unknown"}}

GPUNodeOSes(cluster) == {DetectNodeOS(cluster[n]) : n \in GPUNodes(cluster)}

Outcome(o, os, reason) == [outcome |-> o, os |-> os, reason |-> reason]

RunPreflight(cluster) ==
  IF GPUNodes(cluster) = {} THEN Outcome("Warn", "unknown", {})
  ELSE IF Unsupported(cluster) # {} THEN Outcome("Error", "unknown", Unsupported(cluster))
  ELSE IF Cardinality(GPUNodeOSes(cluster)) > 1 THEN Outcome("Error", "unknown", {})
  ELSE Outcome("Proceed", CHOOSE os \in GPUNodeOSes(cluster) : TRUE, {})

-----------------------------------------------------------------------------
(* What the Node watch lets through, for a node that was old and is new.    *)

\* Wrong variant: only nodes that become or cease to be GPU nodes count.
GpuNodeChangedLabels(old, new) == IsGPUNode(old) # IsGPUNode(new)

\* Creation and deletion of a GPU node, a node becoming or ceasing to be one,
\* and a new OS image on a GPU node.
GpuNodeChanged(old, new) ==
  \/ IsGPUNode(old) # IsGPUNode(new)
  \/ IsGPUNode(old) /\ IsGPUNode(new) /\ old.image # new.image

=============================================================================
