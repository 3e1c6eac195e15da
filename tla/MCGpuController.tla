---------------------------- MODULE MCGpuController ----------------------------
(* Model values and bounds for checking GpuController.                      *)
EXTENDS GpuController

CONSTANTS gpu, other, s1, s2, n1, n2, g6, m5, gardenlinux, ubuntu, windows,
          p1, cpu, gpuLimit

OneCR == {gpu}
OtherCR == {other} \intersect CRs
TwoCRs == {gpu, other}
OneSpec == {s1}
TwoSpecs == {s1, s2}
OneNode == {n1}
TwoNodes == {n1, n2}
GPUOnly == {g6}
AllTypes == {g6, m5}
OnePod == {p1}
Limits == {cpu, gpuLimit}
GPULimits == {gpuLimit}
GardenOnly == {gardenlinux}
UbuntuOnly == {ubuntu}
GoodImages == {gardenlinux, ubuntu}
AllImages == {gardenlinux, ubuntu, windows}

On(image) == [n \in Nodes |-> [type |-> g6, image |-> image]]

\* All nodes run Garden Linux; or there are none yet, or not all of them do.
Good == {On(gardenlinux)}
Mixed(image) == [n \in Nodes |-> [type |-> g6, image |-> IF n = n1 THEN gardenlinux ELSE image]]
Various == Good \union {[n \in Nodes |-> NoNode], Mixed(ubuntu), Mixed(windows)}

\* The pods: one that is using a GPU, one that waits for one with an init container,
\* and one for each reason not to count a pod.
Using(list) == [home |-> FALSE, phase |-> "Running", terminating |-> FALSE,
                limits |-> [l \in ContainerLists |-> IF l = list THEN {gpuLimit} ELSE {cpu}]]
Waiting == [Using("initContainers") EXCEPT !.phase = "Pending"]
Blocking == {Using("containers"), Waiting}
Harmless == {NoPod, [Using("containers") EXCEPT !.home = TRUE], [Using("containers") EXCEPT !.phase = "Succeeded"],
             [Using("containers") EXCEPT !.terminating = TRUE]}
PodsOf(S) == [PodNames -> S]
NoPods == PodsOf({NoPod})
AnyPods == PodsOf(Blocking \union Harmless)
Starting == {Waiting}
=============================================================================
