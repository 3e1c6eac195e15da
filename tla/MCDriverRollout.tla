---------------------------- MODULE MCDriverRollout ----------------------------
(* Model values and bounds for checking DriverRollout.                      *)
EXTENDS DriverRollout

CONSTANTS usual, newer, chart, n1, n2, k1, k2

ThreeVersions == {usual, newer, chart}
TwoNodes == {n1, n2}
TwoKernels == {k1, k2}

Ask(version, replicas) == [version |-> version, replicas |-> replicas]

\* The version is left open, and a GPU is cut in two slices.
Shared == {Ask(Unset, 2)}

\* From there: the version that the base has anyway, the one that the chart has
\* anyway, another version and number of slices, or no slices.
FewSpecs == Shared \union {Ask(usual, 2), Ask(chart, 2), Ask(newer, 4), Ask(newer, Unset)}

\* One node, and another one that may join on either kernel.
Joining == {[n \in Nodes |-> IF n = n1 THEN k1 ELSE NoKernel]}
=============================================================================
