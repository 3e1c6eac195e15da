--------------------------------- MODULE Chart ---------------------------------
(***************************************************************************)
(* Which of the Helm charts compiled into an operator image is installed   *)
(* (internal/chart/embed.go).                                              *)
(*                                                                         *)
(* A file is what the code reads of it: its place in the directory, which  *)
(* is sorted by name, whether it is a directory, whether its name ends in  *)
(* .tgz, and what semver makes of the name without prefix and suffix.  A   *)
(* version is <<major, minor, patch, stage>>, the stage of a release being *)
(* higher than those of its pre-releases.                                  *)
(***************************************************************************)
EXTENDS Integers

CONSTANTS
  NotSemver,  \* a name that semver does not accept
  NoChart     \* the error that there is no chart

Version == Nat \X Nat \X Nat \X Nat

File == [place : Nat, dir : BOOLEAN, tgz : BOOLEAN, version : Version \union {NotSemver}]

ASSUME VersionAssumption == NotSemver \notin Version /\ NoChart \notin Version

\* semver's GreaterThan: the first component that differs decides.
GreaterThan(v, w) == \E i \in 1..4 : v[i] > w[i] /\ \A j \in 1..(i - 1) : v[j] = w[j]

\* The files that latestChartFilename considers.
Charts(files) == {f \in files : ~f.dir /\ f.tgz /\ f.version # NotSemver}

\* Wrong variant: the last file in the order of the names.
LatestChartByName(files) ==
  CHOOSE f \in Charts(files) : \A g \in Charts(files) : g.place <= f.place

\* The first one after sorting, with the highest version first.
LatestChart(files) ==
  CHOOSE f \in Charts(files) : \A g \in Charts(files) : ~GreaterThan(g.version, f.version)

GPUOperatorChartVersion(files) ==
  IF Charts(files) = {} THEN NoChart ELSE LatestChart(files).version

=============================================================================
