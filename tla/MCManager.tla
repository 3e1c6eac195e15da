------------------------------- MODULE MCManager -------------------------------
(* Model values and bounds for checking Manager.                            *)
EXTENDS Manager

CONSTANTS a, b, c, d, old, new

FourProcs == {a, b, c, d}
TwoImages == {old, new}

Archive(n, v) == [place |-> n, dir |-> FALSE, tgz |-> TRUE, version |-> v]

\* The old image has 26.3.9; the new one 26.3.10 as well, which comes before it by
\* name, a pre-release, a directory, and files that are no charts.
Files == [i \in TwoImages |->
  {Archive(3, <<26, 3, 9, 1>>)} \union
  (IF i = old THEN {}
   ELSE {Archive(1, <<26, 3, 10, 1>>), Archive(2, <<26, 3, 10, 0>>), Archive(4, NotSemver),
         [Archive(5, <<27, 0, 0, 1>>) EXCEPT !.tgz = FALSE],
         [Archive(6, <<27, 0, 0, 1>>) EXCEPT !.dir = TRUE]})]
=============================================================================
