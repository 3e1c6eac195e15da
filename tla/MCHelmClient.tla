---------------------------- MODULE MCHelmClient ----------------------------
(* Model values and bounds for checking HelmClient.                         *)
EXTENDS HelmClient

CONSTANTS v1, v2, o1, o2

TwoValues == {v1, v2}
TwoObjects == {o1, o2}
=============================================================================
