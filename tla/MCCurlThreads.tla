---------------------------- MODULE MCCurlThreads ----------------------------
(* Model-checking instances of CurlThreads. *)
EXTENDS CurlThreads, TLC

CONSTANTS j1, j2, j3

TwoCalls   == {j1, j2}
ThreeCalls == {j1, j2, j3}
NoLimits   == {1}
CallSymmetry == Permutations(Jobs)
=============================================================================
