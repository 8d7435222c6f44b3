--------------------------- MODULE MCThreadWorker ---------------------------
(* Model-checking instances of ThreadWorker. *)
EXTENDS ThreadWorker, TLC

CONSTANTS j1, j2, j3

TwoJobs   == {j1, j2}
ThreeJobs == {j1, j2, j3}
Limits    == {1, 2}
JobSymmetry == Permutations(Jobs)
=============================================================================
