---------------------------- MODULE MCCurlNatives ----------------------------
(* Model-checking instances of CurlNatives. *)
EXTENDS CurlNatives, TLC

CONSTANTS o1, o2, o3, r1, r2

ThreeObjects == {o1, o2, o3}
OneRequest   == {r1}
TwoRequests  == {r1, r2}
CurlAndLists == {"curl", "slist", "form"}
NativeSymmetry == Permutations(Objects) \cup Permutations(Requests)
=============================================================================
