---------------------------- MODULE MCThreadGate -----------------------------
(* Model-checking instances of ThreadGate. *)
EXTENDS ThreadGate

CONSTANTS h1, h2

TwoHandles == {h1, h2}
=============================================================================
