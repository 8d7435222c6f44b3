---------------------------- MODULE MCWriteBuffer ----------------------------
(* Model-checking instances of WriteBuffer. *)
EXTENDS WriteBuffer, TLC

CONSTANTS c1, c2

TwoCurls == {c1, c2}
Lengths  == {1, 3, 4}
NoJunk   == {0}
SomeJunk == {0, 1}
Symmetry == Permutations(TwoCurls)
=============================================================================
