------------------------------ MODULE MCFormAdd ------------------------------
(* Model-checking instances of FormAdd. *)
EXTENDS FormAdd

CONSTANTS COPYNAME, COPYCONTENTS, NAMELENGTH, CONTENTHEADER, END, PTRNAME, text,
          MaxArguments

TwoStrings == {COPYNAME, COPYCONTENTS}
OneCell    == {NAMELENGTH}
TwoOthers  == {PTRNAME, text}
ThreeCodes == {"OK", "INCOMPLETE", "ILLEGAL_ARRAY"}
ShortCalls == UNION {[1..n -> Arguments] : n \in 0..MaxArguments}
=============================================================================
