---------------------------- MODULE HandleStore -----------------------------
(***************************************************************************)
(* What handles are to a plugin: a number names one object from the native *)
(* that made it until the object is destroyed; a number in use is never    *)
(* given out again, and an object is destroyed at most once.               *)
(***************************************************************************)
EXTENDS Naturals, FiniteSets

CONSTANTS Objects, Numbers

VARIABLES
  open,   \* the object each number in use names
  fate    \* what became of each object

vars == <<open, fate>>

Init ==
  /\ open = [n \in {} |-> n]
  /\ fate = [o \in Objects |-> "unmade"]

Make(o) ==
  /\ fate[o] = "unmade"
  /\ fate' = [fate EXCEPT ![o] = "made"]
  /\ \E n \in Numbers \ DOMAIN open :
       open' = [m \in DOMAIN open \cup {n} |-> IF m = n THEN o ELSE open[m]]

Without(numbers) == [m \in DOMAIN open \ numbers |-> open[m]]

Destroy(n) ==
  /\ n \in DOMAIN open
  /\ fate' = [fate EXCEPT ![open[n]] = "destroyed"]
  /\ open' = Without({n})

\* The table is thrown away with what it still names.
Forget == open' = Without(DOMAIN open) /\ UNCHANGED fate

Next ==
  \/ \E o \in Objects : Make(o)
  \/ \E n \in Numbers : Destroy(n)
  \/ Forget

Spec == Init /\ [][Next]_vars
=============================================================================
