---------------------------- MODULE HandleTable -----------------------------
(***************************************************************************)
(* handles.cpp: the table that turns pointers into the numbers plugins     *)
(* hold.  Everything runs on the server's main thread; the two loops are   *)
(* modelled round by round because FreeHandle changes the table they walk. *)
(*                                                                         *)
(* A handle number is one more than the index of its slot.  The sequence   *)
(* g_Handles is indexed from 1, so g_Handles[num] is the slot of handle    *)
(* num; g_FreeHandles holds indices (from 0), the top of the stack first.  *)
(***************************************************************************)
EXTENDS Integers, Sequences, Functions

CONSTANTS
  Objects,    \* what natives make handles for, each once
  NULL,       \* no object
  Types,      \* HandleType
  CurlType,   \* HANDLE_CURL, the type OnPluginsUnloaded frees
  MaxHandles  \* bound on the length of the table

ASSUME ObjectAssumption == NULL \notin Objects
ASSUME TypeAssumption   == CurlType \in Types /\ "unmade" \notin Types
ASSUME BoundAssumption  == MaxHandles \in Nat

VARIABLES
  g_Handles,      \* the slots
  g_FreeHandles,  \* stack of the indices of free slots
  loop,           \* which loop runs: none, FreeAllHandles or FreeHandleTable
  i,              \* its counter
  kind,           \* history: the type an object's handle was made with
  deleted         \* history: how often _func deleted each object

vars  == <<g_Handles, g_FreeHandles, loop, i, kind, deleted>>
table == <<g_Handles, g_FreeHandles, deleted>>

Slot == [_ptr : Objects \cup {NULL}, type : Types, isfree : BOOLEAN]

Init ==
  /\ g_Handles = <<>> /\ g_FreeHandles = <<>>
  /\ loop = "none" /\ i = 0
  /\ kind = [o \in Objects |-> "unmade"] /\ deleted = [o \in Objects |-> 0]

Live(num) == num \in 1..Len(g_Handles) /\ ~g_Handles[num].isfree

GetHandle(num, type) ==
  IF Live(num) /\ g_Handles[num].type = type THEN g_Handles[num]._ptr ELSE NULL

\* Mutant: a reused slot keeps its old type.
MakeHandleOldType(ptr, type) ==
  LET slot == [_ptr |-> ptr, type |-> type, isfree |-> FALSE]
      num  == Head(g_FreeHandles) + 1
  IN  /\ loop = "none" /\ kind[ptr] = "unmade"
      /\ kind' = [kind EXCEPT ![ptr] = type]
      /\ \/ /\ g_FreeHandles # <<>>
            /\ g_Handles' = [g_Handles EXCEPT ![num] = [slot EXCEPT !.type = g_Handles[num].type]]
            /\ g_FreeHandles' = Tail(g_FreeHandles)
         \/ /\ g_FreeHandles = <<>> /\ Len(g_Handles) < MaxHandles
            /\ g_Handles' = Append(g_Handles, slot)
            /\ UNCHANGED g_FreeHandles
      /\ UNCHANGED <<loop, i, deleted>>

\* Mutant: the index stays on the free stack.
MakeHandleNoPop(ptr, type) ==
  LET slot == [_ptr |-> ptr, type |-> type, isfree |-> FALSE]
  IN  /\ loop = "none" /\ kind[ptr] = "unmade"
      /\ kind' = [kind EXCEPT ![ptr] = type]
      /\ \/ /\ g_FreeHandles # <<>>
            /\ g_Handles' = [g_Handles EXCEPT ![Head(g_FreeHandles) + 1] = slot]
         \/ /\ g_FreeHandles = <<>> /\ Len(g_Handles) < MaxHandles
            /\ g_Handles' = Append(g_Handles, slot)
      /\ UNCHANGED <<g_FreeHandles, loop, i, deleted>>

\* The front of the free stack, or a new slot at the end.
MakeHandle(ptr, type) ==
  LET slot == [_ptr |-> ptr, type |-> type, isfree |-> FALSE]
  IN  /\ loop = "none" /\ kind[ptr] = "unmade"
      /\ kind' = [kind EXCEPT ![ptr] = type]
      /\ \/ /\ g_FreeHandles # <<>>
            /\ g_Handles' = [g_Handles EXCEPT ![Head(g_FreeHandles) + 1] = slot]
            /\ g_FreeHandles' = Tail(g_FreeHandles)
         \/ /\ g_FreeHandles = <<>> /\ Len(g_Handles) < MaxHandles
            /\ g_Handles' = Append(g_Handles, slot)
            /\ UNCHANGED g_FreeHandles
      /\ UNCHANGED <<loop, i, deleted>>

Emptied(slot) == [_ptr |-> NULL, type |-> slot.type, isfree |-> TRUE]

\* Mutant: the index is decremented twice.
FreeHandleTwiceLess(num) ==
  \/ /\ Live(num)
     /\ deleted' = [deleted EXCEPT ![g_Handles[num]._ptr] = @ + 1]
     /\ g_Handles' = [g_Handles EXCEPT ![num] = Emptied(@)]
     /\ g_FreeHandles' = <<num - 2>> \o g_FreeHandles
  \/ ~Live(num) /\ UNCHANGED table

\* Mutant: the number is pushed instead of the index.
FreeHandlePushNumber(num) ==
  \/ /\ Live(num)
     /\ deleted' = [deleted EXCEPT ![g_Handles[num]._ptr] = @ + 1]
     /\ g_Handles' = [g_Handles EXCEPT ![num] = Emptied(@)]
     /\ g_FreeHandles' = <<num>> \o g_FreeHandles
  \/ ~Live(num) /\ UNCHANGED table

\* FreeHandle(num): nothing happens to a number that is not in use.
FreeHandle(num) ==
  \/ /\ Live(num)
     /\ deleted' = [deleted EXCEPT ![g_Handles[num]._ptr] = @ + 1]
     /\ g_Handles' = [g_Handles EXCEPT ![num] = Emptied(@)]
     /\ g_FreeHandles' = <<num - 1>> \o g_FreeHandles
  \/ ~Live(num) /\ UNCHANGED table

\* curl_close, curl_destroy_slist, curl_destroy_form: none looks at the type.
Close(num) ==
  /\ loop = "none"
  /\ FreeHandle(num)
  /\ UNCHANGED <<loop, i, kind>>

-----------------------------------------------------------------------------
(* FreeAllHandles(HANDLE_CURL) of OnPluginsUnloaded, FreeHandleTable() of    *)
(* OnAmxxDetach: both look at slot i and call FreeHandle(i).                 *)

LoopBegin(which) ==
  /\ loop = "none"
  /\ loop' = which /\ i' = 0
  /\ UNCHANGED <<table, kind>>

Chosen == Live(i + 1) /\ (loop = "all" => g_Handles[i + 1].type = CurlType)

\* Mutant: every second slot is skipped.
LoopRoundSkips ==
  /\ loop # "none" /\ i < Len(g_Handles)
  /\ i' = IF i + 2 <= Len(g_Handles) THEN i + 2 ELSE i + 1
  /\ \/ Chosen /\ FreeHandle(i)
     \/ ~Chosen /\ UNCHANGED table
  /\ UNCHANGED <<loop, kind>>

LoopRound ==
  /\ loop # "none" /\ i < Len(g_Handles)
  /\ i' = i + 1
  /\ \/ Chosen /\ FreeHandle(i)
     \/ ~Chosen /\ UNCHANGED table
  /\ UNCHANGED <<loop, kind>>

FreeAllEnd ==
  /\ loop = "all" /\ i = Len(g_Handles)
  /\ loop' = "none"
  /\ UNCHANGED <<table, i, kind>>

\* FreeHandleTable() clears both containers.
FreeTableEnd ==
  /\ loop = "table" /\ i = Len(g_Handles)
  /\ loop' = "none"
  /\ g_Handles' = <<>> /\ g_FreeHandles' = <<>>
  /\ UNCHANGED <<i, kind, deleted>>

Next ==
  \/ \E ptr \in Objects, type \in Types : MakeHandle(ptr, type)
  \/ \E num \in 0..(MaxHandles + 1) : Close(num)
  \/ LoopBegin("all") \/ LoopBegin("table")
  \/ LoopRound \/ FreeAllEnd \/ FreeTableEnd

Spec == Init /\ [][Next]_vars

-----------------------------------------------------------------------------
(* Properties *)

TypeOK ==
  /\ g_Handles \in Seq(Slot) /\ g_FreeHandles \in Seq(Nat)
  /\ loop \in {"none", "all", "table"} /\ i \in Nat
  /\ kind \in [Objects -> Types \cup {"unmade"}] /\ deleted \in [Objects -> Nat]

\* The free stack of handles.cpp holds the index of every free slot once and no
\* other: MakeHandle never hands out a slot in use and never loses one.
FreeListExact ==
  /\ IsInjective(g_FreeHandles)
  /\ Range(g_FreeHandles) = {n - 1 : n \in {m \in 1..Len(g_Handles) : g_Handles[m].isfree}}

\* An object is named by one number at most and deleted at most once, and what a
\* number resolves to in GetHandle is alive and of the type it was made with,
\* whatever sequence of makes, closes and loops came before.
ResolvesToLive ==
  /\ \A o \in Objects : deleted[o] <= 1
  /\ \A n, m \in 1..Len(g_Handles) :
       Live(n) /\ Live(m) /\ g_Handles[n]._ptr = g_Handles[m]._ptr => n = m
  /\ \A n \in 1..Len(g_Handles), type \in Types :
       LET o == GetHandle(n, type)
       IN  o # NULL => kind[o] = type /\ deleted[o] = 0

\* FreeAllHandles(type) passes the index i of a slot to FreeHandle, which takes
\* it for the number of the slot before: of two live neighbours whose second has
\* the type, the first is gone when the loop has passed (in FreeHandleTable, of
\* any two live neighbours).
LoopLeavesNoPair ==
  loop # "none" => \A n \in 1..(i - 1) :
    ~ (Live(n) /\ Live(n + 1) /\ (loop = "all" => g_Handles[n + 1].type = CurlType))

Store == INSTANCE HandleStore WITH
  Numbers <- 1..MaxHandles,
  open <- [n \in {m \in 1..Len(g_Handles) : Live(m)} |-> g_Handles[n]._ptr],
  fate <- [o \in Objects |-> IF kind[o] = "unmade" THEN "unmade"
                             ELSE IF deleted[o] = 0 THEN "made" ELSE "destroyed"]

\* To a plugin the table is the abstract store: numbers in use are not given out
\* again, and no round of a loop touches more than one handle (handles.cpp).
KeepsStore == Store!Spec
=============================================================================
