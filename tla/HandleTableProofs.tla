-------------------------- MODULE HandleTableProofs --------------------------
(* Proofs about HandleTable, for every set of objects, types and table bound. *)
EXTENDS HandleTable, TLAPS

\* What Append, Tail and a push in front do to the places of a sequence.
LEMMA AppendPlaces ==
  ASSUME NEW S, NEW s \in Seq(S), NEW e \in S
  PROVE  /\ Append(s, e) \in Seq(S)
         /\ Len(s) \in Nat /\ Len(Append(s, e)) = Len(s) + 1
         /\ \A k \in 1..Len(s) : Append(s, e)[k] = s[k]
         /\ Append(s, e)[Len(s) + 1] = e
  OBVIOUS

LEMMA TailPlaces ==
  ASSUME NEW S, NEW s \in Seq(S), s # <<>>
  PROVE  /\ Tail(s) \in Seq(S) /\ Head(s) \in S /\ Head(s) = s[1]
         /\ Len(s) \in Nat /\ Len(s) > 0 /\ Len(Tail(s)) = Len(s) - 1
         /\ \A k \in 1..(Len(s) - 1) : Tail(s)[k] = s[k + 1]
  OBVIOUS

LEMMA PushPlaces ==
  ASSUME NEW S, NEW s \in Seq(S), NEW e \in S
  PROVE  /\ <<e>> \o s \in Seq(S)
         /\ Len(s) \in Nat /\ Len(<<e>> \o s) = Len(s) + 1
         /\ (<<e>> \o s)[1] = e
         /\ \A k \in 1..Len(s) : (<<e>> \o s)[k + 1] = s[k]
  OBVIOUS

-----------------------------------------------------------------------------
(* The inductive invariant *)

Places == 1..Len(g_Handles)

\* A free slot is empty; a slot in use holds an object that is alive and was
\* made with the slot's type.
SlotsMatch ==
  \A n \in Places :
    IF g_Handles[n].isfree
    THEN g_Handles[n]._ptr = NULL
    ELSE /\ g_Handles[n]._ptr \in Objects
         /\ kind[g_Handles[n]._ptr] = g_Handles[n].type
         /\ deleted[g_Handles[n]._ptr] = 0

OneSlotEach ==
  \A n, m \in Places :
    Live(n) /\ Live(m) /\ g_Handles[n]._ptr = g_Handles[m]._ptr => n = m

DeletedOnce ==
  \A o \in Objects : deleted[o] \in {0, 1} /\ (kind[o] = "unmade" => deleted[o] = 0)

\* FreeListExact, place by place.
FreePlaces ==
  /\ \A k \in 1..Len(g_FreeHandles) :
       g_FreeHandles[k] + 1 \in Places /\ g_Handles[g_FreeHandles[k] + 1].isfree
  /\ \A k, l \in 1..Len(g_FreeHandles) : g_FreeHandles[k] = g_FreeHandles[l] => k = l
  /\ \A n \in Places :
       g_Handles[n].isfree => \E k \in 1..Len(g_FreeHandles) : g_FreeHandles[k] = n - 1

InTable == Len(g_Handles) <= MaxHandles /\ (loop # "none" => i <= Len(g_Handles))

IInv == TypeOK /\ SlotsMatch /\ OneSlotEach /\ DeletedOnce /\ FreePlaces /\ InTable /\ LoopLeavesNoPair

-----------------------------------------------------------------------------
(* The two ways the slots change *)

\* MakeHandle: slot num, which was free or did not exist, now holds ptr.
Placed(num, ptr, type) ==
  /\ g_Handles' \in Seq(Slot)
  /\ num \in 1..Len(g_Handles')
  /\ Len(g_Handles) \in Nat /\ Len(g_Handles') \in Nat
  /\ Len(g_Handles) <= Len(g_Handles') /\ Len(g_Handles') <= MaxHandles
  /\ ~Live(num)
  /\ \A n \in 1..Len(g_Handles') : n # num => n \in Places /\ g_Handles'[n] = g_Handles[n]
  /\ g_Handles'[num] = [_ptr |-> ptr, type |-> type, isfree |-> FALSE]

\* FreeHandle: slot num, which was in use, is empty and on top of the stack.
SlotEmptied(num) ==
  /\ Live(num)
  /\ g_Handles' \in Seq(Slot) /\ Len(g_Handles) \in Nat /\ Len(g_Handles') = Len(g_Handles)
  /\ \A n \in Places : n # num => g_Handles'[n] = g_Handles[n]
  /\ g_Handles'[num] = Emptied(g_Handles[num])
  /\ deleted' = [deleted EXCEPT ![g_Handles[num]._ptr] = @ + 1]
  /\ g_FreeHandles' = <<num - 1>> \o g_FreeHandles

LEMMA MakePlaces ==
  ASSUME IInv, NEW ptr \in Objects, NEW type \in Types, MakeHandle(ptr, type)
  PROVE  \/ /\ g_FreeHandles # <<>>
            /\ Placed(Head(g_FreeHandles) + 1, ptr, type)
            /\ g_FreeHandles' = Tail(g_FreeHandles) /\ Len(g_Handles') = Len(g_Handles)
         \/ /\ g_FreeHandles = <<>>
            /\ Placed(Len(g_Handles) + 1, ptr, type)
            /\ UNCHANGED g_FreeHandles
<1> DEFINE slot == [_ptr |-> ptr, type |-> type, isfree |-> FALSE]
<1>1. slot \in Slot /\ g_Handles \in Seq(Slot) /\ Len(g_Handles) \in Nat
  BY DEF IInv, TypeOK, Slot
<1>2. CASE g_FreeHandles # <<>>
  <2> DEFINE num == Head(g_FreeHandles) + 1
  <2>1. Head(g_FreeHandles) = g_FreeHandles[1] /\ 1 \in 1..Len(g_FreeHandles)
    BY <1>2, TailPlaces DEF IInv, TypeOK
  <2>2. num \in Places /\ g_Handles[num].isfree
    BY <2>1 DEF IInv, FreePlaces
  <2>3. g_Handles' = [g_Handles EXCEPT ![num] = slot] /\ g_FreeHandles' = Tail(g_FreeHandles)
    BY <1>2 DEF MakeHandle
  <2> HIDE DEF slot
  <2>4. /\ g_Handles' \in Seq(Slot) /\ Len(g_Handles') = Len(g_Handles)
        /\ \A n \in Places : n # num => g_Handles'[n] = g_Handles[n]
        /\ g_Handles'[num] = slot
    BY <1>1, <2>2, <2>3 DEF Places
  <2>5. Len(g_Handles) <= MaxHandles /\ ~Live(num)
    BY <2>2 DEF IInv, InTable, Live
  <2> QED BY <1>1, <1>2, <2>2, <2>3, <2>4, <2>5 DEF Placed, Places, slot
<1>3. CASE g_FreeHandles = <<>>
  <2>1. g_Handles' = Append(g_Handles, slot) /\ UNCHANGED g_FreeHandles
        /\ Len(g_Handles) < MaxHandles
    BY <1>3 DEF MakeHandle
  <2> QED BY <1>1, <1>3, <2>1, AppendPlaces, BoundAssumption DEF Placed, Places, Live
<1> QED BY <1>2, <1>3

LEMMA FreePlacesChange ==
  ASSUME IInv, NEW num \in Nat, FreeHandle(num), Live(num)
  PROVE  SlotEmptied(num)
<1>1. g_Handles \in Seq(Slot) /\ num \in 1..Len(g_Handles) /\ g_Handles[num] \in Slot
  BY DEF IInv, TypeOK, Live
<1> DEFINE slot == Emptied(g_Handles[num])
<1>2. /\ g_Handles' = [g_Handles EXCEPT ![num] = slot]
      /\ deleted' = [deleted EXCEPT ![g_Handles[num]._ptr] = @ + 1]
      /\ g_FreeHandles' = <<num - 1>> \o g_FreeHandles
  BY DEF FreeHandle
<1>3. slot \in Slot
  BY <1>1 DEF Slot, Emptied
<1> HIDE DEF slot
<1>4. /\ g_Handles' \in Seq(Slot) /\ Len(g_Handles) \in Nat /\ Len(g_Handles') = Len(g_Handles)
      /\ \A n \in Places : n # num => g_Handles'[n] = g_Handles[n]
      /\ g_Handles'[num] = slot
  BY <1>1, <1>2, <1>3 DEF Places
<1> QED BY <1>2, <1>4 DEF SlotEmptied, slot

-----------------------------------------------------------------------------
(* What the two changes keep *)

LEMMA FreeHandleCases ==
  ASSUME IInv, NEW num \in Nat, FreeHandle(num)
  PROVE  (Live(num) /\ SlotEmptied(num)) \/ (~Live(num) /\ UNCHANGED table)
<1>1. CASE Live(num) BY <1>1, FreePlacesChange
<1>2. CASE ~Live(num) BY <1>2 DEF FreeHandle
<1> QED BY <1>1, <1>2

\* MakeHandle keeps the invariant.
LEMMA MakeKeeps ==
  ASSUME IInv, NEW ptr \in Objects, NEW type \in Types, MakeHandle(ptr, type)
  PROVE  IInv'
<1> DEFINE slot == [_ptr |-> ptr, type |-> type, isfree |-> FALSE]
<1>1. /\ loop = "none" /\ loop' = loop /\ i' = i /\ deleted' = deleted
      /\ kind[ptr] = "unmade" /\ kind' = [kind EXCEPT ![ptr] = type]
  BY DEF MakeHandle
<1>2. PICK num : /\ Placed(num, ptr, type)
                 /\ \/ /\ g_FreeHandles # <<>> /\ num = Head(g_FreeHandles) + 1
                       /\ g_FreeHandles' = Tail(g_FreeHandles)
                       /\ Len(g_Handles') = Len(g_Handles)
                    \/ /\ g_FreeHandles = <<>> /\ num = Len(g_Handles) + 1
                       /\ UNCHANGED g_FreeHandles
  BY MakePlaces
<1>3. num \in Places' /\ g_Handles'[num] = slot
  BY <1>2 DEF Placed, Places
<1>4. \A n \in Places' : n # num => n \in Places /\ g_Handles'[n] = g_Handles[n]
  BY <1>2 DEF Placed, Places
<1>5. ASSUME NEW n \in Places, ~g_Handles[n].isfree PROVE g_Handles[n]._ptr # ptr
  <2>1. g_Handles[n] \in Slot
    BY DEF IInv, TypeOK, Places
  <2>2. g_Handles[n].type \in Types
    BY <2>1 DEF Slot
  <2>3. kind[g_Handles[n]._ptr] = g_Handles[n].type
    BY <1>5 DEF IInv, SlotsMatch
  <2> QED BY <2>2, <2>3, <1>1, TypeAssumption
<1>6. TypeOK'
  <2>1. g_FreeHandles' \in Seq(Nat)
    BY <1>2, TailPlaces DEF IInv, TypeOK
  <2> QED BY <1>1, <1>2, <2>1 DEF IInv, TypeOK, Placed
<1>7. SlotsMatch'
  <2> SUFFICES ASSUME NEW n \in Places'
               PROVE IF g_Handles'[n].isfree THEN g_Handles'[n]._ptr = NULL
                     ELSE /\ g_Handles'[n]._ptr \in Objects
                          /\ kind'[g_Handles'[n]._ptr] = g_Handles'[n].type
                          /\ deleted'[g_Handles'[n]._ptr] = 0
    BY DEF SlotsMatch
  <2>1. CASE n = num
    BY <2>1, <1>1, <1>3 DEF IInv, DeletedOnce, TypeOK
  <2>2. CASE n # num
    <3>1. n \in Places /\ g_Handles'[n] = g_Handles[n] BY <2>2, <1>4
    <3> QED BY <3>1, <1>1, <1>5 DEF IInv, SlotsMatch, TypeOK
  <2> QED BY <2>1, <2>2
<1>8. OneSlotEach'
  BY <1>3, <1>4, <1>5 DEF IInv, OneSlotEach, Live, Places
<1>9. DeletedOnce'
  BY <1>1, TypeAssumption DEF IInv, DeletedOnce, TypeOK
<1>10. FreePlaces'
  <2>1. CASE g_FreeHandles # <<>>
    <3>1. num = g_FreeHandles[1] + 1 /\ g_FreeHandles' = Tail(g_FreeHandles)
          /\ Places' = Places
      BY <2>1, <1>2, TailPlaces DEF IInv, TypeOK, Places
    <3>2. /\ Len(g_FreeHandles) \in Nat /\ Len(g_FreeHandles') = Len(g_FreeHandles) - 1
          /\ Len(g_FreeHandles) > 0
          /\ \A k \in 1..Len(g_FreeHandles') : g_FreeHandles'[k] = g_FreeHandles[k + 1]
      BY <2>1, <3>1, TailPlaces DEF IInv, TypeOK
    <3>3. \A k \in 1..Len(g_FreeHandles) : g_FreeHandles[k] \in Nat
      BY DEF IInv, TypeOK
    <3>4. ASSUME NEW k \in 1..Len(g_FreeHandles')
          PROVE  g_FreeHandles'[k] + 1 \in Places' /\ g_Handles'[g_FreeHandles'[k] + 1].isfree
      <4>1. /\ k + 1 \in 1..Len(g_FreeHandles) /\ 1 \in 1..Len(g_FreeHandles)
            /\ k + 1 # 1 /\ g_FreeHandles'[k] = g_FreeHandles[k + 1]
        BY <3>2
      <4>2. g_FreeHandles[k + 1] # g_FreeHandles[1]
        BY <4>1 DEF IInv, FreePlaces
      <4>3. g_FreeHandles[k + 1] + 1 # num
        BY <4>1, <4>2, <3>1, <3>3
      <4> QED BY <4>1, <4>3, <3>1, <1>4 DEF IInv, FreePlaces
    <3>5. ASSUME NEW k \in 1..Len(g_FreeHandles'), NEW l \in 1..Len(g_FreeHandles'),
                 g_FreeHandles'[k] = g_FreeHandles'[l]
          PROVE  k = l
      <4>1. /\ k + 1 \in 1..Len(g_FreeHandles) /\ l + 1 \in 1..Len(g_FreeHandles)
            /\ g_FreeHandles[k + 1] = g_FreeHandles[l + 1]
        BY <3>2, <3>5
      <4>2. k + 1 = l + 1
        BY <4>1 DEF IInv, FreePlaces
      <4> QED BY <4>2
    <3>6. ASSUME NEW n \in Places', g_Handles'[n].isfree
          PROVE  \E k \in 1..Len(g_FreeHandles') : g_FreeHandles'[k] = n - 1
      <4>1. n # num BY <1>3, <3>6
      <4>2. n \in Places /\ g_Handles[n].isfree BY <4>1, <1>4, <3>6
      <4>3. PICK k \in 1..Len(g_FreeHandles) : g_FreeHandles[k] = n - 1
        BY <4>2 DEF IInv, FreePlaces
      <4>4. k # 1 BY <4>1, <4>3, <3>1, <4>2 DEF Places
      <4>5. k - 1 \in 1..Len(g_FreeHandles') /\ g_FreeHandles'[k - 1] = n - 1
        BY <4>3, <4>4, <3>2
      <4> QED BY <4>5
    <3> QED BY <3>4, <3>5, <3>6 DEF FreePlaces
  <2>2. CASE g_FreeHandles = <<>>
    <3>1. UNCHANGED g_FreeHandles /\ Len(g_FreeHandles) = 0 BY <2>2, <1>2
    <3>2. ASSUME NEW n \in Places PROVE ~g_Handles[n].isfree
      BY <3>1 DEF IInv, FreePlaces
    <3>3. ASSUME NEW n \in Places' PROVE ~g_Handles'[n].isfree
      BY <3>2, <1>3, <1>4
    <3> QED BY <3>1, <3>3 DEF FreePlaces
  <2> QED BY <2>1, <2>2
<1>11. InTable' /\ LoopLeavesNoPair'
  BY <1>1, <1>2 DEF InTable, LoopLeavesNoPair, Placed
<1> QED BY <1>6, <1>7, <1>8, <1>9, <1>10, <1>11 DEF IInv

\* FreeHandle keeps the parts of the invariant that do not speak of the loops,
\* and puts no handle in use.
LEMMA FreeKeeps ==
  ASSUME IInv, NEW num \in Nat, FreeHandle(num), UNCHANGED kind,
         loop' \in {"none", "all", "table"}, i' \in Nat
  PROVE  /\ TypeOK' /\ SlotsMatch' /\ OneSlotEach' /\ DeletedOnce' /\ FreePlaces'
         /\ Len(g_Handles) \in Nat /\ Len(g_Handles') = Len(g_Handles)
         /\ \A n \in Places : /\ g_Handles'[n].type = g_Handles[n].type
                              /\ Live(n)' => Live(n)
         /\ num \in Places => ~Live(num)'
<1> DEFINE Goal == /\ TypeOK' /\ SlotsMatch' /\ OneSlotEach' /\ DeletedOnce' /\ FreePlaces'
                   /\ Len(g_Handles) \in Nat /\ Len(g_Handles') = Len(g_Handles)
                   /\ \A n \in Places : /\ g_Handles'[n].type = g_Handles[n].type
                                        /\ Live(n)' => Live(n)
                   /\ num \in Places => ~Live(num)'
<1>1. CASE ~Live(num) /\ UNCHANGED table
  <2>1. TypeOK' /\ Len(g_Handles) \in Nat
    BY <1>1 DEF IInv, TypeOK, table
  <2> QED BY <1>1, <2>1 DEF IInv, SlotsMatch, OneSlotEach, DeletedOnce, FreePlaces, table, Places, Live
<1>2. CASE Live(num) /\ SlotEmptied(num)
  <2> DEFINE gone == g_Handles[num]._ptr
  <2>1. /\ num \in Places /\ Places' = Places /\ ~g_Handles[num].isfree
        /\ g_Handles \in Seq(Slot) /\ Len(g_Handles) \in Nat
    BY <1>2 DEF SlotEmptied, Places, Live, IInv, TypeOK
  <2>2. \A n \in Places : n # num => g_Handles'[n] = g_Handles[n]
    BY <1>2 DEF SlotEmptied
  <2>3. g_Handles'[num] = Emptied(g_Handles[num])
    BY <1>2 DEF SlotEmptied
  <2>4. g_Handles'[num].isfree /\ g_Handles'[num]._ptr = NULL
        /\ g_Handles'[num].type = g_Handles[num].type
    BY <2>3 DEF Emptied
  <2>5. gone \in Objects /\ deleted[gone] = 0 /\ kind[gone] = g_Handles[num].type
        /\ g_Handles[num].type \in Types
    <3>1. g_Handles[num] \in Slot BY <2>1 DEF Places
    <3> QED BY <2>1, <3>1 DEF IInv, SlotsMatch, Slot
  <2>6. deleted' = [deleted EXCEPT ![gone] = @ + 1] /\ deleted \in [Objects -> Nat]
    BY <1>2 DEF SlotEmptied, IInv, TypeOK
  <2>7. \A o \in Objects : deleted'[o] = IF o = gone THEN 1 ELSE deleted[o]
    BY <2>5, <2>6
  <2>8. g_FreeHandles' = <<num - 1>> \o g_FreeHandles /\ g_FreeHandles \in Seq(Nat)
        /\ num - 1 \in Nat
    BY <1>2, <2>1 DEF SlotEmptied, IInv, TypeOK, Places
  <2>9. /\ g_FreeHandles' \in Seq(Nat)
        /\ Len(g_FreeHandles) \in Nat /\ Len(g_FreeHandles') = Len(g_FreeHandles) + 1
        /\ g_FreeHandles'[1] = num - 1
        /\ \A k \in 1..Len(g_FreeHandles) : g_FreeHandles'[k + 1] = g_FreeHandles[k]
    BY <2>8, PushPlaces
  <2>10. TypeOK'
    BY <1>2, <2>5, <2>6, <2>9 DEF IInv, TypeOK, SlotEmptied
  <2>11. \A n \in Places : /\ g_Handles'[n].type = g_Handles[n].type
                           /\ Live(n)' => (Live(n) /\ n # num)
    BY <2>1, <2>2, <2>4 DEF Live, Places
  <2>12. SlotsMatch'
    <3> SUFFICES ASSUME NEW n \in Places
                 PROVE IF g_Handles'[n].isfree THEN g_Handles'[n]._ptr = NULL
                       ELSE /\ g_Handles'[n]._ptr \in Objects
                            /\ kind'[g_Handles'[n]._ptr] = g_Handles'[n].type
                            /\ deleted'[g_Handles'[n]._ptr] = 0
      BY <2>1 DEF SlotsMatch
    <3>1. CASE n = num BY <3>1, <2>4
    <3>2. CASE n # num /\ g_Handles[n].isfree
      BY <3>2, <2>2 DEF IInv, SlotsMatch
    <3>3. CASE n # num /\ ~g_Handles[n].isfree
      <4>1. g_Handles'[n] = g_Handles[n] BY <3>3, <2>2
      <4>2. g_Handles[n]._ptr # gone
        BY <3>3, <2>1 DEF IInv, OneSlotEach, Live, Places
      <4> QED BY <3>3, <4>1, <4>2, <2>7 DEF IInv, SlotsMatch
    <3> QED BY <3>1, <3>2, <3>3
  <2>13. OneSlotEach'
    BY <2>1, <2>2, <2>11 DEF IInv, OneSlotEach
  <2>14. DeletedOnce'
    BY <2>5, <2>7, TypeAssumption DEF IInv, DeletedOnce
  <2>15. FreePlaces'
    <3>1. \A k \in 1..Len(g_FreeHandles) :
            /\ g_FreeHandles[k] \in Nat
            /\ g_FreeHandles[k] + 1 \in Places /\ g_Handles[g_FreeHandles[k] + 1].isfree
      BY <2>8 DEF IInv, FreePlaces
    <3>2. ASSUME NEW k \in 1..Len(g_FreeHandles')
          PROVE  k = 1 \/ (k - 1 \in 1..Len(g_FreeHandles) /\ g_FreeHandles'[k] = g_FreeHandles[k - 1])
      <4>1. k = 1 \/ (k - 1 \in 1..Len(g_FreeHandles) /\ (k - 1) + 1 = k) BY <2>9
      <4> QED BY <4>1, <2>9
    <3>3. ASSUME NEW k \in 1..Len(g_FreeHandles')
          PROVE  g_FreeHandles'[k] + 1 \in Places' /\ g_Handles'[g_FreeHandles'[k] + 1].isfree
      <4>1. CASE k = 1
        BY <4>1, <2>1, <2>4, <2>9 DEF Places
      <4>2. CASE k # 1
        <5>1. k - 1 \in 1..Len(g_FreeHandles) /\ g_FreeHandles'[k] = g_FreeHandles[k - 1]
          BY <4>2, <3>2
        <5> QED BY <5>1, <3>1, <2>1, <2>2
      <4> QED BY <4>1, <4>2
    <3>4. ASSUME NEW k \in 1..Len(g_FreeHandles) PROVE g_FreeHandles[k] # num - 1
      <4>1. g_FreeHandles[k] + 1 # num BY <3>1, <2>1
      <4> QED BY <4>1, <2>1, <3>1 DEF Places
    <3>5. ASSUME NEW k \in 1..Len(g_FreeHandles'), NEW l \in 1..Len(g_FreeHandles'),
                 g_FreeHandles'[k] = g_FreeHandles'[l]
          PROVE  k = l
      <4>1. CASE k = 1 BY <4>1, <3>2, <3>4, <3>5, <2>9
      <4>2. CASE l = 1 BY <4>2, <3>2, <3>4, <3>5, <2>9
      <4>3. CASE k # 1 /\ l # 1
        <5>1. /\ k - 1 \in 1..Len(g_FreeHandles) /\ l - 1 \in 1..Len(g_FreeHandles)
              /\ g_FreeHandles[k - 1] = g_FreeHandles[l - 1]
          BY <4>3, <3>2, <3>5
        <5>2. k - 1 = l - 1 BY <5>1 DEF IInv, FreePlaces
        <5> QED BY <5>2
      <4> QED BY <4>1, <4>2, <4>3
    <3>6. ASSUME NEW n \in Places', g_Handles'[n].isfree
          PROVE  \E k \in 1..Len(g_FreeHandles') : g_FreeHandles'[k] = n - 1
      <4>1. CASE n = num BY <4>1, <2>9
      <4>2. CASE n # num
        <5>1. n \in Places /\ g_Handles[n].isfree BY <4>2, <3>6, <2>1, <2>2
        <5>2. PICK k \in 1..Len(g_FreeHandles) : g_FreeHandles[k] = n - 1
          BY <5>1 DEF IInv, FreePlaces
        <5>3. k + 1 \in 1..Len(g_FreeHandles') /\ g_FreeHandles'[k + 1] = n - 1
          BY <5>2, <2>9
        <5> QED BY <5>3
      <4> QED BY <4>1, <4>2
    <3> QED BY <3>3, <3>5, <3>6 DEF FreePlaces
  <2>16. ~Live(num)' BY <2>4 DEF Live
  <2> QED BY <1>2, <2>1, <2>10, <2>11, <2>12, <2>13, <2>14, <2>15, <2>16 DEF SlotEmptied
<1> QED BY <1>1, <1>2, FreeHandleCases

LEMMA CloseKeeps ==
  ASSUME IInv, NEW num \in Nat, Close(num)
  PROVE  IInv'
<1>1. FreeHandle(num) /\ UNCHANGED <<loop, i, kind>> /\ loop = "none"
  BY DEF Close
<1>2. loop' \in {"none", "all", "table"} /\ i' \in Nat
  BY <1>1 DEF IInv, TypeOK
<1>3. InTable' /\ LoopLeavesNoPair'
  BY <1>1, <1>2, FreeKeeps DEF IInv, InTable, LoopLeavesNoPair
<1> QED BY <1>1, <1>2, <1>3, FreeKeeps DEF IInv

\* One round of FreeAllHandles or FreeHandleTable keeps the invariant: where the
\* handle that was looked at is chosen, its predecessor is gone.
LEMMA RoundKeeps ==
  ASSUME IInv, LoopRound
  PROVE  IInv'
<1>1. /\ loop # "none" /\ i < Len(g_Handles) /\ i' = i + 1 /\ i \in Nat
      /\ UNCHANGED <<loop, kind>> /\ loop' \in {"none", "all", "table"} /\ i' \in Nat
      /\ Len(g_Handles) \in Nat
  BY DEF LoopRound, IInv, TypeOK
<1>2. CASE Chosen /\ FreeHandle(i)
  <2> PICK num \in Nat : num = i BY <1>1
  <2>1. /\ TypeOK' /\ SlotsMatch' /\ OneSlotEach' /\ DeletedOnce' /\ FreePlaces'
        /\ Len(g_Handles') = Len(g_Handles)
        /\ \A n \in Places : /\ g_Handles'[n].type = g_Handles[n].type
                             /\ Live(n)' => Live(n)
        /\ num \in Places => ~Live(num)'
    BY <1>1, <1>2, FreeKeeps
  <2>2. InTable' BY <1>1, <2>1 DEF IInv, InTable
  <2>3. ASSUME NEW n \in 1..(i' - 1),
               Live(n)', Live(n + 1)', loop = "all" => g_Handles'[n + 1].type = CurlType
        PROVE  FALSE
    <3>1. n \in Places /\ n + 1 \in Places /\ n \in 1..i /\ i \in Nat
      BY <1>1 DEF Places
    <3>2. n # num BY <2>1, <2>3, <3>1
    <3>3. n \in 1..(i - 1) BY <3>1, <3>2
    <3>4. Live(n) /\ Live(n + 1) /\ (loop = "all" => g_Handles[n + 1].type = CurlType)
      BY <2>1, <2>3, <3>1
    <3> QED BY <3>3, <3>4, <1>1 DEF IInv, LoopLeavesNoPair
  <2>4. LoopLeavesNoPair' BY <2>3, <1>1 DEF LoopLeavesNoPair
  <2> QED BY <2>1, <2>2, <2>4 DEF IInv
<1>3. CASE ~Chosen /\ UNCHANGED table
  <2>1. TypeOK' /\ SlotsMatch' /\ OneSlotEach' /\ DeletedOnce' /\ FreePlaces' /\ InTable'
    BY <1>1, <1>3 DEF IInv, TypeOK, SlotsMatch, OneSlotEach, DeletedOnce, FreePlaces, InTable,
                      table, Places, Live
  <2>2. ASSUME NEW n \in 1..(i' - 1),
               Live(n)', Live(n + 1)', loop = "all" => g_Handles'[n + 1].type = CurlType
        PROVE  FALSE
    <3>1. g_Handles' = g_Handles BY <1>3 DEF table
    <3>2. Live(n) /\ Live(n + 1) /\ (loop = "all" => g_Handles[n + 1].type = CurlType)
      BY <2>2, <3>1 DEF Live
    <3>3. n # i BY <3>2, <1>3 DEF Chosen
    <3>4. n \in 1..(i - 1) BY <3>3, <1>1
    <3> QED BY <3>2, <3>4, <1>1 DEF IInv, LoopLeavesNoPair
  <2>3. LoopLeavesNoPair' BY <2>2, <1>1 DEF LoopLeavesNoPair
  <2> QED BY <2>1, <2>3 DEF IInv
<1> QED BY <1>2, <1>3 DEF LoopRound

LEMMA BeginEndKeeps ==
  ASSUME IInv, (\E which \in {"all", "table"} : LoopBegin(which)) \/ FreeAllEnd \/ FreeTableEnd
  PROVE  IInv'
<1>1. CASE \E which \in {"all", "table"} : LoopBegin(which)
  BY <1>1 DEF LoopBegin, IInv, TypeOK, SlotsMatch, OneSlotEach, DeletedOnce, FreePlaces, InTable,
              LoopLeavesNoPair, table, Places, Live
<1>2. CASE FreeAllEnd
  BY <1>2 DEF FreeAllEnd, IInv, TypeOK, SlotsMatch, OneSlotEach, DeletedOnce, FreePlaces, InTable,
              LoopLeavesNoPair, table, Places, Live
<1>3. CASE FreeTableEnd
  <2>1. /\ g_Handles' = <<>> /\ g_FreeHandles' = <<>> /\ loop' = "none"
        /\ Len(g_Handles') = 0 /\ Len(g_FreeHandles') = 0
        /\ UNCHANGED <<i, kind, deleted>>
    BY <1>3 DEF FreeTableEnd
  <2>2. Places' = {} BY <2>1 DEF Places
  <2>3. TypeOK' BY <2>1 DEF IInv, TypeOK
  <2>4. FreePlaces' BY <2>1, <2>2 DEF FreePlaces
  <2> QED BY <2>1, <2>2, <2>3, <2>4, BoundAssumption
          DEF IInv, SlotsMatch, OneSlotEach, DeletedOnce, InTable, LoopLeavesNoPair
<1> QED BY <1>1, <1>2, <1>3

LEMMA InvStep == IInv /\ [Next]_vars => IInv'
<1> SUFFICES ASSUME IInv, [Next]_vars PROVE IInv'
  OBVIOUS
<1>1. ASSUME NEW ptr \in Objects, NEW type \in Types, MakeHandle(ptr, type) PROVE IInv'
  BY <1>1, MakeKeeps
<1>2. ASSUME NEW num \in 0..(MaxHandles + 1), Close(num) PROVE IInv'
  BY <1>2, CloseKeeps, BoundAssumption
<1>3. CASE LoopBegin("all") \/ LoopBegin("table") \/ FreeAllEnd \/ FreeTableEnd
  BY <1>3, BeginEndKeeps
<1>4. CASE LoopRound BY <1>4, RoundKeeps
<1>5. CASE UNCHANGED vars
  BY <1>5 DEF vars, IInv, TypeOK, SlotsMatch, OneSlotEach, DeletedOnce, FreePlaces, InTable,
              LoopLeavesNoPair, Places, Live
<1> QED BY <1>1, <1>2, <1>3, <1>4, <1>5 DEF Next

LEMMA InvInit == Init => IInv
<1> SUFFICES ASSUME Init PROVE IInv
  OBVIOUS
<1>1. Len(g_Handles) = 0 /\ Len(g_FreeHandles) = 0 /\ Places = {}
  BY DEF Init, Places
<1> QED BY <1>1, BoundAssumption DEF Init, IInv, TypeOK, SlotsMatch, OneSlotEach, DeletedOnce,
           FreePlaces, InTable, LoopLeavesNoPair

-----------------------------------------------------------------------------
(* What holds in every reachable state *)

\* Whatever natives make and close, whatever loops run (handles.cpp): the
\* strengthened invariant of the table holds.
THEOREM Inductive == Spec => []IInv
<1> QED BY InvInit, InvStep, PTL DEF Spec

\* The variables of the table keep their types.
THEOREM TypeCorrect == Spec => []TypeOK
<1>1. IInv => TypeOK BY DEF IInv
<1> QED BY <1>1, Inductive, PTL

\* MakeHandle never hands out a slot in use, and every free slot is on the free
\* stack once (handles.cpp).
THEOREM FreeListCorrect == Spec => []FreeListExact
<1>1. IInv => FreeListExact
  <2> SUFFICES ASSUME IInv PROVE FreeListExact
    OBVIOUS
  <2>1. /\ DOMAIN g_FreeHandles = 1..Len(g_FreeHandles)
        /\ \A k \in 1..Len(g_FreeHandles) : g_FreeHandles[k] \in Nat
        /\ Len(g_Handles) \in Nat
    BY DEF IInv, TypeOK
  <2>2. IsInjective(g_FreeHandles)
    BY <2>1 DEF IsInjective, IInv, FreePlaces
  <2> DEFINE free == {n - 1 : n \in {m \in 1..Len(g_Handles) : g_Handles[m].isfree}}
  <2>3. ASSUME NEW x \in Range(g_FreeHandles) PROVE x \in free
    <3>1. PICK k \in 1..Len(g_FreeHandles) : x = g_FreeHandles[k] BY <2>1 DEF Range
    <3>2. x \in Nat /\ x + 1 \in 1..Len(g_Handles) /\ g_Handles[x + 1].isfree
      BY <3>1, <2>1 DEF IInv, FreePlaces, Places
    <3>3. x = (x + 1) - 1 BY <3>2
    <3> QED BY <3>2, <3>3
  <2>4. ASSUME NEW x \in free PROVE x \in Range(g_FreeHandles)
    <3>1. PICK n \in Places : g_Handles[n].isfree /\ x = n - 1 BY DEF Places
    <3>2. PICK k \in 1..Len(g_FreeHandles) : g_FreeHandles[k] = n - 1
      BY <3>1 DEF IInv, FreePlaces
    <3> QED BY <3>1, <3>2, <2>1 DEF Range
  <2> QED BY <2>2, <2>3, <2>4 DEF FreeListExact
<1> QED BY <1>1, Inductive, PTL

\* What a number resolves to in GetHandle is alive and of the type it was made
\* with; no object is deleted twice (handles.cpp).
THEOREM ResolvesCorrect == Spec => []ResolvesToLive
<1>1. IInv => ResolvesToLive
  <2> SUFFICES ASSUME IInv PROVE ResolvesToLive
    OBVIOUS
  <2>1. \A o \in Objects : deleted[o] <= 1
    BY DEF IInv, DeletedOnce
  <2>2. ASSUME NEW n \in 1..Len(g_Handles), NEW type \in Types, GetHandle(n, type) # NULL
        PROVE  kind[GetHandle(n, type)] = type /\ deleted[GetHandle(n, type)] = 0
    BY <2>2 DEF GetHandle, Live, IInv, SlotsMatch, Places
  <2> QED BY <2>1, <2>2 DEF ResolvesToLive, IInv, OneSlotEach, Places
<1> QED BY <1>1, Inductive, PTL

\* FreeAllHandles and FreeHandleTable leave no two live neighbours whose second
\* they look for, because they free the predecessor of what they look at.
THEOREM LoopCorrect == Spec => []LoopLeavesNoPair
<1>1. IInv => LoopLeavesNoPair BY DEF IInv
<1> QED BY <1>1, Inductive, PTL

-----------------------------------------------------------------------------
(* The table implements the abstract store *)

NamedBy == [n \in {m \in Places : Live(m)} |-> g_Handles[n]._ptr]
FateOf  == [o \in Objects |-> IF kind[o] = "unmade" THEN "unmade"
                              ELSE IF deleted[o] = 0 THEN "made" ELSE "destroyed"]

LEMMA MakeImplements ==
  ASSUME IInv, NEW ptr \in Objects, NEW type \in Types, MakeHandle(ptr, type)
  PROVE  Store!Make(ptr)
<1>1. /\ deleted' = deleted
      /\ kind[ptr] = "unmade" /\ kind' = [kind EXCEPT ![ptr] = type]
      /\ kind \in [Objects -> Types \cup {"unmade"}]
  BY DEF MakeHandle, IInv, TypeOK
<1>2. PICK num : Placed(num, ptr, type)
  BY MakePlaces
<1>3. /\ num \in Places' /\ num \in 1..MaxHandles /\ ~Live(num) /\ Live(num)'
      /\ g_Handles'[num]._ptr = ptr
  BY <1>2, BoundAssumption DEF Placed, Places, Live
<1>4. \A n : n # num =>
        (n \in Places' /\ Live(n)' <=> n \in Places /\ Live(n))
  <2> SUFFICES ASSUME NEW n, n # num
               PROVE n \in Places' /\ Live(n)' <=> n \in Places /\ Live(n)
    OBVIOUS
  <2>1. n \in Places => n \in Places'
    BY <1>2 DEF Placed, Places
  <2> QED BY <2>1, <1>2 DEF Placed, Places, Live
<1>5. {m \in Places' : Live(m)'} = {m \in Places : Live(m)} \cup {num}
  BY <1>3, <1>4
<1>6. \A n \in {m \in Places' : Live(m)'} :
        g_Handles'[n]._ptr = IF n = num THEN ptr ELSE NamedBy[n]
  BY <1>2, <1>3, <1>4 DEF Placed, Places, NamedBy
<1>7. NamedBy' = [m \in (DOMAIN NamedBy) \cup {num} |-> IF m = num THEN ptr ELSE NamedBy[m]]
  BY <1>5, <1>6 DEF NamedBy
<1>8. num \in (1..MaxHandles) \ DOMAIN NamedBy
  BY <1>3 DEF NamedBy
<1>9. /\ FateOf[ptr] = "unmade"
      /\ FateOf' = [FateOf EXCEPT ![ptr] = "made"]
  BY <1>1, TypeAssumption DEF FateOf, IInv, DeletedOnce
<1> QED BY <1>7, <1>8, <1>9 DEF Store!Make, NamedBy, FateOf, Places

LEMMA FreeImplements ==
  ASSUME IInv, NEW num \in Nat, FreeHandle(num), UNCHANGED kind
  PROVE  (num \in 1..MaxHandles /\ Store!Destroy(num)) \/ UNCHANGED <<NamedBy, FateOf>>
<1>1. CASE ~Live(num) /\ UNCHANGED table
  BY <1>1 DEF NamedBy, FateOf, table, Places, Live
<1>2. CASE Live(num) /\ SlotEmptied(num)
  <2> DEFINE gone == g_Handles[num]._ptr
  <2>1. /\ num \in Places /\ Places' = Places /\ ~g_Handles[num].isfree
        /\ num \in 1..MaxHandles /\ Len(g_Handles) \in Nat
    BY <1>2, BoundAssumption DEF SlotEmptied, Places, Live, IInv, TypeOK, InTable
  <2>2. gone \in Objects /\ deleted[gone] = 0 /\ kind[gone] # "unmade"
    <3>1. g_Handles[num] \in Slot BY <2>1 DEF IInv, TypeOK, Places
    <3> QED BY <2>1, <3>1, TypeAssumption DEF IInv, SlotsMatch, Slot
  <2>3. \A n \in Places : (n # num => g_Handles'[n] = g_Handles[n]) /\ g_Handles'[num].isfree
    BY <1>2 DEF SlotEmptied, Emptied
  <2>4. {m \in Places' : Live(m)'} = {m \in Places : Live(m)} \ {num}
    BY <2>1, <2>3 DEF Live, Places
  <2>5. NamedBy' = [m \in (DOMAIN NamedBy) \ {num} |-> NamedBy[m]]
    BY <2>1, <2>3, <2>4 DEF NamedBy
  <2>6. num \in DOMAIN NamedBy /\ NamedBy[num] = gone
    BY <1>2, <2>1 DEF NamedBy
  <2>7. deleted' = [deleted EXCEPT ![gone] = @ + 1] /\ deleted \in [Objects -> Nat]
    BY <1>2 DEF SlotEmptied, IInv, TypeOK
  <2>8. FateOf' = [FateOf EXCEPT ![gone] = "destroyed"]
    <3>1. deleted'[gone] = 1 /\ \A o \in Objects : o # gone => deleted'[o] = deleted[o]
      BY <2>2, <2>7
    <3>2. \A o \in Objects : FateOf'[o] = IF o = gone THEN "destroyed" ELSE FateOf[o]
      BY <3>1, <2>2 DEF FateOf
    <3>3. FateOf' = [o \in Objects |-> FateOf'[o]] /\ FateOf = [o \in Objects |-> FateOf[o]]
      BY DEF FateOf
    <3> HIDE DEF gone
    <3> QED BY <3>2, <3>3
  <2>9. FateOf' = [FateOf EXCEPT ![NamedBy[num]] = "destroyed"]
    BY <2>6, <2>8
  <2> QED BY <2>1, <2>5, <2>6, <2>9 DEF Store!Destroy, Store!Without, NamedBy, FateOf, Places
<1> QED BY <1>1, <1>2, FreeHandleCases

LEMMA ForgetImplements ==
  ASSUME FreeTableEnd
  PROVE  Store!Forget
<1>1. Len(g_Handles') = 0 /\ UNCHANGED <<kind, deleted>>
  BY DEF FreeTableEnd
<1>2. {m \in Places' : Live(m)'} = {} BY <1>1 DEF Places
<1>3. NamedBy' = [m \in (DOMAIN NamedBy) \ (DOMAIN NamedBy) |-> NamedBy[m]]
  BY <1>2 DEF NamedBy
<1> QED BY <1>1, <1>3 DEF Store!Forget, Store!Without, NamedBy, Places

LEMMA StepImplements == IInv /\ [Next]_vars => [Store!Next]_Store!vars
<1> DEFINE Same == UNCHANGED <<NamedBy, FateOf>>
<1> SUFFICES ASSUME IInv, [Next]_vars PROVE Store!Next \/ Same
  BY DEF Store!vars, NamedBy, FateOf, Places
<1>1. ASSUME NEW ptr \in Objects, NEW type \in Types, MakeHandle(ptr, type) PROVE Store!Next
  BY <1>1, MakeImplements DEF Store!Next
<1>2. ASSUME NEW num \in 0..(MaxHandles + 1), Close(num) PROVE Store!Next \/ Same
  BY <1>2, FreeImplements, BoundAssumption DEF Close, Store!Next
<1>3. CASE LoopBegin("all") \/ LoopBegin("table") \/ FreeAllEnd \/ UNCHANGED vars
  BY <1>3 DEF LoopBegin, FreeAllEnd, vars, table, NamedBy, FateOf, Places, Live
<1>4. CASE LoopRound
  <2> PICK num \in Nat : num = i BY DEF IInv, TypeOK
  <2>1. UNCHANGED kind /\ (FreeHandle(num) \/ UNCHANGED table) BY <1>4 DEF LoopRound
  <2>2. CASE FreeHandle(num) BY <2>1, <2>2, FreeImplements DEF Store!Next
  <2>3. CASE UNCHANGED table BY <2>1, <2>3 DEF table, NamedBy, FateOf, Places, Live
  <2> QED BY <2>1, <2>2, <2>3
<1>5. CASE FreeTableEnd BY <1>5, ForgetImplements DEF Store!Next
<1> QED BY <1>1, <1>2, <1>3, <1>4, <1>5 DEF Next

\* To a plugin the table of handles.cpp is the abstract store of handles.
THEOREM Implements == Spec => KeepsStore
<1>1. Init => Store!Init
  <2> SUFFICES ASSUME Init PROVE Store!Init
    OBVIOUS
  <2>1. {m \in 1..Len(g_Handles) : Live(m)} = {} BY DEF Init
  <2> QED BY <2>1 DEF Init, Store!Init
<1> QED BY <1>1, StepImplements, Inductive, PTL DEF Spec, KeepsStore, Store!Spec
=============================================================================
