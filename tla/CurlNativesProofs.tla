-------------------------- MODULE CurlNativesProofs --------------------------
(***************************************************************************)
(* The natives of base_curl.cpp and thread_curl.cpp on top of the handle   *)
(* table, for every set of objects, requests and types: each step of       *)
(* theirs is a step of the table, which brings its theorems here; what     *)
(* numbers, options and transfers keep is proved over its invariant IInv.  *)
(***************************************************************************)
EXTENDS CurlNatives, HandleTableProofs

-----------------------------------------------------------------------------
(* The inductive invariant *)

\* Outside of a map no transfer, no curl_exec and no number of a plugin is left,
\* and only there the loops run; callbacks are run in it only.
LifeCycle ==
  /\ loop # "none" => phase \in {"attached", "detached"}
  /\ phase # "loaded" => calls = <<>> /\ InPC("callback") = {}
  /\ phase \notin {"loaded", "unloading"} => known = {} /\ Running = {}

\* All curl_exec calls but the innermost are in their callbacks.
OuterInCallback == \A n \in 1..Len(calls) : n > 1 => calls[n].pc = "callback"

\* An object has no options before it is made, a request that runs has a Curl.
Blank ==
  /\ \A o \in Objects : kind[o] = "unmade" => options[o] = NoLists
  /\ \A r \in Running : requests[r].curl \in Objects

\* o is there, or the plugin itself gave it back.
Safe(o) == deleted[o] = 0 \/ o \in closed

SafeLists(lists) == \A t \in ListTypes : lists[t] # NULL => Safe(lists[t])

\* The lists of what this map's plugins can name, and all that is or will be used
\* by a transfer, were not deleted behind the plugins' back.
UsesSafe ==
  /\ \A num \in known : Live(num) => SafeLists(options[g_Handles[num]._ptr])
  /\ \A n \in 1..Len(calls) :
       /\ Safe(calls[n].curl)
       /\ calls[n].pc = "perform" => SafeLists(options[calls[n].curl])
  /\ \A r \in Requests : requests[r].pc \in {"open", "perform"} => SafeLists(requests[r].lists)

NInv ==
  /\ IInv /\ NativesTypeOK /\ LifeCycle /\ OuterInCallback /\ Blank
  /\ NumbersNameCallers /\ OptionsTyped /\ UsesSafe

-----------------------------------------------------------------------------
(* Steps of the table *)

\* A step of the natives and of the module's life cycle is a step of the table, or
\* leaves it alone.
LEMMA StepsOfTable == NativesTypeOK /\ [NativesNext]_allVars => [Next]_vars
<1> SUFFICES ASSUME NativesTypeOK, [NativesNext]_allVars PROVE [Next]_vars
  OBVIOUS
<1>1. ASSUME NEW o \in Objects, NEW type \in Types, NewHandle(o, type) PROVE Next
  BY <1>1 DEF NewHandle, Next
<1>2. \A num \in known : num \in 0..(MaxHandles + 1)
  BY BoundAssumption DEF NativesTypeOK
<1>3. ASSUME NEW o \in Objects, NEW type \in Types, Create(o, type) PROVE [Next]_vars
  BY <1>1, <1>3 DEF Create
<1>4. ASSUME NEW num \in known, NEW o \in Objects, CurlDupHandle(num, o) PROVE [Next]_vars
  BY <1>1, <1>4, TypeAssumption DEF CurlDupHandle
<1>5. ASSUME NEW num \in known, Destroy(num) PROVE [Next]_vars
  BY <1>2, <1>5 DEF Destroy, Next
<1>6. ASSUME NEW num \in known, CurlReset(num) \/ CurlExec(num) PROVE [Next]_vars
  BY <1>6 DEF CurlReset, CurlExec
<1>7. ASSUME NEW num \in known, NEW type \in ListTypes,
             ListAdd(num, type) \/ \E list \in known : CurlSetOptHandle(num, type, list)
      PROVE  [Next]_vars
  BY <1>7 DEF ListAdd, CurlSetOptHandle
<1>8. ASSUME NEW num \in known, NEW r \in Requests, CurlThreadExec(r, num) PROVE [Next]_vars
  BY <1>8 DEF CurlThreadExec
<1>9. CASE ExecCallback \/ ExecReturns
  BY <1>9 DEF ExecCallback, ExecReturns
<1>10. ASSUME NEW r \in Requests, Perform(r) \/ Performed(r) \/ FrameCallback(r) \/ FrameDelete(r)
       PROVE  [Next]_vars
  BY <1>10 DEF Perform, Performed, FrameCallback, FrameDelete
<1>11. CASE OnPluginsLoaded \/ OnPluginsUnloading \/ WorkerStopped \/ OnAmxxAttach
  BY <1>11 DEF OnPluginsLoaded, OnPluginsUnloading, WorkerStopped, OnAmxxAttach
<1>12. CASE OnPluginsUnloaded \/ OnAmxxDetach \/ FreeLoop
  BY <1>12 DEF OnPluginsUnloaded, OnAmxxDetach, FreeLoop, Next
<1>13. CASE UNCHANGED allVars
  BY <1>13 DEF allVars
<1> QED BY <1>3, <1>4, <1>5, <1>6, <1>7, <1>8, <1>9, <1>10, <1>11, <1>12, <1>13 DEF NativesNext

\* What GetHandle gives a native: an object that is there, made with the type.
LEMMA Resolved ==
  ASSUME IInv, NEW num, NEW type \in Types, GetHandle(num, type) # NULL
  PROVE  /\ Live(num) /\ num \in Places /\ num \in Nat
         /\ GetHandle(num, type) = g_Handles[num]._ptr /\ GetHandle(num, type) \in Objects
         /\ kind[GetHandle(num, type)] = type /\ deleted[GetHandle(num, type)] = 0
<1>1. /\ Live(num) /\ GetHandle(num, type) = g_Handles[num]._ptr
      /\ g_Handles[num].type = type /\ num \in Places /\ ~g_Handles[num].isfree
  BY DEF GetHandle, Live, Places
<1> QED BY <1>1 DEF IInv, SlotsMatch, Places

\* MakeHandle leaves the slots in use alone and puts one more in use, for ptr.
LEMMA MakeEffects ==
  ASSUME IInv, NEW ptr \in Objects, NEW type \in Types, MakeHandle(ptr, type)
  PROVE  /\ kind[ptr] = "unmade" /\ kind' = [kind EXCEPT ![ptr] = type] /\ deleted' = deleted
         /\ loop = "none" /\ loop' = "none"
         /\ Len(g_Handles') \in Nat /\ Len(g_Handles') <= MaxHandles
         /\ \A n : Live(n) => /\ Live(n)' /\ g_Handles'[n] = g_Handles[n]
                              /\ g_Handles[n]._ptr # ptr
         /\ \A n : Live(n)' /\ ~Live(n) => g_Handles'[n]._ptr = ptr
<1>1. /\ kind[ptr] = "unmade" /\ kind' = [kind EXCEPT ![ptr] = type] /\ deleted' = deleted
      /\ loop = "none" /\ loop' = "none"
  BY DEF MakeHandle
<1>2. PICK num : Placed(num, ptr, type)
  BY MakePlaces
<1>3. ASSUME NEW n, Live(n) PROVE g_Handles[n]._ptr # ptr
  <2>1. n \in Places /\ g_Handles[n] \in Slot /\ ~g_Handles[n].isfree
    BY <1>3 DEF Live, Places, IInv, TypeOK
  <2>2. g_Handles[n].type \in Types /\ kind[g_Handles[n]._ptr] = g_Handles[n].type
    BY <2>1 DEF Slot, IInv, SlotsMatch
  <2> QED BY <1>1, <2>2, TypeAssumption
<1>4. ASSUME NEW n, Live(n) PROVE Live(n)' /\ g_Handles'[n] = g_Handles[n]
  <2>1. n # num /\ n \in 1..Len(g_Handles')
    BY <1>2, <1>4 DEF Placed, Live
  <2>2. g_Handles'[n] = g_Handles[n]
    BY <1>2, <2>1 DEF Placed
  <2> QED BY <1>4, <2>1, <2>2 DEF Live
<1>5. ASSUME NEW n, Live(n)', ~Live(n) PROVE g_Handles'[n]._ptr = ptr
  <2>1. CASE n # num
    <3>1. n \in Places /\ g_Handles'[n] = g_Handles[n]
      BY <1>2, <1>5, <2>1 DEF Placed, Live
    <3> QED BY <1>5, <3>1 DEF Live, Places
  <2>2. CASE n = num
    BY <1>2, <2>2 DEF Placed
  <2> QED BY <2>1, <2>2
<1> QED BY <1>1, <1>2, <1>3, <1>4, <1>5 DEF Placed

\* FreeHandle takes one slot out of use and deletes its object.
LEMMA FreeEffects ==
  ASSUME IInv, NEW num \in Nat, FreeHandle(num)
  PROVE  \/ UNCHANGED <<g_Handles, deleted>>
         \/ /\ Live(num) /\ ~Live(num)' /\ g_Handles[num]._ptr \in Objects
            /\ \A n : n # num => /\ Live(n)' <=> Live(n)
                                 /\ Live(n) => g_Handles'[n] = g_Handles[n]
            /\ deleted'[g_Handles[num]._ptr] = 1
            /\ \A o \in Objects : o # g_Handles[num]._ptr => deleted'[o] = deleted[o]
<1>1. CASE ~Live(num) /\ UNCHANGED table
  BY <1>1 DEF table
<1>2. CASE Live(num) /\ SlotEmptied(num)
  <2>1. /\ num \in Places /\ ~g_Handles[num].isfree /\ Len(g_Handles') = Len(g_Handles)
        /\ \A n \in Places : n # num => g_Handles'[n] = g_Handles[n]
        /\ g_Handles'[num].isfree
        /\ deleted' = [deleted EXCEPT ![g_Handles[num]._ptr] = @ + 1]
    BY <1>2 DEF SlotEmptied, Live, Places, Emptied
  <2>2. PICK gone \in Objects : gone = g_Handles[num]._ptr
    BY <2>1 DEF IInv, SlotsMatch
  <2>3. deleted[gone] = 0 /\ deleted \in [Objects -> Nat]
    BY <2>1, <2>2 DEF IInv, SlotsMatch, TypeOK
  <2>4. deleted'[gone] = 1 /\ \A o \in Objects : o # gone => deleted'[o] = deleted[o]
    BY <2>1, <2>2, <2>3
  <2>5. ~Live(num)'
    BY <2>1 DEF Live
  <2>6. ASSUME NEW n, n # num
        PROVE  (Live(n)' <=> Live(n)) /\ (Live(n) => g_Handles'[n] = g_Handles[n])
    BY <2>1, <2>6 DEF Live, Places
  <2> QED BY <1>2, <2>2, <2>4, <2>5, <2>6
<1> QED BY <1>1, <1>2, FreeHandleCases

\* A number names an object in every step, until the object is deleted or the table
\* thrown away.
Names(num, o) == deleted[o] = 0 => GetHandle(num, CurlType) = o

LEMMA NamesMade ==
  ASSUME IInv, NEW ptr \in Objects, NEW type \in Types, MakeHandle(ptr, type),
         NEW num, NEW o \in Objects, Names(num, o)
  PROVE  Names(num, o)'
<1> SUFFICES ASSUME deleted'[o] = 0 PROVE GetHandle(num, CurlType)' = o
  BY DEF Names
<1>1. GetHandle(num, CurlType) = o /\ o # NULL
  BY MakeEffects, ObjectAssumption DEF Names
<1>2. Live(num) /\ g_Handles[num].type = CurlType /\ g_Handles[num]._ptr = o
  BY <1>1 DEF GetHandle
<1>3. Live(num)' /\ g_Handles'[num] = g_Handles[num]
  BY <1>2, MakeEffects
<1> QED BY <1>2, <1>3 DEF GetHandle

LEMMA NamesFreed ==
  ASSUME IInv, NEW n \in Nat, FreeHandle(n), NEW num, NEW o \in Objects, Names(num, o)
  PROVE  Names(num, o)'
<1>1. CASE UNCHANGED <<g_Handles, deleted>>
  BY <1>1 DEF Names, GetHandle, Live
<1>2. CASE ~UNCHANGED <<g_Handles, deleted>>
  <2> SUFFICES ASSUME deleted'[o] = 0 PROVE GetHandle(num, CurlType)' = o
    BY DEF Names
  <2>1. /\ deleted'[g_Handles[n]._ptr] = 1
        /\ \A x \in Objects : x # g_Handles[n]._ptr => deleted'[x] = deleted[x]
        /\ \A m : m # n => /\ Live(m)' <=> Live(m)
                           /\ Live(m) => g_Handles'[m] = g_Handles[m]
    BY <1>2, FreeEffects
  <2>2. o # g_Handles[n]._ptr /\ deleted[o] = 0
    BY <2>1
  <2>3. GetHandle(num, CurlType) = o /\ o # NULL
    BY <2>2, ObjectAssumption DEF Names
  <2>4. Live(num) /\ g_Handles[num].type = CurlType /\ g_Handles[num]._ptr = o /\ num # n
    BY <2>2, <2>3 DEF GetHandle
  <2>5. Live(num)' /\ g_Handles'[num] = g_Handles[num]
    BY <2>1, <2>4
  <2> QED BY <2>4, <2>5 DEF GetHandle
<1> QED BY <1>1, <1>2

-----------------------------------------------------------------------------
(* What natives keep *)

\* No transfer of curl_exec is under way while plugin code runs.
LEMMA NobodyPerforms ==
  ASSUME NInv, InPlugin
  PROVE  /\ \A n \in 1..Len(calls) : calls[n].pc = "callback"
         /\ phase = "loaded" /\ loop = "none"
<1>1. ASSUME NEW n \in 1..Len(calls) PROVE calls[n].pc = "callback"
  <2>1. calls \in Seq(Call) /\ Len(calls) \in Nat
    BY DEF NInv, NativesTypeOK
  <2>2. CASE n = 1
    <3>1. calls # <<>> /\ Head(calls) = calls[1]
      BY <2>1, <2>2
    <3> QED BY <2>2, <3>1 DEF InPlugin
  <2>3. CASE n # 1
    <3>1. n > 1
      BY <2>1, <2>3
    <3> QED BY <3>1 DEF NInv, OuterInCallback
  <2> QED BY <2>2, <2>3
<1>2. phase = "loaded"
  BY DEF InPlugin
<1>3. loop = "none"
  BY <1>2 DEF NInv, LifeCycle
<1> QED BY <1>1, <1>2, <1>3

\* The objects of calls and requests have names in the table.
LEMMA CallersNamed ==
  ASSUME NInv
  PROVE  /\ \A n \in 1..Len(calls) :
              calls[n].curl \in Objects /\ Names(calls[n].num, calls[n].curl)
         /\ \A r \in Running :
              requests[r].curl \in Objects /\ Names(requests[r].num, requests[r].curl)
<1>1. ASSUME NEW n \in 1..Len(calls) PROVE calls[n].curl \in Objects
  <2>1. calls[n] \in Call
    BY DEF NInv, NativesTypeOK
  <2> QED BY <2>1 DEF Call
<1> QED BY <1>1 DEF NInv, NumbersNameCallers, Names, Blank

\* Callers keep their names in a step in which objects do and no caller is new.
LEMMA CallersKept ==
  ASSUME NInv, \A num : \A x \in Objects : Names(num, x) => Names(num, x)',
         \A n \in 1..Len(calls') : \E m \in 1..Len(calls) :
           calls'[n].curl = calls[m].curl /\ calls'[n].num = calls[m].num,
         \A r \in Running' : /\ r \in Running /\ requests'[r].curl = requests[r].curl
                             /\ requests'[r].num = requests[r].num
  PROVE  NumbersNameCallers'
<1>1. ASSUME NEW n \in 1..Len(calls') PROVE Names(calls[n].num, calls[n].curl)'
  <2>1. PICK m \in 1..Len(calls) : calls'[n].curl = calls[m].curl /\ calls'[n].num = calls[m].num
    OBVIOUS
  <2>2. PICK num, x : num = calls[m].num /\ x = calls[m].curl
    OBVIOUS
  <2>3. Names(num, x)'
    BY <2>2, CallersNamed
  <2> QED BY <2>1, <2>2, <2>3 DEF Names
<1>2. ASSUME NEW r \in Running' PROVE Names(requests[r].num, requests[r].curl)'
  <2>1. PICK num, x : num = requests[r].num /\ x = requests[r].curl
    OBVIOUS
  <2>2. Names(num, x)'
    BY <2>1, CallersNamed
  <2> QED BY <2>1, <2>2 DEF Names
<1> QED BY <1>1, <1>2 DEF NumbersNameCallers, Names

\* What a type of lists is.
LEMMA ListKinds ==
  \A t \in ListTypes : t \in Types /\ t # "unmade" /\ t # CurlType
  BY TypeAssumption DEF ListTypes

\* A native that makes an object, with the options it starts with.
LEMMA NewKeeps ==
  ASSUME NInv, IInv', NEW o \in Objects, NEW type \in Types, NewHandle(o, type),
         NEW lists \in [ListTypes -> Objects \cup {NULL}],
         options' = [options EXCEPT ![o] = lists], SafeLists(lists),
         \A t \in ListTypes : lists[t] # NULL => kind[lists[t]] = t /\ lists[t] \in filled,
         UNCHANGED <<phase, filled, calls, requests, closed>>
  PROVE  NInv'
<1>0. InPlugin /\ MakeHandle(o, type)
      /\ known' = known \cup {n \in 1..Len(g_Handles') : g_Handles'[n]._ptr = o}
  BY DEF NewHandle
<1>1. IInv /\ NativesTypeOK /\ LifeCycle /\ OuterInCallback /\ Blank
      /\ NumbersNameCallers /\ OptionsTyped /\ UsesSafe
  BY DEF NInv
<1>2. /\ kind[o] = "unmade" /\ kind' = [kind EXCEPT ![o] = type] /\ deleted' = deleted
      /\ loop = "none" /\ loop' = "none"
      /\ Len(g_Handles') \in Nat /\ Len(g_Handles') <= MaxHandles
      /\ \A n : Live(n) => Live(n)' /\ g_Handles'[n] = g_Handles[n] /\ g_Handles[n]._ptr # o
      /\ \A n : Live(n)' /\ ~Live(n) => g_Handles'[n]._ptr = o
  BY <1>0, <1>1, MakeEffects
<1>3. /\ \A n \in 1..Len(calls) : calls[n].pc = "callback"
      /\ phase = "loaded"
  BY <1>0, NobodyPerforms
<1>4. /\ kind \in [Objects -> Types \cup {"unmade"}]
      /\ options \in [Objects -> [ListTypes -> Objects \cup {NULL}]]
      /\ known \subseteq 1..MaxHandles
  BY <1>1 DEF NativesTypeOK, TypeOK
<1>5. \A l : SafeLists(l)' <=> SafeLists(l)
  BY <1>2 DEF SafeLists, Safe
<1>6. \A x \in Objects : kind[x] # "unmade" => kind'[x] = kind[x] /\ x # o
  BY <1>2, <1>4
<1>7. NativesTypeOK'
  <2>1. {n \in 1..Len(g_Handles') : g_Handles'[n]._ptr = o} \subseteq 1..MaxHandles
    BY <1>2, BoundAssumption
  <2>2. ASSUME NEW x \in filled PROVE x \in Objects /\ kind'[x] \in ListTypes
    BY <1>1, <1>6, ListKinds DEF NativesTypeOK
  <2>3. options' \in [Objects -> [ListTypes -> Objects \cup {NULL}]]
    BY <1>4
  <2>4. TypeOK'
    BY DEF IInv
  <2> QED BY <1>0, <1>1, <2>1, <2>2, <2>3, <2>4 DEF NativesTypeOK
<1>8. LifeCycle' /\ OuterInCallback'
  <2>1. UNCHANGED <<phase, loop, calls, requests>>
    BY <1>2
  <2> QED BY <1>1, <1>3, <2>1 DEF LifeCycle, OuterInCallback, InPC, Running
<1>9. Blank'
  <2>1. ASSUME NEW x \in Objects, kind'[x] = "unmade" PROVE options'[x] = NoLists
    <3>1. x # o
      BY <1>2, <1>4, <2>1, TypeAssumption
    <3>2. kind[x] = "unmade" /\ options'[x] = options[x]
      BY <1>2, <1>4, <2>1, <3>1
    <3> QED BY <1>1, <3>2 DEF Blank
  <2>2. Running' = Running /\ requests' = requests
    BY DEF Running, InPC
  <2> QED BY <1>1, <2>1, <2>2 DEF Blank
<1>10. NumbersNameCallers'
  <2>1. \A num, x : x \in Objects /\ Names(num, x) => Names(num, x)'
    BY <1>0, <1>1, NamesMade
  <2>2. Running' = Running
    BY DEF Running, InPC
  <2> QED BY <2>1, <2>2, CallersKept
<1>11. OptionsTyped'
  <2>1. ASSUME NEW t \in ListTypes, NEW x \in Objects, options'[x][t] # NULL
        PROVE  kind'[options'[x][t]] = t /\ options'[x][t] \in filled
    <3>1. kind[options'[x][t]] = t /\ options'[x][t] \in filled /\ options'[x][t] \in Objects
      <4>1. CASE x = o
        BY <1>4, <2>1, <4>1
      <4>2. CASE x # o
        BY <1>1, <1>4, <2>1, <4>2 DEF OptionsTyped
      <4> QED BY <4>1, <4>2
    <3>2. PICK l \in Objects : l = options'[x][t]
      BY <3>1
    <3>3. kind'[l] = kind[l]
      BY <1>6, <3>1, <3>2, ListKinds
    <3> QED BY <3>1, <3>2, <3>3
  <2>2. ASSUME NEW t \in ListTypes, NEW r \in Requests, requests[r].lists[t] # NULL
        PROVE  kind'[requests[r].lists[t]] = t
    <3>1. requests[r].lists[t] \in Objects /\ kind[requests[r].lists[t]] = t
      BY <1>1, <2>2 DEF OptionsTyped, NativesTypeOK, Request
    <3> QED BY <1>6, <3>1, ListKinds
  <2> QED BY <2>1, <2>2 DEF OptionsTyped
<1>12. UsesSafe'
  <2>1. ASSUME NEW num \in known', Live(num)' PROVE SafeLists(options[g_Handles[num]._ptr])'
    <3>0. PICK l : l = options'[g_Handles'[num]._ptr]
      OBVIOUS
    <3>1. ASSUME Live(num) PROVE SafeLists(l)
      <4>1. g_Handles'[num] = g_Handles[num] /\ g_Handles[num]._ptr # o
        BY <1>2, <3>1
      <4>2. num \in known
        BY <1>0, <4>1
      <4>3. options'[g_Handles'[num]._ptr] = options[g_Handles[num]._ptr]
        <5>1. g_Handles[num]._ptr \in Objects
          BY <1>1, <3>1 DEF IInv, SlotsMatch, Live, Places
        <5> QED BY <1>4, <4>1, <5>1
      <4> QED BY <1>1, <3>0, <3>1, <4>2, <4>3 DEF UsesSafe
    <3>2. ASSUME ~Live(num) PROVE SafeLists(l)
      <4>1. g_Handles'[num]._ptr = o /\ options'[o] = lists
        BY <1>2, <1>4, <2>1, <3>2
      <4> QED BY <3>0, <4>1
    <3>3. SafeLists(l)'
      BY <1>5, <3>1, <3>2
    <3> QED BY <3>0, <3>3 DEF SafeLists, Safe
  <2>2. ASSUME NEW n \in 1..Len(calls)
        PROVE  Safe(calls[n].curl)' /\ calls'[n].pc # "perform"
    BY <1>1, <1>2, <1>3 DEF UsesSafe, Safe
  <2>3. ASSUME NEW r \in Requests, requests[r].pc \in {"open", "perform"}
        PROVE  SafeLists(requests[r].lists)'
    <3>1. PICK l : l = requests[r].lists
      OBVIOUS
    <3>2. SafeLists(l)'
      BY <1>1, <1>5, <2>3, <3>1 DEF UsesSafe
    <3> QED BY <3>1, <3>2 DEF SafeLists, Safe
  <2> QED BY <2>1, <2>2, <2>3 DEF UsesSafe
<1> QED BY <1>7, <1>8, <1>9, <1>10, <1>11, <1>12 DEF NInv

\* Closing a handle deletes its object, which the plugin itself asked for.
LEMMA DestroyKeeps ==
  ASSUME NInv, IInv', NEW num \in known, Destroy(num)
  PROVE  NInv'
<1>1. IInv /\ NativesTypeOK /\ LifeCycle /\ OuterInCallback /\ Blank
      /\ NumbersNameCallers /\ OptionsTyped /\ UsesSafe
  BY DEF NInv
<1>2. /\ Live(num) /\ FreeHandle(num) /\ num \in Nat
      /\ UNCHANGED <<loop, kind, phase, filled, options, calls, requests, known>>
      /\ closed' = closed \cup {g_Handles[num]._ptr}
  BY <1>1 DEF Destroy, Close, NativesTypeOK
<1>3. PICK gone \in Objects : gone = g_Handles[num]._ptr
  BY <1>1, <1>2 DEF IInv, SlotsMatch, Live, Places
<1>4. \A n : Live(n)' => Live(n) /\ g_Handles'[n] = g_Handles[n]
  <2>1. CASE UNCHANGED <<g_Handles, deleted>>
    BY <2>1 DEF Live
  <2>2. CASE ~UNCHANGED <<g_Handles, deleted>>
    BY <1>1, <1>2, <2>2, FreeEffects
  <2> QED BY <2>1, <2>2
<1>5. \A x \in Objects : Safe(x) => Safe(x)'
  <2>1. CASE UNCHANGED <<g_Handles, deleted>>
    BY <1>2, <2>1 DEF Safe
  <2>2. CASE ~UNCHANGED <<g_Handles, deleted>>
    <3>1. \A x \in Objects : x # gone => deleted'[x] = deleted[x]
      BY <1>1, <1>2, <1>3, <2>2, FreeEffects
    <3>2. gone \in closed'
      BY <1>2, <1>3
    <3> QED BY <1>2, <3>1, <3>2 DEF Safe
  <2> QED BY <2>1, <2>2
<1>6. \A l \in [ListTypes -> Objects \cup {NULL}] : SafeLists(l) => SafeLists(l)'
  BY <1>5 DEF SafeLists
<1>7. NativesTypeOK'
  <2>1. TypeOK'
    BY DEF IInv
  <2> QED BY <1>1, <1>2, <1>3, <2>1 DEF NativesTypeOK
<1>8. LifeCycle' /\ OuterInCallback' /\ Blank'
  BY <1>1, <1>2 DEF LifeCycle, OuterInCallback, Blank, InPC, Running
<1>9. NumbersNameCallers'
  <2>1. \A n : \A x \in Objects : Names(n, x) => Names(n, x)'
    BY <1>1, <1>2, NamesFreed
  <2>2. Running' = Running
    BY <1>2 DEF Running, InPC
  <2> QED BY <1>2, <2>1, <2>2, CallersKept
<1>10. OptionsTyped'
  BY <1>1, <1>2 DEF OptionsTyped
<1>11. UsesSafe'
  <2>1. ASSUME NEW n \in known, Live(n)' PROVE SafeLists(options[g_Handles[n]._ptr])'
    <3>1. Live(n) /\ g_Handles'[n] = g_Handles[n]
      BY <1>4, <2>1
    <3>2. g_Handles[n]._ptr \in Objects
      BY <1>1, <3>1 DEF IInv, SlotsMatch, Live, Places
    <3>3. PICK l \in [ListTypes -> Objects \cup {NULL}] : l = options[g_Handles[n]._ptr]
      BY <1>1, <3>2 DEF NativesTypeOK
    <3>4. SafeLists(l)'
      BY <1>1, <1>6, <3>1, <3>3 DEF UsesSafe
    <3> QED BY <1>2, <3>1, <3>3, <3>4 DEF SafeLists, Safe
  <2>2. ASSUME NEW n \in 1..Len(calls)
        PROVE  Safe(calls[n].curl)' /\ calls'[n].pc # "perform"
    <3>1. PICK x \in Objects : x = calls[n].curl
      BY CallersNamed
    <3>2. Safe(x)'
      BY <1>1, <1>5, <3>1 DEF UsesSafe
    <3>3. InPlugin
      BY DEF Destroy
    <3> QED BY <1>2, <3>1, <3>2, <3>3, NobodyPerforms DEF Safe
  <2>3. ASSUME NEW r \in Requests, requests[r].pc \in {"open", "perform"}
        PROVE  SafeLists(requests[r].lists)'
    <3>1. requests[r] \in Request
      BY <1>1 DEF NativesTypeOK
    <3>2. PICK l \in [ListTypes -> Objects \cup {NULL}] : l = requests[r].lists
      BY <3>1 DEF Request
    <3>3. SafeLists(l)'
      BY <1>1, <1>6, <2>3, <3>2 DEF UsesSafe
    <3> QED BY <1>2, <3>2, <3>3 DEF SafeLists, Safe
  <2> QED BY <1>2, <2>1, <2>2, <2>3 DEF UsesSafe
<1> QED BY <1>7, <1>8, <1>9, <1>10, <1>11 DEF NInv

\* A native that changes the options of a Curl.
LEMMA OptionsKeep ==
  ASSUME NInv, IInv', NEW c \in Objects, NEW lists \in [ListTypes -> Objects \cup {NULL}],
         InPlugin, options' = [options EXCEPT ![c] = lists], kind[c] # "unmade",
         SafeLists(lists),
         \A t \in ListTypes : lists[t] # NULL => kind[lists[t]] = t /\ lists[t] \in filled,
         UNCHANGED <<vars, phase, filled, calls, requests, known, closed>>
  PROVE  NInv'
<1>1. IInv /\ NativesTypeOK /\ LifeCycle /\ OuterInCallback /\ Blank
      /\ NumbersNameCallers /\ OptionsTyped /\ UsesSafe
  BY DEF NInv
<1>2. \A n \in 1..Len(calls) : calls[n].pc = "callback"
  BY NobodyPerforms
<1>3. options \in [Objects -> [ListTypes -> Objects \cup {NULL}]]
  BY <1>1 DEF NativesTypeOK
<1>4. UNCHANGED <<g_Handles, deleted, kind, loop>>
  BY DEF vars
<1>5. \A l : SafeLists(l)' <=> SafeLists(l)
  BY <1>4 DEF SafeLists, Safe
<1>6. NativesTypeOK'
  <2>1. TypeOK'
    BY DEF IInv
  <2> QED BY <1>1, <1>3, <1>4, <2>1 DEF NativesTypeOK
<1>7. LifeCycle' /\ OuterInCallback'
  BY <1>1, <1>4 DEF LifeCycle, OuterInCallback, InPC, Running
<1>8. Blank'
  <2>1. Running' = Running
    BY DEF Running, InPC
  <2> QED BY <1>1, <1>3, <1>4, <2>1 DEF Blank
<1>9. NumbersNameCallers'
  <2>1. \A n : \A x \in Objects : Names(n, x) => Names(n, x)'
    BY <1>4 DEF Names, GetHandle, Live
  <2>2. Running' = Running
    BY DEF Running, InPC
  <2> QED BY <2>1, <2>2, CallersKept
<1>10. OptionsTyped'
  <2>1. ASSUME NEW t \in ListTypes, NEW x \in Objects, options'[x][t] # NULL
        PROVE  kind[options'[x][t]] = t /\ options'[x][t] \in filled
    <3>1. CASE x = c
      BY <1>3, <2>1, <3>1
    <3>2. CASE x # c
      BY <1>1, <1>3, <2>1, <3>2 DEF OptionsTyped
    <3> QED BY <3>1, <3>2
  <2> QED BY <1>1, <1>4, <2>1 DEF OptionsTyped
<1>11. UsesSafe'
  <2>1. ASSUME NEW n \in known, Live(n) PROVE SafeLists(options'[g_Handles[n]._ptr])
    <3>1. g_Handles[n]._ptr \in Objects
      BY <1>1, <2>1 DEF IInv, SlotsMatch, Live, Places
    <3>2. CASE g_Handles[n]._ptr = c
      BY <1>3, <3>2
    <3>3. CASE g_Handles[n]._ptr # c
      BY <1>1, <1>3, <2>1, <3>1, <3>3 DEF UsesSafe
    <3> QED BY <3>2, <3>3
  <2>2. ASSUME NEW n \in known, Live(n)' PROVE SafeLists(options[g_Handles[n]._ptr])'
    BY <1>4, <2>1, <2>2 DEF SafeLists, Safe, Live
  <2>3. ASSUME NEW n \in 1..Len(calls)
        PROVE  Safe(calls[n].curl)' /\ calls'[n].pc # "perform"
    BY <1>1, <1>2, <1>4 DEF UsesSafe, Safe
  <2>4. ASSUME NEW r \in Requests, requests[r].pc \in {"open", "perform"}
        PROVE  SafeLists(requests[r].lists)'
    BY <1>1, <1>4, <2>4 DEF UsesSafe, SafeLists, Safe
  <2> QED BY <2>2, <2>3, <2>4 DEF UsesSafe
<1> QED BY <1>6, <1>7, <1>8, <1>9, <1>10, <1>11 DEF NInv

\* The natives that make an object, and those that set options.
LEMMA ObjectNativesKeep ==
  ASSUME NInv, IInv',
         \/ \E o \in Objects, type \in Types : Create(o, type)
         \/ \E num \in known, o \in Objects : CurlDupHandle(num, o)
         \/ \E num \in known : CurlReset(num)
         \/ \E num \in known, type \in ListTypes, list \in known : CurlSetOptHandle(num, type, list)
  PROVE  NInv'
<1>1. IInv /\ NativesTypeOK /\ Blank /\ OptionsTyped /\ UsesSafe
  BY DEF NInv
<1>2. /\ options \in [Objects -> [ListTypes -> Objects \cup {NULL}]]
      /\ NoLists \in [ListTypes -> Objects \cup {NULL}] /\ SafeLists(NoLists)
      /\ \A t \in ListTypes : NoLists[t] = NULL
  BY <1>1 DEF NativesTypeOK, NoLists, SafeLists
<1>3. \A x \in Objects : \A t \in ListTypes : options[x][t] # NULL =>
        kind[options[x][t]] = t /\ options[x][t] \in filled
  BY <1>1 DEF OptionsTyped
<1>4. ASSUME NEW o \in Objects, NEW type \in Types, Create(o, type) PROVE NInv'
  <2>1. NewHandle(o, type) /\ UNCHANGED <<phase, filled, options, calls, requests, closed>>
    BY <1>4 DEF Create
  <2>2. options[o] = NoLists
    BY <1>1, <2>1 DEF NewHandle, MakeHandle, Blank
  <2>3. options' = [options EXCEPT ![o] = NoLists]
    BY <1>2, <2>1, <2>2
  <2> QED BY <1>2, <2>1, <2>3, NewKeeps
<1>5. ASSUME NEW num, NEW type \in Types, GetHandle(num, type) # NULL
      PROVE  \E c \in Objects : /\ c = GetHandle(num, type) /\ c = g_Handles[num]._ptr /\ Live(num)
                                /\ kind[c] = type /\ deleted[c] = 0
  BY <1>1, <1>5, Resolved
<1>6. ASSUME NEW num \in known, NEW o \in Objects, CurlDupHandle(num, o) PROVE NInv'
  <2>1. /\ GetHandle(num, CurlType) # NULL /\ NewHandle(o, CurlType)
        /\ options' = [options EXCEPT ![o] = options[GetHandle(num, CurlType)]]
        /\ UNCHANGED <<phase, filled, calls, requests, closed>>
    BY <1>6 DEF CurlDupHandle
  <2>2. PICK c \in Objects : /\ c = GetHandle(num, CurlType) /\ c = g_Handles[num]._ptr /\ Live(num)
    BY <1>5, <2>1, TypeAssumption
  <2>3. SafeLists(options[c])
    BY <1>1, <2>2 DEF UsesSafe
  <2>4. PICK lists \in [ListTypes -> Objects \cup {NULL}] : lists = options[c]
    BY <1>2
  <2>5. /\ SafeLists(lists) /\ options' = [options EXCEPT ![o] = lists]
        /\ \A t \in ListTypes : lists[t] # NULL => kind[lists[t]] = t /\ lists[t] \in filled
    BY <1>3, <2>1, <2>2, <2>3, <2>4
  <2> QED BY <2>1, <2>5, NewKeeps, TypeAssumption
<1>7. ASSUME NEW num \in known, CurlReset(num) PROVE NInv'
  <2>1. /\ InPlugin /\ GetHandle(num, CurlType) # NULL
        /\ options' = [options EXCEPT ![GetHandle(num, CurlType)] = NoLists]
        /\ UNCHANGED <<vars, phase, filled, calls, requests, known, closed>>
    BY <1>7 DEF CurlReset
  <2>2. PICK c \in Objects : c = GetHandle(num, CurlType) /\ kind[c] = CurlType
    BY <1>5, <2>1, TypeAssumption
  <2> QED BY <1>2, <2>1, <2>2, OptionsKeep, TypeAssumption
<1>8. ASSUME NEW num \in known, NEW type \in ListTypes, NEW list \in known,
             CurlSetOptHandle(num, type, list)
      PROVE  NInv'
  <2>1. /\ InPlugin /\ GetHandle(num, CurlType) # NULL /\ GetHandle(list, type) # NULL
        /\ options' = [options EXCEPT ![GetHandle(num, CurlType)][type] = Pointer(GetHandle(list, type))]
        /\ UNCHANGED <<vars, phase, filled, calls, requests, known, closed>>
    BY <1>8 DEF CurlSetOptHandle
  <2>2. PICK c \in Objects : /\ c = GetHandle(num, CurlType) /\ kind[c] = CurlType
                             /\ c = g_Handles[num]._ptr /\ Live(num)
    BY <1>5, <2>1, TypeAssumption
  <2>3. PICK l \in Objects : /\ l = GetHandle(list, type) /\ kind[l] = type /\ deleted[l] = 0
    BY <1>5, <2>1, ListKinds
  <2>4. SafeLists(options[c])
    BY <1>1, <2>2 DEF UsesSafe
  <2>5. PICK p : p = Pointer(l)
    OBVIOUS
  <2>6. p \in Objects \cup {NULL} /\ (p # NULL => p = l /\ l \in filled)
    BY <2>5 DEF Pointer
  <2>7. PICK lists \in [ListTypes -> Objects \cup {NULL}] : lists = [options[c] EXCEPT ![type] = p]
    BY <1>2, <2>6
  <2>8. \A t \in ListTypes : lists[t] = IF t = type THEN p ELSE options[c][t]
    BY <1>2, <2>7
  <2>9. SafeLists(lists)
    BY <2>3, <2>4, <2>6, <2>8 DEF SafeLists, Safe
  <2>10. \A t \in ListTypes : lists[t] # NULL => kind[lists[t]] = t /\ lists[t] \in filled
    BY <1>3, <2>3, <2>6, <2>8
  <2>11. options' = [options EXCEPT ![c] = lists]
    BY <1>2, <2>1, <2>2, <2>3, <2>5, <2>7
  <2> QED BY <2>1, <2>2, <2>9, <2>10, <2>11, OptionsKeep, TypeAssumption
<1> QED BY <1>4, <1>6, <1>7, <1>8

\* An entry more in a list.
LEMMA ListAddKeeps ==
  ASSUME NInv, IInv', NEW num \in known, NEW type \in ListTypes, ListAdd(num, type)
  PROVE  NInv'
<1>1. IInv /\ NativesTypeOK /\ LifeCycle /\ OuterInCallback /\ Blank
      /\ NumbersNameCallers /\ OptionsTyped /\ UsesSafe
  BY DEF NInv
<1>2. /\ GetHandle(num, type) # NULL /\ filled' = filled \cup {GetHandle(num, type)}
      /\ UNCHANGED <<g_Handles, loop, kind, deleted>>
      /\ UNCHANGED <<phase, options, calls, requests, known, closed>>
  BY DEF ListAdd, vars
<1>3. PICK l \in Objects : l = GetHandle(num, type) /\ kind[l] = type
  BY <1>1, <1>2, Resolved, ListKinds
<1>4. NativesTypeOK'
  <2>1. TypeOK'
    BY DEF IInv
  <2> QED BY <1>1, <1>2, <1>3, <2>1 DEF NativesTypeOK
<1>5. LifeCycle' /\ OuterInCallback' /\ Blank'
  BY <1>1, <1>2 DEF LifeCycle, OuterInCallback, Blank, InPC, Running
<1>6. NumbersNameCallers' /\ OptionsTyped'
  BY <1>1, <1>2 DEF NumbersNameCallers, OptionsTyped, GetHandle, Live, Running, InPC
<1>7. UsesSafe'
  BY <1>1, <1>2 DEF UsesSafe, SafeLists, Safe, Live
<1> QED BY <1>4, <1>5, <1>6, <1>7 DEF NInv

\* curl_exec's stack of calls.
LEMMA CallsKeep ==
  ASSUME NInv, IInv', calls' \in Seq(Call), OuterInCallback', phase = "loaded",
         UNCHANGED <<vars, phase, filled, options, requests, known, closed>>,
         \A n \in 1..Len(calls') :
           /\ Names(calls'[n].num, calls'[n].curl) /\ Safe(calls'[n].curl)
           /\ calls'[n].pc = "perform" => SafeLists(options[calls'[n].curl])
  PROVE  NInv'
<1>1. IInv /\ NativesTypeOK /\ LifeCycle /\ OuterInCallback /\ Blank
      /\ NumbersNameCallers /\ OptionsTyped /\ UsesSafe
  BY DEF NInv
<1>2. UNCHANGED <<g_Handles, loop, kind, deleted>>
  BY DEF vars
<1>3. NativesTypeOK'
  <2>1. TypeOK'
    BY DEF IInv
  <2> QED BY <1>1, <1>2, <2>1 DEF NativesTypeOK
<1>4. LifeCycle' /\ Blank'
  BY <1>1, <1>2 DEF LifeCycle, Blank, InPC, Running
<1>5. NumbersNameCallers' /\ OptionsTyped'
  BY <1>1, <1>2 DEF NumbersNameCallers, OptionsTyped, Names, GetHandle, Live, Running, InPC
<1>6. UsesSafe'
  BY <1>1, <1>2 DEF UsesSafe, SafeLists, Safe, Live
<1> QED BY <1>3, <1>4, <1>5, <1>6 DEF NInv

LEMMA ExecKeeps ==
  ASSUME NInv, IInv', (\E num \in known : CurlExec(num)) \/ ExecCallback \/ ExecReturns
  PROVE  NInv'
<1>1. IInv /\ NativesTypeOK /\ LifeCycle /\ OuterInCallback /\ NumbersNameCallers /\ UsesSafe
  BY DEF NInv
<1>2. calls \in Seq(Call) /\ Len(calls) \in Nat
  BY <1>1 DEF NativesTypeOK
<1>3. \A n \in 1..Len(calls) :
        /\ Names(calls[n].num, calls[n].curl) /\ Safe(calls[n].curl)
        /\ calls[n].pc = "perform" => SafeLists(options[calls[n].curl])
  BY <1>1, CallersNamed DEF UsesSafe
<1>4. ASSUME NEW num \in known, CurlExec(num) PROVE NInv'
  <2>1. /\ InPlugin /\ GetHandle(num, CurlType) # NULL
        /\ calls' = <<[curl |-> GetHandle(num, CurlType), num |-> num, pc |-> "perform"]>> \o calls
        /\ UNCHANGED <<vars, phase, filled, options, requests, known, closed>>
    BY <1>4 DEF CurlExec
  <2>2. PICK c \in Objects : /\ c = GetHandle(num, CurlType) /\ c = g_Handles[num]._ptr
                             /\ Live(num) /\ deleted[c] = 0 /\ num \in Nat
    BY <1>1, <2>1, Resolved, TypeAssumption
  <2>e. [curl |-> c, num |-> num, pc |-> "perform"] \in Call
    BY <2>2 DEF Call
  <2>f. PICK e \in Call : e = [curl |-> c, num |-> num, pc |-> "perform"]
    BY <2>e
  <2>3. e.curl = c /\ e.num = num /\ e.pc = "perform"
    BY <2>f
  <2>4. /\ calls' \in Seq(Call) /\ Len(calls') = Len(calls) + 1 /\ calls'[1] = e
        /\ \A n \in 1..Len(calls) : calls'[n + 1] = calls[n]
    BY <1>2, <2>1, <2>2, <2>f, PushPlaces
  <2>5. SafeLists(options[c]) /\ Safe(c) /\ Names(num, c)
    BY <1>1, <2>2 DEF UsesSafe, Safe, Names
  <2>6. ASSUME NEW n \in 1..Len(calls'), n # 1
        PROVE  n - 1 \in 1..Len(calls) /\ calls'[n] = calls[n - 1]
    <3>1. n - 1 \in 1..Len(calls) /\ (n - 1) + 1 = n
      BY <1>2, <2>4, <2>6
    <3> QED BY <2>4, <3>1
  <2>7. OuterInCallback'
    <3>1. ASSUME NEW n \in 1..Len(calls'), n > 1 PROVE calls'[n].pc = "callback"
      <4>1. n # 1
        BY <3>1
      <4> QED BY <2>1, <2>6, <4>1, NobodyPerforms
    <3> QED BY <3>1 DEF OuterInCallback
  <2>8. \A n \in 1..Len(calls') :
          /\ Names(calls'[n].num, calls'[n].curl) /\ Safe(calls'[n].curl)
          /\ calls'[n].pc = "perform" => SafeLists(options[calls'[n].curl])
    BY <1>3, <2>3, <2>4, <2>5, <2>6
  <2> QED BY <2>1, <2>4, <2>7, <2>8, CallsKeep, NobodyPerforms
<1>5. calls # <<>> => phase = "loaded"
  BY <1>1 DEF LifeCycle
<1>6. CASE ExecCallback
  <2>1. /\ calls # <<>> /\ calls' = <<[Head(calls) EXCEPT !.pc = "callback"]>> \o Tail(calls)
        /\ UNCHANGED <<vars, phase, filled, options, requests, known, closed>>
    BY <1>6 DEF ExecCallback
  <2>2. /\ Tail(calls) \in Seq(Call) /\ Head(calls) \in Call /\ Head(calls) = calls[1]
        /\ Len(calls) > 0 /\ Len(Tail(calls)) = Len(calls) - 1
        /\ \A k \in 1..(Len(calls) - 1) : Tail(calls)[k] = calls[k + 1]
    BY <1>2, <2>1, TailPlaces
  <2>3. PICK e \in Call : e = [Head(calls) EXCEPT !.pc = "callback"]
    BY <2>2 DEF Call
  <2>4. e.curl = calls[1].curl /\ e.num = calls[1].num /\ e.pc = "callback"
    BY <2>2, <2>3 DEF Call
  <2>5. /\ calls' \in Seq(Call) /\ Len(calls') = Len(calls) /\ calls'[1] = e
        /\ \A k \in 1..(Len(calls) - 1) : calls'[k + 1] = Tail(calls)[k]
    BY <1>2, <2>1, <2>2, <2>3, PushPlaces
  <2>6. ASSUME NEW n \in 1..Len(calls'), n # 1 PROVE n \in 1..Len(calls) /\ calls'[n] = calls[n]
    <3>1. n - 1 \in 1..(Len(calls) - 1) /\ (n - 1) + 1 = n
      BY <1>2, <2>5, <2>6
    <3> QED BY <2>2, <2>5, <3>1
  <2>7. OuterInCallback'
    <3>1. ASSUME NEW n \in 1..Len(calls'), n > 1 PROVE calls'[n].pc = "callback"
      <4>1. n # 1
        BY <3>1
      <4> QED BY <1>1, <2>6, <3>1, <4>1 DEF OuterInCallback
    <3> QED BY <3>1 DEF OuterInCallback
  <2>8. 1 \in 1..Len(calls)
    BY <1>2, <2>2
  <2>9. \A n \in 1..Len(calls') :
          /\ Names(calls'[n].num, calls'[n].curl) /\ Safe(calls'[n].curl)
          /\ calls'[n].pc = "perform" => SafeLists(options[calls'[n].curl])
    BY <1>3, <2>4, <2>5, <2>6, <2>8
  <2> QED BY <1>5, <2>1, <2>5, <2>7, <2>9, CallsKeep
<1>7. CASE ExecReturns
  <2>1. /\ calls # <<>> /\ calls' = Tail(calls)
        /\ UNCHANGED <<vars, phase, filled, options, requests, known, closed>>
    BY <1>7 DEF ExecReturns
  <2>2. /\ calls' \in Seq(Call) /\ Len(calls') = Len(calls) - 1
        /\ \A k \in 1..(Len(calls) - 1) : calls'[k] = calls[k + 1]
    BY <1>2, <2>1, TailPlaces
  <2>3. ASSUME NEW n \in 1..Len(calls')
        PROVE  n + 1 \in 1..Len(calls) /\ n + 1 > 1 /\ calls'[n] = calls[n + 1]
    <3>1. n + 1 \in 1..Len(calls) /\ n + 1 > 1 /\ n \in 1..(Len(calls) - 1)
      BY <1>2, <2>2
    <3> QED BY <2>2, <3>1
  <2>4. OuterInCallback'
    BY <1>1, <2>3 DEF OuterInCallback
  <2> QED BY <1>3, <1>5, <2>1, <2>2, <2>3, <2>4, CallsKeep
<1> QED BY <1>4, <1>6, <1>7

\* A request goes on.
LEMMA RequestKeeps ==
  ASSUME NInv, IInv', NEW r \in Requests, NEW q \in Request,
         requests' = [requests EXCEPT ![r] = q],
         UNCHANGED <<vars, phase, filled, options, calls, known, closed>>,
         q.pc = "callback" => phase = "loaded",
         q.pc \in {"open", "perform", "done", "callback"} =>
           phase \in {"loaded", "unloading"} /\ q.curl \in Objects /\ Names(q.num, q.curl),
         q.pc \in {"open", "perform"} => SafeLists(q.lists),
         \A t \in ListTypes : q.lists[t] # NULL => kind[q.lists[t]] = t
  PROVE  NInv'
<1>1. IInv /\ NativesTypeOK /\ LifeCycle /\ OuterInCallback /\ Blank
      /\ NumbersNameCallers /\ OptionsTyped /\ UsesSafe
  BY DEF NInv
<1>2. UNCHANGED <<g_Handles, loop, kind, deleted>>
  BY DEF vars
<1>3. requests \in [Requests -> Request]
  BY <1>1 DEF NativesTypeOK
<1>4. \A x \in Requests : requests'[x] = IF x = r THEN q ELSE requests[x]
  BY <1>3
<1>5. \A x \in Running' : x \in Requests /\ (x = r \/ x \in Running)
  BY <1>4 DEF Running, InPC
<1>6. r \in Running' => q.pc \in {"open", "perform", "done", "callback"}
  BY <1>4 DEF Running, InPC
<1>7. NativesTypeOK'
  <2>1. TypeOK'
    BY DEF IInv
  <2> QED BY <1>1, <1>2, <1>3, <2>1 DEF NativesTypeOK
<1>8. LifeCycle'
  <2>1. ASSUME phase # "loaded" PROVE InPC("callback")' = {}
    <3>1. ASSUME NEW x \in InPC("callback")' PROVE FALSE
      <4>1. x \in Requests /\ requests'[x].pc = "callback"
        BY <3>1 DEF InPC
      <4>2. x # r
        BY <1>4, <2>1, <4>1
      <4>3. x \in InPC("callback")
        BY <1>4, <4>1, <4>2 DEF InPC
      <4> QED BY <1>1, <2>1, <4>3 DEF LifeCycle
    <3> QED BY <3>1
  <2>2. ASSUME phase \notin {"loaded", "unloading"} PROVE Running' = {}
    <3>1. r \notin Running'
      BY <1>6, <2>2
    <3> QED BY <1>1, <1>5, <2>2, <3>1 DEF LifeCycle
  <2> QED BY <1>1, <1>2, <2>1, <2>2 DEF LifeCycle
<1>9. OuterInCallback'
  BY <1>1 DEF OuterInCallback
<1>10. Blank'
  BY <1>1, <1>2, <1>4, <1>5, <1>6 DEF Blank
<1>11. NumbersNameCallers'
  <2>1. \A n, x : Names(n, x) => Names(n, x)'
    BY <1>2 DEF Names, GetHandle, Live
  <2>2. ASSUME NEW x \in Running' PROVE Names(requests[x].num, requests[x].curl)'
    <3>1. PICK n, o : n = requests'[x].num /\ o = requests'[x].curl
      OBVIOUS
    <3>2. Names(n, o)
      BY <1>4, <1>5, <1>6, <3>1, CallersNamed
    <3>3. Names(n, o)'
      BY <2>1, <3>2
    <3> QED BY <3>1, <3>3 DEF Names
  <2>3. ASSUME NEW n \in 1..Len(calls) PROVE Names(calls[n].num, calls[n].curl)'
    BY <1>2, CallersNamed DEF Names, GetHandle, Live
  <2> QED BY <2>2, <2>3 DEF NumbersNameCallers, Names
<1>12. OptionsTyped'
  BY <1>1, <1>2, <1>4 DEF OptionsTyped
<1>13. UsesSafe'
  BY <1>1, <1>2, <1>4 DEF UsesSafe, SafeLists, Safe, Live
<1> QED BY <1>7, <1>8, <1>9, <1>10, <1>11, <1>12, <1>13 DEF NInv

\* Requests are made of what plugins can name and go from place to place.
LEMMA RequestsKeep ==
  ASSUME NInv, IInv', NEW r \in Requests,
         \/ \E num \in known : CurlThreadExec(r, num)
         \/ Perform(r) \/ Performed(r) \/ FrameCallback(r) \/ FrameDelete(r)
  PROVE  NInv'
<1>1. IInv /\ NativesTypeOK /\ LifeCycle /\ Blank /\ NumbersNameCallers /\ OptionsTyped /\ UsesSafe
  BY DEF NInv
<1>2. /\ requests[r] \in Request
      /\ options \in [Objects -> [ListTypes -> Objects \cup {NULL}]]
  BY <1>1 DEF NativesTypeOK
<1>3. ASSUME NEW num \in known, CurlThreadExec(r, num) PROVE NInv'
  <2>1. /\ InPlugin /\ GetHandle(num, CurlType) # NULL
        /\ requests' = [requests EXCEPT ![r] =
             [pc |-> "open", curl |-> GetHandle(num, CurlType), num |-> num,
              lists |-> options[GetHandle(num, CurlType)]]]
        /\ UNCHANGED <<vars, phase, filled, options, calls, known, closed>>
    BY <1>3 DEF CurlThreadExec
  <2>2. PICK c \in Objects : /\ c = GetHandle(num, CurlType) /\ c = g_Handles[num]._ptr
                             /\ Live(num) /\ num \in Nat
    BY <1>1, <2>1, Resolved, TypeAssumption
  <2>3. [pc |-> "open", curl |-> c, num |-> num, lists |-> options[c]] \in Request
    BY <1>2, <2>2 DEF Request
  <2>4. PICK q \in Request : q = [pc |-> "open", curl |-> c, num |-> num, lists |-> options[c]]
    BY <2>3
  <2>5. q.pc = "open" /\ q.curl = c /\ q.num = num /\ q.lists = options[c]
    BY <2>4
  <2>6. SafeLists(q.lists) /\ Names(q.num, q.curl) /\ phase = "loaded"
    BY <1>1, <2>1, <2>2, <2>5 DEF UsesSafe, Names, InPlugin
  <2>7. \A t \in ListTypes : q.lists[t] # NULL => kind[q.lists[t]] = t
    BY <1>1, <2>5 DEF OptionsTyped
  <2>8. requests' = [requests EXCEPT ![r] = q]
    BY <2>1, <2>2, <2>4
  <2> QED BY <2>1, <2>5, <2>6, <2>7, <2>8, RequestKeeps
<1>4. ASSUME NEW from \in {"open", "perform", "done", "callback"},
             NEW to \in {"open", "perform", "done", "callback", "over"}, Move(r, from, to),
             UNCHANGED <<vars, phase, filled, options, calls, known, closed>>,
             to = "callback" => phase = "loaded",
             to \in {"open", "perform"} => from \in {"open", "perform"}
      PROVE  NInv'
  <2>1. requests[r].pc = from /\ requests' = [requests EXCEPT ![r].pc = to]
    BY <1>4 DEF Move
  <2>2. PICK p \in Request : p = requests[r]
    BY <1>2
  <2>3. PICK q \in Request : q = [p EXCEPT !.pc = to]
    BY DEF Request
  <2>4. q.pc = to /\ q.curl = p.curl /\ q.num = p.num /\ q.lists = p.lists
    BY <2>3 DEF Request
  <2>5. r \in Running
    BY <2>1 DEF Running, InPC
  <2>6. phase \in {"loaded", "unloading"} /\ q.curl \in Objects /\ Names(q.num, q.curl)
    BY <1>1, <2>2, <2>4, <2>5, CallersNamed DEF LifeCycle
  <2>7. q.pc \in {"open", "perform"} => SafeLists(q.lists)
    BY <1>1, <1>4, <2>1, <2>2, <2>4 DEF UsesSafe
  <2>8. \A t \in ListTypes : q.lists[t] # NULL => kind[q.lists[t]] = t
    BY <1>1, <2>2, <2>4 DEF OptionsTyped
  <2>9. requests' = [requests EXCEPT ![r] = q]
    BY <2>1, <2>2, <2>3
  <2>10. q.pc = "callback" => phase = "loaded"
    BY <1>4, <2>4
  <2> QED BY <1>4, <2>6, <2>7, <2>8, <2>9, <2>10, RequestKeeps
<1>5. CASE Perform(r)
  BY <1>4, <1>5 DEF Perform
<1>6. CASE Performed(r)
  BY <1>4, <1>6 DEF Performed
<1>7. CASE FrameCallback(r)
  BY <1>4, <1>7 DEF FrameCallback
<1>8. CASE FrameDelete(r)
  BY <1>4, <1>8 DEF FrameDelete
<1> QED BY <1>3, <1>5, <1>6, <1>7, <1>8

-----------------------------------------------------------------------------
(* What the module's life cycle keeps *)

\* Between two maps nobody uses an object, whatever the loops delete.
LEMMA OutsideKeeps ==
  ASSUME NInv, IInv', phase \notin {"loaded", "unloading"}, phase' \in Phases \ {"unloading"},
         loop' # "none" => phase' \in {"attached", "detached"}, UNCHANGED <<kind, natives>>
  PROVE  NInv'
<1>1. IInv /\ NativesTypeOK /\ LifeCycle /\ Blank /\ OptionsTyped /\ UsesSafe
  BY DEF NInv
<1>2. UNCHANGED <<filled, options, calls, requests, known, closed>>
  BY DEF natives
<1>3. /\ known = {} /\ calls = <<>> /\ Len(calls) = 0 /\ Running = {}
      /\ InPC("callback") = {} /\ InPC("open") = {} /\ InPC("perform") = {}
  BY <1>1 DEF LifeCycle, Running
<1>4. Running' = {} /\ InPC("callback")' = {}
  BY <1>2, <1>3 DEF Running, InPC
<1>5. NativesTypeOK'
  <2>1. TypeOK'
    BY DEF IInv
  <2> QED BY <1>1, <1>2, <2>1 DEF NativesTypeOK
<1>6. LifeCycle' /\ OuterInCallback'
  BY <1>2, <1>3, <1>4 DEF LifeCycle, OuterInCallback
<1>7. Blank' /\ OptionsTyped'
  BY <1>1, <1>2, <1>4 DEF Blank, OptionsTyped
<1>8. NumbersNameCallers'
  BY <1>2, <1>3, <1>4 DEF NumbersNameCallers
<1>9. UsesSafe'
  BY <1>2, <1>3 DEF UsesSafe, InPC
<1> QED BY <1>5, <1>6, <1>7, <1>8, <1>9 DEF NInv

LEMMA PhasesKeep ==
  ASSUME NInv, IInv',
         \/ OnPluginsLoaded \/ OnPluginsUnloading \/ WorkerStopped
         \/ OnPluginsUnloaded \/ OnAmxxDetach \/ OnAmxxAttach \/ FreeLoop
  PROVE  NInv'
<1>1. IInv /\ NativesTypeOK /\ LifeCycle /\ OuterInCallback /\ Blank
      /\ NumbersNameCallers /\ OptionsTyped /\ UsesSafe
  BY DEF NInv
<1>2. CASE OnPluginsLoaded \/ OnAmxxAttach
  <2>1. UNCHANGED <<kind, loop, natives>> /\ loop = "none"
    BY <1>2 DEF OnPluginsLoaded, OnAmxxAttach, Go, vars
  <2>2. phase \in {"attached", "detached"} /\ phase' \in {"loaded", "attached"}
    BY <1>2 DEF OnPluginsLoaded, OnAmxxAttach, Go
  <2> QED BY <2>1, <2>2, OutsideKeeps DEF Phases
<1>3. CASE OnPluginsUnloaded \/ OnAmxxDetach
  <2>1. UNCHANGED <<kind, natives>>
    BY <1>3 DEF OnPluginsUnloaded, OnAmxxDetach, LoopBegin
  <2>2. phase \in {"unloaded", "attached"} /\ phase' \in {"attached", "detached"}
    BY <1>3 DEF OnPluginsUnloaded, OnAmxxDetach, Go
  <2> QED BY <2>1, <2>2, OutsideKeeps DEF Phases
<1>4. CASE FreeLoop
  <2>1. UNCHANGED <<kind, phase, natives>> /\ loop # "none"
    BY <1>4 DEF FreeLoop, LoopRound, FreeAllEnd, FreeTableEnd
  <2>2. phase \in {"attached", "detached"}
    BY <1>1, <2>1 DEF LifeCycle
  <2> QED BY <2>1, <2>2, OutsideKeeps DEF Phases
<1>5. CASE OnPluginsUnloading
  <2>1. /\ phase' = "unloading" /\ loop = "none" /\ calls = <<>> /\ InPC("callback") = {}
        /\ UNCHANGED <<g_Handles, loop, kind, deleted>>
        /\ UNCHANGED <<filled, options, calls, requests, known, closed>>
    BY <1>5 DEF OnPluginsUnloading, Go, vars, natives
  <2>2. NativesTypeOK'
    <3>1. TypeOK'
      BY DEF IInv
    <3> QED BY <1>1, <2>1, <3>1 DEF NativesTypeOK, Phases
  <2>3. LifeCycle' /\ OuterInCallback' /\ Blank'
    BY <1>1, <2>1 DEF LifeCycle, OuterInCallback, Blank, InPC, Running
  <2>4. NumbersNameCallers' /\ OptionsTyped'
    BY <1>1, <2>1 DEF NumbersNameCallers, OptionsTyped, GetHandle, Live, Running, InPC
  <2>5. UsesSafe'
    BY <1>1, <2>1 DEF UsesSafe, SafeLists, Safe, Live
  <2> QED BY <2>2, <2>3, <2>4, <2>5 DEF NInv
<1>6. CASE WorkerStopped
  <2>1. /\ phase = "unloading" /\ phase' = "unloaded" /\ loop = "none"
        /\ InPC("open") = {} /\ InPC("perform") = {}
        /\ requests' = Dropped({"done"}) /\ known' = {}
        /\ UNCHANGED <<g_Handles, loop, kind, deleted>>
        /\ UNCHANGED <<filled, options, calls, closed>>
    BY <1>6 DEF WorkerStopped, Go, vars
  <2>2. calls = <<>> /\ Len(calls) = 0 /\ InPC("callback") = {}
    BY <1>1, <2>1 DEF LifeCycle
  <2>3. ASSUME NEW r \in Requests
        PROVE  /\ requests'[r] \in Request /\ requests'[r].lists = requests[r].lists
               /\ requests'[r].pc \notin {"open", "perform", "done", "callback"}
    <3>1. requests[r] \in Request /\ requests[r].pc \notin {"open", "perform", "callback"}
      BY <1>1, <2>1, <2>2 DEF NativesTypeOK, InPC
    <3>2. requests'[r] = IF requests[r].pc \in {"done"} THEN [requests[r] EXCEPT !.pc = "over"]
                         ELSE requests[r]
      BY <2>1 DEF Dropped
    <3> QED BY <3>1, <3>2 DEF Request
  <2>4. Running' = {} /\ InPC("callback")' = {}
    BY <2>3 DEF Running, InPC
  <2>5. requests' \in [Requests -> Request]
    BY <2>1, <2>3 DEF Dropped
  <2>6. NativesTypeOK'
    <3>1. TypeOK'
      BY DEF IInv
    <3> QED BY <1>1, <2>1, <2>5, <3>1 DEF NativesTypeOK, Phases
  <2>7. LifeCycle' /\ OuterInCallback' /\ Blank'
    BY <1>1, <2>1, <2>2, <2>4 DEF LifeCycle, OuterInCallback, Blank
  <2>8. NumbersNameCallers' /\ OptionsTyped'
    BY <1>1, <2>1, <2>2, <2>3, <2>4 DEF NumbersNameCallers, OptionsTyped
  <2>9. UsesSafe'
    BY <2>1, <2>2, <2>3 DEF UsesSafe
  <2> QED BY <2>6, <2>7, <2>8, <2>9 DEF NInv
<1> QED BY <1>2, <1>3, <1>4, <1>5, <1>6

-----------------------------------------------------------------------------
(* Theorems *)

LEMMA NativesStart == NativesInit => NInv
<1> SUFFICES ASSUME NativesInit PROVE NInv
  OBVIOUS
<1> USE DEF NativesInit
<1>1. IInv
  BY InvInit
<1>2. NoLists \in [ListTypes -> Objects \cup {NULL}] /\ \A t \in ListTypes : NoLists[t] = NULL
  BY DEF NoLists
<1>3. Running = {} /\ InPC("callback") = {} /\ Len(calls) = 0 /\ loop = "none"
  BY DEF Running, InPC, Init
<1>4. NativesTypeOK
  <2>1. [pc |-> "new", curl |-> NULL, num |-> 0, lists |-> NoLists] \in Request
    BY <1>2 DEF Request
  <2>2. requests \in [Requests -> Request] /\ calls \in Seq(Call)
    BY <2>1
  <2> QED BY <1>1, <1>2, <2>2 DEF NativesTypeOK, Phases, IInv
<1>5. LifeCycle /\ OuterInCallback /\ Blank /\ NumbersNameCallers
  BY <1>3 DEF LifeCycle, OuterInCallback, Blank, NumbersNameCallers
<1>6. OptionsTyped /\ UsesSafe
  BY <1>2, <1>3 DEF OptionsTyped, UsesSafe
<1> QED BY <1>1, <1>4, <1>5, <1>6 DEF NInv

LEMMA NativesStep == NInv /\ [NativesNext]_allVars => NInv'
<1> SUFFICES ASSUME NInv, [NativesNext]_allVars PROVE NInv'
  OBVIOUS
<1>1. IInv'
  BY StepsOfTable, InvStep DEF NInv
<1>2. ASSUME NEW num \in known, Destroy(num) PROVE NInv'
  BY <1>1, <1>2, DestroyKeeps
<1>3. ASSUME NEW num \in known, NEW type \in ListTypes, ListAdd(num, type) PROVE NInv'
  BY <1>1, <1>3, ListAddKeeps
<1>4. ASSUME NEW r \in Requests,
             \/ \E num \in known : CurlThreadExec(r, num)
             \/ Perform(r) \/ Performed(r) \/ FrameCallback(r) \/ FrameDelete(r)
      PROVE  NInv'
  BY <1>1, <1>4, RequestsKeep
<1>5. CASE (\E num \in known : CurlExec(num)) \/ ExecCallback \/ ExecReturns
  BY <1>1, <1>5, ExecKeeps
<1>6. CASE \/ \E o \in Objects, type \in Types : Create(o, type)
           \/ \E num \in known, o \in Objects : CurlDupHandle(num, o)
           \/ \E num \in known : CurlReset(num)
           \/ \E num \in known, type \in ListTypes, list \in known : CurlSetOptHandle(num, type, list)
  BY <1>1, <1>6, ObjectNativesKeep
<1>7. CASE \/ OnPluginsLoaded \/ OnPluginsUnloading \/ WorkerStopped
           \/ OnPluginsUnloaded \/ OnAmxxDetach \/ OnAmxxAttach \/ FreeLoop
  BY <1>1, <1>7, PhasesKeep
<1>8. CASE UNCHANGED allVars
  <2>1. UNCHANGED <<g_Handles, loop, kind, deleted>>
        /\ UNCHANGED <<phase, filled, options, calls, requests, known, closed>>
    BY <1>8 DEF allVars, vars, natives
  <2>2. NativesTypeOK' /\ LifeCycle' /\ OuterInCallback' /\ Blank'
    BY <1>1, <2>1 DEF NInv, IInv, NativesTypeOK, LifeCycle, OuterInCallback, Blank, InPC, Running
  <2>3. NumbersNameCallers' /\ OptionsTyped' /\ UsesSafe'
    BY <2>1 DEF NInv, NumbersNameCallers, OptionsTyped, UsesSafe, SafeLists, Safe, GetHandle, Live,
                Running, InPC
  <2> QED BY <1>1, <2>2, <2>3 DEF NInv
<1> QED BY <1>2, <1>3, <1>4, <1>5, <1>6, <1>7, <1>8 DEF NativesNext

\* Whatever plugins call, callbacks call again, the worker performs and the host
\* loads and unloads: the strengthened invariant of natives and table holds.
THEOREM NativesInductive == NativesSpec => []NInv
  BY NativesStart, NativesStep, PTL DEF NativesSpec

\* The natives, the transfers and the life cycle move the table only as its own
\* specification allows, so everything proved of HandleTable holds under them.
THEOREM NativesUseTable == NativesSpec => Spec
<1>1. NativesInit => Init
  BY DEF NativesInit
<1>2. NInv /\ [NativesNext]_allVars => [Next]_vars
  BY StepsOfTable DEF NInv
<1> QED BY <1>1, <1>2, NativesInductive, PTL DEF NativesSpec, Spec

\* The table's promises to a plugin, under every use its natives make of it: slots
\* are handed out exactly, numbers resolve to live objects of their type, loops
\* leave no pair, and the table is the abstract store.
THEOREM NativesKeepTable ==
  NativesSpec => [](FreeListExact /\ ResolvesToLive /\ LoopLeavesNoPair) /\ KeepsStore
  BY NativesUseTable, FreeListCorrect, ResolvesCorrect, LoopCorrect, Implements, PTL

\* The variables of the natives keep their types.
THEOREM NativesTypeCorrect == NativesSpec => []NativesTypeOK
<1>1. NInv => NativesTypeOK
  BY DEF NInv
<1> QED BY <1>1, NativesInductive, PTL

\* curl_exec, StartFrame: the number a callback gets names the Curl the call was
\* made for, as long as that lives.
THEOREM NumbersCorrect == NativesSpec => []NumbersNameCallers
<1>1. NInv => NumbersNameCallers
  BY DEF NInv
<1> QED BY <1>1, NativesInductive, PTL

\* OnPluginsUnloaded, OnAmxxDetach: only plugins delete what a transfer or a
\* curl_exec uses, although the loops free other handles than those they look for.
THEOREM PullAwayCorrect == NativesSpec => []OnlyPluginsPullAway
<1>1. NInv => OnlyPluginsPullAway
  <2> SUFFICES ASSUME NInv, NEW o \in InUse PROVE Safe(o)
    BY DEF OnlyPluginsPullAway, Safe
  <2>1. CASE \E n \in 1..Len(calls) : o = calls[n].curl
    BY <2>1 DEF NInv, UsesSafe
  <2>2. CASE \E n \in 1..Len(calls) :
               calls[n].pc = "perform" /\ o \in Pointed(options[calls[n].curl])
    BY <2>2 DEF NInv, UsesSafe, SafeLists, Pointed
  <2>3. CASE \E r \in InPC("perform") : o \in Pointed(requests[r].lists)
    BY <2>3 DEF NInv, UsesSafe, SafeLists, Pointed, InPC
  <2> QED BY <2>1, <2>2, <2>3, Zenon DEF InUse
<1> QED BY <1>1, NativesInductive, PTL

\* SetOptionHandle: an option points into a list of its own type, in originals,
\* duplicates and requests.
THEOREM OptionsCorrect == NativesSpec => []OptionsTyped
<1>1. NInv => OptionsTyped
  BY DEF NInv
<1> QED BY <1>1, NativesInductive, PTL
=============================================================================
