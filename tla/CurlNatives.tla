----------------------------- MODULE CurlNatives -----------------------------
(***************************************************************************)
(* base_curl.cpp and thread_curl.cpp on top of the handle table: which     *)
(* objects a plugin's calls, the transfers under way and the module's life *)
(* cycle use and delete.                                                   *)
(*                                                                         *)
(* Options that take a handle make libcurl keep the pointer that is inside *)
(* the list (a header list or a form) at that moment; libcurl extends a    *)
(* list in place, so from its first entry on the pointer stays the same.   *)
(* A duplicate shares these pointers with its original.                    *)
(*                                                                         *)
(* The worker is abstract here: it performs the open requests one at a     *)
(* time and is empty when Stop(false) returns, which is what AsyncExec     *)
(* and ThreadWorker are about.  The host unloads plugins before it         *)
(* detaches the module, and the plugins of a map use only numbers they     *)
(* were given: those of the last map name what the loops left behind.      *)
(***************************************************************************)
EXTENDS HandleTable

CONSTANTS
  Requests,   \* calls of curl_thread_exec, each once
  MaxDepth    \* bound on nested calls of curl_exec

ASSUME DepthAssumption == MaxDepth \in Nat

VARIABLES
  phase,      \* where the host is with this module
  filled,     \* lists with at least one entry
  options,    \* for each Curl, the list each of its handle options points into
  calls,      \* the curl_exec calls the main thread is in, the innermost first
  requests,   \* the CurlThread of each request
  known,      \* the numbers this map's plugins were given
  closed      \* history: objects a plugin closed or destroyed itself

natives == <<filled, options, calls, requests, known, closed>>
allVars == <<vars, phase, natives>>

ListTypes == Types \ {CurlType}
NoLists   == [t \in ListTypes |-> NULL]
Phases    == {"detached", "attached", "loaded", "unloading", "unloaded"}
Call      == [curl : Objects, num : Nat, pc : {"perform", "callback"}]
Request   == [pc : {"new", "open", "perform", "done", "callback", "over"},
              curl : Objects \cup {NULL}, num : Nat,
              lists : [ListTypes -> Objects \cup {NULL}]]

NativesInit ==
  /\ Init
  /\ phase = "attached" /\ filled = {} /\ known = {} /\ closed = {}
  /\ options = [o \in Objects |-> NoLists]
  /\ calls = <<>>
  /\ requests = [r \in Requests |-> [pc |-> "new", curl |-> NULL, num |-> 0, lists |-> NoLists]]

Move(r, from, to) ==
  /\ requests[r].pc = from
  /\ requests' = [requests EXCEPT ![r].pc = to]

\* Plugin code runs: between two frames, or in the innermost callback.
InPlugin ==
  /\ phase = "loaded"
  /\ calls # <<>> => Head(calls).pc = "callback"

-----------------------------------------------------------------------------
(* Natives that make, change and delete objects *)

\* MakeHandle, and the number it returns.
NewHandle(o, type) ==
  /\ InPlugin
  /\ MakeHandle(o, type)
  /\ known' = known \cup {n \in 1..Len(g_Handles') : g_Handles'[n]._ptr = o}

\* curl_init, curl_create_slist, curl_create_form
Create(o, type) ==
  /\ NewHandle(o, type)
  /\ UNCHANGED <<phase, filled, options, calls, requests, closed>>

CurlDupHandle(num, o) ==
  /\ GetHandle(num, CurlType) # NULL
  /\ NewHandle(o, CurlType)
  /\ options' = [options EXCEPT ![o] = options[GetHandle(num, CurlType)]]
  /\ UNCHANGED <<phase, filled, calls, requests, closed>>

\* curl_close, curl_destroy_slist, curl_destroy_form
Destroy(num) ==
  /\ InPlugin /\ Live(num)
  /\ Close(num)
  /\ closed' = closed \cup {g_Handles[num]._ptr}
  /\ UNCHANGED <<phase, filled, options, calls, requests, known>>

CurlReset(num) ==
  /\ InPlugin /\ GetHandle(num, CurlType) # NULL
  /\ options' = [options EXCEPT ![GetHandle(num, CurlType)] = NoLists]
  /\ UNCHANGED <<vars, phase, filled, calls, requests, known, closed>>

\* Mutant: the type of the handle is not looked at.
ListAddAnyType(num, type) ==
  /\ InPlugin /\ Live(num)
  /\ filled' = filled \cup {g_Handles[num]._ptr}
  /\ UNCHANGED <<vars, phase, options, calls, requests, known, closed>>

\* curl_slist_append, curl_form_add
ListAdd(num, type) ==
  /\ InPlugin /\ GetHandle(num, type) # NULL
  /\ filled' = filled \cup {GetHandle(num, type)}
  /\ UNCHANGED <<vars, phase, options, calls, requests, known, closed>>

\* slist->slist, form->GetFormData(): an empty list is a NULL pointer, and what is
\* added to it later is not seen.
Pointer(list) == IF list \in filled THEN list ELSE NULL

\* Mutant: whatever the handle names is taken for a list of the option's type.
CurlSetOptHandleAnyType(num, type, list) ==
  /\ InPlugin /\ GetHandle(num, CurlType) # NULL /\ Live(list)
  /\ LET o == g_Handles[list]._ptr
     IN  options' = [options EXCEPT ![GetHandle(num, CurlType)][type] = Pointer(o)]
  /\ UNCHANGED <<vars, phase, filled, calls, requests, known, closed>>

CurlSetOptHandle(num, type, list) ==
  /\ InPlugin /\ GetHandle(num, CurlType) # NULL /\ GetHandle(list, type) # NULL
  /\ LET o == GetHandle(list, type)
     IN  options' = [options EXCEPT ![GetHandle(num, CurlType)][type] = Pointer(o)]
  /\ UNCHANGED <<vars, phase, filled, calls, requests, known, closed>>

-----------------------------------------------------------------------------
(* curl_exec *)

CurlExec(num) ==
  /\ InPlugin /\ Len(calls) < MaxDepth
  /\ GetHandle(num, CurlType) # NULL
  /\ calls' = <<[curl |-> GetHandle(num, CurlType), num |-> num, pc |-> "perform"]>> \o calls
  /\ UNCHANGED <<vars, phase, filled, options, requests, known, closed>>

\* curl_easy_perform returns and the callback is called with the number.
ExecCallback ==
  /\ calls # <<>> /\ Head(calls).pc = "perform"
  /\ calls' = <<[Head(calls) EXCEPT !.pc = "callback"]>> \o Tail(calls)
  /\ UNCHANGED <<vars, phase, filled, options, requests, known, closed>>

\* write_data.Flush() and return; without a callback, or with an unknown one,
\* straight after the transfer.
ExecReturns ==
  /\ calls # <<>>
  /\ calls' = Tail(calls)
  /\ UNCHANGED <<vars, phase, filled, options, requests, known, closed>>

-----------------------------------------------------------------------------
(* curl_thread_exec, the worker and StartFrame *)

\* The duplicate shares the lists; the CurlThread keeps the number.
CurlThreadExec(r, num) ==
  /\ InPlugin /\ requests[r].pc = "new"
  /\ GetHandle(num, CurlType) # NULL
  /\ LET c == GetHandle(num, CurlType)
     IN  requests' = [requests EXCEPT ![r] =
           [pc |-> "open", curl |-> c, num |-> num, lists |-> options[c]]]
  /\ UNCHANGED <<vars, phase, filled, options, calls, known, closed>>

InPC(pc) == {r \in Requests : requests[r].pc = pc}

Perform(r) ==
  /\ InPC("perform") = {}
  /\ Move(r, "open", "perform")
  /\ UNCHANGED <<vars, phase, filled, options, calls, known, closed>>

Performed(r) ==
  /\ Move(r, "perform", "done")
  /\ UNCHANGED <<vars, phase, filled, options, calls, known, closed>>

FrameCallback(r) ==
  /\ phase = "loaded" /\ calls = <<>> /\ InPC("callback") = {}
  /\ Move(r, "done", "callback")
  /\ UNCHANGED <<vars, phase, filled, options, calls, known, closed>>

FrameDelete(r) ==
  /\ phase = "loaded" /\ calls = <<>>
  /\ Move(r, "callback", "over")
  /\ UNCHANGED <<vars, phase, filled, options, calls, known, closed>>

-----------------------------------------------------------------------------
(* The life cycle: module.cpp, and the worker's part in thread_curl.cpp *)

Go(from, to) == phase \in from /\ loop = "none" /\ phase' = to

OnPluginsLoaded == Go({"attached"}, "loaded") /\ UNCHANGED <<vars, natives>>

OnPluginsUnloading ==
  /\ Go({"loaded"}, "unloading")
  /\ calls = <<>> /\ InPC("callback") = {}
  /\ UNCHANGED <<vars, natives>>

Dropped(pcs) ==
  [r \in Requests |-> IF requests[r].pc \in pcs THEN [requests[r] EXCEPT !.pc = "over"]
                      ELSE requests[r]]

\* Mutant: Stop(false) does not wait for the thread.
WorkerStoppedEarly ==
  /\ Go({"unloading"}, "unloaded")
  /\ requests' = Dropped({"done"}) /\ known' = {}
  /\ UNCHANGED <<vars, filled, options, calls, closed>>

\* Stop(false) returns; the finished CurlThreads are discarded.
WorkerStopped ==
  /\ Go({"unloading"}, "unloaded")
  /\ InPC("open") = {} /\ InPC("perform") = {}
  /\ requests' = Dropped({"done"}) /\ known' = {}
  /\ UNCHANGED <<vars, filled, options, calls, closed>>

\* FreeAllHandles(HANDLE_CURL) begins.
OnPluginsUnloaded ==
  /\ Go({"unloaded"}, "attached")
  /\ LoopBegin("all")
  /\ UNCHANGED natives

\* FreeHandleTable() begins; the worker is gone.
OnAmxxDetach ==
  /\ Go({"unloaded", "attached"}, "detached")
  /\ LoopBegin("table")
  /\ UNCHANGED natives

OnAmxxAttach == Go({"detached"}, "attached") /\ UNCHANGED <<vars, natives>>

FreeLoop == (LoopRound \/ FreeAllEnd \/ FreeTableEnd) /\ UNCHANGED <<phase, natives>>

NativesNext ==
  \/ \E o \in Objects, type \in Types : Create(o, type)
  \/ \E num \in known :
       \/ Destroy(num) \/ CurlReset(num) \/ CurlExec(num)
       \/ \E o \in Objects : CurlDupHandle(num, o)
       \/ \E type \in ListTypes : ListAdd(num, type)
       \/ \E type \in ListTypes, list \in known : CurlSetOptHandle(num, type, list)
       \/ \E r \in Requests : CurlThreadExec(r, num)
  \/ ExecCallback \/ ExecReturns
  \/ \E r \in Requests : Perform(r) \/ Performed(r) \/ FrameCallback(r) \/ FrameDelete(r)
  \/ OnPluginsLoaded \/ OnPluginsUnloading \/ WorkerStopped \/ OnPluginsUnloaded
  \/ OnAmxxDetach \/ OnAmxxAttach \/ FreeLoop

NativesSpec == NativesInit /\ [][NativesNext]_allVars

-----------------------------------------------------------------------------
(* Properties *)

NativesTypeOK ==
  /\ TypeOK /\ phase \in Phases
  /\ filled \subseteq {o \in Objects : kind[o] \in ListTypes} /\ closed \subseteq Objects
  /\ options \in [Objects -> [ListTypes -> Objects \cup {NULL}]]
  /\ calls \in Seq(Call)
  /\ requests \in [Requests -> Request] /\ known \subseteq 1..MaxHandles

Running == InPC("open") \cup InPC("perform") \cup InPC("done") \cup InPC("callback")

\* The number that curl_exec and StartFrame pass to a callback names the Curl the
\* call was made for, for as long as that object lives: neither reuse of slots
\* nor nested calls of other natives give it to another object.
NumbersNameCallers ==
  /\ \A n \in 1..Len(calls) :
       deleted[calls[n].curl] = 0 => GetHandle(calls[n].num, CurlType) = calls[n].curl
  /\ \A r \in Running :
       deleted[requests[r].curl] = 0 => GetHandle(requests[r].num, CurlType) = requests[r].curl

Pointed(lists) == {lists[t] : t \in ListTypes} \ {NULL}

\* What transfers and curl_exec calls under way use.
InUse ==
  {calls[n].curl : n \in 1..Len(calls)}
    \cup (UNION {Pointed(options[calls[n].curl]) : n \in {m \in 1..Len(calls) : calls[m].pc = "perform"}})
    \cup (UNION {Pointed(requests[r].lists) : r \in InPC("perform")})

\* Unloading, detaching and the loops that free the wrong handles never delete an
\* object that a transfer or a curl_exec uses; only the plugin itself does, which
\* README.md:62 warns of for lists.
OnlyPluginsPullAway == \A o \in InUse : deleted[o] = 0 \/ o \in closed

\* The type-unsafe pointers of SetOptionHandle: an option holds a list of its own
\* type that had an entry when it was set, also in duplicates and in requests.
OptionsTyped ==
  \A t \in ListTypes :
    /\ \A o \in Objects : options[o][t] # NULL => kind[options[o][t]] = t /\ options[o][t] \in filled
    /\ \A r \in Requests : requests[r].lists[t] # NULL => kind[requests[r].lists[t]] = t

\* README.md's callback closes its handle (README.md:23, :127): curl_exec flushes
\* the buffer of a Curl object that is alive.
FlushesLiveCurl == \A n \in 1..Len(calls) : deleted[calls[n].curl] = 0
=============================================================================
