----------------------------- MODULE WriteBuffer -----------------------------
(***************************************************************************)
(* lib/curl_wrap: how the response of a transfer gets into the buffer of   *)
(* its Curl object, and base_curl.cpp, thread_curl.cpp: when it is read,   *)
(* flushed and copied.                                                     *)
(*                                                                         *)
(* The main thread is inside a stack of curl_exec calls (a callback may    *)
(* call curl_exec again, also for the same handle); the worker's thread    *)
(* performs one transfer on a duplicate.  A byte is a pair: the transfer   *)
(* that received it and its place in that response.                        *)
(*                                                                         *)
(* WriteFunction hands the chunk to snprintf as its format and does not    *)
(* say how long it is.  So a byte is plain or special: a '%', which begins *)
(* a directive without an argument, or a NUL, which ends the format.  What *)
(* snprintf makes of a special byte and all behind it, and of the memory   *)
(* behind a chunk that no NUL follows, is Junk of any length.  (A          *)
(* directive that ends the process ends the behaviour.)                    *)
(*                                                                         *)
(* A curl_exec without a callback is one whose callback does nothing.      *)
(* Plugins are loaded, and no handle is closed: what becomes of objects is *)
(* the subject of HandleTable and CurlThreads.                             *)
(***************************************************************************)
EXTENDS Naturals, Sequences, Functions

CONSTANTS
  Curls,         \* Curl objects
  BufferSize,    \* BUFFER_SIZE
  ChunkSizes,    \* lengths of what libcurl hands to WriteFunction at once
  SpecialBytes,  \* do servers send bytes that are not plain?
  JunkLengths,   \* how much of it snprintf may print
  NUL, Junk,     \* the end of a string; what no transfer received
  MaxTransfers,  \* bound on the number of transfers
  MaxReceived,   \* bound on the length of a response
  MaxDepth       \* bound on nested calls of curl_exec

ASSUME BufferAssumption == BufferSize \in Nat /\ BufferSize > 1
ASSUME ChunkAssumption  == ChunkSizes \subseteq Nat \ {0}
ASSUME FormatAssumption == SpecialBytes \in BOOLEAN /\ JunkLengths \subseteq Nat
ASSUME LimitAssumption  == {MaxTransfers, MaxReceived, MaxDepth} \subseteq Nat

VARIABLES
  owner,     \* who may use a Curl object: nobody, plugins, or the worker
  buf, size, \* its CurlWrite's buffer
  last_error, \* the transfer whose code it keeps, 0 before the first
  calls,     \* the curl_exec calls the main thread is in, the innermost first
  jobs,      \* transfers of the worker: under way, finished, or answered by StartFrame
  started,   \* how many transfers began
  damaged,   \* did WriteFunction begin outside of the buffer?
  told,      \* history: the last response a callback was given
  spoiled    \* history: buffers that kept bytes of an earlier transfer

vars == <<owner, buf, size, last_error, calls, jobs, started, damaged, told, spoiled>>
objects == <<owner, buf, size, last_error>>

Byte  == (1..MaxTransfers) \X (1..MaxReceived)
Cells == Byte \cup {NUL, Junk}

\* The marks of the model are no bytes of a response.
ASSUME CellAssumption == NUL # Junk /\ {NUL, Junk} \cap Byte = {}

\* A transfer: how much it found and got; history: how many plain bytes it got
\* before the first special one, and how much junk was printed last.
Frame == [curl : Curls, t : 1..MaxTransfers, from : Nat, got : 0..MaxReceived,
          plain : 0..MaxReceived, junk : Nat, pc : {"perform", "done", "callback"}]

Init ==
  /\ owner = [c \in Curls |-> "none"]
  /\ buf = [c \in Curls |-> [n \in 1..BufferSize |-> Junk]]
  /\ size = [c \in Curls |-> 0] /\ last_error = [c \in Curls |-> 0]
  /\ calls = <<>> /\ jobs = {} /\ started = 0
  /\ damaged = FALSE /\ told = {} /\ spoiled = {}

AtMost(n, max) == IF n < max THEN n ELSE max

\* What a C string reader sees.
Text(b) ==
  LET end == CHOOSE n \in 0..BufferSize :
               /\ n = BufferSize \/ b[n + 1] = NUL
               /\ \A m \in 1..n : b[m] # NUL
  IN  SubSeq(b, 1, end)

\* Mutant: the size given to snprintf is that of the whole buffer.
PrintedWholeSize(b, offset, s) ==
  LET kept == AtMost(Len(s), BufferSize - 1)
      last == IF offset + kept + 1 < BufferSize THEN BufferSize ELSE offset + kept + 1
  IN  [n \in 1..last |->
         IF n \in (offset + 1)..(offset + kept) THEN s[n - offset]
         ELSE IF n = offset + kept + 1 THEN NUL ELSE b[n]]

\* What snprintf prints for a format of which the first n bytes are plain.
Expanded(chunk, n, junk) == SubSeq(chunk, 1, n) \o [k \in 1..junk |-> Junk]

\* Mutant: no NUL is put behind the string.
PrintedNoEnd(b, offset, s) ==
  LET kept == AtMost(Len(s), BufferSize - offset - 1)
  IN  IF offset = BufferSize THEN b
      ELSE [n \in 1..BufferSize |->
              IF n \in (offset + 1)..(offset + kept) THEN s[n - offset] ELSE b[n]]

\* snprintf puts the string s into b, at most up to its last cell but one.
Printed(b, offset, s) ==
  LET kept == AtMost(Len(s), BufferSize - offset - 1)
  IN  IF offset = BufferSize THEN b
      ELSE [n \in 1..BufferSize |->
              IF n \in (offset + 1)..(offset + kept) THEN s[n - offset]
              ELSE IF n = offset + kept + 1 THEN NUL ELSE b[n]]

\* The main thread runs plugin code: between calls or in an innermost callback.
InPlugin == ~damaged /\ (calls # <<>> => Head(calls).pc = "callback")

NewFrame(c) ==
  [curl |-> c, t |-> started + 1, from |-> size[c], got |-> 0, plain |-> 0, junk |-> 0,
   pc |-> "perform"]

\* Mutant: the buffer is not emptied.
FlushNothing(c) == UNCHANGED <<size, spoiled>>

Flush(c) == size' = [size EXCEPT ![c] = 0] /\ spoiled' = spoiled \ {c}

-----------------------------------------------------------------------------
(* Natives *)

\* The constructor leaves the buffer as the memory was.
CurlInit(c) ==
  /\ InPlugin /\ owner[c] = "none"
  /\ owner' = [owner EXCEPT ![c] = "plugin"]
  /\ \E cell \in {Junk, NUL} : buf' = [buf EXCEPT ![c] = [n \in 1..BufferSize |-> cell]]
  /\ size' = [size EXCEPT ![c] = 0] /\ spoiled' = spoiled \ {c}
  /\ last_error' = [last_error EXCEPT ![c] = 0]
  /\ UNCHANGED <<calls, jobs, started, damaged, told>>

\* MakeDuplicate: the assignment in set_write_data copies the whole buffer.
MakeDuplicate(c, d) ==
  /\ InPlugin /\ owner[c] = "plugin" /\ owner[d] = "none"
  /\ buf' = [buf EXCEPT ![d] = buf[c]]
  /\ size' = [size EXCEPT ![d] = size[c]]
  /\ last_error' = [last_error EXCEPT ![d] = last_error[c]]
  /\ spoiled' = IF size[c] > 0 THEN spoiled \cup {d} ELSE spoiled \ {d}
  /\ UNCHANGED <<calls, jobs, started, damaged, told>>

CurlDupHandle(c, d) ==
  /\ MakeDuplicate(c, d)
  /\ owner' = [owner EXCEPT ![d] = "plugin"]

CurlThreadExec(c, d) ==
  /\ MakeDuplicate(c, d)
  /\ owner' = [owner EXCEPT ![d] = "worker"]

CurlExec(c) ==
  /\ InPlugin /\ owner[c] = "plugin"
  /\ Len(calls) < MaxDepth /\ started < MaxTransfers
  /\ calls' = <<NewFrame(c)>> \o calls
  /\ started' = started + 1
  /\ UNCHANGED <<objects, jobs, damaged, told, spoiled>>

\* The worker's thread performs a duplicate that waits in its queue.
RunThread(c) ==
  /\ ~damaged /\ started < MaxTransfers
  /\ owner[c] = "worker" /\ \A f \in jobs : f.curl # c /\ f.pc # "perform"
  /\ jobs' = jobs \cup {NewFrame(c)}
  /\ started' = started + 1
  /\ UNCHANGED <<objects, calls, damaged, told, spoiled>>

-----------------------------------------------------------------------------
(* WriteFunction, called by libcurl inside of curl_easy_perform *)

\* Mutant: size is assigned, not added to.
StoreAssigns(c, length, text) ==
  /\ damaged' = (size[c] > BufferSize)
  /\ IF damaged' THEN UNCHANGED <<buf, size>> ELSE
       /\ buf'  = [buf EXCEPT ![c] = Printed(@, size[c], text)]
       /\ size' = [size EXCEPT ![c] = AtMost(length, BufferSize)]

\* Mutant: every chunk begins where the buffer begins.
StoreAtStart(c, length, text) ==
  /\ damaged' = (size[c] > BufferSize)
  /\ IF damaged' THEN UNCHANGED <<buf, size>> ELSE
       /\ buf'  = [buf EXCEPT ![c] = Printed(@, 0, text)]
       /\ size' = [size EXCEPT ![c] = (IF @ = BufferSize THEN 0 ELSE @) + AtMost(length, BufferSize)]

\* Mutant: the end of the string is counted.
StoreCountsEnd(c, length, text) ==
  /\ damaged' = (size[c] > BufferSize)
  /\ IF damaged' THEN UNCHANGED <<buf, size>> ELSE
       /\ buf'  = [buf EXCEPT ![c] = Printed(@, size[c], text)]
       /\ size' = [size EXCEPT ![c] = (IF @ = BufferSize THEN 0 ELSE @) + AtMost(length + 1, BufferSize)]

\* The case CURL_RETURN: text is printed, length is counted.  The offset is read
\* before a full buffer is flushed, so the chunk after is printed past the last
\* byte.  What an offset beyond the buffer does is undefined: the model stops there.
Store(c, length, text) ==
  /\ damaged' = (size[c] > BufferSize)
  /\ IF damaged' THEN UNCHANGED <<buf, size>> ELSE
       /\ buf'  = [buf EXCEPT ![c] = Printed(@, size[c], text)]
       /\ size' = [size EXCEPT ![c] = (IF @ = BufferSize THEN 0 ELSE @) + AtMost(length, BufferSize)]

\* How many bytes of a chunk come before a special one.
PlainParts(length) == IF SpecialBytes THEN 0..length ELSE {length}

WriteFunction(f, length, n, junk) ==
  /\ ~damaged /\ f.pc = "perform" /\ f.got + length <= MaxReceived
  /\ Store(f.curl, length, Expanded([k \in 1..length |-> <<f.t, f.got + k>>], n, junk))
  /\ UNCHANGED <<owner, last_error, started, told, spoiled>>

Received(f, length, n, junk) ==
  [f EXCEPT !.got = @ + length, !.plain = IF @ = f.got THEN @ + n ELSE @, !.junk = junk]

ExecReceives(length) ==
  \E n \in PlainParts(length), junk \in JunkLengths :
    /\ calls # <<>>
    /\ WriteFunction(Head(calls), length, n, junk)
    /\ calls' = <<Received(Head(calls), length, n, junk)>> \o Tail(calls)
    /\ UNCHANGED jobs

ThreadReceives(length) ==
  \E f \in jobs, n \in PlainParts(length), junk \in JunkLengths :
    /\ WriteFunction(f, length, n, junk)
    /\ jobs' = (jobs \ {f}) \cup {Received(f, length, n, junk)}
    /\ UNCHANGED calls

-----------------------------------------------------------------------------
(* The end of a transfer, with or without success, and its callback *)

\* Curl::Exec() keeps the code of the transfer.
Performed(f) == last_error' = [last_error EXCEPT ![f.curl] = f.t]

Answer(f, code) ==
  {[code |-> code, t |-> f.t, from |-> f.from, got |-> f.got, plain |-> f.plain, junk |-> f.junk,
    text |-> Text(buf[f.curl])]}

\* curl_exec runs the callback with what Exec() returned and the buffer's bytes.
ExecAnswers ==
  /\ ~damaged /\ calls # <<>> /\ Head(calls).pc = "perform"
  /\ calls' = <<[Head(calls) EXCEPT !.pc = "callback"]>> \o Tail(calls)
  /\ Performed(Head(calls)) /\ told' = Answer(Head(calls), Head(calls).t)
  /\ UNCHANGED <<owner, buf, size, jobs, started, damaged, spoiled>>

ExecReturns ==
  /\ ~damaged /\ calls # <<>> /\ Head(calls).pc = "callback"
  /\ calls' = Tail(calls)
  /\ Flush(Head(calls).curl)
  /\ UNCHANGED <<owner, buf, last_error, jobs, started, damaged, told>>

\* "Function not found": the return skips Flush().
ExecUnknownCallback ==
  /\ ~damaged /\ calls # <<>> /\ Head(calls).pc = "perform"
  /\ calls' = Tail(calls)
  /\ spoiled' = IF size[Head(calls).curl] > 0 THEN spoiled \cup {Head(calls).curl} ELSE spoiled
  /\ Performed(Head(calls))
  /\ UNCHANGED <<owner, buf, size, jobs, started, damaged, told>>

\* OnTerminate: the CurlThread is queued for StartFrame.
ThreadTerminates ==
  \E f \in jobs :
    /\ ~damaged /\ f.pc = "perform"
    /\ jobs' = (jobs \ {f}) \cup {[f EXCEPT !.pc = "done"]}
    /\ Performed(f)
    /\ UNCHANGED <<owner, buf, size, calls, started, damaged, told, spoiled>>

\* StartFrame: Execute() runs the callback, then the duplicate is deleted.
FrameAnswers ==
  \E f \in jobs :
    /\ ~damaged /\ calls = <<>> /\ f.pc = "done" /\ \A g \in jobs : g.pc # "callback"
    /\ jobs' = (jobs \ {f}) \cup {[f EXCEPT !.pc = "callback"]}
    /\ told' = Answer(f, last_error[f.curl])
    /\ UNCHANGED <<objects, calls, started, damaged, spoiled>>

FrameDeletes ==
  \E f \in jobs :
    /\ ~damaged /\ calls = <<>> /\ f.pc = "callback"
    /\ jobs' = jobs \ {f}
    /\ owner' = [owner EXCEPT ![f.curl] = "none"]
    /\ UNCHANGED <<buf, size, last_error, calls, started, damaged, told, spoiled>>

Next ==
  \/ \E c \in Curls : CurlInit(c) \/ CurlExec(c) \/ RunThread(c)
  \/ \E c, d \in Curls : CurlDupHandle(c, d) \/ CurlThreadExec(c, d)
  \/ \E length \in ChunkSizes : ExecReceives(length) \/ ThreadReceives(length)
  \/ ExecAnswers \/ ExecReturns \/ ExecUnknownCallback
  \/ ThreadTerminates \/ FrameAnswers \/ FrameDeletes

Spec == Init /\ [][Next]_vars

-----------------------------------------------------------------------------
(* Properties *)

TypeOK ==
  /\ owner \in [Curls -> {"none", "plugin", "worker"}]
  /\ buf \in [Curls -> [1..BufferSize -> Cells]] /\ size \in [Curls -> Nat]
  /\ calls \in Seq(Frame) /\ jobs \subseteq Frame
  /\ last_error \in [Curls -> 0..MaxTransfers]
  /\ started \in 0..MaxTransfers /\ damaged \in BOOLEAN /\ spoiled \subseteq Curls

\* The transfers under way.
Performing ==
  {f \in jobs : f.pc = "perform"} \cup
  (IF calls # <<>> /\ Head(calls).pc = "perform" THEN {Head(calls)} ELSE {})

\* A transfer that began on an empty buffer counts its bytes, and no other
\* transfer, in whatever callback or thread it runs, writes between them
\* (curl_wrap.cpp, WriteFunction).
CountsOwnBytes ==
  \A f \in Performing : f.from = 0 /\ f.got < BufferSize => size[f.curl] = f.got

\* A callback gets the code of the transfer whose response it gets, although
\* duplicates and nested calls keep codes in the objects they share; and of a
\* response shorter than the buffer whose transfer began on an empty buffer it gets
\* all bytes before the first '%' or NUL, whatever came after them; nothing else
\* when there is none and memory behind the last chunk is NUL (base_curl.cpp,
\* thread_curl.cpp).
PlainBytesArrive ==
  \A a \in told :
    /\ a.code = a.t
    /\ a.from = 0 /\ a.got \in 1..(BufferSize - 1) =>
         /\ \A k \in 1..a.plain : k <= Len(a.text) /\ a.text[k] = <<a.t, k>>
         /\ a.plain = a.got /\ a.junk = 0 => Len(a.text) = a.got

\* Of any response whose transfer began on an empty buffer, also one that is longer
\* than the buffer, of which parts are lost and others land in the middle, or one
\* that snprintf rewrites, the bytes of the text are its own and in order.
BytesInOrder ==
  \A a \in told : a.from = 0 /\ a.got > 0 =>
    \A n \in 1..Len(a.text) :
      a.text[n] # Junk =>
        /\ a.text[n] \in {a.t} \X (1..a.got)
        /\ \A m \in 1..(n - 1) : a.text[m] # Junk => a.text[m][2] < a.text[n][2]

\* WriteFunction begins outside of the buffer only when what was in it and what came
\* since do not fit: no order of chunks, flushes and nested calls gets there before,
\* although size counts bytes that were not kept.
DamageNeedsOverflow ==
  damaged => \E f \in Performing : f.from + f.got > BufferSize + 1

\* Outside of curl_exec a buffer holds counted bytes only after a call whose
\* callback was unknown, or in a duplicate made of a buffer that held some.
LeftoversExplained ==
  \A c \in Curls : size[c] > 0 /\ owner[c] = "plugin" =>
    c \in spoiled \/ \E n \in 1..Len(calls) : calls[n].curl = c

\* "response (String server response)": no byte of another transfer and nothing
\* that was never received, when the server answered.
ResponseIsOwn ==
  \A a \in told : a.got \in 1..(BufferSize - 1) => Range(a.text) \subseteq {a.t} \X (1..a.got)
=============================================================================
