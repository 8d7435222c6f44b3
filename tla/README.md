# Verification of curl_module

TLA+ models of curl_module, an AMX Mod X module that gives plugins libcurl:
synchronous transfers, and asynchronous ones that a background thread performs.
`PROJECT.json` lists runs, mutants, theorems, hazards and, for every definition
that stands for code, the lines it stands for.

## The system

| Component | Source | State | Operations | Correct when |
|---|---|---|---|---|
| worker thread | `thread/ThreadWorker`, `thread/BaseWorker` | `m_state`, `m_ThreadQueue`, `m_Waiting`, `m_FlushType`, `m_perFrame`, the thread | Start, Stop, Pause, Unpause, MakeThread, Flush, RunThread | no job is lost, doubled or reordered; Stop returns and leaves nothing behind; no wakeup is lost |
| threading layer | `thread/PosixThreads`, `thread/WinThreads` | mutexes, events, thread handles | Lock, Wait, Signal, MakeThread, WaitForThread | a signal after the announcement of a wait ends the wait |
| asynchronous transfers | `thread_curl.cpp` | `g_Worker`, `g_ThreadQueue`, CurlThread objects | curl_thread_exec, StartFrame, loading, unloading, shutdown | a call is answered at most once, while plugins are loaded; objects have one owner |
| life cycle | `module.cpp` | libcurl's global state | OnAmxxAttach, OnAmxxDetach, OnPluginsUnloaded | transfers run only between global init and cleanup |
| handle table | `handles.cpp` | `g_Handles`, `g_FreeHandles` | MakeHandle, GetHandle, FreeHandle, FreeAllHandles, FreeHandleTable | a number names one live object of one type |
| synchronous natives | `base_curl.cpp` | none of its own | curl_init ... curl_form_add | an object outlives the native that uses it; responses do not mix |
| curl_form_add | `base_curl.cpp` | counters, copies of strings, the array for libcurl | one loop over the arguments | libcurl reads the pairs that were passed and no further |
| libcurl wrapper | `lib/curl_wrap` | CURL handle, options, response buffer, last error | Exec, MakeDuplicate, Reset, SetOption*, WriteFunction, Flush | the callback gets the response of its transfer; options keep what was set |
| option tables | `lib/opts.h` | constant | look up the type of an option | libcurl gets a value of the type it expects |

Two threads run: the server's main thread, which executes all natives and
host callbacks, and the worker's thread. They share the worker's queue
(`m_QueueLock`), its state (`m_StateLock`), two events, and the stack of
finished transfers (`g_QueueLock`). The hard behaviours are the interleavings
around the waits of the worker, a Stop() at any moment of a transfer, the
hand-over of bare `CurlThread` pointers, and loading and unloading in a loop.

## Modules

**WorkQueue** is what a client of the worker gets: tasks are accepted while it is
open, run one at a time in order, in batches of a limited size, and are depleted or
cancelled when it is closed. A worker that cancels opens no batch, and cancels nothing
before the last one is over. It is weaker than the sentence in IThreader.h:226 (see
Observations). A batch is a frame of RunFrame(), and `Batch` in ThreadWorker is what
that may still begin.

**ThreadWorker** models both threads inside the worker. `mpc` is where the client
is inside Stop() or Unpause(), `wpc` where the thread is inside RunThread() and
RunFrame(). One action is one critical section, one access to a shared field
outside of a lock, or one half of an event wait; so `CheckState`, `CheckQueue`,
`WaitForAdd`, `RecheckState` are separate, as the locks of the code are.
`LatchedSignals` picks the event of the build: an auto-reset event (Windows,
`signalled` keeps the signal) or a condition variable without predicate (POSIX,
a signal reaches only a thread that is `BlockedOn` the event, and a wait may end
by itself: `SpuriousWakeup`). `status` and `accepted` are history variables.
The thread handle is the Boolean `me`; a failed pthread_create leaves it false.
Worker_Invalid is unreachable (the module always passes a threader), and so is
RunFrame's second caller, Flush(false).

**AsyncExec** is the promise of curl_thread_exec: a request is answered at most
once and only while plugins are loaded, and is given up only after that.

**CurlThreads** extends ThreadWorker: every step of the worker is conjoined with
what it does to this module's objects (`PushResult` is TerminateJob and
OnTerminate(false), `CancelResult` is FlushCancel and OnTerminate(true)).
`hpc` is where the main thread is inside a host callback: StartFrame pops
under the lock and calls the plugin without it, so a plugin may call
curl_thread_exec again from its callback (`InPlugin`). Unloading is
SetMaxThreadsPerFrame(8192), Stop(false), delete, discard; detaching is
curl_global_cleanup, then Stop(true) if there is a worker, then discard.
The host is external. It attaches, loads, unloads and detaches, any number of
times; `DetachesLoaded` also lets it detach with plugins loaded. Objects are
`none`, `live` or `freed`.

**HandleStore** and **HandleTable**: the abstract map from numbers to objects and
the table with its free stack. FreeAllHandles and FreeHandleTable are modelled
round by round. Both pass an index to FreeHandle, which takes a number, so the
slot before the inspected one is freed; `LoopRound` says exactly that.

**WriteBuffer** models the response buffer of each Curl object: `Store` is what
WriteFunction does with a chunk, `Text` what a callback reads, `calls` the stack
of curl_exec calls (a callback may call curl_exec again), `jobs` the transfers of
curl_thread_exec, each on a duplicate that copies the buffer and `last_error`
(the transfer whose code it is). A byte is the pair of its transfer and its place in the response, so mixing and reordering show.
WriteFunction passes the response to snprintf as the format, without its length. So
`WriteFunction` counts `length` bytes and prints a string of its own (`Expanded`): the
first `n` bytes of the chunk, up to a '%' or a NUL (`PlainParts`), then `Junk`, whatever
snprintf makes of the rest and of the memory behind a chunk that no NUL follows. What a
directive does beyond printing (it reads, or writes, through arguments that are not there)
is undefined and left out.
The methods other than CURL_RETURN cannot be selected by any native.

**CurlNatives** extends HandleTable: the natives that make, change, use and delete
Curl objects and lists (header lists and forms), the stack of curl_exec calls, the
requests of curl_thread_exec, and the life cycle with FreeAllHandles and
FreeHandleTable. `options` are the list pointers libcurl keeps (`Pointer`),
`calls[n].num` and `requests[r].num` the numbers callbacks get. The worker is abstract: it
performs one request at a time and is empty when Stop(false) returns, which
CurlThreads is about. Plugins use the numbers they were given since they were loaded.

**CurlOptions** models what libcurl keeps for each option of a Curl (`setting`),
next to what the plugin meant (`meant`): the three curl_setopt natives with the
table's types, SetDefaultOptions after init, reset and duplication, and the buffer
that MF_GetAmxString shares among all natives (`buffer`). libcurl copies strings but
for CURLOPT_POSTFIELDS, which SetOptionString replaces (`Passed`). A transfer reads
an option at any time, so no action stands for it: `Used` is what it would read.

**FormAdd** models one call of curl_form_add, round by round: `args` are the
arguments behind the form, `strings` and `arr` the two arrays, `handed` what
curl_formadd reads. `Overrun` is a read behind the last argument.

**ThreadGate** models thread handles on both systems: the gate (`open` is
m_runlock, or the suspended new thread of Windows), which may fail to open
(`OpenGateFails`), `m_state`, and who deletes the handle. `cpc` is where the client is inside MakeThread() or Unpause(), `tpc` where a
thread is inside the gate function.

**MCThreadWorker**, **MCCurlThreads**, **MCWriteBuffer**, **MCCurlNatives**,
**MCThreadGate**, **MCCurlOptions**, **MCFormAdd** give the constants values;
**ThreadWorkerProofs**, **CurlThreadsProofs**, **HandleTableProofs**,
**CurlNativesProofs**, **WriteBufferProofs**, **ThreadGateProofs**,
**CurlOptionsProofs** and **FormAddProofs** hold the proofs.
Definitions marked "Mutant" are
plausible bugs; each shows that a property is violated when the definition after
it is replaced. They are part of no specification.

## Runs

| Run | Shows |
|---|---|
| `worker_posix` | types, exact queue, order, quiet after Stop, cancelling only on request, and refinement of WorkQueue (after Stop(true) only the frame in progress starts jobs, up to its limit), with condition variables, pauses, spurious wakeups and failing thread creation; Stop and Unpause return unless the thread went to wait after the stop's last signal (`StopMissed`) |
| `curl_posix` | one owner per CurlThread and no use or delete of a dead object, including detaching while loaded |
| `curl_host` | latched events, host that unloads before it detaches: the thread never sleeps on a filled queue, transfers run inside global init, of the waiting results the newest is answered, nothing left after unloading, refinement of AsyncExec, accepted calls answered or given up unless `StopMissed` |
| `natives` | the table under all natives: exact free stack, numbers resolve to live objects of their type, what the loops really free, refinement of HandleStore; callbacks get the number of their own Curl as long as it lives; only plugins, never unloading or its loops, delete what a transfer uses; options hold lists of their type |
| `options` | a Curl and its duplicates use the values that were set, whatever strings were read since; each Curl is its own context and the worker's use no signals; every option has a value of its type |
| `form` | curl_formadd reads the pairs before the first END, each with its own text; a call with END reads nothing behind its arguments |
| `buffer` | a callback gets the code of its transfer and, of a response shorter than the buffer whose transfer began on an empty one, all bytes before the first '%' or NUL; of any response only its own bytes and in order; bytes are counted exactly and never interleaved; what leaves bytes behind; writing begins outside of the buffer only after a response that does not fit |
| `gate` | neither side touches a handle the other deleted; a suspended thread waits; m_state tells the thread's place, also when the gate could not be opened; started threads end and release what they must |
| `stop_race` (violated) | Stop() returns. It does not: ThreadWorker.cpp:80 says "first check if we should end again", but tests a stale copy |
| `lost_wakeup` (violated) | the thread waits only without items (ThreadWorker.cpp:76 "if none, wait for an item"). POSIX loses the wakeup |
| `mixed_response` (violated) | the callback's response is the server's (README.md:131). A curl_exec from inside the callback gets the previous response in front of its own |
| `close_in_callback` (violated) | curl_exec flushes a live Curl. A callback that closes its handle, as the one in README.md:23 does, has deleted it |

**Bounds.** Two or three jobs: one in the thread's hands, one queued behind it, one
to arrive; every hazard above needs at most two. Frame limits 1 and 2 give a frame
that ends at its limit and one that ends with the queue. A job is handed in
once, so Start/Stop and load/unload cycles repeat without limit and the
state space is finite. The bound `MaxHandles`
stands in the guard of MakeHandle, which is unbounded in the code. The buffer has
three bytes, chunks one, three or four and responses up to five: shorter than, equal to and
longer than the buffer, up to it in one chunk and in several, past its end, and in its
middle after a flush. A chunk's first special byte is any or none, and snprintf makes one cell
of it, or none: more of them only differ in where they end. Two Curl objects, which are
symmetric, and two transfers give a nested call, a duplicate made inside a callback, and both
threads at work; `mixed_response` has three transfers and no special bytes.
`MaxTransfers`, `MaxReceived` and `MaxDepth` stand in the guards of RunThread,
CurlExec and WriteFunction. In `natives` three objects of three types, a table of
three slots, one request and calls nested twice give a Curl with both kinds of list, a
duplicate that shares one, reuse of numbers inside a callback, and slots in the order
in which the loops free the wrong one, reuse, a full table and live neighbours of
equal and different type; maps repeat without limit. In `options` three Curls give
a duplicate of a duplicate, and two texts a string that overwrites another. In `form` every
list of up to five of seven kinds of arguments is a call: END at each place, odd
and even numbers, and three pairs. In `gate` two
handles suffice: handles share only the client.

**Deadlock** is not checked: a missed Stop() and a NULL dereference (`crashed`)
really halt the system, and a bounded table of handles and jobs runs out.

**Fairness.** Weak fairness of the worker's thread (the operating system runs it
and a transfer ends), of the steps that finish a call the main thread is in, and
of StartFrame (the engine calls it every frame). No fairness on calls of plugins or
the host, nor on spurious wakeups.

## Proofs

`ThreadWorkerProofs` proves, for every set of jobs, frame limit and build
switch, `Spec => []IInv` and from it TypeOK, QueueHoldsQueued, RunsInOrder,
StoppedIsQuiet, CancelsOnlyOnRequest, for latched events SleepsOnlyWhenIdle, that a
NULL thread handle is used only after a failed creation (CrashNeedsFailedCreation, which
no run checks), and that the worker implements WorkQueue (`Implements`).
None of the properties is inductive. `IInv` adds: the job in hand and the place
of the thread agree (`JobInHand`; it also bounds the budget, which types need);
the thread exists only inside the life of the handle (`ThreadLife`); a thread
that acts on a stop is inside the client's Stop() (`StopSeen`); a waiting thread
has announced itself and, with latched events, is signalled when there is work
(`WaitAnnounced`); the queue is the tail of the accepted jobs (`QueueIsTail`).
Each part has a lemma with one step per action. For the refinement `BatchStep` says
what a step does to the batch: the frame begins only if the thread saw a worker that was
not cancelling. Assumptions: NULL is no job, the
switches are Boolean, frame limits are positive.

`HandleTableProofs` proves, for every set of objects and types and every length of
the table, TypeOK, FreeListExact, ResolvesToLive, LoopLeavesNoPair and that the
table implements HandleStore. Its `IInv` adds what each slot holds (`SlotsMatch`),
that objects are deleted at most once and never before they are made
(`DeletedOnce`), the free stack place by place (`FreePlaces`), and that a loop stays
inside the table (`InTable`). Two lemmas say how the slots change (`MakePlaces`,
`FreePlacesChange`), two what these changes keep (`MakeKeeps`, `FreeKeeps`).
Assumptions: NULL is no object, "unmade" is no handle type, the bound is a number.

`ThreadGateProofs` proves TypeOK, TouchesLiveHandle and StateTellsPlace for every set
of handles. `IInv` adds that nothing is through a closed gate and the thread's copy
of the flags is right (`GateKept`), and that the thread is at the gate while the client is
in a call for it (`InsideAtGate`). The invariant is split handle by handle (`ByHandle`),
and each action has a lemma. Assumption: NULL is no handle.

`FormAddProofs` proves TypeOK, HandsOverPairs and EndStopsReading for argument lists
of any length and any table. `IInv` says how `i` and `j` go together (`InStep`), what
the places below `j` hold (`PlacesFilled`), that the array ends at `j` after a round that found END
(`EndEntered`), and that no END was passed (`NothingPassed`). `RoundKeeps` is the lemma
of the rounds. Assumptions: END, CONTENTHEADER and the table's text options
differ, "unset" is no argument.

`CurlOptionsProofs` proves TypeOK, OptionsKeepValues and DefaultsHold for every set
of Curls, options and values. `IInv` adds that an option libcurl keeps is the one that was
meant (`KeptAsMeant`), which is why the address of the shared buffer is
kept nowhere; OptionsKeepValues follows. Assumptions: the types of the table are disjoint,
COPYPOSTFIELDS is not in it, the buffer's address is no value.

`CurlThreadsProofs` proves, for every set of calls, both builds and both hosts,
CurlTypeOK, UsesLiveObjects, HasOneOwner, AnswersNewest, UnloadFreesAll and that the module
implements AsyncExec; for hosts that unload before they detach TransfersInsideInit.
Every step of the module is a step of the worker or sets its frame limit
(`WorkerSteps`), so the worker's IInv holds under it and is one part of `CInv`, and
SleepsOnlyWhenIdle, CrashNeedsFailedCreation and KeepsBatches hold under it
too. `CInv` adds where the host is in each phase and what the worker then does
(`HostPlace`), what became of a call's CurlThread and duplicate at each status of its
job (`ObjectsOf`), that a result waits in one place only (`WaitsOnce`), the stack
of results has the newest on top (`NewestFirst`), and that the
worker knows no job that was not accepted (`AcceptedListed`). `ObjectsOf` is the argument
for ownership: the properties only say what must not happen to an object,
it says where the object is. `StepKinds` sorts the steps by what they do to the calls, and each part of `CInv`
has a lemma with one case per kind. The refinement reads the status of a request off its
objects; `RequestCases` says what that is for each status of its job. Assumptions: the
worker's, and that `DetachesLoaded` is a Boolean.

`WriteBufferProofs` proves, for every set of Curls, every size of buffer and
chunks, and every length of what snprintf makes up, TypeOK, CountsOwnBytes,
PlainBytesArrive, BytesInOrder, LeftoversExplained and DamageNeedsOverflow. What makes
them inductive is `Owned`: while a transfer receives,
nobody else uses its Curl (of nested curl_execs only the innermost receives, and each job
has its own duplicate). So the transfers in `Held` keep `FrameOK`: the counter is
what they found and received while that fits and never more, the buffer is a string of
their own bytes in order and of junk (`InOrder`), it begins with the plain bytes as long as
all fits (`Spelled`), the code is theirs. `StoreKeeps` is the lemma about
WriteFunction, `PrintedInOrder` and `PrintedSpells` are those about snprintf. Assumptions:
the buffer has at least two bytes, chunks are not empty, the marks NUL and Junk differ and
are no pairs of a transfer and a place (a NUL that a server sends is a special byte).

`CurlNativesProofs` proves NativesTypeOK, NumbersNameCallers, OnlyPluginsPullAway and
OptionsTyped, and that the natives, transfers and life cycle make only steps of HandleTable
(`NativesUseTable`), which brings FreeListExact, ResolvesToLive, LoopLeavesNoPair and the
refinement of HandleStore over to them. `NInv` adds to the table's IInv what is empty
outside of a map (`LifeCycle`), that only the innermost curl_exec is not in its
callback, that nothing unmade has options (`Blank`), and `UsesSafe`: all lists
that a transfer uses or that a Curl known to this map's plugins points to were deleted
by nobody but plugins. OnlyPluginsPullAway needs it, because a transfer may begin later with
lists deleted now. Assumptions: the table's, and a natural number for the depth of calls.

Only model-checked: liveness (CallsReturnUnlessMissed, RequestsEnd, RunsToRelease), because
the prover has no ENABLED. The four violated properties are TLC's counterexamples.

## Observations

Besides the violated runs, the models show these behaviours:

* Stop() of a paused worker never signals `m_PauseSignal` (the second disjunct of
  `StopMissed`). Nothing in the module pauses the worker.
* OnTerminate(cancel) leaks the CurlThread and its forward: UnloadFreesAll
  exempts calls that ShutdownThreading cancelled.
* OnAmxxDetach cleans up libcurl before it stops the thread; TransfersInsideInit
  holds only for such hosts.
* FreeAllHandles frees the predecessors of curl handles, of any type, and never
  the last slot (`LoopLeavesNoPair` is the strongest thing that holds).
* `size` may pass the end of the buffer, and the test for a full buffer is an
  equality; what the next chunk does then is undefined and the model stops
  (`damaged`).
* FreeAllHandles may delete a list and leave the Curl behind it, whose option then
  points into freed memory. The number of such a Curl is unknown to the next map's
  plugins (`known`); one that used it would perform a transfer on a deleted list.
* IThreader.h:226 says of Stop(true) "all remaining tasks will be cancelled". That is not
  what the code gives: a frame in progress, and one whose thread is past its look at the
  state, starts jobs that were queued when Stop(true) was called, as many as the frame
  limit leaves (BaseWorker.cpp:120-135). WorkQueue and KeepsBatches say how many.
* WriteFunction uses the response as snprintf's format (curl_wrap.cpp:42), where README.md:131
  promises the "String server response": a '%' in it is not delivered as it is, and behind a
  chunk that libcurl does not end with a NUL snprintf reads on. PlainBytesArrive and
  BytesInOrder say what arrives all the same.
* A transfer that received nothing delivers the buffer's old string or
  uninitialised memory, and a response longer than the buffer loses the chunk
  after a full buffer (`Store`).
* CURLFORM_CONTENTHEADER is looked up by the address of its argument (base_curl.cpp:329),
  which is seldom the number of a list; and the value handed over is the CurlSList, not
  the curl_slist in it that libcurl asks for (base_curl.cpp:334; `HandedValue`). The two length options (opts.h, CURL_OPT_CELL)
  get the address of a string. An option that the table does not list leaves its value
  as memory was (`Unset`). The test for an odd number of arguments (base_curl.cpp:301)
  looks at bytes and never succeeds; a call without END reads behind its arguments (`Overrun`).
* The handle options other than HTTPHEADER and HTTPPOST are accepted, set nothing, and
  return 0, the code of success (base_curl.cpp:141).
* curl_duphandle copies a Curl "along with all of its preferences" (test/curl.inc:480), but
  CURLOPT_NOSIGNAL of a duplicate is 1 again, whatever the original had; OptionsKeepValues
  exempts it.
* curl_thread_exec returns -1 where test/curl.inc:475 says "otherwise False".
* curl_errno gives the code of the last curl_exec of the handle: a transfer of
  curl_thread_exec keeps its code in the duplicate, also while its callback runs.
* MakeThread() of both systems returns a handle although the thread could not be let
  run (`OpenGateFails`); ThreadWorker::Start() takes it for running.
* GetStatus() reports the frame limit where IThreader.h asks for the number of threads,
  and WinMutex::TryLock() takes WAIT_TIMEOUT for success; nothing calls either.
* DestroyThis() on a running thread's handle (IThreader.h:69 "This will not
  necessarily cancel the thread") deletes the lock the thread will take.

## Not modelled

Thread priorities and GetStatus, which change or read nothing the rest depends on; URL
escaping, which is libcurl's; the read methods and CURL_FILE, which no native selects.
A thread that MakeThread() could not let run is in ThreadGate and not in ThreadWorker.
Memory exhaustion is ignored.
A plugin calling curl_thread_exec outside of load and unload (g_Worker NULL) is
outside of the host protocol, and so are handle numbers of an earlier map.

## Plan

1. (done) The models: worker and queue, asynchronous transfers, natives over the
   handle table, options, form arguments, response buffer, thread handles.
2. (done) The proofs of every invariant, action property and refinement that a passing
   run checks.
3. Safety facts that the liveness properties rest on: a Stop() that waits for the
   thread will be noticed by it or is in `StopMissed`, and a frame, a discard and the
   loops over the handles end after a number of rounds that is known when they begin.
