----------------------------- MODULE CurlThreads -----------------------------
(***************************************************************************)
(* thread_curl.cpp and the callbacks of module.cpp on top of the worker:   *)
(* curl_thread_exec hands a CurlThread with a duplicate of the Curl object *)
(* to the worker; the worker's thread performs the transfer and pushes the *)
(* CurlThread on g_ThreadQueue; StartFrame pops it, runs the plugin's      *)
(* callback and deletes it.                                                *)
(*                                                                         *)
(* The host (AMX Mod X, outside the repository) attaches the module, then  *)
(* loads and unloads plugins any number of times, then detaches it.        *)
(* DetachesLoaded lets it detach while plugins are loaded, which           *)
(* ShutdownThreading provides for ("if (g_Worker)").  It never detaches a  *)
(* module that saw no plugin (g_QueueLock would be NULL).  Detaching it    *)
(* unloads the library (MODULE_RELOAD_ON_MAPCHANGE in moduleconfig.h), so  *)
(* the statics of thread_curl.cpp start anew when it is attached again.    *)
(*                                                                         *)
(* A job of the worker is one call of curl_thread_exec.  The module never  *)
(* pauses the worker.                                                      *)
(***************************************************************************)
EXTENDS ThreadWorker, FiniteSets

CONSTANTS DetachesLoaded

ASSUME DetachAssumption == DetachesLoaded \in BOOLEAN

VARIABLES
  phase,          \* where the host is with this module
  hpc,            \* where the main thread is inside a module callback
  curl_ready,     \* between curl_global_init and curl_global_cleanup
  g_Worker,       \* is there a worker object?
  g_QueueLock,    \* was the lock of g_ThreadQueue made?
  g_ThreadQueue,  \* CStack of finished CurlThreads, the top first
  result,         \* the CurlThread in StartFrame's hands
  thread,         \* the CurlThread of each call, with its forward
  dup,            \* the duplicate Curl object of each call
  called          \* history: how often the callback of a call has run

hostVars   == <<phase, hpc, curl_ready, g_Worker, g_QueueLock>>
resultVars == <<g_ThreadQueue, result, thread, dup, called>>
curlVars   == <<hostVars, resultVars>>
allVars    == <<vars, curlVars>>

Phases      == {"detached", "attached", "loaded", "unloading", "detaching"}
HostPCs     == {"idle", "start", "frame", "callback", "setMax", "stop", "stopping", "discard"}
ObjectState == {"none", "live", "freed"}

CurlInit ==
  /\ Init
  /\ phase = "detached" /\ hpc = "idle"
  /\ curl_ready = FALSE /\ g_Worker = FALSE /\ g_QueueLock = FALSE
  /\ g_ThreadQueue = <<>> /\ result = NoJob
  /\ thread = [j \in Jobs |-> "none"] /\ dup = [j \in Jobs |-> "none"]
  /\ called = [j \in Jobs |-> 0]

\* delete p; deleting what is not alive is outside of ObjectState.
Delete(p, j) == [p EXCEPT ![j] = IF @ = "live" THEN "freed" ELSE "corrupt"]

-----------------------------------------------------------------------------
(* Loading plugins *)

OnAmxxAttach ==
  /\ phase = "detached"
  /\ phase' = "attached" /\ curl_ready' = TRUE
  /\ g_Worker' = FALSE /\ g_QueueLock' = FALSE
  /\ UNCHANGED <<vars, hpc, resultVars>>

\* new ThreadWorker; it is started in the next step.
OnPluginsLoaded ==
  /\ phase = "attached" /\ hpc = "idle" /\ ~g_Worker
  /\ hpc' = "start"
  /\ g_Worker' = TRUE /\ g_QueueLock' = TRUE
  /\ m_perFrame' = 1
  /\ UNCHANGED <<m_state, m_FlushType, m_ThreadQueue, m_Waiting, me, signalled, wpc,
                 workerVars, mpc, history, phase, curl_ready, resultVars>>

StartWorker ==
  /\ hpc = "start"
  /\ Start
  /\ hpc' = "idle" /\ phase' = "loaded"
  /\ UNCHANGED <<curl_ready, g_Worker, g_QueueLock, resultVars>>

-----------------------------------------------------------------------------
(* curl_thread_exec, called by a plugin, also from inside a callback *)

InPlugin == phase = "loaded" /\ hpc \in {"idle", "callback"}

ThreadExec(j) ==
  /\ InPlugin /\ dup[j] = "none"
  /\ MakeThread(j)
  /\ dup' = [dup EXCEPT ![j] = "live"]
  /\ thread' = [thread EXCEPT ![j] = "live"]
  /\ UNCHANGED <<hostVars, g_ThreadQueue, result, called>>

\* The callback's name is unknown: the duplicate is forgotten.
ThreadExecFails(j) ==
  /\ InPlugin /\ dup[j] = "none"
  /\ dup' = [dup EXCEPT ![j] = "live"]
  /\ UNCHANGED <<vars, hostVars, g_ThreadQueue, result, thread, called>>

-----------------------------------------------------------------------------
(* StartFrame: g_QueueLock is released around Execute() and delete *)

FrameBegin ==
  /\ phase # "detached" /\ hpc = "idle"
  /\ g_Worker /\ g_QueueLock
  /\ hpc' = "frame"
  /\ UNCHANGED <<vars, phase, curl_ready, g_Worker, g_QueueLock, resultVars>>

\* Mutant: front() without pop().
PopResultKept ==
  /\ hpc = "frame" /\ g_ThreadQueue # <<>>
  /\ hpc' = "callback"
  /\ result' = Head(g_ThreadQueue)
  /\ called' = [called EXCEPT ![Head(g_ThreadQueue)] = @ + 1]
  /\ UNCHANGED <<vars, phase, curl_ready, g_Worker, g_QueueLock, g_ThreadQueue, thread, dup>>

\* Mutant: the oldest of the waiting results is taken.
PopResultOldest ==
  /\ hpc = "frame" /\ g_ThreadQueue # <<>>
  /\ hpc' = "callback"
  /\ result' = g_ThreadQueue[Len(g_ThreadQueue)]
  /\ g_ThreadQueue' = SubSeq(g_ThreadQueue, 1, Len(g_ThreadQueue) - 1)
  /\ called' = [called EXCEPT ![g_ThreadQueue[Len(g_ThreadQueue)]] = @ + 1]
  /\ UNCHANGED <<vars, phase, curl_ready, g_Worker, g_QueueLock, thread, dup>>

PopResult ==
  /\ hpc = "frame" /\ g_ThreadQueue # <<>>
  /\ hpc' = "callback"
  /\ result' = Head(g_ThreadQueue)
  /\ g_ThreadQueue' = Tail(g_ThreadQueue)
  /\ called' = [called EXCEPT ![Head(g_ThreadQueue)] = @ + 1]
  /\ UNCHANGED <<vars, phase, curl_ready, g_Worker, g_QueueLock, thread, dup>>

\* Mutant: the Curl object is deleted and then deleted again by ~CurlThread.
DeleteResultTwice ==
  /\ hpc = "callback"
  /\ hpc' = "frame"
  /\ result' = NoJob
  /\ thread' = Delete(thread, result)
  /\ dup' = Delete(Delete(dup, result), result)
  /\ UNCHANGED <<vars, phase, curl_ready, g_Worker, g_QueueLock, g_ThreadQueue, called>>

\* The callback returns; delete thread unregisters the forward and the Curl.
DeleteResult ==
  /\ hpc = "callback"
  /\ hpc' = "frame"
  /\ result' = NoJob
  /\ thread' = Delete(thread, result)
  /\ dup' = Delete(dup, result)
  /\ UNCHANGED <<vars, phase, curl_ready, g_Worker, g_QueueLock, g_ThreadQueue, called>>

FrameEnd ==
  /\ hpc = "frame" /\ g_ThreadQueue = <<>>
  /\ hpc' = "idle"
  /\ UNCHANGED <<vars, phase, curl_ready, g_Worker, g_QueueLock, resultVars>>

-----------------------------------------------------------------------------
(* OnPluginsUnloading, and OnAmxxDetach with its ShutdownThreading *)

OnPluginsUnloading ==
  /\ phase = "loaded" /\ hpc = "idle" /\ g_Worker
  /\ phase' = "unloading" /\ hpc' = "setMax"
  /\ UNCHANGED <<vars, curl_ready, g_Worker, g_QueueLock, resultVars>>

OnAmxxDetach ==
  /\ hpc = "idle"
  /\ \/ phase = "attached" /\ g_QueueLock
     \/ phase = "loaded" /\ DetachesLoaded
  /\ phase' = "detaching" /\ curl_ready' = FALSE
  /\ hpc' = IF g_Worker THEN "setMax" ELSE "discard"
  /\ UNCHANGED <<vars, g_Worker, g_QueueLock, resultVars>>

RaiseLimit ==
  /\ hpc = "setMax"
  /\ SetMaxThreadsPerFrame(8192)
  /\ hpc' = "stop"
  /\ UNCHANGED <<phase, curl_ready, g_Worker, g_QueueLock, resultVars>>

\* Mutant: plugins unload with Stop(true).
StopWorkerCancels ==
  /\ hpc = "stop"
  /\ StopBegin(TRUE)
  /\ hpc' = "stopping"
  /\ UNCHANGED <<phase, curl_ready, g_Worker, g_QueueLock, resultVars>>

\* Stop(false) when plugins unload, Stop(true) when the module is detached.
StopWorker ==
  /\ hpc = "stop"
  /\ StopBegin(phase = "detaching")
  /\ hpc' = "stopping"
  /\ UNCHANGED <<phase, curl_ready, g_Worker, g_QueueLock, resultVars>>

\* Mutant: the thread is not joined.
StopReturnedEarly ==
  /\ hpc = "stopping"
  /\ hpc' = "discard"
  /\ g_Worker' = (phase = "detaching")
  /\ UNCHANGED <<vars, phase, curl_ready, g_QueueLock, resultVars>>

\* Stop() has returned; only OnPluginsUnloading deletes the worker.
StopReturned ==
  /\ hpc = "stopping" /\ mpc = "idle"
  /\ hpc' = "discard"
  /\ g_Worker' = (phase = "detaching")
  /\ UNCHANGED <<vars, phase, curl_ready, g_QueueLock, resultVars>>

\* Mutant: the results that are left are delivered while plugins unload.
DiscardResultCalls ==
  /\ hpc = "discard" /\ g_ThreadQueue # <<>>
  /\ g_ThreadQueue' = Tail(g_ThreadQueue)
  /\ thread' = Delete(thread, Head(g_ThreadQueue))
  /\ dup' = Delete(dup, Head(g_ThreadQueue))
  /\ called' = [called EXCEPT ![Head(g_ThreadQueue)] = @ + 1]
  /\ UNCHANGED <<vars, hostVars, result>>

DiscardResult ==
  /\ hpc = "discard" /\ g_ThreadQueue # <<>>
  /\ g_ThreadQueue' = Tail(g_ThreadQueue)
  /\ thread' = Delete(thread, Head(g_ThreadQueue))
  /\ dup' = Delete(dup, Head(g_ThreadQueue))
  /\ UNCHANGED <<vars, hostVars, result, called>>

DiscardEnd ==
  /\ hpc = "discard" /\ g_ThreadQueue = <<>>
  /\ hpc' = "idle"
  /\ phase' = IF phase = "detaching" THEN "detached" ELSE "attached"
  /\ UNCHANGED <<vars, curl_ready, g_Worker, g_QueueLock, resultVars>>

-----------------------------------------------------------------------------
(* What the worker's callbacks do here *)

\* Mutant: the Curl object is deleted in both branches of OnTerminate.
PushResultDeletes ==
  /\ TerminateJob
  /\ g_ThreadQueue' = <<cur>> \o g_ThreadQueue
  /\ dup' = Delete(dup, cur)
  /\ UNCHANGED <<hostVars, result, thread, called>>

\* Mutant: the finished CurlThread is not pushed.
PushResultLost ==
  /\ TerminateJob
  /\ UNCHANGED curlVars

\* CurlThread::OnTerminate(cancel = false), under g_QueueLock.
PushResult ==
  /\ TerminateJob
  /\ g_ThreadQueue' = <<cur>> \o g_ThreadQueue
  /\ UNCHANGED <<hostVars, result, thread, dup, called>>

\* CurlThread::OnTerminate(cancel = true): the CurlThread itself stays.
CancelResult ==
  /\ FlushCancel
  /\ dup' = Delete(dup, Head(m_ThreadQueue))
  /\ UNCHANGED <<hostVars, g_ThreadQueue, result, thread, called>>

StopStep ==
  \/ (StopSignal \/ StopJoin \/ StopCrash \/ StopEnd) /\ UNCHANGED curlVars
  \/ CancelResult

ThreadStep ==
  \/ /\ \/ CheckState \/ CheckQueue \/ WaitForAdd \/ AddSignalled \/ Woken
        \/ RecheckState \/ DrainLoop \/ RunFrame \/ TakeJob \/ EndFrame
        \/ RunJob \/ ReleaseHandle
     /\ UNCHANGED curlVars
  \/ PushResult

HostCall ==
  \/ OnAmxxAttach \/ OnPluginsLoaded \/ OnPluginsUnloading \/ OnAmxxDetach
  \/ \E j \in Jobs : ThreadExec(j) \/ ThreadExecFails(j)

HostStep ==
  \/ StartWorker \/ PopResult \/ DeleteResult \/ FrameEnd
  \/ RaiseLimit \/ StopWorker \/ StopReturned \/ DiscardResult \/ DiscardEnd
  \/ StopStep

CurlNext ==
  \/ HostCall \/ FrameBegin \/ HostStep \/ ThreadStep
  \/ SpuriousWakeup /\ UNCHANGED curlVars

CurlSpec == CurlInit /\ [][CurlNext]_allVars

\* Handlers and threads go on, and the engine calls StartFrame again and again.
CurlFairSpec ==
  CurlSpec /\ WF_allVars(HostStep) /\ WF_allVars(ThreadStep) /\ WF_allVars(FrameBegin)

-----------------------------------------------------------------------------
(* Properties *)

CurlTypeOK ==
  /\ phase \in Phases /\ hpc \in HostPCs
  /\ {curl_ready, g_Worker, g_QueueLock} \subseteq BOOLEAN
  /\ g_ThreadQueue \in Seq(Jobs) /\ result \in Jobs \cup {NoJob}
  /\ {thread, dup} \subseteq [Jobs -> ObjectState]
  /\ called \in [Jobs -> Nat]

\* Both threads touch a CurlThread and its Curl only while they are alive:
\* whoever runs a transfer, a callback or a delete (thread_curl.cpp), the object
\* was not freed on another path.
UsesLiveObjects ==
  /\ \A j \in Range(m_ThreadQueue) \cup Range(g_ThreadQueue) :
       thread[j] = "live" /\ dup[j] = "live"
  /\ wpc \in {"run", "terminate"} => thread[cur] = "live" /\ dup[cur] = "live"
  /\ hpc = "callback" => thread[result] = "live" /\ dup[result] = "live"

\* Where the bare pointer to j's CurlThread is: in the worker's queue, with its
\* thread, in g_ThreadQueue, or with StartFrame.
Owners(j) ==
  {p \in {"queue", "thread", "results", "frame"} :
     \/ p = "queue"   /\ j \in Range(m_ThreadQueue)
     \/ p = "thread"  /\ wpc \in {"run", "terminate"} /\ cur = j
     \/ p = "results" /\ j \in Range(g_ThreadQueue)
     \/ p = "frame"   /\ result = j}

\* A live CurlThread has exactly one owner and a dead one none (thread_curl.cpp
\* passes it along without a reference count); only OnTerminate(cancel) forgets
\* one that is alive.
HasOneOwner ==
  /\ IsInjective(g_ThreadQueue)
  /\ \A j \in Jobs : Cardinality(Owners(j)) =
                      IF thread[j] = "live" /\ status[j] # "cancelled" THEN 1 ELSE 0

\* After OnPluginsUnloading no CurlThread, forward or accepted duplicate is left
\* behind for the next map, whatever the worker was doing when it began.  (With
\* DetachesLoaded an earlier ShutdownThreading may have cancelled a call, of which
\* only the Curl is freed.)
UnloadFreesAll ==
  phase = "attached" /\ hpc \in {"idle", "start"} =>
    /\ \A j \in Jobs : thread[j] = "live" => DetachesLoaded /\ status[j] = "cancelled"
    /\ \A j \in Jobs : thread[j] # "none" => dup[j] = "freed"
    /\ g_ThreadQueue = <<>> /\ wpc = "none"

\* Transfers run only between curl_global_init and curl_global_cleanup: a host
\* that unloads the plugins before it detaches never cleans up under a transfer.
TransfersInsideInit == wpc = "run" => curl_ready

\* g_ThreadQueue is a stack over transfers that end in the order of the calls: of
\* the calls that wait for an answer StartFrame answers the newest, also when that
\* ended during a callback of the same frame and the others wait since before it.
AnswerIsNewest ==
  \A j, k \in Jobs : called'[j] # called[j] /\ k \in Range(g_ThreadQueue) \ {j} =>
    \E a, b \in 1..Len(accepted) : a > b /\ accepted[a] = j /\ accepted[b] = k
AnswersNewest == [][AnswerIsNewest]_allVars

\* The promise of curl_thread_exec.
Request(j) ==
  CASE dup[j] = "none"                      -> "fresh"
    [] dup[j] # "none" /\ thread[j] = "none" -> "rejected"
    [] thread[j] # "none" /\ called[j] > 0   -> "answered"
    [] OTHER -> IF dup[j] = "live" THEN "open" ELSE "given_up"

Async == INSTANCE AsyncExec WITH
  Requests <- Jobs, loaded <- phase = "loaded", request <- [j \in Jobs |-> Request(j)]

\* Whatever the two threads and the host do, the plugin sees AsyncExec: at most
\* one callback per call, while plugins are loaded, and no call is dropped before
\* OnPluginsUnloading or OnAmxxDetach.
KeepsAsync == Async!Spec

\* Every call of curl_thread_exec that was accepted is answered or given up,
\* unless the thread missed the stop signal and OnPluginsUnloading hangs.
RequestsEnd ==
  \A j \in Jobs : Request(j) = "open" ~> Request(j) # "open" \/ StopMissed
=============================================================================
