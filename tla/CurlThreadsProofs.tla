-------------------------- MODULE CurlThreadsProofs --------------------------
(***************************************************************************)
(* The asynchronous transfers of CurlThreads for every set of calls and    *)
(* every build and host: on top of the worker's inductive invariant, what  *)
(* the host does with the worker and where each call's objects are; from   *)
(* that the safety properties the runs check, and that CurlThreads         *)
(* implements AsyncExec.                                                   *)
(***************************************************************************)
EXTENDS CurlThreads, ThreadWorkerProofs, FiniteSetTheorems

\* Where the host is tells where the main thread is and what the worker does.
HostPlace ==
  /\ phase = "detached" => hpc = "idle"
  /\ phase = "attached" => hpc \in {"idle", "start"} /\ (g_Worker => hpc = "start")
  /\ phase = "unloading" /\ hpc = "discard" => ~g_Worker
  /\ phase = "loaded" \/ hpc = "start" => g_Worker
  /\ phase = "loaded"   => hpc \in {"idle", "frame", "callback"}
  /\ phase \in {"unloading", "detaching"} => hpc \in {"setMax", "stop", "stopping", "discard"}
  /\ phase \in {"detached", "attached"} \/ hpc \in {"stopping", "discard"} => m_state = "Stopped"
  /\ phase = "loaded" \/ hpc \in {"setMax", "stop"} => m_state = "Running"
  /\ mpc # "idle" => hpc = "stopping" /\ m_FlushType = (phase = "detaching")
  /\ phase = "detaching" => DetachesLoaded \/ hpc = "discard"
  /\ curl_ready <=> phase \notin {"detached", "detaching"}
  /\ phase \in {"detached", "attached"} => g_ThreadQueue = <<>>
  /\ result = NoJob <=> hpc # "callback"

\* j's CurlThread waits for a frame.
Waits(j) == \E n \in 1..Len(g_ThreadQueue) : g_ThreadQueue[n] = j

\* What the objects of call j are, by what became of its job.
ObjectsOf(j) ==
  /\ status[j] # "refused"
  /\ status[j] = "new" => thread[j] = "none" /\ dup[j] \in {"none", "live"} /\ called[j] = 0
  /\ status[j] \in {"queued", "running", "ran"} =>
       thread[j] = "live" /\ dup[j] = "live" /\ called[j] = 0
  /\ status[j] = "cancelled" =>
       DetachesLoaded /\ thread[j] = "live" /\ dup[j] = "freed" /\ called[j] = 0
  /\ Waits(j) => status[j] = "done" /\ thread[j] = "live" /\ dup[j] = "live" /\ called[j] = 0
  /\ j = result => status[j] = "done" /\ thread[j] = "live" /\ dup[j] = "live" /\ called[j] = 1
  /\ status[j] = "done" /\ ~Waits(j) /\ j # result =>
       thread[j] = "freed" /\ dup[j] = "freed" /\ called[j] \in {0, 1}

\* A CurlThread waits in one place.
WaitsOnce ==
  \A m, n \in 1..Len(g_ThreadQueue) : g_ThreadQueue[m] = g_ThreadQueue[n] => m = n

\* Jobs the worker has seen are in the list of accepted ones.
AcceptedListed ==
  \A j \in Jobs : status[j] \notin {"new", "refused"} => \E n \in 1..Len(accepted) : accepted[n] = j

\* Results of newer calls lie above those of older ones.
NewestFirst ==
  \A m, n \in 1..Len(g_ThreadQueue) : m < n =>
    \E a, b \in 1..Len(accepted) :
      a > b /\ accepted[a] = g_ThreadQueue[m] /\ accepted[b] = g_ThreadQueue[n]

CInv ==
  /\ IInv /\ CurlTypeOK /\ HostPlace /\ WaitsOnce /\ AcceptedListed /\ NewestFirst
  /\ \A j \in Jobs : ObjectsOf(j)

-----------------------------------------------------------------------------
(* The worker below *)

\* A new limit of jobs in a frame, which the module sets without a call.
LEMMA LimitKeeps ==
  ASSUME IInv, m_perFrame' \in Nat \ {0},
         UNCHANGED <<m_state, m_FlushType, m_ThreadQueue, m_Waiting, me, signalled, wpc,
                     workerVars, mpc, history>>
  PROVE  IInv'
<1> USE DEF IInv, workerVars, history
<1>1. TypeOK' BY DEF TypeOK
<1>2. QueueHoldsQueued' BY DEF QueueHoldsQueued
<1>3. JobInHand' /\ StopSeen' /\ WaitAnnounced' BY DEF JobInHand, StopSeen, WaitAnnounced
<1>4. ThreadLife' BY DEF ThreadLife
<1>5. QueueIsTail' BY DEF QueueIsTail, Popped
<1> QED BY <1>1, <1>2, <1>3, <1>4, <1>5

\* The module sets the limit of jobs in a frame, also without a call of the
\* worker (for a new one), never during a Stop().
LimitSet ==
  /\ m_perFrame' \in Nat \ {0} /\ hpc # "stopping"
  /\ UNCHANGED <<m_state, m_FlushType, m_ThreadQueue, m_Waiting, me, signalled, wpc,
                 workerVars, mpc, history>>

\* Every step of the module is one of the worker, leaves it alone or sets the limit.
LEMMA WorkerSteps == [CurlNext]_allVars => [Next]_vars \/ LimitSet
<1> SUFFICES ASSUME [CurlNext]_allVars PROVE [Next]_vars \/ LimitSet
  OBVIOUS
<1>1. CASE HostCall
  <2>1. CASE OnPluginsLoaded
    BY <2>1 DEF OnPluginsLoaded, LimitSet
  <2>2. ASSUME NEW j \in Jobs, ThreadExec(j) PROVE Next
    BY <2>2 DEF ThreadExec, Next, ClientCall
  <2> QED BY <1>1, <2>1, <2>2
          DEF HostCall, OnAmxxAttach, OnPluginsUnloading, OnAmxxDetach, ThreadExecFails
<1>2. CASE FrameBegin
  BY <1>2 DEF FrameBegin
<1>3. CASE HostStep
  <2>1. CASE StartWorker
    BY <2>1 DEF StartWorker, Next, ClientCall
  <2>2. CASE RaiseLimit
    BY <2>2 DEF RaiseLimit, SetMaxThreadsPerFrame, LimitSet
  <2>3. CASE StopWorker
    BY <2>3 DEF StopWorker, Next, ClientCall
  <2>4. CASE StopStep
    BY <2>4 DEF StopStep, CancelResult, Next, ClientStep
  <2> QED BY <1>3, <2>1, <2>2, <2>3, <2>4
          DEF HostStep, PopResult, DeleteResult, FrameEnd, StopReturned, DiscardResult, DiscardEnd
<1>4. CASE ThreadStep
  BY <1>4 DEF ThreadStep, PushResult, Next, WorkerStep
<1>5. CASE SpuriousWakeup
  BY <1>5 DEF Next
<1>6. CASE UNCHANGED vars
  BY <1>6
<1> QED BY <1>1, <1>2, <1>3, <1>4, <1>5, <1>6 DEF CurlNext, allVars

\* So the worker's invariant holds under the module too.
LEMMA WorkerKeeps == IInv /\ [CurlNext]_allVars => IInv'
<1>1. IInv /\ LimitSet => IInv'
  BY LimitKeeps DEF LimitSet
<1> QED BY <1>1, WorkerSteps, IInvStep

-----------------------------------------------------------------------------
(* What a step does to the calls *)

\* No call, object or result is touched.
CallsRest == UNCHANGED <<status, accepted, resultVars>>

\* The thread and Stop() go on without the host or a call noticing.
QuietStep == CallsRest /\ UNCHANGED <<m_state, m_FlushType, mpc, hostVars>>
StopMoves == CallsRest /\ mpc # "idle" /\ UNCHANGED <<m_state, m_FlushType, hostVars>>

\* The main thread moves between and inside the callbacks.
HostMoves ==
  /\ CallsRest
  /\ \/ OnAmxxAttach \/ OnPluginsLoaded \/ OnPluginsUnloading \/ OnAmxxDetach
     \/ StartWorker \/ FrameBegin \/ FrameEnd
     \/ RaiseLimit \/ StopWorker \/ StopReturned \/ DiscardEnd

\* The transfer of j begins or ends.
JobMoves(j) ==
  /\ status[j] \in {"queued", "running"}
  /\ \/ status' = [status EXCEPT ![j] = "running"]
     \/ status' = [status EXCEPT ![j] = "ran"]
  /\ UNCHANGED <<m_state, m_FlushType, mpc, accepted, curlVars>>

\* OnTerminate of j, by the thread and by Stop(true).
Pushes(j) ==
  /\ j = cur /\ status[j] = "ran"
  /\ status' = [status EXCEPT ![j] = "done"]
  /\ g_ThreadQueue' = <<j>> \o g_ThreadQueue
  /\ UNCHANGED <<m_state, m_FlushType, mpc, accepted, hostVars, result, thread, dup, called>>

Cancels(j) ==
  /\ mpc = "flush" /\ m_FlushType /\ status[j] = "queued"
  /\ status' = [status EXCEPT ![j] = "cancelled"]
  /\ dup' = Delete(dup, j)
  /\ UNCHANGED <<m_state, m_FlushType, mpc, accepted, hostVars, g_ThreadQueue, result, thread, called>>

\* The kinds of steps the proofs tell apart.
StepKind ==
  \/ QuietStep \/ StopMoves \/ HostMoves
  \/ \E j \in Jobs : JobMoves(j) \/ Pushes(j) \/ Cancels(j) \/ ThreadExec(j) \/ ThreadExecFails(j)
  \/ PopResult \/ DeleteResult \/ DiscardResult

LEMMA StepKinds == IInv /\ [CurlNext]_allVars => StepKind
<1> SUFFICES ASSUME IInv, [CurlNext]_allVars PROVE StepKind
  OBVIOUS
<1> USE DEF curlVars, hostVars, resultVars, sharedVars, workerVars, history
<1>0. TypeOK /\ QueuedOnce /\ JobInHand /\ StopSeen
  BY QueuedOnceEquiv DEF IInv
<1>1. CASE HostCall
  <2>1. OnAmxxAttach \/ OnPluginsLoaded \/ OnPluginsUnloading \/ OnAmxxDetach => HostMoves
    BY DEF HostMoves, CallsRest, OnAmxxAttach, OnPluginsLoaded, OnPluginsUnloading, OnAmxxDetach, vars
  <2> QED BY <1>1, <2>1 DEF HostCall, StepKind
<1>2. CASE FrameBegin
  BY <1>2 DEF FrameBegin, StepKind, HostMoves, CallsRest, vars
<1>3. CASE HostStep
  <2>1. StartWorker => HostMoves
    BY DEF StartWorker, Start, HostMoves, CallsRest
  <2>2. RaiseLimit \/ StopWorker => HostMoves
    BY DEF RaiseLimit, SetMaxThreadsPerFrame, StopWorker, StopBegin, HostMoves, CallsRest
  <2>3. FrameEnd \/ StopReturned \/ DiscardEnd => HostMoves
    BY DEF FrameEnd, StopReturned, DiscardEnd, HostMoves, CallsRest, vars
  <2>4. ASSUME CancelResult PROVE \E j \in Jobs : Cancels(j)
    <3>1. mpc = "flush" /\ m_FlushType /\ m_ThreadQueue # <<>>
      BY <1>0, <2>4 DEF CancelResult, FlushCancel, StopSeen
    <3>2. PICK j \in Jobs : j = Head(m_ThreadQueue)
      BY <1>0, <3>1, TailPlaces DEF TypeOK
    <3>3. status[j] = "queued"
      BY <1>0, <3>1, <3>2, TailPlaces DEF TypeOK, QueuedOnce
    <3>4. Cancels(j)
      BY <2>4, <3>1, <3>2, <3>3 DEF CancelResult, FlushCancel, Cancels
    <3> QED BY <3>4
  <2>5. (StopSignal \/ StopJoin \/ StopCrash \/ StopEnd) /\ UNCHANGED curlVars => StopMoves
    BY DEF StopSignal, StopJoin, StopCrash, StopEnd, StopMoves, CallsRest
  <2> QED BY <1>3, <2>1, <2>2, <2>3, <2>4, <2>5 DEF HostStep, StopStep, StepKind
<1>4. CASE ThreadStep
  <2>1. CASE TakeJob /\ UNCHANGED curlVars
    <3>1. PICK j \in Jobs : j = Head(m_ThreadQueue)
      BY <1>0, <2>1, TailPlaces DEF TypeOK, TakeJob
    <3>2. status[j] = "queued"
      BY <1>0, <2>1, <3>1, TailPlaces DEF TypeOK, QueuedOnce, TakeJob
    <3>3. JobMoves(j)
      BY <2>1, <3>1, <3>2 DEF TakeJob, JobMoves
    <3> QED BY <3>3 DEF StepKind
  <2>2. CASE RunJob /\ UNCHANGED curlVars
    <3>1. PICK j \in Jobs : j = cur
      BY <1>0, <2>2 DEF TypeOK, JobInHand, RunJob, Goto
    <3>2. JobMoves(j)
      BY <1>0, <2>2, <3>1 DEF RunJob, Goto, JobInHand, JobMoves
    <3> QED BY <3>2 DEF StepKind
  <2>3. CASE PushResult
    <3>1. PICK j \in Jobs : j = cur
      BY <1>0, <2>3 DEF TypeOK, JobInHand, PushResult, TerminateJob, Goto
    <3>2. Pushes(j)
      BY <1>0, <2>3, <3>1 DEF PushResult, TerminateJob, Goto, JobInHand, Pushes
    <3> QED BY <3>2 DEF StepKind
  <2>4. CheckState \/ CheckQueue \/ WaitForAdd \/ AddSignalled \/ Woken =>
          UNCHANGED <<m_state, m_FlushType, mpc, history>>
    BY DEF CheckState, CheckQueue, WaitForAdd, AddSignalled, Woken, Goto, EnterWait, ReturnFromWait
  <2>5. RecheckState \/ DrainLoop \/ RunFrame \/ EndFrame \/ ReleaseHandle =>
          UNCHANGED <<m_state, m_FlushType, mpc, history>>
    BY DEF RecheckState, DrainLoop, RunFrame, EndFrame, ReleaseHandle, Goto
  <2> QED BY <1>4, <2>1, <2>2, <2>3, <2>4, <2>5 DEF ThreadStep, StepKind, QuietStep, CallsRest
<1>5. CASE SpuriousWakeup /\ UNCHANGED curlVars
  BY <1>5 DEF SpuriousWakeup, ReturnFromWait, StepKind, QuietStep, CallsRest
<1>6. CASE UNCHANGED allVars
  BY <1>6 DEF allVars, vars, StepKind, QuietStep, CallsRest
<1> QED BY <1>1, <1>2, <1>3, <1>4, <1>5, <1>6 DEF CurlNext
-----------------------------------------------------------------------------
(* g_ThreadQueue, a stack *)

\* What putting an element in front does to the places of a sequence.
LEMMA ConsPlaces ==
  ASSUME NEW S, NEW s \in Seq(S), NEW e \in S
  PROVE  /\ <<e>> \o s \in Seq(S)
         /\ Len(s) \in Nat /\ Len(<<e>> \o s) = Len(s) + 1
         /\ (<<e>> \o s)[1] = e
         /\ \A i \in 1..Len(s) : (<<e>> \o s)[i + 1] = s[i]
  OBVIOUS

\* After OnTerminate j waits too.
LEMMA PushedWaits ==
  ASSUME CurlTypeOK, NEW j \in Jobs, g_ThreadQueue' = <<j>> \o g_ThreadQueue
  PROVE  \A k \in Jobs : Waits(k)' <=> k = j \/ Waits(k)
<1> USE DEF CurlTypeOK
<1>1. /\ Len(g_ThreadQueue) \in Nat /\ Len(g_ThreadQueue') = Len(g_ThreadQueue) + 1
      /\ g_ThreadQueue'[1] = j
      /\ \A i \in 1..Len(g_ThreadQueue) : g_ThreadQueue'[i + 1] = g_ThreadQueue[i]
  BY ConsPlaces
<1>2. ASSUME NEW k \in Jobs, Waits(k)' PROVE k = j \/ Waits(k)
  <2>1. PICK n \in 1..Len(g_ThreadQueue') : g_ThreadQueue'[n] = k
    BY <1>2 DEF Waits
  <2>2. CASE n = 1
    BY <1>1, <2>1, <2>2
  <2>3. CASE n # 1
    <3>1. n - 1 \in 1..Len(g_ThreadQueue) /\ (n - 1) + 1 = n
      BY <1>1, <2>1, <2>3
    <3> QED BY <1>1, <2>1, <3>1 DEF Waits
  <2> QED BY <2>2, <2>3
<1>3. ASSUME NEW k \in Jobs, k = j \/ Waits(k) PROVE Waits(k)'
  <2>1. CASE k = j
    BY <1>1, <2>1 DEF Waits
  <2>2. CASE Waits(k)
    <3>1. PICK n \in 1..Len(g_ThreadQueue) : g_ThreadQueue[n] = k
      BY <2>2 DEF Waits
    <3>2. n + 1 \in 1..Len(g_ThreadQueue') /\ g_ThreadQueue'[n + 1] = k
      BY <1>1, <3>1
    <3> QED BY <3>2 DEF Waits
  <2> QED BY <1>3, <2>1, <2>2
<1> QED BY <1>2, <1>3

\* After pop() the top j waits no longer, for it waited once.
LEMMA PoppedWaits ==
  ASSUME CurlTypeOK, WaitsOnce, g_ThreadQueue # <<>>, NEW j, j = Head(g_ThreadQueue),
         g_ThreadQueue' = Tail(g_ThreadQueue)
  PROVE  /\ j \in Jobs /\ Waits(j)
         /\ \A k \in Jobs : Waits(k)' <=> k # j /\ Waits(k)
<1> USE DEF CurlTypeOK
<1>1. /\ j \in Jobs /\ j = g_ThreadQueue[1]
      /\ Len(g_ThreadQueue) \in Nat /\ Len(g_ThreadQueue) > 0
      /\ Len(g_ThreadQueue') = Len(g_ThreadQueue) - 1
      /\ \A i \in 1..(Len(g_ThreadQueue) - 1) : g_ThreadQueue'[i] = g_ThreadQueue[i + 1]
  BY TailPlaces
<1>2. Waits(j)
  BY <1>1 DEF Waits
<1>3. ASSUME NEW k \in Jobs, Waits(k)' PROVE k # j /\ Waits(k)
  <2>1. PICK n \in 1..Len(g_ThreadQueue') : g_ThreadQueue'[n] = k
    BY <1>3 DEF Waits
  <2>2. n + 1 \in 1..Len(g_ThreadQueue) /\ 1 \in 1..Len(g_ThreadQueue) /\ n + 1 # 1
        /\ g_ThreadQueue[n + 1] = k
    BY <1>1, <2>1
  <2>3. k # j
    BY <1>1, <2>2 DEF WaitsOnce
  <2> QED BY <2>2, <2>3 DEF Waits
<1>4. ASSUME NEW k \in Jobs, k # j, Waits(k) PROVE Waits(k)'
  <2>1. PICK n \in 1..Len(g_ThreadQueue) : g_ThreadQueue[n] = k
    BY <1>4 DEF Waits
  <2>2. n # 1
    BY <1>1, <1>4, <2>1
  <2>3. n - 1 \in 1..Len(g_ThreadQueue') /\ n - 1 \in 1..(Len(g_ThreadQueue) - 1) /\ (n - 1) + 1 = n
    BY <1>1, <2>1, <2>2
  <2>4. g_ThreadQueue'[n - 1] = k
    BY <1>1, <2>1, <2>3
  <2> QED BY <2>3, <2>4 DEF Waits
<1> QED BY <1>1, <1>2, <1>3, <1>4

-----------------------------------------------------------------------------
(* Each part of the invariant *)

\* Init of the module establishes it.
LEMMA InitCInv == CurlInit => CInv
<1> SUFFICES ASSUME CurlInit PROVE CInv
  OBVIOUS
<1> USE DEF CurlInit
<1>1. IInv
  BY InitIInv
<1>2. CurlTypeOK
  <2>1. thread \in [Jobs -> ObjectState] /\ dup \in [Jobs -> ObjectState] /\ called \in [Jobs -> Nat]
    BY DEF ObjectState
  <2>2. g_ThreadQueue \in Seq(Jobs) /\ result \in Jobs \cup {NoJob}
    OBVIOUS
  <2> QED BY <2>1, <2>2 DEF CurlTypeOK, Phases, HostPCs
<1>3. HostPlace
  BY DEF HostPlace, Init
<1>4. WaitsOnce /\ NewestFirst
  BY DEF WaitsOnce, NewestFirst
<1>5. AcceptedListed
  BY DEF AcceptedListed, Init
<1>6. \A j \in Jobs : ObjectsOf(j)
  BY JobsAssumption DEF ObjectsOf, Waits, Init
<1> QED BY <1>1, <1>2, <1>3, <1>4, <1>5, <1>6 DEF CInv

\* Every variable of the module keeps its type: no step deletes what is not
\* alive.
LEMMA CurlTypeStep ==
  ASSUME CurlTypeOK, HostPlace, WaitsOnce, \A j \in Jobs : ObjectsOf(j), StepKind
  PROVE  CurlTypeOK'
<1> USE DEF CurlTypeOK, Phases, HostPCs, ObjectState, hostVars, resultVars, curlVars
<1>0. curl_ready \in BOOLEAN /\ g_Worker \in BOOLEAN /\ g_QueueLock \in BOOLEAN
  OBVIOUS
<1>1. CASE QuietStep \/ StopMoves
  BY <1>1 DEF QuietStep, StopMoves, CallsRest
<1>2. CASE HostMoves
  <2>0. UNCHANGED resultVars
    BY <1>2 DEF HostMoves, CallsRest
  <2>1. phase' \in Phases /\ hpc' \in HostPCs
    BY <1>2 DEF HostMoves, OnAmxxAttach, OnPluginsLoaded, OnPluginsUnloading, OnAmxxDetach,
        StartWorker, FrameBegin, FrameEnd, RaiseLimit, StopWorker, StopReturned, DiscardEnd
  <2>2. /\ curl_ready' = curl_ready \/ curl_ready' = TRUE \/ curl_ready' = FALSE
        /\ g_QueueLock' = g_QueueLock \/ g_QueueLock' = TRUE \/ g_QueueLock' = FALSE
    BY <1>2 DEF HostMoves, OnAmxxAttach, OnPluginsLoaded, OnPluginsUnloading, OnAmxxDetach,
        StartWorker, FrameBegin, FrameEnd, RaiseLimit, StopWorker, StopReturned, DiscardEnd
  <2>3. g_Worker' = g_Worker \/ g_Worker' = TRUE \/ g_Worker' = FALSE \/ g_Worker' = (phase = "detaching")
    BY <1>2 DEF HostMoves, OnAmxxAttach, OnPluginsLoaded, OnPluginsUnloading, OnAmxxDetach,
        StartWorker, FrameBegin, FrameEnd, RaiseLimit, StopWorker, StopReturned, DiscardEnd
  <2>4. curl_ready' \in BOOLEAN /\ g_QueueLock' \in BOOLEAN
    BY <1>0, <2>2, Zenon
  <2>5. g_Worker' \in BOOLEAN
    BY <1>0, <2>3, Zenon
  <2> QED BY <2>0, <2>1, <2>4, <2>5
<1>3. ASSUME NEW j \in Jobs, JobMoves(j) PROVE CurlTypeOK'
  BY <1>3 DEF JobMoves
<1>4. ASSUME NEW j \in Jobs, Pushes(j) PROVE CurlTypeOK'
  <2>1. g_ThreadQueue' \in Seq(Jobs)
    BY <1>4, ConsPlaces DEF Pushes
  <2> QED BY <1>4, <2>1 DEF Pushes
<1>5. ASSUME NEW j \in Jobs, Cancels(j) PROVE CurlTypeOK'
  BY <1>5 DEF Cancels, Delete, ObjectsOf
<1>6. ASSUME NEW j \in Jobs, ThreadExec(j) \/ ThreadExecFails(j) PROVE CurlTypeOK'
  BY <1>6 DEF ThreadExec, ThreadExecFails
<1>7. CASE PopResult
  <2>1. Head(g_ThreadQueue) \in Jobs /\ Tail(g_ThreadQueue) \in Seq(Jobs)
    BY <1>7, TailPlaces DEF PopResult
  <2> QED BY <1>7, <2>1 DEF PopResult
<1>8. CASE DeleteResult
  <2>1. result \in Jobs /\ thread[result] = "live" /\ dup[result] = "live"
    BY <1>8 DEF DeleteResult, HostPlace, ObjectsOf
  <2> QED BY <1>8, <2>1 DEF DeleteResult, Delete
<1>9. CASE DiscardResult
  <2>1. PICK j : j = Head(g_ThreadQueue)
    OBVIOUS
  <2>2. j \in Jobs /\ Waits(j)
    BY <1>9, <2>1, PoppedWaits DEF DiscardResult
  <2>3. thread[j] = "live" /\ dup[j] = "live"
    BY <2>2 DEF ObjectsOf
  <2>4. Tail(g_ThreadQueue) \in Seq(Jobs)
    BY <1>9, TailPlaces DEF DiscardResult
  <2> QED BY <1>9, <2>1, <2>2, <2>3, <2>4 DEF DiscardResult, Delete
<1> QED BY <1>1, <1>2, <1>3, <1>4, <1>5, <1>6, <1>7, <1>8, <1>9 DEF StepKind
\* The callbacks of the module and the worker below stay in step.
LEMMA HostPlaceStep ==
  ASSUME IInv, CurlTypeOK, HostPlace, StepKind
  PROVE  HostPlace'
<1> USE JobsAssumption DEF HostPlace, CurlTypeOK, Phases, HostPCs, hostVars, resultVars, curlVars
<1>1. CASE QuietStep \/ StopMoves
  BY <1>1 DEF QuietStep, StopMoves, CallsRest
<1>2. CASE HostMoves
  <2>0. UNCHANGED resultVars
    BY <1>2 DEF HostMoves, CallsRest
  <2> USE <2>0
  <2>1. CASE OnAmxxAttach
    BY <2>1 DEF OnAmxxAttach, vars, sharedVars
  <2>2. CASE OnPluginsLoaded
    BY <2>2 DEF OnPluginsLoaded
  <2>3. CASE OnPluginsUnloading
    BY <2>3 DEF OnPluginsUnloading, vars, sharedVars
  <2>4. CASE OnAmxxDetach
    BY <2>4 DEF OnAmxxDetach, vars, sharedVars
  <2>5. CASE StartWorker
    BY <2>5 DEF StartWorker, Start
  <2>6. CASE FrameBegin
    BY <2>6 DEF FrameBegin, vars, sharedVars
  <2>7. CASE FrameEnd
    BY <2>7 DEF FrameEnd, vars, sharedVars
  <2>8. CASE RaiseLimit
    BY <2>8 DEF RaiseLimit, SetMaxThreadsPerFrame
  <2>9. CASE StopWorker
    BY <2>9 DEF StopWorker, StopBegin
  <2>10. CASE StopReturned
    BY <2>10 DEF StopReturned, vars, sharedVars
  <2>11. CASE DiscardEnd
    BY <2>11 DEF DiscardEnd, vars, sharedVars
  <2> QED BY <1>2, <2>1, <2>2, <2>3, <2>4, <2>5, <2>6, <2>7, <2>8, <2>9, <2>10, <2>11 DEF HostMoves
<1>3. ASSUME NEW j \in Jobs, JobMoves(j) PROVE HostPlace'
  BY <1>3 DEF JobMoves
<1>4. ASSUME NEW j \in Jobs, Pushes(j) PROVE HostPlace'
  <2>1. m_state = "Running" \/ mpc # "idle"
    BY <1>4 DEF Pushes, IInv, ThreadLife, JobInHand, TypeOK, WorkerStates
  <2> QED BY <1>4, <2>1 DEF Pushes
<1>5. ASSUME NEW j \in Jobs, Cancels(j) PROVE HostPlace'
  BY <1>5 DEF Cancels
<1>6. ASSUME NEW j \in Jobs, ThreadExec(j) \/ ThreadExecFails(j) PROVE HostPlace'
  BY <1>6 DEF ThreadExec, ThreadExecFails, MakeThread, InPlugin, vars, sharedVars
<1>7. CASE PopResult
  <2>1. Head(g_ThreadQueue) \in Jobs
    BY <1>7, TailPlaces DEF PopResult
  <2> QED BY <1>7, <2>1 DEF PopResult, vars, sharedVars
<1>8. CASE DeleteResult
  BY <1>8 DEF DeleteResult, vars, sharedVars
<1>9. CASE DiscardResult
  BY <1>9 DEF DiscardResult, vars, sharedVars
<1> QED BY <1>1, <1>2, <1>3, <1>4, <1>5, <1>6, <1>7, <1>8, <1>9 DEF StepKind

\* A CurlThread is put on the stack once.
LEMMA WaitsOnceStep ==
  ASSUME CurlTypeOK, WaitsOnce, \A j \in Jobs : ObjectsOf(j), StepKind
  PROVE  WaitsOnce'
<1>1. CASE QuietStep \/ StopMoves \/ HostMoves
  BY <1>1 DEF QuietStep, StopMoves, HostMoves, CallsRest, resultVars, WaitsOnce
<1>2. ASSUME NEW j \in Jobs, JobMoves(j) \/ Cancels(j) \/ ThreadExec(j) \/ ThreadExecFails(j)
      PROVE  WaitsOnce'
  BY <1>2 DEF JobMoves, Cancels, ThreadExec, ThreadExecFails, curlVars, resultVars, WaitsOnce
<1>3. ASSUME NEW j \in Jobs, Pushes(j) PROVE WaitsOnce'
  <2>1. /\ Len(g_ThreadQueue) \in Nat /\ Len(g_ThreadQueue') = Len(g_ThreadQueue) + 1
        /\ g_ThreadQueue'[1] = j
        /\ \A i \in 1..Len(g_ThreadQueue) : g_ThreadQueue'[i + 1] = g_ThreadQueue[i]
    BY <1>3, ConsPlaces DEF Pushes, CurlTypeOK
  <2>2. \A i \in 1..Len(g_ThreadQueue) : g_ThreadQueue[i] # j
    BY <1>3 DEF Pushes, ObjectsOf, Waits
  <2>3. \A n \in 1..Len(g_ThreadQueue') : n = 1 \/
          (n - 1 \in 1..Len(g_ThreadQueue) /\ g_ThreadQueue'[n] = g_ThreadQueue[n - 1])
    <3> SUFFICES ASSUME NEW n \in 1..Len(g_ThreadQueue'), n # 1
                 PROVE  n - 1 \in 1..Len(g_ThreadQueue) /\ g_ThreadQueue'[n] = g_ThreadQueue[n - 1]
      OBVIOUS
    <3>1. n - 1 \in 1..Len(g_ThreadQueue) /\ (n - 1) + 1 = n
      BY <2>1
    <3> QED BY <2>1, <3>1
  <2> SUFFICES ASSUME NEW m \in 1..Len(g_ThreadQueue'), NEW n \in 1..Len(g_ThreadQueue'),
                      g_ThreadQueue'[m] = g_ThreadQueue'[n]
               PROVE  m = n
    BY DEF WaitsOnce
  <2>4. CASE m = 1 \/ n = 1
    BY <2>1, <2>2, <2>3, <2>4
  <2>5. CASE m # 1 /\ n # 1
    <3>1. m - 1 = n - 1
      BY <2>3, <2>5 DEF WaitsOnce
    <3> QED BY <2>1, <3>1
  <2> QED BY <2>4, <2>5
<1>4. CASE PopResult \/ DiscardResult
  <2>1. /\ Len(g_ThreadQueue) \in Nat /\ Len(g_ThreadQueue') = Len(g_ThreadQueue) - 1
        /\ \A i \in 1..(Len(g_ThreadQueue) - 1) : g_ThreadQueue'[i] = g_ThreadQueue[i + 1]
    BY <1>4, TailPlaces DEF PopResult, DiscardResult, CurlTypeOK
  <2> SUFFICES ASSUME NEW m \in 1..Len(g_ThreadQueue'), NEW n \in 1..Len(g_ThreadQueue'),
                      g_ThreadQueue'[m] = g_ThreadQueue'[n]
               PROVE  m = n
    BY DEF WaitsOnce
  <2>2. g_ThreadQueue[m + 1] = g_ThreadQueue[n + 1]
        /\ m + 1 \in 1..Len(g_ThreadQueue) /\ n + 1 \in 1..Len(g_ThreadQueue)
    BY <2>1
  <2>3. m + 1 = n + 1
    BY <2>2 DEF WaitsOnce
  <2> QED BY <2>1, <2>3
<1>5. CASE DeleteResult
  BY <1>5 DEF DeleteResult, WaitsOnce
<1> QED BY <1>1, <1>2, <1>3, <1>4, <1>5 DEF StepKind
\* A call the worker has seen stays in the list.
LEMMA AcceptedListedStep ==
  ASSUME TypeOK, AcceptedListed, StepKind
  PROVE  AcceptedListed'
<1> USE DEF TypeOK, JobStatus
<1>1. CASE QuietStep \/ StopMoves \/ HostMoves
  BY <1>1 DEF QuietStep, StopMoves, HostMoves, CallsRest, AcceptedListed
<1>2. ASSUME NEW j \in Jobs, JobMoves(j) \/ Pushes(j) \/ Cancels(j) PROVE AcceptedListed'
  <2>1. /\ accepted' = accepted /\ status[j] \notin {"new", "refused"}
        /\ \A k \in Jobs : k # j => status'[k] = status[k]
    BY <1>2 DEF JobMoves, Pushes, Cancels
  <2> QED BY <2>1 DEF AcceptedListed
<1>3. ASSUME NEW j \in Jobs, ThreadExec(j) PROVE AcceptedListed'
  <2>1. accepted' = Append(accepted, j) /\ status' = [status EXCEPT ![j] = "queued"]
    BY <1>3 DEF ThreadExec, MakeThread
  <2>2. /\ Len(accepted) \in Nat /\ Len(accepted') = Len(accepted) + 1
        /\ \A i \in 1..Len(accepted) : accepted'[i] = accepted[i]
        /\ accepted'[Len(accepted) + 1] = j
    BY <2>1, AppendPlaces
  <2>3. ASSUME NEW k \in Jobs, status'[k] \notin {"new", "refused"}
        PROVE  \E n \in 1..Len(accepted') : accepted'[n] = k
    <3>1. CASE k = j
      BY <2>2, <3>1
    <3>2. CASE k # j
      <4>1. PICK n \in 1..Len(accepted) : accepted[n] = k
        BY <2>1, <2>3, <3>2 DEF AcceptedListed
      <4>2. n \in 1..Len(accepted') /\ accepted'[n] = k
        BY <2>2, <4>1
      <4> QED BY <4>2
    <3> QED BY <3>1, <3>2
  <2> QED BY <2>3 DEF AcceptedListed
<1>4. ASSUME UNCHANGED vars PROVE AcceptedListed'
  BY <1>4 DEF vars, history, AcceptedListed
<1> QED BY <1>1, <1>2, <1>3, <1>4 DEF StepKind, ThreadExecFails, PopResult, DeleteResult, DiscardResult

\* The objects of every call follow its job and its result.
LEMMA ObjectsStep ==
  ASSUME IInv, CurlTypeOK, HostPlace, WaitsOnce, \A j \in Jobs : ObjectsOf(j), StepKind,
         NEW k \in Jobs
  PROVE  ObjectsOf(k)'
<1>0. ObjectsOf(k) /\ k # NoJob
  BY JobsAssumption
<1> USE DEF CurlTypeOK, IInv, TypeOK, JobStatus, ObjectState
<1>1. CASE QuietStep \/ StopMoves \/ HostMoves
  BY <1>0, <1>1 DEF QuietStep, StopMoves, HostMoves, CallsRest, resultVars, ObjectsOf, Waits
<1>2. ASSUME NEW j \in Jobs, JobMoves(j) PROVE ObjectsOf(k)'
  <2>1. Waits(k)' <=> Waits(k)
    BY <1>2 DEF JobMoves, Waits, curlVars, resultVars
  <2>2. UNCHANGED <<result, thread, dup, called>>
    BY <1>2 DEF JobMoves, curlVars, resultVars
  <2>3. status'[k] = status[k] \/ (k = j /\ status'[k] \in {"running", "ran"})
    BY <1>2 DEF JobMoves
  <2>4. k = j => status[k] \in {"queued", "running"}
    BY <1>2 DEF JobMoves
  <2> QED BY <1>0, <2>1, <2>2, <2>3, <2>4 DEF ObjectsOf
<1>3. ASSUME NEW j \in Jobs, Pushes(j) PROVE ObjectsOf(k)'
  <2>1. Waits(k)' <=> k = j \/ Waits(k)
    BY <1>3, PushedWaits DEF Pushes
  <2>2. UNCHANGED <<result, thread, dup, called>>
    BY <1>3 DEF Pushes
  <2>3. IF k = j THEN status[k] = "ran" /\ status'[k] = "done" ELSE status'[k] = status[k]
    BY <1>3 DEF Pushes
  <2> QED BY <1>0, <2>1, <2>2, <2>3 DEF ObjectsOf
<1>4. ASSUME NEW j \in Jobs, Cancels(j) PROVE ObjectsOf(k)'
  <2>1. Waits(k)' <=> Waits(k)
    BY <1>4 DEF Cancels, Waits
  <2>2. UNCHANGED <<result, thread, called>>
    BY <1>4 DEF Cancels
  <2>3. IF k = j THEN status[k] = "queued" /\ status'[k] = "cancelled" ELSE status'[k] = status[k]
    BY <1>4 DEF Cancels
  <2>4. IF k = j THEN dup'[k] = IF dup[k] = "live" THEN "freed" ELSE "corrupt" ELSE dup'[k] = dup[k]
    BY <1>4 DEF Cancels, Delete
  <2>5. DetachesLoaded
    BY <1>4 DEF Cancels, HostPlace
  <2> QED BY <1>0, <2>1, <2>2, <2>3, <2>4, <2>5 DEF ObjectsOf
<1>5. ASSUME NEW j \in Jobs, ThreadExec(j) PROVE ObjectsOf(k)'
  <2>1. Waits(k)' <=> Waits(k)
    BY <1>5 DEF ThreadExec, Waits
  <2>2. UNCHANGED <<result, called>>
    BY <1>5 DEF ThreadExec
  <2>3. IF k = j THEN status[k] = "new" /\ status'[k] = "queued" ELSE status'[k] = status[k]
    BY <1>5 DEF ThreadExec, MakeThread
  <2>4. IF k = j THEN dup'[k] = "live" /\ thread'[k] = "live"
                 ELSE dup'[k] = dup[k] /\ thread'[k] = thread[k]
    BY <1>5 DEF ThreadExec
  <2> QED BY <1>0, <2>1, <2>2, <2>3, <2>4 DEF ObjectsOf
<1>6. ASSUME NEW j \in Jobs, ThreadExecFails(j) PROVE ObjectsOf(k)'
  <2>1. Waits(k)' <=> Waits(k)
    BY <1>6 DEF ThreadExecFails, Waits
  <2>2. UNCHANGED <<status, result, thread, called>>
    BY <1>6 DEF ThreadExecFails, vars, history
  <2>3. IF k = j THEN dup[k] = "none" /\ dup'[k] = "live" ELSE dup'[k] = dup[k]
    BY <1>6 DEF ThreadExecFails
  <2> QED BY <1>0, <2>1, <2>2, <2>3 DEF ObjectsOf
<1>7. CASE PopResult
  <2>0. PICK j : j = Head(g_ThreadQueue)
    OBVIOUS
  <2>1. j \in Jobs /\ Waits(j) /\ (Waits(k)' <=> k # j /\ Waits(k))
    BY <1>7, <2>0, PoppedWaits DEF PopResult
  <2>2. UNCHANGED <<status, thread, dup>> /\ result' = j
    BY <1>7, <2>0 DEF PopResult, vars, history
  <2>3. IF k = j THEN called'[k] = called[k] + 1 ELSE called'[k] = called[k]
    BY <1>7, <2>0, <2>1 DEF PopResult
  <2>4. k # result
    BY <1>0, <1>7 DEF PopResult, HostPlace
  <2> QED BY <1>0, <2>1, <2>2, <2>3, <2>4 DEF ObjectsOf
<1>8. CASE DeleteResult
  <2>1. Waits(k)' <=> Waits(k)
    BY <1>8 DEF DeleteResult, Waits
  <2>2. UNCHANGED <<status, called>> /\ result' = NoJob
    BY <1>8 DEF DeleteResult, vars, history
  <2>3. /\ IF k = result THEN dup'[k] = IF dup[k] = "live" THEN "freed" ELSE "corrupt" ELSE dup'[k] = dup[k]
        /\ IF k = result THEN thread'[k] = IF thread[k] = "live" THEN "freed" ELSE "corrupt"
                         ELSE thread'[k] = thread[k]
    BY <1>8 DEF DeleteResult, Delete
  <2>4. k = result => ~Waits(k)
    BY <1>0 DEF ObjectsOf
  <2> QED BY <1>0, <2>1, <2>2, <2>3, <2>4 DEF ObjectsOf
<1>9. CASE DiscardResult
  <2>0. PICK j : j = Head(g_ThreadQueue)
    OBVIOUS
  <2>1. j \in Jobs /\ Waits(j) /\ (Waits(k)' <=> k # j /\ Waits(k))
    BY <1>9, <2>0, PoppedWaits DEF DiscardResult
  <2>2. UNCHANGED <<status, called, result>>
    BY <1>9 DEF DiscardResult, vars, history
  <2>3. /\ IF k = j THEN dup'[k] = IF dup[k] = "live" THEN "freed" ELSE "corrupt" ELSE dup'[k] = dup[k]
        /\ IF k = j THEN thread'[k] = IF thread[k] = "live" THEN "freed" ELSE "corrupt"
                    ELSE thread'[k] = thread[k]
    BY <1>9, <2>0, <2>1 DEF DiscardResult, Delete
  <2>4. k # result
    BY <1>0, <1>9 DEF DiscardResult, HostPlace
  <2> QED BY <1>0, <2>1, <2>2, <2>3, <2>4 DEF ObjectsOf
<1> QED BY <1>1, <1>2, <1>3, <1>4, <1>5, <1>6, <1>7, <1>8, <1>9 DEF StepKind
\* The call whose transfer ended is the last one the worker took; one that is
\* done was taken before it.
LEMMA LastTaken ==
  ASSUME IInv, AcceptedListed, NEW j \in Jobs, j = cur, status[j] = "ran",
         NEW k \in Jobs, status[k] = "done"
  PROVE  \E a, b \in 1..Len(accepted) : a > b /\ accepted[a] = j /\ accepted[b] = k
<1>0. TypeOK /\ QueuedOnce /\ QueueIsTail
  BY QueuedOnceEquiv DEF IInv
<1>1. /\ Len(accepted) \in Nat /\ Len(m_ThreadQueue) \in Nat
      /\ Popped \in Nat /\ Popped = Len(accepted) - Len(m_ThreadQueue)
  BY <1>0 DEF TypeOK, QueueIsTail, Popped
<1>2. PICK a \in 1..Len(accepted) : accepted[a] = j
  BY DEF AcceptedListed
<1>3. PICK b \in 1..Len(accepted) : accepted[b] = k
  BY DEF AcceptedListed
<1>4. ASSUME NEW i \in 1..Len(accepted), status[accepted[i]] # "queued"
      PROVE  i \in 1..Popped
  <2> SUFFICES ASSUME i > Popped PROVE FALSE
    BY <1>1
  <2> DEFINE n == i - Popped
  <2>1. n \in 1..Len(m_ThreadQueue) /\ Popped + n = i
    BY <1>1
  <2>2. m_ThreadQueue[n] = accepted[i]
    BY <1>0, <2>1 DEF QueueIsTail
  <2>3. status[accepted[i]] = "queued"
    BY <1>0, <2>1, <2>2 DEF QueuedOnce
  <2> QED BY <1>4, <2>3
<1>5. a \in 1..Popped /\ b \in 1..Popped
  BY <1>2, <1>3, <1>4
<1>6. a = Popped
  BY <1>0, <1>2, <1>5 DEF QueueIsTail
<1>7. b # a
  BY <1>2, <1>3
<1> QED BY <1>1, <1>2, <1>3, <1>5, <1>6, <1>7

\* While no call is accepted the order is a matter of the results only.
LEMMA NewestRest ==
  ASSUME accepted' = accepted,
         \A m, n \in 1..Len(g_ThreadQueue') : m < n =>
           \E a, b \in 1..Len(accepted) :
             a > b /\ accepted[a] = g_ThreadQueue'[m] /\ accepted[b] = g_ThreadQueue'[n]
  PROVE  NewestFirst'
<1>1. \A m, n \in 1..Len(g_ThreadQueue') : m < n =>
        \E a, b \in 1..Len(accepted') :
          a > b /\ accepted'[a] = g_ThreadQueue'[m] /\ accepted'[b] = g_ThreadQueue'[n]
  OBVIOUS
<1> QED BY <1>1, Zenon DEF NewestFirst

LEMMA NewestStays ==
  ASSUME NewestFirst, accepted' = accepted, g_ThreadQueue' = g_ThreadQueue
  PROVE  NewestFirst'
<1>1. \A m, n \in 1..Len(g_ThreadQueue) : m < n =>
        \E a, b \in 1..Len(accepted) :
          a > b /\ accepted[a] = g_ThreadQueue[m] /\ accepted[b] = g_ThreadQueue[n]
  BY DEF NewestFirst
<1> QED BY <1>1, NewestRest

\* A result is put on top of those of earlier calls.
LEMMA NewestFirstStep ==
  ASSUME IInv, CurlTypeOK, AcceptedListed, NewestFirst, \A j \in Jobs : ObjectsOf(j), StepKind
  PROVE  NewestFirst'
<1> DEFINE Above(j, k) == \E a, b \in 1..Len(accepted) : a > b /\ accepted[a] = j /\ accepted[b] = k
<1>0. ASSUME UNCHANGED <<accepted, g_ThreadQueue>> PROVE NewestFirst'
  <2>1. accepted' = accepted /\ g_ThreadQueue' = g_ThreadQueue
    BY <1>0
  <2> QED BY <2>1, NewestStays, Zenon
<1>1. CASE QuietStep \/ StopMoves \/ HostMoves
  BY <1>0, <1>1 DEF QuietStep, StopMoves, HostMoves, CallsRest, resultVars
<1>2. ASSUME NEW j \in Jobs, JobMoves(j) \/ Cancels(j) \/ ThreadExecFails(j) PROVE NewestFirst'
  BY <1>0, <1>2 DEF JobMoves, Cancels, ThreadExecFails, curlVars, resultVars, vars, history
<1>3. ASSUME NEW j \in Jobs, ThreadExec(j) PROVE NewestFirst'
  <2>1. accepted' = Append(accepted, j) /\ g_ThreadQueue' = g_ThreadQueue
    BY <1>3 DEF ThreadExec, MakeThread
  <2>2. /\ Len(accepted) \in Nat /\ Len(accepted') = Len(accepted) + 1
        /\ \A i \in 1..Len(accepted) : accepted'[i] = accepted[i]
    BY <2>1, AppendPlaces DEF IInv, TypeOK
  <2> SUFFICES ASSUME NEW m \in 1..Len(g_ThreadQueue'), NEW n \in 1..Len(g_ThreadQueue'), m < n
               PROVE  \E a, b \in 1..Len(accepted') :
                        a > b /\ accepted'[a] = g_ThreadQueue'[m] /\ accepted'[b] = g_ThreadQueue'[n]
    BY DEF NewestFirst
  <2>3. PICK a \in 1..Len(accepted), b \in 1..Len(accepted) :
           a > b /\ accepted[a] = g_ThreadQueue[m] /\ accepted[b] = g_ThreadQueue[n]
    BY <2>1 DEF NewestFirst
  <2>4. a \in 1..Len(accepted') /\ b \in 1..Len(accepted')
    BY <2>2
  <2> QED BY <2>1, <2>2, <2>3, <2>4
<1>4. ASSUME NEW j \in Jobs, Pushes(j) PROVE NewestFirst'
  <2>1. /\ Len(g_ThreadQueue) \in Nat /\ Len(g_ThreadQueue') = Len(g_ThreadQueue) + 1
        /\ g_ThreadQueue'[1] = j /\ accepted' = accepted
        /\ \A i \in 1..Len(g_ThreadQueue) : g_ThreadQueue'[i + 1] = g_ThreadQueue[i]
        /\ \A i \in 1..Len(g_ThreadQueue) : g_ThreadQueue[i] \in Jobs
    BY <1>4, ConsPlaces DEF Pushes, CurlTypeOK
  <2> SUFFICES ASSUME NEW m \in 1..Len(g_ThreadQueue'), NEW n \in 1..Len(g_ThreadQueue'), m < n
               PROVE  Above(g_ThreadQueue'[m], g_ThreadQueue'[n])
    BY <2>1, NewestRest, Zenon
  <2>2. n - 1 \in 1..Len(g_ThreadQueue) /\ (n - 1) + 1 = n /\ g_ThreadQueue'[n] = g_ThreadQueue[n - 1]
    <3>1. n - 1 \in 1..Len(g_ThreadQueue) /\ (n - 1) + 1 = n
      BY <2>1
    <3> QED BY <2>1, <3>1
  <2>3. CASE m = 1
    <3>1. PICK k \in Jobs : k = g_ThreadQueue[n - 1]
      BY <2>1, <2>2
    <3>2. status[k] = "done"
      BY <2>2, <3>1 DEF ObjectsOf, Waits
    <3>3. Above(j, k)
      BY <1>4, <3>2, LastTaken DEF Pushes
    <3> QED BY <2>1, <2>2, <2>3, <3>1, <3>3
  <2>4. CASE m # 1
    <3>1. m - 1 \in 1..Len(g_ThreadQueue) /\ (m - 1) + 1 = m /\ m - 1 < n - 1
      BY <2>1, <2>4
    <3>2. g_ThreadQueue'[m] = g_ThreadQueue[m - 1]
      BY <2>1, <3>1
    <3>3. Above(g_ThreadQueue[m - 1], g_ThreadQueue[n - 1])
      BY <2>2, <3>1 DEF NewestFirst
    <3> QED BY <2>2, <3>2, <3>3
  <2> QED BY <2>3, <2>4
<1>5. CASE PopResult \/ DiscardResult
  <2>1. /\ Len(g_ThreadQueue) \in Nat /\ Len(g_ThreadQueue') = Len(g_ThreadQueue) - 1
        /\ \A i \in 1..(Len(g_ThreadQueue) - 1) : g_ThreadQueue'[i] = g_ThreadQueue[i + 1]
    BY <1>5, TailPlaces DEF PopResult, DiscardResult, CurlTypeOK
  <2>2. accepted' = accepted
    BY <1>5 DEF PopResult, DiscardResult, vars, history
  <2> SUFFICES ASSUME NEW m \in 1..Len(g_ThreadQueue'), NEW n \in 1..Len(g_ThreadQueue'), m < n
               PROVE  Above(g_ThreadQueue'[m], g_ThreadQueue'[n])
    BY <2>2, NewestRest, Zenon
  <2>3. m + 1 \in 1..Len(g_ThreadQueue) /\ n + 1 \in 1..Len(g_ThreadQueue) /\ m + 1 < n + 1
        /\ g_ThreadQueue'[m] = g_ThreadQueue[m + 1] /\ g_ThreadQueue'[n] = g_ThreadQueue[n + 1]
    BY <2>1
  <2>4. Above(g_ThreadQueue[m + 1], g_ThreadQueue[n + 1])
    BY <2>3 DEF NewestFirst
  <2> QED BY <2>3, <2>4
<1>6. CASE DeleteResult
  BY <1>0, <1>6 DEF DeleteResult, vars, history
<1> QED BY <1>1, <1>2, <1>3, <1>4, <1>5, <1>6 DEF StepKind

\* Every step keeps the invariant.
LEMMA CInvStep == CInv /\ [CurlNext]_allVars => CInv'
<1> SUFFICES ASSUME CInv, [CurlNext]_allVars PROVE CInv'
  OBVIOUS
<1> USE DEF CInv
<1>1. IInv'
  BY WorkerKeeps
<1>2. StepKind
  BY StepKinds
<1>3. CurlTypeOK' /\ HostPlace' /\ WaitsOnce'
  BY <1>2, CurlTypeStep, HostPlaceStep, WaitsOnceStep
<1>4. AcceptedListed' /\ NewestFirst'
  BY <1>2, AcceptedListedStep, NewestFirstStep DEF IInv
<1>5. \A j \in Jobs : ObjectsOf(j)'
  BY <1>2, ObjectsStep
<1> QED BY <1>1, <1>3, <1>4, <1>5

-----------------------------------------------------------------------------
(* Theorems *)

\* The invariant holds in every reachable state of the module.
THEOREM CurlInductive == CurlSpec => []CInv
  BY InitCInv, CInvStep, PTL DEF CurlSpec

\* The variables of the module keep their types; no object is deleted twice.
THEOREM CurlTypeCorrect == CurlSpec => []CurlTypeOK
<1>1. CInv => CurlTypeOK
  BY DEF CInv
<1> QED BY <1>1, CurlInductive, PTL

\* A step that runs a callback takes the top of the stack.
LEMMA AnswerStep ==
  ASSUME CInv, StepKind
  PROVE  AnswerIsNewest
<1> USE DEF CurlTypeOK, resultVars, curlVars
<1>0. CurlTypeOK /\ NewestFirst
  BY DEF CInv
<1>1. CASE UNCHANGED called
  BY <1>1 DEF AnswerIsNewest
<1>2. CASE PopResult
  <2>1. PICK h \in Jobs : /\ h = g_ThreadQueue[1] /\ 1 \in 1..Len(g_ThreadQueue)
                          /\ called' = [called EXCEPT ![h] = @ + 1]
    <3>1. /\ g_ThreadQueue # <<>> /\ g_ThreadQueue \in Seq(Jobs)
          /\ called' = [called EXCEPT ![Head(g_ThreadQueue)] = @ + 1]
      BY <1>0, <1>2 DEF PopResult
    <3>2. /\ Head(g_ThreadQueue) \in Jobs /\ Head(g_ThreadQueue) = g_ThreadQueue[1]
          /\ 1 \in 1..Len(g_ThreadQueue)
      BY <3>1
    <3> QED BY <3>1, <3>2
  <2>2. \A j \in Jobs : called'[j] # called[j] => j = h
    BY <1>0, <2>1
  <2>3. ASSUME NEW k \in Range(g_ThreadQueue) \ {h}
        PROVE  \E a, b \in 1..Len(accepted) : a > b /\ accepted[a] = h /\ accepted[b] = k
    <3>1. PICK n \in 1..Len(g_ThreadQueue) : g_ThreadQueue[n] = k
      BY <1>0 DEF Range
    <3>2. n # 1
      BY <2>1, <2>3, <3>1
    <3>3. 1 < n
      BY <3>1, <3>2
    <3>4. \E a, b \in 1..Len(accepted) :
            a > b /\ accepted[a] = g_ThreadQueue[1] /\ accepted[b] = g_ThreadQueue[n]
      BY <1>0, <2>1, <3>3 DEF NewestFirst
    <3> QED BY <2>1, <3>1, <3>4
  <2> QED BY <2>2, <2>3 DEF AnswerIsNewest
<1>3. CASE DeleteResult \/ DiscardResult \/ QuietStep \/ StopMoves \/ HostMoves
  BY <1>1, <1>3 DEF DeleteResult, DiscardResult, QuietStep, StopMoves, HostMoves, CallsRest
<1>4. CASE \E j \in Jobs : JobMoves(j) \/ Pushes(j) \/ Cancels(j) \/ ThreadExec(j) \/ ThreadExecFails(j)
  BY <1>1, <1>4 DEF JobMoves, Pushes, Cancels, ThreadExec, ThreadExecFails
<1> QED BY <1>2, <1>3, <1>4 DEF StepKind

\* StartFrame: of the calls that wait for an answer the newest is answered first.
THEOREM AnswersNewestCorrect == CurlSpec => AnswersNewest
<1>1. CInv /\ [CurlNext]_allVars => [AnswerIsNewest]_allVars
  BY StepKinds, AnswerStep DEF CInv
<1> QED BY <1>1, CurlInductive, PTL DEF CurlSpec, AnswersNewest

\* Whoever runs a transfer, a callback or a delete finds the objects alive.
THEOREM LiveCorrect == CurlSpec => []UsesLiveObjects
<1>1. CInv => UsesLiveObjects
  <2> SUFFICES ASSUME CInv PROVE UsesLiveObjects
    OBVIOUS
  <2>0. TypeOK /\ QueueHoldsQueued /\ JobInHand
    BY DEF CInv, IInv
  <2>1. ASSUME NEW j \in Range(m_ThreadQueue) PROVE thread[j] = "live" /\ dup[j] = "live"
    BY <2>0 DEF QueueHoldsQueued, CInv, ObjectsOf
  <2>2. ASSUME NEW j \in Range(g_ThreadQueue) PROVE thread[j] = "live" /\ dup[j] = "live"
    <3>1. j \in Jobs /\ Waits(j)
      BY DEF CInv, CurlTypeOK, Range, Waits
    <3> QED BY <3>1 DEF CInv, ObjectsOf
  <2>3. wpc \in {"run", "terminate"} => thread[cur] = "live" /\ dup[cur] = "live"
    BY <2>0 DEF TypeOK, JobInHand, CInv, ObjectsOf
  <2>4. hpc = "callback" => thread[result] = "live" /\ dup[result] = "live"
    BY DEF CInv, CurlTypeOK, HostPlace, ObjectsOf
  <2> QED BY <2>1, <2>2, <2>3, <2>4 DEF UsesLiveObjects
<1> QED BY <1>1, CurlInductive, PTL

\* A host that unloads the plugins before it detaches never cleans up under a
\* transfer.
THEOREM TransfersCorrect ==
  ASSUME ~DetachesLoaded
  PROVE  CurlSpec => []TransfersInsideInit
<1>1. CInv => TransfersInsideInit
  BY DEF CInv, IInv, ThreadLife, TypeOK, WorkerStates, HostPlace, CurlTypeOK, Phases,
         TransfersInsideInit
<1> QED BY <1>1, CurlInductive, PTL

\* OnPluginsUnloading leaves no CurlThread, forward or accepted duplicate behind.
LEMMA UnloadedIsFreed == CInv => UnloadFreesAll
<1> SUFFICES ASSUME CInv, phase = "attached", hpc \in {"idle", "start"} PROVE UnloadFreesAll
  BY DEF UnloadFreesAll
<1>1. m_state = "Stopped" /\ mpc = "idle" /\ g_ThreadQueue = <<>> /\ result = NoJob
  BY DEF CInv, HostPlace
<1>2. wpc = "none" /\ m_ThreadQueue = <<>> /\ cur = NoJob
  BY <1>1 DEF CInv, IInv, ThreadLife, JobInHand
<1>3. TypeOK /\ QueuedOnce
  BY QueuedOnceEquiv DEF CInv, IInv
<1>4. ASSUME NEW j \in Jobs
      PROVE  /\ thread[j] = "live" => DetachesLoaded /\ status[j] = "cancelled"
             /\ thread[j] # "none" => dup[j] = "freed"
  <2>1. status[j] \in JobStatus /\ status[j] # "queued"
    BY <1>2, <1>3 DEF QueuedOnce, TypeOK
  <2>2. status[j] \notin {"running", "ran"} /\ j # result
    BY <1>1, <1>2, JobsAssumption DEF CInv, IInv, JobInHand
  <2>3. ~Waits(j)
    BY <1>1 DEF Waits
  <2> QED BY <2>1, <2>2, <2>3 DEF CInv, ObjectsOf, JobStatus
<1> QED BY <1>1, <1>2, <1>4 DEF UnloadFreesAll

\* No call of a map that was unloaded is left to the next one.
THEOREM UnloadCorrect == CurlSpec => []UnloadFreesAll
  BY UnloadedIsFreed, CurlInductive, PTL

\* A live CurlThread has one owner, unless OnTerminate(cancel) forgot it; a dead
\* one has none.
THEOREM OwnerCorrect == CurlSpec => []HasOneOwner
<1>1. CInv => HasOneOwner
  <2> SUFFICES ASSUME CInv PROVE HasOneOwner
    OBVIOUS
  <2>0. TypeOK /\ QueueHoldsQueued /\ JobInHand /\ CurlTypeOK
    BY DEF CInv, IInv
  <2>1. IsInjective(g_ThreadQueue)
    BY <2>0 DEF CInv, WaitsOnce, IsInjective, CurlTypeOK
  <2>2. ASSUME NEW j \in Jobs
        PROVE  Cardinality(Owners(j)) =
                 IF thread[j] = "live" /\ status[j] # "cancelled" THEN 1 ELSE 0
    <3>0. status[j] \in JobStatus /\ ObjectsOf(j) /\ j # NoJob
      BY <2>0, JobsAssumption DEF TypeOK, CInv
    <3>1. j \in Range(m_ThreadQueue) <=> status[j] = "queued"
      BY <2>0 DEF QueueHoldsQueued
    <3>2. wpc \in {"run", "terminate"} /\ cur = j <=> status[j] \in {"running", "ran"}
      BY <2>0, <3>0 DEF JobInHand
    <3>3. j \in Range(g_ThreadQueue) <=> Waits(j)
      BY <2>0 DEF CurlTypeOK, Range, Waits
    <3>4. CASE status[j] = "queued"
      <4>1. Owners(j) = {"queue"}
        BY <3>0, <3>1, <3>2, <3>3, <3>4 DEF Owners, ObjectsOf
      <4> QED BY <3>0, <3>4, <4>1, FS_Singleton DEF ObjectsOf
    <3>5. CASE status[j] \in {"running", "ran"}
      <4>1. Owners(j) = {"thread"}
        BY <3>0, <3>1, <3>2, <3>3, <3>5 DEF Owners, ObjectsOf
      <4> QED BY <3>0, <3>5, <4>1, FS_Singleton DEF ObjectsOf
    <3>6. CASE Waits(j)
      <4>1. Owners(j) = {"results"}
        BY <3>0, <3>1, <3>2, <3>3, <3>6 DEF Owners, ObjectsOf
      <4> QED BY <3>0, <3>6, <4>1, FS_Singleton DEF ObjectsOf
    <3>7. CASE j = result
      <4>1. Owners(j) = {"frame"}
        BY <3>0, <3>1, <3>2, <3>3, <3>7 DEF Owners, ObjectsOf
      <4> QED BY <3>0, <3>7, <4>1, FS_Singleton DEF ObjectsOf
    <3>8. CASE status[j] \notin {"queued", "running", "ran"} /\ ~Waits(j) /\ j # result
      <4>1. Owners(j) = {}
        BY <3>1, <3>2, <3>3, <3>8 DEF Owners
      <4>2. thread[j] # "live" \/ status[j] = "cancelled"
        BY <3>0, <3>8 DEF ObjectsOf, JobStatus
      <4> QED BY <4>1, <4>2, FS_EmptySet
    <3> QED BY <3>4, <3>5, <3>6, <3>7, <3>8
  <2> QED BY <2>1, <2>2 DEF HasOneOwner
<1> QED BY <1>1, CurlInductive, PTL

-----------------------------------------------------------------------------
(* What curl_thread_exec promises *)

\* The state of a request, case by case.
RequestTable(j) ==
  /\ dup[j] = "none" => Request(j) = "fresh"
  /\ dup[j] # "none" /\ thread[j] = "none" => Request(j) = "rejected"
  /\ dup[j] # "none" /\ thread[j] # "none" /\ called[j] > 0 => Request(j) = "answered"
  /\ dup[j] = "live" /\ thread[j] # "none" /\ called[j] = 0 => Request(j) = "open"
  /\ dup[j] = "freed" /\ thread[j] # "none" /\ called[j] = 0 => Request(j) = "given_up"

LEMMA RequestCases == CInv => \A j \in Jobs : RequestTable(j)
<1> SUFFICES ASSUME CInv, NEW j \in Jobs PROVE RequestTable(j)
  OBVIOUS
<1>1. dup[j] \in ObjectState /\ thread[j] \in ObjectState /\ called[j] \in Nat /\ status[j] \in JobStatus
  BY DEF CInv, CurlTypeOK, IInv, TypeOK
<1>2. dup[j] = "none" => thread[j] = "none" /\ called[j] = 0
  BY <1>1 DEF CInv, ObjectsOf, JobStatus
<1> QED BY <1>1, <1>2 DEF RequestTable, Request, ObjectState

\* One request moves, the others stay.
LEMMA RequestMoves ==
  ASSUME NEW k \in Jobs, NEW from, NEW to, Request(k) = from, Request(k)' = to,
         \A j \in Jobs : j # k => Request(j)' = Request(j),
         (phase = "loaded")' <=> phase = "loaded"
  PROVE  Async!Move(k, from, to)
BY DEF Async!Move

\* What is done to the objects of one call leaves the other requests alone.
LEMMA RequestStays ==
  ASSUME NEW j \in Jobs,
         dup'[j] = dup[j], thread'[j] = thread[j], called'[j] = called[j]
  PROVE  Request(j)' = Request(j)
BY DEF Request
\* A step of AsyncExec, or none.
Keeps == Async!Next \/ UNCHANGED <<phase = "loaded", [j \in Jobs |-> Request(j)]>>

\* What each step of the module is to the plugin.
LEMMA KeepsStep == CInv /\ CInv' /\ StepKind => Keeps
<1> SUFFICES ASSUME CInv, CInv', StepKind PROVE Keeps
  OBVIOUS
<1>0. /\ \A j \in Jobs : RequestTable(j) /\ RequestTable(j)'
      /\ CurlTypeOK /\ HostPlace /\ \A j \in Jobs : ObjectsOf(j) /\ j # NoJob
      /\ CurlTypeOK' /\ HostPlace' /\ \A j \in Jobs : ObjectsOf(j)'
      /\ TypeOK /\ WaitsOnce
  <2>1. (CInv => \A j \in Jobs : RequestTable(j))'
    BY RequestCases, PTL
  <2> QED BY <2>1, RequestCases, JobsAssumption DEF CInv, IInv
<1>s. ASSUME UNCHANGED <<thread, dup, called>>
      PROVE  UNCHANGED [j \in Jobs |-> Request(j)]
  BY <1>s, RequestStays
<1> USE DEF hostVars, resultVars, curlVars
<1>1. CASE QuietStep \/ StopMoves
  BY <1>s, <1>1 DEF QuietStep, StopMoves, CallsRest, Keeps
<1>2. CASE HostMoves
  <2>1. UNCHANGED [j \in Jobs |-> Request(j)]
    BY <1>s, <1>2 DEF HostMoves, CallsRest
  <2>2. CASE OnPluginsUnloading \/ OnAmxxDetach
    BY <2>1, <2>2 DEF OnPluginsUnloading, OnAmxxDetach, Keeps, Async!Next, Async!Unload
  <2>3. CASE StartWorker
    <3>1. phase = "attached" /\ phase' = "loaded"
      BY <1>0, <2>3 DEF StartWorker, HostPlace, CurlTypeOK, Phases
    <3>2. UnloadFreesAll
      BY UnloadedIsFreed
    <3>3. \A j \in Jobs : Request(j) # "open"
      BY <1>0, <2>3, <3>1, <3>2 DEF StartWorker, UnloadFreesAll, CurlTypeOK, RequestTable, ObjectState
    <3>4. Async!Load
      BY <2>1, <3>1, <3>3 DEF Async!Load
    <3> QED BY <3>4 DEF Keeps, Async!Next
  <2>4. CASE OnAmxxAttach \/ OnPluginsLoaded \/ FrameBegin \/ FrameEnd \/ RaiseLimit
             \/ StopWorker \/ StopReturned
    BY <2>1, <2>4 DEF OnAmxxAttach, OnPluginsLoaded, FrameBegin, FrameEnd, RaiseLimit,
        StopWorker, StopReturned, Keeps
  <2>5. CASE DiscardEnd
    BY <1>0, <2>1, <2>5 DEF DiscardEnd, HostPlace, Keeps
  <2> QED BY <1>2, <2>2, <2>3, <2>4, <2>5 DEF HostMoves
<1>3. ASSUME NEW j \in Jobs, JobMoves(j) \/ Pushes(j) PROVE Keeps
  BY <1>s, <1>3 DEF JobMoves, Pushes, Keeps
<1>4. ASSUME NEW k \in Jobs, Cancels(k) PROVE Keeps
  <2>1. Request(k) = "open" /\ Request(k)' = "given_up"
    BY <1>0, <1>4 DEF Cancels, Delete, ObjectsOf, RequestTable, CurlTypeOK, ObjectState
  <2>2. \A j \in Jobs : j # k => Request(j)' = Request(j)
    BY <1>4, RequestStays DEF Cancels, Delete
  <2>3. phase # "loaded" /\ phase' = phase
    BY <1>0, <1>4 DEF Cancels, HostPlace
  <2>4. Async!GiveUp(k)
    BY <2>1, <2>2, <2>3, RequestMoves DEF Async!GiveUp
  <2> QED BY <2>4 DEF Keeps, Async!Next
<1>5. ASSUME NEW k \in Jobs, ThreadExec(k) PROVE Keeps
  <2>1. Request(k) = "fresh" /\ Request(k)' = "open"
    BY <1>0, <1>5 DEF ThreadExec, MakeThread, ObjectsOf, RequestTable, CurlTypeOK, ObjectState
  <2>2. \A j \in Jobs : j # k => Request(j)' = Request(j)
    BY <1>5, RequestStays DEF ThreadExec
  <2>3. phase = "loaded" /\ phase' = phase
    BY <1>5 DEF ThreadExec, InPlugin
  <2>4. Async!Submit(k)
    BY <2>1, <2>2, <2>3, RequestMoves DEF Async!Submit
  <2> QED BY <2>4 DEF Keeps, Async!Next
<1>6. ASSUME NEW k \in Jobs, ThreadExecFails(k) PROVE Keeps
  <2>0. thread[k] = "none"
    BY <1>0, <1>6 DEF ThreadExecFails, ObjectsOf, TypeOK, JobStatus
  <2>1. Request(k) = "fresh" /\ Request(k)' = "rejected"
    BY <1>0, <1>6, <2>0 DEF ThreadExecFails, RequestTable, CurlTypeOK
  <2>2. \A j \in Jobs : j # k => Request(j)' = Request(j)
    BY <1>6, RequestStays DEF ThreadExecFails
  <2>3. phase = "loaded" /\ phase' = phase
    BY <1>6 DEF ThreadExecFails, InPlugin
  <2>4. Async!Reject(k)
    BY <2>1, <2>2, <2>3, RequestMoves DEF Async!Reject
  <2> QED BY <2>4 DEF Keeps, Async!Next
<1>7. CASE PopResult
  <2>0. PICK k : k = Head(g_ThreadQueue)
    OBVIOUS
  <2>1. k \in Jobs /\ Waits(k)
    BY <1>0, <1>7, <2>0, PoppedWaits DEF PopResult
  <2>2. /\ dup' = dup /\ thread' = thread /\ called[k] = 0 /\ called'[k] = 1
        /\ thread[k] = "live" /\ dup[k] = "live"
        /\ \A j \in Jobs : j # k => called'[j] = called[j]
    BY <1>0, <1>7, <2>0, <2>1 DEF PopResult, ObjectsOf, CurlTypeOK
  <2>3. Request(k) = "open" /\ Request(k)' = "answered"
    BY <1>0, <2>1, <2>2 DEF RequestTable
  <2>4. \A j \in Jobs : j # k => Request(j)' = Request(j)
    BY <2>2, RequestStays
  <2>5. phase = "loaded" /\ phase' = phase
    BY <1>0, <1>7 DEF PopResult, HostPlace, CurlTypeOK, Phases
  <2>6. Async!Answer(k)
    BY <2>1, <2>3, <2>4, <2>5, RequestMoves DEF Async!Answer
  <2> QED BY <2>1, <2>6 DEF Keeps, Async!Next
<1>8. CASE DeleteResult
  <2>1. PICK k \in Jobs : k = result
    BY <1>0, <1>8 DEF DeleteResult, HostPlace, CurlTypeOK
  <2>2. Request(k) = "answered" /\ Request(k)' = "answered"
    BY <1>0, <1>8, <2>1 DEF DeleteResult, Delete, ObjectsOf, RequestTable, CurlTypeOK
  <2>3. \A j \in Jobs : j # k => Request(j)' = Request(j)
    BY <1>8, <2>1, RequestStays DEF DeleteResult, Delete
  <2>4. \A j \in Jobs : Request(j)' = Request(j)
    BY <2>2, <2>3
  <2>5. phase' = phase
    BY <1>8 DEF DeleteResult
  <2> QED BY <2>4, <2>5 DEF Keeps
<1>9. CASE DiscardResult
  <2>0. PICK k : k = Head(g_ThreadQueue)
    OBVIOUS
  <2>1. k \in Jobs /\ Waits(k)
    BY <1>0, <1>9, <2>0, PoppedWaits DEF DiscardResult
  <2>2. /\ dup[k] = "live" /\ dup'[k] = "freed" /\ thread[k] = "live" /\ thread'[k] = "freed"
        /\ called' = called /\ called[k] = 0
        /\ \A j \in Jobs : j # k => dup'[j] = dup[j] /\ thread'[j] = thread[j]
    BY <1>0, <1>9, <2>0, <2>1 DEF DiscardResult, Delete, ObjectsOf, CurlTypeOK
  <2>3. Request(k) = "open" /\ Request(k)' = "given_up"
    BY <1>0, <2>1, <2>2 DEF RequestTable
  <2>4. \A j \in Jobs : j # k => Request(j)' = Request(j)
    BY <2>2, RequestStays
  <2>5. phase # "loaded" /\ phase' = phase
    BY <1>0, <1>9 DEF DiscardResult, HostPlace
  <2>6. Async!GiveUp(k)
    BY <2>1, <2>3, <2>4, <2>5, RequestMoves DEF Async!GiveUp
  <2> QED BY <2>1, <2>6 DEF Keeps, Async!Next
<1> QED BY <1>1, <1>2, <1>3, <1>4, <1>5, <1>6, <1>7, <1>8, <1>9 DEF StepKind

\* Whatever the two threads and the host do, the plugin sees AsyncExec: at most
\* one callback for a call of curl_thread_exec, while plugins are loaded, and no
\* call dropped before they are told to unload.
THEOREM AsyncImplements == CurlSpec => KeepsAsync
<1>1. CurlInit => Async!Init
  <2> SUFFICES ASSUME CurlInit PROVE Async!Init
    OBVIOUS
  <2>1. \A j \in Jobs : Request(j) = "fresh"
    BY InitCInv, RequestCases DEF CurlInit, RequestTable
  <2> QED BY <2>1 DEF CurlInit, Async!Init
<1>2. CInv /\ [CurlNext]_allVars => [Async!Next]_(Async!vars)
  <2>1. CInv /\ [CurlNext]_allVars => StepKind
    BY StepKinds DEF CInv
  <2>2. CInv /\ [CurlNext]_allVars => Keeps
    BY <2>1, CInvStep, KeepsStep
  <2> QED BY <2>2 DEF Keeps, Async!vars
<1> QED BY <1>1, <1>2, CurlInductive, PTL DEF CurlSpec, KeepsAsync, Async!Spec
-----------------------------------------------------------------------------
(* The worker under this module *)

\* The thread of a build with latched events waits only when it has no transfer.
THEOREM CurlSleepCorrect ==
  ASSUME LatchedSignals
  PROVE  CurlSpec => []SleepsOnlyWhenIdle
<1>1. CInv => SleepsOnlyWhenIdle
  BY DEF CInv, IInv, WaitAnnounced, SleepsOnlyWhenIdle
<1> QED BY <1>1, CurlInductive, PTL

\* The module's calls of Start() and Stop() use the NULL handle only after a
\* failed thread creation.
THEOREM CurlCrashCorrect == CurlSpec => []CrashNeedsFailedCreation
<1>1. CInv => CrashNeedsFailedCreation
  BY DEF CInv, IInv, ThreadLife, CrashNeedsFailedCreation
<1> QED BY <1>1, CurlInductive, PTL

\* A new limit for the worker's thread is a new batch, or none yet.
LEMMA LimitIsBatch ==
  ASSUME IInv, HostPlace, LimitSet
  PROVE  Batches
<1> USE DEF LimitSet, workerVars, history
<1>1. TypeOK /\ ThreadLife /\ mpc = "idle"
  BY DEF IInv, HostPlace
<1>2. ModeTable /\ BatchTable
  BY <1>1, ModeCases, BatchCases
<1>3. UNCHANGED <<Mode, m_ThreadQueue, Active, Outcome>>
  BY DEF Mode, Active, Outcome
<1>4. CASE wpc \in {"pauseWait", "pauseBlocked", "frame"}
  <2>1. Mode \notin {"shut", "cancelling"}
    BY <1>1, <1>2, <1>4 DEF TypeOK, WorkerStates, ThreadLife, ModeTable
  <2>2. Active = NoJob
    BY <1>4 DEF Active
  <2>3. Batch' = m_perFrame' /\ Batch' \in Nat
    BY <1>4 DEF Batch
  <2>4. Queue!OpenBatch
    BY <1>3, <2>1, <2>2, <2>3 DEF Queue!OpenBatch
  <2> QED BY <2>4 DEF Batches, Queue!Next
<1>5. CASE wpc \notin {"pauseWait", "pauseBlocked", "frame"}
  <2>1. Batch' = Batch
    BY <1>5 DEF Batch
  <2> QED BY <1>3, <2>1 DEF Batches
<1> QED BY <1>4, <1>5

\* Whatever the module does with its worker, that implements WorkQueue.
THEOREM CurlKeepsBatches == CurlSpec => KeepsBatches
<1>1. CurlInit => Queue!Init
  <2> SUFFICES ASSUME CurlInit PROVE Queue!Init
    OBVIOUS
  <2>1. Mode = "shut" /\ Active = NoJob /\ Batch = 0
    BY DEF CurlInit, Init, Mode, Active, Batch
  <2>2. Outcome = [j \in Jobs |-> "none"]
    BY DEF CurlInit, Init, Outcome
  <2> QED BY <2>1, <2>2 DEF CurlInit, Init, Queue!Init
<1>2. CInv /\ CInv' /\ [CurlNext]_allVars => [Queue!Next]_(Queue!vars)
  <2> SUFFICES ASSUME CInv, CInv', [CurlNext]_allVars PROVE [Queue!Next]_(Queue!vars)
    OBVIOUS
  <2>1. CASE [Next]_vars
    <3>1. TypeOK /\ TypeOK' /\ QueuedOnce /\ JobInHand /\ ThreadLife /\ StopSeen
      BY QueuedOnceEquiv DEF CInv, IInv
    <3>2. Batches
      BY <2>1, <3>1, BatchStep
    <3> QED BY <3>2 DEF Batches, Queue!vars
  <2>2. CASE LimitSet
    <3>1. Batches
      BY <2>2, LimitIsBatch DEF CInv
    <3> QED BY <3>1 DEF Batches, Queue!vars
  <2> QED BY <2>1, <2>2, WorkerSteps
<1> QED BY <1>1, <1>2, CurlInductive, PTL DEF CurlSpec, KeepsBatches, Queue!Spec
=============================================================================
