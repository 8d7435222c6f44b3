---------------------------- MODULE ThreadWorker ----------------------------
(***************************************************************************)
(* The worker of thread/ThreadWorker.cpp on top of thread/BaseWorker.cpp:  *)
(* one background thread that takes IThread jobs from a queue, and one     *)
(* client thread that owns the worker object (every method of it is called *)
(* from the game server's main thread).                                    *)
(*                                                                         *)
(* A step is one critical section of m_QueueLock or m_StateLock, one       *)
(* access to a shared field outside of them, or one half of an event wait. *)
(* The sections never block inside and nest only around Signal(), so the   *)
(* locks themselves carry no state here.                                   *)
(*                                                                         *)
(* LatchedSignals chooses the IEventSignal the build links: TRUE is the    *)
(* auto-reset event of WinThreads.cpp, which stays signalled until a wait  *)
(* consumes it; FALSE is the condition variable of PosixThreads.cpp,       *)
(* whose broadcast reaches only a thread that already waits.               *)
(***************************************************************************)
EXTENDS Naturals, Sequences, Functions

CONSTANTS
  Jobs,            \* the IThread objects the client may hand in, each once
  NoJob,           \* the NULL job
  LatchedSignals,  \* which IEventSignal is linked, see above
  FrameLimits,     \* the arguments of SetMaxThreadsPerFrame
  UsesPause,       \* does the client call Pause() and Unpause()?
  CreateMayFail    \* may the Threader fail to create the thread?

ASSUME JobsAssumption   == NoJob \notin Jobs
ASSUME SwitchAssumption == {LatchedSignals, UsesPause, CreateMayFail} \subseteq BOOLEAN
ASSUME LimitAssumption  == FrameLimits \subseteq Nat \ {0}

VARIABLES
  m_state,        \* WorkerState, written by the client only
  m_FlushType,    \* argument of the last Stop()
  m_ThreadQueue,  \* jobs waiting for the thread
  m_perFrame,     \* jobs RunFrame() may run in one call
  m_Waiting,      \* the thread says it is going to wait for m_AddSignal
  signalled,      \* events with a wakeup that no wait has consumed yet
  me,             \* is there a thread handle?
  wpc,            \* where the worker thread is
  this_state,     \* the thread's copy of m_state
  cur,            \* the job in the thread's hands
  budget,         \* max - done of RunFrame()
  mpc,            \* where the client is inside a worker method
  status,         \* history: what became of each job
  accepted        \* history: the jobs MakeThread queued, in order

sharedVars == <<m_state, m_FlushType, m_ThreadQueue, m_perFrame, m_Waiting, me>>
workerVars == <<this_state, cur, budget>>
history    == <<status, accepted>>
vars == <<sharedVars, signalled, wpc, workerVars, mpc, history>>

WorkerStates == {"Stopped", "Paused", "Running"}
Events       == {"add", "pause"}
WorkerPCs    == {"none", "check", "queue", "addWait", "addBlocked", "woken",
                 "recheck", "pauseWait", "pauseBlocked", "frame", "pop", "run",
                 "terminate", "release", "drain", "exited"}
ClientPCs    == {"idle", "unpause", "unpauseAdd", "stopSignal", "stopUnpause",
                 "join", "flush", "crashed"}
JobStatus    == {"new", "refused", "queued", "running", "ran", "done", "cancelled"}

Init ==
  /\ m_state = "Stopped" /\ m_FlushType = FALSE
  /\ m_ThreadQueue = <<>> /\ m_perFrame = 1
  /\ m_Waiting = FALSE /\ signalled = {} /\ me = FALSE
  /\ wpc = "none" /\ this_state = "Running" /\ cur = NoJob /\ budget = 0
  /\ mpc = "idle"
  /\ status = [j \in Jobs |-> "new"] /\ accepted = <<>>

-----------------------------------------------------------------------------
(* Event signals.  The thread is the only one that ever waits. *)

\* The thread is inside the wait for event e.
BlockedOn(e) == wpc = CASE e = "add" -> "addBlocked" [] e = "pause" -> "pauseBlocked"

Signal(e) ==
  signalled' = IF LatchedSignals \/ BlockedOn(e) THEN signalled \cup {e} ELSE signalled

\* The two halves of Wait(): the thread enters it, and returns from it.
EnterWait(e, from, to) ==
  /\ wpc = from
  /\ wpc' = to
  /\ UNCHANGED <<sharedVars, signalled, workerVars, mpc, history>>

ReturnFromWait(e, to) ==
  /\ BlockedOn(e)
  /\ wpc' = to
  /\ signalled' = signalled \ {e}
  /\ UNCHANGED <<sharedVars, workerVars, mpc, history>>

-----------------------------------------------------------------------------
(* The client: methods of the worker object. *)

Start ==
  /\ mpc = "idle" /\ m_state = "Stopped"
  /\ m_Waiting' = FALSE
  /\ signalled' = {}
  /\ m_state' = "Running"
  /\ \/ me' = TRUE /\ wpc' = "check"
     \/ CreateMayFail /\ me' = FALSE /\ wpc' = "none"
  /\ UNCHANGED <<m_FlushType, m_ThreadQueue, m_perFrame, workerVars, mpc, history>>

SetMaxThreadsPerFrame(n) ==
  /\ mpc = "idle"
  /\ m_perFrame' = n
  /\ UNCHANGED <<m_state, m_FlushType, m_ThreadQueue, m_Waiting, me, signalled,
                 wpc, workerVars, mpc, history>>

\* Mutant: the job is put in front of the queue.
MakeThreadAtFront(j) ==
  /\ mpc = "idle" /\ status[j] = "new"
  /\ m_state = "Running"
  /\ m_ThreadQueue' = <<j>> \o m_ThreadQueue
  /\ IF m_Waiting THEN Signal("add") ELSE UNCHANGED signalled
  /\ status' = [status EXCEPT ![j] = "queued"]
  /\ accepted' = Append(accepted, j)
  /\ UNCHANGED <<m_state, m_FlushType, m_perFrame, m_Waiting, me, wpc, workerVars, mpc>>

\* MakeThread on a running worker: queue the job and wake the thread if it
\* announced that it waits, all under m_QueueLock.
MakeThread(j) ==
  /\ mpc = "idle" /\ status[j] = "new"
  /\ m_state = "Running"
  /\ m_ThreadQueue' = Append(m_ThreadQueue, j)
  /\ IF m_Waiting THEN Signal("add") ELSE UNCHANGED signalled
  /\ status' = [status EXCEPT ![j] = "queued"]
  /\ accepted' = Append(accepted, j)
  /\ UNCHANGED <<m_state, m_FlushType, m_perFrame, m_Waiting, me, wpc, workerVars, mpc>>

\* MakeThread in any other state returns NULL and forgets the job.
MakeThreadRefused(j) ==
  /\ mpc = "idle" /\ status[j] = "new"
  /\ m_state # "Running"
  /\ status' = [status EXCEPT ![j] = "refused"]
  /\ UNCHANGED <<sharedVars, signalled, wpc, workerVars, mpc, accepted>>

Pause ==
  /\ UsesPause
  /\ mpc = "idle" /\ m_state = "Running"
  /\ m_state' = "Paused"
  /\ UNCHANGED <<m_FlushType, m_ThreadQueue, m_perFrame, m_Waiting, me, signalled,
                 wpc, workerVars, mpc, history>>

Unpause ==
  /\ UsesPause
  /\ mpc = "idle" /\ m_state = "Paused"
  /\ m_state' = "Running"
  /\ mpc' = "unpause"
  /\ UNCHANGED <<m_FlushType, m_ThreadQueue, m_perFrame, m_Waiting, me, signalled,
                 wpc, workerVars, history>>

UnpauseSignal ==
  /\ mpc = "unpause"
  /\ Signal("pause")
  /\ mpc' = "unpauseAdd"
  /\ UNCHANGED <<sharedVars, wpc, workerVars, history>>

UnpauseSignalAdd ==
  /\ mpc = "unpauseAdd"
  /\ IF m_Waiting THEN Signal("add") ELSE UNCHANGED signalled
  /\ mpc' = "idle"
  /\ UNCHANGED <<sharedVars, wpc, workerVars, history>>

\* Stop(flush_cancel) on a stopped worker returns false: no step.
StopBegin(flush_cancel) ==
  /\ mpc = "idle" /\ m_state # "Stopped"
  /\ mpc' = IF m_state = "Paused" THEN "stopUnpause" ELSE "stopSignal"
  /\ m_state' = "Stopped"
  /\ m_FlushType' = flush_cancel
  /\ UNCHANGED <<m_ThreadQueue, m_perFrame, m_Waiting, me, signalled, wpc,
                 workerVars, history>>

\* Unpause() finds m_state = Worker_Stopped and returns without signalling.
StopUnpause ==
  /\ mpc = "stopUnpause"
  /\ mpc' = "join"
  /\ UNCHANGED <<sharedVars, signalled, wpc, workerVars, history>>

StopSignal ==
  /\ mpc = "stopSignal"
  /\ IF m_Waiting THEN Signal("add") ELSE UNCHANGED signalled
  /\ mpc' = "join"
  /\ UNCHANGED <<sharedVars, wpc, workerVars, history>>

\* me->WaitForThread() returns once the thread is gone; me->DestroyThis().
StopJoin ==
  /\ mpc = "join" /\ me
  /\ wpc = "exited"
  /\ wpc' = "none"
  /\ mpc' = "flush"
  /\ UNCHANGED <<sharedVars, signalled, workerVars, history>>

\* Start() ignored a failed thread creation, so me is NULL here.
StopCrash ==
  /\ mpc = "join" /\ ~me
  /\ mpc' = "crashed"
  /\ UNCHANGED <<sharedVars, signalled, wpc, workerVars, history>>

\* One round of Flush(true): OnTerminate(cancel = true) and delete the handle.
FlushCancel ==
  /\ mpc = "flush" /\ m_ThreadQueue # <<>>
  /\ m_ThreadQueue' = Tail(m_ThreadQueue)
  /\ status' = [status EXCEPT ![Head(m_ThreadQueue)] = "cancelled"]
  /\ UNCHANGED <<m_state, m_FlushType, m_perFrame, m_Waiting, me, signalled, wpc,
                 workerVars, mpc, accepted>>

\* Mutant: Stop() returns without the flush.
StopEndUnflushed ==
  /\ mpc = "flush"
  /\ me' = FALSE
  /\ signalled' = {}
  /\ mpc' = "idle"
  /\ UNCHANGED <<m_state, m_FlushType, m_ThreadQueue, m_perFrame, m_Waiting, wpc,
                 workerVars, history>>

\* The queue is flushed; the locks, the events and me are freed.
StopEnd ==
  /\ mpc = "flush" /\ m_ThreadQueue = <<>>
  /\ me' = FALSE
  /\ signalled' = {}
  /\ mpc' = "idle"
  /\ UNCHANGED <<m_state, m_FlushType, m_ThreadQueue, m_perFrame, m_Waiting, wpc,
                 workerVars, history>>

-----------------------------------------------------------------------------
(* The worker thread: RunThread() and the RunFrame() it calls. *)

\* A step of the thread that moves it from one place to another.
Goto(from, to) ==
  /\ wpc = from
  /\ wpc' = to
  /\ UNCHANGED <<sharedVars, mpc, accepted>>

CheckState ==
  /\ Goto("check", IF m_state = "Stopped" THEN "recheck" ELSE "queue")
  /\ this_state' = m_state
  /\ UNCHANGED <<signalled, cur, budget, status>>

\* Mutant: the wait is not announced.
CheckQueueSilent ==
  /\ wpc = "queue"
  /\ wpc' = IF m_ThreadQueue = <<>> THEN "addWait" ELSE "recheck"
  /\ UNCHANGED <<sharedVars, signalled, workerVars, mpc, history>>

\* Under m_QueueLock: announce the wait if there is nothing to do.
CheckQueue ==
  /\ wpc = "queue"
  /\ wpc' = IF m_ThreadQueue = <<>> THEN "addWait" ELSE "recheck"
  /\ m_Waiting' = IF m_ThreadQueue = <<>> THEN TRUE ELSE m_Waiting
  /\ UNCHANGED <<m_state, m_FlushType, m_ThreadQueue, m_perFrame, me, signalled,
                 workerVars, mpc, history>>

WaitForAdd  == EnterWait("add", "addWait", "addBlocked")
AddSignalled == "add" \in signalled /\ ReturnFromWait("add", "woken")

Woken ==
  /\ wpc = "woken"
  /\ wpc' = "recheck"
  /\ m_Waiting' = FALSE
  /\ UNCHANGED <<m_state, m_FlushType, m_ThreadQueue, m_perFrame, me, signalled,
                 workerVars, mpc, history>>

\* Mutant: m_FlushType is not looked at, the rest is left to Flush().
RecheckStateNoDrain ==
  /\ Goto("recheck", CASE m_state = "Running" -> "frame"
                       [] m_state = "Paused"  -> "pauseWait"
                       [] m_state = "Stopped" -> "exited")
  /\ this_state' = m_state
  /\ UNCHANGED <<signalled, cur, budget, status>>

\* Mutant: the queue is drained whatever m_FlushType is.
RecheckStateDrains ==
  /\ Goto("recheck", CASE m_state = "Running" -> "frame"
                       [] m_state = "Paused"  -> "pauseWait"
                       [] m_state = "Stopped" -> "drain")
  /\ this_state' = m_state
  /\ UNCHANGED <<signalled, cur, budget, status>>

RecheckState ==
  /\ Goto("recheck", CASE m_state = "Running" -> "frame"
                       [] m_state = "Paused"  -> "pauseWait"
                       [] m_state = "Stopped" -> IF m_FlushType THEN "exited" ELSE "drain")
  /\ this_state' = m_state
  /\ UNCHANGED <<signalled, cur, budget, status>>

\* this_state is not read again after the pause: the thread runs a frame next.
WaitForPause   == EnterWait("pause", "pauseWait", "pauseBlocked")
PauseSignalled == "pause" \in signalled /\ ReturnFromWait("pause", "frame")

\* pthread_cond_wait may return without a signal.
SpuriousWakeup ==
  /\ ~LatchedSignals
  /\ ReturnFromWait("add", "woken") \/ ReturnFromWait("pause", "frame")

\* Mutant: do RunFrame(); while (true).
DrainLoopForever ==
  /\ Goto("drain", "frame")
  /\ UNCHANGED <<signalled, workerVars, status>>

\* while (m_ThreadQueue.size()) RunFrame();
DrainLoop ==
  /\ Goto("drain", IF m_ThreadQueue = <<>> THEN "exited" ELSE "frame")
  /\ UNCHANGED <<signalled, workerVars, status>>

RunFrame ==
  /\ Goto("frame", "pop")
  /\ budget' = m_perFrame
  /\ UNCHANGED <<signalled, this_state, cur, status>>

\* Mutant: the job is read and not erased.
TakeJobKept ==
  /\ wpc = "pop" /\ budget > 0 /\ m_ThreadQueue # <<>>
  /\ wpc' = "run"
  /\ cur' = Head(m_ThreadQueue)
  /\ status' = [status EXCEPT ![Head(m_ThreadQueue)] = "running"]
  /\ UNCHANGED <<sharedVars, signalled, this_state, budget, mpc, accepted>>

\* Mutant: done < max is not tested.
TakeJobPastLimit ==
  /\ wpc = "pop" /\ m_ThreadQueue # <<>>
  /\ wpc' = "run"
  /\ cur' = Head(m_ThreadQueue)
  /\ m_ThreadQueue' = Tail(m_ThreadQueue)
  /\ status' = [status EXCEPT ![Head(m_ThreadQueue)] = "running"]
  /\ UNCHANGED <<m_state, m_FlushType, m_perFrame, m_Waiting, me, signalled,
                 this_state, budget, mpc, accepted>>

TakeJob ==
  /\ wpc = "pop" /\ budget > 0 /\ m_ThreadQueue # <<>>
  /\ wpc' = "run"
  /\ cur' = Head(m_ThreadQueue)
  /\ m_ThreadQueue' = Tail(m_ThreadQueue)
  /\ status' = [status EXCEPT ![Head(m_ThreadQueue)] = "running"]
  /\ UNCHANGED <<m_state, m_FlushType, m_perFrame, m_Waiting, me, signalled,
                 this_state, budget, mpc, accepted>>

\* RunFrame() returns, to the drain loop iff the thread has seen the stop; the
\* think time between two rounds only delays the next one.
EndFrame ==
  /\ budget = 0 \/ m_ThreadQueue = <<>>
  /\ Goto("pop", IF this_state = "Stopped" THEN "drain" ELSE "check")
  /\ UNCHANGED <<signalled, workerVars, status>>

\* pThread->RunThread() returns.
RunJob ==
  /\ Goto("run", "terminate")
  /\ status' = [status EXCEPT ![cur] = "ran"]
  /\ UNCHANGED <<signalled, workerVars>>

\* pThread->OnTerminate(swt, false)
TerminateJob ==
  /\ Goto("terminate", "release")
  /\ status' = [status EXCEPT ![cur] = "done"]
  /\ UNCHANGED <<signalled, workerVars>>

\* delete swt; done++
ReleaseHandle ==
  /\ Goto("release", "pop")
  /\ cur' = NoJob
  /\ budget' = budget - 1
  /\ UNCHANGED <<signalled, this_state, status>>

-----------------------------------------------------------------------------
\* Calls the client may make, and the steps that finish a call it has made.
ClientCall ==
  \/ Start \/ Pause \/ Unpause
  \/ \E n \in FrameLimits : SetMaxThreadsPerFrame(n)
  \/ \E j \in Jobs : MakeThread(j) \/ MakeThreadRefused(j)
  \/ \E flush_cancel \in BOOLEAN : StopBegin(flush_cancel)

ClientStep ==
  \/ UnpauseSignal \/ UnpauseSignalAdd
  \/ StopUnpause \/ StopSignal \/ StopJoin \/ StopCrash
  \/ FlushCancel \/ StopEnd

WorkerStep ==
  \/ CheckState \/ CheckQueue \/ WaitForAdd \/ AddSignalled \/ Woken
  \/ RecheckState \/ WaitForPause \/ PauseSignalled \/ DrainLoop
  \/ RunFrame \/ TakeJob \/ EndFrame \/ RunJob \/ TerminateJob \/ ReleaseHandle

Next == ClientCall \/ ClientStep \/ WorkerStep \/ SpuriousWakeup

\* The operating system runs both threads, and a job handed to RunThread()
\* returns; nobody has to call the worker, and no wakeup is spurious on demand.
Fairness == WF_vars(ClientStep) /\ WF_vars(WorkerStep)

Spec     == Init /\ [][Next]_vars
FairSpec == Spec /\ Fairness

-----------------------------------------------------------------------------
(* Properties *)

TypeOK ==
  /\ m_state \in WorkerStates /\ m_FlushType \in BOOLEAN
  /\ m_ThreadQueue \in Seq(Jobs) /\ m_perFrame \in Nat \ {0}
  /\ m_Waiting \in BOOLEAN /\ signalled \subseteq Events /\ me \in BOOLEAN
  /\ wpc \in WorkerPCs /\ this_state \in WorkerStates
  /\ cur \in Jobs \cup {NoJob} /\ budget \in Nat
  /\ mpc \in ClientPCs
  /\ status \in [Jobs -> JobStatus] /\ accepted \in Seq(Jobs)

Started == {"running", "ran", "done"}
Settled == {"new", "refused", "done", "cancelled"}

\* Every queued job is in the queue exactly once and nothing else is: no
\* interleaving of MakeThread, RunFrame and Flush loses or doubles a handle
\* (the queue operations of BaseWorker.cpp under m_QueueLock).
QueueHoldsQueued ==
  /\ IsInjective(m_ThreadQueue)
  /\ Range(m_ThreadQueue) = {j \in Jobs : status[j] = "queued"}

\* Jobs start in the order MakeThread accepted them, and one at a time: when a
\* job has started, every job accepted before it is over.
RunsInOrder ==
  \A i, k \in DOMAIN accepted :
    i < k /\ status[accepted[k]] \in Started => status[accepted[i]] \in Settled

\* When Stop() has returned, every job ever handed in is settled: none is left
\* in the queue and none is still in the hands of a thread.
StoppedIsQuiet ==
  mpc = "idle" /\ m_state = "Stopped" =>
    /\ wpc = "none" /\ m_ThreadQueue = <<>>
    /\ \A j \in Jobs : status[j] \in Settled

\* Stop(false) "will wait until the tasks have been depleted" (IThreader.h): a
\* job is cancelled only by a Stop(true).
CancelAsked == \A j \in Jobs : status[j] # "cancelled" /\ status'[j] = "cancelled" => m_FlushType
CancelsOnlyOnRequest == [][CancelAsked]_vars

\* The thread waits in m_AddSignal->Wait() only when there is nothing to do: if
\* no wakeup is on its way to it, the queue is empty ("if none, wait for an
\* item", ThreadWorker.cpp).
SleepsOnlyWhenIdle ==
  wpc \in {"addWait", "addBlocked"} /\ "add" \notin signalled => m_ThreadQueue = <<>>

\* The NULL thread handle is dereferenced only after a failed thread creation:
\* no order of Start() and Stop() calls alone gets there.
CrashNeedsFailedCreation == mpc = "crashed" => CreateMayFail

InCall    == mpc \notin {"idle", "crashed"}
\* The thread waits for an event nobody is going to signal: Stop() joins it.
StopMissed ==
  /\ mpc = "join"
  /\ \/ wpc \in {"addWait", "addBlocked"} /\ "add" \notin signalled
     \/ wpc \in {"pauseWait", "pauseBlocked"} /\ "pause" \notin signalled

\* Stop() and Unpause() return.
CallsReturn == InCall ~> ~InCall

\* Stop() fails to return only when the thread went to wait after the last
\* signal of the stop: nothing else in the worker can hold the client up.
CallsReturnUnlessMissed == InCall ~> ~InCall \/ StopMissed

\* How the abstract WorkQueue shows in the worker's state.
Mode == CASE m_state = "Running" -> "running"
          [] m_state = "Paused"  -> "paused"
          [] m_state = "Stopped" -> IF mpc = "idle" THEN "shut"
                                    ELSE IF m_FlushType THEN "cancelling" ELSE "depleting"
Active  == IF wpc \in {"run", "terminate"} THEN cur ELSE NoJob
Outcome == [j \in Jobs |-> IF status[j] \in {"refused", "done", "cancelled"}
                           THEN status[j] ELSE "none"]

\* A thread that is past its look at the state will run a frame.
Batch == CASE wpc \in {"pauseWait", "pauseBlocked", "frame"} -> m_perFrame
           [] wpc = "pop" -> budget
           [] wpc \in {"run", "terminate", "release"} -> budget - 1
           [] OTHER -> 0

Queue == INSTANCE WorkQueue WITH
  mode <- Mode, backlog <- m_ThreadQueue, active <- Active, batch <- Batch, outcome <- Outcome

\* The worker implements WorkQueue: whatever the threads do, the client sees tasks
\* run in order, and after Stop(true) no more of them than the frame in progress
\* had left under its limit; Stop(true) cancels none before that frame is over.
KeepsBatches == Queue!Spec

-----------------------------------------------------------------------------
(* The inductive invariant behind the safety properties *)

Stopping == {"stopSignal", "stopUnpause", "join"}
InFrame  == {"frame", "pop", "run", "terminate", "release"}

\* The job in the thread's hands is the only one that runs, and is as far as
\* the thread is.
JobInHand ==
  /\ cur # NoJob <=> wpc \in {"run", "terminate", "release"}
  /\ cur # NoJob => budget > 0
  /\ wpc = "run" => status[cur] = "running"
  /\ wpc = "terminate" => status[cur] = "ran"
  /\ wpc = "release" => status[cur] = "done"
  /\ \A j \in Jobs : status[j] \in {"running", "ran"} => j = cur

\* Thread, handle and m_state go together with where the client is.
ThreadLife ==
  /\ wpc # "none" => me
  /\ mpc \in Stopping \cup {"flush", "crashed"} => m_state = "Stopped"
  /\ mpc \in {"unpause", "unpauseAdd"} => m_state = "Running"
  /\ mpc \in {"flush", "crashed"} => wpc = "none"
  /\ mpc = "idle" /\ m_state = "Stopped" => wpc = "none" /\ m_ThreadQueue = <<>>
  /\ (m_state # "Stopped" \/ mpc \in Stopping) /\ ~CreateMayFail => me
  /\ mpc = "crashed" => CreateMayFail

\* A thread that has seen the stop is in a Stop(), and cancels only if asked to.
StopSeen ==
  /\ wpc = "drain" => this_state = "Stopped"
  /\ wpc \in {"pauseWait", "pauseBlocked"} => this_state # "Stopped"
  /\ wpc = "drain" \/ (wpc \in InFrame /\ this_state = "Stopped") =>
       m_state = "Stopped" /\ ~m_FlushType /\ mpc \in Stopping
  /\ wpc = "exited" =>
       m_state = "Stopped" /\ mpc \in Stopping /\ (m_FlushType \/ m_ThreadQueue = <<>>)
  /\ mpc = "flush" => m_FlushType \/ m_ThreadQueue = <<>>

\* Who is going to wait has said so, and a latched wakeup is not lost.
WaitAnnounced ==
  wpc \in {"addWait", "addBlocked"} =>
    /\ m_Waiting
    /\ LatchedSignals => "add" \in signalled \/ m_ThreadQueue = <<>>

Popped == Len(accepted) - Len(m_ThreadQueue)

\* The queue is the tail of the accepted jobs; those before it are over, but
\* for the last one when it is in the thread's hands.
QueueIsTail ==
  /\ Popped \in Nat
  /\ \A i \in 1..Len(m_ThreadQueue) : m_ThreadQueue[i] = accepted[Popped + i]
  /\ \A i \in 1..Popped :
       status[accepted[i]] \in {"done", "cancelled"} \/ (i = Popped /\ accepted[i] = cur)
  /\ \A i \in 1..Len(accepted) : status[accepted[i]] \notin {"new", "refused"}

IInv == TypeOK /\ QueueHoldsQueued /\ JobInHand /\ ThreadLife /\ StopSeen /\ WaitAnnounced /\ QueueIsTail

=============================================================================
