------------------------ MODULE ThreadWorkerProofs ------------------------
(* Proofs about ThreadWorker, for every set of jobs and every build switch. *)
EXTENDS ThreadWorker, TLAPS

\* What Append and Tail do to the places of a sequence.
LEMMA AppendPlaces ==
  ASSUME NEW S, NEW s \in Seq(S), NEW e \in S
  PROVE  /\ Append(s, e) \in Seq(S)
         /\ Len(s) \in Nat /\ Len(Append(s, e)) = Len(s) + 1
         /\ \A i \in 1..Len(s) : Append(s, e)[i] = s[i]
         /\ Append(s, e)[Len(s) + 1] = e
  OBVIOUS

LEMMA TailPlaces ==
  ASSUME NEW S, NEW s \in Seq(S), s # <<>>
  PROVE  /\ Tail(s) \in Seq(S) /\ Head(s) \in S /\ Head(s) = s[1]
         /\ Len(s) \in Nat /\ Len(s) > 0 /\ Len(Tail(s)) = Len(s) - 1
         /\ \A i \in 1..(Len(s) - 1) : Tail(s)[i] = s[i + 1]
  OBVIOUS

\* A signal adds at most the event it is sent to.
LEMMA SignalAdds ==
  ASSUME NEW e, Signal(e)
  PROVE  signalled \subseteq signalled' /\ signalled' \subseteq signalled \cup {e}
  BY DEF Signal

\* Every action keeps the types of the variables.
LEMMA TypeStep == TypeOK /\ JobInHand /\ [Next]_vars => TypeOK'
<1> SUFFICES ASSUME TypeOK, JobInHand, [Next]_vars PROVE TypeOK'
  OBVIOUS
<1> USE JobsAssumption, SwitchAssumption, LimitAssumption DEF TypeOK, WorkerStates, Events,
        WorkerPCs, ClientPCs, JobStatus, sharedVars, workerVars, history
<1>1. CASE ClientCall
  <2>1. CASE Start BY <2>1 DEF Start
  <2>2. CASE Pause BY <2>2 DEF Pause
  <2>3. CASE Unpause BY <2>3 DEF Unpause
  <2>4. ASSUME NEW n \in FrameLimits, SetMaxThreadsPerFrame(n) PROVE TypeOK'
    BY <2>4 DEF SetMaxThreadsPerFrame
  <2>5. ASSUME NEW j \in Jobs, MakeThread(j) PROVE TypeOK'
    <3>1. m_ThreadQueue' \in Seq(Jobs) /\ accepted' \in Seq(Jobs)
      BY <2>5, AppendPlaces DEF MakeThread
    <3>2. signalled' \subseteq Events
      BY <2>5, SignalAdds DEF MakeThread
    <3> QED BY <2>5, <3>1, <3>2 DEF MakeThread
  <2>6. ASSUME NEW j \in Jobs, MakeThreadRefused(j) PROVE TypeOK'
    BY <2>6 DEF MakeThreadRefused
  <2>7. ASSUME NEW f \in BOOLEAN, StopBegin(f) PROVE TypeOK'
    BY <2>7 DEF StopBegin
  <2> QED BY <1>1, <2>1, <2>2, <2>3, <2>4, <2>5, <2>6, <2>7 DEF ClientCall
<1>2. CASE ClientStep
  <2>1. CASE UnpauseSignal
    <3>1. signalled' \subseteq Events
      BY <2>1, SignalAdds DEF UnpauseSignal
    <3> QED BY <2>1, <3>1 DEF UnpauseSignal
  <2>2. CASE UnpauseSignalAdd
    <3>1. signalled' \subseteq Events
      BY <2>2, SignalAdds DEF UnpauseSignalAdd
    <3> QED BY <2>2, <3>1 DEF UnpauseSignalAdd
  <2>3. CASE StopUnpause BY <2>3 DEF StopUnpause
  <2>4. CASE StopSignal
    <3>1. signalled' \subseteq Events
      BY <2>4, SignalAdds DEF StopSignal
    <3> QED BY <2>4, <3>1 DEF StopSignal
  <2>5. CASE StopJoin BY <2>5 DEF StopJoin
  <2>6. CASE StopCrash BY <2>6 DEF StopCrash
  <2>7. CASE FlushCancel BY <2>7 DEF FlushCancel
  <2>8. CASE StopEnd BY <2>8 DEF StopEnd
  <2> QED BY <1>2, <2>1, <2>2, <2>3, <2>4, <2>5, <2>6, <2>7, <2>8 DEF ClientStep
<1>3. CASE WorkerStep
  <2>1. CASE CheckState BY <2>1 DEF CheckState, Goto
  <2>2. CASE CheckQueue BY <2>2 DEF CheckQueue
  <2>3. CASE WaitForAdd BY <2>3 DEF WaitForAdd, EnterWait
  <2>4. CASE AddSignalled BY <2>4 DEF AddSignalled, ReturnFromWait
  <2>5. CASE Woken BY <2>5 DEF Woken
  <2>6. CASE RecheckState BY <2>6 DEF RecheckState, Goto
  <2>7. CASE WaitForPause BY <2>7 DEF WaitForPause, EnterWait
  <2>8. CASE PauseSignalled BY <2>8 DEF PauseSignalled, ReturnFromWait
  <2>9. CASE DrainLoop BY <2>9 DEF DrainLoop, Goto
  <2>10. CASE RunFrame BY <2>10 DEF RunFrame, Goto
  <2>11. CASE TakeJob BY <2>11 DEF TakeJob
  <2>12. CASE EndFrame BY <2>12 DEF EndFrame, Goto
  <2>13. CASE RunJob BY <2>13 DEF RunJob, Goto
  <2>14. CASE TerminateJob BY <2>14 DEF TerminateJob, Goto
  <2>15. CASE ReleaseHandle BY <2>15 DEF ReleaseHandle, Goto, JobInHand
  <2> QED BY <1>3, <2>1, <2>2, <2>3, <2>4, <2>5, <2>6, <2>7, <2>8, <2>9, <2>10, <2>11,
             <2>12, <2>13, <2>14, <2>15 DEF WorkerStep
<1>4. CASE SpuriousWakeup BY <1>4 DEF SpuriousWakeup, ReturnFromWait
<1>5. CASE UNCHANGED vars BY <1>5 DEF vars
<1> QED BY <1>1, <1>2, <1>3, <1>4, <1>5 DEF Next

\* The job in hand follows the thread through RunFrame().
LEMMA JobInHandStep == TypeOK /\ QueueHoldsQueued /\ JobInHand /\ ThreadLife /\ [Next]_vars => JobInHand'
<1> SUFFICES ASSUME TypeOK, QueueHoldsQueued, JobInHand, ThreadLife, [Next]_vars PROVE JobInHand'
  OBVIOUS
<1> USE JobsAssumption DEF TypeOK, WorkerStates, JobInHand, ThreadLife, sharedVars, workerVars, history
<1>1. CASE ClientCall
  <2>1. CASE Start BY <2>1 DEF Start
  <2>2. CASE Pause BY <2>2 DEF Pause
  <2>3. CASE Unpause BY <2>3 DEF Unpause
  <2>4. ASSUME NEW n \in FrameLimits, SetMaxThreadsPerFrame(n) PROVE JobInHand'
    BY <2>4 DEF SetMaxThreadsPerFrame
  <2>5. ASSUME NEW j \in Jobs, MakeThread(j) PROVE JobInHand'
    <3>1. wpc' = wpc /\ cur' = cur /\ budget' = budget /\ status[j] = "new" /\ status' = [status EXCEPT ![j] = "queued"]
      BY <2>5 DEF MakeThread
    <3> QED BY <3>1
  <2>6. ASSUME NEW j \in Jobs, MakeThreadRefused(j) PROVE JobInHand'
    BY <2>6 DEF MakeThreadRefused
  <2>7. ASSUME NEW f \in BOOLEAN, StopBegin(f) PROVE JobInHand'
    BY <2>7 DEF StopBegin
  <2> QED BY <1>1, <2>1, <2>2, <2>3, <2>4, <2>5, <2>6, <2>7 DEF ClientCall
<1>2. CASE ClientStep
  <2>1. CASE UnpauseSignal BY <2>1 DEF UnpauseSignal
  <2>2. CASE UnpauseSignalAdd BY <2>2 DEF UnpauseSignalAdd
  <2>3. CASE StopUnpause BY <2>3 DEF StopUnpause
  <2>4. CASE StopSignal BY <2>4 DEF StopSignal
  <2>5. CASE StopJoin BY <2>5 DEF StopJoin
  <2>6. CASE StopCrash BY <2>6 DEF StopCrash
  <2>7. CASE FlushCancel BY <2>7 DEF FlushCancel
  <2>8. CASE StopEnd BY <2>8 DEF StopEnd
  <2> QED BY <1>2, <2>1, <2>2, <2>3, <2>4, <2>5, <2>6, <2>7, <2>8 DEF ClientStep
<1>3. CASE WorkerStep
  <2>1. CASE CheckState BY <2>1 DEF CheckState, Goto
  <2>2. CASE CheckQueue BY <2>2 DEF CheckQueue
  <2>3. CASE WaitForAdd BY <2>3 DEF WaitForAdd, EnterWait
  <2>4. CASE AddSignalled BY <2>4 DEF AddSignalled, ReturnFromWait, BlockedOn
  <2>5. CASE Woken BY <2>5 DEF Woken
  <2>6. CASE RecheckState BY <2>6 DEF RecheckState, Goto
  <2>7. CASE WaitForPause BY <2>7 DEF WaitForPause, EnterWait
  <2>8. CASE PauseSignalled BY <2>8 DEF PauseSignalled, ReturnFromWait, BlockedOn
  <2>9. CASE DrainLoop BY <2>9 DEF DrainLoop, Goto
  <2>10. CASE RunFrame BY <2>10 DEF RunFrame, Goto
  <2>11. CASE TakeJob BY <2>11 DEF TakeJob
  <2>12. CASE EndFrame BY <2>12 DEF EndFrame, Goto
  <2>13. CASE RunJob BY <2>13 DEF RunJob, Goto
  <2>14. CASE TerminateJob BY <2>14 DEF TerminateJob, Goto
  <2>15. CASE ReleaseHandle BY <2>15 DEF ReleaseHandle, Goto
  <2> QED BY <1>3, <2>1, <2>2, <2>3, <2>4, <2>5, <2>6, <2>7, <2>8, <2>9, <2>10, <2>11,
             <2>12, <2>13, <2>14, <2>15 DEF WorkerStep
<1>4. CASE SpuriousWakeup BY <1>4 DEF SpuriousWakeup, ReturnFromWait, BlockedOn
<1>5. CASE UNCHANGED vars BY <1>5 DEF vars
<1> QED BY <1>1, <1>2, <1>3, <1>4, <1>5 DEF Next

\* Handle, thread and state change together.
LEMMA ThreadLifeStep == TypeOK /\ ThreadLife /\ StopSeen /\ [Next]_vars => ThreadLife'
<1> SUFFICES ASSUME TypeOK, ThreadLife, StopSeen, [Next]_vars PROVE ThreadLife'
  OBVIOUS
<1> USE SwitchAssumption DEF TypeOK, WorkerStates, ThreadLife, StopSeen, Stopping, InFrame, sharedVars, workerVars, history
<1>1. CASE ClientCall
  <2>1. CASE Start BY <2>1 DEF Start
  <2>2. CASE Pause BY <2>2 DEF Pause
  <2>3. CASE Unpause BY <2>3 DEF Unpause
  <2>4. ASSUME NEW n \in FrameLimits, SetMaxThreadsPerFrame(n) PROVE ThreadLife'
    BY <2>4 DEF SetMaxThreadsPerFrame
  <2>5. ASSUME NEW j \in Jobs, MakeThread(j) PROVE ThreadLife'
    BY <2>5 DEF MakeThread
  <2>6. ASSUME NEW j \in Jobs, MakeThreadRefused(j) PROVE ThreadLife'
    BY <2>6 DEF MakeThreadRefused
  <2>7. ASSUME NEW f \in BOOLEAN, StopBegin(f) PROVE ThreadLife'
    BY <2>7 DEF StopBegin
  <2> QED BY <1>1, <2>1, <2>2, <2>3, <2>4, <2>5, <2>6, <2>7 DEF ClientCall
<1>2. CASE ClientStep
  <2>1. CASE UnpauseSignal BY <2>1 DEF UnpauseSignal
  <2>2. CASE UnpauseSignalAdd BY <2>2 DEF UnpauseSignalAdd
  <2>3. CASE StopUnpause BY <2>3 DEF StopUnpause
  <2>4. CASE StopSignal BY <2>4 DEF StopSignal
  <2>5. CASE StopJoin BY <2>5 DEF StopJoin
  <2>6. CASE StopCrash BY <2>6 DEF StopCrash
  <2>7. CASE FlushCancel BY <2>7 DEF FlushCancel
  <2>8. CASE StopEnd BY <2>8 DEF StopEnd
  <2> QED BY <1>2, <2>1, <2>2, <2>3, <2>4, <2>5, <2>6, <2>7, <2>8 DEF ClientStep
<1>3. CASE WorkerStep
  <2>1. CASE CheckState BY <2>1 DEF CheckState, Goto
  <2>2. CASE CheckQueue BY <2>2 DEF CheckQueue
  <2>3. CASE WaitForAdd BY <2>3 DEF WaitForAdd, EnterWait
  <2>4. CASE AddSignalled BY <2>4 DEF AddSignalled, ReturnFromWait, BlockedOn
  <2>5. CASE Woken BY <2>5 DEF Woken
  <2>6. CASE RecheckState BY <2>6 DEF RecheckState, Goto
  <2>7. CASE WaitForPause BY <2>7 DEF WaitForPause, EnterWait
  <2>8. CASE PauseSignalled BY <2>8 DEF PauseSignalled, ReturnFromWait, BlockedOn
  <2>9. CASE DrainLoop BY <2>9 DEF DrainLoop, Goto
  <2>10. CASE RunFrame BY <2>10 DEF RunFrame, Goto
  <2>11. CASE TakeJob BY <2>11 DEF TakeJob
  <2>12. CASE EndFrame BY <2>12 DEF EndFrame, Goto
  <2>13. CASE RunJob BY <2>13 DEF RunJob, Goto
  <2>14. CASE TerminateJob BY <2>14 DEF TerminateJob, Goto
  <2>15. CASE ReleaseHandle BY <2>15 DEF ReleaseHandle, Goto
  <2> QED BY <1>3, <2>1, <2>2, <2>3, <2>4, <2>5, <2>6, <2>7, <2>8, <2>9, <2>10, <2>11,
             <2>12, <2>13, <2>14, <2>15 DEF WorkerStep
<1>4. CASE SpuriousWakeup BY <1>4 DEF SpuriousWakeup, ReturnFromWait, BlockedOn
<1>5. CASE UNCHANGED vars BY <1>5 DEF vars
<1> QED BY <1>1, <1>2, <1>3, <1>4, <1>5 DEF Next

\* Only a thread inside a Stop() sees it.
LEMMA StopSeenStep == TypeOK /\ ThreadLife /\ StopSeen /\ [Next]_vars => StopSeen'
<1> SUFFICES ASSUME TypeOK, ThreadLife, StopSeen, [Next]_vars PROVE StopSeen'
  OBVIOUS
<1> USE DEF TypeOK, WorkerStates, ClientPCs, ThreadLife, StopSeen, Stopping, InFrame, sharedVars, workerVars, history
<1>1. CASE ClientCall
  <2>1. CASE Start BY <2>1 DEF Start
  <2>2. CASE Pause BY <2>2 DEF Pause
  <2>3. CASE Unpause BY <2>3 DEF Unpause
  <2>4. ASSUME NEW n \in FrameLimits, SetMaxThreadsPerFrame(n) PROVE StopSeen'
    BY <2>4 DEF SetMaxThreadsPerFrame
  <2>5. ASSUME NEW j \in Jobs, MakeThread(j) PROVE StopSeen'
    BY <2>5 DEF MakeThread
  <2>6. ASSUME NEW j \in Jobs, MakeThreadRefused(j) PROVE StopSeen'
    BY <2>6 DEF MakeThreadRefused
  <2>7. ASSUME NEW f \in BOOLEAN, StopBegin(f) PROVE StopSeen'
    BY <2>7 DEF StopBegin
  <2> QED BY <1>1, <2>1, <2>2, <2>3, <2>4, <2>5, <2>6, <2>7 DEF ClientCall
<1>2. CASE ClientStep
  <2>1. CASE UnpauseSignal BY <2>1 DEF UnpauseSignal
  <2>2. CASE UnpauseSignalAdd BY <2>2 DEF UnpauseSignalAdd
  <2>3. CASE StopUnpause BY <2>3 DEF StopUnpause
  <2>4. CASE StopSignal BY <2>4 DEF StopSignal
  <2>5. CASE StopJoin BY <2>5 DEF StopJoin
  <2>6. CASE StopCrash BY <2>6 DEF StopCrash
  <2>7. CASE FlushCancel BY <2>7 DEF FlushCancel
  <2>8. CASE StopEnd BY <2>8 DEF StopEnd
  <2> QED BY <1>2, <2>1, <2>2, <2>3, <2>4, <2>5, <2>6, <2>7, <2>8 DEF ClientStep
<1>3. CASE WorkerStep
  <2>1. CASE CheckState BY <2>1 DEF CheckState, Goto
  <2>2. CASE CheckQueue BY <2>2 DEF CheckQueue
  <2>3. CASE WaitForAdd BY <2>3 DEF WaitForAdd, EnterWait
  <2>4. CASE AddSignalled BY <2>4 DEF AddSignalled, ReturnFromWait, BlockedOn
  <2>5. CASE Woken BY <2>5 DEF Woken
  <2>6. CASE RecheckState BY <2>6 DEF RecheckState, Goto
  <2>7. CASE WaitForPause BY <2>7 DEF WaitForPause, EnterWait
  <2>8. CASE PauseSignalled BY <2>8 DEF PauseSignalled, ReturnFromWait, BlockedOn
  <2>9. CASE DrainLoop BY <2>9 DEF DrainLoop, Goto
  <2>10. CASE RunFrame BY <2>10 DEF RunFrame, Goto
  <2>11. CASE TakeJob BY <2>11 DEF TakeJob
  <2>12. CASE EndFrame BY <2>12 DEF EndFrame, Goto
  <2>13. CASE RunJob BY <2>13 DEF RunJob, Goto
  <2>14. CASE TerminateJob BY <2>14 DEF TerminateJob, Goto
  <2>15. CASE ReleaseHandle BY <2>15 DEF ReleaseHandle, Goto
  <2> QED BY <1>3, <2>1, <2>2, <2>3, <2>4, <2>5, <2>6, <2>7, <2>8, <2>9, <2>10, <2>11,
             <2>12, <2>13, <2>14, <2>15 DEF WorkerStep
<1>4. CASE SpuriousWakeup BY <1>4 DEF SpuriousWakeup, ReturnFromWait, BlockedOn
<1>5. CASE UNCHANGED vars BY <1>5 DEF vars
<1> QED BY <1>1, <1>2, <1>3, <1>4, <1>5 DEF Next

\* No latched wakeup is lost.
LEMMA WaitAnnouncedStep == TypeOK /\ ThreadLife /\ WaitAnnounced /\ [Next]_vars => WaitAnnounced'
<1> SUFFICES ASSUME TypeOK, ThreadLife, WaitAnnounced, [Next]_vars PROVE WaitAnnounced'
  OBVIOUS
<1> USE SwitchAssumption DEF TypeOK, WorkerStates, ThreadLife, WaitAnnounced, Stopping, sharedVars, workerVars, history
<1>1. CASE ClientCall
  <2>1. CASE Start BY <2>1 DEF Start
  <2>2. CASE Pause BY <2>2 DEF Pause
  <2>3. CASE Unpause BY <2>3 DEF Unpause
  <2>4. ASSUME NEW n \in FrameLimits, SetMaxThreadsPerFrame(n) PROVE WaitAnnounced'
    BY <2>4 DEF SetMaxThreadsPerFrame
  <2>5. ASSUME NEW j \in Jobs, MakeThread(j) PROVE WaitAnnounced'
    BY <2>5 DEF MakeThread, Signal
  <2>6. ASSUME NEW j \in Jobs, MakeThreadRefused(j) PROVE WaitAnnounced'
    BY <2>6 DEF MakeThreadRefused
  <2>7. ASSUME NEW f \in BOOLEAN, StopBegin(f) PROVE WaitAnnounced'
    BY <2>7 DEF StopBegin
  <2> QED BY <1>1, <2>1, <2>2, <2>3, <2>4, <2>5, <2>6, <2>7 DEF ClientCall
<1>2. CASE ClientStep
  <2>1. CASE UnpauseSignal BY <2>1, SignalAdds DEF UnpauseSignal
  <2>2. CASE UnpauseSignalAdd BY <2>2, SignalAdds DEF UnpauseSignalAdd
  <2>3. CASE StopUnpause BY <2>3 DEF StopUnpause
  <2>4. CASE StopSignal BY <2>4, SignalAdds DEF StopSignal
  <2>5. CASE StopJoin BY <2>5 DEF StopJoin
  <2>6. CASE StopCrash BY <2>6 DEF StopCrash
  <2>7. CASE FlushCancel BY <2>7 DEF FlushCancel
  <2>8. CASE StopEnd BY <2>8 DEF StopEnd
  <2> QED BY <1>2, <2>1, <2>2, <2>3, <2>4, <2>5, <2>6, <2>7, <2>8 DEF ClientStep
<1>3. CASE WorkerStep
  <2>1. CASE CheckState BY <2>1 DEF CheckState, Goto
  <2>2. CASE CheckQueue BY <2>2 DEF CheckQueue
  <2>3. CASE WaitForAdd BY <2>3 DEF WaitForAdd, EnterWait
  <2>4. CASE AddSignalled BY <2>4 DEF AddSignalled, ReturnFromWait, BlockedOn
  <2>5. CASE Woken BY <2>5 DEF Woken
  <2>6. CASE RecheckState BY <2>6 DEF RecheckState, Goto
  <2>7. CASE WaitForPause BY <2>7 DEF WaitForPause, EnterWait
  <2>8. CASE PauseSignalled BY <2>8 DEF PauseSignalled, ReturnFromWait, BlockedOn
  <2>9. CASE DrainLoop BY <2>9 DEF DrainLoop, Goto
  <2>10. CASE RunFrame BY <2>10 DEF RunFrame, Goto
  <2>11. CASE TakeJob BY <2>11 DEF TakeJob
  <2>12. CASE EndFrame BY <2>12 DEF EndFrame, Goto
  <2>13. CASE RunJob BY <2>13 DEF RunJob, Goto
  <2>14. CASE TerminateJob BY <2>14 DEF TerminateJob, Goto
  <2>15. CASE ReleaseHandle BY <2>15 DEF ReleaseHandle, Goto
  <2> QED BY <1>3, <2>1, <2>2, <2>3, <2>4, <2>5, <2>6, <2>7, <2>8, <2>9, <2>10, <2>11,
             <2>12, <2>13, <2>14, <2>15 DEF WorkerStep
<1>4. CASE SpuriousWakeup BY <1>4 DEF SpuriousWakeup, ReturnFromWait, BlockedOn
<1>5. CASE UNCHANGED vars BY <1>5 DEF vars
<1> QED BY <1>1, <1>2, <1>3, <1>4, <1>5 DEF Next

\* QueueHoldsQueued in terms of places: the queue has no job twice, only queued
\* jobs and all of them.
QueuedOnce ==
  /\ \A a, b \in 1..Len(m_ThreadQueue) : m_ThreadQueue[a] = m_ThreadQueue[b] => a = b
  /\ \A a \in 1..Len(m_ThreadQueue) : status[m_ThreadQueue[a]] = "queued"
  /\ \A j \in Jobs : status[j] = "queued" => \E a \in 1..Len(m_ThreadQueue) : m_ThreadQueue[a] = j

LEMMA QueuedOnceEquiv == TypeOK => (QueueHoldsQueued <=> QueuedOnce)
<1> SUFFICES ASSUME TypeOK PROVE QueueHoldsQueued <=> QueuedOnce
  OBVIOUS
<1>1. DOMAIN m_ThreadQueue = 1..Len(m_ThreadQueue) /\ \A a \in 1..Len(m_ThreadQueue) : m_ThreadQueue[a] \in Jobs
  BY DEF TypeOK
<1>2. Range(m_ThreadQueue) = {m_ThreadQueue[a] : a \in 1..Len(m_ThreadQueue)}
  BY <1>1 DEF Range
<1> QED BY <1>1, <1>2 DEF QueueHoldsQueued, QueuedOnce, IsInjective

\* No interleaving of push and pop loses or doubles a job.
LEMMA QueuedOnceStep == TypeOK /\ JobInHand /\ QueuedOnce /\ [Next]_vars => QueuedOnce'
<1> SUFFICES ASSUME TypeOK, JobInHand, QueuedOnce, [Next]_vars PROVE QueuedOnce'
  OBVIOUS
<1> USE JobsAssumption DEF TypeOK, QueuedOnce, sharedVars, workerVars, history
<1>1. CASE ClientCall
  <2>1. CASE Start BY <2>1 DEF Start
  <2>2. CASE Pause BY <2>2 DEF Pause
  <2>3. CASE Unpause BY <2>3 DEF Unpause
  <2>4. ASSUME NEW n \in FrameLimits, SetMaxThreadsPerFrame(n) PROVE QueuedOnce'
    BY <2>4 DEF SetMaxThreadsPerFrame
  <2>5. ASSUME NEW j \in Jobs, MakeThread(j) PROVE QueuedOnce'
    <3>1. /\ status[j] = "new" /\ m_ThreadQueue' = Append(m_ThreadQueue, j)
          /\ status' = [status EXCEPT ![j] = "queued"]
      BY <2>5 DEF MakeThread
    <3>2. /\ Len(m_ThreadQueue) \in Nat /\ Len(m_ThreadQueue') = Len(m_ThreadQueue) + 1
          /\ \A i \in 1..Len(m_ThreadQueue) : m_ThreadQueue'[i] = m_ThreadQueue[i]
          /\ m_ThreadQueue'[Len(m_ThreadQueue) + 1] = j
          /\ \A i \in 1..Len(m_ThreadQueue) : m_ThreadQueue[i] \in Jobs
      BY <3>1, AppendPlaces
    <3>3. \A i \in 1..Len(m_ThreadQueue) : m_ThreadQueue[i] # j
      BY <3>1
    <3>4. \A i \in 1..Len(m_ThreadQueue') : i \in 1..Len(m_ThreadQueue) \/ i = Len(m_ThreadQueue) + 1
      BY <3>2
    <3>5. \A a, b \in 1..Len(m_ThreadQueue') : m_ThreadQueue'[a] = m_ThreadQueue'[b] => a = b
      BY <3>2, <3>3, <3>4
    <3>6. \A a \in 1..Len(m_ThreadQueue') : status'[m_ThreadQueue'[a]] = "queued"
      BY <3>1, <3>2, <3>4
    <3>7. ASSUME NEW k \in Jobs, status'[k] = "queued"
          PROVE  \E a \in 1..Len(m_ThreadQueue') : m_ThreadQueue'[a] = k
      <4>1. CASE k = j BY <3>2, <4>1
      <4>2. CASE k # j
        <5>1. PICK a \in 1..Len(m_ThreadQueue) : m_ThreadQueue[a] = k
          BY <3>1, <3>7, <4>2
        <5> QED BY <3>2, <5>1
      <4> QED BY <4>1, <4>2
    <3> QED BY <3>5, <3>6, <3>7
  <2>6. ASSUME NEW j \in Jobs, MakeThreadRefused(j) PROVE QueuedOnce'
    BY <2>6 DEF MakeThreadRefused
  <2>7. ASSUME NEW f \in BOOLEAN, StopBegin(f) PROVE QueuedOnce'
    BY <2>7 DEF StopBegin
  <2> QED BY <1>1, <2>1, <2>2, <2>3, <2>4, <2>5, <2>6, <2>7 DEF ClientCall
<1>2. CASE ClientStep
  <2>1. CASE UnpauseSignal BY <2>1 DEF UnpauseSignal
  <2>2. CASE UnpauseSignalAdd BY <2>2 DEF UnpauseSignalAdd
  <2>3. CASE StopUnpause BY <2>3 DEF StopUnpause
  <2>4. CASE StopSignal BY <2>4 DEF StopSignal
  <2>5. CASE StopJoin BY <2>5 DEF StopJoin
  <2>6. CASE StopCrash BY <2>6 DEF StopCrash
  <2>7. CASE FlushCancel
    <3> DEFINE q == m_ThreadQueue
    <3>1. /\ q # <<>> /\ m_ThreadQueue' = Tail(q)
          /\ status' = [status EXCEPT ![q[1]] = "cancelled"]
      BY <2>7, TailPlaces DEF FlushCancel
    <3>2. /\ Len(q) \in Nat /\ Len(q) > 0 /\ Len(m_ThreadQueue') = Len(q) - 1
          /\ \A i \in 1..Len(m_ThreadQueue') : m_ThreadQueue'[i] = q[i + 1]
          /\ \A i \in 1..Len(q) : q[i] \in Jobs
      BY <3>1, TailPlaces
    <3>3. \A i \in 1..Len(m_ThreadQueue') : i + 1 \in 1..Len(q) /\ q[i + 1] # q[1]
      BY <3>2
    <3> HIDE DEF q
    <3>4. \A a, b \in 1..Len(m_ThreadQueue') : m_ThreadQueue'[a] = m_ThreadQueue'[b] => a = b
      <4> TAKE a, b \in 1..Len(m_ThreadQueue')
      <4>1. m_ThreadQueue'[a] = q[a + 1] /\ m_ThreadQueue'[b] = q[b + 1]
        BY <3>2
      <4>2. a + 1 \in 1..Len(q) /\ b + 1 \in 1..Len(q)
        BY <3>3
      <4> QED BY <3>2, <4>1, <4>2 DEF q
    <3>5. \A a \in 1..Len(m_ThreadQueue') : status'[m_ThreadQueue'[a]] = "queued"
      BY <3>1, <3>2, <3>3 DEF q
    <3>6. ASSUME NEW j \in Jobs, status'[j] = "queued"
          PROVE  \E a \in 1..Len(m_ThreadQueue') : m_ThreadQueue'[a] = j
      <4>1. j # q[1] /\ status[j] = "queued"
        BY <3>1, <3>2, <3>6
      <4>2. PICK a \in 1..Len(q) : q[a] = j
        BY <4>1 DEF q
      <4>3. a # 1 /\ a - 1 \in 1..Len(m_ThreadQueue')
        BY <3>2, <4>1, <4>2
      <4>4. m_ThreadQueue'[a - 1] = q[(a - 1) + 1] /\ (a - 1) + 1 = a
        BY <3>2, <4>3
      <4> QED BY <4>2, <4>3, <4>4
    <3> QED BY <3>4, <3>5, <3>6
  <2>8. CASE StopEnd BY <2>8 DEF StopEnd
  <2> QED BY <1>2, <2>1, <2>2, <2>3, <2>4, <2>5, <2>6, <2>7, <2>8 DEF ClientStep
<1>3. CASE WorkerStep
  <2>1. CASE CheckState BY <2>1 DEF CheckState, Goto
  <2>2. CASE CheckQueue BY <2>2 DEF CheckQueue
  <2>3. CASE WaitForAdd BY <2>3 DEF WaitForAdd, EnterWait
  <2>4. CASE AddSignalled BY <2>4 DEF AddSignalled, ReturnFromWait, BlockedOn
  <2>5. CASE Woken BY <2>5 DEF Woken
  <2>6. CASE RecheckState BY <2>6 DEF RecheckState, Goto
  <2>7. CASE WaitForPause BY <2>7 DEF WaitForPause, EnterWait
  <2>8. CASE PauseSignalled BY <2>8 DEF PauseSignalled, ReturnFromWait, BlockedOn
  <2>9. CASE DrainLoop BY <2>9 DEF DrainLoop, Goto
  <2>10. CASE RunFrame BY <2>10 DEF RunFrame, Goto
  <2>11. CASE TakeJob
    <3> DEFINE q == m_ThreadQueue
    <3>1. /\ q # <<>> /\ m_ThreadQueue' = Tail(q)
          /\ status' = [status EXCEPT ![q[1]] = "running"]
      BY <2>11, TailPlaces DEF TakeJob
    <3>2. /\ Len(q) \in Nat /\ Len(q) > 0 /\ Len(m_ThreadQueue') = Len(q) - 1
          /\ \A i \in 1..Len(m_ThreadQueue') : m_ThreadQueue'[i] = q[i + 1]
          /\ \A i \in 1..Len(q) : q[i] \in Jobs
      BY <3>1, TailPlaces
    <3>3. \A i \in 1..Len(m_ThreadQueue') : i + 1 \in 1..Len(q) /\ q[i + 1] # q[1]
      BY <3>2
    <3> HIDE DEF q
    <3>4. \A a, b \in 1..Len(m_ThreadQueue') : m_ThreadQueue'[a] = m_ThreadQueue'[b] => a = b
      <4> TAKE a, b \in 1..Len(m_ThreadQueue')
      <4>1. m_ThreadQueue'[a] = q[a + 1] /\ m_ThreadQueue'[b] = q[b + 1]
        BY <3>2
      <4>2. a + 1 \in 1..Len(q) /\ b + 1 \in 1..Len(q)
        BY <3>3
      <4> QED BY <3>2, <4>1, <4>2 DEF q
    <3>5. \A a \in 1..Len(m_ThreadQueue') : status'[m_ThreadQueue'[a]] = "queued"
      BY <3>1, <3>2, <3>3 DEF q
    <3>6. ASSUME NEW j \in Jobs, status'[j] = "queued"
          PROVE  \E a \in 1..Len(m_ThreadQueue') : m_ThreadQueue'[a] = j
      <4>1. j # q[1] /\ status[j] = "queued"
        BY <3>1, <3>2, <3>6
      <4>2. PICK a \in 1..Len(q) : q[a] = j
        BY <4>1 DEF q
      <4>3. a # 1 /\ a - 1 \in 1..Len(m_ThreadQueue')
        BY <3>2, <4>1, <4>2
      <4>4. m_ThreadQueue'[a - 1] = q[(a - 1) + 1] /\ (a - 1) + 1 = a
        BY <3>2, <4>3
      <4> QED BY <4>2, <4>3, <4>4
    <3> QED BY <3>4, <3>5, <3>6
  <2>12. CASE EndFrame BY <2>12 DEF EndFrame, Goto
  <2>13. CASE RunJob BY <2>13 DEF RunJob, Goto, JobInHand
  <2>14. CASE TerminateJob BY <2>14 DEF TerminateJob, Goto, JobInHand
  <2>15. CASE ReleaseHandle BY <2>15 DEF ReleaseHandle, Goto
  <2> QED BY <1>3, <2>1, <2>2, <2>3, <2>4, <2>5, <2>6, <2>7, <2>8, <2>9, <2>10, <2>11,
             <2>12, <2>13, <2>14, <2>15 DEF WorkerStep
<1>4. CASE SpuriousWakeup BY <1>4 DEF SpuriousWakeup, ReturnFromWait, BlockedOn
<1>5. CASE UNCHANGED vars BY <1>5 DEF vars
<1> QED BY <1>1, <1>2, <1>3, <1>4, <1>5 DEF Next

\* Jobs leave the queue in the order they came.
LEMMA QueueIsTailStep == TypeOK /\ JobInHand /\ ThreadLife /\ QueuedOnce /\ QueueIsTail /\ [Next]_vars => QueueIsTail'
<1> SUFFICES ASSUME TypeOK, JobInHand, ThreadLife, QueuedOnce, QueueIsTail, [Next]_vars PROVE QueueIsTail'
  OBVIOUS
<1> USE JobsAssumption DEF TypeOK, QueuedOnce, QueueIsTail, sharedVars, workerVars, history
<1>1. CASE ClientCall
  <2>1. CASE Start BY <2>1 DEF Start, Popped
  <2>2. CASE Pause BY <2>2 DEF Pause, Popped
  <2>3. CASE Unpause BY <2>3 DEF Unpause, Popped
  <2>4. ASSUME NEW n \in FrameLimits, SetMaxThreadsPerFrame(n) PROVE QueueIsTail'
    BY <2>4 DEF SetMaxThreadsPerFrame, Popped
  <2>5. ASSUME NEW j \in Jobs, MakeThread(j) PROVE QueueIsTail'
    <3>1. /\ status[j] = "new" /\ m_ThreadQueue' = Append(m_ThreadQueue, j)
          /\ accepted' = Append(accepted, j)
          /\ status' = [status EXCEPT ![j] = "queued"] /\ cur' = cur
      BY <2>5 DEF MakeThread
    <3>2. /\ Len(m_ThreadQueue) \in Nat /\ Len(m_ThreadQueue') = Len(m_ThreadQueue) + 1
          /\ \A i \in 1..Len(m_ThreadQueue) : m_ThreadQueue'[i] = m_ThreadQueue[i]
          /\ m_ThreadQueue'[Len(m_ThreadQueue) + 1] = j
      BY <3>1, AppendPlaces
    <3>3. /\ Len(accepted) \in Nat /\ Len(accepted') = Len(accepted) + 1
          /\ \A i \in 1..Len(accepted) : accepted'[i] = accepted[i]
          /\ accepted'[Len(accepted) + 1] = j
          /\ \A i \in 1..Len(accepted) : accepted[i] \in Jobs
      BY <3>1, AppendPlaces
    <3>4. Popped' = Popped /\ Popped + Len(m_ThreadQueue) = Len(accepted)
      BY <3>2, <3>3 DEF Popped
    <3>5. \A i \in 1..Len(accepted) : accepted[i] # j
      BY <3>1
    <3>6. \A i \in 1..Len(m_ThreadQueue') : m_ThreadQueue'[i] = accepted'[Popped + i]
      <4> TAKE i \in 1..Len(m_ThreadQueue')
      <4>1. CASE i = Len(m_ThreadQueue) + 1
        <5>1. \A a, b, c \in Nat : a + b = c => a + (b + 1) = c + 1
          OBVIOUS
        <5>2. Popped \in Nat
          OBVIOUS
        <5>3. Popped + i = Len(accepted) + 1
          BY <3>2, <3>3, <3>4, <4>1, <5>1, <5>2
        <5> QED BY <3>2, <3>3, <4>1, <5>3
      <4>2. CASE i \in 1..Len(m_ThreadQueue)
        <5>1. Popped + i \in 1..Len(accepted)
          BY <3>2, <3>3, <3>4, <4>2
        <5> QED BY <3>2, <3>3, <4>2, <5>1
      <4> QED BY <3>2, <4>1, <4>2
    <3>7. ASSUME NEW i \in 1..Popped
          PROVE  status'[accepted'[i]] \in {"done", "cancelled"} \/ (i = Popped /\ accepted'[i] = cur)
      <4>1. i \in 1..Len(accepted)
        BY <3>2, <3>3, <3>4
      <4> QED BY <3>1, <3>3, <3>5, <4>1
    <3>8. ASSUME NEW i \in 1..Len(accepted') PROVE status'[accepted'[i]] \notin {"new", "refused"}
      <4>1. CASE i = Len(accepted) + 1 BY <3>1, <3>3, <4>1
      <4>2. CASE i \in 1..Len(accepted) BY <3>1, <3>3, <3>5, <4>2
      <4> QED BY <3>3, <4>1, <4>2
    <3> QED BY <3>1, <3>4, <3>6, <3>7, <3>8
  <2>6. ASSUME NEW j \in Jobs, MakeThreadRefused(j) PROVE QueueIsTail'
    <3>1. /\ status[j] = "new" /\ status' = [status EXCEPT ![j] = "refused"]
          /\ UNCHANGED <<m_ThreadQueue, accepted, cur>>
      BY <2>6 DEF MakeThreadRefused
    <3>2. \A i \in 1..Len(accepted) : accepted[i] \in Jobs /\ accepted[i] # j
      BY <3>1
    <3>3. Popped' = Popped /\ Popped \in Nat /\ Popped <= Len(accepted)
      BY <3>1 DEF Popped
    <3>4. \A i \in 1..Len(accepted) : status'[accepted[i]] = status[accepted[i]]
      BY <3>1, <3>2
    <3> QED BY <3>1, <3>3, <3>4
  <2>7. ASSUME NEW f \in BOOLEAN, StopBegin(f) PROVE QueueIsTail'
    BY <2>7 DEF StopBegin, Popped
  <2> QED BY <1>1, <2>1, <2>2, <2>3, <2>4, <2>5, <2>6, <2>7 DEF ClientCall
<1>2. CASE ClientStep
  <2>1. CASE UnpauseSignal BY <2>1 DEF UnpauseSignal, Popped
  <2>2. CASE UnpauseSignalAdd BY <2>2 DEF UnpauseSignalAdd, Popped
  <2>3. CASE StopUnpause BY <2>3 DEF StopUnpause, Popped
  <2>4. CASE StopSignal BY <2>4 DEF StopSignal, Popped
  <2>5. CASE StopJoin BY <2>5 DEF StopJoin, Popped
  <2>6. CASE StopCrash BY <2>6 DEF StopCrash, Popped
  <2>7. CASE FlushCancel
    <3> DEFINE q == m_ThreadQueue
    <3>1. /\ q # <<>> /\ m_ThreadQueue' = Tail(q) /\ accepted' = accepted
          /\ status' = [status EXCEPT ![q[1]] = "cancelled"] /\ cur = NoJob /\ cur' = cur
      BY <2>7, TailPlaces DEF FlushCancel, ThreadLife, JobInHand
    <3>2. /\ Len(q) \in Nat /\ Len(q) > 0 /\ Len(m_ThreadQueue') = Len(q) - 1
          /\ \A i \in 1..Len(m_ThreadQueue') : m_ThreadQueue'[i] = q[i + 1]
          /\ q[1] \in Jobs /\ status[q[1]] = "queued"
      BY <3>1, TailPlaces
    <3>3. Len(accepted) \in Nat /\ \A i \in 1..Len(accepted) : accepted[i] \in Jobs
      OBVIOUS
    <3>4. Popped' = Popped + 1 /\ Popped \in Nat /\ Popped + Len(q) = Len(accepted)
      BY <3>1, <3>2, <3>3 DEF Popped
    <3>5. q[1] = accepted[Popped + 1]
      BY <3>2
    <3> HIDE DEF q
    <3>6. \A i \in 1..Len(m_ThreadQueue') : m_ThreadQueue'[i] = accepted'[Popped' + i]
      <4> TAKE i \in 1..Len(m_ThreadQueue')
      <4>1. i + 1 \in 1..Len(q) /\ Popped + (i + 1) = Popped' + i
        BY <3>2, <3>4
      <4>2. q[i + 1] = accepted[Popped + (i + 1)]
        BY <4>1 DEF q
      <4> QED BY <3>1, <3>2, <4>1, <4>2
    <3>7. ASSUME NEW i \in 1..Popped'
          PROVE  \/ status'[accepted'[i]] \in {"done", "cancelled"}
                 \/ i = Popped' /\ accepted'[i] = cur'
      <4>1. CASE i = Popped + 1
        BY <3>1, <3>2, <3>4, <3>5, <4>1
      <4>2. CASE i \in 1..Popped
        <5>1. accepted[i] \in Jobs /\ accepted[i] # cur
          BY <3>1, <3>2, <3>3, <3>4, <4>2
        <5>2. status[accepted[i]] \in {"done", "cancelled"}
          BY <4>2, <5>1
        <5> QED BY <3>1, <3>2, <5>1, <5>2
      <4> QED BY <3>4, <4>1, <4>2
    <3>8. \A i \in 1..Len(accepted') : status'[accepted'[i]] \notin {"new", "refused"}
      BY <3>1, <3>2, <3>3
    <3> QED BY <3>4, <3>6, <3>7, <3>8
  <2>8. CASE StopEnd BY <2>8 DEF StopEnd, Popped
  <2> QED BY <1>2, <2>1, <2>2, <2>3, <2>4, <2>5, <2>6, <2>7, <2>8 DEF ClientStep
<1>3. CASE WorkerStep
  <2>1. CASE CheckState BY <2>1 DEF CheckState, Goto, Popped
  <2>2. CASE CheckQueue BY <2>2 DEF CheckQueue, Popped
  <2>3. CASE WaitForAdd BY <2>3 DEF WaitForAdd, EnterWait, Popped
  <2>4. CASE AddSignalled BY <2>4 DEF AddSignalled, ReturnFromWait, BlockedOn, Popped
  <2>5. CASE Woken BY <2>5 DEF Woken, Popped
  <2>6. CASE RecheckState BY <2>6 DEF RecheckState, Goto, Popped
  <2>7. CASE WaitForPause BY <2>7 DEF WaitForPause, EnterWait, Popped
  <2>8. CASE PauseSignalled BY <2>8 DEF PauseSignalled, ReturnFromWait, BlockedOn, Popped
  <2>9. CASE DrainLoop BY <2>9 DEF DrainLoop, Goto, Popped
  <2>10. CASE RunFrame BY <2>10 DEF RunFrame, Goto, Popped
  <2>11. CASE TakeJob
    <3> DEFINE q == m_ThreadQueue
    <3>1. /\ q # <<>> /\ m_ThreadQueue' = Tail(q) /\ accepted' = accepted
          /\ status' = [status EXCEPT ![q[1]] = "running"] /\ cur = NoJob /\ cur' = q[1]
      BY <2>11, TailPlaces DEF TakeJob, ThreadLife, JobInHand
    <3>2. /\ Len(q) \in Nat /\ Len(q) > 0 /\ Len(m_ThreadQueue') = Len(q) - 1
          /\ \A i \in 1..Len(m_ThreadQueue') : m_ThreadQueue'[i] = q[i + 1]
          /\ q[1] \in Jobs /\ status[q[1]] = "queued"
      BY <3>1, TailPlaces
    <3>3. Len(accepted) \in Nat /\ \A i \in 1..Len(accepted) : accepted[i] \in Jobs
      OBVIOUS
    <3>4. Popped' = Popped + 1 /\ Popped \in Nat /\ Popped + Len(q) = Len(accepted)
      BY <3>1, <3>2, <3>3 DEF Popped
    <3>5. q[1] = accepted[Popped + 1]
      BY <3>2
    <3> HIDE DEF q
    <3>6. \A i \in 1..Len(m_ThreadQueue') : m_ThreadQueue'[i] = accepted'[Popped' + i]
      <4> TAKE i \in 1..Len(m_ThreadQueue')
      <4>1. i + 1 \in 1..Len(q) /\ Popped + (i + 1) = Popped' + i
        BY <3>2, <3>4
      <4>2. q[i + 1] = accepted[Popped + (i + 1)]
        BY <4>1 DEF q
      <4> QED BY <3>1, <3>2, <4>1, <4>2
    <3>7. ASSUME NEW i \in 1..Popped'
          PROVE  \/ status'[accepted'[i]] \in {"done", "cancelled"}
                 \/ i = Popped' /\ accepted'[i] = cur'
      <4>1. CASE i = Popped + 1
        BY <3>1, <3>2, <3>4, <3>5, <4>1
      <4>2. CASE i \in 1..Popped
        <5>1. accepted[i] \in Jobs /\ accepted[i] # cur
          BY <3>1, <3>2, <3>3, <3>4, <4>2
        <5>2. status[accepted[i]] \in {"done", "cancelled"}
          BY <4>2, <5>1
        <5> QED BY <3>1, <3>2, <5>1, <5>2
      <4> QED BY <3>4, <4>1, <4>2
    <3>8. \A i \in 1..Len(accepted') : status'[accepted'[i]] \notin {"new", "refused"}
      BY <3>1, <3>2, <3>3
    <3> QED BY <3>4, <3>6, <3>7, <3>8
  <2>12. CASE EndFrame BY <2>12 DEF EndFrame, Goto, Popped
  <2>13. CASE RunJob
    <3>1. /\ cur \in Jobs /\ status[cur] = "running" /\ status' = [status EXCEPT ![cur] = "ran"]
          /\ UNCHANGED <<m_ThreadQueue, accepted, cur>>
      BY <2>13 DEF RunJob, Goto, JobInHand
    <3>2. \A i \in 1..Len(accepted) : accepted[i] \in Jobs
      OBVIOUS
    <3>3. Popped' = Popped /\ Popped \in Nat /\ Popped <= Len(accepted)
      BY <3>1 DEF Popped
    <3>4. ASSUME NEW i \in 1..Popped
          PROVE  status'[accepted[i]] \in {"done", "cancelled"} \/ (i = Popped /\ accepted[i] = cur)
      <4>1. i \in 1..Len(accepted)
        BY <3>3
      <4> QED BY <3>1, <3>2, <4>1
    <3>5. \A i \in 1..Len(accepted) : status'[accepted[i]] \notin {"new", "refused"}
      BY <3>1, <3>2
    <3> QED BY <3>1, <3>3, <3>4, <3>5
  <2>14. CASE TerminateJob
    <3>1. /\ cur \in Jobs /\ status[cur] = "ran" /\ status' = [status EXCEPT ![cur] = "done"]
          /\ UNCHANGED <<m_ThreadQueue, accepted, cur>>
      BY <2>14 DEF TerminateJob, Goto, JobInHand
    <3>2. \A i \in 1..Len(accepted) : accepted[i] \in Jobs
      OBVIOUS
    <3>3. Popped' = Popped /\ Popped \in Nat /\ Popped <= Len(accepted)
      BY <3>1 DEF Popped
    <3>4. ASSUME NEW i \in 1..Popped
          PROVE  status'[accepted[i]] \in {"done", "cancelled"} \/ (i = Popped /\ accepted[i] = cur)
      <4>1. i \in 1..Len(accepted)
        BY <3>3
      <4> QED BY <3>1, <3>2, <4>1
    <3>5. \A i \in 1..Len(accepted) : status'[accepted[i]] \notin {"new", "refused"}
      BY <3>1, <3>2
    <3> QED BY <3>1, <3>3, <3>4, <3>5
  <2>15. CASE ReleaseHandle
    <3>1. /\ status[cur] = "done"
          /\ UNCHANGED <<m_ThreadQueue, accepted, status>>
      BY <2>15 DEF ReleaseHandle, Goto, JobInHand
    <3> QED BY <3>1 DEF Popped
  <2> QED BY <1>3, <2>1, <2>2, <2>3, <2>4, <2>5, <2>6, <2>7, <2>8, <2>9, <2>10, <2>11,
             <2>12, <2>13, <2>14, <2>15 DEF WorkerStep
<1>4. CASE SpuriousWakeup BY <1>4 DEF SpuriousWakeup, ReturnFromWait, Popped
<1>5. CASE UNCHANGED vars BY <1>5 DEF vars, Popped
<1> QED BY <1>1, <1>2, <1>3, <1>4, <1>5 DEF Next

\* Init establishes the inductive invariant.
LEMMA InitIInv == Init => IInv
<1> SUFFICES ASSUME Init PROVE IInv
  OBVIOUS
<1> USE DEF Init
<1>1. TypeOK
  <2>1. m_ThreadQueue \in Seq(Jobs) /\ accepted \in Seq(Jobs)
    OBVIOUS
  <2>2. status \in [Jobs -> JobStatus]
    BY DEF JobStatus
  <2>3. signalled \subseteq Events /\ m_perFrame \in Nat \ {0} /\ budget \in Nat
    OBVIOUS
  <2> QED BY <2>1, <2>2, <2>3 DEF TypeOK, WorkerStates, WorkerPCs, ClientPCs
<1>2. QueuedOnce
  BY DEF QueuedOnce
<1>3. QueueHoldsQueued
  BY <1>1, <1>2, QueuedOnceEquiv
<1>4. JobInHand /\ ThreadLife /\ StopSeen /\ WaitAnnounced
  BY DEF JobInHand, ThreadLife, StopSeen, WaitAnnounced, Stopping, InFrame
<1>5. QueueIsTail
  BY DEF QueueIsTail, Popped
<1> QED BY <1>1, <1>3, <1>4, <1>5 DEF IInv

\* Every step keeps it.
LEMMA IInvStep == IInv /\ [Next]_vars => IInv'
<1> SUFFICES ASSUME IInv, [Next]_vars PROVE IInv'
  OBVIOUS
<1> USE DEF IInv
<1>1. TypeOK'
  BY TypeStep
<1>2. QueuedOnce /\ QueuedOnce'
  BY QueuedOnceEquiv, QueuedOnceStep
<1>3. (TypeOK => (QueueHoldsQueued <=> QueuedOnce))'
  BY QueuedOnceEquiv, PTL
<1>4. QueueHoldsQueued'
  BY <1>1, <1>2, <1>3
<1>5. JobInHand'
  BY JobInHandStep
<1>6. ThreadLife'
  BY ThreadLifeStep
<1>7. StopSeen'
  BY StopSeenStep
<1>8. WaitAnnounced'
  BY WaitAnnouncedStep
<1>9. QueueIsTail'
  BY <1>2, QueueIsTailStep
<1> QED BY <1>1, <1>4, <1>5, <1>6, <1>7, <1>8, <1>9

\* The inductive invariant holds in every reachable state of the worker.
THEOREM Inductive == Spec => []IInv
  BY InitIInv, IInvStep, PTL DEF Spec

\* The variables of the worker keep their types.
THEOREM TypeCorrect == Spec => []TypeOK
<1>1. IInv => TypeOK
  BY DEF IInv
<1> QED BY <1>1, Inductive, PTL

\* MakeThread, RunFrame and Flush lose and double no job.
THEOREM QueueCorrect == Spec => []QueueHoldsQueued
<1>1. IInv => QueueHoldsQueued
  BY DEF IInv
<1> QED BY <1>1, Inductive, PTL

\* Jobs start in the order MakeThread accepted them, one at a time.
THEOREM OrderCorrect == Spec => []RunsInOrder
<1>1. IInv => RunsInOrder
  <2> SUFFICES ASSUME IInv, NEW i \in DOMAIN accepted, NEW k \in DOMAIN accepted,
                      i < k, status[accepted[k]] \in Started
               PROVE  status[accepted[i]] \in Settled
    BY DEF RunsInOrder
  <2>1. QueuedOnce /\ TypeOK /\ QueueIsTail
    BY QueuedOnceEquiv DEF IInv
  <2>2. /\ Len(accepted) \in Nat /\ DOMAIN accepted = 1..Len(accepted)
        /\ Len(m_ThreadQueue) \in Nat
    BY <2>1 DEF TypeOK
  <2>3. Popped \in Nat /\ Popped = Len(accepted) - Len(m_ThreadQueue)
    BY <2>1 DEF QueueIsTail, Popped
  <2>4. k <= Popped
    <3> SUFFICES ASSUME k > Popped PROVE FALSE
      BY <2>2, <2>3
    <3> DEFINE a == k - Popped
    <3>1. a \in 1..Len(m_ThreadQueue) /\ Popped + a = k
      BY <2>2, <2>3
    <3>2. m_ThreadQueue[a] = accepted[k]
      BY <2>1, <3>1 DEF QueueIsTail
    <3>3. status[accepted[k]] = "queued"
      BY <2>1, <3>1, <3>2 DEF QueuedOnce
    <3> QED BY <3>3 DEF Started
  <2>5. i \in 1..Popped /\ i # Popped
    BY <2>2, <2>3, <2>4
  <2> QED BY <2>1, <2>5 DEF QueueIsTail, Settled
<1> QED BY <1>1, Inductive, PTL

\* A Stop() that returned leaves no job queued and none in a thread's hands.
THEOREM QuietCorrect == Spec => []StoppedIsQuiet
<1>1. IInv => StoppedIsQuiet
  <2> SUFFICES ASSUME IInv, mpc = "idle", m_state = "Stopped"
               PROVE  wpc = "none" /\ m_ThreadQueue = <<>> /\ \A j \in Jobs : status[j] \in Settled
    BY DEF StoppedIsQuiet
  <2>1. wpc = "none" /\ m_ThreadQueue = <<>>
    BY DEF IInv, ThreadLife
  <2>2. cur = NoJob
    BY <2>1 DEF IInv, JobInHand
  <2>3. TypeOK /\ QueuedOnce
    BY QueuedOnceEquiv DEF IInv
  <2>4. \A j \in Jobs : status[j] \in JobStatus /\ status[j] # "queued"
    BY <2>1, <2>3 DEF QueuedOnce, TypeOK
  <2>5. \A j \in Jobs : status[j] \notin {"running", "ran"}
    BY <2>2, JobsAssumption DEF IInv, JobInHand
  <2> QED BY <2>1, <2>4, <2>5 DEF JobStatus, Settled
<1> QED BY <1>1, Inductive, PTL

\* With the latched events of Windows the thread waits only when it has no work.
THEOREM SleepCorrect ==
  ASSUME LatchedSignals
  PROVE  Spec => []SleepsOnlyWhenIdle
<1>1. IInv => SleepsOnlyWhenIdle
  BY DEF IInv, WaitAnnounced, SleepsOnlyWhenIdle
<1> QED BY <1>1, Inductive, PTL

\* The NULL thread handle is used only after a failed thread creation.
THEOREM CrashCorrect == Spec => []CrashNeedsFailedCreation
<1>1. IInv => CrashNeedsFailedCreation
  BY DEF IInv, ThreadLife, CrashNeedsFailedCreation
<1> QED BY <1>1, Inductive, PTL

\* A step cancels a job only after a Stop(true).
LEMMA CancelStep == TypeOK /\ ThreadLife /\ StopSeen /\ [Next]_vars => CancelAsked
<1> SUFFICES ASSUME TypeOK, ThreadLife, StopSeen, [Next]_vars PROVE CancelAsked
  OBVIOUS
<1> USE DEF TypeOK, CancelAsked, sharedVars, workerVars, history
<1>1. CASE ClientCall
  <2>1. CASE Start BY <2>1 DEF Start
  <2>2. CASE Pause BY <2>2 DEF Pause
  <2>3. CASE Unpause BY <2>3 DEF Unpause
  <2>4. ASSUME NEW n \in FrameLimits, SetMaxThreadsPerFrame(n) PROVE CancelAsked
    BY <2>4 DEF SetMaxThreadsPerFrame
  <2>5. ASSUME NEW j \in Jobs, MakeThread(j) PROVE CancelAsked
    BY <2>5 DEF MakeThread
  <2>6. ASSUME NEW j \in Jobs, MakeThreadRefused(j) PROVE CancelAsked
    BY <2>6 DEF MakeThreadRefused
  <2>7. ASSUME NEW f \in BOOLEAN, StopBegin(f) PROVE CancelAsked
    BY <2>7 DEF StopBegin
  <2> QED BY <1>1, <2>1, <2>2, <2>3, <2>4, <2>5, <2>6, <2>7 DEF ClientCall
<1>2. CASE ClientStep
  <2>1. CASE UnpauseSignal BY <2>1 DEF UnpauseSignal
  <2>2. CASE UnpauseSignalAdd BY <2>2 DEF UnpauseSignalAdd
  <2>3. CASE StopUnpause BY <2>3 DEF StopUnpause
  <2>4. CASE StopSignal BY <2>4 DEF StopSignal
  <2>5. CASE StopJoin BY <2>5 DEF StopJoin
  <2>6. CASE StopCrash BY <2>6 DEF StopCrash
  <2>7. CASE FlushCancel BY <2>7 DEF FlushCancel, StopSeen
  <2>8. CASE StopEnd BY <2>8 DEF StopEnd
  <2> QED BY <1>2, <2>1, <2>2, <2>3, <2>4, <2>5, <2>6, <2>7, <2>8 DEF ClientStep
<1>3. CASE WorkerStep
  <2>1. CASE CheckState BY <2>1 DEF CheckState, Goto
  <2>2. CASE CheckQueue BY <2>2 DEF CheckQueue
  <2>3. CASE WaitForAdd BY <2>3 DEF WaitForAdd, EnterWait
  <2>4. CASE AddSignalled BY <2>4 DEF AddSignalled, ReturnFromWait, BlockedOn
  <2>5. CASE Woken BY <2>5 DEF Woken
  <2>6. CASE RecheckState BY <2>6 DEF RecheckState, Goto
  <2>7. CASE WaitForPause BY <2>7 DEF WaitForPause, EnterWait
  <2>8. CASE PauseSignalled BY <2>8 DEF PauseSignalled, ReturnFromWait, BlockedOn
  <2>9. CASE DrainLoop BY <2>9 DEF DrainLoop, Goto
  <2>10. CASE RunFrame BY <2>10 DEF RunFrame, Goto
  <2>11. CASE TakeJob BY <2>11 DEF TakeJob
  <2>12. CASE EndFrame BY <2>12 DEF EndFrame, Goto
  <2>13. CASE RunJob BY <2>13 DEF RunJob, Goto
  <2>14. CASE TerminateJob BY <2>14 DEF TerminateJob, Goto
  <2>15. CASE ReleaseHandle BY <2>15 DEF ReleaseHandle, Goto
  <2> QED BY <1>3, <2>1, <2>2, <2>3, <2>4, <2>5, <2>6, <2>7, <2>8, <2>9, <2>10, <2>11,
             <2>12, <2>13, <2>14, <2>15 DEF WorkerStep
<1>4. CASE SpuriousWakeup BY <1>4 DEF SpuriousWakeup, ReturnFromWait, BlockedOn
<1>5. CASE UNCHANGED vars BY <1>5 DEF vars
<1> QED BY <1>1, <1>2, <1>3, <1>4, <1>5 DEF Next

\* A job is cancelled only by a Stop(true).
THEOREM CancelCorrect == Spec => CancelsOnlyOnRequest
<1>1. IInv /\ [Next]_vars => [CancelAsked]_vars
  BY CancelStep DEF IInv
<1> QED BY <1>1, Inductive, PTL DEF Spec, CancelsOnlyOnRequest

\* The abstract mode of the worker, state by state.
ModeTable ==
  /\ m_state = "Running" => Mode = "running"
  /\ m_state = "Paused" => Mode = "paused"
  /\ m_state = "Stopped" /\ mpc = "idle" => Mode = "shut"
  /\ m_state = "Stopped" /\ mpc # "idle" /\ m_FlushType => Mode = "cancelling"
  /\ m_state = "Stopped" /\ mpc # "idle" /\ ~m_FlushType => Mode = "depleting"

LEMMA ModeCases == TypeOK => ModeTable
  BY DEF Mode, ModeTable, TypeOK, WorkerStates

\* What is left of the batch, by where the thread is.
BatchTable ==
  /\ wpc \in {"pauseWait", "pauseBlocked", "frame"} => Batch = m_perFrame
  /\ wpc = "pop" => Batch = budget
  /\ wpc \in {"run", "terminate", "release"} => Batch = budget - 1
  /\ wpc \notin InFrame \cup {"pauseWait", "pauseBlocked"} => Batch = 0

LEMMA BatchCases == BatchTable
  BY DEF Batch, BatchTable, InFrame

\* A job the worker has not seen is fresh to the abstract queue too.
LEMMA FreshJobs ==
  ASSUME TypeOK, JobInHand, QueuedOnce, NEW j \in Jobs, status[j] = "new"
  PROVE  Queue!Fresh(j)
<1>1. Outcome[j] = "none"
  BY DEF Outcome
<1>2. j # Active
  BY JobsAssumption DEF Active, JobInHand
<1>3. \A i \in DOMAIN m_ThreadQueue : m_ThreadQueue[i] # j
  BY DEF TypeOK, QueuedOnce
<1> QED BY <1>1, <1>2, <1>3 DEF Queue!Fresh

\* A step of the abstract queue, or none.
Batches == Queue!Next \/ UNCHANGED <<Mode, m_ThreadQueue, Active, Batch, Outcome>>

\* What each step of the worker is to its client.
LEMMA BatchStep == TypeOK /\ TypeOK' /\ QueuedOnce /\ JobInHand /\ ThreadLife /\ StopSeen /\ [Next]_vars => Batches
<1> SUFFICES ASSUME TypeOK, TypeOK', QueuedOnce, JobInHand, ThreadLife, StopSeen, [Next]_vars PROVE Batches
  OBVIOUS
<1>0. ModeTable /\ ModeTable' /\ BatchTable /\ BatchTable'
  <2>1. (TypeOK => ModeTable)' /\ BatchTable'
    BY ModeCases, BatchCases, PTL
  <2> QED BY <2>1, ModeCases, BatchCases
<1> USE <1>0, JobsAssumption DEF TypeOK, WorkerStates, ThreadLife, Batches, ModeTable, BatchTable, Queue!Next, Stopping, InFrame, sharedVars, workerVars, history
<1>1. CASE ClientCall
  <2>1. CASE Start
    <3>1. Mode \in {"shut"} /\ Mode' \in {"running"}
      BY <2>1 DEF Start
    <3>2. UNCHANGED <<m_ThreadQueue, Active, Batch, Outcome>>
      BY <2>1 DEF Start, Active, Batch, Outcome
    <3> QED BY <3>1, <3>2 DEF Queue!StartUp, Queue!SetMode, Queue!Open, Queue!Closing
  <2>2. CASE Pause
    <3>1. Mode \in {"running"} /\ Mode' \in {"paused"}
      BY <2>2 DEF Pause
    <3>2. UNCHANGED <<m_ThreadQueue, Active, Batch, Outcome>>
      BY <2>2 DEF Pause, Active, Batch, Outcome
    <3> QED BY <3>1, <3>2 DEF Queue!Hold, Queue!SetMode, Queue!Open, Queue!Closing
  <2>3. CASE Unpause
    <3>1. Mode \in {"paused"} /\ Mode' \in {"running"}
      BY <2>3 DEF Unpause
    <3>2. UNCHANGED <<m_ThreadQueue, Active, Batch, Outcome>>
      BY <2>3 DEF Unpause, Active, Batch, Outcome
    <3> QED BY <3>1, <3>2 DEF Queue!Resume, Queue!SetMode, Queue!Open, Queue!Closing
  <2>4. ASSUME NEW n \in FrameLimits, SetMaxThreadsPerFrame(n) PROVE Batches
    <3>1. Mode' = Mode /\ m_ThreadQueue' = m_ThreadQueue /\ Outcome' = Outcome /\ Active' = Active
      BY <2>4 DEF SetMaxThreadsPerFrame, Mode, Active, Outcome
    <3>2. CASE wpc \in {"pauseWait", "pauseBlocked", "frame"}
      <4>1. Mode \notin {"shut", "cancelling"} /\ Active = NoJob /\ Batch' \in Nat
        BY <2>4, <3>2 DEF SetMaxThreadsPerFrame, Active
      <4> QED BY <3>1, <4>1 DEF Queue!OpenBatch
    <3>3. CASE wpc \notin {"pauseWait", "pauseBlocked", "frame"}
      <4>1. Batch' = Batch
        BY <2>4, <3>3 DEF SetMaxThreadsPerFrame, Batch
      <4> QED BY <3>1, <4>1
    <3> QED BY <3>2, <3>3
  <2>5. ASSUME NEW j \in Jobs, MakeThread(j) PROVE Batches
    <3>1. Queue!Fresh(j) /\ Mode = "running" /\ Mode' = Mode
      BY <2>5, FreshJobs DEF MakeThread
    <3>2. m_ThreadQueue' = Append(m_ThreadQueue, j) /\ Active' = Active /\ Batch' = Batch
      BY <2>5 DEF MakeThread, Active, Batch
    <3>3. Outcome' = Outcome
      BY <2>5 DEF MakeThread, Outcome
    <3>4. Queue!Accept(j)
      BY <3>1, <3>2, <3>3 DEF Queue!Accept
    <3> QED BY <3>4
  <2>6. ASSUME NEW j \in Jobs, MakeThreadRefused(j) PROVE Batches
    <3>1. Queue!Fresh(j) /\ Mode # "running" /\ Mode' = Mode
      BY <2>6, FreshJobs DEF MakeThreadRefused, WorkerStates
    <3>2. m_ThreadQueue' = m_ThreadQueue /\ Active' = Active /\ Batch' = Batch
      BY <2>6 DEF MakeThreadRefused, Active, Batch
    <3>3. Outcome' = [Outcome EXCEPT ![j] = "refused"]
      BY <2>6 DEF MakeThreadRefused, Outcome
    <3>4. Queue!Refuse(j)
      BY <3>1, <3>2, <3>3 DEF Queue!Refuse
    <3> QED BY <3>4
  <2>7. ASSUME NEW f \in BOOLEAN, StopBegin(f) PROVE Batches
    <3>1. Mode \in {"running", "paused"} /\ Mode' \in {"depleting", "cancelling"}
      BY <2>7 DEF StopBegin
    <3>2. UNCHANGED <<m_ThreadQueue, Active, Batch, Outcome>>
      BY <2>7 DEF StopBegin, Active, Batch, Outcome
    <3> QED BY <3>1, <3>2 DEF Queue!Close, Queue!SetMode, Queue!Open, Queue!Closing
  <2> QED BY <1>1, <2>1, <2>2, <2>3, <2>4, <2>5, <2>6, <2>7 DEF ClientCall
<1>2. CASE ClientStep
  <2>1. CASE UnpauseSignal BY <2>1 DEF UnpauseSignal, Mode, Active, Batch, Outcome
  <2>2. CASE UnpauseSignalAdd BY <2>2 DEF UnpauseSignalAdd, Mode, Active, Batch, Outcome
  <2>3. CASE StopUnpause BY <2>3 DEF StopUnpause, Mode, Active, Batch, Outcome
  <2>4. CASE StopSignal BY <2>4 DEF StopSignal, Mode, Active, Batch, Outcome
  <2>5. CASE StopJoin BY <2>5 DEF StopJoin, Mode, Active, Batch, Outcome
  <2>6. CASE StopCrash BY <2>6 DEF StopCrash, Mode, Active, Batch, Outcome
  <2>7. CASE FlushCancel
    <3> DEFINE h == Head(m_ThreadQueue)
    <3>1. Mode = "cancelling" /\ Mode' = Mode
      BY <2>7 DEF FlushCancel, StopSeen
    <3>2. m_ThreadQueue # <<>> /\ m_ThreadQueue' = Tail(m_ThreadQueue) /\ Active = NoJob /\ Active' = Active
      BY <2>7 DEF FlushCancel, Active
    <3>3. Outcome' = [Outcome EXCEPT ![h] = "cancelled"]
      BY <2>7, TailPlaces DEF FlushCancel, Outcome
    <3>b. Batch = 0 /\ Batch' = Batch
      BY <2>7 DEF FlushCancel
    <3>4. Queue!Cancel
      BY <3>1, <3>2, <3>3, <3>b DEF Queue!Cancel
    <3> QED BY <3>4
  <2>8. CASE StopEnd
    <3>1. Mode \in {"depleting", "cancelling"} /\ Mode' = "shut"
      BY <2>8 DEF StopEnd
    <3>2. UNCHANGED <<m_ThreadQueue, Active, Batch, Outcome>> /\ m_ThreadQueue = <<>> /\ Active = NoJob
      BY <2>8 DEF StopEnd, Active, Batch, Outcome
    <3>3. Batch = 0
      BY <2>8 DEF StopEnd
    <3> QED BY <3>1, <3>2, <3>3 DEF Queue!Shut, Queue!SetMode, Queue!Closing
  <2> QED BY <1>2, <2>1, <2>2, <2>3, <2>4, <2>5, <2>6, <2>7, <2>8 DEF ClientStep
<1>3. CASE WorkerStep
  <2>1. CASE CheckState BY <2>1 DEF CheckState, Goto, Mode, Active, Batch, Outcome
  <2>2. CASE CheckQueue BY <2>2 DEF CheckQueue, Mode, Active, Batch, Outcome
  <2>3. CASE WaitForAdd BY <2>3 DEF WaitForAdd, EnterWait, Mode, Active, Batch, Outcome
  <2>4. CASE AddSignalled BY <2>4 DEF AddSignalled, ReturnFromWait, BlockedOn, Mode, Active, Batch, Outcome
  <2>5. CASE Woken BY <2>5 DEF Woken, Mode, Active, Batch, Outcome
  <2>6. CASE RecheckState
    <3>1. UNCHANGED <<Mode, m_ThreadQueue, Active, Outcome>>
      BY <2>6 DEF RecheckState, Goto, Mode, Active, Outcome
    <3>2. CASE m_state = "Stopped"
      <4>1. Batch = 0 /\ Batch' = 0
        BY <2>6, <3>2 DEF RecheckState, Goto
      <4> QED BY <3>1, <4>1
    <3>3. CASE m_state # "Stopped"
      <4>1. Mode \notin {"shut", "cancelling"} /\ Active = NoJob /\ Batch' \in Nat
        BY <2>6, <3>3 DEF RecheckState, Goto, Active
      <4> QED BY <3>1, <4>1 DEF Queue!OpenBatch
    <3> QED BY <3>2, <3>3
  <2>7. CASE WaitForPause BY <2>7 DEF WaitForPause, EnterWait, Mode, Active, Batch, Outcome
  <2>8. CASE PauseSignalled BY <2>8 DEF PauseSignalled, ReturnFromWait, BlockedOn, Mode, Active, Batch, Outcome
  <2>9. CASE DrainLoop
    <3>1. UNCHANGED <<Mode, m_ThreadQueue, Active, Outcome>>
      BY <2>9 DEF DrainLoop, Goto, Mode, Active, Outcome
    <3>2. Mode \notin {"shut", "cancelling"} /\ Active = NoJob /\ Batch' \in Nat
      BY <2>9 DEF DrainLoop, Goto, Active, StopSeen
    <3> QED BY <3>1, <3>2 DEF Queue!OpenBatch
  <2>10. CASE RunFrame BY <2>10 DEF RunFrame, Goto, Mode, Active, Batch, Outcome
  <2>11. CASE TakeJob
    <3> DEFINE h == Head(m_ThreadQueue)
    <3>1. Mode # "shut" /\ Mode' = Mode
      BY <2>11 DEF TakeJob, WorkerStates
    <3>2. m_ThreadQueue # <<>> /\ m_ThreadQueue' = Tail(m_ThreadQueue) /\ Active = NoJob /\ Active' = h
      BY <2>11 DEF TakeJob, Active
    <3>3. h \in Jobs /\ status[h] = "queued"
      BY <2>11, TailPlaces DEF TakeJob, QueuedOnce
    <3>4. Outcome' = Outcome
      BY <2>11, <3>3 DEF TakeJob, Outcome
    <3>b. Batch > 0 /\ Batch' = Batch - 1
      BY <2>11 DEF TakeJob
    <3>5. Queue!Begin
      BY <3>1, <3>2, <3>4, <3>b DEF Queue!Begin
    <3> QED BY <3>5
  <2>12. CASE EndFrame
    <3>1. UNCHANGED <<Mode, m_ThreadQueue, Active, Outcome>>
      BY <2>12 DEF EndFrame, Goto, Mode, Active, Outcome
    <3>2. Active = NoJob /\ Batch' = 0
      BY <2>12 DEF EndFrame, Goto, Active
    <3> QED BY <3>1, <3>2 DEF Queue!CloseBatch
  <2>13. CASE RunJob
    <3>1. cur \in Jobs /\ status[cur] = "running" /\ Mode' = Mode
      BY <2>13 DEF RunJob, Goto, JobInHand
    <3>2. m_ThreadQueue' = m_ThreadQueue /\ Active' = Active /\ Batch' = Batch
      BY <2>13 DEF RunJob, Goto, Active
    <3>3. Outcome' = Outcome
      BY <2>13, <3>1 DEF RunJob, Outcome
    <3> QED BY <3>1, <3>2, <3>3
  <2>14. CASE TerminateJob
    <3>1. cur \in Jobs /\ Mode' = Mode /\ m_ThreadQueue' = m_ThreadQueue
      BY <2>14 DEF TerminateJob, Goto, JobInHand
    <3>2. Active = cur /\ Active' = NoJob /\ Batch' = Batch
      BY <2>14 DEF TerminateJob, Goto, Active
    <3>3. Outcome' = [Outcome EXCEPT ![cur] = "done"]
      BY <2>14, <3>1 DEF TerminateJob, Outcome
    <3>4. Queue!Finish
      BY <3>1, <3>2, <3>3, JobsAssumption DEF Queue!Finish
    <3> QED BY <3>4
  <2>15. CASE ReleaseHandle BY <2>15 DEF ReleaseHandle, Goto, Mode, Active, Batch, Outcome
  <2> QED BY <1>3, <2>1, <2>2, <2>3, <2>4, <2>5, <2>6, <2>7, <2>8, <2>9, <2>10, <2>11,
             <2>12, <2>13, <2>14, <2>15 DEF WorkerStep
<1>4. CASE SpuriousWakeup BY <1>4 DEF SpuriousWakeup, ReturnFromWait, BlockedOn, Mode, Active, Batch, Outcome
<1>5. CASE UNCHANGED vars BY <1>5 DEF vars, Mode, Active, Batch, Outcome
<1> QED BY <1>1, <1>2, <1>3, <1>4, <1>5 DEF Next

\* The worker implements WorkQueue: every step of its threads is a step of the
\* abstract queue or none at all.
THEOREM Implements == Spec => KeepsBatches
<1>1. Init => Queue!Init
  <2> SUFFICES ASSUME Init PROVE Queue!Init
    OBVIOUS
  <2>1. Mode = "shut" /\ Active = NoJob /\ Batch = 0
    BY DEF Init, Mode, Active, Batch
  <2>2. Outcome = [j \in Jobs |-> "none"]
    BY DEF Init, Outcome
  <2> QED BY <2>1, <2>2 DEF Init, Queue!Init
<1>2. IInv /\ [Next]_vars => [Queue!Next]_(Queue!vars)
  <2>1. IInv /\ [Next]_vars => TypeOK'
    BY IInvStep DEF IInv
  <2>2. IInv => TypeOK /\ QueuedOnce /\ JobInHand /\ ThreadLife /\ StopSeen
    BY QueuedOnceEquiv DEF IInv
  <2>3. IInv /\ [Next]_vars => Batches
    BY <2>1, <2>2, BatchStep
  <2> QED BY <2>3 DEF Batches, Queue!vars
<1> QED BY <1>1, <1>2, Inductive, PTL DEF Spec, KeepsBatches, Queue!Spec
=============================================================================
