----------------------------- MODULE ThreadGate ------------------------------
(***************************************************************************)
(* The thread handles of PosixThreads.cpp and WinThreads.cpp: how a thread *)
(* is created behind a gate, let through, and who deletes its handle.      *)
(*                                                                         *)
(* The gate is m_runlock, held by the creator, on POSIX and the suspended  *)
(* state of the new thread on Windows; the steps are the same.  One client *)
(* thread owns all handles.  It uses them as IThreader.h and ThreadWorker  *)
(* do: a handle with Thread_AutoRelease only until its thread is unpaused, *)
(* any other until it has waited for the thread and destroyed the handle.  *)
(***************************************************************************)
EXTENDS Naturals

CONSTANTS
  Handles,   \* ThreadHandle objects, each made once
  NoHandle   \* the client is in no call

ASSUME HandleAssumption == NoHandle \notin Handles

VARIABLES
  flags,     \* m_params.flags of each handle
  m_state,   \* ThreadState
  open,      \* may the thread pass the gate?
  memory,    \* is the handle allocated?
  tpc,       \* where its thread is
  copied,    \* the thread's copy of the parameters
  inside,    \* the handle whose MakeThread() or Unpause() the client is in
  cpc,       \* ... and where
  asked      \* history: threads that are meant to run

vars == <<flags, m_state, open, memory, tpc, copied, inside, cpc, asked>>

Flags       == {"AutoRelease", "CreateSuspended"}
ThreadState == {"Running", "Paused", "Done"}
ThreadPCs   == {"none", "gate", "run", "finish", "terminate", "release", "exited", "joined",
                "destroyed"}
Memory      == {"none", "live", "freed"}

Init ==
  /\ flags = [h \in Handles |-> {}] /\ m_state = [h \in Handles |-> "Paused"]
  /\ open = [h \in Handles |-> FALSE] /\ memory = [h \in Handles |-> "none"]
  /\ tpc = [h \in Handles |-> "none"] /\ copied = [h \in Handles |-> {}]
  /\ inside = NoHandle /\ cpc = "idle" /\ asked = {}

\* delete; a second one is outside of Memory.
Freed(h) == [memory EXCEPT ![h] = IF @ = "live" THEN "freed" ELSE "corrupt"]

-----------------------------------------------------------------------------
(* The client *)

\* new ThreadHandle, the gate closed, and pthread_create / CreateThread.
MakeThread(h, f) ==
  /\ cpc = "idle" /\ memory[h] = "none"
  /\ flags' = [flags EXCEPT ![h] = f]
  /\ memory' = [memory EXCEPT ![h] = "live"]
  /\ tpc' = [tpc EXCEPT ![h] = "gate"]
  /\ inside' = h /\ cpc' = "created"
  /\ UNCHANGED <<m_state, open, copied, asked>>

\* The thread could not be created: the handle is deleted again.
MakeThreadFails(h) ==
  /\ cpc = "idle" /\ memory[h] = "none"
  /\ memory' = [memory EXCEPT ![h] = "freed"]
  /\ UNCHANGED <<flags, m_state, open, tpc, copied, inside, cpc, asked>>

\* MakeThread() returns a suspended thread.
LeaveSuspended ==
  /\ cpc = "created" /\ "CreateSuspended" \in flags[inside]
  /\ inside' = NoHandle /\ cpc' = "idle"
  /\ UNCHANGED <<flags, m_state, open, memory, tpc, copied, asked>>

\* The state is set before the gate is opened.
SetRunning(h) ==
  /\ m_state' = [m_state EXCEPT ![h] = "Running"]
  /\ asked' = asked \cup {h}
  /\ inside' = h /\ cpc' = "unlock"
  /\ UNCHANGED <<flags, open, memory, tpc, copied>>

StartThread ==
  /\ cpc = "created" /\ "CreateSuspended" \notin flags[inside]
  /\ SetRunning(inside)

\* May the client still use the handle?
Mine(h) ==
  /\ tpc[h] \notin {"none", "destroyed"}
  /\ "AutoRelease" \in flags[h] => h \notin asked

\* Unpause() of a thread that is not paused returns false: no step.
Unpause(h) ==
  /\ cpc = "idle" /\ Mine(h)
  /\ m_state[h] = "Paused"
  /\ SetRunning(h)

\* Mutant: the gate is opened and the state set afterwards.
OpenGateStateLater ==
  /\ cpc = "unlock"
  /\ \/ ~open[inside] /\ open' = [open EXCEPT ![inside] = TRUE]
        /\ UNCHANGED <<m_state, inside, cpc>>
     \/ open[inside] /\ m_state' = [m_state EXCEPT ![inside] = "Running"]
        /\ inside' = NoHandle /\ cpc' = "idle" /\ UNCHANGED open
  /\ UNCHANGED <<flags, memory, tpc, copied, asked>>

\* pthread_mutex_unlock(&m_runlock) / ResumeThread
OpenGate ==
  /\ cpc = "unlock"
  /\ open' = [open EXCEPT ![inside] = TRUE]
  /\ inside' = NoHandle /\ cpc' = "idle"
  /\ UNCHANGED <<flags, m_state, memory, tpc, copied, asked>>

\* The gate cannot be opened: the thread is paused again, and Unpause() tells so.
\* MakeThread() returns the handle as if nothing had happened.
OpenGateFails ==
  /\ cpc = "unlock"
  /\ m_state' = [m_state EXCEPT ![inside] = "Paused"]
  /\ asked' = asked \ {inside}
  /\ inside' = NoHandle /\ cpc' = "idle"
  /\ UNCHANGED <<flags, open, memory, tpc, copied>>

\* WaitForThread() returns when the thread is gone; nobody waits for one that is
\* still suspended.
WaitForThread(h) ==
  /\ cpc = "idle" /\ Mine(h) /\ h \in asked
  /\ tpc[h] = "exited"
  /\ tpc' = [tpc EXCEPT ![h] = "joined"]
  /\ UNCHANGED <<flags, m_state, open, memory, copied, inside, cpc, asked>>

\* Mutant: a handle is deleted although its thread was not waited for.
DestroyThisUnjoined(h) ==
  /\ cpc = "idle" /\ Mine(h)
  /\ "AutoRelease" \notin flags[h]
  /\ memory' = Freed(h)
  /\ UNCHANGED <<flags, m_state, open, tpc, copied, inside, cpc, asked>>

\* DestroyThis() returns at once if the thread releases the handle: no step.
DestroyThis(h) ==
  /\ cpc = "idle" /\ Mine(h) /\ tpc[h] = "joined"
  /\ "AutoRelease" \notin flags[h]
  /\ memory' = Freed(h)
  /\ tpc' = [tpc EXCEPT ![h] = "destroyed"]
  /\ UNCHANGED <<flags, m_state, open, copied, inside, cpc, asked>>

-----------------------------------------------------------------------------
(* Posix_ThreadGate, Win32_ThreadGate *)

Step(h, from, to) ==
  /\ tpc[h] = from
  /\ tpc' = [tpc EXCEPT ![h] = to]
  /\ UNCHANGED <<flags, open, inside, cpc, asked>>

PassGate(h) ==
  /\ open[h]
  /\ Step(h, "gate", "run")
  /\ UNCHANGED <<m_state, memory, copied>>

\* m_run->RunThread() returns.
RunThread(h) ==
  /\ Step(h, "run", "finish")
  /\ UNCHANGED <<m_state, memory, copied>>

\* Under m_statelock: Thread_Done, and the parameters are copied.
SetDone(h) ==
  /\ Step(h, "finish", "terminate")
  /\ m_state' = [m_state EXCEPT ![h] = "Done"]
  /\ copied' = [copied EXCEPT ![h] = flags[h]]
  /\ UNCHANGED memory

\* m_run->OnTerminate(pHandle, false)
OnTerminate(h) ==
  /\ Step(h, "terminate", "release")
  /\ UNCHANGED <<m_state, memory, copied>>

\* Mutant: the handle is deleted whatever its flags are.
ReleaseAlways(h) ==
  /\ Step(h, "release", "exited")
  /\ memory' = Freed(h)
  /\ UNCHANGED <<m_state, copied>>

\* Mutant: the handle is never deleted.
ReleaseNever(h) ==
  /\ Step(h, "release", "exited")
  /\ UNCHANGED <<m_state, memory, copied>>

Release(h) ==
  /\ Step(h, "release", "exited")
  /\ memory' = IF "AutoRelease" \in copied[h] THEN Freed(h) ELSE memory
  /\ UNCHANGED <<m_state, copied>>

-----------------------------------------------------------------------------
ThreadStep(h) == PassGate(h) \/ RunThread(h) \/ SetDone(h) \/ OnTerminate(h) \/ Release(h)

ClientCall ==
  \E h \in Handles :
    \/ \E f \in SUBSET Flags : MakeThread(h, f)
    \/ MakeThreadFails(h) \/ Unpause(h) \/ WaitForThread(h) \/ DestroyThis(h)

ClientStep == LeaveSuspended \/ StartThread \/ OpenGate \/ OpenGateFails

Next == ClientCall \/ ClientStep \/ \E h \in Handles : ThreadStep(h)

Spec == Init /\ [][Next]_vars

\* Threads that may run do, jobs end, and a call the client is in goes on.
FairSpec == Spec /\ WF_vars(ClientStep) /\ \A h \in Handles : WF_vars(ThreadStep(h))

-----------------------------------------------------------------------------
(* Properties *)

TypeOK ==
  /\ flags \in [Handles -> SUBSET Flags] /\ m_state \in [Handles -> ThreadState]
  /\ open \in [Handles -> BOOLEAN] /\ memory \in [Handles -> Memory]
  /\ tpc \in [Handles -> ThreadPCs] /\ copied \in [Handles -> SUBSET Flags]
  /\ inside \in Handles \cup {NoHandle}
  /\ cpc \in {"idle", "created", "unlock"} /\ asked \subseteq Handles

\* Neither side touches a handle that the other has deleted: not MakeThread() and
\* Unpause() while they let the thread run, not the client that keeps a handle
\* as long as it may, not the thread when it is through.
TouchesLiveHandle ==
  /\ inside # NoHandle => memory[inside] = "live"
  /\ \A h \in Handles :
       Mine(h) \/ tpc[h] \in {"gate", "run", "finish", "terminate", "release"} => memory[h] = "live"

\* A suspended thread does not run before it is unpaused, and m_state, written by
\* both sides without a common lock, says at each moment where the thread is.
StateTellsPlace ==
  \A h \in Handles : tpc[h] # "none" =>
    /\ m_state[h] = "Paused" <=> h \notin asked
    /\ m_state[h] = "Done" <=> tpc[h] \in {"terminate", "release", "exited", "joined", "destroyed"}
    /\ m_state[h] = "Paused" => tpc[h] = "gate"

\* Every thread that was let run ends, unless its gate could not be opened, and its
\* handle is freed by itself if it has Thread_AutoRelease.
RunsToRelease ==
  \A h \in Handles : h \in asked ~>
    \/ h \notin asked
    \/ /\ tpc[h] \in {"exited", "joined", "destroyed"}
       /\ "AutoRelease" \in flags[h] => memory[h] = "freed"

-----------------------------------------------------------------------------
(* The inductive invariant behind the safety properties *)

Through == {"run", "finish", "terminate", "release", "exited", "joined", "destroyed"}

\* A thread is through the gate only if it was opened, and the gate only if the
\* client wanted it; a handle is made before its thread.
GateKept ==
  \A h \in Handles :
    /\ tpc[h] \in Through => open[h]
    /\ open[h] => h \in asked
    /\ tpc[h] = "none" => h \notin asked /\ m_state[h] = "Paused"
    /\ memory[h] = "none" => tpc[h] = "none"
    /\ tpc[h] \in {"terminate", "release"} => copied[h] = flags[h]

\* While the client is in a call, the thread of that handle is at the gate.
InsideAtGate ==
  /\ cpc = "idle" <=> inside = NoHandle
  /\ inside # NoHandle => tpc[inside] = "gate" /\ ~open[inside]
  /\ cpc = "created" => inside \notin asked
  /\ cpc = "unlock" => inside \in asked

IInv == TypeOK /\ TouchesLiveHandle /\ StateTellsPlace /\ GateKept /\ InsideAtGate
=============================================================================
