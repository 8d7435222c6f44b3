-------------------------- MODULE ThreadGateProofs ---------------------------
(***************************************************************************)
(* The thread handles of ThreadGate for every set of handles: the          *)
(* inductive invariant, and from it the safety properties the runs check.  *)
(***************************************************************************)
EXTENDS ThreadGate, TLAPS

\* A step concerns one handle h; these are the parts of the invariant for it.
HandleOK(h) ==
  /\ flags[h] \in SUBSET Flags /\ m_state[h] \in ThreadState
  /\ open[h] \in BOOLEAN /\ memory[h] \in Memory
  /\ tpc[h] \in ThreadPCs /\ copied[h] \in SUBSET Flags
  /\ Mine(h) \/ tpc[h] \in {"gate", "run", "finish", "terminate", "release"} => memory[h] = "live"
  /\ tpc[h] # "none" =>
       /\ m_state[h] = "Paused" <=> h \notin asked
       /\ m_state[h] = "Done" <=>
            tpc[h] \in {"terminate", "release", "exited", "joined", "destroyed"}
       /\ m_state[h] = "Paused" => tpc[h] = "gate"
  /\ tpc[h] \in Through => open[h]
  /\ open[h] => h \in asked
  /\ tpc[h] = "none" => h \notin asked /\ m_state[h] = "Paused"
  /\ memory[h] = "none" => tpc[h] = "none"
  /\ tpc[h] \in {"terminate", "release"} => copied[h] = flags[h]

\* The variables are functions on Handles, and the client is in one place.
Shape ==
  /\ flags \in [Handles -> SUBSET Flags] /\ m_state \in [Handles -> ThreadState]
  /\ open \in [Handles -> BOOLEAN] /\ memory \in [Handles -> Memory]
  /\ tpc \in [Handles -> ThreadPCs] /\ copied \in [Handles -> SUBSET Flags]
  /\ inside \in Handles \cup {NoHandle}
  /\ cpc \in {"idle", "created", "unlock"} /\ asked \subseteq Handles

\* IInv, handle by handle.
LEMMA ByHandle ==
  IInv <=> Shape /\ InsideAtGate /\ \A h \in Handles : HandleOK(h)
<1>1. IInv => Shape /\ InsideAtGate /\ \A h \in Handles : HandleOK(h)
  BY DEF IInv, TypeOK, TouchesLiveHandle, StateTellsPlace, GateKept, Shape, HandleOK
<1>2. Shape /\ InsideAtGate /\ (\A h \in Handles : HandleOK(h)) => IInv
  <2> SUFFICES ASSUME Shape, InsideAtGate, \A h \in Handles : HandleOK(h)
               PROVE  IInv
    OBVIOUS
  <2>1. TypeOK BY DEF Shape, TypeOK
  <2>2. StateTellsPlace /\ GateKept BY DEF StateTellsPlace, GateKept, HandleOK
  <2>3. inside # NoHandle => memory[inside] = "live"
    BY DEF InsideAtGate, HandleOK, Shape
  <2>4. TouchesLiveHandle BY <2>3 DEF TouchesLiveHandle, HandleOK
  <2> QED BY <2>1, <2>2, <2>4 DEF IInv
<1> QED BY <1>1, <1>2

LEMMA InitInv == Init => IInv
<1> SUFFICES ASSUME Init PROVE IInv
  OBVIOUS
<1>1. Shape BY DEF Init, Shape, ThreadState, Memory, ThreadPCs
<1>2. InsideAtGate BY DEF Init, InsideAtGate
<1>3. \A h \in Handles : HandleOK(h)
  BY DEF Init, HandleOK, Mine, Through, ThreadState, Memory, ThreadPCs
<1> QED BY <1>1, <1>2, <1>3, ByHandle

\* The parts of the invariant in the state after a step.
LEMMA AfterStep ==
  ASSUME Shape', InsideAtGate', \A h \in Handles : HandleOK(h)'
  PROVE  IInv'
<1>1. (IInv <=> Shape /\ InsideAtGate /\ \A h \in Handles : HandleOK(h))'
  BY ByHandle, PTL
<1> QED BY <1>1

LEMMA MakeThreadInv ==
  ASSUME IInv, NEW h \in Handles, NEW f \in SUBSET Flags, MakeThread(h, f)
  PROVE  IInv'
<1> USE HandleAssumption DEF MakeThread, Flags, ThreadState, ThreadPCs, Memory
<1>1. Shape /\ InsideAtGate /\ \A g \in Handles : HandleOK(g)
  BY ByHandle
<1>2. Shape'
  BY <1>1 DEF Shape, InsideAtGate, HandleOK, Mine
<1>3. InsideAtGate'
  BY <1>1 DEF Shape, InsideAtGate, HandleOK, Mine
<1>4. ASSUME NEW g \in Handles PROVE HandleOK(g)'
  BY <1>1 DEF Shape, InsideAtGate, HandleOK, Mine, Through
<1> QED BY <1>2, <1>3, <1>4, AfterStep

LEMMA MakeThreadFailsInv ==
  ASSUME IInv, NEW h \in Handles, MakeThreadFails(h)
  PROVE  IInv'
<1> USE HandleAssumption DEF MakeThreadFails, Flags, ThreadState, ThreadPCs, Memory
<1>1. Shape /\ InsideAtGate /\ \A g \in Handles : HandleOK(g)
  BY ByHandle
<1>2. Shape'
  BY <1>1 DEF Shape, InsideAtGate, HandleOK, Mine
<1>3. InsideAtGate'
  BY <1>1 DEF Shape, InsideAtGate, HandleOK, Mine
<1>4. ASSUME NEW g \in Handles PROVE HandleOK(g)'
  BY <1>1 DEF Shape, InsideAtGate, HandleOK, Mine, Through
<1> QED BY <1>2, <1>3, <1>4, AfterStep

LEMMA LeaveSuspendedInv ==
  ASSUME IInv, LeaveSuspended
  PROVE  IInv'
<1> USE HandleAssumption DEF LeaveSuspended, Flags, ThreadState, ThreadPCs, Memory
<1>1. Shape /\ InsideAtGate /\ \A g \in Handles : HandleOK(g)
  BY ByHandle
<1>2. Shape'
  BY <1>1 DEF Shape, InsideAtGate, HandleOK, Mine
<1>3. InsideAtGate'
  BY <1>1 DEF Shape, InsideAtGate, HandleOK, Mine
<1>4. ASSUME NEW g \in Handles PROVE HandleOK(g)'
  BY <1>1 DEF Shape, InsideAtGate, HandleOK, Mine, Through
<1> QED BY <1>2, <1>3, <1>4, AfterStep

LEMMA StartThreadInv ==
  ASSUME IInv, StartThread
  PROVE  IInv'
<1> USE HandleAssumption DEF StartThread, SetRunning, Flags, ThreadState, ThreadPCs, Memory
<1>1. Shape /\ InsideAtGate /\ \A g \in Handles : HandleOK(g)
  BY ByHandle
<1>2. Shape'
  BY <1>1 DEF Shape, InsideAtGate, HandleOK, Mine
<1>3. InsideAtGate'
  BY <1>1 DEF Shape, InsideAtGate, HandleOK, Mine
<1>4. ASSUME NEW g \in Handles PROVE HandleOK(g)'
  BY <1>1 DEF Shape, InsideAtGate, HandleOK, Mine, Through
<1> QED BY <1>2, <1>3, <1>4, AfterStep

LEMMA UnpauseInv ==
  ASSUME IInv, NEW h \in Handles, Unpause(h)
  PROVE  IInv'
<1> USE HandleAssumption DEF Unpause, SetRunning, Flags, ThreadState, ThreadPCs, Memory
<1>1. Shape /\ InsideAtGate /\ \A g \in Handles : HandleOK(g)
  BY ByHandle
<1>2. Shape'
  BY <1>1 DEF Shape, InsideAtGate, HandleOK, Mine
<1>3. InsideAtGate'
  BY <1>1 DEF Shape, InsideAtGate, HandleOK, Mine
<1>4. ASSUME NEW g \in Handles PROVE HandleOK(g)'
  BY <1>1 DEF Shape, InsideAtGate, HandleOK, Mine, Through
<1> QED BY <1>2, <1>3, <1>4, AfterStep

LEMMA OpenGateInv ==
  ASSUME IInv, OpenGate
  PROVE  IInv'
<1> USE HandleAssumption DEF OpenGate, Flags, ThreadState, ThreadPCs, Memory
<1>1. Shape /\ InsideAtGate /\ \A g \in Handles : HandleOK(g)
  BY ByHandle
<1>2. Shape'
  BY <1>1 DEF Shape, InsideAtGate, HandleOK, Mine
<1>3. InsideAtGate'
  BY <1>1 DEF Shape, InsideAtGate, HandleOK, Mine
<1>4. ASSUME NEW g \in Handles PROVE HandleOK(g)'
  BY <1>1 DEF Shape, InsideAtGate, HandleOK, Mine, Through
<1> QED BY <1>2, <1>3, <1>4, AfterStep

LEMMA OpenGateFailsInv ==
  ASSUME IInv, OpenGateFails
  PROVE  IInv'
<1> USE HandleAssumption DEF OpenGateFails, Flags, ThreadState, ThreadPCs, Memory
<1>1. Shape /\ InsideAtGate /\ \A g \in Handles : HandleOK(g)
  BY ByHandle
<1>2. Shape'
  BY <1>1 DEF Shape, InsideAtGate, HandleOK, Mine
<1>3. InsideAtGate'
  BY <1>1 DEF Shape, InsideAtGate, HandleOK, Mine
<1>4. ASSUME NEW g \in Handles PROVE HandleOK(g)'
  BY <1>1 DEF Shape, InsideAtGate, HandleOK, Mine, Through
<1> QED BY <1>2, <1>3, <1>4, AfterStep

LEMMA WaitForThreadInv ==
  ASSUME IInv, NEW h \in Handles, WaitForThread(h)
  PROVE  IInv'
<1> USE HandleAssumption DEF WaitForThread, Flags, ThreadState, ThreadPCs, Memory
<1>1. Shape /\ InsideAtGate /\ \A g \in Handles : HandleOK(g)
  BY ByHandle
<1>2. Shape'
  BY <1>1 DEF Shape, InsideAtGate, HandleOK, Mine
<1>3. InsideAtGate'
  BY <1>1 DEF Shape, InsideAtGate, HandleOK, Mine
<1>4. ASSUME NEW g \in Handles PROVE HandleOK(g)'
  BY <1>1 DEF Shape, InsideAtGate, HandleOK, Mine, Through
<1> QED BY <1>2, <1>3, <1>4, AfterStep

LEMMA DestroyThisInv ==
  ASSUME IInv, NEW h \in Handles, DestroyThis(h)
  PROVE  IInv'
<1> USE HandleAssumption DEF DestroyThis, Freed, Flags, ThreadState, ThreadPCs, Memory
<1>1. Shape /\ InsideAtGate /\ \A g \in Handles : HandleOK(g)
  BY ByHandle
<1>2. Shape'
  BY <1>1 DEF Shape, InsideAtGate, HandleOK, Mine
<1>3. InsideAtGate'
  BY <1>1 DEF Shape, InsideAtGate, HandleOK, Mine
<1>4. ASSUME NEW g \in Handles PROVE HandleOK(g)'
  BY <1>1 DEF Shape, InsideAtGate, HandleOK, Mine, Through
<1> QED BY <1>2, <1>3, <1>4, AfterStep

LEMMA PassGateInv ==
  ASSUME IInv, NEW h \in Handles, PassGate(h)
  PROVE  IInv'
<1> USE HandleAssumption DEF PassGate, Step, Flags, ThreadState, ThreadPCs, Memory
<1>1. Shape /\ InsideAtGate /\ \A g \in Handles : HandleOK(g)
  BY ByHandle
<1>2. Shape'
  BY <1>1 DEF Shape, InsideAtGate, HandleOK, Mine
<1>3. InsideAtGate'
  BY <1>1 DEF Shape, InsideAtGate, HandleOK, Mine
<1>4. ASSUME NEW g \in Handles PROVE HandleOK(g)'
  BY <1>1 DEF Shape, InsideAtGate, HandleOK, Mine, Through
<1> QED BY <1>2, <1>3, <1>4, AfterStep

LEMMA RunThreadInv ==
  ASSUME IInv, NEW h \in Handles, RunThread(h)
  PROVE  IInv'
<1> USE HandleAssumption DEF RunThread, Step, Flags, ThreadState, ThreadPCs, Memory
<1>1. Shape /\ InsideAtGate /\ \A g \in Handles : HandleOK(g)
  BY ByHandle
<1>2. Shape'
  BY <1>1 DEF Shape, InsideAtGate, HandleOK, Mine
<1>3. InsideAtGate'
  BY <1>1 DEF Shape, InsideAtGate, HandleOK, Mine
<1>4. ASSUME NEW g \in Handles PROVE HandleOK(g)'
  BY <1>1 DEF Shape, InsideAtGate, HandleOK, Mine, Through
<1> QED BY <1>2, <1>3, <1>4, AfterStep

LEMMA SetDoneInv ==
  ASSUME IInv, NEW h \in Handles, SetDone(h)
  PROVE  IInv'
<1> USE HandleAssumption DEF SetDone, Step, Flags, ThreadState, ThreadPCs, Memory
<1>1. Shape /\ InsideAtGate /\ \A g \in Handles : HandleOK(g)
  BY ByHandle
<1>2. Shape'
  BY <1>1 DEF Shape, InsideAtGate, HandleOK, Mine
<1>3. InsideAtGate'
  BY <1>1 DEF Shape, InsideAtGate, HandleOK, Mine
<1>4. ASSUME NEW g \in Handles PROVE HandleOK(g)'
  BY <1>1 DEF Shape, InsideAtGate, HandleOK, Mine, Through
<1> QED BY <1>2, <1>3, <1>4, AfterStep

LEMMA OnTerminateInv ==
  ASSUME IInv, NEW h \in Handles, OnTerminate(h)
  PROVE  IInv'
<1> USE HandleAssumption DEF OnTerminate, Step, Flags, ThreadState, ThreadPCs, Memory
<1>1. Shape /\ InsideAtGate /\ \A g \in Handles : HandleOK(g)
  BY ByHandle
<1>2. Shape'
  BY <1>1 DEF Shape, InsideAtGate, HandleOK, Mine
<1>3. InsideAtGate'
  BY <1>1 DEF Shape, InsideAtGate, HandleOK, Mine
<1>4. ASSUME NEW g \in Handles PROVE HandleOK(g)'
  BY <1>1 DEF Shape, InsideAtGate, HandleOK, Mine, Through
<1> QED BY <1>2, <1>3, <1>4, AfterStep

LEMMA ReleaseInv ==
  ASSUME IInv, NEW h \in Handles, Release(h)
  PROVE  IInv'
<1> USE HandleAssumption DEF Release, Step, Freed, Flags, ThreadState, ThreadPCs, Memory
<1>1. Shape /\ InsideAtGate /\ \A g \in Handles : HandleOK(g)
  BY ByHandle
<1>2. Shape'
  BY <1>1 DEF Shape, InsideAtGate, HandleOK, Mine
<1>3. InsideAtGate'
  BY <1>1 DEF Shape, InsideAtGate, HandleOK, Mine
<1>4. ASSUME NEW g \in Handles PROVE HandleOK(g)'
  BY <1>1 DEF Shape, InsideAtGate, HandleOK, Mine, Through
<1> QED BY <1>2, <1>3, <1>4, AfterStep

\* Every step keeps the invariant.
LEMMA NextInv == IInv /\ [Next]_vars => IInv'
<1> SUFFICES ASSUME IInv, [Next]_vars PROVE IInv'
  OBVIOUS
<1>1. CASE ClientCall
  BY <1>1, MakeThreadInv, MakeThreadFailsInv, UnpauseInv, WaitForThreadInv, DestroyThisInv
     DEF ClientCall
<1>2. CASE ClientStep
  BY <1>2, LeaveSuspendedInv, StartThreadInv, OpenGateInv, OpenGateFailsInv DEF ClientStep
<1>3. ASSUME NEW h \in Handles, ThreadStep(h) PROVE IInv'
  BY <1>3, PassGateInv, RunThreadInv, SetDoneInv, OnTerminateInv, ReleaseInv DEF ThreadStep
<1>4. CASE UNCHANGED vars
  BY <1>4 DEF vars, IInv, TypeOK, TouchesLiveHandle, StateTellsPlace, GateKept, InsideAtGate, Mine
<1> QED BY <1>1, <1>2, <1>3, <1>4 DEF Next

\* The inductive invariant holds in every reachable state of the handles.
THEOREM Inductive == Spec => []IInv
<1> QED BY InitInv, NextInv, PTL DEF Spec

\* The variables of ThreadGate keep their types; no handle is deleted twice.
THEOREM TypeCorrect == Spec => []TypeOK
<1>1. IInv => TypeOK BY DEF IInv
<1> QED BY <1>1, Inductive, PTL

\* Neither the client nor a thread touches a handle the other has deleted.
THEOREM TouchCorrect == Spec => []TouchesLiveHandle
<1>1. IInv => TouchesLiveHandle BY DEF IInv
<1> QED BY <1>1, Inductive, PTL

\* m_state says where the thread is, and a suspended thread stays at the gate.
THEOREM StateCorrect == Spec => []StateTellsPlace
<1>1. IInv => StateTellsPlace BY DEF IInv
<1> QED BY <1>1, Inductive, PTL
=============================================================================
