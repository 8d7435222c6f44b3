----------------------------- MODULE WorkQueue ------------------------------
(***************************************************************************)
(* What a client of the worker (thread/IThreader.h, IWorker) gets, without *)
(* threads, locks or events: tasks are accepted while the worker is open,  *)
(* run one at a time in the order they were accepted, in batches of a      *)
(* limited size, and once the worker is closed the rest is either depleted *)
(* or cancelled before it shuts.                                           *)
(*                                                                         *)
(* IThreader.h says of a cancelling Stop() "all remaining tasks will be    *)
(* cancelled".  That is more than RunFrame() gives: the batch in progress  *)
(* goes on to its limit.  Here no other batch is opened, and tasks are     *)
(* cancelled when that one is over.                                        *)
(***************************************************************************)
EXTENDS Naturals, Sequences

CONSTANTS Jobs, NoJob

VARIABLES
  mode,      \* where the worker is in its life
  backlog,   \* tasks accepted and not started
  active,    \* the task that runs
  batch,     \* tasks that the batch in progress may still begin
  outcome    \* how each task ended, or "none"

vars == <<mode, backlog, active, batch, outcome>>

Open     == {"running", "paused"}
Closing  == {"depleting", "cancelling"}

Init ==
  /\ mode = "shut" /\ backlog = <<>> /\ active = NoJob /\ batch = 0
  /\ outcome = [j \in Jobs |-> "none"]

SetMode(from, to) ==
  /\ mode \in from /\ mode' \in to
  /\ UNCHANGED <<backlog, active, batch, outcome>>

StartUp == SetMode({"shut"}, {"running"})
Hold    == SetMode({"running"}, {"paused"})
Resume  == SetMode({"paused"}, {"running"})
Close   == SetMode(Open, Closing)

\* Shutting needs everything to be over.
Shut == active = NoJob /\ batch = 0 /\ backlog = <<>> /\ SetMode(Closing, {"shut"})

\* A task that was never handed in before.
Fresh(j) ==
  outcome[j] = "none" /\ j # active /\ \A i \in DOMAIN backlog : backlog[i] # j

Accept(j) ==
  /\ mode = "running" /\ Fresh(j)
  /\ backlog' = Append(backlog, j)
  /\ UNCHANGED <<mode, active, batch, outcome>>

Refuse(j) ==
  /\ mode # "running" /\ Fresh(j)
  /\ outcome' = [outcome EXCEPT ![j] = "refused"]
  /\ UNCHANGED <<mode, backlog, active, batch>>

\* A batch begins or its limit is set anew, but for a worker that cancels.
OpenBatch ==
  /\ mode \notin {"shut", "cancelling"} /\ active = NoJob
  /\ batch' \in Nat
  /\ UNCHANGED <<mode, backlog, active, outcome>>

CloseBatch ==
  /\ active = NoJob
  /\ batch' = 0
  /\ UNCHANGED <<mode, backlog, active, outcome>>

Begin ==
  /\ batch > 0 /\ active = NoJob /\ backlog # <<>>
  /\ active' = Head(backlog)
  /\ backlog' = Tail(backlog)
  /\ batch' = batch - 1
  /\ UNCHANGED <<mode, outcome>>

Finish ==
  /\ active # NoJob
  /\ outcome' = [outcome EXCEPT ![active] = "done"]
  /\ active' = NoJob
  /\ UNCHANGED <<mode, backlog, batch>>

\* Only a worker closed for cancelling drops tasks, after its last batch.
Cancel ==
  /\ mode = "cancelling" /\ active = NoJob /\ batch = 0 /\ backlog # <<>>
  /\ outcome' = [outcome EXCEPT ![Head(backlog)] = "cancelled"]
  /\ backlog' = Tail(backlog)
  /\ UNCHANGED <<mode, active, batch>>

Next ==
  \/ StartUp \/ Hold \/ Resume \/ Close \/ Shut
  \/ \E j \in Jobs : Accept(j) \/ Refuse(j)
  \/ OpenBatch \/ CloseBatch \/ Begin \/ Finish \/ Cancel

Spec == Init /\ [][Next]_vars
=============================================================================
