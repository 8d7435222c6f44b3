----------------------------- MODULE AsyncExec ------------------------------
(***************************************************************************)
(* What curl_thread_exec promises a plugin: a request it accepts is        *)
(* answered by at most one callback, on the server's own thread and only   *)
(* while plugins are loaded; a request that is still open is given up only *)
(* after the plugins were told to unload.                                  *)
(***************************************************************************)
CONSTANTS Requests

VARIABLES
  loaded,   \* are the plugins running?
  request   \* how far each request is

vars == <<loaded, request>>

Init ==
  /\ loaded = FALSE
  /\ request = [r \in Requests |-> "fresh"]

Move(r, from, to) ==
  /\ request[r] = from
  /\ request' = [request EXCEPT ![r] = to]
  /\ UNCHANGED loaded

Submit(r) == loaded /\ Move(r, "fresh", "open")
Reject(r) == loaded /\ Move(r, "fresh", "rejected")
Answer(r) == loaded /\ Move(r, "open", "answered")
GiveUp(r) == ~loaded /\ Move(r, "open", "given_up")

\* Plugins are loaded only when no request of their predecessors is open.
Load ==
  /\ ~loaded /\ \A r \in Requests : request[r] # "open"
  /\ loaded' = TRUE /\ UNCHANGED request

Unload == loaded /\ loaded' = FALSE /\ UNCHANGED request

Next ==
  \/ Load \/ Unload
  \/ \E r \in Requests : Submit(r) \/ Reject(r) \/ Answer(r) \/ GiveUp(r)

Spec == Init /\ [][Next]_vars
=============================================================================
