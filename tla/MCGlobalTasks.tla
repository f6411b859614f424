---------------------------- MODULE MCGlobalTasks -----------------------------
(***************************************************************************)
(* Instances of GlobalTasks for TLC: one worker that serves all requests   *)
(* without faults, and several that serve one request less, with them.     *)
(***************************************************************************)
EXTENDS GlobalTasks

CONSTANTS w1

\* The machines start alike: all new, or all with a system.
MCInit ==
  /\ \/ InitOf({w1}, MaxRequests, 0)
     \/ InitOf(Worker, MaxRequests - 1, MaxFaults)
  /\ \A m, n \in Node : node[m] = node[n]

MCSpec == MCInit /\ [][Next]_vars /\ Fairness

Alone == \E w \in Worker : \A v \in Worker \ {w} : req[v].pc = "off"

\* check_running_task and the creation of the row are two transactions: what it
\* promises it keeps for requests that come one after the other.
OneAtATimeInTurn == Alone => OneAtATime

==============================================================================
