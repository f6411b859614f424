------------------------------ MODULE TaskTable -------------------------------
(***************************************************************************)
(* What the tasks table promises to those who poll it (the UI, the CLI):   *)
(* identifiers are handed out in order and never again, a task starts      *)
(* running (or fails in the transaction that creates it), ends in ready or *)
(* error, may still change its verdict, but never runs again, and once its *)
(* row is gone it stays gone. One step stands for one committed            *)
(* transaction, which may end or remove any number of tasks.               *)
(***************************************************************************)
EXTENDS Integers

CONSTANT MaxTask   \* bound: the number of task rows a behaviour may create

VARIABLES
  status,   \* per identifier: the status of its row, or "none"
  seq       \* the last identifier given out

tableVars == <<status, seq>>

Ended == {"ready", "error"}

Init == status = [t \in 1 .. MaxTask |-> "none"] /\ seq = 0

\* What one transaction may do to the row of an existing identifier.
Evolves(t) ==
  \/ status'[t] = status[t]
  \/ status'[t] = "none"
  \/ status[t] # "none" /\ status'[t] \in Ended

Update == seq' = seq /\ \A t \in 1 .. MaxTask : Evolves(t)

Create ==
  /\ seq' = seq + 1
  /\ \A t \in 1 .. MaxTask :
       IF t = seq' THEN status'[t] \in {"running", "error"} ELSE Evolves(t)

Spec == Init /\ [][Update \/ Create]_tableVars

===============================================================================
