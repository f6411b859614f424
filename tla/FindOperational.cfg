CONSTANTS
  Node = {n1}
  Worker = {w1}
  Requests = {"apply", "unassign"}
  MaxRequests = 2
  MaxQueue = 1
  MaxFaults = 0
  MaxTask = 6
SPECIFICATION Spec
INVARIANTS ReadyIsOperational
CHECK_DEADLOCK FALSE
