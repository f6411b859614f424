CONSTANTS
  Node = {n1, n2}
  Worker = {w1}
  Requests = {"apply", "reset", "unassign"}
  MaxRequests = 3
  MaxQueue = 1
  MaxFaults = 0
  MaxTask = 12
SPECIFICATION Spec
PROPERTIES ResetOnlyAtRest
CHECK_DEADLOCK FALSE
