CONSTANTS
  Node = {n1}
  Worker = {w1}
  Requests = {"apply", "stop", "elsewhere"}
  MaxRequests = 3
  MaxQueue = 1
  MaxFaults = 0
  MaxTask = 8
SPECIFICATION Spec
PROPERTIES RemovedByItsOwn
CHECK_DEADLOCK FALSE
