CONSTANTS
  Worker = {w1, w2}
  Requests = {"verify", "deploy"}
  MaxTask = 4
  MaxRequests = 2
  MaxQueue = 1
  MaxFaults = 0
SPECIFICATION Spec
PROPERTIES RunningTaskStays
CHECK_DEADLOCK FALSE
