CONSTANTS
  Node = {n1}
  Worker = {w1}
  Requests = {"apply", "stop", "reset", "delete", "assign", "unassign",
              "provision_nodes", "deploy_nodes", "release", "update"}
  MaxRequests = 3
  MaxQueue = 1
  MaxFaults = 0
  MaxTask = 8
SPECIFICATION MCFairSpec
PROPERTIES EveryTaskEnds
CHECK_DEADLOCK FALSE
