CONSTANTS
  Node = {n1, n2}
  Worker = {w1, w2}
  Requests = {"apply", "stop", "reset", "delete", "assign", "unassign", "elsewhere",
              "provision_nodes", "deploy_nodes", "release", "update"}
  MaxRequests = 3
  MaxQueue = 1
  MaxFaults = 1
  MaxTask = 12
SPECIFICATION MCSpec
SYMMETRY Symmetry
INVARIANTS TypeOK SupertaskAgrees NoOrphanSubtask OneDeploymentInTurn ObsoleteGoneInTurn DeletedLeavesNothing
PROPERTIES ImplementsTaskTable DeletedIsFinal ReleaseAppliedWhole
CHECK_DEADLOCK FALSE
