CONSTANTS
  w1 = w1
  Node = {n1, n2}
  Worker = {w1, w2}
  MaxTask = 3
  MaxRequests = 3
  MaxQueue = 2
  MaxFaults = 1
SPECIFICATION MCSpec
INVARIANTS TypeOK RunningIsHandled ProvisioningIsHandled ProvisionedIsInstalled OneAtATimeInTurn
PROPERTIES InstallationEnds
CHECK_DEADLOCK FALSE
