CONSTANTS
  n1 = n1
  n2 = n2
  ra = ra
  rb = rb
  t1 = t1
  Node = {n1, n2}
  Role = {ra, rb}
  NodesOf <- MCNodesOf
  Onest = ra
  All = All
  NoRole = NoRole
  Types = {2, 3, 5}
  Tab = {t1, t2}
  MaxPresses = 3
  MaxJob = 3
  MaxQueue = 1
  MaxFaults = 1
SPECIFICATION MCSpec
INVARIANTS TypeOK StatusIsTrueInTurn FirstStartInTurn QuietInTurn
PROPERTIES CastJobEnds
CHECK_DEADLOCK FALSE
