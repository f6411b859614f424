SPECIFICATION MCSpec
CONSTANTS
  m1 = m1
  m2 = m2
  p1 = p1
  p2 = p2
  a = a
  Machine = {m1, m2}
  Known = {m1, m2}
  Lease = {a, b}
  Phys <- MCPhys
  Worker = {w1, w2}
  Timeout = 0
  MaxRow = 4
  MaxEvents = 3
  NoRow = NoRow
  NoReport = NoReport
  NoMachine = NoMachine
  NoAddress = NoAddress
INVARIANTS TypeOK SteadyIsOnline IdentityIsOwn ConflictGoneInTurn
CHECK_DEADLOCK FALSE
PROPERTIES MachineIsFound SilentGoesOffline
