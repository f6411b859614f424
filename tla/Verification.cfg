CONSTANTS
  Worker = {w1, w2}
  Requests = {"verify", "check", "remove", "deploy"}
  MaxTask = 6
  MaxRequests = 3
  MaxQueue = 2
  MaxFaults = 1
SPECIFICATION MCSpec
INVARIANTS TypeOK AskedIsRunning VerdictCountsDhcp OneVerificationInTurn
PROPERTIES RunningVerificationStays ImplementsTaskTable NetworkTaskEnds
CHECK_DEADLOCK FALSE
