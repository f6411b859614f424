CONSTANTS
  NTask = 3
  NNode = 1
  Consumer = c
  Thread = {c, w1}
  Kinds = {"delete", "provision_progress"}
SPECIFICATION Spec
INVARIANTS DeadlockIsForeseen
CHECK_DEADLOCK FALSE
