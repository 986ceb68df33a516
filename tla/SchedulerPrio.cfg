SPECIFICATION Spec
CONSTANTS
  NProc = 2
  MaxTasks = 2
  Priorities = TRUE
  Ops = {"kill", "high", "low"}
  Mortal = {0, 1, 2}
  ForkMayFail = FALSE
INVARIANTS
  TypeOK
  HighCount
  CurrentNotParked
  WakeUpComing
PROPERTIES
  HighFirst
  NoFailureExit
  ImplementsRoundRobin
