SPECIFICATION Spec
CONSTANTS
  NProc = 2
  MaxTasks = 2
  Priorities = TRUE
  Ops = {"kill", "high"}
  Mortal = {}
  ForkMayFail = FALSE
INVARIANTS
  CurrentIsListed
