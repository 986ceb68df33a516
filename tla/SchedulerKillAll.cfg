SPECIFICATION Spec
CONSTANTS
  NProc = 1
  MaxTasks = 2
  Priorities = FALSE
  Ops = {"kill", "exec"}
  Mortal = {}
  ForkMayFail = TRUE
PROPERTIES
  KillHitsNamedTask
