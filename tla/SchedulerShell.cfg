SPECIFICATION Spec
CONSTANTS
  NProc = 1
  MaxTasks = 2
  Priorities = FALSE
  Ops = {"print", "kill", "exec", "high"}
  Mortal = {0, 1, 2}
  ForkMayFail = TRUE
INVARIANTS
  ListIsChildren
  ExitMeansAllDead
PROPERTIES
  ImplementsRoundRobin
