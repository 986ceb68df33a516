SPECIFICATION FairSpec
CONSTANTS
  NProc = 2
  MaxTasks = 2
  Priorities = TRUE
  Ops = {"high", "low"}
  Mortal = {1}
  ForkMayFail = FALSE
INVARIANTS
  AtMostOneRuns
PROPERTIES
  EveryTaskRuns
  HighTaskRuns
