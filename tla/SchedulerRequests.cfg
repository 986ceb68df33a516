SPECIFICATION FairSpec
CONSTANTS
  NProc = 1
  MaxTasks = 1
  Priorities = TRUE
  Ops = {"print", "kill", "high"}
  Mortal = {0, 1}
  ForkMayFail = FALSE
PROPERTIES
  KillTakesEffect
  RequestAnswered
  LastDeathExits
