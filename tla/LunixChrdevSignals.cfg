SPECIFICATION DeviceSpec
CONSTANTS
  Procs = {"p1", "p2"}
  Files = {"p1", "p2"}
  Sharings <- MCSharings
  Counts = {2}
  TextLen <- MCTextLen
  MaxUpdates = 2
  Signalled = {"p1"}
  QuietOpens = TRUE
INVARIANTS
  LockAlwaysExcludes
CHECK_DEADLOCK FALSE
