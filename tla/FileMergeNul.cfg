SPECIFICATION MergeSpec
CONSTANTS
  Bytes <- MCBytes
  Inputs <- MCInputs
  Nul = "nul"
  ReadMax = 2
  DiskRoom = 5
INVARIANTS
  InputsInOutput
CHECK_DEADLOCK FALSE
