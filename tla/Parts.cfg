SPECIFICATION PartsSpec
CONSTANTS
  Clients = {"c1", "c2"}
  Says <- MCSays
  SndBuf = 1
  RcvBuf = 2
  Bytes <- MCBytes
  Inputs <- MCInputs
  Nul = "nul"
  ReadMax = 2
  DiskRoom = 5
  SensorCnt = 2
  Procs = {"p1", "p2"}
  Majors = 1
  MaxPages = 7
  Openers = {"o1", "o2"}
  MaxMinors = 1
  MaxSema = 2
  Num = 2
  Span = 8
INVARIANTS
  PartsTypeOK
  ShownAsSaid
  SomeoneCanWrite
  OutputAsRead
  GapsOnly
  PagesThere
  UndoneGivesBack
  KickComing
PROPERTIES
  SaidIsShown
  LeaverIsNoticed
  MergeEnds
  OopsHasCause
  OpenReturns
  ImplementsQueue
CHECK_DEADLOCK FALSE
