SPECIFICATION LunixSpec
CONSTANTS
  TTYs = {"tty1", "tty2"}
  SensorCnt = 2
  Packets <- MCPackets
  MaxPackets = 2
  QuietLine = TRUE
  Procs = {"p1", "p2"}
  Files = {"p1", "p2"}
  Sharings <- MCSharings
  Counts = {2}
  TextLen <- MCTextLen
  MaxUpdates = 2
  Signalled = {"p1"}
  QuietOpens = TRUE
INVARIANTS
  ProtocolTypeOK
  PacketPlace
  SingleTTY
  EveryReadingOnce
  DeviceTypeOK
  LockExcludes
  CacheOfOneMeasurement
  SleepersWoken
PROPERTIES
  ReadsInOrder
  WaitingEnds
CHECK_DEADLOCK FALSE
