SPECIFICATION ProtocolSpec
CONSTANTS
  TTYs = {"tty1"}
  SensorCnt = 2
  Packets <- MCPackets
  MaxPackets = 2
  QuietLine = FALSE
PROPERTIES
  PacketsAreFramed
