SPECIFICATION FairSpec
CONSTANTS
  Size <- MCSizes
  BufferUnits = 2
  RecordUnits = 3
  Faults <- MCAnyFault
PROPERTIES
  NeverSpins
CHECK_DEADLOCK FALSE
