SPECIFICATION FairSpec
CONSTANTS
  Size <- MCSizes
  BufferUnits = 2
  RecordUnits = 3
  Faults <- MCAnyFault
INVARIANTS
  PayloadIsItsOwn
  DeliveredInOrder
  CloseLosesNothing
PROPERTIES
  EverythingArrives
CHECK_DEADLOCK FALSE
