SPECIFICATION FairSpec
CONSTANTS
  MaxConnections = 2
  MaxClients = 1
  InterruptPoints <- MCAnywhere
  InterruptThreads <- MCAnyThread
  Failures <- MCAllFail
INVARIANTS
  TypeOK
  StartupOrder
  StopIsNotLost
  CleanExit
PROPERTIES
  InterruptStops
CHECK_DEADLOCK FALSE
