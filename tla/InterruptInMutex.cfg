SPECIFICATION FairSpec
CONSTANTS
  MaxConnections = 1
  MaxClients = 1
  InterruptPoints <- MCHoldingMutex
  InterruptThreads <- MCMainThread
  Failures <- MCNoFailure
PROPERTIES
  HandlerReturns
CHECK_DEADLOCK FALSE
