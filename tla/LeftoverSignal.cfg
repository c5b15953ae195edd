SPECIFICATION FairSpec
CONSTANTS
  MaxAttempts = 2
  MayStall <- MCNone
  MayFallSilent <- MCNone
PROPERTIES
  EndedSignalIsOwn
