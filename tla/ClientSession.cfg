SPECIFICATION FairSpec
CONSTANTS
  MaxAttempts = 2
  MayStall <- MCFirst
  MayFallSilent <- MCSecond
INVARIANTS
  TypeOK
  OneOwner
  SignalFindsItsScreen
  HeartbeatEndsWithSilence
PROPERTIES
  HeldWhileConnecting
  AttemptIsResolved
  EndIsNoticed
  ClosedWindowEndsSession
