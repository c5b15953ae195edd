SPECIFICATION FairSpec
CONSTANTS
  t1 = t1
  t2 = t2
  Threads <- MCThreads
  MaxTasks = 3
INVARIANTS
  TypeOK
  RunningIsCounted
PROPERTIES
  ImplementsTaskPool
  QueueIsServed
  DestructorReturns
