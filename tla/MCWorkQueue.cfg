CONSTANTS
  t1 = t1
  t2 = t2
  NoThread = NoThread
  Threads <- MCThreads
  MaxWaiters = 1
  Depth = 2
  MaxSubmits = 3
  JoinKind = "waits"
SPECIFICATION FairSpec
INVARIANTS
  TokenSurplus
  EveryItemOnce
  DestroyDrains
PROPERTY CallsReturn
CHECK_DEADLOCK FALSE
