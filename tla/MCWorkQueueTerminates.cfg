CONSTANTS
  t1 = t1
  t2 = t2
  NoThread = NoThread
  Threads <- MCThreads
  MaxWaiters = 2
  Depth = 2
  MaxSubmits = 3
  JoinKind = "terminates"
SPECIFICATION Spec
INVARIANT DestroyDrains
CHECK_DEADLOCK FALSE
