CONSTANTS
  t1 = t1
  t2 = t2
  c1 = c1
  NoThread = NoThread
  Threads <- MCThreads
  Callbacks <- MCCallbacks
  Delays = {0, 1}
  MaxTime = 2
  MaxArms = 2
SPECIFICATION FairSpec
PROPERTIES
  NeverEarly
  CancelledStaysCancelled
  FlushReportsFailure
  PendingEnds
CHECK_DEADLOCK FALSE
