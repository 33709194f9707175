CONSTANTS
  t1 = t1
  t2 = t2
  i1 = i1
  x = x
  y = y
  NoThread = NoThread
  Threads <- MCThreads
  Isrs <- MCIsrs
  Bits <- MCBits
  Requests <- MCRequests
  MaxWaiters = 2
SPECIFICATION FairSpec
INVARIANT FlagsReachWaiters
PROPERTY SatisfiedReturns
