CONSTANTS
  t1 = t1
  t2 = t2
  t3 = t3
  NoThread = NoThread
  Threads <- MCThreads
  MaxWaiters = 2
SPECIFICATION MCSpec
INVARIANTS
  SlotsAndWakeupsAreExact
  ExclusionWithReason
PROPERTIES
  CallersImplementCondvar
  WaitersAreServed
