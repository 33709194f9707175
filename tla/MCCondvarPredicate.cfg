CONSTANTS
  t1 = t1
  t2 = t2
  t3 = t3
  NoThread = NoThread
  Threads <- MCThreads
  Parts = {"predicate", "barrier", "notes", "flags"}
  MaxWaiters = 3
  MaxData = 3
  Threshold = 3
  GenMod = 2
  MaxRounds = 3
  NoteSlots = {1, 2}
  FlagBits = {1, 2}
  Registrations <- MCRegistrations
  MaxEntries = 2
  MaxReady = 2
  Watcher = t1
  NoEntry = NoEntry
SPECIFICATION MCSpec
INVARIANTS
  NoEventIsLost
  RendezvousIsExact
PROPERTY WaitersAreReleased
CHECK_DEADLOCK FALSE
