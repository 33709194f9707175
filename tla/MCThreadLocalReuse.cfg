CONSTANTS
  Parts = {"thread_local"}
  ObjHandles = {o1, o2, o3}
  NSlots = 2
  Shapes = {"a", "b"}
  Addresses = {a1, a2, a3}
  EarlyReuse = FALSE
  NoAddress = NoAddress
  Threads = {t1, t2, t3}
  ThrHandles = {o1, o2}
  ThrSlots = {s1, s2}
  NoThread = NoThread
  TlsBuilds = {"portable"}
  TlsThreads = {t1, t2}
  TlsSlots = {1, 2}
  MaxKeys = 3
  MaxLives = 2
  SigKinds = {"generic", "zero_copy"}
  Readers = {t1, t2}
  SlotCount = 2
  PerSub = 1
  PoolSize = 2
  StampMod = 3
  MaxSent = 3
  RtTasks = {t1, t2}
  Topics = {o1, o2}
  MaxTopics = 2
  IdMod = 3
  Observers = {w1}
  MaxObservers = 1
  NoTopic = NoTopic
SPECIFICATION MCSpec
INVARIANT TlsKeepsValue
CHECK_DEADLOCK FALSE
