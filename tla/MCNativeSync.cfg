CONSTANTS
  t1 = t1
  t2 = t2
  a = a
  b = b
  SemTasks <- TwoTasks
  Maximum = 2
  Attempts = 2
  MtxTasks <- TwoTasks
  MaxDepth = 2
  NoTask = NoTask
  QueTasks <- TwoTasks
  Items <- TwoItems
  Capacity = 2
  NoItem = NoItem
  PeekMayWait = FALSE
  EvtTasks <- TwoTasks
  EvtBits = {1, 2}
  EvtRequests <- MCRequests
SPECIFICATION MCSpec
INVARIANTS
  SemBounded
  MtxToldTheTruth
  NoSetSwallowed
  QueWellFormed
PROPERTIES
  ImplementsQueue
  NobodyWaitsInVain
CHECK_DEADLOCK FALSE
