CONSTANTS
  t1 = t1
  t2 = t2
  t3 = t3
  Threads <- MCThreads
  BlockCount = 2
  BitmapBlocks = 7
  WordBits = 3
  Kinds = {"stream", "message"}
  Capacity = 4
  Trigger = 3
  HeaderBytes = 1
  LengthMax = 3
  Lengths = {1, 3}
  ByteValues = 5
SPECIFICATION MCSpec
INVARIANTS
  SemSaysSlotFree
  ExclusiveOwnership
  BytesDeliveredInOrder
  NoSenderOrReceiverForgotten
PROPERTIES
  BitmapIsASet
  SatisfiedCallsReturn
CHECK_DEADLOCK FALSE
