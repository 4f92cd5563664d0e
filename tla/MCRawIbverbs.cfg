CONSTANTS
  MsgSize = 8940
  IntMax = 1
  Addrs <- MCAddrs
  QueuePairs <- MCQueuePairs
  MaxSent = 3
SPECIFICATION Spec
INVARIANTS
  FramesVerify
  ReachesQueuePair
PROPERTIES
  ImplementsStream
