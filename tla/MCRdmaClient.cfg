CONSTANTS
  QueueSize = 4
  PollBatch = 3
  ByteRange = 5
  MaxSent = 13
SPECIFICATION FairSpec
INVARIANTS
  IndInv
  StreamInOrder
  AllRequestsOutstanding
  NoQueueOverrun
PROPERTIES
  NoOverwriteInFlight
  ImplementsStream
  EveryMessageSent
  SigintStops
  FailureReported
