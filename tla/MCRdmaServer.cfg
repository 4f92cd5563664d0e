CONSTANTS
  QueueSize = 3
  PollBatch = 2
  ByteRange = 4
  Payloads = {1, 3}
  MaxArrivals = 6
SPECIFICATION FairSpec
INVARIANTS
  TypeOK
  PrintedAsDelivered
  AllRequestsOutstanding
  NoQueueOverrun
PROPERTIES
  NoOverwriteBeforePrint
  EveryMessagePrinted
  ReceivesAgain
  SigintStops
