CONSTANTS
  ClientQueue = 2
  ServerQueue = 2
  PollBatch = 2
  ByteRange = 4
  MaxSent = 3
  MaxArrivals = 3
SPECIFICATION Spec
INVARIANTS
  LinesInOrder
