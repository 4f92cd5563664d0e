CONSTANTS
  FirstBytes <- MCFirstBytes
  NextBytes <- MCNextBytes
  MaxBytes = 3
  MaxCalls = 2
SPECIFICATION CrcSpec
INVARIANTS
  IsCrc32
