CONSTANTS
  WordRange = 65536
  IntMax = 11
  Addrs <- MCAddrs
  Ports <- MCPorts
  MaxSent = 26
SPECIFICATION Spec
INVARIANTS
  HeadersVerify
PROPERTIES
  ImplementsStream
