CONSTANTS
  CountRange = 3
  SockCap = 2
SPECIFICATION UdpSpec
INVARIANTS
  TypeOK
  AtMostOneAfterSigint
  OneLinePerDatagram
PROPERTIES
  ClientStops
  ServerStops
