CONSTANTS
  LineSize = 32
  MsgSize = 8940
  HeaderSize = 74
  Platforms = {"intel", "other"}
  Contents = {0, 1}
SPECIFICATION Spec
INVARIANTS
  WellFramed
  LinesInsideData
  CoversFrameIfCopied
PROPERTIES
  HostEnds
