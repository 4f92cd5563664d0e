CONSTANTS
  Roles = {"server", "client"}
SPECIFICATION Spec
INVARIANTS
  TypeOK
  NothingOutlivesItsBase
  ReleasesOnlyLiveHandles
  LeftAtExit
  ReadyToRun
