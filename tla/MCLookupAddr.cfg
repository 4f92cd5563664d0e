CONSTANTS
  Interface = "eth4"
  Names = {"eth4", "lo"}
  Values = {1, 2}
  MaxEntries = 2
SPECIFICATION LookupSpec
INVARIANTS
  LocalIsLastListed
  RemoteIsNamedHost
