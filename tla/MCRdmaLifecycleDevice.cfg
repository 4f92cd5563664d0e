CONSTANTS
  Roles = {"server", "client"}
SPECIFICATION Spec
INVARIANTS
  DeviceValidWhenNamed
