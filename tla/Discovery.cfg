CONSTANTS
  Drive = {d1}
  FreeSpace = 1
  UnreadyTimeout = 1
  PermanentDownTimeout = 1
  StartupProtectionMultiplier = 2
  Overrides = {"GOOD"}
  MaxChanges = 2
SPECIFICATION FairSpec
INVARIANTS
  NotDeclaredDownEarly
  DeclaredDownInTime
  BadGroupOffersNothingNew
PROPERTIES
  CapacityConverges
CHECK_DEADLOCK FALSE
