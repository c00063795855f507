CONSTANTS
  r = r
  x = x
  y = y
  Named <- MCNamed
  Within <- MCWithin
  Configs <- MCConfigs
  Changes = {"config", "crash", "reboot", "hangup", "failure"}
  MaxChanges = 3
  None = None
  NotYAML = NotYAML
SPECIFICATION FairSpec
INVARIANTS
  StableIdentity
  ReportedIsBacked
PROPERTIES
  NamedDriveKept
  ConfigTakesEffect
CHECK_DEADLOCK FALSE
