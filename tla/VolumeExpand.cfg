CONSTANTS
  MBYTE = 1
  Volume = {v1}
  Size <- SmallSize
  VGSize = 12
  ExpandTo = {7}
  Faults = {"api", "controller", "device", "user"}
  MaxFaults = 3
SPECIFICATION FairSpec
INVARIANTS
  TypeOK
  NoOvercommit
  SizeIsReal
PROPERTIES
  DeletionFinishes
  DeletedGroupGoes
CHECK_DEADLOCK FALSE
