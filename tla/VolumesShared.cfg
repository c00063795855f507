CONSTANTS
  MBYTE = 1
  Volume = {v1, v2, v3}
  Size <- ExtentSize
  VGSize = 8
  ExpandTo = {}
  Faults = {"api", "controller", "node", "device", "user"}
  MaxFaults = 2
SYMMETRY Symmetry
SPECIFICATION Spec
INVARIANTS
  UsableIsBacked
  GroupRemovedUnused
PROPERTIES
  RemovedOnlyWhenRemoving
CHECK_DEADLOCK FALSE
