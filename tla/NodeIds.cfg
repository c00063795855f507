SPECIFICATION FairSpec
CONSTANTS
  Node = {k1, k2}
  Ip = {a, b}
  Id = {i1, i2, i3}
  None = None
  MaxChanges = 3
INVARIANTS OneCSIBMNodePerNode IdsAgree
PROPERTIES NodeGetsItsId DeletedCSIBMNodeGoes
CHECK_DEADLOCK FALSE
