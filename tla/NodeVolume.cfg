SPECIFICATION FairSpec
CONSTANTS
  v1 = v1
  v2 = v2
  Volume = {v1, v2}
  Shared = v1
  Pod = {p1, p2}
  Modes <- EachMode
  FakeAllowed = TRUE
  Changes = {"plug", "reboot", "crash", "released", "delete", "table"}
  MaxChanges = 1
  MaxFaults = 1
  Apart = {"delete"}
  None = None
  Foreign = Foreign
INVARIANTS TypeOK PreparedBeforeUse WipedWhenRemoved WipedOnlyUnused
PROPERTIES PartitionKept PodGetsVolume
CHECK_DEADLOCK FALSE
