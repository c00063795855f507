CONSTANTS
  MBYTE = 2
  Node <- MCNode
  Pod <- MCPod
  AC <- PairAC
  Claim <- PairClaim
  ACSpec <- PairACSpec
  ClaimSpec <- PairClaimSpec
  SequentialLVGReservation = TRUE
  Offer = {{"n2"}, {"n1", "n2"}}
  MaxFaults = 1
SPECIFICATION Spec
INVARIANTS
  TypeOK
  CapacityFoundOnReservedNodes
  ReservedExclusively
  OneLVGReservationAtATime
  OneVolumePerClaim
PROPERTIES
  RequestLeavesAfterVolume
CHECK_DEADLOCK FALSE
