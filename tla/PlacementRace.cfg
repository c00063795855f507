CONSTANTS
  MBYTE = 2
  Node <- MCNode
  Pod <- MCPod
  AC <- OneAC
  Claim <- OneClaim
  ACSpec <- OneACSpec
  ClaimSpec <- OneClaimSpec
  SequentialLVGReservation = FALSE
  Offer = {{"n1"}}
  MaxFaults = 0
SPECIFICATION Spec
INVARIANTS
  PlacementGuaranteed
CHECK_DEADLOCK FALSE
