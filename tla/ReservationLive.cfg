CONSTANTS
  MBYTE = 2
  Node <- MCNode
  Pod <- MCPod
  AC <- OneAC
  Claim <- OneClaim
  ACSpec <- OneACSpec
  ClaimSpec <- LvgClaimSpec
  SequentialLVGReservation = TRUE
  Offer = {{"n1"}, {"n2"}}
  MaxFaults = 1
SPECIFICATION FairSpec
PROPERTIES
  RequestedIsSettled
CHECK_DEADLOCK FALSE
