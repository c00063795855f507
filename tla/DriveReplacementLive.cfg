CONSTANTS
  Volume = {v1, v2}
  OnLVG = TRUE
  FakeAttach = {}
  Answers = {"done"}
  Requests = {"removal"}
  EarlyDelete = FALSE
  MaxRequests = 1
  MaxChanges = 1
  Faults = {}
  MaxFaults = 0
SPECIFICATION FairSpec
PROPERTIES
  BadDriveIsRemoved
CHECK_DEADLOCK FALSE
