CONSTANTS
  Volume = {v1}
  OnLVG = FALSE
  FakeAttach = {v1}
  Answers = {"done", "failed"}
  Requests = {"removal", "add", "remove"}
  EarlyDelete = TRUE
  MaxRequests = 1
  MaxChanges = 1
  Faults = {"api", "device"}
  MaxFaults = 1
SPECIFICATION Spec
INVARIANTS
  TypeOK
PROPERTIES
  ImplementsLifecycle
  RemovedWithConsent
CHECK_DEADLOCK FALSE
