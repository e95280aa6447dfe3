SPECIFICATION Spec
CONSTANTS
  MaxWorkers = 2
  MaxRequests = 2
  MaxInvalidations = 0
  SpawnMayFail = FALSE
CHECK_DEADLOCK FALSE
INVARIANTS NoCrossTalk
