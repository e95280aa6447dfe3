SPECIFICATION FairSpec
CONSTANTS
  MaxWorkers = 2
  MaxRequests = 0
  MaxInvalidations = 0
  SpawnMayFail = FALSE
CHECK_DEADLOCK FALSE
INVARIANTS ClaimsAllOnlyWithoutRuntime
PROPERTIES InitializeReturns
