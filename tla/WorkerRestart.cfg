SPECIFICATION FairSpec
CONSTANTS
  MaxWorkers = 2
  MaxRequests = 1
  MaxInvalidations = 1
  SpawnMayFail = TRUE
CHECK_DEADLOCK FALSE
INVARIANTS TypeOK NoOrphans RestReadyIsRunning
PROPERTIES EveryRequestSettles InitializationEnds
