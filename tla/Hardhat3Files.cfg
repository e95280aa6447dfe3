SPECIFICATION FairSpec3
CONSTANTS
  A = A
  B = B
  a = a
  b = b
  Config = Config
  SetupMayFail = TRUE
  Files = {A, B}
  Imports = {b}
  Target <- MCTarget
  Procs = {p1, p2}
  MaxChanges = 3
  Removable = {A, B}
CHECK_DEADLOCK FALSE
INVARIANTS TypeOK3
PROPERTIES CacheFollowsWalk WorkEnds
