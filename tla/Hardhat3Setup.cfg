SPECIFICATION Spec3
CONSTANTS
  A = A
  B = B
  a = a
  b = b
  Config = Config
  SetupMayFail = FALSE
  Files = {A, B}
  Imports = {b}
  Target <- MCTarget
  Procs = {p1, p2}
  MaxChanges = 5
  Removable = {}
CHECK_DEADLOCK FALSE
INVARIANTS QuietKnowsWalked QuietErrorIsReal
