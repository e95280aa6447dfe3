SPECIFICATION Spec
CONSTANTS
  A = A
  B = B
  a = a
  b = b
  Files <- MCFiles
  Target <- MCTarget
  Imports = {a, b}
  Procs = {p1, p2}
  MaxChanges = 4
SYMMETRY Symmetry
CHECK_DEADLOCK FALSE
INVARIANTS LinksAreMutual LinkedFilesStay RestResolvesImports RestHasNoGhosts
