SPECIFICATION Spec
CONSTANTS
  A = A
  B = B
  C = C
  EndsWith <- MCEndsWith
  MayImport <- MCMayImport
  Docs = {A, B, C}
  MayBeEmpty = {B}
  Opened = {A, B}
  MaxTexts = 1
  MaxRequests = 2
CHECK_DEADLOCK FALSE
INVARIANTS TypeOK AskedTextsReach
PROPERTIES UndisturbedIsClosed
