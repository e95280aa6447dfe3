SPECIFICATION Spec
CONSTANTS
  Docs = {d1, d2}
  p1 = p1
  Edited = d1
  Projects <- MCProjects
  ProjectOf <- MCProjectOf
  Volatile = {}
  Tasks = {t1}
  Outcomes <- CleanOutcomes
  MaxRevision <- MCMaxRevision
CHECK_DEADLOCK FALSE
INVARIANTS PassClearsPrevious
