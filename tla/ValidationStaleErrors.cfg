SPECIFICATION Spec
CONSTANTS
  Docs = {d1}
  p1 = p1
  Edited = d1
  Projects <- MCProjects
  ProjectOf <- MCProjectOf
  Volatile = {d1}
  Tasks = {t1, t2}
  Outcomes <- ImportOutcomes
  MaxRevision <- MCMaxRevision
CHECK_DEADLOCK FALSE
INVARIANTS RestShowsNoStaleErrors
