SPECIFICATION FairSpec
CONSTANTS
  Docs = {d1}
  p1 = p1
  Edited = d1
  Projects <- MCProjects
  ProjectOf <- MCProjectOf
  Volatile = {d1}
  Tasks = {t1, t2, t3}
  Outcomes <- OwnFileOutcomes
  MaxRevision <- ThreeRevisions
CHECK_DEADLOCK FALSE
INVARIANTS RestShowsLatestVerdict RestShowsLatestStatus
PROPERTIES LastTextIsJudged
