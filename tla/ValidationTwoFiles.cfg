SPECIFICATION Spec
CONSTANTS
  Docs = {d1, d2}
  p1 = p1
  Edited = d1
  Projects <- MCProjects
  ProjectOf <- MCProjectOf
  Volatile = {d1}
  Tasks = {t1, t2}
  Outcomes <- SharedOutcomes
  MaxRevision <- MCMaxRevision
SYMMETRY Symmetry
CHECK_DEADLOCK FALSE
INVARIANTS TypeOK NumbersFollowTexts AnnouncedOnce
PROPERTIES VerdictsNeverGoBack
