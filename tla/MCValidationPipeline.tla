------------------------ MODULE MCValidationPipeline ------------------------
(* Small instances of ValidationPipeline: every file in one project.        *)
EXTENDS ValidationPipeline, TLC

CONSTANTS p1, Edited   \* the file that is edited most

MCProjects == {p1}
MCProjectOf == [d \in Docs |-> p1]
MCMaxRevision == [d \in Docs |-> IF d = Edited THEN 2 ELSE 1]
ThreeRevisions == [d \in Docs |-> 3]
SharedOutcomes == {PASS, BUILD, INIT}
OwnFileOutcomes == {PASS, FAIL, JOB}
ImportOutcomes == {FAIL, BUILD}
CleanOutcomes == {PASS, FAIL}

Symmetry == Permutations(Tasks)
=============================================================================
