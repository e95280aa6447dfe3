----------------------------- MODULE MCBuildCache -----------------------------
(* A may import B, and B may import C; the uri of A ends with the source     *)
(* name of C.                                                                *)
EXTENDS BuildCache

CONSTANTS A, B, C

MCEndsWith == {<<d, d>> : d \in Docs} \cup ({<<A, C>>} \cap (Docs \X Docs))
MCMayImport ==
  [d \in Docs |-> Docs \cap (IF d = A THEN {B} ELSE IF d = B THEN {C} ELSE {})]
=============================================================================
