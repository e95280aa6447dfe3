------------------------- MODULE MCDependencyGraph --------------------------
(* Two files that may import each other.                                    *)
EXTENDS DependencyGraph, TLC

CONSTANTS A, B, a, b

MCFiles == {A, B}
MCTarget == [i \in Imports |-> IF i = a THEN A ELSE B]
Symmetry == Permutations(Procs)
=============================================================================
