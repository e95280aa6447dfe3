------------------------- MODULE MCHardhat3Project --------------------------
(* File A imports file B through b, or imports nothing.                     *)
EXTENDS Hardhat3Project, TLC

CONSTANTS A, B, a, b

MCTarget == [i \in Imports |-> IF i = a THEN A ELSE B]
Symmetry == Permutations(Procs)
=============================================================================
