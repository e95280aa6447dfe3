-------------------------- MODULE MCFoundryProject --------------------------
(* A imports B, B and the library L import each other, L by two names, and  *)
(* B imports O, which is outside of the project.                            *)
EXTENDS FoundryProject, TLC

CONSTANTS A, B, L, O, toB, byName, bySource, byOut, libPath, outPath, noFile,
          good, other, bad, p1, p2

Text(imports, accepts) == [imports |-> imports, accepts |-> accepts]

\* "./B.sol", "lib/L.sol" and a path outside, seen from each file: B is beside A and
\* above L.
MCCandidates ==
    [x \in Files \X (Names \cup {libPath, outPath}) |->
        CASE x[1] = O -> <<>>
          [] x[1] # O /\ x[2] = toB -> IF x[1] = L THEN <<noFile, B>> ELSE <<B>>
          [] x[1] # O /\ x[2] \in {bySource, libPath} -> <<L>>
          [] x[1] # O /\ x[2] = outPath -> <<O, O>>
          [] OTHER -> <<>>]

\* The names a configuration remaps: in the first @lib/ is the library.
MCRemappings ==
    [c \in Configs |-> IF c = good
                       THEN <<[n \in {byName} |-> toB], [n \in {byName} |-> libPath],
                              [n \in {byOut} |-> outPath]>>
                       ELSE <<>>]
MCSolc == [c \in Configs |-> IF c = other THEN 2 ELSE None]

BTexts == {Text(<<byName, bySource>>, {1, 2}), Text(<<bySource, byOut>>, {2, 3})}
MCDiskTexts ==
    {[f \in Files |-> CASE f = A -> Text(<<toB>>, {1, 2, 3})
                        [] f = B -> b
                        [] f = L -> l
                        [] f = O -> Text(<<toB>>, {1, 2, 3})] :
        b \in BTexts, l \in {Text(<<>>, {1, 3}), Text(<<bySource, toB>>, {3})}}
MCSymmetry == Permutations(Calls)
MCTyped == {Text(<<bySource, byOut>>, {2, 3}), Text(<<toB, byName>>, {2, 3})}
=============================================================================
