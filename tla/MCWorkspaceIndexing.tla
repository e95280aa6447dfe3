------------------------ MODULE MCWorkspaceIndexing -------------------------
(* /ws with its nested package /ws/pkg, and its neighbour /ws2; the package  *)
(* holds the Hardhat project `hardhat` and the file `token`, the folder the  *)
(* Foundry project `foundry`, which claims the file as well.                 *)
EXTENDS WorkspaceIndexing, TLC

CONSTANTS ws, pkg, ws2, hardhat, foundry, token, vault

MCStartsWith == {<<pkg, ws>>, <<ws2, ws>>} \cap (Folders \X Folders)
MCInside == {<<pkg, ws>>} \cap (Folders \X Folders)
MCPriority == hardhat :> 4 @@ foundry :> 2
MCFound ==
  [fs \in SUBSET Folders |->
    IF ws \in fs THEN <<hardhat, foundry>>
    ELSE IF pkg \in fs THEN <<hardhat>> ELSE <<>>]
MCFilesIn == [f \in Folders |-> IF f = ws2 THEN {vault} ELSE {token}]
MCClaimedBy == token :> {hardhat, foundry} @@ vault :> {}
Symmetry == Permutations(Calls)
=============================================================================
