------------------------------ MODULE Queries ------------------------------
(***************************************************************************)
(* The features of the editor that are answered from the graph of trees:   *)
(* server/src/services/{references, definition, typeDefinition,            *)
(* implementation, rename, hover, signaturehelp}.                          *)
(*                                                                         *)
(* A request names a file u and a position p.  It is answered at once,     *)
(* from whatever the analyses have left in the graph; of these features    *)
(* only a rename changes it.                                               *)
(***************************************************************************)
EXTENDS Analyzer

Location(t, n) == [uri |-> t.nodes[n].uri, at |-> t.nodes[n].at]
Named(t, n) == t.nodes[n].at # <<>>

DefinitionAt(t, u, p) == findDefinitionNodeByPosition(t, u, p, Tree(t, u))

-----------------------------------------------------------------------------
(* References, definitions and implementations *)

RECURSIVE ReferencesBelow(_, _, _, _)
ReferencesBelow(t, name, n, r) ==
    LET here == [seen |-> r.seen \cup {n},
                 found |-> IF name \in {GetName(t, n), t.nodes[n].alias}
                           THEN Append(r.found, n) ELSE r.found]
    IN  IF n \in r.seen THEN r
        ELSE FoldLeft(LAMBDA q, child : ReferencesBelow(t, name, child, q),
                      here, t.nodes[n].children)

\* What hangs below a definition under its name, itself included.
findReferencesFor(t, definition) ==
    IF definition = None THEN <<>>
    ELSE IF GetName(t, definition) = NoName THEN <<>>
    ELSE ReferencesBelow(t, GetName(t, definition), definition,
                         [seen |-> {}, found |-> <<>>]).found

findReferences(t, u, p) ==
    SelectSeq(findReferencesFor(t, DefinitionAt(t, u, p)), LAMBDA n : Named(t, n))

findDefinition(t, u, p) ==
    LET n == DefinitionAt(t, u, p)
        node == t.nodes[n]
    IN  IF n = None THEN <<>>
        ELSE IF node.type = "ImportDirective" \/ ~Named(t, n)
        THEN <<[uri |-> node.uri, at |-> node.loc]>>
        ELSE <<Location(t, n)>>

findTypeDefinition(t, u, p) ==
    LET n == DefinitionAt(t, u, p)
    IN  IF n = None THEN <<>>
        ELSE SelectSeq(GetTypeNodes(t, n), LAMBDA type : Named(t, type))

findImplementation(t, u, p) ==
    LET Implements(n) ==
            /\ TypeOf(t, n) \in definitionNodeTypes
            /\ Is(t, n, "FunctionDefinition") => Kids(t.nodes[n].ast, "body") # <<>>
    IN  SelectSeq(findReferences(t, u, p), Implements)

-----------------------------------------------------------------------------
(* Hover and signature help *)

\* astToText has a text for the syntax of the node.
Described(t, n) ==
    LET a == t.nodes[n].ast
        types == Kids(a, "typeName")
    IN  \/ a.type \in {"FunctionDefinition", "CustomErrorDefinition",
                       "EventDefinition", "StructDefinition", "EnumDefinition",
                       "ContractDefinition"}
        \/ /\ a.type = "VariableDeclaration"
           /\ types # <<>>
           /\ types[1].type \in {"ElementaryTypeName", "UserDefinedTypeName",
                                 "ArrayTypeName", "Mapping"}

\* The node whose syntax a hover shows.
findHoverForNodeAtPosition(t, u, p) ==
    LET definition == DefinitionAt(t, u, p)
        n == findNodeByPosition(t, u, p, Tree(t, u), FALSE)
        types == t.nodes[n].types
    IN  IF definition # None /\ Described(t, definition) THEN definition
        ELSE IF TypeOf(t, n) \notin {"Identifier", "MemberAccess",
                                     "UserDefinedTypeName"} THEN None
        ELSE IF types = <<>> THEN None
        ELSE IF Described(t, types[1]) THEN types[1] ELSE None

\* The definition whose signature is read, at its place, out of its file's
\* text; p is where the name of what is called ends.
signatureHelp(t, u, p) ==
    LET definition == DefinitionAt(t, u, p)
        callee == IF Is(t, definition, "ContractDefinition")
                  THEN lookupConstructorFor(t, definition) ELSE definition
    IN  IF TypeOf(t, callee) \in {"FunctionDefinition", "EventDefinition",
                                  "ModifierDefinition", "CustomErrorDefinition"}
        THEN callee ELSE None

-----------------------------------------------------------------------------
(* Rename *)

\* Names of a constructor's contract stand for the contract.
resolveCanonicalNodeForRename(t, n) ==
    LET parent == Parent(t, n)
    IN  IF /\ TypeOf(t, n) \in {"ModifierInvocation", "UserDefinedTypeName"}
           /\ Is(t, parent, "FunctionDefinition")
           /\ t.nodes[parent].ast.kind = "constructor"
        THEN t.nodes[parent].parent
        ELSE GetDefinitionNode(t, n)

\* The nodes whose names are replaced.
RenameEdits(t, u, p) ==
    LET origin == findNodeByPosition(t, u, p, Tree(t, u), FALSE)
        canonical == resolveCanonicalNodeForRename(t, origin)
        Updated(n) == /\ t.nodes[n].alive
                      /\ Named(t, n)
                      /\ t.nodes[n].ast.kind # "constructor"
    IN  IF origin = None THEN <<>>
        ELSE SelectSeq(findReferencesFor(t, canonical), Updated)

\* The state after a rename: the edited nodes are marked until the client has
\* applied the edits and the files are analysed again.
Renamed(t, edits) ==
    FoldLeft(LAMBDA x, n : Put(x, n, "alive", FALSE), t, edits)
=============================================================================
