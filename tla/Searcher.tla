------------------------------ MODULE Searcher ------------------------------
(***************************************************************************)
(* server/src/parser/analyzer/searcher: how uses find the definition they  *)
(* belong to, how definitions find their uses, and how the editor features *)
(* find a node by a position.  The searches walk the graph of all trees    *)
(* (children, bases, imports, then the parent) and carry the nodes and the *)
(* files they have visited, which is what ends them on a cyclic graph.     *)
(***************************************************************************)
EXTENDS SolNodes

RECURSIVE GetTypeNodes(_, _)
GetTypeNodes(s, n) ==
    IF TypeOf(s, n) \in OwnTypes THEN s.nodes[n].types
    ELSE FlattenSeq([i \in DOMAIN s.nodes[n].types |->
                        GetTypeNodes(s, s.nodes[n].types[i])])

RECURSIVE GetDefinitionNode(_, _)
GetDefinitionNode(s, n) ==
    CASE n = None -> None
      [] TypeOf(s, n) \in OwnDefinition -> n
      [] TypeOf(s, n) \in NoDefinition -> None
      [] OTHER -> GetDefinitionNode(s, s.nodes[n].parent)

\* The nearest node of one type above a node, itself included.
RECURSIVE Enclosing(_, _, _)
Enclosing(s, n, type) ==
    IF n = None \/ TypeOf(s, n) = type THEN n
    ELSE Enclosing(s, s.nodes[n].parent, type)

findSourceUnitNode(s, n) == Enclosing(s, n, "SourceUnit")

checkIfPositionInNodeContractDefinition(s, u, p, n) ==
    LET contract == Enclosing(s, n, "ContractDefinition")
    IN  /\ contract # None
        /\ s.nodes[contract].uri = u
        /\ isPositionShadowedByNode(s, p, contract)

-----------------------------------------------------------------------------

Tree(s, u) == s.entries[u].tree

\* solFileIndex[importPath]?.analyzerTree.tree of an import directive.
ImportedTree(s, n) ==
    LET u == s.nodes[n].uri
    IN  IF u \in DOMAIN s.entries THEN Tree(s, u) ELSE None

AddExportNode(s, root, n) ==
    Put(s, root, "exports", Append(s.nodes[root].exports, n))

AddImportNode(s, root, n) ==
    Put(s, root, "imports", Append(s.nodes[root].imports, n))

ExportUse(s, root, use) == IF root = None THEN s ELSE AddExportNode(s, root, use)
ImportUse(s, root, use) == IF root = None THEN s ELSE AddImportNode(s, root, use)

\* A use that crosses files is listed at two roots: the definition's and that of
\* the file of the node that is given its definition.
RegisterUse(s, node, use, definition) ==
    IF s.nodes[definition].uri = s.nodes[use].uri THEN s
    ELSE ImportUse(ExportUse(s, findSourceUnitNode(s, definition), use),
                   findSourceUnitNode(s, Tree(s, s.nodes[node].uri)), use)

-----------------------------------------------------------------------------
(* Searching for a node that a use can be connected to *)

\* What is found, unless the search has found something before.
Try(s, r, node, n) ==
    IF r.found # None \/ ~isNodeConnectable(s, n, node) THEN r
    ELSE [r EXCEPT !.found = n]

\* Search file by file through the imports.
RECURSIVE SearchInImportNodes(_, _, _, _)

SearchInTree(s, node, from, tree, r) ==
    LET Child(q, child) ==
            IF q.found # None THEN q
            ELSE Try(s, SearchInImportNodes(s, node, child, q.files), node, child)
        Named(alias) ==
            /\ s.nodes[alias].alive /\ s.nodes[node].alive
            /\ GetName(s, alias) # NoName
            /\ GetName(s, alias) = GetName(s, node)
    IN  IF s.nodes[from].aliases = <<>> THEN FoldLeft(Child, r, s.nodes[tree].children)
        ELSE [r EXCEPT !.found = First(SelectSeq(s.nodes[from].aliases, Named))]

SearchInImportNodes(s, node, from, files) ==
    LET tree == ImportedTree(s, from)
    IN  IF ~Is(s, from, "ImportDirective") \/ tree = None \/ s.nodes[tree].uri \in files
        THEN [found |-> None, files |-> files]
        ELSE SearchInTree(s, node, from, tree,
                          [found |-> None, files |-> files \cup {s.nodes[tree].uri}])

\* Search from a node: itself, its children, its bases, its import and then
\* its parent.  A search is a record [found, seen].
RECURSIVE Search(_, _, _, _)

SearchChildren(s, node, from, r) ==
    FoldLeft(LAMBDA q, child :
                IF \/ Is(s, from, "AssemblyFor")
                   \/ Is(s, child, "ImportDirective")
                   \/ isNodeShadowedByNode(s, node, child)
                THEN Search(s, node, child, q) ELSE Try(s, q, node, child),
             r, s.nodes[from].children)

SearchBases(s, node, from, r) ==
    IF ~Is(s, from, "ContractDefinition") THEN r
    ELSE FoldLeft(LAMBDA q, base : Search(s, node, base, Try(s, q, node, base)),
                  r, Reverse(s.nodes[from].bases))

SearchImport(s, node, from, r) ==
    IF r.found # None THEN r
    ELSE [r EXCEPT !.found = SearchInImportNodes(s, node, from, {}).found]

Search(s, node, from, r) ==
    LET here == [r EXCEPT !.seen = @ \cup {from}]
        below == SearchChildren(s, node, from, Try(s, here, node, from))
    IN  IF r.found # None \/ from = None \/ from \in r.seen THEN r
        ELSE Search(s, node, s.nodes[from].parent,
                    SearchImport(s, node, from, SearchBases(s, node, from, below)))

\* A use and the definition it belongs to, none or registered when it is in
\* another file: the changed state and the definition.
Register(s, use, definition) ==
    [s |-> IF definition = None THEN s ELSE RegisterUse(s, use, use, definition),
     parent |-> definition]

\* What was found for a use gives it its alias and its definition.
RegisterFound(s, use, n) ==
    IF n = None THEN Register(s, use, None)
    ELSE Register(Put(s, use, "alias", s.nodes[n].alias), use, GetDefinitionNode(s, n))

\* The definition of a use.  The searcher is that of the use's file.
findParent(s, use, from) ==
    LET start == IF from = None THEN Tree(s, s.nodes[use].uri) ELSE from
    IN  RegisterFound(s, use, Search(s, use, start, [found |-> None, seen |-> {}]).found)

-----------------------------------------------------------------------------
(* Members of types *)

\* The first child of the types that a node can be connected to.
Member(s, types, node) ==
    LET members == FlattenSeq([i \in DOMAIN types |-> s.nodes[types[i]].children])
    IN  First(SelectSeq(members, LAMBDA m : isNodeConnectable(s, m, node)))

-----------------------------------------------------------------------------
(* Finding nodes by position *)

RECURSIVE SearchInExpressionNode(_, _, _, _)
SearchInExpressionNode(s, u, p, expr) ==
    IF expr = None THEN None
    ELSE IF /\ isNodePosition(s, expr, p)
            /\ u \in {s.nodes[expr].uri, s.nodes[expr].realUri}
    THEN expr
    ELSE SearchInExpressionNode(s, u, p, s.nodes[expr].expr)

\* The node that is named at position p of file u, searched from a node
\* outwards: [found, seen, files].
RECURSIVE Walk(_, _, _, _, _, _)
Walk(s, u, p, from, inExpression, r) ==
    LET Step(q, n) == IF q.found # None THEN q
                      ELSE Walk(s, u, p, n, inExpression, q)
        children == IF Is(s, from, "SourceUnit")
                    THEN Reverse(s.nodes[from].children) ELSE s.nodes[from].children
        Enter(q, tree) ==
            IF tree = None \/ s.nodes[tree].uri \in q.files THEN q
            ELSE IF s.nodes[from].aliases # <<>>
            THEN FoldLeft(Step, q, s.nodes[from].aliases)
            ELSE Step([q EXCEPT !.files = @ \cup {s.nodes[tree].uri}], tree)
        Imported(q) == IF q.found = None /\ Is(s, from, "ImportDirective")
                       THEN Enter(q, ImportedTree(s, from)) ELSE q
        expr == IF inExpression
                THEN SearchInExpressionNode(s, u, p, s.nodes[from].expr) ELSE None
        Outwards(q, access) ==
            IF q.found = None /\ Is(s, access, "MemberAccess")
            THEN [q EXCEPT !.found = s.nodes[access].prev]
            ELSE Step(q, s.nodes[from].parent)
        here == [r EXCEPT !.seen = @ \cup {from}]
    IN  IF from = None \/ from \in r.seen THEN r
        ELSE IF /\ isNodePosition(s, from, p) /\ s.nodes[from].alive
                /\ u \in {s.nodes[from].uri, s.nodes[from].realUri}
        THEN [here EXCEPT !.found = from]
        ELSE Outwards(Imported(FoldLeft(Step, here, children)), expr)

findNodeByPosition(s, u, p, from, inExpression) ==
    Walk(s, u, p, from, inExpression,
         [found |-> None, seen |-> {}, files |-> {}]).found

findDefinitionNodeByPosition(s, u, p, from) ==
    GetDefinitionNode(s, findNodeByPosition(s, u, p, from, FALSE))

-----------------------------------------------------------------------------
(* Definitions visible at a position *)

getNodeVisibility(s, n) ==
    IF TypeOf(s, n) \notin {"FunctionDefinition", "VariableDeclaration"} THEN ""
    ELSE IF s.nodes[n].ast.kind = "constructor" THEN "default"
    ELSE s.nodes[n].ast.kind

\* Mutant: a contract does not see its own internal and private members.
checkIsNodeVisibleOpenly(s, u, p, n) ==
    LET visibility == getNodeVisibility(s, n)
        inside == checkIfPositionInNodeContractDefinition(s, u, p, n)
    IN  \/ visibility \in {"", "default", "public"}
        \/ visibility = "external" /\ ~inside

checkIsNodeVisible(s, u, p, n) ==
    LET visibility == getNodeVisibility(s, n)
        inside == checkIfPositionInNodeContractDefinition(s, u, p, n)
    IN  \/ visibility \in {"", "default", "public"}
        \/ visibility \in {"internal", "private"} /\ inside
        \/ visibility = "external" /\ ~inside

\* The members of a contract's bases, last base first: [found, seen].
RECURSIVE InheritedDefinitions(_, _, _, _, _)
InheritedDefinitions(s, u, p, from, r) ==
    LET Inherits(n) == \/ checkIsNodeVisible(s, u, p, n)
                       \/ getNodeVisibility(s, n) = "internal"
        Base(q, base) ==
            LET visible == SelectSeq(s.nodes[base].children, Inherits)
            IN  InheritedDefinitions(s, u, p, base, [q EXCEPT !.found = @ \o visible])
    IN  IF from = None \/ from \in r.seen THEN r
        ELSE FoldLeft(Base, [r EXCEPT !.seen = @ \cup {from}],
                      Reverse(s.nodes[from].bases))

\* Every definition below a node that is visible at p: [found, seen, files].
RECURSIVE DefinitionsBelow(_, _, _, _, _, _)
DefinitionsBelow(s, u, p, from, shadowed, r) ==
    LET node == s.nodes[from]
        atPosition == isPositionShadowedByNode(s, p, from)
        topLevel == Is(s, node.parent, "SourceUnit")
        own == /\ node.type \in definitionNodeTypes \cup declarationNodeTypes
               /\ node.uri = u
               /\ shadowed \/ atPosition \/ topLevel
        foreign == topLevel /\ node.type \in definitionNodeTypes /\ node.uri # u
        inside == /\ shadowed \/ own
                  /\ node.type \in definitionNodeTypes => atPosition
        here == [r EXCEPT !.seen = @ \cup {from},
                          !.found = IF /\ own \/ foreign
                                       /\ checkIsNodeVisible(s, u, p, from)
                                    THEN Append(@, from) ELSE @]
        Below(q, n) == DefinitionsBelow(s, u, p, n, inside, q)
        Visit(q, tree) ==
            IF node.aliases = <<>> THEN Below(q, tree)
            ELSE [q EXCEPT !.found = @ \o
                    SelectSeq(node.aliases,
                              LAMBDA n : checkIsNodeVisible(s, u, p, n))]
        Enter(q, tree) ==
            IF tree = None \/ s.nodes[tree].uri \in q.files THEN q
            ELSE Visit([q EXCEPT !.files = @ \cup {s.nodes[tree].uri}], tree)
        Imported(q) == IF node.type = "ImportDirective"
                       THEN Enter(q, ImportedTree(s, from)) ELSE q
        Inherited(q) ==
            IF node.type = "ContractDefinition" /\ atPosition /\ node.uri = u
            THEN [q EXCEPT !.found = @ \o
                    InheritedDefinitions(s, u, p, from,
                                         [found |-> <<>>, seen |-> {}]).found]
            ELSE q
    IN  IF from = None \/ from \in r.seen THEN r
        ELSE FoldLeft(Below, Inherited(Imported(here)), node.children)

findDefinitionNodes(s, u, p, from) ==
    DefinitionsBelow(s, u, p, from, FALSE,
                     [found |-> <<>>, seen |-> {}, files |-> {}]).found
=============================================================================
