------------------------------ MODULE SolNodes ------------------------------
(***************************************************************************)
(* The enhanced syntax tree of the language server: the Node classes of    *)
(* server/src/parser/common/types and the helpers of common/utils.         *)
(*                                                                         *)
(* The server analyses every Solidity file into a tree of Node objects and *)
(* links the trees of all files into one graph: a use is a child of the    *)
(* definition it resolves to, whichever file that is in, and a use's       *)
(* parent is that definition.  The graph is changed in place, so the model *)
(* keeps it in one value s that every operator takes and returns:          *)
(*                                                                         *)
(*   s.nodes    Node objects by identity                                   *)
(*   s.entries  SolFileEntry objects by uri (solFileIndex)                 *)
(*   s.orphans  the orphanNodes arrays, by the analysis that owns them     *)
(*   s.texts    the text of every analysis                                 *)
(*   s.failed   the running analyzeSolFile has thrown: nothing it does     *)
(*              from there on changes anything                             *)
(*                                                                         *)
(* An analysis is f = <<uri, gen>>: the gen-th analysis of the file uri.   *)
(* The identity of a node is the analysis that made it, the type of its    *)
(* syntax node and the range of that; syntax nodes are the values of the   *)
(* parser: records [type, name, from, to, nm, kind, parts] where positions *)
(* are 100 * line + column, nm is where the name starts, kind a contract's *)
(* kind or a declaration's visibility and parts the lists of children.     *)
(***************************************************************************)
EXTENDS Integers, Sequences, SequencesExt

None == <<>>                    \* undefined, where a node is expected
NoName == ""                    \* undefined, where a name is expected

Line(p) == p \div 100

First(list) == IF list = <<>> THEN None ELSE Head(list)

definitionNodeTypes ==
    {"ContractDefinition", "StructDefinition", "ModifierDefinition",
     "FunctionDefinition", "EventDefinition", "EnumDefinition",
     "CustomErrorDefinition", "AssemblyLocalDefinition", "LabelDefinition",
     "AssemblyFunctionDefinition", "UserDefinedTypeName", "FileLevelConstant",
     "TypeDefinition"}

declarationNodeTypes ==
    {"StateVariableDeclaration", "UsingForDeclaration", "VariableDeclaration",
     "VariableDeclarationStatement"}

expressionNodeTypes ==
    {"IndexAccess", "IndexRangeAccess", "TupleExpression", "BinaryOperation",
     "Conditional", "MemberAccess", "FunctionCall", "UnaryOperation",
     "NewExpression", "NameValueExpression", "BooleanLiteral", "HexLiteral",
     "StringLiteral", "NumberLiteral", "Identifier"}

\* Where a definition's name starts, counted from the keyword it starts with.
NameOffset ==
    [FunctionDefinition |-> 9, AssemblyFunctionDefinition |-> 9,
     StructDefinition |-> 7, EnumDefinition |-> 5, EventDefinition |-> 6,
     CustomErrorDefinition |-> 6, ModifierDefinition |-> 9,
     TypeDefinition |-> 5, UsingForDeclaration |-> 6, EnumValue |-> 0,
     ModifierInvocation |-> 0, UserDefinedTypeName |-> 0, Identifier |-> 0,
     AssemblyCall |-> 0]

ContractNameOffset ==
    [contract |-> 9, library |-> 8, interface |-> 10, abstract |-> 18]

\* Where a node's name is: <<start, end>>, or <<>> for a node without one.
NameLoc(a) ==
    LET From(start) == <<start, start + Len(a.name)>>
    IN  IF a.kind = "constructor" THEN <<a.from, a.from + 11>>
        ELSE IF a.name = NoName \/ a.type = "ElementaryTypeName" THEN <<>>
        ELSE CASE a.type = "ContractDefinition" ->
                    From(a.from + ContractNameOffset[a.kind])
               [] a.type \in DOMAIN NameOffset -> From(a.from + NameOffset[a.type])
               [] OTHER -> From(a.nm)

\* The location of the syntax node once its Node is made: some constructors
\* narrow it to the name.
Loc(a) ==
    IF a.type \in {"VariableDeclaration", "Identifier", "UserDefinedTypeName",
                   "MemberAccess", "EnumValue", "AssemblyCall"}
    THEN NameLoc(a) ELSE <<a.from, a.to>>

Kids(a, role) == IF role \in DOMAIN a.parts THEN a.parts[role] ELSE <<>>

-----------------------------------------------------------------------------
(* Node objects *)

ConnectionTypeRules(type) ==
    CASE type = "ContractDefinition" ->
            {"Identifier", "UserDefinedTypeName", "FunctionCall",
             "UsingForDeclaration", "ModifierInvocation"}
      [] type = "StructDefinition" ->
            {"UserDefinedTypeName", "MemberAccess", "FunctionCall"}
      [] type = "FunctionDefinition" ->
            {"FunctionCall", "MemberAccess", "ModifierInvocation",
             "UserDefinedTypeName"}
      [] type = "VariableDeclaration" ->
            {"Identifier", "MemberAccess", "AssemblyCall"}
      [] type \in {"CustomErrorDefinition", "EnumDefinition", "TypeDefinition"} ->
            {"Identifier", "UserDefinedTypeName"}
      [] type = "AssemblyLocalDefinition" -> {"AssemblyCall", "Identifier"}
      [] type = "ModifierDefinition" -> {"ModifierInvocation"}
      [] type = "EventDefinition" -> {"EmitStatement"}
      [] type = "EnumValue" -> {"MemberAccess"}
      [] type = "FileLevelConstant" -> {"Identifier"}
      [] type = "UsingForDeclaration" -> {"ContractDefinition"}
      [] type = "AssemblyFunctionDefinition" -> {"AssemblyCall"}
      [] OTHER -> {}

\* The kinds whose getTypeNodes() returns their own typeNodes; all but the
\* two of assembly put themselves there when they are made.
SelfTyped ==
    {"ContractDefinition", "StructDefinition", "ModifierDefinition",
     "EventDefinition", "CustomErrorDefinition", "EnumDefinition",
     "TypeDefinition"}

OwnTypes == SelfTyped \cup {"AssemblyLocalDefinition", "LabelDefinition"}

\* The kinds whose getDefinitionNode() is the node itself, and those that
\* have none; every other node's is its parent's.
OwnDefinition ==
    OwnTypes \cup
    {"ImportDirective", "StateVariableDeclaration", "FunctionDefinition",
     "EnumValue", "VariableDeclaration", "FileLevelConstant",
     "VariableDeclarationStatement", "AssemblyFunctionDefinition"}

NoDefinition ==
    {"SourceUnit", "Block", "IfStatement", "WhileStatement",
     "DoWhileStatement", "ForStatement"}

Id(f, a) == <<f[1], f[2], a.type, a.from, a.to>>
FileOf(n) == <<n[1], n[2]>>

NewNode(f, a) ==
    [type |-> a.type, name |-> a.name, uri |-> f[1], ast |-> a, loc |-> Loc(a),
     at |-> NameLoc(a), alive |-> TRUE, alias |-> NoName, expr |-> None,
     decl |-> None, parent |-> None, children |-> <<>>,
     types |-> IF a.type \in SelfTyped THEN <<Id(f, a)>> ELSE <<>>,
     bases |-> <<>>,                            \* ContractDefinitionNode
     prev |-> None,                             \* MemberAccessNode
     realUri |-> f[1], aliases |-> <<>>,        \* ImportDirectiveNode
     imports |-> <<>>, exports |-> <<>>,        \* SourceUnitNode
     fields |-> <<>>]                           \* IdentifierNode

EmptyTree(u) == <<u, 0, "Empty", 0, 0>>
EmptyNode(u) ==
    NewNode(<<u, 0>>, [type |-> "Empty", name |-> NoName, from |-> 0, to |-> 0,
                       nm |-> 0, kind |-> "", parts |-> [x \in {} |-> <<>>]])

Is(s, n, type) == n # None /\ s.nodes[n].type = type
TypeOf(s, n) == IF n = None THEN "" ELSE s.nodes[n].type
Expression(s, n) == IF n = None THEN None ELSE s.nodes[n].expr
Parent(s, n) == IF n = None THEN None ELSE s.nodes[n].parent

\* lookupEntryForUri: a request for a file that is not analysed has no answer.
isAnalyzed(s, u) == s.entries[u].status = "ANALYZED"

\* Assign one field of a node.
Put(s, n, field, value) ==
    IF s.failed THEN s ELSE [s EXCEPT !.nodes[n][field] = value]

Throw(s) == [s EXCEPT !.failed = TRUE]

isConstructor(s, n) ==
    s.nodes[n].type = "FunctionDefinition" /\ s.nodes[n].ast.kind = "constructor"

GetName(s, n) ==
    IF ~isConstructor(s, n) THEN s.nodes[n].name
    ELSE IF s.nodes[n].parent = None THEN NoName
    ELSE s.nodes[s.nodes[n].parent].name

\* Mutant: nodes of one name in one file are equal, wherever they are.
isNodeEqualAnywhere(s, m, n) ==
    \/ m = n
    \/ /\ GetName(s, m) = GetName(s, n)
       /\ s.nodes[m].uri = s.nodes[n].uri

isNodeEqual(s, m, n) ==
    \/ m = n
    \/ /\ GetName(s, m) = GetName(s, n)
       /\ s.nodes[m].at = s.nodes[n].at
       /\ s.nodes[m].uri = s.nodes[n].uri

AddTypeNode(s, n, type) ==
    Put(s, n, "types",
        Append(RemoveFirstMatch(s.nodes[n].types, LAMBDA m : isNodeEqual(s, m, type)),
               type))

AddChild(s, n, child) ==
    IF \E i \in DOMAIN s.nodes[n].children :
            isNodeEqual(s, s.nodes[n].children[i], child)
    THEN s
    ELSE Put(s, n, "children", Append(s.nodes[n].children, child))

RemoveChild(s, n, child) ==
    Put(Put(s, n, "children", Remove(s.nodes[n].children, child)),
        child, "alive", FALSE)

-----------------------------------------------------------------------------
(* common/utils *)

isNodePosition(s, n, p) ==
    LET at == s.nodes[n].at
    IN  /\ at # <<>>
        /\ Line(at[1]) = Line(p)
        /\ Line(at[2]) = Line(p)
        /\ at[1] <= p
        /\ p <= at[2]

isNodeShadowedByNode(s, child, parent) ==
    /\ child # None
    /\ parent # None
    /\ {TypeOf(s, child), TypeOf(s, parent)} \cap {"Empty"} = {}
    /\ s.nodes[parent].ast.from <= s.nodes[child].ast.from
    /\ s.nodes[child].ast.to <= s.nodes[parent].ast.to

\* Strictly between the first and the last line of the node, or within its
\* columns when it is on one line.
isPositionShadowedByNode(s, p, n) ==
    /\ n # None
    /\ LET loc == s.nodes[n].loc
       IN  /\ loc # <<>>
           /\ \/ Line(loc[1]) < Line(p) /\ Line(p) < Line(loc[2])
              \/ /\ Line(loc[1]) = Line(p) /\ Line(loc[2]) = Line(p)
                 /\ loc[1] <= p /\ p <= loc[2]

\* The child is known by the parent's name, or its own name has that alias.
AreNames(parent, child, alias) ==
    parent # NoName /\ child # NoName /\ parent \in {child, alias}

isNodeConnectable(s, parent, child) ==
    LET expr == Expression(s, child)
    IN  /\ parent # None /\ child # None
        /\ s.nodes[parent].alive /\ s.nodes[child].alive
        /\ AreNames(GetName(s, parent), GetName(s, child), s.nodes[child].alias)
        /\ {TypeOf(s, child), TypeOf(s, expr)} \cap
                ConnectionTypeRules(TypeOf(s, parent)) # {}
        /\ (/\ Is(s, parent, "FunctionDefinition")
            /\ Is(s, child, "MemberAccess")
            /\ Is(s, expr, "FunctionCall"))
           => Len(Kids(s.nodes[parent].ast, "parameters"))
                 = Len(Kids(s.nodes[expr].ast, "arguments"))

lookupConstructorFor(s, contract) ==
    First(SelectSeq(s.nodes[contract].children, LAMBDA n : isConstructor(s, n)))
=============================================================================
