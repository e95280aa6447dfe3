------------------------------ MODULE Analyzer ------------------------------
(***************************************************************************)
(* server/src/parser/analyzer: the accept method of every Node class.      *)
(*                                                                         *)
(* Accept(s, f, a, parent, expr) makes the Node of the syntax node a (what *)
(* matcher.find does) and runs its accept: parent is the scope it is in,   *)
(* expr the expression it is a part of.  It returns the changed state and  *)
(* the node that accept returns.  Every syntax node below the source unit  *)
(* has a parent.  What the accept methods of scopes have in common, at     *)
(* their start and at their end, is in Accept; an operator of the name of  *)
(* the class does the rest.  Import directives suspend the analysis: what  *)
(* they do before and after is here, when they do it in module Analysis.   *)
(*                                                                         *)
(* An intermediate state that is needed more than once is the parameter of *)
(* a local operator rather than a local name.                              *)
(***************************************************************************)
EXTENDS Searcher

RECURSIVE Accept(_, _, _, _, _)
RECURSIVE SetParent(_, _, _)

\* The constructor, by matcher.find, and setExpressionNode.
Make(s, f, a, expr) ==
    [s EXCEPT !.nodes = (Id(f, a) :> [NewNode(f, a) EXCEPT !.expr = expr]) @@ @]

Push(s, f, node) ==
    IF s.failed THEN s ELSE [s EXCEPT !.orphans[f] = Append(@, node)]

\* Accept a list of syntax nodes one after the other, until one throws.
AcceptEach(s, f, asts, parent, expr) ==
    FoldLeft(LAMBDA t, a : IF t.failed THEN t ELSE Accept(t, f, a, parent, expr).s,
             s, asts)

Parts(a, roles) == FlattenSeq([i \in DOMAIN roles |-> Kids(a, roles[i])])

\* The node that an accept r has returned becomes a type of n, which is returned.
TypeBy(r, n) == [s |-> AddTypeNode(r.s, n, r.node), node |-> n]

\* Accept a list of syntax nodes below n, as types of n.
AcceptTypes(s, f, asts, n) ==
    FoldLeft(LAMBDA t, a : IF t.failed THEN t ELSE TypeBy(Accept(t, f, a, n, None), n).s,
             s, asts)

-----------------------------------------------------------------------------
(* Definitions that collect their uses: which uses fit is one of            *)
(* "shadowed", "anywhere", "beside", "called" and "exported"                *)

\* Hang a node below the definition it was found to belong to.
Attach(s, node, definition) ==
    AddChild(SetParent(AddTypeNode(s, node, definition), node, definition),
             definition, node)

NameAbove(s, n) == IF Parent(s, n) = None THEN NoName ELSE GetName(s, Parent(s, n))

\* The uses that functions, by their names, adopt before their parts are read.
IsCallOf(s, definition, node) ==
    /\ GetName(s, definition) = GetName(s, node)
    /\ isNodeShadowedByNode(s, node, s.nodes[definition].parent)
    /\ TypeOf(s, Expression(s, node)) \in ConnectionTypeRules(TypeOf(s, definition))
    /\ ~Is(s, node, "MemberAccess")

Fits(s, how, definition, node) ==
    /\ how = "shadowed" => isNodeShadowedByNode(s, node, definition)
    /\ how = "beside" => isNodeShadowedByNode(s, node, s.nodes[definition].parent)
    /\ how = "exported" => NameAbove(s, GetDefinitionNode(s, node))
                               = NameAbove(s, definition)
    /\ IF how = "called" THEN IsCallOf(s, definition, node)
       ELSE isNodeConnectable(s, definition, node)

\* Attach every node of a list that fits; what is left of the list.
Adopt(s, list, definition, how) ==
    FoldLeft(LAMBDA r, node :
                IF Fits(r.s, how, definition, node)
                THEN [r EXCEPT !.s = Attach(r.s, node, definition)]
                ELSE [r EXCEPT !.left = Append(r.left, node)],
             [s |-> s, left |-> <<>>], list)

\* The list is that of the orphans, and what is left of it stays there.
Leave(r, f) == [r.s EXCEPT !.orphans[f] = r.left]

\* findAndAddChildren (shadowed or anywhere), findAndAddChildrenShadowedByParent
\* (beside) and the findChildren of a function (called).
AdoptOrphans(s, f, definition, how) ==
    IF s.failed THEN s ELSE Leave(Adopt(s, s.orphans[f], definition, how), f)

\* The callers pass a copy of the root's exportNodes: the root's own list
\* keeps the nodes that are adopted.
findAndAddExportChildren(s, definition) ==
    LET root == findSourceUnitNode(s, s.nodes[definition].parent)
    IN  IF root = None THEN s
        ELSE Adopt(s, s.nodes[root].exports, definition, "exported").s

\* A use that n settles gets its definition, if it is a member. The use may be
\* of another file than n: one of the variable that the type name n declares.
AttachMember(s, n, use, variable) ==
    IF variable = None THEN s
    ELSE RegisterUse(Attach(s, use, variable), n, use, variable)

findAndAddParentInDefinitionTypeVarialbles(s, n, use, types) ==
    AttachMember(s, n, use, Member(s, types, use))

-----------------------------------------------------------------------------
(* setParent: giving a use its definition settles the member accesses that *)
(* hang on it                                                              *)

\* The member access that an expression node is, or is called by.
AccessAbove(s, n) ==
    LET expr == s.nodes[n].expr
        access == IF Is(s, expr, "MemberAccess") THEN expr ELSE Expression(s, expr)
    IN  IF TypeOf(s, expr) \in expressionNodeTypes /\ Is(s, access, "MemberAccess")
        THEN access ELSE None

\* The nodes that wait for the definition of a use, members of what it declares:
\* the member access on a name, and the named arguments of its call, or the
\* member accesses on the variable that a type name declares.
Awaiting(s, n) ==
    LET Accesses(uses) ==
            SelectSeq([i \in DOMAIN uses |-> AccessAbove(s, uses[i])],
                      LAMBDA access : access # None)
        decl == s.nodes[n].decl
    IN  CASE TypeOf(s, n) = "Identifier" -> Accesses(<<n>>) \o s.nodes[n].fields
          [] TypeOf(s, n) = "MemberAccess" -> Accesses(<<n>>)
          [] TypeOf(s, n) = "UserDefinedTypeName" /\ decl # None ->
                Accesses(s.nodes[decl].children)
          [] OTHER -> <<>>

\* The named arguments have their definitions.
Settled(s, n, parent) ==
    IF Is(s, n, "Identifier") /\ GetTypeNodes(s, parent) # <<>>
    THEN Put(s, n, "fields", <<>>) ELSE s

SetParent(s, n, parent) ==
    Settled(FoldLeft(LAMBDA t, use :
                        findAndAddParentInDefinitionTypeVarialbles(
                            t, n, use, GetTypeNodes(t, parent)),
                     Put(s, n, "parent", parent), Awaiting(s, n)),
            n, parent)

\* Look for the definition of a use; a use without one is an orphan.
AttachOrOrphan(r, f, n) ==
    IF r.parent = None THEN Push(r.s, f, n) ELSE Attach(r.s, n, r.parent)

FindOrOrphan(s, f, n, from) == AttachOrOrphan(findParent(s, n, from), f, n)

-----------------------------------------------------------------------------
(* The shapes that most classes share *)

\* Nothing below the node.
Leaf(s, f, a) == [s |-> s, node |-> Id(f, a)]

\* The parts are accepted in the scope the node is in.
Through(s, f, a, parent, roles) ==
    [s |-> AcceptEach(s, f, Parts(a, roles), parent, None), node |-> Id(f, a)]

\* The parts are accepted with the node as the expression they are in.
Within(s, f, a, parent, roles) ==
    [s |-> AcceptEach(s, f, Parts(a, roles), parent, Id(f, a)), node |-> Id(f, a)]

\* The node is the scope of its parts.
Scope(s, f, a, roles) ==
    [s |-> AcceptEach(s, f, Parts(a, roles), Id(f, a), None), node |-> Id(f, a)]

\* The first part, whose accept is r, decides what is returned; others follow.
AfterBase(r, f, a, parent, roles) ==
    [r EXCEPT !.s = AcceptEach(r.s, f, Parts(a, roles), parent, None)]

Based(s, f, a, parent, base, expr, roles) ==
    AfterBase(Accept(s, f, Kids(a, base)[1], parent, expr), f, a, parent, roles)

-----------------------------------------------------------------------------
(* Definitions *)

\* The classes whose nodes are set below their parent when their accept starts
\* and are a child of it when it ends.
Scopes ==
    {"ContractDefinition", "StructDefinition", "EnumDefinition",
     "EventDefinition", "CustomErrorDefinition", "ModifierDefinition",
     "TypeDefinition", "FunctionDefinition", "EnumValue",
     "VariableDeclaration", "FileLevelConstant", "IfStatement",
     "WhileStatement", "DoWhileStatement", "ForStatement", "TryStatement",
     "CatchClause", "AssemblyBlock", "AssemblyIf", "AssemblyFor",
     "AssemblySwitch", "AssemblyCase", "AssemblyFunctionDefinition"}

\* The definitions that collect, before they end, the uses that other files
\* have left for them, and those of their own file that fit as given.
Collecting ==
    [ContractDefinition |-> "anywhere", StructDefinition |-> "beside",
     EnumDefinition |-> "shadowed", EventDefinition |-> "shadowed",
     CustomErrorDefinition |-> "shadowed", ModifierDefinition |-> "shadowed",
     TypeDefinition |-> "shadowed", VariableDeclaration |-> "none"]

Collect(s, f, n, how) ==
    IF how = "none" THEN findAndAddExportChildren(s, n)
    ELSE AdoptOrphans(findAndAddExportChildren(s, n), f, n, how)

StructDefinition(s, f, a) == Scope(s, f, a, <<"members">>)

EnumDefinition(s, f, a) == Scope(s, f, a, <<"members">>)

EventDefinition(s, f, a) == Scope(s, f, a, <<"parameters">>)

CustomErrorDefinition(s, f, a) == Scope(s, f, a, <<"parameters">>)

ModifierDefinition(s, f, a) ==
    Scope(s, f, a, <<"override", "parameters", "body">>)

TypeDefinition(s, f, a) == Leaf(s, f, a)

EnumValue(s, f, a) == Leaf(s, f, a)

\* The type that a declaration's type is made of: what arrays and mappings
\* are of.
RECURSIVE BaseType(_, _)
BaseType(s, n) ==
    IF n = None \/ TypeOf(s, n) \in {"UserDefinedTypeName", "ElementaryTypeName"}
    THEN n
    ELSE BaseType(s, First(s.nodes[n].types))

\* Tell the type name that a type, whose accept is r, is made of what it declares.
DeclareBy(r, base, n) ==
    IF base = None THEN [s |-> TypeBy(r, n).s, typed |-> FALSE]
    ELSE [s |-> Put(TypeBy(r, n).s, base, "decl", n), typed |-> TRUE]

TypeDeclaration(r, n) == DeclareBy(r, BaseType(r.s, r.node), n)

Declare(s, f, a, n) ==
    IF Kids(a, "typeName") = <<>> THEN [s |-> s, typed |-> TRUE]
    ELSE TypeDeclaration(Accept(s, f, Kids(a, "typeName")[1], n, None), n)

VariableDeclaration(s, f, a) ==
    [s |-> Declare(s, f, a, Id(f, a)).s, node |-> Id(f, a)]

\* Unlike a variable, a constant of a type without a base type throws, and it
\* does not look for the uses other files have left.
MustBeTyped(r) == IF r.typed THEN r.s ELSE Throw(r.s)

FileLevelConstant(s, f, a, parent) ==
    [s |-> AcceptEach(MustBeTyped(Declare(s, f, a, Id(f, a))), f,
                      Kids(a, "initialValue"), parent, None),
     node |-> Id(f, a)]

\* A function and the functions of its name in the contract's direct bases
\* become each other's children.
LinkOverrides(s, n, contract) ==
    LET bases == s.nodes[contract].bases
        members == FlattenSeq([i \in DOMAIN bases |-> s.nodes[bases[i]].children])
        Overridden(m) == /\ Is(s, m, "FunctionDefinition")
                         /\ GetName(s, m) = GetName(s, n)
    IN  IF ~Is(s, contract, "ContractDefinition") THEN s
        ELSE FoldLeft(LAMBDA t, m : AddChild(AddChild(t, n, m), m, n),
                      s, SelectSeq(members, Overridden))

FunctionDefinition(s, f, a, parent) ==
    LET n == Id(f, a)
    IN  [s |-> LinkOverrides(
                 AcceptEach(
                   AcceptTypes(
                     AcceptEach(Collect(s, f, n, "called"), f,
                                Parts(a, <<"override", "parameters">>), n, None),
                     f, Parts(a, <<"returnParameters", "modifiers">>), n),
                   f, Kids(a, "body"), n, None),
                 n, parent),
         node |-> n]

\* An orphan and its definition, if it has one now; the others are left.
AttachOrLeave(found, node, left) ==
    IF found.parent = None THEN [s |-> found.s, left |-> Append(left, node)]
    ELSE [s |-> Attach(found.s, node, found.parent), left |-> left]

\* A contract looks for the orphans of its lines in its bases.
findParentForOrphanNodesInInheritanceNodes(s, f, n) ==
    LET Covers(t, node) ==
            /\ Line(t.nodes[n].loc[1]) <= Line(t.nodes[node].loc[1])
            /\ Line(t.nodes[node].loc[2]) <= Line(t.nodes[n].loc[2])
    IN  IF s.failed THEN s
        ELSE Leave(FoldLeft(LAMBDA r, node :
                                AttachOrLeave(IF Covers(r.s, node)
                                              THEN findParent(r.s, node, n)
                                              ELSE [s |-> r.s, parent |-> None],
                                              node, r.left),
                            [s |-> s, left |-> <<>>], s.orphans[f]), f)

Inherit(s, n, definition) ==
    IF Is(s, definition, "ContractDefinition")
    THEN Put(s, n, "bases", Append(s.nodes[n].bases, definition)) ELSE s

\* The definition of the name that the accept of a base has returned.
InheritBy(r, n) == Inherit(r.s, n, GetDefinitionNode(r.s, r.node))

ContractDefinition(s, f, a) ==
    LET n == Id(f, a)
    IN  [s |-> findParentForOrphanNodesInInheritanceNodes(
                 AcceptEach(
                   FoldLeft(LAMBDA t, base :
                                IF t.failed THEN t
                                ELSE InheritBy(Accept(t, f, base, n, None), n),
                            s, Kids(a, "baseContracts")),
                   f, Kids(a, "subNodes"), n, None),
                 f, n),
         node |-> n]
-----------------------------------------------------------------------------
(* Uses *)

\* A name in an import directive belongs to what its first name belongs to.
Identifier(s, f, a, parent, expr) ==
    [s |-> AttachOrOrphan(
             IF Is(s, expr, "ImportDirective") /\ GetDefinitionNode(s, parent) # None
             THEN [s |-> s, parent |-> GetDefinitionNode(s, parent)]
             ELSE findParent(s, Id(f, a), parent),
             f, Id(f, a)),
     node |-> Id(f, a)]

\* A use of a contract that names its constructor is a child of both.
AttachToConstructor(s, n, contract, constructor) ==
    AddChild(AddChild(SetParent(AddTypeNode(s, n, contract), n, constructor),
                      contract, n),
             constructor, n)

\* The constructor of a contract, if a use names that; of any other definition
\* itself.
Constructed(s, definition) ==
    IF /\ Is(s, definition, "ContractDefinition")
       /\ s.nodes[definition].alive
       /\ lookupConstructorFor(s, definition) # None
    THEN lookupConstructorFor(s, definition) ELSE definition

AttachToConstructorOrOrphan(r, f, n) ==
    IF r.parent = None THEN Push(r.s, f, n)
    ELSE AttachToConstructor(r.s, n, r.parent, Constructed(r.s, r.parent))

FindConstructorOrOrphan(s, f, n, from) ==
    AttachToConstructorOrOrphan(findParent(s, n, from), f, n)

UserDefinedTypeName(s, f, a, parent) ==
    [s |-> IF Is(s, parent, "FunctionDefinition")
           THEN FindConstructorOrOrphan(s, f, Id(f, a), parent)
           ELSE FindOrOrphan(s, f, Id(f, a), parent),
     node |-> Id(f, a)]

ModifierInvocation(s, f, a, parent) ==
    [s |-> FindConstructorOrOrphan(
             AcceptEach(s, f, Kids(a, "arguments"), parent, None),
             f, Id(f, a), parent),
     node |-> Id(f, a)]

UsingForDeclaration(s, f, a, parent) ==
    [s |-> FindOrOrphan(AcceptEach(s, f, Kids(a, "typeName"), parent, None),
                        f, Id(f, a), parent),
     node |-> Id(f, a)]

Nowhere(s) == [s |-> s, parent |-> None]

\* super.x: the first base, from the last, in which x is found.
FindInBases(s, n, bases) ==
    FoldLeft(LAMBDA r, base : IF r.parent # None THEN r ELSE findParent(r.s, n, base),
             Nowhere(s), Reverse(bases))

\* The member n of super, of this or of something else, in a contract.
FindInherited(s, n, e, contract) ==
    LET On(name) == Is(s, e, "Identifier") /\ GetName(s, e) = name
    IN  CASE On("super") /\ contract = None -> Nowhere(Throw(s))
          [] On("super") /\ contract # None ->
                FindInBases(s, n, s.nodes[contract].bases)
          [] On("this") -> findParent(s, n, contract)
          [] OTHER -> Nowhere(s)

AttachFound(r, n) == IF r.parent = None THEN r.s ELSE Attach(r.s, n, r.parent)

\* A member n of e: e may be a member itself, which its type declares.
AccessMember(s, n, e, types, parent) ==
    IF s.nodes[e].parent = None /\ Member(s, types, e) # None
    THEN AttachMember(s, n, e, Member(s, types, e))
    ELSE AttachFound(FindInherited(s, n, e, Enclosing(s, parent, "ContractDefinition")),
                     n)

AccessOf(s, n, e, parent) == AccessMember(s, n, e, GetTypeNodes(s, e), parent)

MemberAccessOf(r, n, parent) ==
    [s |-> AccessOf(Put(r.s, n, "prev", r.node), n, r.node, parent), node |-> n]

MemberAccess(s, f, a, parent) ==
    MemberAccessOf(Accept(s, f, Kids(a, "expression")[1], parent, Id(f, a)),
                   Id(f, a), parent)

\* A named argument is a member of what the callee's type declares; when that is
\* not known yet the callee keeps it.
NamedArgument(s, n, callee, types) ==
    IF types # <<>> THEN findAndAddParentInDefinitionTypeVarialbles(s, n, n, types)
    ELSE IF Is(s, callee, "Identifier")
    THEN Put(s, callee, "fields", Append(s.nodes[callee].fields, n))
    ELSE s

NamedArguments(s, f, names, callee, types) ==
    FoldLeft(LAMBDA t, name : NamedArgument(Make(t, f, name, None), Id(f, name),
                                            callee, types),
             s, names)

CallWith(s, f, a, callee) ==
    [s |-> IF s.failed THEN s
           ELSE NamedArguments(s, f, Kids(a, "identifiers"), callee,
                               GetTypeNodes(s, callee)),
     node |-> callee]

CallOf(r, f, a, parent) ==
    CallWith(AcceptEach(r.s, f, Kids(a, "arguments"), parent, None), f, a, r.node)

\* The call is the expression of what it calls, except in an emit statement.
FunctionCall(s, f, a, parent, expr) ==
    CallOf(Accept(s, f, Kids(a, "expression")[1], parent,
                  IF Is(s, expr, "EmitStatement") THEN expr ELSE Id(f, a)),
           f, a, parent)

-----------------------------------------------------------------------------
(* Types *)

InheritanceSpecifier(s, f, a, parent) ==
    Based(s, f, a, parent, "baseName", None, <<"arguments">>)

ArrayTypeName(s, f, a, parent) ==
    TypeBy(Accept(s, f, Kids(a, "baseTypeName")[1], parent, Id(f, a)), Id(f, a))

Mapping(s, f, a, parent) ==
    TypeBy(Accept(AcceptEach(s, f, Kids(a, "keyType"), parent, None),
                  f, Kids(a, "valueType")[1], parent, None),
           Id(f, a))

ElementaryTypeName(s, f, a) == Leaf(s, f, a)
FunctionTypeName(s, f, a) == Leaf(s, f, a)
PragmaDirective(s, f, a) == Leaf(s, f, a)

-----------------------------------------------------------------------------
(* Statements *)

StateVariableDeclaration(s, f, a, parent) ==
    Through(s, f, a, parent, <<"variables", "initialValue">>)

VariableDeclarationStatement(s, f, a, parent) ==
    Through(s, f, a, parent, <<"variables", "initialValue">>)

Block(s, f, a, parent) == Through(s, f, a, parent, <<"statements">>)

UncheckedStatement(s, f, a, parent) == Through(s, f, a, parent, <<"block">>)

ExpressionStatement(s, f, a, parent) ==
    Through(s, f, a, parent, <<"expression">>)

ReturnStatement(s, f, a, parent) == Through(s, f, a, parent, <<"expression">>)

InlineAssemblyStatement(s, f, a, parent) == Through(s, f, a, parent, <<"body">>)

EmitStatement(s, f, a, parent) == Within(s, f, a, parent, <<"eventCall">>)

RevertStatement(s, f, a, parent) == Within(s, f, a, parent, <<"revertCall">>)

IfStatement(s, f, a) == Scope(s, f, a, <<"condition", "trueBody", "falseBody">>)

WhileStatement(s, f, a) == Scope(s, f, a, <<"condition", "body">>)

DoWhileStatement(s, f, a) == Scope(s, f, a, <<"condition", "body">>)

ForStatement(s, f, a) ==
    Scope(s, f, a,
          <<"initExpression", "conditionExpression", "loopExpression", "body">>)

TryStatement(s, f, a) ==
    Scope(s, f, a,
          <<"expression", "returnParameters", "body", "catchClauses">>)

CatchClause(s, f, a) == Scope(s, f, a, <<"parameters", "body">>)

ThrowStatement(s, f, a) == Leaf(s, f, a)
BreakStatement(s, f, a) == Leaf(s, f, a)
ContinueStatement(s, f, a) == Leaf(s, f, a)

-----------------------------------------------------------------------------
(* Expressions *)

IndexAccess(s, f, a, parent) ==
    Based(s, f, a, parent, "base", Id(f, a), <<"index">>)

IndexRangeAccess(s, f, a, parent) ==
    Based(s, f, a, parent, "base", Id(f, a), <<"indexStart", "indexEnd">>)

NewExpression(s, f, a, parent) == Through(s, f, a, parent, <<"typeName">>)

TupleExpression(s, f, a, parent) == Through(s, f, a, parent, <<"components">>)

BinaryOperation(s, f, a, parent) ==
    Through(s, f, a, parent, <<"left", "right">>)

UnaryOperation(s, f, a, parent) == Through(s, f, a, parent, <<"subExpression">>)

Conditional(s, f, a, parent) ==
    Through(s, f, a, parent,
          <<"condition", "trueExpression", "falseExpression">>)

NameValueExpression(s, f, a, parent) ==
    Through(s, f, a, parent, <<"expression", "arguments">>)

NameValueList(s, f, a, parent) == Through(s, f, a, parent, <<"identifiers">>)

NumberLiteral(s, f, a) == Leaf(s, f, a)
BooleanLiteral(s, f, a) == Leaf(s, f, a)
HexLiteral(s, f, a) == Leaf(s, f, a)
StringLiteral(s, f, a) == Leaf(s, f, a)

-----------------------------------------------------------------------------
(* Inline assembly *)

AssemblyBlock(s, f, a) == Scope(s, f, a, <<"operations">>)

AssemblyIf(s, f, a) == Scope(s, f, a, <<"condition", "body">>)

AssemblyFor(s, f, a) == Scope(s, f, a, <<"pre", "condition", "post", "body">>)

AssemblySwitch(s, f, a) == Scope(s, f, a, <<"expression", "cases">>)

AssemblyCase(s, f, a) == Scope(s, f, a, <<"value", "block">>)

AssemblyAssignment(s, f, a, parent) ==
    Through(s, f, a, parent, <<"names", "expression">>)

AssemblyFunctionDefinition(s, f, a) ==
    LET n == Id(f, a)
    IN  [s |-> AcceptEach(
                 AcceptTypes(
                   AcceptEach(AdoptOrphans(s, f, n, "called"), f,
                              Kids(a, "arguments"), n, None),
                   f, Kids(a, "returnArguments"), n),
                 f, Kids(a, "body"), n, None),
         node |-> n]

\* One node for every name, made in the scope; the node of the definition
\* itself hangs nowhere.
AssemblyLocalDefinition(s, f, a, parent) ==
    LET At(name) == Id(f, [a EXCEPT !.from = name.from, !.to = name.to])
        Local(name) == [NewNode(f, a) EXCEPT !.name = name.name,
                                             !.at = NameLoc(name),
                                             !.parent = parent]
        Define(t, name) ==
            AddChild([t EXCEPT !.nodes = (At(name) :> Local(name)) @@ @],
                     parent, At(name))
    IN  [s |-> AcceptEach(FoldLeft(Define, s, Kids(a, "names")),
                          f, Kids(a, "expression"), parent, None),
         node |-> Id(f, a)]

AssemblyCall(s, f, a, parent) ==
    [s |-> FindOrOrphan(AcceptEach(s, f, Kids(a, "arguments"), parent, None),
                        f, Id(f, a), parent),
     node |-> Id(f, a)]

AssemblyMemberAccess(s, f, a) == Leaf(s, f, a)
AssemblyStackAssignment(s, f, a) == Leaf(s, f, a)
LabelDefinition(s, f, a) == Leaf(s, f, a)
Break(s, f, a) == Leaf(s, f, a)
Continue(s, f, a) == Leaf(s, f, a)
HexNumber(s, f, a) == Leaf(s, f, a)
DecimalNumber(s, f, a) == Leaf(s, f, a)

-----------------------------------------------------------------------------
(* matcher.find: the class of a syntax node by its type *)

AcceptOther(s, f, a, parent, expr) ==
    CASE a.type = "HexNumber" -> HexNumber(s, f, a)
      [] a.type = "DecimalNumber" -> DecimalNumber(s, f, a)
      [] a.type = "TryStatement" -> TryStatement(s, f, a)
      [] a.type = "NameValueList" -> NameValueList(s, f, a, parent)
      [] a.type = "AssemblyMemberAccess" -> AssemblyMemberAccess(s, f, a)
      [] a.type = "CatchClause" -> CatchClause(s, f, a)
      [] a.type = "FileLevelConstant" -> FileLevelConstant(s, f, a, parent)
      [] a.type = "CustomErrorDefinition" -> CustomErrorDefinition(s, f, a)
      [] a.type = "RevertStatement" -> RevertStatement(s, f, a, parent)
      [] a.type = "TypeDefinition" -> TypeDefinition(s, f, a)

AcceptExpression(s, f, a, parent, expr) ==
    CASE a.type = "NewExpression" -> NewExpression(s, f, a, parent)
      [] a.type = "TupleExpression" -> TupleExpression(s, f, a, parent)
      [] a.type = "NameValueExpression" -> NameValueExpression(s, f, a, parent)
      [] a.type = "NumberLiteral" -> NumberLiteral(s, f, a)
      [] a.type = "BooleanLiteral" -> BooleanLiteral(s, f, a)
      [] a.type = "HexLiteral" -> HexLiteral(s, f, a)
      [] a.type = "StringLiteral" -> StringLiteral(s, f, a)
      [] a.type = "Identifier" -> Identifier(s, f, a, parent, expr)
      [] a.type = "BinaryOperation" -> BinaryOperation(s, f, a, parent)
      [] a.type = "UnaryOperation" -> UnaryOperation(s, f, a, parent)
      [] a.type = "Conditional" -> Conditional(s, f, a, parent)
      [] a.type = "IndexAccess" -> IndexAccess(s, f, a, parent)
      [] a.type = "IndexRangeAccess" -> IndexRangeAccess(s, f, a, parent)
      [] a.type = "MemberAccess" -> MemberAccess(s, f, a, parent)
      [] OTHER -> AcceptOther(s, f, a, parent, expr)

AcceptAssembly(s, f, a, parent, expr) ==
    CASE a.type = "AssemblyBlock" -> AssemblyBlock(s, f, a)
      [] a.type = "AssemblyCall" -> AssemblyCall(s, f, a, parent)
      [] a.type = "AssemblyLocalDefinition" -> AssemblyLocalDefinition(s, f, a, parent)
      [] a.type = "AssemblyAssignment" -> AssemblyAssignment(s, f, a, parent)
      [] a.type = "AssemblyStackAssignment" -> AssemblyStackAssignment(s, f, a)
      [] a.type = "LabelDefinition" -> LabelDefinition(s, f, a)
      [] a.type = "AssemblySwitch" -> AssemblySwitch(s, f, a)
      [] a.type = "AssemblyCase" -> AssemblyCase(s, f, a)
      [] a.type = "AssemblyFunctionDefinition" -> AssemblyFunctionDefinition(s, f, a)
      [] a.type = "AssemblyFor" -> AssemblyFor(s, f, a)
      [] a.type = "AssemblyIf" -> AssemblyIf(s, f, a)
      [] OTHER -> AcceptExpression(s, f, a, parent, expr)

AcceptStatement(s, f, a, parent, expr) ==
    CASE a.type = "Block" -> Block(s, f, a, parent)
      [] a.type = "ExpressionStatement" -> ExpressionStatement(s, f, a, parent)
      [] a.type = "IfStatement" -> IfStatement(s, f, a)
      [] a.type = "UncheckedStatement" -> UncheckedStatement(s, f, a, parent)
      [] a.type = "WhileStatement" -> WhileStatement(s, f, a)
      [] a.type = "ForStatement" -> ForStatement(s, f, a)
      [] a.type = "InlineAssemblyStatement" -> InlineAssemblyStatement(s, f, a, parent)
      [] a.type = "DoWhileStatement" -> DoWhileStatement(s, f, a)
      [] a.type = "ContinueStatement" -> ContinueStatement(s, f, a)
      [] a.type = "Break" -> Break(s, f, a)
      [] a.type = "Continue" -> Continue(s, f, a)
      [] a.type = "BreakStatement" -> BreakStatement(s, f, a)
      [] a.type = "ReturnStatement" -> ReturnStatement(s, f, a, parent)
      [] a.type = "EmitStatement" -> EmitStatement(s, f, a, parent)
      [] a.type = "ThrowStatement" -> ThrowStatement(s, f, a)
      [] a.type = "VariableDeclarationStatement" -> VariableDeclarationStatement(s, f, a, parent)
      [] a.type = "FunctionCall" -> FunctionCall(s, f, a, parent, expr)
      [] OTHER -> AcceptAssembly(s, f, a, parent, expr)

AcceptDeclaration(s, f, a, parent, expr) ==
    CASE a.type = "PragmaDirective" -> PragmaDirective(s, f, a)
      [] a.type = "ContractDefinition" -> ContractDefinition(s, f, a)
      [] a.type = "InheritanceSpecifier" -> InheritanceSpecifier(s, f, a, parent)
      [] a.type = "StateVariableDeclaration" -> StateVariableDeclaration(s, f, a, parent)
      [] a.type = "UsingForDeclaration" -> UsingForDeclaration(s, f, a, parent)
      [] a.type = "StructDefinition" -> StructDefinition(s, f, a)
      [] a.type = "ModifierDefinition" -> ModifierDefinition(s, f, a)
      [] a.type = "ModifierInvocation" -> ModifierInvocation(s, f, a, parent)
      [] a.type = "FunctionDefinition" -> FunctionDefinition(s, f, a, parent)
      [] a.type = "EventDefinition" -> EventDefinition(s, f, a)
      [] a.type = "EnumValue" -> EnumValue(s, f, a)
      [] a.type = "EnumDefinition" -> EnumDefinition(s, f, a)
      [] a.type = "VariableDeclaration" -> VariableDeclaration(s, f, a)
      [] a.type = "UserDefinedTypeName" -> UserDefinedTypeName(s, f, a, parent)
      [] a.type = "ArrayTypeName" -> ArrayTypeName(s, f, a, parent)
      [] a.type = "Mapping" -> Mapping(s, f, a, parent)
      [] a.type = "ElementaryTypeName" -> ElementaryTypeName(s, f, a)
      [] a.type = "FunctionTypeName" -> FunctionTypeName(s, f, a)
      [] OTHER -> AcceptStatement(s, f, a, parent, expr)

\* What a scope does when its accept starts and ends.
EnterScope(s, n, type, parent) ==
    IF type \in Scopes THEN Put(s, n, "parent", parent) ELSE s

CollectBy(s, f, n, type) ==
    IF type \in DOMAIN Collecting THEN Collect(s, f, n, Collecting[type]) ELSE s

LeaveScope(r, f, n, type, parent) ==
    IF type \in Scopes
    THEN [r EXCEPT !.s = AddChild(CollectBy(r.s, f, n, type), parent, n)] ELSE r

\* The Node is made, and accepted with the expression it is in.
Accept(s, f, a, parent, expr) ==
    LeaveScope(AcceptDeclaration(EnterScope(Make(s, f, a, expr), Id(f, a), a.type, parent),
                                 f, a, parent, expr),
               f, Id(f, a), a.type, parent)
-----------------------------------------------------------------------------
(* The root: what analyzeSolFile and SourceUnitNode.accept do before the      *)
(* children are accepted                                                      *)

\* Take the uses this file has made of other files out of them.
RemoveImportNodes(s, tree) ==
    LET Drop(t, use) ==
            Put(IF t.nodes[use].parent = None THEN t
                ELSE RemoveChild(t, t.nodes[use].parent, use),
                use, "parent", None)
    IN  FoldLeft(Drop, s, s.nodes[tree].imports)

\* Mutant: the new root starts without the uses of other files.
PlantBare(s, f, a) == Make(s, f, a, None)

\* SourceUnitNode.accept: the new root keeps the uses other files make of it.
Plant(s, f, a) ==
    LET kept == SelectSeq(s.nodes[Tree(s, f[1])].exports, LAMBDA n : s.nodes[n].alive)
    IN  Put(Make(s, f, a, None), Id(f, a), "exports", kept)

-----------------------------------------------------------------------------
(* Import directives, below the root of their file *)

\* The import node, once the project has resolved its path to r.
MakeImport(s, f, a, root, r) ==
    SetParent(Put(Make(s, f, a, None), Id(f, a), "uri", r), Id(f, a), root)

\* The uses of an imported file that found no definition are handed to the
\* importing file: it may define what they are looking for.
TransferOrphans(s, f, n) ==
    LET entry == s.entries[s.nodes[n].uri]
        Transfer(t, orphan) ==
            AddExportNode(AddImportNode(t, entry.tree, orphan), Tree(t, f[1]), orphan)
    IN  IF entry.status = "ANALYZED"
        THEN FoldLeft(Transfer, s, s.orphans[entry.orphans]) ELSE s

\* A name that an import directive gives, a sequence of one or two identifiers:
\* the second is accepted below the first and has its name as an alias.
AcceptSymbol(s, f, n, symbol) ==
    FoldLeft(LAMBDA r, name :
                Accept(r.s, f, name, r.node, IF r.node = n THEN None ELSE n),
             [s |-> s, node |-> n], symbol)

\* Mutant: the definition of a name stands for it, which a name may not have.
AddSymbolDefinition(names, r, alias) ==
    [s |-> Put(r.s, r.node, "alias", alias),
     names |-> Append(names, GetDefinitionNode(r.s, r.node))]

AddSymbol(names, r, alias) ==
    [s |-> Put(r.s, r.node, "alias", alias), names |-> Append(names, r.node)]

AcceptSymbols(s, f, n, symbols) ==
    FoldLeft(LAMBDA r, symbol :
                IF r.s.failed THEN r
                ELSE AddSymbol(r.names, AcceptSymbol(r.s, f, n, symbol), symbol[1].name),
             [s |-> s, names |-> <<>>], symbols)

\* The import covers all of the file it names.
Locate(s, n) ==
    IF Is(s, ImportedTree(s, n), "SourceUnit")
    THEN Put(s, n, "loc", s.nodes[ImportedTree(s, n)].loc) ELSE s

AddAliases(r, n) == Put(r.s, n, "aliases", r.names)

\* What an import directive does once its file is analysed.
FinishImport(s, f, a, root) ==
    AddChild(AddAliases(AcceptSymbols(Locate(s, Id(f, a)), f, Id(f, a),
                                      Kids(a, "symbolAliases")),
                        Id(f, a)),
             root, Id(f, a))
=============================================================================
