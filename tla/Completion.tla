----------------------------- MODULE Completion -----------------------------
(***************************************************************************)
(* server/src/services/completion: what a completion offers at a position, *)
(* once the file has been analysed for it.  An answer is a record          *)
(* [kind, nodes]: the kind of the answer and the nodes it is made from;    *)
(* the wording of the items is left out.                                   *)
(***************************************************************************)
EXTENDS Queries

globalVariables == {"abi", "bytes", "block", "msg", "tx"}

NoCompletion == [kind |-> "none", nodes |-> <<>>]

\* The expression at the end of a chain; "_" is what is inserted after a ".".
RECURSIVE getLastExpressionNode(_, _)
getLastExpressionNode(t, n) ==
    LET expr == t.nodes[n].expr
    IN  IF expr = None THEN n
        ELSE IF t.nodes[expr].name = "_" THEN n
        ELSE getLastExpressionNode(t, expr)

isOrphanPosition(t, n, p) ==
    LET at == t.nodes[n].at
        last == t.nodes[getLastExpressionNode(t, n)].at
    IN  /\ at # <<>>
        /\ Line(at[1]) = Line(p) /\ Line(at[2]) = Line(p)
        /\ at[1] <= p
        /\ p % 100 <= (IF last = <<>> THEN at[2] ELSE last[2]) % 100

\* The first contract, depth first, on whose lines the position is.
RECURSIVE FindContract(_, _, _, _)
FindContract(t, p, n, r) ==
    LET loc == t.nodes[n].loc
        here == [r EXCEPT !.seen = @ \cup {n}]
        Child(q, child) == IF q.found # None THEN q ELSE FindContract(t, p, child, q)
    IN  IF n \in r.seen THEN r
        ELSE IF /\ Is(t, n, "ContractDefinition")
                /\ Line(loc[1]) <= Line(p) /\ Line(p) <= Line(loc[2])
        THEN [here EXCEPT !.found = n]
        ELSE FoldLeft(Child, here, t.nodes[n].children)

findContractDefinition(t, u, p) ==
    FindContract(t, p, Tree(t, u), [found |-> None, seen |-> {}]).found

getThisCompletions(t, u, p) ==
    LET contract == findContractDefinition(t, u, p)
        inherited == InheritedDefinitions(t, u, p, contract,
                                          [found |-> <<>>, seen |-> {}]).found
        own == IF contract = None THEN <<>> ELSE t.nodes[contract].children
    IN  SelectSeq(inherited \o own, LAMBDA n : Is(t, n, "FunctionDefinition"))

getSuperCompletions(t, u, p) ==
    LET contract == findContractDefinition(t, u, p)
        bases == t.nodes[contract].bases
        members == FlattenSeq([i \in DOMAIN bases |-> t.nodes[bases[i]].children])
        Offered(n) == /\ getNodeVisibility(t, n) # "private"
                      /\ GetName(t, n) # GetName(t, contract)
    IN  IF contract = None THEN <<>> ELSE SelectSeq(members, Offered)

isArrayAccess(t, n) ==
    LET definition == GetDefinitionNode(t, n)
    IN  /\ Is(t, definition, "VariableDeclaration")
        /\ \E i \in DOMAIN t.nodes[definition].types :
                Is(t, t.nodes[definition].types[i], "ArrayTypeName")

\* The visible members that a node's types declare in their own files.
getMemberAccessCompletions(t, u, p, n) ==
    LET types == GetTypeNodes(t, n)
        Offered(type, m) == /\ t.nodes[m].uri = t.nodes[type].uri
                            /\ checkIsNodeVisible(t, u, p, m)
                            /\ GetName(t, m) # GetName(t, type)
        Of(type) == SelectSeq(t.nodes[type].children, LAMBDA m : Offered(type, m))
    IN  FlattenSeq([i \in DOMAIN types |-> Of(types[i])])

\* The first definition after the position: what a doc comment is about.
getNatspecCompletion(t, u, p) ==
    LET Documented ==
            {n \in DOMAIN t.nodes :
                /\ FileOf(n) = FileOf(Tree(t, u))
                /\ t.nodes[n].type \in {"FunctionDefinition", "EventDefinition",
                        "ContractDefinition", "StateVariableDeclaration"}
                /\ t.nodes[n].ast.from >= p}
        Nearest == {n \in Documented : \A m \in Documented :
                        t.nodes[n].ast.from <= t.nodes[m].ast.from}
    IN  IF Nearest = {} THEN NoCompletion
        ELSE [kind |-> "natspec", nodes |-> <<CHOOSE n \in Nearest : TRUE>>]

\* The node a completion is about: what is named at the position, or the
\* orphan that ends there.
CompletedNode(t, u, p) ==
    LET n == findNodeByPosition(t, u, p, Tree(t, u), TRUE)
        orphans == SelectSeq(t.orphans[t.entries[u].orphans],
                             LAMBDA orphan : isOrphanPosition(t, orphan, p - 1))
    IN  IF n # None \/ orphans = <<>> THEN n
        ELSE getLastExpressionNode(t, Head(orphans))

\* The node is the plain name, or the chain of two names.
IsName(t, n, name) ==
    n # None /\ ~Is(t, n, "MemberAccess") /\ t.nodes[n].name = name

IsGlobalVariable(t, n) ==
    \/ \E name \in globalVariables : IsName(t, n, name)
    \/ /\ Is(t, n, "MemberAccess")
       /\ t.nodes[n].name = "sender"
       /\ IsName(t, t.nodes[n].prev, "msg")

\* trigger is the character that asked for the completion, if one did.
doComplete(t, u, p, trigger) ==
    LET n == CompletedNode(t, u, p)
        expr == Expression(t, n)
    IN  IF trigger = "*" THEN getNatspecCompletion(t, u, p)
        ELSE IF trigger = "quote" /\ ~Is(t, n, "ImportDirective") THEN NoCompletion
        ELSE IF IsName(t, n, "this")
        THEN [kind |-> "this", nodes |-> getThisCompletions(t, u, p)]
        ELSE IF IsName(t, n, "super")
        THEN [kind |-> "super", nodes |-> getSuperCompletions(t, u, p)]
        ELSE IF IsGlobalVariable(t, n) THEN [kind |-> "global", nodes |-> <<n>>]
        ELSE IF Is(t, n, "ImportDirective") THEN [kind |-> "path", nodes |-> <<n>>]
        ELSE IF TypeOf(t, expr) \notin expressionNodeTypes
        THEN [kind |-> "default", nodes |-> findDefinitionNodes(t, u, p, Tree(t, u))]
        ELSE IF isArrayAccess(t, n) THEN [kind |-> "array", nodes |-> <<>>]
        ELSE [kind |-> "member", nodes |-> getMemberAccessCompletions(t, u, p, n)]

\* getCompletionsFromNodes: the labels of the items made of nodes; nodes
\* without a name, and all but the first of a name, make none.
Labels(t, answer) ==
    {GetName(t, answer.nodes[i]) : i \in DOMAIN answer.nodes} \ {NoName}
=============================================================================
