--------------------------- MODULE EditorFeatures ---------------------------
(***************************************************************************)
(* What the editor shows of the graph that the analyses of module Analysis *)
(* leave, with the operators of Analyzer and Queries for its parameters.   *)
(***************************************************************************)
EXTENDS Completion, Analysis

-----------------------------------------------------------------------------
(* Properties *)

\* The node is of the tree that its file shows.
Current(n) == FileOf(n) = CurrentFile(n[1])

UseTypes ==
    {"Identifier", "UserDefinedTypeName", "MemberAccess", "ModifierInvocation",
     "UsingForDeclaration", "AssemblyCall"}

\* The uses that the files show and that have found what they name.
ResolvedUses ==
    {n \in Nodes : /\ TypeOf(s, n) \in UseTypes
                   /\ Current(n)
                   /\ s.nodes[n].alive
                   /\ s.nodes[n].parent # None}

\* Nothing is under way, and no file was ever analysed twice at a time.
Quiet == overlapped = {} /\ \A t \in Tasks : ~Busy(t)

NodeOrNone == Nodes \cup {None}
IsNodeList(list) == \A i \in DOMAIN list : list[i] \in Nodes

\* Every reference is to a node there is, of whichever analysis.
GraphOK ==
    /\ \A n \in Nodes :
        LET node == s.nodes[n]
        IN  /\ {node.parent, node.expr, node.decl, node.prev} \subseteq NodeOrNone
            /\ \A list \in {node.children, node.types, node.bases, node.aliases,
                             node.imports, node.exports, node.fields} : IsNodeList(list)
            /\ node.alive \in BOOLEAN
    /\ \A u \in Indexed :
        /\ s.entries[u].tree \in Nodes
        /\ IsNodeList(s.orphans[s.entries[u].orphans])

\* The definitions that files show and that stand where definition d stood:
\* of its type, its name and the name of what it is in.
Successors(d) ==
    LET Place(n) == <<TypeOf(s, n), GetName(s, n),
                      LET p == s.nodes[n].parent
                      IN  IF p = None THEN NoName ELSE GetName(s, p)>>
    IN  {n \in Nodes : n[1] = d[1] /\ Current(n) /\ Place(n) = Place(d)}

\* Use n has a definition of an old tree although the new one has it too.
LeftBehind(n) ==
    LET d == GetDefinitionNode(s, n)
    IN  d # None /\ ~Current(d) /\ Successors(d) # {}

IsImportAlias(n) == Is(s, s.nodes[n].expr, "ImportDirective")

\* A use follows its definition: when the definition's file has been analysed
\* again, the uses that other files make of it are handed to the new tree
\* (exportNodes, findAndAddExportChildren).  Only the names that an import
\* directive gives to what it imports are not registered as uses.
UsesFollowDefinitions ==
    Quiet => \A n \in ResolvedUses : LeftBehind(n) => IsImportAlias(n)

\* Each node up to the root of the tree its file shows is in the list of
\* children of the one above.
RECURSIVE Hangs(_)
Hangs(n) ==
    LET p == s.nodes[n].parent
    IN  \/ n = s.entries[n[1]].tree
        \/ p # None /\ Contains(s.nodes[p].children, n) /\ Hangs(p)

ImportsResolved(u) ==
    \A n \in Nodes : Is(s, n, "ImportDirective") /\ n[1] = u /\ Current(n)
                        => s.nodes[n].uri \in Indexed

ReferencesAt(u, p) ==
    LET found == findReferences(s, u, p)
    IN  {Location(s, found[i]) : i \in DOMAIN found}

\* The declarations that files show, of what a file can name.
Declarations ==
    {n \in Nodes :
        /\ TypeOf(s, n) \in (definitionNodeTypes \ {"UserDefinedTypeName"})
                                \cup declarationNodeTypes
        /\ Current(n)
        /\ s.nodes[n].alive
        /\ Named(s, n)
        /\ Hangs(n)}

\* A hover shows the syntax of what is declared there.
HoverShows(u, p, d) ==
    LET shown == findHoverForNodeAtPosition(s, u, p)
    IN  shown # None /\ Location(s, shown) = Location(s, d)

\* The features agree: at a use, and at the declaration itself, the editor goes
\* to the definition, a hover describes that, and the references it lists
\* contain the use, in whichever files the two are, if the definition can be
\* reached from the root of its file.  (A use may be resolved by the other of
\* two files that import each other: then its own import must not have failed.)
UsesAndDefinitionsAgree ==
    Quiet => \A n \in ResolvedUses \cup Declarations :
        LET d == GetDefinitionNode(s, n)
            u == n[1]
            p == s.nodes[n].at[1]
        IN  isAnalyzed(s, u) /\ ImportsResolved(u) /\ d # None /\ Named(s, d) /\ Hangs(d)
                => /\ findDefinition(s, u, p) = <<Location(s, d)>>
                   /\ Described(s, d) => HoverShows(u, p, d)
                   /\ Location(s, n) \in ReferencesAt(u, p)

\* The two ways names are looked up agree: a plain name that the analysis has
\* resolved is among those a completion at its place offers.  The members of
\* structures and events are named by arguments, and the first and the last
\* line of a contract are not within it for a completion.
ResolvedNamesAreOffered ==
    Quiet => \A n \in ResolvedUses :
        LET d == GetDefinitionNode(s, n)
            u == n[1]
            p == s.nodes[n].at[1]
            answer == doComplete(s, u, p, "")
        IN  /\ isAnalyzed(s, u)
            /\ Is(s, n, "Identifier")
            /\ s.nodes[n].expr = None
            /\ d # None
            /\ Hangs(d)
            /\ TypeOf(s, s.nodes[d].parent)
                    \notin {"StructDefinition", "EventDefinition"}
            /\ isPositionShadowedByNode(s, p, findContractDefinition(s, u, p))
            /\ answer.kind = "default"
            => GetName(s, n) \in Labels(s, answer)
-----------------------------------------------------------------------------
(* Statements that the code does not keep *)

\* No reference to code that is gone: when every file shows the tree of its
\* text, what the editor lists as the references of a name are names in those
\* texts.
ReferencesExist ==
    LET names == {Location(s, n) : n \in {m \in Nodes : Current(m)}}
    IN  Quiet /\ Pending = {} =>
            \A u \in Indexed : \A p \in NamePositions(u) :
                isAnalyzed(s, u) => ReferencesAt(u, p) \subseteq names

\* UsesFollowDefinitions without its exception.
AliasesFollowDefinitions == Quiet => ~\E n \in ResolvedUses : LeftBehind(n)

\* Nor is such code the type of a name.
TypeDefinitionsExist ==
    LET names == {Location(s, n) : n \in {m \in Nodes : Current(m)}}
    IN  Quiet /\ Pending = {} =>
            \A u \in Indexed : \A p \in NamePositions(u) :
                LET types == findTypeDefinition(s, u, p)
                IN  isAnalyzed(s, u) =>
                        \A i \in DOMAIN types : Location(s, types[i]) \in names

\* The signature of what is called is read from the text in which it is
\* declared.
SignaturesAreRead ==
    Quiet => \A n \in ResolvedUses :
        LET callee == signatureHelp(s, n[1], s.nodes[n].at[1])
        IN  isAnalyzed(s, n[1]) /\ callee # None =>
                s.texts[FileOf(callee)] = s.entries[callee[1]].text

\* A rename replaces every name once.
RenameEditsAreDistinct ==
    Quiet => \A u \in Indexed : \A p \in NamePositions(u) :
        LET edits == RenameEdits(s, u, p)
        IN  isAnalyzed(s, u) =>
                \A i, j \in DOMAIN edits :
                    Location(s, edits[i]) = Location(s, edits[j]) => i = j

\* Of two files that import each other, each finds the contract of the other
\* (the parser's texts "mutualA" and "mutualB" use nothing else).
CircularUsesResolve ==
    (~\E t \in Tasks : Busy(t)) /\ Pending = {} /\ (\A u \in Indexed : isAnalyzed(s, u))
        => \A n \in Nodes :
                Is(s, n, "UserDefinedTypeName") /\ Current(n)
                    => s.nodes[n].parent # None

\* Every scope of a file can be reached from its root.
EveryScopeHangs ==
    Quiet => \A n \in Nodes :
        Current(n) /\ TypeOf(s, n) \in {"IfStatement", "WhileStatement",
            "DoWhileStatement", "ForStatement", "TryStatement", "VariableDeclaration"}
        => Hangs(n)

\* UndisturbedTreeIsText without its condition on overlaps,
TreeIsText ==
    \A u \in Indexed \ dropped :
        (~\E t \in Tasks : Busy(t)) /\ u \notin Pending /\ isAnalyzed(s, u)
            => s.texts[CurrentFile(u)] = docs[u]

\* and without that on walks: every change is analysed, if late.
ChangesAreAnalyzed ==
    \A u \in Indexed \ (Pending \cup overlapped) :
        isAnalyzed(s, u) => s.texts[CurrentFile(u)] = docs[u]
=============================================================================
