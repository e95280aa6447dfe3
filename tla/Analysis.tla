------------------------------ MODULE Analysis ------------------------------
(***************************************************************************)
(* analyzeSolFile and what calls it: the analyses of the files of a        *)
(* workspace, as they overlap, and the requests of the editor that change  *)
(* what they have made: a rename marks the nodes that it has edited, and a *)
(* completion analyses a doctored text of the file first.  Every file is   *)
(* open in the editor.                                                     *)
(*                                                                         *)
(* An analysis is synchronous but for its import directives: at each one   *)
(* it waits for the project to resolve the import, and it analyses an      *)
(* imported file that was not analysed yet before it goes on.  A task is   *)
(* one call of analyzeSolFile with the calls it has made of itself: a      *)
(* stack of frames [f, at], the running one first, where at counts the     *)
(* children of the source unit.  Between two steps every task waits at an  *)
(* import directive.                                                       *)
(*                                                                         *)
(* This module has the calls, the entries of solFileIndex and the texts.   *)
(* What the Node classes do to the trees is a parameter: operators that    *)
(* take the state and return it with the trees changed.  They are those of *)
(* modules Analyzer and Queries, which the name after each one tells.      *)
(***************************************************************************)
EXTENDS SolNodes

CONSTANTS
    Uris,           \* the files there may be
    Texts,          \* the texts that files have
    Ast,            \* the parser: [Texts -> syntax trees and None]
    Workspaces,     \* the workspaces: the indexed files and their texts
    Edits,          \* what a text may be changed to: [Texts -> SUBSET Texts]
    Doctored,       \* what a completion after a "." analyses: the text with
                    \* "_;" inserted, cut off at the end of the line
    OnDisk,         \* the files realpathSync finds
    MayFail,        \* the imports that the project may fail to resolve
    Walked,         \* the files of projects that walk their imports first
    Tasks,          \* the analyses that may be under way
    Asked,          \* the files that renames and completions are asked in
    RenamesAt,      \* the positions that renames are asked at
    MaxGen,         \* bound: analyses of one file
    MaxRenames      \* bound: renames

CONSTANTS
    TakeUsesOut(_, _),              \* RemoveImportNodes
    PlantTree(_, _, _),             \* Plant
    AcceptParts(_, _, _, _, _),     \* AcceptEach
    HangImport(_, _, _, _, _),      \* MakeImport
    HandOver(_, _, _),              \* TransferOrphans
    NameImport(_, _, _, _),         \* FinishImport
    EditsAt(_, _, _),               \* RenameEdits
    MarkEdited(_, _)                \* Renamed

ASSUME AnalysisAssumption ==
    /\ Ast \in [Texts -> {Ast[x] : x \in Texts}]
    /\ \A x \in Texts : LET children == Kids(Ast[x], "children")
                        IN  Ast[x] # None => children \in Seq(Range(children))
    /\ \A disk \in Workspaces :
            /\ disk \in [DOMAIN disk -> Texts]
            /\ DOMAIN disk \subseteq Uris
    /\ Edits \in [Texts -> SUBSET Texts]
    /\ Doctored \in [DOMAIN Doctored -> Texts]
    /\ OnDisk \subseteq Uris
    /\ MayFail \cup Walked \cup Asked \subseteq Uris
    /\ MaxGen \in Nat
    /\ MaxRenames \in Nat

VARIABLES
    s,              \* the graph, see module SolNodes
    tasks,          \* [Tasks -> stacks of frames]
    docs,           \* the editor's text of every file
    changed,        \* the files whose debounced analysis is due
    walking,        \* the analyses that wait for preAnalyze: <<file, reason>>
    overlapped,     \* history: the files that were analysed twice at a time
    dropped,        \* history: the files whose last change was not analysed,
                    \* as the walk of their imports failed
    renames         \* the renames so far

vars == <<s, tasks, docs, changed, walking, overlapped, dropped, renames>>

Statuses == {"LOADED", "ANALYZED", "ERRORED"}

\* The files of solFileIndex.
Indexed == DOMAIN s.entries

EmptyTrees(disk) == {EmptyTree(u) : u \in DOMAIN disk}

Root(t, f) == Id(f, Ast[t.texts[f]])
Children(t, f) == Kids(Ast[t.texts[f]], "children")

Busy(t) == tasks[t] # <<>>

UnderAnalysis(u) ==
    \E t \in Tasks : \E i \in DOMAIN tasks[t] : tasks[t][i].f[1] = u

\* The Node classes change trees and the lists of orphans, and may throw.
WithTrees(t, r) ==
    [nodes |-> r.nodes, entries |-> t.entries, orphans |-> r.orphans,
     texts |-> t.texts, failed |-> r.failed]

-----------------------------------------------------------------------------
(* analyzeSolFile up to the first child of the source unit *)

\* The list of orphans that an entry has is that of its last analysis.
NextGen(t, u) == t.entries[u].orphans[2] + 1

With(map, key, value) ==
    [k \in DOMAIN map \cup {key} |-> IF k = key THEN value ELSE map[k]]

\* The entry u takes text x for analysis f, with an empty list of orphans.
Take(t, u, x, f) ==
    LET entry == [text |-> x, status |-> IF Ast[x] = None THEN "ERRORED" ELSE "ANALYZED",
                  tree |-> t.entries[u].tree, orphans |-> f]
    IN  [nodes |-> t.nodes, entries |-> [t.entries EXCEPT ![u] = entry],
         orphans |-> With(t.orphans, f, <<>>), texts |-> With(t.texts, f, x),
         failed |-> t.failed]

\* The uses an analysed file has made of others are taken out of them.
Uproot(t, entry) ==
    IF entry.status = "ANALYZED" THEN WithTrees(t, TakeUsesOut(t, entry.tree)) ELSE t

ShowRoot(t, f) == [t EXCEPT !.entries[f[1]].tree = Root(t, f)]

\* SourceUnitNode.accept: the entry shows the new root from here on.
PlantRoot(t, f) == ShowRoot(WithTrees(t, PlantTree(t, f, Ast[t.texts[f]])), f)

\* Start to analyse text x of file u, from its first child: the new state and
\* the new frame, none when the text does not parse.
Begin(t, u, x) ==
    LET f == <<u, NextGen(t, u)>>
        taken == Take(t, u, x, f)
    IN  IF Ast[x] = None THEN [s |-> taken, stack |-> <<>>]
        ELSE [s |-> PlantRoot(Uproot(taken, t.entries[u]), f),
              stack |-> <<[f |-> f, at |-> 1]>>]

-----------------------------------------------------------------------------
(* A task runs until it waits for an import to be resolved or has ended *)

\* The first import directive from the i-th child on, the end when there is none.
NextImport(children, i) ==
    LET imports == {j \in DOMAIN children : i <= j /\ children[j].type = "ImportDirective"}
    IN  IF imports = {} THEN Len(children) + 1
        ELSE CHOOSE j \in imports : \A k \in imports : j <= k

\* The import directive a frame is at.
CurrentImport(t, frame) == Children(t, frame.f)[frame.at]

Catch(t) == [t EXCEPT !.failed = FALSE]

\* An analysis once it is at its i-th child: it has thrown, as an import directive
\* does in a file that is not on disk, it waits, or it has come to its end.
Rest(t, f, i) ==
    LET atImport == i \in DOMAIN Children(t, f)
    IN  CASE t.failed \/ (atImport /\ f[1] \notin OnDisk) -> [s |-> Catch(t), stack |-> <<>>]
          [] ~t.failed /\ atImport /\ f[1] \in OnDisk ->
                [s |-> t, stack |-> <<[f |-> f, at |-> i]>>]
          [] OTHER -> [s |-> ShowRoot(t, f), stack |-> <<>>]

\* Accept the children from the i-th one up to the next import directive.
Run(t, f, i) ==
    LET next == NextImport(Children(t, f), i)
        parts == SubSeq(Children(t, f), i, next - 1)
    IN  Rest(WithTrees(t, AcceptParts(t, f, parts, Root(t, f), None)), f, next)

\* The file of the import directive that a frame is at has been analysed.
PassImport(t, frame) ==
    Run(WithTrees(t, NameImport(t, frame.f, CurrentImport(t, frame), Root(t, frame.f))),
        frame.f, frame.at + 1)

\* ... and that was for this directive.
TakeOver(t, frame) ==
    WithTrees(t, HandOver(t, frame.f, Id(frame.f, CurrentImport(t, frame))))

\* A frame goes on when those it has called have all ended; r is what they
\* have come to.
Return(r, frame) ==
    IF r.stack = <<>> THEN PassImport(TakeOver(r.s, frame), frame)
    ELSE [s |-> r.s, stack |-> Append(r.stack, frame)]

\* The frames go on one after the other, the first of them after r.
Resume(r, frames) ==
    LET after[i \in 0 .. Len(frames)] ==
            IF i = 0 THEN r ELSE Return(after[i - 1], frames[i])
    IN  after[Len(frames)]

Enter(r) == IF r.stack = <<>> THEN r ELSE Run(r.s, r.stack[1].f, 1)

\* The import node, once the project has resolved its path to r.
PlaceImport(t, frame, r) ==
    WithTrees(t, HangImport(t, frame.f, CurrentImport(t, frame), Root(t, frame.f), r))

\* Mutant: the analysis of the imported file is put behind that of its importer.
ImportedBehind(t, stack, r) ==
    LET Behind(b) == [b EXCEPT !.stack = stack \o @]
    IN  IF r \notin DOMAIN t.entries \/ isAnalyzed(t, r)
        THEN Resume(PassImport(t, Head(stack)), Tail(stack))
        ELSE Behind(Begin(t, r, t.entries[r].text))

\* Mutant: an import whose file is analysed already is not left behind.
ImportedAgain(t, stack, r) ==
    IF r \notin DOMAIN t.entries \/ isAnalyzed(t, r)
    THEN [s |-> t, stack |-> stack]
    ELSE Resume(Enter(Begin(t, r, t.entries[r].text)), stack)

\* An import directive at the top of a stack, given its node: its file r is not
\* indexed or has been analysed, or it is analysed first.
Imported(t, stack, r) ==
    IF t.failed \/ r \notin DOMAIN t.entries \/ isAnalyzed(t, r)
    THEN Resume(PassImport(t, Head(stack)), Tail(stack))
    ELSE Resume(Enter(Begin(t, r, t.entries[r].text)), stack)

-----------------------------------------------------------------------------

InitWith(disk) ==
    /\ s = [nodes |-> [n \in EmptyTrees(disk) |-> EmptyNode(n[1])],
            entries |-> [u \in DOMAIN disk |-> [text |-> disk[u], status |-> "LOADED",
                                         tree |-> EmptyTree(u),
                                         orphans |-> <<u, 0>>]],
            orphans |-> [f \in (DOMAIN disk) \X {0} |-> <<>>],
            texts |-> [f \in {} |-> None],
            failed |-> FALSE]
    /\ tasks = [t \in Tasks |-> <<>>]
    /\ docs = disk
    /\ changed = {}
    /\ walking = {}
    /\ overlapped = {}
    /\ dropped = {}
    /\ renames = 0

Init == \E disk \in Workspaces : InitWith(disk)

\* What a task has come to.
Suspend(t, ran) ==
    /\ s' = ran.s
    /\ tasks' = [tasks EXCEPT ![t] = ran.stack]

\* Start an analysis of u in an idle task.
Start(t, u, x) ==
    /\ ~Busy(t)
    /\ NextGen(s, u) <= MaxGen
    /\ Suspend(t, Enter(Begin(s, u, x)))
    /\ overlapped' = IF UnderAnalysis(u) THEN overlapped \cup {u} ELSE overlapped
    /\ dropped' = IF x = docs[u] THEN dropped \ {u} ELSE dropped
    /\ UNCHANGED renames

\* Crawling the imports of a file to validate analyses a file that was not
\* analysed yet, and so does indexing where preAnalyze does nothing.
AnalyzeUnanalyzed(t, u) ==
    /\ ~isAnalyzed(s, u)
    /\ Start(t, u, s.entries[u].text)
    /\ UNCHANGED <<docs, changed, walking>>

\* The editor reports a changed text; its analysis is due 240 ms later.
Edit(u, x) ==
    /\ x \in Edits[docs[u]]
    /\ NextGen(s, u) <= MaxGen
    /\ docs' = [docs EXCEPT ![u] = x]
    /\ changed' = changed \cup {u}
    /\ UNCHANGED <<s, tasks, walking, overlapped, dropped, renames>>

\* Mutant: the text of the last analysis is analysed again.
AnalyzeChangedStale(t, u) ==
    /\ u \in changed \ Walked
    /\ changed' = changed \ {u}
    /\ Start(t, u, s.entries[u].text)
    /\ UNCHANGED <<docs, walking>>

AnalyzeChanged(t, u) ==
    /\ u \in changed \ Walked
    /\ changed' = changed \ {u}
    /\ Start(t, u, docs[u])
    /\ UNCHANGED <<docs, walking>>

\* preAnalyze of a Hardhat 3 project: between the decision to analyse a file,
\* because it is not analysed yet or because it has changed, and the start of
\* the analysis the project walks the file's imports.
PreAnalyze(u, reason) ==
    /\ u \in Walked
    /\ <<u, reason>> \notin walking
    /\ \/ reason = "unanalyzed" /\ ~isAnalyzed(s, u)
       \/ reason = "changed" /\ u \in changed
    /\ changed' = IF reason = "changed" THEN changed \ {u} ELSE changed
    /\ walking' = walking \cup {<<u, reason>>}
    /\ UNCHANGED <<s, tasks, docs, overlapped, dropped, renames>>

\* The walk has ended; the text is read now.
AnalyzeWalked(t, u, reason) ==
    /\ <<u, reason>> \in walking
    /\ walking' = walking \ {<<u, reason>>}
    /\ Start(t, u, IF reason = "changed" THEN docs[u] ELSE s.entries[u].text)
    /\ UNCHANGED <<docs, changed>>

\* The walk throws, and the analysis does not start: that of a change is not made
\* up for by another one.
WalkFails(u, reason) ==
    /\ <<u, reason>> \in walking
    /\ walking' = walking \ {<<u, reason>>}
    /\ dropped' = IF reason = "changed" THEN dropped \cup {u} ELSE dropped
    /\ UNCHANGED <<s, tasks, docs, changed, overlapped, renames>>

\* What the project may answer to resolveImportPath: an import it fails to
\* resolve has the empty path, which is no file's.
Answers(name) == {name} \cup (IF name \in MayFail THEN {""} ELSE {})

Resolve(t) ==
    /\ Busy(t)
    /\ \E path \in Answers(CurrentImport(s, Head(tasks[t])).name) :
            Suspend(t, Imported(PlaceImport(s, Head(tasks[t]), path), tasks[t], path))
    /\ UNCHANGED <<docs, changed, walking, overlapped, dropped, renames>>

-----------------------------------------------------------------------------
(* Requests of the editor *)

\* The analysis of an edit of u is due.
Due(u) == u \in changed \/ <<u, "changed">> \in walking

\* onCompletion: the text is analysed as it is, or doctored when a "." asked
\* for the completion: the client asks for that as the "." is typed, while the
\* analysis of the edit is due.  The answer is doComplete in the state that
\* the analysis leaves.
Complete(t, u, trigger) ==
    /\ trigger = "." => Due(u) /\ docs[u] \in DOMAIN Doctored
    /\ Start(t, u, IF trigger = "." THEN Doctored[docs[u]] ELSE docs[u])
    /\ UNCHANGED <<docs, changed, walking>>

Nodes == DOMAIN s.nodes
CurrentFile(u) == FileOf(s.entries[u].tree)

\* The positions of the names in the tree a file shows.
NamePositions(u) ==
    {s.nodes[n].at[1] : n \in {m \in Nodes : FileOf(m) = CurrentFile(u) /\ s.nodes[m].at # <<>>}}

\* onRename: the editor renames what is named at p.
Rename(u, p) ==
    LET edits == EditsAt(s, u, p)
    IN  /\ renames < MaxRenames
        /\ renames' = renames + 1
        /\ isAnalyzed(s, u)
        /\ edits # <<>>
        /\ s' = [s EXCEPT !.nodes = MarkEdited(s, edits).nodes]
        /\ UNCHANGED <<tasks, docs, changed, walking, overlapped, dropped>>

Next ==
    \/ \E t \in Tasks, u \in Indexed : AnalyzeUnanalyzed(t, u)
    \/ \E u \in Indexed, x \in Texts : Edit(u, x)
    \/ \E t \in Tasks, u \in Indexed : AnalyzeChanged(t, u)
    \/ \E u \in Indexed, reason \in {"unanalyzed", "changed"} :
            \/ PreAnalyze(u, reason)
            \/ \E t \in Tasks : AnalyzeWalked(t, u, reason)
            \/ WalkFails(u, reason)
    \/ \E t \in Tasks : Resolve(t)
    \/ \E t \in Tasks, u \in Asked \cap Indexed, trigger \in {"", "."} :
            Complete(t, u, trigger)
    \/ \E u \in Asked \cap Indexed : \E p \in NamePositions(u) \cap RenamesAt : Rename(u, p)

Spec == Init /\ [][Next]_vars

\* Every project answers resolveImportPath in the end, if only with an error
\* when its time is up: weak fairness of each task's Resolve, in the form that
\* has Busy(t) for ENABLED Resolve(t).
Fairness == \A t \in Tasks : []<>~Busy(t) \/ []<><<Resolve(t)>>_vars

FairSpec == Spec /\ Fairness
-----------------------------------------------------------------------------
(* Properties *)

\* The files whose tree is not of their text yet.
Pending == changed \cup {w[1] : w \in walking}

WaitsAtImport(frame) ==
    /\ frame.f \in DOMAIN s.texts
    /\ frame.f[1] \in Indexed
    /\ frame.at \in DOMAIN Children(s, frame.f)
    /\ CurrentImport(s, frame).type = "ImportDirective"

\* Between two steps nothing has thrown, entries show a tree of their own file,
\* and every analysis that is under way waits at an import directive of the text
\* that it was begun with, however many of that file have begun since.
TypeOK ==
    /\ docs \in [Indexed -> Texts]
    /\ \A u \in Indexed :
        /\ s.entries[u].status \in Statuses
        /\ s.entries[u].text \in Texts
        /\ s.entries[u].tree[1] = u
    /\ ~s.failed
    /\ DOMAIN tasks = Tasks
    /\ \A t \in Tasks : \A i \in DOMAIN tasks[t] : WaitsAtImport(tasks[t][i])
    /\ changed \cup overlapped \cup dropped \subseteq Indexed
    /\ walking \subseteq (Walked \cap Indexed) \X {"unanalyzed", "changed"}
    /\ renames \in 0 .. MaxRenames

\* A file that has no change to be analysed shows the tree of its text in the
\* editor, through all the analyses that imports, indexing, changes and
\* completions have started and while they are under way, if it was never
\* analysed twice at a time and no walk of its imports has failed since its text
\* has changed (analyzeSolFile reads the text it is given or the one of the
\* entry, stores it there, and analyses an import only if its file is not
\* analysed).
UndisturbedTreeIsText ==
    \A u \in Indexed \ (Pending \cup overlapped \cup dropped) :
        isAnalyzed(s, u) => s.texts[CurrentFile(u)] = docs[u]

\* An analysis ends, with all it has started, whatever imports whatever.
AnalysesEnd == \A t \in Tasks : Busy(t) ~> ~Busy(t)
=============================================================================
