--------------------------- MODULE AnalysisProofs ---------------------------
(***************************************************************************)
(* Proofs about the overlapping analyses of a workspace, for any files,    *)
(* texts, parser, imports and number of tasks, and whatever the Node       *)
(* classes do to the trees: the operators that module Analysis takes for   *)
(* that are not restricted.                                                *)
(*                                                                         *)
(* A step runs one task: an analysis goes on to its next import, those it  *)
(* was called by go on when it ends, and one that begins may be the next.  *)
(* On the way an entry only comes to show a tree of an analysis that is    *)
(* under way (Comes), by induction over the frames of the stack.  As long  *)
(* as a file was never analysed twice at a time there is no other than the *)
(* one whose tree it shows already, and that tree is of the text that the  *)
(* entry took when it began (Fitting): an import is analysed in passing    *)
(* only if it is not analysed, and a file that is under way is.  That text *)
(* is the editor's, unless a change of it is due or was dropped with the   *)
(* walk of its imports (TextsInv).                                         *)
(***************************************************************************)
EXTENDS Analysis, WellFoundedInduction, TLAPS

-----------------------------------------------------------------------------
(* Numbers, and recursion over the frames of a stack *)

\* A set of naturals has a least element.
LEMMA LeastNumber ==
  ASSUME NEW T, T \subseteq Nat, T # {}
  PROVE  \E x \in T : \A y \in T : x <= y
<1> DEFINE R == OpToRel(<, Nat)
<1>1. IsWellFoundedOn(R, Nat)
  BY NatLessThanWellFounded
<1>2. \E x \in T : \A y \in T : <<y, x>> \notin R
  <2> HIDE DEF R
  <2> QED BY <1>1, WFMin
<1>3. \A x, y \in Nat : x < y => <<x, y>> \in R
  BY DEF OpToRel
<1>4. PICK x \in T : \A y \in T : <<y, x>> \notin R
  BY <1>2
<1>5. \A y \in T : ~(y < x)
  <2> HIDE DEF R
  <2> QED BY <1>3, <1>4, Zenon
<1>6. \A y \in T : y \in Nat /\ x \in Nat
  BY <1>4
<1> HIDE DEF R
<1> QED BY <1>4, <1>5, <1>6, SMT

\* g has what the frames up to each one have come to.
Unrolls(g, r, frames, n) ==
  g = [i \in 0 .. n |-> IF i = 0 THEN r ELSE Return(g[i - 1], frames[i])]

\* Every stack can be run from one end to the other.
LEMMA StacksUnroll ==
  ASSUME NEW r, NEW frames, NEW n \in Nat
  PROVE  \E g : Unrolls(g, r, frames, n)
<1> DEFINE T == {k \in Nat : ~\E g : Unrolls(g, r, frames, k)}
<1>1. SUFFICES ASSUME T # {} PROVE FALSE
  OBVIOUS
<1>2. PICK k \in T : \A j \in T : k <= j
  <2> HIDE DEF T
  <2>1. T \subseteq Nat
    BY DEF T
  <2> QED BY <1>1, <2>1, LeastNumber
<1>3. CASE k = 0
  <2>1. Unrolls([i \in 0 .. 0 |-> r], r, frames, 0)
    BY DEF Unrolls
  <2> QED BY <1>2, <1>3, <2>1
<1>4. CASE k # 0
  <2>1. k - 1 \in Nat /\ k - 1 \notin T
    BY <1>2, <1>4
  <2>2. PICK g : Unrolls(g, r, frames, k - 1)
    BY <2>1
  <2> DEFINE h == [i \in 0 .. k |-> IF i = k THEN Return(g[k - 1], frames[k]) ELSE g[i]]
  <2>3. ASSUME NEW i \in 0 .. k
        PROVE  h[i] = IF i = 0 THEN r ELSE Return(h[i - 1], frames[i])
    <3>1. CASE i = k
      <4>1. h[i] = Return(g[k - 1], frames[k]) /\ h[i - 1] = g[k - 1]
        BY <1>2, <1>4, <3>1
      <4> QED BY <1>4, <3>1, <4>1
    <3>2. CASE i # k
      <4>1. i \in 0 .. k - 1 /\ h[i] = g[i]
        BY <1>2, <3>2
      <4>2. g[i] = IF i = 0 THEN r ELSE Return(g[i - 1], frames[i])
        BY <2>2, <4>1 DEF Unrolls
      <4>3. i # 0 => h[i - 1] = g[i - 1]
        BY <1>2, <4>1
      <4> QED BY <4>1, <4>2, <4>3
    <3> QED BY <3>1, <3>2
  <2>4. Unrolls(h, r, frames, k)
    <3>1. h = [i \in 0 .. k |-> h[i]]
      OBVIOUS
    <3> HIDE DEF h
    <3> QED BY <2>3, <3>1 DEF Unrolls
  <2> QED BY <1>2, <2>4
<1> QED BY <1>3, <1>4

\* Resume, which is defined by recursion, is a run of that kind.
LEMMA ResumeUnfolds ==
  ASSUME NEW r, NEW frames, Len(frames) \in Nat
  PROVE  \E g : Unrolls(g, r, frames, Len(frames)) /\ Resume(r, frames) = g[Len(frames)]
<1> DEFINE body(g) == [i \in 0 .. Len(frames) |->
                         IF i = 0 THEN r ELSE Return(g[i - 1], frames[i])]
           after == CHOOSE g : g = body(g)
<1>1. \E g : g = body(g)
  <2>1. PICK g : Unrolls(g, r, frames, Len(frames))
    BY StacksUnroll
  <2>2. g = body(g)
    BY <2>1 DEF Unrolls
  <2> QED BY <2>2, Zenon
<1>2. after = body(after)
  BY <1>1
<1>3. Resume(r, frames) = after[Len(frames)]
  BY DEF Resume
<1> QED BY <1>2, <1>3 DEF Unrolls
-----------------------------------------------------------------------------
(* Graphs, and what the steps of an analysis leave of them *)

\* The fields of a graph, and of an entry.
IsState(t) ==
  \E n, e, o, x, b :
      t = [nodes |-> n, entries |-> e, orphans |-> o, texts |-> x, failed |-> b]

IsEntry(e) ==
  \E x, y, n, o : e = [text |-> x, status |-> y, tree |-> n, orphans |-> o]

\* States and entries are records, written out here with their fields.
LEMMA Literals ==
  /\ \A n, e, o, x, b :
        IsState([nodes |-> n, entries |-> e, orphans |-> o, texts |-> x, failed |-> b])
  /\ \A x, y, n, o : IsEntry([text |-> x, status |-> y, tree |-> n, orphans |-> o])
<1>1. ASSUME NEW n, NEW e, NEW o, NEW x, NEW b
      PROVE  IsState([nodes |-> n, entries |-> e, orphans |-> o, texts |-> x, failed |-> b])
  BY Zenon DEF IsState
<1>2. ASSUME NEW x, NEW y, NEW n, NEW o
      PROVE  IsEntry([text |-> x, status |-> y, tree |-> n, orphans |-> o])
  BY Zenon DEF IsEntry
<1> QED BY <1>1, <1>2

\* Entries show trees of their own file, and have the list of orphans of its last
\* analysis.
EntryOK(t, u) ==
  /\ IsEntry(t.entries[u])
  /\ t.entries[u].status \in Statuses
  /\ t.entries[u].text \in Texts
  /\ t.entries[u].tree[1] = u
  /\ t.entries[u].orphans = <<u, t.entries[u].orphans[2]>>
  /\ t.entries[u].orphans[2] \in Nat

\* No analysis is of a later generation than the last one of its file.
TextOK(t, f) ==
  /\ f[1] \in DOMAIN t.entries
  /\ f = <<f[1], f[2]>>
  /\ f[2] \in 1 .. t.entries[f[1]].orphans[2]
  /\ t.texts[f] \in Texts

\* A graph that analyses can be in: entries and texts have the types that the
\* code gives them.
Graph(t) ==
  /\ IsState(t)
  /\ t.entries = [u \in DOMAIN t.entries |-> t.entries[u]]
  /\ t.texts = [f \in DOMAIN t.texts |-> t.texts[f]]
  /\ \A u \in DOMAIN t.entries : EntryOK(t, u)
  /\ \A f \in DOMAIN t.texts : TextOK(t, f)

\* From t to t2 no analysis has begun.
Kept(t, t2) ==
  /\ t2.texts = t.texts
  /\ DOMAIN t2.entries = DOMAIN t.entries
  /\ \A u \in DOMAIN t.entries :
        /\ t2.entries[u].text = t.entries[u].text
        /\ t2.entries[u].status = t.entries[u].status
        /\ t2.entries[u].orphans = t.entries[u].orphans

\* From t to t2 files have come to show other trees only of analyses in F.
Shows(t, t2, F) ==
  \A u \in DOMAIN t.entries :
      \/ t2.entries[u].tree = t.entries[u].tree
      \/ \E f \in F : f[1] = u /\ FileOf(t2.entries[u].tree) = f

\* Not even a tree has come to be shown.
Same(t, t2) == Kept(t, t2) /\ t2.entries = t.entries

\* What is done to trees changes no entry and no text.
LEMMA WithTreesKeeps ==
  ASSUME NEW t, NEW r, Graph(t)
  PROVE  /\ Graph(WithTrees(t, r))
         /\ Same(t, WithTrees(t, r))
<1> DEFINE t2 == WithTrees(t, r)
<1>1. t2 = [nodes |-> r.nodes, entries |-> t.entries, orphans |-> r.orphans,
            texts |-> t.texts, failed |-> r.failed]
  BY DEF WithTrees
<1> HIDE DEF t2
<1>2. t2.entries = t.entries /\ t2.texts = t.texts /\ IsState(t2)
  BY <1>1, Literals
<1>3. Graph(t2)
  BY <1>2 DEF Graph, EntryOK, TextOK
<1>4. Same(t, t2)
  BY <1>2 DEF Same, Kept
<1> QED BY <1>3, <1>4 DEF t2

LEMMA TreesKeep ==
  ASSUME NEW t, NEW t2, Same(t, t2)
  PROVE  \A F : Shows(t, t2, F)
BY DEF Same, Shows

\* One step after the other.
LEMMA KeptOnAndOn ==
  ASSUME NEW t, NEW t2, NEW t3, NEW F, NEW G,
         Kept(t, t2), Kept(t2, t3), Shows(t, t2, F), Shows(t2, t3, G)
  PROVE  Kept(t, t3) /\ Shows(t, t3, F \cup G)
<1>1. Kept(t, t3)
  BY DEF Kept
<1>2. ASSUME NEW u \in DOMAIN t.entries
      PROVE  \/ t3.entries[u].tree = t.entries[u].tree
             \/ \E f \in F \cup G : f[1] = u /\ FileOf(t3.entries[u].tree) = f
  <2>1. \/ t2.entries[u].tree = t.entries[u].tree
        \/ \E f \in F : f[1] = u /\ FileOf(t2.entries[u].tree) = f
    BY DEF Shows
  <2>2. \/ t3.entries[u].tree = t2.entries[u].tree
        \/ \E f \in G : f[1] = u /\ FileOf(t3.entries[u].tree) = f
    BY DEF Shows, Kept
  <2> QED BY <2>1, <2>2
<1> QED BY <1>1, <1>2 DEF Shows


WithTree(e, n) == [e EXCEPT !.tree = n]

LEMMA WithTreeOf ==
  ASSUME NEW x, NEW y, NEW n, NEW o, NEW m
  PROVE  WithTree([text |-> x, status |-> y, tree |-> n, orphans |-> o], m)
         = [text |-> x, status |-> y, tree |-> m, orphans |-> o]
BY DEF WithTree

LEMMA ShowRootOf ==
  ASSUME NEW n, NEW e, NEW o, NEW x, NEW b, NEW f
  PROVE  LET t == [nodes |-> n, entries |-> e, orphans |-> o, texts |-> x, failed |-> b]
         IN  ShowRoot(t, f)
             = [nodes |-> n,
                entries |-> [e EXCEPT ![f[1]] = WithTree(e[f[1]], Root(t, f))],
                orphans |-> o, texts |-> x, failed |-> b]
BY DEF ShowRoot, WithTree

\* An entry shows the root of an analysis of its file.
LEMMA RootShown ==
  ASSUME NEW t, Graph(t), NEW f \in DOMAIN t.texts
  PROVE  LET t2 == ShowRoot(t, f)
         IN  Graph(t2) /\ Kept(t, t2) /\ Shows(t, t2, {f}) /\ t2.failed = t.failed
             /\ FileOf(t2.entries[f[1]].tree) = f
<1> DEFINE u == f[1]
           e == WithTree(t.entries[u], Root(t, f))
           t2 == ShowRoot(t, f)
<1>0. u \in DOMAIN t.entries /\ f = <<u, f[2]>>
  BY DEF Graph, TextOK
<1>1. e = [text |-> t.entries[u].text, status |-> t.entries[u].status,
           tree |-> Root(t, f), orphans |-> t.entries[u].orphans]
  <2>1. PICK x, y, n, o :
          t.entries[u] = [text |-> x, status |-> y, tree |-> n, orphans |-> o]
    BY <1>0 DEF Graph, EntryOK, IsEntry
  <2>2. WithTree([text |-> x, status |-> y, tree |-> n, orphans |-> o], Root(t, f))
        = [text |-> x, status |-> y, tree |-> Root(t, f), orphans |-> o]
    BY WithTreeOf
  <2> QED BY <2>1, <2>2
<1>2. Root(t, f)[1] = u /\ FileOf(Root(t, f)) = f
  BY <1>0 DEF Root, Id, FileOf
<1>3. t2 = [nodes |-> t.nodes, entries |-> [t.entries EXCEPT ![u] = e],
            orphans |-> t.orphans, texts |-> t.texts, failed |-> t.failed]
  <2>1. PICK n, a, o, x, b :
          t = [nodes |-> n, entries |-> a, orphans |-> o, texts |-> x, failed |-> b]
    BY DEF Graph, IsState
  <2> DEFINE lit == [nodes |-> n, entries |-> a, orphans |-> o, texts |-> x, failed |-> b]
  <2>2. ShowRoot(lit, f) = [nodes |-> n,
                entries |-> [a EXCEPT ![f[1]] = WithTree(a[f[1]], Root(lit, f))],
                orphans |-> o, texts |-> x, failed |-> b]
    BY ShowRootOf
  <2>3. t = lit /\ t.nodes = n /\ t.entries = a /\ t.orphans = o /\ t.texts = x /\ t.failed = b
    BY <2>1
  <2> HIDE DEF lit
  <2> QED BY <2>2, <2>3
<1> HIDE DEF e, t2
<1>4. /\ IsState(t2) /\ t2.texts = t.texts /\ t2.failed = t.failed
      /\ t2.entries = [v \in DOMAIN t.entries |-> IF v = u THEN e ELSE t.entries[v]]
  BY <1>3, Literals DEF Graph
<1>5. /\ DOMAIN t2.entries = DOMAIN t.entries
      /\ t2.entries[u] = e
      /\ \A v \in DOMAIN t.entries : v # u => t2.entries[v] = t.entries[v]
      /\ t2.entries = [v \in DOMAIN t2.entries |-> t2.entries[v]]
  BY <1>0, <1>4
<1>6. /\ IsEntry(e) /\ e.text = t.entries[u].text /\ e.status = t.entries[u].status
      /\ e.orphans = t.entries[u].orphans /\ e.tree = Root(t, f)
  BY <1>1, Literals
<1>7. Kept(t, t2)
  BY <1>4, <1>5, <1>6 DEF Kept
<1>8. Graph(t2)
  <2>1. ASSUME NEW v \in DOMAIN t.entries PROVE EntryOK(t2, v)
    <3>1. EntryOK(t, v)
      BY DEF Graph
    <3>2. CASE v = u
      BY <1>2, <1>5, <1>6, <3>1, <3>2 DEF EntryOK
    <3>3. CASE v # u
      BY <1>5, <3>1, <3>3 DEF EntryOK
    <3> QED BY <3>2, <3>3
  <2>2. ASSUME NEW g \in DOMAIN t.texts PROVE TextOK(t2, g)
    BY <1>4, <1>7 DEF Graph, TextOK, Kept
  <2> QED BY <1>4, <1>5, <2>1, <2>2 DEF Graph
<1>9. Shows(t, t2, {f})
  BY <1>2, <1>5, <1>6 DEF Shows
<1> QED BY <1>2, <1>4, <1>5, <1>6, <1>7, <1>8, <1>9 DEF t2

\* Nor does it when an analysis ends by throwing, or a rename edits names.
LEMMA CatchKeeps ==
  ASSUME NEW t, Graph(t)
  PROVE  Graph(Catch(t)) /\ Same(t, Catch(t)) /\ Catch(t).failed = FALSE
<1>1. PICK n, e, o, x, b :
        t = [nodes |-> n, entries |-> e, orphans |-> o, texts |-> x, failed |-> b]
  BY DEF Graph, IsState
<1>2. Catch(t) = [nodes |-> n, entries |-> e, orphans |-> o, texts |-> x, failed |-> FALSE]
  <2> DEFINE no == FALSE
  <2> HIDE DEF no
  <2>1. Catch(t) = [t EXCEPT !.failed = no]
    BY DEF Catch, no
  <2>2. [t EXCEPT !.failed = no]
        = [nodes |-> n, entries |-> e, orphans |-> o, texts |-> x, failed |-> no]
    BY <1>1
  <2> QED BY <2>1, <2>2 DEF no
<1> DEFINE t2 == Catch(t)
<1> HIDE DEF t2
<1>3. /\ t2.entries = t.entries /\ t2.texts = t.texts /\ IsState(t2)
      /\ t2.failed = FALSE
  BY <1>1, <1>2, Literals DEF t2
<1>4. Graph(t2)
  BY <1>3 DEF Graph, EntryOK, TextOK
<1>5. Same(t, t2)
  BY <1>3 DEF Same, Kept
<1> QED BY <1>3, <1>4, <1>5 DEF t2

LEMMA NodesKeep ==
  ASSUME NEW t, Graph(t), NEW m
  PROVE  LET t2 == [t EXCEPT !.nodes = m]
         IN  Graph(t2) /\ Same(t, t2) /\ t2.failed = t.failed
<1>1. PICK n, e, o, x, b :
        t = [nodes |-> n, entries |-> e, orphans |-> o, texts |-> x, failed |-> b]
  BY DEF Graph, IsState
<1> DEFINE t2 == [t EXCEPT !.nodes = m]
<1>2. t2 = [nodes |-> m, entries |-> e, orphans |-> o, texts |-> x, failed |-> b]
  BY <1>1
<1> HIDE DEF t2
<1>3. /\ t2.entries = t.entries /\ t2.texts = t.texts /\ IsState(t2)
      /\ t2.failed = t.failed
  BY <1>1, <1>2, Literals
<1>4. Graph(t2)
  BY <1>3 DEF Graph, EntryOK, TextOK
<1>5. Same(t, t2)
  BY <1>3 DEF Same, Kept
<1> QED BY <1>3, <1>4, <1>5 DEF t2

-----------------------------------------------------------------------------
(* Running an analysis from one import directive to the next *)

\* The frames of analyses in F that wait at an import directive.
Waiting(t, F) ==
  {w \in [f : F \cap DOMAIN t.texts, at : Nat] :
      /\ Ast[t.texts[w.f]] # None
      /\ w.at \in DOMAIN Children(t, w.f)
      /\ CurrentImport(t, w).type = "ImportDirective"}

\* Running analyses of F from t has come to r.
Comes(t, F, r) ==
  /\ Graph(r.s)
  /\ Kept(t, r.s)
  /\ Shows(t, r.s, F)
  /\ r.s.failed = FALSE
  /\ r.stack \in Seq(Waiting(t, F))

\* Who waits depends on the texts only.
LEMMA WaitingKept ==
  ASSUME NEW t, NEW t2, Kept(t, t2), NEW F
  PROVE  Waiting(t2, F) = Waiting(t, F)
BY DEF Kept, Waiting, Children, CurrentImport

LEMMA WaitingMore ==
  ASSUME NEW t, NEW F, NEW G, F \subseteq G
  PROVE  Waiting(t, F) \subseteq Waiting(t, G)
BY DEF Waiting

LEMMA ShowsMore ==
  ASSUME NEW t, NEW t2, NEW F, NEW G, F \subseteq G, Shows(t, t2, F)
  PROVE  Shows(t, t2, G)
BY DEF Shows

\* ... and more analyses may be under way.
LEMMA ComesMore ==
  ASSUME NEW t, NEW F, NEW G, F \subseteq G, NEW r, Comes(t, F, r)
  PROVE  Comes(t, G, r)
<1>1. Seq(Waiting(t, F)) \subseteq Seq(Waiting(t, G))
  BY WaitingMore
<1> QED BY <1>1, ShowsMore DEF Comes

\* What comes of a state that t has become without showing other trees.
LEMMA ComesOn ==
  ASSUME NEW t, NEW t2, NEW F, NEW r, Kept(t, t2), Shows(t, t2, F), Comes(t2, F, r)
  PROVE  Comes(t, F, r)
<1>1. Kept(t, r.s) /\ Shows(t, r.s, F \cup F)
  BY KeptOnAndOn DEF Comes
<1>2. F \cup F = F
  OBVIOUS
<1> QED BY <1>1, <1>2, WaitingKept DEF Comes

\* The children of a source unit are a list.
LEMMA SomeAreChildren ==
  ASSUME NEW t, NEW f \in DOMAIN t.texts, Graph(t), Ast[t.texts[f]] # None
  PROVE  /\ Len(Children(t, f)) \in Nat
         /\ DOMAIN Children(t, f) = 1 .. Len(Children(t, f))
<1>1. t.texts[f] \in Texts
  BY DEF Graph, TextOK
<1>2. PICK A : Children(t, f) \in Seq(A)
  BY <1>1, AnalysisAssumption DEF Children
<1> QED BY <1>2

\* NextImport is an import directive, or the end of the list.
LEMMA NextImportFound ==
  ASSUME NEW children, NEW i \in Nat, Len(children) \in Nat,
         DOMAIN children = 1 .. Len(children)
  PROVE  LET j == NextImport(children, i)
         IN  /\ j \in Nat
             /\ j \in DOMAIN children => children[j].type = "ImportDirective"
<1> DEFINE imports == {j \in DOMAIN children : i <= j /\ children[j].type = "ImportDirective"}
<1>1. CASE imports = {}
  BY <1>1 DEF NextImport
<1>2. CASE imports # {}
  <2>1. imports \subseteq Nat
    OBVIOUS
  <2>2. \E j \in imports : \A k \in imports : j <= k
    <3> HIDE DEF imports
    <3> QED BY <1>2, <2>1, LeastNumber
  <2>3. NextImport(children, i) \in imports
    <3>1. NextImport(children, i) = CHOOSE j \in imports : \A k \in imports : j <= k
      BY <1>2 DEF NextImport
    <3> HIDE DEF imports
    <3> QED BY <2>2, <3>1
  <2> QED BY <2>3
<1> QED BY <1>1, <1>2

\* An analysis rests only at an import directive of its own text.
LEMMA RestKeeps ==
  ASSUME NEW t, Graph(t), NEW f \in DOMAIN t.texts, Ast[t.texts[f]] # None, NEW i \in Nat,
         i \in DOMAIN Children(t, f) => Children(t, f)[i].type = "ImportDirective"
  PROVE  Comes(t, {f}, Rest(t, f, i))
<1> DEFINE atImport == i \in DOMAIN Children(t, f)
<1>0. <<>> \in Seq(Waiting(t, {f}))
  OBVIOUS
<1>1. CASE t.failed \/ (atImport /\ f[1] \notin OnDisk)
  <2>1. Rest(t, f, i) = [s |-> Catch(t), stack |-> <<>>]
    BY <1>1 DEF Rest
  <2>2. Graph(Catch(t)) /\ Kept(t, Catch(t)) /\ Shows(t, Catch(t), {f}) /\ Catch(t).failed = FALSE
    BY CatchKeeps, TreesKeep DEF Same
  <2> QED BY <1>0, <2>1, <2>2 DEF Comes
<1>2. CASE ~t.failed /\ atImport /\ f[1] \in OnDisk
  <2> DEFINE w == [f |-> f, at |-> i]
  <2>1. Rest(t, f, i) = [s |-> t, stack |-> <<w>>]
    BY <1>2 DEF Rest
  <2>2. w \in Waiting(t, {f})
    BY <1>2 DEF Waiting, CurrentImport
  <2>3. <<w>> \in Seq(Waiting(t, {f}))
    <3> HIDE DEF w
    <3> QED BY <2>2
  <2>4. t.failed = FALSE
    BY <1>2
  <2>5. Kept(t, t) /\ Shows(t, t, {f})
    BY DEF Kept, Shows
  <2> QED BY <2>1, <2>3, <2>4, <2>5 DEF Comes
<1>3. CASE ~t.failed /\ ~atImport
  <2>1. Rest(t, f, i) = [s |-> ShowRoot(t, f), stack |-> <<>>]
    BY <1>3 DEF Rest
  <2>2. /\ Graph(ShowRoot(t, f)) /\ Kept(t, ShowRoot(t, f)) /\ Shows(t, ShowRoot(t, f), {f})
        /\ ShowRoot(t, f).failed = t.failed
    BY RootShown
  <2> QED BY <1>0, <1>3, <2>1, <2>2 DEF Comes
<1> QED BY <1>1, <1>2, <1>3

\* ... and it has come there in one go.
LEMMA RunKeeps ==
  ASSUME NEW t, Graph(t), NEW f \in DOMAIN t.texts, Ast[t.texts[f]] # None, NEW i \in Nat
  PROVE  Comes(t, {f}, Run(t, f, i))
<1> DEFINE next == NextImport(Children(t, f), i)
           r == AcceptParts(t, f, SubSeq(Children(t, f), i, next - 1), Root(t, f), None)
           t2 == WithTrees(t, r)
<1>1. Run(t, f, i) = Rest(t2, f, next)
  BY DEF Run
<1>2. Graph(t2) /\ Same(t, t2)
  BY WithTreesKeeps
<1>3. next \in Nat /\ (next \in DOMAIN Children(t, f)
                          => Children(t, f)[next].type = "ImportDirective")
  BY SomeAreChildren, NextImportFound
<1> HIDE DEF next, r, t2
<1>4. t2.texts = t.texts /\ Children(t2, f) = Children(t, f)
  BY <1>2 DEF Same, Kept, Children
<1>5. Comes(t2, {f}, Rest(t2, f, next))
  BY <1>2, <1>3, <1>4, RestKeeps
<1>6. Kept(t, t2) /\ Shows(t, t2, {f})
  BY <1>2, TreesKeep DEF Same
<1> QED BY <1>1, <1>5, <1>6, ComesOn

LEMMA WaitingIs ==
  ASSUME NEW t, NEW F, NEW w \in Waiting(t, F)
  PROVE  /\ w.f \in F /\ w.f \in DOMAIN t.texts /\ w.at \in Nat
         /\ Ast[t.texts[w.f]] # None
         /\ w.at \in DOMAIN Children(t, w.f)
         /\ CurrentImport(t, w).type = "ImportDirective"
BY DEF Waiting

\* An analysis goes on after an import, and so does one that has called another.
LEMMA PassImportKeeps ==
  ASSUME NEW t, Graph(t), NEW F, NEW w \in Waiting(t, F)
  PROVE  Comes(t, F, PassImport(t, w))
<1> DEFINE r == NameImport(t, w.f, CurrentImport(t, w), Root(t, w.f))
           t2 == WithTrees(t, r)
<1>1. PassImport(t, w) = Run(t2, w.f, w.at + 1)
  BY DEF PassImport
<1>2. Graph(t2) /\ Same(t, t2)
  BY WithTreesKeeps
<1> HIDE DEF r, t2
<1>3. w.f \in F /\ w.f \in DOMAIN t2.texts /\ Ast[t2.texts[w.f]] # None /\ w.at + 1 \in Nat
  BY <1>2, WaitingIs DEF Same, Kept
<1>4. Comes(t2, {w.f}, Run(t2, w.f, w.at + 1))
  BY <1>2, <1>3, RunKeeps
<1>5. Comes(t2, F, Run(t2, w.f, w.at + 1))
  BY <1>3, <1>4, ComesMore
<1>6. Kept(t, t2) /\ Shows(t, t2, F)
  BY <1>2, TreesKeep DEF Same
<1> QED BY <1>1, <1>5, <1>6, ComesOn

LEMMA ReturnKeeps ==
  ASSUME NEW t, NEW F, NEW r, Comes(t, F, r), NEW w \in Waiting(t, F)
  PROVE  Comes(t, F, Return(r, w))
<1>1. CASE r.stack = <<>>
  <2> DEFINE h == HandOver(r.s, w.f, Id(w.f, CurrentImport(r.s, w)))
             t2 == WithTrees(r.s, h)
  <2>1. Return(r, w) = PassImport(t2, w)
    BY <1>1 DEF Return, TakeOver
  <2>2. Graph(t2) /\ Same(r.s, t2)
    BY WithTreesKeeps DEF Comes
  <2> HIDE DEF h, t2
  <2>3. Kept(t, t2) /\ Shows(t, t2, F)
    <3>1. Kept(r.s, t2) /\ Shows(r.s, t2, F)
      BY <2>2, TreesKeep DEF Same
    <3>2. Kept(t, t2) /\ Shows(t, t2, F \cup F)
      BY <3>1, KeptOnAndOn DEF Comes
    <3>3. F \cup F = F
      OBVIOUS
    <3> QED BY <3>2, <3>3
  <2>4. w \in Waiting(t2, F)
    BY <2>3, WaitingKept
  <2>5. Comes(t2, F, PassImport(t2, w))
    BY <2>2, <2>4, PassImportKeeps
  <2> QED BY <2>1, <2>3, <2>5, ComesOn
<1>2. CASE r.stack # <<>>
  <2>1. Return(r, w) = [s |-> r.s, stack |-> Append(r.stack, w)]
    BY <1>2 DEF Return
  <2>2. Append(r.stack, w) \in Seq(Waiting(t, F))
    BY DEF Comes
  <2> QED BY <2>1, <2>2 DEF Comes
<1> QED BY <1>1, <1>2

\* However many calls end at once, each goes on with what the one before left.
LEMMA ResumeKeeps ==
  ASSUME NEW t, NEW F, NEW r, Comes(t, F, r), NEW frames \in Seq(Waiting(t, F))
  PROVE  Comes(t, F, Resume(r, frames))
<1>1. PICK g : Unrolls(g, r, frames, Len(frames)) /\ Resume(r, frames) = g[Len(frames)]
  BY ResumeUnfolds
<1> DEFINE T == {k \in 0 .. Len(frames) : ~Comes(t, F, g[k])}
<1>2. SUFFICES ASSUME T # {} PROVE FALSE
  BY <1>1
<1>3. PICK k \in T : \A j \in T : k <= j
  <2>1. T \subseteq Nat
    OBVIOUS
  <2> HIDE DEF T
  <2> QED BY <1>2, <2>1, LeastNumber
<1>4. k \in 0 .. Len(frames) /\ g[k] = IF k = 0 THEN r ELSE Return(g[k - 1], frames[k])
  BY <1>1, <1>3 DEF Unrolls
<1>5. CASE k = 0
  BY <1>3, <1>4, <1>5
<1>6. CASE k # 0
  <2>1. k - 1 \in 0 .. Len(frames) /\ k - 1 \notin T
    BY <1>3, <1>4, <1>6
  <2>2. Comes(t, F, g[k - 1])
    BY <2>1
  <2>3. frames[k] \in Waiting(t, F)
    BY <1>4, <1>6
  <2>4. Comes(t, F, Return(g[k - 1], frames[k]))
    BY <2>2, <2>3, ReturnKeeps
  <2> QED BY <1>3, <1>4, <1>6, <2>4
<1> QED BY <1>5, <1>6

-----------------------------------------------------------------------------
(* Beginning an analysis *)

Fresh(t, u) == <<u, NextGen(t, u)>>

\* From t to t2 file u has begun its next analysis, of text x.
Begun(t, u, x, t2) ==
  LET f == Fresh(t, u)
  IN  /\ Graph(t2)
      /\ DOMAIN t2.entries = DOMAIN t.entries
      /\ \A v \in DOMAIN t.entries : v # u =>
            /\ t2.entries[v].text = t.entries[v].text
            /\ t2.entries[v].status = t.entries[v].status
            /\ t2.entries[v].tree = t.entries[v].tree
      /\ t2.entries[u].text = x
      /\ t2.entries[u].status = IF Ast[x] = None THEN "ERRORED" ELSE "ANALYZED"
      /\ f \notin DOMAIN t.texts
      /\ DOMAIN t2.texts = DOMAIN t.texts \cup {f}
      /\ t2.texts[f] = x
      /\ \A g \in DOMAIN t.texts : t2.texts[g] = t.texts[g]

\* The next analysis of a file is a new one.
LEMMA FreshIsNew ==
  ASSUME NEW t, Graph(t), NEW u \in DOMAIN t.entries
  PROVE  /\ Fresh(t, u) \notin DOMAIN t.texts
         /\ Fresh(t, u)[1] = u
         /\ Fresh(t, u)[2] = t.entries[u].orphans[2] + 1
         /\ t.entries[u].orphans[2] \in Nat
<1> DEFINE gen == t.entries[u].orphans[2]
<1>1. gen \in Nat
  BY DEF Graph, EntryOK
<1>2. Fresh(t, u) = <<u, gen + 1>>
  BY DEF Fresh, NextGen
<1>3. ASSUME Fresh(t, u) \in DOMAIN t.texts PROVE FALSE
  <2>1. TextOK(t, <<u, gen + 1>>)
    BY <1>2, <1>3 DEF Graph
  <2>2. <<u, gen + 1>>[2] = gen + 1 /\ <<u, gen + 1>>[1] = u
    OBVIOUS
  <2>3. gen + 1 \in 1 .. gen
    BY <2>1, <2>2 DEF TextOK
  <2> QED BY <1>1, <2>3
<1> QED BY <1>1, <1>2, <1>3

\* Its entry takes the text, and keeps its tree.
LEMMA TakeKeeps ==
  ASSUME NEW t, Graph(t), NEW u \in DOMAIN t.entries, NEW x \in Texts
  PROVE  LET t2 == Take(t, u, x, Fresh(t, u))
         IN  /\ Begun(t, u, x, t2)
             /\ t2.entries[u].tree = t.entries[u].tree
             /\ t2.failed = t.failed
<1> DEFINE f == Fresh(t, u)
           entry == [text |-> x, status |-> IF Ast[x] = None THEN "ERRORED" ELSE "ANALYZED",
                     tree |-> t.entries[u].tree, orphans |-> f]
           orphans == With(t.orphans, f, <<>>)
           t2 == Take(t, u, x, f)
<1>1. t2 = [nodes |-> t.nodes, entries |-> [t.entries EXCEPT ![u] = entry],
            orphans |-> orphans, texts |-> With(t.texts, f, x), failed |-> t.failed]
  BY DEF Take
<1>2. /\ f \notin DOMAIN t.texts /\ f = <<u, f[2]>> /\ f[1] = u
      /\ f[2] = t.entries[u].orphans[2] + 1 /\ t.entries[u].orphans[2] \in Nat
  BY FreshIsNew DEF Fresh
<1>3. /\ entry.text = x /\ entry.status = IF Ast[x] = None THEN "ERRORED" ELSE "ANALYZED"
      /\ entry.tree = t.entries[u].tree /\ entry.orphans = f /\ IsEntry(entry)
  <2>1. IsEntry(entry)
    BY Literals, Zenon
  <2> QED BY <2>1
<1> HIDE DEF entry, orphans, t2, f
<1>4. /\ t2.entries = [t.entries EXCEPT ![u] = entry]
      /\ t2.texts = With(t.texts, f, x)
      /\ t2.failed = t.failed /\ IsState(t2)
  BY <1>1, Literals
<1>5. /\ DOMAIN t2.entries = DOMAIN t.entries
      /\ t2.entries[u] = entry
      /\ \A v \in DOMAIN t.entries : v # u => t2.entries[v] = t.entries[v]
      /\ t2.entries = [v \in DOMAIN t2.entries |-> t2.entries[v]]
  BY <1>4 DEF Graph
<1>6. /\ DOMAIN t2.texts = DOMAIN t.texts \cup {f}
      /\ t2.texts[f] = x
      /\ \A g \in DOMAIN t.texts : t2.texts[g] = t.texts[g]
      /\ t2.texts = [g \in DOMAIN t2.texts |-> t2.texts[g]]
  BY <1>2, <1>4 DEF With
<1>7. ASSUME NEW v \in DOMAIN t.entries PROVE EntryOK(t2, v)
  <2>1. EntryOK(t, v)
    BY DEF Graph
  <2>2. CASE v = u
    BY <1>2, <1>3, <1>5, <2>1, <2>2 DEF EntryOK, Statuses
  <2>3. CASE v # u
    BY <1>5, <2>1, <2>3 DEF EntryOK
  <2> QED BY <2>2, <2>3
<1>8. ASSUME NEW g \in DOMAIN t.texts PROVE TextOK(t2, g)
  <2>1. TextOK(t, g)
    BY DEF Graph
  <2>2. CASE g[1] = u
    BY <1>2, <1>3, <1>5, <1>6, <2>1, <2>2 DEF TextOK
  <2>3. CASE g[1] # u
    BY <1>5, <1>6, <2>1, <2>3 DEF TextOK
  <2> QED BY <2>2, <2>3
<1>9. TextOK(t2, f)
  BY <1>2, <1>3, <1>5, <1>6 DEF TextOK
<1>10. Graph(t2)
  BY <1>4, <1>5, <1>6, <1>7, <1>8, <1>9 DEF Graph
<1>11. Begun(t, u, x, t2)
  BY <1>2, <1>3, <1>5, <1>6, <1>10 DEF Begun, f
<1> QED BY <1>3, <1>4, <1>5, <1>11 DEF t2, f

\* What is done to the trees, and to that of the file, after that.
LEMMA BegunOn ==
  ASSUME NEW t, Graph(t), NEW u \in DOMAIN t.entries, NEW x, NEW t2, NEW t3,
         Begun(t, u, x, t2), Graph(t3), Kept(t2, t3), Shows(t2, t3, {Fresh(t, u)})
  PROVE  Begun(t, u, x, t3)
<1> DEFINE f == Fresh(t, u)
<1>1. f[1] = u
  BY FreshIsNew
<1> HIDE DEF f
<1>2. ASSUME NEW v \in DOMAIN t.entries, v # u
      PROVE  /\ t3.entries[v].text = t.entries[v].text
             /\ t3.entries[v].status = t.entries[v].status
             /\ t3.entries[v].tree = t.entries[v].tree
  <2>1. v \in DOMAIN t2.entries
    BY DEF Begun
  <2>2. t3.entries[v].tree = t2.entries[v].tree
    BY <1>1, <1>2, <2>1 DEF Shows, f
  <2>3. /\ t2.entries[v].text = t.entries[v].text
        /\ t2.entries[v].status = t.entries[v].status
        /\ t2.entries[v].tree = t.entries[v].tree
    BY <1>2 DEF Begun
  <2> QED BY <2>1, <2>2, <2>3 DEF Kept
<1>3. /\ DOMAIN t3.entries = DOMAIN t.entries
      /\ t3.entries[u].text = x
      /\ t3.entries[u].status = IF Ast[x] = None THEN "ERRORED" ELSE "ANALYZED"
  BY DEF Begun, Kept
<1>4. t3.texts = t2.texts
  BY DEF Kept
<1> QED BY <1>2, <1>3, <1>4 DEF Begun

\* When the text parses the entry shows the new tree, and one frame is begun.
LEMMA BeginKeeps ==
  ASSUME NEW t, Graph(t), NEW u \in DOMAIN t.entries, NEW x \in Texts
  PROVE  LET b == Begin(t, u, x)
         IN  /\ Begun(t, u, x, b.s)
             /\ Ast[x] = None => b.stack = <<>> /\ b.s.failed = t.failed
             /\ Ast[x] # None => /\ b.stack = <<[f |-> Fresh(t, u), at |-> 1]>>
                                 /\ FileOf(b.s.entries[u].tree) = Fresh(t, u)
<1> DEFINE f == Fresh(t, u)
           taken == Take(t, u, x, f)
<1>1. Begun(t, u, x, taken) /\ taken.failed = t.failed
  BY TakeKeeps
<1>2. f[1] = u
  BY FreshIsNew
<1>3. CASE Ast[x] = None
  <2>1. Begin(t, u, x) = [s |-> taken, stack |-> <<>>]
    BY <1>3 DEF Begin, Fresh
  <2> HIDE DEF taken
  <2> QED BY <1>1, <1>3, <2>1
<1>4. CASE Ast[x] # None
  <2> DEFINE up == Uproot(taken, t.entries[u])
             plant == WithTrees(up, PlantTree(up, f, Ast[up.texts[f]]))
             b == ShowRoot(plant, f)
  <2>1. Begin(t, u, x) = [s |-> b, stack |-> <<[f |-> f, at |-> 1]>>]
    BY <1>4 DEF Begin, Fresh, PlantRoot
  <2>2. Graph(taken)
    BY <1>1 DEF Begun
  <2>3. Graph(up) /\ Same(taken, up)
    <3>1. Same(taken, taken)
      BY DEF Same, Kept
    <3> HIDE DEF taken
    <3> QED BY <2>2, <3>1, WithTreesKeeps DEF Uproot
  <2>4. Graph(plant) /\ Same(up, plant)
    <3> HIDE DEF up
    <3> QED BY <2>3, WithTreesKeeps
  <2> HIDE DEF taken, up, plant
  <2>5. Same(taken, plant)
    BY <2>3, <2>4 DEF Same, Kept
  <2>6. Begun(t, u, x, plant)
    BY <1>1, <2>4, <2>5, TreesKeep, BegunOn DEF Same
  <2>7. f \in DOMAIN plant.texts
    BY <2>6 DEF Begun
  <2>8. Graph(b) /\ Kept(plant, b) /\ Shows(plant, b, {f}) /\ FileOf(b.entries[f[1]].tree) = f
    BY <2>4, <2>7, RootShown
  <2> HIDE DEF b
  <2>9. Begun(t, u, x, b)
    BY <2>6, <2>8, BegunOn
  <2> QED BY <1>2, <1>4, <2>1, <2>8, <2>9
<1> QED BY <1>3, <1>4

\* The analyses that are under way once file u has begun that of text x.
Opens(t, u, x) == IF Ast[x] = None THEN {} ELSE {Fresh(t, u)}

\* The analysis runs to its first import.
LEMMA EnterKeeps ==
  ASSUME NEW t, Graph(t), t.failed = FALSE, NEW u \in DOMAIN t.entries, NEW x \in Texts
  PROVE  LET b == Begin(t, u, x)
         IN  Comes(b.s, Opens(t, u, x), Enter(b))
<1> DEFINE b == Begin(t, u, x)
           f == Fresh(t, u)
<1>1. /\ Begun(t, u, x, b.s)
      /\ Ast[x] = None => b.stack = <<>> /\ b.s.failed = t.failed
      /\ Ast[x] # None => b.stack = <<[f |-> f, at |-> 1]>>
  BY BeginKeeps
<1> HIDE DEF b, f
<1>2. Graph(b.s) /\ f \in DOMAIN b.s.texts /\ b.s.texts[f] = x
  BY <1>1 DEF Begun, f
<1>3. CASE Ast[x] = None
  <2>1. Kept(b.s, b.s) /\ Shows(b.s, b.s, {})
    BY DEF Kept, Shows
  <2>2. b.stack \in Seq(Waiting(b.s, {}))
    <3>1. b.stack = <<>>
      BY <1>1, <1>3
    <3> QED BY <3>1
  <2>3. Comes(b.s, {}, b)
    BY <1>1, <1>2, <1>3, <2>1, <2>2 DEF Comes
  <2>4. Enter(b) = b /\ Opens(t, u, x) = {}
    BY <1>1, <1>3 DEF Enter, Opens
  <2> QED BY <2>3, <2>4 DEF b
<1>4. CASE Ast[x] # None
  <2>1. Enter(b) = Run(b.s, f, 1) /\ Opens(t, u, x) = {f}
    <3>1. b.stack = <<[f |-> f, at |-> 1]>>
      BY <1>1, <1>4
    <3>2. b.stack # <<>> /\ b.stack[1].f = f
      BY <3>1
    <3>3. Enter(b) = Run(b.s, f, 1)
      BY <3>2 DEF Enter
    <3> QED BY <1>4, <3>3 DEF Opens, f
  <2>2. Comes(b.s, {f}, Run(b.s, f, 1))
    BY <1>2, <1>4, RunKeeps
  <2> QED BY <2>1, <2>2 DEF b
<1> QED BY <1>3, <1>4

-----------------------------------------------------------------------------
(* Trees and texts *)

\* The tree of an analysed file is of the text of its entry.
FitsText(t, v) ==
  isAnalyzed(t, v) =>
      /\ FileOf(t.entries[v].tree) \in DOMAIN t.texts
      /\ t.texts[FileOf(t.entries[v].tree)] = t.entries[v].text

\* Those of the analyses F that are of file v are the one whose tree it shows.
ShowsOnly(t, F, v) ==
  \A f \in F : f[1] = v => isAnalyzed(t, v) /\ FileOf(t.entries[v].tree) = f

\* ... of every file, but those in over.
Fitting(t, F, over) ==
  \A v \in DOMAIN t.entries \ over : FitsText(t, v) /\ ShowsOnly(t, F, v)

\* Running the analyses that are under way keeps that,
LEMMA ComesFitting ==
  ASSUME NEW t, NEW F, NEW G, G \subseteq F, NEW r, NEW over,
         Fitting(t, F, over), Comes(t, G, r)
  PROVE  Fitting(r.s, F, over)
<1>1. ASSUME NEW v \in DOMAIN t.entries \ over
      PROVE  FitsText(r.s, v) /\ ShowsOnly(r.s, F, v)
  <2>1. FitsText(t, v) /\ ShowsOnly(t, F, v)
    BY DEF Fitting
  <2>2. FileOf(r.s.entries[v].tree) = FileOf(t.entries[v].tree)
    BY <2>1 DEF Comes, Shows, ShowsOnly
  <2>3. /\ isAnalyzed(r.s, v) <=> isAnalyzed(t, v)
        /\ r.s.entries[v].text = t.entries[v].text
        /\ r.s.texts = t.texts
    BY DEF Comes, Kept, isAnalyzed
  <2> QED BY <2>1, <2>2, <2>3 DEF FitsText, ShowsOnly
<1>2. DOMAIN r.s.entries = DOMAIN t.entries
  BY DEF Comes, Kept
<1> QED BY <1>1, <1>2 DEF Fitting

\* ... and so does beginning one, of a file that none is under way of.
LEMMA BegunFitting ==
  ASSUME NEW t, Graph(t), NEW F, NEW over, NEW over2, Fitting(t, F, over), over \subseteq over2,
         NEW u \in DOMAIN t.entries, NEW x, NEW t2, Begun(t, u, x, t2),
         (\E f \in F : f[1] = u) => u \in over2,
         Ast[x] # None => FileOf(t2.entries[u].tree) = Fresh(t, u)
  PROVE  Fitting(t2, F \cup Opens(t, u, x), over2)
<1> DEFINE f == Fresh(t, u)
<1>1. f[1] = u
  BY FreshIsNew
<1>2. Opens(t, u, x) = IF Ast[x] = None THEN {} ELSE {f}
  BY DEF Opens
<1>3. /\ t2.entries[u].text = x
      /\ isAnalyzed(t2, u) <=> Ast[x] # None
      /\ f \in DOMAIN t2.texts
      /\ t2.texts[f] = x
      /\ Ast[x] # None => FileOf(t2.entries[u].tree) = f
  BY DEF Begun, isAnalyzed
<1> HIDE DEF f
<1>4. ASSUME NEW v \in DOMAIN t.entries \ over2
      PROVE  FitsText(t2, v) /\ ShowsOnly(t2, F \cup Opens(t, u, x), v)
  <2>1. CASE v = u
    <3>1. FitsText(t2, v)
      BY <1>3, <2>1 DEF FitsText
    <3>2. ASSUME NEW g \in F \cup Opens(t, u, x), g[1] = v
          PROVE  isAnalyzed(t2, v) /\ FileOf(t2.entries[v].tree) = g
      <4>1. g \in Opens(t, u, x)
        BY <2>1, <3>2
      <4> QED BY <1>2, <1>3, <2>1, <4>1
    <3> QED BY <3>1, <3>2 DEF ShowsOnly
  <2>2. CASE v # u
    <3>1. FitsText(t, v) /\ ShowsOnly(t, F, v)
      BY DEF Fitting
    <3>2. /\ t2.entries[v].text = t.entries[v].text
          /\ isAnalyzed(t2, v) <=> isAnalyzed(t, v)
          /\ t2.entries[v].tree = t.entries[v].tree
          /\ DOMAIN t.texts \subseteq DOMAIN t2.texts
          /\ \A g \in DOMAIN t.texts : t2.texts[g] = t.texts[g]
      BY <2>2 DEF Begun, isAnalyzed
    <3>3. FitsText(t2, v)
      BY <3>1, <3>2 DEF FitsText
    <3>4. \A g \in Opens(t, u, x) : g[1] # v
      BY <1>1, <1>2, <2>2
    <3>5. ShowsOnly(t2, F \cup Opens(t, u, x), v)
      BY <3>1, <3>2, <3>4 DEF ShowsOnly
    <3> QED BY <3>3, <3>5
  <2> QED BY <2>1, <2>2
<1>5. DOMAIN t2.entries = DOMAIN t.entries
  BY DEF Begun
<1> QED BY <1>4, <1>5 DEF Fitting

\* Analyses that are not under way any more may be left out.
LEMMA FittingLess ==
  ASSUME NEW t, NEW F, NEW G, NEW over, G \subseteq F, Fitting(t, F, over)
  PROVE  Fitting(t, G, over)
BY DEF Fitting, ShowsOnly

-----------------------------------------------------------------------------
(* What a task has come to *)

\* The analyses that a stack has under way.
Held(stack) == {stack[i].f : i \in DOMAIN stack}

\* From t to t2 analyses may have begun.
Grows(t, t2) ==
  /\ DOMAIN t2.entries = DOMAIN t.entries
  /\ DOMAIN t.texts \subseteq DOMAIN t2.texts
  /\ \A f \in DOMAIN t.texts : t2.texts[f] = t.texts[f]

\* From t a task has come to r, with analyses F under way in all tasks.
Lands(t, r, F, over) ==
  /\ Graph(r.s)
  /\ r.s.failed = FALSE
  /\ Grows(t, r.s)
  /\ r.stack \in Seq(Waiting(r.s, F))
  /\ Fitting(r.s, F, over)

LEMMA WaitingGrows ==
  ASSUME NEW t, NEW t2, NEW F, NEW G, Grows(t, t2), F \subseteq G
  PROVE  Waiting(t, F) \subseteq Waiting(t2, G)
<1>1. ASSUME NEW w \in Waiting(t, F) PROVE w \in Waiting(t2, G)
  <2>1. w \in [f : F \cap DOMAIN t.texts, at : Nat]
    BY DEF Waiting
  <2>2. w \in [f : G \cap DOMAIN t2.texts, at : Nat] /\ t2.texts[w.f] = t.texts[w.f]
    BY <2>1 DEF Grows
  <2>3. Children(t2, w.f) = Children(t, w.f)
    BY <2>2 DEF Children
  <2> QED BY <2>2, <2>3 DEF Waiting, CurrentImport
<1> QED BY <1>1

\* Where a task comes from t2 is where it lands from t.
LEMMA ComesLands ==
  ASSUME NEW t, NEW t2, Grows(t, t2), NEW F, NEW G, G \subseteq F, NEW r, NEW over,
         Comes(t2, G, r), Fitting(t2, F, over)
  PROVE  Lands(t, r, F, over)
<1>1. Grows(t, r.s) /\ Grows(t2, r.s)
  BY DEF Comes, Kept, Grows
<1>2. Fitting(r.s, F, over)
  BY ComesFitting
<1>3. Waiting(t2, G) \subseteq Waiting(r.s, F)
  BY <1>1, WaitingGrows
<1>4. r.stack \in Seq(Waiting(r.s, F))
  BY <1>3 DEF Comes
<1> QED BY <1>1, <1>2, <1>4 DEF Lands, Comes

\* From t, with F under way, file u has begun the analysis b of text x.
Opened(t, F, over, u, x, b) ==
  /\ Grows(t, b.s)
  /\ Fitting(b.s, F \cup Opens(t, u, x), over)
  /\ Comes(b.s, Opens(t, u, x), Enter(b))
  /\ b.s.entries[u].text = x
  /\ \A v \in DOMAIN t.entries : v # u => b.s.entries[v].text = t.entries[v].text

\* To begin an analysis keeps trees fitting, if there was none of the file or the
\* file is not asked for any more.
LEMMA BeginLands ==
  ASSUME NEW t, Graph(t), t.failed = FALSE, NEW F, NEW over, NEW over2, over \subseteq over2,
         Fitting(t, F, over), NEW u \in DOMAIN t.entries, NEW x \in Texts,
         (\E f \in F : f[1] = u) => u \in over2
  PROVE  Opened(t, F, over2, u, x, Begin(t, u, x))
<1> DEFINE b == Begin(t, u, x)
<1>1. /\ Begun(t, u, x, b.s)
      /\ Ast[x] # None => FileOf(b.s.entries[u].tree) = Fresh(t, u)
  BY BeginKeeps
<1>2. Comes(b.s, Opens(t, u, x), Enter(b))
  BY EnterKeeps
<1> HIDE DEF b
<1>3. Fitting(b.s, F \cup Opens(t, u, x), over2)
  BY <1>1, BegunFitting
<1>4. Grows(t, b.s)
  BY <1>1 DEF Begun, Grows
<1>5. /\ b.s.entries[u].text = x
      /\ \A v \in DOMAIN t.entries : v # u => b.s.entries[v].text = t.entries[v].text
  BY <1>1 DEF Begun
<1> QED BY <1>2, <1>3, <1>4, <1>5 DEF Opened, b

\* A task that has resolved an import goes on: the importing file if there is
\* nothing to analyse, the imported one otherwise.
LEMMA ImportedLands ==
  ASSUME NEW t, Graph(t), NEW F, NEW over, Fitting(t, F, over),
         NEW H, H \subseteq F, NEW stack \in Seq(Waiting(t, H)), stack # <<>>, NEW q
  PROVE  LET r == Imported(t, stack, q)
         IN  /\ \E G : F \subseteq G /\ Lands(t, r, G, over)
             /\ \A v \in DOMAIN t.entries : r.s.entries[v].text = t.entries[v].text
<1>1. CASE t.failed \/ q \notin DOMAIN t.entries \/ isAnalyzed(t, q)
  <2> DEFINE r == Resume(PassImport(t, Head(stack)), Tail(stack))
  <2>1. Imported(t, stack, q) = r
    BY <1>1 DEF Imported
  <2>2. Head(stack) \in Waiting(t, H) /\ Tail(stack) \in Seq(Waiting(t, H))
    OBVIOUS
  <2>3. Comes(t, H, r)
    BY <2>2, PassImportKeeps, ResumeKeeps
  <2> HIDE DEF r
  <2>4. Grows(t, t)
    BY DEF Grows
  <2>5. Lands(t, r, F, over)
    BY <2>3, <2>4, ComesLands
  <2>6. \A v \in DOMAIN t.entries : r.s.entries[v].text = t.entries[v].text
    BY <2>3 DEF Comes, Kept
  <2> QED BY <2>1, <2>5, <2>6
<1>2. CASE ~(t.failed \/ q \notin DOMAIN t.entries \/ isAnalyzed(t, q))
  <2> DEFINE x == t.entries[q].text
             b == Begin(t, q, x)
             e == Enter(b)
             r == Resume(e, stack)
             G == F \cup Opens(t, q, x)
  <2>1. Imported(t, stack, q) = r
    BY <1>2 DEF Imported
  <2>2. q \in DOMAIN t.entries /\ x \in Texts /\ t.failed = FALSE
    BY <1>2 DEF Graph, EntryOK
  <2>3. (\E f \in F : f[1] = q) => q \in over
    BY <1>2 DEF Fitting, ShowsOnly
  <2>4. /\ Grows(t, b.s)
        /\ Fitting(b.s, G, over)
        /\ Comes(b.s, Opens(t, q, x), e)
        /\ \A v \in DOMAIN t.entries : b.s.entries[v].text = t.entries[v].text
    <3>1. Opened(t, F, over, q, x, b)
      <4>1. over \subseteq over
        OBVIOUS
      <4> HIDE DEF x
      <4> QED BY <2>2, <2>3, <4>1, BeginLands
    <3> HIDE DEF b
    <3> QED BY <3>1 DEF Opened
  <2> HIDE DEF x, b, e
  <2> DEFINE K == H \cup Opens(t, q, x)
  <2>5. K \subseteq G /\ H \subseteq K
    OBVIOUS
  <2>6. stack \in Seq(Waiting(b.s, K))
    <3> HIDE DEF K
    <3>1. Waiting(t, H) \subseteq Waiting(b.s, K)
      BY <2>4, <2>5, WaitingGrows
    <3> QED BY <3>1
  <2>7. Comes(b.s, K, e)
    BY <2>4, ComesMore
  <2>8. Comes(b.s, K, r)
    BY <2>6, <2>7, ResumeKeeps
  <2> HIDE DEF r, G, K
  <2>9. Lands(t, r, G, over)
    BY <2>4, <2>5, <2>8, ComesLands
  <2>10. \A v \in DOMAIN t.entries : r.s.entries[v].text = t.entries[v].text
    BY <2>4, <2>8 DEF Comes, Kept, Grows
  <2>11. F \subseteq G
    BY DEF G
  <2> QED BY <2>1, <2>9, <2>10, <2>11
<1> QED BY <1>1, <1>2

-----------------------------------------------------------------------------
(* The inductive invariant *)

\* The analyses under way.
UnderWay == UNION {Held(tasks[t]) : t \in Tasks}

\* Between two steps tasks wait, and the files that were never analysed twice
\* at a time show trees of their texts, which are of the analysis under way if
\* there is one.
TreesInv ==
  /\ Graph(s)
  /\ s.failed = FALSE
  /\ tasks \in [Tasks -> Seq(Waiting(s, DOMAIN s.texts))]
  /\ Fitting(s, UnderWay, overlapped)

\* An entry has the text of the editor unless an analysis of that is due,
\* or was dropped.
TextsInv ==
  /\ docs \in [Indexed -> Texts]
  /\ changed \subseteq Indexed
  /\ walking \subseteq (Walked \cap Indexed) \X {"unanalyzed", "changed"}
  /\ \A u \in Indexed : Due(u) \/ u \in dropped \/ s.entries[u].text = docs[u]

\* The history and the bound.
HistoryInv ==
  /\ overlapped \cup dropped \subseteq Indexed
  /\ renames \in 0 .. MaxRenames

\* The inductive invariant.
Inv == TreesInv /\ TextsInv /\ HistoryInv

\* No file is analysed at first.
LEMMA InitInv ==
  ASSUME Init
  PROVE  Inv
<1>1. PICK disk \in Workspaces : InitWith(disk)
  BY DEF Init
<1>2. disk \in [DOMAIN disk -> Texts]
  BY AnalysisAssumption
<1> DEFINE D == DOMAIN disk
           entries == [u \in D |-> [text |-> disk[u], status |-> "LOADED",
                                    tree |-> EmptyTree(u), orphans |-> <<u, 0>>]]
           texts == [f \in {} |-> None]
<1>3. \E n, o : s = [nodes |-> n, entries |-> entries, orphans |-> o, texts |-> texts,
                     failed |-> FALSE]
  BY <1>1, Zenon DEF InitWith
<1>4. ASSUME NEW u \in D
      PROVE  /\ entries[u].text = disk[u] /\ entries[u].status = "LOADED"
             /\ entries[u].tree = EmptyTree(u) /\ entries[u].orphans = <<u, 0>>
             /\ IsEntry(entries[u])
  <2>1. entries[u] = [text |-> disk[u], status |-> "LOADED", tree |-> EmptyTree(u),
                      orphans |-> <<u, 0>>]
    OBVIOUS
  <2> HIDE DEF entries
  <2> QED BY <2>1, Literals
<1>5. /\ entries = [u \in DOMAIN entries |-> entries[u]] /\ DOMAIN entries = D
      /\ texts = [f \in DOMAIN texts |-> texts[f]] /\ DOMAIN texts = {}
  OBVIOUS
<1> HIDE DEF entries, texts
<1>6. s.entries = entries /\ s.texts = texts /\ s.failed = FALSE /\ IsState(s)
  BY <1>3, Literals
<1>7. \A u \in D : EntryOK(s, u)
  BY <1>2, <1>4, <1>6 DEF EntryOK, Statuses, EmptyTree
<1>8. Graph(s)
  BY <1>5, <1>6, <1>7 DEF Graph
<1>9. /\ tasks = [t \in Tasks |-> <<>>] /\ docs = disk /\ changed = {} /\ walking = {}
      /\ overlapped = {} /\ dropped = {} /\ renames = 0
  BY <1>1 DEF InitWith
<1>10. UnderWay = {}
  BY <1>9 DEF UnderWay, Held
<1>11. Fitting(s, UnderWay, overlapped)
  BY <1>4, <1>5, <1>6, <1>10 DEF Fitting, FitsText, ShowsOnly, isAnalyzed
<1>12. TreesInv
  BY <1>6, <1>8, <1>9, <1>11 DEF TreesInv
<1>13. TextsInv
  BY <1>2, <1>4, <1>5, <1>6, <1>9 DEF TextsInv, Indexed
<1>14. HistoryInv
  BY <1>9, AnalysisAssumption DEF HistoryInv
<1> QED BY <1>12, <1>13, <1>14 DEF Inv

\* A task has come to where it waits or ends, and its stack is kept.
LEMMA SuspendKeeps ==
  ASSUME TreesInv, NEW t \in Tasks, NEW r, NEW F, UnderWay \subseteq F,
         Lands(s, r, F, overlapped'), Suspend(t, r)
  PROVE  TreesInv'
<1>1. s' = r.s /\ tasks' = [tasks EXCEPT ![t] = r.stack]
  BY DEF Suspend
<1>2. Graph(s') /\ s'.failed = FALSE /\ Fitting(s', F, overlapped') /\ Grows(s, s')
  BY <1>1 DEF Lands
<1> DEFINE W == Waiting(s, DOMAIN s.texts)
           W2 == Waiting(s', DOMAIN s'.texts)
<1>3. W \subseteq W2
  BY <1>2, WaitingGrows DEF Grows
<1>4. r.stack \in Seq(Waiting(s', F))
  BY <1>1 DEF Lands
<1>5. Waiting(s', F) \subseteq W2
  BY DEF Waiting
<1>6. tasks \in [Tasks -> Seq(W)]
  BY DEF TreesInv
<1>7. \A i \in DOMAIN r.stack : r.stack[i].f \in F
  BY <1>4, WaitingIs
<1> HIDE DEF W, W2
<1>8. tasks' \in [Tasks -> Seq(W2)]
  <2>1. r.stack \in Seq(W2)
    BY <1>4, <1>5
  <2>2. \A k \in Tasks : tasks[k] \in Seq(W2)
    BY <1>3, <1>6
  <2>3. tasks' = [k \in Tasks |-> IF k = t THEN r.stack ELSE tasks[k]]
    BY <1>1, <1>6
  <2> QED BY <2>1, <2>2, <2>3
<1>9. UnderWay' \subseteq F
  <2>1. ASSUME NEW k \in Tasks PROVE Held(tasks'[k]) \subseteq F
    <3>1. CASE k = t
      <4>1. tasks'[k] = r.stack
        BY <1>1, <1>6, <3>1
      <4> QED BY <1>7, <4>1 DEF Held
    <3>2. CASE k # t
      <4>1. tasks'[k] = tasks[k]
        BY <1>1, <1>6, <3>2
      <4> QED BY <4>1 DEF UnderWay
    <3> QED BY <3>1, <3>2
  <2> QED BY <2>1 DEF UnderWay
<1>10. Fitting(s', UnderWay', overlapped')
  BY <1>2, <1>9, FittingLess
<1> QED BY <1>2, <1>8, <1>10 DEF TreesInv, W2

\* What the start of an analysis of file u and text x leaves.
Started(u, x) ==
  /\ TreesInv'
  /\ Indexed' = Indexed
  /\ s'.entries[u].text = x
  /\ \A v \in Indexed : v # u => s'.entries[v].text = s.entries[v].text
  /\ overlapped' \subseteq overlapped \cup {u}
  /\ dropped' = IF x = docs[u] THEN dropped \ {u} ELSE dropped
  /\ renames' = renames

\* The history remembers a file that is analysed twice at a time.
LEMMA StartKeeps ==
  ASSUME TreesInv, NEW t \in Tasks, NEW u \in Indexed, NEW x \in Texts, Start(t, u, x)
  PROVE  Started(u, x)
<1> DEFINE b == Begin(s, u, x)
           r == Enter(b)
           F == UnderWay \cup Opens(s, u, x)
<1>1. /\ Suspend(t, r) /\ renames' = renames
      /\ dropped' = IF x = docs[u] THEN dropped \ {u} ELSE dropped
      /\ overlapped' = IF UnderAnalysis(u) THEN overlapped \cup {u} ELSE overlapped
  BY DEF Start
<1>2. (\E f \in UnderWay : f[1] = u) => u \in overlapped'
  <2>1. ASSUME NEW f \in UnderWay, f[1] = u PROVE UnderAnalysis(u)
    <3>1. PICK k \in Tasks : f \in Held(tasks[k])
      BY DEF UnderWay
    <3>2. PICK i \in DOMAIN tasks[k] : f = tasks[k][i].f
      BY <3>1 DEF Held
    <3> QED BY <2>1, <3>2 DEF UnderAnalysis
  <2> QED BY <1>1, <2>1
<1>3. Opened(s, UnderWay, overlapped', u, x, b)
  <2>1. overlapped \subseteq overlapped'
    BY <1>1
  <2>2. Graph(s) /\ s.failed = FALSE /\ Fitting(s, UnderWay, overlapped)
    BY DEF TreesInv
  <2> QED BY <1>2, <2>1, <2>2, BeginLands DEF Indexed
<1> HIDE DEF b
<1>4. /\ Grows(s, b.s) /\ Fitting(b.s, F, overlapped') /\ Comes(b.s, Opens(s, u, x), r)
      /\ b.s.entries[u].text = x
      /\ \A v \in Indexed : v # u => b.s.entries[v].text = s.entries[v].text
  BY <1>3 DEF Opened, Indexed
<1> HIDE DEF r
<1>5. Opens(s, u, x) \subseteq F /\ UnderWay \subseteq F
  OBVIOUS
<1> HIDE DEF F
<1>6. Lands(s, r, F, overlapped')
  BY <1>4, <1>5, ComesLands
<1>7. TreesInv'
  BY <1>1, <1>5, <1>6, SuspendKeeps
<1>8. s' = r.s
  BY <1>1 DEF Suspend
<1>9. /\ Indexed' = Indexed
      /\ s'.entries[u].text = x
      /\ \A v \in Indexed : v # u => s'.entries[v].text = s.entries[v].text
  BY <1>4, <1>8 DEF Comes, Kept, Grows, Indexed
<1> QED BY <1>1, <1>7, <1>9 DEF Started

\* Entries have texts.
LEMMA TextsAre ==
  ASSUME Graph(s), NEW u \in Indexed
  PROVE  s.entries[u].text \in Texts
BY DEF Graph, EntryOK, Indexed

\* An analysis that is not of a change has the text that the entry has.
LEMMA AnalyzeUnanalyzedKeeps ==
  ASSUME Inv, NEW t \in Tasks, NEW u \in Indexed, AnalyzeUnanalyzed(t, u)
  PROVE  Inv'
<1>1. Started(u, s.entries[u].text)
  BY TextsAre, StartKeeps DEF AnalyzeUnanalyzed, Inv, TreesInv
<1>2. docs' = docs /\ changed' = changed /\ walking' = walking
  BY DEF AnalyzeUnanalyzed
<1>3. TextsInv'
  BY <1>1, <1>2 DEF Inv, TextsInv, Started, Due
<1>4. HistoryInv'
  BY <1>1 DEF Inv, HistoryInv, Started
<1> QED BY <1>1, <1>3, <1>4 DEF Inv, Started

\* An analysis of a change gives the entry the text of the editor.
LEMMA AnalyzeChangedKeeps ==
  ASSUME Inv, NEW t \in Tasks, NEW u \in Indexed, AnalyzeChanged(t, u)
  PROVE  Inv'
<1>1. docs[u] \in Texts
  BY DEF Inv, TextsInv
<1>2. Started(u, docs[u])
  BY <1>1, StartKeeps DEF AnalyzeChanged, Inv
<1>3. docs' = docs /\ changed' = changed \ {u} /\ walking' = walking
  BY DEF AnalyzeChanged
<1>4. TextsInv'
  <2>1. ASSUME NEW v \in Indexed 
               PROVE  Due(v)' \/ v \in dropped' \/ s'.entries[v].text = docs'[v]
    <3>1. CASE v = u
      BY <1>2, <1>3, <3>1 DEF Started
    <3>2. CASE v # u
      BY <1>2, <1>3, <3>2 DEF Started, Inv, TextsInv, Due
    <3> QED BY <3>1, <3>2
  <2> QED BY <1>2, <1>3, <2>1 DEF Inv, TextsInv, Started
<1>5. HistoryInv'
  BY <1>2 DEF Inv, HistoryInv, Started
<1> QED BY <1>2, <1>4, <1>5 DEF Inv, Started

LEMMA AnalyzeWalkedKeeps ==
  ASSUME Inv, NEW t \in Tasks, NEW u \in Indexed,
         NEW reason \in {"unanalyzed", "changed"}, AnalyzeWalked(t, u, reason)
  PROVE  Inv'
<1> DEFINE x == IF reason = "changed" THEN docs[u] ELSE s.entries[u].text
<1>1. x \in Texts
  BY TextsAre DEF Inv, TextsInv, TreesInv
<1>2. Started(u, x)
  BY <1>1, StartKeeps DEF AnalyzeWalked, Inv
<1>3. docs' = docs /\ changed' = changed /\ walking' = walking \ {<<u, reason>>}
  BY DEF AnalyzeWalked
<1>4. TextsInv'
  <2>1. ASSUME NEW v \in Indexed 
               PROVE  Due(v)' \/ v \in dropped' \/ s'.entries[v].text = docs'[v]
    <3>1. CASE v = u /\ reason = "changed"
      BY <1>2, <1>3, <3>1 DEF Started
    <3>2. CASE v = u /\ reason # "changed"
      BY <1>2, <1>3, <3>2 DEF Started, Inv, TextsInv, Due
    <3>3. CASE v # u
      BY <1>2, <1>3, <3>3 DEF Started, Inv, TextsInv, Due
    <3> QED BY <3>1, <3>2, <3>3
  <2> QED BY <1>2, <1>3, <2>1 DEF Inv, TextsInv, Started
<1>5. HistoryInv'
  BY <1>2 DEF Inv, HistoryInv, Started
<1> QED BY <1>2, <1>4, <1>5 DEF Inv, Started

\* A completion gives the entry another text only while a change is due.
LEMMA CompleteKeeps ==
  ASSUME Inv, NEW t \in Tasks, NEW u \in Asked \cap Indexed, NEW trigger \in {"", "."},
         Complete(t, u, trigger)
  PROVE  Inv'
<1> DEFINE x == IF trigger = "." THEN Doctored[docs[u]] ELSE docs[u]
<1>1. x \in Texts
  BY AnalysisAssumption DEF Complete, Inv, TextsInv
<1>2. Started(u, x)
  BY <1>1, StartKeeps DEF Complete, Inv
<1>3. docs' = docs /\ changed' = changed /\ walking' = walking
  BY DEF Complete
<1>4. trigger = "." => Due(u)
  BY DEF Complete
<1>5. TextsInv'
  <2>1. ASSUME NEW v \in Indexed 
               PROVE  Due(v)' \/ v \in dropped' \/ s'.entries[v].text = docs'[v]
    <3>1. CASE v = u
      BY <1>2, <1>3, <1>4, <3>1 DEF Started, Due
    <3>2. CASE v # u
      BY <1>2, <1>3, <3>2 DEF Started, Inv, TextsInv, Due
    <3> QED BY <3>1, <3>2
  <2> QED BY <1>2, <1>3, <2>1 DEF Inv, TextsInv, Started
<1>6. HistoryInv'
  BY <1>2 DEF Inv, HistoryInv, Started
<1> QED BY <1>2, <1>5, <1>6 DEF Inv, Started

\* A resolved import is passed, or its file analysed with the text of its entry.
LEMMA ResolveKeeps ==
  ASSUME Inv, NEW t \in Tasks, Resolve(t)
  PROVE  Inv'
<1> DEFINE stack == tasks[t]
<1>1. stack # <<>>
  BY DEF Resolve, Busy
<1>2. PICK path : Suspend(t, Imported(PlaceImport(s, Head(stack), path), stack, path))
  BY DEF Resolve
<1> DEFINE p == PlaceImport(s, Head(stack), path)
           r == Imported(p, stack, path)
           H == UnderWay \cap DOMAIN s.texts
<1>3. Graph(s) /\ s.failed = FALSE /\ Fitting(s, UnderWay, overlapped)
      /\ stack \in Seq(Waiting(s, DOMAIN s.texts))
  BY DEF Inv, TreesInv
<1>4. Graph(p) /\ Same(s, p)
  BY <1>3, WithTreesKeeps DEF PlaceImport
<1>5. stack \in Seq(Waiting(s, H))
  <2>1. \A i \in DOMAIN stack : stack[i].f \in UnderWay
    BY DEF UnderWay, Held
  <2>2. \A i \in DOMAIN stack : stack[i] \in Waiting(s, DOMAIN s.texts)
    BY <1>3
  <2>3. \A i \in DOMAIN stack : stack[i] \in Waiting(s, H)
    BY <2>1, <2>2 DEF Waiting
  <2> HIDE DEF stack, H
  <2> QED BY <1>3, <2>3
<1> HIDE DEF p, r, stack
<1>6. stack \in Seq(Waiting(p, H))
  BY <1>4, <1>5, WaitingKept DEF Same
<1>7. Fitting(p, UnderWay, overlapped)
  BY <1>3, <1>4 DEF Same, Kept, Fitting, FitsText, ShowsOnly, isAnalyzed
<1>8. /\ \E G : UnderWay \subseteq G /\ Lands(p, r, G, overlapped)
      /\ \A v \in DOMAIN p.entries : r.s.entries[v].text = p.entries[v].text
  <2>1. H \subseteq UnderWay
    OBVIOUS
  <2> HIDE DEF H
  <2> QED BY <1>1, <1>4, <1>6, <1>7, <2>1, ImportedLands DEF r
<1>9. PICK G : UnderWay \subseteq G /\ Lands(p, r, G, overlapped)
  BY <1>8
<1>10. Lands(s, r, G, overlapped)
  BY <1>4, <1>9 DEF Lands, Grows, Same, Kept
<1>11. UNCHANGED <<docs, changed, walking, overlapped, dropped, renames>>
  BY DEF Resolve
<1>12. Suspend(t, r)
  BY <1>2 DEF p, r, stack
<1>13. TreesInv'
  BY <1>9, <1>10, <1>11, <1>12, SuspendKeeps DEF Inv
<1>14. Indexed' = Indexed /\ \A v \in Indexed : s'.entries[v].text = s.entries[v].text
  BY <1>4, <1>8, <1>10, <1>12 DEF Suspend, Lands, Grows, Same, Indexed
<1>15. TextsInv'
  BY <1>11, <1>14 DEF Inv, TextsInv, Due
<1>16. HistoryInv'
  BY <1>11, <1>14 DEF Inv, HistoryInv
<1> QED BY <1>13, <1>15, <1>16 DEF Inv

\* Steps that leave the analyses and what they have shown as they are.
LEMMA QuietKeeps ==
  ASSUME TreesInv, Graph(s'), Same(s, s'), s'.failed = s.failed, UNCHANGED <<tasks, overlapped>>
  PROVE  TreesInv'
<1>1. UnderWay' = UnderWay
  BY DEF UnderWay
<1>2. Fitting(s', UnderWay, overlapped)
  BY DEF TreesInv, Same, Kept, Fitting, FitsText, ShowsOnly, isAnalyzed
<1>3. Waiting(s', DOMAIN s'.texts) = Waiting(s, DOMAIN s.texts)
  BY WaitingKept DEF Same, Kept
<1> QED BY <1>1, <1>2, <1>3 DEF TreesInv

\* Edits, decisions and renames start nothing.
LEMMA EditKeeps ==
  ASSUME Inv, NEW u \in Indexed, NEW x \in Texts, Edit(u, x)
  PROVE  Inv'
<1>1. /\ docs' = [docs EXCEPT ![u] = x] /\ changed' = changed \cup {u}
      /\ UNCHANGED <<s, tasks, walking, overlapped, dropped, renames>>
  BY DEF Edit
<1>2. TreesInv'
  BY <1>1, QuietKeeps DEF Inv, TreesInv, Same, Kept
<1>3. Indexed' = Indexed
  BY <1>1 DEF Indexed
<1>4. TextsInv'
  <2>1. docs' \in [Indexed -> Texts] /\ \A v \in Indexed : v # u => docs'[v] = docs[v]
    BY <1>1 DEF Inv, TextsInv
  <2>2. ASSUME NEW v \in Indexed 
               PROVE  Due(v)' \/ v \in dropped' \/ s'.entries[v].text = docs'[v]
    BY <1>1, <2>1 DEF Inv, TextsInv, Due
  <2> QED BY <1>1, <1>3, <2>1, <2>2 DEF Inv, TextsInv
<1>5. HistoryInv'
  BY <1>1, <1>3 DEF Inv, HistoryInv
<1> QED BY <1>2, <1>4, <1>5 DEF Inv

LEMMA PreAnalyzeKeeps ==
  ASSUME Inv, NEW u \in Indexed, NEW reason \in {"unanalyzed", "changed"},
         PreAnalyze(u, reason)
  PROVE  Inv'
<1>1. /\ u \in Walked
      /\ changed' = IF reason = "changed" THEN changed \ {u} ELSE changed
      /\ walking' = walking \cup {<<u, reason>>}
      /\ UNCHANGED <<s, tasks, docs, overlapped, dropped, renames>>
  BY DEF PreAnalyze
<1>2. TreesInv'
  BY <1>1, QuietKeeps DEF Inv, TreesInv, Same, Kept
<1>3. Indexed' = Indexed
  BY <1>1 DEF Indexed
<1>4. TextsInv'
  <2>1. ASSUME NEW v \in Indexed PROVE Due(v) => Due(v)'
    BY <1>1 DEF Due
  <2> QED BY <1>1, <1>3, <2>1 DEF Inv, TextsInv
<1>5. HistoryInv'
  BY <1>1, <1>3 DEF Inv, HistoryInv
<1> QED BY <1>2, <1>4, <1>5 DEF Inv

\* A failed walk drops a change, and the history remembers its file.
LEMMA WalkFailsKeeps ==
  ASSUME Inv, NEW u \in Indexed, NEW reason \in {"unanalyzed", "changed"},
         WalkFails(u, reason)
  PROVE  Inv'
<1>1. /\ walking' = walking \ {<<u, reason>>}
      /\ dropped' = IF reason = "changed" THEN dropped \cup {u} ELSE dropped
      /\ UNCHANGED <<s, tasks, docs, changed, overlapped, renames>>
  BY DEF WalkFails
<1>2. TreesInv'
  BY <1>1, QuietKeeps DEF Inv, TreesInv, Same, Kept
<1>3. Indexed' = Indexed
  BY <1>1 DEF Indexed
<1>4. TextsInv'
  <2>1. ASSUME NEW v \in Indexed, Due(v) PROVE Due(v)' \/ v \in dropped'
    BY <1>1, <2>1 DEF Due
  <2> QED BY <1>1, <1>3, <2>1 DEF Inv, TextsInv
<1>5. HistoryInv'
  BY <1>1, <1>3 DEF Inv, HistoryInv
<1> QED BY <1>2, <1>4, <1>5 DEF Inv

LEMMA RenameKeeps ==
  ASSUME Inv, NEW u, NEW p, Rename(u, p)
  PROVE  Inv'
<1>1. /\ s' = [s EXCEPT !.nodes = MarkEdited(s, EditsAt(s, u, p)).nodes]
      /\ renames < MaxRenames /\ renames' = renames + 1
      /\ UNCHANGED <<tasks, docs, changed, walking, overlapped, dropped>>
  BY DEF Rename
<1>2. Graph(s') /\ Same(s, s') /\ s'.failed = s.failed
  BY <1>1, NodesKeep DEF Inv, TreesInv
<1>3. TreesInv'
  BY <1>1, <1>2, QuietKeeps DEF Inv
<1>4. Indexed' = Indexed /\ s'.entries = s.entries
  BY <1>2 DEF Same, Kept, Indexed
<1>5. TextsInv'
  BY <1>1, <1>4 DEF Inv, TextsInv, Due
<1>6. HistoryInv'
  BY <1>1, <1>4, AnalysisAssumption DEF Inv, HistoryInv
<1> QED BY <1>3, <1>5, <1>6 DEF Inv

\* Every step keeps the invariant,
LEMMA NextKeeps ==
  ASSUME Inv, [Next]_vars
  PROVE  Inv'
<1>1. CASE Next
  BY <1>1, AnalyzeUnanalyzedKeeps, EditKeeps, AnalyzeChangedKeeps, PreAnalyzeKeeps,
     AnalyzeWalkedKeeps, WalkFailsKeeps, ResolveKeeps, CompleteKeeps, RenameKeeps DEF Next
<1>2. CASE UNCHANGED vars
  <2>1. UNCHANGED <<s, tasks, docs, changed, walking, overlapped, dropped, renames>>
    BY <1>2 DEF vars
  <2> QED BY <2>1 DEF Inv, TreesInv, TextsInv, HistoryInv, UnderWay, Indexed, Due
<1> QED BY <1>1, <1>2

\* ... which says what the runs check.
LEMMA InvTypes ==
  ASSUME Inv
  PROVE  TypeOK
<1>1. \A u \in Indexed : EntryOK(s, u)
  BY DEF Inv, TreesInv, Graph, Indexed
<1>2. ASSUME NEW t \in Tasks, NEW i \in DOMAIN tasks[t] PROVE WaitsAtImport(tasks[t][i])
  <2>1. tasks[t] \in Seq(Waiting(s, DOMAIN s.texts))
    BY DEF Inv, TreesInv
  <2>2. tasks[t][i] \in Waiting(s, DOMAIN s.texts)
    BY <2>1
  <2>3. TextOK(s, tasks[t][i].f)
    BY <2>2, WaitingIs DEF Inv, TreesInv, Graph
  <2> QED BY <2>2, <2>3, WaitingIs DEF WaitsAtImport, TextOK, Indexed
<1>3. DOMAIN tasks = Tasks
  BY DEF Inv, TreesInv
<1> QED BY <1>1, <1>2, <1>3 DEF Inv, TreesInv, TextsInv, HistoryInv, TypeOK, EntryOK

LEMMA InvTrees ==
  ASSUME Inv
  PROVE  UndisturbedTreeIsText
<1>1. ASSUME NEW u \in Indexed \ (Pending \cup overlapped \cup dropped), isAnalyzed(s, u)
      PROVE  s.texts[CurrentFile(u)] = docs[u]
  <2>1. ~Due(u)
    BY DEF Due, Pending
  <2>2. s.entries[u].text = docs[u]
    BY <2>1 DEF Inv, TextsInv
  <2>3. FitsText(s, u)
    BY DEF Inv, TreesInv, Fitting, Indexed
  <2> QED BY <1>1, <2>2, <2>3 DEF FitsText, CurrentFile
<1> QED BY <1>1 DEF UndisturbedTreeIsText
-----------------------------------------------------------------------------
(* Theorems *)

\* The inductive invariant of the analyses holds in every reachable state,
\* however tasks overlap and whatever the Node classes do to the trees.
THEOREM AnalysisInvariant == Spec => []Inv
<1> QED BY InitInv, NextKeeps, PTL DEF Spec

\* Between two steps nothing has thrown (analyzeSolFile catches it), entries show
\* a tree of their own file, and every analysis that is under way waits at an
\* import directive of the text that it was begun with.
THEOREM AnalysisTypesCorrect == Spec => []TypeOK
<1> QED BY AnalysisInvariant, InvTypes, PTL

\* A file that has no change to be analysed shows the tree of its text in the
\* editor, also while analyses are under way, if it was never analysed twice at a
\* time and no walk of its imports has failed since its text has changed
\* (analyzeSolFile, analyse, onCompletion).
THEOREM UndisturbedTrees == Spec => []UndisturbedTreeIsText
<1> QED BY AnalysisInvariant, InvTrees, PTL
=============================================================================
