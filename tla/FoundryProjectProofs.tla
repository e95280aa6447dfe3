------------------------ MODULE FoundryProjectProofs ------------------------
(***************************************************************************)
(* Proofs about FoundryProject, for every set of configurations, files,    *)
(* names and texts, and any number of calls of initialize() under way.     *)
(*                                                                         *)
(* First the crawl. It is a recursive function, defined as the choice of   *)
(* one that satisfies its recursion: there is one because a crawl ends,    *)
(* and what it returns is found by induction over crawls, which rests on   *)
(* the well-foundedness of the natural numbers. Then the choice of the     *)
(* compiler and the input.                                                 *)
(*                                                                         *)
(* Then the project. What it ends up with is decided while nothing is at   *)
(* rest: ConfigInv says what the one call that is under way has done so    *)
(* far, when the server has been told of every change. TextsInv says that  *)
(* the index is what the editor shows where no analysis is due.            *)
(***************************************************************************)
EXTENDS FoundryProject, FiniteSetTheorems, SequenceTheorems, WellFoundedInduction, TLAPS

-----------------------------------------------------------------------------
(* Recursion that ends *)

\* A set of naturals has a least element.
LEMMA LeastNumber ==
  ASSUME NEW T, T \subseteq Nat, T # {}
  PROVE  \E x \in T : \A y \in T : x <= y
<1> DEFINE R == OpToRel(<, Nat)
<1>1. IsWellFoundedOn(R, Nat)
  BY NatLessThanWellFounded
<1>2. \E x \in T : \A y \in T : <<y, x>> \notin R
  <2> HIDE DEF R
  <2> QED BY <1>1, WFMin
<1>3. \A x, y \in Nat : x < y => <<x, y>> \in R
  BY DEF OpToRel
<1>4. PICK x \in T : \A y \in T : <<y, x>> \notin R
  BY <1>2
<1>5. \A y \in T : ~(y < x)
  <2> HIDE DEF R
  <2> QED BY <1>3, <1>4, Zenon
<1>6. \A y \in T : y \in Nat /\ x \in Nat
  BY <1>4
<1> HIDE DEF R
<1> QED BY <1>4, <1>5, <1>6, SMT

\* next ends in F: every set of arguments has one that is in F or that next leads
\* out of the set.
Ends(next, A, F) ==
  /\ F \in SUBSET A
  /\ next \in [A \ F -> A]
  /\ \A T \in SUBSET A : T # {} => \E a \in T : a \in F \/ next[a] \notin T

\* g is out on F and does what next does elsewhere.
Unfolds(g, A, F, out, next) == g = [a \in A |-> IF a \in F THEN out[a] ELSE g[next[a]]]

\* A function exists that is defined by recursion at the end of its body, if the
\* recursion ends.
LEMMA TailRecursion ==
  ASSUME NEW A, NEW F, NEW next, NEW out, Ends(next, A, F)
  PROVE  \E g : Unfolds(g, A, F, out, next)
<1> USE DEF Ends
<1> DEFINE V == {out[a] : a \in F}
<1>0. \A a \in F : out[a] \in V
  OBVIOUS
<1> HIDE DEF V
<1> DEFINE Closed(X) == /\ \A a \in F : <<a, out[a]>> \in X
                        /\ \A a \in A \ F, v \in V : <<next[a], v>> \in X => <<a, v>> \in X
           G == {p \in A \X V : \A X \in SUBSET (A \X V) : Closed(X) => p \in X}
<1>1. Closed(G)
  <2>1. \A a \in F : <<a, out[a]>> \in G
    BY <1>0
  <2>2. ASSUME NEW a \in A \ F, NEW v \in V, <<next[a], v>> \in G
        PROVE  <<a, v>> \in G
    BY <2>2
  <2> QED BY <2>1, <2>2
<1>2. ASSUME NEW a \in A, NEW v \in V, <<a, v>> \in G
      PROVE  \/ a \in F /\ v = out[a]
             \/ a \notin F /\ <<next[a], v>> \in G
  <2> SUFFICES ASSUME ~(a \in F /\ v = out[a]), ~(a \notin F /\ <<next[a], v>> \in G)
               PROVE  FALSE
    OBVIOUS
  <2> DEFINE X == G \ {<<a, v>>}
  <2>1. \A b \in F : <<b, out[b]>> \in X
    BY <1>1
  <2>2. \A b \in A \ F, w \in V : <<next[b], w>> \in X => <<b, w>> \in X
    BY <1>1
  <2>3. X \in SUBSET (A \X V)
    OBVIOUS
  <2>4. Closed(X)
    BY <2>1, <2>2
  <2> HIDE DEF X
  <2>5. <<a, v>> \in X
    BY <1>2, <2>3, <2>4
  <2> QED BY <2>5 DEF X
<1>3. Closed(G) /\ G \subseteq A \X V
  BY <1>1
<1> HIDE DEF G
<1>4. \A a \in A : \E v \in V : <<a, v>> \in G
  <2> DEFINE T == {a \in A : ~\E v \in V : <<a, v>> \in G}
  <2>1. SUFFICES ASSUME T # {} PROVE FALSE
    OBVIOUS
  <2>2. PICK a \in T : a \in F \/ next[a] \notin T
    <3> HIDE DEF T
    <3>1. T \in SUBSET A
      BY DEF T
    <3> QED BY <2>1, <3>1
  <2>3. CASE a \in F
    BY <1>0, <1>3, <2>2, <2>3
  <2>4. CASE a \notin F
    <3>1. PICK v \in V : <<next[a], v>> \in G
      BY <2>2, <2>4
    <3> QED BY <1>3, <2>2, <2>4, <3>1
  <2> QED BY <2>3, <2>4
<1>5. \A a \in A, v, w \in V : <<a, v>> \in G /\ <<a, w>> \in G => v = w
  <2> DEFINE T == {a \in A : \E v, w \in V : <<a, v>> \in G /\ <<a, w>> \in G /\ v # w}
  <2>1. SUFFICES ASSUME T # {} PROVE FALSE
    OBVIOUS
  <2>2. PICK a \in T : a \in F \/ next[a] \notin T
    <3> HIDE DEF T
    <3>1. T \in SUBSET A
      BY DEF T
    <3> QED BY <2>1, <3>1
  <2>3. PICK v \in V, w \in V : <<a, v>> \in G /\ <<a, w>> \in G /\ v # w
    BY <2>2
  <2>4. CASE a \in F
    BY <1>2, <2>2, <2>3, <2>4
  <2>5. CASE a \notin F
    <3>1. <<next[a], v>> \in G /\ <<next[a], w>> \in G
      BY <1>2, <2>2, <2>3, <2>5
    <3> QED BY <2>2, <2>3, <2>5, <3>1
  <2> QED BY <2>4, <2>5
<1>6. PICK g \in [A -> V] : \A a \in A : <<a, g[a]>> \in G
  <2> DEFINE h == [a \in A |-> CHOOSE v \in V : <<a, v>> \in G]
  <2>1. h \in [A -> V] /\ \A a \in A : <<a, h[a]>> \in G
    BY <1>4
  <2> HIDE DEF h
  <2> QED BY <2>1
<1>7. ASSUME NEW a \in A
      PROVE  g[a] = IF a \in F THEN out[a] ELSE g[next[a]]
  <2>1. CASE a \in F
    BY <1>2, <1>6, <2>1
  <2>2. CASE a \notin F
    <3>1. next[a] \in A
      BY <2>2
    <3>2. <<a, g[next[a]]>> \in G
      BY <1>3, <1>6, <2>2, <3>1
    <3> QED BY <1>5, <1>6, <2>2, <3>1, <3>2
  <2> QED BY <2>1, <2>2
<1> QED BY <1>7 DEF Unfolds

-----------------------------------------------------------------------------
(* The crawl *)

Indexes == [Files -> Texts]
Resolutions == [Files -> [Names -> Files \cup {None}]]
Finished == {c \in Crawls : c.todo = <<>>}

LEMMA FiniteSources == IsFiniteSet(Sources)
<1> DEFINE Pairs == (Names \cup Files) \X Files
           f == [x \in Pairs |-> [name |-> x[1], path |-> x[2]]]
<1>1. IsFiniteSet(Pairs)
  BY BasicCompilationAssumption, FS_Union, FS_Product
<1>2. \A d \in Sources : \E x \in Pairs : f[x] = d
  <2> TAKE d \in Sources
  <2>1. <<d.name, d.path>> \in Pairs /\ f[<<d.name, d.path>>] = d
    BY DEF Sources
  <2> QED BY <2>1
<1>3. \A x \in Pairs : f[x] \in Sources
  BY DEF Sources
<1>4. f \in Surjection(Pairs, Sources)
  <2>1. f \in [Pairs -> Sources]
    BY <1>3
  <2> HIDE DEF f, Pairs
  <2> QED BY <1>2, <2>1 DEF Surjection
<1> HIDE DEF f, Pairs
<1> QED BY <1>1, <1>4, FS_Surjection

LEMMA ImportsAreLinks ==
  ASSUME NEW texts \in Indexes, NEW found \in Resolutions, NEW f \in Files
  PROVE  /\ ImportsOf(texts, found, f) \in Seq(Links)
         /\ Len(ImportsOf(texts, found, f)) = Len(texts[f].imports)
         /\ \A k \in 1 .. Len(texts[f].imports) :
              ImportsOf(texts, found, f)[k] =
                [name |-> texts[f].imports[k], path |-> found[f][texts[f].imports[k]]]
<1> DEFINE s == texts[f].imports
<1>1. s \in Seq(Names) /\ Len(s) \in Nat /\ DOMAIN s = 1 .. Len(s)
  BY LenProperties DEF Indexes, Texts
<1>2. \A k \in 1 .. Len(s) : s[k] \in Names
  BY <1>1, ElementOfSeq
<1>3. \A i \in Names : found[f][i] \in Files \cup {None}
  BY DEF Resolutions
<1>4. ImportsOf(texts, found, f) = [k \in 1 .. Len(s) |-> [name |-> s[k], path |-> found[f][s[k]]]]
  BY <1>1 DEF ImportsOf
<1>5. \A k \in 1 .. Len(s) : [name |-> s[k], path |-> found[f][s[k]]] \in Links
  BY <1>2, <1>3 DEF Links
<1> HIDE DEF s
<1>6. ImportsOf(texts, found, f) \in [1 .. Len(s) -> Links]
  BY <1>4, <1>5
<1>7. ImportsOf(texts, found, f) \in Seq(Links)
  BY <1>1, <1>6, IsASeq
<1>8. Len(ImportsOf(texts, found, f)) = Len(s)
  BY <1>1, <1>6, <1>7, LenProperties
<1> QED BY <1>4, <1>7, <1>8 DEF s
\* A call leaves what a call may be given.
LEMMA CallKeeps ==
  ASSUME NEW texts \in Indexes, NEW found \in Resolutions, NEW c \in Crawls, c.todo # <<>>
  PROVE  /\ Call(texts, found, c) \in Crawls
         /\ Head(c.todo) \in Links /\ Tail(c.todo) \in Seq(Links)
         /\ Len(Tail(c.todo)) = Len(c.todo) - 1 /\ Len(c.todo) \in Nat
         /\ Head(c.todo).path # None => Head(c.todo) \in Sources
<1>1. c.todo \in Seq(Links) /\ c.visited \subseteq Sources
  BY DEF Crawls
<1>2. /\ Head(c.todo) \in Links /\ Tail(c.todo) \in Seq(Links)
      /\ Len(Tail(c.todo)) = Len(c.todo) - 1 /\ Len(c.todo) \in Nat
  BY <1>1, HeadTailProperties, LenProperties
<1>3. Head(c.todo).path # None => Head(c.todo) \in Sources
  BY <1>2 DEF Links, Sources
<1>4. CASE Head(c.todo).path = None \/ Head(c.todo) \in c.visited
  <2>1. Call(texts, found, c) = [c EXCEPT !.todo = Tail(@)]
    BY <1>4 DEF Call
  <2> QED BY <1>1, <1>2, <1>3, <2>1 DEF Crawls
<1>5. CASE ~(Head(c.todo).path = None \/ Head(c.todo) \in c.visited)
  <2> DEFINE i == ImportsOf(texts, found, Head(c.todo).path)
  <2>1. Call(texts, found, c) = [todo |-> i \o Tail(c.todo),
                                 visited |-> c.visited \cup {Head(c.todo)}]
    BY <1>5 DEF Call
  <2>2. Head(c.todo) \in Sources /\ Head(c.todo).path \in Files
    BY <1>3, <1>5 DEF Sources
  <2>3. i \in Seq(Links)
    BY <2>2, ImportsAreLinks
  <2> HIDE DEF i
  <2>4. i \o Tail(c.todo) \in Seq(Links)
    BY <1>2, <2>3, ConcatProperties
  <2>5. c.visited \cup {Head(c.todo)} \in SUBSET Sources
    BY <1>1, <2>2
  <2> QED BY <1>2, <1>3, <2>1, <2>4, <2>5 DEF Crawls
<1> QED BY <1>4, <1>5

\* Crawls end: among any there is one that has ended or that a call leads out of
\* them. A call visits a source that was not, of finitely many, or leaves fewer.
LEMMA CrawlsEnd ==
  ASSUME NEW texts \in Indexes, NEW found \in Resolutions,
         NEW T \in SUBSET Crawls, T # {}
  PROVE  \E c \in T : c \in Finished \/ Call(texts, found, c) \notin T
<1> DEFINE Left(c) == Cardinality(Sources \ c.visited)
           Lefts == {Left(c) : c \in T}
<1>0. \A c \in T : c \in Crawls /\ c.todo \in Seq(Links) /\ c.visited \subseteq Sources
  BY DEF Crawls
<1>1. \A c \in T : IsFiniteSet(Sources \ c.visited) /\ Left(c) \in Nat
  BY FiniteSources, FS_Subset, FS_CardinalityType
<1>2. PICK m \in T : \A c \in T : Left(m) <= Left(c)
  <2>1. Lefts \subseteq Nat /\ Lefts # {}
    BY <1>1
  <2>2. \E x \in Lefts : \A y \in Lefts : x <= y
    <3> HIDE DEF Lefts
    <3> QED BY <2>1, LeastNumber
  <2> HIDE DEF Left
  <2> QED BY <2>2
<1> DEFINE U == {c \in T : Left(c) = Left(m)}
           Lens == {Len(c.todo) : c \in U}
<1>3. PICK n \in U : \A c \in U : Len(n.todo) <= Len(c.todo)
  <2>1. Lens \subseteq Nat /\ Lens # {}
    <3>1. \A c \in U : Len(c.todo) \in Nat
      BY <1>0, LenProperties
    <3>2. m \in U
      OBVIOUS
    <3> HIDE DEF U
    <3> QED BY <3>1, <3>2
  <2>2. \E x \in Lens : \A y \in Lens : x <= y
    <3> HIDE DEF Lens
    <3> QED BY <2>1, LeastNumber
  <2> HIDE DEF U
  <2> QED BY <2>2
<1>4. SUFFICES ASSUME n \notin Finished, Call(texts, found, n) \in T PROVE FALSE
  BY <1>3
<1> DEFINE next == Call(texts, found, n)
           h == Head(n.todo)
<1>5. n \in Crawls /\ n.todo # <<>>
  BY <1>0, <1>3, <1>4 DEF Finished
<1>6. /\ next \in Crawls /\ h \in Links
      /\ Len(Tail(n.todo)) = Len(n.todo) - 1 /\ Len(n.todo) \in Nat
      /\ h.path # None => h \in Sources
  BY <1>5, CallKeeps
<1>7. CASE h.path = None \/ h \in n.visited
  <2>1. next = [n EXCEPT !.todo = Tail(@)]
    BY <1>7 DEF Call
  <2>2. next.todo = Tail(n.todo) /\ next.visited = n.visited
    BY <1>5, <2>1 DEF Crawls
  <2>3. next \in U
    BY <1>3, <1>4, <2>2
  <2>4. Len(n.todo) <= Len(next.todo)
    <3> HIDE DEF U, next
    <3> QED BY <1>3, <2>3
  <2> QED BY <1>6, <2>2, <2>4
<1>8. CASE ~(h.path = None \/ h \in n.visited)
  <2>1. next.visited = n.visited \cup {h}
    BY <1>8 DEF Call
  <2>2. h \in Sources \ n.visited /\ Sources \ next.visited = (Sources \ n.visited) \ {h}
    BY <1>6, <1>8, <2>1
  <2>3. Cardinality((Sources \ n.visited) \ {h}) = Cardinality(Sources \ n.visited) - 1
    BY <1>1, <1>3, <2>2, FS_RemoveElement
  <2>4. Left(next) = Left(n) - 1
    BY <2>2, <2>3
  <2>5. Left(m) <= Left(next) /\ Left(n) = Left(m) /\ Left(n) \in Nat
    <3> HIDE DEF Left, next
    <3> QED BY <1>1, <1>2, <1>3, <1>4 DEF next
  <2> HIDE DEF Left, next
  <2> QED BY <2>4, <2>5
<1> QED BY <1>7, <1>8

\* The crawl follows its recursion.
LEMMA CrawlUnfolds ==
  ASSUME NEW texts \in Indexes, NEW found \in Resolutions
  PROVE  \A c \in Crawls : Crawling(texts, found)[c] =
           IF c.todo = <<>> THEN c.visited ELSE Crawling(texts, found)[Call(texts, found, c)]
<1> DEFINE body(g) == [c \in Crawls |-> IF c.todo = <<>> THEN c.visited
                                        ELSE g[Call(texts, found, c)]]
           visited == [c \in Finished |-> c.visited]
           next == [c \in Crawls \ Finished |-> Call(texts, found, c)]
<1>1. Ends(next, Crawls, Finished)
  <2>1. Finished \in SUBSET Crawls
    BY DEF Finished
  <2>2. next \in [Crawls \ Finished -> Crawls]
    BY CallKeeps DEF Finished
  <2>3. \A T \in SUBSET Crawls : T # {} => \E c \in T : c \in Finished \/ next[c] \notin T
    BY CrawlsEnd
  <2> HIDE DEF next
  <2> QED BY <2>1, <2>2, <2>3 DEF Ends
<1>2. \E g : Unfolds(g, Crawls, Finished, visited, next)
  <2> HIDE DEF visited, next
  <2> QED BY <1>1, TailRecursion
<1>5. PICK g : g = [c \in Crawls |-> IF c \in Finished THEN visited[c] ELSE g[next[c]]]
  <2> HIDE DEF visited, next
  <2> QED BY <1>2 DEF Unfolds
<1>6. [c \in Crawls |-> IF c \in Finished THEN visited[c] ELSE g[next[c]]] = body(g)
  <2>1. \A c \in Crawls : (IF c \in Finished THEN visited[c] ELSE g[next[c]]) =
                          (IF c.todo = <<>> THEN c.visited ELSE g[Call(texts, found, c)])
    BY DEF Finished
  <2> HIDE DEF visited, next
  <2> QED BY <2>1
<1>7. \E f : f = body(f)
  <2> HIDE DEF visited, next, body
  <2> QED BY <1>5, <1>6
<1>8. Crawling(texts, found) = CHOOSE f : f = body(f)
  BY DEF Crawling
<1>9. Crawling(texts, found) = body(Crawling(texts, found))
  <2> HIDE DEF body
  <2> QED BY <1>7, <1>8
<1> HIDE DEF visited, next
<1> QED BY <1>9
LEMMA ElementsOf ==
  ASSUME NEW S, NEW s \in Seq(S)
  PROVE  /\ ToSet(s) = {s[k] : k \in 1 .. Len(s)}
         /\ ToSet(s) \subseteq S
<1>1. DOMAIN s = 1 .. Len(s) /\ \A k \in 1 .. Len(s) : s[k] \in S
  BY LenProperties, ElementOfSeq
<1> QED BY <1>1 DEF ToSet

LEMMA ElementsOfBoth ==
  ASSUME NEW S, NEW s \in Seq(S), NEW t \in Seq(S)
  PROVE  ToSet(s \o t) = ToSet(s) \cup ToSet(t)
<1>1. /\ s \o t \in Seq(S) /\ Len(s) \in Nat /\ Len(t) \in Nat
      /\ Len(s \o t) = Len(s) + Len(t)
      /\ \A k \in 1 .. Len(s) + Len(t) :
           (s \o t)[k] = IF k <= Len(s) THEN s[k] ELSE t[k - Len(s)]
  BY ConcatProperties, LenProperties
<1>2. /\ ToSet(s) = {s[k] : k \in 1 .. Len(s)} /\ ToSet(t) = {t[k] : k \in 1 .. Len(t)}
      /\ ToSet(s \o t) = {(s \o t)[k] : k \in 1 .. Len(s) + Len(t)}
  BY <1>1, ElementsOf
<1>3. \A k \in 1 .. Len(s) : k \in 1 .. Len(s) + Len(t) /\ (s \o t)[k] = s[k]
  BY <1>1
<1>4. \A k \in 1 .. Len(t) : /\ Len(s) + k \in 1 .. Len(s) + Len(t)
                             /\ (s \o t)[Len(s) + k] = t[k]
  BY <1>1
<1>5. \A k \in 1 .. Len(s) + Len(t) : \/ k \in 1 .. Len(s) /\ (s \o t)[k] = s[k]
                                      \/ k - Len(s) \in 1 .. Len(t) /\ (s \o t)[k] = t[k - Len(s)]
  BY <1>1
<1> QED BY <1>2, <1>3, <1>4, <1>5

LEMMA ElementsOfTail ==
  ASSUME NEW S, NEW s \in Seq(S), s # <<>>
  PROVE  ToSet(s) = {Head(s)} \cup ToSet(Tail(s))
<1>1. /\ Tail(s) \in Seq(S) /\ Head(s) = s[1] /\ Len(s) \in Nat \ {0}
      /\ Len(Tail(s)) = Len(s) - 1
      /\ \A k \in 1 .. Len(s) - 1 : Tail(s)[k] = s[k + 1]
  BY HeadTailProperties, LenProperties, EmptySeq
<1>2. /\ ToSet(s) = {s[k] : k \in 1 .. Len(s)}
      /\ ToSet(Tail(s)) = {Tail(s)[k] : k \in 1 .. Len(s) - 1}
  BY <1>1, ElementsOf
<1>3. \A k \in 1 .. Len(s) : k = 1 \/ (k - 1 \in 1 .. Len(s) - 1 /\ s[k] = Tail(s)[k - 1])
  BY <1>1
<1>4. \A k \in 1 .. Len(s) - 1 : k + 1 \in 1 .. Len(s) /\ Tail(s)[k] = s[k + 1]
  BY <1>1
<1>5. 1 \in 1 .. Len(s)
  BY <1>1
<1>6. ToSet(s) \subseteq {Head(s)} \cup ToSet(Tail(s))
  BY <1>1, <1>2, <1>3
<1>7. Head(s) \in ToSet(s)
  BY <1>1, <1>2, <1>5
<1>8. ToSet(Tail(s)) \subseteq ToSet(s)
  BY <1>2, <1>4
<1> QED BY <1>6, <1>7, <1>8

LEMMA NoElements == ToSet(<<>>) = {}
<1>1. DOMAIN <<>> = {}
  OBVIOUS
<1> QED BY <1>1 DEF ToSet

\* The call for import h of crawl c leaves crawl next: either it does nothing, or it
\* visits h and leaves the imports is of the file.
Passed(c, h, next) ==
  /\ h.path = None \/ h \in c.visited
  /\ next.visited = c.visited
  /\ ToSet(c.todo) = {h} \cup ToSet(next.todo)
Visits(c, h, next, is) ==
  /\ h \in Sources /\ h.path # None
  /\ next.visited = c.visited \cup {h}
  /\ {h} \cup ToSet(next.todo) = ToSet(c.todo) \cup ToSet(is)
  /\ ToSet(is) \subseteq ToSet(next.todo)

LEMMA CallMoves ==
  ASSUME NEW texts \in Indexes, NEW found \in Resolutions, NEW c \in Crawls, c.todo # <<>>
  PROVE  /\ Head(c.todo) \in ToSet(c.todo)
         /\ \/ Passed(c, Head(c.todo), Call(texts, found, c))
            \/ Visits(c, Head(c.todo), Call(texts, found, c),
                      ImportsOf(texts, found, Head(c.todo).path))
<1> DEFINE h == Head(c.todo)
           next == Call(texts, found, c)
           i == ImportsOf(texts, found, h.path)
<1>1. c.todo \in Seq(Links) /\ c.visited \subseteq Sources /\ Tail(c.todo) \in Seq(Links)
  BY CallKeeps DEF Crawls
<1>2. ToSet(c.todo) = {h} \cup ToSet(Tail(c.todo))
  BY <1>1, ElementsOfTail
<1>3. CASE h.path = None \/ h \in c.visited
  <2>1. next = [c EXCEPT !.todo = Tail(@)]
    BY <1>3 DEF Call
  <2>2. next.todo = Tail(c.todo) /\ next.visited = c.visited
    BY <2>1 DEF Crawls
  <2> HIDE DEF h, next
  <2>3. h \in ToSet(c.todo) /\ ToSet(c.todo) = {h} \cup ToSet(next.todo)
    BY <1>2, <2>2
  <2> QED BY <1>3, <2>2, <2>3 DEF h, next, Passed
<1>4. CASE ~(h.path = None \/ h \in c.visited)
  <2>1. next = [todo |-> i \o Tail(c.todo), visited |-> c.visited \cup {h}]
    BY <1>4 DEF Call
  <2>2. h \in Sources /\ h.path \in Files /\ h.path # None
    BY <1>4, CallKeeps DEF Sources
  <2>3. i \in Seq(Links)
    BY <2>2, ImportsAreLinks
  <2> HIDE DEF h, next, i
  <2>4. next.todo = i \o Tail(c.todo) /\ next.visited = c.visited \cup {h}
    BY <2>1
  <2>5. ToSet(next.todo) = ToSet(i) \cup ToSet(Tail(c.todo))
    <3>1. ToSet(i \o Tail(c.todo)) = ToSet(i) \cup ToSet(Tail(c.todo))
      BY <1>1, <2>3, ElementsOfBoth
    <3> QED BY <2>4, <3>1
  <2>6. /\ h \in ToSet(c.todo)
        /\ {h} \cup ToSet(next.todo) = ToSet(c.todo) \cup ToSet(i)
        /\ ToSet(i) \subseteq ToSet(next.todo)
    BY <1>2, <2>5
  <2> QED BY <2>2, <2>4, <2>6 DEF h, next, i, Visits
<1> QED BY <1>3, <1>4

\* Induction over crawls.
LEMMA CrawlInduction ==
  ASSUME NEW texts \in Indexes, NEW found \in Resolutions, NEW Good,
         \A c \in Crawls : c.todo = <<>> => c \in Good,
         \A c \in Crawls : c.todo # <<>> /\ Call(texts, found, c) \in Good => c \in Good
  PROVE  Crawls \subseteq Good
<1> SUFFICES ASSUME Crawls \ Good # {} PROVE FALSE
  OBVIOUS
<1>1. Crawls \ Good \in SUBSET Crawls
  OBVIOUS
<1>2. PICK c \in Crawls \ Good : c \in Finished \/ Call(texts, found, c) \notin Crawls \ Good
  BY <1>1, CrawlsEnd
<1> QED BY <1>2, CallKeeps DEF Finished

\* A crawl returns what it has visited and every import that is left and resolves.
LEMMA CrawlReturns ==
  ASSUME NEW texts \in Indexes, NEW found \in Resolutions
  PROVE  \A c \in Crawls :
           LET met == Crawling(texts, found)[c]
           IN  /\ c.visited \subseteq met /\ met \subseteq Sources
               /\ \A l \in ToSet(c.todo) : l.path # None => l \in met
<1> DEFINE met(c) == Crawling(texts, found)[c]
           P(c) == /\ c.visited \subseteq met(c) /\ met(c) \subseteq Sources
                   /\ \A l \in ToSet(c.todo) : l.path # None => l \in met(c)
           Good == {c \in Crawls : P(c)}
<1>1. ASSUME NEW c \in Crawls, c.todo = <<>> PROVE c \in Good
  <2>1. met(c) = c.visited
    BY <1>1, CrawlUnfolds
  <2>2. c.visited \subseteq Sources
    BY DEF Crawls
  <2>3. ToSet(c.todo) = {}
    BY <1>1, NoElements
  <2> HIDE DEF met
  <2> QED BY <2>1, <2>2, <2>3
<1>2. ASSUME NEW c \in Crawls, c.todo # <<>>, Call(texts, found, c) \in Good PROVE c \in Good
  <2> DEFINE next == Call(texts, found, c)
             h == Head(c.todo)
  <2>1. met(c) = met(next)
    BY <1>2, CrawlUnfolds
  <2>2. P(next)
    BY <1>2
  <2>3. /\ h \in ToSet(c.todo)
        /\ \/ Passed(c, h, next)
           \/ Visits(c, h, next, ImportsOf(texts, found, h.path))
    BY <1>2, CallMoves
  <2> HIDE DEF met, next, h
  <2>4. P(c)
    BY <2>1, <2>2, <2>3 DEF Passed, Visits
  <2> QED BY <2>4
<1> HIDE DEF Good
<1>3. Crawls \subseteq Good
  BY <1>1, <1>2, CrawlInduction
<1> QED BY <1>3 DEF Good
\* Every import of what a crawl has visited resolves to nothing, is visited or is left.
Followed(texts, found, visited, links) ==
  \A d \in visited : \A l \in ToSet(ImportsOf(texts, found, d.path)) :
    l.path = None \/ l \in visited \/ l \in links

\* If so, every import of what a crawl returns resolves to nothing or is returned.
LEMMA CrawlFollows ==
  ASSUME NEW texts \in Indexes, NEW found \in Resolutions
  PROVE  \A c \in Crawls : Followed(texts, found, c.visited, ToSet(c.todo)) =>
           Followed(texts, found, Crawling(texts, found)[c], {})
<1> DEFINE met(c) == Crawling(texts, found)[c]
           Good == {c \in Crawls : Followed(texts, found, c.visited, ToSet(c.todo)) =>
                                   Followed(texts, found, met(c), {})}
<1>1. ASSUME NEW c \in Crawls, c.todo = <<>> PROVE c \in Good
  <2>1. met(c) = c.visited
    BY <1>1, CrawlUnfolds
  <2>2. ToSet(c.todo) = {}
    BY <1>1, NoElements
  <2> HIDE DEF met
  <2> QED BY <2>1, <2>2
<1>2. ASSUME NEW c \in Crawls, c.todo # <<>>, Call(texts, found, c) \in Good PROVE c \in Good
  <2> DEFINE next == Call(texts, found, c)
             h == Head(c.todo)
  <2>1. met(c) = met(next)
    BY <1>2, CrawlUnfolds
  <2>2. Followed(texts, found, next.visited, ToSet(next.todo)) =>
          Followed(texts, found, met(next), {})
    BY <1>2
  <2>3. /\ h \in ToSet(c.todo)
        /\ \/ Passed(c, h, next)
           \/ Visits(c, h, next, ImportsOf(texts, found, h.path))
    BY <1>2, CallMoves
  <2> HIDE DEF met, next, h
  <2>4. ASSUME Followed(texts, found, c.visited, ToSet(c.todo))
        PROVE  Followed(texts, found, next.visited, ToSet(next.todo))
    BY <2>3, <2>4 DEF Passed, Visits, Followed
  <2> QED BY <2>1, <2>2, <2>4
<1> HIDE DEF Good
<1>3. Crawls \subseteq Good
  BY <1>1, <1>2, CrawlInduction
<1> QED BY <1>3 DEF Good

\* A set of sources that imports do not lead out of.
LeadsNowhere(texts, found, S) ==
  \A d \in S : \A l \in ToSet(ImportsOf(texts, found, d.path)) : l.path = None \/ l \in S

\* A crawl stays in every such set that it has stayed in.
LEMMA CrawlStays ==
  ASSUME NEW texts \in Indexes, NEW found \in Resolutions, NEW S,
         LeadsNowhere(texts, found, S)
  PROVE  \A c \in Crawls :
           /\ c.visited \subseteq S
           /\ \A l \in ToSet(c.todo) : l.path = None \/ l \in S
           => Crawling(texts, found)[c] \subseteq S
<1> DEFINE met(c) == Crawling(texts, found)[c]
           Within(c) == /\ c.visited \subseteq S
                        /\ \A l \in ToSet(c.todo) : l.path = None \/ l \in S
           Good == {c \in Crawls : Within(c) => met(c) \subseteq S}
<1>1. ASSUME NEW c \in Crawls, c.todo = <<>> PROVE c \in Good
  <2>1. met(c) = c.visited
    BY <1>1, CrawlUnfolds
  <2> HIDE DEF met
  <2> QED BY <2>1
<1>2. ASSUME NEW c \in Crawls, c.todo # <<>>, Call(texts, found, c) \in Good PROVE c \in Good
  <2> DEFINE next == Call(texts, found, c)
             h == Head(c.todo)
  <2>1. met(c) = met(next)
    BY <1>2, CrawlUnfolds
  <2>2. Within(next) => met(next) \subseteq S
    BY <1>2
  <2>3. /\ h \in ToSet(c.todo)
        /\ \/ Passed(c, h, next)
           \/ Visits(c, h, next, ImportsOf(texts, found, h.path))
    BY <1>2, CallMoves
  <2> HIDE DEF met, next, h
  <2>4. ASSUME Within(c) PROVE Within(next)
    BY <2>3, <2>4 DEF Passed, Visits, LeadsNowhere
  <2> QED BY <2>1, <2>2, <2>4
<1> HIDE DEF Good
<1>3. Crawls \subseteq Good
  BY <1>1, <1>2, CrawlInduction
<1> QED BY <1>3 DEF Good

\* The calls that a crawl of the file at path makes.
CrawlOf(path) == [todo |-> <<[name |-> path, path |-> path]>>, visited |-> {}]

\* A crawl meets the file it begins with and all that it needs, nothing else, and
\* each file by all the names that it is imported by and by no others.
LEMMA CrawlMeetsNeeded ==
  ASSUME NEW texts \in Indexes, NEW found \in Resolutions, NEW path \in Files
  PROVE  LET met == getDependenciesAndPragmas(texts, found, path)
         IN  /\ {d.path : d \in met} = Needed(texts, found, path)
             /\ \A d \in met : \A i \in ToSet(texts[d.path].imports) :
                  found[d.path][i] # None => [name |-> i, path |-> found[d.path][i]] \in met
             /\ \A d \in met : \/ d = [name |-> path, path |-> path]
                               \/ \E f \in Needed(texts, found, path) :
                                    /\ d.name \in ToSet(texts[f].imports)
                                    /\ d.path = found[f][d.name]
<1> DEFINE c == CrawlOf(path)
           met == Crawling(texts, found)[c]
<1>1. /\ c \in Crawls
      /\ ToSet(c.todo) = {[name |-> path, path |-> path]} /\ c.visited = {}
  BY DEF ToSet, CrawlOf, Crawls, Links
<1>2. getDependenciesAndPragmas(texts, found, path) = met
  BY DEF getDependenciesAndPragmas, CrawlOf
<1> HIDE DEF c
<1>3. met \subseteq Sources /\ [name |-> path, path |-> path] \in met
  <2>1. met \subseteq Sources /\ \A l \in ToSet(c.todo) : l.path # None => l \in met
    BY <1>1, CrawlReturns
  <2>2. path # None
    BY BasicCompilationAssumption
  <2> QED BY <1>1, <2>1, <2>2
<1>4. Followed(texts, found, met, {})
  <2>1. Followed(texts, found, c.visited, ToSet(c.todo))
    BY <1>1 DEF Followed
  <2> QED BY <1>1, <2>1, CrawlFollows
<1>5. ASSUME NEW S, S \subseteq met, [name |-> path, path |-> path] \in S,
             LeadsNowhere(texts, found, S)
      PROVE  S = met
  <2>1. /\ c.visited \subseteq S
        /\ \A l \in ToSet(c.todo) : l.path = None \/ l \in S
    BY <1>1, <1>5
  <2> QED BY <1>1, <1>5, <2>1, CrawlStays
<1> HIDE DEF met
<1>6. ASSUME NEW f \in Files
      PROVE  /\ \A i \in ToSet(texts[f].imports) :
                  [name |-> i, path |-> found[f][i]] \in ToSet(ImportsOf(texts, found, f))
             /\ \A l \in ToSet(ImportsOf(texts, found, f)) :
                  /\ l.name \in ToSet(texts[f].imports)
                  /\ l = [name |-> l.name, path |-> found[f][l.name]]
  <2>1. texts[f].imports \in Seq(Names)
    BY DEF Indexes, Texts
  <2>2. ToSet(texts[f].imports) = {texts[f].imports[k] : k \in 1 .. Len(texts[f].imports)}
    BY <2>1, ElementsOf
  <2>3. ToSet(ImportsOf(texts, found, f)) =
          {ImportsOf(texts, found, f)[k] : k \in 1 .. Len(texts[f].imports)}
    BY ImportsAreLinks, ElementsOf
  <2>4. \A k \in 1 .. Len(texts[f].imports) :
          ImportsOf(texts, found, f)[k] =
            [name |-> texts[f].imports[k], path |-> found[f][texts[f].imports[k]]]
    BY ImportsAreLinks
  <2> DEFINE s == texts[f].imports
             is == ImportsOf(texts, found, f)
  <2>5. \A i \in ToSet(s) : [name |-> i, path |-> found[f][i]] \in ToSet(is)
    <3> HIDE DEF s, is
    <3> SUFFICES ASSUME NEW k \in 1 .. Len(s)
                 PROVE  [name |-> s[k], path |-> found[f][s[k]]] \in ToSet(is)
      BY <2>2 DEF s
    <3>1. is[k] \in ToSet(is)
      BY <2>3 DEF s, is
    <3> QED BY <2>4, <3>1 DEF s, is
  <2>6. ASSUME NEW l \in ToSet(is)
        PROVE  l.name \in ToSet(s) /\ l = [name |-> l.name, path |-> found[f][l.name]]
    <3> HIDE DEF s, is
    <3>1. PICK k \in 1 .. Len(s) : l = is[k]
      BY <2>3 DEF s, is
    <3>2. l = [name |-> s[k], path |-> found[f][s[k]]]
      BY <2>4, <3>1 DEF s, is
    <3>3. s[k] \in ToSet(s)
      BY <2>2 DEF s
    <3> QED BY <3>2, <3>3
  <2> QED BY <2>5, <2>6
<1>7. ASSUME NEW d \in met, NEW i \in ToSet(texts[d.path].imports), found[d.path][i] # None
      PROVE  [name |-> i, path |-> found[d.path][i]] \in met
  <2>1. d.path \in Files
    BY <1>3 DEF Sources
  <2>2. [name |-> i, path |-> found[d.path][i]] \in ToSet(ImportsOf(texts, found, d.path))
    BY <1>6, <2>1
  <2> QED BY <1>4, <1>7, <2>2 DEF Followed
<1> DEFINE Paths == {d.path : d \in met}
           Closed(S) == \A f \in S : \A i \in ToSet(texts[f].imports) :
                          found[f][i] \in S \cup {None}
<1>8. Paths \subseteq Files /\ path \in Paths
  BY <1>3 DEF Sources
<1>9. Closed(Paths)
  <2>1. ASSUME NEW d \in met, NEW i \in ToSet(texts[d.path].imports)
        PROVE  found[d.path][i] \in Paths \cup {None}
    <3>1. CASE found[d.path][i] # None
      <4>1. [name |-> i, path |-> found[d.path][i]] \in met
        BY <1>7, <3>1
      <4> QED BY <4>1
    <3> QED BY <3>1
  <2> QED BY <2>1
<1>10. ASSUME NEW S \in SUBSET Files, path \in S, Closed(S)
       PROVE  Paths \subseteq S
  <2> DEFINE L == {d \in met : d.path \in S}
  <2>1. LeadsNowhere(texts, found, L)
    <3>1. ASSUME NEW d \in L, NEW l \in ToSet(ImportsOf(texts, found, d.path))
          PROVE  l.path = None \/ l \in L
      <4>1. d.path \in Files /\ d.path \in S
        BY <1>10
      <4>2. l.name \in ToSet(texts[d.path].imports) /\ l.path = found[d.path][l.name]
        BY <1>6, <4>1
      <4>3. l.path \in S \cup {None}
        BY <1>10, <4>1, <4>2
      <4>4. l.path = None \/ l \in met
        BY <1>4 DEF Followed
      <4> QED BY <4>3, <4>4
    <3> HIDE DEF L
    <3> QED BY <3>1 DEF LeadsNowhere
  <2>2. L \subseteq met /\ [name |-> path, path |-> path] \in L
    BY <1>3, <1>10
  <2>3. L = met
    <3> HIDE DEF L
    <3> QED BY <1>5, <2>1, <2>2
  <2> QED BY <2>3
<1>11. Needed(texts, found, path) =
         {f \in Files : \A S \in SUBSET Files : path \in S /\ Closed(S) => f \in S}
  BY DEF Needed
<1>12. Paths = Needed(texts, found, path)
  <2> HIDE DEF Paths, Closed
  <2> QED BY <1>8, <1>9, <1>10, <1>11
<1> DEFINE Imported(d) == \E f \in Paths : /\ d.name \in ToSet(texts[f].imports)
                                           /\ d.path = found[f][d.name]
           I == {d \in met : d = [name |-> path, path |-> path] \/ Imported(d)}
<1>13. I = met
  <2>1. LeadsNowhere(texts, found, I)
    <3>1. ASSUME NEW d \in I, NEW l \in ToSet(ImportsOf(texts, found, d.path))
          PROVE  l.path = None \/ l \in I
      <4>1. d.path \in Files /\ d.path \in Paths
        BY <1>8
      <4>2. l.name \in ToSet(texts[d.path].imports) /\ l.path = found[d.path][l.name]
        BY <1>6, <4>1
      <4>3. Imported(l)
        BY <4>1, <4>2
      <4>4. l.path = None \/ l \in met
        BY <1>4 DEF Followed
      <4> HIDE DEF Imported
      <4> QED BY <4>3, <4>4
    <3> HIDE DEF I
    <3> QED BY <3>1 DEF LeadsNowhere
  <2>2. I \subseteq met /\ [name |-> path, path |-> path] \in I
    BY <1>3
  <2> HIDE DEF I
  <2> QED BY <1>5, <2>1, <2>2
<1>14. \A d \in met : d = [name |-> path, path |-> path] \/ Imported(d)
  <2> HIDE DEF Imported
  <2> QED BY <1>13
<1> QED BY <1>2, <1>7, <1>12, <1>14

-----------------------------------------------------------------------------
(* The input *)

\* A finite set of numbers has a largest one.
LEMMA LargestNumber ==
  ASSUME NEW S \in SUBSET Nat, S # {}, IsFiniteSet(S)
  PROVE  \E v \in S : \A w \in S : w <= v
<1> DEFINE Large(X) == \E v \in X : \A w \in X : w <= v
           Bad == {X \in SUBSET S : X # {} /\ ~Large(X)}
           Sizes == {Cardinality(X) : X \in Bad}
<1>0. \A X \in SUBSET S : IsFiniteSet(X) /\ Cardinality(X) \in Nat
  BY FS_Subset, FS_CardinalityType
<1>1. SUFFICES ASSUME Bad # {} PROVE FALSE
  <2> HIDE DEF Large
  <2>1. Large(S)
    BY <1>1
  <2> QED BY <2>1 DEF Large
<1>2. PICK X \in Bad : \A Y \in Bad : Cardinality(X) <= Cardinality(Y)
  <2>1. Sizes \subseteq Nat /\ Sizes # {}
    BY <1>0, <1>1
  <2>2. \E x \in Sizes : \A y \in Sizes : x <= y
    <3> HIDE DEF Sizes
    <3> QED BY <2>1, LeastNumber
  <2> HIDE DEF Bad
  <2> QED BY <2>2
<1>3. PICK x \in X : TRUE
  BY <1>2
<1> DEFINE Y == X \ {x}
<1>4. Cardinality(Y) = Cardinality(X) - 1 /\ Cardinality(X) \in Nat /\ Cardinality(Y) \in Nat
  BY <1>0, <1>2, <1>3, FS_RemoveElement
<1>5. Y \notin Bad
  <2> HIDE DEF Bad, Y
  <2> QED BY <1>2, <1>4
<1>6. CASE Y = {}
  <2>1. \A w \in X : w = x
    BY <1>6
  <2>2. x \in Nat
    BY <1>2, <1>3
  <2>3. \A w \in X : w <= x
    BY <2>1, <2>2
  <2> QED BY <1>2, <1>3, <2>3
<1>7. CASE Y # {}
  <2>1. PICK v \in Y : \A w \in Y : w <= v
    BY <1>2, <1>5, <1>7
  <2>2. x \in Nat /\ v \in Nat /\ v \in X /\ \A w \in X : w = x \/ w \in Y
    BY <1>2, <1>3, <2>1
  <2>3. CASE x <= v
    <3>1. \A w \in X : w <= v
      BY <2>1, <2>2, <2>3
    <3> QED BY <1>2, <2>2, <3>1
  <2>4. CASE v <= x
    <3>1. \A w \in Y : w \in Nat
      BY <1>2
    <3>2. \A w \in Y : w <= x
      <4> HIDE DEF Y
      <4> QED BY <2>1, <2>2, <2>4, <3>1
    <3>3. \A w \in X : w <= x
      BY <2>2, <3>2
    <3> QED BY <1>2, <1>3, <3>3
  <2> QED BY <2>2, <2>3, <2>4
<1> QED BY <1>6, <1>7

LEMMA NewestVersion ==
  ASSUME NEW accepted
  PROVE  LET v == maxSatisfying(accepted)
             Fits(w) == w \in Versions /\ \A a \in accepted : w \in a
         IN  IF v = None THEN ~\E w \in Versions : Fits(w)
             ELSE Fits(v) /\ \A w \in Versions : Fits(w) => w <= v
<1> DEFINE fit == {v \in Versions : \A a \in accepted : v \in a}
<1>1. maxSatisfying(accepted) =
        IF fit = {} THEN None ELSE CHOOSE v \in fit : \A w \in fit : w <= v
  BY DEF maxSatisfying
<1>2. CASE fit = {}
  BY <1>1, <1>2
<1>3. CASE fit # {}
  <2>1. fit \in SUBSET Nat /\ IsFiniteSet(fit)
    BY BasicCompilationAssumption, FS_Subset
  <2>2. \E v \in fit : \A w \in fit : w <= v
    <3> HIDE DEF fit
    <3> QED BY <1>3, <2>1, LargestNumber
  <2>3. /\ maxSatisfying(accepted) \in fit
        /\ \A w \in fit : w <= maxSatisfying(accepted)
    <3> HIDE DEF fit
    <3> QED BY <1>1, <1>3, <2>2
  <2>4. None \notin fit
    BY BasicCompilationAssumption
  <2> QED BY <2>3, <2>4
<1> QED BY <1>2, <1>3

\* The sources of an input are the files that are needed, with their texts, and its
\* names are those that they are imported by.
Covers(input, texts, found, path) ==
  LET needed == Needed(texts, found, path)
  IN  /\ DOMAIN input.sources = needed
      /\ \A f \in needed : input.sources[f] = texts[f]
      /\ \A f \in needed : \A i \in ToSet(texts[f].imports) :
           found[f][i] # None /\ i \notin Relative => <<i, found[f][i]>> \in input.names
      /\ \A n \in input.names : \E f \in needed :
           /\ n[1] \in ToSet(texts[f].imports)
           /\ n[2] = found[f][n[1]] /\ n[2] # None

\* buildBasicCompilation, when the open documents have the texts of the index.
LEMMA BuildIsComplete ==
  ASSUME NEW texts \in Indexes, NEW found \in Resolutions, NEW path \in Files,
         NEW open, \A f \in Files \cap DOMAIN open : open[f] = texts[f],
         NEW configured \in Versions \cup {None},
         NEW input, input = buildBasicCompilation(texts, open, found, path, configured)
  PROVE  /\ input # NoInput => Covers(input, texts, found, path)
         /\ IF configured # None THEN input.version = configured
            ELSE IsNewest(input, texts, found, path)
<1> DEFINE met == getDependenciesAndPragmas(texts, found, path)
           needed == Needed(texts, found, path)
           accepted == {texts[d.path].accepts : d \in met}
           version == IF configured # None THEN configured ELSE maxSatisfying(accepted)
           Text(f) == IF f \in DOMAIN open THEN open[f] ELSE texts[f]
           sources == [f \in {d.path : d \in met} |-> Text(f)]
           names == {<<d.name, d.path>> : d \in
                       {e \in met : e.name \notin Relative /\ e.name # e.path}}
<1>1. input = IF version = None THEN NoInput
              ELSE [sources |-> sources, names |-> names, version |-> version]
  BY DEF buildBasicCompilation
<1>2. /\ {d.path : d \in met} = needed
      /\ \A d \in met : \A i \in ToSet(texts[d.path].imports) :
           found[d.path][i] # None => [name |-> i, path |-> found[d.path][i]] \in met
      /\ \A d \in met : \/ d = [name |-> path, path |-> path]
                        \/ \E f \in needed : /\ d.name \in ToSet(texts[f].imports)
                                             /\ d.path = found[f][d.name]
  <2> HIDE DEF met, needed
  <2> QED BY CrawlMeetsNeeded DEF met, needed
<1>3. needed \subseteq Files
  BY DEF Needed
<1>4. NoInput.version = None
  BY DEF NoInput
<1>5. input.version = version /\ (version # None => input # NoInput)
  <2> HIDE DEF version, sources, names
  <2> QED BY <1>1, <1>4
<1>6. \A f \in needed : f \in Files /\ Text(f) = texts[f]
  BY <1>3
<1>7. ASSUME version # None PROVE Covers(input, texts, found, path)
  <2>1. input.sources = sources /\ input.names = names
    <3> HIDE DEF version, sources, names
    <3> QED BY <1>1, <1>7
  <2>2. DOMAIN sources = needed /\ \A f \in needed : sources[f] = texts[f]
    <3> HIDE DEF needed, met
    <3> QED BY <1>2, <1>6
  <2>3. ASSUME NEW f \in needed, NEW i \in ToSet(texts[f].imports),
               found[f][i] # None, i \notin Relative
        PROVE  <<i, found[f][i]>> \in names
    <3>1. PICK d \in met : d.path = f
      BY <1>2
    <3>2. [name |-> i, path |-> found[f][i]] \in met
      BY <1>2, <2>3, <3>1
    <3>3. i \in Names /\ found[f][i] \in Files
      <4>1. texts[f].imports \in Seq(Names)
        BY <1>6 DEF Indexes, Texts
      <4>2. i \in Names
        BY <2>3, <4>1, ElementsOf
      <4> QED BY <1>6, <2>3, <4>2 DEF Resolutions
    <3>4. i # found[f][i]
      BY <3>3, BasicCompilationAssumption
    <3> DEFINE e == [name |-> i, path |-> found[f][i]]
    <3>5. e \in met /\ e.name = i /\ e.path = found[f][i]
      BY <3>2
    <3> HIDE DEF met, e
    <3> QED BY <2>3, <3>4, <3>5
  <2>4. ASSUME NEW n \in names
        PROVE  \E f \in needed : /\ n[1] \in ToSet(texts[f].imports)
                                 /\ n[2] = found[f][n[1]] /\ n[2] # None
    <3>1. PICK d \in met : n = <<d.name, d.path>> /\ d.name # d.path
      OBVIOUS
    <3>2. d.path # None
      <4>1. d.path \in needed
        BY <1>2
      <4> QED BY <1>3, <4>1, BasicCompilationAssumption
    <3>3. PICK f \in needed : d.name \in ToSet(texts[f].imports) /\ d.path = found[f][d.name]
      <4> HIDE DEF met, needed
      <4> QED BY <1>2, <3>1
    <3> HIDE DEF met, needed
    <3> QED BY <3>1, <3>2, <3>3
  <2> HIDE DEF sources, names, needed
  <2> QED BY <2>1, <2>2, <2>3, <2>4 DEF Covers, needed
<1>8. CASE configured # None
  BY <1>5, <1>7, <1>8
<1>9. CASE configured = None
  <2>1. version = maxSatisfying(accepted)
    BY <1>9
  <2> DEFINE Fits(v) == \A f \in needed : v \in texts[f].accepts
  <2>2. \A v : (\A a \in accepted : v \in a) <=> Fits(v)
    <3> HIDE DEF met, needed
    <3> QED BY <1>2
  <2>3. IF version = None THEN ~\E v \in Versions : Fits(v)
        ELSE Fits(version) /\ \A v \in Versions : Fits(v) => v <= version
    <3> HIDE DEF accepted, needed, version
    <3> QED BY <2>1, <2>2, NewestVersion
  <2>4. input = NoInput <=> version = None
    BY <1>1, <1>5
  <2>5. IsNewest(input, texts, found, path)
    <3> HIDE DEF version, accepted, sources, names
    <3> QED BY <1>5, <2>3, <2>4 DEF IsNewest
  <2> QED BY <1>7, <1>9, <2>4, <2>5
<1> QED BY <1>8, <1>9

-----------------------------------------------------------------------------
(* The configuration *)

Steps == {"idle", "config", "remappings"}
CallRecords == [pc : Steps, read : Configs \cup {None}]

\* An idle call has read nothing.
IdleInv == \A i \in Calls : call[i].pc = "idle" => call[i] = Idle

Active(i) == call[i] # Idle

\* Unless calls have overlapped one is under way at most; its commands have read
\* the configuration that is on disk, if no change waits to be handled, and the
\* error of earlier calls is cleared until it ends.
LoneInv ==
    ~overlapped =>
        /\ \A i, j \in Calls : Active(i) /\ Active(j) => i = j
        /\ notified = 0 =>
            \A i \in Calls : Active(i) =>
                /\ ~initializeError
                /\ call[i].read \in {None, config}
                /\ call[i].pc = "remappings" => loaded = config

\* The inductive invariant.
ConfigInv == TypeOK /\ IdleInv /\ LoneInv /\ RestFollowsConfig

-----------------------------------------------------------------------------
(* Types *)

LEMMA TypeInit == Init => TypeOK
<1> SUFFICES ASSUME Init PROVE TypeOK
  OBVIOUS
<1>1. PICK disk \in DiskTexts : index = disk /\ editor = [f \in Opened |-> disk[f]]
  BY DEF Init
<1>2. index \in [Files -> Texts] /\ editor \in [Opened -> Texts]
  BY <1>1, FoundryAssumption
<1>3. call \in [Calls -> CallRecords]
  BY DEF Init, Idle, CallRecords, Steps
<1>4. changes \in 0 .. MaxChanges /\ notified \in 0 .. changes /\ edits \in 0 .. MaxEdits
  BY FoundryAssumption DEF Init
<1>5. /\ config \in Configs /\ {loaded, remapped} \subseteq Configs \cup {None}
      /\ {initializeError, overlapped} \subseteq BOOLEAN
      /\ onDisk \subseteq Files /\ pending \subseteq Opened
  BY DEF Init
<1> QED BY <1>2, <1>3, <1>4, <1>5 DEF TypeOK, CallRecords, Steps

\* A call goes on to the step and the reading of record c, and the others stay.
LEMMA CallGoesOn ==
  ASSUME NEW f \in [Calls -> CallRecords], NEW i \in Calls, NEW c \in CallRecords
  PROVE  /\ [f EXCEPT ![i] = c] \in [Calls -> CallRecords]
         /\ [f EXCEPT ![i] = c][i] = c
         /\ \A j \in Calls : j # i => [f EXCEPT ![i] = c][j] = f[j]
OBVIOUS

LEMMA IdleIs == Idle \in CallRecords /\ Idle.pc = "idle" /\ Idle.read = None
BY DEF Idle, CallRecords, Steps

LEMMA BeginningIs ==
  ASSUME NEW step \in {"config", "remappings"}
  PROVE  /\ [pc |-> step, read |-> None] \in CallRecords
         /\ [pc |-> step, read |-> None] # Idle
BY DEF Idle, CallRecords, Steps

\* The command of a call that is under way reads the configuration on disk.
LEMMA ReadingIs ==
  ASSUME TypeOK, IdleInv, NEW i \in Calls, ForgeReads(i)
  PROVE  \E c \in CallRecords :
           /\ c.pc = call[i].pc /\ c.read = config /\ c # Idle
           /\ Active(i)
           /\ call' = [call EXCEPT ![i] = c]
<1>1. call \in [Calls -> CallRecords] /\ config \in Configs
  BY DEF TypeOK, CallRecords, Steps
<1>2. PICK c : c = [call[i] EXCEPT !.read = config]
  OBVIOUS
<1>3. c \in CallRecords /\ c.pc = call[i].pc /\ c.read = config
  BY <1>1, <1>2 DEF CallRecords
<1>4. call' = [call EXCEPT ![i] = c]
  BY <1>2 DEF ForgeReads
<1>5. Active(i) /\ c # Idle
  BY <1>3, IdleIs DEF ForgeReads, Active
<1> QED BY <1>3, <1>4, <1>5

\* What the commands of forge, the file events and the editor do keeps the types.
LEMMA TypeStep == TypeOK /\ IdleInv /\ [Next]_vars => TypeOK'
<1> SUFFICES ASSUME TypeOK, IdleInv, [Next]_vars PROVE TypeOK'
  OBVIOUS
<1> DEFINE TextsOK == /\ onDisk \subseteq Files /\ pending \subseteq Opened
                      /\ index \in [Files -> Texts] /\ editor \in [Opened -> Texts]
                      /\ edits \in 0 .. MaxEdits
           ConfigOK == /\ config \in Configs /\ {loaded, remapped} \subseteq Configs \cup {None}
                       /\ changes \in 0 .. MaxChanges /\ notified \in 0 .. changes
                       /\ call \in [Calls -> CallRecords]
                       /\ {initializeError, overlapped} \subseteq BOOLEAN
<1>0. ConfigOK /\ TextsOK
  BY DEF TypeOK, CallRecords, Steps
<1>1. ASSUME NEW c \in Configs, ChangeConfig(c) PROVE TypeOK'
  <2>1. ConfigOK'
    BY <1>0, <1>1, FoundryAssumption DEF ChangeConfig
  <2>2. TextsOK'
    BY <1>0, <1>1 DEF ChangeConfig, textVars
  <2> QED BY <2>1, <2>2 DEF TypeOK, CallRecords, Steps
<1>2. ASSUME NEW i \in Calls, Initialize(i) PROVE TypeOK'
  <2>1. call' \in [Calls -> CallRecords]
    BY <1>0, <1>2, BeginningIs, CallGoesOn DEF Initialize
  <2>2. overlapped' \in BOOLEAN
    BY <1>0, <1>2 DEF Initialize
  <2>3. notified' \in 0 .. changes /\ changes' = changes
    BY <1>0, <1>2, FoundryAssumption DEF Initialize
  <2>4. TextsOK'
    BY <1>0, <1>2 DEF Initialize, textVars
  <2>5. ConfigOK'
    BY <1>0, <1>2, <2>1, <2>2, <2>3 DEF Initialize
  <2> QED BY <2>4, <2>5 DEF TypeOK, CallRecords, Steps
<1>3. ASSUME NEW i \in Calls, ForgeReads(i) PROVE TypeOK'
  <2>1. call' \in [Calls -> CallRecords]
    BY <1>0, <1>3, ReadingIs, CallGoesOn
  <2>2. TextsOK'
    BY <1>0, <1>3 DEF ForgeReads, textVars
  <2>3. ConfigOK'
    BY <1>0, <1>3, <2>1 DEF ForgeReads
  <2> QED BY <2>2, <2>3 DEF TypeOK, CallRecords, Steps
<1>4. ASSUME NEW i \in Calls, ForgeFails(i) PROVE TypeOK'
  <2>1. call' \in [Calls -> CallRecords]
    BY <1>0, <1>4, IdleIs, CallGoesOn DEF ForgeFails
  <2>2. TextsOK'
    BY <1>0, <1>4 DEF ForgeFails, textVars
  <2>3. ConfigOK'
    BY <1>0, <1>4, <2>1 DEF ForgeFails
  <2> QED BY <2>2, <2>3 DEF TypeOK, CallRecords, Steps
<1>5. ASSUME NEW i \in Calls, LoadConfig(i) PROVE TypeOK'
  <2>1. call' \in [Calls -> CallRecords]
    BY <1>0, <1>5, BeginningIs, CallGoesOn DEF LoadConfig
  <2>2. TextsOK'
    BY <1>0, <1>5 DEF LoadConfig, textVars
  <2>3. ConfigOK'
    BY <1>0, <1>5, <2>1 DEF LoadConfig
  <2> QED BY <2>2, <2>3 DEF TypeOK, CallRecords, Steps
<1>6. ASSUME NEW i \in Calls, LoadRemappings(i) PROVE TypeOK'
  <2>1. call' \in [Calls -> CallRecords]
    BY <1>0, <1>6, IdleIs, CallGoesOn DEF LoadRemappings
  <2>2. TextsOK'
    BY <1>0, <1>6 DEF LoadRemappings, textVars
  <2>3. ConfigOK'
    BY <1>0, <1>6, <2>1 DEF LoadRemappings
  <2> QED BY <2>2, <2>3 DEF TypeOK, CallRecords, Steps
<1>7. ASSUME UNCHANGED configVars, TextsOK' PROVE TypeOK'
  <2>1. ConfigOK'
    BY <1>0, <1>7 DEF configVars
  <2> QED BY <1>7, <2>1 DEF TypeOK, CallRecords, Steps
<1>8. ASSUME NEW f \in Files, RemoveFile(f) PROVE TypeOK'
  <2>1. TextsOK'
    BY <1>0, <1>8, FoundryAssumption DEF RemoveFile
  <2> QED BY <1>7, <1>8, <2>1 DEF RemoveFile
<1>9. ASSUME NEW f \in Files, Analyse(f) PROVE TypeOK'
  <2>1. TextsOK'
    BY <1>0, <1>9 DEF Analyse
  <2> QED BY <1>7, <1>9, <2>1 DEF Analyse
<1>10. ASSUME NEW f \in Opened, NEW x \in Typed, Type(f, x) PROVE TypeOK'
  <2>1. TextsOK'
    BY <1>0, <1>10, FoundryAssumption DEF Type
  <2> QED BY <1>7, <1>10, <2>1 DEF Type
<1>11. CASE UNCHANGED vars
  BY <1>0, <1>11 DEF vars, configVars, textVars, TypeOK, CallRecords, Steps
<1> QED BY <1>1, <1>2, <1>3, <1>4, <1>5, <1>6, <1>8, <1>9, <1>10, <1>11 DEF Next

-----------------------------------------------------------------------------
(* The calls *)

LEMMA ConfigInit == Init => ConfigInv
<1> SUFFICES ASSUME Init PROVE ConfigInv
  OBVIOUS
<1>1. PICK first \in Calls :
        call = [i \in Calls |-> IF i = first THEN [pc |-> "config", read |-> None] ELSE Idle]
  BY DEF Init
<1>2. /\ call[first].pc = "config" /\ call[first].read = None /\ call[first] # Idle
      /\ \A i \in Calls : i # first => call[i] = Idle
  BY <1>1, IdleIs
<1>3. IdleInv
  BY <1>2 DEF IdleInv
<1>4. LoneInv
  BY <1>2 DEF LoneInv, Active, Init
<1>5. RestFollowsConfig
  BY <1>2 DEF RestFollowsConfig, AtRest
<1> QED BY <1>3, <1>4, <1>5, TypeInit DEF ConfigInv

\* Call i goes on, as the only one if calls have not overlapped.
LEMMA LoneStep ==
  ASSUME ConfigInv, NEW i \in Calls, NEW c \in CallRecords,
         call' = [call EXCEPT ![i] = c], c.pc = "idle" => c = Idle,
         ~overlapped' => ~overlapped,
         ~overlapped' => \A j \in Calls : j # i => ~Active(j),
         ~overlapped' /\ notified' = 0 /\ c # Idle =>
           /\ ~initializeError' /\ c.read \in {None, config'}
           /\ c.pc = "remappings" => loaded' = config',
         ~overlapped' /\ notified' = 0 /\ c = Idle =>
           /\ initializeError' <=> config' \in Broken
           /\ ~initializeError' => loaded' = config' /\ remapped' = config'
  PROVE  IdleInv' /\ LoneInv' /\ RestFollowsConfig'
<1>0. call \in [Calls -> CallRecords]
  BY DEF ConfigInv, TypeOK, CallRecords, Steps
<1>1. call'[i] = c /\ \A j \in Calls : j # i => call'[j] = call[j]
  BY <1>0, CallGoesOn
<1>2. IdleInv'
  BY <1>1 DEF ConfigInv, IdleInv
<1>3. LoneInv'
  BY <1>1 DEF LoneInv, Active
<1>4. RestFollowsConfig'
  BY <1>1 DEF RestFollowsConfig, AtRest, Active
<1> QED BY <1>2, <1>3, <1>4

LEMMA LoneNow ==
  ASSUME ConfigInv, NEW i \in Calls, call[i].pc # "idle" \/ call[i].read # None
  PROVE  /\ Active(i)
         /\ ~overlapped => \A j \in Calls : j # i => ~Active(j)
         /\ ~overlapped /\ notified = 0 =>
              /\ ~initializeError /\ call[i].read \in {None, config}
              /\ call[i].pc = "remappings" => loaded = config
<1>1. Active(i)
  BY IdleIs DEF Active
<1> QED BY <1>1 DEF ConfigInv, LoneInv

LEMMA ConfigStep == ConfigInv /\ [Next]_vars => ConfigInv'
<1> SUFFICES ASSUME ConfigInv, [Next]_vars PROVE ConfigInv'
  OBVIOUS
<1>0. TypeOK'
  BY TypeStep DEF ConfigInv
<1>a. None \notin Configs /\ Broken \subseteq Configs /\ notified \in Nat
  BY FoundryAssumption DEF ConfigInv, TypeOK
<1> SUFFICES IdleInv' /\ LoneInv' /\ RestFollowsConfig'
  BY <1>0 DEF ConfigInv
<1>1. ASSUME NEW c \in Configs, ChangeConfig(c)
      PROVE  IdleInv' /\ LoneInv' /\ RestFollowsConfig'
  <2>1. notified' # 0 /\ UNCHANGED <<call, overlapped>>
    BY <1>1, <1>a DEF ChangeConfig
  <2> QED BY <2>1 DEF ConfigInv, IdleInv, LoneInv, Active, RestFollowsConfig, AtRest
<1>2. ASSUME NEW i \in Calls, Initialize(i)
      PROVE  IdleInv' /\ LoneInv' /\ RestFollowsConfig'
  <2>1. PICK c \in CallRecords : c = [pc |-> "config", read |-> None] /\ c # Idle
    BY BeginningIs
  <2>2. c.pc = "config" /\ c.read = None /\ call' = [call EXCEPT ![i] = c]
    BY <1>2, <2>1 DEF Initialize
  <2>3. ~overlapped' => ~overlapped /\ \A j \in Calls : j # i => ~Active(j)
    BY <1>2 DEF Initialize, Active
  <2>4. ~initializeError'
    BY <1>2 DEF Initialize
  <2> QED BY <2>1, <2>2, <2>3, <2>4, LoneStep
<1>3. ASSUME NEW i \in Calls, ForgeReads(i)
      PROVE  IdleInv' /\ LoneInv' /\ RestFollowsConfig'
  <2>1. PICK c \in CallRecords :
           /\ c.pc = call[i].pc /\ c.read = config /\ c # Idle
           /\ call' = [call EXCEPT ![i] = c]
    BY <1>3, ReadingIs DEF ConfigInv
  <2>2. call[i].pc # "idle" /\ UNCHANGED <<config, notified, loaded, initializeError, overlapped>>
    BY <1>3 DEF ForgeReads
  <2> QED BY <2>1, <2>2, LoneNow, LoneStep
<1>4. ASSUME NEW i \in Calls, ForgeFails(i)
      PROVE  IdleInv' /\ LoneInv' /\ RestFollowsConfig'
  <2>1. /\ call[i].read \in Broken /\ call[i].read # None
        /\ call' = [call EXCEPT ![i] = Idle] /\ initializeError'
        /\ UNCHANGED <<config, notified, overlapped>>
    BY <1>4, <1>a DEF ForgeFails
  <2> QED BY <2>1, IdleIs, LoneNow, LoneStep
<1>5. ASSUME NEW i \in Calls, LoadConfig(i)
      PROVE  IdleInv' /\ LoneInv' /\ RestFollowsConfig'
  <2>1. PICK c \in CallRecords : c = [pc |-> "remappings", read |-> None] /\ c # Idle
    BY BeginningIs
  <2>2. /\ c.pc = "remappings" /\ c.read = None /\ call' = [call EXCEPT ![i] = c]
        /\ call[i].read \in Configs \ Broken /\ call[i].read # None /\ loaded' = call[i].read
        /\ UNCHANGED <<config, notified, initializeError, overlapped>>
    BY <1>5, <1>a, <2>1 DEF LoadConfig
  <2> QED BY <2>1, <2>2, LoneNow, LoneStep
<1>6. ASSUME NEW i \in Calls, LoadRemappings(i)
      PROVE  IdleInv' /\ LoneInv' /\ RestFollowsConfig'
  <2>1. /\ call[i].read \in Configs \ Broken /\ call[i].read # None /\ remapped' = call[i].read
        /\ call[i].pc = "remappings" /\ call' = [call EXCEPT ![i] = Idle]
        /\ UNCHANGED <<config, notified, loaded, initializeError, overlapped>>
    BY <1>6, <1>a DEF LoadRemappings
  <2> QED BY <2>1, IdleIs, LoneNow, LoneStep
<1>7. ASSUME UNCHANGED configVars
      PROVE  IdleInv' /\ LoneInv' /\ RestFollowsConfig'
  BY <1>7 DEF configVars, ConfigInv, IdleInv, LoneInv, Active, RestFollowsConfig, AtRest
<1> QED BY <1>1, <1>2, <1>3, <1>4, <1>5, <1>6, <1>7 DEF Next, RemoveFile, Analyse, Type, vars

-----------------------------------------------------------------------------
(* Texts *)

\* A document whose analysis is not due has the text of the editor in the index.
TextsInv == \A f \in Opened \ pending : index[f] = editor[f]

LEMMA TextsInit == Init => TextsInv
<1> SUFFICES ASSUME Init, NEW f \in Opened PROVE index[f] = editor[f]
  BY DEF TextsInv
<1>1. PICK disk \in DiskTexts : index = disk /\ editor = [g \in Opened |-> disk[g]]
  BY DEF Init
<1> QED BY <1>1

LEMMA TextsStep == TypeOK /\ TextsInv /\ [Next]_vars => TextsInv'
<1> SUFFICES ASSUME TypeOK, TextsInv, [Next]_vars PROVE TextsInv'
  OBVIOUS
<1>1. CASE UNCHANGED <<index, editor, pending>>
  BY <1>1 DEF TextsInv
<1>2. ASSUME NEW f \in Files, Analyse(f) PROVE TextsInv'
  <2>1. /\ f \in Opened /\ index' = [index EXCEPT ![f] = editor[f]]
        /\ editor' = editor /\ pending' = pending \ {f}
        /\ index \in [Files -> Texts]
    BY <1>2 DEF Analyse, TypeOK
  <2> QED BY <2>1 DEF TextsInv
<1>3. ASSUME NEW f \in Opened, NEW x \in Typed, Type(f, x) PROVE TextsInv'
  <2>1. /\ editor' = [editor EXCEPT ![f] = x] /\ pending' = pending \cup {f}
        /\ index' = index /\ editor \in [Opened -> Texts]
    BY <1>3 DEF Type, TypeOK
  <2> QED BY <2>1 DEF TextsInv
<1>4. CASE UNCHANGED textVars
  BY <1>1, <1>4 DEF textVars
<1> QED BY <1>1, <1>2, <1>3, <1>4
        DEF Next, vars, ChangeConfig, Initialize, ForgeReads, ForgeFails, LoadConfig,
            LoadRemappings, RemoveFile

\* An import resolves to a file, if it does.
LEMMA FoundType == TypeOK => Found \in Resolutions
<1> SUFFICES ASSUME TypeOK, NEW f \in Files, NEW i \in Names
             PROVE  resolveImportPath(f, i) \in Files \cup {None}
  BY DEF Found, Resolutions
<1> DEFINE paths == Candidates[f, Transformed(i)]
           Exists(k) == paths[k] \in onDisk /\ \A j \in 1 .. k - 1 : paths[j] \notin onDisk
<1>1. resolveImportPath(f, i) = IF \E k \in DOMAIN paths : Exists(k)
                                THEN paths[CHOOSE k \in DOMAIN paths : Exists(k)] ELSE None
  BY DEF resolveImportPath
<1>2. \A k : Exists(k) => paths[k] \in Files
  BY DEF TypeOK
<1> HIDE DEF paths, Exists
<1> QED BY <1>1, <1>2

\* Where no analysis is due the index has the texts that solc would read.
LEMMA ShownIsIndex == TypeOK /\ TextsInv /\ pending = {} => Shown = index
<1> SUFFICES ASSUME TypeOK, TextsInv, pending = {} PROVE Shown = index
  OBVIOUS
<1>1. index = [g \in Files |-> index[g]]
  BY DEF TypeOK
<1>2. \A g \in Files : (IF g \in Opened THEN editor[g] ELSE index[g]) = index[g]
  BY DEF TextsInv
<1> QED BY <1>1, <1>2 DEF Shown

\* The keys of sources tell files apart.
LEMMA KeysAre == \A f : Key(f)[2] = f /\ (f \notin Inside => Key(f) = <<"absolute", f>>)
BY DEF Key

\* An input that covers what is needed is still complete when its sources have the
\* keys of the project and its remappings those of the project before them.
LEMMA RekeyedIsComplete ==
  ASSUME NEW f \in Files, NEW basic, Covers(basic, Shown, Found, f),
         NEW input,
         input.sources = [k \in {Key(g) : g \in DOMAIN basic.sources} |-> basic.sources[k[2]]],
         input.names = basic.names
  PROVE  HasSources(input, f) /\ FindsImports(input, f)
<1> DEFINE needed == NeededFor(f)
<1>1. /\ DOMAIN basic.sources = needed
      /\ \A g \in needed : basic.sources[g] = Shown[g]
      /\ \A g \in needed : \A i \in ToSet(Shown[g].imports) :
           Found[g][i] # None /\ i \notin Relative => <<i, Found[g][i]>> \in basic.names
      /\ \A n \in basic.names : \E g \in needed :
           /\ n[1] \in ToSet(Shown[g].imports)
           /\ n[2] = Found[g][n[1]] /\ n[2] # None
  BY DEF Covers, NeededFor
<1> HIDE DEF needed
<1>2. HasSources(input, f)
  <2>1. \A k \in {Key(g) : g \in needed} : k[2] \in needed
    BY KeysAre
  <2>2. input.sources = [k \in {Key(g) : g \in needed} |-> basic.sources[k[2]]]
    BY <1>1
  <2>3. [k \in {Key(g) : g \in needed} |-> basic.sources[k[2]]] =
          [k \in {Key(g) : g \in needed} |-> Shown[k[2]]]
    BY <1>1, <2>1
  <2> QED BY <2>2, <2>3 DEF HasSources, needed
<1>3. ASSUME NEW i \in Names, i \in Relative, NEW g \in Importers(needed, i), FoundBeside(g, i)
      PROVE  AsksFor(input, g, i) = {Key(Found[g][i])}
  BY <1>3 DEF AsksFor, FoundBeside, Key
<1>4. ASSUME NEW i \in Names, i \notin Relative, ResolvedAlike(Importers(needed, i), i),
             NEW g \in Importers(needed, i)
      PROVE  AsksFor(input, g, i) = {<<"absolute", Found[g][i]>>}
  <2>1. AsksFor(input, g, i) = {<<"absolute", n[2]>> : n \in {m \in basic.names : m[1] = i}}
    BY <1>4 DEF AsksFor
  <2>2. <<i, Found[g][i]>> \in basic.names
    BY <1>1, <1>4 DEF Importers
  <2>3. ASSUME NEW n \in basic.names, n[1] = i PROVE n[2] = Found[g][i]
    <3>1. PICK h \in needed : /\ i \in ToSet(Shown[h].imports)
                              /\ n[2] = Found[h][i] /\ n[2] # None
      BY <1>1, <2>3
    <3>2. h \in Importers(needed, i)
      BY <3>1 DEF Importers
    <3> QED BY <1>4, <3>1, <3>2 DEF ResolvedAlike
  <2> QED BY <2>1, <2>2, <2>3
<1>5. FindsImports(input, f)
  BY <1>3, <1>4 DEF FindsImports, needed
<1> QED BY <1>2, <1>5

\* Where no analysis is due an input is complete, whatever imports whatever.
LEMMA CompleteNow == TypeOK /\ TextsInv => InputsAreComplete
<1> SUFFICES ASSUME TypeOK, TextsInv, pending = {}, NEW f \in Opened,
                    NEW input, input = buildCompilation(f)
             PROVE  /\ input # NoInput => HasSources(input, f) /\ FindsImports(input, f)
                    /\ IF Configured THEN input.version = Solc[loaded]
                       ELSE IsNewest(input, Shown, Found, f)
  BY DEF InputsAreComplete
<1> DEFINE configured == IF loaded = None THEN None ELSE Solc[loaded]
           basic == buildBasicCompilation(index, editor, Found, f, configured)
           remappings == IF remapped = None THEN <<>> ELSE Remappings[remapped]
           sources == [k \in {Key(g) : g \in DOMAIN basic.sources} |-> basic.sources[k[2]]]
<1>1. /\ index \in Indexes /\ Found \in Resolutions /\ f \in Files
      /\ DOMAIN editor = Opened /\ Opened \subseteq Files
  BY FoundType, FoundryAssumption DEF TypeOK, Indexes
<1>2. \A g \in Files \cap DOMAIN editor : editor[g] = index[g]
  BY <1>1 DEF TextsInv
<1>3. Shown = index
  BY ShownIsIndex
<1>4. configured \in Versions \cup {None} /\ (configured # None <=> Configured)
  BY FoundryAssumption DEF TypeOK, Configured
<1>5. Configured => configured = Solc[loaded]
  BY DEF Configured
<1>6. input = IF basic = NoInput THEN NoInput
              ELSE [sources |-> sources, remappings |-> remappings, names |-> basic.names,
                    version |-> basic.version]
  BY DEF buildCompilation
<1> HIDE DEF configured
<1>7. /\ basic # NoInput => Covers(basic, Shown, Found, f)
      /\ IF Configured THEN basic.version = Solc[loaded]
         ELSE IsNewest(basic, Shown, Found, f)
  <2> HIDE DEF basic
  <2> QED BY <1>1, <1>2, <1>3, <1>4, <1>5, BuildIsComplete DEF basic
<1> HIDE DEF basic, remappings
<1>8. CASE basic = NoInput
  BY <1>6, <1>7, <1>8
<1>9. CASE basic # NoInput
  <2>1. /\ input.sources = sources /\ input.names = basic.names
        /\ input.version = basic.version
    <3> HIDE DEF sources
    <3> QED BY <1>6, <1>9
  <2>2. HasSources(input, f) /\ FindsImports(input, f)
    BY <1>1, <1>7, <1>9, <2>1, RekeyedIsComplete
  <2>3. ~Configured => IsNewest(input, Shown, Found, f)
    <3>1. input # NoInput
      <4>1. "remappings" \in DOMAIN input /\ "remappings" \notin DOMAIN NoInput
        BY <1>6, <1>9 DEF NoInput
      <4> QED BY <4>1
    <3> QED BY <1>7, <1>9, <2>1, <3>1 DEF IsNewest
  <2> QED BY <1>7, <2>1, <2>2, <2>3
<1> QED BY <1>8, <1>9

-----------------------------------------------------------------------------
(* The theorems *)

\* Unless calls of initialize() overlap, the one that is under way has read the
\* configuration on disk once every change is handled, and clears the error of
\* those before it.
THEOREM ConfigInvariant == Spec => []ConfigInv
BY ConfigInit, ConfigStep, PTL DEF Spec

\* Every variable has its type.
THEOREM FoundryTypesCorrect == Spec => []TypeOK
<1>1. ConfigInv => TypeOK
  BY DEF ConfigInv
<1> QED BY <1>1, ConfigInvariant, PTL

\* When changes of foundry.toml and remappings.txt have been handled one at a time,
\* the error, the paths, the version and the remappings are those of the
\* configuration on disk, although two commands read it at two moments and it may
\* change between them.
THEOREM ConfigFollowed == Spec => []RestFollowsConfig
<1>1. ConfigInv => RestFollowsConfig
  BY DEF ConfigInv
<1> QED BY <1>1, ConfigInvariant, PTL

\* A compiler input that is asked for when no analysis is due has the texts of exactly
\* the files that can be reached by imports, under the keys of the project; solc asks
\* it for the source of an import that is resolved beside its file, and for the path
\* of the file at an import by name that is resolved to one file; and it has the
\* newest compiler that all sources accept or the configured one, in whatever circles
\* and by however many names the files import each other (buildCompilation,
\* buildBasicCompilation, getDependenciesAndPragmas).
THEOREM InputsComplete == Spec => []InputsAreComplete
<1>1. ConfigInv => TypeOK
  BY DEF ConfigInv
<1>2. Init => TextsInv
  BY TextsInit
<1>3. TypeOK /\ TextsInv /\ [Next]_vars => TextsInv'
  BY TextsStep
<1>4. TypeOK /\ TextsInv => InputsAreComplete
  BY CompleteNow
<1> QED BY <1>1, <1>2, <1>3, <1>4, ConfigInvariant, PTL DEF Spec
=============================================================================
