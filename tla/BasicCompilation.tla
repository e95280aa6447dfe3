-------------------------- MODULE BasicCompilation --------------------------
(***************************************************************************)
(* How a compiler input is built for projects that have no tool to do it   *)
(* (frameworks/shared: crawlDependencies.ts, buildBasicCompilation.ts):    *)
(* the imports of a file are crawled depth first, the newest compiler that *)
(* satisfies every pragma met is chosen, and imports by name are remapped  *)
(* to the files they were resolved to.                                     *)
(*                                                                         *)
(* A text is a record of its imports, in their order, and the compiler     *)
(* versions that its pragmas accept.  The crawl looks at texts, a text per *)
(* file, and found, the file that each import of each file resolves to.    *)
(***************************************************************************)
EXTENDS Integers, FiniteSets, Sequences, SequencesExt

CONSTANTS
    Files,          \* Solidity files
    Names,          \* what import statements say
    Relative,       \* the names that start with "."
    Versions,       \* solcVersions: the compilers there are
    None            \* undefined

ASSUME BasicCompilationAssumption ==
    /\ Relative \subseteq Names
    /\ Names \cap Files = {}
    /\ Versions \subseteq Nat
    /\ None \notin Files \cup Names \cup Versions
    /\ IsFiniteSet(Files) /\ IsFiniteSet(Names) /\ IsFiniteSet(Versions)

Texts == [imports : Seq(Names), accepts : SUBSET Versions]

\* A file by the name it is imported by, and an import, which may not resolve.
Sources == [name : Names \cup Files, path : Files]
Links == [name : Names \cup Files, path : Files \cup {None}]

\* The imports of file f, in the order of the text.
ImportsOf(texts, found, f) ==
    [k \in DOMAIN texts[f].imports |->
        [name |-> texts[f].imports[k], path |-> found[f][texts[f].imports[k]]]]

\* The calls of getDependenciesAndPragmas that are left, the next one first, and
\* what has been visited.
Crawls == [todo : Seq(Links), visited : SUBSET Sources]

\* Mutant: a file is visited once, whatever the name it is imported by.
CallByPath(texts, found, c) ==
    IF \/ Head(c.todo).path = None
       \/ \E d \in c.visited : d.path = Head(c.todo).path
    THEN [c EXCEPT !.todo = Tail(@)]
    ELSE [todo |-> ImportsOf(texts, found, Head(c.todo).path) \o Tail(c.todo),
          visited |-> c.visited \cup {Head(c.todo)}]

\* A call follows an import unless it does not resolve or was visited under the
\* same name. It makes the calls for the imports it finds before it returns.
Call(texts, found, c) ==
    IF Head(c.todo).path = None \/ Head(c.todo) \in c.visited
    THEN [c EXCEPT !.todo = Tail(@)]
    ELSE [todo |-> ImportsOf(texts, found, Head(c.todo).path) \o Tail(c.todo),
          visited |-> c.visited \cup {Head(c.todo)}]

Crawling(texts, found) ==
    LET crawl[c \in Crawls] ==
            IF c.todo = <<>> THEN c.visited ELSE crawl[Call(texts, found, c)]
    IN  crawl

\* What a call for the file at path returns: the file and all that was met on the
\* way down the imports, depth first.
getDependenciesAndPragmas(texts, found, path) ==
    Crawling(texts, found)[[todo |-> <<[name |-> path, path |-> path]>>, visited |-> {}]]

\* semver.maxSatisfying: the newest version that every pragma accepts.
maxSatisfying(accepted) ==
    LET fit == {v \in Versions : \A a \in accepted : v \in a}
    IN  IF fit = {} THEN None ELSE CHOOSE v \in fit : \A w \in fit : w <= v

NoInput == [sources |-> <<>>, names |-> {}, version |-> None]

\* buildBasicCompilation: texts of open documents come before those of the
\* index; configured is the version that the project asks for, if any. A source has
\* the path of its file for its key, and an import by name has a remapping to that.
buildBasicCompilation(index, open, found, path, configured) ==
    LET details == getDependenciesAndPragmas(index, found, path)
        version == IF configured # None THEN configured
                   ELSE maxSatisfying({index[d.path].accepts : d \in details})
        Text(f) == IF f \in DOMAIN open THEN open[f] ELSE index[f]
    IN  IF version = None THEN NoInput
        ELSE [sources |-> [f \in {d.path : d \in details} |-> Text(f)],
              names |-> {<<d.name, d.path>> : d \in
                            {e \in details : e.name \notin Relative /\ e.name # e.path}},
              version |-> version]
-----------------------------------------------------------------------------
(* What an input is for *)

\* The file at path and what can be reached from it by imports: the least set
\* that has it and the files that those in the set import.
Needed(texts, found, path) ==
    LET Closed(S) == \A f \in S : \A i \in ToSet(texts[f].imports) :
                        found[f][i] \in S \cup {None}
    IN  {f \in Files : \A S \in SUBSET Files : path \in S /\ Closed(S) => f \in S}

\* The version is the newest of those that every needed file accepts, and there
\* is no input only if there is no such version.
IsNewest(input, texts, found, path) ==
    LET Fits(v) == \A f \in Needed(texts, found, path) : v \in texts[f].accepts
    IN  IF input = NoInput THEN ~\E v \in Versions : Fits(v)
        ELSE Fits(input.version) /\ \A v \in Versions : Fits(v) => v <= input.version
=============================================================================
