--------------------------- MODULE DependencyGraph ---------------------------
(***************************************************************************)
(* The dependency graph of a Hardhat 3 project                             *)
(* (Hardhat3/LSPDependencyGraph.ts): files, the imports between them in    *)
(* both directions, and the imports that resolve to nothing.  Calls of     *)
(* walkFile, deleteFile and addNewFile run under the mutex of AsyncMutex,  *)
(* whose promise (Mutex) this module uses, while files come, go and change *)
(* on disk; each change is announced by a file event, and the events lead  *)
(* to calls in their order, as the comments of the three operations ask.   *)
(*                                                                         *)
(* An import statement is a path that names one file; several paths may    *)
(* name the same file.  The resolver is external: it finds the file an     *)
(* import names if the file exists at that moment.                         *)
(***************************************************************************)
EXTENDS Naturals, Sequences, FiniteSets

CONSTANTS Files,        \* Solidity files of the project
          Imports,      \* import paths
          Target,       \* the file each import path names
          Procs,        \* slots for calls in flight
          MaxChanges    \* bound: changes on disk

ASSUME TargetAssumption == Target \in [Imports -> Files]
ASSUME FilesAssumption  == Files # {}
ASSUME BoundAssumption  == MaxChanges \in Nat

VARIABLES
  onDisk,        \* the files that exist
  content,       \* the imports of each file on disk
  changes,       \* number of changes on disk so far
  events,        \* file events that have not led to a call yet
  files,         \* keys of LSPDependencyGraph.files
  dependencies,  \* per file: <<import path, imported file>>
  dependants,    \* per file: <<import path, importing file>>
  unresolved,    \* unresolvedImports: import paths per file
  op,            \* the calls in flight
  line, inside   \* the mutex

Mutex == INSTANCE Mutex

disk  == <<onDisk, content, changes, events>>
graph == <<files, dependencies, dependants, unresolved>>
vars  == <<disk, graph, op, line, inside>>

\* A call: the file it is about, and the imports it has yet to resolve.
NoOp == [pc |-> "idle", file |-> CHOOSE f \in Files : TRUE, todo |-> {}]

Statements(f) == {f} \X content[f]

Init ==
  /\ onDisk = {}
  /\ content = [f \in Files |-> {}]
  /\ changes = 0
  /\ events = <<>>
  /\ files = {}
  /\ dependencies = [f \in Files |-> {}]
  /\ dependants = [f \in Files |-> {}]
  /\ unresolved = [f \in Files |-> {}]
  /\ op = [p \in Procs |-> NoOp]
  /\ Mutex!Init

-----------------------------------------------------------------------------
(* The disk and its events.                                                *)

Announce(kind, f) ==
  /\ changes < MaxChanges
  /\ changes' = changes + 1
  /\ events' = Append(events, <<kind, f>>)

WriteFile(f, imports) ==
  /\ Announce(IF f \in onDisk THEN "Changed" ELSE "Created", f)
  /\ onDisk' = onDisk \cup {f}
  /\ content' = [content EXCEPT ![f] = imports]
  /\ UNCHANGED <<graph, op, line, inside>>

RemoveFile(f) ==
  /\ f \in onDisk
  /\ Announce("Deleted", f)
  /\ onDisk' = onDisk \ {f}
  /\ content' = [content EXCEPT ![f] = {}]
  /\ UNCHANGED <<graph, op, line, inside>>

-----------------------------------------------------------------------------
(* The graph's private operations.                                         *)

\* #addFile does nothing for a file that is already in the graph.
WithFile(fs, g) == fs \cup {g}

\* Mutant: the imported file is recorded under a swapped pair.
AddDependantSwapped(deps, f, i) == [deps EXCEPT ![Target[i]] = @ \cup {<<f, i>>}]

AddDependency(deps, f, i) == [deps EXCEPT ![f] = @ \cup {<<i, Target[i]>>}]
AddDependant(deps, f, i)  == [deps EXCEPT ![Target[i]] = @ \cup {<<i, f>>}]

\* deleteFile: the links of f, in both directions.
WithoutDependency(f) ==
  [g \in Files |-> IF g = f THEN {}
                   ELSE {d \in dependencies[g] :
                           ~(d[2] = f /\ <<d[1], g>> \in dependants[f])}]
\* Mutant: the dependants of the files that f imports are left alone.
WithoutDependantHere(f) == [dependants EXCEPT ![f] = {}]

WithoutDependant(f) ==
  [g \in Files |-> IF g = f THEN {}
                   ELSE {d \in dependants[g] :
                           ~(d[2] = f /\ <<d[1], g>> \in dependencies[f])}]
\* Mutant: an import that loses its file is not recorded as unresolved.
OrphanedByNobody(f) == [unresolved EXCEPT ![f] = {}]

OrphanedBy(f) ==
  [g \in Files |-> IF g = f THEN {}
                   ELSE unresolved[g] \cup
                        {d[1] : d \in {e \in dependencies[g] :
                                 e[2] = f /\ <<e[1], g>> \in dependants[f]}}]

-----------------------------------------------------------------------------
(* Calls.  op[p].pc: idle; walk, add, delete (waiting for the mutex);      *)
(* root, adding (about to resolve the file itself, for a walk and a new    *)
(* file); imports, newImports (in the loop over the imports); relink       *)
(* (waiting for the mutex again); relinking; deleted.                      *)

Goto(p, pc, f, todo) ==
  op' = [op EXCEPT ![p] = [pc |-> pc, file |-> f, todo |-> todo]]

Return(p) == op' = [op EXCEPT ![p] = NoOp]

\* A file event calls addNewFile, walkFile or deleteFile, which asks for the
\* mutex at once.
Call(p) ==
  /\ events # <<>>
  /\ op[p].pc = "idle"
  /\ LET kind == Head(events)[1]
         f    == Head(events)[2]
     IN  Goto(p, CASE kind = "Created" -> "add"
                   [] kind = "Changed" -> "walk"
                   [] kind = "Deleted" -> "delete", f, {})
  /\ events' = Tail(events)
  /\ Mutex!Arrive(p)
  /\ UNCHANGED <<onDisk, content, changes, graph>>

\* walkFile has the mutex and asks for a resolver.
BeginWalk(p) ==
  /\ op[p].pc \in {"walk", "add"}
  /\ Mutex!Begin(p)
  /\ Goto(p, IF op[p].pc = "walk" THEN "root" ELSE "adding", op[p].file, {})
  /\ UNCHANGED <<disk, graph>>

\* Mutant: walkFile does not release the mutex when it throws.
ResolveFileHolding(p) ==
  /\ op[p].pc \in {"root", "adding"}
  /\ LET f == op[p].file
     IN  IF f \in onDisk
         THEN /\ files' = WithFile(files, f)
              /\ Goto(p, IF op[p].pc = "root" THEN "imports" ELSE "newImports",
                      f, Statements(f))
         ELSE Return(p) /\ UNCHANGED files
  /\ UNCHANGED <<disk, dependencies, dependants, unresolved, line, inside>>

\* resolveProjectFile: the file enters the graph and its imports are next; a
\* file that does not exist any more makes walkFile, and addNewFile, throw.
ResolveFile(p) ==
  /\ op[p].pc \in {"root", "adding"}
  /\ LET f == op[p].file
     IN  IF f \in onDisk
         THEN /\ files' = WithFile(files, f)
              /\ Goto(p, IF op[p].pc = "root" THEN "imports" ELSE "newImports",
                      f, Statements(f))
              /\ UNCHANGED <<line, inside>>
         ELSE /\ Return(p)
              /\ Mutex!Leave(p)
              /\ UNCHANGED files
  /\ UNCHANGED <<disk, dependencies, dependants, unresolved>>

\* One iteration of the loop of walkFile: statement i of file f is resolved.
\* A file met for the first time joins the walk.
ResolveImport(p, f, i) ==
  /\ op[p].pc \in {"imports", "newImports"}
  /\ <<f, i>> \in op[p].todo
  /\ LET rest == op[p].todo \ {<<f, i>>}
         g    == Target[i]
     IN  IF g \in onDisk
         THEN /\ Goto(p, op[p].pc, op[p].file,
                      IF g \in files THEN rest ELSE rest \cup Statements(g))
              /\ files' = WithFile(files, g)
              /\ dependencies' = AddDependency(dependencies, f, i)
              /\ dependants' = AddDependant(dependants, f, i)
              /\ UNCHANGED unresolved
         ELSE /\ Goto(p, op[p].pc, op[p].file, rest)
              /\ unresolved' = [unresolved EXCEPT ![f] = @ \cup {i}]
              /\ UNCHANGED <<files, dependencies, dependants>>
  /\ UNCHANGED <<disk, line, inside>>

\* The walk is over: the mutex is released; addNewFile goes on after it.
EndWalk(p) ==
  /\ op[p].pc \in {"imports", "newImports"}
  /\ op[p].todo = {}
  /\ IF op[p].pc = "imports" THEN Return(p)
                             ELSE Goto(p, "relock", op[p].file, {})
  /\ Mutex!Leave(p)
  /\ UNCHANGED <<disk, graph>>

\* addNewFile asks for the mutex a second time.
Relock(p) ==
  /\ op[p].pc = "relock"
  /\ Goto(p, "relink", op[p].file, {})
  /\ Mutex!Arrive(p)
  /\ UNCHANGED <<disk, graph>>

\* addNewFile has the mutex again and goes through unresolvedImports, dropping
\* those of files that left the graph.
BeginRelink(p) ==
  /\ op[p].pc = "relink"
  /\ Mutex!Begin(p)
  /\ unresolved' = [f \in Files |-> IF f \in files THEN unresolved[f] ELSE {}]
  /\ Goto(p, "relinking", op[p].file,
          {s \in files \X Imports : s[2] \in unresolved[s[1]]})
  /\ UNCHANGED <<disk, files, dependencies, dependants>>

\* One unresolved import is tried again, and linked if it names the new file.
Relink(p, f, i) ==
  /\ op[p].pc = "relinking"
  /\ <<f, i>> \in op[p].todo
  /\ Goto(p, "relinking", op[p].file, op[p].todo \ {<<f, i>>})
  /\ IF Target[i] \in onDisk /\ Target[i] = op[p].file
     THEN /\ unresolved' = [unresolved EXCEPT ![f] = @ \ {i}]
          /\ files' = WithFile(files, Target[i])
          /\ dependencies' = AddDependency(dependencies, f, i)
          /\ dependants' = AddDependant(dependants, f, i)
     ELSE UNCHANGED graph
  /\ UNCHANGED <<disk, line, inside>>

EndRelink(p) ==
  /\ op[p].pc = "relinking"
  /\ op[p].todo = {}
  /\ Return(p)
  /\ Mutex!Leave(p)
  /\ UNCHANGED <<disk, graph>>

\* Mutant: deleteFile does not wait for the mutex.
DeleteFileAtOnce(p) ==
  /\ op[p].pc = "delete"
  /\ inside' = inside \cup {p}
  /\ LET f == op[p].file
     IN  /\ dependencies' = WithoutDependency(f)
         /\ dependants' = WithoutDependant(f)
         /\ unresolved' = OrphanedBy(f)
         /\ files' = files \ {f}
         /\ Goto(p, "deleted", f, {})
  /\ UNCHANGED <<disk, line>>

\* Mutant: deleteFile removes the links of the file, not the file.
DeleteLinks(p) ==
  /\ op[p].pc = "delete"
  /\ Mutex!Begin(p)
  /\ LET f == op[p].file
     IN  /\ dependencies' = WithoutDependency(f)
         /\ dependants' = WithoutDependant(f)
         /\ unresolved' = OrphanedBy(f)
         /\ Goto(p, "deleted", f, {})
  /\ UNCHANGED <<disk, files>>

\* deleteFile: one step under the mutex, for it never awaits.
DeleteFile(p) ==
  /\ op[p].pc = "delete"
  /\ Mutex!Begin(p)
  /\ LET f == op[p].file
     IN  /\ dependencies' = WithoutDependency(f)
         /\ dependants' = WithoutDependant(f)
         /\ unresolved' = OrphanedBy(f)
         /\ files' = files \ {f}
         /\ Goto(p, "deleted", f, {})
  /\ UNCHANGED disk

EndDelete(p) ==
  /\ op[p].pc = "deleted"
  /\ Return(p)
  /\ Mutex!Leave(p)
  /\ UNCHANGED <<disk, graph>>

-----------------------------------------------------------------------------
Step(p) ==
  \/ BeginWalk(p)
  \/ ResolveFile(p)
  \/ \E f \in Files, i \in Imports : ResolveImport(p, f, i) \/ Relink(p, f, i)
  \/ EndWalk(p)
  \/ Relock(p)
  \/ BeginRelink(p)
  \/ EndRelink(p)
  \/ DeleteFile(p)
  \/ EndDelete(p)

Next ==
  \/ \E f \in Files : RemoveFile(f)
  \/ \E f \in Files, imports \in SUBSET Imports : WriteFile(f, imports)
  \/ \E p \in Procs : Call(p) \/ Step(p)

Spec == Init /\ [][Next]_vars

-----------------------------------------------------------------------------
Links == Imports \X Files

Kinds == {"Created", "Changed", "Deleted"}
Calls == {"idle", "walk", "add", "delete", "root", "adding", "imports",
          "newImports", "relock", "relink", "relinking", "deleted"}

GraphTypeOK ==
  /\ onDisk \subseteq Files
  /\ content \in [Files -> SUBSET Imports]
  /\ changes \in 0 .. MaxChanges
  /\ files \subseteq Files
  /\ dependencies \in [Files -> SUBSET Links]
  /\ dependants \in [Files -> SUBSET Links]
  /\ unresolved \in [Files -> SUBSET Imports]
  /\ op \in [Procs -> [pc : Calls, file : Files, todo : SUBSET (Files \X Imports)]]
  /\ line \in Seq(Procs)
  /\ inside \subseteq Procs

\* Every variable has its type.
TypeOK == GraphTypeOK /\ events \in Seq(Kinds \X Files)

\* The two directions of the graph agree: f depends on g through import i
\* exactly if g has f as a dependant through i, and both are files of the graph
\* (LSPDependencyGraph.ts, the pairs #addDependency/#addDependant and the two
\* loops of deleteFile, which each take one direction for granted).
LinksAreMutual ==
  \A f, g \in Files, i \in Imports :
    /\ <<i, g>> \in dependencies[f] <=> <<i, f>> \in dependants[g]
    /\ <<i, g>> \in dependencies[f] => f \in files /\ g \in files

\* A file does not leave the graph while a call resolves its imports, which
\* would make #addDependency throw (LSPDependencyGraph.ts, "Dependencies for ...
\* not found") or leave links to a file that is gone.
LinkedFilesStay ==
  \A p \in Procs : \A s \in op[p].todo : s[1] \in files

\* No event is undelivered and no call is in flight.
AtRest == events = <<>> /\ \A p \in Procs : op[p].pc = "idle"

\* Once the events are handled, resolveImport finds the file named by every
\* import of every file of the graph, if that file exists (addNewFile: "Check
\* if there were unresolved imports that resolve to this new file").
RestResolvesImports ==
  AtRest => \A f \in files : \A i \in content[f] :
              Target[i] \in onDisk => <<i, Target[i]>> \in dependencies[f]

\* Once the events are handled, every file of the graph exists: resolveImport
\* never answers with a deleted file (deleteFile).
RestHasNoGhosts == AtRest => files \subseteq onDisk
=============================================================================
