------------------------ MODULE DependencyGraphProofs ------------------------
(***************************************************************************)
(* Proofs about the dependency graph, for any files, imports and calls in  *)
(* flight.  Every change of the graph is made by a call that is inside the *)
(* mutex, so that the imports a call has yet to resolve are of files which *)
(* nobody else can delete, and both directions of a link change together.  *)
(* Whatever the graph does not know of the disk yet has an event, a call   *)
(* or an import that waits, and the events and the line keep the order of  *)
(* deletions and creations: at rest the graph is what the disk is.         *)
(*                                                                         *)
(* At the end, the same for the callers of the graph: it keeps the         *)
(* invariant of its calls, for a handler or an analysis of a Hardhat 3     *)
(* project calls it only in the three ways that it offers, and a restart   *)
(* of the project begins with an empty one.                                *)
(***************************************************************************)
EXTENDS Hardhat3Project, SequenceTheorems, TLAPS

OpType == [pc : Calls, file : Files, todo : SUBSET (Files \X Imports)]

\* The first of the line is inside, or nobody.
FirstIsInside == inside = {} \/ (line # <<>> /\ inside = {Head(line)})

\* Calls that go through a loop or change the graph are inside.
Working == {"root", "adding", "imports", "newImports", "relinking", "deleted"}
WorkIsInside ==
  \A p \in Procs : op[p].pc \in Working \/ op[p].todo # {} => p \in inside

\* The file of a walk is in the graph once it has been resolved.
WalkedFilesStay ==
  \A p \in Procs : op[p].pc \in {"imports", "newImports"} => op[p].file \in files

\* The inductive invariant of the calls, whoever makes them.
GraphInv ==
  /\ GraphTypeOK /\ FirstIsInside /\ WorkIsInside
  /\ WalkedFilesStay /\ LinkedFilesStay /\ LinksAreMutual

-----------------------------------------------------------------------------
(* The lock *)

LEMMA Arriving ==
  ASSUME NEW p \in Procs, line \in Seq(Procs), FirstIsInside, Mutex!Arrive(p)
  PROVE  line' \in Seq(Procs) /\ inside' = inside /\ FirstIsInside'
<1>1. line' = Append(line, p) /\ inside' = inside
  BY DEF Mutex!Arrive
<1>2. line' \in Seq(Procs) /\ line' # <<>>
  BY <1>1, AppendProperties
<1>3. line # <<>> => Head(line') = Head(line)
  BY <1>1
<1> QED BY <1>1, <1>2, <1>3 DEF FirstIsInside

LEMMA Beginning ==
  ASSUME NEW p \in Procs, FirstIsInside, Mutex!Begin(p)
  PROVE  inside = {} /\ inside' = {p} /\ line' = line /\ FirstIsInside'
BY DEF FirstIsInside, Mutex!Begin

LEMMA Leaving ==
  ASSUME NEW p \in Procs, line \in Seq(Procs), FirstIsInside, Mutex!Leave(p)
  PROVE  inside = {p} /\ inside' = {} /\ line' \in Seq(Procs) /\ FirstIsInside'
<1>1. line # <<>> /\ inside = {p} /\ inside' = {} /\ line' = Tail(line)
  BY DEF FirstIsInside, Mutex!Leave
<1>2. Tail(line) \in Seq(Procs)
  BY <1>1, HeadTailProperties
<1> QED BY <1>1, <1>2 DEF FirstIsInside

-----------------------------------------------------------------------------
(* The calls *)

LEMMA Going ==
  ASSUME op \in [Procs -> OpType], NEW p \in Procs, NEW pc \in Calls, NEW f \in Files,
         NEW todo \in SUBSET (Files \X Imports), Goto(p, pc, f, todo)
  PROVE  /\ op' \in [Procs -> OpType]
         /\ op'[p].pc = pc /\ op'[p].file = f /\ op'[p].todo = todo
         /\ \A q \in Procs \ {p} : op'[q] = op[q]
BY DEF Goto, OpType

LEMMA NoOpType == NoOp \in OpType
BY FilesAssumption DEF NoOp, OpType, Calls

LEMMA Returning ==
  ASSUME op \in [Procs -> OpType], NEW p \in Procs, Return(p)
  PROVE  /\ op' \in [Procs -> OpType]
         /\ op'[p].pc = "idle" /\ op'[p].todo = {}
         /\ \A q \in Procs \ {p} : op'[q] = op[q]
BY NoOpType DEF Return, NoOp

-----------------------------------------------------------------------------
(* The steps of a call *)

LEMMA GraphTypes ==
  ASSUME GraphTypeOK
  PROVE  /\ op \in [Procs -> OpType]
         /\ \A p \in Procs : op[p].pc \in Calls /\ op[p].file \in Files
         /\ \A p \in Procs : op[p].todo \subseteq Files \X Imports
         /\ line \in Seq(Procs)
BY DEF GraphTypeOK, OpType

\* A step that leaves the graph alone keeps it well linked.
LEMMA Untouched ==
  ASSUME GraphInv, NEW p \in Procs, UNCHANGED <<disk, graph>>,
         op' \in [Procs -> OpType], line' \in Seq(Procs), inside' \subseteq Procs,
         FirstIsInside',
         op'[p].todo = {}, op'[p].pc \in Working => p \in inside',
         op'[p].pc \notin {"imports", "newImports"},
         \A q \in Procs \ {p} : op'[q] = op[q],
         inside \ {p} \subseteq inside'
  PROVE  GraphInv'
<1>1. GraphTypeOK'
  BY DEF GraphInv, GraphTypeOK, OpType, disk, graph
<1>2. WorkIsInside'
  BY DEF GraphInv, WorkIsInside
<1>3. LinkedFilesStay' /\ WalkedFilesStay'
  BY DEF GraphInv, LinkedFilesStay, WalkedFilesStay, graph
<1>4. LinksAreMutual'
  BY DEF GraphInv, LinksAreMutual, graph
<1> QED BY <1>1, <1>2, <1>3, <1>4 DEF GraphInv

LEMMA BeginWalkKeeps ==
  ASSUME GraphInv, NEW p \in Procs, BeginWalk(p)
  PROVE  GraphInv'
<1>1. PICK pc \in {"root", "adding"} : Goto(p, pc, op[p].file, {})
  BY DEF BeginWalk
<1>2. /\ op' \in [Procs -> OpType] /\ op'[p].pc = pc /\ op'[p].todo = {}
      /\ \A q \in Procs \ {p} : op'[q] = op[q]
  BY <1>1, GraphTypes, Going DEF GraphInv, Calls
<1>3. inside = {} /\ inside' = {p} /\ line' = line /\ FirstIsInside'
  BY Beginning DEF BeginWalk, GraphInv
<1> QED BY <1>2, <1>3, Untouched, GraphTypes DEF BeginWalk, GraphInv

LEMMA EndWalkKeeps ==
  ASSUME GraphInv, NEW p \in Procs, EndWalk(p)
  PROVE  GraphInv'
<1>1. /\ op' \in [Procs -> OpType] /\ op'[p].pc \in {"idle", "relock"} /\ op'[p].todo = {}
      /\ \A q \in Procs \ {p} : op'[q] = op[q]
  <2>1. CASE Return(p)
    BY <2>1, GraphTypes, Returning DEF GraphInv
  <2>2. CASE Goto(p, "relock", op[p].file, {})
    BY <2>2, GraphTypes, Going DEF GraphInv, Calls
  <2> QED BY <2>1, <2>2 DEF EndWalk
<1>2. inside = {p} /\ inside' = {} /\ line' \in Seq(Procs) /\ FirstIsInside'
  BY Leaving, GraphTypes DEF EndWalk, GraphInv
<1> QED BY <1>1, <1>2, Untouched DEF EndWalk, Working

LEMMA RelockKeeps ==
  ASSUME GraphInv, NEW p \in Procs, Relock(p)
  PROVE  GraphInv'
<1>1. /\ op' \in [Procs -> OpType] /\ op'[p].pc = "relink" /\ op'[p].todo = {}
      /\ \A q \in Procs \ {p} : op'[q] = op[q]
  BY GraphTypes, Going DEF GraphInv, Relock, Calls
<1>2. line' \in Seq(Procs) /\ inside' = inside /\ FirstIsInside'
  BY Arriving, GraphTypes DEF Relock, GraphInv
<1>3. inside' \subseteq Procs
  BY <1>2 DEF GraphInv, GraphTypeOK
<1> QED BY <1>1, <1>2, <1>3, Untouched DEF Relock, Working

LEMMA ReturnKeeps ==
  ASSUME GraphInv, NEW p \in Procs, Return(p), Mutex!Leave(p), UNCHANGED <<disk, graph>>
  PROVE  GraphInv'
<1>1. /\ op' \in [Procs -> OpType] /\ op'[p].pc = "idle" /\ op'[p].todo = {}
      /\ \A q \in Procs \ {p} : op'[q] = op[q]
  BY GraphTypes, Returning DEF GraphInv
<1>2. inside = {p} /\ inside' = {} /\ line' \in Seq(Procs) /\ FirstIsInside'
  BY Leaving, GraphTypes DEF GraphInv
<1> QED BY <1>1, <1>2, Untouched DEF Working

\* A call that is inside goes on inside, when no link and no file is lost.
LEMMA GoingOn ==
  ASSUME GraphInv, NEW p \in Procs, p \in inside,
         op' \in [Procs -> OpType], \A q \in Procs \ {p} : op'[q] = op[q],
         UNCHANGED <<line, inside>>
  PROVE  FirstIsInside' /\ WorkIsInside'
BY DEF GraphInv, FirstIsInside, WorkIsInside

LEMMA ResolveFileKeeps ==
  ASSUME GraphInv, NEW p \in Procs, ResolveFile(p)
  PROVE  GraphInv'
<1> DEFINE f == op[p].file
<1>1. p \in inside
  BY DEF ResolveFile, GraphInv, WorkIsInside, Working
<1>2. CASE f \notin onDisk
  BY <1>2, ReturnKeeps DEF ResolveFile, disk, graph
<1>3. CASE f \in onDisk
  <2>1. PICK pc \in {"imports", "newImports"} : Goto(p, pc, f, Statements(f))
    BY <1>3 DEF ResolveFile
  <2>2. f \in Files /\ Statements(f) \subseteq Files \X Imports
    BY GraphTypes DEF Statements, GraphInv, GraphTypeOK
  <2>3. /\ op' \in [Procs -> OpType] /\ op'[p].todo = Statements(f) /\ op'[p].file = f
        /\ \A q \in Procs \ {p} : op'[q] = op[q]
    BY <2>1, <2>2, GraphTypes, Going DEF GraphInv, Calls
  <2>4. /\ files' = files \cup {f}
        /\ UNCHANGED <<disk, dependencies, dependants, unresolved, line, inside>>
    BY <1>3 DEF ResolveFile, WithFile
  <2>5. GraphTypeOK'
    BY <2>2, <2>3, <2>4 DEF GraphInv, GraphTypeOK, OpType, disk
  <2>6. FirstIsInside' /\ WorkIsInside'
    BY <1>1, <2>3, <2>4, GoingOn
  <2>7. LinkedFilesStay' /\ WalkedFilesStay'
    BY <2>3, <2>4 DEF GraphInv, LinkedFilesStay, WalkedFilesStay, Statements
  <2>8. LinksAreMutual'
    BY <2>4 DEF GraphInv, LinksAreMutual
  <2> QED BY <2>5, <2>6, <2>7, <2>8 DEF GraphInv
<1> QED BY <1>2, <1>3

\* Both directions of a link between files of the graph are added together.
LEMMA Linking ==
  ASSUME GraphTypeOK, LinksAreMutual, NEW f \in files, NEW i \in Imports,
         files' = WithFile(files, Target[i]),
         dependencies' = AddDependency(dependencies, f, i),
         dependants' = AddDependant(dependants, f, i)
  PROVE  /\ files' \subseteq Files /\ files \subseteq files'
         /\ dependencies' \in [Files -> SUBSET Links]
         /\ dependants' \in [Files -> SUBSET Links]
         /\ LinksAreMutual'
<1>1. f \in Files /\ Target[i] \in Files
  BY TargetAssumption DEF GraphTypeOK
<1>2. dependencies' = [dependencies EXCEPT ![f] = @ \cup {<<i, Target[i]>>}]
  BY DEF AddDependency
<1>3. dependants' = [dependants EXCEPT ![Target[i]] = @ \cup {<<i, f>>}]
  BY DEF AddDependant
<1>4. files' = files \cup {Target[i]}
  BY DEF WithFile
<1>5. /\ dependencies' \in [Files -> SUBSET Links]
      /\ dependants' \in [Files -> SUBSET Links]
  BY <1>1, <1>2, <1>3 DEF GraphTypeOK, Links
<1>6. ASSUME NEW g \in Files, NEW h \in Files, NEW j \in Imports
      PROVE  /\ <<j, h>> \in dependencies'[g] <=>
                   <<j, h>> \in dependencies[g] \/ (g = f /\ j = i /\ h = Target[i])
             /\ <<j, g>> \in dependants'[h] <=>
                   <<j, g>> \in dependants[h] \/ (g = f /\ j = i /\ h = Target[i])
  BY <1>1, <1>2, <1>3 DEF GraphTypeOK
<1>7. ASSUME NEW g \in Files, NEW h \in Files, NEW j \in Imports
      PROVE  /\ <<j, h>> \in dependencies'[g] <=> <<j, g>> \in dependants'[h]
             /\ <<j, h>> \in dependencies'[g] => g \in files' /\ h \in files'
  <2>1. /\ <<j, h>> \in dependencies[g] <=> <<j, g>> \in dependants[h]
        /\ <<j, h>> \in dependencies[g] => g \in files /\ h \in files
    BY DEF LinksAreMutual
  <2> QED BY <1>4, <1>6, <2>1
<1>8. LinksAreMutual'
  BY <1>7 DEF LinksAreMutual
<1> QED BY <1>1, <1>4, <1>5, <1>8 DEF GraphTypeOK

LEMMA ResolveImportKeeps ==
  ASSUME GraphInv, NEW p \in Procs, NEW f \in Files, NEW i \in Imports,
         ResolveImport(p, f, i)
  PROVE  GraphInv'
<1> DEFINE rest == op[p].todo \ {<<f, i>>}
           g == Target[i]
<1>1. p \in inside /\ f \in files /\ g \in Files
  BY TargetAssumption DEF ResolveImport, GraphInv, WorkIsInside, Working, LinkedFilesStay
<1>2. rest \subseteq Files \X Imports /\ op[p].pc \in Calls /\ op[p].file \in Files
  BY GraphTypes DEF GraphInv
<1>3. \A s \in rest : s[1] \in files
  BY DEF GraphInv, LinkedFilesStay
<1>4. UNCHANGED <<disk, line, inside>>
  BY DEF ResolveImport
<1>5. CASE g \in onDisk
  <2>1. PICK todo : /\ todo = IF g \in files THEN rest ELSE rest \cup Statements(g)
                    /\ Goto(p, op[p].pc, op[p].file, todo)
    BY <1>5 DEF ResolveImport
  <2>2. /\ files' = WithFile(files, g) /\ UNCHANGED unresolved
        /\ dependencies' = AddDependency(dependencies, f, i)
        /\ dependants' = AddDependant(dependants, f, i)
    BY <1>5 DEF ResolveImport
  <2>3. todo \subseteq Files \X Imports /\ \A s \in todo : s[1] \in files \cup {g}
    <3>1. Statements(g) \subseteq Files \X Imports /\ \A s \in Statements(g) : s[1] = g
      BY <1>1 DEF Statements, GraphInv, GraphTypeOK
    <3> QED BY <1>2, <1>3, <2>1, <3>1
  <2>4. /\ op' \in [Procs -> OpType] /\ op'[p].todo = todo
        /\ op'[p].pc = op[p].pc /\ op'[p].file = op[p].file
        /\ \A q \in Procs \ {p} : op'[q] = op[q]
    BY <1>2, <2>1, <2>3, GraphTypes, Going DEF GraphInv
  <2>5. /\ files' \subseteq Files /\ files \subseteq files'
        /\ dependencies' \in [Files -> SUBSET Links]
        /\ dependants' \in [Files -> SUBSET Links]
        /\ LinksAreMutual'
    BY <1>1, <2>2, Linking DEF GraphInv
  <2>6. GraphTypeOK'
    BY <1>4, <2>2, <2>4, <2>5 DEF GraphInv, GraphTypeOK, OpType, disk
  <2>7. FirstIsInside' /\ WorkIsInside'
    BY <1>1, <1>4, <2>4, GoingOn
  <2>8. LinkedFilesStay' /\ WalkedFilesStay'
    <3>1. files' = files \cup {g}
      BY <2>2 DEF WithFile
    <3> QED BY <2>3, <2>4, <3>1 DEF GraphInv, LinkedFilesStay, WalkedFilesStay
  <2> QED BY <2>5, <2>6, <2>7, <2>8 DEF GraphInv
<1>6. CASE g \notin onDisk
  <2>1. /\ Goto(p, op[p].pc, op[p].file, rest)
        /\ unresolved' = [unresolved EXCEPT ![f] = @ \cup {i}]
        /\ UNCHANGED <<files, dependencies, dependants>>
    BY <1>6 DEF ResolveImport
  <2>2. /\ op' \in [Procs -> OpType] /\ op'[p].todo = rest
        /\ op'[p].pc = op[p].pc /\ op'[p].file = op[p].file
        /\ \A q \in Procs \ {p} : op'[q] = op[q]
    BY <1>2, <2>1, GraphTypes, Going DEF GraphInv
  <2>3. unresolved' \in [Files -> SUBSET Imports]
    BY <2>1 DEF GraphInv, GraphTypeOK
  <2>4. GraphTypeOK'
    BY <1>4, <2>1, <2>2, <2>3 DEF GraphInv, GraphTypeOK, OpType, disk
  <2>5. FirstIsInside' /\ WorkIsInside'
    BY <1>1, <1>4, <2>2, GoingOn
  <2>6. LinkedFilesStay' /\ WalkedFilesStay' /\ LinksAreMutual'
    BY <1>3, <2>1, <2>2 DEF GraphInv, LinkedFilesStay, WalkedFilesStay, LinksAreMutual
  <2> QED BY <2>4, <2>5, <2>6 DEF GraphInv
<1> QED BY <1>5, <1>6

LEMMA BeginRelinkKeeps ==
  ASSUME GraphInv, NEW p \in Procs, BeginRelink(p)
  PROVE  GraphInv'
<1> DEFINE todo == {s \in files \X Imports : s[2] \in unresolved[s[1]]}
<1>1. inside = {} /\ inside' = {p} /\ line' = line /\ FirstIsInside'
  BY Beginning DEF BeginRelink, GraphInv
<1>2. todo \subseteq Files \X Imports /\ \A s \in todo : s[1] \in files
  BY DEF GraphInv, GraphTypeOK
<1>3. Goto(p, "relinking", op[p].file, todo)
  BY DEF BeginRelink
<1>4. /\ op' \in [Procs -> OpType] /\ op'[p].todo = todo /\ op'[p].pc = "relinking"
      /\ \A q \in Procs \ {p} : op'[q] = op[q]
  <2> HIDE DEF todo
  <2> QED BY <1>2, <1>3, GraphTypes, Going DEF GraphInv, Calls
<1>5. /\ unresolved' = [f \in Files |-> IF f \in files THEN unresolved[f] ELSE {}]
      /\ UNCHANGED <<disk, files, dependencies, dependants>>
  BY DEF BeginRelink
<1>6. GraphTypeOK'
  BY <1>1, <1>4, <1>5 DEF GraphInv, GraphTypeOK, OpType, disk
<1>7. WorkIsInside'
  BY <1>1, <1>4 DEF GraphInv, WorkIsInside
<1>8. LinkedFilesStay' /\ WalkedFilesStay' /\ LinksAreMutual'
  <2> HIDE DEF todo
  <2> QED BY <1>2, <1>4, <1>5 DEF GraphInv, LinkedFilesStay, WalkedFilesStay, LinksAreMutual
<1> QED BY <1>1, <1>6, <1>7, <1>8 DEF GraphInv

LEMMA RelinkKeeps ==
  ASSUME GraphInv, NEW p \in Procs, NEW f \in Files, NEW i \in Imports, Relink(p, f, i)
  PROVE  GraphInv'
<1> DEFINE rest == op[p].todo \ {<<f, i>>}
<1>1. p \in inside /\ f \in files
  BY DEF Relink, GraphInv, WorkIsInside, Working, LinkedFilesStay
<1>2. rest \subseteq Files \X Imports /\ op[p].file \in Files
  BY GraphTypes DEF GraphInv
<1>3. \A s \in rest : s[1] \in files
  BY DEF GraphInv, LinkedFilesStay
<1>4. Goto(p, "relinking", op[p].file, rest) /\ UNCHANGED <<disk, line, inside>>
  BY DEF Relink
<1>5. /\ op' \in [Procs -> OpType] /\ op'[p].todo = rest /\ op'[p].pc = "relinking"
      /\ \A q \in Procs \ {p} : op'[q] = op[q]
  BY <1>2, <1>4, GraphTypes, Going DEF GraphInv, Calls
<1>6. FirstIsInside' /\ WorkIsInside'
  BY <1>1, <1>4, <1>5, GoingOn
<1>7. CASE UNCHANGED graph
  <2>1. GraphTypeOK'
    BY <1>4, <1>5, <1>7 DEF GraphInv, GraphTypeOK, OpType, disk, graph
  <2>2. LinkedFilesStay' /\ WalkedFilesStay' /\ LinksAreMutual'
    BY <1>3, <1>5, <1>7 DEF GraphInv, LinkedFilesStay, WalkedFilesStay, LinksAreMutual, graph
  <2> QED BY <1>6, <2>1, <2>2 DEF GraphInv
<1>8. CASE Target[i] \in onDisk /\ Target[i] = op[p].file
  <2>1. /\ unresolved' = [unresolved EXCEPT ![f] = @ \ {i}]
        /\ files' = WithFile(files, Target[i])
        /\ dependencies' = AddDependency(dependencies, f, i)
        /\ dependants' = AddDependant(dependants, f, i)
    BY <1>8 DEF Relink
  <2>2. /\ files' \subseteq Files /\ files \subseteq files'
        /\ dependencies' \in [Files -> SUBSET Links]
        /\ dependants' \in [Files -> SUBSET Links]
        /\ LinksAreMutual'
    BY <1>1, <2>1, Linking DEF GraphInv
  <2>3. unresolved' \in [Files -> SUBSET Imports]
    BY <2>1 DEF GraphInv, GraphTypeOK
  <2>4. GraphTypeOK'
    BY <1>4, <1>5, <2>2, <2>3 DEF GraphInv, GraphTypeOK, OpType, disk
  <2>5. LinkedFilesStay' /\ WalkedFilesStay'
    BY <1>3, <1>5, <2>2 DEF GraphInv, LinkedFilesStay, WalkedFilesStay
  <2> QED BY <1>6, <2>2, <2>4, <2>5 DEF GraphInv
<1> QED BY <1>7, <1>8 DEF Relink

\* A deletion takes both directions of every link of the file.
LEMMA Unlinking ==
  ASSUME GraphTypeOK, LinksAreMutual, NEW f \in Files,
         files' = files \ {f},
         dependencies' = WithoutDependency(f), dependants' = WithoutDependant(f)
  PROVE  /\ dependencies' \in [Files -> SUBSET Links]
         /\ dependants' \in [Files -> SUBSET Links]
         /\ LinksAreMutual'
<1>1. /\ dependencies' \in [Files -> SUBSET Links]
      /\ dependants' \in [Files -> SUBSET Links]
  BY DEF WithoutDependency, WithoutDependant, GraphTypeOK
<1>2. ASSUME NEW g \in Files, NEW h \in Files, NEW j \in Imports
      PROVE  /\ <<j, h>> \in dependencies'[g] <=>
                   g # f /\ h # f /\ <<j, h>> \in dependencies[g]
             /\ <<j, h>> \in dependants'[g] <=>
                   g # f /\ h # f /\ <<j, h>> \in dependants[g]
  <2>1. /\ <<j, f>> \in dependencies[g] <=> <<j, g>> \in dependants[f]
        /\ <<j, g>> \in dependencies[f] <=> <<j, f>> \in dependants[g]
    BY DEF LinksAreMutual
  <2>2. dependencies'[g] = IF g = f THEN {}
                           ELSE {d \in dependencies[g] :
                                   ~(d[2] = f /\ <<d[1], g>> \in dependants[f])}
    BY DEF WithoutDependency
  <2>3. dependants'[g] = IF g = f THEN {}
                         ELSE {d \in dependants[g] :
                                 ~(d[2] = f /\ <<d[1], g>> \in dependencies[f])}
    BY DEF WithoutDependant
  <2> QED BY <2>1, <2>2, <2>3
<1>3. LinksAreMutual'
  BY <1>2 DEF LinksAreMutual
<1> QED BY <1>1, <1>3

LEMMA DeleteFileKeeps ==
  ASSUME GraphInv, NEW p \in Procs, DeleteFile(p)
  PROVE  GraphInv'
<1> DEFINE f == op[p].file
<1>1. inside = {} /\ inside' = {p} /\ line' = line /\ FirstIsInside'
  BY Beginning DEF DeleteFile, GraphInv
<1>2. /\ dependencies' = WithoutDependency(f) /\ dependants' = WithoutDependant(f)
      /\ unresolved' = OrphanedBy(f) /\ files' = files \ {f}
      /\ Goto(p, "deleted", f, {}) /\ UNCHANGED disk /\ f \in Files
  BY GraphTypes DEF DeleteFile, GraphInv
<1>3. /\ op' \in [Procs -> OpType] /\ op'[p].todo = {} /\ op'[p].pc = "deleted"
      /\ \A q \in Procs \ {p} : op'[q] = op[q]
  BY <1>2, GraphTypes, Going DEF GraphInv, Calls
<1>4. \A q \in Procs : op'[q].todo = {} /\ op'[q].pc \notin {"imports", "newImports"}
  BY <1>1, <1>3 DEF GraphInv, WorkIsInside, Working
<1>5. /\ dependencies' \in [Files -> SUBSET Links]
      /\ dependants' \in [Files -> SUBSET Links]
      /\ LinksAreMutual'
  BY <1>2, Unlinking DEF GraphInv
<1>6. unresolved' \in [Files -> SUBSET Imports]
  <2>1. ASSUME NEW g \in Files
        PROVE  {d[1] : d \in {e \in dependencies[g] :
                  e[2] = f /\ <<e[1], g>> \in dependants[f]}} \subseteq Imports
    <3>1. \A d \in dependencies[g] : d[1] \in Imports
      BY DEF GraphInv, GraphTypeOK, Links
    <3> QED BY <3>1
  <2>2. unresolved \in [Files -> SUBSET Imports]
    BY DEF GraphInv, GraphTypeOK
  <2> QED BY <1>2, <2>1, <2>2 DEF OrphanedBy
<1>7. GraphTypeOK'
  BY <1>1, <1>2, <1>3, <1>5, <1>6 DEF GraphInv, GraphTypeOK, OpType, disk
<1>8. WorkIsInside' /\ LinkedFilesStay' /\ WalkedFilesStay'
  BY <1>1, <1>3, <1>4 DEF GraphInv, WorkIsInside, LinkedFilesStay, WalkedFilesStay
<1> QED BY <1>1, <1>5, <1>7, <1>8 DEF GraphInv

LEMMA StepKeeps ==
  ASSUME GraphInv, NEW p \in Procs, Step(p)
  PROVE  GraphInv'
<1>1. ASSUME NEW f \in Files, NEW i \in Imports, ResolveImport(p, f, i) \/ Relink(p, f, i)
      PROVE  GraphInv'
  BY <1>1, ResolveImportKeeps, RelinkKeeps
<1>2. CASE EndRelink(p) \/ EndDelete(p)
  BY <1>2, ReturnKeeps DEF EndRelink, EndDelete
<1> QED BY <1>1, <1>2, BeginWalkKeeps, ResolveFileKeeps, EndWalkKeeps, RelockKeeps,
           BeginRelinkKeeps, DeleteFileKeeps DEF Step

-----------------------------------------------------------------------------
(* The environment *)

LEMMA DiskKeeps ==
  ASSUME GraphInv, UNCHANGED <<graph, op, line, inside>>,
         onDisk' \subseteq Files, content' \in [Files -> SUBSET Imports],
         changes' \in 0 .. MaxChanges
  PROVE  GraphInv'
<1>1. GraphTypeOK'
  BY DEF GraphInv, GraphTypeOK, graph
<1>2. FirstIsInside' /\ WorkIsInside' /\ WalkedFilesStay' /\ LinkedFilesStay' /\ LinksAreMutual'
  BY DEF GraphInv, FirstIsInside, WorkIsInside, WalkedFilesStay, LinkedFilesStay,
         LinksAreMutual, graph
<1> QED BY <1>1, <1>2 DEF GraphInv

LEMMA Announcing ==
  ASSUME changes \in 0 .. MaxChanges, events \in Seq(Kinds \X Files),
         NEW kind \in Kinds, NEW f \in Files, Announce(kind, f)
  PROVE  changes' \in 0 .. MaxChanges /\ events' \in Seq(Kinds \X Files)
<1>1. changes' \in 0 .. MaxChanges
  BY BoundAssumption DEF Announce
<1>2. events' = Append(events, <<kind, f>>) /\ <<kind, f>> \in Kinds \X Files
  BY DEF Announce
<1> QED BY <1>1, <1>2, AppendProperties

\* A call that asks for the mutex.
LEMMA InvokeKeeps ==
  ASSUME GraphInv, NEW p \in Procs, NEW pc \in {"walk", "add", "delete"}, NEW f \in Files,
         Goto(p, pc, f, {}), Mutex!Arrive(p), UNCHANGED <<onDisk, content, changes, graph>>
  PROVE  GraphInv'
<1>1. /\ op' \in [Procs -> OpType] /\ op'[p].pc = pc /\ op'[p].todo = {}
      /\ \A q \in Procs \ {p} : op'[q] = op[q]
  BY GraphTypes, Going DEF GraphInv, Calls
<1>2. line' \in Seq(Procs) /\ inside' = inside /\ FirstIsInside'
  BY Arriving, GraphTypes DEF GraphInv
<1>3. GraphTypeOK'
  BY <1>1, <1>2 DEF GraphInv, GraphTypeOK, OpType, graph
<1>4. WorkIsInside'
  BY <1>1, <1>2 DEF GraphInv, WorkIsInside, Working
<1>5. LinkedFilesStay' /\ WalkedFilesStay' /\ LinksAreMutual'
  BY <1>1 DEF GraphInv, LinkedFilesStay, WalkedFilesStay, LinksAreMutual, graph
<1> QED BY <1>2, <1>3, <1>4, <1>5 DEF GraphInv

LEMMA CallKeeps ==
  ASSUME GraphInv, TypeOK, NEW p \in Procs, Call(p)
  PROVE  GraphInv' /\ events' \in Seq(Kinds \X Files)
<1>1. events # <<>> /\ events \in Seq(Kinds \X Files) /\ events' = Tail(events)
  BY DEF TypeOK, Call
<1>2. Head(events) \in Kinds \X Files /\ events' \in Seq(Kinds \X Files)
  BY <1>1, HeadTailProperties
<1>3. PICK pc \in {"walk", "add", "delete"} : Goto(p, pc, Head(events)[2], {})
  <2>1. Head(events)[1] \in Kinds
    BY <1>2
  <2> QED BY <2>1 DEF Call, Kinds
<1>4. Head(events)[2] \in Files
  BY <1>2
<1>5. GraphInv'
  BY <1>3, <1>4, InvokeKeeps DEF Call
<1> QED BY <1>2, <1>5

-----------------------------------------------------------------------------
(* The theorems *)

LEMMA InitGraph == Init => GraphInv /\ TypeOK
<1> SUFFICES ASSUME Init PROVE GraphInv /\ TypeOK
  OBVIOUS
<1>1. line = <<>> /\ inside = {} /\ \A p \in Procs : op[p] = NoOp
  BY DEF Init, Mutex!Init
<1>2. GraphTypeOK
  BY <1>1, NoOpType, BoundAssumption, EmptySeq DEF Init, GraphTypeOK, OpType
<1>3. FirstIsInside /\ WorkIsInside /\ WalkedFilesStay /\ LinkedFilesStay /\ LinksAreMutual
  BY <1>1 DEF Init, FirstIsInside, WorkIsInside, Working, WalkedFilesStay, LinkedFilesStay,
              LinksAreMutual, NoOp
<1>4. events \in Seq(Kinds \X Files)
  BY EmptySeq DEF Init
<1> QED BY <1>2, <1>3, <1>4 DEF GraphInv, TypeOK

LEMMA NextKeeps ==
  ASSUME GraphInv, TypeOK, [Next]_vars
  PROVE  GraphInv' /\ TypeOK'
<1>1. /\ changes \in 0 .. MaxChanges /\ events \in Seq(Kinds \X Files)
      /\ onDisk \subseteq Files /\ content \in [Files -> SUBSET Imports]
  BY DEF TypeOK, GraphTypeOK
<1>2. ASSUME NEW f \in Files, NEW imports \in SUBSET Imports, WriteFile(f, imports)
      PROVE  GraphInv' /\ events' \in Seq(Kinds \X Files)
  <2>1. PICK kind \in Kinds : Announce(kind, f)
    BY <1>2 DEF WriteFile, Kinds
  <2>2. changes' \in 0 .. MaxChanges /\ events' \in Seq(Kinds \X Files)
    BY <1>1, <2>1, Announcing
  <2>3. onDisk' \subseteq Files /\ content' \in [Files -> SUBSET Imports]
    BY <1>1, <1>2 DEF WriteFile
  <2> QED BY <1>2, <2>2, <2>3, DiskKeeps DEF WriteFile
<1>3. ASSUME NEW f \in Files, RemoveFile(f)
      PROVE  GraphInv' /\ events' \in Seq(Kinds \X Files)
  <2>1. changes' \in 0 .. MaxChanges /\ events' \in Seq(Kinds \X Files)
    BY <1>1, <1>3, Announcing DEF RemoveFile, Kinds
  <2>2. onDisk' \subseteq Files /\ content' \in [Files -> SUBSET Imports]
    BY <1>1, <1>3 DEF RemoveFile
  <2> QED BY <1>3, <2>1, <2>2, DiskKeeps DEF RemoveFile
<1>4. ASSUME NEW p \in Procs, Step(p)
      PROVE  GraphInv' /\ events' = events
  <2>1. UNCHANGED disk
    BY <1>4 DEF Step, BeginWalk, ResolveFile, ResolveImport, Relink, EndWalk, Relock,
                BeginRelink, EndRelink, DeleteFile, EndDelete
  <2> QED BY <1>4, <2>1, StepKeeps DEF disk
<1>5. CASE UNCHANGED vars
  <2>1. UNCHANGED <<graph, op, line, inside, onDisk, content, changes, events>>
    BY <1>5 DEF vars, disk
  <2> QED BY <1>1, <2>1, DiskKeeps DEF TypeOK, GraphInv
<1>6. GraphInv' /\ events' \in Seq(Kinds \X Files)
  BY <1>1, <1>2, <1>3, <1>4, <1>5, CallKeeps DEF Next, TypeOK
<1> QED BY <1>6 DEF GraphInv, TypeOK

\* The inductive invariant: well typed states, one call inside the mutex, every
\* call that changes the graph inside it, no file lost under a walk, and links
\* that agree (LSPDependencyGraph, whose three operations run exclusively).
THEOREM GraphInvariant == Spec => [](GraphInv /\ TypeOK)
<1>1. Init => GraphInv /\ TypeOK
  BY InitGraph
<1>2. (GraphInv /\ TypeOK) /\ [Next]_vars => (GraphInv /\ TypeOK)'
  BY NextKeeps
<1> QED BY <1>1, <1>2, PTL DEF Spec

\* Every reachable state is well typed.
THEOREM GraphTypesCorrect == Spec => []TypeOK
BY GraphInvariant, PTL

\* The two directions of the graph agree: #addDependency, #addDependant and the
\* two loops of deleteFile keep them together.
THEOREM MutualLinks == Spec => []LinksAreMutual
<1>1. GraphInv => LinksAreMutual
  BY DEF GraphInv
<1> QED BY <1>1, GraphInvariant, PTL

\* No file leaves the graph while a walk resolves its imports.
THEOREM FilesStayUnderWalks == Spec => []LinkedFilesStay
<1>1. GraphInv => LinkedFilesStay
  BY DEF GraphInv
<1> QED BY <1>1, GraphInvariant, PTL

-----------------------------------------------------------------------------
(* The order of events and calls *)

\* A file event that waits for its call, and calls about a file.
Pending(kind, f) == \E k \in 1 .. Len(events) : events[k] = <<kind, f>>
Called(pcs, f) == \E p \in Procs : op[p].pc \in pcs /\ op[p].file = f

InLine(p) == \E k \in 1 .. Len(line) : line[k] = p
Behind(p, q) == \E j, k \in 1 .. Len(line) : j < k /\ line[j] = p /\ line[k] = q

\* The calls that wait for the mutex or have it are in line, once each.
Outside == {"idle", "relock"}
LineIsCalls ==
  /\ \A j, k \in 1 .. Len(line) : line[j] = line[k] => j = k
  /\ \A p \in Procs : InLine(p) <=> op[p].pc \notin Outside

\* A file that exists again was deleted before it was created: its deletion is
\* handled before its creation.
EventsInOrder ==
  \A f \in onDisk, k \in 1 .. Len(events) : events[k] = <<"Deleted", f>> =>
     \E m \in k + 1 .. Len(events) : events[m] = <<"Created", f>>
AddedBehind(p, f) ==
  \E q \in Procs : op[q].pc = "add" /\ op[q].file = f /\ Behind(p, q)
DeletionsInOrder ==
  \A p \in Procs, f \in onDisk : op[p].pc = "delete" /\ op[p].file = f =>
     Pending("Created", f) \/ AddedBehind(p, f)

QueueInv == LineIsCalls /\ EventsInOrder /\ DeletionsInOrder

-----------------------------------------------------------------------------
(* Events *)
LEMMA Announced ==
  ASSUME events \in Seq(Kinds \X Files), NEW kind \in Kinds, NEW f \in Files,
         Announce(kind, f)
  PROVE  /\ Pending(kind, f)'
         /\ Len(events') = Len(events) + 1 /\ events'[Len(events) + 1] = <<kind, f>>
         /\ \A k \in 1 .. Len(events) : events'[k] = events[k]
         /\ \A l \in Kinds, g \in Files : Pending(l, g) => Pending(l, g)'
<1>1. events' = Append(events, <<kind, f>>) /\ <<kind, f>> \in Kinds \X Files
  BY DEF Announce
<1>2. /\ Len(events') = Len(events) + 1 /\ events'[Len(events) + 1] = <<kind, f>>
      /\ \A k \in 1 .. Len(events) : events'[k] = events[k]
  BY <1>1, AppendProperties
<1>3. Len(events) \in Nat
  BY LenProperties
<1> QED BY <1>2, <1>3 DEF Pending

LEMMA Delivered ==
  ASSUME events \in Seq(Kinds \X Files), events # <<>>, events' = Tail(events)
  PROVE  /\ Len(events) \in Nat \ {0} /\ Len(events') = Len(events) - 1
         /\ \A k \in 1 .. Len(events') : events'[k] = events[k + 1]
         /\ Head(events) = events[1]
         /\ \A l \in Kinds, g \in Files :
              Pending(l, g) /\ Head(events) # <<l, g>> => Pending(l, g)'
<1>1. /\ Len(events) \in Nat \ {0} /\ Len(events') = Len(events) - 1
      /\ \A k \in 1 .. Len(events') : events'[k] = events[k + 1]
      /\ Head(events) = events[1]
  BY HeadTailProperties, LenProperties, EmptySeq
<1>2. ASSUME NEW l \in Kinds, NEW g \in Files, Pending(l, g), Head(events) # <<l, g>>
      PROVE  Pending(l, g)'
  <2>1. PICK k \in 1 .. Len(events) : events[k] = <<l, g>>
    BY <1>2 DEF Pending
  <2>2. k # 1 /\ k - 1 \in 1 .. Len(events') /\ (k - 1) + 1 = k
    BY <1>1, <1>2, <2>1
  <2>3. events'[k - 1] = <<l, g>>
    BY <1>1, <2>1, <2>2
  <2> QED BY <2>2, <2>3 DEF Pending
<1> QED BY <1>1, <1>2

-----------------------------------------------------------------------------
(* The line *)

LEMMA LineArrives ==
  ASSUME line \in Seq(Procs), LineIsCalls, NEW p \in Procs, op[p].pc \in Outside,
         op'[p].pc \notin Outside, \A q \in Procs \ {p} : op'[q] = op[q],
         Mutex!Arrive(p)
  PROVE  /\ LineIsCalls'
         /\ \A q, r \in Procs : Behind(q, r) => Behind(q, r)'
         /\ \A q \in Procs : InLine(q) => Behind(q, p)'
<1>1. line' = Append(line, p) /\ Len(line) \in Nat
  BY LenProperties DEF Mutex!Arrive
<1>2. /\ Len(line') = Len(line) + 1 /\ line'[Len(line) + 1] = p
      /\ \A k \in 1 .. Len(line) : line'[k] = line[k]
  BY <1>1, AppendProperties
<1>3. \A k \in 1 .. Len(line) : line[k] # p
  BY DEF LineIsCalls, InLine
<1>4. \A j, k \in 1 .. Len(line') : line'[j] = line'[k] => j = k
  BY <1>1, <1>2, <1>3 DEF LineIsCalls
<1>5. ASSUME NEW q \in Procs
      PROVE  InLine(q)' <=> op'[q].pc \notin Outside
  <2>1. InLine(q)' <=> (InLine(q) \/ q = p)
    BY <1>1, <1>2 DEF InLine
  <2> QED BY <2>1 DEF LineIsCalls
<1>6. \A q, r \in Procs : Behind(q, r) => Behind(q, r)'
  BY <1>1, <1>2 DEF Behind
<1>7. \A q \in Procs : InLine(q) => Behind(q, p)'
  BY <1>1, <1>2 DEF Behind, InLine
<1> QED BY <1>4, <1>5, <1>6, <1>7 DEF LineIsCalls

LEMMA LineStays ==
  ASSUME LineIsCalls, NEW p \in Procs, op[p].pc \notin Outside,
         op'[p].pc \notin Outside, \A q \in Procs \ {p} : op'[q] = op[q],
         line' = line
  PROVE  LineIsCalls' /\ \A q, r \in Procs : Behind(q, r)' <=> Behind(q, r)
BY DEF LineIsCalls, InLine, Behind

\* The call that leaves is the first of the line, and it is inside.
LEMMA LineLeaves ==
  ASSUME line \in Seq(Procs), FirstIsInside, LineIsCalls, NEW p \in Procs,
         op'[p].pc \in Outside, \A q \in Procs \ {p} : op'[q] = op[q],
         Mutex!Leave(p)
  PROVE  /\ LineIsCalls'
         /\ \A q, r \in Procs : q # p /\ Behind(q, r) => Behind(q, r)'
<1>1. line # <<>> /\ Head(line) = p /\ line' = Tail(line)
  BY DEF FirstIsInside, Mutex!Leave
<1>2. /\ Len(line) \in Nat \ {0} /\ line[1] = p /\ Len(line') = Len(line) - 1
      /\ \A k \in 1 .. Len(line') : line'[k] = line[k + 1]
  BY <1>1, HeadTailProperties, LenProperties, EmptySeq
<1>3. \A k \in 2 .. Len(line) : k - 1 \in 1 .. Len(line') /\ line'[k - 1] = line[k]
  BY <1>2
<1>4. \A j, k \in 1 .. Len(line') : line'[j] = line'[k] => j = k
  BY <1>2 DEF LineIsCalls
<1>5. ASSUME NEW q \in Procs
      PROVE  InLine(q)' <=> op'[q].pc \notin Outside
  <2>1. CASE q = p
    <3>1. ~InLine(q)'
      BY <1>2, <2>1 DEF InLine, LineIsCalls
    <3> QED BY <2>1, <3>1
  <2>2. CASE q # p
    <3>1. InLine(q) => InLine(q)'
      BY <1>2, <1>3, <2>2 DEF InLine
    <3>2. InLine(q)' => InLine(q)
      BY <1>2 DEF InLine
    <3> QED BY <2>2, <3>1, <3>2 DEF LineIsCalls
  <2> QED BY <2>1, <2>2
<1>6. ASSUME NEW q \in Procs, NEW r \in Procs, q # p, Behind(q, r)
      PROVE  Behind(q, r)'
  <2>1. PICK j, k \in 1 .. Len(line) : j < k /\ line[j] = q /\ line[k] = r
    BY <1>6 DEF Behind
  <2>2. j \in 2 .. Len(line) /\ k \in 2 .. Len(line) /\ j - 1 < k - 1
    BY <1>2, <1>6, <2>1
  <2> QED BY <1>3, <2>1, <2>2 DEF Behind
<1> QED BY <1>4, <1>5, <1>6 DEF LineIsCalls

\* Nobody is before the first of the line.
LEMMA HeadIsFirst ==
  ASSUME line \in Seq(Procs), LineIsCalls, NEW p \in Procs, NEW q \in Procs,
         line # <<>>, Head(line) = q
  PROVE  ~Behind(p, q)
<1>1. Len(line) \in Nat \ {0} /\ line[1] = q
  BY HeadTailProperties, LenProperties, EmptySeq
<1> QED BY <1>1 DEF Behind, LineIsCalls

-----------------------------------------------------------------------------
(* What a step of a call does to the calls and to the line *)

Begins(p) == Mutex!Begin(p) /\ op[p].pc \in {"walk", "add", "relink", "delete"} /\ op'[p].pc \in Working
Works(p) == UNCHANGED <<line, inside>> /\ op[p].pc \in Working /\ op'[p].pc \in Working
Leaves(p) == Mutex!Leave(p) /\ op[p].pc \in Working /\ op'[p].pc \in Outside
Returns(p) == Mutex!Arrive(p) /\ op[p].pc = "relock" /\ op'[p].pc = "relink"
Moves(p) == Begins(p) \/ Works(p) \/ Leaves(p) \/ Returns(p)

LEMMA Moving ==
  ASSUME op \in [Procs -> OpType], NEW p \in Procs, NEW pc, NEW f, NEW todo, Goto(p, pc, f, todo)
  PROVE  op'[p].pc = pc /\ op'[p].file = f /\ op'[p].todo = todo
         /\ \A q \in Procs \ {p} : op'[q] = op[q]
BY DEF Goto

LEMMA Stepping ==
  ASSUME GraphInv, NEW p \in Procs, Step(p)
  PROVE  UNCHANGED disk /\ (\A q \in Procs \ {p} : op'[q] = op[q]) /\ Moves(p)
<1>1. op \in [Procs -> OpType]
  BY GraphTypes DEF GraphInv
<1>2. CASE BeginWalk(p)
  <2>1. op'[p].pc \in {"root", "adding"} /\ \A q \in Procs \ {p} : op'[q] = op[q]
    BY <1>1, <1>2, Moving DEF BeginWalk
  <2> QED BY <1>2, <2>1 DEF BeginWalk, Moves, Begins, Working
<1>3. CASE ResolveFile(p)
  <2>1. CASE op[p].file \in onDisk
    <3>1. op'[p].pc \in {"imports", "newImports"} /\ \A q \in Procs \ {p} : op'[q] = op[q]
      BY <1>1, <1>3, <2>1, Moving DEF ResolveFile
    <3> QED BY <1>3, <2>1, <3>1 DEF ResolveFile, Moves, Works, Working
  <2>2. CASE op[p].file \notin onDisk
    <3>1. op'[p].pc = "idle" /\ \A q \in Procs \ {p} : op'[q] = op[q]
      BY <1>1, <1>3, <2>2, Returning DEF ResolveFile
    <3> QED BY <1>3, <2>2, <3>1 DEF ResolveFile, Moves, Leaves, Working, Outside
  <2> QED BY <2>1, <2>2
<1>4. ASSUME NEW f \in Files, NEW i \in Imports, ResolveImport(p, f, i)
      PROVE  UNCHANGED disk /\ (\A q \in Procs \ {p} : op'[q] = op[q]) /\ Moves(p)
  <2>1. PICK todo : Goto(p, op[p].pc, op[p].file, todo)
    BY <1>4 DEF ResolveImport
  <2>2. op'[p].pc = op[p].pc /\ \A q \in Procs \ {p} : op'[q] = op[q]
    BY <1>1, <2>1, Moving
  <2> QED BY <1>4, <2>2 DEF ResolveImport, Moves, Works, Working
<1>5. ASSUME NEW f \in Files, NEW i \in Imports, Relink(p, f, i)
      PROVE  UNCHANGED disk /\ (\A q \in Procs \ {p} : op'[q] = op[q]) /\ Moves(p)
  <2>1. op'[p].pc = "relinking" /\ \A q \in Procs \ {p} : op'[q] = op[q]
    BY <1>1, <1>5, Moving DEF Relink
  <2> QED BY <1>5, <2>1 DEF Relink, Moves, Works, Working
<1>6. CASE EndWalk(p)
  <2>1. op'[p].pc \in {"idle", "relock"} /\ \A q \in Procs \ {p} : op'[q] = op[q]
    BY <1>1, <1>6, Moving, Returning DEF EndWalk
  <2> QED BY <1>6, <2>1 DEF EndWalk, Moves, Leaves, Working, Outside
<1>7. CASE Relock(p)
  <2>1. op'[p].pc = "relink" /\ \A q \in Procs \ {p} : op'[q] = op[q]
    BY <1>1, <1>7, Moving DEF Relock
  <2> QED BY <1>7, <2>1 DEF Relock, Moves, Returns
<1>8. CASE BeginRelink(p)
  <2>1. op'[p].pc = "relinking" /\ \A q \in Procs \ {p} : op'[q] = op[q]
    BY <1>1, <1>8, Moving DEF BeginRelink
  <2> QED BY <1>8, <2>1 DEF BeginRelink, Moves, Begins, Working
<1>9. CASE EndRelink(p) \/ EndDelete(p)
  <2>1. op'[p].pc = "idle" /\ \A q \in Procs \ {p} : op'[q] = op[q]
    BY <1>1, <1>9, Returning DEF EndRelink, EndDelete
  <2> QED BY <1>9, <2>1 DEF EndRelink, EndDelete, Moves, Leaves, Working, Outside
<1>10. CASE DeleteFile(p)
  <2>1. op'[p].pc = "deleted" /\ \A q \in Procs \ {p} : op'[q] = op[q]
    BY <1>1, <1>10, Moving DEF DeleteFile
  <2> QED BY <1>10, <2>1 DEF DeleteFile, Moves, Begins, Working
<1> QED BY <1>2, <1>3, <1>4, <1>5, <1>6, <1>7, <1>8, <1>9, <1>10 DEF Step

LEMMA DeletionsStay ==
  ASSUME DeletionsInOrder, NEW p \in Procs, UNCHANGED disk,
         \A q \in Procs \ {p} : op'[q] = op[q], op'[p].pc # "delete",
         op[p].pc = "add" => \A q \in Procs : ~Behind(q, p),
         \A q, r \in Procs : q # p /\ Behind(q, r) => Behind(q, r)'
  PROVE  DeletionsInOrder'
<1> SUFFICES ASSUME NEW q \in Procs, NEW g \in onDisk', op'[q].pc = "delete", op'[q].file = g
             PROVE  Pending("Created", g)' \/ AddedBehind(q, g)'
  BY DEF DeletionsInOrder
<1>1. q # p /\ op'[q] = op[q] /\ onDisk' = onDisk /\ events' = events
  BY DEF disk
<1>2. CASE Pending("Created", g)
  BY <1>1, <1>2 DEF Pending
<1>3. CASE AddedBehind(q, g)
  <2>1. PICK r \in Procs : op[r].pc = "add" /\ op[r].file = g /\ Behind(q, r)
    BY <1>3 DEF AddedBehind
  <2>2. r # p /\ op'[r] = op[r] /\ Behind(q, r)'
    BY <1>1, <2>1
  <2> QED BY <1>1, <2>1, <2>2 DEF AddedBehind
<1> QED BY <1>1, <1>2, <1>3 DEF DeletionsInOrder

LEMMA StepKeepsQueue ==
  ASSUME GraphInv, QueueInv, NEW p \in Procs, Step(p)
  PROVE  QueueInv'
<1>1. /\ UNCHANGED disk /\ (\A q \in Procs \ {p} : op'[q] = op[q]) /\ Moves(p)
      /\ line \in Seq(Procs) /\ FirstIsInside
  BY Stepping, GraphTypes DEF GraphInv
<1>2. EventsInOrder'
  BY <1>1 DEF QueueInv, EventsInOrder, disk
<1>3. CASE Begins(p)
  <2>1. LineIsCalls' /\ \A q, r \in Procs : Behind(q, r)' <=> Behind(q, r)
    BY <1>1, <1>3, LineStays DEF QueueInv, Begins, Mutex!Begin, Working, Outside
  <2>2. \A q \in Procs : ~Behind(q, p)
    BY <1>1, <1>3, HeadIsFirst DEF QueueInv, Begins, Mutex!Begin
  <2>3. DeletionsInOrder'
    BY <1>1, <1>3, <2>1, <2>2, DeletionsStay DEF QueueInv, Begins, Working
  <2> QED BY <1>2, <2>1, <2>3 DEF QueueInv
<1>4. CASE Works(p)
  <2>1. LineIsCalls' /\ \A q, r \in Procs : Behind(q, r)' <=> Behind(q, r)
    BY <1>1, <1>4, LineStays DEF QueueInv, Works, Working, Outside
  <2>3. DeletionsInOrder'
    BY <1>1, <1>4, <2>1, DeletionsStay DEF QueueInv, Works, Working
  <2> QED BY <1>2, <2>1, <2>3 DEF QueueInv
<1>5. CASE Leaves(p)
  <2>1. LineIsCalls' /\ \A q, r \in Procs : q # p /\ Behind(q, r) => Behind(q, r)'
    BY <1>1, <1>5, LineLeaves DEF QueueInv, Leaves
  <2>3. DeletionsInOrder'
    BY <1>1, <1>5, <2>1, DeletionsStay DEF QueueInv, Leaves, Working, Outside
  <2> QED BY <1>2, <2>1, <2>3 DEF QueueInv
<1>6. CASE Returns(p)
  <2>1. LineIsCalls' /\ \A q, r \in Procs : Behind(q, r) => Behind(q, r)'
    BY <1>1, <1>6, LineArrives DEF QueueInv, Returns, Outside
  <2>3. DeletionsInOrder'
    BY <1>1, <1>6, <2>1, DeletionsStay DEF QueueInv, Returns
  <2> QED BY <1>2, <2>1, <2>3 DEF QueueInv
<1> QED BY <1>1, <1>3, <1>4, <1>5, <1>6 DEF Moves

LEMMA CallKeepsQueue ==
  ASSUME GraphInv, TypeOK, QueueInv, NEW p \in Procs, Call(p)
  PROVE  QueueInv'
<1>1. /\ events \in Seq(Kinds \X Files) /\ line \in Seq(Procs) /\ op \in [Procs -> OpType]
      /\ events # <<>> /\ events' = Tail(events) /\ UNCHANGED onDisk
      /\ op[p].pc = "idle" /\ Mutex!Arrive(p) /\ onDisk \subseteq Files
  BY GraphTypes DEF TypeOK, GraphTypeOK, GraphInv, Call
<1>2. PICK kind \in Kinds, f \in Files : Head(events) = <<kind, f>>
  BY <1>1, HeadTailProperties
<1>3. /\ kind = "Created" => Goto(p, "add", f, {})
      /\ kind = "Changed" => Goto(p, "walk", f, {})
      /\ kind = "Deleted" => Goto(p, "delete", f, {})
  BY <1>2 DEF Call
<1>4. /\ op'[p].file = f
      /\ \A q \in Procs \ {p} : op'[q] = op[q]
      /\ kind = "Created" => op'[p].pc = "add"
      /\ kind = "Changed" => op'[p].pc = "walk"
      /\ kind = "Deleted" => op'[p].pc = "delete"
      /\ op'[p].pc \notin Outside
  BY <1>1, <1>3, Moving DEF Kinds, Outside
<1>5. /\ LineIsCalls'
      /\ \A q, r \in Procs : Behind(q, r) => Behind(q, r)'
      /\ \A q \in Procs : InLine(q) => Behind(q, p)'
  BY <1>1, <1>4, LineArrives DEF QueueInv, Outside
<1>6. /\ Len(events) \in Nat \ {0} /\ Len(events') = Len(events) - 1
      /\ \A k \in 1 .. Len(events') : events'[k] = events[k + 1]
      /\ events[1] = <<kind, f>>
      /\ \A l \in Kinds, g \in Files :
           Pending(l, g) /\ <<kind, f>> # <<l, g>> => Pending(l, g)'
  BY <1>1, <1>2, Delivered
<1>7. EventsInOrder'
  <2> SUFFICES ASSUME NEW g \in onDisk, NEW k \in 1 .. Len(events'),
                      events'[k] = <<"Deleted", g>>
               PROVE  \E m \in k + 1 .. Len(events') : events'[m] = <<"Created", g>>
    BY <1>1 DEF EventsInOrder
  <2>1. k + 1 \in 1 .. Len(events) /\ events[k + 1] = <<"Deleted", g>>
    BY <1>6
  <2>2. PICK m \in (k + 1) + 1 .. Len(events) : events[m] = <<"Created", g>>
    BY <2>1 DEF QueueInv, EventsInOrder
  <2>3. m - 1 \in k + 1 .. Len(events') /\ m - 1 \in 1 .. Len(events') /\ (m - 1) + 1 = m
    BY <1>6, <2>2
  <2> QED BY <1>6, <2>2, <2>3
<1>8. DeletionsInOrder'
  <2> SUFFICES ASSUME NEW q \in Procs, NEW g \in onDisk', op'[q].pc = "delete", op'[q].file = g
               PROVE  Pending("Created", g)' \/ AddedBehind(q, g)'
    BY DEF DeletionsInOrder
  <2>1. CASE q = p
    <3>1. 1 \in 1 .. Len(events) /\ events[1] = <<"Deleted", f>> /\ f = g /\ f \in onDisk
      BY <1>1, <1>3, <1>4, <1>6, <2>1 DEF Kinds
    <3>2. PICK m \in 1 + 1 .. Len(events) : events[m] = <<"Created", f>>
      BY <1>6, <3>1 DEF QueueInv, EventsInOrder
    <3>3. m - 1 \in 1 .. Len(events') /\ events'[m - 1] = <<"Created", f>>
      BY <1>6, <3>2
    <3> QED BY <3>1, <3>3 DEF Pending
  <2>2. CASE q # p
    <3>1. op'[q] = op[q] /\ g \in onDisk /\ InLine(q) /\ g \in Files
      BY <1>1, <1>4, <2>2 DEF QueueInv, LineIsCalls, Outside
    <3>2. CASE Pending("Created", g) /\ <<kind, f>> # <<"Created", g>>
      BY <1>6, <3>1, <3>2 DEF Kinds
    <3>3. CASE <<kind, f>> = <<"Created", g>>
      <4>1. op'[p].pc = "add" /\ op'[p].file = op'[q].file /\ Behind(q, p)'
        BY <1>3, <1>4, <1>5, <3>1, <3>3
      <4> QED BY <4>1 DEF AddedBehind
    <3>4. CASE AddedBehind(q, g)
      <4>1. PICK r \in Procs : op[r].pc = "add" /\ op[r].file = g /\ Behind(q, r)
        BY <3>4 DEF AddedBehind
      <4>2. r # p /\ op'[r] = op[r] /\ Behind(q, r)'
        BY <1>1, <1>4, <1>5, <4>1
      <4> QED BY <3>1, <4>1, <4>2 DEF AddedBehind
    <3> QED BY <3>1, <3>2, <3>3, <3>4 DEF QueueInv, DeletionsInOrder
  <2> QED BY <2>1, <2>2
<1> QED BY <1>5, <1>7, <1>8 DEF QueueInv

\* A change of f on disk: it is the newest event, and a file that comes back is created.
LEMMA ChangeKeepsQueue ==
  ASSUME GraphInv, TypeOK, QueueInv, NEW kind \in Kinds, NEW f \in Files, Announce(kind, f),
         UNCHANGED <<op, line>>,
         \/ (kind = "Deleted" /\ onDisk' = onDisk \ {f})
         \/ (kind = "Changed" /\ onDisk' = onDisk)
         \/ (kind = "Created" /\ onDisk' = onDisk \cup {f})
  PROVE  QueueInv'
<1>1. events \in Seq(Kinds \X Files) /\ onDisk \subseteq Files /\ Len(events) \in Nat
  BY LenProperties DEF TypeOK, GraphTypeOK
<1>2. /\ Pending(kind, f)'
      /\ Len(events') = Len(events) + 1 /\ events'[Len(events) + 1] = <<kind, f>>
      /\ \A k \in 1 .. Len(events) : events'[k] = events[k]
      /\ \A l \in Kinds, g \in Files : Pending(l, g) => Pending(l, g)'
  BY <1>1, Announced
<1>3. LineIsCalls'
  BY DEF QueueInv, LineIsCalls, InLine
<1>4. EventsInOrder'
  <2> SUFFICES ASSUME NEW g \in onDisk', NEW k \in 1 .. Len(events'),
                      events'[k] = <<"Deleted", g>>
               PROVE  \E m \in k + 1 .. Len(events') : events'[m] = <<"Created", g>>
    BY DEF EventsInOrder
  <2>1. k \in 1 .. Len(events) /\ events[k] = <<"Deleted", g>>
    BY <1>1, <1>2 DEF Kinds
  <2>2. CASE kind = "Created" /\ g = f
    <3>1. Len(events) + 1 \in k + 1 .. Len(events')
      BY <1>1, <1>2, <2>1
    <3> QED BY <1>2, <2>2, <3>1
  <2>3. CASE g \in onDisk
    <3>1. PICK m \in k + 1 .. Len(events) : events[m] = <<"Created", g>>
      BY <2>1, <2>3 DEF QueueInv, EventsInOrder
    <3>2. m \in 1 .. Len(events) /\ m \in k + 1 .. Len(events')
      BY <1>1, <1>2, <2>1, <3>1
    <3> QED BY <1>2, <3>1, <3>2
  <2> QED BY <2>2, <2>3
<1>5. DeletionsInOrder'
  <2> SUFFICES ASSUME NEW q \in Procs, NEW g \in onDisk', op'[q].pc = "delete", op'[q].file = g
               PROVE  Pending("Created", g)' \/ AddedBehind(q, g)'
    BY DEF DeletionsInOrder
  <2>1. op'[q] = op[q] /\ g \in Files
    BY GraphTypes DEF GraphInv
  <2>2. CASE kind = "Created" /\ g = f
    BY <1>2, <2>1, <2>2
  <2>3. CASE g \in onDisk
    <3>1. AddedBehind(q, g) => AddedBehind(q, g)'
      BY DEF AddedBehind, Behind
    <3> QED BY <1>2, <2>1, <2>3, <3>1 DEF QueueInv, DeletionsInOrder, Kinds
  <2> QED BY <2>1, <2>2, <2>3
<1> QED BY <1>3, <1>4, <1>5 DEF QueueInv

-----------------------------------------------------------------------------
(* What the graph has yet to learn *)

\* Call p is about to read file f again; to link import i of file f, which names
\* the file it adds; to resolve import i of file f.
Refreshing(p, f) == op[p].pc \in {"walk", "add", "root", "adding"} /\ op[p].file = f
Adding(p, f, i) ==
  /\ op[p].file = Target[i]
  /\ \/ op[p].pc \in {"add", "adding", "newImports", "relock", "relink"}
     \/ (op[p].pc = "relinking" /\ <<f, i>> \in op[p].todo)
Walking(p, f, i) == op[p].pc \in {"imports", "newImports"} /\ <<f, i>> \in op[p].todo

Refresh(f) ==
  \/ Pending("Created", f) \/ Pending("Changed", f)
  \/ \E p \in Procs : Refreshing(p, f)
AddPending(f, i) == Pending("Created", Target[i]) \/ \E p \in Procs : Adding(p, f, i)

Linked(f, i) == <<i, Target[i]>> \in dependencies[f]

ContentIsOnDisk == \A f \in Files \ onDisk : content[f] = {}
DeletionsPending ==
  \A f \in files \ onDisk :
    Pending("Deleted", f) \/ \E p \in Procs : op[p].pc = "delete" /\ op[p].file = f
DiskIsKnown == \A f \in onDisk : f \in files \/ Refresh(f)
LinksAreTargets ==
  \A f, g \in Files, i \in Imports : <<i, g>> \in dependencies[f] => g = Target[i]
NobodyUnresolved == \A f \in Files \ files : unresolved[f] = {}
UnresolvedWait ==
  \A f \in files, i \in Imports :
    i \in unresolved[f] /\ Target[i] \in onDisk => AddPending(f, i)
ImportsAreKnown ==
  \A f \in files, i \in Imports : i \in content[f] =>
    \/ Linked(f, i) \/ i \in unresolved[f]
    \/ Refresh(f) \/ \E p \in Procs : Walking(p, f, i)

KnownInv ==
  /\ ContentIsOnDisk /\ DeletionsPending /\ DiskIsKnown /\ LinksAreTargets
  /\ NobodyUnresolved /\ UnresolvedWait /\ ImportsAreKnown

\* What a call that deletes nothing must not forget.
Remembers(p) ==
  /\ files \subseteq files' /\ files' \subseteq files \cup onDisk
  /\ \A f \in Files, i \in Imports, g \in Files :
       /\ <<i, g>> \in dependencies[f] => <<i, g>> \in dependencies'[f]
       /\ <<i, g>> \in dependencies'[f] => <<i, g>> \in dependencies[f] \/ g = Target[i]
  /\ \A f \in Files \ files' : unresolved'[f] = {}
  /\ \A f \in files', i \in Imports : i \in unresolved'[f] /\ Target[i] \in onDisk =>
       Adding(p, f, i)' \/ (f \in files /\ i \in unresolved[f] /\ ~Adding(p, f, i))
  /\ \A f \in files, i \in Imports : i \in unresolved[f] \/ Walking(p, f, i) =>
       Linked(f, i)' \/ i \in unresolved'[f] \/ Walking(p, f, i)'
  /\ \A f \in Files : (f \in onDisk /\ Refreshing(p, f)) \/ f \in files' \ files =>
       \/ Refresh(f)'
       \/ (f \in files' /\ \A i \in Imports : i \in content[f] => Walking(p, f, i)')

LEMMA KnownStays ==
  ASSUME GraphTypeOK, KnownInv, NEW p \in Procs, UNCHANGED disk,
         \A q \in Procs \ {p} : op'[q] = op[q], op[p].pc # "delete", Remembers(p)
  PROVE  KnownInv'
<1> USE DEF KnownInv
<1>1. /\ onDisk' = onDisk /\ content' = content /\ events' = events
      /\ onDisk \subseteq Files /\ files \subseteq Files /\ files' \subseteq Files
      /\ Target \in [Imports -> Files]
  BY TargetAssumption DEF disk, GraphTypeOK, Remembers
<1>2. ContentIsOnDisk'
  BY <1>1 DEF ContentIsOnDisk
<1>3. ASSUME NEW kind, NEW f
      PROVE  Pending(kind, f)' <=> Pending(kind, f)
  BY <1>1 DEF Pending
<1>4. ASSUME NEW f \in onDisk, Refresh(f), ~Refresh(f)'
      PROVE  f \in files' /\ \A i \in Imports : i \in content[f] => Walking(p, f, i)'
  <2>1. PICK q \in Procs : Refreshing(q, f)
    BY <1>3, <1>4 DEF Refresh
  <2>2. q = p
    BY <1>4, <2>1 DEF Refresh, Refreshing
  <2> QED BY <1>1, <1>4, <2>1, <2>2 DEF Remembers
<1>5. DeletionsPending'
  <2> SUFFICES ASSUME NEW f \in files' \ onDisk'
               PROVE  \/ Pending("Deleted", f)'
                      \/ \E q \in Procs : op'[q].pc = "delete" /\ op'[q].file = f
    BY DEF DeletionsPending
  <2>1. f \in files \ onDisk
    BY <1>1 DEF Remembers
  <2>2. CASE \E q \in Procs : op[q].pc = "delete" /\ op[q].file = f
    BY <2>2
  <2> QED BY <1>3, <2>1, <2>2 DEF DeletionsPending
<1>6. DiskIsKnown'
  BY <1>1, <1>4 DEF DiskIsKnown, Remembers
<1>7. LinksAreTargets' /\ NobodyUnresolved'
  BY DEF LinksAreTargets, NobodyUnresolved, Remembers
<1>8. UnresolvedWait'
  <2> SUFFICES ASSUME NEW f \in files', NEW i \in Imports, i \in unresolved'[f],
                      Target[i] \in onDisk', ~Adding(p, f, i)'
               PROVE  AddPending(f, i)'
    BY DEF UnresolvedWait, AddPending
  <2>1. f \in files /\ i \in unresolved[f] /\ ~Adding(p, f, i) /\ AddPending(f, i)
    BY <1>1 DEF Remembers, UnresolvedWait
  <2>2. CASE \E q \in Procs : Adding(q, f, i)
    <3>1. PICK q \in Procs \ {p} : Adding(q, f, i)
      BY <2>1, <2>2
    <3>2. Adding(q, f, i)'
      BY <3>1 DEF Adding
    <3> QED BY <3>2 DEF AddPending
  <2> QED BY <1>3, <2>1, <2>2 DEF AddPending
<1>9. ImportsAreKnown'
  <2> SUFFICES ASSUME NEW f \in files', NEW i \in Imports, i \in content'[f], ~Refresh(f)',
                      ~Walking(p, f, i)'
               PROVE  \/ Linked(f, i)' \/ i \in unresolved'[f]
                      \/ \E q \in Procs : Walking(q, f, i)'
    BY DEF ImportsAreKnown
  <2>1. f \in Files /\ i \in content[f] /\ f \in onDisk
    BY <1>1 DEF ContentIsOnDisk
  <2>2. f \in files /\ ~Refresh(f)
    BY <1>4, <2>1 DEF Remembers
  <2>3. CASE \E q \in Procs : Walking(q, f, i)
    <3>1. PICK q \in Procs : Walking(q, f, i)
      BY <2>3
    <3>2. CASE q = p
      BY <2>2, <3>1, <3>2 DEF Remembers
    <3>3. CASE q # p
      BY <3>1, <3>3 DEF Walking
    <3> QED BY <3>2, <3>3
  <2>4. CASE Linked(f, i)
    <3>1. Target[i] \in Files
      BY <1>1
    <3> QED BY <2>1, <2>4, <3>1 DEF Linked, Remembers
  <2>5. CASE i \in unresolved[f]
    BY <2>2, <2>5 DEF Remembers
  <2> QED BY <2>1, <2>2, <2>3, <2>4, <2>5 DEF ImportsAreKnown
<1> QED BY <1>2, <1>5, <1>6, <1>7, <1>8, <1>9

\* A step that leaves the graph alone, and what its call still has to do.
LEMMA QuietRemembers ==
  ASSUME GraphTypeOK, KnownInv, NEW p \in Procs, UNCHANGED graph,
         \A f \in onDisk : Refreshing(p, f) => Refreshing(p, f)',
         \A f \in Files, i \in Imports :
           /\ Adding(p, f, i) /\ Target[i] \in onDisk => Adding(p, f, i)'
           /\ ~Walking(p, f, i)
  PROVE  Remembers(p)
<1>1. /\ files' = files /\ dependencies' = dependencies /\ unresolved' = unresolved
      /\ files \subseteq Files
  BY DEF graph, GraphTypeOK
<1>2. \A f \in onDisk : Refreshing(p, f) => Refresh(f)'
  BY DEF Refresh
<1> QED BY <1>1, <1>2 DEF Remembers, KnownInv, NobodyUnresolved

LEMMA QuietStep ==
  ASSUME GraphInv, NEW p \in Procs, KnownInv,
         \/ BeginWalk(p) \/ EndWalk(p) \/ Relock(p) \/ EndRelink(p) \/ EndDelete(p)
         \/ (ResolveFile(p) /\ op[p].file \notin onDisk)
  PROVE  Remembers(p) /\ op[p].pc # "delete"
<1>0. op \in [Procs -> OpType] /\ GraphTypeOK
  BY GraphTypes DEF GraphInv
<1>1. CASE BeginWalk(p)
  <2>1. /\ op[p].pc = "walk" => Goto(p, "root", op[p].file, {})
        /\ op[p].pc = "add" => Goto(p, "adding", op[p].file, {})
        /\ op[p].pc \in {"walk", "add"} /\ UNCHANGED graph
    BY <1>1 DEF BeginWalk
  <2>2. /\ op[p].pc = "walk" => op'[p].pc = "root"
        /\ op[p].pc = "add" => op'[p].pc = "adding"
        /\ op'[p].file = op[p].file
    BY <1>0, <2>1, Moving
  <2> QED BY <1>0, <2>1, <2>2, QuietRemembers DEF Refreshing, Adding, Walking
<1>2. CASE EndWalk(p)
  <2>1. /\ op[p].pc = "newImports" => Goto(p, "relock", op[p].file, {})
        /\ op[p].pc \in {"imports", "newImports"} /\ op[p].todo = {} /\ UNCHANGED graph
    BY <1>2 DEF EndWalk
  <2>2. op[p].pc = "newImports" => op'[p].pc = "relock" /\ op'[p].file = op[p].file
    BY <1>0, <2>1, Moving
  <2> QED BY <1>0, <2>1, <2>2, QuietRemembers DEF Refreshing, Adding, Walking
<1>3. CASE Relock(p)
  <2>1. Goto(p, "relink", op[p].file, {}) /\ op[p].pc = "relock" /\ UNCHANGED graph
    BY <1>3 DEF Relock
  <2>2. op'[p].pc = "relink" /\ op'[p].file = op[p].file
    BY <1>0, <2>1, Moving
  <2> QED BY <1>0, <2>1, <2>2, QuietRemembers DEF Refreshing, Adding, Walking
<1>4. CASE EndRelink(p) \/ EndDelete(p)
  <2>1. op[p].pc \in {"relinking", "deleted"} /\ UNCHANGED graph
        /\ (op[p].pc = "relinking" => op[p].todo = {})
    BY <1>4 DEF EndRelink, EndDelete
  <2> QED BY <1>0, <2>1, QuietRemembers DEF Refreshing, Adding, Walking
<1>5. CASE ResolveFile(p) /\ op[p].file \notin onDisk
  <2>1. op[p].pc \in {"root", "adding"} /\ UNCHANGED graph
    BY <1>5 DEF ResolveFile, graph
  <2> QED BY <1>0, <1>5, <2>1, QuietRemembers DEF Refreshing, Adding, Walking
<1> QED BY <1>1, <1>2, <1>3, <1>4, <1>5

LEMMA ResolveFileRemembers ==
  ASSUME GraphInv, NEW p \in Procs, KnownInv, ResolveFile(p), op[p].file \in onDisk
  PROVE  Remembers(p)
<1>a. PICK f \in Files : f = op[p].file
  BY GraphTypes DEF GraphInv
<1>0. op \in [Procs -> OpType] /\ files \subseteq Files
  BY GraphTypes DEF GraphInv, GraphTypeOK
<1>1. /\ op[p].pc = "root" => Goto(p, "imports", f, Statements(f))
      /\ op[p].pc = "adding" => Goto(p, "newImports", f, Statements(f))
      /\ op[p].pc \in {"root", "adding"} /\ files' = files \cup {f}
      /\ UNCHANGED <<dependencies, unresolved>>
  BY <1>a DEF ResolveFile, WithFile
<1>2. /\ op[p].pc = "root" => op'[p].pc = "imports"
      /\ op[p].pc = "adding" => op'[p].pc = "newImports"
      /\ op'[p].file = f /\ op'[p].todo = Statements(f)
  BY <1>0, <1>1, Moving
<1>3. ASSUME NEW i \in Imports, i \in content[f]
      PROVE  Walking(p, f, i)'
  BY <1>1, <1>2, <1>3 DEF Walking, Statements
<1>4. ASSUME NEW g \in Files, NEW i \in Imports
      PROVE  (Adding(p, g, i) => Adding(p, g, i)') /\ ~Walking(p, g, i)
  BY <1>a, <1>1, <1>2 DEF Adding, Walking
<1>5. \A g \in Files : (g \in onDisk /\ Refreshing(p, g)) \/ g \in files' \ files => g = f
  BY <1>a, <1>1 DEF Refreshing
<1>6. f \notin files => \A i \in Imports : i \notin unresolved[f]
  BY <1>0 DEF KnownInv, NobodyUnresolved
<1>7. \A h \in Files \ files' : unresolved'[h] = {}
  BY <1>0, <1>1 DEF KnownInv, NobodyUnresolved
<1>8. files \subseteq files' /\ files' \subseteq files \cup onDisk /\ f \in files'
  BY <1>a, <1>1
<1>9. \A g \in files', i \in Imports : i \in unresolved'[g] =>
        Adding(p, g, i)' \/ (g \in files /\ i \in unresolved[g] /\ ~Adding(p, g, i))
  BY <1>0, <1>1, <1>4, <1>6
<1>10. \A g \in files, i \in Imports : i \in unresolved[g] \/ Walking(p, g, i) =>
        i \in unresolved'[g]
  BY <1>0, <1>1, <1>4
<1>11. dependencies' = dependencies
  BY <1>1
<1> QED BY <1>3, <1>5, <1>7, <1>8, <1>9, <1>10, <1>11 DEF Remembers

LEMMA ResolveImportRemembers ==
  ASSUME GraphInv, NEW p \in Procs, KnownInv, NEW f \in Files, NEW i \in Imports,
         ResolveImport(p, f, i)
  PROVE  Remembers(p)
<1> DEFINE rest == op[p].todo \ {<<f, i>>}
           g == Target[i]
<1>0. /\ op \in [Procs -> OpType] /\ files \subseteq Files /\ f \in files /\ g \in Files
      /\ dependencies \in [Files -> SUBSET Links] /\ unresolved \in [Files -> SUBSET Imports]
      /\ op[p].pc \in {"imports", "newImports"} /\ <<f, i>> \in op[p].todo
  BY TargetAssumption, GraphTypes DEF ResolveImport, GraphInv, GraphTypeOK, LinkedFilesStay
<1>1. \A h \in Files : ~Refreshing(p, h)
  BY <1>0 DEF Refreshing
<1>2. CASE g \in onDisk
  <2>1. PICK todo : /\ todo = IF g \in files THEN rest ELSE rest \cup Statements(g)
                    /\ Goto(p, op[p].pc, op[p].file, todo)
    BY <1>2 DEF ResolveImport
  <2>2. op'[p].pc = op[p].pc /\ op'[p].file = op[p].file /\ op'[p].todo = todo
    BY <1>0, <2>1, Moving
  <2>3. /\ files' = files \cup {g} /\ unresolved' = unresolved
        /\ dependencies' = [dependencies EXCEPT ![f] = @ \cup {<<i, g>>}]
    BY <1>2 DEF ResolveImport, WithFile, AddDependency
  <2>4. \A h, k \in Files, j \in Imports :
          <<j, k>> \in dependencies'[h] <=>
             <<j, k>> \in dependencies[h] \/ (h = f /\ j = i /\ k = g)
    BY <1>0, <2>3
  <2>5. \A h \in files, j \in Imports :
          Walking(p, h, j) => Walking(p, h, j)' \/ Linked(h, j)'
    BY <1>0, <2>1, <2>2, <2>4 DEF Walking, Linked
  <2>6. \A h \in Files, j \in Imports : Adding(p, h, j) => Adding(p, h, j)'
    BY <1>0, <2>2 DEF Adding
  <2>7. g \notin files => \A j \in Imports : j \in content[g] => Walking(p, g, j)'
    BY <1>0, <2>1, <2>2 DEF Walking, Statements
  <2>8. \A h \in Files \ files : \A j \in Imports : j \notin unresolved[h]
    BY DEF KnownInv, NobodyUnresolved
  <2>9. \A h \in Files \ files' : unresolved'[h] = {}
    BY <2>3 DEF KnownInv, NobodyUnresolved
  <2> QED BY <1>0, <1>1, <1>2, <2>3, <2>4, <2>5, <2>6, <2>7, <2>8, <2>9 DEF Remembers
<1>3. CASE g \notin onDisk
  <2>1. /\ Goto(p, op[p].pc, op[p].file, rest)
        /\ unresolved' = [unresolved EXCEPT ![f] = @ \cup {i}]
        /\ files' = files /\ dependencies' = dependencies
    BY <1>3 DEF ResolveImport
  <2>2. op'[p].pc = op[p].pc /\ op'[p].file = op[p].file /\ op'[p].todo = rest
    BY <1>0, <2>1, Moving
  <2>3. \A h \in Files, j \in Imports :
          j \in unresolved'[h] <=> j \in unresolved[h] \/ (h = f /\ j = i)
    BY <1>0, <2>1
  <2>4. \A h \in files, j \in Imports :
          Walking(p, h, j) => Walking(p, h, j)' \/ j \in unresolved'[h]
    BY <1>0, <2>2, <2>3 DEF Walking
  <2>5. \A h \in Files, j \in Imports : Adding(p, h, j) => Adding(p, h, j)'
    BY <1>0, <2>2 DEF Adding
  <2>6. \A h \in Files \ files' : unresolved'[h] = {}
    BY <1>0, <2>1 DEF KnownInv, NobodyUnresolved
  <2> QED BY <1>0, <1>1, <1>3, <2>1, <2>3, <2>4, <2>5, <2>6 DEF Remembers
<1> QED BY <1>2, <1>3

LEMMA BeginRelinkRemembers ==
  ASSUME GraphInv, NEW p \in Procs, KnownInv, BeginRelink(p)
  PROVE  Remembers(p)
<1> DEFINE todo == {s \in files \X Imports : s[2] \in unresolved[s[1]]}
<1>0. op \in [Procs -> OpType] /\ files \subseteq Files
  BY GraphTypes DEF GraphInv, GraphTypeOK
<1>1. /\ op[p].pc = "relink" /\ Goto(p, "relinking", op[p].file, todo)
      /\ unresolved' = [f \in Files |-> IF f \in files THEN unresolved[f] ELSE {}]
      /\ files' = files /\ dependencies' = dependencies
  BY DEF BeginRelink
<1>2. op'[p].pc = "relinking" /\ op'[p].file = op[p].file /\ op'[p].todo = todo
  <2> HIDE DEF todo
  <2> QED BY <1>0, <1>1, Moving
<1>3. \A f \in files, i \in Imports : i \in unresolved[f] => <<f, i>> \in todo
  OBVIOUS
<1>4. \A f \in files, i \in Imports : i \in unresolved[f] /\ Adding(p, f, i) => Adding(p, f, i)'
  <2> HIDE DEF todo
  <2> QED BY <1>2, <1>3 DEF Adding
<1>5. \A f \in Files : ~Refreshing(p, f) /\ \A i \in Imports : ~Walking(p, f, i)
  BY <1>1 DEF Refreshing, Walking
<1>6. /\ \A f \in Files, i \in Imports :
           i \in unresolved'[f] <=> f \in files /\ i \in unresolved[f]
      /\ \A f \in Files \ files' : unresolved'[f] = {}
  BY <1>0, <1>1
<1>7. files' = files /\ dependencies' = dependencies
  BY <1>1
<1>8. \A f \in files, i \in Imports : i \in unresolved'[f] =>
        Adding(p, f, i)' \/ (f \in files /\ i \in unresolved[f] /\ ~Adding(p, f, i))
  BY <1>0, <1>4, <1>6
<1>9. \A f \in files, i \in Imports : i \in unresolved[f] \/ Walking(p, f, i) =>
        i \in unresolved'[f]
  BY <1>0, <1>5, <1>6
<1> QED BY <1>5, <1>6, <1>7, <1>8, <1>9 DEF Remembers

LEMMA RelinkRemembers ==
  ASSUME GraphInv, NEW p \in Procs, KnownInv, NEW f \in Files, NEW i \in Imports,
         Relink(p, f, i)
  PROVE  Remembers(p)
<1> DEFINE g == Target[i]
<1>0. /\ op \in [Procs -> OpType] /\ files \subseteq Files /\ f \in files /\ g \in Files
      /\ dependencies \in [Files -> SUBSET Links] /\ unresolved \in [Files -> SUBSET Imports]
      /\ GraphTypeOK
  BY TargetAssumption, GraphTypes DEF Relink, GraphInv, GraphTypeOK, LinkedFilesStay
<1>1. /\ op[p].pc = "relinking" /\ <<f, i>> \in op[p].todo
      /\ Goto(p, "relinking", op[p].file, op[p].todo \ {<<f, i>>})
  BY DEF Relink
<1>2. /\ op'[p].pc = "relinking" /\ op'[p].file = op[p].file
      /\ op'[p].todo = op[p].todo \ {<<f, i>>}
  BY <1>0, <1>1, Moving
<1>3. \A h \in Files, j \in Imports : ~Refreshing(p, h) /\ ~Walking(p, h, j)
  BY <1>1 DEF Refreshing, Walking
<1>4. \A h \in Files, j \in Imports :
        Adding(p, h, j) => Adding(p, h, j)' \/ (h = f /\ j = i /\ g = op[p].file)
  BY <1>1, <1>2 DEF Adding
<1>5. CASE g \in onDisk /\ g = op[p].file
  <2>1. /\ unresolved' = [unresolved EXCEPT ![f] = @ \ {i}]
        /\ files' = files \cup {g}
        /\ dependencies' = [dependencies EXCEPT ![f] = @ \cup {<<i, g>>}]
    BY <1>5 DEF Relink, WithFile, AddDependency
  <2>2. \A h, k \in Files, j \in Imports :
          <<j, k>> \in dependencies'[h] <=>
             <<j, k>> \in dependencies[h] \/ (h = f /\ j = i /\ k = g)
    BY <1>0, <2>1
  <2>3. \A h \in Files, j \in Imports :
          j \in unresolved'[h] <=> j \in unresolved[h] /\ ~(h = f /\ j = i)
    BY <1>0, <2>1
  <2>4. \A h \in Files \ files : \A j \in Imports : j \notin unresolved[h]
    BY DEF KnownInv, NobodyUnresolved
  <2>5. \A h \in Files \ files' : unresolved'[h] = {}
    BY <1>0, <2>1 DEF KnownInv, NobodyUnresolved
  <2>6. g \notin files => Refresh(g)'
    <3> SUFFICES ASSUME g \notin files PROVE Refresh(g)'
      OBVIOUS
    <3>1. Refresh(g)
      BY <1>5 DEF KnownInv, DiskIsKnown
    <3>2. events' = events /\ \A q \in Procs \ {p} : op'[q] = op[q]
      BY <1>0, <1>1, Moving DEF Relink, disk
    <3>3. CASE \E q \in Procs : Refreshing(q, g)
      <4>1. PICK q \in Procs \ {p} : Refreshing(q, g)
        BY <1>0, <1>3, <3>3
      <4>2. Refreshing(q, g)'
        BY <3>2, <4>1 DEF Refreshing
      <4> QED BY <4>2 DEF Refresh
    <3> QED BY <3>1, <3>2, <3>3 DEF Refresh, Pending
  <2>7. Linked(f, i)'
    BY <1>0, <2>2 DEF Linked
  <2> QED BY <1>0, <1>3, <1>4, <1>5, <2>1, <2>2, <2>3, <2>4, <2>5, <2>6, <2>7 DEF Remembers
<1>6. CASE UNCHANGED graph /\ ~(g \in onDisk /\ g = op[p].file)
  <2>1. \A h \in onDisk : ~Refreshing(p, h)
    BY <1>1 DEF Refreshing
  <2> QED BY <1>0, <1>3, <1>4, <1>6, <2>1, QuietRemembers
<1> QED BY <1>5, <1>6 DEF Relink

LEMMA DeleteFileKeepsKnown ==
  ASSUME GraphInv, QueueInv, KnownInv, NEW p \in Procs, DeleteFile(p)
  PROVE  KnownInv'
<1> USE DEF KnownInv
<1>0. PICK f \in Files : f = op[p].file
  BY GraphTypes DEF GraphInv
<1>1. /\ op \in [Procs -> OpType] /\ files \subseteq Files /\ onDisk \subseteq Files
      /\ Target \in [Imports -> Files] /\ dependencies \in [Files -> SUBSET Links]
      /\ unresolved \in [Files -> SUBSET Imports]
  BY TargetAssumption, GraphTypes DEF GraphInv, GraphTypeOK
<1>2. /\ op[p].pc = "delete" /\ Goto(p, "deleted", f, {}) /\ files' = files \ {f}
      /\ dependencies' = WithoutDependency(f) /\ unresolved' = OrphanedBy(f)
      /\ onDisk' = onDisk /\ content' = content /\ events' = events /\ UNCHANGED disk
  BY <1>0 DEF DeleteFile, disk
<1>3. op'[p].pc = "deleted" /\ \A q \in Procs \ {p} : op'[q] = op[q]
  BY <1>1, <1>2, Moving
<1>4. f \in onDisk => \/ Pending("Created", f)'
                      \/ \E q \in Procs \ {p} : op'[q].pc = "add" /\ op'[q].file = f
  <2> SUFFICES ASSUME f \in onDisk
               PROVE  \/ Pending("Created", f)'
                      \/ \E q \in Procs \ {p} : op'[q].pc = "add" /\ op'[q].file = f
    OBVIOUS
  <2>1. Pending("Created", f) \/ AddedBehind(p, f)
    BY <1>0, <1>2 DEF QueueInv, DeletionsInOrder
  <2>2. CASE AddedBehind(p, f)
    BY <1>2, <1>3, <2>2 DEF AddedBehind
  <2> QED BY <1>2, <2>1, <2>2 DEF Pending
<1>5. ASSUME NEW g \in Files, Refresh(g)
      PROVE  Refresh(g)'
  <2>1. CASE \E q \in Procs : Refreshing(q, g)
    <3>1. PICK q \in Procs \ {p} : Refreshing(q, g)
      BY <1>2, <2>1 DEF Refreshing
    <3> QED BY <1>3, <3>1 DEF Refresh, Refreshing
  <2> QED BY <1>2, <1>5, <2>1 DEF Refresh, Pending
<1>6. ASSUME NEW g \in Files, NEW i \in Imports, AddPending(g, i)
      PROVE  AddPending(g, i)'
  <2>1. CASE \E q \in Procs : Adding(q, g, i)
    <3>1. PICK q \in Procs \ {p} : Adding(q, g, i)
      BY <1>2, <2>1 DEF Adding
    <3> QED BY <1>3, <3>1 DEF AddPending, Adding
  <2> QED BY <1>2, <1>6, <2>1 DEF AddPending, Pending
<1>7. ASSUME NEW g \in Files, NEW h \in Files, NEW i \in Imports
      PROVE  /\ <<i, h>> \in dependencies[g] <=> <<i, g>> \in dependants[h]
             /\ <<i, h>> \in dependencies[g] => g \in files /\ h = Target[i]
             /\ <<i, h>> \in dependencies'[g] <=>
                  <<i, h>> \in dependencies[g] /\ g # f /\ h # f
             /\ i \in unresolved'[g] <=>
                  g # f /\ (i \in unresolved[g] \/ <<i, f>> \in dependencies[g])
  <2>1. /\ \A k \in Files : <<i, k>> \in dependencies[g] <=> <<i, g>> \in dependants[k]
        /\ <<i, h>> \in dependencies[g] => g \in files /\ h = Target[i]
    BY DEF GraphInv, LinksAreMutual, LinksAreTargets
  <2>2. dependencies'[g] = IF g = f THEN {}
                           ELSE {d \in dependencies[g] :
                                   ~(d[2] = f /\ <<d[1], g>> \in dependants[f])}
    BY <1>2 DEF WithoutDependency
  <2>3. <<i, h>> \in dependencies'[g] <=> <<i, h>> \in dependencies[g] /\ g # f /\ h # f
    BY <2>1, <2>2
  <2>4. unresolved'[g] = IF g = f THEN {}
                         ELSE unresolved[g] \cup
                              {d[1] : d \in {e \in dependencies[g] :
                                       e[2] = f /\ <<e[1], g>> \in dependants[f]}}
    BY <1>2 DEF OrphanedBy
  <2>5. i \in {d[1] : d \in {e \in dependencies[g] :
                              e[2] = f /\ <<e[1], g>> \in dependants[f]}}
          <=> <<i, f>> \in dependencies[g]
    <3>1. \A d \in dependencies[g] : d = <<d[1], d[2]>>
      BY <1>1 DEF Links
    <3> QED BY <2>1, <3>1
  <2> QED BY <2>1, <2>3, <2>4, <2>5
<1>8. ContentIsOnDisk'
  BY <1>2 DEF ContentIsOnDisk
<1>9. DeletionsPending'
  <2> SUFFICES ASSUME NEW g \in files' \ onDisk'
               PROVE  \/ Pending("Deleted", g)'
                      \/ \E q \in Procs : op'[q].pc = "delete" /\ op'[q].file = g
    BY DEF DeletionsPending
  <2>1. g \in files \ onDisk /\ g # f
    BY <1>2
  <2>2. CASE \E q \in Procs : op[q].pc = "delete" /\ op[q].file = g
    BY <1>0, <1>3, <2>1, <2>2
  <2> QED BY <1>2, <2>1, <2>2 DEF DeletionsPending, Pending
<1>10. DiskIsKnown'
  <2> SUFFICES ASSUME NEW g \in onDisk', g \notin files' PROVE Refresh(g)'
    BY DEF DiskIsKnown
  <2>1. CASE g \in files
    BY <1>2, <1>4, <2>1 DEF Refresh, Refreshing
  <2>2. CASE g \notin files
    BY <1>1, <1>2, <1>5, <2>2 DEF DiskIsKnown
  <2> QED BY <2>1, <2>2
<1>11. LinksAreTargets'
  <2> SUFFICES ASSUME NEW g \in Files, NEW h \in Files, NEW i \in Imports,
                      <<i, h>> \in dependencies'[g]
               PROVE  h = Target[i]
    BY DEF LinksAreTargets
  <2>1. <<i, h>> \in dependencies[g]
    BY <1>7
  <2> QED BY <2>1 DEF LinksAreTargets
<1>12. NobodyUnresolved'
  <2> SUFFICES ASSUME NEW g \in Files \ files' PROVE unresolved'[g] = {}
    BY DEF NobodyUnresolved
  <2>1. g = f \/ unresolved[g] = {}
    BY <1>2 DEF NobodyUnresolved
  <2>2. \A i \in Imports : i \notin unresolved'[g]
    BY <1>0, <1>2, <1>7, <2>1
  <2>3. unresolved'[g] \subseteq Imports
    BY DeleteFileKeeps DEF GraphInv, GraphTypeOK
  <2> QED BY <2>2, <2>3
<1>13. UnresolvedWait'
  <2> SUFFICES ASSUME NEW g \in files', NEW i \in Imports, i \in unresolved'[g],
                      Target[i] \in onDisk'
               PROVE  AddPending(g, i)'
    BY DEF UnresolvedWait
  <2>1. g \in files /\ g \in Files /\ Target[i] \in onDisk
    BY <1>1, <1>2
  <2>2. CASE i \in unresolved[g]
    BY <1>6, <2>1, <2>2 DEF UnresolvedWait
  <2>3. CASE <<i, f>> \in dependencies[g]
    <3>1. f = Target[i]
      BY <1>0, <2>1, <2>3 DEF LinksAreTargets
    <3> QED BY <1>4, <2>1, <3>1 DEF AddPending, Adding
  <2> QED BY <1>0, <1>7, <2>1, <2>2, <2>3
<1>14. ImportsAreKnown'
  <2> SUFFICES ASSUME NEW g \in files', NEW i \in Imports, i \in content'[g]
               PROVE  \/ Linked(g, i)' \/ i \in unresolved'[g] \/ Refresh(g)'
                      \/ \E q \in Procs : Walking(q, g, i)'
    BY DEF ImportsAreKnown
  <2>1. g \in files /\ g \in Files /\ g # f /\ i \in content[g] /\ Target[i] \in Files
    BY <1>1, <1>2
  <2>2. CASE Linked(g, i)
    BY <1>0, <1>7, <2>1, <2>2 DEF Linked
  <2>3. CASE \E q \in Procs : Walking(q, g, i)
    <3>1. PICK q \in Procs \ {p} : Walking(q, g, i)
      BY <1>2, <2>3 DEF Walking
    <3>2. Walking(q, g, i)'
      BY <1>3, <3>1 DEF Walking
    <3> QED BY <3>2
  <2>4. CASE i \in unresolved[g]
    BY <1>0, <1>7, <2>1, <2>4
  <2> QED BY <1>5, <2>1, <2>2, <2>3, <2>4 DEF ImportsAreKnown
<1> QED BY <1>8, <1>9, <1>10, <1>11, <1>12, <1>13, <1>14

LEMMA StepKeepsKnown ==
  ASSUME GraphInv, QueueInv, KnownInv, NEW p \in Procs, Step(p)
  PROVE  KnownInv'
<1>1. UNCHANGED disk /\ (\A q \in Procs \ {p} : op'[q] = op[q]) /\ GraphTypeOK
  BY Stepping DEF GraphInv
<1>2. ASSUME NEW f \in Files, NEW i \in Imports, ResolveImport(p, f, i) \/ Relink(p, f, i)
      PROVE  Remembers(p) /\ op[p].pc # "delete"
  BY <1>2, ResolveImportRemembers, RelinkRemembers DEF ResolveImport, Relink
<1>3. ASSUME ResolveFile(p)
      PROVE  Remembers(p) /\ op[p].pc # "delete"
  <2>1. op[p].pc # "delete"
    BY <1>3 DEF ResolveFile
  <2>2. Remembers(p)
    <3>1. CASE op[p].file \in onDisk
      BY <1>3, <3>1, ResolveFileRemembers
    <3>2. CASE op[p].file \notin onDisk
      BY <1>3, <3>2, QuietStep
    <3> QED BY <3>1, <3>2
  <2> QED BY <2>1, <2>2
<1>4. ASSUME BeginRelink(p)
      PROVE  Remembers(p) /\ op[p].pc # "delete"
  <2>1. op[p].pc # "delete"
    BY <1>4 DEF BeginRelink
  <2> QED BY <1>4, <2>1, BeginRelinkRemembers
<1>5. ASSUME BeginWalk(p) \/ EndWalk(p) \/ Relock(p) \/ EndRelink(p) \/ EndDelete(p)
      PROVE  Remembers(p) /\ op[p].pc # "delete"
  BY <1>5, QuietStep
<1>6. DeleteFile(p) \/ (Remembers(p) /\ op[p].pc # "delete")
  BY <1>2, <1>3, <1>4, <1>5 DEF Step
<1> QED BY <1>1, <1>6, KnownStays, DeleteFileKeepsKnown

LEMMA CallKeepsKnown ==
  ASSUME GraphInv, TypeOK, KnownInv, NEW p \in Procs, Call(p)
  PROVE  KnownInv'
<1> USE DEF KnownInv
<1>1. /\ events \in Seq(Kinds \X Files) /\ op \in [Procs -> OpType]
      /\ events # <<>> /\ events' = Tail(events) /\ UNCHANGED <<onDisk, content, graph>>
      /\ op[p].pc = "idle" /\ onDisk \subseteq Files /\ files \subseteq Files
      /\ Target \in [Imports -> Files]
  BY TargetAssumption, GraphTypes DEF TypeOK, GraphTypeOK, GraphInv, Call
<1>2. PICK kind \in Kinds, f \in Files : Head(events) = <<kind, f>>
  BY <1>1, HeadTailProperties
<1>3. /\ kind = "Created" => Goto(p, "add", f, {})
      /\ kind = "Changed" => Goto(p, "walk", f, {})
      /\ kind = "Deleted" => Goto(p, "delete", f, {})
  BY <1>2 DEF Call
<1>4. /\ op'[p].file = f
      /\ \A q \in Procs \ {p} : op'[q] = op[q]
      /\ kind = "Created" => op'[p].pc = "add"
      /\ kind = "Changed" => op'[p].pc = "walk"
      /\ kind = "Deleted" => op'[p].pc = "delete"
  BY <1>1, <1>3, Moving DEF Kinds
<1>5. ASSUME NEW l \in Kinds, NEW g \in Files, Pending(l, g)
      PROVE  Pending(l, g)' \/ (l = kind /\ g = f)
  BY <1>1, <1>2, <1>5, Delivered
<1>6. ASSUME NEW g \in Files, Refresh(g)
      PROVE  Refresh(g)'
  <2>1. CASE \E q \in Procs : Refreshing(q, g)
    <3>1. PICK q \in Procs \ {p} : Refreshing(q, g)
      BY <1>1, <2>1 DEF Refreshing
    <3> QED BY <1>4, <3>1 DEF Refresh, Refreshing
  <2>2. CASE Pending("Created", g) \/ Pending("Changed", g)
    <3>1. \/ Pending("Created", g)' \/ Pending("Changed", g)'
          \/ (g = f /\ kind \in {"Created", "Changed"})
      BY <1>5, <2>2 DEF Kinds
    <3> QED BY <1>4, <3>1 DEF Refresh, Refreshing
  <2> QED BY <1>6, <2>1, <2>2 DEF Refresh
<1>7. ASSUME NEW g \in Files, NEW i \in Imports, AddPending(g, i)
      PROVE  AddPending(g, i)'
  <2>1. CASE \E q \in Procs : Adding(q, g, i)
    <3>1. PICK q \in Procs \ {p} : Adding(q, g, i)
      BY <1>1, <2>1 DEF Adding
    <3> QED BY <1>4, <3>1 DEF AddPending, Adding
  <2>2. CASE Pending("Created", Target[i])
    <3>1. Pending("Created", Target[i])' \/ (kind = "Created" /\ Target[i] = f)
      BY <1>1, <1>5, <2>2 DEF Kinds
    <3> QED BY <1>4, <3>1 DEF AddPending, Adding
  <2> QED BY <1>7, <2>1, <2>2 DEF AddPending
<1>8. ASSUME NEW g \in Files, NEW i \in Imports, \E q \in Procs : Walking(q, g, i)
      PROVE  \E q \in Procs : Walking(q, g, i)'
  <2>1. PICK q \in Procs \ {p} : Walking(q, g, i)
    BY <1>1, <1>8 DEF Walking
  <2>2. Walking(q, g, i)'
    BY <1>4, <2>1 DEF Walking
  <2> QED BY <2>2
<1>9. DeletionsPending'
  <2> SUFFICES ASSUME NEW g \in files' \ onDisk'
               PROVE  \/ Pending("Deleted", g)'
                      \/ \E q \in Procs : op'[q].pc = "delete" /\ op'[q].file = g
    BY DEF DeletionsPending
  <2>1. g \in files \ onDisk /\ g \in Files
    BY <1>1 DEF graph
  <2>2. CASE \E q \in Procs : op[q].pc = "delete" /\ op[q].file = g
    BY <1>1, <1>4, <2>2
  <2>3. CASE Pending("Deleted", g)
    <3>1. Pending("Deleted", g)' \/ (kind = "Deleted" /\ g = f)
      BY <1>5, <2>1, <2>3 DEF Kinds
    <3> QED BY <1>4, <3>1
  <2> QED BY <2>1, <2>2, <2>3 DEF DeletionsPending
<1>10. DiskIsKnown'
  BY <1>1, <1>6 DEF DiskIsKnown, graph
<1>11. ContentIsOnDisk' /\ LinksAreTargets' /\ NobodyUnresolved'
  BY <1>1 DEF ContentIsOnDisk, LinksAreTargets, NobodyUnresolved, graph
<1>12. UnresolvedWait'
  BY <1>1, <1>7 DEF UnresolvedWait, graph
<1>13. ImportsAreKnown'
  BY <1>1, <1>6, <1>8 DEF ImportsAreKnown, Linked, graph
<1> QED BY <1>9, <1>10, <1>11, <1>12, <1>13

LEMMA ChangeKeepsKnown ==
  ASSUME GraphInv, TypeOK, KnownInv, NEW kind \in Kinds, NEW f \in Files, Announce(kind, f),
         UNCHANGED <<graph, op>>, NEW imports, content' = [content EXCEPT ![f] = imports],
         \/ (kind = "Deleted" /\ onDisk' = onDisk \ {f} /\ imports = {})
         \/ (kind \in {"Created", "Changed"} /\ onDisk' = onDisk \cup {f}
              /\ (kind = "Changed" => f \in onDisk))
  PROVE  KnownInv'
<1> USE DEF KnownInv
<1>1. /\ events \in Seq(Kinds \X Files) /\ onDisk \subseteq Files /\ files \subseteq Files
      /\ Target \in [Imports -> Files] /\ content \in [Files -> SUBSET Imports]
      /\ files' = files /\ dependencies' = dependencies /\ unresolved' = unresolved
      /\ op' = op
  BY TargetAssumption DEF TypeOK, GraphTypeOK, graph
<1>2. Pending(kind, f)' /\ \A l \in Kinds, g \in Files : Pending(l, g) => Pending(l, g)'
  BY <1>1, Announced
<1>3. \A g \in Files : Refresh(g) => Refresh(g)'
  BY <1>1, <1>2 DEF Refresh, Refreshing, Kinds
<1>4. \A g \in Files, i \in Imports : AddPending(g, i) => AddPending(g, i)'
  BY <1>1, <1>2 DEF AddPending, Adding, Kinds
<1>5. ContentIsOnDisk'
  BY <1>1 DEF ContentIsOnDisk
<1>6. DeletionsPending'
  <2>1. ASSUME NEW g \in files \ onDisk'
        PROVE  g \in files \ onDisk \/ (g = f /\ kind = "Deleted")
    OBVIOUS
  <2> QED BY <1>1, <1>2, <2>1 DEF DeletionsPending, Kinds
<1>7. DiskIsKnown'
  <2>1. ASSUME NEW g \in onDisk'
        PROVE  g \in onDisk \/ (g = f /\ kind = "Created")
    OBVIOUS
  <2> QED BY <1>1, <1>2, <1>3, <2>1 DEF DiskIsKnown, Refresh
<1>8. LinksAreTargets' /\ NobodyUnresolved'
  BY <1>1 DEF LinksAreTargets, NobodyUnresolved
<1>9. UnresolvedWait'
  <2>1. ASSUME NEW g \in onDisk'
        PROVE  g \in onDisk \/ (g = f /\ kind = "Created")
    OBVIOUS
  <2> QED BY <1>1, <1>2, <1>4, <2>1 DEF UnresolvedWait, AddPending
<1>10. ImportsAreKnown'
  <2> SUFFICES ASSUME NEW g \in files', NEW i \in Imports, i \in content'[g]
               PROVE  \/ Linked(g, i)' \/ i \in unresolved'[g] \/ Refresh(g)'
                      \/ \E q \in Procs : Walking(q, g, i)'
    BY DEF ImportsAreKnown
  <2>1. CASE g = f
    <3>1. kind \in {"Created", "Changed"}
      BY <1>1, <2>1
    <3> QED BY <1>2, <2>1, <3>1 DEF Refresh
  <2>2. CASE g # f
    <3>1. g \in files /\ g \in Files /\ i \in content[g]
      BY <1>1, <2>2
    <3>2. \/ Linked(g, i) \/ i \in unresolved[g] \/ Refresh(g)
          \/ \E q \in Procs : Walking(q, g, i)
      BY <3>1 DEF ImportsAreKnown
    <3> QED BY <1>1, <1>3, <3>1, <3>2 DEF Linked, Walking
  <2> QED BY <2>1, <2>2
<1> QED BY <1>5, <1>6, <1>7, <1>8, <1>9, <1>10

-----------------------------------------------------------------------------
(* At rest *)

LEMMA InitRest == Init => QueueInv /\ KnownInv
<1> SUFFICES ASSUME Init PROVE QueueInv /\ KnownInv
  OBVIOUS
<1>1. line = <<>> /\ events = <<>> /\ Len(line) = 0 /\ Len(events) = 0
  BY EmptySeq DEF Init, Mutex!Init
<1>2. \A p \in Procs : op[p].pc = "idle"
  BY DEF Init, NoOp
<1>3. QueueInv
  BY <1>1, <1>2 DEF QueueInv, LineIsCalls, InLine, Outside, EventsInOrder, DeletionsInOrder
<1>4. KnownInv
  BY DEF Init, KnownInv, ContentIsOnDisk, DeletionsPending, DiskIsKnown, LinksAreTargets,
         NobodyUnresolved, UnresolvedWait, ImportsAreKnown
<1> QED BY <1>3, <1>4

LEMMA NextKeepsRest ==
  ASSUME GraphInv, TypeOK, QueueInv, KnownInv, [Next]_vars
  PROVE  QueueInv' /\ KnownInv'
<1>1. content \in [Files -> SUBSET Imports]
  BY DEF TypeOK, GraphTypeOK
<1>2. ASSUME NEW f \in Files, NEW imports \in SUBSET Imports, WriteFile(f, imports)
      PROVE  QueueInv' /\ KnownInv'
  <2>1. PICK kind \in {"Created", "Changed"} :
          /\ Announce(kind, f)
          /\ kind = IF f \in onDisk THEN "Changed" ELSE "Created"
    BY <1>2 DEF WriteFile
  <2>2. /\ onDisk' = onDisk \cup {f} /\ content' = [content EXCEPT ![f] = imports]
        /\ UNCHANGED <<graph, op, line>>
    BY <1>2 DEF WriteFile
  <2>3. QueueInv'
    <3>1. kind = "Changed" => onDisk' = onDisk
      BY <2>1, <2>2
    <3> QED BY <2>1, <2>2, <3>1, ChangeKeepsQueue DEF Kinds
  <2>4. KnownInv'
    BY <2>1, <2>2, ChangeKeepsKnown DEF Kinds
  <2> QED BY <2>3, <2>4
<1>3. ASSUME NEW f \in Files, RemoveFile(f)
      PROVE  QueueInv' /\ KnownInv'
  <2>1. /\ Announce("Deleted", f) /\ onDisk' = onDisk \ {f}
        /\ content' = [content EXCEPT ![f] = {}] /\ UNCHANGED <<graph, op, line>>
    BY <1>3 DEF RemoveFile
  <2>2. QueueInv'
    BY <2>1, ChangeKeepsQueue DEF Kinds
  <2>3. KnownInv'
    BY <2>1, ChangeKeepsKnown DEF Kinds
  <2> QED BY <2>2, <2>3
<1>4. CASE UNCHANGED vars
  <2>1. UNCHANGED <<onDisk, content, events, files, dependencies, unresolved, op, line>>
    BY <1>4 DEF vars, disk, graph
  <2>2. QueueInv'
    <3>1. LineIsCalls' /\ EventsInOrder'
      BY <2>1 DEF QueueInv, LineIsCalls, InLine, EventsInOrder
    <3>2. DeletionsInOrder'
      <4>1. \A q \in Procs, f \in onDisk :
              /\ Pending("Created", f)' <=> Pending("Created", f)
              /\ AddedBehind(q, f)' <=> AddedBehind(q, f)
        BY <2>1 DEF Pending, AddedBehind, Behind
      <4> QED BY <2>1, <4>1 DEF QueueInv, DeletionsInOrder
    <3> QED BY <3>1, <3>2 DEF QueueInv
  <2>3. KnownInv'
    <3>1. ContentIsOnDisk' /\ LinksAreTargets' /\ NobodyUnresolved'
      BY <2>1 DEF KnownInv, ContentIsOnDisk, LinksAreTargets, NobodyUnresolved
    <3>2. DeletionsPending' /\ DiskIsKnown'
      BY <2>1 DEF KnownInv, DeletionsPending, DiskIsKnown, Refresh, Refreshing, Pending
    <3>3. UnresolvedWait'
      <4>1. \A f \in files, i \in Imports : AddPending(f, i)' <=> AddPending(f, i)
        BY <2>1 DEF AddPending, Adding, Pending
      <4> QED BY <2>1, <4>1 DEF KnownInv, UnresolvedWait
    <3>4. ImportsAreKnown'
      BY <2>1 DEF KnownInv, ImportsAreKnown, Refresh, Refreshing, Walking, Linked, Pending
    <3> QED BY <3>1, <3>2, <3>3, <3>4 DEF KnownInv
  <2> QED BY <2>2, <2>3
<1> QED BY <1>2, <1>3, <1>4, StepKeepsQueue, StepKeepsKnown, CallKeepsQueue, CallKeepsKnown
        DEF Next

\* The inductive invariant of what the graph has yet to learn: every difference
\* between the graph and the disk has an event, a call or an import that waits to
\* be resolved, in an order that ends with the state of the disk
\* (LSPDependencyGraph, walkFile, addNewFile and deleteFile).
THEOREM RestInvariant == Spec => [](QueueInv /\ KnownInv)
<1>1. Init => QueueInv /\ KnownInv
  BY InitRest
<1>2. (GraphInv /\ TypeOK) /\ (QueueInv /\ KnownInv) /\ [Next]_vars => (QueueInv /\ KnownInv)'
  BY NextKeepsRest
<1> QED BY <1>1, <1>2, GraphInvariant, PTL DEF Spec

\* Once the events are handled, the graph has no file that was deleted (deleteFile).
THEOREM NoGhostsAtRest == Spec => []RestHasNoGhosts
<1>1. KnownInv => RestHasNoGhosts
  <2> SUFFICES ASSUME KnownInv, AtRest PROVE files \subseteq onDisk
    BY DEF RestHasNoGhosts
  <2>1. \A l, f : ~Pending(l, f)
    BY EmptySeq DEF Pending, AtRest
  <2> QED BY <2>1 DEF KnownInv, DeletionsPending, AtRest
<1> QED BY <1>1, RestInvariant, PTL

\* Once the events are handled, every import of a file of the graph that names an
\* existing file is linked to it (addNewFile, walkFile).
THEOREM ImportsResolvedAtRest == Spec => []RestResolvesImports
<1>1. TypeOK /\ KnownInv => RestResolvesImports
  <2> SUFFICES ASSUME TypeOK, KnownInv, AtRest, NEW f \in files, NEW i \in content[f],
                      Target[i] \in onDisk
               PROVE  Linked(f, i)
    BY DEF RestResolvesImports, Linked
  <2>1. i \in Imports
    BY DEF TypeOK, GraphTypeOK
  <2>2. \A l, g : ~Pending(l, g)
    BY EmptySeq DEF Pending, AtRest
  <2>3. ~Refresh(f) /\ ~AddPending(f, i) /\ \A p \in Procs : ~Walking(p, f, i)
    BY <2>2 DEF Refresh, Refreshing, AddPending, Adding, Walking, AtRest
  <2> QED BY <2>1, <2>3 DEF KnownInv, ImportsAreKnown, UnresolvedWait
<1> QED BY <1>1, RestInvariant, GraphTypesCorrect, PTL
-----------------------------------------------------------------------------
(* The callers of the graph: a Hardhat 3 project *)

Changes == Kinds \X (Files \cup {Config})
Phases == {"none", "modules", "loading", "failing", "compilers"}
Digests == SUBSET SUBSET Imports

\* What a handler has yet to handle, and what an analysis knows.
HandlersTypeOK ==
  /\ events \in Seq(Changes)
  /\ batch \in [Procs -> Seq(Changes)]
  /\ exists \in [Procs -> BOOLEAN]
  /\ edited \subseteq Files
  /\ digest \in [Procs -> Digests]
  /\ importsCache \in [Files -> Digests]

SetupTypeOK ==
  /\ setup \in [Procs -> Phases]
  /\ {valid, graphMade, initializeError} \subseteq BOOLEAN
  /\ outdated \in [Procs -> SUBSET Files]

\* lstat has found the file of a change that is there.
FoundIsAnnounced == \A p \in Procs : exists[p] => batch[p] # <<>>

\* The inductive invariant.
ProjectInv == GraphInv /\ HandlersTypeOK /\ SetupTypeOK /\ FoundIsAnnounced

LEMMA ProjectTypes == ProjectInv => TypeOK3
BY DEF ProjectInv, GraphInv, HandlersTypeOK, SetupTypeOK, TypeOK3, Changes, Phases, Digests

LEMMA InitProject == Init3 => ProjectInv
<1> SUFFICES ASSUME Init3 PROVE ProjectInv
  OBVIOUS
<1>1. GraphInv
  BY InitGraph DEF Init3
<1>2. HandlersTypeOK
  BY EmptySeq DEF Init3, Init, HandlersTypeOK, Digests
<1>3. SetupTypeOK /\ FoundIsAnnounced
  BY DEF Init3, SetupTypeOK, Phases, FoundIsAnnounced
<1> QED BY <1>1, <1>2, <1>3 DEF ProjectInv

-----------------------------------------------------------------------------
(* The disk and the editor *)

LEMMA GraphStays ==
  ASSUME GraphInv, UNCHANGED vars
  PROVE  GraphInv'
<1>1. UNCHANGED <<graph, op, line, inside, onDisk, content, changes>>
  BY DEF vars, disk
<1> QED BY <1>1, DiskKeeps DEF GraphInv, GraphTypeOK

LEMMA ChangeAnnounced ==
  ASSUME changes \in 0 .. MaxChanges, events \in Seq(Changes),
         NEW kind \in Kinds, NEW f \in Files \cup {Config}, Announce(kind, f)
  PROVE  changes' \in 0 .. MaxChanges /\ events' \in Seq(Changes)
<1>1. changes' \in 0 .. MaxChanges
  BY BoundAssumption DEF Announce
<1>2. events' = Append(events, <<kind, f>>) /\ <<kind, f>> \in Changes
  BY DEF Announce, Changes
<1> QED BY <1>1, <1>2, AppendProperties

LEMMA DiskStep ==
  ASSUME ProjectInv, NEW f \in Files, Disk(f)
  PROVE  ProjectInv'
<1>1. changes \in 0 .. MaxChanges /\ events \in Seq(Changes)
      /\ onDisk \subseteq Files /\ content \in [Files -> SUBSET Imports]
  BY DEF ProjectInv, GraphInv, GraphTypeOK, HandlersTypeOK
<1>2. PICK kind \in Kinds : Announce(kind, f)
  BY DEF Disk, WriteFile, RemoveFile, Kinds
<1>3. changes' \in 0 .. MaxChanges /\ events' \in Seq(Changes)
  BY <1>1, <1>2, ChangeAnnounced
<1>4. onDisk' \subseteq Files /\ content' \in [Files -> SUBSET Imports]
      /\ UNCHANGED <<graph, op, line, inside>>
  BY <1>1 DEF Disk, WriteFile, RemoveFile
<1>5. GraphInv'
  BY <1>3, <1>4, DiskKeeps DEF ProjectInv
<1> QED BY <1>3, <1>5 DEF Disk, project, handlers, setupVars, ProjectInv, HandlersTypeOK,
                          SetupTypeOK, FoundIsAnnounced

LEMMA ChangeConfigStep ==
  ASSUME ProjectInv, NEW good \in BOOLEAN, ChangeConfig(good)
  PROVE  ProjectInv'
<1>1. changes' \in 0 .. MaxChanges /\ events' \in Seq(Changes)
  BY ChangeAnnounced DEF ChangeConfig, ProjectInv, GraphInv, GraphTypeOK, HandlersTypeOK, Kinds
<1>2. GraphInv'
  BY <1>1, DiskKeeps DEF ChangeConfig, ProjectInv, GraphInv, GraphTypeOK
<1> QED BY <1>1, <1>2 DEF ChangeConfig, handlers, ProjectInv, HandlersTypeOK, SetupTypeOK,
                          FoundIsAnnounced

LEMMA EditStep ==
  ASSUME ProjectInv, NEW f \in Files, NEW imports \in SUBSET Imports, Edit(f, imports)
  PROVE  ProjectInv'
<1>1. /\ changes' \in 0 .. MaxChanges
      /\ onDisk' \subseteq Files /\ content' \in [Files -> SUBSET Imports]
      /\ UNCHANGED <<graph, op, line, inside>>
  BY BoundAssumption DEF Edit, ProjectInv, GraphInv, GraphTypeOK
<1>2. GraphInv'
  BY <1>1, DiskKeeps DEF ProjectInv
<1> QED BY <1>2 DEF Edit, setupVars, ProjectInv, HandlersTypeOK, SetupTypeOK, FoundIsAnnounced

-----------------------------------------------------------------------------
(* Handlers and analyses *)

LEMMA DeliverStep ==
  ASSUME ProjectInv, NEW p \in Procs, NEW n \in 1 .. Len(events), Deliver(p, n)
  PROVE  ProjectInv'
<1>1. events \in Seq(Changes) /\ Len(events) \in Nat
      /\ \A i \in 1 .. Len(events) : events[i] \in Changes
  BY LenProperties, ElementOfSeq DEF ProjectInv, HandlersTypeOK
<1>2. SubSeq(events, 1, n) \in Seq(Changes) /\ SubSeq(events, n + 1, Len(events)) \in Seq(Changes)
  BY <1>1, SubSeqProperties
<1>3. ~exists[p]
  BY DEF Deliver, Free, ProjectInv, FoundIsAnnounced
<1>4. HandlersTypeOK' /\ FoundIsAnnounced'
  BY <1>2, <1>3 DEF Deliver, ProjectInv, HandlersTypeOK, FoundIsAnnounced
<1>5. UNCHANGED <<onDisk, content, changes, graph, op, line, inside>>
  BY DEF Deliver
<1>6. GraphInv'
  BY <1>5, DiskKeeps DEF ProjectInv, GraphInv, GraphTypeOK
<1> QED BY <1>4, <1>6 DEF Deliver, setupVars, ProjectInv, SetupTypeOK

LEMMA LstatStep ==
  ASSUME ProjectInv, NEW p \in Procs, Lstat(p)
  PROVE  ProjectInv'
<1>1. GraphInv'
  BY GraphStays DEF Lstat, ProjectInv
<1>2. HandlersTypeOK' /\ FoundIsAnnounced'
  <2>1. CASE exists' = [exists EXCEPT ![p] = TRUE] /\ UNCHANGED batch
    BY <2>1 DEF Lstat, vars, disk, ProjectInv, HandlersTypeOK, FoundIsAnnounced
  <2>2. CASE batch' = [batch EXCEPT ![p] = <<>>] /\ UNCHANGED exists
    BY <2>2, EmptySeq DEF Lstat, vars, disk, ProjectInv, HandlersTypeOK, FoundIsAnnounced
  <2> QED BY <2>1, <2>2 DEF Lstat
<1> QED BY <1>1, <1>2 DEF Lstat, setupVars, ProjectInv, SetupTypeOK

\* The next change of a handler.
LEMMA ChangeTaken ==
  ASSUME ProjectInv, NEW p \in Procs, NextChange(p)
  PROVE  /\ Head(batch[p]) \in Changes
         /\ batch' \in [Procs -> Seq(Changes)] /\ exists' \in [Procs -> BOOLEAN]
         /\ FoundIsAnnounced'
<1>1. batch[p] \in Seq(Changes) /\ batch[p] # <<>>
  BY DEF NextChange, ProjectInv, HandlersTypeOK, FoundIsAnnounced
<1>2. Head(batch[p]) \in Changes /\ Tail(batch[p]) \in Seq(Changes)
  BY <1>1, HeadTailProperties
<1> QED BY <1>2 DEF NextChange, ProjectInv, HandlersTypeOK, FoundIsAnnounced

\* A call, or none.
LEMMA Invoked ==
  ASSUME GraphInv, NEW p \in Procs, NEW f \in Files, UNCHANGED <<disk, graph>>,
         UNCHANGED <<op, line, inside>> \/ \E pc \in {"walk", "add", "delete"} : Invoke(p, pc, f)
  PROVE  GraphInv'
<1>1. CASE UNCHANGED <<op, line, inside>>
  BY <1>1, GraphStays DEF vars
<1>2. ASSUME NEW pc \in {"walk", "add", "delete"}, Invoke(p, pc, f)
      PROVE  GraphInv'
  BY <1>2, InvokeKeeps DEF Invoke, disk
<1> QED BY <1>1, <1>2

LEMMA HandleChangeStep ==
  ASSUME ProjectInv, NEW p \in Procs, HandleChange(p)
  PROVE  ProjectInv'
<1>1. /\ Head(batch[p]) \in Changes
      /\ batch' \in [Procs -> Seq(Changes)] /\ exists' \in [Procs -> BOOLEAN]
      /\ FoundIsAnnounced'
  BY ChangeTaken DEF HandleChange
<1>2. Head(batch[p])[1] \in Kinds /\ Head(batch[p])[2] \in Files
  BY <1>1 DEF HandleChange, Changes
<1>3. \/ UNCHANGED <<op, line, inside>>
      \/ \E pc \in {"walk", "add", "delete"} : Invoke(p, pc, Head(batch[p])[2])
  <2>1. CASE ~graphMade
    BY <2>1 DEF HandleChange
  <2>2. CASE graphMade
    <3>1. Invoke(p, CASE Head(batch[p])[1] = "Created" -> "add"
                      [] Head(batch[p])[1] = "Changed" -> "walk"
                      [] Head(batch[p])[1] = "Deleted" -> "delete", Head(batch[p])[2])
      BY <2>2 DEF HandleChange
    <3> HIDE DEF Invoke
    <3>2. CASE Head(batch[p])[1] = "Created"
      BY <3>1, <3>2
    <3>3. CASE Head(batch[p])[1] = "Changed"
      BY <3>1, <3>3
    <3>4. CASE Head(batch[p])[1] = "Deleted"
      BY <3>1, <3>4
    <3> QED BY <1>2, <3>2, <3>3, <3>4 DEF Kinds
  <2> QED BY <2>1, <2>2
<1>4. GraphInv'
  BY <1>2, <1>3, Invoked DEF HandleChange, ProjectInv
<1> QED BY <1>1, <1>4 DEF HandleChange, disk, setupVars, ProjectInv, HandlersTypeOK, SetupTypeOK

LEMMA PreAnalyzeStep ==
  ASSUME ProjectInv, NEW p \in Procs, NEW f \in Files, PreAnalyze(p, f)
  PROVE  ProjectInv'
<1>1. content[f] \in SUBSET Imports
  BY DEF ProjectInv, GraphInv, GraphTypeOK
<1>2. GraphInv'
  BY Invoked DEF PreAnalyze, ProjectInv
<1>3. digest' \in [Procs -> Digests]
  <2>1. digest \in [Procs -> Digests] /\ {content[f]} \in Digests
    BY <1>1 DEF ProjectInv, HandlersTypeOK, Digests
  <2>2. digest' = digest \/ digest' = [digest EXCEPT ![p] = {content[f]}]
    BY DEF PreAnalyze
  <2> QED BY <2>1, <2>2
<1> QED BY <1>2, <1>3 DEF PreAnalyze, disk, setupVars, ProjectInv, HandlersTypeOK, SetupTypeOK,
                          FoundIsAnnounced

LEMMA StepLeavesDisk ==
  ASSUME NEW p \in Procs, Step(p)
  PROVE  UNCHANGED disk
BY DEF Step, BeginWalk, ResolveFile, ResolveImport, Relink, EndWalk, Relock,
       BeginRelink, EndRelink, DeleteFile, EndDelete

LEMMA ContinueStep ==
  ASSUME ProjectInv, NEW p \in Procs, Continue(p)
  PROVE  ProjectInv'
<1>1. GraphInv' /\ UNCHANGED events
  BY StepKeeps, StepLeavesDisk DEF Continue, ProjectInv, disk
<1>2. digest' \in [Procs -> Digests] /\ importsCache' \in [Files -> Digests]
  <2>1. /\ digest \in [Procs -> Digests] /\ importsCache \in [Files -> Digests]
        /\ {} \in Digests
    BY DEF ProjectInv, HandlersTypeOK, Digests
  <2>2. digest' = digest \/ digest' = [digest EXCEPT ![p] = {}]
    BY DEF Continue
  <2>3. \/ importsCache' = importsCache
        \/ importsCache' = [importsCache EXCEPT ![op[p].file] = digest[p]]
    BY DEF Continue
  <2> QED BY <2>1, <2>2, <2>3
<1> QED BY <1>1, <1>2 DEF Continue, setupVars, ProjectInv, HandlersTypeOK, SetupTypeOK,
                          FoundIsAnnounced

-----------------------------------------------------------------------------
(* initialize() *)

LEMMA InitializeStep ==
  ASSUME ProjectInv, NEW p \in Procs, Initialize(p)
  PROVE  ProjectInv'
<1>1. /\ batch' \in [Procs -> Seq(Changes)] /\ exists' \in [Procs -> BOOLEAN]
      /\ FoundIsAnnounced'
  BY ChangeTaken DEF Initialize
<1>2. GraphInv' /\ UNCHANGED events
  BY GraphStays DEF Initialize, ProjectInv, vars, disk
<1>3. importsCache' \in [Files -> Digests]
  BY DEF Initialize, Digests
<1>4. HandlersTypeOK'
  BY <1>1, <1>2, <1>3 DEF Initialize, ProjectInv, HandlersTypeOK
<1>5. SetupTypeOK'
  BY DEF Initialize, ProjectInv, SetupTypeOK, Phases
<1> QED BY <1>1, <1>2, <1>4, <1>5 DEF ProjectInv

LEMMA SetupStep ==
  ASSUME ProjectInv, NEW p \in Procs, CopyConfig(p) \/ FinishSetup(p) \/ FailSetup(p)
  PROVE  ProjectInv'
<1>1. UNCHANGED <<vars, handlers, valid, graphMade, outdated>>
      /\ initializeError' \in {initializeError, TRUE}
  BY DEF CopyConfig, FinishSetup, FailSetup
<1>2. GraphInv'
  BY <1>1, GraphStays DEF ProjectInv
<1>3. setup' \in [Procs -> Phases]
  BY DEF CopyConfig, FinishSetup, FailSetup, ProjectInv, SetupTypeOK, Phases
<1>4. HandlersTypeOK' /\ FoundIsAnnounced'
  BY <1>1 DEF vars, disk, handlers, ProjectInv, HandlersTypeOK, FoundIsAnnounced
<1> QED BY <1>1, <1>2, <1>3, <1>4 DEF ProjectInv, SetupTypeOK

\* The new graph is empty, and nobody calls it yet.
LEMMA MakeGraphStep ==
  ASSUME ProjectInv, NEW p \in Procs, MakeGraph(p)
  PROVE  ProjectInv'
<1>1. /\ UNCHANGED <<onDisk, content, changes, events>>
      /\ line' = <<>> /\ inside' = {} /\ op' = [q \in Procs |-> NoOp]
      /\ files' = {} /\ unresolved' = [f \in Files |-> {}]
      /\ dependencies' = [f \in Files |-> {}] /\ dependants' = [f \in Files |-> {}]
  BY DEF MakeGraph, disk
<1>2. GraphTypeOK'
  BY <1>1, NoOpType, EmptySeq DEF ProjectInv, GraphInv, GraphTypeOK, OpType
<1>3. FirstIsInside' /\ WorkIsInside' /\ WalkedFilesStay' /\ LinkedFilesStay' /\ LinksAreMutual'
  BY <1>1 DEF FirstIsInside, WorkIsInside, Working, WalkedFilesStay, LinkedFilesStay,
              LinksAreMutual, NoOp
<1>4. HandlersTypeOK' /\ FoundIsAnnounced'
  BY DEF MakeGraph, disk, handlers, ProjectInv, HandlersTypeOK, FoundIsAnnounced
<1>5. \A q \in Procs : op[q].file \in Files
  BY GraphTypes DEF ProjectInv, GraphInv
<1>6. SetupTypeOK'
  BY <1>5 DEF MakeGraph, ProjectInv, SetupTypeOK, Phases
<1> QED BY <1>2, <1>3, <1>4, <1>6 DEF ProjectInv, GraphInv

LEMMA EndOutdatedStep ==
  ASSUME ProjectInv, NEW p \in Procs, EndOutdated(p)
  PROVE  ProjectInv'
<1>1. GraphInv' /\ UNCHANGED events
  BY GraphStays DEF EndOutdated, ProjectInv, vars, disk
<1>2. digest' \in [Procs -> Digests] /\ importsCache' \in [Files -> Digests]
  BY DEF EndOutdated, ProjectInv, HandlersTypeOK, Digests
<1>3. HandlersTypeOK' /\ FoundIsAnnounced'
  BY <1>1, <1>2 DEF EndOutdated, ProjectInv, HandlersTypeOK, FoundIsAnnounced
<1> QED BY <1>1, <1>3 DEF EndOutdated, ProjectInv, SetupTypeOK

-----------------------------------------------------------------------------
(* The theorems *)

LEMMA Next3Keeps ==
  ASSUME ProjectInv, [Next3]_allVars
  PROVE  ProjectInv'
<1>1. CASE UNCHANGED allVars
  <2>1. GraphInv'
    BY <1>1, GraphStays DEF allVars, ProjectInv
  <2> QED BY <1>1, <2>1 DEF allVars, vars, disk, project, handlers, setupVars, ProjectInv,
                            HandlersTypeOK, SetupTypeOK, FoundIsAnnounced
<1>2. ASSUME NEW p \in Procs, Work(p)
      PROVE  ProjectInv'
  BY <1>2, LstatStep, HandleChangeStep, ContinueStep, InitializeStep, SetupStep, MakeGraphStep,
     EndOutdatedStep DEF Work, Setup
<1> QED BY <1>1, <1>2, DiskStep, ChangeConfigStep, EditStep, DeliverStep, PreAnalyzeStep DEF Next3

\* The inductive invariant of the project: that of the graph, types, and no
\* change handled that was not announced.
THEOREM ProjectInvariant == Spec3 => []ProjectInv
<1> QED BY InitProject, Next3Keeps, PTL DEF Spec3

\* Every reachable state of the project is well typed.
THEOREM ProjectTypesCorrect == Spec3 => []TypeOK3
BY ProjectInvariant, ProjectTypes, PTL

\* The two directions of the graph agree whatever handlers, analyses and restarts
\* do to it.
THEOREM MutualLinksInProject == Spec3 => []LinksAreMutual
<1>1. ProjectInv => LinksAreMutual
  BY DEF ProjectInv, GraphInv
<1> QED BY <1>1, ProjectInvariant, PTL

\* Where digests come from.
LEMMA DigestStored ==
  ASSUME ProjectInv, [Next3]_allVars, NEW f \in Files,
         importsCache'[f] \notin {importsCache[f], {}}
  PROVE  f \in files \/ \E p \in Procs : f \in outdated[p] /\ outdated'[p] = {}
<1>1. importsCache' # importsCache
  OBVIOUS
<1>2. PICK p \in Procs : Initialize(p) \/ Continue(p) \/ EndOutdated(p)
  BY <1>1 DEF Next3, allVars, project, handlers, Disk, ChangeConfig, Edit, Deliver, PreAnalyze,
              Work, Setup, Lstat, HandleChange, CopyConfig, MakeGraph, FinishSetup, FailSetup
<1>3. CASE Initialize(p)
  BY <1>3 DEF Initialize
<1>4. CASE Continue(p)
  <2>1. op[p].pc = "imports" /\ f = op[p].file
    BY <1>1, <1>4 DEF Continue, ProjectInv, HandlersTypeOK
  <2> QED BY <2>1 DEF ProjectInv, GraphInv, WalkedFilesStay
<1>5. CASE EndOutdated(p)
  <2>1. f \in outdated[p] /\ outdated'[p] = {}
    BY <1>1, <1>5 DEF EndOutdated, ProjectInv, SetupTypeOK
  <2> QED BY <2>1
<1> QED BY <1>2, <1>3, <1>4, <1>5

\* A digest enters importsCache for a file of the graph, when its walk is over,
\* or at the end of a walk of a graph that has been replaced (preAnalyze).
THEOREM DigestsFollowWalks == Spec3 => CacheFollowsWalk
<1>1. ProjectInv /\ [Next3]_allVars =>
        [\A f \in Files : importsCache'[f] \notin {importsCache[f], {}} =>
           \/ f \in files
           \/ \E p \in Procs : f \in outdated[p] /\ outdated'[p] = {}]_allVars
  BY DigestStored
<1> QED BY <1>1, ProjectInvariant, PTL DEF Spec3, CacheFollowsWalk
=============================================================================
