--------------------------- MODULE Hardhat3Project ---------------------------
(***************************************************************************)
(* Who calls the dependency graph of a Hardhat 3 project                   *)
(* (Hardhat3/Hardhat3Project.ts): the handlers of watched-file             *)
(* notifications, which go through their batch of changes one `await` at a *)
(* time and may be several at once, and preAnalyze, which walks the file   *)
(* of an edited document unless its imports are those of the last walk.    *)
(* The calls themselves are the actions of DependencyGraph; a slot of      *)
(* Procs is a handler or an analysis.                                      *)
(*                                                                         *)
(* A change of the configuration makes a handler call initialize(), which  *)
(* forgets the digests at once and makes a new graph, with a mutex of its  *)
(* own, several awaits later.  The calls that are under way then go on in  *)
(* the graph that they were made on, which nobody asks any more: all that  *)
(* matters of them is when they end and how.                               *)
(*                                                                         *)
(* `content` is what readSourceFile returns for a file: the text of the    *)
(* editor if the file is open, and the one on disk otherwise.              *)
(***************************************************************************)
EXTENDS DependencyGraph

CONSTANTS Config,        \* the configuration file
          Removable,     \* bound: the files that may be removed
          SetupMayFail   \* may initialize() fail with a good configuration?

ASSUME ConfigAssumption == Config \notin Files /\ SetupMayFail \in BOOLEAN

VARIABLES
  batch,         \* the changes of a notification that are yet to be handled
  exists,        \* lstat found the file of the first change of the batch
  edited,        \* files whose analysis timer runs
  digest,        \* the imports of the text that an analysis started from
  importsCache,  \* per file, at most one set of imports: the last digest
  valid,         \* the configuration on disk can be loaded
  setup,         \* the calls of initialize()
  graphMade,     \* dependencyGraph is defined
  initializeError,
  outdated       \* the file of a call on a graph that has been replaced

handlers == <<batch, exists, edited, digest, importsCache>>
setupVars == <<valid, setup, graphMade, initializeError, outdated>>
project == <<handlers, setupVars>>
allVars == <<vars, project>>

Init3 ==
  /\ Init
  /\ batch = [p \in Procs |-> <<>>]
  /\ exists = [p \in Procs |-> FALSE]
  /\ edited = {}
  /\ digest = [p \in Procs |-> {}]
  /\ importsCache = [f \in Files |-> {}]
  /\ valid \in BOOLEAN /\ graphMade = valid /\ initializeError = ~valid
  /\ setup = [p \in Procs |-> "none"]
  /\ outdated = [p \in Procs |-> {}]

\* The handler in slot p, if any, is between two changes of its batch.
Between(p) == op[p].pc = "idle" /\ setup[p] = "none" /\ outdated[p] = {}
Free(p) == Between(p) /\ batch[p] = <<>>

\* A call of walkFile, addNewFile or deleteFile up to its first await.
Invoke(p, pc, f) == Goto(p, pc, f, {}) /\ Mutex!Arrive(p)

-----------------------------------------------------------------------------
\* The text of an open document changes, or the document is opened: its
\* analysis timer restarts.
Edit(f, imports) ==
  /\ f \in onDisk
  /\ changes < MaxChanges
  /\ changes' = changes + 1
  /\ content' = [content EXCEPT ![f] = imports]
  /\ edited' = edited \cup {f}
  /\ UNCHANGED <<onDisk, events, graph, op, line, inside, batch, exists, digest,
                 importsCache, setupVars>>

Disk(f) ==
  /\ \/ \E imports \in SUBSET Imports : WriteFile(f, imports)
     \/ f \in Removable /\ RemoveFile(f)
  /\ UNCHANGED project

ChangeConfig(good) ==
  /\ Announce("Changed", Config)
  /\ valid' = good
  /\ UNCHANGED <<onDisk, content, graph, op, line, inside, handlers, setup,
                 graphMade, initializeError, outdated>>

\* The client notifies the server of the first n changes.
Deliver(p, n) ==
  /\ Free(p)
  /\ batch' = [batch EXCEPT ![p] = SubSeq(events, 1, n)]
  /\ events' = SubSeq(events, n + 1, Len(events))
  /\ UNCHANGED <<onDisk, content, changes, graph, op, line, inside, exists,
                 edited, digest, importsCache, setupVars>>

\* onWatchedFilesChanges awaits the lstat of the next change before it looks at
\* the kind of the change; it throws if the file is gone, and the rest of the
\* batch is lost.
Lstat(p) ==
  /\ batch[p] # <<>> /\ Between(p)
  /\ ~exists[p]
  /\ IF Head(batch[p])[2] \in onDisk \cup {Config}
     THEN exists' = [exists EXCEPT ![p] = TRUE] /\ UNCHANGED batch
     ELSE batch' = [batch EXCEPT ![p] = <<>>] /\ UNCHANGED exists
  /\ UNCHANGED <<vars, edited, digest, importsCache, setupVars>>

NextChange(p) ==
  /\ exists[p]
  /\ exists' = [exists EXCEPT ![p] = FALSE]
  /\ batch' = [batch EXCEPT ![p] = Tail(@)]

\* #handleSourceFileChange makes the call that the kind of the change asks for,
\* if there is a graph.
HandleChange(p) ==
  /\ NextChange(p)
  /\ LET kind == Head(batch[p])[1]
         f    == Head(batch[p])[2]
     IN  /\ f # Config
         /\ IF ~graphMade THEN UNCHANGED <<op, line, inside>>
            ELSE Invoke(p, CASE kind = "Created" -> "add"
                             [] kind = "Changed" -> "walk"
                             [] kind = "Deleted" -> "delete", f)
  /\ UNCHANGED <<disk, graph, edited, digest, importsCache, setupVars>>

-----------------------------------------------------------------------------
(* initialize().  setup[p]: none; modules (importing Hardhat); loading,     *)
(* failing (importing a good or a bad configuration and creating the        *)
(* environment); compilers (downloading the compilers).                     *)

\* #handleConfigChange
Initialize(p) ==
  /\ NextChange(p)
  /\ Head(batch[p])[2] = Config
  /\ initializeError' = FALSE
  /\ importsCache' = [f \in Files |-> {}]
  /\ setup' = [setup EXCEPT ![p] = "modules"]
  /\ UNCHANGED <<vars, edited, digest, valid, graphMade, outdated>>

\* An import, the environment or a download fails.
FailSetup(p) ==
  /\ setup[p] = "failing" \/ (SetupMayFail /\ setup[p] # "none")
  /\ setup' = [setup EXCEPT ![p] = "none"]
  /\ initializeError' = TRUE
  /\ UNCHANGED <<vars, handlers, valid, graphMade, outdated>>

\* The modules are there; the configuration is copied and imported.
CopyConfig(p) ==
  /\ setup[p] = "modules"
  /\ setup' = [setup EXCEPT ![p] = IF valid THEN "loading" ELSE "failing"]
  /\ UNCHANGED <<vars, handlers, valid, graphMade, initializeError, outdated>>

\* The environment is there: a new, empty graph takes the place of the old one.
MakeGraph(p) ==
  /\ setup[p] = "loading"
  /\ setup' = [setup EXCEPT ![p] = "compilers"]
  /\ graphMade' = TRUE
  /\ files' = {}
  /\ dependencies' = [f \in Files |-> {}]
  /\ dependants' = [f \in Files |-> {}]
  /\ unresolved' = [f \in Files |-> {}]
  /\ line' = <<>> /\ inside' = {}
  /\ op' = [q \in Procs |-> NoOp]
  /\ outdated' = [q \in Procs |-> IF op[q].pc = "idle" THEN outdated[q]
                                 ELSE {op[q].file}]
  /\ UNCHANGED <<disk, handlers, valid, initializeError>>

FinishSetup(p) ==
  /\ setup[p] = "compilers"
  /\ setup' = [setup EXCEPT ![p] = "none"]
  /\ UNCHANGED <<vars, handlers, valid, graphMade, initializeError, outdated>>

\* A call on a graph that was replaced returns or throws.  The walk of an
\* analysis that returns stores its digest all the same.
EndOutdated(p) ==
  /\ outdated[p] # {}
  /\ outdated' = [outdated EXCEPT ![p] = {}]
  /\ digest' = [digest EXCEPT ![p] = {}]
  /\ \/ UNCHANGED importsCache
     \/ /\ digest[p] # {}
        /\ importsCache' = [f \in Files |-> IF f \in outdated[p] THEN digest[p]
                                           ELSE importsCache[f]]
  /\ UNCHANGED <<vars, batch, exists, edited, valid, setup, graphMade,
                 initializeError>>

-----------------------------------------------------------------------------
\* Mutant: the digest is stored before the walk is known to succeed.
PreAnalyzeEagerly(p, f) ==
  /\ f \in edited
  /\ Free(p)
  /\ edited' = edited \ {f}
  /\ IF ~graphMade \/ content[f] \in importsCache[f]
     THEN UNCHANGED <<op, line, inside, digest, importsCache>>
     ELSE /\ Invoke(p, "walk", f)
          /\ importsCache' = [importsCache EXCEPT ![f] = {content[f]}]
          /\ digest' = [digest EXCEPT ![p] = {content[f]}]
  /\ UNCHANGED <<disk, graph, batch, exists, setupVars>>

\* The timer fires: preAnalyze walks the file, unless its imports are those of
\* the last walk that succeeded.
PreAnalyze(p, f) ==
  /\ f \in edited
  /\ Free(p)
  /\ edited' = edited \ {f}
  /\ IF ~graphMade \/ content[f] \in importsCache[f]
     THEN UNCHANGED <<op, line, inside, digest>>
     ELSE /\ Invoke(p, "walk", f)
          /\ digest' = [digest EXCEPT ![p] = {content[f]}]
  /\ UNCHANGED <<disk, graph, batch, exists, importsCache, setupVars>>

\* A call goes on; when the walk of an analysis returns, its digest is stored,
\* and when it throws, it is not.
Continue(p) ==
  /\ Step(p)
  /\ LET f == op[p].file
         returns == op'[p].pc = "idle"
     IN  /\ importsCache' =
              IF op[p].pc = "imports" /\ returns /\ digest[p] # {}
              THEN [importsCache EXCEPT ![f] = digest[p]]
              ELSE importsCache
         /\ digest' = IF returns THEN [digest EXCEPT ![p] = {}] ELSE digest
  /\ UNCHANGED <<batch, exists, edited, setupVars>>

-----------------------------------------------------------------------------
Setup(p) == Initialize(p) \/ CopyConfig(p) \/ MakeGraph(p) \/ FinishSetup(p) \/ FailSetup(p)
Work(p) == Lstat(p) \/ HandleChange(p) \/ Continue(p) \/ Setup(p) \/ EndOutdated(p)

Next3 ==
  \/ \E f \in Files : Disk(f)
  \/ \E good \in BOOLEAN : ChangeConfig(good)
  \/ \E f \in Files, imports \in SUBSET Imports : Edit(f, imports)
  \/ \E p \in Procs : \/ Work(p)
                      \/ \E n \in 1 .. Len(events) : Deliver(p, n)
                      \/ \E f \in Files : PreAnalyze(p, f)

Spec3 == Init3 /\ [][Next3]_allVars

\* Lstat, the resolver, the imports and the downloads answer, and the event loop
\* resumes what awaits them.
FairSpec3 == Spec3 /\ \A p \in Procs : WF_allVars(Work(p))

-----------------------------------------------------------------------------
\* Every variable has its type.
TypeOK3 ==
  /\ GraphTypeOK
  /\ events \in Seq(Kinds \X (Files \cup {Config}))
  /\ batch \in [Procs -> Seq(Kinds \X (Files \cup {Config}))]
  /\ exists \in [Procs -> BOOLEAN]
  /\ edited \subseteq Files
  /\ digest \in [Procs -> SUBSET SUBSET Imports]
  /\ importsCache \in [Files -> SUBSET SUBSET Imports]
  /\ setup \in [Procs -> {"none", "modules", "loading", "failing", "compilers"}]
  /\ {valid, graphMade, initializeError} \subseteq BOOLEAN
  /\ outdated \in [Procs -> SUBSET Files]

\* Everything the client announced is handled.
Quiet == edited = {} /\ events = <<>> /\ \A p \in Procs : Free(p)

\* A digest enters the cache only when the walk it stands for is over and its
\* file is in the graph: neither a walk that threw nor a deletion in between
\* leaves a digest that makes later analyses skip the file (preAnalyze), unless
\* the walk was of a graph that has been replaced since.
CacheFollowsWalk ==
  [][\A f \in Files : importsCache'[f] \notin {importsCache[f], {}} =>
        \/ f \in files
        \/ \E p \in Procs : f \in outdated[p] /\ outdated'[p] = {}]_allVars

\* "Should be called when deleting a file (i.e. file deleted event)" (deleteFile
\* of LSPDependencyGraph): when all is handled no deleted file is in the graph.
QuietHasNoGhosts == Quiet => files \subseteq onDisk

\* "If imports didn't change, don't modify the dependency graph" (preAnalyze):
\* when all is handled, the graph resolves every import of the present texts of
\* its files to the file it names.
QuietResolvesImports ==
  Quiet => \A f \in files : \A i \in content[f] :
             Target[i] \in onDisk => <<i, Target[i]>> \in dependencies[f]

\* When all is handled, preAnalyze knows the imports of files of the graph only:
\* it skips no file that resolveImport knows nothing of.
QuietKnowsWalked == Quiet => \A f \in Files : importsCache[f] # {} => f \in files

\* "clear any potential error on restart" (initialize): when all is handled, the
\* error that a compilation reports is one of the configuration on disk.
QuietErrorIsReal == Quiet /\ initializeError => ~valid

\* Every handler and every analysis ends, whatever is thrown on the way.
WorkEnds == \A p \in Procs : ~Free(p) ~> Free(p)
=============================================================================
