-------------------------- MODULE WorkspaceIndexing --------------------------
(***************************************************************************)
(* The indexing of workspace folders (indexWorkspaceFolders.ts): a call    *)
(* takes the new top-level folders of an event, scans them for projects,   *)
(* initializes the projects it has not met, one after the other, finds the *)
(* Solidity files and associates each to the project of the highest        *)
(* priority that claims it.  The calls interleave at every await, with one *)
(* another, with the removal of folders and with the associations that a   *)
(* validation makes for a file that is not in the index.  A call that      *)
(* throws is over, and its folders stay in the list of indexed folders;    *)
(* what its failure lost is kept in a history that no guard reads.         *)
(*                                                                         *)
(* What a scan finds in a folder, and what a project claims, is a constant *)
(* of the model; a project whose initialization is not over answers        *)
(* fileBelongs with an error.                                              *)
(***************************************************************************)
EXTENDS Naturals, Sequences, FiniteSets

CONSTANTS Folders,     \* workspace folders, by uri
          StartsWith,  \* pairs <<f, g>>: the uri of f starts with that of g
          Inside,      \* pairs <<f, g>>: f is nested in g
          Projects,    \* projects, by configuration path
          Priority,    \* the priority of each project, above Projectless
          Found,       \* what the indexers find in a set of folders, in their order
          Files,       \* Solidity files
          FilesIn,     \* the files found in each folder
          ClaimedBy,   \* the projects that each file belongs to
          Calls,       \* slots for calls in flight
          MaxEvents    \* bound: workspace-folder events

ASSUME FolderAssumption ==
  /\ StartsWith \subseteq Folders \X Folders
  /\ Inside \subseteq StartsWith
  /\ \A f \in Folders : <<f, f>> \notin StartsWith
ASSUME ProjectAssumption ==
  /\ Priority \in [Projects -> Nat \ {0}]
  /\ Found \in [SUBSET Folders -> Seq(Projects)]
  /\ FilesIn \in [Folders -> SUBSET Files]
  /\ ClaimedBy \in [Files -> SUBSET Projects]
ASSUME BoundAssumption == MaxEvents \in Nat

Projectless == "projectless"
NoEntry     == "none"

ASSUME EntryAssumption == NoEntry \notin Projects

VARIABLES
  events,       \* number of events so far
  workspace,    \* client: the folders of the workspace
  indexedWorkspaceFolders,  \* copies of each folder in the list of this name
  projects,     \* keys of serverState.projects
  initialized,  \* projects whose initialize() is over
  solFileIndex, \* the project of each indexed file
  call,         \* the calls in flight
  scans,        \* history: scans of each folder
  removals,     \* history: removals of each folder
  starts,       \* history: initializations of each project
  lost          \* history: files that a failed call, or scan, has left out

vars == <<events, workspace, indexedWorkspaceFolders, projects, initialized,
          solFileIndex, call, scans, removals, starts, lost>>

NoCall == [pc |-> "idle", top |-> {}, found |-> <<>>, files |-> {},
           best |-> <<>>]

Init ==
  /\ events = 0
  /\ workspace = {}
  /\ indexedWorkspaceFolders = [f \in Folders |-> 0]
  /\ projects = {} /\ initialized = {}
  /\ solFileIndex = [s \in Files |-> NoEntry]
  /\ call = [c \in Calls |-> NoCall]
  /\ scans = [f \in Folders |-> 0]
  /\ removals = [f \in Folders |-> 0]
  /\ starts = [p \in Projects |-> 0]
  /\ lost = {}

-----------------------------------------------------------------------------
(* resolveTopLevelWorkspaceFolders.                                        *)

\* Mutant: a folder is compared with the other new ones only.
TopLevelOfNew(added) ==
  {f \in added : \A g \in added : <<f, g>> \notin StartsWith}

TopLevel(added) ==
  {f \in added :
     /\ \A g \in added : <<f, g>> \notin StartsWith
     /\ \A g \in Folders : indexedWorkspaceFolders[g] > 0 =>
                             f # g /\ <<f, g>> \notin StartsWith}

\* The list gets one more copy of each folder of fs.
Listed(fs) ==
  [f \in Folders |-> indexedWorkspaceFolders[f] + (IF f \in fs THEN 1 ELSE 0)]

\* Call c, for the folders `top`, goes on to `pc`: `found` are the projects it
\* has yet to look at, `files` the files it has yet to associate, and `best` the
\* file it associates, with its project.
Goto(c, pc, top, found, files, best) ==
  call' = [call EXCEPT ![c] = [pc |-> pc, top |-> top, found |-> found,
                               files |-> files, best |-> best]]

\* Call c throws, or has nothing more to do: what it did stays.
Ends(c) == call' = [call EXCEPT ![c] = NoCall]

\* A failure of call c leaves out these files, of the folders it was to index.
Lose(c, files) == lost' = IF call[c].top = {} THEN lost ELSE lost \cup files

FilesOf(fs) == UNION {FilesIn[f] : f \in fs}

workspaceVars == <<events, workspace, scans, removals>>
projectVars   == <<projects, initialized, starts>>

-----------------------------------------------------------------------------
(* Events.                                                                 *)

\* Folders are added, or an addition is announced again: the call marks its
\* top-level folders as indexed and starts to scan them.
FoldersAdded(c, added) ==
  /\ events < MaxEvents
  /\ call[c].pc = "idle"
  /\ events' = events + 1
  /\ workspace' = workspace \cup added
  /\ indexedWorkspaceFolders' = Listed(TopLevel(added))
  /\ scans' = [f \in Folders |-> scans[f] + (IF f \in TopLevel(added) THEN 1 ELSE 0)]
  /\ IF TopLevel(added) = {} THEN UNCHANGED call
     ELSE Goto(c, "scanning", TopLevel(added), <<>>, {}, <<>>)
  /\ UNCHANGED <<projectVars, solFileIndex, removals, lost>>

\* removeWorkspaceFolders.
FolderRemoved(f) ==
  /\ events < MaxEvents
  /\ f \in workspace
  /\ events' = events + 1
  /\ workspace' = workspace \ {f}
  /\ indexedWorkspaceFolders' = [indexedWorkspaceFolders EXCEPT ![f] = 0]
  /\ removals' = [removals EXCEPT ![f] = @ + 1]
  /\ UNCHANGED <<projectVars, solFileIndex, call, scans, lost>>

\* A validation finds no entry for the file and calls indexSolidityFile.
Validate(c, s) ==
  /\ call[c].pc = "idle"
  /\ solFileIndex[s] = NoEntry
  /\ Goto(c, "associating", {}, <<>>, {s}, <<>>)
  /\ UNCHANGED <<workspaceVars, projectVars, indexedWorkspaceFolders, solFileIndex,
                 lost>>

-----------------------------------------------------------------------------
(* A call of indexWorkspaceFolders.                                        *)

\* The indexers return the projects of the folders of the call.
ScanProjects(c) ==
  /\ call[c].pc = "scanning"
  /\ Goto(c, "projects", call[c].top, Found[call[c].top], {}, <<>>)
  /\ UNCHANGED <<workspaceVars, projectVars, indexedWorkspaceFolders, solFileIndex,
                 lost>>

\* An indexer throws, and with it the call: no project is stored, no file read.
ScanProjectsFails(c) ==
  /\ call[c].pc = "scanning"
  /\ Ends(c)
  /\ Lose(c, FilesOf(call[c].top))
  /\ UNCHANGED <<workspaceVars, projectVars, indexedWorkspaceFolders, solFileIndex>>

\* Mutant: a project initializes without having entered the map.
NextProjectUnlisted(c) ==
  /\ call[c].pc = "projects"
  /\ call[c].found # <<>>
  /\ LET p == Head(call[c].found)
     IN  IF p \in projects
         THEN /\ Goto(c, "projects", call[c].top, <<>>, {}, <<>>)
              /\ UNCHANGED starts
         ELSE /\ Goto(c, "initializing", call[c].top, call[c].found, {}, <<>>)
              /\ starts' = [starts EXCEPT ![p] = @ + 1]
  /\ UNCHANGED <<workspaceVars, projects, initialized, indexedWorkspaceFolders,
                 solFileIndex, lost>>

\* Mutant: a project that is in the map already ends the call.
NextProjectReturns(c) ==
  /\ call[c].pc = "projects"
  /\ call[c].found # <<>>
  /\ LET p == Head(call[c].found)
     IN  IF p \in projects
         THEN /\ Ends(c)
              /\ UNCHANGED <<projects, starts>>
         ELSE /\ Goto(c, "initializing", call[c].top, call[c].found, {}, <<>>)
              /\ projects' = projects \cup {p}
              /\ starts' = [starts EXCEPT ![p] = @ + 1]
  /\ UNCHANGED <<workspaceVars, initialized, indexedWorkspaceFolders, solFileIndex,
                 lost>>

\* The next project enters serverState.projects and initializes; one that is
\* there already ends the loop.
NextProject(c) ==
  /\ call[c].pc = "projects"
  /\ call[c].found # <<>>
  /\ LET p == Head(call[c].found)
     IN  IF p \in projects
         THEN /\ Goto(c, "projects", call[c].top, <<>>, {}, <<>>)
              /\ UNCHANGED <<projects, starts>>
         ELSE /\ Goto(c, "initializing", call[c].top, call[c].found, {}, <<>>)
              /\ projects' = projects \cup {p}
              /\ starts' = [starts EXCEPT ![p] = @ + 1]
  /\ UNCHANGED <<workspaceVars, initialized, indexedWorkspaceFolders, solFileIndex,
                 lost>>

\* initialize() returns or throws, and the loop goes on.
ProjectInitialized(c) ==
  /\ call[c].pc = "initializing"
  /\ initialized' = initialized \cup {Head(call[c].found)}
  /\ Goto(c, "projects", call[c].top, Tail(call[c].found), {}, <<>>)
  /\ UNCHANGED <<workspaceVars, projects, starts, indexedWorkspaceFolders,
                 solFileIndex, lost>>

\* scanForSolFiles: the files of the folders of the call, but for the folders
\* whose search throws, which it passes over.
ScanFiles(c) ==
  /\ call[c].pc = "projects"
  /\ call[c].found = <<>>
  /\ \E searched \in SUBSET call[c].top :
       /\ Goto(c, "associating", call[c].top, <<>>, FilesOf(searched), <<>>)
       /\ Lose(c, FilesOf(call[c].top) \ FilesOf(searched))
  /\ UNCHANGED <<workspaceVars, projectVars, indexedWorkspaceFolders, solFileIndex>>

\* findProjectForFile: of the projects in the map that claim the file, one of
\* the highest priority (the first); one that is initializing throws.
BestProjects(s) ==
  LET claims == projects \cap initialized \cap ClaimedBy[s]
  IN  IF claims = {} THEN {Projectless}
      ELSE {p \in claims : \A q \in claims : Priority[q] <= Priority[p]}

\* indexSolidityFile: the project of the next file is looked for, ...
FindProject(c, s) ==
  /\ call[c].pc = "associating"
  /\ s \in call[c].files
  /\ \E p \in BestProjects(s) :
       Goto(c, "reading", call[c].top, <<>>, call[c].files \ {s}, <<s, p>>)
  /\ UNCHANGED <<workspaceVars, projectVars, indexedWorkspaceFolders, solFileIndex,
                 lost>>

\* ... unless the file is gone, and has no entry, ...
SkipFile(c, s) ==
  /\ call[c].pc = "associating"
  /\ s \in call[c].files
  /\ Goto(c, "associating", call[c].top, <<>>, call[c].files \ {s}, <<>>)
  /\ Lose(c, {s})
  /\ UNCHANGED <<workspaceVars, projectVars, indexedWorkspaceFolders, solFileIndex>>

\* ... the file is read, and its entry is stored, in place of an older one, ...
StoreEntry(c) ==
  /\ call[c].pc = "reading"
  /\ solFileIndex' = [solFileIndex EXCEPT ![call[c].best[1]] = call[c].best[2]]
  /\ Goto(c, "associating", call[c].top, <<>>, call[c].files, <<>>)
  /\ UNCHANGED <<workspaceVars, projectVars, indexedWorkspaceFolders, lost>>

\* ... or cannot be read: the call throws, with all the files it has yet to read.
ReadFails(c) ==
  /\ call[c].pc = "reading"
  /\ Ends(c)
  /\ Lose(c, call[c].files \cup {call[c].best[1]})
  /\ UNCHANGED <<workspaceVars, projectVars, indexedWorkspaceFolders, solFileIndex>>

\* The folders of the call enter the list a second time.
EndCall(c) ==
  /\ call[c].pc = "associating"
  /\ call[c].files = {}
  /\ Ends(c)
  /\ indexedWorkspaceFolders' = Listed(call[c].top)
  /\ UNCHANGED <<workspaceVars, projectVars, solFileIndex, lost>>

-----------------------------------------------------------------------------
Step(c) ==
  \/ ScanProjects(c) \/ ScanProjectsFails(c)
  \/ NextProject(c) \/ ProjectInitialized(c) \/ ScanFiles(c)
  \/ \E s \in Files : FindProject(c, s) \/ SkipFile(c, s)
  \/ StoreEntry(c) \/ ReadFails(c) \/ EndCall(c)

Next ==
  \/ \E c \in Calls : \/ \E added \in SUBSET Folders \ {{}} : FoldersAdded(c, added)
                       \/ \E s \in Files : Validate(c, s)
                       \/ Step(c)
  \/ \E f \in Folders : FolderRemoved(f)

Spec == Init /\ [][Next]_vars

-----------------------------------------------------------------------------
\* Every variable has its type.
TypeOK ==
  /\ events \in 0 .. MaxEvents
  /\ workspace \subseteq Folders
  /\ indexedWorkspaceFolders \in [Folders -> Nat]
  /\ projects \subseteq Projects
  /\ initialized \subseteq projects
  /\ solFileIndex \in [Files -> Projects \cup {Projectless, NoEntry}]
  /\ call \in [Calls ->
       [pc : {"idle", "scanning", "projects", "initializing", "associating", "reading"},
        top : SUBSET Folders, found : Seq(Projects), files : SUBSET Files,
        best : {<<>>} \cup (Files \X (Projects \cup {Projectless}))]]
  /\ scans \in [Folders -> Nat]
  /\ removals \in [Folders -> Nat]
  /\ starts \in [Projects -> Nat]
  /\ lost \subseteq Files

\* A project is initialized once, whatever the number of calls that find it:
\* the test of the map and the entry into it are one step (NextProject).
InitializedOnce == \A p \in Projects : starts[p] <= 1

\* "Workspace change events are received duplicated": a folder is not scanned
\* again unless it was removed in between (the list is extended before the first
\* await of indexWorkspaceFolders).
ScannedOnce == \A f \in Folders : scans[f] <= removals[f] + 1

AtRest == \A c \in Calls : call[c].pc = "idle"

\* "Index sol files, and associate the matching project": at rest, every Solidity
\* file of a folder that was scanned has an entry, but for the files that a
\* failure has left out: those of a folder whose search threw, a file that was
\* gone when its turn came, the files that a call had yet to read when it threw.
RestFilesAreIndexed ==
  AtRest => \A f \in Folders : scans[f] > 0 =>
              \A s \in FilesIn[f] \ lost : solFileIndex[s] # NoEntry

\* The same of every file, whatever fails: a folder stays in the list when the
\* call that was to index it throws, so that nothing indexes its files later.
RestNoFileIsMissing ==
  AtRest => \A f \in Folders : scans[f] > 0 =>
              \A s \in FilesIn[f] : solFileIndex[s] # NoEntry

\* "Append to global project map if they are not already indexed": at rest, the
\* projects found in every folder that was scanned are in the map.
RestProjectsAreIndexed ==
  AtRest => \A f \in Folders : scans[f] > 0 =>
              \A i \in DOMAIN Found[{f}] : Found[{f}][i] \in projects

\* "We are only concerned with new folders that are top level": at rest, every
\* folder of the workspace is in the list or nested in one that is.
RestFoldersAreCovered ==
  AtRest => \A f \in workspace : \E g \in Folders :
              (f = g \/ <<f, g>> \in Inside) /\ scans[g] > 0

\* "A file will be given the default projectless project if no other project
\* claims the file": at rest, the entry of a file names a project of the highest
\* priority among those of the map that claim it.
RestFilesBelongToBest ==
  AtRest => \A s \in Files :
              solFileIndex[s] # NoEntry => solFileIndex[s] \in BestProjects(s)
=============================================================================
