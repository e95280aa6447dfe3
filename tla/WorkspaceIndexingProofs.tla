----------------------- MODULE WorkspaceIndexingProofs -----------------------
(***************************************************************************)
(* Proofs about the indexing of workspace folders, for any folders,        *)
(* projects, files and number of calls in flight.                          *)
(*                                                                         *)
(* Both guarantees rest on the same pattern: a call tests a collection and *)
(* extends it in one step, before its first await.  The inductive          *)
(* invariant relates the history of the calls to that collection: only a   *)
(* project of the map was started, and a scan of a folder that is not in   *)
(* the list any more was paid for by a removal.                            *)
(***************************************************************************)
EXTENDS WorkspaceIndexing, SequenceTheorems, TLAPS

Places == {"idle", "scanning", "projects", "initializing", "associating", "reading"}
Pairs == {<<>>} \cup (Files \X (Projects \cup {Projectless}))
CallRecords == [pc : Places, top : SUBSET Folders, found : Seq(Projects),
                files : SUBSET Files, best : Pairs]
Entries == Projects \cup {Projectless, NoEntry}

CollectionsTypeOK ==
  /\ events \in 0 .. MaxEvents
  /\ workspace \subseteq Folders
  /\ indexedWorkspaceFolders \in [Folders -> Nat]
  /\ projects \subseteq Projects
  /\ initialized \subseteq projects
  /\ solFileIndex \in [Files -> Entries]
  /\ scans \in [Folders -> Nat]
  /\ removals \in [Folders -> Nat]
  /\ starts \in [Projects -> Nat]
  /\ lost \subseteq Files

\* What a call has at hand where it stands.
CallOK(k) ==
  /\ k.pc = "initializing" => k.found # <<>> /\ Head(k.found) \in projects
  /\ k.pc = "reading" => k.best # <<>>

CallsOK == call \in [Calls -> CallRecords] /\ \A c \in Calls : CallOK(call[c])

\* A project was started if it is in the map, and then once.
StartedIsListed ==
  \A p \in Projects : starts[p] <= 1 /\ (p \notin projects => starts[p] = 0)

\* A folder was scanned once since it was last removed, if it is in the list.
ScannedIsListed ==
  \A f \in Folders :
    /\ scans[f] <= removals[f] + 1
    /\ indexedWorkspaceFolders[f] = 0 => scans[f] <= removals[f]

\* The inductive invariant.
IndexingInv == CollectionsTypeOK /\ CallsOK /\ StartedIsListed /\ ScannedIsListed

LEMMA InvariantImplies == IndexingInv => TypeOK /\ InitializedOnce /\ ScannedOnce
BY DEF IndexingInv, CollectionsTypeOK, CallsOK, StartedIsListed, ScannedIsListed, TypeOK,
       InitializedOnce, ScannedOnce, CallRecords, Places, Pairs, Entries

-----------------------------------------------------------------------------
(* Helpers *)

LEMMA NoCallType == NoCall \in CallRecords
BY EmptySeq DEF NoCall, CallRecords, Places, Pairs

LEMMA NoCallOK == CallOK(NoCall)
BY DEF NoCall, CallOK

\* A call that moves on: it gets its new record and the others keep theirs.
LEMMA GotoMoves ==
  ASSUME call \in [Calls -> CallRecords], NEW c \in Calls, NEW pc \in Places,
         NEW top \in SUBSET Folders, NEW found \in Seq(Projects),
         NEW left \in SUBSET Files, NEW best \in Pairs,
         Goto(c, pc, top, found, left, best)
  PROVE  /\ call' \in [Calls -> CallRecords]
         /\ call'[c] = [pc |-> pc, top |-> top, found |-> found, files |-> left, best |-> best]
         /\ \A d \in Calls : d # c => call'[d] = call[d]
<1> DEFINE k == [pc |-> pc, top |-> top, found |-> found, files |-> left, best |-> best]
<1>1. k \in CallRecords
  BY DEF CallRecords
<1>2. call' = [call EXCEPT ![c] = k]
  BY DEF Goto
<1> HIDE DEF k
<1>3. call' \in [Calls -> CallRecords] /\ call'[c] = k
      /\ \A d \in Calls : d # c => call'[d] = call[d]
  BY <1>1, <1>2
<1> QED BY <1>3 DEF k

\* The calls stay well formed when one of them moves on to such a place and the
\* map of projects does not shrink.
LEMMA GotoKeeps ==
  ASSUME CallsOK, projects \subseteq projects', NEW c \in Calls, NEW pc \in Places,
         NEW top \in SUBSET Folders, NEW found \in Seq(Projects),
         NEW left \in SUBSET Files, NEW best \in Pairs,
         Goto(c, pc, top, found, left, best),
         pc = "initializing" => found # <<>> /\ Head(found) \in projects',
         pc = "reading" => best # <<>>
  PROVE  CallsOK'
<1>1. call' \in [Calls -> CallRecords]
      /\ call'[c] = [pc |-> pc, top |-> top, found |-> found, files |-> left, best |-> best]
      /\ \A d \in Calls : d # c => call'[d] = call[d]
  BY GotoMoves DEF CallsOK
<1>2. \A d \in Calls : CallOK(call[d])
  BY DEF CallsOK
<1>3. ASSUME NEW d \in Calls PROVE CallOK(call[d])'
  <2>1. CASE d = c
    BY <1>1, <2>1 DEF CallOK
  <2>2. CASE d # c
    BY <1>1, <1>2, <2>2 DEF CallOK
  <2> QED BY <2>1, <2>2
<1> QED BY <1>1, <1>3 DEF CallsOK

LEMMA CallsStay ==
  ASSUME CallsOK, UNCHANGED call, projects \subseteq projects'
  PROVE  CallsOK'
BY DEF CallsOK, CallOK

LEMMA CallEnds ==
  ASSUME CallsOK, projects' = projects, NEW c \in Calls,
         call' = [call EXCEPT ![c] = NoCall]
  PROVE  CallsOK'
<1>1. call' \in [Calls -> CallRecords] /\ call'[c] = NoCall
      /\ \A d \in Calls : d # c => call'[d] = call[d]
  BY NoCallType DEF CallsOK
<1>2. ASSUME NEW d \in Calls PROVE CallOK(call[d])'
  <2>1. CASE d = c
    BY <1>1, <2>1, NoCallOK DEF CallOK, NoCall
  <2>2. CASE d # c
    BY <1>1, <2>2 DEF CallOK, CallsOK
  <2> QED BY <2>1, <2>2
<1> QED BY <1>1, <1>2 DEF CallsOK

LEMMA CallTypes ==
  ASSUME CallsOK, NEW c \in Calls
  PROVE  /\ call[c].top \in SUBSET Folders
         /\ call[c].found \in Seq(Projects)
         /\ call[c].files \in SUBSET Files
         /\ call[c].best \in Pairs
         /\ CallOK(call[c])
BY DEF CallsOK, CallRecords

\* The list grows by the folders given.
LEMMA ListedGrows ==
  ASSUME indexedWorkspaceFolders \in [Folders -> Nat], NEW fs \in SUBSET Folders
  PROVE  /\ Listed(fs) \in [Folders -> Nat]
         /\ \A f \in Folders : Listed(fs)[f] >= indexedWorkspaceFolders[f]
         /\ \A f \in fs : Listed(fs)[f] > 0
BY DEF Listed

\* Only a folder that is not in the list is scanned.
LEMMA TopLevelIsNew ==
  ASSUME NEW added \in SUBSET Folders, indexedWorkspaceFolders \in [Folders -> Nat]
  PROVE  /\ TopLevel(added) \in SUBSET Folders
         /\ \A f \in TopLevel(added) : indexedWorkspaceFolders[f] = 0
<1>1. \A f \in TopLevel(added) : f \in added
  BY DEF TopLevel
<1>2. ASSUME NEW f \in TopLevel(added)
      PROVE  indexedWorkspaceFolders[f] = 0
  <2>1. f \in Folders /\ indexedWorkspaceFolders[f] \in Nat
    BY <1>1
  <2>2. ~(indexedWorkspaceFolders[f] > 0)
    BY <2>1 DEF TopLevel
  <2> QED BY <2>1, <2>2
<1> QED BY <1>1, <1>2

LEMMA BestIsProject ==
  ASSUME projects \subseteq Projects, NEW s \in Files
  PROVE  BestProjects(s) \subseteq Projects \cup {Projectless}
BY DEF BestProjects

LEMMA FilesOfType ==
  ASSUME NEW fs \in SUBSET Folders
  PROVE  FilesOf(fs) \in SUBSET Files
BY ProjectAssumption DEF FilesOf

LEMMA LoseType ==
  ASSUME lost \subseteq Files, NEW c \in Calls, NEW left \in SUBSET Files, Lose(c, left)
  PROVE  lost' \subseteq Files
BY DEF Lose

-----------------------------------------------------------------------------
(* Init and the events *)

LEMMA InitIndexing == Init => IndexingInv
<1> SUFFICES ASSUME Init PROVE IndexingInv
  OBVIOUS
<1>1. CollectionsTypeOK
  BY BoundAssumption DEF Init, CollectionsTypeOK, Entries
<1>2. CallsOK
  BY NoCallType, NoCallOK DEF Init, CallsOK
<1>3. StartedIsListed /\ ScannedIsListed
  BY DEF Init, StartedIsListed, ScannedIsListed
<1> QED BY <1>1, <1>2, <1>3 DEF IndexingInv

LEMMA FoldersAddedStep ==
  ASSUME IndexingInv, NEW c \in Calls, NEW added \in SUBSET Folders, FoldersAdded(c, added)
  PROVE  IndexingInv'
<1> DEFINE top == TopLevel(added)
<1>1. top \in SUBSET Folders /\ \A f \in top : indexedWorkspaceFolders[f] = 0
  BY TopLevelIsNew DEF IndexingInv, CollectionsTypeOK
<1>2. /\ events' \in 0 .. MaxEvents /\ workspace' \subseteq Folders
      /\ UNCHANGED <<projectVars, solFileIndex, removals, lost>>
      /\ scans' = [f \in Folders |-> scans[f] + (IF f \in top THEN 1 ELSE 0)]
      /\ indexedWorkspaceFolders' = Listed(top)
  BY BoundAssumption DEF FoldersAdded, IndexingInv, CollectionsTypeOK
<1>3. /\ indexedWorkspaceFolders' \in [Folders -> Nat]
      /\ \A f \in Folders : indexedWorkspaceFolders'[f] >= indexedWorkspaceFolders[f]
      /\ \A f \in top : indexedWorkspaceFolders'[f] > 0
  BY <1>1, <1>2, ListedGrows DEF IndexingInv, CollectionsTypeOK
<1>4. CallsOK'
  <2>1. CASE top = {}
    BY <1>2, <2>1, CallsStay DEF FoldersAdded, IndexingInv, projectVars
  <2>2. CASE top # {}
    <3>1. Goto(c, "scanning", top, <<>>, {}, <<>>)
      BY <2>2 DEF FoldersAdded
    <3>2. "scanning" \in Places /\ <<>> \in Seq(Projects) /\ {} \in SUBSET Files /\ <<>> \in Pairs
      BY EmptySeq DEF Places, Pairs
    <3>3. projects \subseteq projects'
      BY <1>2 DEF projectVars
    <3> HIDE DEF top
    <3> QED BY <1>1, <3>1, <3>2, <3>3, GotoKeeps DEF IndexingInv
  <2> QED BY <2>1, <2>2
<1> HIDE DEF top
<1>5. scans' \in [Folders -> Nat]
      /\ \A f \in Folders : scans'[f] = IF f \in top THEN scans[f] + 1 ELSE scans[f]
  BY <1>2 DEF IndexingInv, CollectionsTypeOK
<1>6. CollectionsTypeOK'
  BY <1>2, <1>3, <1>5 DEF IndexingInv, CollectionsTypeOK, projectVars
<1>7. StartedIsListed'
  BY <1>2 DEF IndexingInv, StartedIsListed, projectVars
<1>8. ScannedIsListed'
  <2> SUFFICES ASSUME NEW f \in Folders
               PROVE  /\ scans'[f] <= removals'[f] + 1
                      /\ indexedWorkspaceFolders'[f] = 0 => scans'[f] <= removals'[f]
    BY DEF ScannedIsListed
  <2>1. /\ scans[f] \in Nat /\ removals[f] \in Nat /\ removals'[f] = removals[f]
        /\ indexedWorkspaceFolders[f] \in Nat /\ indexedWorkspaceFolders'[f] \in Nat
    BY <1>2, <1>3 DEF IndexingInv, CollectionsTypeOK
  <2>2. CASE f \in top
    BY <1>1, <1>3, <1>5, <2>1, <2>2 DEF IndexingInv, ScannedIsListed
  <2>3. CASE f \notin top
    BY <1>3, <1>5, <2>1, <2>3 DEF IndexingInv, ScannedIsListed
  <2> QED BY <2>2, <2>3
<1> QED BY <1>4, <1>6, <1>7, <1>8 DEF IndexingInv

LEMMA FolderRemovedStep ==
  ASSUME IndexingInv, NEW g \in Folders, FolderRemoved(g)
  PROVE  IndexingInv'
<1>1. CallsOK'
  BY CallsStay DEF FolderRemoved, projectVars, IndexingInv
<1>2. /\ indexedWorkspaceFolders' \in [Folders -> Nat] /\ removals' \in [Folders -> Nat]
      /\ removals'[g] = removals[g] + 1
      /\ \A f \in Folders : f # g => /\ indexedWorkspaceFolders'[f] = indexedWorkspaceFolders[f]
                                     /\ removals'[f] = removals[f]
  BY DEF FolderRemoved, IndexingInv, CollectionsTypeOK
<1>3. events' \in 0 .. MaxEvents
  BY BoundAssumption DEF FolderRemoved, IndexingInv, CollectionsTypeOK
<1>4. CollectionsTypeOK' /\ StartedIsListed'
  BY <1>2, <1>3 DEF FolderRemoved, IndexingInv, CollectionsTypeOK, StartedIsListed, projectVars
<1>5. ScannedIsListed'
  <2> SUFFICES ASSUME NEW f \in Folders
               PROVE  /\ scans'[f] <= removals'[f] + 1
                      /\ indexedWorkspaceFolders'[f] = 0 => scans'[f] <= removals'[f]
    BY DEF ScannedIsListed
  <2>1. scans'[f] = scans[f] /\ scans[f] \in Nat /\ removals[f] \in Nat
    BY DEF FolderRemoved, IndexingInv, CollectionsTypeOK
  <2>2. CASE f = g
    BY <1>2, <2>1, <2>2 DEF IndexingInv, ScannedIsListed
  <2>3. CASE f # g
    BY <1>2, <2>1, <2>3 DEF IndexingInv, ScannedIsListed
  <2> QED BY <2>2, <2>3
<1> QED BY <1>1, <1>4, <1>5 DEF IndexingInv

-----------------------------------------------------------------------------
(* The steps of a call *)

\* A step that only moves a call on.
LEMMA MoveKeeps ==
  ASSUME IndexingInv, CallsOK', lost' \subseteq Files,
         UNCHANGED <<workspaceVars, projectVars, indexedWorkspaceFolders, solFileIndex>>
  PROVE  IndexingInv'
BY DEF IndexingInv, CollectionsTypeOK, StartedIsListed, ScannedIsListed, workspaceVars, projectVars

LEMMA ValidateStep ==
  ASSUME IndexingInv, NEW c \in Calls, NEW s \in Files, Validate(c, s)
  PROVE  IndexingInv'
<1>1. Goto(c, "associating", {}, <<>>, {s}, <<>>) /\ projects \subseteq projects'
  BY DEF Validate, projectVars
<1>2. "associating" \in Places /\ <<>> \in Seq(Projects) /\ {s} \in SUBSET Files /\ <<>> \in Pairs
  BY EmptySeq DEF Places, Pairs
<1>3. CallsOK'
  BY <1>1, <1>2, GotoKeeps DEF IndexingInv
<1> QED BY <1>3, MoveKeeps DEF Validate, IndexingInv, CollectionsTypeOK

LEMMA ScanProjectsStep ==
  ASSUME IndexingInv, NEW c \in Calls, ScanProjects(c)
  PROVE  IndexingInv'
<1>1. Goto(c, "projects", call[c].top, Found[call[c].top], {}, <<>>) /\ projects \subseteq projects'
  BY DEF ScanProjects, projectVars
<1>2. call[c].top \in SUBSET Folders
  BY CallTypes DEF IndexingInv
<1>3. "projects" \in Places /\ Found[call[c].top] \in Seq(Projects) /\ {} \in SUBSET Files
      /\ <<>> \in Pairs
  BY <1>2, ProjectAssumption DEF Places, Pairs
<1>4. CallsOK'
  BY <1>1, <1>2, <1>3, GotoKeeps DEF IndexingInv
<1> QED BY <1>4, MoveKeeps DEF ScanProjects, IndexingInv, CollectionsTypeOK

\* The test of the map and the entry into it are one step.
LEMMA NextProjectStep ==
  ASSUME IndexingInv, NEW c \in Calls, NextProject(c)
  PROVE  IndexingInv'
<1> DEFINE p == Head(call[c].found)
<1>1. /\ call[c].top \in SUBSET Folders /\ call[c].found \in Seq(Projects)
      /\ call[c].found # <<>>
  BY CallTypes DEF IndexingInv, NextProject
<1>2. p \in Projects
  BY <1>1, HeadTailProperties
<1>3. /\ {"projects", "initializing"} \subseteq Places /\ <<>> \in Seq(Projects)
      /\ {} \in SUBSET Files /\ <<>> \in Pairs
  BY EmptySeq DEF Places, Pairs
<1>4. UNCHANGED <<workspaceVars, initialized, indexedWorkspaceFolders, solFileIndex, lost>>
  BY DEF NextProject
<1>5. CASE p \in projects
  <2>1. Goto(c, "projects", call[c].top, <<>>, {}, <<>>) /\ UNCHANGED <<projects, starts>>
    BY <1>5 DEF NextProject
  <2>2. CallsOK'
    BY <1>1, <1>3, <2>1, GotoKeeps DEF IndexingInv
  <2> QED BY <1>4, <2>1, <2>2, MoveKeeps DEF projectVars, IndexingInv, CollectionsTypeOK
<1>6. CASE p \notin projects
  <2>1. /\ Goto(c, "initializing", call[c].top, call[c].found, {}, <<>>)
        /\ projects' = projects \cup {p}
        /\ starts' = [starts EXCEPT ![p] = @ + 1]
    BY <1>6 DEF NextProject
  <2>2. projects \subseteq projects' /\ Head(call[c].found) \in projects'
    BY <2>1
  <2> HIDE DEF p
  <2>3. CallsOK'
    BY <1>1, <1>3, <2>1, <2>2, GotoKeeps DEF IndexingInv
  <2>4. CollectionsTypeOK'
    BY <1>2, <1>4, <2>1 DEF IndexingInv, CollectionsTypeOK, workspaceVars
  <2>5. StartedIsListed'
    BY <1>2, <1>6, <2>1 DEF IndexingInv, CollectionsTypeOK, StartedIsListed
  <2>6. ScannedIsListed'
    BY <1>4 DEF IndexingInv, ScannedIsListed, workspaceVars
  <2> QED BY <2>3, <2>4, <2>5, <2>6 DEF IndexingInv
<1> QED BY <1>5, <1>6

LEMMA ProjectInitializedStep ==
  ASSUME IndexingInv, NEW c \in Calls, ProjectInitialized(c)
  PROVE  IndexingInv'
<1>1. /\ call[c].top \in SUBSET Folders /\ call[c].found \in Seq(Projects)
      /\ call[c].found # <<>> /\ Head(call[c].found) \in projects
  BY CallTypes DEF IndexingInv, CallOK, ProjectInitialized
<1>2. "projects" \in Places /\ Tail(call[c].found) \in Seq(Projects) /\ {} \in SUBSET Files
      /\ <<>> \in Pairs
  BY <1>1, HeadTailProperties DEF Places, Pairs
<1>3. /\ Goto(c, "projects", call[c].top, Tail(call[c].found), {}, <<>>)
      /\ initialized' = initialized \cup {Head(call[c].found)}
      /\ UNCHANGED <<workspaceVars, projects, starts, indexedWorkspaceFolders, solFileIndex, lost>>
  BY DEF ProjectInitialized
<1>4. projects \subseteq projects'
  BY <1>3
<1>5. CallsOK'
  BY <1>1, <1>2, <1>3, <1>4, GotoKeeps DEF IndexingInv
<1>6. initialized' \subseteq projects'
  BY <1>1, <1>3 DEF IndexingInv, CollectionsTypeOK
<1> QED BY <1>3, <1>5, <1>6 DEF IndexingInv, CollectionsTypeOK, StartedIsListed, ScannedIsListed,
                               workspaceVars

\* A call that fails ends, and loses files.
LEMMA FailureKeeps ==
  ASSUME IndexingInv, NEW c \in Calls, NEW left \in SUBSET Files, Ends(c), Lose(c, left),
         UNCHANGED <<workspaceVars, projectVars, indexedWorkspaceFolders, solFileIndex>>
  PROVE  IndexingInv'
<1>1. CallsOK'
  BY CallEnds DEF Ends, IndexingInv, projectVars
<1>2. lost' \subseteq Files
  BY LoseType DEF IndexingInv, CollectionsTypeOK
<1> QED BY <1>1, <1>2, MoveKeeps

LEMMA ScanProjectsFailsStep ==
  ASSUME IndexingInv, NEW c \in Calls, ScanProjectsFails(c)
  PROVE  IndexingInv'
<1>1. FilesOf(call[c].top) \in SUBSET Files
  BY CallTypes, FilesOfType DEF IndexingInv
<1> QED BY <1>1, FailureKeeps DEF ScanProjectsFails

LEMMA ScanFilesStep ==
  ASSUME IndexingInv, NEW c \in Calls, ScanFiles(c)
  PROVE  IndexingInv'
<1>1. PICK searched \in SUBSET call[c].top :
        /\ Goto(c, "associating", call[c].top, <<>>, FilesOf(searched), <<>>)
        /\ Lose(c, FilesOf(call[c].top) \ FilesOf(searched))
  BY DEF ScanFiles
<1>2. call[c].top \in SUBSET Folders /\ searched \in SUBSET Folders
  BY CallTypes DEF IndexingInv
<1>3. FilesOf(searched) \in SUBSET Files /\ FilesOf(call[c].top) \in SUBSET Files
  BY <1>2, FilesOfType
<1>4. "associating" \in Places /\ <<>> \in Seq(Projects) /\ <<>> \in Pairs
      /\ projects \subseteq projects'
  BY EmptySeq DEF Places, Pairs, ScanFiles, projectVars
<1>5. CallsOK'
  BY <1>1, <1>2, <1>3, <1>4, GotoKeeps DEF IndexingInv
<1>6. lost' \subseteq Files
  BY <1>1, <1>3, LoseType DEF IndexingInv, CollectionsTypeOK
<1> QED BY <1>5, <1>6, MoveKeeps DEF ScanFiles

LEMMA SkipFileStep ==
  ASSUME IndexingInv, NEW c \in Calls, NEW s \in Files, SkipFile(c, s)
  PROVE  IndexingInv'
<1>1. call[c].top \in SUBSET Folders /\ call[c].files \ {s} \in SUBSET Files
  BY CallTypes DEF IndexingInv
<1>2. /\ Goto(c, "associating", call[c].top, <<>>, call[c].files \ {s}, <<>>)
      /\ Lose(c, {s}) /\ projects \subseteq projects'
  BY DEF SkipFile, projectVars
<1>3. "associating" \in Places /\ <<>> \in Seq(Projects) /\ <<>> \in Pairs
  BY EmptySeq DEF Places, Pairs
<1>4. CallsOK'
  BY <1>1, <1>2, <1>3, GotoKeeps DEF IndexingInv
<1>5. lost' \subseteq Files
  BY <1>2, LoseType DEF IndexingInv, CollectionsTypeOK
<1> QED BY <1>4, <1>5, MoveKeeps DEF SkipFile

LEMMA ReadFailsStep ==
  ASSUME IndexingInv, NEW c \in Calls, ReadFails(c)
  PROVE  IndexingInv'
<1>1. /\ call[c].files \in SUBSET Files /\ call[c].best \in Pairs /\ call[c].best # <<>>
  BY CallTypes DEF IndexingInv, CallOK, ReadFails
<1>2. call[c].files \cup {call[c].best[1]} \in SUBSET Files
  BY <1>1 DEF Pairs
<1> QED BY <1>2, FailureKeeps DEF ReadFails

LEMMA FindProjectStep ==
  ASSUME IndexingInv, NEW c \in Calls, NEW s \in Files, FindProject(c, s)
  PROVE  IndexingInv'
<1>1. PICK p \in BestProjects(s) :
        Goto(c, "reading", call[c].top, <<>>, call[c].files \ {s}, <<s, p>>)
  BY DEF FindProject
<1>2. p \in Projects \cup {Projectless}
  BY <1>1, BestIsProject DEF IndexingInv, CollectionsTypeOK
<1>3. <<s, p>> \in Pairs /\ <<s, p>> # <<>> /\ "reading" \in Places /\ <<>> \in Seq(Projects)
  BY <1>2, EmptySeq DEF Pairs, Places
<1>4. call[c].top \in SUBSET Folders /\ call[c].files \ {s} \in SUBSET Files
  BY CallTypes DEF IndexingInv
<1>5. projects \subseteq projects'
  BY DEF FindProject, projectVars
<1>6. CallsOK'
  BY <1>1, <1>3, <1>4, <1>5, GotoKeeps DEF IndexingInv
<1> QED BY <1>6, MoveKeeps DEF FindProject, IndexingInv, CollectionsTypeOK

LEMMA StoreEntryStep ==
  ASSUME IndexingInv, NEW c \in Calls, StoreEntry(c)
  PROVE  IndexingInv'
<1>1. /\ call[c].top \in SUBSET Folders /\ call[c].files \in SUBSET Files
      /\ call[c].best \in Pairs /\ call[c].best # <<>>
  BY CallTypes DEF IndexingInv, CallOK, StoreEntry
<1>2. call[c].best[1] \in Files /\ call[c].best[2] \in Projects \cup {Projectless}
  BY <1>1 DEF Pairs
<1>3. "associating" \in Places /\ <<>> \in Seq(Projects) /\ <<>> \in Pairs
  BY EmptySeq DEF Places, Pairs
<1>4. /\ Goto(c, "associating", call[c].top, <<>>, call[c].files, <<>>)
      /\ solFileIndex' = [solFileIndex EXCEPT ![call[c].best[1]] = call[c].best[2]]
      /\ UNCHANGED <<workspaceVars, projectVars, indexedWorkspaceFolders, lost>>
  BY DEF StoreEntry
<1>5. projects \subseteq projects'
  BY <1>4 DEF projectVars
<1>6. CallsOK'
  BY <1>1, <1>3, <1>4, <1>5, GotoKeeps DEF IndexingInv
<1>7. solFileIndex' \in [Files -> Entries]
  BY <1>2, <1>4 DEF IndexingInv, CollectionsTypeOK, Entries
<1> QED BY <1>4, <1>6, <1>7 DEF IndexingInv, CollectionsTypeOK, StartedIsListed, ScannedIsListed,
                               workspaceVars, projectVars

LEMMA EndCallStep ==
  ASSUME IndexingInv, NEW c \in Calls, EndCall(c)
  PROVE  IndexingInv'
<1>1. /\ call' = [call EXCEPT ![c] = NoCall] /\ indexedWorkspaceFolders' = Listed(call[c].top)
      /\ UNCHANGED <<workspaceVars, projectVars, solFileIndex, lost>>
  BY DEF EndCall, Ends
<1>2. CallsOK'
  BY <1>1, CallEnds DEF IndexingInv, projectVars
<1>3. call[c].top \in SUBSET Folders
  BY CallTypes DEF IndexingInv
<1>4. /\ indexedWorkspaceFolders' \in [Folders -> Nat]
      /\ \A f \in Folders : indexedWorkspaceFolders'[f] >= indexedWorkspaceFolders[f]
  BY <1>1, <1>3, ListedGrows DEF IndexingInv, CollectionsTypeOK
<1>5. CollectionsTypeOK' /\ StartedIsListed'
  BY <1>1, <1>4 DEF IndexingInv, CollectionsTypeOK, StartedIsListed, workspaceVars, projectVars
<1>6. ScannedIsListed'
  <2> SUFFICES ASSUME NEW f \in Folders
               PROVE  /\ scans'[f] <= removals'[f] + 1
                      /\ indexedWorkspaceFolders'[f] = 0 => scans'[f] <= removals'[f]
    BY DEF ScannedIsListed
  <2>1. /\ indexedWorkspaceFolders[f] \in Nat /\ indexedWorkspaceFolders'[f] \in Nat
        /\ indexedWorkspaceFolders'[f] >= indexedWorkspaceFolders[f]
        /\ scans' = scans /\ removals' = removals
    BY <1>1, <1>4 DEF IndexingInv, CollectionsTypeOK, workspaceVars
  <2> QED BY <2>1 DEF IndexingInv, ScannedIsListed
<1> QED BY <1>2, <1>5, <1>6 DEF IndexingInv

-----------------------------------------------------------------------------
LEMMA NextKeeps ==
  ASSUME IndexingInv, [Next]_vars
  PROVE  IndexingInv'
<1>1. CASE UNCHANGED vars
  <2>1. CallsOK'
    BY <1>1, CallsStay DEF vars, IndexingInv
  <2> QED BY <1>1, <2>1, MoveKeeps
             DEF vars, workspaceVars, projectVars, IndexingInv, CollectionsTypeOK
<1>2. ASSUME NEW c \in Calls, NEW added \in SUBSET Folders, FoldersAdded(c, added)
      PROVE  IndexingInv'
  BY <1>2, FoldersAddedStep
<1>3. ASSUME NEW c \in Calls, Step(c)
      PROVE  IndexingInv'
  BY <1>3, ScanProjectsStep, ScanProjectsFailsStep, NextProjectStep, ProjectInitializedStep,
     ScanFilesStep, FindProjectStep, SkipFileStep, StoreEntryStep, ReadFailsStep, EndCallStep
     DEF Step
<1> QED BY <1>1, <1>2, <1>3, ValidateStep, FolderRemovedStep DEF Next

\* The inductive invariant of the indexing: types, what a call has at hand, and
\* what was started or scanned against the map and the list.
THEOREM IndexingInvariant == Spec => []IndexingInv
<1> QED BY InitIndexing, NextKeeps, PTL DEF Spec

\* Every reachable state of the indexing is well typed.
THEOREM IndexingTypesCorrect == Spec => []TypeOK
BY IndexingInvariant, InvariantImplies, PTL

\* A project is initialized once, whatever the number of calls that find it.
THEOREM ProjectsInitializeOnce == Spec => []InitializedOnce
BY IndexingInvariant, InvariantImplies, PTL

\* A folder is scanned again only if it was removed in between, however often its
\* addition is announced.
THEOREM FoldersAreScannedOnce == Spec => []ScannedOnce
BY IndexingInvariant, InvariantImplies, PTL

-----------------------------------------------------------------------------
(* The files of the folders that were scanned *)

\* A call whose record is k is to give file s of folder f, which it indexes, an
\* entry.
WillIndex(k, f, s) ==
  /\ f \in k.top
  /\ \/ k.pc \in {"scanning", "projects", "initializing"}
     \/ k.pc \in {"associating", "reading"} /\ s \in k.files
     \/ k.pc = "reading" /\ s = k.best[1]

\* A file that needs nobody's care: it has an entry, or a failure has left it out.
Settled(s) == solFileIndex[s] # NoEntry \/ s \in lost

\* A file of a folder that was scanned has an entry, is lost to a failure, or a call
\* is to give it an entry.
FilesAreIndexed ==
  \A f \in Folders : scans[f] > 0 =>
    \A s \in FilesIn[f] : Settled(s) \/ \E c \in Calls : WillIndex(call[c], f, s)

\* The inductive invariant.
FilesInv == IndexingInv /\ FilesAreIndexed

\* The step unsettles no file.
SettledStay == \A s \in Files : Settled(s) => Settled(s)'

\* Call c goes on to record k, and forgets no file on the way.
LEMMA CallRemembers ==
  ASSUME FilesInv, NEW c \in Calls, NEW k, call' = [call EXCEPT ![c] = k], SettledStay,
         \A f \in Folders : \A s \in FilesIn[f] :
           /\ scans'[f] > 0 => scans[f] > 0 \/ WillIndex(k, f, s)
           /\ WillIndex(call[c], f, s) => WillIndex(k, f, s) \/ Settled(s)'
  PROVE  FilesAreIndexed'
<1> SUFFICES ASSUME NEW f \in Folders, scans'[f] > 0, NEW s \in FilesIn[f]
             PROVE  Settled(s)' \/ \E d \in Calls : WillIndex(call'[d], f, s)
  BY DEF FilesAreIndexed, WillIndex
<1>0. /\ s \in Files /\ call'[c] = k
      /\ \A d \in Calls : d # c => call'[d] = call[d]
  BY ProjectAssumption DEF FilesInv, IndexingInv, CallsOK
<1>1. CASE WillIndex(k, f, s)
  BY <1>0, <1>1
<1>2. CASE ~WillIndex(k, f, s)
  <2>1. Settled(s) \/ \E d \in Calls : WillIndex(call[d], f, s)
    BY <1>2 DEF FilesInv, FilesAreIndexed
  <2>2. CASE Settled(s)
    BY <1>0, <2>2 DEF SettledStay
  <2>3. ASSUME NEW d \in Calls, WillIndex(call[d], f, s)
        PROVE  Settled(s)' \/ \E e \in Calls : WillIndex(call'[e], f, s)
    <3>1. CASE d = c
      BY <1>2, <2>3, <3>1
    <3>2. CASE d # c
      <4>1. call'[d] = call[d]
        BY <1>0, <3>2
      <4> QED BY <2>3, <4>1
    <3> QED BY <3>1, <3>2
  <2> QED BY <2>1, <2>2, <2>3
<1> QED BY <1>1, <1>2

\* Nothing moves but, perhaps, the folders of the workspace.
LEMMA NobodyForgets ==
  ASSUME FilesInv, UNCHANGED <<call, scans, solFileIndex, lost>>
  PROVE  FilesAreIndexed'
BY DEF FilesInv, FilesAreIndexed, WillIndex, Settled

LEMMA UntouchedStay ==
  ASSUME UNCHANGED <<solFileIndex, lost>>
  PROVE  SettledStay
BY DEF SettledStay, Settled

\* What a call loses is settled, if it was there to index folders.
LEMMA LostAreSettled ==
  ASSUME NEW c \in Calls, NEW left, Lose(c, left), UNCHANGED solFileIndex
  PROVE  /\ SettledStay
         /\ call[c].top # {} => \A s \in left : Settled(s)'
BY DEF Lose, SettledStay, Settled

LEMMA FoldersAddedRemembers ==
  ASSUME FilesInv, NEW c \in Calls, NEW added \in SUBSET Folders, FoldersAdded(c, added)
  PROVE  FilesAreIndexed'
<1>1. PICK top : top = TopLevel(added)
  OBVIOUS
<1>2. /\ scans' = [f \in Folders |-> scans[f] + (IF f \in top THEN 1 ELSE 0)]
      /\ UNCHANGED <<solFileIndex, lost>> /\ call[c].pc = "idle"
      /\ scans \in [Folders -> Nat]
  BY <1>1 DEF FoldersAdded, FilesInv, IndexingInv, CollectionsTypeOK
<1>3. \A f \in Folders : scans'[f] > 0 => scans[f] > 0 \/ f \in top
  BY <1>2
<1>4. CASE top = {}
  <2>1. \A f \in Folders : scans'[f] = scans[f]
    BY <1>2, <1>4
  <2>2. UNCHANGED call
    BY <1>1, <1>4 DEF FoldersAdded
  <2> QED BY <1>2, <2>1, <2>2 DEF FilesInv, FilesAreIndexed, WillIndex, Settled
<1>5. CASE top # {}
  <2>1. PICK k : k = [pc |-> "scanning", top |-> top, found |-> <<>>, files |-> {}, best |-> <<>>]
    OBVIOUS
  <2>2. call' = [call EXCEPT ![c] = k]
    BY <1>1, <1>5, <2>1 DEF FoldersAdded, Goto
  <2>3. \A f \in Folders : \A s \in FilesIn[f] :
          /\ scans'[f] > 0 => scans[f] > 0 \/ WillIndex(k, f, s)
          /\ ~WillIndex(call[c], f, s)
    BY <1>2, <1>3, <2>1 DEF WillIndex
  <2> QED BY <1>2, <2>2, <2>3, UntouchedStay, CallRemembers
<1> QED BY <1>4, <1>5

LEMMA ValidateRemembers ==
  ASSUME FilesInv, NEW c \in Calls, NEW s \in Files, Validate(c, s)
  PROVE  FilesAreIndexed'
<1>1. PICK k : k = [pc |-> "associating", top |-> {}, found |-> <<>>, files |-> {s}, best |-> <<>>]
  OBVIOUS
<1>2. call' = [call EXCEPT ![c] = k] /\ UNCHANGED <<solFileIndex, scans, lost>>
  BY <1>1 DEF Validate, Goto, workspaceVars
<1>3. \A f \in Folders : \A r \in FilesIn[f] : ~WillIndex(call[c], f, r)
  BY DEF Validate, WillIndex
<1> QED BY <1>2, <1>3, UntouchedStay, CallRemembers

\* Until its files are known a call keeps its folders.
LEMMA EarlyStepsRemember ==
  ASSUME FilesInv, NEW c \in Calls, ScanProjects(c) \/ NextProject(c) \/ ProjectInitialized(c)
  PROVE  FilesAreIndexed'
<1>1. /\ call[c].pc \in {"scanning", "projects", "initializing"}
      /\ UNCHANGED <<solFileIndex, scans, lost>>
      /\ \E pc \in {"projects", "initializing"} : \E found :
           Goto(c, pc, call[c].top, found, {}, <<>>)
  BY DEF ScanProjects, NextProject, ProjectInitialized, workspaceVars
<1>2. PICK pc \in {"projects", "initializing"} : \E found :
        Goto(c, pc, call[c].top, found, {}, <<>>)
  BY <1>1
<1>3. PICK found : Goto(c, pc, call[c].top, found, {}, <<>>)
  BY <1>2
<1>4. PICK k : k = [pc |-> pc, top |-> call[c].top, found |-> found, files |-> {}, best |-> <<>>]
  OBVIOUS
<1>5. call' = [call EXCEPT ![c] = k]
  BY <1>3, <1>4 DEF Goto
<1>6. \A f \in Folders : \A s \in FilesIn[f] : WillIndex(call[c], f, s) => WillIndex(k, f, s)
  BY <1>1, <1>4 DEF WillIndex
<1> QED BY <1>1, <1>5, <1>6, UntouchedStay, CallRemembers

\* An indexer that throws loses the files of all the folders of the call.
LEMMA ScanProjectsFailsRemembers ==
  ASSUME FilesInv, NEW c \in Calls, ScanProjectsFails(c)
  PROVE  FilesAreIndexed'
<1>1. /\ call' = [call EXCEPT ![c] = NoCall] /\ UNCHANGED <<solFileIndex, scans>>
      /\ Lose(c, FilesOf(call[c].top))
  BY DEF ScanProjectsFails, Ends, workspaceVars
<1>2. /\ SettledStay
      /\ call[c].top # {} => \A s \in FilesOf(call[c].top) : Settled(s)'
  BY <1>1, LostAreSettled
<1>3. \A f \in Folders : \A s \in FilesIn[f] : WillIndex(call[c], f, s) => Settled(s)'
  BY <1>2 DEF WillIndex, FilesOf
<1> QED BY <1>1, <1>2, <1>3, CallRemembers

\* The files of the folders that were searched are to be associated, and those of
\* the others are lost.
LEMMA ScanFilesRemembers ==
  ASSUME FilesInv, NEW c \in Calls, ScanFiles(c)
  PROVE  FilesAreIndexed'
<1>1. PICK searched \in SUBSET call[c].top :
        /\ Goto(c, "associating", call[c].top, <<>>, FilesOf(searched), <<>>)
        /\ Lose(c, FilesOf(call[c].top) \ FilesOf(searched))
  BY DEF ScanFiles
<1>2. PICK left : left = FilesOf(searched)
  OBVIOUS
<1>3. PICK k : k = [pc |-> "associating", top |-> call[c].top, found |-> <<>>, files |-> left,
                    best |-> <<>>]
  OBVIOUS
<1>4. /\ call' = [call EXCEPT ![c] = k] /\ call[c].pc = "projects"
      /\ UNCHANGED <<solFileIndex, scans>>
  BY <1>1, <1>2, <1>3 DEF ScanFiles, Goto, workspaceVars
<1>5. /\ SettledStay
      /\ call[c].top # {} => \A s \in FilesOf(call[c].top) \ left : Settled(s)'
  BY <1>1, <1>2, <1>4, LostAreSettled
<1>6. ASSUME NEW f \in Folders, NEW s \in FilesIn[f], WillIndex(call[c], f, s)
      PROVE  WillIndex(k, f, s) \/ Settled(s)'
  <2>1. f \in call[c].top /\ s \in FilesOf(call[c].top)
    BY <1>6 DEF WillIndex, FilesOf
  <2>2. CASE s \in left
    BY <1>3, <2>1, <2>2 DEF WillIndex
  <2>3. CASE s \notin left
    BY <1>5, <2>1, <2>3
  <2> QED BY <2>2, <2>3
<1> QED BY <1>4, <1>5, <1>6, CallRemembers

LEMMA FindProjectRemembers ==
  ASSUME FilesInv, NEW c \in Calls, NEW s \in Files, FindProject(c, s)
  PROVE  FilesAreIndexed'
<1>1. PICK p \in BestProjects(s) :
        Goto(c, "reading", call[c].top, <<>>, call[c].files \ {s}, <<s, p>>)
  BY DEF FindProject
<1>2. PICK best : best = <<s, p>>
  OBVIOUS
<1>a. best[1] = s
  BY <1>2
<1>3. PICK k : k = [pc |-> "reading", top |-> call[c].top, found |-> <<>>,
                    files |-> call[c].files \ {s}, best |-> best]
  OBVIOUS
<1>4. /\ call' = [call EXCEPT ![c] = k] /\ call[c].pc = "associating"
      /\ UNCHANGED <<solFileIndex, scans, lost>>
  BY <1>1, <1>2, <1>3 DEF FindProject, Goto, workspaceVars
<1>5. \A f \in Folders : \A r \in FilesIn[f] : WillIndex(call[c], f, r) => WillIndex(k, f, r)
  BY <1>a, <1>3, <1>4 DEF WillIndex
<1> QED BY <1>4, <1>5, UntouchedStay, CallRemembers

\* A file that is gone is lost, and no other.
LEMMA SkipFileRemembers ==
  ASSUME FilesInv, NEW c \in Calls, NEW s \in Files, SkipFile(c, s)
  PROVE  FilesAreIndexed'
<1>1. PICK k : k = [pc |-> "associating", top |-> call[c].top, found |-> <<>>,
                    files |-> call[c].files \ {s}, best |-> <<>>]
  OBVIOUS
<1>2. /\ call' = [call EXCEPT ![c] = k] /\ call[c].pc = "associating"
      /\ UNCHANGED <<solFileIndex, scans>> /\ Lose(c, {s})
  BY <1>1 DEF SkipFile, Goto, workspaceVars
<1>3. SettledStay /\ (call[c].top # {} => Settled(s)')
  BY <1>2, LostAreSettled
<1>4. \A f \in Folders : \A r \in FilesIn[f] :
        WillIndex(call[c], f, r) => WillIndex(k, f, r) \/ Settled(r)'
  BY <1>1, <1>2, <1>3 DEF WillIndex
<1> QED BY <1>2, <1>3, <1>4, CallRemembers

LEMMA StoreEntryRemembers ==
  ASSUME FilesInv, NEW c \in Calls, StoreEntry(c)
  PROVE  FilesAreIndexed'
<1>1. PICK best : best = call[c].best
  OBVIOUS
<1>2. best[1] \in Files /\ best[2] \in Projects \cup {Projectless}
  BY <1>1, CallTypes DEF FilesInv, IndexingInv, CallOK, StoreEntry, Pairs
<1>3. best[2] # NoEntry
  BY <1>2, EntryAssumption DEF NoEntry, Projectless
<1>4. PICK k : k = [pc |-> "associating", top |-> call[c].top, found |-> <<>>,
                    files |-> call[c].files, best |-> <<>>]
  OBVIOUS
<1>5. /\ call' = [call EXCEPT ![c] = k] /\ call[c].pc = "reading"
      /\ UNCHANGED <<scans, lost>> /\ solFileIndex \in [Files -> Entries]
      /\ solFileIndex' = [solFileIndex EXCEPT ![best[1]] = best[2]]
  BY <1>1, <1>4 DEF StoreEntry, Goto, workspaceVars, FilesInv, IndexingInv, CollectionsTypeOK
<1>6. Settled(best[1])' /\ SettledStay
  BY <1>2, <1>3, <1>5 DEF Settled, SettledStay
<1>7. \A f \in Folders : \A s \in FilesIn[f] :
        WillIndex(call[c], f, s) => WillIndex(k, f, s) \/ Settled(s)'
  BY <1>1, <1>4, <1>5, <1>6 DEF WillIndex
<1>8. call' = [call EXCEPT ![c] = k] /\ UNCHANGED scans
  BY <1>5
<1>9. \A f \in Folders : \A s \in FilesIn[f] :
        /\ scans'[f] > 0 => scans[f] > 0 \/ WillIndex(k, f, s)
        /\ WillIndex(call[c], f, s) => WillIndex(k, f, s) \/ Settled(s)'
  BY <1>7, <1>8
<1> QED BY <1>6, <1>8, <1>9, CallRemembers

\* A file that cannot be read is lost, and so are those that come after it.
LEMMA ReadFailsRemembers ==
  ASSUME FilesInv, NEW c \in Calls, ReadFails(c)
  PROVE  FilesAreIndexed'
<1>1. /\ call' = [call EXCEPT ![c] = NoCall] /\ call[c].pc = "reading"
      /\ UNCHANGED <<solFileIndex, scans>> /\ Lose(c, call[c].files \cup {call[c].best[1]})
  BY DEF ReadFails, Ends, workspaceVars
<1>2. /\ SettledStay
      /\ call[c].top # {} => \A s \in call[c].files \cup {call[c].best[1]} : Settled(s)'
  BY <1>1, LostAreSettled
<1>3. \A f \in Folders : \A s \in FilesIn[f] : WillIndex(call[c], f, s) => Settled(s)'
  BY <1>1, <1>2 DEF WillIndex
<1> QED BY <1>1, <1>2, <1>3, CallRemembers

LEMMA EndCallRemembers ==
  ASSUME FilesInv, NEW c \in Calls, EndCall(c)
  PROVE  FilesAreIndexed'
<1>1. /\ call' = [call EXCEPT ![c] = NoCall] /\ UNCHANGED <<scans, solFileIndex, lost>>
      /\ call[c].pc = "associating" /\ call[c].files = {}
  BY DEF EndCall, Ends, workspaceVars
<1>2. \A f \in Folders : \A s \in FilesIn[f] : ~WillIndex(call[c], f, s)
  BY <1>1 DEF WillIndex
<1> QED BY <1>1, <1>2, UntouchedStay, CallRemembers

LEMMA FilesStep == FilesInv /\ [Next]_vars => FilesInv'
<1> SUFFICES ASSUME FilesInv, [Next]_vars PROVE FilesInv'
  OBVIOUS
<1>0. IndexingInv'
  BY NextKeeps DEF FilesInv
<1>1. CASE UNCHANGED vars
  BY <1>0, <1>1, NobodyForgets DEF vars, FilesInv
<1>2. ASSUME NEW c \in Calls, NEW added \in SUBSET Folders, FoldersAdded(c, added)
      PROVE  FilesInv'
  BY <1>0, <1>2, FoldersAddedRemembers DEF FilesInv
<1>3. ASSUME NEW c \in Calls, Step(c)
      PROVE  FilesInv'
  BY <1>0, <1>3, EarlyStepsRemember, ScanProjectsFailsRemembers, ScanFilesRemembers,
     FindProjectRemembers, SkipFileRemembers, StoreEntryRemembers, ReadFailsRemembers,
     EndCallRemembers DEF Step, FilesInv
<1>4. ASSUME NEW f \in Folders, FolderRemoved(f)
      PROVE  FilesInv'
  BY <1>0, <1>4, NobodyForgets DEF FolderRemoved, FilesInv
<1> QED BY <1>0, <1>1, <1>2, <1>3, <1>4, ValidateRemembers DEF Next, FilesInv

\* Every file of a folder that was scanned has an entry, is in the hands of a call,
\* or was left out by a failure (a search or an indexer that threw, a file that was
\* gone or could not be read), whatever the projects of the folder are and however
\* the calls interleave.
THEOREM FilesInvariant == Spec => []FilesInv
<1>1. Init => FilesInv
  <2>1. Init => FilesAreIndexed
    BY DEF Init, FilesAreIndexed
  <2> QED BY <2>1, InitIndexing DEF FilesInv
<1> QED BY <1>1, FilesStep, PTL DEF Spec

\* When no call of indexWorkspaceFolders is in flight, every Solidity file of a
\* folder that was scanned has an entry or was left out by a failure, also if its
\* projects were met before.
THEOREM ScannedFilesAreIndexed == Spec => []RestFilesAreIndexed
<1>1. FilesInv => RestFilesAreIndexed
  BY DEF FilesInv, FilesAreIndexed, RestFilesAreIndexed, AtRest, WillIndex, Settled
<1> QED BY <1>1, FilesInvariant, PTL
=============================================================================
