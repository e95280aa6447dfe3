# A formal model of the Solidity language server of hardhat-vscode

TLA+ modules, TLC configurations and TLAPS proofs for the language server in
`server/src` of this repository: the part that watches documents, files and
workspace folders, validates Solidity files with the compiler of the project
they belong to, publishes diagnostics, and analyses the files into a graph of
syntax trees from which it answers the requests of the editor.

Run the checks from this directory: `tlc -config X.cfg M` for a run of the table
below, `tlapm M.tla` for a proof module.

## 1. Inventory

The server is one Node process, so a step of the model is the code between two
`await`s (or between two events). Everything hard about it comes from what
happens *during* the awaits.

| Component | State | Operations | Hard behaviours |
|---|---|---|---|
| Validation pipeline (`services/validation/validate.ts`, `services/documents/*`, `utils/debounce.ts`) | debounce timers, `validationCount`, `lastValidationId`, `shownInitializationError`, `solFileIndex`; in the client: diagnostics, status items, messages | `onDidChangeContent`, `validate`, `indexSolidityFile`, the five `sendResults` branches | validations of one file overlap and finish in any order; each publishes over several awaits |
| `AsyncMutex` (Hardhat 3) | `#acquired`, `#queue` | `exclusiveRun`, `#acquire`, release | a caller arriving between a release and the next start |
| Dependency graph (Hardhat 3) | `files`, `dependencies`, `dependants`, `unresolvedImports` | `walkFile`, `addNewFile`, `deleteFile` | each awaits the resolver in a loop; `addNewFile` takes the lock twice |
| Hardhat 3 project | `importsCache`, the graph, `initializeError` | `onWatchedFilesChanges`, `preAnalyze`, `initialize`, `buildCompilation` | handlers overlap; a digest is read before a walk and stored after it; a restart replaces the graph under the calls in flight |
| Hardhat 2 project and worker | `workerProcess`, `workerStatus`, `workerLoadFailureReason`, `requestId`, `_onResponse`, `_onError`, `_onInitialized` | fork, kill and restart, requests with timeouts, invalidations, exit | a killed worker is told of late and shares the fields of its successor |
| Build cache of the worker | cached inputs, tracing configuration, the texts of open documents | `getBuildInput`/build request, invalidation | an invalidation during a build, a hit with changed texts, sources looked up by the end of a uri |
| Workspace indexing (`services/initialization`) | `projects`, `indexedWorkspaceFolders`, `solFileIndex` | folder added, removed, scan, initialize, associate | calls overlap, projects found twice, a file looked up before an await and stored after, a search or a read that fails under a folder already listed |
| Analysis (`parser/analyzer`, `parser/common`, `analyse.ts`) | the graph: nodes, `solFileIndex` entries with status, text, tree and orphans | `analyzeSolFile`, the `accept` of every Node class, the searches | recursion over imports that may be cyclic, each import an await; a tree is replaced under the uses that other files make of it |
| Foundry project | paths, remappings, `initializeError` | `initialize`, `onWatchedFilesChanges`, `resolveImportPath`, `buildCompilation` | two commands that read a configuration that may change, calls that overlap; keys and remappings that solc reads by rules of its own |
| Truffle, Ape, projectless projects; `frameworks/shared` | configuration; none | build input, crawl of dependencies, compiler version | imports in circles and by several names |
| Compiler diagnostics | none | conversion and filtering of compiler errors | text processing |
| Editor features (`services/completion`, `rename`, ...) | none of their own: a rename marks nodes of the graph, a completion analyses the file first | one per request | they come between the steps of the analyses and must agree with each other |
| Solc list, telemetry, clients, scripts | a file cache; none | download; send | no logic of the server |

Interactions: document and file events reach `validate`, `preAnalyze` and the
projects' `onWatchedFilesChanges`; `validate` calls `buildCompilation` of the
project that workspace indexing associated to the file; a Hardhat 2 project
answers through its worker, a Hardhat 3 project through its dependency graph,
which is guarded by `AsyncMutex`, and a Foundry or projectless project from the
texts of the index and of the open documents. Indexing, edits, crawls and
completions start analyses, which resolve imports through the project of the file;
every request of the editor reads the graph that the analyses have left.

What makes each part correct:

* *Validation*: what the client shows at rest is what the last validation of the
  last text found; old verdicts never replace newer ones; messages shown once.
* *Mutex*: alone, first come first served, nobody waits for ever.
* *Dependency graph*: its two directions agree, and when the events are handled
  it says what the disk says.
* *Worker*: an answer goes to the request that asked for it, killed workers end,
  every call settles, the status tells what the current worker does.
* *Indexing*: each project initialized once, each folder scanned once, each file
  associated to the best project that claims it.
* *Analysis*: every file shows the tree of its text; a use hangs under the definition
  it names, also after either file was analysed again; every analysis ends.
* *Editor features*: definition, hover and references agree, and what the
  analysis resolves is what a completion offers.
* *Compiler inputs*: every file and name that the compiler will ask for, and the newest
  compiler that all sources accept.

## 2. Modules and their correspondence with the code

| Module | Models | An action is |
|---|---|---|
| `ValidationPipeline` | `onDidChangeContent.ts`, `validate.ts`, `getOpenDocumentsInProject.ts`, `indexSolidityFile` as validate calls it | the code of a validation from one await to the next; `pc` of a `job` names the await |
| `Mutex` | what `AsyncMutex` promises (abstract) | a call, a start, an end |
| `AsyncMutex` | `AsyncMutex.ts` | a call up to its await, the start of the function, the release |
| `DependencyGraph` | `LSPDependencyGraph.ts`, over `Mutex` | one iteration of the loops of `walkFile` and `addNewFile`; all of `deleteFile` |
| `Hardhat3Project` | who calls the graph in `Hardhat3Project.ts` (EXTENDS `DependencyGraph`) | delivery of a batch, `lstat`, one change, one analysis, one phase of `initialize` |
| `HardhatWorker` | `Hardhat2Project.ts` with `WorkerProcess.ts` and `WorkerProtocol.ts` | an event handler of the host, or one message handled by a worker |
| `WorkspaceIndexing` | `indexWorkspaceFolders.ts`, `resolveTopLevelWorkspaceFolders.ts`, `removeWorkspaceFolders.ts` | the code of a call from one await to the next |
| `BuildCache` | the cache of build inputs in `WorkerProcess.ts` | a request up to its first await, one `READ_FILE`, the store, the send |
| `SolNodes` | the Node classes of `parser/common/types` and the helpers of `common/utils`, as one value `s` that operators take and return | |
| `Searcher` | `analyzer/searcher` (EXTENDS `SolNodes`) | |
| `Analyzer` | the `accept` of every Node class in `analyzer/nodes` (EXTENDS `Searcher`) | |
| `Analysis` | `analyzeSolFile.ts`, when `ImportDirectiveNode.ts` and `SourceUnitNode.ts` run, and who starts analyses, renames and completions (EXTENDS `SolNodes`) | what a task does from one import directive to the next; a request |
| `Queries`, `Completion` | references, definition, type definition, implementation, rename, hover, signature help; completion | a request reads the graph at once |
| `EditorFeatures` | nothing of its own: `Analysis` with `Analyzer`, `Queries` and `Completion`, and what is to hold of all of them | |
| `Programs` | texts for the checks: the syntax trees the parser gives for small files | |
| `BasicCompilation` | `crawlDependencies.ts`, `buildBasicCompilation.ts`, with what an input must have as its reference | |
| `FoundryProject` | `FoundryProject.ts` (EXTENDS `BasicCompilation`) | a command that starts, reads or answers; a change of a text or a configuration |
| `MC*` | small instances for TLC | |
| `*Proofs` | the theorems | |

Variables keep the names of the fields they model. Variables marked *history* in
their declarations (`verdict`, `toasts`, `hasty`, `scans`, `lost`, `dropped`, `disturbed`, ...)
are what the properties need to remember; no guard reads them.

Abstractions. The text of a document is its revision, or the set of its imports;
file and project names are model values; what solc, Hardhat and the resolver
answer is a choice over the outcomes the code tells apart; wording, logging and
telemetry are left out. Awaited sends of one connection resume in order
(`writing` of `ValidationPipeline`), which is what the stdio transport does.
Awaits of what is settled already cost no step of their own: a crawl of
dependencies, a build and the code of an analysis between two import directives are
one step each, since microtasks run before the next event.

In the analyzer a node's identity is the analysis that made it with its place in the
text; a node class keeps the fields that some search reads, and tables in
`SolNodes` say what the classes have in common (which are scopes, declarations,
definitions). Literals are what they add to a search, which is nothing. `Analysis` is the control: which analysis is at which import, which text an entry has, which
tree it shows. What the Node classes do to the trees on the way (`PlantTree`, `HangImport`,
`HandOver`, ...) are operators it takes for constants, and the configurations of
`EditorFeatures` give it those of `Analyzer` and `Queries`. They return nodes, lists of
orphans and whether something was thrown (`WithTrees`), and cannot touch a text or an
entry: in the code only `analyzeSolFile` and `SourceUnitNode.accept` assign these. The walks of
`preAnalyze` for one file and one reason are merged, since nothing tells them
apart. Every file of a Foundry project is taken to be in the index.

Environments. Each module takes from its surroundings what they may do, by name:

* `ValidationPipeline`: `Outcomes` are the results that solc and the frameworks
  may give; `Volatile` are the files that come and go on disk; `MaxRevision`
  bounds the edits of each file; `Tasks` bounds the validations in flight.
* `DependencyGraph`, `Hardhat3Project`: `Target` is what the resolver answers for
  an import when the file is there; `Removable` are the files that may be
  deleted; `MaxChanges` bounds the changes on disk; `Procs` are the calls in flight.
* `HardhatWorker`: `SpawnMayFail` says whether fork may fail. `hasty` records
  that a worker loaded before its predecessors were settled; the one property that
  looks at it says so.
* `WorkspaceIndexing`: `Found`, `FilesIn` and `ClaimedBy` are what scans and
  projects answer; `StartsWith` and `Inside` keep apart what the code compares
  (string prefixes of uris) and what it means (nesting). The scan for projects may throw
  (`ScanProjectsFails`), the search for files may pass over any of the folders
  (`ScanFiles`), a file may be gone (`SkipFile`) or unreadable (`ReadFails`, which ends the
  call and leaves its folders in the list). `lost` has the files these leave out.
* `BuildCache`: `MayImport` are the imports a text may have, `MayBeEmpty` the files whose
  text may be the empty string (which the code takes for no text when it replaces the
  texts of a build), `Opened` the documents that may be opened, `MaxTexts` and
  `MaxRequests` bound edits and requests. `EndsWith` says whose uri ends with whose source
  name: a hit looks the source of a document up by that, and takes the first. The order
  of the sources is Hardhat's and that of the documents the client's, so that a hit may
  place the documents in any way that some orders give (`Placements`).
* `Hardhat3Project` also has `Config`, the configuration file, and `SetupMayFail`, which says
  whether the steps of `initialize` may throw.
* `Analysis`: the operators above; `Ast` is the parser, `Workspaces` the files and texts that a behaviour
  may start from, `Edits` what each text may be changed to, `OnDisk` the files that
  `realpathSync` finds, `MayFail` the imports whose resolution may fail, `Walked` the
  files of Hardhat 3 projects, whose walk may throw (`WalkFails`): the analysis that
  was to follow is not made, and `dropped` remembers the file; `Tasks` and `MaxGen` bound the analyses that
  overlap and those of one file. `Doctored` is the text that a completion after a "." analyses,
  `Asked` the files and `RenamesAt` the positions of requests, `MaxRenames` the bound of renames.
* `FoundryProject`: `Configs`, with those that forge fails on (`Broken`), their compiler (`Solc`) and
  their `Remappings`; `Candidates` are the paths where a name may be, from the directory of
  the importing file up to the one that the project is in; `Inside` are the files below the
  base path, whose keys `buildCompilation` makes relative; `DiskTexts`, `Typed`
  and `Opened` the texts and documents; `Calls`, `MaxChanges`, `MaxEdits` are bounds. What solc
  asks an input for is external (`AsksFor`): a relative import beside the key of its
  source; a name by the longest remapping that applies, the last of equally long ones, so
  that the remapping which an input has for a whole name comes before the project's
  although it stands behind them.

Definitions introduced by the comment "Mutant:" are the plausible mistakes that the
properties have been tried against: each property fails when one of them takes
the place of the definition it is a variant of.

## 3. Runs

| Run | Asks | Instance |
|---|---|---|
| `validation_two_files` | do numbers order texts, do verdicts never go back, is a failed initialization announced once? | two files of one project, one edited twice and coming and going on disk, two validations in flight, passes, import errors, failed initializations (900 000 states) |
| `validation_one_file` | is the last text always judged, and what does the client show at rest? | one file, three texts, three validations in flight, fairness (127 000 states) |
| `async_mutex` | is the lock exclusive, does it implement `Mutex`, does nobody starve? | four callers, so that the queue has three |
| `dependency_graph` | do calls that follow the file events leave the graph as the disk is? | two files that may import each other and themselves, four changes, two calls |
| `hardhat3_files` | do the real callers keep the cache honest, and do they end, across restarts that may fail? | two files, three changes of files or configuration, two overlapping handlers, fairness |
| `worker_restart` | orphans, the shared status, settlement | two workers (one restart), one request, one invalidation, failing forks, fairness (260 000 states) |
| `indexing` | once-only initialization and scans, no file left out but by a failure | nested, neighbouring, repeated and removed folders, three events, two calls, scans and reads that may fail (190 000 states) |
| `build_cache` | which texts does an answer have, and is it complete? | three files that import each other in a row, two of which may be open: one whose uri ends with the name of the third, one that may be empty; one text typed, two requests (2 900 000 states) |
| `analysis` | do trees follow texts and uses definitions, do nodes refer to nodes, do the editor features agree, and does every analysis end? | six workspaces of one or two files (imports in a circle, inheritance across files, aliases, every kind of scope), two overlapping tasks, two analyses of each file, walks that may fail, edits, one rename, completions, fairness (10 700 states) |
| `foundry_project` | does the project follow its configuration, and are its inputs complete? | three files that import each other, one by two names, and one outside of the base path; three configurations, one of which fails; two changes, two edits, two calls |
| `validation_stale_errors` | *refutes* "Only show validation result if this is the latest validation request" (`validate.ts:143`) | one file, two validations |
| `stale_references` | *refutes* "if we don't remove the dead nodes, we can have references to code that doesn't exist" (`types/index.ts:471`): that references are names of the present texts | a base and an overriding contract in two files, one edit |

Why the bounds are enough. The hazards are races of two: a stale and a fresh
validation, a killed worker and its successor, a build and the one that
replaces its `READ_FILE`, two calls that find one project. Two actors and one
change more than it takes to set them apart reach each of them; a third validation
(`validation_one_file`) or caller (`async_mutex`) is there where an
order among those that wait matters. Two files suffice for the graph of trees, since every
link is of a use to a definition and crosses one border of files at most; two analyses
of each are what it takes to replace a tree under the other's uses, and two tasks
what it takes to do so while the other waits at an import. Three files let
a crawl meet one file along two ways and by two names, and a fourth is where its keys are not
relative. Symmetry is used for slots of calls only, and
never in a run with a liveness property.

What the refuted statements show:

* `validation_stale_errors`. `lastValidationId` is compared once, before a result
  that takes several awaited sends. A validation that is overtaken between two of
  them goes on: its import errors, of an older text, and its status come last and
  stay. `RestShowsLatestVerdict` and `RestShowsLatestStatus` therefore carry the
  condition `SentInStep`: with one file and results of two messages each, the order
  of the connection saves the day.
* `stale_references`. An overriding function is added to the children of what it overrides,
  and the other way round. The overriding file is told of nothing when the
  file of the base is analysed again: its function keeps the old one among its
  children, and its references list a place where nothing is any more.

### Further counterexamples

These configurations are kept for the reader; TLC refutes every property they name. It
stops at the first one: to see another, name that alone.

| Configuration, module | Property | What happens |
|---|---|---|
| `Hardhat3Ghosts.cfg`, `MCHardhat3Project` | `QuietHasNoGhosts` | `onWatchedFilesChanges` awaits `lstat` of the changed file before it looks at the kind of the change, and `lstat` of a deleted file throws: the file stays in the graph and the rest of the batch is lost |
| `Hardhat3Setup.cfg`, `MCHardhat3Project` | `QuietKnowsWalked`, `QuietErrorIsReal` | a walk of a graph that `initialize` has replaced stores its digest, so that the file is not walked in the new graph; two restarts at a time leave the error of the configuration that was replaced |
| `IndexingRefuted.cfg`, `MCWorkspaceIndexing` | `RestProjectsAreIndexed` | the loop over the projects found *returns* at one that is known already ("Append to global project map if they are not already indexed", `indexWorkspaceFolders.ts:70`); those after it are never initialized |
| the same | `RestNoFileIsMissing` | a file that cannot be read ends the call (`readFile`, `indexWorkspaceFolders.ts:181`, is not caught), as a search that throws or a file that is gone does with less: the folder is in the list by then (line 41), so that no later event scans it again |
| the same | `RestFoldersAreCovered` | `/ws2` is taken to be nested in `/ws` because its uri starts with it |
| the same | `RestFilesBelongToBest` | a validation looks a file up while its project initializes, and stores the answer after the indexing has stored the right one |
| `BuildCacheRefuted.cfg`, `MCBuildCache` | `CachedAnswersAreClosed` | the look-up compares the imports of the validated document only ("If imports didnt change, just update open documents' contents", `WorkerProcess.ts:231`), while a hit takes the new text of every open document: solc then misses the files which that text has come to import |
| the same | `NamesakesReach` | a hit puts the text of an open document into the first source whose name its uri ends with (`WorkerProcess.ts:239-241`): with `/p/lib/contracts/A.sol` open that may be `contracts/A.sol` |
| the same | `EmptyTextsReach` | an empty text counts as none when the texts of a build are replaced (`WorkerProcess.ts:335`); what READ_FILE returned stays, which is the text of another request if that overrode it |
| `FoundryRefuted.cfg`, `MCFoundryProject` | `RestFollowsLastConfig` | two calls of `initialize()` overlap and the one that read the older configuration ends last |
| the same | `InputsAreAlwaysComplete` | the crawl follows the index while the sources are the texts of the editor: the new import of a document whose analysis is due is not among the sources |
| the same | `NamedImportsAreSources` | the keys of sources inside the base path are made relative to it (`FoundryProject.ts:169`), the remappings of names keep absolute targets: solc asks for an absolute path, which is not a source ("we don't read files from disk", `docs/codebase.md:196`), and reads the file on disk |
| the same | `RelativeImportsAreSources` | `resolveImportPath` looks for `./B.sol` in the directories above as well (`FoundryProject.ts:133`); solc looks beside the importing file only |
| the same | `FailedProjectsClaimAll` | a restart clears the error of a project that never had paths: `fileBelongs` throws until the restart has ended |
| `AnalysisLinked.cfg`, `MCEditorFeatures` | `TypeDefinitionsExist` | `addTypeNode` keeps the type nodes of trees that are gone |
| the same | `SignaturesAreRead` | the signature is cut out of a newer text at the place it had in the old one |
| the same | `RenameEditsAreDistinct` | a base has the old and the new override as children: the same name is replaced twice |
| the same | `TreeIsText` | two analyses of a file overlap at its imports and that of the older text sets the tree last |
| `AnalysisCircular.cfg`, `MCEditorFeatures` | `CircularUsesResolve` | a file counts as analysed from the moment its analysis starts: of two that import each other and are analysed at a time each may look into a tree that does not have the other's contract yet |
| `AnalysisBlocks.cfg`, `MCEditorFeatures` | `EveryScopeHangs` | `addChild` skips a child that equals one by name and place: of two scopes without a name one is lost |
| `AnalysisAliases.cfg`, `MCEditorFeatures` | `AliasesFollowDefinitions` | the names an import directive gives are not registered as uses, so nothing hands them over to a new tree |
| the same | `ChangesAreAnalyzed` | the walk of a Hardhat 3 project throws and `analyse` returns (`analyse.ts:51`): the analysis of that change is not made, and the file shows the tree of its old text until it is typed in again |
| `ValidationPassClears.cfg`, `MCValidationPipeline` | `PassClearsPrevious` | errors of a file closed before the next pass are not cleared, since the pass clears the documents open in its snapshot |
| `Hardhat3Imports.cfg`, `MCHardhat3Project` | `QuietResolvesImports` | `preAnalyze` stores the digest of the text it started from after a walk that read a later one; when the file returns to the first text the walk is skipped |
| `WorkerRefuted.cfg`, `HardhatWorker` | `ClaimsAllOnlyWithoutRuntime` | the exit of the killed worker marks the project stopped while its successor loads, so that files are claimed by directory |
| the same | `InitializeReturns` | `_onInitialized` is overwritten by a restart: the replaced call of `initialize()` never returns |

### A check beside the runs

`WorkerAnswers.cfg` (`HardhatWorker`) checks `NoCrossTalk`: a late answer needs two requests
to meet another than its own, which are too many states (3 800 000) for the
liveness of `worker_restart`. TLC finds no violation; the theorem `AnswersNeverCross` states it for
any number of requests and restarts.

### Fairness

* `ValidationPipeline`: weak fairness of every step of a validation and of every
  timer. The event loop resumes what is ready; builds and compilers return or
  time out (the results of a time-out are among the outcomes); a debounce timer
  that is not restarted fires. Nothing is assumed of the user.
* `AsyncMutex`: weak fairness of each caller that has been granted the lock or
  runs. The functions given to `exclusiveRun` end (`WorkEnds` of
  `Hardhat3Project` shows it of the real ones, if the resolver answers).
* `Hardhat3Project`: weak fairness of each handler: `lstat` and the
  resolver answer.
* `Analysis`: each task's import is resolved in the end, if only with an error: the
  request to the project races a timeout. It is weak fairness of `Resolve(t)` with
  `Busy(t)` in the place of `ENABLED Resolve(t)`, which is the same formula since a busy
  task always waits at an import; TLC would else evaluate the step once more for
  every state.
* `HardhatWorker`: node tells the ends of processes and channels, timers fire,
  callbacks run, loading ends with success or failure. A worker need not ever
  serve a request.

`WF` suffices everywhere: a step that is enabled stays enabled until it is
taken, but for the steps behind `Resume` and the lock, which wait in queues.

`CHECK_DEADLOCK FALSE` stands where the system may rest: when the bounded edits,
events or requests are spent nothing has to happen. `async_mutex` checks deadlock.

## 4. Proofs

Eight modules, each checked with `tlapm <module>.tla`. They
assume of the constants what the modules they are about assume, and no more: the
theorems hold for any sets of files, documents, projects, callers and slots and for
any bounds. Every one of them is about the specification without fairness, and so
holds with it. Of what is assumed, `DocsAssumption` (`BuildCache`) says that there is a
document, `EntryAssumption` (`WorkspaceIndexing`) that having no entry is not a
project, and `BasicCompilationAssumption` that files, names and compilers are finitely many.

`ValidationPipelineProofs`, for any files, projects, tasks and outcomes:

* `TypeCorrect`: `Spec => []TypeOK`, one lemma per operator that builds a
  validation or sends a message.
* `NumberInvariant`: `Spec => []NumberInv`. `NumbersFollowTexts` alone is not
  inductive: a new number must be above all those in flight, which takes
  `NumbersBounded` (no number above the counter, no snapshot newer than the
  document), and an accepted verdict must not be newer than the snapshot of the
  latest validation, which is `VerdictsBounded`. Most steps take no number and
  accept nothing; `KeepingStep` deals with all of them at once, `NumberingStep`
  and `AcceptingStep` with the others.
* `NumbersOrderTexts` and `AcceptedVerdicts` are what follows from it: the state
  property and the action property that `validation_two_files` checks.
* `OneAnnouncement`: `Spec => []AnnouncedOnce`. A failure is announced in the step that
  marks the project, and only by a validation that found it unmarked.
* `RestInvariant`: `Spec => []RestInv`. At rest nothing is left of what led there, so the
  invariant says it of every state on the way. `JudgeInv`: the text of an open, indexed
  file was judged under the latest number, or its timer is armed, or the validation with
  the latest number is compiling that text; and whatever its text, the latest number was
  accepted or is compiled. Sends resume in the order in which they were made, and
  `WritersOnce` has each validation at most once in that order. While `SentInStep`
  holds, what the client shows is what the verdict says, except for messages that a
  validation in that order is still to send (`ResultsInStep`, `StatusesInStep`).
* `LatestVerdictAtRest` and `LatestStatusAtRest`: `Spec => []RestShowsLatestVerdict` and
  `Spec => []RestShowsLatestStatus`, for any number of validations in flight.

`AsyncMutexProofs`, for any set of callers:

* `LockInvariant`: `Spec => []IInv`, where `IInv` adds to the types that one caller
  holds the lock exactly while the flag is set, that the queue has each waiting
  caller once, and that nobody waits while the flag is clear (`NobodyPassed`).
  The last part is why a caller that finds the flag clear passes nobody: the
  release hands the lock on in the step that clears the flag.
* `MutualExclusion`: `Spec => []Exclusive`.
* `ImplementsMutex`: `Spec => FirstComeFirstServed`, that is `Mutex!Spec` with the
  line read as the holder followed by the queue. `CallArrives`, `StartBegins` and
  `ReleaseLeaves` map the three actions.

`DependencyGraphProofs`, for any files, imports, resolutions and number of calls in flight:

* `GraphInvariant`: `Spec => []GraphInv`. Links alone are not inductive: a step of a
  walk adds a link on both sides only if both files have entries, and that depends on
  what the other calls may have deleted since the walk began. The invariant has the
  lock (who works is first in line and inside, and only the first in line is inside),
  which is what keeps the others from deleting; that the imports a walk has left to
  resolve and the files it has met are in the graph (`WalkedFilesStay`); that links are
  between files of the graph and mutual.
* `GraphTypesCorrect`, `MutualLinks` and `FilesStayUnderWalks` follow. The last two state
  properties that `dependency_graph` checks; the types are part of what `hardhat3_files` does.
* `RestInvariant`: `Spec => [](QueueInv /\ KnownInv)`. `KnownInv`: a file on disk is in the
  graph, or a creation of it is announced or being handled; a file of the graph that is
  gone has a deletion announced or in line; an import of a file of the graph that names
  an existing file is linked, or left to a walk, or unresolved while the addition of the
  file it names is under way. That a later deletion does not undo an earlier creation,
  nor the other way round, is a matter of order: by `QueueInv` a
  deletion of a file that exists again has its creation behind it, among the events or in
  the line.
* `NoGhostsAtRest` and `ImportsResolvedAtRest`: `RestHasNoGhosts` and
  `RestResolvesImports`, what is left of it when no event and no call is.
* `GraphInvariant` is stated of the calls, not of who makes them: `Invoke`, the steps and the end
  of a call keep `GraphInv` in whatever module they are taken.

The second part of `DependencyGraphProofs` (which EXTENDS `Hardhat3Project`) uses that for the real callers:

* `ProjectInvariant`: `Spec3 => []ProjectInv`, `GraphInv` with the types of what handlers and
  analyses keep. `MakeGraph` begins with an empty graph and no calls on it, which
  satisfies `GraphInv` again; the calls on the old graph are in `outdated`.
* `ProjectTypesCorrect`, `MutualLinksInProject`, and the action property
  `DigestsFollowWalks`, for which `WalkedFilesStay` says that the file of a walk that
  returns is in the graph.

`WorkspaceIndexingProofs`, for any folders, projects and number of calls:

* `IndexingInvariant`: `Spec => []IndexingInv`. `InitializedOnce` needs that a project which
  is not in the map was never started, `ScannedOnce` that a folder which is not in the
  list was scanned no more often than it was removed: the code tests the map and the
  list and extends them in one step. The list may hold a folder twice (`EndCall`
  adds it again), which only strengthens the test.
* `IndexingTypesCorrect`, `ProjectsInitializeOnce` and `FoldersAreScannedOnce` follow.
* `FilesInvariant`: `Spec => []FilesInv`. A file of a folder that was scanned has an entry, or
  is in the hands of a call (`WillIndex`): one that has begun the scan of the folder, or has
  the file among those it is to associate, or is about to store its entry; or a failure
  has left it out (`lost`): each of the four puts there what its call held and no more. An entry may be
  replaced but is never taken away, so `ScannedFilesAreIndexed` follows: the files have an
  entry at rest, also when the loop over the projects ended before the last one, but for
  those that a failure took.

`AnalysisProofs`, for any files, texts, parser and number of tasks, and whatever the Node
classes do to the trees (nothing is assumed of the operators that `Analysis` takes):

* `AnalysisInvariant`: `Spec => []Inv`. A step runs one task until it waits at an import, and on the
  way frames end, return to the ones below and begin others. `ResumeUnfolds` and
  `ResumeKeeps` are the induction over the frames of the stack that this takes, and `Comes`
  is what it shows: an entry only comes to show a tree of an analysis that is under way. For
  a file that was never analysed twice at a time, `Fitting` says that the one under way
  is the one whose tree the entry shows, and that this tree is of the text which the entry
  took. It is preserved because an import is analysed in passing only if it is not analysed
  yet, and a file under analysis counts as analysed from its first step on. `TextsInv`: the
  text of an entry is the editor's, unless a change of it is due or the walk before its
  analysis has thrown (`dropped`). `HistoryInv` has what `overlapped` remembers.
* `AnalysisTypesCorrect`: `Spec => []TypeOK`. `UndisturbedTrees`:
  `Spec => []UndisturbedTreeIsText`. The property holds in every state, also while other
  files are analysed and not at rest only.

The attempt to prove it found a fault of the model that the workspaces of the runs did not
reach: a completion after a "." analysed the doctored text also when the only analysis of
the file that was still to come was that of an indexing call, which does nothing to a file
that is analysed already. A "." has been typed, so that an analysis of the change is due;
the guard of `Complete` says so now (`Due`).

`HardhatWorkerProofs`, for any number of forks, requests and invalidations:

* `WorkerInvariant`: `Spec => []WorkerInv`. For the processes: nothing was forked after the
  current worker and of those before it none is alive; `ConfigChanged` kills the one that
  may be. For the requests: those above the counter are nowhere, and every answer in
  the channel of a worker names a request below it that was sent to that worker
  (`AnswersMatch`); a number is never given twice, so neither a restart nor a timeout
  makes an answer fit another request.
* `WorkerTypesCorrect`, `NoWorkerIsOrphaned` and `AnswersNeverCross` follow.
* `RestInvariant`: `Spec => []RestInv`, and `LoadedWorkerIsUsed` from it. All workers of a
  project write one status. `LoadedRuns`: once the current worker has loaded and its
  predecessors were settled before (not `hasty`), no event of theirs is left that would
  write it, and it is RUNNING or the message that makes it so is on its way. That takes
  that the channel of a living process is connected (`ChannelsOpen`), and that what fails
  to be sent was sent to a process that is gone (`FailingAreGone`).

`BuildCacheProofs`, for any files, imports between them, texts and requests:

* `BuildsAreSound`: `Spec => []CacheInv`. A build that has ended may answer requests that came
  while it ran, and each of them has refreshed its input with the documents it
  brought. The answer to an earlier request is not older than it asked for because
  requests are received in the order of their numbers (`OrderInv`), so that whoever
  refreshes an input comes later than all those it is to answer (`Answers`). The build
  that is remembered is complete and has the document it was made for (`LastInv`).
* `AskedTexts`: `Spec => []AskedTextsReach`, whatever builds overlap. A hit places the
  documents by the ends of their uris. A document that is told apart (`ToldApart`) goes to
  its own source and no other document does (`RefreshedIs`), so that whatever the order of the
  sources its text stays at least as new. An empty text replaces nothing in a build and
  is there through READ_FILE, if no other build overrode that.
* `UndisturbedClosed`: `Spec => UndisturbedIsClosed`, the action property, from `BuildInv`: if
  no other build began, the texts that a build has read are those it was asked with, and
  what they import was read or is in its list.
* `TypeCorrect`: `Spec => []TypeOK`.

`FoundryProjectProofs`, for any configurations, files, texts and number of calls:

* `ConfigInvariant`: `Spec => []ConfigInv`. The version and the remappings come from two
  commands that read the configuration at two moments. `LoneInv`: unless calls overlap,
  one is under way at most, and if no change is left to be handled then its commands have
  read what is on disk; a change between them is notified, and its call is one that follows.
* `FoundryTypesCorrect` and `ConfigFollowed`: `Spec => []RestFollowsConfig`.
* `InputsComplete`: `Spec => []InputsAreComplete`. The crawl is a recursive function
  (`Crawling`), which TLA+ defines as the choice of one that satisfies its recursion.
  `TailRecursion` shows that one exists, since a crawl ends: a call visits one of finitely
  many sources that was not visited or leaves fewer calls to be made (`CrawlsEnd`).
  `CrawlReturns`, `CrawlFollows` and `CrawlStays` say what it returns, by induction
  (`CrawlInduction`), and together that these are the files that are needed, each with all
  the names that lead to it (`CrawlMeetsNeeded`). `NewestVersion` and `BuildIsComplete` do the
  same for the compiler and the input. `RekeyedIsComplete` is what the project adds: its
  keys tell files apart (`KeysAre`), a relative import that was found beside its file leads
  to the key of that, and a name that means one file leads to the path of it, since the
  input has a remapping of the whole name. `TextsInv` is the invariant that relates the
  index to the editor.

The library's induction theorems take an operator as a parameter, and none of the provers
at hand can instantiate it. What it says of sets needs none: that the natural
numbers are well-founded and what that means (`NatLessThanWellFounded`, `WFMin`). From these
`LeastNumber` follows, and from that the inductions over crawls and over finite sets
(`LargestNumber`), each as the absence of a smallest counterexample.

Only model-checked:

* What needs fairness (`LastTextIsJudged`, `EveryCallRuns`, `WorkEnds`,
  `EveryRequestSettles`, `InitializationEnds`, `AnalysesEnd`): `ENABLED` and liveness are out
  of the prover's reach.
* What the analyzer and the editor features do with trees: `GraphOK`,
  `UsesFollowDefinitions`, `UsesAndDefinitionsAgree` and `ResolvedNamesAreOffered`. They follow
  trees and chains of declarations of any depth by `RECURSIVE` operators, which the prover
  does not take; no proof module extends or instantiates a module that has one. This
  is why `Analysis` takes the work on the trees for parameters.

## 5. What is not modelled

* How Truffle and Ape read their configuration and find packages: one pass over the
  file system without an await. What their adapters answer is among the outcomes of
  `ValidationPipeline`.
* `buildCompilation` of Hardhat 3 and the resolution of imports inside a Hardhat 2
  worker: calls of Hardhat, whose answers are constants.
* Of the editor features: document symbols, semantic tokens, formatting, code actions
  and the listing of paths to import. They keep no state and look at one text.
* The analysis of the files of a workspace at the end of an indexing call is an action
  of `Analysis` (`AnalyzeUnanalyzed`) and not of `WorkspaceIndexing`.
* What Hardhat's tasks make of a build request but the files they read and the texts
  they return: an input of `BuildCache` has its sources and no settings.
* The conversion of compiler errors, solc lists, telemetry, the clients and the
  scripts: stateless, or outside the server.

Modelled, with no property that says they are right:

* an invalidation of the build cache while a build is in flight (`WorkerProcess.ts:353`) and a
  hit that keeps the unsaved text of a document that was closed (`WorkerProcess.ts:236`):
  `AskedTextsReach` allows both, since a later answer has the text it was asked with;
* a failed invalidation, which ends the server (`Hardhat2Project.ts:269`): `crashed` of
  `HardhatWorker`, which its liveness properties except;
* `workerLoadFailureReason`, which is never cleared (`Hardhat2Project.ts:365`): `loadFailure`;
* the handlers of requests that timed out, which stay in `_onResponse`: `handlers`, without
  effect on an answer (`NoCrossTalk`).

Conditions that properties carry because the code does not keep them without:

| Condition | On | Because | Refuted without it |
|---|---|---|---|
| `SentInStep` | `RestShowsLatestVerdict`, `RestShowsLatestStatus` | a result takes several sends | `RestShowsNoStaleErrors` |
| `lost` | `RestFilesAreIndexed` | searches and reads fail, and a listed folder is not scanned again | `RestNoFileIsMissing` |
| `ToldApart` | `AskedTextsReach` | sources are looked up by the end of a uri | `NamesakesReach` |
| not empty, or not `disturbed` | `AskedTextsReach` | an empty text counts as none | `EmptyTextsReach` |
| `overlapped` | `UndisturbedTreeIsText` | two analyses of one file end in any order | `TreeIsText` |
| `dropped` | `UndisturbedTreeIsText` | a walk that throws takes the analysis with it | `ChangesAreAnalyzed` |
| `overlapped` | `RestFollowsConfig` | two calls of `initialize()` end in any order | `RestFollowsLastConfig` |
| nothing `pending` | `InputsAreComplete` | the crawl reads the index | `InputsAreAlwaysComplete` |
| `FoundBeside` | `InputsAreComplete` | relative imports are looked for above as well | `RelativeImportsAreSources` |
| asked for by path | `InputsAreComplete` | keys inside the project are relative, targets are not | `NamedImportsAreSources` |
| import aliases | `UsesFollowDefinitions` | they are no uses | `AliasesFollowDefinitions` |
| `hasty` | `RestReadyIsRunning` | all workers write one status | |
| `ResolvedAlike` | `InputsAreComplete` | a remapping is of a name, whoever imports by it: of two files with one name solc finds one | |
| `ImportsResolved`, names of arguments, first and last line of a contract | editor features | what a use is | |

`hasty` excepts a runtime that loads before node has told the end of the process it
replaces.

## 6. Plan

1. The precedence of project adapters; the filtering rules of
   `DiagnosticConverter`; the fallback order of `updateAvailableSolcVersions`.
2. Truffle and Ape, as `BasicCompilation` with their own candidates.
