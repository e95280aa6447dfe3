---------------------------- MODULE HardhatWorker ----------------------------
(***************************************************************************)
(* A Hardhat 2 project and its worker processes                            *)
(* (Hardhat2/Hardhat2Project.ts, worker/WorkerProcess.ts).  The server     *)
(* forks a worker that loads the Hardhat runtime of the project, sends it  *)
(* requests over an IPC channel, and forks another, after killing the      *)
(* first, when the configuration of the project changes.                   *)
(*                                                                         *)
(* Workers are numbered in the order of their forks, and so are the calls  *)
(* of initialize(), each of which forks one.  A channel keeps the order of *)
(* its messages; what node tells the server about a process (its messages, *)
(* the end of its channel, its exit) comes at any later time: the exit may *)
(* be told before the last messages are read.                              *)
(***************************************************************************)
EXTENDS Naturals, Sequences

CONSTANTS MaxWorkers,        \* bound: forks
          MaxRequests,       \* bound: requests sent
          MaxInvalidations,  \* bound: build-cache invalidations sent
          SpawnMayFail       \* may fork() fail to start a process?

ASSUME BoundAssumption == MaxWorkers \in Nat /\ MaxRequests \in Nat /\ MaxInvalidations \in Nat
ASSUME SwitchAssumption == SpawnMayFail \in BOOLEAN

Workers  == 1 .. MaxWorkers
Requests == 1 .. MaxRequests
Kinds    == {"fileBelongs", "buildCompilation", "resolveImport"}

VARIABLES
  current,        \* workerProcess: the last worker forked, 0 if there is none
  workerStatus,   \* workerStatus
  loadFailure,    \* workerLoadFailureReason: the worker it is about, or 0
  initialized,    \* calls of initialize() whose promise is resolved
  announcing,     \* INITIALIZED messages whose handler awaits its notification
  process,        \* the state of each worker process
  exitCode,       \* its exit code: 0 (or null) or 1
  exitTold,       \* its exit (or its failure to start) was told to the server
  connected,      \* workers whose channel is open in the eyes of the server
  channel,        \* messages from each worker
  requestId,      \* requestId
  request,        \* the requests: kind, worker, place and outcome
  handlers,       \* keys of _onResponse and _onError
  invalidations,  \* invalidations sent so far
  crashed,        \* did the server die of an uncaught error?
  hasty           \* history: did the last worker load before its predecessors
                  \* were settled?

hostVars   == <<current, workerStatus, loadFailure, initialized, announcing>>
workerVars == <<process, exitCode, exitTold, connected>>
askVars    == <<requestId, request, handlers>>
vars == <<hostVars, workerVars, channel, askVars, invalidations, crashed,
          hasty>>

NoRequest == [kind |-> "none", worker |-> 0, at |-> "nowhere",
              outcome |-> "open", by |-> 0]

Init ==
  /\ current = 0 /\ workerStatus = "STOPPED" /\ loadFailure = 0
  /\ initialized = {} /\ announcing = {}
  /\ process = [w \in Workers |-> "unborn"]
  /\ exitCode = [w \in Workers |-> 0]
  /\ exitTold = [w \in Workers |-> FALSE]
  /\ connected = {}
  /\ channel = [w \in Workers |-> <<>>]
  /\ requestId = 0
  /\ request = [r \in Requests |-> NoRequest]
  /\ handlers = {}
  /\ invalidations = 0
  /\ crashed = FALSE
  /\ hasty = FALSE

-----------------------------------------------------------------------------
(* The host, while it is up: initialize and restart.                       *)

Up == ~crashed

\* Mutant: every worker counts its requests from one.
ForkAndRecount(killed) ==
  LET w == current + 1 IN
  /\ Up /\ w \in Workers
  /\ current' = w
  /\ workerStatus' = "INITIALIZING"
  /\ \/ process' = [killed EXCEPT ![w] = "loading"] /\ connected' = connected \cup {w}
     \/ SpawnMayFail /\ process' = [killed EXCEPT ![w] = "unspawned"]
        /\ UNCHANGED connected
  /\ requestId' = 0
  /\ UNCHANGED <<loadFailure, initialized, announcing, exitCode, exitTold,
                 channel, request, handlers, invalidations, crashed, hasty>>

\* initialize: fork a worker; its promise is the one _onInitialized resolves.
Fork(killed) ==
  LET w == current + 1 IN
  /\ Up /\ w \in Workers
  /\ current' = w
  /\ workerStatus' = "INITIALIZING"
  /\ \/ process' = [killed EXCEPT ![w] = "loading"] /\ connected' = connected \cup {w}
     \/ SpawnMayFail /\ process' = [killed EXCEPT ![w] = "unspawned"]
        /\ UNCHANGED connected
  /\ UNCHANGED <<loadFailure, initialized, announcing, exitCode, exitTold,
                 channel, askVars, invalidations, crashed, hasty>>

Initialize == current = 0 /\ Fork(process)

Alive(w) == process[w] \in {"loading", "ready"}

\* Mutant: a worker that is still loading is not killed.
KillIfReady(w) ==
  IF process[w] = "ready" THEN [process EXCEPT ![w] = "dead"] ELSE process

\* kill("SIGKILL") of the worker, if it still runs.
Kill(w) == IF Alive(w) THEN [process EXCEPT ![w] = "dead"] ELSE process

\* onWatchedFilesChanges, for the configuration file.
ConfigChanged == current # 0 /\ Fork(Kill(current))

\* _onInitialized is the resolve function of the last call of initialize().
OnInitialized == initialized' = initialized \cup {current}

-----------------------------------------------------------------------------
(* The host: what node tells it about a worker.                            *)

Read(w) == Up /\ channel[w] # <<>> /\ channel' = [channel EXCEPT ![w] = Tail(@)]
Message(w) == Head(channel[w])

\* Mutant: an INITIALIZED message only counts while the project initializes.
HandleInitializedOnce(w) ==
  /\ Read(w)
  /\ Message(w).type = "INITIALIZED"
  /\ workerStatus' = IF workerStatus = "INITIALIZING" THEN "RUNNING" ELSE workerStatus
  /\ announcing' = announcing \cup {w}
  /\ UNCHANGED <<current, loadFailure, initialized, workerVars, askVars,
                 invalidations, crashed, hasty>>

\* _handleInitialized up to its await, and after it.
HandleInitialized(w) ==
  /\ Read(w)
  /\ Message(w).type = "INITIALIZED"
  /\ workerStatus' = "RUNNING"
  /\ announcing' = announcing \cup {w}
  /\ UNCHANGED <<current, loadFailure, initialized, workerVars, askVars,
                 invalidations, crashed, hasty>>

Announced(w) ==
  /\ Up /\ w \in announcing
  /\ announcing' = announcing \ {w}
  /\ OnInitialized
  /\ UNCHANGED <<current, workerStatus, loadFailure, workerVars, channel,
                 askVars, invalidations, crashed, hasty>>

HandleInitializationFailure(w) ==
  /\ Read(w)
  /\ Message(w).type = "INITIALIZATION_FAILURE"
  /\ loadFailure' = w
  /\ UNCHANGED <<current, workerStatus, initialized, announcing, workerVars,
                 askVars, invalidations, crashed, hasty>>

\* A promise is settled once: the race of the request against its timeout.
Settle(r, outcome, by) ==
  IF request[r].outcome = "open"
  THEN [request EXCEPT ![r].outcome = outcome, ![r].by = by]
  ELSE request

\* _handleResponse, _handleErrorResponse; the response to resolveImport leaves
\* its handlers in place; a response without a handler is only logged.
HandleResponse(w) ==
  /\ Read(w)
  /\ Message(w).type \in {"response", "error"}
  /\ LET r    == Message(w).id
         kind == Message(w).kind
     IN  /\ request' = IF r \in handlers THEN Settle(r, Message(w).type, w)
                                         ELSE request
         /\ handlers' = IF Message(w).type = "response" /\ kind = "resolveImport"
                        THEN handlers ELSE handlers \ {r}
  /\ UNCHANGED <<hostVars, workerVars, requestId, invalidations, crashed,
                 hasty>>

\* Mutant: a worker that fails does not end the initialization.
OnExitQuietly(w) ==
  /\ Up /\ process[w] = "dead" /\ ~exitTold[w]
  /\ exitTold' = [exitTold EXCEPT ![w] = TRUE]
  /\ workerStatus' = IF exitCode[w] = 0 THEN "STOPPED" ELSE "ERRORED"
  /\ UNCHANGED <<current, loadFailure, initialized, announcing, process, exitCode,
                 connected, channel, askVars, invalidations, crashed, hasty>>

\* The handler of "exit".
OnExit(w) ==
  /\ Up /\ process[w] = "dead" /\ ~exitTold[w]
  /\ exitTold' = [exitTold EXCEPT ![w] = TRUE]
  /\ workerStatus' = IF exitCode[w] = 0 THEN "STOPPED" ELSE "ERRORED"
  /\ OnInitialized
  /\ UNCHANGED <<current, loadFailure, announcing, process, exitCode, connected,
                 channel, askVars, invalidations, crashed, hasty>>

\* The handler of "error": the worker could not be spawned.
OnError(w) ==
  /\ Up /\ process[w] = "unspawned" /\ ~exitTold[w]
  /\ exitTold' = [exitTold EXCEPT ![w] = TRUE]
  /\ workerStatus' = "ERRORED"
  /\ loadFailure' = w
  /\ UNCHANGED <<current, initialized, announcing, process, exitCode, connected,
                 channel, askVars, invalidations, crashed, hasty>>

\* The channel of a dead worker is read to its end.
Disconnect(w) ==
  /\ Up /\ process[w] = "dead" /\ channel[w] = <<>>
  /\ w \in connected
  /\ connected' = connected \ {w}
  /\ UNCHANGED <<hostVars, process, exitCode, exitTold, channel, askVars,
                 invalidations, crashed, hasty>>

-----------------------------------------------------------------------------
(* The host: requests.                                                     *)

\* _prepareRequest and _sendToChild; what is sent to a dead worker whose
\* channel looks open fails later.
Send(kind) ==
  /\ Up /\ current \in connected
  /\ requestId < MaxRequests
  /\ requestId' = requestId + 1
  /\ handlers' = handlers \cup {requestId + 1}
  /\ request' = [request EXCEPT ![requestId + 1] =
       [kind |-> kind, worker |-> current, outcome |-> "open", by |-> 0,
        at |-> IF Alive(current) THEN "worker" ELSE "failing"]]
  /\ UNCHANGED <<hostVars, workerVars, channel, invalidations, crashed,
                 hasty>>

BuildCompilation == workerStatus = "RUNNING" /\ Send("buildCompilation")
ResolveImport    == workerStatus = "RUNNING" /\ Send("resolveImport")
FileBelongs      == workerStatus = "RUNNING" /\ Send("fileBelongs")

\* fileBelongs of a project whose worker neither initializes nor runs: every
\* file under the root of the project belongs to it.
ClaimsByDirectory == current # 0 /\ workerStatus \notin {"INITIALIZING", "RUNNING"}

\* The callback of a send that failed.
SendFailed(r) ==
  /\ Up /\ request[r].at = "failing"
  /\ workerStatus' = "ERRORED"
  /\ request' = [(IF r \in handlers THEN Settle(r, "error", 0) ELSE request)
                 EXCEPT ![r].at = "nowhere"]
  /\ handlers' = handlers \ {r}
  /\ UNCHANGED <<current, loadFailure, initialized, announcing, workerVars,
                 channel, requestId, invalidations, crashed, hasty>>

\* A change of a Solidity file invalidates the worker's build cache, and so does
\* a rename, whatever the status; the callback of a send that fails throws, and
\* nothing catches it.
InvalidateBuildCache ==
  /\ Up /\ current \in connected
  /\ invalidations < MaxInvalidations
  /\ invalidations' = invalidations + 1
  /\ crashed' = ~Alive(current)
  /\ workerStatus' = IF Alive(current) THEN workerStatus ELSE "ERRORED"
  /\ UNCHANGED <<current, loadFailure, initialized, announcing, workerVars,
                 channel, askVars, hasty>>

\* Mutant: only a request that lost its worker times out.
TimeoutIfLost(r) ==
  /\ Up /\ request[r].outcome = "open"
  /\ request[r].at = "worker" /\ ~Alive(request[r].worker)
  /\ request' = Settle(r, "timeout", 0)
  /\ UNCHANGED <<hostVars, workerVars, channel, requestId, handlers,
                 invalidations, crashed, hasty>>

\* _requestTimeout wins the race; the handlers stay.
Timeout(r) ==
  /\ r <= requestId
  /\ Up /\ request[r].outcome = "open"
  /\ request' = Settle(r, "timeout", 0)
  /\ UNCHANGED <<hostVars, workerVars, channel, requestId, handlers,
                 invalidations, crashed, hasty>>

-----------------------------------------------------------------------------
(* The worker process.                                                     *)

Write(w, message) == channel' = [channel EXCEPT ![w] = Append(@, message)]
Bare(type) == [type |-> type, id |-> 0, kind |-> "none"]

\* The server has been told of every earlier worker's end.
EarlierSettled(w) ==
  \A v \in 1 .. w - 1 : /\ exitTold[v] /\ v \notin connected /\ v \notin announcing
                        /\ \A r \in Requests :
                             request[r].worker = v => request[r].at # "failing"

\* start: the runtime is loaded.
Load(w) ==
  /\ process[w] = "loading"
  /\ process' = [process EXCEPT ![w] = "ready"]
  /\ Write(w, Bare("INITIALIZED"))
  /\ hasty' = ~EarlierSettled(w)
  /\ UNCHANGED <<hostVars, exitCode, exitTold, connected, askVars,
                 invalidations, crashed>>

\* start: loading throws, the worker tells the reason and exits.
FailToLoad(w) ==
  /\ process[w] = "loading"
  /\ process' = [process EXCEPT ![w] = "dead"]
  /\ exitCode' = [exitCode EXCEPT ![w] = 1]
  /\ Write(w, Bare("INITIALIZATION_FAILURE"))
  /\ UNCHANGED <<hostVars, exitTold, connected, askVars, invalidations,
                 crashed, hasty>>

\* The process ends by itself.
Die(w, code) ==
  /\ process[w] = "ready"
  /\ process' = [process EXCEPT ![w] = "dead"]
  /\ exitCode' = [exitCode EXCEPT ![w] = code]
  /\ UNCHANGED <<hostVars, exitTold, connected, channel, askVars,
                 invalidations, crashed, hasty>>

\* A request is handled, with a response or an error.
Serve(w, r, type) ==
  /\ process[w] = "ready"
  /\ request[r].at = "worker" /\ request[r].worker = w
  /\ request' = [request EXCEPT ![r].at = "nowhere"]
  /\ Write(w, [type |-> type, id |-> r, kind |-> request[r].kind])
  /\ UNCHANGED <<hostVars, workerVars, requestId, handlers, invalidations,
                 crashed, hasty>>

-----------------------------------------------------------------------------
Told(w) ==
  \/ HandleInitialized(w) \/ Announced(w) \/ HandleInitializationFailure(w)
  \/ HandleResponse(w)
  \/ OnExit(w) \/ OnError(w) \/ Disconnect(w)

Loading(w) == Load(w) \/ FailToLoad(w)

Ask == BuildCompilation \/ ResolveImport \/ FileBelongs

Next ==
  \/ Initialize \/ ConfigChanged \/ Ask \/ InvalidateBuildCache
  \/ \E w \in Workers :
       \/ Told(w) \/ Loading(w)
       \/ \E code \in {0, 1} : Die(w, code)
       \/ \E r \in Requests, type \in {"response", "error"} : Serve(w, r, type)
  \/ \E r \in Requests : SendFailed(r) \/ Timeout(r)

Spec == Init /\ [][Next]_vars

\* Node tells what it knows, timers fire, callbacks run, loading ends.
Fairness ==
  /\ \A w \in Workers : WF_vars(Told(w)) /\ WF_vars(Loading(w))
  /\ \A r \in Requests : WF_vars(SendFailed(r)) /\ WF_vars(Timeout(r))

FairSpec == Spec /\ Fairness

-----------------------------------------------------------------------------
Messages == [type : {"INITIALIZED", "INITIALIZATION_FAILURE", "response", "error"},
             id : 0 .. MaxRequests, kind : Kinds \cup {"none"}]

\* Every variable has its type.
TypeOK ==
  /\ current \in 0 .. MaxWorkers
  /\ workerStatus \in {"STOPPED", "INITIALIZING", "RUNNING", "ERRORED"}
  /\ loadFailure \in 0 .. MaxWorkers
  /\ initialized \subseteq Workers
  /\ announcing \subseteq Workers
  /\ process \in [Workers -> {"unborn", "loading", "ready", "dead", "unspawned"}]
  /\ exitCode \in [Workers -> {0, 1}]
  /\ exitTold \in [Workers -> BOOLEAN]
  /\ connected \subseteq Workers
  /\ channel \in [Workers -> Seq(Messages)]
  /\ requestId \in 0 .. MaxRequests
  /\ request \in [Requests ->
       [kind : Kinds \cup {"none"}, worker : 0 .. MaxWorkers,
        at : {"nowhere", "worker", "failing"},
        outcome : {"open", "response", "error", "timeout"}, by : 0 .. MaxWorkers]]
  /\ handlers \subseteq 1 .. requestId
  /\ invalidations \in 0 .. MaxInvalidations
  /\ crashed \in BOOLEAN
  /\ hasty \in BOOLEAN

\* A request is answered by the worker it was sent to: an answer that a killed
\* worker left in its channel never reaches a request made after the restart
\* (_onResponse is keyed by requestId, which goes on counting).
NoCrossTalk ==
  \A r \in Requests : request[r].by # 0 => request[r].by = request[r].worker

\* No worker outlives the restart that replaces it (onWatchedFilesChanges kills
\* before it forks), even one that is still loading.
NoOrphans == \A w \in Workers : Alive(w) => w = current

\* Nothing is on its way to the server.
AtRest ==
  /\ announcing = {}
  /\ \A w \in Workers : /\ channel[w] = <<>>
                        /\ process[w] \in {"dead", "unspawned"} => exitTold[w]
  /\ \A r \in Requests : request[r].at # "failing"

\* A worker that has loaded is used: whatever the order in which the end of its
\* predecessors, their last messages and its own were told, the project does
\* not stay stopped or errored (workerStatus is shared by all the workers).
\* A worker that loads before its killed predecessors are settled may indeed be
\* left stopped: loading a runtime takes seconds, so that is excepted.
RestReadyIsRunning ==
  AtRest /\ ~hasty /\ current # 0 =>
    (process[current] = "ready" => workerStatus = "RUNNING")

\* "If the project is unable to initialize (hre can't be loaded), ... we default
\* to claiming all solidity files": files are claimed by directory only if the
\* runtime could not be loaded, or its worker is gone.
ClaimsAllOnlyWithoutRuntime ==
  ClaimsByDirectory => process[current] \in {"dead", "unspawned"}

\* Every request is settled, whatever becomes of its worker (_requestTimeout),
\* unless the server dies of a failed invalidation.
EveryRequestSettles ==
  \A r \in Requests :
    request[r].kind # "none" ~> request[r].outcome # "open" \/ crashed

\* An initialization ends, by success, failure or death of the worker, unless
\* another one replaces it, the worker cannot be spawned (node then tells an
\* error and no exit) or the server dies.
InitializationEnds ==
  \A w \in Workers :
    current = w ~> \/ w \in initialized
                   \/ current # w \/ process[w] = "unspawned"
                   \/ crashed

\* Every call of initialize() returns, so that a notification goes on to "notify
\* all registered projects" and the indexing to the next project.
InitializeReturns == \A w \in Workers : current = w ~> w \in initialized
=============================================================================
