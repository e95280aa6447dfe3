------------------------- MODULE HardhatWorkerProofs -------------------------
(***************************************************************************)
(* Proofs about a Hardhat 2 project and its worker processes, for any      *)
(* number of forks and requests.                                           *)
(*                                                                         *)
(* Three invariants carry them.  The processes: nothing was forked after the *)
(* current worker, and of those before it none is alive.  The requests:    *)
(* the numbers of requests are never used again, so an answer left in a    *)
(* channel, whatever became of its worker, names a request that was sent   *)
(* to that worker.  The status: once a worker has loaded after its         *)
(* predecessors were settled, nobody is left who could change the status   *)
(* that all of them share.                                                 *)
(***************************************************************************)
EXTENDS HardhatWorker, SequenceTheorems, TLAPS

States == {"unborn", "loading", "ready", "dead", "unspawned"}
Statuses == {"STOPPED", "INITIALIZING", "RUNNING", "ERRORED"}
Outcomes == {"open", "response", "error", "timeout"}
RequestRecords == [kind : Kinds \cup {"none"}, worker : 0 .. MaxWorkers,
                   at : {"nowhere", "worker", "failing"},
                   outcome : Outcomes, by : 0 .. MaxWorkers]

HostTypeOK ==
  /\ current \in 0 .. MaxWorkers
  /\ workerStatus \in Statuses
  /\ loadFailure \in 0 .. MaxWorkers
  /\ initialized \subseteq Workers
  /\ announcing \subseteq Workers
  /\ invalidations \in 0 .. MaxInvalidations
  /\ {crashed, hasty} \subseteq BOOLEAN

\* The processes.
UnbornLater == \A w \in Workers : w > current => process[w] = "unborn"
ProcessInv ==
  /\ process \in [Workers -> States]
  /\ exitCode \in [Workers -> {0, 1}]
  /\ exitTold \in [Workers -> BOOLEAN]
  /\ connected \subseteq Workers
  /\ UnbornLater
  /\ NoOrphans

\* The requests and the answers on their way.
Waiting(w) == {channel[w][i] : i \in 1 .. Len(channel[w])}
AskedOnly == \A r \in Requests : r > requestId => request[r].at = "nowhere"
AnswersMatch ==
  \A w \in Workers : \A m \in Waiting(w) :
    m.type \in {"response", "error"} =>
      m.id \in 1 .. requestId /\ request[m.id].worker = w
AskTypeOK ==
  /\ channel \in [Workers -> Seq(Messages)]
  /\ requestId \in 0 .. MaxRequests
  /\ request \in [Requests -> RequestRecords]
  /\ handlers \subseteq 1 .. requestId
AskInv == AskTypeOK /\ AskedOnly /\ AnswersMatch /\ NoCrossTalk

\* Nothing is told before the first fork.
SilentBefore == current = 0 => announcing = {} /\ \A w \in Workers : channel[w] = <<>>

\* The inductive invariant.
WorkerInv == HostTypeOK /\ ProcessInv /\ AskInv /\ SilentBefore

LEMMA InvariantImplies == WorkerInv => TypeOK /\ NoOrphans /\ NoCrossTalk
BY DEF WorkerInv, HostTypeOK, ProcessInv, AskInv, AskTypeOK, TypeOK, States, Statuses, Outcomes,
       RequestRecords

-----------------------------------------------------------------------------
(* Channels and requests *)

LEMMA WaitingIn ==
  ASSUME channel \in [Workers -> Seq(Messages)], NEW w \in Workers, NEW m \in Waiting(w)
  PROVE  m \in Messages
BY ElementOfSeq DEF Waiting

LEMMA ReadTakes ==
  ASSUME channel \in [Workers -> Seq(Messages)], NEW w \in Workers, Read(w)
  PROVE  /\ channel' \in [Workers -> Seq(Messages)]
         /\ Message(w) \in Waiting(w)
         /\ \A v \in Workers : Waiting(v)' \subseteq Waiting(v)
<1>1. channel[w] \in Seq(Messages) /\ channel[w] # <<>>
      /\ channel' = [channel EXCEPT ![w] = Tail(channel[w])]
  BY DEF Read
<1>2. /\ Tail(channel[w]) \in Seq(Messages) /\ Head(channel[w]) = channel[w][1]
      /\ Len(Tail(channel[w])) = Len(channel[w]) - 1 /\ Len(channel[w]) \in Nat \ {0}
      /\ \A i \in 1 .. Len(Tail(channel[w])) : Tail(channel[w])[i] = channel[w][i + 1]
  BY <1>1, HeadTailProperties, EmptySeq, LenProperties
<1>3. channel' \in [Workers -> Seq(Messages)]
  BY <1>1, <1>2
<1>4. Message(w) \in Waiting(w)
  BY <1>2 DEF Message, Waiting
<1>5. ASSUME NEW v \in Workers, NEW m \in Waiting(v)'
      PROVE  m \in Waiting(v)
  <2>1. PICK i \in 1 .. Len(channel'[v]) : m = channel'[v][i]
    BY <1>5 DEF Waiting
  <2>2. CASE v = w
    <3>1. channel'[v] = Tail(channel[w])
      BY <1>1, <2>2
    <3>2. i + 1 \in 1 .. Len(channel[w]) /\ m = channel[w][i + 1]
      BY <1>2, <2>1, <3>1
    <3> QED BY <2>2, <3>2 DEF Waiting
  <2>3. CASE v # w
    BY <1>1, <2>1, <2>3 DEF Waiting
  <2> QED BY <2>2, <2>3
<1> QED BY <1>3, <1>4, <1>5

LEMMA WriteAdds ==
  ASSUME channel \in [Workers -> Seq(Messages)], NEW w \in Workers, NEW m \in Messages,
         Write(w, m)
  PROVE  /\ channel' \in [Workers -> Seq(Messages)]
         /\ \A v \in Workers : \A n \in Waiting(v)' : n \in Waiting(v) \/ (v = w /\ n = m)
<1>1. channel[w] \in Seq(Messages) /\ channel' = [channel EXCEPT ![w] = Append(channel[w], m)]
  BY DEF Write
<1>2. /\ Append(channel[w], m) \in Seq(Messages)
      /\ Len(Append(channel[w], m)) = Len(channel[w]) + 1 /\ Len(channel[w]) \in Nat
      /\ \A i \in 1 .. Len(channel[w]) : Append(channel[w], m)[i] = channel[w][i]
      /\ Append(channel[w], m)[Len(channel[w]) + 1] = m
  BY <1>1, AppendProperties, LenProperties
<1>3. ASSUME NEW v \in Workers, NEW n \in Waiting(v)'
      PROVE  n \in Waiting(v) \/ (v = w /\ n = m)
  <2>1. PICK i \in 1 .. Len(channel'[v]) : n = channel'[v][i]
    BY <1>3 DEF Waiting
  <2>2. CASE v = w
    <3>1. channel'[v] = Append(channel[w], m)
      BY <1>1, <2>2
    <3>2. CASE i = Len(channel[w]) + 1
      BY <1>2, <2>1, <2>2, <3>1, <3>2
    <3>3. CASE i # Len(channel[w]) + 1
      <4>1. i \in 1 .. Len(channel[w])
        BY <1>2, <2>1, <3>1, <3>3
      <4> QED BY <1>2, <2>1, <2>2, <3>1, <4>1 DEF Waiting
    <3> QED BY <3>2, <3>3
  <2>3. CASE v # w
    BY <1>1, <2>1, <2>3 DEF Waiting
  <2> QED BY <2>2, <2>3
<1> QED BY <1>1, <1>2, <1>3

\* A settled request keeps its worker and its place; if the outcome is news, the
\* settler is on record.
LEMMA SettleSettles ==
  ASSUME request \in [Requests -> RequestRecords], NEW r \in Requests,
         NEW outcome \in Outcomes, NEW by \in 0 .. MaxWorkers
  PROVE  /\ Settle(r, outcome, by) \in [Requests -> RequestRecords]
         /\ \A q \in Requests :
              /\ Settle(r, outcome, by)[q].worker = request[q].worker
              /\ Settle(r, outcome, by)[q].at = request[q].at
              /\ Settle(r, outcome, by)[q].by = request[q].by
                 \/ (q = r /\ Settle(r, outcome, by)[q].by = by)
<1>1. CASE request[r].outcome = "open"
  <2> DEFINE one == [request EXCEPT ![r].outcome = outcome]
             two == [one EXCEPT ![r].by = by]
  <2>1. Settle(r, outcome, by) = two
    BY <1>1 DEF Settle
  <2>2. /\ one \in [Requests -> RequestRecords]
        /\ \A q \in Requests : /\ one[q].worker = request[q].worker
                               /\ one[q].at = request[q].at
                               /\ one[q].by = request[q].by
    BY DEF RequestRecords
  <2> HIDE DEF one
  <2>3. /\ two \in [Requests -> RequestRecords]
        /\ \A q \in Requests : /\ two[q].worker = one[q].worker
                               /\ two[q].at = one[q].at
                               /\ two[q].by = one[q].by \/ (q = r /\ two[q].by = by)
    BY <2>2 DEF RequestRecords
  <2> HIDE DEF two
  <2> QED BY <2>1, <2>2, <2>3
<1>2. CASE request[r].outcome # "open"
  BY <1>2 DEF Settle
<1> QED BY <1>1, <1>2

\* The invariant of the requests, when nothing is sent, when the requests keep
\* their workers, and when what is new in a channel answers a request of its worker.
LEMMA AskKeeps ==
  ASSUME AskInv, AskTypeOK', requestId' = requestId,
         \A r \in Requests : /\ request'[r].worker = request[r].worker
                             /\ request'[r].at \in {request[r].at, "nowhere"}
                             /\ request'[r].by \in {0, request[r].by, request[r].worker},
         \A v \in Workers : \A m \in Waiting(v)' :
            \/ m \in Waiting(v)
            \/ m.type \notin {"response", "error"}
            \/ (m.id \in 1 .. requestId /\ request[m.id].worker = v)
  PROVE  AskInv'
<1>1. AskedOnly' /\ NoCrossTalk'
  BY DEF AskInv, AskedOnly, NoCrossTalk
<1>2. ASSUME NEW v \in Workers, NEW m \in Waiting(v)', m.type \in {"response", "error"}
      PROVE  m.id \in 1 .. requestId' /\ request'[m.id].worker = v
  <2>1. m.id \in 1 .. requestId /\ request[m.id].worker = v
    BY <1>2 DEF AskInv, AnswersMatch
  <2>2. m.id \in Requests
    BY <2>1, BoundAssumption DEF AskInv, AskTypeOK, Requests
  <2> QED BY <2>1, <2>2
<1> QED BY <1>1, <1>2 DEF AskInv, AnswersMatch

LEMMA AskStays ==
  ASSUME AskInv, UNCHANGED <<channel, askVars>>
  PROVE  AskInv'
<1>1. AskTypeOK' /\ requestId' = requestId /\ request' = request
  BY DEF AskInv, AskTypeOK, askVars
<1>2. \A v \in Workers : Waiting(v)' = Waiting(v)
  BY DEF Waiting
<1> QED BY <1>1, <1>2, AskKeeps

LEMMA ReadKeeps ==
  ASSUME AskInv, NEW w \in Workers, Read(w), UNCHANGED askVars
  PROVE  AskInv'
<1>1. channel' \in [Workers -> Seq(Messages)] /\ \A v \in Workers : Waiting(v)' \subseteq Waiting(v)
  BY ReadTakes DEF AskInv, AskTypeOK
<1>2. AskTypeOK' /\ requestId' = requestId /\ request' = request
  BY <1>1 DEF AskInv, AskTypeOK, askVars
<1> QED BY <1>1, <1>2, AskKeeps

\* A message that answers nothing.
LEMMA BareKeeps ==
  ASSUME AskInv, NEW w \in Workers, NEW type \in {"INITIALIZED", "INITIALIZATION_FAILURE"},
         Write(w, Bare(type)), UNCHANGED askVars
  PROVE  AskInv'
<1>1. Bare(type) \in Messages /\ Bare(type).type \notin {"response", "error"}
  BY BoundAssumption DEF Bare, Messages
<1>2. /\ channel' \in [Workers -> Seq(Messages)]
      /\ \A v \in Workers : \A n \in Waiting(v)' : n \in Waiting(v) \/ n = Bare(type)
  BY <1>1, WriteAdds DEF AskInv, AskTypeOK
<1>3. AskTypeOK' /\ requestId' = requestId /\ request' = request
  BY <1>2 DEF AskInv, AskTypeOK, askVars
<1> QED BY <1>1, <1>2, <1>3, AskKeeps

\* A process that ends, or that becomes ready, and that is the current one.
LEMMA ProcessMoves ==
  ASSUME ProcessInv, NEW w \in Workers, Alive(w), NEW state \in States \ {"unborn"},
         process' = [process EXCEPT ![w] = state], current' = current,
         current \in 0 .. MaxWorkers,
         exitCode' \in [Workers -> {0, 1}], UNCHANGED <<exitTold, connected>>
  PROVE  ProcessInv'
<1>1. w = current
  BY DEF ProcessInv, NoOrphans
<1>2. process' \in [Workers -> States]
  BY DEF ProcessInv
<1>3. UnbornLater' /\ NoOrphans'
  BY <1>1, BoundAssumption DEF ProcessInv, UnbornLater, NoOrphans, Alive, Workers
<1> QED BY <1>2, <1>3 DEF ProcessInv

LEMMA ProcessStays ==
  ASSUME ProcessInv, UNCHANGED <<process, current, exitCode>>,
         exitTold' \in [Workers -> BOOLEAN], connected' \subseteq Workers
  PROVE  ProcessInv'
BY DEF ProcessInv, UnbornLater, NoOrphans, Alive

LEMMA SilentStays ==
  ASSUME SilentBefore, current' = current,
         current # 0 \/ (announcing' \subseteq announcing /\ channel' = channel)
  PROVE  SilentBefore'
BY DEF SilentBefore

LEMMA TalkHasWorker ==
  ASSUME SilentBefore, NEW w \in Workers, channel[w] # <<>> \/ w \in announcing
  PROVE  current # 0
BY DEF SilentBefore

LEMMA AliveIsCurrent ==
  ASSUME ProcessInv, NEW w \in Workers, Alive(w)
  PROVE  w = current /\ current # 0
BY DEF ProcessInv, NoOrphans, Workers

\* A worker that was forked is not later than the current one.
LEMMA BornIsNotLater ==
  ASSUME ProcessInv, current \in 0 .. MaxWorkers, NEW w \in Workers, process[w] # "unborn"
  PROVE  w <= current /\ current \in Workers
BY BoundAssumption DEF ProcessInv, UnbornLater, Workers

-----------------------------------------------------------------------------
(* Init and forks *)

LEMMA InitWorker == Init => WorkerInv
<1> SUFFICES ASSUME Init PROVE WorkerInv
  OBVIOUS
<1>1. HostTypeOK
  <2>1. {crashed, hasty} \subseteq BOOLEAN
    BY DEF Init
  <2> QED BY <2>1, BoundAssumption DEF Init, HostTypeOK, Statuses
<1>2. ProcessInv
  BY DEF Init, ProcessInv, UnbornLater, NoOrphans, Alive, States
<1>3. AskTypeOK
  BY EmptySeq, BoundAssumption DEF Init, AskTypeOK, NoRequest, RequestRecords, Outcomes, Kinds
<1>4. AskedOnly /\ NoCrossTalk
  BY DEF Init, AskedOnly, NoCrossTalk, NoRequest
<1>5. \A w \in Workers : Waiting(w) = {}
  BY DEF Init, Waiting
<1>6. SilentBefore
  BY DEF Init, SilentBefore
<1> QED BY <1>1, <1>2, <1>3, <1>4, <1>5, <1>6 DEF WorkerInv, AskInv, AnswersMatch

\* What a fork starts from: nobody but perhaps the old worker is gone.
LEMMA ForkStep ==
  ASSUME WorkerInv, NEW killed \in [Workers -> States], Fork(killed),
         \A w \in Workers : killed[w] \notin {"loading", "ready"},
         \A w \in Workers : w > current => killed[w] = "unborn"
  PROVE  WorkerInv'
<1> DEFINE w == current + 1
<1>1. w \in Workers /\ w \in 0 .. MaxWorkers /\ current' = w /\ workerStatus' = "INITIALIZING"
      /\ UNCHANGED <<loadFailure, initialized, announcing, exitCode, exitTold,
                     channel, askVars, invalidations, crashed, hasty>>
  BY BoundAssumption DEF Fork, Workers
<1>2. HostTypeOK'
  BY <1>1 DEF WorkerInv, HostTypeOK, Statuses
<1>3. PICK state \in {"loading", "unspawned"} : process' = [killed EXCEPT ![w] = state]
  BY DEF Fork
<1>4. connected' \subseteq Workers
  BY <1>1 DEF Fork, WorkerInv, ProcessInv
<1>5. current \in 0 .. MaxWorkers
  BY DEF WorkerInv, HostTypeOK
<1>6. process' \in [Workers -> States]
  BY <1>1, <1>3 DEF States
<1>7. UnbornLater'
  BY <1>1, <1>3, <1>5, BoundAssumption DEF UnbornLater, Workers
<1>8. NoOrphans'
  BY <1>1, <1>3 DEF NoOrphans, Alive
<1>9. ProcessInv'
  BY <1>1, <1>4, <1>6, <1>7, <1>8 DEF WorkerInv, ProcessInv
<1>10. AskInv'
  BY <1>1, AskStays DEF WorkerInv
<1>11. SilentBefore'
  BY <1>1, <1>5 DEF SilentBefore
<1> QED BY <1>2, <1>9, <1>10, <1>11 DEF WorkerInv

LEMMA InitializeStep ==
  ASSUME WorkerInv, Initialize
  PROVE  WorkerInv'
<1>1. process \in [Workers -> States] /\ \A w \in Workers : w > current => process[w] = "unborn"
  BY DEF WorkerInv, ProcessInv, UnbornLater
<1>2. \A w \in Workers : process[w] \notin {"loading", "ready"}
  BY DEF Initialize, WorkerInv, ProcessInv, NoOrphans, Alive, Workers
<1> QED BY <1>1, <1>2, ForkStep DEF Initialize

LEMMA ConfigChangedStep ==
  ASSUME WorkerInv, ConfigChanged
  PROVE  WorkerInv'
<1> DEFINE killed == Kill(current)
<1>1. current \in Workers
  BY BoundAssumption DEF ConfigChanged, WorkerInv, HostTypeOK, Workers
<1>2. killed \in [Workers -> States]
  BY <1>1 DEF Kill, WorkerInv, ProcessInv, States
<1>3. \A w \in Workers : w > current => killed[w] = "unborn"
  BY <1>1, BoundAssumption DEF Kill, WorkerInv, ProcessInv, UnbornLater, Workers
<1>4. ASSUME NEW w \in Workers
      PROVE  killed[w] \notin {"loading", "ready"}
  <2>1. CASE w = current
    BY <1>1, <2>1 DEF Kill, Alive, WorkerInv, ProcessInv
  <2>2. CASE w # current
    <3>1. ~Alive(w)
      BY <2>2 DEF WorkerInv, ProcessInv, NoOrphans
    <3>2. killed[w] = process[w]
      BY <1>1, <2>2 DEF Kill, WorkerInv, ProcessInv
    <3> QED BY <3>1, <3>2 DEF Alive
  <2> QED BY <2>1, <2>2
<1>5. Fork(killed)
  BY DEF ConfigChanged
<1> QED BY <1>2, <1>3, <1>4, <1>5, ForkStep

-----------------------------------------------------------------------------
(* What node tells the host *)

LEMMA HandleInitializedStep ==
  ASSUME WorkerInv, NEW w \in Workers, HandleInitialized(w)
  PROVE  WorkerInv'
<1>1. HostTypeOK'
  BY DEF HandleInitialized, WorkerInv, HostTypeOK, Statuses
<1>2. ProcessInv'
  BY ProcessStays DEF HandleInitialized, WorkerInv, ProcessInv, workerVars
<1>3. AskInv'
  BY ReadKeeps DEF HandleInitialized, WorkerInv
<1>4. SilentBefore'
  BY TalkHasWorker, SilentStays DEF HandleInitialized, Read, WorkerInv
<1> QED BY <1>1, <1>2, <1>3, <1>4 DEF WorkerInv

LEMMA AnnouncedStep ==
  ASSUME WorkerInv, NEW w \in Workers, Announced(w)
  PROVE  WorkerInv'
<1>1. current # 0
  BY TalkHasWorker DEF Announced, WorkerInv
<1>2. HostTypeOK'
  BY <1>1, BoundAssumption DEF Announced, OnInitialized, WorkerInv, HostTypeOK, Workers
<1>3. ProcessInv'
  BY ProcessStays DEF Announced, WorkerInv, ProcessInv, workerVars
<1>4. AskInv'
  BY AskStays DEF Announced, WorkerInv
<1>5. SilentBefore'
  BY <1>1, SilentStays DEF Announced, WorkerInv
<1> QED BY <1>2, <1>3, <1>4, <1>5 DEF WorkerInv

LEMMA HandleInitializationFailureStep ==
  ASSUME WorkerInv, NEW w \in Workers, HandleInitializationFailure(w)
  PROVE  WorkerInv'
<1>1. HostTypeOK'
  BY BoundAssumption DEF HandleInitializationFailure, WorkerInv, HostTypeOK, Workers
<1>2. ProcessInv'
  BY ProcessStays DEF HandleInitializationFailure, WorkerInv, ProcessInv, workerVars
<1>3. AskInv'
  BY ReadKeeps DEF HandleInitializationFailure, WorkerInv
<1>4. SilentBefore'
  BY TalkHasWorker, SilentStays DEF HandleInitializationFailure, Read, WorkerInv
<1> QED BY <1>1, <1>2, <1>3, <1>4 DEF WorkerInv

\* The answer names a request of the worker whose channel it was in.
LEMMA HandleResponseStep ==
  ASSUME WorkerInv, NEW w \in Workers, HandleResponse(w)
  PROVE  WorkerInv'
<1> DEFINE r == Message(w).id
<1>1. /\ channel' \in [Workers -> Seq(Messages)] /\ Message(w) \in Waiting(w)
      /\ \A v \in Workers : Waiting(v)' \subseteq Waiting(v)
  BY ReadTakes DEF HandleResponse, WorkerInv, AskInv, AskTypeOK
<1>2. Message(w).type \in {"response", "error"} /\ Message(w).type \in Outcomes
  BY DEF HandleResponse, Outcomes
<1>3. r \in 1 .. requestId /\ request[r].worker = w
  BY <1>1, <1>2 DEF WorkerInv, AskInv, AnswersMatch
<1>4. r \in Requests /\ w \in 0 .. MaxWorkers
  BY <1>3, BoundAssumption DEF WorkerInv, AskInv, AskTypeOK, Requests, Workers
<1>5. request' = request \/ request' = Settle(r, Message(w).type, w)
  BY DEF HandleResponse
<1>6. UNCHANGED <<hostVars, workerVars, requestId, invalidations, crashed, hasty>>
      /\ handlers' \subseteq handlers
  BY DEF HandleResponse
<1> HIDE DEF r
<1>7. request' \in [Requests -> RequestRecords]
      /\ \A q \in Requests : /\ request'[q].worker = request[q].worker
                             /\ request'[q].at = request[q].at
                             /\ request'[q].by \in {request[q].by, request[q].worker}
  BY <1>2, <1>3, <1>4, <1>5, SettleSettles DEF WorkerInv, AskInv, AskTypeOK
<1>8. AskTypeOK' /\ requestId' = requestId
  BY <1>1, <1>6, <1>7 DEF WorkerInv, AskInv, AskTypeOK
<1>9. AskInv'
  BY <1>1, <1>7, <1>8, AskKeeps DEF WorkerInv
<1>10. HostTypeOK'
  BY <1>6 DEF hostVars, WorkerInv, HostTypeOK
<1>11. ProcessInv'
  BY <1>6, ProcessStays DEF hostVars, workerVars, WorkerInv, ProcessInv
<1>12. SilentBefore'
  BY <1>6, TalkHasWorker, SilentStays DEF HandleResponse, Read, hostVars, WorkerInv
<1> QED BY <1>9, <1>10, <1>11, <1>12 DEF WorkerInv

LEMMA OnExitStep ==
  ASSUME WorkerInv, NEW w \in Workers, OnExit(w)
  PROVE  WorkerInv'
<1>1. current \in Workers
  BY BornIsNotLater DEF OnExit, WorkerInv, HostTypeOK
<1>2. workerStatus' \in Statuses
  BY DEF OnExit, Statuses
<1>3. HostTypeOK'
  BY <1>1, <1>2 DEF OnExit, OnInitialized, WorkerInv, HostTypeOK
<1>4. exitTold' \in [Workers -> BOOLEAN]
  BY DEF OnExit, WorkerInv, ProcessInv
<1>5. ProcessInv'
  BY <1>4, ProcessStays DEF OnExit, WorkerInv, ProcessInv
<1>6. AskInv'
  BY AskStays DEF OnExit, WorkerInv
<1>7. SilentBefore'
  BY SilentStays DEF OnExit, WorkerInv
<1> QED BY <1>3, <1>5, <1>6, <1>7 DEF WorkerInv

LEMMA OnErrorStep ==
  ASSUME WorkerInv, NEW w \in Workers, OnError(w)
  PROVE  WorkerInv'
<1>1. HostTypeOK'
  BY BoundAssumption DEF OnError, WorkerInv, HostTypeOK, Statuses, Workers
<1>2. exitTold' \in [Workers -> BOOLEAN]
  BY DEF OnError, WorkerInv, ProcessInv
<1>3. ProcessInv'
  BY <1>2, ProcessStays DEF OnError, WorkerInv, ProcessInv
<1>4. AskInv'
  BY AskStays DEF OnError, WorkerInv
<1>5. SilentBefore'
  BY SilentStays DEF OnError, WorkerInv
<1> QED BY <1>1, <1>3, <1>4, <1>5 DEF WorkerInv

LEMMA DisconnectStep ==
  ASSUME WorkerInv, NEW w \in Workers, Disconnect(w)
  PROVE  WorkerInv'
<1>1. HostTypeOK'
  BY DEF Disconnect, hostVars, WorkerInv, HostTypeOK
<1>2. ProcessInv'
  BY ProcessStays DEF Disconnect, hostVars, WorkerInv, ProcessInv
<1>3. AskInv'
  BY AskStays DEF Disconnect, WorkerInv
<1>4. SilentBefore'
  BY SilentStays DEF Disconnect, hostVars, WorkerInv
<1> QED BY <1>1, <1>2, <1>3, <1>4 DEF WorkerInv

-----------------------------------------------------------------------------
(* Requests *)

LEMMA SendStep ==
  ASSUME WorkerInv, NEW kind \in Kinds, Send(kind)
  PROVE  WorkerInv'
<1> DEFINE n == requestId + 1
           at == IF Alive(current) THEN "worker" ELSE "failing"
           sent == [kind |-> kind, worker |-> current, outcome |-> "open", by |-> 0, at |-> at]
<1>1. /\ requestId' = n /\ handlers' = handlers \cup {n}
      /\ request' = [request EXCEPT ![n] = sent]
      /\ UNCHANGED <<hostVars, workerVars, channel, invalidations, crashed, hasty>>
  BY DEF Send
<1>2. n \in Requests /\ n \in 0 .. MaxRequests
  BY BoundAssumption DEF Send, WorkerInv, AskInv, AskTypeOK, Requests
<1>3. at \in {"nowhere", "worker", "failing"}
  OBVIOUS
<1> HIDE DEF at
<1>4. sent \in RequestRecords /\ sent.by = 0 /\ sent.worker = current
  BY <1>3, BoundAssumption DEF RequestRecords, Outcomes, WorkerInv, HostTypeOK
<1> HIDE DEF sent
<1>5. /\ request' \in [Requests -> RequestRecords]
      /\ request'[n] = sent
      /\ \A r \in Requests : r # n => request'[r] = request[r]
  BY <1>1, <1>2, <1>4 DEF WorkerInv, AskInv, AskTypeOK
<1>6. requestId \in Nat /\ handlers' \subseteq 1 .. n
  BY <1>1, BoundAssumption DEF WorkerInv, AskInv, AskTypeOK
<1>7. AskTypeOK'
  BY <1>1, <1>2, <1>5, <1>6 DEF WorkerInv, AskInv, AskTypeOK
<1>8. AskedOnly'
  BY <1>1, <1>5, <1>6 DEF WorkerInv, AskInv, AskedOnly, Requests
<1>9. NoCrossTalk'
  BY <1>4, <1>5 DEF WorkerInv, AskInv, NoCrossTalk
<1>10. ASSUME NEW w \in Workers, NEW m \in Waiting(w)', m.type \in {"response", "error"}
       PROVE  m.id \in 1 .. requestId' /\ request'[m.id].worker = w
  <2>1. m \in Waiting(w)
    BY <1>1, <1>10 DEF Waiting
  <2>2. m.id \in 1 .. requestId /\ request[m.id].worker = w
    BY <1>10, <2>1 DEF WorkerInv, AskInv, AnswersMatch
  <2>3. m.id \in Requests /\ m.id # n /\ m.id \in 1 .. n
    BY <1>6, <2>2, BoundAssumption DEF WorkerInv, AskInv, AskTypeOK, Requests
  <2> QED BY <1>1, <1>5, <2>2, <2>3
<1>11. AskInv'
  BY <1>7, <1>8, <1>9, <1>10 DEF AskInv, AnswersMatch
<1>12. HostTypeOK'
  BY <1>1 DEF hostVars, WorkerInv, HostTypeOK
<1>13. ProcessInv'
  BY <1>1, ProcessStays DEF hostVars, workerVars, WorkerInv, ProcessInv
<1>14. SilentBefore'
  BY <1>1, SilentStays DEF hostVars, WorkerInv
<1> QED BY <1>11, <1>12, <1>13, <1>14 DEF WorkerInv

\* A request that leaves where it was.
LEMMA LeaveKeeps ==
  ASSUME NEW before \in [Requests -> RequestRecords], NEW r \in Requests
  PROVE  /\ [before EXCEPT ![r].at = "nowhere"] \in [Requests -> RequestRecords]
         /\ \A q \in Requests :
              /\ [before EXCEPT ![r].at = "nowhere"][q].worker = before[q].worker
              /\ [before EXCEPT ![r].at = "nowhere"][q].by = before[q].by
              /\ [before EXCEPT ![r].at = "nowhere"][q].at \in {before[q].at, "nowhere"}
BY DEF RequestRecords

LEMMA SendFailedStep ==
  ASSUME WorkerInv, NEW r \in Requests, SendFailed(r)
  PROVE  WorkerInv'
<1>1. PICK settled \in {request, Settle(r, "error", 0)} :
        request' = [settled EXCEPT ![r].at = "nowhere"]
  BY DEF SendFailed
<1>2. "error" \in Outcomes /\ 0 \in 0 .. MaxWorkers
  BY BoundAssumption DEF Outcomes
<1>3. settled \in [Requests -> RequestRecords]
      /\ \A q \in Requests : /\ settled[q].worker = request[q].worker
                             /\ settled[q].at = request[q].at
                             /\ settled[q].by \in {0, request[q].by}
  BY <1>2, SettleSettles DEF WorkerInv, AskInv, AskTypeOK
<1>4. request' \in [Requests -> RequestRecords]
      /\ \A q \in Requests : /\ request'[q].worker = request[q].worker
                             /\ request'[q].at \in {request[q].at, "nowhere"}
                             /\ request'[q].by \in {0, request[q].by, request[q].worker}
  BY <1>1, <1>3, LeaveKeeps
<1>5. AskTypeOK' /\ requestId' = requestId
  BY <1>4 DEF SendFailed, WorkerInv, AskInv, AskTypeOK
<1>6. \A v \in Workers : Waiting(v)' = Waiting(v)
  BY DEF SendFailed, Waiting
<1>7. AskInv'
  BY <1>4, <1>5, <1>6, AskKeeps DEF WorkerInv
<1>8. HostTypeOK'
  BY DEF SendFailed, WorkerInv, HostTypeOK, Statuses
<1>9. ProcessInv'
  BY ProcessStays DEF SendFailed, workerVars, WorkerInv, ProcessInv
<1>10. SilentBefore'
  BY SilentStays DEF SendFailed, WorkerInv
<1> QED BY <1>7, <1>8, <1>9, <1>10 DEF WorkerInv

LEMMA InvalidateBuildCacheStep ==
  ASSUME WorkerInv, InvalidateBuildCache
  PROVE  WorkerInv'
<1>1. workerStatus' \in Statuses
  BY DEF InvalidateBuildCache, WorkerInv, HostTypeOK, Statuses
<1>2. invalidations' \in 0 .. MaxInvalidations
  BY BoundAssumption DEF InvalidateBuildCache, WorkerInv, HostTypeOK
<1>3. crashed' \in BOOLEAN
  BY DEF InvalidateBuildCache
<1>4. HostTypeOK'
  BY <1>1, <1>2, <1>3 DEF InvalidateBuildCache, WorkerInv, HostTypeOK
<1>5. ProcessInv'
  BY ProcessStays DEF InvalidateBuildCache, workerVars, WorkerInv, ProcessInv
<1>6. AskInv'
  BY AskStays DEF InvalidateBuildCache, WorkerInv
<1>7. SilentBefore'
  BY SilentStays DEF InvalidateBuildCache, WorkerInv
<1> QED BY <1>4, <1>5, <1>6, <1>7 DEF WorkerInv

LEMMA TimeoutStep ==
  ASSUME WorkerInv, NEW r \in Requests, Timeout(r)
  PROVE  WorkerInv'
<1>1. "timeout" \in Outcomes /\ 0 \in 0 .. MaxWorkers
  BY BoundAssumption DEF Outcomes
<1>2. request' \in [Requests -> RequestRecords]
      /\ \A q \in Requests : /\ request'[q].worker = request[q].worker
                             /\ request'[q].at \in {request[q].at, "nowhere"}
                             /\ request'[q].by \in {0, request[q].by, request[q].worker}
  BY <1>1, SettleSettles DEF Timeout, WorkerInv, AskInv, AskTypeOK
<1>3. AskTypeOK' /\ requestId' = requestId
  BY <1>2 DEF Timeout, WorkerInv, AskInv, AskTypeOK
<1>4. \A v \in Workers : Waiting(v)' = Waiting(v)
  BY DEF Timeout, Waiting
<1>5. AskInv'
  BY <1>2, <1>3, <1>4, AskKeeps DEF WorkerInv
<1>6. HostTypeOK'
  BY DEF Timeout, hostVars, WorkerInv, HostTypeOK
<1>7. ProcessInv'
  BY ProcessStays DEF Timeout, hostVars, workerVars, WorkerInv, ProcessInv
<1>8. SilentBefore'
  BY SilentStays DEF Timeout, hostVars, WorkerInv
<1> QED BY <1>5, <1>6, <1>7, <1>8 DEF WorkerInv

-----------------------------------------------------------------------------
(* The worker process *)

LEMMA LoadStep ==
  ASSUME WorkerInv, NEW w \in Workers, Load(w)
  PROVE  WorkerInv'
<1>1. Alive(w)
  BY DEF Load, Alive
<1>2. current # 0
  BY <1>1, AliveIsCurrent DEF WorkerInv
<1>3. hasty' \in BOOLEAN
  BY DEF Load
<1>4. HostTypeOK'
  BY <1>3 DEF Load, hostVars, WorkerInv, HostTypeOK
<1>5. ProcessInv'
  BY <1>1, ProcessMoves DEF Load, hostVars, WorkerInv, HostTypeOK, ProcessInv, States
<1>6. AskInv'
  BY BareKeeps DEF Load, WorkerInv
<1>7. SilentBefore'
  BY <1>2, SilentStays DEF Load, hostVars, WorkerInv
<1> QED BY <1>4, <1>5, <1>6, <1>7 DEF WorkerInv

LEMMA FailToLoadStep ==
  ASSUME WorkerInv, NEW w \in Workers, FailToLoad(w)
  PROVE  WorkerInv'
<1>1. Alive(w)
  BY DEF FailToLoad, Alive
<1>2. current # 0
  BY <1>1, AliveIsCurrent DEF WorkerInv
<1>3. HostTypeOK'
  BY DEF FailToLoad, hostVars, WorkerInv, HostTypeOK
<1>4. exitCode' \in [Workers -> {0, 1}]
  BY DEF FailToLoad, WorkerInv, ProcessInv
<1>5. ProcessInv'
  BY <1>1, <1>4, ProcessMoves DEF FailToLoad, hostVars, WorkerInv, HostTypeOK, ProcessInv, States
<1>6. AskInv'
  BY BareKeeps DEF FailToLoad, WorkerInv
<1>7. SilentBefore'
  BY <1>2, SilentStays DEF FailToLoad, hostVars, WorkerInv
<1> QED BY <1>3, <1>5, <1>6, <1>7 DEF WorkerInv

LEMMA DieStep ==
  ASSUME WorkerInv, NEW w \in Workers, NEW code \in {0, 1}, Die(w, code)
  PROVE  WorkerInv'
<1>1. Alive(w)
  BY DEF Die, Alive
<1>2. HostTypeOK'
  BY DEF Die, hostVars, WorkerInv, HostTypeOK
<1>3. exitCode' \in [Workers -> {0, 1}]
  BY DEF Die, WorkerInv, ProcessInv
<1>4. ProcessInv'
  BY <1>1, <1>3, ProcessMoves DEF Die, hostVars, WorkerInv, HostTypeOK, ProcessInv, States
<1>5. AskInv'
  BY AskStays DEF Die, WorkerInv
<1>6. SilentBefore'
  BY SilentStays DEF Die, hostVars, WorkerInv
<1> QED BY <1>2, <1>4, <1>5, <1>6 DEF WorkerInv

\* What a worker answers is a request that was sent to it.
LEMMA ServeStep ==
  ASSUME WorkerInv, NEW w \in Workers, NEW r \in Requests,
         NEW type \in {"response", "error"}, Serve(w, r, type)
  PROVE  WorkerInv'
<1> DEFINE answer == [type |-> type, id |-> r, kind |-> request[r].kind]
<1>1. /\ process[w] = "ready" /\ request[r].at = "worker" /\ request[r].worker = w
      /\ request' = [request EXCEPT ![r].at = "nowhere"] /\ Write(w, answer)
      /\ UNCHANGED <<hostVars, workerVars, requestId, handlers, invalidations, crashed, hasty>>
  BY DEF Serve
<1>2. request[r] \in RequestRecords /\ r \in 0 .. MaxRequests
  BY BoundAssumption DEF WorkerInv, AskInv, AskTypeOK, Requests
<1>3. answer \in Messages /\ answer.id = r
  BY <1>2 DEF Messages, RequestRecords
<1>4. r \in 1 .. requestId
  BY <1>1, BoundAssumption DEF WorkerInv, AskInv, AskTypeOK, AskedOnly, Requests
<1> HIDE DEF answer
<1>5. /\ channel' \in [Workers -> Seq(Messages)]
      /\ \A v \in Workers : \A n \in Waiting(v)' : n \in Waiting(v) \/ (v = w /\ n = answer)
  BY <1>1, <1>3, WriteAdds DEF WorkerInv, AskInv, AskTypeOK
<1>6. request' \in [Requests -> RequestRecords]
      /\ \A q \in Requests : /\ request'[q].worker = request[q].worker
                             /\ request'[q].at \in {request[q].at, "nowhere"}
                             /\ request'[q].by = request[q].by
  BY <1>1, LeaveKeeps DEF WorkerInv, AskInv, AskTypeOK
<1>7. AskTypeOK' /\ requestId' = requestId
  BY <1>1, <1>5, <1>6 DEF WorkerInv, AskInv, AskTypeOK
<1>8. AskInv'
  BY <1>1, <1>3, <1>4, <1>5, <1>6, <1>7, AskKeeps DEF WorkerInv
<1>9. HostTypeOK'
  BY <1>1 DEF hostVars, WorkerInv, HostTypeOK
<1>10. ProcessInv'
  BY <1>1, ProcessStays DEF hostVars, workerVars, WorkerInv, ProcessInv
<1>11. current # 0
  BY <1>1, AliveIsCurrent DEF Alive, WorkerInv
<1>12. SilentBefore'
  BY <1>1, <1>11, SilentStays DEF hostVars, WorkerInv
<1> QED BY <1>8, <1>9, <1>10, <1>12 DEF WorkerInv

-----------------------------------------------------------------------------
LEMMA NextKeeps ==
  ASSUME WorkerInv, [Next]_vars
  PROVE  WorkerInv'
<1>1. CASE UNCHANGED vars
  <2>1. AskInv'
    BY <1>1, AskStays DEF vars, WorkerInv
  <2>2. ProcessInv'
    BY <1>1, ProcessStays DEF vars, hostVars, workerVars, WorkerInv, ProcessInv
  <2>3. HostTypeOK'
    BY <1>1 DEF vars, hostVars, WorkerInv, HostTypeOK
  <2>4. SilentBefore'
    BY <1>1, SilentStays DEF vars, hostVars, WorkerInv
  <2> QED BY <2>1, <2>2, <2>3, <2>4 DEF WorkerInv
<1>2. CASE Ask
  <2>1. PICK kind \in Kinds : Send(kind)
    BY <1>2 DEF Ask, BuildCompilation, ResolveImport, FileBelongs, Kinds
  <2> QED BY <2>1, SendStep
<1>3. ASSUME NEW w \in Workers, Told(w) \/ Loading(w)
      PROVE  WorkerInv'
  BY <1>3, HandleInitializedStep, AnnouncedStep, HandleInitializationFailureStep,
     HandleResponseStep, OnExitStep, OnErrorStep, DisconnectStep, LoadStep, FailToLoadStep
     DEF Told, Loading
<1> QED BY <1>1, <1>2, <1>3, InitializeStep, ConfigChangedStep, InvalidateBuildCacheStep, DieStep,
           ServeStep, SendFailedStep, TimeoutStep DEF Next

\* The inductive invariant of the project and its workers: nothing was forked
\* after the current worker and nobody before it lives, and every answer on its
\* way names a request that was sent to the worker that wrote it.
THEOREM WorkerInvariant == Spec => []WorkerInv
<1> QED BY InitWorker, NextKeeps, PTL DEF Spec

\* Every reachable state of the project and its workers is well typed.
THEOREM WorkerTypesCorrect == Spec => []TypeOK
BY WorkerInvariant, InvariantImplies, PTL

\* No worker outlives the restart that replaces it.
THEOREM NoWorkerIsOrphaned == Spec => []NoOrphans
BY WorkerInvariant, InvariantImplies, PTL

\* An answer reaches only a request that was sent to the worker that gives it.
THEOREM AnswersNeverCross == Spec => []NoCrossTalk
BY WorkerInvariant, InvariantImplies, PTL

-----------------------------------------------------------------------------
(* The status that all the workers share *)

\* The channel of a worker that lives is open, and nothing waits in a closed one.
ChannelsOpen ==
  \A w \in Workers : /\ w \notin connected => channel[w] = <<>>
                     /\ Alive(w) => w \in connected

\* Only what was sent to a worker that is gone fails.
FailingAreGone ==
  \A r \in Requests : request[r].at = "failing" =>
    request[r].worker \in 1 .. current /\ ~Alive(request[r].worker)

\* Nobody is left to change the status of a worker that has loaded, and it is
\* RUNNING or about to be.
LoadedRuns ==
  current # 0 /\ ~hasty /\ process[current] = "ready" =>
    /\ EarlierSettled(current)
    /\ \/ workerStatus = "RUNNING"
       \/ \E m \in Waiting(current) : m.type = "INITIALIZED"

\* The inductive invariant.
RestInv == WorkerInv /\ ChannelsOpen /\ FailingAreGone /\ LoadedRuns

LEMMA ReadLeaves ==
  ASSUME channel \in [Workers -> Seq(Messages)], NEW w \in Workers, Read(w)
  PROVE  /\ channel[w] # <<>>
         /\ \A v \in Workers \ {w} : channel'[v] = channel[v]
         /\ \A v \in Workers : \A m \in Waiting(v) : m \in Waiting(v)' \/ m = Message(w)
<1>1. channel[w] \in Seq(Messages) /\ channel[w] # <<>>
      /\ channel' = [channel EXCEPT ![w] = Tail(channel[w])]
  BY DEF Read
<1>2. /\ Head(channel[w]) = channel[w][1]
      /\ Len(Tail(channel[w])) = Len(channel[w]) - 1 /\ Len(channel[w]) \in Nat \ {0}
      /\ \A i \in 1 .. Len(Tail(channel[w])) : Tail(channel[w])[i] = channel[w][i + 1]
  BY <1>1, HeadTailProperties, EmptySeq, LenProperties
<1>3. ASSUME NEW v \in Workers, NEW m \in Waiting(v)
      PROVE  m \in Waiting(v)' \/ m = Message(w)
  <2>1. PICK i \in 1 .. Len(channel[v]) : m = channel[v][i]
    BY <1>3 DEF Waiting
  <2>2. CASE v = w
    <3>1. channel'[v] = Tail(channel[w])
      BY <1>1, <2>2
    <3>2. CASE i = 1
      BY <1>2, <2>1, <2>2, <3>2 DEF Message
    <3>3. CASE i # 1
      <4>1. i - 1 \in 1 .. Len(channel'[v]) /\ i - 1 + 1 = i
        BY <1>2, <2>1, <2>2, <3>1, <3>3
      <4>2. m = channel'[v][i - 1]
        BY <1>2, <2>1, <2>2, <3>1, <4>1
      <4> QED BY <4>1, <4>2 DEF Waiting
    <3> QED BY <3>2, <3>3
  <2>3. CASE v # w
    BY <1>1, <2>1, <2>3 DEF Waiting
  <2> QED BY <2>2, <2>3
<1> QED BY <1>1, <1>3

LEMMA WriteLeaves ==
  ASSUME channel \in [Workers -> Seq(Messages)], NEW w \in Workers, NEW m \in Messages,
         Write(w, m)
  PROVE  /\ m \in Waiting(w)'
         /\ \A v \in Workers \ {w} : channel'[v] = channel[v]
         /\ \A v \in Workers : Waiting(v) \subseteq Waiting(v)'
<1>1. channel[w] \in Seq(Messages) /\ channel' = [channel EXCEPT ![w] = Append(channel[w], m)]
  BY DEF Write
<1>2. /\ Len(Append(channel[w], m)) = Len(channel[w]) + 1 /\ Len(channel[w]) \in Nat
      /\ \A i \in 1 .. Len(channel[w]) : Append(channel[w], m)[i] = channel[w][i]
      /\ Append(channel[w], m)[Len(channel[w]) + 1] = m
  BY <1>1, AppendProperties, LenProperties
<1>3. channel'[w] = Append(channel[w], m)
  BY <1>1
<1>4. Len(channel[w]) + 1 \in 1 .. Len(channel'[w])
  BY <1>2, <1>3
<1>5. m \in Waiting(w)'
  BY <1>2, <1>3, <1>4 DEF Waiting
<1>6. ASSUME NEW v \in Workers, NEW n \in Waiting(v) PROVE n \in Waiting(v)'
  <2>1. PICK i \in 1 .. Len(channel[v]) : n = channel[v][i]
    BY <1>6 DEF Waiting
  <2>2. CASE v = w
    <3>1. i \in 1 .. Len(channel'[v]) /\ n = channel'[v][i]
      BY <1>2, <1>3, <2>1, <2>2
    <3> QED BY <3>1 DEF Waiting
  <2>3. CASE v # w
    BY <1>1, <2>1, <2>3 DEF Waiting
  <2> QED BY <2>2, <2>3
<1> QED BY <1>1, <1>5, <1>6

\* What node, a request or its callback does while the current worker stays:
\* the status changes for the better, or because of a worker that is not settled.
Unsettled(v) ==
  \/ ~exitTold[v] \/ v \in connected \/ v \in announcing
  \/ \E r \in Requests : request[r].worker = v /\ request[r].at = "failing"

Staying ==
  /\ current' = current /\ hasty' = hasty
  /\ \A w \in Workers : Alive(w)' => process'[w] = process[w]
  /\ \A w \in Workers : exitTold[w] => exitTold'[w]
  /\ \A w \in connected : w \in connected' \/ (~Alive(w) /\ channel[w] = <<>> /\ channel' = channel)
  /\ connected' \subseteq connected
  /\ \A w \in announcing' : w \in announcing \/ channel[w] # <<>>
  /\ \A w \in Workers : channel'[w] = channel[w] \/ channel[w] # <<>> \/ Alive(w)
  /\ \A r \in Requests : request'[r].at = "failing" =>
       \/ request[r].at = "failing" /\ request'[r].worker = request[r].worker
       \/ current \in Workers /\ request'[r].worker = current /\ ~Alive(current)
  /\ \/ workerStatus' = workerStatus /\ \A w \in Workers : \A m \in Waiting(w) :
                             m.type = "INITIALIZED" => m \in Waiting(w)'
     \/ workerStatus' = "RUNNING"
     \/ \E v \in 1 .. current : ~Alive(v) /\ Unsettled(v)

LEMMA StayingKeeps ==
  ASSUME WorkerInv, ChannelsOpen, FailingAreGone, LoadedRuns, Staying
  PROVE  ChannelsOpen' /\ FailingAreGone' /\ LoadedRuns'
<1>0. current \in 0 .. MaxWorkers /\ current \in Nat /\ MaxWorkers \in Nat
      /\ connected \subseteq Workers
  BY BoundAssumption DEF WorkerInv, HostTypeOK, ProcessInv
<1>1. ChannelsOpen'
  <2>1. ASSUME NEW w \in Workers, w \notin connected' PROVE channel'[w] = <<>>
    BY <1>0, <2>1 DEF Staying, ChannelsOpen
  <2>2. ASSUME NEW w \in Workers, Alive(w)' PROVE w \in connected'
    <3>1. Alive(w)
      BY <2>2 DEF Staying, Alive
    <3> QED BY <1>0, <3>1 DEF Staying, ChannelsOpen
  <2> QED BY <2>1, <2>2 DEF ChannelsOpen
<1>2. FailingAreGone'
  <2> SUFFICES ASSUME NEW r \in Requests, request'[r].at = "failing",
                      NEW v, v = request'[r].worker
               PROVE  v \in 1 .. current' /\ process'[v] \notin {"loading", "ready"}
    BY DEF FailingAreGone, Alive
  <2>2. v \in 1 .. current /\ ~Alive(v)
    BY <1>0 DEF Staying, FailingAreGone, Workers
  <2>3. v \in Workers
    BY <1>0, <2>2 DEF Workers
  <2>4. process'[v] \notin {"loading", "ready"}
    BY <2>2, <2>3 DEF Staying, Alive
  <2> QED BY <2>2, <2>4 DEF Staying
<1>3. LoadedRuns'
  <2> SUFFICES ASSUME current' # 0, ~hasty', process'[current'] = "ready"
               PROVE  /\ EarlierSettled(current)'
                      /\ \/ workerStatus' = "RUNNING"
                         \/ \E m \in Waiting(current)' : m.type = "INITIALIZED"
    BY DEF LoadedRuns
  <2>1. current \in Workers /\ current' = current /\ process[current] = "ready" /\ ~hasty
    BY <1>0 DEF Staying, Alive, Workers
  <2>2. EarlierSettled(current)
    BY <2>1 DEF LoadedRuns, Workers
  <2>3. ASSUME NEW v \in 1 .. current - 1
        PROVE  /\ exitTold'[v] /\ v \notin connected' /\ v \notin announcing'
               /\ \A r \in Requests :
                    request'[r].worker = v => request'[r].at # "failing"
    <3>1. v \in Workers /\ v # current
      BY <1>0, <2>3 DEF Workers
    <3>2. /\ exitTold[v] /\ v \notin connected /\ v \notin announcing
          /\ \A r \in Requests : request[r].worker = v => request[r].at # "failing"
      BY <2>2, <2>3 DEF EarlierSettled
    <3>3. channel[v] = <<>>
      BY <3>1, <3>2 DEF ChannelsOpen
    <3> QED BY <3>1, <3>2, <3>3 DEF Staying
  <2>4. EarlierSettled(current)'
    BY <2>1, <2>3 DEF EarlierSettled
  <2>5. ASSUME NEW v \in 1 .. current, ~Alive(v) PROVE ~Unsettled(v)
    <3>1. v # current
      BY <2>1, <2>5 DEF Alive
    <3>2. v \in 1 .. current - 1
      BY <1>0, <3>1
    <3> QED BY <2>2, <3>2 DEF EarlierSettled, Unsettled
  <2>6. workerStatus' = "RUNNING" \/ \E m \in Waiting(current)' : m.type = "INITIALIZED"
    <3>1. workerStatus = "RUNNING" \/ \E m \in Waiting(current) : m.type = "INITIALIZED"
      BY <2>1 DEF LoadedRuns, Workers
    <3> QED BY <2>1, <2>5, <3>1 DEF Staying
  <2> QED BY <2>4, <2>6
<1> QED BY <1>1, <1>2, <1>3

LEMMA ForkKeeps ==
  ASSUME WorkerInv, ChannelsOpen, FailingAreGone, NEW killed \in [Workers -> States], Fork(killed),
         \A w \in Workers : killed[w] \notin {"loading", "ready"}
  PROVE  ChannelsOpen' /\ FailingAreGone' /\ LoadedRuns'
<1> DEFINE w == current + 1
<1>0. current \in 0 .. MaxWorkers /\ current \in Nat /\ MaxWorkers \in Nat /\ w \in Workers
      /\ current' = w /\ channel' = channel /\ request' = request
  BY BoundAssumption DEF WorkerInv, HostTypeOK, Fork, askVars
<1>1. /\ \A v \in Workers \ {w} : process'[v] \notin {"loading", "ready"}
      /\ process'[w] = "unspawned" \/ (process'[w] = "loading" /\ w \in connected')
      /\ connected \subseteq connected'
  BY <1>0 DEF Fork
<1>2. ChannelsOpen'
  BY <1>0, <1>1 DEF ChannelsOpen, Alive
<1>3. FailingAreGone'
  <2> SUFFICES ASSUME NEW r \in Requests, request[r].at = "failing"
               PROVE  request[r].worker \in 1 .. w /\ process'[request[r].worker] \notin {"loading", "ready"}
    BY <1>0 DEF FailingAreGone, Alive
  <2>1. request[r].worker \in 1 .. current
    BY DEF FailingAreGone
  <2>2. request[r].worker \in Workers \ {w} /\ request[r].worker \in 1 .. w
    BY <1>0, <2>1 DEF Workers
  <2> QED BY <1>1, <2>2
<1>4. LoadedRuns'
  BY <1>0, <1>1 DEF LoadedRuns
<1> QED BY <1>2, <1>3, <1>4

LEMMA ForksKeep ==
  ASSUME WorkerInv, ChannelsOpen, FailingAreGone, Initialize \/ ConfigChanged
  PROVE  ChannelsOpen' /\ FailingAreGone' /\ LoadedRuns'
<1>0. process \in [Workers -> States] /\ current \in 0 .. MaxWorkers
      /\ \A w \in Workers : Alive(w) => w = current
  BY DEF WorkerInv, ProcessInv, HostTypeOK, NoOrphans
<1>1. CASE Initialize
  <2>1. \A w \in Workers : process[w] \notin {"loading", "ready"}
    BY <1>0, <1>1 DEF Initialize, Alive, Workers
  <2> QED BY <1>0, <1>1, <2>1, ForkKeeps DEF Initialize
<1>2. CASE ConfigChanged
  <2>1. PICK killed : killed = Kill(current)
    OBVIOUS
  <2>2. current \in Workers /\ Fork(killed)
    BY <1>0, <1>2, <2>1, BoundAssumption DEF ConfigChanged, Workers
  <2>3. killed \in [Workers -> States] /\ \A w \in Workers : killed[w] \notin {"loading", "ready"}
    BY <1>0, <2>1, <2>2 DEF Kill, Alive, States
  <2> QED BY <2>2, <2>3, ForkKeeps
<1> QED BY <1>1, <1>2

LEMMA LoadKeeps ==
  ASSUME WorkerInv, ChannelsOpen, FailingAreGone, NEW w \in Workers, Load(w)
  PROVE  ChannelsOpen' /\ FailingAreGone' /\ LoadedRuns'
<1>0. /\ w = current /\ Alive(w) /\ current' = current
      /\ channel \in [Workers -> Seq(Messages)] /\ process \in [Workers -> States]
      /\ current \in 0 .. MaxWorkers /\ MaxWorkers \in Nat
  BY AliveIsCurrent, BoundAssumption
     DEF Load, Alive, hostVars, WorkerInv, AskInv, AskTypeOK, ProcessInv, HostTypeOK
<1>1. Bare("INITIALIZED") \in Messages /\ Bare("INITIALIZED").type = "INITIALIZED"
  BY BoundAssumption DEF Bare, Messages
<1>2. /\ Bare("INITIALIZED") \in Waiting(w)'
      /\ \A v \in Workers \ {w} : channel'[v] = channel[v]
  BY <1>0, <1>1, WriteLeaves DEF Load
<1>3. /\ \A v \in Workers : Alive(v)' <=> Alive(v)
      /\ connected' = connected /\ request' = request /\ exitTold' = exitTold
      /\ announcing' = announcing /\ hasty' = ~EarlierSettled(w)
  BY <1>0 DEF Load, Alive, hostVars, askVars
<1>4. ChannelsOpen'
  BY <1>0, <1>2, <1>3 DEF ChannelsOpen
<1>5. FailingAreGone'
  <2> SUFFICES ASSUME NEW r \in Requests, request[r].at = "failing"
               PROVE  request[r].worker \in 1 .. current /\ ~Alive(request[r].worker)'
    BY <1>0, <1>3 DEF FailingAreGone, Alive
  <2>1. request[r].worker \in 1 .. current /\ ~Alive(request[r].worker)
    BY DEF FailingAreGone
  <2>2. request[r].worker \in Workers
    BY <1>0, <2>1 DEF Workers
  <2> QED BY <1>3, <2>1, <2>2
<1>6. EarlierSettled(w)' <=> EarlierSettled(w)
  BY <1>3 DEF EarlierSettled
<1>7. LoadedRuns'
  BY <1>0, <1>1, <1>2, <1>3, <1>6 DEF LoadedRuns
<1> QED BY <1>4, <1>5, <1>7

LEMMA ToldStays ==
  ASSUME WorkerInv, ChannelsOpen, NEW w \in Workers, Told(w)
  PROVE  Staying
<1>0. /\ channel \in [Workers -> Seq(Messages)] /\ process \in [Workers -> States]
      /\ current \in 0 .. MaxWorkers /\ MaxWorkers \in Nat /\ exitTold \in [Workers -> BOOLEAN]
      /\ request \in [Requests -> RequestRecords]
  BY BoundAssumption DEF WorkerInv, AskInv, AskTypeOK, ProcessInv, HostTypeOK
<1>a. channel' = channel => \A v \in Workers : Waiting(v)' = Waiting(v)
  BY DEF Waiting
<1>1. CASE HandleInitialized(w)
  <2>1. channel[w] # <<>> /\ \A v \in Workers \ {w} : channel'[v] = channel[v]
    BY <1>0, <1>1, ReadLeaves DEF HandleInitialized
  <2> QED BY <1>1, <2>1 DEF HandleInitialized, workerVars, askVars, Staying
<1>2. CASE Announced(w)
  BY <1>a, <1>2 DEF Announced, workerVars, askVars, Staying
<1>3. CASE HandleInitializationFailure(w)
  <2>1. /\ channel[w] # <<>> /\ \A v \in Workers \ {w} : channel'[v] = channel[v]
        /\ \A v \in Workers : \A m \in Waiting(v) : m \in Waiting(v)' \/ m = Message(w)
    BY <1>0, <1>3, ReadLeaves DEF HandleInitializationFailure
  <2> QED BY <1>3, <2>1 DEF HandleInitializationFailure, workerVars, askVars, Staying
<1>4. CASE HandleResponse(w)
  <2>1. /\ channel[w] # <<>> /\ \A v \in Workers \ {w} : channel'[v] = channel[v]
        /\ \A v \in Workers : \A m \in Waiting(v) : m \in Waiting(v)' \/ m = Message(w)
    BY <1>0, <1>4, ReadLeaves DEF HandleResponse
  <2>2. PICK r : r = Message(w).id
    OBVIOUS
  <2>3. r \in 1 .. requestId /\ Message(w).type \in Outcomes
    BY <1>0, <1>4, <2>2, ReadTakes DEF HandleResponse, WorkerInv, AskInv, AnswersMatch, Outcomes
  <2>4. r \in Requests /\ w \in 0 .. MaxWorkers
    BY <1>0, <2>3, BoundAssumption DEF WorkerInv, AskInv, AskTypeOK, Requests, Workers
  <2>5. \A q \in Requests : /\ request'[q].worker = request[q].worker
                            /\ request'[q].at = request[q].at
    BY <1>0, <1>4, <2>2, <2>3, <2>4, SettleSettles DEF HandleResponse
  <2> QED BY <1>4, <2>1, <2>5 DEF HandleResponse, hostVars, workerVars, Staying
<1>5. CASE OnExit(w) \/ OnError(w)
  <2>1. w \in 1 .. current /\ ~Alive(w) /\ Unsettled(w)
    <3>1. w <= current
      BY <1>5, BornIsNotLater DEF OnExit, OnError, WorkerInv, HostTypeOK
    <3>2. w \in 1 .. current
      BY <1>0, <3>1 DEF Workers
    <3> QED BY <1>5, <3>2 DEF OnExit, OnError, Alive, Unsettled
  <2> QED BY <1>0, <1>5, <2>1 DEF OnExit, OnError, askVars, Staying
<1>6. CASE Disconnect(w)
  BY <1>a, <1>6 DEF Disconnect, hostVars, askVars, Staying, Alive
<1> QED BY <1>1, <1>2, <1>3, <1>4, <1>5, <1>6 DEF Told

LEMMA RequestStays ==
  ASSUME WorkerInv, ChannelsOpen, FailingAreGone,
         \/ \E kind \in Kinds : Send(kind)
         \/ InvalidateBuildCache
         \/ \E r \in Requests : SendFailed(r) \/ Timeout(r)
  PROVE  Staying
<1>0. /\ current \in 0 .. MaxWorkers /\ MaxWorkers \in Nat
      /\ request \in [Requests -> RequestRecords] /\ connected \subseteq Workers
  BY BoundAssumption DEF WorkerInv, AskInv, AskTypeOK, ProcessInv, HostTypeOK
<1>a. channel' = channel => \A v \in Workers : Waiting(v)' = Waiting(v)
  BY DEF Waiting
<1>1. ASSUME NEW kind \in Kinds, Send(kind) PROVE Staying
  <2>1. \A r \in Requests : request'[r].at = "failing" =>
          \/ request[r].at = "failing" /\ request'[r].worker = request[r].worker
          \/ current \in Workers /\ request'[r].worker = current /\ ~Alive(current)
    <3>1. current \in Workers
      BY <1>0, <1>1 DEF Send
    <3>2. ASSUME NEW r \in Requests, r = requestId + 1
          PROVE  /\ request'[r].worker = current
                 /\ request'[r].at = IF Alive(current) THEN "worker" ELSE "failing"
      <4>1. request'[r] =
              [kind |-> kind, worker |-> current, outcome |-> "open", by |-> 0,
               at |-> IF Alive(current) THEN "worker" ELSE "failing"]
        BY <1>0, <1>1, <3>2 DEF Send
      <4> QED BY <4>1
    <3>3. \A r \in Requests : r # requestId + 1 => request'[r] = request[r]
      BY <1>0, <1>1 DEF Send
    <3> QED BY <3>1, <3>2, <3>3
  <2> QED BY <1>a, <1>1, <2>1 DEF Send, hostVars, workerVars, Staying
<1>2. CASE InvalidateBuildCache
  <2>1. workerStatus' = workerStatus \/ (current \in 1 .. current /\ ~Alive(current) /\ Unsettled(current))
    BY <1>0, <1>2 DEF InvalidateBuildCache, Unsettled, Workers
  <2> QED BY <1>a, <1>2, <2>1 DEF InvalidateBuildCache, workerVars, askVars, Staying
<1>3. ASSUME NEW r \in Requests, SendFailed(r) PROVE Staying
  <2>1. request[r].worker \in 1 .. current /\ ~Alive(request[r].worker) /\ Unsettled(request[r].worker)
    BY <1>3 DEF SendFailed, FailingAreGone, Unsettled
  <2>2. PICK settled \in {request, Settle(r, "error", 0)} :
          request' = [settled EXCEPT ![r].at = "nowhere"]
    BY <1>3 DEF SendFailed
  <2>3. "error" \in Outcomes /\ 0 \in 0 .. MaxWorkers
    BY BoundAssumption DEF Outcomes
  <2>4. settled \in [Requests -> RequestRecords]
        /\ \A q \in Requests : /\ settled[q].worker = request[q].worker
                               /\ settled[q].at = request[q].at
    <3>1. CASE settled = request
      BY <1>0, <3>1
    <3>2. CASE settled = Settle(r, "error", 0)
      BY <1>0, <2>3, <3>2, SettleSettles
    <3> QED BY <2>2, <3>1, <3>2
  <2>5. \A q \in Requests : /\ request'[q].worker = request[q].worker
                            /\ request'[q].at \in {request[q].at, "nowhere"}
    BY <2>2, <2>4, LeaveKeeps
  <2> QED BY <1>3, <2>1, <2>5 DEF SendFailed, workerVars, Staying
<1>4. ASSUME NEW r \in Requests, Timeout(r) PROVE Staying
  <2>1. "timeout" \in Outcomes /\ 0 \in 0 .. MaxWorkers
    BY BoundAssumption DEF Outcomes
  <2>2. \A q \in Requests : /\ request'[q].worker = request[q].worker
                            /\ request'[q].at = request[q].at
    BY <1>0, <1>4, <2>1, SettleSettles DEF Timeout
  <2> QED BY <1>a, <1>4, <2>2 DEF Timeout, hostVars, workerVars, Staying
<1> QED BY <1>1, <1>2, <1>3, <1>4

LEMMA WorkerStays ==
  ASSUME WorkerInv, NEW w \in Workers,
         \/ FailToLoad(w) \/ (\E code \in {0, 1} : Die(w, code))
         \/ \E r \in Requests, type \in {"response", "error"} : Serve(w, r, type)
  PROVE  Staying
<1>0. /\ channel \in [Workers -> Seq(Messages)] /\ process \in [Workers -> States]
      /\ request \in [Requests -> RequestRecords]
  BY DEF WorkerInv, AskInv, AskTypeOK, ProcessInv
<1>a. channel' = channel => \A v \in Workers : Waiting(v)' = Waiting(v)
  BY DEF Waiting
<1>1. CASE FailToLoad(w)
  <2>1. Bare("INITIALIZATION_FAILURE") \in Messages
    BY BoundAssumption DEF Bare, Messages
  <2>2. /\ \A v \in Workers \ {w} : channel'[v] = channel[v]
        /\ \A v \in Workers : Waiting(v) \subseteq Waiting(v)'
    BY <1>0, <1>1, <2>1, WriteLeaves DEF FailToLoad
  <2>3. Alive(w) /\ \A v \in Workers : Alive(v)' => process'[v] = process[v]
    BY <1>0, <1>1 DEF FailToLoad, Alive
  <2> QED BY <1>1, <2>2, <2>3 DEF FailToLoad, hostVars, askVars, Staying
<1>2. ASSUME NEW code \in {0, 1}, Die(w, code) PROVE Staying
  <2>1. \A v \in Workers : Alive(v)' => process'[v] = process[v]
    BY <1>0, <1>2 DEF Die, Alive
  <2> QED BY <1>a, <1>2, <2>1 DEF Die, hostVars, askVars, Staying
<1>3. ASSUME NEW r \in Requests, NEW type \in {"response", "error"}, Serve(w, r, type)
      PROVE  Staying
  <2>1. [type |-> type, id |-> r, kind |-> request[r].kind] \in Messages
    <3>1. request[r].kind \in Kinds \cup {"none"} /\ r \in 0 .. MaxRequests
      BY <1>0, BoundAssumption DEF RequestRecords, Requests
    <3> QED BY <3>1 DEF Messages
  <2>2. /\ \A v \in Workers \ {w} : channel'[v] = channel[v]
        /\ \A v \in Workers : Waiting(v) \subseteq Waiting(v)'
    BY <1>0, <1>3, <2>1, WriteLeaves DEF Serve
  <2>3. \A q \in Requests : /\ request'[q].worker = request[q].worker
                            /\ request'[q].at \in {request[q].at, "nowhere"}
    BY <1>0, <1>3, LeaveKeeps DEF Serve
  <2>4. Alive(w)
    BY <1>3 DEF Serve, Alive
  <2> QED BY <1>3, <2>2, <2>3, <2>4 DEF Serve, hostVars, workerVars, Staying
<1> QED BY <1>1, <1>2, <1>3

LEMMA RestStep ==
  ASSUME RestInv, [Next]_vars
  PROVE  RestInv'
<1>0. WorkerInv'
  BY NextKeeps DEF RestInv
<1> DEFINE Goal == ChannelsOpen' /\ FailingAreGone' /\ LoadedRuns'
<1>s. Staying => Goal
  BY StayingKeeps DEF RestInv
<1>1. CASE UNCHANGED vars
  <2>1. \A v \in Workers : Waiting(v)' = Waiting(v)
    BY <1>1 DEF vars, Waiting
  <2>2. Staying
    BY <1>1, <2>1 DEF vars, hostVars, workerVars, askVars, Staying
  <2> QED BY <1>0, <1>s, <2>2 DEF RestInv
<1>2. CASE Initialize \/ ConfigChanged
  BY <1>0, <1>2, ForksKeep DEF RestInv
<1>3. CASE Ask
  <2>1. \E kind \in Kinds : Send(kind)
    BY <1>3 DEF Ask, BuildCompilation, ResolveImport, FileBelongs, Kinds
  <2> QED BY <1>0, <1>s, <2>1, RequestStays DEF RestInv
<1>4. CASE InvalidateBuildCache \/ \E r \in Requests : SendFailed(r) \/ Timeout(r)
  BY <1>0, <1>s, <1>4, RequestStays DEF RestInv
<1>5. ASSUME NEW w \in Workers, Told(w) PROVE RestInv'
  BY <1>0, <1>s, <1>5, ToldStays DEF RestInv
<1>6. ASSUME NEW w \in Workers, Load(w) PROVE RestInv'
  BY <1>0, <1>6, LoadKeeps DEF RestInv
<1>7. ASSUME NEW w \in Workers,
             \/ FailToLoad(w) \/ (\E code \in {0, 1} : Die(w, code))
             \/ \E r \in Requests, type \in {"response", "error"} : Serve(w, r, type)
      PROVE  RestInv'
  BY <1>0, <1>s, <1>7, WorkerStays DEF RestInv
<1> QED BY <1>1, <1>2, <1>3, <1>4, <1>5, <1>6, <1>7 DEF Next, Loading

LEMMA RestInit == Init => RestInv
<1> SUFFICES ASSUME Init PROVE RestInv
  OBVIOUS
<1>1. ChannelsOpen /\ FailingAreGone /\ LoadedRuns
  BY DEF Init, ChannelsOpen, FailingAreGone, LoadedRuns, Alive, NoRequest
<1> QED BY <1>1, InitWorker DEF RestInv

\* Once a worker has loaded after its predecessors were settled, nobody else
\* changes the status, which is RUNNING or about to be: the inductive invariant
\* holds in every state.
THEOREM RestInvariant == Spec => []RestInv
<1>1. RestInv /\ [Next]_vars => RestInv'
  BY RestStep
<1> QED BY <1>1, RestInit, PTL DEF Spec

\* At rest, the worker that has loaded is used (Hardhat2Project.ts,
\* workerStatus): see RestReadyIsRunning.
THEOREM LoadedWorkerIsUsed == Spec => []RestReadyIsRunning
<1>1. ASSUME RestInv PROVE RestReadyIsRunning
  <2> SUFFICES ASSUME AtRest, ~hasty, current # 0, process[current] = "ready"
               PROVE  workerStatus = "RUNNING"
    BY DEF RestReadyIsRunning
  <2>1. current \in Workers
    BY <1>1, BoundAssumption DEF RestInv, WorkerInv, HostTypeOK, Workers
  <2>2. Len(channel[current]) = 0
    BY <2>1, LenProperties, EmptySeq DEF AtRest
  <2>3. Waiting(current) = {}
    BY <2>2 DEF Waiting
  <2> QED BY <1>1, <2>3 DEF RestInv, LoadedRuns
<1> QED BY <1>1, RestInvariant, PTL
=============================================================================
