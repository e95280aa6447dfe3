------------------------- MODULE ValidationPipeline -------------------------
(***************************************************************************)
(* The validation pipeline of the language server: a document event arms   *)
(* a per-document debounce timer (onDidChangeContent.ts), the timer starts *)
(* an asynchronous validation (validate.ts), the validation indexes the    *)
(* file if it must, snapshots the open documents, takes a number, builds   *)
(* and compiles, and, if its number is still the last one of its file,     *)
(* publishes diagnostics and status messages one `await` at a time.        *)
(*                                                                         *)
(* The server is one thread: an action is the code between two awaits.     *)
(* `await connection.send...` resumes in the order of the sends, because   *)
(* the stdio message writer serialises its writes: `writing` holds the     *)
(* validations that wait for theirs.  (Under node-ipc a send resumes at    *)
(* once, which is a subset of these behaviours.)                           *)
(*                                                                         *)
(* The text of a document is abstracted to its revision, what solc and the *)
(* frameworks answer to a choice of outcome, and what the client shows for *)
(* a file to the revision its errors were computed from.                   *)
(***************************************************************************)
EXTENDS Naturals, Sequences, FiniteSets

CONSTANTS Docs,         \* Solidity files, by uri
          Projects,     \* projects, by base path
          ProjectOf,    \* the project each file is associated to
          Volatile,     \* bound: the files that may come and go on disk
          Tasks,        \* slots for validations in flight
          Outcomes,     \* the outcomes a validation may reach
          MaxRevision   \* bound: document events of each file

PASS  == "VALIDATION_PASS"
FAIL  == "VALIDATION_FAIL"
BUILD == "BUILD_INPUT_ERROR"
INIT  == "INITIALIZATION_FAILED_ERROR"
JOB   == "JOB_COMPLETION_ERROR"

ASSUME ProjectAssumption == ProjectOf \in [Docs -> Projects]
ASSUME VolatileAssumption == Volatile \subseteq Docs
ASSUME OutcomeAssumption == Outcomes \subseteq {PASS, FAIL, BUILD, INIT, JOB}
ASSUME BoundAssumption   == MaxRevision \in [Docs -> Nat]

VARIABLES
  text,              \* revision of the last text of each document
  open,              \* is the document in serverState.documents?
  onDisk,            \* does the file exist?
  armed,             \* is the debounce timer of `validate` running?
  indexed,           \* does solFileIndex have an entry for the file?
  validationCount,   \* serverState.validationCount
  lastValidationId,  \* serverState.lastValidationId
  shownInitializationError,  \* serverState.shownInitializationError
  job,               \* the validations in flight
  writing,           \* validations awaiting a send, in the order of the sends
  diagnostics,       \* client: what was last published for each file
  status,            \* client: last job status received for each project
  toasts,            \* client: initialization-failure messages per project
  verdict            \* history: the last verdict accepted for each file

docVars    == <<text, open, onDisk, armed>>
serverVars == <<indexed, validationCount, lastValidationId,
                shownInitializationError>>
clientVars == <<diagnostics, status, toasts>>
vars == <<docVars, serverVars, clientVars, job, writing, verdict>>

-----------------------------------------------------------------------------
\* Revision 0 stands for no text and for no errors.

NoText == [d \in Docs |-> 0]

\* A validation of d that is yet to reach its outcome.
Begun(d, pc, id, snap) ==
  [pc |-> pc, doc |-> d, id |-> id, snap |-> snap,
   outcome |-> "none", todo |-> {}, sources |-> {}]

Idle(d) == Begun(d, "idle", 0, NoText)

\* A validation has taken its number and not returned yet.
Numbered(t) ==
  job[t].pc \in {"compiling", "diagnosing", "reporting", "notifying"}

\* Mutant: no comparison with lastValidationId.
LatestUnchecked(t) == TRUE

Latest(t) == lastValidationId[job[t].doc] = job[t].id

\* Mutant: closed documents are listed too, without a text.
OpenTextsUnfiltered(d) ==
  [f \in Docs |-> IF open[f] THEN text[f] ELSE 0 - 1]

\* The open documents of the project, as getOpenDocumentsInProject lists them:
\* the indexed files of the same base path that the client has open.
OpenTexts(d) ==
  [f \in Docs |-> IF /\ open[f]
                     /\ indexed[f] \/ f = d
                     /\ ProjectOf[f] = ProjectOf[d]
                  THEN text[f] ELSE 0]

\* What a validation publishes for file f in its loop over files.
ErrorsOf(t, f) ==
  [id  |-> job[t].id,
   rev |-> IF job[t].outcome = BUILD THEN job[t].snap[f] ELSE 0]

End(t) == job' = [job EXCEPT ![t] = Idle(job[t].doc)]

\* Validation t goes on to the await `pc`, with `todo` still to publish.
GoOn(t, pc, outcome, todo, sources) ==
  job' = [job EXCEPT ![t] =
            [pc |-> pc, doc |-> job[t].doc, id |-> job[t].id,
             snap |-> job[t].snap, outcome |-> outcome, todo |-> todo,
             sources |-> sources]]

Await(t, pc) == GoOn(t, pc, job[t].outcome, job[t].todo, job[t].sources)

-----------------------------------------------------------------------------
Init ==
  /\ text = NoText
  /\ open = [d \in Docs |-> FALSE]
  /\ onDisk \in [Docs -> BOOLEAN]
  /\ armed = [d \in Docs |-> FALSE]
  /\ indexed \in [Docs -> BOOLEAN]
  /\ \A d \in Docs : indexed[d] => onDisk[d]
  /\ \A d \in Docs \ Volatile : indexed[d]
  /\ validationCount = 0
  /\ lastValidationId = [d \in Docs |-> 0]
  /\ shownInitializationError = [p \in Projects |-> FALSE]
  /\ \E d \in Docs : job = [t \in Tasks |-> Idle(d)]
  /\ writing = <<>>
  /\ diagnostics = [d \in Docs |-> [id |-> 0, rev |-> 0]]
  /\ status = [p \in Projects |-> [id |-> 0, ok |-> TRUE]]
  /\ toasts = [p \in Projects |-> 0]
  /\ verdict = [d \in Docs |-> [rev |-> 0, id |-> 0, outcome |-> "none"]]

-----------------------------------------------------------------------------
(* The client and the file system.                                         *)

\* didOpen and didChange: the event of a Solidity document restarts its timer.
NewText(d) ==
  /\ text[d] < MaxRevision[d]
  /\ text' = [text EXCEPT ![d] = @ + 1]
  /\ open' = [open EXCEPT ![d] = TRUE]
  /\ armed' = [armed EXCEPT ![d] = TRUE]
  /\ UNCHANGED <<onDisk, serverVars, clientVars, job, writing, verdict>>

DidClose(d) ==
  /\ open[d]
  /\ open' = [open EXCEPT ![d] = FALSE]
  /\ UNCHANGED <<text, onDisk, armed, serverVars, clientVars, job, writing,
                 verdict>>

FileCreated(d) ==
  /\ d \in Volatile
  /\ ~onDisk[d]
  /\ onDisk' = [onDisk EXCEPT ![d] = TRUE]
  /\ UNCHANGED <<text, open, armed, serverVars, clientVars, job, writing,
                 verdict>>

\* The Deleted event of a Solidity file clears its diagnostics.
FileDeleted(d) ==
  /\ d \in Volatile
  /\ onDisk[d]
  /\ onDisk' = [onDisk EXCEPT ![d] = FALSE]
  /\ diagnostics' = [diagnostics EXCEPT ![d] = [id |-> 0, rev |-> 0]]
  /\ verdict' = [verdict EXCEPT ![d] =
                   [rev |-> @.rev, id |-> @.id, outcome |-> "none"]]
  /\ UNCHANGED <<text, open, armed, serverVars, status, toasts, job, writing>>

-----------------------------------------------------------------------------
(* One validation.                                                         *)

\* Mutant: the validations in flight are counted, not the ones that started.
TakeNumberInFlight(t, d) ==
  LET inFlight == Cardinality({u \in Tasks : job[u].pc \notin {"idle", "isFile"}})
  IN  IF open[d]
      THEN /\ validationCount' = validationCount + 1
           /\ lastValidationId' = [lastValidationId EXCEPT ![d] = inFlight + 1]
           /\ job' = [job EXCEPT ![t] = Begun(d, "compiling", inFlight + 1,
                                              OpenTexts(d))]
      ELSE /\ UNCHANGED <<validationCount, lastValidationId>>
           /\ job' = [job EXCEPT ![t] = Idle(d)]

\* The code from the snapshot of the open documents to the first await of the
\* build: the validation gives up if its own document is not open, and takes
\* the next number otherwise.
TakeNumber(t, d) ==
  IF open[d]
  THEN /\ validationCount' = validationCount + 1
       /\ lastValidationId' = [lastValidationId EXCEPT ![d] = validationCount + 1]
       /\ job' = [job EXCEPT ![t] = Begun(d, "compiling", validationCount + 1,
                                          OpenTexts(d))]
  ELSE /\ UNCHANGED <<validationCount, lastValidationId>>
       /\ job' = [job EXCEPT ![t] = Idle(d)]

\* Mutant: the timer is dropped while the file is being validated.
StartUnlessBusy(t, d) ==
  /\ armed[d]
  /\ job[t].pc = "idle"
  /\ armed' = [armed EXCEPT ![d] = FALSE]
  /\ IF \E u \in Tasks : job[u].pc # "idle" /\ job[u].doc = d
     THEN UNCHANGED <<validationCount, lastValidationId, job>>
     ELSE IF indexed[d]
     THEN TakeNumber(t, d)
     ELSE /\ job' = [job EXCEPT ![t] = Begun(d, "isFile", 0, NoText)]
          /\ UNCHANGED <<validationCount, lastValidationId>>
  /\ UNCHANGED <<text, open, onDisk, indexed, shownInitializationError,
                 clientVars, writing, verdict>>

\* The debounce timer fires.
StartValidation(t, d) ==
  /\ armed[d]
  /\ job[t].pc = "idle"
  /\ armed' = [armed EXCEPT ![d] = FALSE]
  /\ IF indexed[d]
     THEN TakeNumber(t, d)
     ELSE /\ job' = [job EXCEPT ![t] = Begun(d, "isFile", 0, NoText)]
          /\ UNCHANGED <<validationCount, lastValidationId>>
  /\ UNCHANGED <<text, open, onDisk, indexed, shownInitializationError,
                 clientVars, writing, verdict>>

\* indexSolidityFile: the file must exist.
IsFile(t) ==
  /\ job[t].pc = "isFile"
  /\ IF onDisk[job[t].doc]
     THEN Await(t, "readFile")
     ELSE End(t)
  /\ UNCHANGED <<docVars, serverVars, clientVars, writing, verdict>>

\* indexSolidityFile: the file is read and enters the index, and the
\* validation goes on; a file that is gone by now makes readFile throw.
ReadFile(t) ==
  /\ job[t].pc = "readFile"
  /\ LET d == job[t].doc
     IN  IF onDisk[d]
         THEN /\ indexed' = [indexed EXCEPT ![d] = TRUE]
              /\ TakeNumber(t, d)
         ELSE /\ End(t)
              /\ UNCHANGED <<indexed, validationCount, lastValidationId>>
  /\ UNCHANGED <<docVars, shownInitializationError, clientVars, writing,
                 verdict>>

\* A validation that has been overtaken shows nothing.
Supersede(t) ==
  /\ job[t].pc = "compiling"
  /\ ~Latest(t)
  /\ End(t)
  /\ UNCHANGED <<docVars, serverVars, clientVars, writing, verdict>>

\* The latest validation of a file has its result and sends the first message.
Accept(t, o) ==
  /\ job[t].pc = "compiling"
  /\ Latest(t)
  /\ writing' = Append(writing, t)
  /\ verdict' = [verdict EXCEPT ![job[t].doc] =
                   [rev |-> job[t].snap[job[t].doc], id |-> job[t].id,
                    outcome |-> o]]
  /\ UNCHANGED <<docVars, serverVars, toasts>>

Publish(f, rev, t) ==
  diagnostics' = [diagnostics EXCEPT ![f] = [id |-> job[t].id, rev |-> rev]]

\* validationPass: clear every open document among the compiled sources, in
\* the order of the compiler input.
ShowPass(t, sources, first) ==
  LET toClear == {f \in sources : job[t].snap[f] # 0}
  IN  /\ Accept(t, PASS)
      /\ job[t].doc \in sources
      /\ first \in toClear
      /\ Publish(first, 0, t)
      /\ GoOn(t, "diagnosing", PASS, toClear \ {first}, sources)
      /\ UNCHANGED status

\* validationFail: the errors of the validated document.
ShowFail(t) ==
  /\ Accept(t, FAIL)
  /\ Publish(job[t].doc, job[t].snap[job[t].doc], t)
  /\ GoOn(t, "diagnosing", FAIL, {}, {})
  /\ UNCHANGED status

\* jobCompletionErrorFail: clear the validated document.
ShowJobError(t) ==
  /\ Accept(t, JOB)
  /\ Publish(job[t].doc, 0, t)
  /\ GoOn(t, "diagnosing", JOB, {}, {})
  /\ UNCHANGED status

\* handleBuildInputError: clear the validated document, then publish the error
\* of the file that has the bad import (`errorFile`), or, if the error is
\* project-wide (`errorFile` empty), only report it.
ShowBuildError(t, errorFile) ==
  /\ Accept(t, BUILD)
  /\ Cardinality(errorFile) <= 1
  /\ Publish(job[t].doc, 0, t)
  /\ GoOn(t, "diagnosing", BUILD, errorFile, {})
  /\ UNCHANGED status

\* sendStatusItemError and sendValidationProcessSuccess.
SendStatus(t, outcome) ==
  status' = [status EXCEPT ![ProjectOf[job[t].doc]] =
               [id |-> job[t].id, ok |-> outcome \in {PASS, FAIL}]]

\* handleInitializationFailedError: the status comes first.
ShowInitError(t) ==
  /\ Accept(t, INIT)
  /\ GoOn(t, "reporting", INIT, {}, {})
  /\ SendStatus(t, INIT)
  /\ UNCHANGED diagnostics

ShowResult(t) ==
  \/ PASS  \in Outcomes /\ \E sources \in SUBSET Docs, first \in Docs :
                              ShowPass(t, sources, first)
  \/ FAIL  \in Outcomes /\ ShowFail(t)
  \/ JOB   \in Outcomes /\ ShowJobError(t)
  \/ BUILD \in Outcomes /\ \E errorFile \in SUBSET Docs :
                              ShowBuildError(t, errorFile)
  \/ INIT  \in Outcomes /\ ShowInitError(t)

\* A send of task t is written and its await resumes, to send again or to end.
Resume(t) == writing # <<>> /\ Head(writing) = t
SendAgain(t) == writing' = Append(Tail(writing), t)

SendDiagnostics(t, f) ==
  /\ Resume(t)
  /\ job[t].pc = "diagnosing"
  /\ f \in job[t].todo
  /\ diagnostics' = [diagnostics EXCEPT ![f] = ErrorsOf(t, f)]
  /\ GoOn(t, "diagnosing", job[t].outcome, job[t].todo \ {f}, job[t].sources)
  /\ SendAgain(t)
  /\ UNCHANGED <<docVars, serverVars, status, toasts, verdict>>

ReportStatus(t) ==
  /\ Resume(t)
  /\ job[t].pc = "diagnosing"
  /\ job[t].todo = {}
  /\ Await(t, "reporting")
  /\ SendStatus(t, job[t].outcome)
  /\ SendAgain(t)
  /\ UNCHANGED <<docVars, serverVars, diagnostics, toasts, verdict>>

\* Mutant: the flag is not consulted.
MustNotifyAlways(t) == job[t].outcome = INIT

\* Does the failed initialization of the project still have to be announced?
MustNotify(t) ==
  /\ job[t].outcome = INIT
  /\ ~shownInitializationError[ProjectOf[job[t].doc]]

Notify(t) ==
  /\ Resume(t)
  /\ job[t].pc = "reporting"
  /\ MustNotify(t)
  /\ LET p == ProjectOf[job[t].doc]
     IN  /\ shownInitializationError' =
              [shownInitializationError EXCEPT ![p] = TRUE]
         /\ toasts' = [toasts EXCEPT ![p] = @ + 1]
  /\ Await(t, "notifying")
  /\ SendAgain(t)
  /\ UNCHANGED <<docVars, indexed, validationCount, lastValidationId,
                 diagnostics, status, verdict>>

Return(t) ==
  /\ Resume(t)
  /\ job[t].pc = "notifying" \/ (job[t].pc = "reporting" /\ ~MustNotify(t))
  /\ End(t)
  /\ writing' = Tail(writing)
  /\ UNCHANGED <<docVars, serverVars, clientVars, verdict>>

-----------------------------------------------------------------------------
Step(t) ==
  \/ IsFile(t)
  \/ ReadFile(t)
  \/ Supersede(t)
  \/ ShowResult(t)
  \/ \E f \in Docs : SendDiagnostics(t, f)
  \/ ReportStatus(t)
  \/ Notify(t)
  \/ Return(t)

Timer(d) == \E t \in Tasks : StartValidation(t, d)

Environment(d) ==
  \/ NewText(d)
  \/ DidClose(d)
  \/ FileCreated(d)
  \/ FileDeleted(d)

Next ==
  \/ \E d \in Docs : Environment(d) \/ Timer(d)
  \/ \E t \in Tasks : Step(t)

Spec == Init /\ [][Next]_vars

\* The event loop runs every ready continuation, a timer that is not restarted
\* fires, and builds and compilers return or time out.
Fairness ==
  /\ \A t \in Tasks : WF_vars(Step(t))
  /\ \A d \in Docs : WF_vars(Timer(d))

FairSpec == Spec /\ Fairness

-----------------------------------------------------------------------------
Stages == {"idle", "isFile", "readFile", "compiling", "diagnosing",
           "reporting", "notifying"}
Results == {"none", PASS, FAIL, BUILD, INIT, JOB}

Job == [pc : Stages, doc : Docs, id : Nat, snap : [Docs -> Nat],
        outcome : Results, todo : SUBSET Docs, sources : SUBSET Docs]

Publication == [id : Nat, rev : Nat]
Status  == [id : Nat, ok : BOOLEAN]
Verdict == [rev : Nat, id : Nat, outcome : Results]

\* Every variable has its type.
TypeOK ==
  /\ text \in [Docs -> Nat]
  /\ open \in [Docs -> BOOLEAN]
  /\ onDisk \in [Docs -> BOOLEAN]
  /\ armed \in [Docs -> BOOLEAN]
  /\ indexed \in [Docs -> BOOLEAN]
  /\ validationCount \in Nat
  /\ lastValidationId \in [Docs -> Nat]
  /\ shownInitializationError \in [Projects -> BOOLEAN]
  /\ job \in [Tasks -> Job]
  /\ writing \in Seq(Tasks)
  /\ diagnostics \in [Docs -> Publication]
  /\ status \in [Projects -> Status]
  /\ toasts \in [Projects -> Nat]
  /\ verdict \in [Docs -> Verdict]

\* The number of a validation orders it as its text does: of two validations of
\* a file in flight, the one with the smaller number compiles a text that is not
\* newer, and no two share a number.  This is what makes "the latest request"
\* (validate.ts, lastValidationId) mean "the newest text", although a request
\* may wait for its file to be indexed before it reads the text.
NumbersFollowTexts ==
  \A t, u \in Tasks :
    /\ t # u
    /\ Numbered(t) /\ Numbered(u)
    /\ job[t].doc = job[u].doc
    => /\ job[t].id # job[u].id
       /\ job[t].id < job[u].id =>
            job[t].snap[job[t].doc] <= job[u].snap[job[u].doc]

\* The failed initialization of a project is announced at most once per session
\* (validate.ts, handleInitializationFailedError), however many validations of
\* the project are between their status message and the announcement.
AnnouncedOnce == \A p \in Projects : toasts[p] <= 1

\* The verdicts the server accepts for a file are about texts that never get
\* older, whatever order the builds and compilers finish in, across restarts of
\* the timer, closings and reopenings (validate.ts, lastValidationId).
VerdictsNeverGoBack ==
  [][\A d \in Docs : verdict'[d].rev >= verdict[d].rev]_vars

\* Nothing is in flight and no timer runs.
AtRest ==
  /\ \A t \in Tasks : job[t].pc = "idle"
  /\ \A d \in Docs : ~armed[d]

\* The results of a lone file, except import errors and failed initializations,
\* take two messages each, so that overlapping ones are sent in step.
SentInStep == (\A d, e \in Docs : d = e) /\ Outcomes \cap {BUILD, INIT} = {}

\* Once the server is at rest, the client shows for an open file what the last
\* validation of the file found in the file's present text: its errors if it
\* failed, nothing otherwise (validate.ts, the check of lastValidationId before
\* sendResults).  The check is not repeated between the messages of a result, so
\* this takes messages sent in step; RestShowsNoStaleErrors shows what else happens.
RestShowsLatestVerdict ==
  SentInStep /\ AtRest => \A d \in Docs :
    open[d] /\ verdict[d].outcome # "none" =>
      diagnostics[d].rev = IF verdict[d].outcome = FAIL THEN text[d] ELSE 0

\* Once the server is at rest, the status item of a project tells the result of
\* the validation that was numbered last, not of one it overtook, if messages
\* are sent in step (validate.ts, the sends of a status after an await).
RestShowsLatestStatus ==
  SentInStep /\ AtRest => \A d \in Docs :
    status[ProjectOf[d]].id >= lastValidationId[d]

\* "Only show validation result if this is the latest validation request for this
\* file" (validate.ts): once the server is at rest, an open file shows no errors
\* of an older text.
RestShowsNoStaleErrors ==
  AtRest => \A d \in Docs :
    open[d] /\ verdict[d].outcome # "none" =>
      diagnostics[d].rev \in {0, text[d]}

\* "If a compilation is successful, all previous diagnostics are cleared": when
\* a validation reports that it passed, no file it compiled still shows errors
\* that were published before it.
PassClearsPrevious ==
  \A t \in Tasks :
    job[t].pc = "reporting" /\ job[t].outcome = PASS =>
      \A f \in job[t].sources :
        diagnostics[f].rev # 0 => diagnostics[f].id >= job[t].id

\* When the edits stop, the last text of every open document of the index is
\* judged: no text is lost between the timer, the indexing and the numbering.
LastTextIsJudged ==
  <>[](\A d \in Docs : open[d] /\ indexed[d] => verdict[d].rev = text[d])
=============================================================================
