---------------------- MODULE ValidationPipelineProofs ----------------------
(***************************************************************************)
(* Proofs about ValidationPipeline for every set of files, projects and    *)
(* validations in flight, every set of outcomes and every bound.           *)
(*                                                                         *)
(* NumberInv orders the numbers and the texts of the validations.  JudgeInv *)
(* says that the last text and the last number of a file are judged or     *)
(* about to be; WritersOnce and the InStep invariants follow the messages   *)
(* of a lone file in the order of the sends.  Together they are RestInv,   *)
(* from which what the client shows at rest follows.                       *)
(***************************************************************************)
EXTENDS ValidationPipeline, SequenceTheorems, TLAPS

-----------------------------------------------------------------------------
(* Types.                                                                  *)

\* The fields of a validation in flight have their types.
LEMMA JobFields ==
  ASSUME TypeOK, NEW t \in Tasks
  PROVE  /\ job[t].doc \in Docs
         /\ job[t].id \in Nat
         /\ job[t].snap \in [Docs -> Nat]
         /\ job[t].snap[job[t].doc] \in Nat
         /\ job[t].outcome \in Results
         /\ job[t].todo \in SUBSET Docs
         /\ job[t].sources \in SUBSET Docs
BY DEF TypeOK, Job

\* A validation that goes on (validate.ts, between two awaits) keeps its type.
LEMMA GoOnType ==
  ASSUME TypeOK, NEW t \in Tasks,
         NEW pc \in Stages, NEW outcome \in Results,
         NEW todo \in SUBSET Docs, NEW sources \in SUBSET Docs,
         GoOn(t, pc, outcome, todo, sources)
  PROVE  job' \in [Tasks -> Job]
<1>1. [pc |-> pc, doc |-> job[t].doc, id |-> job[t].id, snap |-> job[t].snap,
       outcome |-> outcome, todo |-> todo, sources |-> sources] \in Job
  BY JobFields DEF Job
<1> QED
  BY <1>1 DEF GoOn, TypeOK

\* A validation of a file that begins or ends has the type of a validation.
LEMMA BegunType ==
  ASSUME NEW d \in Docs, NEW pc \in Stages, NEW id \in Nat,
         NEW snap \in [Docs -> Nat]
  PROVE  Begun(d, pc, id, snap) \in Job
BY DEF Begun, Job, Results

LEMMA IdleType ==
  ASSUME NEW d \in Docs
  PROVE  Idle(d) \in Job
<1>1. NoText \in [Docs -> Nat]
  BY DEF NoText
<1> QED
  BY <1>1, BegunType DEF Idle, Stages

LEMMA EndType ==
  ASSUME TypeOK, NEW t \in Tasks, End(t)
  PROVE  job' \in [Tasks -> Job]
BY JobFields, IdleType DEF End, TypeOK

\* The snapshot of the open documents is a text for every file.
LEMMA SnapshotType ==
  ASSUME TypeOK, NEW d \in Docs
  PROVE  OpenTexts(d) \in [Docs -> Nat]
BY DEF OpenTexts, TypeOK

\* Taking a number (validate.ts, ++validationCount) keeps the types.
LEMMA TakeNumberType ==
  ASSUME TypeOK, NEW t \in Tasks, NEW d \in Docs, TakeNumber(t, d)
  PROVE  /\ job' \in [Tasks -> Job]
         /\ validationCount' \in Nat
         /\ lastValidationId' \in [Docs -> Nat]
<1>1. Idle(d) \in Job
  BY IdleType
<1>2. Begun(d, "compiling", validationCount + 1, OpenTexts(d)) \in Job
  <2>1. validationCount + 1 \in Nat
    BY DEF TypeOK
  <2> QED
    BY <2>1, SnapshotType, BegunType DEF Stages
<1>3. CASE open[d]
  <2>1. /\ validationCount' = validationCount + 1
        /\ lastValidationId' =
             [lastValidationId EXCEPT ![d] = validationCount + 1]
        /\ job' = [job EXCEPT ![t] = Begun(d, "compiling", validationCount + 1,
                                          OpenTexts(d))]
    BY <1>3 DEF TakeNumber
  <2> QED
    BY <1>2, <2>1 DEF TypeOK
<1>4. CASE ~open[d]
  BY <1>1, <1>4 DEF TakeNumber, TypeOK
<1> QED
  BY <1>3, <1>4

\* Accepting a result (validate.ts, the check of lastValidationId) keeps the
\* types of what it changes.
LEMMA AcceptType ==
  ASSUME TypeOK, NEW t \in Tasks, NEW o \in Results, Accept(t, o)
  PROVE  /\ writing' \in Seq(Tasks)
         /\ verdict' \in [Docs -> Verdict]
<1>1. [rev |-> job[t].snap[job[t].doc], id |-> job[t].id, outcome |-> o]
        \in Verdict
  BY JobFields DEF Verdict
<1>2. verdict' \in [Docs -> Verdict]
  BY <1>1 DEF Accept, TypeOK
<1>3. writing' \in Seq(Tasks)
  BY AppendProperties DEF Accept, TypeOK
<1> QED
  BY <1>2, <1>3

LEMMA PublishType ==
  ASSUME TypeOK, NEW t \in Tasks, NEW f \in Docs, NEW rev \in Nat,
         Publish(f, rev, t)
  PROVE  diagnostics' \in [Docs -> Publication]
<1>1. [id |-> job[t].id, rev |-> rev] \in Publication
  BY JobFields DEF Publication
<1> QED
  BY <1>1 DEF Publish, TypeOK

LEMMA SendStatusType ==
  ASSUME TypeOK, NEW t \in Tasks, NEW o \in Results, SendStatus(t, o)
  PROVE  status' \in [Projects -> Status]
<1>1. [id |-> job[t].id, ok |-> o \in {PASS, FAIL}] \in Status
  BY JobFields DEF Status
<1> QED
  BY <1>1 DEF SendStatus, TypeOK

LEMMA SendAgainType ==
  ASSUME TypeOK, NEW t \in Tasks, Resume(t)
  PROVE  /\ SendAgain(t) => writing' \in Seq(Tasks)
         /\ writing' = Tail(writing) => writing' \in Seq(Tasks)
<1>1. Tail(writing) \in Seq(Tasks)
  BY HeadTailProperties DEF Resume, TypeOK
<1> QED
  BY <1>1, AppendProperties DEF SendAgain

\* The first message of a result, when it is about the diagnostics of a file,
\* keeps the types.
LEMMA FirstDiagnosticsType ==
  ASSUME TypeOK, NEW t \in Tasks, NEW o \in Results, NEW f \in Docs,
         NEW rev \in Nat, NEW todo \in SUBSET Docs, NEW sources \in SUBSET Docs,
         Accept(t, o), Publish(f, rev, t),
         GoOn(t, "diagnosing", o, todo, sources), UNCHANGED status
  PROVE  TypeOK'
<1>1. writing' \in Seq(Tasks) /\ verdict' \in [Docs -> Verdict]
  BY AcceptType
<1>2. diagnostics' \in [Docs -> Publication]
  BY PublishType
<1>3. job' \in [Tasks -> Job]
  BY GoOnType DEF Stages
<1> QED
  BY <1>1, <1>2, <1>3 DEF TypeOK, Accept, docVars, serverVars

\* The first message of every result keeps the types.
LEMMA ShowResultType ==
  ASSUME TypeOK, NEW t \in Tasks, ShowResult(t)
  PROVE  TypeOK'
<1>0. /\ PASS \in Results /\ FAIL \in Results /\ JOB \in Results
      /\ BUILD \in Results /\ INIT \in Results
      /\ "reporting" \in Stages
      /\ {} \in SUBSET Docs
      /\ 0 \in Nat
  BY DEF Results, Stages
<1>1. ASSUME NEW sources \in SUBSET Docs, NEW first \in Docs,
             ShowPass(t, sources, first)
      PROVE  TypeOK'
  <2> DEFINE toClear == {f \in sources : job[t].snap[f] # 0}
  <2>1. toClear \ {first} \in SUBSET Docs
    OBVIOUS
  <2> QED
    BY <1>0, <1>1, <2>1, FirstDiagnosticsType DEF ShowPass
<1>2. CASE ShowFail(t)
  BY <1>0, <1>2, JobFields, FirstDiagnosticsType DEF ShowFail
<1>3. CASE ShowJobError(t)
  BY <1>0, <1>3, JobFields, FirstDiagnosticsType DEF ShowJobError
<1>4. ASSUME NEW errorFile \in SUBSET Docs, ShowBuildError(t, errorFile)
      PROVE  TypeOK'
  BY <1>0, <1>4, JobFields, FirstDiagnosticsType DEF ShowBuildError
<1>5. CASE ShowInitError(t)
  <2>1. writing' \in Seq(Tasks) /\ verdict' \in [Docs -> Verdict]
    BY <1>0, <1>5, AcceptType DEF ShowInitError
  <2>2. job' \in [Tasks -> Job]
    BY <1>0, <1>5, GoOnType DEF ShowInitError
  <2>3. status' \in [Projects -> Status]
    BY <1>0, <1>5, SendStatusType DEF ShowInitError
  <2> QED
    BY <1>5, <2>1, <2>2, <2>3
       DEF ShowInitError, TypeOK, Accept, docVars, serverVars
<1> QED
  BY <1>1, <1>2, <1>3, <1>4, <1>5 DEF ShowResult

\* Every step keeps the types.
LEMMA TypeStep == TypeOK /\ [Next]_vars => TypeOK'
<1> SUFFICES ASSUME TypeOK, [Next]_vars PROVE TypeOK'
  OBVIOUS
<1>1. ASSUME NEW d \in Docs, Environment(d) PROVE TypeOK'
  <2>1. CASE NewText(d)
    BY <2>1 DEF NewText, TypeOK, serverVars, clientVars
  <2>2. CASE DidClose(d)
    BY <2>2 DEF DidClose, TypeOK, serverVars, clientVars
  <2>3. CASE FileCreated(d)
    BY <2>3 DEF FileCreated, TypeOK, serverVars, clientVars
  <2>4. CASE FileDeleted(d)
    BY <2>4 DEF FileDeleted, TypeOK, serverVars, Publication, Verdict, Results
  <2> QED BY <1>1, <2>1, <2>2, <2>3, <2>4 DEF Environment
<1>2. ASSUME NEW t \in Tasks, NEW d \in Docs, StartValidation(t, d)
      PROVE TypeOK'
  <2>1. /\ job' \in [Tasks -> Job]
        /\ validationCount' \in Nat
        /\ lastValidationId' \in [Docs -> Nat]
    <3>1. CASE indexed[d]
      BY <1>2, <3>1, TakeNumberType DEF StartValidation
    <3>2. CASE ~indexed[d]
      <4>1. Begun(d, "isFile", 0, NoText) \in Job
        BY BegunType DEF Stages, NoText
      <4> QED
        BY <1>2, <3>2, <4>1 DEF StartValidation, TypeOK
    <3> QED BY <3>1, <3>2
  <2> QED
    BY <1>2, <2>1 DEF StartValidation, TypeOK, clientVars
<1>3. ASSUME NEW t \in Tasks, Step(t) PROVE TypeOK'
  <2> USE JobFields DEF Stages
  <2>1. CASE IsFile(t)
    <3>1. job' \in [Tasks -> Job]
      BY <2>1, EndType, GoOnType DEF IsFile, Await
    <3> QED
      BY <2>1, <3>1 DEF IsFile, TypeOK, docVars, serverVars, clientVars
  <2>2. CASE ReadFile(t)
    <3>1. /\ job' \in [Tasks -> Job]
          /\ validationCount' \in Nat
          /\ lastValidationId' \in [Docs -> Nat]
      <4>1. CASE onDisk[job[t].doc]
        BY <2>2, <4>1, TakeNumberType DEF ReadFile
      <4>2. CASE ~onDisk[job[t].doc]
        BY <2>2, <4>2, EndType DEF ReadFile, TypeOK
      <4> QED BY <4>1, <4>2
    <3>2. indexed' \in [Docs -> BOOLEAN]
      BY <2>2 DEF ReadFile, TypeOK
    <3> QED
      BY <2>2, <3>1, <3>2 DEF ReadFile, TypeOK, docVars, clientVars
  <2>3. CASE Supersede(t)
    BY <2>3, EndType DEF Supersede, TypeOK, docVars, serverVars, clientVars
  <2>4. CASE ShowResult(t)
    BY <2>4, ShowResultType
  <2>5. ASSUME NEW f \in Docs, SendDiagnostics(t, f) PROVE TypeOK'
    <3>1. job' \in [Tasks -> Job]
      BY <2>5, GoOnType DEF SendDiagnostics
    <3>2. diagnostics' \in [Docs -> Publication]
      <4>1. ErrorsOf(t, f) \in Publication
        BY DEF ErrorsOf, Publication
      <4> QED BY <2>5, <4>1 DEF SendDiagnostics, TypeOK
    <3>3. writing' \in Seq(Tasks)
      BY <2>5, SendAgainType DEF SendDiagnostics
    <3> QED
      BY <2>5, <3>1, <3>2, <3>3 DEF SendDiagnostics, TypeOK, docVars, serverVars
  <2>6. CASE ReportStatus(t)
    <3>1. /\ job' \in [Tasks -> Job] /\ status' \in [Projects -> Status]
          /\ writing' \in Seq(Tasks)
      BY <2>6, GoOnType, SendStatusType, SendAgainType DEF ReportStatus, Await
    <3> QED
      BY <2>6, <3>1 DEF ReportStatus, TypeOK, docVars, serverVars
  <2>7. CASE Notify(t)
    <3>1. /\ job' \in [Tasks -> Job] /\ writing' \in Seq(Tasks)
      BY <2>7, GoOnType, SendAgainType DEF Notify, Await
    <3>2. /\ shownInitializationError' \in [Projects -> BOOLEAN]
          /\ toasts' \in [Projects -> Nat]
      BY <2>7, ProjectAssumption DEF Notify, TypeOK
    <3> QED
      BY <2>7, <3>1, <3>2 DEF Notify, TypeOK, docVars
  <2>8. CASE Return(t)
    <3>1. /\ job' \in [Tasks -> Job] /\ writing' \in Seq(Tasks)
      BY <2>8, EndType, SendAgainType DEF Return
    <3> QED
      BY <2>8, <3>1 DEF Return, TypeOK, docVars, serverVars, clientVars
  <2> QED
    BY <1>3, <2>1, <2>2, <2>3, <2>4, <2>5, <2>6, <2>7, <2>8 DEF Step
<1>4. CASE UNCHANGED vars
  BY <1>4 DEF vars, docVars, serverVars, clientVars, TypeOK
<1> QED
  BY <1>1, <1>2, <1>3, <1>4 DEF Next, Timer

\* The initial state has the types.
LEMMA TypeInit == Init => TypeOK
<1> SUFFICES ASSUME Init PROVE TypeOK
  OBVIOUS
<1>1. job \in [Tasks -> Job]
  BY IdleType DEF Init
<1> QED
  BY <1>1 DEF Init, TypeOK, NoText, Publication, Status, Verdict, Results

\* The state of the pipeline and of its client always has its type.
THEOREM TypeCorrect == Spec => []TypeOK
BY TypeInit, TypeStep, PTL DEF Spec

-----------------------------------------------------------------------------
(* The numbers of the validations.                                         *)

\* No validation has a number above the counter, or a text newer than the
\* document's.
NumbersBounded ==
  \A t \in Tasks : Numbered(t) =>
    /\ job[t].id <= validationCount
    /\ job[t].snap[job[t].doc] <= text[job[t].doc]

\* The accepted verdict of a file is not about a text newer than the document's,
\* nor than the one its latest validation compiles.
VerdictsBounded ==
  /\ \A d \in Docs : verdict[d].rev <= text[d]
  /\ \A t \in Tasks : Numbered(t) /\ Latest(t) =>
       verdict[job[t].doc].rev <= job[t].snap[job[t].doc]

\* The inductive invariant.
NumberInv == TypeOK /\ NumbersBounded /\ NumbersFollowTexts /\ VerdictsBounded

\* A numbered validation of the next state that was numbered already and has
\* kept its file, number and snapshot.
Kept(u) ==
  /\ Numbered(u)
  /\ job'[u].doc = job[u].doc
  /\ job'[u].id = job[u].id
  /\ job'[u].snap = job[u].snap

\* The types of the parts of the state the invariant is about.
LEMMA NumberTypes ==
  ASSUME TypeOK
  PROVE  /\ validationCount \in Nat
         /\ \A d \in Docs : text[d] \in Nat /\ verdict[d].rev \in Nat
         /\ \A t \in Tasks : /\ job[t].doc \in Docs
                             /\ job[t].id \in Nat
                             /\ job[t].snap[job[t].doc] \in Nat
BY JobFields DEF TypeOK, Verdict

\* A step that takes no number and accepts no result preserves the invariant:
\* it may end validations, move them on and make texts newer.
LEMMA KeepingStep ==
  ASSUME NumberInv, TypeOK',
         \A u \in Tasks : Numbered(u)' => Kept(u),
         \A d \in Docs : text'[d] >= text[d] /\ verdict'[d].rev = verdict[d].rev,
         UNCHANGED <<validationCount, lastValidationId>>
  PROVE  NumberInv'
<1> USE NumberTypes DEF NumberInv
<1>1. NumbersBounded'
  <2> SUFFICES ASSUME NEW t \in Tasks, Numbered(t)'
               PROVE  /\ job'[t].id <= validationCount'
                      /\ job'[t].snap[job'[t].doc] <= text'[job'[t].doc]
    BY DEF NumbersBounded
  <2>1. Kept(t)
    OBVIOUS
  <2>2. text[job[t].doc] \in Nat /\ text'[job[t].doc] \in Nat
    BY DEF TypeOK
  <2> QED
    BY <2>1, <2>2 DEF NumbersBounded, Kept
<1>2. NumbersFollowTexts'
  BY DEF NumbersFollowTexts, Kept
<1>3. VerdictsBounded'
  <2>1. ASSUME NEW d \in Docs PROVE verdict'[d].rev <= text'[d]
    <3>1. text[d] \in Nat /\ text'[d] \in Nat /\ verdict[d].rev \in Nat
      BY DEF TypeOK
    <3>2. verdict[d].rev <= text[d]
      BY DEF VerdictsBounded
    <3> QED
      BY <3>1, <3>2
  <2>2. ASSUME NEW t \in Tasks, Numbered(t)', Latest(t)'
        PROVE  verdict'[job'[t].doc].rev <= job'[t].snap[job'[t].doc]
    BY <2>2 DEF VerdictsBounded, Kept, Latest
  <2> QED
    BY <2>1, <2>2 DEF VerdictsBounded
<1> QED
  BY <1>1, <1>2, <1>3

\* A step that takes a number gives it the present text and a number above all
\* others, and so preserves the invariant.
LEMMA NumberingStep ==
  ASSUME NumberInv, TypeOK', NEW t \in Tasks, NEW d \in Docs,
         open[d], TakeNumber(t, d), UNCHANGED <<text, verdict>>
  PROVE  NumberInv'
<1> USE NumberTypes DEF NumberInv
<1>1. /\ validationCount' = validationCount + 1
      /\ lastValidationId' = [lastValidationId EXCEPT ![d] = validationCount + 1]
      /\ job'[t] = Begun(d, "compiling", validationCount + 1, OpenTexts(d))
      /\ \A u \in Tasks \ {t} : job'[u] = job[u]
  BY DEF TakeNumber, TypeOK
<1>2. /\ job'[t].doc = d
      /\ job'[t].id = validationCount + 1
      /\ job'[t].snap[job'[t].doc] = text[d]
  BY <1>1 DEF Begun, OpenTexts
<1>3. ASSUME NEW u \in Tasks, u # t, Numbered(u)'
      PROVE  Kept(u) /\ job[u].id <= validationCount
  BY <1>1, <1>3 DEF Numbered, Kept, NumbersBounded
<1>4. NumbersBounded'
  BY <1>1, <1>2, <1>3 DEF NumbersBounded, Kept
<1>5. NumbersFollowTexts'
  <2> SUFFICES ASSUME NEW u \in Tasks, NEW v \in Tasks, u # v,
                      Numbered(u)', Numbered(v)', job'[u].doc = job'[v].doc
               PROVE  /\ job'[u].id # job'[v].id
                      /\ job'[u].id < job'[v].id =>
                           job'[u].snap[job'[u].doc] <= job'[v].snap[job'[v].doc]
    BY DEF NumbersFollowTexts
  <2>1. CASE u = t
    BY <1>2, <1>3, <2>1 DEF Kept
  <2>2. CASE v = t
    <3>1. Kept(u) /\ job[u].id <= validationCount /\ job[u].doc = d
      BY <1>2, <1>3, <2>2 DEF Kept
    <3>2. job[u].snap[job[u].doc] <= text[d]
      BY <3>1 DEF Kept, NumbersBounded
    <3> QED
      BY <1>2, <2>2, <3>1, <3>2 DEF Kept
  <2>3. CASE u # t /\ v # t
    BY <1>3, <2>3 DEF Kept, NumbersFollowTexts
  <2> QED
    BY <2>1, <2>2, <2>3
<1>6. VerdictsBounded'
  <2>1. ASSUME NEW u \in Tasks, Numbered(u)', Latest(u)'
        PROVE  verdict'[job'[u].doc].rev <= job'[u].snap[job'[u].doc]
    <3>1. CASE u = t
      BY <1>2, <3>1 DEF VerdictsBounded
    <3>2. CASE u # t
      <4>1. Kept(u) /\ job[u].id <= validationCount
        BY <1>3, <2>1, <3>2
      <4>2. job[u].doc # d
        BY <1>1, <2>1, <4>1 DEF Latest, Kept, TypeOK
      <4>3. Latest(u)
        BY <1>1, <2>1, <4>1, <4>2 DEF Latest, Kept, TypeOK
      <4> QED
        BY <4>1, <4>3 DEF Kept, VerdictsBounded
    <3> QED BY <3>1, <3>2
  <2> QED
    BY <2>1 DEF VerdictsBounded
<1> QED
  BY <1>4, <1>5, <1>6

\* The latest validation of a file is the only one with its number, and its text
\* is not older than the accepted one: accepting it preserves the invariant.
LEMMA AcceptingStep ==
  ASSUME NumberInv, TypeOK', NEW t \in Tasks, NEW o \in Results, Accept(t, o),
         \A u \in Tasks : Numbered(u)' => Kept(u)
  PROVE  /\ NumberInv'
         /\ \A d \in Docs : verdict'[d].rev >= verdict[d].rev
<1> USE NumberTypes DEF NumberInv
<1> DEFINE d == job[t].doc
<1>1. /\ Numbered(t) /\ Latest(t)
      /\ UNCHANGED <<text, validationCount, lastValidationId>>
  BY DEF Accept, Numbered, docVars, serverVars
<1>2. /\ verdict'[d].rev = job[t].snap[d]
      /\ \A e \in Docs \ {d} : verdict'[e] = verdict[e]
  BY DEF Accept, TypeOK
<1>3. /\ verdict[d].rev <= job[t].snap[d]
      /\ job[t].snap[d] <= text[d]
  BY <1>1 DEF VerdictsBounded, NumbersBounded
<1>4. NumbersBounded'
  BY <1>1 DEF NumbersBounded, Kept
<1>5. NumbersFollowTexts'
  BY DEF NumbersFollowTexts, Kept
<1>6. VerdictsBounded'
  <2>1. \A e \in Docs : verdict'[e].rev <= text'[e]
    BY <1>1, <1>2, <1>3 DEF VerdictsBounded
  <2>2. ASSUME NEW u \in Tasks, Numbered(u)', Latest(u)'
        PROVE  verdict'[job'[u].doc].rev <= job'[u].snap[job'[u].doc]
    <3>1. Kept(u) /\ Latest(u)
      BY <1>1, <2>2 DEF Latest, Kept
    <3>2. CASE job[u].doc = d
      <4>1. u = t
        BY <1>1, <3>1, <3>2 DEF NumbersFollowTexts, Latest, Kept
      <4> QED
        BY <1>2, <3>1, <4>1 DEF Kept
    <3>3. CASE job[u].doc # d
      BY <1>2, <3>1, <3>3 DEF VerdictsBounded, Kept
    <3> QED BY <3>2, <3>3
  <2> QED
    BY <2>1, <2>2 DEF VerdictsBounded
<1> QED
  BY <1>2, <1>3, <1>4, <1>5, <1>6

\* A validation that ends, or is yet to read the open documents, is not
\* numbered; one that goes on keeps its number.
LEMMA BegunKeeps ==
  ASSUME TypeOK, NEW t \in Tasks, NEW d, NEW pc \in {"idle", "isFile"},
         NEW id, NEW snap,
         job' = [job EXCEPT ![t] = Begun(d, pc, id, snap)],
         NEW u \in Tasks, Numbered(u)'
  PROVE  Kept(u)
<1>1. job'[t] = Begun(d, pc, id, snap)
  BY DEF TypeOK
<1>2. job'[t].pc = pc
  BY <1>1 DEF Begun
<1>3. u # t
  BY <1>2 DEF Numbered
<1>4. job'[u] = job[u]
  BY <1>3 DEF TypeOK
<1> QED
  BY <1>4 DEF Kept, Numbered

LEMMA EndKeeps ==
  ASSUME TypeOK, NEW t \in Tasks, End(t), NEW u \in Tasks, Numbered(u)'
  PROVE  Kept(u)
BY BegunKeeps DEF End, Idle

LEMMA GoOnKeeps ==
  ASSUME TypeOK, NEW t \in Tasks, NEW pc, NEW outcome, NEW todo, NEW sources,
         GoOn(t, pc, outcome, todo, sources),
         pc = "readFile" \/ Numbered(t),
         NEW u \in Tasks, Numbered(u)'
  PROVE  Kept(u)
<1>1. /\ job'[t].pc = pc
      /\ job'[t].doc = job[t].doc
      /\ job'[t].id = job[t].id
      /\ job'[t].snap = job[t].snap
  BY DEF GoOn, TypeOK
<1>2. CASE u = t
  BY <1>1, <1>2 DEF Numbered, Kept
<1>3. CASE u # t
  BY <1>3 DEF GoOn, Kept, Numbered, TypeOK
<1> QED
  BY <1>2, <1>3

\* Every step preserves the invariant and accepts no verdict about an older text.
LEMMA NumberStep ==
  ASSUME NumberInv, [Next]_vars
  PROVE  /\ NumberInv'
         /\ \A d \in Docs : verdict'[d].rev >= verdict[d].rev
<1>0. TypeOK' /\ TypeOK
  BY TypeStep DEF NumberInv
<1> DEFINE Goal == /\ NumberInv'
                   /\ \A d \in Docs : verdict'[d].rev >= verdict[d].rev
<1>a. ASSUME UNCHANGED <<text, verdict, validationCount, lastValidationId>>,
             \A u \in Tasks : Numbered(u)' => Kept(u)
      PROVE  Goal
  <2>1. \A d \in Docs : text'[d] >= text[d] /\ verdict'[d].rev = verdict[d].rev
    BY <1>0, <1>a, NumberTypes
  <2> QED
    BY <1>0, <1>a, <2>1, KeepingStep, NumberTypes
<1>b. ASSUME UNCHANGED <<validationCount, lastValidationId, job>>,
             \A d \in Docs : text'[d] >= text[d] /\ verdict'[d].rev = verdict[d].rev
      PROVE  Goal
  <2>1. \A u \in Tasks : Numbered(u)' => Kept(u)
    BY <1>b DEF Numbered, Kept
  <2> QED
    BY <1>0, <1>b, <2>1, KeepingStep, NumberTypes
<1>c. ASSUME NEW t \in Tasks, NEW d \in Docs, TakeNumber(t, d),
             UNCHANGED <<text, verdict>>
      PROVE  Goal
  <2>1. CASE open[d]
    BY <1>0, <1>c, <2>1, NumberingStep, NumberTypes
  <2>2. CASE ~open[d]
    <3>1. UNCHANGED <<validationCount, lastValidationId>>
      BY <1>c, <2>2 DEF TakeNumber
    <3>2. ASSUME NEW u \in Tasks, Numbered(u)' PROVE Kept(u)
      BY <1>0, <1>c, <2>2, <3>2, BegunKeeps DEF TakeNumber, Idle
    <3> QED
      BY <1>a, <1>c, <3>1, <3>2
  <2> QED
    BY <2>1, <2>2
<1>d. ASSUME NEW t \in Tasks, NEW o \in Results, Accept(t, o),
             NEW pc, NEW todo, NEW sources, GoOn(t, pc, o, todo, sources)
      PROVE  Goal
  <2>1. Numbered(t)
    BY <1>d DEF Accept, Numbered
  <2>2. \A u \in Tasks : Numbered(u)' => Kept(u)
    BY <1>0, <1>d, <2>1, GoOnKeeps
  <2> QED
    BY <1>0, <1>d, <2>2, AcceptingStep
<1>1. ASSUME NEW d \in Docs, Environment(d) PROVE Goal
  <2>1. CASE NewText(d)
    BY <1>0, <1>b, <2>1 DEF NewText, serverVars, TypeOK
  <2>2. CASE DidClose(d)
    BY <1>0, <1>b, <2>2 DEF DidClose, serverVars, TypeOK
  <2>3. CASE FileCreated(d)
    BY <1>0, <1>b, <2>3 DEF FileCreated, serverVars, TypeOK
  <2>4. CASE FileDeleted(d)
    BY <1>0, <1>b, <2>4 DEF FileDeleted, serverVars, TypeOK
  <2> QED
    BY <1>1, <2>1, <2>2, <2>3, <2>4 DEF Environment
<1>2. ASSUME NEW t \in Tasks, NEW d \in Docs, StartValidation(t, d) PROVE Goal
  <2>1. CASE indexed[d]
    BY <1>2, <1>c, <2>1 DEF StartValidation
  <2>2. CASE ~indexed[d]
    <3>1. ASSUME NEW u \in Tasks, Numbered(u)' PROVE Kept(u)
      BY <1>0, <1>2, <2>2, <3>1, BegunKeeps DEF StartValidation
    <3> QED
      BY <1>2, <1>a, <2>2, <3>1 DEF StartValidation
  <2> QED
    BY <2>1, <2>2
<1>3. ASSUME NEW t \in Tasks, Step(t) PROVE Goal
  <2>1. CASE IsFile(t)
    BY <1>0, <1>a, <2>1, EndKeeps, GoOnKeeps
       DEF IsFile, Await, docVars, serverVars
  <2>2. CASE ReadFile(t)
    <3>1. CASE onDisk[job[t].doc]
      BY <1>0, <1>c, <2>2, <3>1, NumberTypes DEF ReadFile, docVars
    <3>2. CASE ~onDisk[job[t].doc]
      BY <1>0, <1>a, <2>2, <3>2, EndKeeps DEF ReadFile, docVars
    <3> QED BY <3>1, <3>2
  <2>3. CASE Supersede(t)
    BY <1>0, <1>a, <2>3, EndKeeps DEF Supersede, docVars, serverVars
  <2>4. CASE ShowResult(t)
    <3>1. PICK o \in {PASS, FAIL, BUILD, INIT, JOB} :
            /\ Accept(t, o)
            /\ \E pc, todo, sources : GoOn(t, pc, o, todo, sources)
      BY <2>4 DEF ShowResult, ShowPass, ShowFail, ShowJobError, ShowBuildError,
                  ShowInitError
    <3> QED
      BY <1>d, <3>1 DEF Results
  <2>5. ASSUME NEW f \in Docs, SendDiagnostics(t, f) PROVE Goal
    BY <1>0, <1>a, <2>5, GoOnKeeps
       DEF SendDiagnostics, Numbered, docVars, serverVars
  <2>6. CASE ReportStatus(t)
    BY <1>0, <1>a, <2>6, GoOnKeeps
       DEF ReportStatus, Await, Numbered, docVars, serverVars
  <2>7. CASE Notify(t)
    BY <1>0, <1>a, <2>7, GoOnKeeps DEF Notify, Await, Numbered, docVars
  <2>8. CASE Return(t)
    BY <1>0, <1>a, <2>8, EndKeeps DEF Return, docVars, serverVars
  <2> QED
    BY <1>3, <2>1, <2>2, <2>3, <2>4, <2>5, <2>6, <2>7, <2>8 DEF Step
<1>4. CASE UNCHANGED vars
  BY <1>0, <1>b, <1>4, NumberTypes DEF vars, docVars, serverVars
<1> QED
  BY <1>1, <1>2, <1>3, <1>4 DEF Next, Timer

\* Initially no validation is in flight and no verdict was accepted.
LEMMA NumberInit == Init => NumberInv
<1> SUFFICES ASSUME Init PROVE NumberInv
  OBVIOUS
<1>1. \A t \in Tasks : ~Numbered(t)
  BY DEF Init, Idle, Begun, Numbered
<1>2. \A d \in Docs : verdict[d].rev = 0 /\ text[d] = 0
  BY DEF Init, NoText
<1> QED
  BY <1>1, <1>2, TypeInit
     DEF NumberInv, NumbersBounded, NumbersFollowTexts, VerdictsBounded

\* The inductive invariant of the numbers of validate.ts holds in every state.
THEOREM NumberInvariant == Spec => []NumberInv
<1>1. NumberInv /\ [Next]_vars => NumberInv'
  BY NumberStep
<1> QED
  BY <1>1, NumberInit, PTL DEF Spec

\* Numbers order the validations of a file as their texts (validate.ts,
\* lastValidationId): see NumbersFollowTexts.
THEOREM NumbersOrderTexts == Spec => []NumbersFollowTexts
BY NumberInvariant, PTL DEF NumberInv

\* The server accepts no verdict about an older text: see VerdictsNeverGoBack.
THEOREM AcceptedVerdicts == Spec => VerdictsNeverGoBack
<1>1. NumberInv /\ [Next]_vars =>
        [\A d \in Docs : verdict'[d].rev >= verdict[d].rev]_vars
  BY NumberStep
<1> QED
  BY <1>1, NumberInvariant, PTL DEF Spec, VerdictsNeverGoBack

-----------------------------------------------------------------------------
(* What a step does to the validations.                                    *)

Sending == {"diagnosing", "reporting", "notifying"}

\* No validation moves; only texts that arm their timer are new.
Quiet ==
  /\ job' = job
  /\ UNCHANGED <<validationCount, lastValidationId, indexed, writing>>
  /\ \A d \in Docs :
       /\ verdict'[d].id = verdict[d].id /\ verdict'[d].rev = verdict[d].rev
       /\ verdict'[d].outcome \in {verdict[d].outcome, "none"}
       /\ open'[d] /\ ~armed'[d] => open[d] /\ ~armed[d] /\ text'[d] = text[d]

\* Validation t takes a number for file d.
Numbering(t, d) ==
  /\ open[d] /\ TakeNumber(t, d) /\ job[t].pc \in {"idle", "readFile"}
  /\ UNCHANGED <<text, open, verdict, writing>>
  /\ indexed'[d] /\ \A e \in Docs \ {d} : indexed'[e] = indexed[e] /\ armed'[e] = armed[e]

\* The result of validation t is accepted.
Accepting(t) ==
  /\ job[t].pc = "compiling" /\ Latest(t)
  /\ job'[t].pc \in {"diagnosing", "reporting"} /\ Kept(t)
  /\ \A u \in Tasks \ {t} : job'[u] = job[u]
  /\ UNCHANGED <<docVars, serverVars>>
  /\ writing' = Append(writing, t)
  /\ verdict'[job[t].doc].id = job[t].id
  /\ verdict'[job[t].doc].rev = job[t].snap[job[t].doc]
  /\ \A d \in Docs \ {job[t].doc} : verdict'[d] = verdict[d]

\* Validation t sends again, or it ends or gets no number.
Sends(t) == Resume(t) /\ SendAgain(t) /\ job[t].pc \in Sending /\ job'[t].pc \in Sending
            /\ Kept(t)
Finishes(t) == Resume(t) /\ writing' = Tail(writing) /\ job[t].pc \in Sending
               /\ job'[t].pc = "idle"
Waits(t) == /\ writing' = writing /\ job[t].pc \notin Sending
            /\ job'[t].pc \in {"idle", "isFile", "readFile"}
            /\ job[t].pc = "compiling" => ~Latest(t)
Passing(t) ==
  /\ Sends(t) \/ Finishes(t) \/ Waits(t)
  /\ \A u \in Tasks \ {t} : job'[u] = job[u]
  /\ UNCHANGED <<validationCount, lastValidationId, verdict, text, open>>
  /\ \A d \in Docs : /\ indexed[d] => indexed'[d]
                     /\ indexed'[d] /\ ~indexed[d] => ~open[d]
                     /\ armed[d] /\ ~armed'[d] => ~open[d] \/ ~indexed'[d]

LEMMA BeginningJob ==
  ASSUME TypeOK, NEW t \in Tasks, NEW d, NEW pc, NEW id, NEW snap,
         job' = [job EXCEPT ![t] = Begun(d, pc, id, snap)]
  PROVE  /\ job'[t].pc = pc /\ job'[t].doc = d /\ job'[t].id = id /\ job'[t].snap = snap
         /\ job'[t].outcome = "none"
         /\ \A u \in Tasks \ {t} : job'[u] = job[u]
<1>1. job'[t] = Begun(d, pc, id, snap) /\ \A u \in Tasks \ {t} : job'[u] = job[u]
  BY DEF TypeOK
<1> QED BY <1>1 DEF Begun

LEMMA EndingJob ==
  ASSUME TypeOK, NEW t \in Tasks, End(t)
  PROVE  job'[t].pc = "idle" /\ job'[t].outcome = "none" /\ \A u \in Tasks \ {t} : job'[u] = job[u]
BY BeginningJob DEF End, Idle

LEMMA GoingOnJob ==
  ASSUME TypeOK, NEW t \in Tasks, NEW pc, NEW outcome, NEW todo, NEW sources,
         GoOn(t, pc, outcome, todo, sources)
  PROVE  /\ job'[t].pc = pc /\ job'[t].doc = job[t].doc /\ job'[t].id = job[t].id
         /\ job'[t].snap = job[t].snap /\ job'[t].outcome = outcome /\ job'[t].todo = todo
         /\ \A u \in Tasks \ {t} : job'[u] = job[u]
BY DEF GoOn, TypeOK

\* What taking a number does, for an open file.
LEMMA TakingNumber ==
  ASSUME TypeOK, NEW t \in Tasks, NEW d \in Docs, TakeNumber(t, d), open[d]
  PROVE  /\ validationCount' = validationCount + 1
         /\ lastValidationId'[d] = validationCount + 1
         /\ \A e \in Docs \ {d} : lastValidationId'[e] = lastValidationId[e]
         /\ job'[t].pc = "compiling" /\ job'[t].doc = d /\ job'[t].id = validationCount + 1
         /\ job'[t].snap[d] = text[d] /\ job'[t].outcome = "none"
         /\ \A u \in Tasks \ {t} : job'[u] = job[u]
<1>1. /\ validationCount' = validationCount + 1
      /\ lastValidationId' = [lastValidationId EXCEPT ![d] = validationCount + 1]
      /\ job' = [job EXCEPT ![t] = Begun(d, "compiling", validationCount + 1, OpenTexts(d))]
  BY DEF TakeNumber
<1>2. OpenTexts(d)[d] = text[d]
  BY DEF OpenTexts
<1>3. /\ job'[t].pc = "compiling" /\ job'[t].doc = d /\ job'[t].id = validationCount + 1
      /\ job'[t].snap = OpenTexts(d) /\ job'[t].outcome = "none"
      /\ \A u \in Tasks \ {t} : job'[u] = job[u]
  <2>1. /\ job'[t] = Begun(d, "compiling", validationCount + 1, OpenTexts(d))
        /\ \A u \in Tasks \ {t} : job'[u] = job[u]
    BY <1>1 DEF TypeOK
  <2> QED BY <2>1 DEF Begun
<1> QED BY <1>1, <1>2, <1>3 DEF TypeOK

LEMMA Accepts ==
  ASSUME TypeOK, NEW t \in Tasks, NEW o, Accept(t, o), NEW pc \in {"diagnosing", "reporting"},
         NEW todo, NEW sources, GoOn(t, pc, o, todo, sources)
  PROVE  Accepting(t)
<1>1. /\ verdict'[job[t].doc] = [rev |-> job[t].snap[job[t].doc], id |-> job[t].id,
                                 outcome |-> o]
      /\ \A d \in Docs \ {job[t].doc} : verdict'[d] = verdict[d]
  BY JobFields DEF Accept, TypeOK
<1>2. Kept(t) /\ job'[t].pc = pc /\ \A u \in Tasks \ {t} : job'[u] = job[u]
  BY GoingOnJob DEF Kept, Accept, Numbered
<1> QED BY <1>1, <1>2 DEF Accepting, Accept

LEMMA Starts ==
  ASSUME TypeOK, NEW t \in Tasks, NEW d \in Docs, StartValidation(t, d)
  PROVE  Passing(t) \/ Numbering(t, d)
<1>0. job[t].pc = "idle" /\ \A e \in Docs \ {d} : armed'[e] = armed[e]
  BY DEF StartValidation, TypeOK
<1>1. CASE indexed[d] /\ open[d]
  BY <1>0, <1>1 DEF StartValidation, Numbering
<1>2. CASE ~(indexed[d] /\ open[d])
  <2>1. job'[t].pc \in {"idle", "isFile"} /\ \A u \in Tasks \ {t} : job'[u] = job[u]
    <3>1. CASE indexed[d]
      BY <1>2, <3>1, BeginningJob DEF StartValidation, TakeNumber, Idle
    <3>2. CASE ~indexed[d]
      BY <3>2, BeginningJob DEF StartValidation
    <3> QED BY <3>1, <3>2
  <2>2. UNCHANGED <<validationCount, lastValidationId, verdict, text, open, indexed, writing>>
    BY <1>2 DEF StartValidation, TakeNumber
  <2> QED BY <1>0, <1>2, <2>1, <2>2 DEF Passing, Waits, Sending
<1> QED BY <1>1, <1>2

LEMMA ReadFileMoves ==
  ASSUME TypeOK, NEW t \in Tasks, ReadFile(t)
  PROVE  Passing(t) \/ Numbering(t, job[t].doc)
<1> DEFINE d == job[t].doc
<1>0. d \in Docs /\ job[t].pc = "readFile" /\ UNCHANGED <<text, open, armed, verdict, writing>>
  BY JobFields DEF ReadFile, docVars
<1>1. CASE onDisk[d] /\ open[d]
  <2>1. indexed'[d] /\ \A e \in Docs \ {d} : indexed'[e] = indexed[e]
    BY <1>1, JobFields DEF ReadFile, TypeOK
  <2> QED BY <1>0, <1>1, <2>1 DEF ReadFile, Numbering
<1>2. CASE ~onDisk[d]
  BY <1>0, <1>2, EndingJob DEF ReadFile, Passing, Waits, Sending
<1>3. CASE onDisk[d] /\ ~open[d]
  <2>1. job'[t].pc = "idle" /\ \A u \in Tasks \ {t} : job'[u] = job[u]
    BY <1>3, BeginningJob DEF ReadFile, TakeNumber, Idle
  <2>2. /\ UNCHANGED <<validationCount, lastValidationId>>
        /\ \A e \in Docs : e # d => indexed'[e] = indexed[e]
        /\ indexed'[d]
    BY <1>0, <1>3 DEF ReadFile, TakeNumber, TypeOK
  <2> QED BY <1>0, <1>3, <2>1, <2>2 DEF Passing, Waits, Sending
<1> QED BY <1>1, <1>2, <1>3

LEMMA StepMoves ==
  ASSUME TypeOK, NEW t \in Tasks, Step(t)
  PROVE  Passing(t) \/ Accepting(t) \/ \E d \in Docs : Numbering(t, d)
<1>1. CASE IsFile(t)
  <2>1. job[t].pc = "isFile" /\ UNCHANGED <<docVars, serverVars, writing, verdict>>
    BY <1>1 DEF IsFile
  <2>2. job'[t].pc \in {"idle", "readFile"} /\ \A u \in Tasks \ {t} : job'[u] = job[u]
    BY <1>1, EndingJob, GoingOnJob DEF IsFile, Await
  <2> QED BY <2>1, <2>2 DEF Passing, Waits, Sending, docVars, serverVars
<1>2. CASE ReadFile(t)
  BY <1>2, ReadFileMoves, JobFields
<1>3. CASE Supersede(t)
  BY <1>3, EndingJob DEF Supersede, Passing, Waits, Sending, docVars, serverVars
<1>4. CASE ShowResult(t)
  <2>1. PICK o : /\ Accept(t, o)
                 /\ \E pc \in {"diagnosing", "reporting"} : \E todo, sources :
                      GoOn(t, pc, o, todo, sources)
    BY <1>4 DEF ShowResult, ShowPass, ShowFail, ShowJobError, ShowBuildError, ShowInitError
  <2> QED BY <2>1, Accepts
<1>5. ASSUME \/ \E f \in Docs : SendDiagnostics(t, f)
             \/ ReportStatus(t) \/ Notify(t)
      PROVE  Passing(t)
  <2>1. /\ Resume(t) /\ SendAgain(t) /\ job[t].pc \in Sending
        /\ UNCHANGED <<text, open, armed, indexed, validationCount, lastValidationId, verdict>>
    BY <1>5 DEF SendDiagnostics, ReportStatus, Notify, docVars, serverVars, Sending
  <2>2. \E pc \in Sending : \E outcome, todo, sources : GoOn(t, pc, outcome, todo, sources)
    BY <1>5 DEF SendDiagnostics, ReportStatus, Notify, Await, Sending
  <2>3. /\ job'[t].pc \in Sending /\ job'[t].doc = job[t].doc /\ job'[t].id = job[t].id
        /\ job'[t].snap = job[t].snap /\ \A u \in Tasks \ {t} : job'[u] = job[u]
    BY <2>2, GoingOnJob
  <2> QED BY <2>1, <2>3 DEF Passing, Sends, Sending, Kept, Numbered
<1>6. CASE Return(t)
  BY <1>6, EndingJob DEF Return, Passing, Finishes, Sending, docVars, serverVars
<1> QED BY <1>1, <1>2, <1>3, <1>4, <1>5, <1>6 DEF Step

LEMMA NextMoves ==
  ASSUME TypeOK, [Next]_vars
  PROVE  \/ Quiet
         \/ \E t \in Tasks : Passing(t) \/ Accepting(t) \/ \E d \in Docs : Numbering(t, d)
<1>1. ASSUME NEW d \in Docs, Environment(d) PROVE Quiet
  <2>1. CASE NewText(d)
    BY <2>1 DEF NewText, Quiet, serverVars, TypeOK
  <2>2. CASE DidClose(d)
    BY <2>2 DEF DidClose, Quiet, serverVars, TypeOK
  <2>3. CASE FileCreated(d)
    BY <2>3 DEF FileCreated, Quiet, serverVars, TypeOK
  <2>4. CASE FileDeleted(d)
    BY <2>4 DEF FileDeleted, Quiet, serverVars, TypeOK
  <2> QED BY <1>1, <2>1, <2>2, <2>3, <2>4 DEF Environment
<1>2. CASE UNCHANGED vars
  BY <1>2 DEF vars, docVars, serverVars, Quiet
<1> QED BY <1>1, <1>2, Starts, StepMoves DEF Next, Timer

-----------------------------------------------------------------------------
(* The last text and the last number of a file.                            *)

\* Validation t is the latest of file d and has no result yet.
Judging(t, d) ==
  job[t].pc = "compiling" /\ job[t].doc = d /\ job[t].id = lastValidationId[d]

NumberedAreIndexed ==
  /\ \A t \in Tasks : Numbered(t) => indexed[job[t].doc]
  /\ \A d \in Docs : verdict[d].outcome # "none" => indexed[d]

\* The last text of an open file waits for its timer, is compiled or is judged.
TextsAreJudged ==
  \A d \in Docs : open[d] /\ indexed[d] =>
    \/ armed[d]
    \/ \E t \in Tasks : Judging(t, d) /\ job[t].snap[d] = text[d]
    \/ (verdict[d].id = lastValidationId[d] /\ verdict[d].rev = text[d])

\* The validation that was numbered last is compiled or was accepted.
NumbersAreJudged ==
  \A d \in Docs :
    \/ lastValidationId[d] = 0
    \/ \E t \in Tasks : Judging(t, d)
    \/ verdict[d].id = lastValidationId[d]

LatestIsLargest ==
  /\ \A d \in Docs : /\ verdict[d].id <= lastValidationId[d]
                     /\ lastValidationId[d] <= validationCount
  /\ \A t \in Tasks : Numbered(t) => job[t].id <= lastValidationId[job[t].doc]
  /\ \A t \in Tasks : job[t].pc = "compiling" => job[t].id # verdict[job[t].doc].id

JudgeInv == NumberedAreIndexed /\ TextsAreJudged /\ NumbersAreJudged /\ LatestIsLargest

LEMMA QuietJudges ==
  ASSUME NumberInv, JudgeInv, Quiet
  PROVE  JudgeInv'
<1> USE DEF JudgeInv, Quiet
<1>1. \A t \in Tasks, d \in Docs : Judging(t, d)' <=> Judging(t, d)
  BY DEF Judging
<1>2. NumberedAreIndexed'
  BY NumberTypes DEF NumberedAreIndexed, Numbered, NumberInv
<1>3. NumbersAreJudged'
  BY <1>1 DEF NumbersAreJudged
<1>4. TextsAreJudged'
  <2> SUFFICES ASSUME NEW d \in Docs, open'[d], indexed'[d], ~armed'[d]
               PROVE  \/ \E t \in Tasks : Judging(t, d)' /\ job'[t].snap[d] = text'[d]
                      \/ (verdict'[d].id = lastValidationId'[d] /\ verdict'[d].rev = text'[d])
    BY DEF TextsAreJudged
  <2>1. open[d] /\ indexed[d] /\ ~armed[d] /\ text'[d] = text[d]
    OBVIOUS
  <2> QED BY <1>1, <2>1 DEF TextsAreJudged
<1>5. LatestIsLargest'
  BY NumberTypes DEF LatestIsLargest, Numbered, NumberInv
<1> QED BY <1>2, <1>3, <1>4, <1>5

LEMMA PassingJudges ==
  ASSUME NumberInv, JudgeInv, NEW t \in Tasks, Passing(t)
  PROVE  JudgeInv'
<1> USE DEF JudgeInv
<1>0. /\ UNCHANGED <<validationCount, lastValidationId, verdict, text, open>>
      /\ \A u \in Tasks \ {t} : job'[u] = job[u]
      /\ \A d \in Docs : /\ indexed[d] => indexed'[d]
                         /\ indexed'[d] /\ ~indexed[d] => ~open[d]
                         /\ armed[d] /\ ~armed'[d] => ~open[d] \/ ~indexed'[d]
      /\ Sends(t) \/ Finishes(t) \/ Waits(t)
  BY DEF Passing
<1>1. ASSUME NEW u \in Tasks, Numbered(u)' PROVE Kept(u)
  <2>1. CASE u = t
    BY <1>0, <1>1, <2>1 DEF Sends, Finishes, Waits, Numbered
  <2>2. CASE u # t
    BY <1>0, <1>1, <2>2 DEF Numbered, Kept
  <2> QED BY <2>1, <2>2
<1>2. ASSUME NEW u \in Tasks, job'[u].pc = "compiling" PROVE u # t
  BY <1>0, <1>2 DEF Sends, Finishes, Waits, Sending
<1>3. ASSUME NEW u \in Tasks, NEW d \in Docs, Judging(u, d)
      PROVE  u # t /\ Judging(u, d)' /\ job'[u].snap = job[u].snap
  <2>1. u # t
    BY <1>0, <1>3 DEF Sends, Finishes, Waits, Sending, Judging, Latest
  <2> QED BY <1>0, <1>3, <2>1 DEF Judging
<1>4. NumberedAreIndexed'
  BY <1>0, <1>1, NumberTypes DEF NumberedAreIndexed, Kept, NumberInv
<1>5. NumbersAreJudged'
  BY <1>0, <1>3 DEF NumbersAreJudged
<1>6. TextsAreJudged'
  BY <1>0, <1>3 DEF TextsAreJudged
<1>7. LatestIsLargest'
  BY <1>0, <1>1, <1>2 DEF LatestIsLargest, Kept
<1> QED BY <1>4, <1>5, <1>6, <1>7

LEMMA NumberingJudges ==
  ASSUME NumberInv, JudgeInv, NEW t \in Tasks, NEW d \in Docs, Numbering(t, d)
  PROVE  JudgeInv'
<1> USE DEF JudgeInv
<1>0. /\ UNCHANGED <<text, open, verdict>> /\ indexed'[d]
      /\ \A e \in Docs \ {d} : indexed'[e] = indexed[e] /\ armed'[e] = armed[e]
      /\ job[t].pc \in {"idle", "readFile"}
  BY DEF Numbering
<1>1. /\ validationCount' = validationCount + 1
      /\ lastValidationId'[d] = validationCount + 1
      /\ \A e \in Docs \ {d} : lastValidationId'[e] = lastValidationId[e]
      /\ job'[t].pc = "compiling" /\ job'[t].doc = d /\ job'[t].id = validationCount + 1
      /\ job'[t].snap[d] = text[d]
      /\ \A u \in Tasks \ {t} : job'[u] = job[u]
  BY TakingNumber DEF Numbering, NumberInv
<1>2. /\ validationCount \in Nat
      /\ \A e \in Docs : verdict[e].id \in Nat /\ lastValidationId[e] \in Nat
      /\ \A u \in Tasks : job[u].id \in Nat /\ job[u].doc \in Docs
  BY JobFields DEF NumberInv, TypeOK, Verdict
<1>3. Judging(t, d)' /\ job'[t].snap[d] = text'[d]
  BY <1>0, <1>1 DEF Judging
<1>4. ASSUME NEW u \in Tasks, NEW e \in Docs, e # d, Judging(u, e)
      PROVE  Judging(u, e)' /\ job'[u].snap = job[u].snap
  BY <1>0, <1>1, <1>4 DEF Judging
<1>5. NumberedAreIndexed'
  <2>1. \A u \in Tasks : Numbered(u)' => u = t \/ (Numbered(u) /\ job'[u] = job[u])
    BY <1>1 DEF Numbered
  <2> QED BY <1>0, <1>1, <1>2, <2>1 DEF NumberedAreIndexed
<1>6. NumbersAreJudged'
  BY <1>0, <1>1, <1>3, <1>4 DEF NumbersAreJudged
<1>7. TextsAreJudged'
  BY <1>0, <1>1, <1>3, <1>4 DEF TextsAreJudged
<1>8. LatestIsLargest'
  <2>1. \A e \in Docs : /\ verdict'[e].id <= lastValidationId'[e]
                        /\ lastValidationId'[e] <= validationCount'
    BY <1>0, <1>1, <1>2 DEF LatestIsLargest
  <2>2. ASSUME NEW u \in Tasks, Numbered(u)'
        PROVE  job'[u].id <= lastValidationId'[job'[u].doc]
    <3>1. CASE u = t
      BY <1>1, <1>2, <3>1
    <3>2. CASE u # t
      <4>1. Numbered(u) /\ job'[u] = job[u] /\ job[u].id <= lastValidationId[job[u].doc]
        BY <1>1, <2>2, <3>2 DEF Numbered, LatestIsLargest
      <4>2. lastValidationId[job[u].doc] <= lastValidationId'[job[u].doc]
        BY <1>1, <1>2 DEF LatestIsLargest
      <4>3. lastValidationId'[job[u].doc] \in Nat
        BY <1>1, <1>2
      <4> QED BY <1>2, <4>1, <4>2, <4>3
    <3> QED BY <3>1, <3>2
  <2>3. ASSUME NEW u \in Tasks, job'[u].pc = "compiling"
        PROVE  job'[u].id # verdict'[job'[u].doc].id
    <3>1. CASE u = t
      <4>1. verdict[d].id <= validationCount
        BY <1>2 DEF LatestIsLargest
      <4> QED BY <1>0, <1>1, <1>2, <3>1, <4>1
    <3>2. CASE u # t
      BY <1>0, <1>1, <2>3, <3>2 DEF LatestIsLargest
    <3> QED BY <3>1, <3>2
  <2> QED BY <2>1, <2>2, <2>3 DEF LatestIsLargest
<1> QED BY <1>5, <1>6, <1>7, <1>8

LEMMA AcceptingJudges ==
  ASSUME NumberInv, JudgeInv, NEW t \in Tasks, Accepting(t)
  PROVE  JudgeInv'
<1> USE DEF JudgeInv
<1>a. PICK d \in Docs : d = job[t].doc
  BY JobFields DEF NumberInv
<1>0. /\ UNCHANGED <<text, open, armed, indexed, validationCount, lastValidationId>>
      /\ \A u \in Tasks \ {t} : job'[u] = job[u]
      /\ job[t].pc = "compiling" /\ Numbered(t) /\ Latest(t) /\ job[t].id = lastValidationId[d]
      /\ job'[t].doc = d /\ job'[t].id = job[t].id
      /\ job'[t].pc \in {"diagnosing", "reporting"}
      /\ verdict'[d].id = job[t].id /\ verdict'[d].rev = job[t].snap[d]
      /\ \A e \in Docs \ {d} : verdict'[e] = verdict[e]
  BY <1>a DEF Accepting, Kept, Latest, Numbered, docVars, serverVars
<1>1. ASSUME NEW u \in Tasks, u # t, Numbered(u), job[u].doc = d
      PROVE  job[u].id # job[t].id
  BY <1>a, <1>0, <1>1 DEF NumberInv, NumbersFollowTexts
<1>2. ASSUME NEW u \in Tasks, NEW e \in Docs, e # d, Judging(u, e)
      PROVE  Judging(u, e)' /\ job'[u].snap = job[u].snap
  BY <1>a, <1>0, <1>2 DEF Judging
<1>3. ASSUME NEW u \in Tasks, Judging(u, d) PROVE u = t
  BY <1>0, <1>1, <1>3 DEF Judging, Numbered
<1>4. ASSUME NEW u \in Tasks, Numbered(u)'
      PROVE  Numbered(u) /\ job'[u].doc = job[u].doc /\ job'[u].id = job[u].id
  BY <1>a, <1>0, <1>4 DEF Numbered
<1>5. verdict[d].rev <= job[t].snap[d] /\ job[t].snap[d] <= text[d]
      /\ verdict[d].rev \in Nat /\ job[t].snap[d] \in Nat /\ text[d] \in Nat
  BY <1>a, <1>0, NumberTypes DEF NumberInv, VerdictsBounded, NumbersBounded
<1>6. NumberedAreIndexed'
  <2>1. \A u \in Tasks : Numbered(u)' => indexed'[job'[u].doc]
    BY <1>0, <1>4 DEF NumberedAreIndexed
  <2>2. \A e \in Docs : verdict'[e].outcome # "none" => indexed'[e]
    BY <1>a, <1>0 DEF NumberedAreIndexed
  <2> QED BY <2>1, <2>2 DEF NumberedAreIndexed
<1>7. NumbersAreJudged'
  BY <1>0, <1>2 DEF NumbersAreJudged
<1>8. TextsAreJudged'
  <2> SUFFICES ASSUME NEW e \in Docs, open'[e], indexed'[e], ~armed'[e]
               PROVE  \/ \E u \in Tasks : Judging(u, e)' /\ job'[u].snap[e] = text'[e]
                      \/ (verdict'[e].id = lastValidationId'[e] /\ verdict'[e].rev = text'[e])
    BY DEF TextsAreJudged
  <2>1. \/ \E u \in Tasks : Judging(u, e) /\ job[u].snap[e] = text[e]
        \/ (verdict[e].id = lastValidationId[e] /\ verdict[e].rev = text[e])
    BY <1>0 DEF TextsAreJudged
  <2>2. CASE e = d
    BY <1>0, <1>3, <1>5, <2>1, <2>2
  <2>3. CASE e # d
    BY <1>0, <1>2, <2>1, <2>3
  <2> QED BY <2>2, <2>3
<1>9. LatestIsLargest'
  <2>0. lastValidationId[d] \in Nat
    BY DEF NumberInv, TypeOK
  <2>1. \A e \in Docs : /\ verdict'[e].id <= lastValidationId'[e]
                        /\ lastValidationId'[e] <= validationCount'
    BY <1>0, <2>0 DEF LatestIsLargest
  <2>2. \A u \in Tasks : Numbered(u)' => job'[u].id <= lastValidationId'[job'[u].doc]
    BY <1>0, <1>4 DEF LatestIsLargest
  <2>3. ASSUME NEW u \in Tasks, job'[u].pc = "compiling"
        PROVE  job'[u].id # verdict'[job'[u].doc].id
    <3>1. u # t /\ job'[u] = job[u] /\ Numbered(u) /\ job[u].doc \in Docs
      BY <1>0, <2>3, JobFields DEF Numbered, NumberInv
    <3>2. CASE job[u].doc = d
      BY <1>0, <1>1, <3>1, <3>2
    <3>3. CASE job[u].doc # d
      BY <1>0, <2>3, <3>1, <3>3 DEF LatestIsLargest
    <3> QED BY <3>2, <3>3
  <2> QED BY <2>1, <2>2, <2>3 DEF LatestIsLargest
<1> QED BY <1>6, <1>7, <1>8, <1>9

LEMMA JudgeInit == Init => JudgeInv
<1> SUFFICES ASSUME Init PROVE JudgeInv
  OBVIOUS
<1>1. \A t \in Tasks : job[t].pc = "idle"
  BY DEF Init, Idle, Begun
<1>2. \A d \in Docs : /\ verdict[d].id = 0 /\ verdict[d].outcome = "none"
                      /\ lastValidationId[d] = 0 /\ validationCount = 0 /\ open[d] = FALSE
  BY DEF Init
<1> QED BY <1>1, <1>2 DEF JudgeInv, NumberedAreIndexed, TextsAreJudged, NumbersAreJudged,
                         LatestIsLargest, Numbered

\* Every step keeps the last text and the last number of a file judged or about
\* to be.
LEMMA JudgeStep ==
  ASSUME NumberInv, JudgeInv, [Next]_vars
  PROVE  JudgeInv'
BY NextMoves, QuietJudges, PassingJudges, NumberingJudges, AcceptingJudges DEF NumberInv

-----------------------------------------------------------------------------
(* The announcements of failed initializations.                            *)

\* A project's failure was announced once if its flag is set, and never before.
ToastsFollowFlag ==
  \A p \in Projects : toasts[p] = IF shownInitializationError[p] THEN 1 ELSE 0

\* Only Notify touches the flag and the announcements, and it tests the flag in
\* the step that sets it.
LEMMA ToastsStep ==
  ASSUME TypeOK, ToastsFollowFlag, [Next]_vars
  PROVE  ToastsFollowFlag'
<1>1. ASSUME NEW t \in Tasks, Notify(t) PROVE ToastsFollowFlag'
  <2>1. PICK p : p = ProjectOf[job[t].doc]
    OBVIOUS
  <2>2. /\ p \in Projects /\ ~shownInitializationError[p]
        /\ shownInitializationError' = [shownInitializationError EXCEPT ![p] = TRUE]
        /\ toasts' = [toasts EXCEPT ![p] = @ + 1]
    BY <1>1, <2>1, JobFields, ProjectAssumption DEF Notify, MustNotify
  <2>3. toasts[p] = 0
    BY <2>2 DEF ToastsFollowFlag
  <2>4. ASSUME NEW q \in Projects
        PROVE  toasts'[q] = IF shownInitializationError'[q] THEN 1 ELSE 0
    <3>1. CASE q = p
      <4>1. toasts'[q] = toasts[p] + 1 /\ shownInitializationError'[q] = TRUE
        BY <2>2, <3>1 DEF TypeOK
      <4> QED BY <2>3, <4>1
    <3>2. CASE q # p
      BY <2>2, <3>2 DEF TypeOK, ToastsFollowFlag
    <3> QED BY <3>1, <3>2
  <2> QED BY <2>4 DEF ToastsFollowFlag
<1>2. ASSUME UNCHANGED <<shownInitializationError, toasts>> PROVE ToastsFollowFlag'
  BY <1>2 DEF ToastsFollowFlag
<1>3. ASSUME NEW d \in Docs, Environment(d) PROVE ToastsFollowFlag'
  BY <1>2, <1>3 DEF Environment, NewText, DidClose, FileCreated, FileDeleted, serverVars,
                    clientVars
<1>4. ASSUME NEW t \in Tasks, NEW d \in Docs, StartValidation(t, d) PROVE ToastsFollowFlag'
  BY <1>2, <1>4 DEF StartValidation, clientVars
<1>5. ASSUME NEW t \in Tasks, Step(t) PROVE ToastsFollowFlag'
  <2>1. CASE IsFile(t) \/ Supersede(t) \/ Return(t)
    BY <1>2, <2>1 DEF IsFile, Supersede, Return, serverVars, clientVars
  <2>2. CASE ReadFile(t)
    BY <1>2, <2>2 DEF ReadFile, clientVars
  <2>3. CASE ShowResult(t)
    <3>1. \E o : Accept(t, o)
      BY <2>3 DEF ShowResult, ShowPass, ShowFail, ShowJobError, ShowBuildError, ShowInitError
    <3> QED BY <1>2, <3>1 DEF Accept, serverVars
  <2>4. CASE (\E f \in Docs : SendDiagnostics(t, f)) \/ ReportStatus(t)
    BY <1>2, <2>4 DEF SendDiagnostics, ReportStatus, serverVars
  <2> QED BY <1>1, <1>5, <2>1, <2>2, <2>3, <2>4 DEF Step
<1>6. CASE UNCHANGED vars
  BY <1>2, <1>6 DEF vars, serverVars, clientVars
<1> QED BY <1>3, <1>4, <1>5, <1>6 DEF Next, Timer

\* However many validations of a project fail to initialize it, its failure is
\* announced at most once (validate.ts, handleInitializationFailedError): see
\* AnnouncedOnce.
THEOREM OneAnnouncement == Spec => []AnnouncedOnce
<1>1. Init => TypeOK /\ ToastsFollowFlag
  BY TypeInit DEF Init, ToastsFollowFlag
<1>2. TypeOK /\ ToastsFollowFlag /\ [Next]_vars => TypeOK' /\ ToastsFollowFlag'
  BY TypeStep, ToastsStep
<1>3. TypeOK /\ ToastsFollowFlag => AnnouncedOnce
  BY DEF ToastsFollowFlag, AnnouncedOnce
<1> QED BY <1>1, <1>2, <1>3, PTL DEF Spec

-----------------------------------------------------------------------------
(* The queue of the validations that wait for a send.                      *)

\* A validation waits for at most one send, and does while it shows its result.
WritersOnce ==
  /\ \A j, k \in 1 .. Len(writing) : writing[j] = writing[k] => j = k
  /\ \A k \in 1 .. Len(writing) : job[writing[k]].pc \in Sending
  /\ \A t \in Tasks : job[t].pc \in Sending => \E k \in 1 .. Len(writing) : writing[k] = t

LEMMA Arrives ==
  ASSUME NEW s \in Seq(Tasks), NEW t \in Tasks
  PROVE  /\ Len(Append(s, t)) = Len(s) + 1 /\ Len(s) \in Nat
         /\ Append(s, t)[Len(s) + 1] = t
         /\ \A k \in 1 .. Len(s) : Append(s, t)[k] = s[k] /\ s[k] \in Tasks
<1>1. Len(s) \in Nat /\ \A k \in 1 .. Len(s) : s[k] \in Tasks
  BY LenProperties, ElementOfSeq
<1> QED BY <1>1, AppendProperties

LEMMA Leaves ==
  ASSUME NEW s \in Seq(Tasks), s # <<>>
  PROVE  /\ Len(Tail(s)) = Len(s) - 1 /\ Len(s) \in Nat \ {0} /\ Tail(s) \in Seq(Tasks)
         /\ Head(s) = s[1] /\ Head(s) \in Tasks
         /\ \A k \in 1 .. Len(Tail(s)) : Tail(s)[k] = s[k + 1]
<1>1. Len(s) \in Nat /\ Len(s) # 0
  BY LenProperties, EmptySeq
<1> QED BY <1>1, HeadTailProperties

LEMMA WritersStep ==
  ASSUME TypeOK, WritersOnce, [Next]_vars
  PROVE  WritersOnce'
<1>0. writing \in Seq(Tasks) /\ Len(writing) \in Nat
      /\ \A k \in 1 .. Len(writing) : writing[k] \in Tasks
  BY LenProperties, ElementOfSeq DEF TypeOK
<1>a. ASSUME writing' = writing,
             \A u \in Tasks : job'[u].pc \in Sending <=> job[u].pc \in Sending
      PROVE  WritersOnce'
  <2>1. Len(writing') = Len(writing)
    BY <1>a
  <2>2. \A k \in 1 .. Len(writing') : job'[writing'[k]].pc \in Sending
    BY <1>0, <1>a, <2>1 DEF WritersOnce
  <2>3. \A t \in Tasks : job'[t].pc \in Sending => \E k \in 1 .. Len(writing') : writing'[k] = t
    BY <1>a, <2>1 DEF WritersOnce
  <2> QED BY <1>a, <2>1, <2>2, <2>3 DEF WritersOnce
<1>1. CASE Quiet
  BY <1>a, <1>1 DEF Quiet
<1>2. ASSUME NEW t \in Tasks, NEW d \in Docs, Numbering(t, d) PROVE WritersOnce'
  BY <1>a, <1>2, TakingNumber DEF Numbering, Sending
<1>3. ASSUME NEW t \in Tasks, Accepting(t) PROVE WritersOnce'
  <2>0. /\ writing' = Append(writing, t) /\ job[t].pc = "compiling" /\ job'[t].pc \in Sending
        /\ \A u \in Tasks \ {t} : job'[u] = job[u]
    BY <1>3 DEF Accepting, Sending
  <2>1. \A k \in 1 .. Len(writing) : writing[k] # t
    BY <2>0 DEF WritersOnce, Sending
  <2>2. /\ Len(writing') = Len(writing) + 1 /\ writing'[Len(writing) + 1] = t
        /\ \A k \in 1 .. Len(writing) : writing'[k] = writing[k]
    BY <1>0, <2>0, Arrives
  <2>3. \A j, k \in 1 .. Len(writing') : writing'[j] = writing'[k] => j = k
    BY <1>0, <2>1, <2>2 DEF WritersOnce
  <2>4. \A k \in 1 .. Len(writing') : job'[writing'[k]].pc \in Sending
    BY <1>0, <2>0, <2>1, <2>2 DEF WritersOnce
  <2>5. ASSUME NEW u \in Tasks, job'[u].pc \in Sending
        PROVE  \E k \in 1 .. Len(writing') : writing'[k] = u
    <3>1. CASE u = t
      BY <1>0, <2>2, <3>1
    <3>2. CASE u # t
      <4>1. PICK k \in 1 .. Len(writing) : writing[k] = u
        BY <2>0, <2>5, <3>2 DEF WritersOnce
      <4> QED BY <1>0, <2>2, <4>1
    <3> QED BY <3>1, <3>2
  <2> QED BY <2>3, <2>4, <2>5 DEF WritersOnce
<1>4. ASSUME NEW t \in Tasks, Passing(t) PROVE WritersOnce'
  <2>0. \A u \in Tasks \ {t} : job'[u] = job[u]
    BY <1>4 DEF Passing
  <2>1. CASE Waits(t)
    BY <1>a, <2>0, <2>1 DEF Waits, Sending
  <2>2. ASSUME Resume(t)
        PROVE  /\ Len(Tail(writing)) = Len(writing) - 1 /\ Len(writing) \in Nat \ {0}
               /\ Tail(writing) \in Seq(Tasks) /\ writing[1] = t
               /\ \A k \in 1 .. Len(Tail(writing)) : Tail(writing)[k] = writing[k + 1]
               /\ \A k \in 1 .. Len(Tail(writing)) : Tail(writing)[k] # t
    <3>1. /\ Len(Tail(writing)) = Len(writing) - 1 /\ Len(writing) \in Nat \ {0}
          /\ Tail(writing) \in Seq(Tasks) /\ writing[1] = t
          /\ \A k \in 1 .. Len(Tail(writing)) : Tail(writing)[k] = writing[k + 1]
      BY <1>0, <2>2, Leaves DEF Resume
    <3>2. ASSUME NEW k \in 1 .. Len(Tail(writing)) PROVE Tail(writing)[k] # t
      <4>1. k + 1 \in 1 .. Len(writing) /\ 1 \in 1 .. Len(writing) /\ k + 1 # 1
        BY <3>1
      <4> QED BY <3>1, <4>1 DEF WritersOnce
    <3> QED BY <3>1, <3>2
  <2>3. CASE Finishes(t)
    <3>1. PICK n \in Nat : Len(writing) = n + 1 /\ Len(writing') = n
      BY <2>2, <2>3 DEF Finishes
    <3>2. /\ job'[t].pc \notin Sending /\ writing[1] = t
          /\ \A k \in 1 .. n : writing'[k] = writing[k + 1] /\ writing'[k] # t
      BY <2>2, <2>3, <3>1 DEF Finishes, Sending
    <3>3. \A j, k \in 1 .. n : writing'[j] = writing'[k] => j = k
      BY <3>1, <3>2 DEF WritersOnce
    <3>4. ASSUME NEW k \in 1 .. n PROVE job'[writing'[k]].pc \in Sending
      <4>1. k + 1 \in 1 .. Len(writing)
        BY <3>1
      <4> QED BY <1>0, <2>0, <3>2, <4>1 DEF WritersOnce
    <3>5. ASSUME NEW u \in Tasks, job'[u].pc \in Sending
          PROVE  \E k \in 1 .. n : writing'[k] = u
      <4>1. u # t /\ job[u].pc \in Sending
        BY <2>0, <3>2, <3>5
      <4>2. PICK k \in 1 .. Len(writing) : writing[k] = u
        BY <4>1 DEF WritersOnce
      <4>3. k # 1
        BY <3>2, <4>1, <4>2
      <4>4. k - 1 \in 1 .. n /\ k - 1 + 1 = k
        BY <3>1, <4>3
      <4> QED BY <3>2, <4>2, <4>4
    <3> QED BY <3>1, <3>3, <3>4, <3>5 DEF WritersOnce
  <2>4. CASE Sends(t)
    <3>1. PICK n \in Nat : Len(writing) = n + 1 /\ Len(Tail(writing)) = n
      BY <2>2, <2>4 DEF Sends
    <3>2. /\ writing' = Append(Tail(writing), t) /\ job'[t].pc \in Sending
          /\ writing[1] = t /\ Tail(writing) \in Seq(Tasks)
          /\ \A k \in 1 .. n : Tail(writing)[k] = writing[k + 1] /\ Tail(writing)[k] # t
      BY <2>2, <2>4, <3>1 DEF Sends, SendAgain
    <3>3. /\ Len(writing') = n + 1 /\ writing'[n + 1] = t
          /\ \A k \in 1 .. n : writing'[k] = writing[k + 1] /\ writing'[k] # t
      BY <3>1, <3>2, Arrives
    <3>4. \A j, k \in 1 .. n + 1 : writing'[j] = writing'[k] => j = k
      <4> SUFFICES ASSUME NEW j \in 1 .. n + 1, NEW k \in 1 .. n + 1, writing'[j] = writing'[k]
                   PROVE  j = k
        OBVIOUS
      <4>1. CASE j = n + 1
        BY <3>3, <4>1
      <4>2. CASE k = n + 1
        BY <3>3, <4>2
      <4>3. CASE j # n + 1 /\ k # n + 1
        <5>1. j \in 1 .. n /\ k \in 1 .. n /\ j + 1 \in 1 .. n + 1 /\ k + 1 \in 1 .. n + 1
          BY <4>3
        <5>2. writing[j + 1] = writing[k + 1]
          BY <3>3, <5>1
        <5>3. j + 1 = k + 1
          BY <3>1, <5>1, <5>2 DEF WritersOnce
        <5> QED BY <5>3
      <4> QED BY <4>1, <4>2, <4>3
    <3>5. ASSUME NEW k \in 1 .. n + 1 PROVE job'[writing'[k]].pc \in Sending
      <4>1. CASE k = n + 1
        BY <3>2, <3>3, <4>1
      <4>2. CASE k # n + 1
        <5>1. k \in 1 .. n /\ k + 1 \in 1 .. Len(writing)
          BY <3>1, <4>2
        <5> QED BY <1>0, <2>0, <3>3, <5>1 DEF WritersOnce
      <4> QED BY <4>1, <4>2
    <3>6. ASSUME NEW u \in Tasks, job'[u].pc \in Sending
          PROVE  \E k \in 1 .. n + 1 : writing'[k] = u
      <4>1. CASE u = t
        BY <3>3, <4>1
      <4>2. CASE u # t
        <5>1. PICK k \in 1 .. Len(writing) : writing[k] = u
          BY <2>0, <3>6, <4>2 DEF WritersOnce
        <5>2. k # 1
          BY <3>2, <4>2, <5>1
        <5>3. k - 1 \in 1 .. n /\ k - 1 + 1 = k /\ k - 1 \in 1 .. n + 1
          BY <3>1, <5>2
        <5> QED BY <3>3, <5>1, <5>3
      <4> QED BY <4>1, <4>2
    <3> QED BY <3>3, <3>4, <3>5, <3>6 DEF WritersOnce
  <2> QED BY <1>4, <2>1, <2>3, <2>4 DEF Passing
<1> QED BY <1>1, <1>2, <1>3, <1>4, NextMoves

-----------------------------------------------------------------------------
(* Messages sent in step: a lone file whose results take two messages each. *)

\* The client shows of the file what its verdict says, and no result is left to
\* publish once its first message is sent.
ResultsInStep ==
  /\ \A d \in Docs : verdict[d].outcome \in {"none", PASS, FAIL, JOB}
  /\ \A d \in Docs : verdict[d].outcome # "none" =>
       diagnostics[d].rev = IF verdict[d].outcome = FAIL THEN verdict[d].rev ELSE 0
  /\ \A t \in Tasks : job[t].outcome # INIT
  /\ \A t \in Tasks : job[t].pc = "diagnosing" => job[t].todo = {}

\* The statuses follow the verdicts: those still to be sent wait in the order of
\* their numbers.
StatusesInStep ==
  /\ \A d \in Docs : status[ProjectOf[d]].id <= verdict[d].id
  /\ \A t \in Tasks, d \in Docs : job[t].pc = "diagnosing" =>
       status[ProjectOf[d]].id < job[t].id /\ job[t].id <= verdict[d].id
  /\ \A d \in Docs : \/ status[ProjectOf[d]].id = verdict[d].id
                     \/ \E t \in Tasks : job[t].pc = "diagnosing" /\ job[t].id = verdict[d].id
  /\ \A j, k \in 1 .. Len(writing) :
       j < k /\ job[writing[j]].pc = "diagnosing" /\ job[writing[k]].pc = "diagnosing" =>
         job[writing[j]].id < job[writing[k]].id

\* The steps of a lone file: nothing is shown, ...
Unshown ==
  /\ UNCHANGED <<status, writing>>
  /\ \A d \in Docs :
       /\ verdict'[d].id = verdict[d].id
       /\ \/ verdict'[d] = verdict[d] /\ diagnostics'[d] = diagnostics[d]
          \/ verdict'[d].outcome = "none"
  /\ \A u \in Tasks :
       \/ job'[u] = job[u]
       \/ /\ job[u].pc \notin Sending /\ job'[u].pc \notin Sending
          /\ job'[u].outcome \in {job[u].outcome, "none"}

\* ... a result is accepted and its diagnostics are sent, ...
Shown(t, o) ==
  /\ Accepting(t)
  /\ o \in {PASS, FAIL, JOB}
  /\ verdict'[job[t].doc].outcome = o
  /\ diagnostics'[job[t].doc].rev = IF o = FAIL THEN job[t].snap[job[t].doc] ELSE 0
  /\ job'[t].pc = "diagnosing" /\ job'[t].todo = {} /\ job'[t].outcome = o
  /\ UNCHANGED status

\* ... its status is sent, ...
Reported(t) ==
  /\ Resume(t) /\ SendAgain(t)
  /\ job[t].pc = "diagnosing" /\ job'[t].pc = "reporting"
  /\ job'[t].outcome = job[t].outcome
  /\ \A u \in Tasks \ {t} : job'[u] = job[u]
  /\ status'[ProjectOf[job[t].doc]].id = job[t].id
  /\ UNCHANGED <<verdict, diagnostics>>

\* ... or the validation returns.
Returned(t) ==
  /\ Resume(t) /\ writing' = Tail(writing)
  /\ job[t].pc # "diagnosing" /\ job'[t].pc = "idle" /\ job'[t].outcome = "none"
  /\ \A u \in Tasks \ {t} : job'[u] = job[u]
  /\ UNCHANGED <<verdict, diagnostics, status>>

LEMMA ResultShown ==
  ASSUME SentInStep, TypeOK, NEW t \in Tasks, ShowResult(t)
  PROVE  \E o : Shown(t, o)
<1>0. job[t].doc \in Docs /\ \A f \in Docs : f = job[t].doc
  BY JobFields DEF SentInStep
<1>a. ASSUME NEW o \in {PASS, FAIL, JOB}, NEW rev, NEW f \in Docs, NEW sources,
             Accept(t, o), Publish(f, rev, t), GoOn(t, "diagnosing", o, {}, sources),
             UNCHANGED status, rev = IF o = FAIL THEN job[t].snap[job[t].doc] ELSE 0
      PROVE  Shown(t, o)
  <2>1. Accepting(t)
    BY <1>a, Accepts
  <2>2. verdict'[job[t].doc].outcome = o
    BY <1>0, <1>a DEF Accept, TypeOK
  <2>3. diagnostics'[job[t].doc].rev = rev
    BY <1>0, <1>a DEF Publish, TypeOK
  <2>4. job'[t].pc = "diagnosing" /\ job'[t].todo = {} /\ job'[t].outcome = o
    BY <1>a, GoingOnJob
  <2> QED BY <1>a, <2>1, <2>2, <2>3, <2>4 DEF Shown
<1>b. ShowFail(t) \/ ShowJobError(t)
        \/ \E sources \in SUBSET Docs, first \in Docs : ShowPass(t, sources, first)
  BY DEF SentInStep, ShowResult
<1>1. ASSUME NEW sources \in SUBSET Docs, NEW first \in Docs, ShowPass(t, sources, first)
      PROVE  Shown(t, PASS)
  <2>1. PICK toClear : toClear = {f \in sources : job[t].snap[f] # 0}
    OBVIOUS
  <2>2. /\ Accept(t, PASS) /\ Publish(first, 0, t) /\ UNCHANGED status
        /\ GoOn(t, "diagnosing", PASS, toClear \ {first}, sources)
    BY <1>1, <2>1 DEF ShowPass
  <2>3. toClear \ {first} = {}
    BY <1>0, <2>1
  <2> QED BY <1>a, <2>2, <2>3 DEF PASS, FAIL
<1>2. CASE ShowFail(t)
  BY <1>0, <1>a, <1>2 DEF ShowFail
<1>3. CASE ShowJobError(t)
  BY <1>0, <1>a, <1>3 DEF ShowJobError, JOB, FAIL
<1> QED BY <1>b, <1>1, <1>2, <1>3

LEMMA InStepMoves ==
  ASSUME SentInStep, TypeOK, ResultsInStep, [Next]_vars
  PROVE  \/ Unshown
         \/ \E t \in Tasks : Reported(t) \/ Returned(t) \/ \E o : Shown(t, o)
<1>a. ASSUME NEW t \in Tasks, UNCHANGED <<status, diagnostics, writing, verdict>>,
             job[t].pc \notin Sending, job'[t].pc \notin Sending,
             job'[t].outcome \in {job[t].outcome, "none"},
             \A u \in Tasks \ {t} : job'[u] = job[u]
      PROVE  Unshown
  BY <1>a DEF Unshown
<1>t. ASSUME NEW t \in Tasks, NEW d \in Docs, TakeNumber(t, d)
      PROVE  /\ job'[t].pc \notin Sending /\ job'[t].outcome = "none"
             /\ \A u \in Tasks \ {t} : job'[u] = job[u]
  <2>1. CASE open[d]
    BY <1>t, <2>1, TakingNumber DEF Sending
  <2>2. CASE ~open[d]
    BY <1>t, <2>2, BeginningJob DEF TakeNumber, Idle, Sending
  <2> QED BY <2>1, <2>2
<1>1. ASSUME NEW d \in Docs, Environment(d) PROVE Unshown
  <2>1. CASE NewText(d) \/ DidClose(d) \/ FileCreated(d)
    BY <2>1 DEF NewText, DidClose, FileCreated, Unshown, clientVars
  <2>2. CASE FileDeleted(d)
    BY <2>2 DEF FileDeleted, Unshown, TypeOK
  <2> QED BY <1>1, <2>1, <2>2 DEF Environment
<1>2. ASSUME NEW t \in Tasks, NEW d \in Docs, StartValidation(t, d) PROVE Unshown
  <2>1. job'[t].pc \notin Sending /\ job'[t].outcome = "none"
        /\ \A u \in Tasks \ {t} : job'[u] = job[u]
    <3>1. CASE indexed[d]
      BY <1>2, <1>t, <3>1 DEF StartValidation
    <3>2. CASE ~indexed[d]
      BY <1>2, <3>2, BeginningJob DEF StartValidation, Sending
    <3> QED BY <3>1, <3>2
  <2> QED BY <1>2, <1>a, <2>1 DEF StartValidation, clientVars, Sending
<1>3. ASSUME NEW t \in Tasks, Step(t)
      PROVE  Unshown \/ Reported(t) \/ Returned(t) \/ \E o : Shown(t, o)
  <2>1. CASE IsFile(t)
    <3>1. job'[t].pc \notin Sending /\ job'[t].outcome \in {job[t].outcome, "none"}
          /\ \A u \in Tasks \ {t} : job'[u] = job[u]
      BY <2>1, EndingJob, GoingOnJob DEF IsFile, Await, Sending
    <3> QED BY <1>a, <2>1, <3>1 DEF IsFile, clientVars, Sending
  <2>2. CASE ReadFile(t)
    <3>1. job'[t].pc \notin Sending /\ job'[t].outcome \in {job[t].outcome, "none"}
          /\ \A u \in Tasks \ {t} : job'[u] = job[u]
      <4>1. CASE onDisk[job[t].doc]
        BY <1>t, <2>2, <4>1, JobFields DEF ReadFile
      <4>2. CASE ~onDisk[job[t].doc]
        BY <2>2, <4>2, EndingJob DEF ReadFile, Sending
      <4> QED BY <4>1, <4>2
    <3> QED BY <1>a, <2>2, <3>1 DEF ReadFile, clientVars, Sending
  <2>3. CASE Supersede(t)
    <3>1. job'[t].pc \notin Sending /\ job'[t].outcome = "none"
          /\ \A u \in Tasks \ {t} : job'[u] = job[u]
      BY <2>3, EndingJob DEF Supersede, Sending
    <3> QED BY <1>a, <2>3, <3>1 DEF Supersede, clientVars, Sending
  <2>4. CASE ShowResult(t)
    BY <2>4, ResultShown
  <2>5. ASSUME NEW f \in Docs, SendDiagnostics(t, f) PROVE FALSE
    BY <2>5 DEF SendDiagnostics, ResultsInStep
  <2>6. CASE ReportStatus(t)
    <3>1. /\ job'[t].pc = "reporting" /\ job'[t].outcome = job[t].outcome
          /\ \A u \in Tasks \ {t} : job'[u] = job[u]
      BY <2>6, GoingOnJob DEF ReportStatus, Await
    <3>2. status'[ProjectOf[job[t].doc]].id = job[t].id
      BY <2>6, JobFields, ProjectAssumption DEF ReportStatus, SendStatus, TypeOK
    <3> QED BY <2>6, <3>1, <3>2 DEF ReportStatus, Reported
  <2>7. CASE Notify(t)
    BY <2>7 DEF Notify, MustNotify, ResultsInStep
  <2>8. CASE Return(t)
    BY <2>8, EndingJob DEF Return, Returned, clientVars
  <2> QED BY <1>3, <2>1, <2>2, <2>3, <2>4, <2>5, <2>6, <2>7, <2>8 DEF Step
<1>4. CASE UNCHANGED vars
  BY <1>4 DEF vars, clientVars, Unshown
<1> QED BY <1>1, <1>2, <1>3, <1>4 DEF Next, Timer

LEMMA ResultsStep ==
  ASSUME SentInStep, TypeOK, ResultsInStep, [Next]_vars
  PROVE  ResultsInStep'
<1>1. CASE Unshown
  <2>1. \A d \in Docs : verdict'[d].outcome \in {"none", PASS, FAIL, JOB}
    BY <1>1 DEF Unshown, ResultsInStep
  <2>2. \A d \in Docs : verdict'[d].outcome # "none" =>
          diagnostics'[d].rev = IF verdict'[d].outcome = FAIL THEN verdict'[d].rev ELSE 0
    BY <1>1 DEF Unshown, ResultsInStep
  <2>3. \A t \in Tasks : /\ job'[t].outcome # INIT
                         /\ job'[t].pc = "diagnosing" => job'[t].todo = {}
    BY <1>1 DEF Unshown, ResultsInStep, Sending, INIT
  <2> QED BY <2>1, <2>2, <2>3 DEF ResultsInStep
<1>2. ASSUME NEW t \in Tasks, NEW o, Shown(t, o) PROVE ResultsInStep'
  <2>0. \A d \in Docs : d = job[t].doc
    BY JobFields DEF SentInStep
  <2>1. \A d \in Docs :
          /\ verdict'[d].outcome = o /\ o \in {PASS, FAIL, JOB}
          /\ verdict'[d].rev = job[t].snap[d]
          /\ diagnostics'[d].rev = IF o = FAIL THEN job[t].snap[d] ELSE 0
    BY <1>2, <2>0 DEF Shown, Accepting
  <2>2. \A u \in Tasks : /\ job'[u].outcome # INIT
                         /\ job'[u].pc = "diagnosing" => job'[u].todo = {}
    BY <1>2 DEF Shown, Accepting, ResultsInStep, PASS, FAIL, JOB, INIT
  <2> QED BY <2>1, <2>2 DEF ResultsInStep
<1>3. ASSUME NEW t \in Tasks, Reported(t) \/ Returned(t) PROVE ResultsInStep'
  <2>1. UNCHANGED <<verdict, diagnostics>>
    BY <1>3 DEF Reported, Returned
  <2>2. \A u \in Tasks : /\ job'[u].outcome # INIT
                         /\ job'[u].pc = "diagnosing" => job'[u].todo = {}
    BY <1>3 DEF Reported, Returned, ResultsInStep, INIT
  <2> QED BY <2>1, <2>2 DEF ResultsInStep
<1> QED BY <1>1, <1>2, <1>3, InStepMoves

LEMMA StatusesStep ==
  ASSUME SentInStep, NumberInv, JudgeInv, WritersOnce, ResultsInStep, StatusesInStep,
         [Next]_vars
  PROVE  StatusesInStep'
<1>0. TypeOK
  BY DEF NumberInv
<1>n. /\ \A d \in Docs : status[ProjectOf[d]].id \in Nat /\ verdict[d].id \in Nat
                         /\ lastValidationId[d] \in Nat
      /\ \A u \in Tasks : job[u].id \in Nat /\ job[u].doc \in Docs
      /\ writing \in Seq(Tasks) /\ Len(writing) \in Nat
      /\ \A k \in 1 .. Len(writing) : writing[k] \in Tasks
  BY <1>0, JobFields, ProjectAssumption, LenProperties, ElementOfSeq DEF TypeOK, Status, Verdict
<1>1. CASE Unshown
  <2>1. /\ status' = status /\ writing' = writing
        /\ \A d \in Docs : verdict'[d].id = verdict[d].id
        /\ \A u \in Tasks : /\ job'[u].pc = "diagnosing" => job'[u] = job[u]
                            /\ job[u].pc = "diagnosing" => job'[u] = job[u]
    BY <1>1 DEF Unshown, Sending
  <2>2. \A d \in Docs : status'[ProjectOf[d]].id <= verdict'[d].id
    BY <2>1 DEF StatusesInStep
  <2>3. \A t \in Tasks, d \in Docs : job'[t].pc = "diagnosing" =>
          status'[ProjectOf[d]].id < job'[t].id /\ job'[t].id <= verdict'[d].id
    BY <2>1 DEF StatusesInStep
  <2>4. \A d \in Docs :
          \/ status'[ProjectOf[d]].id = verdict'[d].id
          \/ \E t \in Tasks : job'[t].pc = "diagnosing" /\ job'[t].id = verdict'[d].id
    BY <2>1 DEF StatusesInStep
  <2>5. \A j, k \in 1 .. Len(writing') :
          j < k /\ job'[writing'[j]].pc = "diagnosing" /\ job'[writing'[k]].pc = "diagnosing" =>
            job'[writing'[j]].id < job'[writing'[k]].id
    BY <1>n, <2>1 DEF StatusesInStep
  <2> QED BY <2>2, <2>3, <2>4, <2>5 DEF StatusesInStep
<1>2. ASSUME NEW t \in Tasks, NEW o, Shown(t, o) PROVE StatusesInStep'
  <2>0. /\ \A d \in Docs : d = job[t].doc
        /\ job[t].pc = "compiling" /\ job'[t].pc = "diagnosing" /\ job'[t].id = job[t].id
        /\ status' = status /\ writing' = Append(writing, t)
        /\ \A u \in Tasks \ {t} : job'[u] = job[u]
        /\ job[t].id = lastValidationId[job[t].doc]
    BY <1>n, <1>2 DEF SentInStep, Shown, Accepting, Kept, Latest
  <2>1. \A d \in Docs : verdict'[d].id = job[t].id /\ verdict[d].id < job[t].id
    <3>1. \A d \in Docs : verdict'[d].id = job[t].id
      BY <1>2, <2>0 DEF Shown, Accepting
    <3>2. \A d \in Docs : verdict[d].id <= job[t].id /\ job[t].id # verdict[d].id
      BY <1>n, <2>0 DEF JudgeInv, LatestIsLargest
    <3> QED BY <1>n, <3>1, <3>2
  <2>2. \A d \in Docs : status'[ProjectOf[d]].id < job[t].id
    <3>1. \A d \in Docs : status[ProjectOf[d]].id <= verdict[d].id
      BY DEF StatusesInStep
    <3> QED BY <1>n, <2>0, <2>1, <3>1
  <2>3. \A u \in Tasks, d \in Docs : job'[u].pc = "diagnosing" =>
          status'[ProjectOf[d]].id < job'[u].id /\ job'[u].id <= verdict'[d].id
    <3> SUFFICES ASSUME NEW u \in Tasks, NEW d \in Docs, job'[u].pc = "diagnosing"
                 PROVE  status'[ProjectOf[d]].id < job'[u].id /\ job'[u].id <= verdict'[d].id
      OBVIOUS
    <3>1. CASE u = t
      BY <1>n, <2>0, <2>1, <2>2, <3>1
    <3>2. CASE u # t
      <4>1. /\ job'[u] = job[u] /\ status[ProjectOf[d]].id < job[u].id
            /\ job[u].id <= verdict[d].id
        BY <2>0, <3>2 DEF StatusesInStep
      <4> QED BY <1>n, <2>0, <2>1, <4>1
    <3> QED BY <3>1, <3>2
  <2>4. \A d \in Docs : status'[ProjectOf[d]].id <= verdict'[d].id
    BY <1>n, <2>0, <2>1, <2>2
  <2>5. \A d \in Docs :
          \/ status'[ProjectOf[d]].id = verdict'[d].id
          \/ \E u \in Tasks : job'[u].pc = "diagnosing" /\ job'[u].id = verdict'[d].id
    BY <2>0, <2>1
  <2>6. ASSUME NEW j \in 1 .. Len(writing'), NEW k \in 1 .. Len(writing'), j < k,
               job'[writing'[j]].pc = "diagnosing", job'[writing'[k]].pc = "diagnosing"
        PROVE  job'[writing'[j]].id < job'[writing'[k]].id
    <3>1. /\ Len(writing') = Len(writing) + 1 /\ writing'[Len(writing) + 1] = t
          /\ \A i \in 1 .. Len(writing) : writing'[i] = writing[i]
      BY <1>n, <2>0, Arrives
    <3>2. \A i \in 1 .. Len(writing) : writing[i] # t
      BY <2>0 DEF WritersOnce, Sending
    <3>3. j \in 1 .. Len(writing) /\ writing'[j] = writing[j] /\ writing[j] \in Tasks \ {t}
          /\ job'[writing[j]] = job[writing[j]]
      BY <1>n, <2>0, <2>6, <3>1, <3>2
    <3>4. CASE k = Len(writing) + 1
      <4>1. job[writing[j]].id <= verdict[job[t].doc].id
        BY <1>n, <2>6, <3>3 DEF StatusesInStep
      <4> QED BY <1>n, <2>0, <2>1, <3>1, <3>3, <3>4, <4>1
    <3>5. CASE k # Len(writing) + 1
      <4>1. k \in 1 .. Len(writing) /\ writing'[k] = writing[k] /\ writing[k] \in Tasks \ {t}
            /\ job'[writing[k]] = job[writing[k]]
        BY <1>n, <2>0, <3>1, <3>2, <3>5
      <4> QED BY <2>6, <3>3, <4>1 DEF StatusesInStep
    <3> QED BY <3>4, <3>5
  <2> QED BY <2>3, <2>4, <2>5, <2>6 DEF StatusesInStep
<1>3. ASSUME NEW t \in Tasks, Resume(t)
      PROVE  \E n \in Nat :
               /\ Len(writing) = n + 1 /\ writing[1] = t /\ Len(Tail(writing)) = n
               /\ Tail(writing) \in Seq(Tasks)
               /\ \A k \in 1 .. n : /\ Tail(writing)[k] = writing[k + 1]
                                    /\ Tail(writing)[k] # t /\ k + 1 \in 1 .. Len(writing)
  <2>1. /\ Len(Tail(writing)) = Len(writing) - 1 /\ Len(writing) \in Nat \ {0}
        /\ Tail(writing) \in Seq(Tasks) /\ writing[1] = t
        /\ \A k \in 1 .. Len(Tail(writing)) : Tail(writing)[k] = writing[k + 1]
    BY <1>n, <1>3, Leaves DEF Resume
  <2>2. PICK n : n = Len(Tail(writing))
    OBVIOUS
  <2>a. n \in Nat /\ Len(writing) = n + 1
    BY <2>1, <2>2, LenProperties
  <2>3. ASSUME NEW k \in 1 .. n PROVE Tail(writing)[k] # t /\ k + 1 \in 1 .. Len(writing)
    <3>1. k + 1 \in 1 .. Len(writing) /\ 1 \in 1 .. Len(writing) /\ k + 1 # 1
      BY <2>a
    <3> QED BY <2>1, <2>2, <3>1 DEF WritersOnce
  <2> QED BY <2>1, <2>2, <2>a, <2>3
<1>4. ASSUME NEW t \in Tasks, Reported(t) PROVE StatusesInStep'
  <2>1. PICK n \in Nat :
               /\ Len(writing) = n + 1 /\ writing[1] = t /\ Len(Tail(writing)) = n
               /\ Tail(writing) \in Seq(Tasks)
               /\ \A k \in 1 .. n : /\ Tail(writing)[k] = writing[k + 1]
                                    /\ Tail(writing)[k] # t /\ k + 1 \in 1 .. Len(writing)
    BY <1>3, <1>4 DEF Reported
  <2>2. /\ \A d \in Docs : status'[ProjectOf[d]].id = job[t].id
        /\ verdict' = verdict /\ job[t].pc = "diagnosing" /\ job'[t].pc = "reporting"
        /\ \A u \in Tasks \ {t} : job'[u] = job[u]
    <3>1. \A d \in Docs : d = job[t].doc
      BY <1>n DEF SentInStep
    <3> QED BY <1>4, <3>1 DEF Reported
  <2>3. /\ Len(writing') = n + 1 /\ writing'[n + 1] = t
        /\ \A k \in 1 .. n : writing'[k] = writing[k + 1] /\ writing'[k] # t
    BY <1>4, <2>1, Arrives DEF Reported, SendAgain
  <2>4. \A d \in Docs : status'[ProjectOf[d]].id <= verdict'[d].id
    BY <2>2 DEF StatusesInStep
  <2>5. ASSUME NEW u \in Tasks, NEW d \in Docs, job'[u].pc = "diagnosing"
        PROVE  status'[ProjectOf[d]].id < job'[u].id /\ job'[u].id <= verdict'[d].id
    <3>1. u # t /\ job'[u] = job[u] /\ job[u].pc = "diagnosing"
      BY <2>2, <2>5
    <3>2. PICK k \in 1 .. Len(writing) : writing[k] = u
      BY <3>1 DEF WritersOnce, Sending
    <3>3. 1 \in 1 .. Len(writing) /\ 1 < k
      BY <2>1, <3>1, <3>2
    <3>4. job[t].id < job[u].id
      BY <2>1, <2>2, <3>1, <3>2, <3>3 DEF StatusesInStep
    <3>5. job[u].id <= verdict[d].id
      BY <3>1 DEF StatusesInStep
    <3> QED BY <2>2, <3>1, <3>4, <3>5
  <2>6. ASSUME NEW d \in Docs
        PROVE  \/ status'[ProjectOf[d]].id = verdict'[d].id
               \/ \E u \in Tasks : job'[u].pc = "diagnosing" /\ job'[u].id = verdict'[d].id
    <3>1. status[ProjectOf[d]].id < verdict[d].id
      <4>1. status[ProjectOf[d]].id < job[t].id /\ job[t].id <= verdict[d].id
        BY <2>2 DEF StatusesInStep
      <4> QED BY <1>n, <4>1
    <3>2. PICK u \in Tasks : job[u].pc = "diagnosing" /\ job[u].id = verdict[d].id
      BY <1>n, <3>1 DEF StatusesInStep
    <3>3. CASE u = t
      BY <2>2, <3>2, <3>3
    <3>4. CASE u # t
      BY <2>2, <3>2, <3>4
    <3> QED BY <3>3, <3>4
  <2>7. ASSUME NEW j \in 1 .. Len(writing'), NEW k \in 1 .. Len(writing'), j < k,
               job'[writing'[j]].pc = "diagnosing", job'[writing'[k]].pc = "diagnosing"
        PROVE  job'[writing'[j]].id < job'[writing'[k]].id
    <3>1. j \in 1 .. n /\ k \in 1 .. n
      BY <2>2, <2>3, <2>7
    <3>2. /\ j + 1 \in 1 .. Len(writing) /\ k + 1 \in 1 .. Len(writing) /\ j + 1 < k + 1
          /\ writing'[j] = writing[j + 1] /\ writing'[k] = writing[k + 1]
      BY <2>1, <2>3, <2>7, <3>1
    <3>3. job'[writing'[j]] = job[writing[j + 1]] /\ job'[writing'[k]] = job[writing[k + 1]]
      BY <1>n, <2>2, <2>3, <3>1, <3>2
    <3> QED BY <2>7, <3>2, <3>3 DEF StatusesInStep
  <2> QED BY <2>4, <2>5, <2>6, <2>7 DEF StatusesInStep
<1>5. ASSUME NEW t \in Tasks, Returned(t) PROVE StatusesInStep'
  <2>1. PICK n \in Nat :
               /\ Len(writing) = n + 1 /\ writing[1] = t /\ Len(Tail(writing)) = n
               /\ Tail(writing) \in Seq(Tasks)
               /\ \A k \in 1 .. n : /\ Tail(writing)[k] = writing[k + 1]
                                    /\ Tail(writing)[k] # t /\ k + 1 \in 1 .. Len(writing)
    BY <1>3, <1>5 DEF Returned
  <2>2. /\ status' = status /\ verdict' = verdict /\ writing' = Tail(writing)
        /\ \A u \in Tasks : job'[u].pc = "diagnosing" <=> job[u].pc = "diagnosing"
        /\ \A u \in Tasks \ {t} : job'[u] = job[u]
        /\ job'[t].pc = "idle" /\ job[t].pc # "diagnosing"
    BY <1>5 DEF Returned
  <2>3. \A d \in Docs : status'[ProjectOf[d]].id <= verdict'[d].id
    BY <2>2 DEF StatusesInStep
  <2>4. \A u \in Tasks, d \in Docs : job'[u].pc = "diagnosing" =>
          status'[ProjectOf[d]].id < job'[u].id /\ job'[u].id <= verdict'[d].id
    BY <2>2 DEF StatusesInStep
  <2>5. \A d \in Docs :
          \/ status'[ProjectOf[d]].id = verdict'[d].id
          \/ \E u \in Tasks : job'[u].pc = "diagnosing" /\ job'[u].id = verdict'[d].id
    BY <2>2 DEF StatusesInStep
  <2>6. ASSUME NEW j \in 1 .. Len(writing'), NEW k \in 1 .. Len(writing'), j < k,
               job'[writing'[j]].pc = "diagnosing", job'[writing'[k]].pc = "diagnosing"
        PROVE  job'[writing'[j]].id < job'[writing'[k]].id
    <3>1. j \in 1 .. n /\ k \in 1 .. n
      BY <2>1, <2>2
    <3>2. /\ j + 1 \in 1 .. Len(writing) /\ k + 1 \in 1 .. Len(writing) /\ j + 1 < k + 1
          /\ writing'[j] = writing[j + 1] /\ writing'[k] = writing[k + 1]
          /\ writing'[j] # t /\ writing'[k] # t
      BY <2>1, <2>2, <2>6, <3>1
    <3>3. job'[writing'[j]] = job[writing[j + 1]] /\ job'[writing'[k]] = job[writing[k + 1]]
      BY <1>n, <2>2, <3>2
    <3> QED BY <2>6, <3>2, <3>3 DEF StatusesInStep
  <2> QED BY <2>3, <2>4, <2>5, <2>6 DEF StatusesInStep
<1> QED BY <1>0, <1>1, <1>2, <1>4, <1>5, InStepMoves

-----------------------------------------------------------------------------
(* The server at rest.                                                     *)

\* The inductive invariant.
RestInv ==
  /\ NumberInv /\ JudgeInv /\ WritersOnce
  /\ SentInStep => ResultsInStep /\ StatusesInStep

LEMMA RestInit == Init => RestInv
<1> SUFFICES ASSUME Init PROVE RestInv
  OBVIOUS
<1>1. \A t \in Tasks : job[t].pc = "idle" /\ job[t].outcome = "none"
  BY DEF Init, Idle, Begun
<1>2. writing = <<>> /\ Len(writing) = 0
  BY LenProperties, EmptySeq DEF Init
<1>3. WritersOnce
  BY <1>1, <1>2 DEF WritersOnce, Sending
<1>4. \A d \in Docs : /\ verdict[d].outcome = "none" /\ verdict[d].id = 0
                      /\ status[ProjectOf[d]].id = 0
  BY ProjectAssumption DEF Init
<1>5. ResultsInStep
  BY <1>1, <1>4 DEF ResultsInStep, INIT
<1>6. StatusesInStep
  BY <1>1, <1>2, <1>4 DEF StatusesInStep
<1> QED BY <1>3, <1>5, <1>6, NumberInit, JudgeInit DEF RestInv

LEMMA RestStep ==
  ASSUME RestInv, [Next]_vars
  PROVE  RestInv'
<1>0. TypeOK
  BY DEF RestInv, NumberInv
<1>1. NumberInv' /\ JudgeInv' /\ WritersOnce'
  BY <1>0, NumberStep, JudgeStep, WritersStep DEF RestInv
<1>2. ASSUME SentInStep PROVE ResultsInStep' /\ StatusesInStep'
  BY <1>0, <1>2, ResultsStep, StatusesStep DEF RestInv
<1>3. SentInStep' => SentInStep
  BY DEF SentInStep
<1> QED BY <1>1, <1>2, <1>3 DEF RestInv

\* The last text and the last number of a file are judged or about to be, and
\* messages sent in step show the verdicts: the inductive invariant holds in
\* every state.
THEOREM RestInvariant == Spec => []RestInv
<1>1. RestInv /\ [Next]_vars => RestInv'
  BY RestStep
<1> QED BY <1>1, RestInit, PTL DEF Spec

\* At rest, an open file shows what the last validation of its present text found
\* (validate.ts, the check of lastValidationId): see RestShowsLatestVerdict.
THEOREM LatestVerdictAtRest == Spec => []RestShowsLatestVerdict
<1>1. ASSUME RestInv PROVE RestShowsLatestVerdict
  <2> SUFFICES ASSUME SentInStep, AtRest, NEW d \in Docs, open[d], verdict[d].outcome # "none"
               PROVE  diagnostics[d].rev = IF verdict[d].outcome = FAIL THEN text[d] ELSE 0
    BY DEF RestShowsLatestVerdict
  <2>1. indexed[d]
    BY <1>1 DEF RestInv, JudgeInv, NumberedAreIndexed
  <2>2. ~armed[d] /\ \A t \in Tasks : ~Judging(t, d)
    BY DEF AtRest, Judging
  <2>3. verdict[d].rev = text[d]
    BY <1>1, <2>1, <2>2 DEF RestInv, JudgeInv, TextsAreJudged
  <2> QED BY <1>1, <2>3 DEF RestInv, ResultsInStep
<1> QED BY <1>1, RestInvariant, PTL

\* At rest, the status item of the project tells the result of the validation
\* that was numbered last (validate.ts, the sends of a status): see
\* RestShowsLatestStatus.
THEOREM LatestStatusAtRest == Spec => []RestShowsLatestStatus
<1>1. ASSUME RestInv PROVE RestShowsLatestStatus
  <2> SUFFICES ASSUME SentInStep, AtRest, NEW d \in Docs
               PROVE  status[ProjectOf[d]].id >= lastValidationId[d]
    BY DEF RestShowsLatestStatus
  <2>1. \A t \in Tasks : ~Judging(t, d) /\ job[t].pc # "diagnosing"
    BY DEF AtRest, Judging
  <2>2. lastValidationId[d] = 0 \/ verdict[d].id = lastValidationId[d]
    BY <1>1, <2>1 DEF RestInv, JudgeInv, NumbersAreJudged
  <2>3. status[ProjectOf[d]].id = verdict[d].id
    BY <1>1, <2>1 DEF RestInv, StatusesInStep
  <2>4. status[ProjectOf[d]].id \in Nat /\ lastValidationId[d] \in Nat
    BY <1>1, ProjectAssumption DEF RestInv, NumberInv, TypeOK, Status
  <2> QED BY <2>2, <2>3, <2>4
<1> QED BY <1>1, RestInvariant, PTL
=============================================================================
