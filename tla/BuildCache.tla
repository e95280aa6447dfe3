------------------------------ MODULE BuildCache ------------------------------
(***************************************************************************)
(* How the worker of a Hardhat 2 project builds compiler inputs            *)
(* (Hardhat2/worker/WorkerProcess.ts, _getCompilationDetails) and what it  *)
(* remembers between builds.  The server sends the worker build requests,  *)
(* with the texts of the open documents, and invalidations of the cache;   *)
(* the worker starts on a message while it still awaits Hardhat's tasks    *)
(* for earlier ones.                                                       *)
(*                                                                         *)
(* A text is a revision and the files that it imports, which stand for all *)
(* that analyze() extracts, and may be empty.  The sources of a compiler   *)
(* input are known by the files they are of; a document is put in the      *)
(* place of a source by the names of the two, which may be those of other  *)
(* files as well.  A compiler input is an object: the cache, the request   *)
(* that built it and later requests share it, so it is known by the        *)
(* request that built it.                                                  *)
(***************************************************************************)
EXTENDS Naturals, Sequences, FiniteSets, Functions

CONSTANTS Docs,          \* Solidity files of the project
          EndsWith,      \* pairs <<f, g>>: the uri of f ends with the source name of g
          MayImport,     \* bound: the files that each file may import
          MayBeEmpty,    \* bound: the files that may be empty
          Opened,        \* bound: the files that the editor opens
          MaxTexts,      \* bound: texts typed
          MaxRequests    \* bound: build requests

ASSUME BoundAssumption == MaxTexts \in Nat /\ MaxRequests \in Nat
ASSUME ImportAssumption == MayImport \in [Docs -> SUBSET Docs]
ASSUME NamesAssumption == EndsWith \subseteq Docs \X Docs
ASSUME DocsAssumption == Docs # {}
ASSUME OpenedAssumption == Opened \subseteq Docs

Requests == 1 .. MaxRequests

VARIABLES
  revision,      \* number of texts typed so far
  disk,          \* the text of each file on disk
  editor,        \* the texts of the open documents
  armed,         \* documents whose validation timer runs
  unannounced,   \* is there a file event that the server has not seen?
  channel,       \* messages from the server to the worker
  openDocument,  \* the texts that READ_FILE, as last overridden, looks up
  last,          \* at most one record: lastAnalyzedDocUri, lastAnalysis and
                 \* lastCompilationDetails
  requests,      \* number of build requests
  request,       \* each build request
  input,         \* the compiler input that each request built
  response,      \* what each request was answered, {} if nothing or an error
  disturbed      \* history: builds that another build began during

serverVars == <<revision, disk, editor, armed, unannounced>>
workerVars == <<openDocument, last>>
askVars    == <<requests, request, input, response, disturbed>>
vars == <<serverVars, workerVars, channel, askVars>>

Text == [rev : 0 .. MaxTexts, imports : SUBSET Docs, empty : BOOLEAN]
NoTexts == [d \in {} |-> 0]
PartialTexts == UNION {[S -> Text] : S \in SUBSET Docs}

NoRequest == [pc |-> "none", source |-> CHOOSE d \in Docs : TRUE, open |-> NoTexts,
              read |-> NoTexts, todo |-> {}, builder |-> 0]

Init ==
  /\ revision = 0
  /\ disk \in [Docs -> [rev : {0}, imports : SUBSET Docs, empty : BOOLEAN]]
  /\ \A d \in Docs : /\ disk[d].imports \subseteq MayImport[d]
                     /\ disk[d].empty => d \in MayBeEmpty /\ disk[d].imports = {}
  /\ editor = NoTexts
  /\ armed = {}
  /\ unannounced = FALSE
  /\ channel = <<>>
  /\ openDocument = NoTexts
  /\ last = {}
  /\ requests = 0
  /\ request = [r \in Requests |-> NoRequest]
  /\ input = [r \in Requests |-> NoTexts]
  /\ response = [r \in Requests |-> {}]
  /\ disturbed = {}

With(texts, d, text) ==
  [f \in DOMAIN texts \cup {d} |-> IF f = d THEN text ELSE texts[f]]

-----------------------------------------------------------------------------
(* The server.                                                             *)

\* didChange.
Edit(d, imports, empty) ==
  /\ d \in DOMAIN editor
  /\ revision < MaxTexts
  /\ empty => d \in MayBeEmpty /\ imports = {}
  /\ revision' = revision + 1
  /\ editor' = With(editor, d, [rev |-> revision + 1, imports |-> imports, empty |-> empty])
  /\ armed' = armed \cup {d}
  /\ UNCHANGED <<disk, unannounced, workerVars, channel, askVars>>

OpenDocument(d) ==
  /\ d \in Opened \ DOMAIN editor
  /\ editor' = With(editor, d, disk[d])
  /\ armed' = armed \cup {d}
  /\ UNCHANGED <<revision, disk, unannounced, workerVars, channel, askVars>>

CloseDocument(d) ==
  /\ d \in DOMAIN editor
  /\ editor' = Restrict(editor, DOMAIN editor \ {d})
  /\ UNCHANGED <<revision, disk, armed, unannounced, workerVars, channel, askVars>>

Save(d) ==
  /\ d \in DOMAIN editor
  /\ disk[d] # editor[d]
  /\ disk' = [disk EXCEPT ![d] = editor[d]]
  /\ unannounced' = TRUE
  /\ UNCHANGED <<revision, editor, armed, workerVars, channel, askVars>>

\* onWatchedFilesChanges, for a change of a Solidity file.
Announce ==
  /\ unannounced
  /\ unannounced' = FALSE
  /\ channel' = Append(channel, 0)
  /\ UNCHANGED <<revision, disk, editor, armed, workerVars, askVars>>

\* A validation sends a BuildCompilationRequest with the open documents; it ends
\* before that if its own is not open any more.
Ask(d) ==
  /\ requests < MaxRequests
  /\ d \in armed \cap DOMAIN editor
  /\ armed' = armed \ {d}
  /\ requests' = requests + 1
  /\ request' = [request EXCEPT ![requests + 1] =
                   [NoRequest EXCEPT !.pc = "sent", !.source = d, !.open = editor]]
  /\ channel' = Append(channel, requests + 1)
  /\ UNCHANGED <<revision, disk, editor, unannounced, workerVars, input,
                 response, disturbed>>

-----------------------------------------------------------------------------
(* The worker.                                                             *)

Receive(message) ==
  channel # <<>> /\ Head(channel) = message /\ channel' = Tail(channel)

Goto(r, pc) == request' = [request EXCEPT ![r].pc = pc]

\* _handleInvalidateCache.
InvalidateCache ==
  /\ Receive(0)
  /\ last' = {}
  /\ UNCHANGED <<serverVars, openDocument, askVars>>

\* What the cache is looked up by.
Analysis(r) == [doc |-> request[r].source,
                imports |-> request[r].open[request[r].source].imports]

\* Mutant: only the text of the validated document is refreshed.
PlacementsOfSource(texts, r) == {[f \in {request[r].source} |-> request[r].source]}

\* The documents of the request that take the places of sources: each goes to the
\* first source whose name its uri ends with, if there is one, and of those that
\* go to one source the last stays.  Which source and which document come first is
\* not known.
Placements(texts, r) ==
  LET open == DOMAIN request[r].open
      Named(d) == {f \in DOMAIN texts : <<d, f>> \in EndsWith}
  IN  UNION {{at \in [taken -> open] :
                /\ IsInjective(at)
                /\ \A f \in taken : f \in Named(at[f])
                /\ \A d \in open : Named(d) = {} \/ Named(d) \cap taken # {}}
             : taken \in SUBSET DOMAIN texts}

Refreshed(texts, r, at) ==
  [f \in DOMAIN texts |-> IF f \in DOMAIN at THEN request[r].open[at[f]] ELSE texts[f]]

\* The imports are those of the last build: its input is refreshed, in place,
\* with the open documents, and is the answer.
Hit(r) ==
  /\ Receive(r)
  /\ \E c \in last :
       /\ c.analysis = Analysis(r)
       /\ \E at \in Placements(input[c.builder], r) :
            input' = [input EXCEPT ![c.builder] = Refreshed(@, r, at)]
       /\ request' = [request EXCEPT ![r].pc = "responding",
                                     ![r].builder = c.builder]
  /\ UNCHANGED <<serverVars, workerVars, requests, response, disturbed>>

Building(r) == request[r].pc = "reading"

\* Mutant: READ_FILE is overridden by the first build only.
MissOverridingOnce(r) ==
  /\ Receive(r)
  /\ \A c \in last : c.analysis # Analysis(r)
  /\ openDocument' = IF r = 1 THEN request[r].open ELSE openDocument
  /\ request' = [request EXCEPT ![r].pc = "reading",
                                ![r].todo = {request[r].source}]
  /\ disturbed' = disturbed \cup {q \in Requests : Building(q)}
  /\ UNCHANGED <<serverVars, last, requests, input, response>>

\* Otherwise READ_FILE is overridden to find the open documents of this request,
\* for the builds in flight as well, and the dependency graph is awaited. (Of
\* other files whose source names the uri ends with, the graph has more than the
\* compilation job of the document.)
Miss(r) ==
  /\ Receive(r)
  /\ \A c \in last : c.analysis # Analysis(r)
  /\ openDocument' = request[r].open
  /\ request' = [request EXCEPT ![r].pc = "reading",
                                ![r].todo = {request[r].source}]
  /\ disturbed' = disturbed \cup {q \in Requests : Building(q)}
  /\ UNCHANGED <<serverVars, last, requests, input, response>>

\* READ_FILE, for the source or for a file that a file already read imports.
ReadSource(r, f) ==
  /\ Building(r)
  /\ f \in request[r].todo
  /\ LET text == IF f \in DOMAIN openDocument THEN openDocument[f] ELSE disk[f]
         read == With(request[r].read, f, text)
     IN  request' = [request EXCEPT
           ![r].read = read,
           ![r].todo = (@ \cup text.imports) \ DOMAIN read]
  /\ UNCHANGED <<serverVars, workerVars, channel, requests, input, response,
                 disturbed>>

\* Texts, with those of the request, by their paths, in their places; an empty
\* text counts as none.
Modified(texts, r) ==
  [f \in DOMAIN texts |-> IF f \in DOMAIN request[r].open /\ ~request[r].open[f].empty
                          THEN request[r].open[f] ELSE texts[f]]

\* Mutant: the last build is remembered beside those before it.
StoreBeside(r) ==
  /\ Building(r)
  /\ request[r].todo = {}
  /\ input' = [input EXCEPT ![r] = Modified(request[r].read, r)]
  /\ last' = last \cup {[analysis |-> Analysis(r), builder |-> r]}
  /\ request' = [request EXCEPT ![r].pc = "responding", ![r].builder = r,
                                ![r].read = NoTexts]
  /\ UNCHANGED <<serverVars, openDocument, channel, requests, response, disturbed>>

\* The dependency graph is complete: the texts of the request take the place of
\* those that were read, and the input is made, stored and the answer.
StoreInput(r) ==
  /\ Building(r)
  /\ request[r].todo = {}
  /\ input' = [input EXCEPT ![r] = Modified(request[r].read, r)]
  /\ last' = {[analysis |-> Analysis(r), builder |-> r]}
  /\ request' = [request EXCEPT ![r].pc = "responding", ![r].builder = r,
                                ![r].read = NoTexts]
  /\ UNCHANGED <<serverVars, openDocument, channel, requests, response, disturbed>>

\* Hardhat rejects a task: the cache is cleared, and the answer is an error.
Fail(r) ==
  /\ Building(r)
  /\ last' = {}
  /\ request' = [request EXCEPT ![r].pc = "done", ![r].read = NoTexts, ![r].todo = {}]
  /\ UNCHANGED <<serverVars, openDocument, channel, requests, input, response,
                 disturbed>>

\* The input, as it is by now, is sent.
Respond(r) ==
  /\ request[r].pc = "responding"
  /\ response' = [response EXCEPT ![r] = {input[request[r].builder]}]
  /\ Goto(r, "done")
  /\ UNCHANGED <<serverVars, workerVars, channel, requests, input, disturbed>>

-----------------------------------------------------------------------------
Server ==
  \/ Announce
  \/ \E d \in Docs :
       \/ \E imports \in SUBSET MayImport[d], empty \in BOOLEAN : Edit(d, imports, empty)
       \/ OpenDocument(d) \/ CloseDocument(d) \/ Save(d) \/ Ask(d)

Worker(r) ==
  \/ Hit(r) \/ Miss(r)
  \/ \E f \in Docs : ReadSource(r, f)
  \/ StoreInput(r) \/ Fail(r) \/ Respond(r)

Next ==
  \/ Server
  \/ InvalidateCache
  \/ \E r \in Requests : Worker(r)

Spec == Init /\ [][Next]_vars

-----------------------------------------------------------------------------
\* Every variable has its type.
TypeOK ==
  /\ revision \in 0 .. MaxTexts
  /\ disk \in [Docs -> Text]
  /\ editor \in PartialTexts
  /\ armed \subseteq Docs
  /\ unannounced \in BOOLEAN
  /\ channel \in Seq(0 .. MaxRequests)
  /\ openDocument \in PartialTexts
  /\ last \subseteq [analysis : [doc : Docs, imports : SUBSET Docs],
                     builder : Requests]
  /\ Cardinality(last) <= 1
  /\ requests \in 0 .. MaxRequests
  /\ \A r \in Requests :
       /\ request[r].pc \in {"none", "sent", "reading", "responding", "done"}
       /\ request[r].source \in Docs
       /\ request[r].open \in PartialTexts /\ request[r].read \in PartialTexts
       /\ request[r].todo \subseteq Docs
       /\ request[r].builder \in 0 .. MaxRequests
       /\ input[r] \in PartialTexts
       /\ response[r] \subseteq PartialTexts
  /\ disturbed \subseteq Requests

\* No other document has a uri that ends with the source name of f, and that of f
\* ends with no other source name.
ToldApart(f) ==
  \A g \in Docs : /\ <<f, g>> \in EndsWith <=> g = f
                  /\ <<g, f>> \in EndsWith <=> g = f

\* In `sources`, document f has a text that request r, or a later one, came with.
Reaches(r, f, sources) ==
  \E q \in r .. requests : f \in DOMAIN request[q].open /\ sources[f] = request[q].open[f]

\* Whatever builds overlap, and although they share one READ_FILE and one cached
\* input, an answer has the document it was asked for; and every open document
\* among its sources, if its name is not that of others, has there the text the
\* answer was asked with or that of a later request, and never an older one. (An
\* empty text reaches only through READ_FILE, which another build may override.)
AskedTextsReach ==
  \A r \in Requests : \A sources \in response[r] :
    /\ request[r].source \in DOMAIN sources
    /\ \A f \in DOMAIN sources \cap DOMAIN request[r].open :
         ToldApart(f) /\ ~(request[r].open[f].empty /\ r \in disturbed)
           => Reaches(r, f, sources)

\* "If imports didnt change, just update open documents' contents": the same of
\* every open document that is not empty, whatever it is called.
NamesakesReach ==
  \A r \in Requests : \A sources \in response[r] :
    \A f \in DOMAIN sources \cap DOMAIN request[r].open :
      ~request[r].open[f].empty => Reaches(r, f, sources)

\* The same of every open document whose name is not that of others.
EmptyTextsReach ==
  \A r \in Requests : \A sources \in response[r] :
    \A f \in DOMAIN sources \cap DOMAIN request[r].open :
      ToldApart(f) => Reaches(r, f, sources)

\* Every file that a source imports is a source.
Closed(sources) ==
  \A f \in DOMAIN sources : sources[f].imports \subseteq DOMAIN sources

\* An input whose build no other build began during has every file that its texts
\* import: the graph is read through the texts that the input ends up with,
\* whatever is edited, saved or closed meanwhile (the override of READ_FILE).
UndisturbedIsClosed ==
  [][\A r \in Requests \ disturbed : StoreInput(r) => Closed(input'[r])]_vars

\* "Avoid rebuilding dependency graph. If imports didnt change, just update open
\* documents' contents" (_getCompilationDetails): an answer from the cache,
\* if its build was not disturbed, has every file that its texts import.
CachedAnswersAreClosed ==
  \A r \in Requests : \A sources \in response[r] :
    request[r].builder \notin disturbed \cup {r} => Closed(sources)
=============================================================================
