--------------------------- MODULE FoundryProject ---------------------------
(***************************************************************************)
(* A Foundry project (frameworks/Foundry/FoundryProject.ts): it asks the   *)
(* forge command for its configuration and its remappings, again whenever  *)
(* foundry.toml or remappings.txt change, resolves imports by them, and    *)
(* builds compiler inputs from the open documents and the texts of the     *)
(* index (solFileIndex), which analyses set.                               *)
(*                                                                         *)
(* The crawl of an input awaits nothing but what is settled at once and    *)
(* changes nothing, so an input is a function of the state that it is      *)
(* asked for in (every file is in the index, as it is when a workspace has *)
(* been indexed).  A call of initialize() is a process of two commands     *)
(* that read the configuration at some moment while they run; a change of  *)
(* the configuration starts a call whether or not another is under way.    *)
(***************************************************************************)
EXTENDS BasicCompilation, FiniteSets

CONSTANTS
    Configs,        \* configurations: foundry.toml and remappings.txt
    Broken,         \* the configurations that forge fails on
    Solc,           \* the version a configuration asks for, or None
    Remappings,     \* [Configs -> sequences of partial maps, names to paths]
    Inside,         \* the files that the base path contains
    Candidates,     \* where a path may be, seen from a file: from its directory
                    \* up to the one that the project is in, nowhere if the file
                    \* is not below that
    DiskTexts,      \* the texts that files may have on disk at the start
    Typed,          \* the texts that may be typed
    Opened,         \* the documents that are open
    Calls,          \* calls of initialize() that may be under way
    MaxChanges,     \* bound: changes of the configuration
    MaxEdits        \* bound: texts typed

ASSUME FoundryAssumption ==
    /\ Broken \subseteq Configs
    /\ Inside \subseteq Files
    /\ Solc \in [Configs -> Versions \cup {None}]
    /\ None \notin Configs
    /\ DiskTexts \subseteq [Files -> Texts]
    /\ Typed \subseteq Texts
    /\ Opened \subseteq Files
    /\ MaxChanges \in Nat /\ MaxEdits \in Nat

VARIABLES
    config,         \* the configuration on disk
    changes,        \* number of changes of it so far
    notified,       \* changes the server has not been told of
    call,           \* [Calls -> the state of a call of initialize()]
    loaded,         \* the configuration of the project's paths and solc version,
                    \* None while it has none
    remapped,       \* the configuration of its remappings, None at first
    initializeError,
    onDisk,         \* the files that exist
    index,          \* the texts of the index
    editor,         \* the texts of the open documents
    edits,          \* number of texts typed so far
    pending,        \* documents whose analysis is due
    overlapped      \* history: two calls of initialize() were under way at once

configVars == <<config, changes, notified, call, loaded, remapped,
                initializeError, overlapped>>
textVars == <<onDisk, index, editor, edits, pending>>
vars == <<configVars, textVars>>

Idle == [pc |-> "idle", read |-> None]

\* The project has been found and its first initialize() has begun.
Init ==
    /\ config \in Configs
    /\ changes = 0 /\ notified = 0
    /\ \E first \in Calls :
        call = [i \in Calls |-> IF i = first THEN [pc |-> "config", read |-> None]
                                ELSE Idle]
    /\ loaded = None /\ remapped = None
    /\ initializeError = FALSE
    /\ \E disk \in DiskTexts :
        index = disk /\ editor = [f \in Opened |-> disk[f]]
    /\ onDisk = Files
    /\ edits = 0 /\ pending = {}
    /\ overlapped = FALSE

-----------------------------------------------------------------------------
(* initialize() *)

ChangeConfig(c) ==
    /\ c # config
    /\ changes < MaxChanges
    /\ config' = c
    /\ changes' = changes + 1
    /\ notified' = notified + 1
    /\ UNCHANGED <<call, loaded, remapped, initializeError, overlapped>>
    /\ UNCHANGED textVars

\* Mutant: the error of an earlier call is not cleared.
InitializeUncleared(i) ==
    /\ notified > 0
    /\ call[i] = Idle
    /\ notified' = notified - 1
    /\ call' = [call EXCEPT ![i] = [pc |-> "config", read |-> None]]
    /\ overlapped' = (overlapped \/ \E j \in Calls : call[j] # Idle)
    /\ UNCHANGED <<config, changes, loaded, remapped, initializeError>>
    /\ UNCHANGED textVars

\* onWatchedFilesChanges: a change starts a call, which runs forge.
Initialize(i) ==
    /\ notified > 0
    /\ call[i] = Idle
    /\ notified' = notified - 1
    /\ call' = [call EXCEPT ![i] = [pc |-> "config", read |-> None]]
    /\ initializeError' = FALSE
    /\ overlapped' = (overlapped \/ \E j \in Calls : call[j] # Idle)
    /\ UNCHANGED <<config, changes, loaded, remapped>>
    /\ UNCHANGED textVars

\* The command of call i reads the configuration.
ForgeReads(i) ==
    /\ call[i].pc \in {"config", "remappings"} /\ call[i].read = None
    /\ call' = [call EXCEPT ![i].read = config]
    /\ UNCHANGED <<config, changes, notified, loaded, remapped, initializeError,
                   overlapped>>
    /\ UNCHANGED textVars

\* The command has failed.
ForgeFails(i) ==
    /\ call[i].read \in Broken
    /\ call' = [call EXCEPT ![i] = Idle]
    /\ initializeError' = TRUE
    /\ UNCHANGED <<config, changes, notified, loaded, remapped, overlapped>>
    /\ UNCHANGED textVars

\* `forge config` has answered; `forge remappings` is run.
LoadConfig(i) ==
    /\ call[i].pc = "config" /\ call[i].read \in Configs \ Broken
    /\ loaded' = call[i].read
    /\ call' = [call EXCEPT ![i] = [pc |-> "remappings", read |-> None]]
    /\ UNCHANGED <<config, changes, notified, remapped, initializeError, overlapped>>
    /\ UNCHANGED textVars

LoadRemappings(i) ==
    /\ call[i].pc = "remappings" /\ call[i].read \in Configs \ Broken
    /\ remapped' = call[i].read
    /\ call' = [call EXCEPT ![i] = Idle]
    /\ UNCHANGED <<config, changes, notified, loaded, initializeError, overlapped>>
    /\ UNCHANGED textVars

-----------------------------------------------------------------------------
(* Imports *)

\* Of the remappings that apply to a name the last one is taken.
Transformed(name) ==
    LET all == IF remapped = None THEN <<>> ELSE Remappings[remapped]
        apply == SelectSeq(all, LAMBDA r : name \in DOMAIN r)
    IN  IF name \in Relative \/ apply = <<>> THEN name ELSE Last(apply)[name]

\* resolveImportPath: the first of the candidates that exists.
resolveImportPath(f, name) ==
    LET paths == Candidates[f, Transformed(name)]
        First(k) == paths[k] \in onDisk /\ \A j \in 1 .. k - 1 : paths[j] \notin onDisk
    IN  IF \E k \in DOMAIN paths : First(k)
        THEN paths[CHOOSE k \in DOMAIN paths : First(k)] ELSE None

Found == [f \in Files |-> [i \in Names |-> resolveImportPath(f, i)]]

-----------------------------------------------------------------------------
(* Texts and builds *)

RemoveFile(f) ==
    /\ f \in onDisk \ Opened
    /\ edits < MaxEdits
    /\ edits' = edits + 1
    /\ onDisk' = onDisk \ {f}
    /\ UNCHANGED <<configVars, index, editor, pending>>

\* Mutant: an edit makes the analysis of every file due, open or not.
TypeAnywhere(f, x) ==
    /\ edits < MaxEdits
    /\ edits' = edits + 1
    /\ editor' = [editor EXCEPT ![f] = x]
    /\ pending' = Files
    /\ UNCHANGED <<configVars, onDisk, index>>

Type(f, x) ==
    /\ edits < MaxEdits
    /\ edits' = edits + 1
    /\ editor' = [editor EXCEPT ![f] = x]
    /\ pending' = pending \cup {f}
    /\ UNCHANGED <<configVars, onDisk, index>>

\* The debounced analysis of a document puts its text into the index.
Analyse(f) ==
    /\ f \in pending
    /\ pending' = pending \ {f}
    /\ index' = [index EXCEPT ![f] = editor[f]]
    /\ UNCHANGED <<configVars, onDisk, editor, edits>>

\* The key of a source: its path from the base path on, if that contains it, and
\* else its path.
Key(f) == <<IF f \in Inside THEN "relative" ELSE "absolute", f>>

\* What a validation of f gets, unless the initialization has failed: the project's
\* remappings are put before those that the input has for names.
buildCompilation(f) ==
    LET basic == buildBasicCompilation(index, editor, Found, f,
                                       IF loaded = None THEN None ELSE Solc[loaded])
    IN  IF basic = NoInput THEN NoInput
        ELSE [sources |-> [k \in {Key(g) : g \in DOMAIN basic.sources} |-> basic.sources[k[2]]],
              remappings |-> IF remapped = None THEN <<>> ELSE Remappings[remapped],
              names |-> basic.names,
              version |-> basic.version]

\* What solc asks an input for at import i of source f. A relative import is looked
\* up beside the key of f. Of the remappings that apply to a name solc takes the
\* longest, and of equally long ones the last: one that the input has for the whole
\* name comes before all that the project has, and leads to a path.
AsksFor(input, f, i) ==
    IF i \in Relative THEN {<<Key(f)[1], Candidates[f, i][1]>>}
    ELSE {<<"absolute", n[2]>> : n \in {m \in input.names : m[1] = i}}

-----------------------------------------------------------------------------
Next ==
    \/ \E c \in Configs : ChangeConfig(c)
    \/ \E i \in Calls : \/ Initialize(i) \/ ForgeReads(i) \/ ForgeFails(i)
                        \/ LoadConfig(i) \/ LoadRemappings(i)
    \/ \E f \in Files : RemoveFile(f) \/ Analyse(f)
    \/ \E f \in Opened, x \in Typed : Type(f, x)

Spec == Init /\ [][Next]_vars
-----------------------------------------------------------------------------
(* Properties *)

\* Every variable has its type.
TypeOK ==
    /\ config \in Configs /\ {loaded, remapped} \subseteq Configs \cup {None}
    /\ changes \in 0 .. MaxChanges /\ notified \in 0 .. changes
    /\ call \in [Calls -> [pc : {"idle", "config", "remappings"},
                           read : Configs \cup {None}]]
    /\ {initializeError, overlapped} \subseteq BOOLEAN
    /\ onDisk \subseteq Files /\ pending \subseteq Opened
    /\ index \in [Files -> Texts] /\ editor \in [Opened -> Texts]
    /\ edits \in 0 .. MaxEdits

\* What solc would read: the editor's text of open documents.
Shown == [f \in Files |-> IF f \in Opened THEN editor[f] ELSE index[f]]

Configured == loaded # None /\ Solc[loaded] # None

NeededFor(f) == Needed(Shown, Found, f)

\* The files among those that are needed that an import i is resolved in.
Importers(needed, i) ==
    {g \in needed : i \in ToSet(Shown[g].imports) /\ Found[g][i] # None}

\* Import i is resolved to one file wherever it is met.
ResolvedAlike(importers, i) == \A g, h \in importers : Found[g][i] = Found[h][i]

\* The import i of g is resolved to the file beside g, as solc does it.
FoundBeside(g, i) ==
    Found[g][i] = Candidates[g, i][1] /\ (Found[g][i] \in Inside <=> g \in Inside)

HasSources(input, f) ==
    input.sources = [k \in {Key(g) : g \in NeededFor(f)} |-> Shown[k[2]]]

FindsImports(input, f) ==
    LET needed == NeededFor(f)
    IN  \A i \in Names :
            LET importers == Importers(needed, i)
            IN  IF i \in Relative
                THEN \A g \in importers :
                        FoundBeside(g, i) => AsksFor(input, g, i) = {Key(Found[g][i])}
                ELSE ResolvedAlike(importers, i) =>
                        \A g \in importers :
                            AsksFor(input, g, i) = {<<"absolute", Found[g][i]>>}

\* An input that is asked for when no analysis is due is complete. Its sources are
\* the files that can be reached by imports that the project resolves, along
\* whichever circles, with their texts. Where the project finds a relative import
\* beside its file solc asks for that source, and at an import by name, whichever
\* of a file's names it is, it asks for the path of the file, which is the key of
\* every source that is not inside the project. The compiler is the newest that
\* all sources accept, or the configured one (buildCompilation,
\* buildBasicCompilation, getDependenciesAndPragmas).
InputsAreComplete ==
    pending = {} /\ ~initializeError =>
        \A f \in Opened :
            LET input == buildCompilation(f)
            IN  /\ input # NoInput => HasSources(input, f) /\ FindsImports(input, f)
                /\ IF Configured THEN input.version = Solc[loaded]
                   ELSE IsNewest(input, Shown, Found, f)

AtRest == notified = 0 /\ \A i \in Calls : call[i] = Idle

\* When the changes of the configuration are handled, one at a time, the
\* project is what the configuration on disk says, whichever of its states the
\* commands have read: broken or not, and its paths, version and remappings
\* from the same one (initialize).
RestFollowsConfig ==
    AtRest /\ ~overlapped =>
        /\ initializeError <=> config \in Broken
        /\ ~initializeError => loaded = config /\ remapped = config
-----------------------------------------------------------------------------
(* Statements that the code does not keep *)

\* RestFollowsConfig for calls that overlap.
RestFollowsLastConfig ==
    AtRest => /\ initializeError <=> config \in Broken
              /\ ~initializeError => loaded = config /\ remapped = config

\* InputsAreComplete while the analysis of another document is due: the timer
\* of a validation runs longer than the one of the analysis of its document.
InputsAreAlwaysComplete ==
    ~initializeError =>
        \A f \in Opened \ pending :
            LET input == buildCompilation(f)
            IN  input # NoInput => HasSources(input, f)

\* "We then read the file contents from memory [...], since we don't read files from
\* disk" (docs/codebase.md:196): what solc asks for at an import by name is a source
\* of the input.
NamedImportsAreSources ==
    pending = {} /\ ~initializeError =>
        \A f \in Opened : \A i \in Names \ Relative :
            LET input == buildCompilation(f)
                importers == Importers(NeededFor(f), i)
            IN  input # NoInput /\ ResolvedAlike(importers, i)
                    => \A g \in importers : AsksFor(input, g, i) \subseteq DOMAIN input.sources

\* The same of relative imports, which resolveImportPath looks for in the
\* directories above as well.
RelativeImportsAreSources ==
    pending = {} /\ ~initializeError =>
        \A f \in Opened : \A i \in Relative : \A g \in Importers(NeededFor(f), i) :
            LET input == buildCompilation(f)
            IN  input # NoInput => AsksFor(input, g, i) \subseteq DOMAIN input.sources

\* "If the project is unable to initialize [...] we default to claiming all
\* solidity files inside the base folder" (docs/codebase.md:202): a project
\* whose initialization failed goes on claiming by the error, without which and
\* without paths fileBelongs throws, until an initialization succeeds.
FailedProjectsClaimAll ==
    [][initializeError /\ loaded = None => initializeError' \/ loaded' # None]_vars
=============================================================================
