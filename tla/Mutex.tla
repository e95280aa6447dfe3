-------------------------------- MODULE Mutex --------------------------------
(***************************************************************************)
(* What AsyncMutex promises: callers of exclusiveRun stand in a line in    *)
(* the order of their calls, the first of the line runs, alone, and leaves *)
(* the line when it is done.                                               *)
(***************************************************************************)
EXTENDS Naturals, Sequences

CONSTANT Procs    \* callers of exclusiveRun

VARIABLES line,     \* callers that have not returned, in the order of calls
          inside    \* callers that run their function
lockVars == <<line, inside>>

InLine(p) == \E i \in DOMAIN line : line[i] = p

Init == line = <<>> /\ inside = {}

Arrive(p) ==
  /\ ~InLine(p)
  /\ line' = Append(line, p)
  /\ UNCHANGED inside

Begin(p) ==
  /\ line # <<>> /\ Head(line) = p
  /\ p \notin inside
  /\ inside' = inside \cup {p}
  /\ UNCHANGED line

Leave(p) ==
  /\ p \in inside
  /\ inside' = inside \ {p}
  /\ line' = Tail(line)

Next == \E p \in Procs : Arrive(p) \/ Begin(p) \/ Leave(p)

Spec == Init /\ [][Next]_lockVars
=============================================================================
