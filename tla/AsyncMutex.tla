----------------------------- MODULE AsyncMutex -----------------------------
(***************************************************************************)
(* The lock of Hardhat3/AsyncMutex.ts: a flag, and a queue of closures     *)
(* that acquire the lock for the caller that waits.  exclusiveRun awaits   *)
(* the acquisition even if the lock is free, so a caller is "granted" the  *)
(* lock before its function starts; the release function clears the flag   *)
(* and runs the next closure in the same step.                             *)
(***************************************************************************)
EXTENDS Naturals, Sequences

CONSTANT Procs    \* callers of exclusiveRun

VARIABLES acquired,   \* #acquired
          queue,      \* #queue
          pc          \* where each caller stands

vars == <<acquired, queue, pc>>

Init ==
  /\ acquired = FALSE
  /\ queue = <<>>
  /\ pc = [p \in Procs |-> "idle"]

\* Mutant: a caller that waits goes to the front of the queue.
CallInFront(p) ==
  /\ pc[p] = "idle"
  /\ IF acquired
     THEN /\ queue' = <<p>> \o queue
          /\ pc' = [pc EXCEPT ![p] = "waiting"]
          /\ UNCHANGED acquired
     ELSE /\ acquired' = TRUE
          /\ pc' = [pc EXCEPT ![p] = "granted"]
          /\ UNCHANGED queue

\* exclusiveRun and #acquire up to the first await.
Call(p) ==
  /\ pc[p] = "idle"
  /\ IF acquired
     THEN /\ queue' = Append(queue, p)
          /\ pc' = [pc EXCEPT ![p] = "waiting"]
          /\ UNCHANGED acquired
     ELSE /\ acquired' = TRUE
          /\ pc' = [pc EXCEPT ![p] = "granted"]
          /\ UNCHANGED queue

\* The await of the acquisition resumes: the function starts.
Start(p) ==
  /\ pc[p] = "granted"
  /\ pc' = [pc EXCEPT ![p] = "running"]
  /\ UNCHANGED <<acquired, queue>>

\* Mutant: the closure found in the queue does not set the flag again.
ReleaseUnflagged(p) ==
  /\ pc[p] = "running"
  /\ acquired' = FALSE
  /\ IF queue = <<>>
     THEN /\ pc' = [pc EXCEPT ![p] = "idle"]
          /\ UNCHANGED queue
     ELSE /\ queue' = Tail(queue)
          /\ pc' = [pc EXCEPT ![p] = "idle", ![Head(queue)] = "granted"]

\* Mutant: the release only clears the flag.
ReleaseOnly(p) ==
  /\ pc[p] = "running"
  /\ acquired' = FALSE
  /\ pc' = [pc EXCEPT ![p] = "idle"]
  /\ UNCHANGED queue

\* The function returned or threw: the release clears the flag and shifts the
\* queue; the closure it finds there acquires the lock for its caller at once.
Release(p) ==
  /\ pc[p] = "running"
  /\ IF queue = <<>>
     THEN /\ acquired' = FALSE
          /\ pc' = [pc EXCEPT ![p] = "idle"]
          /\ UNCHANGED queue
     ELSE /\ acquired' = TRUE
          /\ queue' = Tail(queue)
          /\ pc' = [pc EXCEPT ![p] = "idle", ![Head(queue)] = "granted"]

Step(p) == Start(p) \/ Release(p)
Next == \E p \in Procs : Call(p) \/ Step(p)
Spec == Init /\ [][Next]_vars

\* Functions given to exclusiveRun terminate, and the event loop resumes awaits.
FairSpec == Spec /\ \A p \in Procs : WF_vars(Step(p))

-----------------------------------------------------------------------------
\* Every variable has its type.
TypeOK ==
  /\ acquired \in BOOLEAN
  /\ queue \in Seq(Procs)
  /\ pc \in [Procs -> {"idle", "waiting", "granted", "running"}]

\* "Only one asynchronous operation can be executed at a time" (AsyncMutex.ts),
\* and the flag tells the truth: it is set exactly while some caller has been
\* granted the lock or runs.
Exclusive ==
  /\ \A p, q \in Procs : pc[p] = "running" /\ pc[q] = "running" => p = q
  /\ acquired <=> \E p \in Procs : pc[p] \in {"granted", "running"}

Holders == {p \in Procs : pc[p] \in {"granted", "running"}}

\* The line of the abstract lock: the holder, then the queue.
Line == IF acquired THEN <<CHOOSE p \in Holders : TRUE>> \o queue ELSE <<>>

Abstract == INSTANCE Mutex WITH line <- Line,
                                inside <- {p \in Procs : pc[p] = "running"}

\* The lock is the first-come-first-served lock of Mutex: nobody who calls when
\* the flag is momentarily clear gets in front of the queue (AsyncMutex.ts,
\* release shifts the queue in the step that clears #acquired).
FirstComeFirstServed == Abstract!Spec

\* Every caller runs (AsyncMutex.ts: the release always finds the next closure).
EveryCallRuns == \A p \in Procs : pc[p] = "waiting" ~> pc[p] = "running"
=============================================================================
