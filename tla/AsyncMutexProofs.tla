--------------------------- MODULE AsyncMutexProofs ---------------------------
(***************************************************************************)
(* AsyncMutex.tla is exclusive, and it implements the first-come-first-    *)
(* served lock of Mutex.tla, for any set of callers.                       *)
(***************************************************************************)
EXTENDS AsyncMutex, SequenceTheorems, TLAPS

Holding(p) == pc[p] \in {"granted", "running"}

\* Somebody holds the lock exactly if the flag is set, and only one does.
OneHolder ==
  /\ \A p, q \in Procs : Holding(p) /\ Holding(q) => p = q
  /\ acquired <=> \E p \in Procs : Holding(p)

\* The queue has every caller that waits, once.
QueueIsWaiting ==
  /\ \A i \in 1 .. Len(queue) : pc[queue[i]] = "waiting"
  /\ \A i, j \in 1 .. Len(queue) : queue[i] = queue[j] => i = j
  /\ \A p \in Procs : pc[p] = "waiting" => \E i \in 1 .. Len(queue) : queue[i] = p

\* Nobody waits while the flag is clear: this is what keeps a caller that finds
\* it clear from passing the queue.
NobodyPassed == ~acquired => queue = <<>>

IInv == TypeOK /\ OneHolder /\ QueueIsWaiting /\ NobodyPassed

-----------------------------------------------------------------------------
\* The callers of exclusiveRun start in the inductive invariant.
LEMMA InitIInv == Init => IInv
<1> SUFFICES ASSUME Init PROVE IInv
  OBVIOUS
<1>1. /\ acquired = FALSE
      /\ queue = <<>> /\ queue \in Seq(Procs) /\ Len(queue) = 0
      /\ pc = [p \in Procs |-> "idle"]
  BY EmptySeq DEF Init
<1>2. TypeOK
  BY <1>1 DEF TypeOK
<1>3. OneHolder
  BY <1>1 DEF OneHolder, Holding
<1>4. QueueIsWaiting
  BY <1>1 DEF QueueIsWaiting
<1> QED BY <1>1, <1>2, <1>3, <1>4 DEF IInv, NobodyPassed

\* exclusiveRun up to its await keeps the inductive invariant.
LEMMA CallIInv == ASSUME IInv, NEW p \in Procs, Call(p) PROVE IInv'
<1> USE DEF IInv, TypeOK, OneHolder, Holding, NobodyPassed
<1>1. CASE acquired
  <2>1. /\ queue' = Append(queue, p)
        /\ pc' = [pc EXCEPT ![p] = "waiting"]
        /\ acquired' = acquired
    BY <1>1 DEF Call
  <2>2. /\ queue' \in Seq(Procs)
        /\ Len(queue') = Len(queue) + 1
        /\ \A i \in 1 .. Len(queue) : queue'[i] = queue[i]
        /\ queue'[Len(queue) + 1] = p
    BY <2>1, AppendProperties
  <2>3. pc[p] = "idle"
    BY DEF Call
  <2>4. TypeOK' /\ OneHolder' /\ NobodyPassed'
    BY <1>1, <2>1, <2>2, <2>3
  <2>5. \A i \in 1 .. Len(queue) : queue[i] \in Procs /\ queue[i] # p
    BY <2>3 DEF QueueIsWaiting
  <2>6. QueueIsWaiting'
    <3>1. \A i \in 1 .. Len(queue') : i \in 1 .. Len(queue) \/ i = Len(queue) + 1
      BY <2>2
    <3>2. \A i \in 1 .. Len(queue') : pc'[queue'[i]] = "waiting"
      BY <2>1, <2>2, <2>5, <3>1 DEF QueueIsWaiting
    <3>3. \A i, j \in 1 .. Len(queue') : queue'[i] = queue'[j] => i = j
      BY <2>2, <2>5, <3>1 DEF QueueIsWaiting
    <3>4. ASSUME NEW q \in Procs, pc'[q] = "waiting"
          PROVE \E i \in 1 .. Len(queue') : queue'[i] = q
      <4>1. CASE q = p
        BY <2>2, <4>1
      <4>2. CASE q # p
        <5>1. PICK i \in 1 .. Len(queue) : queue[i] = q
          BY <2>1, <3>4, <4>2 DEF QueueIsWaiting
        <5>2. i \in 1 .. Len(queue') /\ queue'[i] = q
          BY <2>2, <5>1
        <5> QED BY <5>2
      <4> QED BY <4>1, <4>2
    <3> QED BY <3>2, <3>3, <3>4 DEF QueueIsWaiting
  <2> QED BY <2>4, <2>6
<1>2. CASE ~acquired
  <2>1. /\ acquired' = TRUE
        /\ pc' = [pc EXCEPT ![p] = "granted"]
        /\ queue' = queue
        /\ pc[p] = "idle"
    BY <1>2 DEF Call
  <2>2. TypeOK' /\ OneHolder' /\ NobodyPassed'
    BY <1>2, <2>1
  <2>3. QueueIsWaiting'
    BY <2>1 DEF QueueIsWaiting
  <2> QED BY <2>2, <2>3
<1> QED BY <1>1, <1>2

\* So does the start of the function,
LEMMA StartIInv == ASSUME IInv, NEW p \in Procs, Start(p) PROVE IInv'
<1> USE DEF IInv, TypeOK
<1>1. pc[p] = "granted" /\ pc' = [pc EXCEPT ![p] = "running"]
      /\ acquired' = acquired /\ queue' = queue
  BY DEF Start
<1>2. TypeOK' /\ OneHolder' /\ NobodyPassed'
  BY <1>1 DEF OneHolder, Holding, NobodyPassed
<1>3. QueueIsWaiting'
  BY <1>1 DEF QueueIsWaiting
<1> QED BY <1>2, <1>3

\* and the release.
LEMMA ReleaseIInv == ASSUME IInv, NEW p \in Procs, Release(p) PROVE IInv'
<1> USE DEF IInv, TypeOK, OneHolder, Holding, NobodyPassed
<1>1. CASE queue = <<>>
  <2>1. /\ acquired' = FALSE
        /\ pc' = [pc EXCEPT ![p] = "idle"]
        /\ queue' = queue
        /\ pc[p] = "running"
    BY <1>1 DEF Release
  <2>2. TypeOK' /\ OneHolder' /\ NobodyPassed'
    BY <1>1, <2>1
  <2>3. QueueIsWaiting'
    BY <2>1 DEF QueueIsWaiting
  <2> QED BY <2>2, <2>3
<1>2. CASE queue # <<>>
  <2> DEFINE h == Head(queue)
  <2>1. /\ acquired' = TRUE
        /\ queue' = Tail(queue)
        /\ pc' = [pc EXCEPT ![p] = "idle", ![h] = "granted"]
        /\ pc[p] = "running"
    BY <1>2 DEF Release
  <2>2. /\ h \in Procs /\ h = queue[1]
        /\ Len(queue) \in Nat /\ Len(queue) >= 1
        /\ Tail(queue) \in Seq(Procs)
        /\ Len(Tail(queue)) = Len(queue) - 1
        /\ \A i \in 1 .. Len(Tail(queue)) : Tail(queue)[i] = queue[i + 1]
    BY <1>2, HeadTailProperties
  <2>3. pc[h] = "waiting" /\ h # p
    BY <2>1, <2>2 DEF QueueIsWaiting
  <2>4. \A q \in Procs : pc'[q] = IF q = h THEN "granted"
                                  ELSE IF q = p THEN "idle" ELSE pc[q]
    BY <2>1, <2>2
  <2>5. TypeOK' /\ OneHolder' /\ NobodyPassed'
    <3>1. pc' \in [Procs -> {"idle", "waiting", "granted", "running"}]
      BY <2>1, <2>2
    <3>2. \A q \in Procs : Holding(q)' <=> q = h
      BY <2>1, <2>3, <2>4
    <3> QED BY <2>1, <2>2, <3>1, <3>2
  <2>6. QueueIsWaiting'
    <3>1. \A i \in 1 .. Len(queue') : /\ i + 1 \in 1 .. Len(queue)
                                      /\ queue'[i] = queue[i + 1]
                                      /\ queue[i + 1] \in Procs
      BY <2>1, <2>2
    <3>2. \A i \in 1 .. Len(queue') : queue[i + 1] # h /\ queue[i + 1] # p
      BY <2>1, <2>2, <3>1 DEF QueueIsWaiting
    <3>3. \A i \in 1 .. Len(queue') : pc'[queue'[i]] = "waiting"
      BY <2>4, <3>1, <3>2 DEF QueueIsWaiting
    <3>4. \A i, j \in 1 .. Len(queue') : queue'[i] = queue'[j] => i = j
      BY <3>1 DEF QueueIsWaiting
    <3>5. ASSUME NEW q \in Procs, pc'[q] = "waiting"
          PROVE \E i \in 1 .. Len(queue') : queue'[i] = q
      <4>1. pc[q] = "waiting" /\ q # h
        BY <2>4, <3>5
      <4>2. PICK i \in 1 .. Len(queue) : queue[i] = q
        BY <4>1 DEF QueueIsWaiting
      <4>3. i # 1
        BY <2>2, <4>1, <4>2
      <4>4. i - 1 \in 1 .. Len(queue') /\ queue'[i - 1] = q
        BY <2>1, <2>2, <4>2, <4>3
      <4> QED BY <4>4
    <3> QED BY <3>3, <3>4, <3>5 DEF QueueIsWaiting
  <2> QED BY <2>5, <2>6
<1> QED BY <1>1, <1>2

\* The inductive invariant holds in every reachable state.
THEOREM LockInvariant == Spec => []IInv
<1>1. Init => IInv
  BY InitIInv
<1>2. IInv /\ [Next]_vars => IInv'
  <2> SUFFICES ASSUME IInv, [Next]_vars PROVE IInv'
    OBVIOUS
  <2>1. ASSUME NEW p \in Procs, Call(p) PROVE IInv'
    BY <2>1, CallIInv
  <2>2. ASSUME NEW p \in Procs, Start(p) PROVE IInv'
    BY <2>2, StartIInv
  <2>3. ASSUME NEW p \in Procs, Release(p) PROVE IInv'
    BY <2>3, ReleaseIInv
  <2>4. CASE UNCHANGED vars
    BY <2>4 DEF vars, IInv, TypeOK, OneHolder, Holding, QueueIsWaiting, NobodyPassed
  <2> QED BY <2>1, <2>2, <2>3, <2>4 DEF Next, Step
<1> QED BY <1>1, <1>2, PTL DEF Spec

\* "Only one asynchronous operation can be executed at a time" (AsyncMutex.ts),
\* for any number of callers.
THEOREM MutualExclusion == Spec => []Exclusive
<1>1. IInv => Exclusive
  BY DEF IInv, OneHolder, Holding, Exclusive
<1> QED BY <1>1, LockInvariant, PTL

-----------------------------------------------------------------------------
\* A line is its first, in front of the rest.
LEMMA InFront ==
  ASSUME NEW S, NEW x \in S, NEW s \in Seq(S)
  PROVE  /\ <<x>> \o s \in Seq(S)
         /\ Len(<<x>> \o s) = Len(s) + 1
         /\ (<<x>> \o s)[1] = x
         /\ \A i \in 1 .. Len(s) : (<<x>> \o s)[i + 1] = s[i]
         /\ <<x>> \o s # <<>>
         /\ Head(<<x>> \o s) = x
         /\ Tail(<<x>> \o s) = s
<1>1. <<x>> \in Seq(S) /\ Len(<<x>>) = 1 /\ <<x>>[1] = x
  OBVIOUS
<1>2. Len(s) \in Nat
  OBVIOUS
<1> DEFINE l == <<x>> \o s
<1>3. /\ l \in Seq(S) /\ Len(l) = Len(s) + 1
      /\ \A i \in 1 .. Len(s) + 1 : l[i] = IF i <= 1 THEN <<x>>[i] ELSE s[i - 1]
  BY <1>1, <1>2, ConcatProperties
<1> HIDE DEF l
<1>4. l[1] = x /\ \A i \in 1 .. Len(s) : l[i + 1] = s[i]
  BY <1>1, <1>2, <1>3
<1>5. l # <<>> /\ Head(l) = x
  BY <1>2, <1>3, <1>4
<1>6. Tail(l) = s
  <2>1. /\ Tail(l) \in Seq(S) /\ Len(Tail(l)) = Len(s)
        /\ \A i \in 1 .. Len(Tail(l)) : Tail(l)[i] = l[i + 1]
    BY <1>2, <1>3, <1>5, HeadTailProperties
  <2> QED BY <1>4, <2>1, SeqEqual
<1> QED BY <1>3, <1>4, <1>5, <1>6 DEF l

\* The line starts with the one who holds the lock.
LEMMA LineOfHolder ==
  ASSUME IInv, NEW p \in Procs, Holding(p)
  PROVE  acquired /\ Line = <<p>> \o queue
<1>1. acquired
  BY DEF IInv, OneHolder
<1>2. Holders = {p}
  BY DEF IInv, OneHolder, Holders, Holding
<1> QED BY <1>1, <1>2 DEF Line

\* The same in the state after a step.
LEMMA LineOfNextHolder ==
  ASSUME IInv', NEW p \in Procs, pc'[p] \in {"granted", "running"}
  PROVE  Line' = <<p>> \o queue'
<1>1. acquired'
  BY DEF IInv, OneHolder, Holding
<1>2. Holders' = {p}
  BY DEF IInv, OneHolder, Holders, Holding
<1>3. (CHOOSE q \in {p} : TRUE) = p
  OBVIOUS
<1> QED BY <1>1, <1>2, <1>3 DEF Line

\* A call takes its place at the end of the line.
LEMMA CallArrives ==
  ASSUME IInv, IInv', NEW p \in Procs, Call(p)
  PROVE  Abstract!Arrive(p)
<1>1. pc[p] = "idle"
  BY DEF Call
<1>2. queue \in Seq(Procs) /\ pc \in [Procs -> {"idle", "waiting", "granted", "running"}]
  BY DEF IInv, TypeOK
<1>3. {q \in Procs : pc'[q] = "running"} = {q \in Procs : pc[q] = "running"}
  BY <1>1, <1>2 DEF Call
<1>4. CASE acquired
  <2>1. PICK h \in Procs : Holding(h)
    BY <1>4 DEF IInv, OneHolder
  <2>2. h # p
    BY <1>1, <2>1 DEF Holding
  <2>3. Line = <<h>> \o queue
    BY <2>1, LineOfHolder
  <2>4. /\ queue' = Append(queue, p)
        /\ pc' = [pc EXCEPT ![p] = "waiting"]
    BY <1>4 DEF Call
  <2>5. pc'[h] \in {"granted", "running"}
    BY <1>2, <2>1, <2>2, <2>4 DEF Holding
  <2>6. Line' = <<h>> \o queue'
    BY <2>5, LineOfNextHolder
  <2>7. Line' = Append(Line, p)
    <3>1. /\ <<h>> \in Seq(Procs) /\ <<p>> \in Seq(Procs)
          /\ <<h>> \o queue \in Seq(Procs)
      BY <1>2, InFront
    <3>2. queue' = queue \o <<p>>
      BY <1>2, <2>4, AppendIsConcat
    <3>3. <<h>> \o (queue \o <<p>>) = (<<h>> \o queue) \o <<p>>
      BY <1>2, <3>1, ConcatAssociative
    <3>4. Append(<<h>> \o queue, p) = (<<h>> \o queue) \o <<p>>
      BY <3>1, AppendIsConcat
    <3> QED BY <2>3, <2>6, <3>2, <3>3, <3>4
  <2>8. ~Abstract!InLine(p)
    <3>1. \A i \in 1 .. Len(queue) : queue[i] # p
      BY <1>1 DEF IInv, QueueIsWaiting
    <3>2. /\ Len(Line) = Len(queue) + 1 /\ DOMAIN Line = 1 .. Len(queue) + 1
          /\ Line[1] = h
          /\ \A i \in 1 .. Len(queue) : Line[i + 1] = queue[i]
      BY <1>2, <2>3, InFront
    <3>3. ASSUME NEW i \in 1 .. Len(queue) + 1 PROVE Line[i] # p
      <4>1. CASE i = 1
        BY <2>2, <3>2, <4>1
      <4>2. CASE i # 1
        <5>1. i - 1 \in 1 .. Len(queue) /\ (i - 1) + 1 = i
          BY <1>2, <4>2
        <5> QED BY <3>1, <3>2, <5>1
      <4> QED BY <4>1, <4>2
    <3> QED BY <3>2, <3>3 DEF Abstract!InLine
  <2> QED BY <1>3, <2>7, <2>8 DEF Abstract!Arrive
<1>5. CASE ~acquired
  <2>1. queue = <<>> /\ Line = <<>>
    BY <1>5 DEF IInv, NobodyPassed, Line
  <2>2. pc' = [pc EXCEPT ![p] = "granted"] /\ queue' = queue
    BY <1>5 DEF Call
  <2>3. pc'[p] = "granted"
    BY <1>2, <2>2
  <2>4. Line' = <<p>> \o <<>>
    BY <2>1, <2>2, <2>3, LineOfNextHolder
  <2>5. Append(<<>>, p) = <<>> \o <<p>> /\ <<>> \o <<p>> = <<p>> /\ <<p>> \o <<>> = <<p>>
    <3>1. <<p>> \in Seq(Procs) /\ <<>> \in Seq(Procs)
      OBVIOUS
    <3> QED BY <3>1, AppendIsConcat, ConcatEmptySeq
  <2>6. Line' = Append(Line, p)
    BY <2>1, <2>4, <2>5
  <2>7. ~Abstract!InLine(p)
    BY <2>1 DEF Abstract!InLine
  <2> QED BY <1>3, <2>6, <2>7 DEF Abstract!Arrive
<1> QED BY <1>4, <1>5

\* The first of the line begins, ...
LEMMA StartBegins ==
  ASSUME IInv, IInv', NEW p \in Procs, Start(p)
  PROVE  Abstract!Begin(p)
<1>1. /\ pc[p] = "granted" /\ pc' = [pc EXCEPT ![p] = "running"]
      /\ acquired' = acquired /\ queue' = queue
  BY DEF Start
<1>2. queue \in Seq(Procs) /\ pc \in [Procs -> {"idle", "waiting", "granted", "running"}]
  BY DEF IInv, TypeOK
<1>3. Holding(p) /\ pc'[p] = "running"
  BY <1>1, <1>2 DEF Holding
<1>4. Line = <<p>> \o queue
  BY <1>3, LineOfHolder
<1>5. Line' = <<p>> \o queue'
  BY <1>3, LineOfNextHolder
<1>6. Line # <<>> /\ Head(Line) = p /\ Line' = Line
  BY <1>1, <1>2, <1>4, <1>5, InFront
<1>7. {q \in Procs : pc'[q] = "running"} = {q \in Procs : pc[q] = "running"} \cup {p}
  BY <1>1, <1>2
<1>8. p \notin {q \in Procs : pc[q] = "running"}
  BY <1>1
<1> QED BY <1>6, <1>7, <1>8 DEF Abstract!Begin

\* ... and leaves, and the rest of the line moves up.
LEMMA ReleaseLeaves ==
  ASSUME IInv, IInv', NEW p \in Procs, Release(p)
  PROVE  Abstract!Leave(p)
<1>1. pc[p] = "running" /\ Holding(p)
  BY DEF Release, Holding
<1>2. queue \in Seq(Procs) /\ pc \in [Procs -> {"idle", "waiting", "granted", "running"}]
  BY DEF IInv, TypeOK
<1>3. Line = <<p>> \o queue
  BY <1>1, LineOfHolder
<1>4. Tail(Line) = queue
  BY <1>2, <1>3, InFront
<1>5. CASE queue = <<>>
  <2>1. acquired' = FALSE /\ pc' = [pc EXCEPT ![p] = "idle"]
    BY <1>5 DEF Release
  <2>2. Line' = <<>>
    BY <2>1 DEF Line
  <2>3. {q \in Procs : pc'[q] = "running"} = {q \in Procs : pc[q] = "running"} \ {p}
    BY <1>2, <2>1
  <2> QED BY <1>1, <1>4, <1>5, <2>2, <2>3 DEF Abstract!Leave
<1>6. CASE queue # <<>>
  <2>0. PICK h \in Procs : h = Head(queue)
    BY <1>2, <1>6, HeadTailProperties
  <2>1. /\ queue' = Tail(queue)
        /\ pc' = [pc EXCEPT ![p] = "idle", ![h] = "granted"]
    BY <1>6, <2>0 DEF Release
  <2>2. /\ h \in Procs /\ Tail(queue) \in Seq(Procs)
        /\ Len(queue) \in Nat /\ Len(queue) >= 1 /\ h = queue[1]
        /\ Len(Tail(queue)) = Len(queue) - 1
        /\ \A i \in 1 .. Len(Tail(queue)) : Tail(queue)[i] = queue[i + 1]
    BY <1>2, <1>6, <2>0, HeadTailProperties
  <2>3. pc[h] = "waiting"
    BY <2>2 DEF IInv, QueueIsWaiting
  <2>4. h # p /\ pc'[h] = "granted"
    BY <1>1, <1>2, <2>1, <2>2, <2>3
  <2>5. Line' = <<h>> \o queue'
    BY <2>2, <2>4, LineOfNextHolder
  <2>6. <<h>> \o Tail(queue) = queue
    <3>1. /\ <<h>> \o Tail(queue) \in Seq(Procs)
          /\ Len(<<h>> \o Tail(queue)) = Len(queue)
          /\ (<<h>> \o Tail(queue))[1] = queue[1]
          /\ \A i \in 1 .. Len(Tail(queue)) :
               (<<h>> \o Tail(queue))[i + 1] = queue[i + 1]
      BY <2>2, InFront
    <3>2. ASSUME NEW i \in 1 .. Len(queue)
          PROVE (<<h>> \o Tail(queue))[i] = queue[i]
      <4>1. CASE i = 1
        BY <3>1, <4>1
      <4>2. CASE i # 1
        <5>1. i - 1 \in 1 .. Len(Tail(queue)) /\ (i - 1) + 1 = i
          BY <2>2, <4>2
        <5> QED BY <3>1, <5>1
      <4> QED BY <4>1, <4>2
    <3> QED BY <1>2, <3>1, <3>2, SeqEqual
  <2>7. Line' = Tail(Line)
    BY <1>4, <2>1, <2>5, <2>6
  <2>8. {q \in Procs : pc'[q] = "running"} = {q \in Procs : pc[q] = "running"} \ {p}
    BY <1>2, <2>1, <2>2, <2>3, <2>4
  <2> QED BY <1>1, <2>7, <2>8 DEF Abstract!Leave
<1> QED BY <1>5, <1>6

\* AsyncMutex implements Mutex: callers run in the order of their calls.
THEOREM ImplementsMutex == Spec => FirstComeFirstServed
<1>1. Init => Abstract!Init
  BY DEF Init, Abstract!Init, Line
<1>2. IInv /\ IInv' /\ [Next]_vars => [Abstract!Next]_(Abstract!lockVars)
  <2> SUFFICES ASSUME IInv, IInv', [Next]_vars
               PROVE Abstract!Next \/ UNCHANGED Abstract!lockVars
    OBVIOUS
  <2>1. ASSUME NEW p \in Procs, Call(p) PROVE Abstract!Next
    BY <2>1, CallArrives DEF Abstract!Next
  <2>2. ASSUME NEW p \in Procs, Start(p) PROVE Abstract!Next
    BY <2>2, StartBegins DEF Abstract!Next
  <2>3. ASSUME NEW p \in Procs, Release(p) PROVE Abstract!Next
    BY <2>3, ReleaseLeaves DEF Abstract!Next
  <2>4. CASE UNCHANGED vars
    BY <2>4 DEF vars, Abstract!lockVars, Line, Holders
  <2> QED BY <2>1, <2>2, <2>3, <2>4 DEF Next, Step
<1> QED BY <1>1, <1>2, LockInvariant, PTL DEF Spec, FirstComeFirstServed, Abstract!Spec
=============================================================================
