--------------------------- MODULE BuildCacheProofs ---------------------------
(***************************************************************************)
(* Proofs about BuildCache, for every set of files, every way in which     *)
(* they may import each other and every number of texts and requests.      *)
(*                                                                         *)
(* Two facts carry them.  The channel keeps the requests in the order of   *)
(* their numbers, so that whoever refreshes a shared compiler input does   *)
(* it for a later request than all those that are answered from it.  And a *)
(* build that no other build began during reads through the documents that *)
(* it was asked with, and has read or will read whatever its texts import. *)
(***************************************************************************)
EXTENDS BuildCache, FiniteSetTheorems, SequenceTheorems, TLAPS

Places == {"none", "sent", "reading", "responding", "done"}
Received == {"reading", "responding", "done"}
RequestRecords == [pc : Places, source : Docs, open : PartialTexts, read : PartialTexts,
                   todo : SUBSET Docs, builder : 0 .. MaxRequests]
Analyses == [doc : Docs, imports : SUBSET Docs]

\* The types, and that a request is about a document it brings.
AskTypeOK ==
  /\ requests \in 0 .. MaxRequests
  /\ request \in [Requests -> RequestRecords]
  /\ input \in [Requests -> PartialTexts]
  /\ response \in [Requests -> SUBSET PartialTexts]
  /\ disturbed \subseteq Requests
  /\ \A r \in Requests : request[r].pc # "none" =>
       request[r].source \in DOMAIN request[r].open
ServerTypeOK ==
  /\ revision \in 0 .. MaxTexts
  /\ disk \in [Docs -> Text]
  /\ editor \in PartialTexts
  /\ armed \subseteq Docs
  /\ unannounced \in BOOLEAN
WorkerTypeOK ==
  /\ channel \in Seq(0 .. MaxRequests)
  /\ openDocument \in PartialTexts
  /\ last \subseteq [analysis : Analyses, builder : Requests]
  /\ last = {} \/ \E c \in last : last = {c}
TypeInv == ServerTypeOK /\ WorkerTypeOK /\ AskTypeOK

LEMMA TypeInvImplies == TypeInv => TypeOK
<1> SUFFICES ASSUME TypeInv PROVE TypeOK
  OBVIOUS
<1>1. Cardinality(last) <= 1
  <2>1. CASE last = {}
    BY <2>1, FS_EmptySet
  <2>2. ASSUME NEW c \in last, last = {c} PROVE Cardinality(last) <= 1
    BY <2>2, FS_Singleton
  <2> QED BY <2>1, <2>2 DEF TypeInv, WorkerTypeOK
<1>2. \A r \in Requests :
        /\ request[r].pc \in Places
        /\ request[r].source \in Docs
        /\ request[r].open \in PartialTexts /\ request[r].read \in PartialTexts
        /\ request[r].todo \subseteq Docs
        /\ request[r].builder \in 0 .. MaxRequests
        /\ input[r] \in PartialTexts
        /\ response[r] \subseteq PartialTexts
  BY DEF TypeInv, AskTypeOK, RequestRecords
<1> QED BY <1>1, <1>2 DEF TypeInv, ServerTypeOK, WorkerTypeOK, AskTypeOK, TypeOK, Places, Analyses

-----------------------------------------------------------------------------
(* Texts *)

LEMMA PartialIs ==
  ASSUME NEW t
  PROVE  t \in PartialTexts <=> DOMAIN t \subseteq Docs /\ t \in [DOMAIN t -> Text]
BY DEF PartialTexts

LEMMA NoTextsType == NoTexts \in PartialTexts /\ DOMAIN NoTexts = {}
<1>1. DOMAIN NoTexts = {} /\ NoTexts \in [{} -> Text]
  BY DEF NoTexts
<1> QED BY <1>1, PartialIs

LEMMA TextsIn ==
  ASSUME NEW t \in PartialTexts
  PROVE  /\ DOMAIN t \subseteq Docs
         /\ \A f \in DOMAIN t : t[f] \in Text /\ t[f].imports \subseteq Docs
BY PartialIs DEF Text

LEMMA WithIs ==
  ASSUME NEW t \in PartialTexts, NEW d \in Docs, NEW text \in Text
  PROVE  /\ With(t, d, text) \in PartialTexts
         /\ DOMAIN With(t, d, text) = DOMAIN t \cup {d}
         /\ With(t, d, text)[d] = text
         /\ \A f \in DOMAIN t \ {d} : With(t, d, text)[f] = t[f]
<1>1. /\ DOMAIN With(t, d, text) = DOMAIN t \cup {d}
      /\ With(t, d, text)[d] = text
      /\ \A f \in DOMAIN t \ {d} : With(t, d, text)[f] = t[f]
  BY DEF With
<1>2. With(t, d, text) \in [DOMAIN t \cup {d} -> Text]
  BY TextsIn DEF With
<1>3. DOMAIN t \cup {d} \subseteq Docs
  BY TextsIn
<1> QED BY <1>1, <1>2, <1>3, PartialIs

\* A refreshed input has the same sources, each with its own text or with one that
\* the request brings; a document that is told apart has the request's text.
LEMMA RefreshedIs ==
  ASSUME AskTypeOK, NEW t \in PartialTexts, NEW r \in Requests, NEW at \in Placements(t, r)
  PROVE  /\ Refreshed(t, r, at) \in PartialTexts
         /\ DOMAIN Refreshed(t, r, at) = DOMAIN t
         /\ \A f \in DOMAIN t : ToldApart(f) =>
              Refreshed(t, r, at)[f] = IF f \in DOMAIN request[r].open
                                       THEN request[r].open[f] ELSE t[f]
<1> DEFINE open == DOMAIN request[r].open
           Named(d) == {f \in DOMAIN t : <<d, f>> \in EndsWith}
           Over(taken) == {a \in [taken -> open] :
                             /\ IsInjective(a)
                             /\ \A f \in taken : f \in Named(a[f])
                             /\ \A d \in open : Named(d) = {} \/ Named(d) \cap taken # {}}
<1>1. request[r].open \in PartialTexts
  BY DEF AskTypeOK, RequestRecords
<1>2. PICK taken \in SUBSET DOMAIN t :
        /\ at \in [taken -> open]
        /\ \A f \in taken : f \in Named(at[f])
        /\ \A d \in open : Named(d) = {} \/ Named(d) \cap taken # {}
  <2>1. at \in UNION {Over(taken) : taken \in SUBSET DOMAIN t}
    BY Zenon DEF Placements
  <2>2. PICK taken \in SUBSET DOMAIN t : at \in Over(taken)
    <3> HIDE DEF Over
    <3> QED BY <2>1
  <2> QED BY <2>2
<1>3. DOMAIN at = taken /\ \A f \in taken : at[f] \in open
  BY <1>2
<1>4. /\ DOMAIN Refreshed(t, r, at) = DOMAIN t
      /\ \A f \in DOMAIN t :
           Refreshed(t, r, at)[f] = IF f \in taken THEN request[r].open[at[f]] ELSE t[f]
  BY <1>3 DEF Refreshed
<1>5. Refreshed(t, r, at) \in [DOMAIN t -> Text]
  BY <1>1, <1>3, TextsIn DEF Refreshed
<1>6. DOMAIN t \subseteq Docs /\ open \subseteq Docs
  BY <1>1, TextsIn
<1>7. ASSUME NEW f \in DOMAIN t, ToldApart(f)
      PROVE  Refreshed(t, r, at)[f] = IF f \in open THEN request[r].open[f] ELSE t[f]
  <2>1. ASSUME f \in taken PROVE at[f] = f
    <3>1. <<at[f], f>> \in EndsWith /\ at[f] \in Docs
      BY <1>2, <1>3, <1>6, <2>1
    <3> QED BY <1>7, <3>1 DEF ToldApart
  <2>2. ASSUME f \in open PROVE f \in taken
    <3>1. <<f, f>> \in EndsWith
      BY <1>6, <1>7 DEF ToldApart
    <3>2. PICK g \in Named(f) : g \in taken
      BY <1>2, <1>7, <2>2, <3>1
    <3>3. g = f
      BY <1>6, <1>7, <3>2 DEF ToldApart
    <3> QED BY <3>2, <3>3
  <2>3. CASE f \in taken
    <3>1. f \in open
      BY <1>3, <2>1, <2>3
    <3> QED BY <1>4, <2>1, <2>3, <3>1
  <2>4. CASE f \notin taken
    BY <1>4, <2>2, <2>4
  <2> QED BY <2>3, <2>4
<1> QED BY <1>4, <1>5, <1>6, <1>7, PartialIs

\* The texts of a build give way to those of its request that are not empty.
LEMMA ModifiedIs ==
  ASSUME AskTypeOK, NEW t \in PartialTexts, NEW r \in Requests
  PROVE  /\ Modified(t, r) \in PartialTexts
         /\ DOMAIN Modified(t, r) = DOMAIN t
         /\ \A f \in DOMAIN t :
              Modified(t, r)[f] = IF f \in DOMAIN request[r].open /\ ~request[r].open[f].empty
                                  THEN request[r].open[f] ELSE t[f]
<1>1. request[r].open \in PartialTexts
  BY DEF AskTypeOK, RequestRecords
<1>2. /\ DOMAIN Modified(t, r) = DOMAIN t
      /\ \A f \in DOMAIN t :
           Modified(t, r)[f] = IF f \in DOMAIN request[r].open /\ ~request[r].open[f].empty
                               THEN request[r].open[f] ELSE t[f]
  BY DEF Modified
<1>3. Modified(t, r) \in [DOMAIN t -> Text]
  BY <1>1, TextsIn DEF Modified
<1>4. DOMAIN t \subseteq Docs
  BY TextsIn
<1> QED BY <1>2, <1>3, <1>4, PartialIs

-----------------------------------------------------------------------------
(* Requests *)

\* Request r moves and keeps what it was asked with; the others stay.
Moves(f, g, r) ==
  /\ g \in [Requests -> RequestRecords]
  /\ \A q \in Requests \ {r} : g[q] = f[q]
  /\ g[r].source = f[r].source /\ g[r].open = f[r].open

LEMMA SetPc ==
  ASSUME NEW f \in [Requests -> RequestRecords], NEW r \in Requests, NEW pc \in Places
  PROVE  /\ Moves(f, [f EXCEPT ![r].pc = pc], r)
         /\ [f EXCEPT ![r].pc = pc][r].pc = pc
         /\ [f EXCEPT ![r].pc = pc][r].read = f[r].read
         /\ [f EXCEPT ![r].pc = pc][r].todo = f[r].todo
         /\ [f EXCEPT ![r].pc = pc][r].builder = f[r].builder
BY DEF Moves, RequestRecords

LEMMA SetRead ==
  ASSUME NEW f \in [Requests -> RequestRecords], NEW r \in Requests, NEW read \in PartialTexts
  PROVE  /\ Moves(f, [f EXCEPT ![r].read = read], r)
         /\ [f EXCEPT ![r].read = read][r].pc = f[r].pc
         /\ [f EXCEPT ![r].read = read][r].read = read
         /\ [f EXCEPT ![r].read = read][r].todo = f[r].todo
         /\ [f EXCEPT ![r].read = read][r].builder = f[r].builder
BY DEF Moves, RequestRecords

LEMMA SetTodo ==
  ASSUME NEW f \in [Requests -> RequestRecords], NEW r \in Requests, NEW todo \in SUBSET Docs
  PROVE  /\ Moves(f, [f EXCEPT ![r].todo = todo], r)
         /\ [f EXCEPT ![r].todo = todo][r].pc = f[r].pc
         /\ [f EXCEPT ![r].todo = todo][r].read = f[r].read
         /\ [f EXCEPT ![r].todo = todo][r].todo = todo
         /\ [f EXCEPT ![r].todo = todo][r].builder = f[r].builder
BY DEF Moves, RequestRecords

LEMMA SetBuilder ==
  ASSUME NEW f \in [Requests -> RequestRecords], NEW r \in Requests, NEW b \in 0 .. MaxRequests
  PROVE  /\ Moves(f, [f EXCEPT ![r].builder = b], r)
         /\ [f EXCEPT ![r].builder = b][r].pc = f[r].pc
         /\ [f EXCEPT ![r].builder = b][r].read = f[r].read
         /\ [f EXCEPT ![r].builder = b][r].todo = f[r].todo
         /\ [f EXCEPT ![r].builder = b][r].builder = b
BY DEF Moves, RequestRecords

LEMMA HitMoves ==
  ASSUME AskTypeOK, NEW r \in Requests, NEW b \in Requests,
         request' = [request EXCEPT ![r].pc = "responding", ![r].builder = b]
  PROVE  /\ Moves(request, request', r)
         /\ request'[r].pc = "responding" /\ request'[r].builder = b
<1>0. request \in [Requests -> RequestRecords] /\ "responding" \in Places /\ b \in 0 .. MaxRequests
  BY BoundAssumption DEF AskTypeOK, Places, Requests
<1>1. PICK one : one = [request EXCEPT ![r].pc = "responding"]
  OBVIOUS
<1>2. Moves(request, one, r) /\ one[r].pc = "responding"
  BY <1>0, <1>1, SetPc
<1>3. PICK two : two = [one EXCEPT ![r].builder = b]
  OBVIOUS
<1>4. one \in [Requests -> RequestRecords]
  BY <1>2 DEF Moves
<1>5. Moves(one, two, r) /\ two[r].pc = one[r].pc /\ two[r].builder = b
  BY <1>0, <1>3, <1>4, SetBuilder
<1>6. request' = two
  BY <1>1, <1>3
<1> QED BY <1>2, <1>5, <1>6 DEF Moves

LEMMA MissMoves ==
  ASSUME AskTypeOK, NEW r \in Requests,
         request' = [request EXCEPT ![r].pc = "reading", ![r].todo = {request[r].source}]
  PROVE  /\ Moves(request, request', r)
         /\ request'[r].pc = "reading" /\ request'[r].todo = {request[r].source}
         /\ request'[r].read = request[r].read
<1>0. request \in [Requests -> RequestRecords] /\ "reading" \in Places
      /\ {request[r].source} \in SUBSET Docs
  BY DEF AskTypeOK, RequestRecords, Places
<1>1. PICK one : one = [request EXCEPT ![r].pc = "reading"]
  OBVIOUS
<1>2. Moves(request, one, r) /\ one[r].pc = "reading" /\ one[r].read = request[r].read
  BY <1>0, <1>1, SetPc
<1>3. PICK two : two = [one EXCEPT ![r].todo = {request[r].source}]
  OBVIOUS
<1>4. one \in [Requests -> RequestRecords]
  BY <1>2 DEF Moves
<1>5. Moves(one, two, r) /\ two[r].pc = one[r].pc /\ two[r].read = one[r].read
      /\ two[r].todo = {request[r].source}
  BY <1>0, <1>3, <1>4, SetTodo
<1>6. request' = two
  BY <1>1, <1>3
<1> QED BY <1>2, <1>5, <1>6 DEF Moves

LEMMA StoreMoves ==
  ASSUME AskTypeOK, NEW r \in Requests,
         request' = [request EXCEPT ![r].pc = "responding", ![r].builder = r,
                                    ![r].read = NoTexts]
  PROVE  /\ Moves(request, request', r)
         /\ request'[r].pc = "responding" /\ request'[r].builder = r
<1>0. request \in [Requests -> RequestRecords] /\ "responding" \in Places /\ r \in 0 .. MaxRequests
  BY BoundAssumption DEF AskTypeOK, Places, Requests
<1>1. PICK one : one = [request EXCEPT ![r].pc = "responding"]
  OBVIOUS
<1>2. Moves(request, one, r) /\ one[r].pc = "responding"
  BY <1>0, <1>1, SetPc
<1>3. PICK two : two = [one EXCEPT ![r].builder = r]
  OBVIOUS
<1>4. one \in [Requests -> RequestRecords]
  BY <1>2 DEF Moves
<1>5. Moves(one, two, r) /\ two[r].pc = one[r].pc /\ two[r].builder = r
  BY <1>0, <1>3, <1>4, SetBuilder
<1>6. two \in [Requests -> RequestRecords]
  BY <1>5 DEF Moves
<1>a. PICK three : three = [two EXCEPT ![r].read = NoTexts]
  OBVIOUS
<1>7. Moves(two, three, r) /\ three[r].pc = two[r].pc /\ three[r].builder = two[r].builder
  BY <1>6, <1>a, NoTextsType, SetRead
<1>8. request' = three
  BY <1>1, <1>3, <1>a
<1> QED BY <1>2, <1>5, <1>7, <1>8 DEF Moves

LEMMA FailMoves ==
  ASSUME AskTypeOK, NEW r \in Requests,
         request' = [request EXCEPT ![r].pc = "done", ![r].read = NoTexts, ![r].todo = {}]
  PROVE  Moves(request, request', r) /\ request'[r].pc = "done"
<1>0. request \in [Requests -> RequestRecords] /\ "done" \in Places /\ {} \in SUBSET Docs
  BY DEF AskTypeOK, Places
<1>1. PICK one : one = [request EXCEPT ![r].pc = "done"]
  OBVIOUS
<1>2. Moves(request, one, r) /\ one[r].pc = "done"
  BY <1>0, <1>1, SetPc
<1>3. PICK two : two = [one EXCEPT ![r].read = NoTexts]
  OBVIOUS
<1>4. one \in [Requests -> RequestRecords]
  BY <1>2 DEF Moves
<1>5. Moves(one, two, r) /\ two[r].pc = one[r].pc
  BY <1>3, <1>4, NoTextsType, SetRead
<1>6. two \in [Requests -> RequestRecords]
  BY <1>5 DEF Moves
<1>a. PICK three : three = [two EXCEPT ![r].todo = {}]
  OBVIOUS
<1>7. Moves(two, three, r) /\ three[r].pc = two[r].pc
  BY <1>0, <1>6, <1>a, SetTodo
<1>8. request' = three
  BY <1>1, <1>3, <1>a
<1> QED BY <1>2, <1>5, <1>7, <1>8 DEF Moves

LEMMA ReadMoves ==
  ASSUME AskTypeOK, NEW r \in Requests, NEW read \in PartialTexts, NEW todo \in SUBSET Docs,
         request' = [request EXCEPT ![r].read = read, ![r].todo = todo]
  PROVE  /\ Moves(request, request', r)
         /\ request'[r].pc = request[r].pc
         /\ request'[r].read = read /\ request'[r].todo = todo
<1>0. request \in [Requests -> RequestRecords]
  BY DEF AskTypeOK
<1>1. PICK one : one = [request EXCEPT ![r].read = read]
  OBVIOUS
<1>2. Moves(request, one, r) /\ one[r].pc = request[r].pc /\ one[r].read = read
  BY <1>0, <1>1, SetRead
<1>3. PICK two : two = [one EXCEPT ![r].todo = todo]
  OBVIOUS
<1>4. one \in [Requests -> RequestRecords]
  BY <1>2 DEF Moves
<1>5. Moves(one, two, r) /\ two[r].pc = one[r].pc /\ two[r].read = one[r].read
      /\ two[r].todo = todo
  BY <1>3, <1>4, SetTodo
<1>6. request' = two
  BY <1>1, <1>3
<1> QED BY <1>2, <1>5, <1>6 DEF Moves

-----------------------------------------------------------------------------
(* Types *)

LEMMA TypeInit == Init => TypeInv
<1> SUFFICES ASSUME Init PROVE TypeInv
  OBVIOUS
<1>1. NoRequest \in RequestRecords /\ NoRequest.pc = "none"
  <2>1. (CHOOSE d \in Docs : TRUE) \in Docs
    BY DocsAssumption
  <2> QED BY <2>1, NoTextsType, BoundAssumption DEF NoRequest, RequestRecords, Places
<1>2. AskTypeOK
  BY <1>1, NoTextsType, BoundAssumption DEF Init, AskTypeOK
<1>3. WorkerTypeOK
  BY NoTextsType, EmptySeq DEF Init, WorkerTypeOK
<1>4. disk \in [Docs -> Text]
  BY BoundAssumption DEF Init, Text
<1>5. ServerTypeOK
  <2>1. revision = 0 /\ armed = {} /\ unannounced = FALSE
    BY DEF Init
  <2>2. editor \in PartialTexts
    BY NoTextsType DEF Init
  <2>3. revision \in 0 .. MaxTexts
    BY <2>1, BoundAssumption
  <2> QED BY <1>4, <2>1, <2>2, <2>3 DEF ServerTypeOK
<1> QED BY <1>2, <1>3, <1>5 DEF TypeInv

\* What the server types, opens, closes and saves keeps the types.
LEMMA ServerTypes ==
  ASSUME ServerTypeOK, NEW d \in Docs,
         \/ \E imports \in SUBSET MayImport[d], empty \in BOOLEAN : Edit(d, imports, empty)
         \/ OpenDocument(d) \/ CloseDocument(d) \/ Save(d)
  PROVE  ServerTypeOK' /\ UNCHANGED <<workerVars, channel, askVars>>
<1>0. \A f \in DOMAIN editor : editor[f] \in Text
  BY TextsIn DEF ServerTypeOK
<1>1. ASSUME NEW imports \in SUBSET MayImport[d], NEW empty \in BOOLEAN, Edit(d, imports, empty)
      PROVE  ServerTypeOK' /\ UNCHANGED <<workerVars, channel, askVars>>
  <2>1. /\ [rev |-> revision + 1, imports |-> imports, empty |-> empty] \in Text
        /\ revision + 1 \in 0 .. MaxTexts
    BY <1>1, BoundAssumption, ImportAssumption DEF Edit, ServerTypeOK, Text
  <2>2. editor' \in PartialTexts
    BY <1>1, <2>1, WithIs DEF Edit, ServerTypeOK
  <2> QED BY <1>1, <2>1, <2>2 DEF Edit, ServerTypeOK
<1>2. CASE OpenDocument(d)
  <2>1. editor' \in PartialTexts
    BY <1>2, WithIs DEF OpenDocument, ServerTypeOK
  <2> QED BY <1>2, <2>1 DEF OpenDocument, ServerTypeOK
<1>3. CASE CloseDocument(d)
  <2>1. PICK kept : kept = DOMAIN editor \ {d}
    OBVIOUS
  <2>2. DOMAIN editor' = kept /\ editor' \in [kept -> Text] /\ kept \subseteq Docs
    BY <1>0, <1>3, <2>1, TextsIn DEF CloseDocument, Restrict, ServerTypeOK
  <2>3. editor' \in PartialTexts
    BY <2>2, PartialIs
  <2> QED BY <1>3, <2>3 DEF CloseDocument, ServerTypeOK
<1>4. CASE Save(d)
  BY <1>0, <1>4 DEF Save, ServerTypeOK
<1> QED BY <1>1, <1>2, <1>3, <1>4

LEMMA Received0 ==
  ASSUME WorkerTypeOK, NEW m, Receive(m)
  PROVE  /\ channel' \in Seq(0 .. MaxRequests)
         /\ \E n \in Nat : /\ Len(channel) = n + 1 /\ Len(channel') = n /\ channel[1] = m
                           /\ \A k \in 1 .. n : channel'[k] = channel[k + 1]
<1>0. channel \in Seq(0 .. MaxRequests) /\ channel # <<>> /\ channel' = Tail(channel)
      /\ Head(channel) = m
  BY DEF Receive, WorkerTypeOK
<1>1. Len(channel) \in Nat /\ Len(channel) # 0
  BY <1>0, LenProperties, EmptySeq
<1>2. /\ channel' \in Seq(0 .. MaxRequests) /\ channel[1] = m
      /\ Len(channel') = Len(channel) - 1
      /\ \A k \in 1 .. Len(channel') : channel'[k] = channel[k + 1]
  BY <1>0, <1>1, HeadTailProperties
<1>3. Len(channel) - 1 \in Nat /\ Len(channel) = Len(channel) - 1 + 1
  BY <1>1
<1> QED BY <1>2, <1>3

LEMMA Sent ==
  ASSUME WorkerTypeOK, NEW m \in 0 .. MaxRequests, channel' = Append(channel, m)
  PROVE  /\ channel' \in Seq(0 .. MaxRequests)
         /\ Len(channel) \in Nat /\ Len(channel') = Len(channel) + 1
         /\ channel'[Len(channel) + 1] = m
         /\ \A k \in 1 .. Len(channel) : channel'[k] = channel[k]
BY AppendProperties, LenProperties DEF WorkerTypeOK

\* A request that moves keeps its type.
LEMMA MovesType ==
  ASSUME AskTypeOK, NEW r \in Requests, Moves(request, request', r), request[r].pc # "none",
         requests' = requests,
         input' \in [Requests -> PartialTexts], response' \in [Requests -> SUBSET PartialTexts],
         disturbed' \subseteq Requests
  PROVE  AskTypeOK'
BY DEF AskTypeOK, Moves

LEMMA AskMoves ==
  ASSUME TypeInv, NEW d \in Docs, Ask(d)
  PROVE  /\ AskTypeOK'
         /\ requests + 1 \in Requests /\ requests' = requests + 1
         /\ \A q \in Requests : q # requests + 1 => request'[q] = request[q]
         /\ request'[requests + 1].pc = "sent" /\ request'[requests + 1].read = NoTexts
<1> USE DEF TypeInv
<1>0. editor \in PartialTexts /\ d \in DOMAIN editor /\ request \in [Requests -> RequestRecords]
  BY DEF Ask, ServerTypeOK, AskTypeOK
<1>1. requests \in Nat /\ requests + 1 \in Requests /\ requests + 1 \in 0 .. MaxRequests
  BY BoundAssumption DEF Ask, AskTypeOK, Requests
<1>2. PICK new : new = [NoRequest EXCEPT !.pc = "sent", !.source = d, !.open = editor]
  OBVIOUS
<1>3. new = [pc |-> "sent", source |-> d, open |-> editor, read |-> NoTexts, todo |-> {},
             builder |-> 0]
  BY <1>2 DEF NoRequest
<1>4. new \in RequestRecords /\ new.pc = "sent" /\ new.read = NoTexts /\ new.source \in DOMAIN new.open
  BY <1>0, <1>3, NoTextsType, BoundAssumption DEF RequestRecords, Places
<1>5. /\ request' \in [Requests -> RequestRecords] /\ request'[requests + 1] = new
      /\ \A q \in Requests : q # requests + 1 => request'[q] = request[q]
  BY <1>0, <1>1, <1>2, <1>4 DEF Ask
<1>6. AskTypeOK'
  BY <1>0, <1>1, <1>4, <1>5 DEF Ask, AskTypeOK
<1> QED BY <1>1, <1>4, <1>5, <1>6 DEF Ask

LEMMA AnalysisType ==
  ASSUME AskTypeOK, NEW r \in Requests, request[r].pc # "none"
  PROVE  Analysis(r) \in Analyses /\ Analysis(r).doc = request[r].source
<1>1. request[r].open \in PartialTexts /\ request[r].source \in Docs
      /\ request[r].source \in DOMAIN request[r].open
  BY DEF AskTypeOK, RequestRecords
<1>2. request[r].open[request[r].source].imports \in SUBSET Docs
  BY <1>1, TextsIn
<1> QED BY <1>1, <1>2 DEF Analysis, Analyses

\* READ_FILE gives a text.
LEMMA ReadIs ==
  ASSUME TypeInv, NEW r \in Requests, NEW f \in Docs, ReadSource(r, f)
  PROVE  \E text \in Text, read \in PartialTexts, todo \in SUBSET Docs :
           /\ text = IF f \in DOMAIN openDocument THEN openDocument[f] ELSE disk[f]
           /\ read = With(request[r].read, f, text)
           /\ todo = (request[r].todo \cup text.imports) \ DOMAIN read
           /\ Moves(request, request', r)
           /\ request'[r].pc = "reading" /\ request'[r].read = read /\ request'[r].todo = todo
<1> USE DEF TypeInv
<1>1. PICK text : text = IF f \in DOMAIN openDocument THEN openDocument[f] ELSE disk[f]
  OBVIOUS
<1>2. text \in Text
  BY <1>1, TextsIn DEF WorkerTypeOK, ServerTypeOK
<1>3. PICK read : read = With(request[r].read, f, text)
  OBVIOUS
<1>4. request[r].read \in PartialTexts /\ request[r].todo \in SUBSET Docs
  BY DEF AskTypeOK, RequestRecords
<1>5. read \in PartialTexts
  BY <1>2, <1>3, <1>4, WithIs
<1>6. PICK todo : todo = (request[r].todo \cup text.imports) \ DOMAIN read
  OBVIOUS
<1>7. todo \in SUBSET Docs
  BY <1>2, <1>4, <1>6 DEF Text
<1>8. request' = [request EXCEPT ![r].read = read, ![r].todo = todo]
  <2>1. request' = [request EXCEPT ![r].read = read,
                                   ![r].todo = (@ \cup text.imports) \ DOMAIN read]
    BY <1>1, <1>3 DEF ReadSource
  <2>2. request \in [Requests -> RequestRecords]
    BY DEF AskTypeOK
  <2> QED BY <1>6, <2>1, <2>2 DEF RequestRecords
<1>9. /\ Moves(request, request', r) /\ request'[r].pc = request[r].pc
      /\ request'[r].read = read /\ request'[r].todo = todo
  BY <1>5, <1>7, <1>8, ReadMoves
<1>10. request[r].pc = "reading"
  BY DEF ReadSource, Building
<1> QED BY <1>1, <1>2, <1>3, <1>5, <1>6, <1>7, <1>9, <1>10

-----------------------------------------------------------------------------
(* The order of the requests *)

\* The requests wait in the order of their numbers, after all that were received.
OrderInv ==
  /\ \A r \in Requests : r > requests => request[r].pc = "none"
  /\ \A i \in 1 .. Len(channel) : channel[i] # 0 =>
       /\ channel[i] \in 1 .. requests /\ request[channel[i]].pc = "sent"
       /\ \A r \in Requests : request[r].pc \in Received => r < channel[i]
  /\ \A i, j \in 1 .. Len(channel) :
       i < j /\ channel[i] # 0 /\ channel[j] # 0 => channel[i] < channel[j]

Settled == {"responding", "done"}
\* The remembered build is complete.
LastInv ==
  \A c \in last : /\ request[c.builder].pc \in Settled
                  /\ c.analysis.doc \in DOMAIN input[c.builder]

\* The text that request r brought for f, or a later one, must be in its answer: f
\* is told apart, and the text is not empty if r is one of the disturbed builds
\* `out`.
Due(asked, out, r, f) == ToldApart(f) /\ ~(asked[r].open[f].empty /\ r \in out)

\* Texts that answer request r, when n requests were asked with these documents:
\* they have its own, and every open one in the text that it or a later one brought.
Answers(asked, n, out, r, texts) ==
  /\ asked[r].source \in DOMAIN texts
  /\ \A f \in DOMAIN texts \cap DOMAIN asked[r].open : Due(asked, out, r, f) =>
       \E q \in r .. n : f \in DOMAIN asked[q].open /\ texts[f] = asked[q].open[f]

AnswersInv ==
  /\ \A r \in Requests : request[r].pc = "responding" =>
       /\ request[r].builder \in Requests
       /\ request[request[r].builder].pc \in Settled
       /\ Answers(request, requests, disturbed, r, input[request[r].builder])
  /\ \A r \in Requests : response[r] # {} => request[r].pc = "done"
  /\ \A r \in Requests : \A texts \in response[r] : Answers(request, requests, disturbed, r, texts)
  /\ \A r \in Requests : Building(r) =>
       request[r].source \in DOMAIN request[r].read \cup request[r].todo

\* An undisturbed build reads through the documents it was asked with, and what
\* its texts import is read or will be.
BuildInv ==
  /\ \A r \in Requests : request[r].pc = "sent" => request[r].read = NoTexts
  /\ \A r \in Requests \ disturbed : Building(r) =>
       /\ openDocument = request[r].open
       /\ \A f \in DOMAIN request[r].read :
            /\ f \in DOMAIN request[r].open => request[r].read[f] = request[r].open[f]
            /\ request[r].read[f].imports \subseteq DOMAIN request[r].read \cup request[r].todo

\* The inductive invariant.
CacheInv == TypeInv /\ OrderInv /\ LastInv /\ AnswersInv /\ BuildInv

LEMMA Counts ==
  ASSUME TypeInv
  PROVE  /\ MaxRequests \in Nat /\ requests \in Nat /\ requests <= MaxRequests
         /\ Requests \subseteq Nat \ {0}
         /\ \A n \in 1 .. requests : n \in Requests
         /\ Len(channel) \in Nat /\ channel \in Seq(0 .. MaxRequests)
         /\ \A k \in 1 .. Len(channel) : channel[k] \in 0 .. MaxRequests /\ channel[k] \in Nat
<1>1. channel \in Seq(0 .. MaxRequests) /\ MaxRequests \in Nat
  BY BoundAssumption DEF TypeInv, WorkerTypeOK
<1>2. Len(channel) \in Nat /\ \A k \in 1 .. Len(channel) : channel[k] \in 0 .. MaxRequests
  BY <1>1, LenProperties, ElementOfSeq
<1> QED BY <1>1, <1>2 DEF TypeInv, AskTypeOK, Requests

\* Nothing is sent or received: requests that were received move, and the others
\* stay where they are.
LEMMA OrderStays ==
  ASSUME TypeInv, OrderInv, channel' = channel, requests' = requests,
         \A q \in Requests :
           \/ request'[q] = request[q]
           \/ request[q].pc \in Received /\ request'[q].pc \in Received
  PROVE  OrderInv'
<1> USE Counts DEF Received
<1>1. \A r \in Requests : r > requests => request'[r].pc = "none"
  BY DEF OrderInv
<1>2. \A i \in 1 .. Len(channel) : channel[i] # 0 =>
       /\ channel[i] \in 1 .. requests /\ request'[channel[i]].pc = "sent"
       /\ \A r \in Requests : request'[r].pc \in Received => r < channel[i]
  BY DEF OrderInv
<1> QED BY <1>1, <1>2 DEF OrderInv

\* The first message is received.
LEMMA OrderReceives ==
  ASSUME TypeInv, OrderInv, NEW m \in 0 .. MaxRequests, Receive(m), requests' = requests,
         \A q \in Requests :
           \/ request'[q] = request[q]
           \/ q = m /\ request'[q].pc \in Received
  PROVE  OrderInv'
<1> USE Counts DEF Received
<1>0. PICK n \in Nat : /\ Len(channel) = n + 1 /\ Len(channel') = n /\ channel[1] = m
                       /\ \A k \in 1 .. n : channel'[k] = channel[k + 1]
  BY Received0 DEF TypeInv
<1>1. \A r \in Requests : r > requests => request'[r].pc = "none"
  <2> SUFFICES ASSUME NEW r \in Requests, r > requests PROVE request'[r].pc = "none"
    OBVIOUS
  <2>1. r # m
    <3>1. 1 \in 1 .. Len(channel)
      BY <1>0
    <3>2. m # 0 => m \in 1 .. requests
      BY <1>0, <3>1 DEF OrderInv
    <3> QED BY <3>2
  <2> QED BY <2>1 DEF OrderInv
<1>2. ASSUME NEW i \in 1 .. n, channel'[i] # 0
      PROVE  /\ channel'[i] \in 1 .. requests /\ request'[channel'[i]].pc = "sent"
             /\ \A r \in Requests : request'[r].pc \in Received => r < channel'[i]
  <2>1. PICK x : x = channel[i + 1]
    OBVIOUS
  <2>2. i + 1 \in 1 .. Len(channel) /\ 1 \in 1 .. Len(channel) /\ 1 < i + 1 /\ channel'[i] = x
    BY <1>0, <2>1
  <2>3. /\ x \in 1 .. requests /\ request[x].pc = "sent"
        /\ \A r \in Requests : request[r].pc \in Received => r < x
    BY <1>2, <2>1, <2>2 DEF OrderInv
  <2>4. m # 0 => m < x
    BY <1>0, <1>2, <2>1, <2>2 DEF OrderInv
  <2>5. x # m
    BY <2>3, <2>4
  <2>6. request'[x].pc = "sent"
    BY <2>3, <2>5
  <2>7. ASSUME NEW r \in Requests, request'[r].pc \in Received PROVE r < x
    <3>1. CASE r = m
      BY <2>4, <3>1
    <3>2. CASE r # m
      BY <2>3, <2>7, <3>2
    <3> QED BY <3>1, <3>2
  <2> QED BY <2>2, <2>3, <2>6, <2>7
<1>3. ASSUME NEW i \in 1 .. n, NEW j \in 1 .. n, i < j, channel'[i] # 0, channel'[j] # 0
      PROVE  channel'[i] < channel'[j]
  <2>1. i + 1 \in 1 .. n + 1 /\ j + 1 \in 1 .. n + 1 /\ i + 1 < j + 1
    BY <1>3
  <2>2. channel'[i] = channel[i + 1] /\ channel'[j] = channel[j + 1]
    BY <1>0
  <2> QED BY <1>0, <1>3, <2>1, <2>2 DEF OrderInv
<1> QED BY <1>0, <1>1, <1>2, <1>3 DEF OrderInv

\* A message is sent: an invalidation, or the next request.
LEMMA OrderSends ==
  ASSUME TypeInv, OrderInv, NEW m \in 0 .. MaxRequests, channel' = Append(channel, m),
         \/ m = 0 /\ requests' = requests /\ request' = request
         \/ /\ m = requests + 1 /\ requests' = m /\ request'[m].pc = "sent"
            /\ \A q \in Requests : q # m => request'[q] = request[q]
  PROVE  OrderInv'
<1> USE Counts DEF Received
<1>0. /\ Len(channel) \in Nat /\ Len(channel') = Len(channel) + 1
      /\ channel'[Len(channel) + 1] = m
      /\ \A k \in 1 .. Len(channel) : channel'[k] = channel[k]
  BY Sent DEF TypeInv
<1>1. \A r \in Requests : r > requests' => request'[r].pc = "none"
  BY DEF OrderInv
<1>2. \A q \in Requests : q # m \/ m = 0 => request'[q] = request[q]
  OBVIOUS
<1>a. requests <= requests' /\ requests' \in Nat /\ m <= requests'
  OBVIOUS
<1>3. ASSUME NEW r \in Requests, request'[r].pc \in Received
      PROVE  request[r].pc \in Received /\ r <= requests
  <2>1. request[r].pc \in Received
    BY <1>2, <1>3
  <2> QED BY <2>1 DEF OrderInv
<1>4. ASSUME NEW i \in 1 .. Len(channel'), channel'[i] # 0
      PROVE  /\ channel'[i] \in 1 .. requests' /\ request'[channel'[i]].pc = "sent"
             /\ \A r \in Requests : request'[r].pc \in Received => r < channel'[i]
  <2>1. CASE i = Len(channel) + 1
    <3>1. channel'[i] = m /\ m # 0 /\ m = requests + 1 /\ requests' = m
          /\ request'[m].pc = "sent"
      BY <1>0, <1>4, <2>1
    <3> QED BY <1>3, <3>1
  <2>2. CASE i # Len(channel) + 1
    <3>1. PICK x : x = channel[i]
      OBVIOUS
    <3>2. i \in 1 .. Len(channel) /\ channel'[i] = x
      BY <1>0, <2>2, <3>1
    <3>3. /\ x \in 1 .. requests /\ request[x].pc = "sent"
          /\ \A r \in Requests : request[r].pc \in Received => r < x
      BY <1>4, <3>1, <3>2 DEF OrderInv
    <3>4. request'[x].pc = "sent" /\ x \in 1 .. requests'
      BY <1>2, <1>a, <3>3
    <3> QED BY <1>3, <3>2, <3>3, <3>4
  <2> QED BY <2>1, <2>2
<1>5. ASSUME NEW i \in 1 .. Len(channel'), NEW j \in 1 .. Len(channel'), i < j,
             channel'[i] # 0, channel'[j] # 0
      PROVE  channel'[i] < channel'[j]
  <2>1. i \in 1 .. Len(channel) /\ channel'[i] = channel[i]
    BY <1>0, <1>5
  <2>2. CASE j = Len(channel) + 1
    <3>1. channel'[j] = m /\ m = requests + 1
      BY <1>0, <1>5, <2>2
    <3>2. channel[i] \in 1 .. requests
      BY <1>5, <2>1 DEF OrderInv
    <3> QED BY <2>1, <3>1, <3>2
  <2>3. CASE j # Len(channel) + 1
    <3>1. j \in 1 .. Len(channel) /\ channel'[j] = channel[j]
      BY <1>0, <2>3
    <3> QED BY <1>5, <2>1, <3>1 DEF OrderInv
  <2> QED BY <2>2, <2>3
<1> QED BY <1>1, <1>4, <1>5 DEF OrderInv

\* A received request is later than all those that were received before it.
LEMMA ReceivedIsNext ==
  ASSUME TypeInv, OrderInv, NEW r \in Requests, Receive(r)
  PROVE  /\ request[r].pc = "sent" /\ r <= requests
         /\ \A q \in Requests : request[q].pc \in Received => q < r
<1>0. PICK n \in Nat : Len(channel) = n + 1 /\ channel[1] = r
  BY Received0 DEF TypeInv
<1>1. 1 \in 1 .. Len(channel) /\ r # 0
  BY <1>0, Counts
<1> QED BY <1>0, <1>1, Counts DEF OrderInv

-----------------------------------------------------------------------------
(* The steps *)

\* An answer stays one while requests are added and keep what they were asked with.
LEMMA AnswersStay ==
  ASSUME NEW m \in Nat, NEW n \in Nat, m <= n, 1 .. m \subseteq Requests, NEW f, NEW g,
         NEW x, NEW y, x \subseteq y,
         \A q \in 1 .. m : g[q].open = f[q].open /\ g[q].source = f[q].source,
         NEW r \in 1 .. m, NEW texts, Answers(f, m, x, r, texts)
  PROVE  Answers(g, n, y, r, texts)
<1>1. g[r].source \in DOMAIN texts
  BY DEF Answers
<1>2. ASSUME NEW d \in DOMAIN texts \cap DOMAIN g[r].open, Due(g, y, r, d)
      PROVE  \E q \in r .. n : d \in DOMAIN g[q].open /\ texts[d] = g[q].open[d]
  <2>0. d \in DOMAIN f[r].open /\ Due(f, x, r, d)
    BY <1>2 DEF Due
  <2>1. PICK q \in r .. m : d \in DOMAIN f[q].open /\ texts[d] = f[q].open[d]
    BY <1>2, <2>0 DEF Answers
  <2>2. q \in 1 .. m /\ q \in r .. n
    BY <2>1
  <2> QED BY <2>1, <2>2
<1> QED BY <1>1, <1>2 DEF Answers

\* No request moves to or from the worker, and no input changes.
LEMMA IdleKeeps ==
  ASSUME CacheInv, TypeInv', OrderInv', requests <= requests', requests' \in Nat,
         UNCHANGED <<input, response, disturbed, openDocument>>, last' \subseteq last,
         \A q \in Requests : q <= requests => request'[q] = request[q],
         \A q \in Requests : q > requests =>
           \/ request'[q].pc = "none"
           \/ request'[q].pc = "sent" /\ request'[q].read = NoTexts
  PROVE  CacheInv'
<1> USE Counts DEF CacheInv
<1>0. \A q \in Requests : request[q].pc # "none" => request'[q] = request[q] /\ q <= requests
  BY DEF OrderInv
<1>1. LastInv'
  <2>1. last \subseteq [analysis : Analyses, builder : Requests]
    BY DEF TypeInv, WorkerTypeOK
  <2> QED BY <1>0, <2>1 DEF LastInv, Settled
<1>2. \A q \in Requests : request'[q].pc \in Received => request'[q] = request[q] /\ q <= requests
  BY DEF Received
<1>a. ASSUME NEW q \in Requests, q <= requests, NEW texts,
             Answers(request, requests, disturbed, q, texts)
      PROVE  Answers(request', requests', disturbed', q, texts)
  <2>1. q \in 1 .. requests /\ 1 .. requests \subseteq Requests
        /\ \A p \in 1 .. requests : request'[p] = request[p]
    BY <1>a
  <2> QED BY <1>a, <2>1, AnswersStay
<1>3. AnswersInv'
  <2>1. ASSUME NEW r \in Requests, request'[r].pc = "responding"
        PROVE  /\ request'[r].builder \in Requests
               /\ request'[request'[r].builder].pc \in Settled
               /\ Answers(request', requests', disturbed', r, input'[request'[r].builder])
    <3>1. request'[r] = request[r] /\ r <= requests
      BY <1>2, <2>1 DEF Received
    <3>2. PICK b \in Requests : b = request[r].builder
      BY <2>1, <3>1 DEF AnswersInv
    <3>3. request[b].pc \in Settled /\ Answers(request, requests, disturbed, r, input[b])
      BY <2>1, <3>1, <3>2 DEF AnswersInv
    <3>4. request'[b] = request[b]
      BY <1>0, <3>3 DEF Settled
    <3>5. Answers(request', requests', disturbed', r, input[b])
      BY <1>a, <3>1, <3>3
    <3> QED BY <3>1, <3>2, <3>3, <3>4, <3>5
  <2>2. \A r \in Requests : response'[r] # {} => request'[r].pc = "done"
    BY <1>0 DEF AnswersInv
  <2>3. ASSUME NEW r \in Requests, NEW texts \in response'[r]
        PROVE  Answers(request', requests', disturbed', r, texts)
    <3>1. request[r].pc = "done" /\ Answers(request, requests, disturbed, r, texts)
      BY <2>3 DEF AnswersInv
    <3> QED BY <1>0, <1>a, <3>1
  <2>4. \A r \in Requests : request'[r].pc = "reading" =>
          request'[r].source \in DOMAIN request'[r].read \cup request'[r].todo
    BY <1>2 DEF AnswersInv, Building, Received
  <2> QED BY <2>1, <2>2, <2>3, <2>4 DEF AnswersInv, Building
<1>4. BuildInv'
  <2>1. \A q \in Requests : request'[q].pc = "sent" => request'[q].read = NoTexts
    BY DEF BuildInv
  <2> QED BY <1>2, <2>1 DEF BuildInv, Building, Received
<1> QED BY <1>1, <1>3, <1>4

\* Request r moves; the inputs that the others share still answer them.
LEMMA MoveKeeps ==
  ASSUME CacheInv, NEW r \in Requests, Moves(request, request', r),
         requests' = requests, r <= requests, disturbed \subseteq disturbed',
         \A texts \in response'[r] :
           request'[r].pc = "done" /\ Answers(request, requests, disturbed, r, texts),
         \A q \in Requests \ {r} : response'[q] = response[q],
         request'[r].pc = "responding" =>
           \E b \in Requests : /\ request'[r].builder = b /\ request'[b].pc \in Settled
                               /\ Answers(request, requests, disturbed, r, input'[b]),
         request[r].pc \in Settled => request'[r].pc \in Settled,
         request'[r].pc = "reading" =>
           request'[r].source \in DOMAIN request'[r].read \cup request'[r].todo,
         \A q \in Requests \ {r}, b \in Requests :
           request[q].pc = "responding" /\ request[b].pc \in Settled
             /\ Answers(request, requests, disturbed, q, input[b])
           => Answers(request, requests, disturbed, q, input'[b])
  PROVE  AnswersInv'
<1> USE Counts DEF CacheInv
<1>0. \A q \in Requests : /\ request'[q].open = request[q].open
                          /\ request'[q].source = request[q].source
                          /\ q # r => request'[q] = request[q]
  BY DEF Moves
<1>a. \A q \in Requests : request[q].pc # "none" => q <= requests
  BY DEF OrderInv
<1>b. \A b \in Requests : request[b].pc \in Settled => request'[b].pc \in Settled
  BY <1>0
<1>c. ASSUME NEW q \in Requests, q <= requests, NEW texts,
             Answers(request, requests, disturbed, q, texts)
      PROVE  Answers(request', requests', disturbed', q, texts)
  <2>1. q \in 1 .. requests /\ 1 .. requests \subseteq Requests
        /\ \A p \in 1 .. requests : request'[p].open = request[p].open
                                    /\ request'[p].source = request[p].source
    BY <1>0, <1>c
  <2>2. q \in 1 .. requests /\ requests' \in Nat /\ requests <= requests'
    BY <1>c
  <2> QED BY <1>c, <2>1, <2>2, AnswersStay
<1>1. ASSUME NEW q \in Requests, request'[q].pc = "responding"
      PROVE  /\ request'[q].builder \in Requests
             /\ request'[request'[q].builder].pc \in Settled
             /\ Answers(request', requests', disturbed', q, input'[request'[q].builder])
  <2>1. CASE q = r
    BY <1>1, <1>c, <2>1
  <2>2. CASE q # r
    <3>1. request'[q] = request[q] /\ q <= requests
      BY <1>0, <1>1, <1>a, <2>2
    <3>2. PICK b \in Requests : b = request[q].builder
      BY <1>1, <3>1 DEF AnswersInv
    <3>3. request[b].pc \in Settled /\ Answers(request, requests, disturbed, q, input[b])
      BY <1>1, <3>1, <3>2 DEF AnswersInv
    <3>4. Answers(request, requests, disturbed, q, input'[b])
      BY <1>1, <2>2, <3>1, <3>3
    <3>5. Answers(request', requests', disturbed', q, input'[b])
      BY <1>c, <3>1, <3>4
    <3> QED BY <1>b, <3>1, <3>2, <3>3, <3>5
  <2> QED BY <2>1, <2>2
<1>2. \A q \in Requests : response'[q] # {} => request'[q].pc = "done"
  BY <1>0 DEF AnswersInv
<1>3. ASSUME NEW q \in Requests, NEW texts \in response'[q]
      PROVE  Answers(request', requests', disturbed', q, texts)
  <2>1. CASE q = r
    BY <1>3, <1>c, <2>1
  <2>2. CASE q # r
    <3>1. request[q].pc = "done" /\ Answers(request, requests, disturbed, q, texts)
      BY <1>3, <2>2 DEF AnswersInv
    <3> QED BY <1>a, <1>c, <3>1
  <2> QED BY <2>1, <2>2
<1>4. \A q \in Requests : request'[q].pc = "reading" =>
        request'[q].source \in DOMAIN request'[q].read \cup request'[q].todo
  BY <1>0 DEF AnswersInv, Building
<1> QED BY <1>1, <1>2, <1>3, <1>4 DEF AnswersInv, Building

\* The remembered build stays complete.
LEMMA LastKeeps ==
  ASSUME CacheInv, NEW r \in Requests, Moves(request, request', r), last' \subseteq last,
         request[r].pc \in Settled => request'[r].pc \in Settled,
         \A b \in Requests : request[b].pc \in Settled => DOMAIN input'[b] = DOMAIN input[b]
  PROVE  LastInv'
<1>1. \A c \in last : c.builder \in Requests
  BY DEF CacheInv, TypeInv, WorkerTypeOK
<1>2. ASSUME NEW c \in last'
      PROVE  request'[c.builder].pc \in Settled /\ c.analysis.doc \in DOMAIN input'[c.builder]
  <2>1. PICK b \in Requests : b = c.builder
    BY <1>1
  <2>2. request[b].pc \in Settled /\ c.analysis.doc \in DOMAIN input[b]
    BY <2>1 DEF CacheInv, LastInv
  <2>3. request'[b].pc \in Settled
    BY <2>2 DEF Moves
  <2> QED BY <2>1, <2>2, <2>3
<1> QED BY <1>2 DEF LastInv

\* Request r is not built, or not any more.
LEMMA BuildKeeps ==
  ASSUME CacheInv, NEW r \in Requests, Moves(request, request', r),
         UNCHANGED <<openDocument, disturbed>>, request'[r].pc \in Settled
  PROVE  BuildInv'
<1>1. \A q \in Requests \ {r} : request'[q] = request[q]
  BY DEF Moves
<1>2. request'[r].pc # "sent" /\ request'[r].pc # "reading"
  BY DEF Settled
<1>3. \A q \in Requests : request'[q].pc = "sent" => request'[q].read = NoTexts
  BY <1>1, <1>2 DEF CacheInv, BuildInv
<1>4. ASSUME NEW q \in Requests \ disturbed, request'[q].pc = "reading"
      PROVE  /\ openDocument = request'[q].open
             /\ \A f \in DOMAIN request'[q].read :
                  /\ f \in DOMAIN request'[q].open => request'[q].read[f] = request'[q].open[f]
                  /\ request'[q].read[f].imports \subseteq DOMAIN request'[q].read \cup request'[q].todo
  BY <1>1, <1>2, <1>4 DEF CacheInv, BuildInv, Building
<1> QED BY <1>3, <1>4 DEF BuildInv, Building

\* The actions, one by one.
LEMMA ServerKeeps ==
  ASSUME CacheInv, Server
  PROVE  CacheInv'
<1> USE DEF CacheInv
<1>0. requests \in Nat /\ \A q \in Requests : q > requests => request[q].pc = "none"
  BY Counts DEF OrderInv
<1>1. CASE Announce
  <2>a. ServerTypeOK'
    BY <1>1 DEF Announce, TypeInv, ServerTypeOK
  <2>b. AskTypeOK'
    BY <1>1 DEF Announce, TypeInv, AskTypeOK, askVars
  <2>1. ServerTypeOK' /\ AskTypeOK' /\ 0 \in 0 .. MaxRequests
    BY <2>a, <2>b, BoundAssumption
  <2>2. channel' \in Seq(0 .. MaxRequests)
    BY <1>1, <2>1, Sent DEF Announce, TypeInv
  <2>3. TypeInv'
    BY <1>1, <2>1, <2>2 DEF Announce, TypeInv, WorkerTypeOK, workerVars
  <2>4. OrderInv'
    BY <1>1, <2>1, OrderSends DEF Announce, askVars
  <2> QED BY <1>0, <1>1, <2>3, <2>4, IdleKeeps DEF Announce, askVars, workerVars
<1>2. ASSUME NEW d \in Docs, Ask(d) PROVE CacheInv'
  <2>1. /\ AskTypeOK' /\ requests + 1 \in Requests /\ requests' = requests + 1
        /\ \A q \in Requests : q # requests + 1 => request'[q] = request[q]
        /\ request'[requests + 1].pc = "sent" /\ request'[requests + 1].read = NoTexts
    BY <1>2, AskMoves
  <2>2. requests + 1 \in 0 .. MaxRequests
    BY <1>0, <2>1 DEF Requests
  <2>3. channel' \in Seq(0 .. MaxRequests)
    BY <1>2, <2>2, Sent DEF Ask, TypeInv
  <2>4. TypeInv'
    BY <1>2, <2>1, <2>3 DEF Ask, TypeInv, ServerTypeOK, WorkerTypeOK, workerVars
  <2>5. OrderInv'
    BY <1>2, <2>1, <2>2, OrderSends DEF Ask
  <2>6. \A q \in Requests : q <= requests => request'[q] = request[q]
    BY <1>0, <2>1 DEF Requests
  <2>7. \A q \in Requests : q > requests =>
          \/ request'[q].pc = "none"
          \/ request'[q].pc = "sent" /\ request'[q].read = NoTexts
    BY <1>0, <2>1
  <2>8. requests <= requests' /\ requests' \in Nat
    BY <1>0, <2>1
  <2> QED BY <1>2, <2>4, <2>5, <2>6, <2>7, <2>8, IdleKeeps DEF Ask, workerVars
<1>3. ASSUME NEW d \in Docs,
             \/ \E imports \in SUBSET MayImport[d], empty \in BOOLEAN : Edit(d, imports, empty)
             \/ OpenDocument(d) \/ CloseDocument(d) \/ Save(d)
      PROVE  CacheInv'
  <2>1. ServerTypeOK' /\ UNCHANGED <<workerVars, channel, askVars>>
    BY <1>3, ServerTypes DEF TypeInv
  <2>2. TypeInv'
    BY <2>1 DEF TypeInv, WorkerTypeOK, AskTypeOK, workerVars, askVars
  <2>3. OrderInv'
    BY <2>1, OrderStays DEF askVars
  <2> QED BY <1>0, <2>1, <2>2, <2>3, IdleKeeps DEF askVars, workerVars
<1> QED BY <1>1, <1>2, <1>3 DEF Server

LEMMA InvalidateKeeps ==
  ASSUME CacheInv, InvalidateCache
  PROVE  CacheInv'
<1> USE DEF CacheInv
<1>0. /\ requests \in Nat /\ \A q \in Requests : q > requests => request[q].pc = "none"
      /\ 0 \in 0 .. MaxRequests
  BY Counts DEF OrderInv
<1>1. channel' \in Seq(0 .. MaxRequests)
  BY Received0 DEF InvalidateCache, TypeInv
<1>2. TypeInv'
  BY <1>1 DEF InvalidateCache, TypeInv, ServerTypeOK, WorkerTypeOK, AskTypeOK, serverVars, askVars
<1>3. OrderInv'
  BY <1>0, OrderReceives DEF InvalidateCache, askVars
<1> QED BY <1>0, <1>2, <1>3, IdleKeeps DEF InvalidateCache, askVars

LEMMA HitKeeps ==
  ASSUME CacheInv, NEW r \in Requests, Hit(r)
  PROVE  CacheInv'
<1> USE DEF CacheInv
<1>0. /\ request[r].pc = "sent" /\ r <= requests
      /\ \A q \in Requests : request[q].pc \in Received => q < r
  BY ReceivedIsNext DEF Hit
<1>1. PICK c \in last :
        /\ c.analysis = Analysis(r)
        /\ \E at \in Placements(input[c.builder], r) :
             input' = [input EXCEPT ![c.builder] = Refreshed(@, r, at)]
        /\ request' = [request EXCEPT ![r].pc = "responding", ![r].builder = c.builder]
  BY DEF Hit
<1>2. PICK b \in Requests : b = c.builder
  BY DEF TypeInv, WorkerTypeOK
<1>3. request[b].pc \in Settled /\ request[r].source \in DOMAIN input[b]
  BY <1>0, <1>1, <1>2, AnalysisType DEF LastInv, TypeInv
<1>4. Moves(request, request', r) /\ request'[r].pc = "responding" /\ request'[r].builder = b
  BY <1>1, <1>2, HitMoves DEF TypeInv
<1>5. /\ input[b] \in PartialTexts /\ input \in [Requests -> PartialTexts]
      /\ \E at \in Placements(input[b], r) : input' = [input EXCEPT ![b] = Refreshed(input[b], r, at)]
  BY <1>1, <1>2 DEF TypeInv, AskTypeOK
<1>6. PICK at \in Placements(input[b], r) : input' = [input EXCEPT ![b] = Refreshed(input[b], r, at)]
  BY <1>5
<1>7. PICK new \in PartialTexts :
        /\ input' = [input EXCEPT ![b] = new]
        /\ DOMAIN new = DOMAIN input[b]
        /\ \A f \in DOMAIN input[b] : ToldApart(f) =>
             new[f] = IF f \in DOMAIN request[r].open THEN request[r].open[f] ELSE input[b][f]
  <2> DEFINE text == Refreshed(input[b], r, at)
  <2>1. /\ text \in PartialTexts
        /\ DOMAIN text = DOMAIN input[b]
        /\ \A f \in DOMAIN input[b] : ToldApart(f) =>
             text[f] = IF f \in DOMAIN request[r].open THEN request[r].open[f] ELSE input[b][f]
    BY <1>5, RefreshedIs DEF TypeInv
  <2>2. input' = [input EXCEPT ![b] = text]
    BY <1>6
  <2> HIDE DEF text
  <2> QED BY <2>1, <2>2
<1>8. /\ input' \in [Requests -> PartialTexts] /\ input'[b] = new
      /\ \A p \in Requests \ {b} : input'[p] = input[p]
  BY <1>5, <1>7
<1>9. AskTypeOK'
  BY <1>0, <1>4, <1>8, MovesType DEF Hit, TypeInv, AskTypeOK
<1>10. channel' \in Seq(0 .. MaxRequests)
  BY Received0 DEF Hit, TypeInv
<1>11. TypeInv'
  BY <1>9, <1>10 DEF Hit, TypeInv, ServerTypeOK, WorkerTypeOK, serverVars, workerVars
<1>12. r \in 0 .. MaxRequests /\ \A q \in Requests :
          \/ request'[q] = request[q]
          \/ q = r /\ request'[q].pc \in Received
  BY <1>4, BoundAssumption DEF Moves, Received, Requests
<1>13. OrderInv'
  BY <1>12, OrderReceives DEF Hit
<1>14. \A p \in Requests : DOMAIN input'[p] = DOMAIN input[p]
  BY <1>7, <1>8
<1>15. LastInv'
  BY <1>0, <1>4, <1>14, LastKeeps DEF Hit, workerVars, Settled
<1>16. BuildInv'
  BY <1>4, BuildKeeps DEF Hit, workerVars, Settled
<1>17. Answers(request, requests, disturbed, r, input'[b])
  <2>1. r \in r .. requests
    BY <1>0, Counts
  <2> QED BY <1>3, <1>7, <1>8, <2>1 DEF Answers, Due
<1>18. ASSUME NEW q \in Requests \ {r}, NEW p \in Requests, request[q].pc = "responding",
              Answers(request, requests, disturbed, q, input[p])
       PROVE  Answers(request, requests, disturbed, q, input'[p])
  <2>1. CASE p # b
    BY <1>8, <1>18, <2>1
  <2>2. CASE p = b
    <3>1. r \in q .. requests
      BY <1>0, <1>18, Counts DEF Received
    <3>2. request[q].source \in DOMAIN new /\ DOMAIN new = DOMAIN input[b]
      BY <1>7, <1>18, <2>2 DEF Answers
    <3>3. ASSUME NEW f \in DOMAIN new \cap DOMAIN request[q].open, Due(request, disturbed, q, f)
          PROVE  \E k \in q .. requests :
                   f \in DOMAIN request[k].open /\ new[f] = request[k].open[f]
      <4>1. CASE f \in DOMAIN request[r].open
        BY <1>7, <3>1, <3>2, <3>3, <4>1 DEF Due
      <4>2. CASE f \notin DOMAIN request[r].open
        <5>1. new[f] = input[b][f]
          BY <1>7, <3>2, <3>3, <4>2 DEF Due
        <5> QED BY <1>18, <2>2, <3>2, <3>3, <5>1 DEF Answers
      <4> QED BY <4>1, <4>2
    <3>4. Answers(request, requests, disturbed, q, new)
      BY <3>2, <3>3 DEF Answers
    <3> QED BY <1>8, <2>2, <3>4
  <2> QED BY <2>1, <2>2
<1>19. response'[r] = {} /\ requests' = requests /\ \A q \in Requests \ {r} : response'[q] = response[q]
  BY <1>0 DEF Hit, AnswersInv
<1>20. request'[b].pc \in Settled
  BY <1>3, <1>4 DEF Moves, Settled
<1>21. request[r].pc \notin Settled /\ request'[r].pc # "reading"
  BY <1>0, <1>4 DEF Settled
<1>22. AnswersInv'
  BY <1>0, <1>4, <1>17, <1>18, <1>19, <1>20, <1>21, MoveKeeps DEF Hit
<1> QED BY <1>11, <1>13, <1>15, <1>16, <1>22

LEMMA MissKeeps ==
  ASSUME CacheInv, NEW r \in Requests, Miss(r)
  PROVE  CacheInv'
<1> USE DEF CacheInv
<1>0. /\ request[r].pc = "sent" /\ r <= requests /\ request[r].read = NoTexts
      /\ DOMAIN NoTexts = {} /\ request[r].open \in PartialTexts
  BY ReceivedIsNext, NoTextsType DEF Miss, BuildInv, TypeInv, AskTypeOK, RequestRecords
<1>1. /\ Moves(request, request', r)
      /\ request'[r].pc = "reading" /\ request'[r].todo = {request[r].source}
      /\ request'[r].read = NoTexts
      /\ request'[r].source = request[r].source /\ request'[r].open = request[r].open
      /\ \A q \in Requests \ {r} : request'[q] = request[q]
  BY <1>0, MissMoves DEF Miss, TypeInv, Moves
<1>2. AskTypeOK'
  BY <1>0, <1>1, MovesType DEF Miss, TypeInv, AskTypeOK
<1>3. channel' \in Seq(0 .. MaxRequests)
  BY Received0 DEF Miss, TypeInv
<1>4. TypeInv'
  BY <1>0, <1>2, <1>3 DEF Miss, TypeInv, ServerTypeOK, WorkerTypeOK, serverVars
<1>5. r \in 0 .. MaxRequests /\ \A q \in Requests :
         \/ request'[q] = request[q]
         \/ q = r /\ request'[q].pc \in Received
  BY <1>1, BoundAssumption DEF Received, Requests
<1>6. OrderInv'
  BY <1>5, OrderReceives DEF Miss
<1>7. request[r].pc \notin Settled /\ request'[r].pc # "responding"
  BY <1>0, <1>1 DEF Settled
<1>8. LastInv'
  BY <1>1, <1>7, LastKeeps DEF Miss
<1>9. response'[r] = {} /\ requests' = requests /\ \A q \in Requests \ {r} : response'[q] = response[q]
  BY <1>0 DEF Miss, AnswersInv
<1>10. AnswersInv'
  BY <1>0, <1>1, <1>7, <1>9, MoveKeeps DEF Miss
<1>11. \A q \in Requests : request'[q].pc = "sent" => request'[q].read = NoTexts
  BY <1>1 DEF BuildInv
<1>12. ASSUME NEW q \in Requests \ disturbed', request'[q].pc = "reading"
       PROVE  /\ openDocument' = request'[q].open
              /\ \A f \in DOMAIN request'[q].read :
                   /\ f \in DOMAIN request'[q].open => request'[q].read[f] = request'[q].open[f]
                   /\ request'[q].read[f].imports \subseteq DOMAIN request'[q].read \cup request'[q].todo
  <2>1. q = r
    BY <1>1, <1>12 DEF Miss, Building
  <2>2. openDocument' = request'[q].open /\ DOMAIN request'[q].read = {}
    BY <1>0, <1>1, <2>1 DEF Miss
  <2> QED BY <2>2
<1>13. BuildInv'
  BY <1>11, <1>12 DEF BuildInv, Building
<1> QED BY <1>4, <1>6, <1>8, <1>10, <1>13

LEMMA ReadKeeps ==
  ASSUME CacheInv, NEW r \in Requests, NEW f \in Docs, ReadSource(r, f)
  PROVE  CacheInv'
<1> USE DEF CacheInv
<1>0. request[r].pc = "reading" /\ r <= requests /\ f \in request[r].todo
  <2>1. request[r].pc = "reading" /\ f \in request[r].todo
    BY DEF ReadSource, Building
  <2> QED BY <2>1, Counts DEF OrderInv
<1>1. PICK text \in Text, read \in PartialTexts, todo \in SUBSET Docs :
        /\ text = IF f \in DOMAIN openDocument THEN openDocument[f] ELSE disk[f]
        /\ read = With(request[r].read, f, text)
        /\ todo = (request[r].todo \cup text.imports) \ DOMAIN read
        /\ Moves(request, request', r)
        /\ request'[r].pc = "reading" /\ request'[r].read = read /\ request'[r].todo = todo
  BY ReadIs
<1>2. /\ request'[r].source = request[r].source /\ request'[r].open = request[r].open
      /\ \A q \in Requests \ {r} : request'[q] = request[q]
  BY <1>1 DEF Moves
<1>3. /\ DOMAIN read = DOMAIN request[r].read \cup {f} /\ read[f] = text
      /\ \A g \in DOMAIN request[r].read \ {f} : read[g] = request[r].read[g]
  <2>1. request[r].read \in PartialTexts
    BY DEF TypeInv, AskTypeOK, RequestRecords
  <2>2. PICK old \in PartialTexts : old = request[r].read
    BY <2>1
  <2>3. /\ DOMAIN With(old, f, text) = DOMAIN old \cup {f}
        /\ With(old, f, text)[f] = text
        /\ \A g \in DOMAIN old \ {f} : With(old, f, text)[g] = old[g]
    BY WithIs
  <2>4. read = With(old, f, text)
    BY <1>1, <2>2
  <2> QED BY <2>2, <2>3, <2>4
<1>4. AskTypeOK'
  BY <1>0, <1>1, MovesType DEF ReadSource, TypeInv, AskTypeOK
<1>5. TypeInv'
  BY <1>4 DEF ReadSource, TypeInv, ServerTypeOK, WorkerTypeOK, serverVars, workerVars
<1>6. OrderInv'
  BY <1>0, <1>1, <1>2, OrderStays DEF ReadSource, Received
<1>7. request[r].pc \notin Settled /\ request'[r].pc # "responding"
  BY <1>0, <1>1 DEF Settled
<1>8. LastInv'
  BY <1>1, <1>7, LastKeeps DEF ReadSource, workerVars
<1>9. response'[r] = {} /\ requests' = requests /\ \A q \in Requests \ {r} : response'[q] = response[q]
  BY <1>0 DEF ReadSource, AnswersInv
<1>10. DOMAIN request[r].read \cup request[r].todo \subseteq DOMAIN read \cup todo
  BY <1>1, <1>3
<1>11. request'[r].source \in DOMAIN request'[r].read \cup request'[r].todo
  BY <1>0, <1>1, <1>2, <1>10 DEF AnswersInv, Building
<1>12. AnswersInv'
  BY <1>0, <1>1, <1>7, <1>9, <1>11, MoveKeeps DEF ReadSource
<1>13. \A q \in Requests : request'[q].pc = "sent" => request'[q].read = NoTexts
  BY <1>1, <1>2 DEF BuildInv
<1>14. ASSUME NEW q \in Requests \ disturbed, request'[q].pc = "reading"
       PROVE  /\ openDocument = request'[q].open
              /\ \A g \in DOMAIN request'[q].read :
                   /\ g \in DOMAIN request'[q].open => request'[q].read[g] = request'[q].open[g]
                   /\ request'[q].read[g].imports \subseteq DOMAIN request'[q].read \cup request'[q].todo
  <2>1. CASE q # r
    BY <1>2, <1>14, <2>1 DEF BuildInv, Building
  <2>2. CASE q = r
    <3>1. /\ openDocument = request[r].open
          /\ \A g \in DOMAIN request[r].read :
               /\ g \in DOMAIN request[r].open => request[r].read[g] = request[r].open[g]
               /\ request[r].read[g].imports \subseteq DOMAIN request[r].read \cup request[r].todo
      BY <1>0, <1>14, <2>2 DEF BuildInv, Building
    <3>2. ASSUME NEW g \in DOMAIN read
          PROVE  /\ g \in DOMAIN request[r].open => read[g] = request[r].open[g]
                 /\ read[g].imports \subseteq DOMAIN read \cup todo
      <4>1. CASE g = f
        BY <1>1, <1>3, <3>1, <4>1
      <4>2. CASE g # f
        <5>1. g \in DOMAIN request[r].read \ {f}
          BY <1>3, <3>2, <4>2
        <5> QED BY <1>3, <1>10, <3>1, <5>1
      <4> QED BY <4>1, <4>2
    <3> QED BY <1>1, <1>2, <2>2, <3>1, <3>2
  <2> QED BY <2>1, <2>2
<1>15. BuildInv'
  BY <1>13, <1>14 DEF BuildInv, Building, ReadSource, workerVars
<1> QED BY <1>5, <1>6, <1>8, <1>12, <1>15

LEMMA StoreKeeps ==
  ASSUME CacheInv, NEW r \in Requests, StoreInput(r)
  PROVE  CacheInv' /\ (r \notin disturbed => Closed(input'[r]))
<1> USE DEF CacheInv
<1>0. request[r].pc = "reading" /\ r <= requests /\ request[r].todo = {}
  <2>1. request[r].pc = "reading" /\ request[r].todo = {}
    BY DEF StoreInput, Building
  <2> QED BY <2>1, Counts DEF OrderInv
<1>1. Moves(request, request', r) /\ request'[r].pc = "responding" /\ request'[r].builder = r
  BY StoreMoves DEF StoreInput, TypeInv
<1>2. PICK read : read = request[r].read
  OBVIOUS
<1>3. PICK new : new = Modified(read, r)
  OBVIOUS
<1>4. /\ new \in PartialTexts /\ DOMAIN new = DOMAIN read
      /\ \A f \in DOMAIN read :
           new[f] = IF f \in DOMAIN request[r].open /\ ~request[r].open[f].empty
                    THEN request[r].open[f] ELSE read[f]
  <2>1. read \in PartialTexts
    BY <1>2 DEF TypeInv, AskTypeOK, RequestRecords
  <2> QED BY <1>3, <2>1, ModifiedIs DEF TypeInv
<1>5. /\ input' \in [Requests -> PartialTexts] /\ input'[r] = new
      /\ \A p \in Requests \ {r} : input'[p] = input[p]
  BY <1>2, <1>3, <1>4 DEF StoreInput, TypeInv, AskTypeOK
<1>6. AskTypeOK'
  BY <1>0, <1>1, <1>5, MovesType DEF StoreInput, TypeInv, AskTypeOK
<1>7. Analysis(r) \in Analyses /\ Analysis(r).doc = request[r].source
  BY <1>0, AnalysisType DEF TypeInv
<1>8. PICK c : c = [analysis |-> Analysis(r), builder |-> r]
  OBVIOUS
<1>9. last' = {c} /\ c \in [analysis : Analyses, builder : Requests]
  BY <1>7, <1>8 DEF StoreInput
<1>10. TypeInv'
  BY <1>6, <1>9 DEF StoreInput, TypeInv, ServerTypeOK, WorkerTypeOK, serverVars
<1>11. OrderInv'
  BY <1>0, <1>1, OrderStays DEF StoreInput, Received, Moves
<1>12. request[r].source \in DOMAIN read
  BY <1>0, <1>2 DEF AnswersInv, Building
<1>13. c.builder = r /\ c.analysis.doc = request[r].source /\ request'[r].pc \in Settled
  BY <1>1, <1>7, <1>8 DEF Settled
<1>14. LastInv'
  BY <1>4, <1>5, <1>9, <1>12, <1>13 DEF LastInv
<1>15. BuildInv'
  BY <1>1, BuildKeeps DEF StoreInput, Settled
<1>16. Answers(request, requests, disturbed, r, new)
  <2>1. r \in r .. requests
    BY <1>0, Counts
  <2>2. ASSUME NEW f \in DOMAIN new \cap DOMAIN request[r].open, Due(request, disturbed, r, f)
        PROVE  new[f] = request[r].open[f]
    <3>1. CASE ~request[r].open[f].empty
      BY <1>4, <2>2, <3>1
    <3>2. CASE request[r].open[f].empty
      <4>1. r \notin disturbed
        BY <2>2, <3>2 DEF Due
      <4>2. read[f] = request[r].open[f]
        BY <1>0, <1>2, <1>4, <2>2, <4>1 DEF BuildInv, Building
      <4> QED BY <1>4, <2>2, <3>2, <4>2
    <3> QED BY <3>1, <3>2
  <2> QED BY <1>4, <1>12, <2>1, <2>2 DEF Answers
<1>17. response'[r] = {} /\ requests' = requests /\ \A q \in Requests \ {r} : response'[q] = response[q]
  BY <1>0 DEF StoreInput, AnswersInv
<1>18. request[r].pc \notin Settled /\ request'[r].pc # "reading"
  BY <1>0, <1>1 DEF Settled
<1>19. \A p \in Requests : request[p].pc \in Settled => input'[p] = input[p]
  BY <1>5, <1>18
<1>20. AnswersInv'
  BY <1>0, <1>1, <1>5, <1>13, <1>16, <1>17, <1>18, <1>19, MoveKeeps DEF StoreInput
<1>21. ASSUME r \notin disturbed PROVE Closed(new)
  <2>1. \A f \in DOMAIN read :
          /\ f \in DOMAIN request[r].open => read[f] = request[r].open[f]
          /\ read[f].imports \subseteq DOMAIN read
    BY <1>0, <1>2, <1>21 DEF BuildInv, Building
  <2>2. \A f \in DOMAIN read : new[f] = read[f]
    BY <1>4, <2>1
  <2> QED BY <1>4, <2>1, <2>2 DEF Closed
<1> QED BY <1>5, <1>10, <1>11, <1>14, <1>15, <1>20, <1>21

LEMMA FailKeeps ==
  ASSUME CacheInv, NEW r \in Requests, Fail(r)
  PROVE  CacheInv'
<1> USE DEF CacheInv
<1>0. request[r].pc = "reading" /\ r <= requests
  <2>1. request[r].pc = "reading"
    BY DEF Fail, Building
  <2> QED BY <2>1, Counts DEF OrderInv
<1>1. Moves(request, request', r) /\ request'[r].pc = "done"
  BY FailMoves DEF Fail, TypeInv
<1>2. AskTypeOK'
  BY <1>0, <1>1, MovesType DEF Fail, TypeInv, AskTypeOK
<1>3. TypeInv'
  BY <1>2 DEF Fail, TypeInv, ServerTypeOK, WorkerTypeOK, serverVars
<1>4. OrderInv'
  BY <1>0, <1>1, OrderStays DEF Fail, Received, Moves
<1>5. LastInv'
  BY DEF Fail, LastInv
<1>6. BuildInv'
  BY <1>1, BuildKeeps DEF Fail, Settled
<1>7. response'[r] = {} /\ requests' = requests /\ \A q \in Requests \ {r} : response'[q] = response[q]
  BY <1>0 DEF Fail, AnswersInv
<1>8. request[r].pc \notin Settled
  BY <1>0 DEF Settled
<1>9. AnswersInv'
  BY <1>0, <1>1, <1>7, <1>8, MoveKeeps DEF Fail
<1> QED BY <1>3, <1>4, <1>5, <1>6, <1>9

LEMMA RespondKeeps ==
  ASSUME CacheInv, NEW r \in Requests, Respond(r)
  PROVE  CacheInv'
<1> USE DEF CacheInv
<1>0. request[r].pc = "responding" /\ r <= requests
  <2>1. request[r].pc = "responding"
    BY DEF Respond
  <2> QED BY <2>1, Counts DEF OrderInv
<1>1. Moves(request, request', r) /\ request'[r].pc = "done"
  <2>1. request \in [Requests -> RequestRecords] /\ "done" \in Places
    BY DEF TypeInv, AskTypeOK, Places
  <2>2. request' = [request EXCEPT ![r].pc = "done"]
    BY DEF Respond, Goto
  <2> QED BY <2>1, <2>2, SetPc
<1>2. PICK b \in Requests : b = request[r].builder
  BY <1>0 DEF AnswersInv
<1>3. Answers(request, requests, disturbed, r, input[b])
  BY <1>0, <1>2 DEF AnswersInv
<1>4. /\ input[b] \in PartialTexts /\ response' \in [Requests -> SUBSET PartialTexts]
      /\ response'[r] = {input[b]} /\ \A q \in Requests \ {r} : response'[q] = response[q]
  BY <1>2 DEF Respond, TypeInv, AskTypeOK
<1>5. AskTypeOK'
  BY <1>0, <1>1, <1>4, MovesType DEF Respond, TypeInv, AskTypeOK
<1>6. TypeInv'
  BY <1>5 DEF Respond, TypeInv, ServerTypeOK, WorkerTypeOK, serverVars, workerVars
<1>7. OrderInv'
  BY <1>0, <1>1, OrderStays DEF Respond, Received, Moves
<1>8. request'[r].pc \in Settled
  BY <1>1 DEF Settled
<1>9. LastInv'
  BY <1>1, <1>8, LastKeeps DEF Respond, workerVars
<1>10. BuildInv'
  BY <1>1, <1>8, BuildKeeps DEF Respond, workerVars
<1>11. AnswersInv'
  BY <1>0, <1>1, <1>3, <1>4, <1>8, MoveKeeps DEF Respond
<1> QED BY <1>6, <1>7, <1>9, <1>10, <1>11

-----------------------------------------------------------------------------
(* The theorems *)

LEMMA CacheInit == Init => CacheInv
<1> SUFFICES ASSUME Init PROVE CacheInv
  OBVIOUS
<1>1. TypeInv
  BY TypeInit
<1>2. /\ \A r \in Requests : request[r].pc = "none" /\ response[r] = {}
      /\ channel = <<>> /\ last = {}
  BY DEF Init, NoRequest
<1>3. Len(channel) = 0
  BY <1>2
<1>4. OrderInv
  BY <1>2, <1>3 DEF OrderInv, Received
<1> QED BY <1>1, <1>2, <1>4 DEF CacheInv, LastInv, AnswersInv, BuildInv, Building

LEMMA CacheStep == CacheInv /\ [Next]_vars => CacheInv'
<1> SUFFICES ASSUME CacheInv, [Next]_vars PROVE CacheInv'
  OBVIOUS
<1>1. CASE Server
  BY <1>1, ServerKeeps
<1>2. CASE InvalidateCache
  BY <1>2, InvalidateKeeps
<1>3. ASSUME NEW r \in Requests, Worker(r) PROVE CacheInv'
  BY <1>3, HitKeeps, MissKeeps, ReadKeeps, StoreKeeps, FailKeeps, RespondKeeps DEF Worker
<1>4. CASE UNCHANGED vars
  BY <1>4 DEF vars, serverVars, workerVars, askVars, CacheInv, TypeInv, ServerTypeOK,
              WorkerTypeOK, AskTypeOK, OrderInv, LastInv, AnswersInv, BuildInv, Building
<1> QED BY <1>1, <1>2, <1>3, <1>4 DEF Next

\* What the worker keeps about its builds is right whatever builds overlap: the
\* requests are received in the order in which they were made, the remembered
\* build is complete, the inputs on their way answer the requests that share
\* them, and an undisturbed build reads through the documents it was asked with.
THEOREM BuildsAreSound == Spec => []CacheInv
BY CacheInit, CacheStep, PTL DEF Spec

\* Every variable has its type.
THEOREM TypeCorrect == Spec => []TypeOK
<1>1. CacheInv => TypeOK
  BY TypeInvImplies DEF CacheInv
<1> QED BY <1>1, BuildsAreSound, PTL

\* However builds overlap and share inputs, an answer of _getCompilationDetails has
\* the document it was asked for, and an open document whose name is not that of
\* others is in no text older than the one it was asked with.
THEOREM AskedTexts == Spec => []AskedTextsReach
<1>1. CacheInv => AskedTextsReach
  BY DEF CacheInv, AnswersInv, Answers, Due, AskedTextsReach, Reaches
<1> QED BY <1>1, BuildsAreSound, PTL

\* A build that no other build began during makes an input with every file that
\* the texts in it import, whatever the editor does meanwhile.
THEOREM UndisturbedClosed == Spec => UndisturbedIsClosed
<1>1. CacheInv /\ [Next]_vars =>
        [\A r \in Requests \ disturbed : StoreInput(r) => Closed(input'[r])]_vars
  BY StoreKeeps
<1> QED BY <1>1, BuildsAreSound, PTL DEF Spec, UndisturbedIsClosed
=============================================================================
