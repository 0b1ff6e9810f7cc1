------------------------ MODULE RelayDeliveryProofs ------------------------
(***************************************************************************)
(* For any number of deliveries, sockets and restarts: sequence numbers    *)
(* are distinct, what is acknowledged was handled, and a working socket    *)
(* has every unacknowledged delivery.                                      *)
(***************************************************************************)
EXTENDS RelayDelivery, SequenceTheorems, WellFoundedInduction, TLAPS

\* The numbers that are out: the counter is above all of them, and a request
\* that has one has it for itself.
SequencesInv ==
    /\ counter \in 1 .. MaxSequence + 1
    /\ \A d \in Deliveries : row[d] < counter
    /\ \A d \in Deliveries : posting[d].step = "numbered" =>
          /\ posting[d].number \in 1 .. counter - 1
          /\ \A e \in Deliveries :
                /\ row[e] # posting[d].number
                /\ posting[e].step = "numbered" /\ posting[e].number = posting[d].number => e = d
    /\ SequencesDistinct

\* An acknowledgement under way is for a delivery a handler is done with.
AcksInv ==
    /\ AckedWasHandled
    /\ \A s \in Sockets : socket[s].acks \subseteq handled \cup unheard

\* The relay serves no socket that was never opened.
OpenedFirst == \A s \in Sockets : socket[s].client = "absent" => socket[s].server = "absent"

RelayInv == RelayTypeOK /\ SequencesInv /\ AcksInv /\ OpenedFirst /\ NothingOutOfReach

-----------------------------------------------------------------------------
(* Sequences and numbers. *)

LEMMA AppendSet ==
    ASSUME NEW S, NEW q \in Seq(S), NEW x \in S
    PROVE  ToSet(Append(q, x)) = ToSet(q) \cup {x}
<1>1. Append(q, x) \in Seq(S) /\ Len(Append(q, x)) = Len(q) + 1
  OBVIOUS
<1>2. /\ \A i \in 1 .. Len(q) : Append(q, x)[i] = q[i]
      /\ Append(q, x)[Len(q) + 1] = x
  OBVIOUS
<1>3. DOMAIN q = 1 .. Len(q) /\ DOMAIN Append(q, x) = 1 .. Len(q) + 1 /\ Len(q) \in Nat
  BY <1>1
<1> QED
  BY <1>2, <1>3 DEF ToSet

LEMMA TailSet ==
    ASSUME NEW S, NEW q \in Seq(S), q # <<>>
    PROVE  /\ Head(q) \in S /\ Tail(q) \in Seq(S)
           /\ ToSet(q) = {Head(q)} \cup ToSet(Tail(q))
<1>1. /\ Head(q) = q[1] /\ Len(q) \in Nat /\ Len(q) # 0
      /\ Len(Tail(q)) = Len(q) - 1
      /\ \A i \in 1 .. Len(Tail(q)) : Tail(q)[i] = q[i + 1]
  BY HeadTailProperties, EmptySeq
<1>2. Head(q) \in S /\ Tail(q) \in Seq(S)
  BY HeadTailProperties
<1>3. DOMAIN q = 1 .. Len(q) /\ DOMAIN Tail(q) = 1 .. Len(q) - 1
  BY <1>1, <1>2, LenProperties
<1>4. \A i \in 1 .. Len(q) : i = 1 \/ (i - 1 \in 1 .. Len(q) - 1 /\ q[i] = Tail(q)[i - 1])
  BY <1>1
<1>5. \A i \in 1 .. Len(q) - 1 : i + 1 \in 1 .. Len(q) /\ Tail(q)[i] = q[i + 1]
  BY <1>1
<1>6. 1 \in 1 .. Len(q)
  BY <1>1
<1>7. ToSet(q) \subseteq {Head(q)} \cup ToSet(Tail(q))
  <2> SUFFICES ASSUME NEW i \in 1 .. Len(q) PROVE q[i] \in {Head(q)} \cup ToSet(Tail(q))
    BY <1>3 DEF ToSet
  <2> QED
    BY <1>1, <1>3, <1>4 DEF ToSet
<1>8. {Head(q)} \cup ToSet(Tail(q)) \subseteq ToSet(q)
  <2>1. Head(q) \in ToSet(q)
    BY <1>1, <1>3, <1>6 DEF ToSet
  <2>2. \A i \in 1 .. Len(q) - 1 : Tail(q)[i] \in ToSet(q)
    BY <1>3, <1>5 DEF ToSet
  <2> QED
    BY <2>1, <2>2, <1>3 DEF ToSet
<1> QED
  BY <1>2, <1>7, <1>8

LEMMA ConcatSet ==
    ASSUME NEW S, NEW q \in Seq(S), NEW r \in Seq(S)
    PROVE  /\ q \o r \in Seq(S)
           /\ ToSet(q \o r) = ToSet(q) \cup ToSet(r)
<1>1. /\ q \o r \in Seq(S) /\ Len(q \o r) = Len(q) + Len(r)
      /\ \A i \in 1 .. Len(q) + Len(r) : (q \o r)[i] = IF i <= Len(q) THEN q[i] ELSE r[i - Len(q)]
  BY ConcatProperties
<1>2. /\ DOMAIN q = 1 .. Len(q) /\ DOMAIN r = 1 .. Len(r)
      /\ DOMAIN (q \o r) = 1 .. Len(q) + Len(r)
      /\ Len(q) \in Nat /\ Len(r) \in Nat
  BY <1>1, LenProperties
<1>3. \A i \in 1 .. Len(r) : Len(q) + i \in 1 .. Len(q) + Len(r) /\ (q \o r)[Len(q) + i] = r[i]
  BY <1>1, <1>2
<1>4. \A i \in 1 .. Len(q) : i \in 1 .. Len(q) + Len(r) /\ (q \o r)[i] = q[i]
  BY <1>1, <1>2
<1>5. ToSet(q) \cup ToSet(r) \subseteq ToSet(q \o r)
  <2>1. \A i \in 1 .. Len(q) : q[i] \in ToSet(q \o r)
    BY <1>2, <1>4 DEF ToSet
  <2>2. \A i \in 1 .. Len(r) : r[i] \in ToSet(q \o r)
    BY <1>2, <1>3 DEF ToSet
  <2> QED
    BY <2>1, <2>2, <1>2 DEF ToSet
<1>6. ToSet(q \o r) \subseteq ToSet(q) \cup ToSet(r)
  <2> SUFFICES ASSUME NEW i \in 1 .. Len(q) + Len(r)
               PROVE  (q \o r)[i] \in ToSet(q) \cup ToSet(r)
    BY <1>2 DEF ToSet
  <2>1. CASE i <= Len(q)
    BY <2>1, <1>1, <1>2 DEF ToSet
  <2>2. CASE i > Len(q)
    <3>1. i - Len(q) \in 1 .. Len(r) /\ (q \o r)[i] = r[i - Len(q)]
      BY <2>2, <1>1, <1>2
    <3> QED
      BY <3>1, <1>2 DEF ToSet
  <2> QED
    BY <2>1, <2>2, <1>2
<1> QED
  BY <1>1, <1>5, <1>6

\* A set of numbers with a bound has a largest one: here, of the table.
LEMMA NextSequenceIsFree ==
    ASSUME row \in [Deliveries -> 0 .. MaxSequence]
    PROVE  /\ NextSequence \in 1 .. MaxSequence + 1
           /\ \A d \in Deliveries : row[d] < NextSequence
<1> DEFINE Bounds == {n \in Nat : n <= MaxSequence /\ \A d \in Deliveries : row[d] <= n}
<1>1. MaxSequence \in Bounds
  BY RelayAssumption
<1>2. PICK n \in Bounds : \A k \in Bounds : ~(<<k, n>> \in OpToRel(<, Nat))
  BY <1>1, NatLessThanWellFounded, WFMin, Zenon
<1>3. \A k \in Bounds : n <= k
  <2> SUFFICES ASSUME NEW k \in Bounds, k < n PROVE FALSE
    OBVIOUS
  <2>1. <<k, n>> \in Nat \X Nat /\ <<k, n>>[1] = k /\ <<k, n>>[2] = n
    OBVIOUS
  <2>2. <<k, n>> \in OpToRel(<, Nat)
    BY <2>1 DEF OpToRel
  <2> QED
    BY <2>2, <1>2
<1>4. n = 0 \/ \E d \in Deliveries : row[d] = n
  <2> SUFFICES ASSUME n # 0, \A d \in Deliveries : row[d] # n PROVE FALSE
    OBVIOUS
  <2>1. n - 1 \in Bounds
    BY RelayAssumption
  <2> QED
    BY <2>1, <1>3
<1>5. \E k \in 0 .. MaxSequence : /\ \A d \in Deliveries : row[d] <= k
                                  /\ k = 0 \/ \E d \in Deliveries : row[d] = k
  BY <1>4, RelayAssumption
<1> DEFINE high == CHOOSE k \in 0 .. MaxSequence :
                      /\ \A d \in Deliveries : row[d] <= k
                      /\ k = 0 \/ \E d \in Deliveries : row[d] = k
<1>6. high \in 0 .. MaxSequence /\ \A d \in Deliveries : row[d] <= high
  BY <1>5
<1>7. NextSequence = 1 + high
  BY DEF NextSequence
<1> HIDE DEF high
<1> QED
  BY <1>6, <1>7, RelayAssumption

-----------------------------------------------------------------------------
(* Types. *)

\* What a replay sends is a sequence of unacknowledged deliveries.
LEMMA BacklogType ==
    ASSUME NEW q \in BoundedSeq(Unacked, ReplayLimit)
    PROVE  q \in Seq(Deliveries) /\ q \in Seq(Unacked)
<1>1. PICK n \in 0 .. ReplayLimit : q \in [1 .. n -> Unacked]
  BY DEF BoundedSeq, SeqOf
<1>2. n \in Nat
  BY RelayAssumption
<1>3. q \in Seq(Unacked)
  BY <1>1, <1>2, SeqDef
<1>4. Unacked \subseteq Deliveries
  BY DEF Unacked
<1> QED
  BY <1>3, <1>4, SeqMonotonic

LEMMA TypesInit == Init => RelayTypeOK
  BY EmptySeq DEF Init, RelayTypeOK, SocketType, NewSocket, Idle

LEMMA RelayTypes ==
    ASSUME RelayTypeOK, SequencesInv, RelayStep
    PROVE  RelayTypeOK'
<1>0. socket \in [Sockets -> SocketType]
  BY DEF RelayTypeOK
<1>1. ASSUME NEW d \in Deliveries, TakeNumber(d) PROVE RelayTypeOK'
  BY <1>1 DEF TakeNumber, RelayTypeOK
<1>2. ASSUME NEW d \in Deliveries, Insert(d) PROVE RelayTypeOK'
  BY <1>2 DEF Insert, Idle, RelayTypeOK
<1>3. ASSUME NEW d \in Deliveries, InsertFails(d) PROVE RelayTypeOK'
  BY <1>3 DEF InsertFails, Idle, RelayTypeOK
<1>4. ASSUME NEW d \in Deliveries, Push(d) PROVE RelayTypeOK'
  <2>1. \A s \in Sockets : Append(socket[s].queue, d) \in Seq(Deliveries)
    BY <1>0 DEF SocketType
  <2>2. \A s \in Sockets : [socket[s] EXCEPT !.queue = Append(@, d)] \in SocketType
    BY <1>0, <2>1 DEF SocketType
  <2>3. socket' \in [Sockets -> SocketType]
    BY <1>0, <1>4, <2>2 DEF Push
  <2> QED
    BY <2>3, <1>4 DEF Push, Idle, RelayTypeOK
<1>5. ASSUME NEW s \in Sockets, Register(s) PROVE RelayTypeOK'
  <2>1. socket' \in [Sockets -> SocketType]
    BY <1>0, <1>5 DEF Register, SocketType
  <2> QED
    BY <2>1, <1>5 DEF Register, RelayTypeOK
<1>6. ASSUME NEW s \in Sockets, Replay(s) PROVE RelayTypeOK'
  <2>1. PICK q \in BoundedSeq(Unacked, ReplayLimit) :
           socket' = [socket EXCEPT ![s] =
             [@ EXCEPT !.server = "open",
                       !.queue = IF s \in Live THEN socket[s].queue \o q ELSE socket[s].queue,
                       !.missed = IF s \in Live /\ Len(q) = ReplayLimit
                                  THEN Lacks(s) \ ToSet(q) ELSE {}]]
    BY <1>6 DEF Replay
  <2> DEFINE queue == IF s \in Live THEN socket[s].queue \o q ELSE socket[s].queue
             missed == IF s \in Live /\ Len(q) = ReplayLimit THEN Lacks(s) \ ToSet(q) ELSE {}
  <2>2. socket[s].queue \in Seq(Deliveries)
    BY <1>0 DEF SocketType
  <2>3. queue \in Seq(Deliveries) /\ missed \in SUBSET Deliveries
    BY <2>2, BacklogType, ConcatSet DEF Lacks, Unacked
  <2>4. socket' = [socket EXCEPT ![s] = [@ EXCEPT !.server = "open", !.queue = queue, !.missed = missed]]
    BY <2>1
  <2> HIDE DEF queue, missed
  <2>5. socket' \in [Sockets -> SocketType]
    BY <1>0, <2>3, <2>4 DEF SocketType
  <2> QED
    BY <2>5, <1>6 DEF Replay, RelayTypeOK
<1>10. ASSUME NEW s \in Sockets, ReplayFails(s) PROVE RelayTypeOK'
  <2> DEFINE missed == IF s \in Live THEN Lacks(s) ELSE {}
  <2>1. missed \in SUBSET Deliveries
    BY DEF Lacks, Unacked
  <2>2. socket' = [socket EXCEPT ![s] = [@ EXCEPT !.server = "open", !.missed = missed]]
    BY <1>10 DEF ReplayFails
  <2> HIDE DEF missed
  <2>3. socket' \in [Sockets -> SocketType]
    BY <1>0, <2>1, <2>2 DEF SocketType
  <2> QED
    BY <2>3, <1>10 DEF ReplayFails, RelayTypeOK
<1>11. ASSUME NEW s \in Sockets, NEW d \in Deliveries, AckFails(s, d) PROVE RelayTypeOK'
  <2>1. [socket[s] EXCEPT !.acks = socket[s].acks \ {d}, !.failed = socket[s].failed \cup {d}] \in SocketType
    BY <1>0 DEF SocketType
  <2>2. socket' \in [Sockets -> SocketType]
    BY <1>0, <1>11, <2>1 DEF AckFails
  <2> QED
    BY <2>2, <1>11 DEF AckFails, RelayTypeOK
<1>7. ASSUME NEW s \in Sockets, ServerEnds(s) PROVE RelayTypeOK'
  <2>1. socket' \in [Sockets -> SocketType]
    BY <1>0, <1>7 DEF ServerEnds, SocketType
  <2> QED
    BY <2>1, <1>7 DEF ServerEnds, RelayTypeOK
<1>8. ASSUME NEW s \in Sockets, NEW d \in Deliveries, AckArrives(s, d) PROVE RelayTypeOK'
  <2>1. socket' \in [Sockets -> SocketType]
    BY <1>0, <1>8 DEF AckArrives, SocketType
  <2> QED
    BY <2>1, <1>8 DEF AckArrives, RelayTypeOK
<1>9. ASSUME RelayRestarts PROVE RelayTypeOK'
  <2>1. row \in [Deliveries -> 0 .. MaxSequence]
    BY RelayAssumption DEF SequencesInv, RelayTypeOK
  <2>2. NextSequence \in Nat
    BY <2>1, NextSequenceIsFree, RelayAssumption
  <2>3. \A s \in Sockets : [socket[s] EXCEPT !.server = "closed", !.acks = {}] \in SocketType
    BY <1>0 DEF SocketType
  <2>4. socket' \in [Sockets -> SocketType]
    BY <1>0, <1>9, <2>3 DEF RelayRestarts
  <2> QED
    BY <1>9, <2>2, <2>4 DEF RelayRestarts, Idle, RelayTypeOK
<1> QED
  BY <1>1, <1>2, <1>3, <1>4, <1>5, <1>6, <1>7, <1>8, <1>9, <1>10, <1>11 DEF RelayStep

LEMMA ClientTypes ==
    ASSUME RelayTypeOK, ClientStep
    PROVE  RelayTypeOK'
<1>0. socket \in [Sockets -> SocketType]
  BY DEF RelayTypeOK
<1>1. ASSUME NEW s \in Sockets, Open(s) PROVE RelayTypeOK'
  <2>1. socket' \in [Sockets -> SocketType]
    BY <1>0, <1>1 DEF Open, SocketType
  <2> QED
    BY <2>1, <1>1 DEF Open, relay, RelayTypeOK
<1>2. ASSUME NEW s \in Sockets, TakeEvent(s) PROVE RelayTypeOK'
  <2>1. socket[s].queue \in Seq(Deliveries) /\ socket[s].queue # <<>>
    BY <1>0, <1>2 DEF TakeEvent, SocketType
  <2>2. /\ Head(socket[s].queue) \in Deliveries
        /\ Tail(socket[s].queue) \in Seq(Deliveries)
    BY <2>1, TailSet
  <2>3. ASSUME NEW d \in Deliveries, NEW q \in Seq(Deliveries)
        PROVE  [socket[s] EXCEPT !.current = d, !.queue = q] \in SocketType
    BY <1>0 DEF SocketType
  <2>4. [socket[s] EXCEPT !.current = Head(socket[s].queue), !.queue = Tail(socket[s].queue)] \in SocketType
    BY <2>2, <2>3
  <2>5. socket' \in [Sockets -> SocketType]
    BY <1>0, <1>2, <2>4 DEF TakeEvent
  <2> QED
    BY <2>5, <1>2 DEF TakeEvent, relay, RelayTypeOK
<1>3. ASSUME NEW s \in Sockets PROVE socket[s].current # None => socket[s].current \in Deliveries
  BY <1>0, <1>3 DEF SocketType
<1>4. ASSUME NEW s \in Sockets, HandlerCommits(s) PROVE RelayTypeOK'
  BY <1>3, <1>4 DEF HandlerCommits, relay, RelayTypeOK
<1>5. ASSUME NEW s \in Sockets, socket[s].current \in Deliveries
      PROVE  Answered(s) \in [Sockets -> SocketType]
  <2> DEFINE acks == IF socket[s].server = "closed" THEN socket[s].acks
                     ELSE socket[s].acks \cup {socket[s].current}
  <2>1. acks \in SUBSET Deliveries
    BY <1>0, <1>5 DEF SocketType
  <2>2. Answered(s) = [socket EXCEPT ![s] = [@ EXCEPT !.current = None, !.acks = acks]]
    BY DEF Answered
  <2> HIDE DEF acks
  <2> QED
    BY <1>0, <2>1, <2>2 DEF SocketType
<1>6. ASSUME NEW s \in Sockets, HandlerReturns(s) PROVE RelayTypeOK'
  <2>1. socket[s].current \in Deliveries
    BY <1>6 DEF HandlerReturns, RelayTypeOK
  <2> QED
    BY <2>1, <1>5, <1>6 DEF HandlerReturns, relay, RelayTypeOK
<1>7. ASSUME NEW s \in Sockets, HandlerFails(s) PROVE RelayTypeOK'
  <2>1. ASSUME NEW failed \in SUBSET Deliveries
        PROVE  [socket[s] EXCEPT !.failed = failed, !.current = None] \in SocketType
    BY <1>0 DEF SocketType
  <2>2. socket[s].failed \cup {socket[s].current} \in SUBSET Deliveries
    BY <1>0, <1>3, <1>7 DEF HandlerFails, SocketType
  <2>3. socket' \in [Sockets -> SocketType]
    BY <1>0, <1>7, <2>1, <2>2 DEF HandlerFails
  <2> QED
    BY <2>3, <1>7 DEF HandlerFails, relay, RelayTypeOK
<1>8. ASSUME NEW s \in Sockets, AnswerUnheard(s) PROVE RelayTypeOK'
  BY <1>3, <1>5, <1>8 DEF AnswerUnheard, relay, RelayTypeOK
<1>9. ASSUME NEW s \in Sockets PROVE Aborted(s) \in SocketType
  BY <1>0, EmptySeq DEF Aborted, SocketType
<1>10. ASSUME NEW s \in Sockets, ClientEnds(s) PROVE RelayTypeOK'
  BY <1>9, <1>10 DEF ClientEnds, relay, RelayTypeOK
<1>11. ASSUME NEW s \in Sockets, SettingsChange(s) PROVE RelayTypeOK'
  <2>1. socket[s].queue \in Seq(Deliveries)
    BY <1>0 DEF SocketType
  <2>2. ASSUME NEW n \in 0 .. Len(socket[s].queue)
        PROVE  [socket[s] EXCEPT !.client = "draining", !.queue = SubSeq(socket[s].queue, 1, n)] \in SocketType
    <3>1. SubSeq(socket[s].queue, 1, n) \in Seq(Deliveries)
      BY <2>1
    <3> QED
      BY <3>1, <1>0 DEF SocketType
  <2>3. PICK x \in SocketType : socket' = [socket EXCEPT ![s] = x]
    BY <1>9, <1>11, <2>2 DEF SettingsChange
  <2>4. socket' \in [Sockets -> SocketType]
    BY <1>0, <2>3
  <2> QED
    BY <2>4, <1>11 DEF SettingsChange, relay, RelayTypeOK
<1>12. ASSUME NEW s \in Sockets, DrainEnds(s) PROVE RelayTypeOK'
  BY <1>9, <1>12 DEF DrainEnds, relay, RelayTypeOK
<1>13. ASSUME ServerBoots PROVE RelayTypeOK'
  BY <1>9, <1>13 DEF ServerBoots, relay, RelayTypeOK
<1>14. ASSUME SetRuntime PROVE RelayTypeOK'
  BY <1>14 DEF SetRuntime, relay, RelayTypeOK
<1> QED
  BY <1>1, <1>2, <1>4, <1>6, <1>7, <1>8, <1>10, <1>11, <1>12, <1>13, <1>14 DEF ClientStep

-----------------------------------------------------------------------------
(* Sequence numbers: only requests and restarts touch them. *)

LEMMA SequencesInit == Init => SequencesInv
  BY RelayAssumption DEF Init, SequencesInv, SequencesDistinct, Stored, Idle

LEMMA SequencesKept ==
    ASSUME SequencesInv, UNCHANGED <<row, counter, posting>>
    PROVE  SequencesInv'
  BY DEF SequencesInv, SequencesDistinct, Stored

LEMMA RelaySequences ==
    ASSUME RelayTypeOK, SequencesInv, RelayStep
    PROVE  SequencesInv'
<1> USE DEF SequencesInv, SequencesDistinct, Stored
<1>0. /\ row \in [Deliveries -> Nat] /\ counter \in Nat
      /\ posting \in [Deliveries -> [step : {"idle", "numbered", "stored"}, number : Nat]]
  BY DEF RelayTypeOK
<1>1. ASSUME NEW d \in Deliveries, TakeNumber(d) PROVE SequencesInv'
  BY <1>0, <1>1, RelayAssumption DEF TakeNumber
<1>2. ASSUME NEW d \in Deliveries, Insert(d) PROVE SequencesInv'
  <2>1. CASE row[d] # 0
    BY <1>0, <1>2, <2>1 DEF Insert, Idle
  <2>2. CASE row[d] = 0
    BY <1>0, <1>2, <2>2 DEF Insert, Idle
  <2> QED
    BY <2>1, <2>2
<1>3. ASSUME NEW d \in Deliveries, InsertFails(d) \/ Push(d) PROVE SequencesInv'
  <2>1. row' = row /\ counter' = counter /\ posting' = [posting EXCEPT ![d] = Idle]
    BY <1>3 DEF InsertFails, Push
  <2> QED
    BY <1>0, <2>1 DEF Idle
<1>4. ASSUME NEW s \in Sockets,
             \/ Register(s) \/ Replay(s) \/ ReplayFails(s) \/ ServerEnds(s)
             \/ \E d \in Deliveries : AckArrives(s, d) \/ AckFails(s, d)
      PROVE  SequencesInv'
  BY <1>4, SequencesKept DEF Register, Replay, ReplayFails, ServerEnds, AckArrives, AckFails
<1>5. ASSUME RelayRestarts PROVE SequencesInv'
  <2>1. row \in [Deliveries -> 0 .. MaxSequence]
    BY <1>0, RelayAssumption
  <2> HIDE DEF Stored
  <2>2. NextSequence \in 1 .. MaxSequence + 1 /\ \A d \in Deliveries : row[d] < NextSequence
    BY <2>1, NextSequenceIsFree
  <2> QED
    BY <2>2, <1>5 DEF RelayRestarts, Idle, Stored
<1> QED
  BY <1>1, <1>2, <1>3, <1>4, <1>5 DEF RelayStep

LEMMA ClientSequences ==
    ASSUME SequencesInv, ClientStep
    PROVE  SequencesInv'
<1>1. UNCHANGED relay
  BY DEF ClientStep, Open, TakeEvent, HandlerCommits, HandlerReturns, HandlerFails,
         AnswerUnheard, ClientEnds, SettingsChange, DrainEnds, ServerBoots, SetRuntime
<1> QED
  BY <1>1, SequencesKept DEF relay

-----------------------------------------------------------------------------
(* Acknowledgements: an answer of a handler, or of a client without one. *)

LEMMA AcksInit == Init => AcksInv
  BY DEF Init, AcksInv, AckedWasHandled, NewSocket

LEMMA RelayAcks ==
    ASSUME RelayTypeOK, AcksInv, RelayStep
    PROVE  AcksInv'
<1> USE DEF AcksInv, AckedWasHandled
<1>0. socket \in [Sockets -> SocketType]
  BY DEF RelayTypeOK
<1>1. ASSUME NEW d \in Deliveries, TakeNumber(d) \/ Insert(d) \/ InsertFails(d) PROVE AcksInv'
  BY <1>1 DEF TakeNumber, Insert, InsertFails
<1>2. ASSUME NEW d \in Deliveries, Push(d) PROVE AcksInv'
  <2>1. \A s \in Sockets : socket'[s].acks = socket[s].acks
    BY <1>0, <1>2 DEF Push, SocketType
  <2> QED
    BY <1>2, <2>1 DEF Push
<1>3. ASSUME NEW s \in Sockets, Register(s) PROVE AcksInv'
  BY <1>0, <1>3 DEF Register, SocketType
<1>4. ASSUME NEW s \in Sockets, Replay(s) PROVE AcksInv'
  <2>1. \A r \in Sockets : socket'[r].acks = socket[r].acks
    BY <1>0, <1>4 DEF Replay, SocketType
  <2> QED
    BY <1>4, <2>1 DEF Replay
<1>5. ASSUME NEW s \in Sockets, ServerEnds(s) PROVE AcksInv'
  <2>1. \A r \in Sockets : socket'[r].acks \subseteq socket[r].acks
    BY <1>0, <1>5 DEF ServerEnds, SocketType
  <2> QED
    BY <1>5, <2>1 DEF ServerEnds
<1>6. ASSUME NEW s \in Sockets, NEW d \in Deliveries, AckArrives(s, d) PROVE AcksInv'
  <2>1. \A r \in Sockets : socket'[r].acks \subseteq socket[r].acks
    BY <1>0, <1>6 DEF AckArrives, SocketType
  <2> QED
    BY <1>6, <2>1 DEF AckArrives
<1>7. ASSUME RelayRestarts PROVE AcksInv'
  <2>1. \A r \in Sockets : socket'[r].acks \subseteq socket[r].acks
    BY <1>0, <1>7 DEF RelayRestarts, SocketType
  <2> QED
    BY <1>7, <2>1 DEF RelayRestarts
<1>8. ASSUME NEW s \in Sockets, ReplayFails(s) PROVE AcksInv'
  <2>1. \A r \in Sockets : socket'[r].acks = socket[r].acks
    BY <1>0, <1>8 DEF ReplayFails, SocketType
  <2> QED
    BY <1>8, <2>1 DEF ReplayFails
<1>9. ASSUME NEW s \in Sockets, NEW d \in Deliveries, AckFails(s, d) PROVE AcksInv'
  <2>1. \A r \in Sockets : socket'[r].acks \subseteq socket[r].acks
    BY <1>0, <1>9 DEF AckFails, SocketType
  <2> QED
    BY <1>9, <2>1 DEF AckFails
<1> QED
  BY <1>1, <1>2, <1>3, <1>4, <1>5, <1>6, <1>7, <1>8, <1>9 DEF RelayStep

\* What an event task adds to its acknowledgements is the event it answers.
LEMMA AnswerAdds ==
    ASSUME RelayTypeOK, NEW s \in Sockets, socket' = Answered(s)
    PROVE  \A r \in Sockets : socket'[r].acks \subseteq
              socket[r].acks \cup {x \in {socket[s].current} : r = s}
<1>0. socket \in [Sockets -> SocketType]
  BY DEF RelayTypeOK
<1> DEFINE acks == IF socket[s].server = "closed" THEN socket[s].acks
                   ELSE socket[s].acks \cup {socket[s].current}
<1>1. socket' = [socket EXCEPT ![s] = [@ EXCEPT !.current = None, !.acks = acks]]
  BY DEF Answered
<1>2. acks \subseteq socket[s].acks \cup {socket[s].current}
  OBVIOUS
<1> HIDE DEF acks
<1> QED
  BY <1>0, <1>1, <1>2 DEF SocketType

LEMMA ClientAcks ==
    ASSUME RelayTypeOK, AcksInv, ClientStep
    PROVE  AcksInv'
<1> USE DEF AcksInv, AckedWasHandled
<1>0. socket \in [Sockets -> SocketType]
  BY DEF RelayTypeOK
<1>1. ASSUME NEW s \in Sockets, Open(s) \/ TakeEvent(s) \/ HandlerFails(s) PROVE AcksInv'
  <2>1. CASE Open(s)
    BY <1>0, <2>1 DEF Open, SocketType, relay
  <2>2. CASE TakeEvent(s)
    <3>1. \A r \in Sockets : socket'[r].acks = socket[r].acks
      BY <1>0, <2>2 DEF TakeEvent, SocketType
    <3> QED
      BY <2>2, <3>1 DEF TakeEvent, relay
  <2>3. CASE HandlerFails(s)
    <3>1. \A r \in Sockets : socket'[r].acks = socket[r].acks
      BY <1>0, <2>3 DEF HandlerFails, SocketType
    <3> QED
      BY <2>3, <3>1 DEF HandlerFails, relay
  <2> QED
    BY <1>1, <2>1, <2>2, <2>3
<1>2. ASSUME NEW s \in Sockets, HandlerCommits(s) PROVE AcksInv'
  BY <1>2 DEF HandlerCommits, relay
<1>3. ASSUME NEW s \in Sockets, HandlerReturns(s) PROVE AcksInv'
  BY <1>3, AnswerAdds DEF HandlerReturns, relay
<1>4. ASSUME NEW s \in Sockets, AnswerUnheard(s) PROVE AcksInv'
  BY <1>4, AnswerAdds DEF AnswerUnheard, relay
<1>5. ASSUME NEW s \in Sockets PROVE Aborted(s).acks = socket[s].acks
  BY <1>0, <1>5 DEF Aborted, SocketType
<1>6. ASSUME NEW s \in Sockets, ClientEnds(s) \/ DrainEnds(s) PROVE AcksInv'
  BY <1>0, <1>5, <1>6 DEF ClientEnds, DrainEnds, relay
<1>7. ASSUME NEW s \in Sockets, SettingsChange(s) PROVE AcksInv'
  <2>1. \A r \in Sockets : socket'[r].acks = socket[r].acks
    BY <1>0, <1>5, <1>7 DEF SettingsChange, SocketType
  <2> QED
    BY <1>7, <2>1 DEF SettingsChange, relay
<1>8. ASSUME ServerBoots PROVE AcksInv'
  BY <1>0, <1>5, <1>8 DEF ServerBoots, relay
<1>9. ASSUME SetRuntime PROVE AcksInv'
  BY <1>9 DEF SetRuntime, relay
<1> QED
  BY <1>1, <1>2, <1>3, <1>4, <1>6, <1>7, <1>8, <1>9 DEF ClientStep

-----------------------------------------------------------------------------
(* Reach: where the unacknowledged deliveries of a working socket are. *)

\* On the socket, or left behind by its replay.
Accounted(s, d) == InReach(s, d) \/ d \in socket[s].missed

\* What NothingOutOfReach says of one socket.
Reaches(s) ==
    \A d \in Deliveries :
       Stored(d) /\ d \notin acked /\ posting[d].step # "stored" => Accounted(s, d)

Works(s) == socket[s].client = "live" /\ connection = s /\ socket[s].server = "open"

LEMMA ReachIs == NothingOutOfReach <=> \A s \in Sockets : Works(s) => Reaches(s)
  BY DEF NothingOutOfReach, Works, Reaches, Accounted, Lacks, Live, Unacked

LEMMA ReachPrimed == (\A s \in Sockets : Works(s)' => Reaches(s)') => NothingOutOfReach'
  BY DEF NothingOutOfReach, Works, Reaches, Accounted, Lacks, Live, Unacked

LEMMA ReachInit == Init => NothingOutOfReach
  BY DEF Init, NothingOutOfReach, Live, NewSocket

\* A step after which a socket that works worked before, has what it had, and
\* no delivery came to be in need of it.
LEMMA ReachKept ==
    ASSUME NothingOutOfReach,
           \A s \in Sockets : Works(s)' =>
              /\ Works(s)
              /\ \A d \in Deliveries : Accounted(s, d) => Accounted(s, d)' \/ d \in acked',
           \A d \in Deliveries : Stored(d)' /\ d \notin acked' /\ posting'[d].step # "stored" =>
              Stored(d) /\ d \notin acked /\ posting[d].step # "stored"
    PROVE  NothingOutOfReach'
<1>1. \A s \in Sockets : Works(s) => Reaches(s)
  BY ReachIs
<1>2. \A s \in Sockets : Works(s)' => Reaches(s)'
  BY <1>1 DEF Reaches
<1> QED
  BY <1>2, ReachPrimed

LEMMA RelayReach ==
    ASSUME RelayTypeOK, NothingOutOfReach, RelayStep
    PROVE  NothingOutOfReach'
<1>0. /\ socket \in [Sockets -> SocketType]
      /\ posting \in [Deliveries -> [step : {"idle", "numbered", "stored"}, number : Nat]]
      /\ row \in [Deliveries -> Nat]
  BY DEF RelayTypeOK
<1>9. ASSUME UNCHANGED <<row, acked, posting, connection>>,
             NEW r \in Sockets, socket'[r] = socket[r], Works(r)'
      PROVE  Reaches(r)'
  <2>1. Reaches(r)
    BY <1>9, ReachIs DEF Works
  <2> QED
    BY <1>9, <2>1 DEF Reaches, Accounted, InReach, Stored
<1>1. ASSUME NEW d \in Deliveries, TakeNumber(d) \/ Insert(d) \/ InsertFails(d)
      PROVE  NothingOutOfReach'
  <2>1. UNCHANGED <<socket, connection, acked>>
    BY <1>1 DEF TakeNumber, Insert, InsertFails
  <2>2. \A e \in Deliveries : Stored(e)' /\ posting'[e].step # "stored" =>
           Stored(e) /\ posting[e].step # "stored"
    BY <1>0, <1>1 DEF TakeNumber, Insert, InsertFails, Idle, Stored
  <2> QED
    BY <2>1, <2>2, ReachKept DEF Works, Accounted, InReach
<1>2. ASSUME NEW d \in Deliveries, Push(d) PROVE NothingOutOfReach'
  <2>1. \A s \in Sockets : socket[s].queue \in Seq(Deliveries)
    BY <1>0 DEF SocketType
  <2>2. \A s \in Sockets : ToSet(Append(socket[s].queue, d)) = ToSet(socket[s].queue) \cup {d}
    BY <2>1, AppendSet
  <2>3. ASSUME NEW s \in Sockets, Works(s)' PROVE Reaches(s)'
    <3>1. /\ socket[s].client = "live" /\ connection = s
          /\ socket[s].server = "open"
          /\ socket'[s] = [socket[s] EXCEPT !.queue = Append(@, d)]
      BY <1>0, <1>2, <2>3 DEF Push, Works, Live, SocketType
    <3>2. Reaches(s)
      BY <3>1, ReachIs DEF Works
    <3>3. \A e \in Deliveries : Accounted(s, e) \/ e = d => Accounted(s, e)'
      BY <1>0, <2>2, <3>1 DEF Accounted, InReach, SocketType
    <3>4. \A e \in Deliveries : e # d => posting'[e] = posting[e]
      BY <1>0, <1>2 DEF Push
    <3> QED
      BY <1>2, <3>2, <3>3, <3>4 DEF Push, Reaches, Stored
  <2> QED
    BY <2>3, ReachPrimed
<1>3. ASSUME NEW s \in Sockets, Register(s) PROVE NothingOutOfReach'
  <2>1. \A r \in Sockets : Works(r)' => FALSE
    BY <1>0, <1>3 DEF Register, Works, SocketType
  <2> QED
    BY <2>1, ReachPrimed
<1>4. ASSUME NEW s \in Sockets, Replay(s) PROVE NothingOutOfReach'
  <2>1. PICK q \in BoundedSeq(Unacked, ReplayLimit) :
           /\ IsBacklog(q)
           /\ socket' = [socket EXCEPT ![s] =
                [@ EXCEPT !.server = "open",
                          !.queue = IF s \in Live THEN socket[s].queue \o q ELSE socket[s].queue,
                          !.missed = IF s \in Live /\ Len(q) = ReplayLimit
                                     THEN Lacks(s) \ ToSet(q) ELSE {}]]
    BY <1>4 DEF Replay
  <2>2. UNCHANGED <<row, acked, counter, posting, connection>>
    BY <1>4 DEF Replay
  <2>3. ASSUME NEW r \in Sockets, Works(r)', r # s PROVE Reaches(r)'
    BY <1>0, <1>9, <2>1, <2>2, <2>3
  <2>4. ASSUME Works(s)' PROVE Reaches(s)'
    <3>1. /\ s \in Live
          /\ socket'[s].queue = socket[s].queue \o q
          /\ socket'[s].missed = IF Len(q) = ReplayLimit THEN Lacks(s) \ ToSet(q) ELSE {}
          /\ socket'[s].current = socket[s].current
          /\ socket'[s].acks = socket[s].acks /\ socket'[s].failed = socket[s].failed
      BY <1>0, <2>1, <2>4 DEF Works, Live, SocketType
    <3>2. ToSet(q) = Unacked \/ Len(q) = ReplayLimit
      BY <2>1 DEF IsBacklog
    <3>3. socket[s].queue \in Seq(Deliveries) /\ q \in Seq(Deliveries)
      BY <1>0, BacklogType DEF SocketType
    <3>4. ToSet(socket'[s].queue) = ToSet(socket[s].queue) \cup ToSet(q)
      BY <3>1, <3>3, ConcatSet
    <3>5. ASSUME NEW d \in Unacked, posting[d].step # "stored" PROVE Accounted(s, d)'
      <4>1. CASE d \in ToSet(q) \/ InReach(s, d)
        BY <3>1, <3>4, <4>1 DEF Accounted, InReach
      <4>2. CASE d \notin ToSet(q) /\ ~InReach(s, d)
        BY <3>1, <3>2, <3>5, <4>2 DEF Accounted, Lacks
      <4> QED
        BY <4>1, <4>2
    <3> QED
      BY <2>2, <3>5 DEF Reaches, Stored, Unacked
  <2> QED
    BY <2>3, <2>4, ReachPrimed
<1>8. ASSUME NEW s \in Sockets, ReplayFails(s) PROVE NothingOutOfReach'
  <2>1. UNCHANGED <<row, acked, counter, posting, connection>>
    BY <1>8 DEF ReplayFails
  <2>2. ASSUME NEW r \in Sockets, Works(r)', r # s PROVE Reaches(r)'
    <3>1. socket'[r] = socket[r]
      BY <1>0, <1>8, <2>2 DEF ReplayFails
    <3> QED
      BY <1>9, <2>1, <2>2, <3>1
  <2>3. ASSUME Works(s)' PROVE Reaches(s)'
    <3>1. /\ socket'[s].missed = Lacks(s)
          /\ socket'[s].queue = socket[s].queue /\ socket'[s].current = socket[s].current
          /\ socket'[s].acks = socket[s].acks /\ socket'[s].failed = socket[s].failed
      BY <1>0, <1>8, <2>3 DEF ReplayFails, Works, Live, SocketType
    <3>2. ASSUME NEW d \in Unacked, posting[d].step # "stored" PROVE Accounted(s, d)'
      BY <3>1, <3>2 DEF Accounted, InReach, Lacks
    <3> QED
      BY <2>1, <3>2 DEF Reaches, Stored, Unacked
  <2> QED
    BY <2>2, <2>3, ReachPrimed
<1>5. ASSUME NEW s \in Sockets, ServerEnds(s) PROVE NothingOutOfReach'
  <2>1. \A r \in Sockets : connection' # r
    BY <1>5, RelayAssumption DEF ServerEnds
  <2> QED
    BY <2>1 DEF NothingOutOfReach, Live
<1>6. ASSUME NEW s \in Sockets, NEW d \in Deliveries, AckArrives(s, d) PROVE NothingOutOfReach'
  <2>1. \A r \in Sockets : Works(r)' =>
           /\ Works(r)
           /\ \A e \in Deliveries : Accounted(r, e) => Accounted(r, e)' \/ e \in acked'
    BY <1>0, <1>6 DEF AckArrives, Works, Accounted, InReach, SocketType
  <2> QED
    BY <1>6, <2>1, ReachKept DEF AckArrives, Stored
<1>10. ASSUME NEW s \in Sockets, NEW d \in Deliveries, AckFails(s, d) PROVE NothingOutOfReach'
  <2>1. \A r \in Sockets : Works(r)' =>
           /\ Works(r)
           /\ \A e \in Deliveries : Accounted(r, e) => Accounted(r, e)'
    BY <1>0, <1>10 DEF AckFails, Works, Accounted, InReach, SocketType
  <2> QED
    BY <1>10, <2>1, ReachKept DEF AckFails, Stored
<1>7. ASSUME RelayRestarts PROVE NothingOutOfReach'
  <2>1. \A r \in Sockets : connection' # r
    BY <1>7, RelayAssumption DEF RelayRestarts
  <2> QED
    BY <2>1 DEF NothingOutOfReach, Live
<1> QED
  BY <1>1, <1>2, <1>3, <1>4, <1>5, <1>6, <1>7, <1>8, <1>10 DEF RelayStep

LEMMA OpenedInit == Init => OpenedFirst
  BY DEF Init, OpenedFirst, NewSocket

LEMMA OpenedStep ==
    ASSUME RelayTypeOK, OpenedFirst, RelayStep \/ ClientStep
    PROVE  OpenedFirst'
<1> USE DEF OpenedFirst
<1>0. socket \in [Sockets -> SocketType]
  BY DEF RelayTypeOK
<1>1. ASSUME NEW d \in Deliveries, TakeNumber(d) \/ Insert(d) \/ InsertFails(d) PROVE OpenedFirst'
  BY <1>1 DEF TakeNumber, Insert, InsertFails
<1>2. ASSUME NEW d \in Deliveries, Push(d) PROVE OpenedFirst'
  BY <1>0, <1>2 DEF Push, SocketType
<1>3. ASSUME NEW s \in Sockets, Register(s) PROVE OpenedFirst'
  BY <1>0, <1>3 DEF Register, Opened, SocketType
<1>4. ASSUME NEW s \in Sockets, Replay(s) PROVE OpenedFirst'
  BY <1>0, <1>4 DEF Replay, SocketType
<1>5. ASSUME NEW s \in Sockets, ServerEnds(s) PROVE OpenedFirst'
  BY <1>0, <1>5 DEF ServerEnds, SocketType
<1>6. ASSUME NEW s \in Sockets, NEW d \in Deliveries, AckArrives(s, d) PROVE OpenedFirst'
  BY <1>0, <1>6 DEF AckArrives, SocketType
<1>7. ASSUME RelayRestarts PROVE OpenedFirst'
  BY <1>0, <1>7 DEF RelayRestarts, Opened, SocketType
<1>8. ASSUME NEW s \in Sockets, Open(s) PROVE OpenedFirst'
  BY <1>0, <1>8 DEF Open, SocketType
<1>9. ASSUME NEW s \in Sockets, TakeEvent(s) PROVE OpenedFirst'
  BY <1>0, <1>9 DEF TakeEvent, SocketType
<1>10. ASSUME NEW s \in Sockets, socket' = Answered(s) PROVE OpenedFirst'
  BY <1>0, <1>10 DEF Answered, SocketType
<1>11. ASSUME NEW s \in Sockets, HandlerCommits(s) \/ HandlerReturns(s) \/ AnswerUnheard(s)
       PROVE  OpenedFirst'
  BY <1>10, <1>11 DEF HandlerCommits, HandlerReturns, AnswerUnheard
<1>12. ASSUME NEW s \in Sockets, HandlerFails(s) PROVE OpenedFirst'
  BY <1>0, <1>12 DEF HandlerFails, SocketType
<1>13. ASSUME NEW s \in Sockets PROVE Aborted(s).client = "ended"
  BY <1>0, <1>13 DEF Aborted, SocketType
<1>14. ASSUME NEW s \in Sockets, ClientEnds(s) \/ DrainEnds(s) PROVE OpenedFirst'
  BY <1>0, <1>13, <1>14 DEF ClientEnds, DrainEnds
<1>15. ASSUME NEW s \in Sockets, SettingsChange(s) PROVE OpenedFirst'
  <2>1. socket'[s].client # "absent" /\ \A t \in Sockets \ {s} : socket'[t] = socket[t]
    BY <1>0, <1>13, <1>15 DEF SettingsChange, SocketType
  <2>2. ASSUME NEW t \in Sockets, socket'[t].client = "absent" PROVE socket'[t].server = "absent"
    BY <2>1, <2>2
  <2> QED
    BY <2>2
<1>16. ASSUME ServerBoots PROVE OpenedFirst'
  BY <1>0, <1>13, <1>16 DEF ServerBoots
<1>17. ASSUME SetRuntime PROVE OpenedFirst'
  BY <1>17 DEF SetRuntime
<1>18. ASSUME NEW s \in Sockets, ReplayFails(s) PROVE OpenedFirst'
  BY <1>0, <1>18 DEF ReplayFails, SocketType
<1>19. ASSUME NEW s \in Sockets, NEW d \in Deliveries, AckFails(s, d) PROVE OpenedFirst'
  BY <1>0, <1>19 DEF AckFails, SocketType
<1> QED
  BY <1>18, <1>19, <1>1, <1>2, <1>3, <1>4, <1>5, <1>6, <1>7, <1>8, <1>9, <1>11, <1>12, <1>14, <1>15, <1>16, <1>17
     DEF RelayStep, ClientStep

LEMMA ClientReach ==
    ASSUME RelayTypeOK, OpenedFirst, NothingOutOfReach, ClientStep
    PROVE  NothingOutOfReach'
<1>0. socket \in [Sockets -> SocketType]
  BY DEF RelayTypeOK
<1>1. UNCHANGED relay
  BY DEF ClientStep, Open, TakeEvent, HandlerCommits, HandlerReturns, HandlerFails,
         AnswerUnheard, ClientEnds, SettingsChange, DrainEnds, ServerBoots, SetRuntime
<1> DEFINE Keeps(r) == Works(r)' => /\ Works(r)
                                    /\ \A d \in Deliveries : Accounted(r, d) => Accounted(r, d)'
<1>2. ASSUME NEW r \in Sockets, socket'[r] = socket[r] PROVE Keeps(r)
  BY <1>1, <1>2 DEF Works, Accounted, InReach, relay
<1>3. ASSUME NEW s \in Sockets, Open(s) PROVE \A r \in Sockets : Keeps(r)
  <2>1. ASSUME Works(s)' PROVE FALSE
    BY <1>0, <1>3, <2>1 DEF Open, Opened, Works, OpenedFirst, SocketType
  <2>2. \A r \in Sockets \ {s} : socket'[r] = socket[r]
    BY <1>0, <1>3 DEF Open
  <2> QED
    BY <1>2, <2>1, <2>2
<1>4. ASSUME NEW s \in Sockets, TakeEvent(s) PROVE \A r \in Sockets : Keeps(r)
  <2>1. socket[s].queue \in Seq(Deliveries) /\ socket[s].queue # <<>>
    BY <1>0, <1>4 DEF TakeEvent, SocketType
  <2>2. ToSet(socket[s].queue) = {Head(socket[s].queue)} \cup ToSet(Tail(socket[s].queue))
    BY <2>1, TailSet
  <2>3. /\ socket[s].current = None
        /\ socket'[s].current = Head(socket[s].queue) /\ socket'[s].queue = Tail(socket[s].queue)
        /\ socket'[s].acks = socket[s].acks /\ socket'[s].failed = socket[s].failed
        /\ socket'[s].server = socket[s].server /\ socket'[s].client = socket[s].client
        /\ socket'[s].missed = socket[s].missed
    BY <1>0, <1>4 DEF TakeEvent, SocketType
  <2>4. Keeps(s)
    BY <1>1, <2>2, <2>3, RelayAssumption DEF Works, Accounted, InReach, relay
  <2>5. \A r \in Sockets \ {s} : socket'[r] = socket[r]
    BY <1>0, <1>4 DEF TakeEvent
  <2> QED
    BY <1>2, <2>4, <2>5
<1>5. ASSUME NEW s \in Sockets, socket' = Answered(s) PROVE \A r \in Sockets : Keeps(r)
  <2>1. /\ socket'[s].queue = socket[s].queue
        /\ socket[s].server # "closed" => socket'[s].acks = socket[s].acks \cup {socket[s].current}
        /\ socket'[s].server = socket[s].server /\ socket'[s].client = socket[s].client
        /\ socket'[s].missed = socket[s].missed /\ socket'[s].failed = socket[s].failed
    BY <1>0, <1>5 DEF Answered, SocketType
  <2>2. Keeps(s)
    BY <1>1, <2>1 DEF Works, Accounted, InReach, relay
  <2>3. \A r \in Sockets \ {s} : socket'[r] = socket[r]
    BY <1>0, <1>5 DEF Answered
  <2> QED
    BY <1>2, <2>2, <2>3
<1>6. ASSUME NEW s \in Sockets, HandlerCommits(s) \/ HandlerReturns(s) \/ AnswerUnheard(s)
      PROVE  \A r \in Sockets : Keeps(r)
  BY <1>2, <1>5, <1>6 DEF HandlerCommits, HandlerReturns, AnswerUnheard
<1>7. ASSUME NEW s \in Sockets, HandlerFails(s) PROVE \A r \in Sockets : Keeps(r)
  <2>1. /\ socket'[s].queue = socket[s].queue /\ socket'[s].acks = socket[s].acks
        /\ socket'[s].failed = socket[s].failed \cup {socket[s].current}
        /\ socket'[s].server = socket[s].server /\ socket'[s].client = socket[s].client
        /\ socket'[s].missed = socket[s].missed
    BY <1>0, <1>7 DEF HandlerFails, SocketType
  <2>2. Keeps(s)
    BY <1>1, <2>1 DEF Works, Accounted, InReach, relay
  <2>3. \A r \in Sockets \ {s} : socket'[r] = socket[r]
    BY <1>0, <1>7 DEF HandlerFails
  <2> QED
    BY <1>2, <2>2, <2>3
\* A socket the client gives up does not work any more.
<1>8. ASSUME NEW s \in Sockets, socket'[s].client # "live", \A r \in Sockets \ {s} : socket'[r] = socket[r]
      PROVE  \A r \in Sockets : Keeps(r)
  BY <1>2, <1>8 DEF Works
<1>9. ASSUME NEW s \in Sockets PROVE Aborted(s).client = "ended"
  BY <1>0, <1>9 DEF Aborted, SocketType
<1>10. ASSUME NEW s \in Sockets, ClientEnds(s) \/ DrainEnds(s) \/ SettingsChange(s)
       PROVE  \A r \in Sockets : Keeps(r)
  <2>1. socket'[s].client # "live" /\ \A r \in Sockets \ {s} : socket'[r] = socket[r]
    BY <1>0, <1>9, <1>10 DEF ClientEnds, DrainEnds, SettingsChange, SocketType
  <2> QED
    BY <1>8, <2>1
<1>11. ASSUME ServerBoots PROVE \A r \in Sockets : Keeps(r)
  <2>1. \A r \in Sockets : socket'[r].client # "live"
    BY <1>0, <1>9, <1>11 DEF ServerBoots, SocketType
  <2> QED
    BY <2>1 DEF Works
<1>12. ASSUME SetRuntime PROVE \A r \in Sockets : Keeps(r)
  BY <1>2, <1>12 DEF SetRuntime
<1>13. \A r \in Sockets : Keeps(r)
  BY <1>3, <1>4, <1>6, <1>7, <1>10, <1>11, <1>12 DEF ClientStep
<1> QED
  BY <1>1, <1>13, ReachKept DEF relay, Stored

-----------------------------------------------------------------------------
(* The theorems. *)

LEMMA RelayInvInit == Init => RelayInv
  BY TypesInit, SequencesInit, AcksInit, OpenedInit, ReachInit DEF RelayInv

LEMMA RelayInvStep == RelayInv /\ [Next]_vars => RelayInv'
<1> SUFFICES ASSUME RelayInv, [Next]_vars PROVE RelayInv'
  OBVIOUS
<1>1. CASE RelayStep
  BY <1>1, RelayTypes, RelaySequences, RelayAcks, OpenedStep, RelayReach DEF RelayInv
<1>2. CASE ClientStep
  BY <1>2, ClientTypes, ClientSequences, ClientAcks, OpenedStep, ClientReach DEF RelayInv
<1>3. CASE UNCHANGED vars
  BY <1>3 DEF vars, RelayInv, RelayTypeOK, SequencesInv, SequencesDistinct, Stored, AcksInv,
              AckedWasHandled, OpenedFirst, NothingOutOfReach, Lacks, Live, Unacked, InReach
<1> QED
  BY <1>1, <1>2, <1>3 DEF Next

LEMMA RelayInvariant == Spec => []RelayInv
  BY RelayInvInit, RelayInvStep, PTL DEF Spec

(* The variables keep their types. *)
THEOREM RelayTypesHold == Spec => []RelayTypeOK
<1>1. RelayInv => RelayTypeOK
  BY DEF RelayInv
<1> QED
  BY <1>1, RelayInvariant, PTL

(* Whatever happens to sockets and servers, a delivery the relay forgot was
   handled, or answered by a client that had no handler yet. *)
THEOREM AcknowledgedIsHandled == Spec => []AckedWasHandled
<1>1. RelayInv => AckedWasHandled
  BY DEF RelayInv, AcksInv
<1> QED
  BY <1>1, RelayInvariant, PTL

(* No two deliveries get one sequence number, however often the relay reads
   its counter from the table again. *)
THEOREM SequencesAreDistinct == Spec => []SequencesDistinct
<1>1. RelayInv => SequencesDistinct
  BY DEF RelayInv, SequencesInv
<1> QED
  BY <1>1, RelayInvariant, PTL

(* Between pushes, replays and replaced sockets no delivery falls into a gap,
   whatever fails: a working socket lacks only what its replay left behind. *)
THEOREM WorkingSocketHasAll == Spec => []NothingOutOfReach
<1>1. RelayInv => NothingOutOfReach
  BY DEF RelayInv
<1> QED
  BY <1>1, RelayInvariant, PTL
=============================================================================
