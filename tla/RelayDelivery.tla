--------------------------- MODULE RelayDelivery ---------------------------
(***************************************************************************)
(* The way of a GitHub webhook through mai-relay to the review signals of  *)
(* mai-server: the relay numbers and stores a delivery, pushes it into the *)
(* registered socket or replays it after the next hello; the client hands  *)
(* its events one at a time to the handler and answers each with an        *)
(* acknowledgement, which the relay stores.                                *)
(*                                                                         *)
(* Sockets are numbered in the order in which the client opens them.       *)
(* Either end of a socket may be gone while the other does not know.       *)
(***************************************************************************)
EXTENDS Naturals, SequencesExt, FiniteSets

CONSTANTS Deliveries,    \* ids GitHub gives to webhook deliveries
          MaxSockets,    \* bound: connections the client opens
          MaxSequence,   \* bound: sequence numbers the relay hands out
          ReplayLimit,   \* LIMIT of list_unacked_deliveries (500 in the code)
          None,
          Events         \* what may happen besides: "flap", "settings",
                         \* "restart", "boot", "repost", "fail"

Sockets == 1 .. MaxSockets

ASSUME RelayAssumption == /\ MaxSockets \in Nat
                          /\ MaxSequence \in Nat
                          /\ ReplayLimit \in Nat
                          /\ None \notin Deliveries
                          /\ None \notin Sockets

VARIABLES row,         \* webhook_deliveries: the sequence of a delivery, 0 without a row
          acked,       \* rows with acked_at
          counter,     \* AppState.sequence
          posting,     \* the webhook request for a delivery: its number, then "stored"
          connection,  \* AppState.connection: the registered socket
          socket,      \* both ends of each socket and what is between them
          installed,   \* the event handler is installed in the client
          handled,     \* deliveries a handler finished: queued or found of no interest
          unheard      \* deliveries answered by a client without a handler

relay == <<row, acked, counter, posting, connection>>
vars == <<row, acked, counter, posting, connection, socket, installed, handled, unheard>>

Idle == [step |-> "idle", number |-> 0]

(* server: its task for the socket; client: the connect_once that opened it;
   queue: events sent and not yet taken by the event task; current: the event
   its handler works on; acks: positive acknowledgements under way; failed:
   deliveries whose answer settled nothing, a Failed or an ack the store
   refused; missed: deliveries the replay of this socket left behind.       *)
NewSocket == [server |-> "absent", client |-> "absent", queue |-> <<>>,
              current |-> None, acks |-> {}, failed |-> {}, missed |-> {}]

Init == /\ row = [d \in Deliveries |-> 0]
        /\ acked = {}
        /\ counter = 1
        /\ posting = [d \in Deliveries |-> Idle]
        /\ connection = None
        /\ socket = [s \in Sockets |-> NewSocket]
        /\ installed = TRUE
        /\ handled = {}
        /\ unheard = {}

Stored(d) == row[d] # 0
Unacked == {d \in Deliveries : Stored(d) /\ d \notin acked}
Live == {s \in Sockets : socket[s].client = "live"}
Opened == {s \in Sockets : socket[s].client # "absent"}

InReach(s, d) == \/ d \in ToSet(socket[s].queue)
                 \/ d = socket[s].current
                 \/ d \in socket[s].acks
                 \/ d \in socket[s].failed

(* Unacknowledged, nowhere on this socket, and with no request left to push. *)
Lacks(s) == {d \in Unacked : posting[d].step # "stored" /\ ~InReach(s, d)}

-----------------------------------------------------------------------------
(* The relay: webhook requests and the sockets it serves. *)

(* webhook takes a sequence number before it touches the table. *)
TakeNumber(d) ==
  /\ posting[d] = Idle
  /\ counter <= MaxSequence
  /\ Stored(d) => "repost" \in Events
  /\ posting' = [posting EXCEPT ![d] = [step |-> "numbered", number |-> counter]]
  /\ counter' = counter + 1
  /\ UNCHANGED <<row, acked, connection, socket, installed, handled, unheard>>

(* INSERT OR IGNORE: a repeated delivery is accepted and not pushed. *)
Insert(d) ==
  /\ posting[d].step = "numbered"
  /\ IF Stored(d)
     THEN posting' = [posting EXCEPT ![d] = Idle] /\ row' = row
     ELSE /\ row' = [row EXCEPT ![d] = posting[d].number]
          /\ posting' = [posting EXCEPT ![d].step = "stored"]
  /\ UNCHANGED <<acked, counter, connection, socket, installed, handled, unheard>>

(* The store refuses; GitHub is told and may deliver again by hand. *)
InsertFails(d) ==
  /\ "fail" \in Events
  /\ posting[d].step = "numbered"
  /\ posting' = [posting EXCEPT ![d] = Idle]
  /\ UNCHANGED <<row, acked, counter, connection, socket, installed, handled, unheard>>

(* Under the connection lock: what is sent reaches a client that reads. *)
Push(d) ==
  /\ posting[d].step = "stored"
  /\ posting' = [posting EXCEPT ![d] = Idle]
  /\ socket' = [s \in Sockets |->
                  IF s = connection /\ s \in Live
                  THEN [socket[s] EXCEPT !.queue = Append(@, d)] ELSE socket[s]]
  /\ UNCHANGED <<row, acked, counter, connection, installed, handled, unheard>>

(* A hello replaces whatever connection is registered. *)
Register(s) ==
  /\ s \in Opened
  /\ socket[s].server = "absent"
  /\ connection' = s
  /\ socket' = [socket EXCEPT ![s].server = "registered"]
  /\ UNCHANGED <<row, acked, counter, posting, installed, handled, unheard>>

\* Mutant of IsBacklog: the replay resumes behind the last acknowledged delivery.
IsBacklogBehindAcked(q) == ToSet(q) = {d \in Unacked : \A a \in acked : row[a] < row[d]}

(* list_unacked_deliveries: oldest first, at most ReplayLimit of them. *)
IsBacklog(q) ==
  /\ \A i, j \in 1 .. Len(q) : i < j => row[q[i]] < row[q[j]]
  /\ \/ ToSet(q) = Unacked
     \/ /\ Len(q) = ReplayLimit
        /\ \A d \in Unacked \ ToSet(q), i \in 1 .. Len(q) : row[q[i]] < row[d]

Replay(s) ==
  /\ socket[s].server = "registered"
  /\ \E q \in BoundedSeq(Unacked, ReplayLimit) :
       /\ IsBacklog(q)
       /\ socket' = [socket EXCEPT ![s] =
            [@ EXCEPT !.server = "open",
                      !.queue = IF s \in Live THEN socket[s].queue \o q ELSE socket[s].queue,
                      !.missed = IF s \in Live /\ Len(q) = ReplayLimit
                                 THEN Lacks(s) \ ToSet(q) ELSE {}]]
  /\ UNCHANGED <<row, acked, counter, posting, connection, installed, handled, unheard>>

(* The table cannot be read: the error is logged, the socket stays in use. *)
ReplayFails(s) ==
  /\ "fail" \in Events
  /\ socket[s].server = "registered"
  /\ socket' = [socket EXCEPT ![s] =
                  [@ EXCEPT !.server = "open", !.missed = IF s \in Live THEN Lacks(s) ELSE {}]]
  /\ UNCHANGED <<row, acked, counter, posting, connection, installed, handled, unheard>>

(* handle_ack: Processed and Ignored settle the row. *)
AckArrives(s, d) ==
  /\ socket[s].server = "open"
  /\ d \in socket[s].acks
  /\ acked' = acked \cup {d}
  /\ socket' = [socket EXCEPT ![s].acks = @ \ {d}]
  /\ UNCHANGED <<row, counter, posting, connection, installed, handled, unheard>>

(* The store refuses the update: the error is logged, the session goes on. *)
AckFails(s, d) ==
  /\ "fail" \in Events
  /\ socket[s].server = "open"
  /\ d \in socket[s].acks
  /\ socket' = [socket EXCEPT ![s] = [@ EXCEPT !.acks = socket[s].acks \ {d},
                                            !.failed = socket[s].failed \cup {d}]]
  /\ UNCHANGED <<row, acked, counter, posting, connection, installed, handled, unheard>>

(* The end of handle_socket clears the connection of its node, whichever
   socket is registered: every socket of this client names the same node. *)
ServerEnds(s) ==
  /\ socket[s].server = "open"
  /\ \/ socket[s].client = "ended"
     \/ "flap" \in Events /\ s < MaxSockets
  /\ connection' = None
  /\ socket' = [socket EXCEPT ![s] = [@ EXCEPT !.server = "closed", !.acks = {}]]
  /\ UNCHANGED <<row, acked, counter, posting, installed, handled, unheard>>

\* Mutant of NextSequence: the next sequence is the last one in the table.
LastSequence ==
  CHOOSE n \in 1 .. MaxSequence + 1 :
    /\ \A d \in Deliveries : row[d] <= n
    /\ n = 1 \/ \E d \in Deliveries : row[d] = n

(* next_sequence reads the table when the relay starts. *)
NextSequence ==
  1 + (CHOOSE n \in 0 .. MaxSequence :
         /\ \A d \in Deliveries : row[d] <= n
         /\ n = 0 \/ \E d \in Deliveries : row[d] = n)

(* A restart of the relay: requests and sockets are gone, the table stays. *)
RelayRestarts ==
  /\ "restart" \in Events
  /\ MaxSockets \notin Opened
  /\ counter' = NextSequence
  /\ posting' = [d \in Deliveries |-> Idle]
  /\ connection' = None
  /\ socket' = [s \in Sockets |->
                  IF s \in Opened THEN [socket[s] EXCEPT !.server = "closed", !.acks = {}]
                  ELSE socket[s]]
  /\ UNCHANGED <<row, acked, installed, handled, unheard>>

-----------------------------------------------------------------------------
(* mai-server: the relay client and the handler of its events. *)

(* connect_once says hello and lives on without waiting for an answer. *)
Open(s) ==
  /\ Live = {}
  /\ s \notin Opened
  /\ s = 1 \/ s - 1 \in Opened
  /\ socket' = [socket EXCEPT ![s].client = "live"]
  /\ UNCHANGED <<relay, installed, handled, unheard>>

TakeEvent(s) ==
  /\ socket[s].client \in {"live", "draining"}
  /\ socket[s].current = None
  /\ socket[s].queue # <<>>
  /\ socket' = [socket EXCEPT ![s] = [@ EXCEPT !.current = Head(socket[s].queue), !.queue = Tail(socket[s].queue)]]
  /\ UNCHANGED <<relay, installed, handled, unheard>>

(* What the socket becomes when its event task answers with an ack: one that
   is sent after the relay left goes nowhere. *)
Answered(s) ==
  [socket EXCEPT ![s] = [@ EXCEPT !.current = None,
                                  !.acks = IF socket[s].server = "closed" THEN socket[s].acks
                                           ELSE socket[s].acks \cup {socket[s].current}]]

(* process_event commits what it queues before it returns its status. *)
HandlerCommits(s) ==
  /\ installed
  /\ socket[s].current # None
  /\ socket[s].current \notin handled
  /\ handled' = handled \cup {socket[s].current}
  /\ UNCHANGED <<relay, socket, installed, unheard>>

\* Mutant of HandlerReturns: an event of no interest is not answered.
HandlerReturnsSilently(s) ==
  /\ installed
  /\ socket[s].current \in handled
  /\ socket' = [socket EXCEPT ![s].current = None]
  /\ UNCHANGED <<relay, installed, handled, unheard>>

HandlerReturns(s) ==
  /\ installed
  /\ socket[s].current \in handled
  /\ socket' = Answered(s)
  /\ UNCHANGED <<relay, installed, handled, unheard>>

\* Mutant of HandlerFails: a failed event is answered like an ignored one.
HandlerFailsIgnored(s) ==
  /\ installed
  /\ "fail" \in Events
  /\ socket[s].current # None
  /\ socket' = Answered(s)
  /\ UNCHANGED <<relay, installed, handled, unheard>>

(* An error at any point, before or after the commit: the relay logs it. *)
HandlerFails(s) ==
  /\ installed
  /\ "fail" \in Events
  /\ socket[s].current # None
  /\ socket' = [socket EXCEPT ![s] = [@ EXCEPT !.failed = socket[s].failed \cup {socket[s].current},
                                            !.current = None]]
  /\ UNCHANGED <<relay, installed, handled, unheard>>

(* Without a handler the event task answers Ignored. *)
AnswerUnheard(s) ==
  /\ ~installed
  /\ socket[s].current # None
  /\ socket' = Answered(s)
  /\ unheard' = unheard \cup {socket[s].current}
  /\ UNCHANGED <<relay, installed, handled>>

(* The read loop ends and aborts the writer and the event task: the handler
   stops at its await. Acks that were never written are lost when the relay
   ends its side before they arrive. *)
Aborted(s) == [socket[s] EXCEPT !.client = "ended", !.queue = <<>>, !.current = None,
                                !.failed = {}, !.missed = {}]

ClientEnds(s) ==
  /\ s \in Live
  /\ \/ socket[s].server = "closed"
     \/ "flap" \in Events /\ s < MaxSockets
  /\ socket' = [socket EXCEPT ![s] = Aborted(s)]
  /\ UNCHANGED <<relay, installed, handled, unheard>>

(* save_settings stops the client for a new one. When the cancellation wins
   in run, connect_once is dropped and its tasks are detached: the event task
   answers what it received; when it wins in the read loop they are aborted. *)
SettingsChange(s) ==
  /\ "settings" \in Events
  /\ s \in Live /\ s < MaxSockets
  /\ installed
  /\ \/ socket' = [socket EXCEPT ![s] = Aborted(s)]
     \/ \E received \in 0 .. Len(socket[s].queue) :
          socket' = [socket EXCEPT ![s] = [@ EXCEPT !.client = "draining",
                                                    !.queue = SubSeq(socket[s].queue, 1, received)]]
  /\ UNCHANGED <<relay, installed, handled, unheard>>

DrainEnds(s) ==
  /\ socket[s].client = "draining"
  /\ socket[s].queue = <<>> /\ socket[s].current = None
  /\ socket' = [socket EXCEPT ![s] = Aborted(s)]
  /\ UNCHANGED <<relay, installed, handled, unheard>>

(* mai-server stops or dies and starts again: bootstrap starts the client
   before the runtime exists, and installs the handler when it does. *)
ServerBoots ==
  /\ "boot" \in Events
  /\ MaxSockets \notin Opened
  /\ installed' = FALSE
  /\ socket' = [s \in Sockets |->
                  IF socket[s].client \in {"live", "draining"} THEN Aborted(s) ELSE socket[s]]
  /\ UNCHANGED <<relay, handled, unheard>>

SetRuntime ==
  /\ ~installed
  /\ installed' = TRUE
  /\ UNCHANGED <<relay, socket, handled, unheard>>

-----------------------------------------------------------------------------
RelayStep == \/ \E d \in Deliveries : TakeNumber(d) \/ Insert(d) \/ InsertFails(d) \/ Push(d)
             \/ \E s \in Sockets : Register(s) \/ Replay(s) \/ ReplayFails(s) \/ ServerEnds(s)
             \/ \E s \in Sockets, d \in Deliveries : AckArrives(s, d) \/ AckFails(s, d)
             \/ RelayRestarts

ClientStep == \/ \E s \in Sockets : \/ Open(s) \/ TakeEvent(s)
                                    \/ HandlerCommits(s) \/ HandlerReturns(s)
                                    \/ HandlerFails(s) \/ AnswerUnheard(s)
                                    \/ ClientEnds(s) \/ SettingsChange(s) \/ DrainEnds(s)
              \/ ServerBoots
              \/ SetRuntime

Next == RelayStep \/ ClientStep

Spec == Init /\ [][Next]_vars

(* Tasks that can proceed do; an end that is gone is noticed by the other; the
   client opens the next socket after its delay. Nothing obliges a connection
   to break, GitHub to repeat a delivery, or a handler to fail. *)
FairSpec ==
  /\ Spec
  /\ \A d \in Deliveries : WF_vars(Insert(d)) /\ WF_vars(Push(d))
  /\ \A s \in Sockets :
       /\ WF_vars(Register(s)) /\ WF_vars(Replay(s))
       /\ WF_vars(socket[s].client = "ended" /\ ServerEnds(s))
       /\ WF_vars(Open(s)) /\ WF_vars(TakeEvent(s)) /\ WF_vars(DrainEnds(s))
       /\ WF_vars(HandlerCommits(s)) /\ WF_vars(HandlerReturns(s)) /\ WF_vars(AnswerUnheard(s))
       /\ WF_vars(socket[s].server = "closed" /\ ClientEnds(s))
       /\ \A d \in Deliveries : WF_vars(AckArrives(s, d))
  /\ WF_vars(SetRuntime)
-----------------------------------------------------------------------------
(* Properties *)

SocketType ==
  [server : {"absent", "registered", "open", "closed"},
   client : {"absent", "live", "draining", "ended"},
   queue : Seq(Deliveries), current : Deliveries \cup {None},
   acks : SUBSET Deliveries, failed : SUBSET Deliveries, missed : SUBSET Deliveries]

RelayTypeOK ==
  /\ row \in [Deliveries -> Nat]
  /\ acked \in SUBSET Deliveries
  /\ counter \in Nat
  /\ posting \in [Deliveries -> [step : {"idle", "numbered", "stored"}, number : Nat]]
  /\ connection \in Sockets \cup {None}
  /\ socket \in [Sockets -> SocketType]
  /\ installed \in BOOLEAN
  /\ handled \in SUBSET Deliveries
  /\ unheard \in SUBSET Deliveries

(* The relay forgets a delivery only when a handler of mai-server finished
   with it, whatever sockets were replaced, drained or cut in between; the
   one exception is a client that answers before its handler is installed. *)
AckedWasHandled == acked \subseteq handled \cup unheard

(* Two deliveries never share a sequence number, across restarts of the relay
   and requests that a restart or the store ended: the replay has one order. *)
SequencesDistinct ==
  \A d, e \in Deliveries : Stored(d) /\ row[d] = row[e] => d = e

(* While the registered socket works at both ends, every unacknowledged
   delivery whose webhook request is over is somewhere on that socket: pushes
   and replays leave no gap between them, also when the store fails under
   either. Only those are elsewhere that the replay itself left behind: it met
   its limit, or could not read the table and said nothing. *)
NothingOutOfReach ==
  \A s \in Live :
    connection = s /\ socket[s].server = "open" => Lacks(s) \subseteq socket[s].missed

(* What keeps a stored delivery waiting on a socket that nothing ends: it was
   answered to no effect, the replay left it behind, or the end of an older
   socket cleared the registration of this one. *)
Waits(d) ==
  \E s \in Live : \/ d \in socket[s].failed \cup socket[s].missed
                  \/ socket[s].server = "open" /\ connection # s

(* Every stored delivery is acknowledged in the end, however sockets come and
   go, unless it waits for one of these three reasons. *)
EveryDeliveryAnswered == \A d \in Deliveries : Stored(d) ~> (d \in acked \/ Waits(d))

(* A delivery whose handler failed is delivered again. *)
FailedIsRedelivered ==
  \A s \in Sockets, d \in Deliveries :
    (d \in socket[s].failed /\ d \notin acked) ~>
      (d \in acked \/ \E r \in Sockets : d \in ToSet(socket[r].queue) \cup {socket[r].current})
=============================================================================
