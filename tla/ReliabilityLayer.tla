-------------------------- MODULE ReliabilityLayer --------------------------
(***************************************************************************)
(* The reliability layer of RakNet (ReliabilityLayer.cpp), which carries   *)
(* every packet of the program: packets get numbers and are sent until     *)
(* they are acknowledged, and the other end drops duplicates and puts the  *)
(* packets of a stream in order.  One direction of one connection; the     *)
(* network loses, repeats and reorders.                                    *)
(*                                                                         *)
(* Safe packets of the channel protocol are "ordered" (RELIABLE_ORDERED),  *)
(* unsafe ones "sequenced" (RELIABLE_SEQUENCED), and RakPeer's own pings   *)
(* are "plain" (UNRELIABLE).  Only safe ones are ever longer than a        *)
(* datagram and go out in parts.  The time since the connection was opened *)
(* is less than what it takes the packet numbers to come round.            *)
(***************************************************************************)
EXTENDS Integers, Sequences, FiniteSets

CONSTANTS
  Streams,      (* ordering channels that are used, below 1024: the memset of *)
                (* InitializeVariables clears no others                       *)
  Callers,      (* threads that may be inside Send at the same time          *)
  Traffic,      (* what they send: records of kind, stream and parts         *)
  Half,         (* half the values of orderingIndex, an unsigned char: 128   *)
  MinWindow,    (* MINIMUM_WINDOW_SIZE, 5                                    *)
  MaxWindow,    (* MAXIMUM_WINDOW_SIZE                                       *)
  PeerSends,    (* does the other end send enough for five acks to be due    *)
  FrameLimit,   (* bound: packets or acks in a datagram                      *)
  MaxPackets,   (* bound: packets, a part is one                             *)
  MaxAcks,      (* bound: acks waiting at the receiver                       *)
  MaxAckFrames, (* bound: datagrams with acks under way                      *)
  MaxLate       (* bound: repeats later than TIMEOUT_TIME                    *)

Kinds    == {"ordered", "sequenced", "plain"}
Indexed  == {"ordered", "sequenced"}
Modulus  == 2 * Half

ASSUME ReliabilityAssumption ==
  /\ Traffic \subseteq [kind : Kinds, stream : Streams, parts : Nat \ {0}]
  /\ \A t \in Traffic : t.kind # "ordered" => t.parts = 1
  /\ Half \in Nat \ {0}
  /\ MinWindow \in Nat \ {0}
  /\ MaxWindow \in Nat
  /\ PeerSends \in BOOLEAN
  /\ FrameLimit \in Nat \ {0}
  /\ MaxPackets \in Nat
  /\ MaxAcks \in Nat
  /\ MaxAckFrames \in Nat
  /\ MaxLate \in Nat

(* A packet of the layer: a message or a part of one, with splitPacketId as  *)
(* "id".  "ordinal" counts the messages of its kind on its stream, which is  *)
(* how the model tells them apart; the orderingIndex on the wire is what an  *)
(* unsigned char holds of it.                                                *)
Packet == [kind : Kinds, stream : Streams, ordinal : Nat, parts : Nat \ {0}, part : Nat,
           number : Nat, id : Nat]
Index(p) == p.ordinal % Modulus
Split(p) == p.parts > 1
SameMessage(p, q) == p.kind = q.kind /\ p.stream = q.stream /\ p.ordinal = q.ordinal

\* A hole of the resend queue: its packet was acknowledged.
Hole == [kind |-> "hole"]
IsPacket(q) == q # Hole

\* A call of Send: it has read the packet number, or counted on and taken the index, or
\* it is counting the split id on, or its packets are made (internalPacketArray).
Idle == [at |-> "idle"]
Call == [at : {"numbered", "indexed", "counting", "made"}, kind : Kinds, stream : Streams,
         ordinal : Nat, parts : Nat \ {0}, number : Nat, made : Seq(Packet), next : Nat]

VARIABLES
  packetNumber, (* sender: the next packet number                            *)
  splitPacketId,(* sender: the id of the next message in parts               *)
  writeIndex,   (* sender: waitingFor...WriteIndex by kind and stream        *)
  calls,        (* sender: the calls of Send that are under way              *)
  sendQueue,    (* sender: packets that were never sent                      *)
  resendQueue,  (* sender: packets that wait for an ack, and holes           *)
  window,       (* sender: windowSize                                        *)
  lossy,        (* sender: lossyWindowSize                                   *)
  parsing,      (* sender: the acks of a datagram not handled yet, their count *)
  dead,         (* sender: deadConnection                                    *)
  wire,         (* packets under way                                         *)
  ackWire,      (* datagrams with acks under way                             *)
  received,     (* receiver: receivedPackets, the numbers it has seen        *)
  repeats,      (* history: the numbers it took for new ones a second time   *)
  readIndex,    (* receiver: waitingFor...ReadIndex by kind and stream       *)
  splits,       (* receiver: splitPacketList, copies of a part told apart    *)
  waiting,      (* receiver: orderingList                                    *)
  acks,         (* receiver: acknowledgementQueue                            *)
  handed,       (* receiver: ordinals put into outputQueue, by kind and stream *)
  sent          (* history: every packet that was put into sendQueue         *)

sending  == <<packetNumber, splitPacketId, writeIndex, calls, sendQueue, sent>>
flow     == <<resendQueue, window, lossy, parsing, dead>>
receiver == <<received, repeats, readIndex, splits, waiting, acks, handed>>
vars     == <<sending, flow, wire, ackWire, receiver>>

RangeOf(q) == {q[i] : i \in 1 .. Len(q)}

Init ==
  /\ packetNumber = 0
  /\ splitPacketId = 0
  /\ writeIndex = [k \in Kinds |-> [s \in Streams |-> 0]]
  /\ calls = [c \in Callers |-> Idle]
  /\ sendQueue = <<>>
  /\ resendQueue = <<>>
  /\ window = MinWindow
  /\ lossy = MaxWindow + 1
  /\ parsing = [left |-> <<>>, count |-> 0]
  /\ dead = FALSE
  /\ wire = {}
  /\ ackWire = {}
  /\ received = {}
  /\ repeats = <<>>
  /\ readIndex = [k \in Indexed |-> [s \in Streams |-> 0]]
  /\ splits = {}
  /\ waiting = {}
  /\ acks = <<>>
  /\ handed = [k \in Indexed |-> [s \in Streams |-> <<>>]]
  /\ sent = {}

-----------------------------------------------------------------------------
(* Send, in the thread of the caller *)

PacketsSoFar ==
  Cardinality(sent)
  + Cardinality({ci \in Callers \X (1 .. MaxPackets) :
                   calls[ci[1]] # Idle /\ ci[2] <= calls[ci[1]].parts})

\* The number is read under a lock that is released before it is counted on.
ReadNumber(c, t) ==
  /\ calls[c] = Idle
  /\ PacketsSoFar + t.parts <= MaxPackets
  /\ calls' = [calls EXCEPT ![c] = [at |-> "numbered", kind |-> t.kind, stream |-> t.stream,
                                    ordinal |-> 0, parts |-> t.parts, number |-> packetNumber,
                                    made |-> <<>>, next |-> 0]]
  /\ UNCHANGED <<packetNumber, splitPacketId, writeIndex, sendQueue, sent>>
  /\ UNCHANGED <<flow, wire, ackWire, receiver>>

PartOf(m, i, n, id) ==
  [kind |-> m.kind, stream |-> m.stream, ordinal |-> m.ordinal, parts |-> m.parts,
   part |-> i, number |-> n, id |-> id]

\* The number is counted on and the message takes its place in its stream.  A plain
\* one has none in the code; the model counts them to tell them apart.  A message that
\* fits is one packet, with no split id.
TakeIndex(c) ==
  LET k == calls[c].kind
      s == calls[c].stream
      m == [calls[c] EXCEPT !.ordinal = writeIndex[k][s]]
  IN /\ calls[c].at = "numbered"
     /\ packetNumber' = packetNumber + 1
     /\ writeIndex' = [writeIndex EXCEPT ![k][s] = @ + 1]
     /\ calls' = [calls EXCEPT ![c] =
          IF Split(m) THEN [m EXCEPT !.at = "indexed"]
          ELSE [m EXCEPT !.at = "made", !.made = <<PartOf(m, 1, m.number, 0)>>]]
     /\ UNCHANGED <<splitPacketId, sendQueue, sent, flow, wire, ackWire, receiver>>

\* SplitPacketAndDeleteOriginal: each part reads the split id, without a lock.  The first
\* one keeps the number of the message, the others read and count on under one lock.
MakePart(c) ==
  LET m == calls[c]
      i == Len(m.made) + 1
  IN /\ m.at = "indexed"
     /\ i <= m.parts
     /\ calls' = [calls EXCEPT ![c].made =
          Append(@, PartOf(m, i, IF i = 1 THEN m.number ELSE packetNumber, splitPacketId))]
     /\ packetNumber' = IF i = 1 THEN packetNumber ELSE packetNumber + 1
     /\ UNCHANGED <<splitPacketId, writeIndex, sendQueue, sent, flow, wire, ackWire, receiver>>

\* The split id is counted on without a lock either: what is written may be stale.
ReadSplitId(c) ==
  /\ calls[c].at = "indexed"
  /\ Len(calls[c].made) = calls[c].parts
  /\ calls' = [calls EXCEPT ![c].at = "counting", ![c].next = splitPacketId + 1]
  /\ UNCHANGED <<packetNumber, splitPacketId, writeIndex, sendQueue, sent>>
  /\ UNCHANGED <<flow, wire, ackWire, receiver>>

WriteSplitId(c) ==
  /\ calls[c].at = "counting"
  /\ splitPacketId' = calls[c].next
  /\ calls' = [calls EXCEPT ![c].at = "made"]
  /\ UNCHANGED <<packetNumber, writeIndex, sendQueue, sent, flow, wire, ackWire, receiver>>

Push(c) ==
  /\ calls[c].at = "made"
  /\ sendQueue' = sendQueue \o calls[c].made
  /\ sent' = sent \union RangeOf(calls[c].made)
  /\ calls' = [calls EXCEPT ![c] = Idle]
  /\ UNCHANGED <<packetNumber, splitPacketId, writeIndex, flow, wire, ackWire, receiver>>

-----------------------------------------------------------------------------
(* Update of the sender, in the network thread *)

IsSendThrottled(q, w) == Len(q) >= w

\* IsFrameReady; "overdue" says that the head of the resend queue is.
IsFrameReady(overdue) ==
  \/ ~IsSendThrottled(resendQueue, window)
  \/ PeerSends
  \/ overdue

\* The places in S, a set of numbers, from the first to the last.
InOrder(S) == {f \in [1 .. Cardinality(S) -> S] :
                 /\ \A i, j \in 1 .. Cardinality(S) : i < j => f[i] < f[j]
                 /\ \A x \in S : \E i \in 1 .. Cardinality(S) : f[i] = x}

IsReliable(p) == p.kind \in Indexed

\* Mutant of LossWindow: no lower bound.
LossWindow_NoMinimum == window - 1

\* UpdatePacketloss
LossWindow == IF window - 1 < MinWindow THEN MinWindow ELSE window - 1

\* GenerateFrame.  Place "from" holds the first packet that stays where it is: the
\* overdue ones before it go out "again" and to the tail, the holes are dropped.
\* Then n new packets go unless the window is full, a first one always fits; those
\* to "keep" are reliable and join the queue.
GenerateFrame(from, again, n, keep) ==
  LET lossy1  == again # <<>>
      window1 == IF lossy1 THEN LossWindow ELSE window
      resent  == [i \in 1 .. Len(again) |-> resendQueue[again[i]]]
      queue   == SubSeq(resendQueue, from, Len(resendQueue)) \o resent
      fresh   == SubSeq(sendQueue, 1, n)
      kept    == [i \in 1 .. Len(keep) |-> sendQueue[keep[i]]]
  IN /\ ~dead /\ parsing.left = <<>>
     /\ from <= Len(resendQueue) => IsPacket(resendQueue[from])
     /\ IsFrameReady(from > 1 /\ IsPacket(resendQueue[1]))
     /\ Len(again) + n <= FrameLimit
     /\ IF IsSendThrottled(queue, window1) THEN n = 0
        ELSE again = <<>> /\ sendQueue # <<>> => n > 0
     /\ resendQueue' = queue \o kept
     /\ sendQueue' = SubSeq(sendQueue, n + 1, Len(sendQueue))
     /\ wire' = wire \union RangeOf(resent) \union RangeOf(fresh)
     /\ window' = window1
     /\ lossy' = IF lossy1 THEN window1 ELSE lossy
     /\ UNCHANGED <<packetNumber, splitPacketId, writeIndex, calls, sent, parsing, dead, ackWire, receiver>>

Frame ==
  \E from \in 1 .. Len(resendQueue) + 1, n \in 0 .. Len(sendQueue) :
    \E again \in InOrder({i \in 1 .. from - 1 : IsPacket(resendQueue[i])}),
       keep \in InOrder({i \in 1 .. n : IsReliable(sendQueue[i])}) :
         GenerateFrame(from, again, n, keep)

\* No ack for ten seconds.  An Update before that would have dropped a hole at the
\* head, unless the window was full and nothing else made a frame ready.
GiveUp ==
  /\ ~dead /\ parsing.left = <<>>
  /\ resendQueue # <<>>
  /\ IsPacket(Head(resendQueue)) \/ ~IsFrameReady(FALSE)
  /\ dead' = TRUE
  /\ UNCHANGED <<sending, resendQueue, window, lossy, parsing, wire, ackWire, receiver>>

-----------------------------------------------------------------------------
(* The acks arrive at the sender *)

ReceiveAcks(d) ==
  /\ ~dead /\ parsing.left = <<>>
  /\ d \in ackWire
  /\ ackWire' = ackWire \ {d}
  /\ parsing' = [left |-> d, count |-> Len(d)]
  /\ UNCHANGED <<sending, resendQueue, window, lossy, dead, wire, receiver>>

\* IsOlderOrderedPacket: index i is one of the Half before w.
IsOlder(i, w) == (w - i) % Modulus \in 1 .. Half

\* The places an ack for number n empties: the first packet with that number, and
\* the older sequenced packets on its stream.
Acked(q, n) == {i \in 1 .. Len(q) : /\ IsPacket(q[i]) /\ q[i].number = n
                                    /\ \A j \in 1 .. i - 1 : IsPacket(q[j]) => q[j].number # n}
\* Mutant of Emptied: an ack deletes the older safe packets, too.
Emptied_Safe(q, n) ==
  Acked(q, n) \union
    {j \in 1 .. Len(q) : \E i \in Acked(q, n) :
        /\ IsPacket(q[j])
        /\ q[j].stream = q[i].stream
        /\ IsOlder(Index(q[j]), Index(q[i]))}

\* Mutant of Emptied: an ack deletes the newer unsafe packets.
Emptied_Newer(q, n) ==
  Acked(q, n) \union
    {j \in 1 .. Len(q) : \E i \in Acked(q, n) :
        /\ IsPacket(q[j])
        /\ q[i].kind = "sequenced" /\ q[j].kind = "sequenced"
        /\ q[j].stream = q[i].stream
        /\ IsOlder(Index(q[i]), Index(q[j]))}

Emptied(q, n) ==
  Acked(q, n) \union
    {j \in 1 .. Len(q) : \E i \in Acked(q, n) :
        /\ IsPacket(q[j])
        /\ q[i].kind = "sequenced" /\ q[j].kind = "sequenced"
        /\ q[j].stream = q[i].stream
        /\ IsOlder(Index(q[j]), Index(q[i]))}

\* RemovePacketFromResendQueueAndDeleteOlderReliableSequenced: the head is popped
\* when it is the packet itself, everything else leaves a hole.
RemovePacket(q, n) ==
  LET holed == [i \in 1 .. Len(q) |-> IF i \in Emptied(q, n) THEN Hole ELSE q[i]]
  IN IF 1 \in Acked(q, n) THEN Tail(holed) ELSE holed

\* After the last ack of a datagram with as many acks as the window, and something
\* to send, the window may grow: it does below the last lossy one and now and then.
MayGrow == Len(parsing.left) = 1 /\ parsing.count >= window /\ sendQueue # <<>>

HandleAck(grow) ==
  /\ parsing.left # <<>>
  /\ resendQueue' = RemovePacket(resendQueue, Head(parsing.left))
  /\ parsing' = [parsing EXCEPT !.left = Tail(@)]
  /\ grow => MayGrow
  /\ window' = IF grow THEN IF window + 1 > MaxWindow THEN MaxWindow ELSE window + 1 ELSE window
  /\ lossy' = IF grow /\ (window' = MaxWindow \/ window' > lossy + 5) THEN lossy + 1 ELSE lossy
  /\ UNCHANGED <<sending, dead, wire, ackWire, receiver>>

-----------------------------------------------------------------------------
(* The receiver, in its network thread *)

\* What waits on stream s with index i, and a sequence of such from r + 1 to r + n.
WaitingAt(s, i) == {p \in waiting : p.stream = s /\ Index(p) = i}
Behind(s, r, n) == [i \in 1 .. n |-> CHOOSE q \in WaitingAt(s, r + i) : TRUE]
Ordinals(q)     == [i \in 1 .. Len(q) |-> q[i].ordinal]

\* The message is next on its stream: it and the n that wait behind it go out.
HandOrdered(p, n) ==
  LET s == p.stream
      r == readIndex["ordered"][s]
  IN /\ \A i \in 1 .. n : WaitingAt(s, r + i) # {}
     /\ WaitingAt(s, r + n + 1) = {}
     /\ waiting' = waiting \ RangeOf(Behind(s, r, n))
     /\ handed' = [handed EXCEPT !["ordered"][s] =
          @ \o <<p.ordinal>> \o Ordinals(Behind(s, r, n))]
     /\ readIndex' = [readIndex EXCEPT !["ordered"][s] = r + n + 1]

\* Mutant of Ordered: the packets that wait behind the message are left there.
Ordered_NoFlush(p) ==
  IF Index(p) = readIndex["ordered"][p.stream]
  THEN /\ readIndex' = [readIndex EXCEPT !["ordered"][p.stream] = @ + 1]
       /\ handed' = [handed EXCEPT !["ordered"][p.stream] = Append(@, p.ordinal)]
       /\ UNCHANGED waiting
  ELSE /\ waiting' = waiting \union {p}
       /\ UNCHANGED <<readIndex, handed>>

\* Mutant of Ordered: a newer packet does not wait, as on a sequenced stream.
Ordered_Newer(p) ==
  IF Index(p) >= readIndex["ordered"][p.stream]
  THEN /\ readIndex' = [readIndex EXCEPT !["ordered"][p.stream] = Index(p) + 1]
       /\ handed' = [handed EXCEPT !["ordered"][p.stream] = Append(@, p.ordinal)]
       /\ UNCHANGED waiting
  ELSE UNCHANGED <<readIndex, handed, waiting>>

Ordered(p) ==
  IF Index(p) = readIndex["ordered"][p.stream]
  THEN \E n \in 0 .. Modulus : HandOrdered(p, n)
  ELSE /\ waiting' = waiting \union {p}
       /\ UNCHANGED <<readIndex, handed>>

Sequenced(p) ==
  /\ readIndex' = [readIndex EXCEPT !["sequenced"][p.stream] = Index(p) + 1]
  /\ handed' = [handed EXCEPT !["sequenced"][p.stream] = Append(@, p.ordinal)]
  /\ UNCHANGED waiting

\* A part that has come; one that comes late again is in the list twice.
Copy(p) == [of |-> p, copy |-> Cardinality({x \in splits : x.of = p})]

\* Mutant of Parts: the parts of all messages of the stream are taken for one.
Parts_AnyMessage(p) == {x \in splits \union {Copy(p)} : x.of.stream = p.stream}

\* The parts it goes with: the id alone decides.
Parts(p) == {x \in splits \union {Copy(p)} : x.of.id = p.id}

\* Mutant of Complete: one part fewer than all is enough.
Complete_OneShort(p, first) == Cardinality(Parts(p)) + 1 >= first.of.parts

\* BuildPacketFromSplitPacketList asks the first of them in the list how many there
\* must be, and copies its place in the stream.
Complete(p, first) == Cardinality(Parts(p)) = first.of.parts

\* A part that no duplicate check has stopped.
AcceptPart(p) ==
  \E first \in Parts(p) :
    IF Complete(p, first)
    THEN /\ splits' = splits \ Parts(p)
         /\ Ordered(first.of)
    ELSE /\ splits' = splits \union {Copy(p)}
         /\ UNCHANGED <<readIndex, waiting, handed>>

\* A packet that no duplicate check has stopped.
Accept(p) ==
  \/ /\ \/ p.kind = "plain"
        \/ p.kind = "sequenced" /\ IsOlder(Index(p), readIndex["sequenced"][p.stream])
     /\ UNCHANGED <<splits, readIndex, waiting, handed>>
  \/ /\ p.kind = "sequenced"
     /\ ~IsOlder(Index(p), readIndex["sequenced"][p.stream])
     /\ Sequenced(p)
     /\ UNCHANGED splits
  \/ p.kind = "ordered" /\ ~Split(p) /\ Ordered(p) /\ UNCHANGED splits
  \/ p.kind = "ordered" /\ Split(p) /\ AcceptPart(p)

\* HandleSocketReceiveFromConnectedPlayer for one packet: a reliable one is
\* acknowledged before the check for a duplicate.  What the network repeats looks like
\* what the sender sends again.  A number is that of a duplicate unless it comes "late",
\* more than TIMEOUT_TIME after it was last taken.
ReceivePacket(p, late) ==
  /\ Len(acks) < MaxAcks
  /\ late => p.number \in received /\ Len(repeats) < MaxLate
  /\ p \in wire
  /\ wire' = wire \ {p}
  /\ acks' = IF IsReliable(p) THEN Append(acks, p.number) ELSE acks
  /\ IF p.number \in received /\ ~late
     THEN UNCHANGED <<received, repeats, readIndex, splits, waiting, handed>>
     ELSE /\ received' = received \union {p.number}
          /\ repeats' = IF late THEN Append(repeats, p.number) ELSE repeats
          /\ Accept(p)
  /\ UNCHANGED <<sending, flow, ackWire>>

\* The acks go out, in as many datagrams as they need; the network may lose one.
SendAcks(n, arrives) ==
  /\ n <= FrameLimit
  /\ IF arrives THEN /\ Cardinality(ackWire) < MaxAckFrames
                     /\ ackWire' = ackWire \union {SubSeq(acks, 1, n)}
     ELSE UNCHANGED ackWire
  /\ acks' = SubSeq(acks, n + 1, Len(acks))
  /\ UNCHANGED <<sending, flow, wire, received, repeats, readIndex, splits, waiting, handed>>

Next ==
  \/ \E c \in Callers : \/ \E t \in Traffic : ReadNumber(c, t)
                        \/ TakeIndex(c)
                        \/ MakePart(c)
                        \/ ReadSplitId(c)
                        \/ WriteSplitId(c)
                        \/ Push(c)
  \/ Frame
  \/ GiveUp
  \/ \E d \in ackWire : ReceiveAcks(d)
  \/ \E grow \in BOOLEAN : HandleAck(grow)
  \/ \E p \in wire, late \in BOOLEAN : ReceivePacket(p, late)
  \/ \E n \in 1 .. Len(acks), arrives \in BOOLEAN : SendAcks(n, arrives)

Spec == Init /\ [][Next]_vars

-----------------------------------------------------------------------------
(* Properties *)

\* Every variable has its type.
TypeOK ==
  /\ packetNumber \in Nat /\ splitPacketId \in Nat
  /\ writeIndex \in [Kinds -> [Streams -> Nat]]
  /\ calls \in [Callers -> Call \union {Idle}]
  /\ sendQueue \in Seq(Packet)
  /\ resendQueue \in Seq(Packet \union {Hole})
  /\ window \in Nat /\ lossy \in Nat
  /\ parsing \in [left : Seq(Nat), count : Nat]
  /\ dead \in BOOLEAN
  /\ wire \subseteq Packet
  /\ ackWire \subseteq Seq(Nat)
  /\ received \subseteq Nat /\ repeats \in Seq(Nat)
  /\ readIndex \in [Indexed -> [Streams -> Nat]]
  /\ splits \subseteq [of : Packet, copy : Nat] /\ waiting \subseteq Packet
  /\ acks \in Seq(Nat)
  /\ handed \in [Indexed -> [Streams -> Seq(Nat)]]
  /\ sent \subseteq Packet

\* Streamed: whatever is lost, repeated or overtaken, the packets of an ordered stream
\* are handed on each once and in the order of sending, and those of a sequenced one
\* never go back: the layer implements PacketStreams.
Promise == INSTANCE PacketStreams WITH
  sent <- [k \in Indexed |-> writeIndex[k]], got <- handed
Streamed == Promise!StreamSpec

\* Two packets with one number: two callers read it before either counted it on.
Shared(p) == \E q \in sent : q # p /\ q.number = p.number

\* Ids that do not tell messages in parts apart, p's from another: two callers read one
\* id before either counted it on, or the id changed between the parts of one.
Mixed(p) ==
  \E q, r \in sent : /\ Split(q) /\ Split(r) /\ SameMessage(p, q)
                     /\ SameMessage(q, r) # (q.id = r.id)

\* A part of p's message was taken for a new one again.
Doubled(p) == \E q \in sent : SameMessage(p, q) /\ q.number \in RangeOf(repeats)

HeldBySender(p) == p \in RangeOf(sendQueue) \union RangeOf(resendQueue)

HandedOn(p) == p.ordinal \in RangeOf(handed[p.kind][p.stream])

HeldByReceiver(p) ==
  \/ \E x \in splits : x.of = p
  \/ \E q \in waiting : q.stream = p.stream /\ q.ordinal = p.ordinal
  \/ HandedOn(p)

\* A safe packet is never lost: the sender forgets it only when the receiver keeps it
\* or has handed it on.  Two races lose one: it was dropped for another packet with the
\* same number, or put together with parts of another message that has the same id.
NoSafePacketLost ==
  \A p \in sent :
    p.kind = "ordered" => HeldBySender(p) \/ HeldByReceiver(p) \/ Shared(p) \/ Mixed(p)

\* The newest packet of a sequenced stream is not lost: the sender drops unsafe packets
\* that a newer one supersedes, and never the newest.
NewestHeld ==
  \A p \in sent :
    /\ p.kind = "sequenced"
    /\ \A q \in sent : q.kind = p.kind /\ q.stream = p.stream => q.ordinal <= p.ordinal
    => HeldBySender(p) \/ HandedOn(p) \/ Shared(p)

\* No stream stalls: a packet that is next on its stream does not wait at the receiver.
\* "This wraps at 255" says the comment on the index that decides it.
DueIsHanded == \A p \in waiting : p.ordinal # Len(handed["ordered"][p.stream])

\* A message in parts is handed on only when all its parts have come, unless its ids were
\* mixed up or a part that came late again was counted for another one.
WholeMessages ==
  \A p \in sent : p.kind \in Indexed /\ HandedOn(p)
                    => p.number \in received \/ Mixed(p) \/ Doubled(p)

\* The connection is given up only while a packet has no answer: "Were you ever unable
\* to deliver a packet despite retries?" asks IsDeadConnection.
DeadOnlyUnanswered == dead => \E i \in 1 .. Len(resendQueue) : IsPacket(resendQueue[i])
=============================================================================
