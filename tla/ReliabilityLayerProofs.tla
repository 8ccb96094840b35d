----------------------- MODULE ReliabilityLayerProofs -----------------------
(***************************************************************************)
(* Proofs about the reliability layer, for any streams, callers, traffic   *)
(* and window: safe packets are never lost, no message is handed on in     *)
(* part, and as long as the index of no stream has gone half round, the    *)
(* layer implements PacketStreams, no stream stalls and the newest unsafe  *)
(* packet is not lost.                                                     *)
(***************************************************************************)
EXTENDS ReliabilityLayer, FunctionTheorems, FiniteSetTheorems, SequenceTheorems, TLAPS

-----------------------------------------------------------------------------
(* Sequences *)

LEMMA SeqGrows == ASSUME NEW S, NEW T, S \subseteq T PROVE Seq(S) \subseteq Seq(T)
BY SeqMonotonic

\* A sequence that picks elements of another one.
LEMMA PicksOf ==
  ASSUME NEW S, NEW q \in Seq(S), NEW P \in SUBSET (1 .. Len(q)), NEW f \in InOrder(P)
  PROVE  /\ Len(f) \in Nat
         /\ [i \in 1 .. Len(f) |-> q[f[i]]] \in Seq(S)
         /\ \A x \in P : \E i \in 1 .. Len(f) : f[i] = x
         /\ \A i \in 1 .. Len(f) : f[i] \in P
<1>1. IsFiniteSet(1 .. Len(q)) /\ Len(q) \in Nat
  BY FS_Interval, LenProperties
<1>2. Cardinality(P) \in Nat
  BY <1>1, FS_Subset, FS_CardinalityType
<1>3. f \in [1 .. Cardinality(P) -> P]
  BY DEF InOrder
<1>4. f \in Seq(P) /\ Len(f) = Cardinality(P)
  BY <1>2, <1>3, IsASeq, LenProperties
<1>5. \A i \in 1 .. Len(f) : f[i] \in P
  BY <1>3, <1>4
<1>6. \A i \in 1 .. Len(f) : q[f[i]] \in S
  BY <1>5, ElementOfSeq
<1>7. [i \in 1 .. Len(f) |-> q[f[i]]] \in Seq(S)
  BY <1>2, <1>4, <1>6, IsASeq
<1> QED
  BY <1>2, <1>4, <1>5, <1>7 DEF InOrder

LEMMA FrontAndRest ==
  ASSUME NEW S, NEW q \in Seq(S), NEW n \in 0 .. Len(q)
  PROVE  /\ SubSeq(q, 1, n) \in Seq(S)
         /\ Len(SubSeq(q, 1, n)) = n
         /\ \A i \in 1 .. n : SubSeq(q, 1, n)[i] = q[i]
         /\ SubSeq(q, n + 1, Len(q)) \in Seq(S)
         /\ Len(SubSeq(q, n + 1, Len(q))) = Len(q) - n
         /\ \A i \in 1 .. Len(q) - n : SubSeq(q, n + 1, Len(q))[i] = q[n + i]
<1>1. Len(q) \in Nat /\ \A i \in 1 .. Len(q) : q[i] \in S
  BY LenProperties, ElementOfSeq
<1>2. \A i \in 1 .. n : q[i] \in S
  BY <1>1
<1>3. \A i \in n + 1 .. Len(q) : q[i] \in S
  BY <1>1
<1>4. /\ SubSeq(q, 1, n) \in Seq(S)
      /\ Len(SubSeq(q, 1, n)) = IF 1 <= n THEN n - 1 + 1 ELSE 0
      /\ \A i \in 1 .. n - 1 + 1 : SubSeq(q, 1, n)[i] = q[1 + i - 1]
  BY <1>1, <1>2, SubSeqProperties
<1>5. /\ SubSeq(q, n + 1, Len(q)) \in Seq(S)
      /\ Len(SubSeq(q, n + 1, Len(q))) = IF n + 1 <= Len(q) THEN Len(q) - (n + 1) + 1 ELSE 0
      /\ \A i \in 1 .. Len(q) - (n + 1) + 1 : SubSeq(q, n + 1, Len(q))[i] = q[n + 1 + i - 1]
  BY <1>1, <1>3, SubSeqProperties
<1> QED
  BY <1>1, <1>4, <1>5

LEMMA RangeFacts ==
  ASSUME NEW S, NEW q \in Seq(S)
  PROVE  RangeOf(q) \subseteq S /\ \A x : x \in RangeOf(q) <=> \E i \in 1 .. Len(q) : q[i] = x
BY ElementOfSeq DEF RangeOf

LEMMA RangeConcat ==
  ASSUME NEW S, NEW q \in Seq(S), NEW r \in Seq(S)
  PROVE  RangeOf(q \o r) = RangeOf(q) \union RangeOf(r)
<1>1. /\ q \o r \in Seq(S)
      /\ Len(q \o r) = Len(q) + Len(r)
      /\ \A i \in 1 .. Len(q) + Len(r) :
           (q \o r)[i] = IF i <= Len(q) THEN q[i] ELSE r[i - Len(q)]
      /\ Len(q) \in Nat /\ Len(r) \in Nat
  BY ConcatProperties, LenProperties
<1>2. ASSUME NEW x \in RangeOf(q \o r) PROVE x \in RangeOf(q) \union RangeOf(r)
  <2>1. PICK i \in 1 .. Len(q) + Len(r) : (q \o r)[i] = x
    BY <1>1 DEF RangeOf
  <2>2. CASE i <= Len(q)
    BY <2>1, <2>2, <1>1 DEF RangeOf
  <2>3. CASE ~(i <= Len(q))
    <3>1. i - Len(q) \in 1 .. Len(r) /\ r[i - Len(q)] = x
      BY <2>1, <2>3, <1>1
    <3> QED
      BY <3>1 DEF RangeOf
  <2> QED
    BY <2>2, <2>3
<1>3. ASSUME NEW x \in RangeOf(q) PROVE x \in RangeOf(q \o r)
  <2>1. PICK i \in 1 .. Len(q) : q[i] = x
    BY DEF RangeOf
  <2>2. i \in 1 .. Len(q \o r) /\ (q \o r)[i] = x
    BY <2>1, <1>1
  <2> QED
    BY <2>2 DEF RangeOf
<1>4. ASSUME NEW x \in RangeOf(r) PROVE x \in RangeOf(q \o r)
  <2>1. PICK i \in 1 .. Len(r) : r[i] = x
    BY DEF RangeOf
  <2>2. Len(q) + i \in 1 .. Len(q \o r) /\ (q \o r)[Len(q) + i] = x
    BY <2>1, <1>1
  <2> QED
    BY <2>2 DEF RangeOf
<1> QED
  BY <1>2, <1>3, <1>4

LEMMA RangeAppend ==
  ASSUME NEW S, NEW q \in Seq(S), NEW x \in S
  PROVE  /\ Append(q, x) \in Seq(S)
         /\ Len(Append(q, x)) = Len(q) + 1
         /\ RangeOf(Append(q, x)) = RangeOf(q) \union {x}
<1>1. <<x>> \in Seq(S) /\ RangeOf(<<x>>) = {x}
  BY DEF RangeOf
<1>2. Append(q, x) = q \o <<x>>
  BY AppendIsConcat
<1>3. RangeOf(q \o <<x>>) = RangeOf(q) \union RangeOf(<<x>>)
  <2> DEFINE mid == <<x>>
  <2>1. mid \in Seq(S)
    BY <1>1
  <2> HIDE DEF mid
  <2>2. RangeOf(q \o mid) = RangeOf(q) \union RangeOf(mid)
    BY <2>1, RangeConcat
  <2> QED
    BY <2>2 DEF mid
<1>4. Append(q, x) \in Seq(S) /\ Len(Append(q, x)) = Len(q) + 1
  BY AppendProperties
<1> QED
  BY <1>1, <1>2, <1>3, <1>4

-----------------------------------------------------------------------------
(* What every variable holds *)

Numbers == {p.number : p \in sent}

OrderedSent == {p \in sent : p.kind = "ordered"}

SplitSent == {p \in OrderedSent : Split(p)}

\* What a call has made are parts of its message, and no more than it needs.
MadeSound(m) ==
  /\ m.kind # "ordered" => m.parts = 1
  /\ m.at = "numbered" => m.made = <<>>
  /\ Len(m.made) <= m.parts
  /\ \A p \in RangeOf(m.made) : SameMessage(m, p) /\ p.parts = m.parts

Shape ==
  /\ packetNumber \in Nat /\ splitPacketId \in Nat
  /\ writeIndex \in [Kinds -> [Streams -> Nat]]
  /\ calls \in [Callers -> Call \union {Idle}]
  /\ \A c \in Callers : calls[c] # Idle => MadeSound(calls[c])
  /\ sent \subseteq Packet
  /\ \A p \in sent : p.kind # "ordered" => p.parts = 1
  /\ sendQueue \in Seq(sent)
  /\ resendQueue \in Seq(sent \union {Hole})
  /\ window \in Nat /\ lossy \in Nat /\ dead \in BOOLEAN
  /\ parsing \in [left : Seq(received), count : Nat]
  /\ wire \subseteq sent
  /\ ackWire \subseteq Seq(received)
  /\ received \subseteq Numbers /\ repeats \in Seq(received)
  /\ acks \in Seq(received)
  /\ readIndex \in [Indexed -> [Streams -> Nat]]
  /\ handed \in [Indexed -> [Streams -> Seq(Nat)]]
  /\ splits \subseteq [of : SplitSent, copy : Nat] /\ IsFiniteSet(splits)
  /\ waiting \subseteq OrderedSent

LEMMA ShapeInit == Init => Shape
<1> SUFFICES ASSUME Init PROVE Shape
  OBVIOUS
<1>1. /\ <<>> \in Seq(sent) /\ <<>> \in Seq(sent \union {Hole})
      /\ <<>> \in Seq(received) /\ <<>> \in Seq(Nat)
  BY EmptySeq
<1>2. Idle \in Call \union {Idle}
  OBVIOUS
<1>3. parsing \in [left : Seq(received), count : Nat]
  BY <1>1 DEF Init
<1>4. /\ calls \in [Callers -> Call \union {Idle}]
      /\ \A c \in Callers : calls[c] # Idle => MadeSound(calls[c])
  BY <1>2 DEF Init
<1>5. handed \in [Indexed -> [Streams -> Seq(Nat)]]
  BY <1>1 DEF Init
<1>6. /\ writeIndex \in [Kinds -> [Streams -> Nat]]
      /\ readIndex \in [Indexed -> [Streams -> Nat]]
  BY DEF Init
<1>7. window \in Nat /\ lossy \in Nat /\ packetNumber \in Nat /\ splitPacketId \in Nat
  BY ReliabilityAssumption DEF Init
<1>10. dead \in BOOLEAN
  BY DEF Init
<1>8. /\ sent \subseteq Packet /\ wire \subseteq sent /\ ackWire \subseteq Seq(received)
      /\ \A p \in sent : p.kind # "ordered" => p.parts = 1
      /\ received \subseteq Numbers /\ waiting \subseteq OrderedSent
      /\ splits \subseteq [of : SplitSent, copy : Nat] /\ IsFiniteSet(splits)
  BY FS_EmptySet DEF Init
<1>9. /\ sendQueue \in Seq(sent) /\ resendQueue \in Seq(sent \union {Hole})
      /\ acks \in Seq(received) /\ repeats \in Seq(received)
  BY <1>1 DEF Init
<1> QED
  BY <1>3, <1>4, <1>5, <1>6, <1>7, <1>8, <1>9, <1>10 DEF Shape

LEMMA SentNotHole == ASSUME Shape, NEW p \in sent PROVE IsPacket(p)
<1>1. p.kind \in {"ordered", "sequenced", "plain"}
  BY DEF Shape, Packet, Kinds
<1>2. Hole.kind = "hole"
  BY DEF Hole
<1>3. p.kind # "hole"
  BY <1>1
<1> QED
  BY <1>2, <1>3 DEF IsPacket

\* A call that has taken its index.
Indexing(c) == calls[c].at \in {"indexed", "counting", "made"}

\* A call that is under way is no idle one.
LEMMA CallType ==
  ASSUME Shape, NEW c \in Callers, calls[c].at = "numbered" \/ Indexing(c)
  PROVE  calls[c] \in Call /\ MadeSound(calls[c]) /\ calls[c] # Idle
<1>1. calls[c].at # "idle"
  BY DEF Indexing
<1>2. calls[c] # Idle
  BY <1>1 DEF Idle
<1> QED
  BY <1>2 DEF Shape

LEMMA ReadNumberShape ==
  ASSUME Shape, NEW c \in Callers, NEW t \in Traffic, ReadNumber(c, t)
  PROVE  Shape'
<1> DEFINE m == [at |-> "numbered", kind |-> t.kind, stream |-> t.stream, ordinal |-> 0,
                 parts |-> t.parts, number |-> packetNumber, made |-> <<>>, next |-> 0]
<1>1. /\ t.kind \in Kinds /\ t.stream \in Streams /\ t.parts \in Nat \ {0}
      /\ t.kind # "ordered" => t.parts = 1
  BY ReliabilityAssumption
<1>2. m \in Call
  <2>1. <<>> \in Seq(Packet) /\ packetNumber \in Nat
    BY EmptySeq DEF Shape
  <2> QED
    BY <1>1, <2>1 DEF Call
<1>3. MadeSound(m)
  BY <1>1 DEF MadeSound, RangeOf
<1>4. calls' = [calls EXCEPT ![c] = m]
  BY DEF ReadNumber
<1> HIDE DEF m
<1>5. /\ calls' \in [Callers -> Call \union {Idle}]
      /\ \A d \in Callers : calls'[d] # Idle => MadeSound(calls'[d])
  BY <1>2, <1>3, <1>4 DEF Shape
<1> QED
  BY <1>5 DEF ReadNumber, Shape, flow, receiver, Numbers, OrderedSent, SplitSent

\* What the fields of a call hold, and what is written to them.
LEMMA CallFields ==
  ASSUME NEW m \in Call
  PROVE  /\ m.kind \in Kinds /\ m.stream \in Streams /\ m.ordinal \in Nat
         /\ m.parts \in Nat \ {0} /\ m.number \in Nat /\ m.made \in Seq(Packet)
         /\ m.next \in Nat
BY DEF Call

LEMMA PartType ==
  ASSUME NEW m \in Call, NEW i \in Nat, NEW n \in Nat, NEW id \in Nat
  PROVE  /\ PartOf(m, i, n, id) \in Packet
         /\ SameMessage(m, PartOf(m, i, n, id))
         /\ PartOf(m, i, n, id).parts = m.parts
BY CallFields DEF PartOf, Packet, SameMessage

LEMMA CallMoves ==
  ASSUME NEW m \in Call, NEW a \in {"indexed", "counting", "made"}
  PROVE  /\ [m EXCEPT !.at = a] \in Call
         /\ [m EXCEPT !.at = a].at = a /\ [m EXCEPT !.at = a].made = m.made
         /\ [m EXCEPT !.at = a].kind = m.kind /\ [m EXCEPT !.at = a].stream = m.stream
         /\ [m EXCEPT !.at = a].ordinal = m.ordinal /\ [m EXCEPT !.at = a].parts = m.parts
BY DEF Call

LEMMA CallMakes ==
  ASSUME NEW m \in Call, NEW q \in Seq(Packet)
  PROVE  /\ [m EXCEPT !.at = "made", !.made = q] \in Call
         /\ [m EXCEPT !.at = "made", !.made = q].at = "made"
         /\ [m EXCEPT !.at = "made", !.made = q].made = q
         /\ [m EXCEPT !.at = "made", !.made = q].kind = m.kind
         /\ [m EXCEPT !.at = "made", !.made = q].stream = m.stream
         /\ [m EXCEPT !.at = "made", !.made = q].ordinal = m.ordinal
         /\ [m EXCEPT !.at = "made", !.made = q].parts = m.parts
<1> DEFINE S == Seq(Packet)
           C == [at : {"numbered", "indexed", "counting", "made"}, kind : Kinds,
                 stream : Streams, ordinal : Nat, parts : Nat \ {0}, number : Nat,
                 made : S, next : Nat]
           n == [m EXCEPT !.at = "made", !.made = q]
<1>1. m \in C /\ q \in S /\ C = Call
  BY DEF Call
<1> HIDE DEF S
<1>2. /\ n \in C /\ n.at = "made" /\ n.made = q /\ n.kind = m.kind
      /\ n.stream = m.stream /\ n.ordinal = m.ordinal /\ n.parts = m.parts
  BY <1>1
<1> QED
  BY <1>1, <1>2

LEMMA CallCounts ==
  ASSUME NEW m \in Call, NEW x \in Nat
  PROVE  /\ [m EXCEPT !.at = "counting", !.next = x] \in Call
         /\ [m EXCEPT !.at = "counting", !.next = x].at = "counting"
         /\ [m EXCEPT !.at = "counting", !.next = x].made = m.made
         /\ [m EXCEPT !.at = "counting", !.next = x].kind = m.kind
         /\ [m EXCEPT !.at = "counting", !.next = x].stream = m.stream
         /\ [m EXCEPT !.at = "counting", !.next = x].ordinal = m.ordinal
         /\ [m EXCEPT !.at = "counting", !.next = x].parts = m.parts
BY DEF Call

\* The message that TakeIndex gives its place: it is split later or made at once.
Placed(c) == [calls[c] EXCEPT !.ordinal = writeIndex[calls[c].kind][calls[c].stream]]

LEMMA TakeIndexFacts ==
  ASSUME Shape, NEW c \in Callers, TakeIndex(c)
  PROVE  /\ calls[c] \in Call
         /\ calls' \in [Callers -> Call \union {Idle}]
         /\ \A d \in Callers : d # c => calls'[d] = calls[d]
         /\ MadeSound(calls'[c]) /\ Indexing(c)'
         /\ calls'[c].kind = calls[c].kind /\ calls'[c].stream = calls[c].stream
         /\ calls'[c].ordinal = writeIndex[calls[c].kind][calls[c].stream]
<1> DEFINE m == Placed(c)
           p == PartOf(m, 1, m.number, 0)
           n == IF Split(m) THEN [m EXCEPT !.at = "indexed"]
                ELSE [m EXCEPT !.at = "made", !.made = <<p>>]
<1>1. /\ calls[c] \in Call /\ MadeSound(calls[c]) /\ calls[c].at = "numbered"
  BY CallType DEF TakeIndex
<1>2. writeIndex[calls[c].kind][calls[c].stream] \in Nat
  BY <1>1 DEF Call, Shape
<1>3. /\ m \in Call /\ m.made = <<>>
      /\ m.kind # "ordered" => m.parts = 1
      /\ m.kind = calls[c].kind /\ m.stream = calls[c].stream
      /\ m.ordinal = writeIndex[calls[c].kind][calls[c].stream]
      /\ m.parts \in Nat \ {0} /\ m.number \in Nat
  BY <1>1, <1>2 DEF Placed, Call, MadeSound
<1>4. calls' = [calls EXCEPT ![c] = n]
  BY DEF TakeIndex, Placed
<1> HIDE DEF m
<1>5. p \in Packet /\ SameMessage(m, p) /\ p.parts = m.parts
  <2>1. m \in Call /\ m.number \in Nat /\ 1 \in Nat /\ 0 \in Nat
    BY <1>3
  <2> QED
    BY <2>1, PartType, Zenon
<1> HIDE DEF p
<1>6. <<p>> \in Seq(Packet) /\ Len(<<p>>) = 1 /\ RangeOf(<<p>>) = {p}
  BY <1>5 DEF RangeOf
<1>7. CASE Split(m)
  <2>1. n = [m EXCEPT !.at = "indexed"]
    BY <1>7
  <2>2. /\ n \in Call /\ n.at = "indexed" /\ n.made = <<>> /\ n.kind = m.kind
        /\ n.stream = m.stream /\ n.ordinal = m.ordinal /\ n.parts = m.parts
    BY <1>3, <2>1, CallMoves
  <2> HIDE DEF n
  <2>3. MadeSound(n)
    <3>1. RangeOf(n.made) = {} /\ Len(n.made) = 0
      BY <2>2 DEF RangeOf
    <3> QED
      BY <1>3, <2>2, <3>1 DEF MadeSound
  <2> QED
    BY <1>1, <1>3, <1>4, <2>2, <2>3 DEF Shape, Indexing
<1>8. CASE ~Split(m)
  <2> DEFINE made == <<p>>
  <2>0. made \in Seq(Packet) /\ Len(made) = 1 /\ RangeOf(made) = {p}
    BY <1>6
  <2>1. n = [m EXCEPT !.at = "made", !.made = made]
    BY <1>8
  <2> HIDE DEF made, n
  <2>2. /\ n \in Call /\ n.at = "made" /\ n.made = made /\ n.kind = m.kind
        /\ n.stream = m.stream /\ n.ordinal = m.ordinal /\ n.parts = m.parts
    BY <1>3, <2>0, <2>1, CallMakes
  <2>3. MadeSound(n)
    <3>1. SameMessage(n, p) /\ p.parts = n.parts
      BY <1>5, <2>2 DEF SameMessage
    <3>2. Len(n.made) = 1 /\ RangeOf(n.made) = {p} /\ n.parts >= 1
      BY <1>3, <2>0, <2>2
    <3> QED
      BY <1>3, <2>2, <3>1, <3>2 DEF MadeSound
  <2> QED
    BY <1>1, <1>3, <1>4, <2>2, <2>3 DEF Shape, Indexing
<1> QED
  BY <1>7, <1>8

LEMMA TakeIndexShape ==
  ASSUME Shape, NEW c \in Callers, TakeIndex(c)
  PROVE  Shape'
<1>1. /\ calls[c] \in Call
      /\ calls' \in [Callers -> Call \union {Idle}]
      /\ \A d \in Callers : d # c => calls'[d] = calls[d]
      /\ MadeSound(calls'[c])
  BY TakeIndexFacts
<1>2. /\ calls[c].kind \in Kinds /\ calls[c].stream \in Streams
  BY <1>1 DEF Call
<1>3. writeIndex' \in [Kinds -> [Streams -> Nat]] /\ packetNumber' \in Nat
  <2>1. /\ writeIndex' = [writeIndex EXCEPT ![calls[c].kind][calls[c].stream] = @ + 1]
        /\ packetNumber' = packetNumber + 1
    BY DEF TakeIndex
  <2>2. writeIndex \in [Kinds -> [Streams -> Nat]] /\ packetNumber \in Nat
    BY DEF Shape
  <2> QED
    BY <1>2, <2>1, <2>2
<1>4. \A d \in Callers : calls'[d] # Idle => MadeSound(calls'[d])
  BY <1>1 DEF Shape
<1> QED
  BY <1>1, <1>3, <1>4 DEF TakeIndex, Shape, flow, receiver, Numbers, OrderedSent, SplitSent

\* A step of SplitPacketAndDeleteOriginal.
Making(c) == MakePart(c) \/ ReadSplitId(c) \/ WriteSplitId(c)

LEMMA MakingFacts ==
  ASSUME Shape, NEW c \in Callers, Making(c)
  PROVE  /\ UNCHANGED <<writeIndex, sendQueue, sent, flow, wire, ackWire, receiver>>
         /\ packetNumber' \in Nat /\ splitPacketId' \in Nat
         /\ calls' \in [Callers -> Call \union {Idle}]
         /\ \A d \in Callers : d # c => calls'[d] = calls[d]
         /\ calls[c] \in Call /\ Indexing(c)
         /\ MadeSound(calls'[c]) /\ Indexing(c)' /\ SameMessage(calls[c], calls'[c])
<1> DEFINE m == calls[c]
<1>1. /\ m \in Call /\ MadeSound(m) /\ Indexing(c) /\ m.parts \in Nat /\ m.made \in Seq(Packet)
      /\ packetNumber \in Nat /\ splitPacketId \in Nat
  <2>1. Indexing(c)
    BY DEF Making, MakePart, ReadSplitId, WriteSplitId, Indexing
  <2> QED
    BY <2>1, CallType DEF Call, Shape
<1>2. CASE MakePart(c)
  <2> DEFINE i == Len(m.made) + 1
             p == PartOf(m, i, IF i = 1 THEN m.number ELSE packetNumber, splitPacketId)
             made == Append(m.made, p)
             n == [m EXCEPT !.made = made]
  <2>1. calls' = [calls EXCEPT ![c] = n]
    BY <1>2 DEF MakePart, Shape
  <2>2. i \in Nat /\ i <= m.parts /\ m.at = "indexed"
    BY <1>1, <1>2, LenProperties DEF MakePart
  <2>3. p \in Packet /\ SameMessage(m, p) /\ p.parts = m.parts
    <3> HIDE DEF i
    <3> QED
      BY <1>1, <2>2 DEF PartOf, Packet, Call, SameMessage
  <2> HIDE DEF p
  <2>4. made \in Seq(Packet) /\ Len(made) = i /\ RangeOf(made) = RangeOf(m.made) \union {p}
    BY <1>1, <2>3, RangeAppend
  <2> HIDE DEF made, i
  <2>5. /\ n \in Call /\ n.at = "indexed" /\ n.made = made /\ n.kind = m.kind
        /\ n.stream = m.stream /\ n.ordinal = m.ordinal /\ n.parts = m.parts
    BY <1>1, <2>2, <2>4 DEF Call
  <2> HIDE DEF n
  <2>6. MadeSound(n) /\ SameMessage(m, n)
    BY <1>1, <2>2, <2>3, <2>4, <2>5 DEF MadeSound, SameMessage
  <2>7. /\ UNCHANGED <<writeIndex, sendQueue, sent, flow, wire, ackWire, receiver>>
        /\ packetNumber' \in Nat /\ splitPacketId' \in Nat
    BY <1>1, <1>2 DEF MakePart
  <2>8. calls'[c] = n /\ \A d \in Callers : d # c => calls'[d] = calls[d]
    BY <2>1 DEF Shape
  <2>9. calls' \in [Callers -> Call \union {Idle}]
    BY <2>1, <2>5 DEF Shape
  <2> QED
    BY <1>1, <2>5, <2>6, <2>7, <2>8, <2>9 DEF Indexing
<1>3. CASE ReadSplitId(c)
  <2> DEFINE n == [m EXCEPT !.at = "counting", !.next = splitPacketId + 1]
  <2>1. calls' = [calls EXCEPT ![c] = n]
    BY <1>3 DEF ReadSplitId, Shape
  <2> DEFINE x == splitPacketId + 1
  <2>0. n = [m EXCEPT !.at = "counting", !.next = x] /\ x \in Nat
    BY <1>1
  <2> HIDE DEF n, x
  <2>2. /\ n \in Call /\ n.at = "counting" /\ n.made = m.made /\ n.kind = m.kind
        /\ n.stream = m.stream /\ n.ordinal = m.ordinal /\ n.parts = m.parts
    BY <1>1, <2>0, CallCounts
  <2>3. MadeSound(n) /\ SameMessage(m, n)
    BY <1>1, <2>2 DEF MadeSound, SameMessage
  <2>4. UNCHANGED <<packetNumber, splitPacketId, writeIndex, sendQueue, sent, flow, wire,
                    ackWire, receiver>>
    BY <1>3 DEF ReadSplitId
  <2> QED
    BY <1>1, <2>1, <2>2, <2>3, <2>4 DEF Indexing, Shape
<1>4. CASE WriteSplitId(c)
  <2> DEFINE n == [m EXCEPT !.at = "made"]
  <2>1. calls' = [calls EXCEPT ![c] = n]
    BY <1>4 DEF WriteSplitId, Shape
  <2>2. /\ n \in Call /\ n.at = "made" /\ n.made = m.made /\ n.kind = m.kind
        /\ n.stream = m.stream /\ n.ordinal = m.ordinal /\ n.parts = m.parts
    BY <1>1 DEF Call
  <2> HIDE DEF n
  <2>3. MadeSound(n) /\ SameMessage(m, n)
    BY <1>1, <2>2 DEF MadeSound, SameMessage
  <2>4. /\ UNCHANGED <<packetNumber, writeIndex, sendQueue, sent, flow, wire, ackWire, receiver>>
        /\ splitPacketId' \in Nat
    BY <1>1, <1>4 DEF WriteSplitId, Call
  <2> QED
    BY <1>1, <2>1, <2>2, <2>3, <2>4 DEF Indexing, Shape
<1> QED
  BY <1>2, <1>3, <1>4 DEF Making

LEMMA MakingShape == ASSUME Shape, NEW c \in Callers, Making(c) PROVE Shape'
<1>1. /\ UNCHANGED <<writeIndex, sendQueue, sent, flow, wire, ackWire, receiver>>
      /\ packetNumber' \in Nat /\ splitPacketId' \in Nat
      /\ calls' \in [Callers -> Call \union {Idle}]
      /\ \A d \in Callers : d # c => calls'[d] = calls[d]
      /\ MadeSound(calls'[c])
  BY MakingFacts
<1>2. \A d \in Callers : calls'[d] # Idle => MadeSound(calls'[d])
  BY <1>1 DEF Shape
<1> QED
  BY <1>1, <1>2 DEF Shape, flow, receiver, Numbers, OrderedSent, SplitSent

\* What Push puts into the send queue.
LEMMA PushFacts ==
  ASSUME Shape, NEW c \in Callers, Push(c)
  PROVE  /\ calls[c] \in Call /\ Indexing(c) /\ MadeSound(calls[c])
         /\ calls[c].made \in Seq(Packet) /\ RangeOf(calls[c].made) \subseteq Packet
         /\ \A p \in RangeOf(calls[c].made) : SameMessage(calls[c], p)
         /\ sent \subseteq sent' /\ sent' = sent \union RangeOf(calls[c].made)
         /\ UNCHANGED <<received, repeats, readIndex, splits, waiting, handed>>
         /\ UNCHANGED <<writeIndex, resendQueue>>
         /\ RangeOf(sendQueue') = RangeOf(sendQueue) \union RangeOf(calls[c].made)
         /\ ~Indexing(c)' /\ calls'[c] = Idle
         /\ \A d \in Callers : d # c => calls'[d] = calls[d]
<1> DEFINE new == calls[c].made
<1>1. Indexing(c)
  BY DEF Push, Indexing
<1>2. calls[c] \in Call /\ MadeSound(calls[c]) /\ new \in Seq(Packet)
  BY <1>1, CallType DEF Call
<1>3. RangeOf(new) \subseteq Packet
  BY <1>2, RangeFacts
<1>4. RangeOf(sendQueue') = RangeOf(sendQueue) \union RangeOf(new)
  <2>1. sendQueue \in Seq(Packet)
    BY SeqGrows DEF Shape
  <2>2. sendQueue' = sendQueue \o new
    BY DEF Push
  <2> HIDE DEF new
  <2> QED
    BY <1>2, <2>1, <2>2, RangeConcat
<1>5. calls'[c] = Idle /\ \A d \in Callers : d # c => calls'[d] = calls[d]
  BY DEF Push, Shape
<1>6. ~Indexing(c)'
  BY <1>5 DEF Indexing, Idle
<1>7. /\ sent' = sent \union RangeOf(new)
      /\ UNCHANGED <<received, repeats, readIndex, splits, waiting, handed>>
      /\ UNCHANGED <<writeIndex, resendQueue>>
  BY DEF Push, receiver, flow
<1> QED
  BY <1>1, <1>2, <1>3, <1>4, <1>5, <1>6, <1>7 DEF MadeSound

LEMMA PushShape ==
  ASSUME Shape, NEW c \in Callers, Push(c)
  PROVE  Shape'
<1> DEFINE new == calls[c].made
<1>1. /\ calls[c] \in Call /\ MadeSound(calls[c]) /\ new \in Seq(Packet)
      /\ RangeOf(new) \subseteq Packet
      /\ sent' = sent \union RangeOf(new)
  BY PushFacts
<1>2. sent' \subseteq Packet /\ sent \subseteq sent'
  BY <1>1 DEF Shape
<1>3. new \in Seq(sent')
  <2>1. Len(new) \in Nat /\ new = [i \in 1 .. Len(new) |-> new[i]]
    BY <1>1, LenProperties
  <2>2. \A i \in 1 .. Len(new) : new[i] \in sent'
    BY <1>1 DEF RangeOf
  <2> HIDE DEF new
  <2> QED
    BY <2>1, <2>2, IsASeq
<1>4. sendQueue \in Seq(sent') /\ resendQueue' \in Seq(sent' \union {Hole})
  BY <1>2, SeqGrows DEF Shape, Push, flow
<1>5. sendQueue' \in Seq(sent')
  BY <1>3, <1>4, ConcatProperties DEF Push
<1>6. /\ calls' \in [Callers -> Call \union {Idle}]
      /\ \A d \in Callers : calls'[d] # Idle => MadeSound(calls'[d])
  BY DEF Push, Shape
<1>7. \A p \in sent' : p.kind # "ordered" => p.parts = 1
  <2>1. \A p \in RangeOf(new) : p.kind = calls[c].kind /\ p.parts = calls[c].parts
    BY <1>1 DEF MadeSound, SameMessage
  <2> QED
    BY <1>1, <2>1 DEF Shape, MadeSound
<1>8. Numbers \subseteq Numbers' /\ OrderedSent \subseteq OrderedSent' /\ SplitSent \subseteq SplitSent'
  BY <1>2 DEF Numbers, OrderedSent, SplitSent
<1>9. splits \subseteq [of : SplitSent', copy : Nat]
  BY <1>8 DEF Shape
<1> QED
  BY <1>2, <1>4, <1>5, <1>6, <1>7, <1>8, <1>9 DEF Push, Shape, flow, receiver

\* A frame keeps what the sender holds of reliable packets, and sends what it holds.
LEMMA FrameFacts ==
  ASSUME Shape,
         NEW from \in 1 .. Len(resendQueue) + 1, NEW n \in 0 .. Len(sendQueue),
         NEW again \in InOrder({i \in 1 .. from - 1 : IsPacket(resendQueue[i])}),
         NEW keep \in InOrder({i \in 1 .. n : IsReliable(sendQueue[i])}),
         GenerateFrame(from, again, n, keep)
  PROVE  /\ sendQueue' \in Seq(sent)
         /\ resendQueue' \in Seq(sent \union {Hole})
         /\ wire' \subseteq sent
         /\ \A p \in sent : IsReliable(p) /\ HeldBySender(p) => HeldBySender(p)'
<1> DEFINE T      == sent \union {Hole}
           P      == {i \in 1 .. from - 1 : IsPacket(resendQueue[i])}
           K      == {i \in 1 .. n : IsReliable(sendQueue[i])}
           stay   == SubSeq(resendQueue, from, Len(resendQueue))
           resent == [i \in 1 .. Len(again) |-> resendQueue[again[i]]]
           fresh  == SubSeq(sendQueue, 1, n)
           kept   == [i \in 1 .. Len(keep) |-> sendQueue[keep[i]]]
<1>1. /\ resendQueue \in Seq(T) /\ sendQueue \in Seq(sent)
      /\ Len(resendQueue) \in Nat /\ Len(sendQueue) \in Nat
  BY LenProperties DEF Shape
<1>2. P \in SUBSET (1 .. Len(resendQueue)) /\ K \in SUBSET (1 .. Len(sendQueue))
  BY <1>1
<1>3. /\ Len(again) \in Nat
      /\ resent \in Seq(T)
      /\ \A x \in P : \E i \in 1 .. Len(again) : again[i] = x
      /\ \A i \in 1 .. Len(again) : again[i] \in P
  <2> HIDE DEF T, P
  <2>1. again \in InOrder(P)
    BY DEF P
  <2> QED
    BY <1>1, <1>2, <2>1, PicksOf
<1>4. /\ Len(keep) \in Nat
      /\ kept \in Seq(sent)
      /\ \A x \in K : \E i \in 1 .. Len(keep) : keep[i] = x
      /\ \A i \in 1 .. Len(keep) : keep[i] \in K
  <2> HIDE DEF K
  <2>1. keep \in InOrder(K)
    BY DEF K
  <2> QED
    BY <1>1, <1>2, <2>1, PicksOf
<1>5. /\ stay \in Seq(T)
      /\ \A i \in from .. Len(resendQueue) : \E j \in 1 .. Len(stay) : stay[j] = resendQueue[i]
  <2>1. from - 1 \in 0 .. Len(resendQueue) /\ (from - 1) + 1 = from
    BY <1>1
  <2>2. /\ SubSeq(resendQueue, (from - 1) + 1, Len(resendQueue)) \in Seq(T)
        /\ Len(SubSeq(resendQueue, (from - 1) + 1, Len(resendQueue))) = Len(resendQueue) - (from - 1)
        /\ \A i \in 1 .. Len(resendQueue) - (from - 1) :
             SubSeq(resendQueue, (from - 1) + 1, Len(resendQueue))[i] = resendQueue[from - 1 + i]
    <3> HIDE DEF T
    <3> QED
      BY <1>1, <2>1, FrontAndRest
  <2>3. /\ stay \in Seq(T)
        /\ Len(stay) = Len(resendQueue) - (from - 1)
        /\ \A i \in 1 .. Len(resendQueue) - (from - 1) : stay[i] = resendQueue[from - 1 + i]
    BY <2>1, <2>2
  <2>4. ASSUME NEW i \in from .. Len(resendQueue)
        PROVE  \E j \in 1 .. Len(stay) : stay[j] = resendQueue[i]
    <3>1. i - (from - 1) \in 1 .. Len(stay) /\ from - 1 + (i - (from - 1)) = i
      BY <2>3, <1>1
    <3>2. stay[i - (from - 1)] = resendQueue[i]
      BY <3>1, <2>3
    <3> HIDE DEF stay
    <3> QED
      BY <3>1, <3>2
  <2> QED
    BY <2>3, <2>4
<1>6. /\ fresh \in Seq(sent)
      /\ SubSeq(sendQueue, n + 1, Len(sendQueue)) \in Seq(sent)
      /\ \A i \in n + 1 .. Len(sendQueue) :
           sendQueue[i] \in RangeOf(SubSeq(sendQueue, n + 1, Len(sendQueue)))
  <2>1. /\ fresh \in Seq(sent)
        /\ SubSeq(sendQueue, n + 1, Len(sendQueue)) \in Seq(sent)
        /\ Len(SubSeq(sendQueue, n + 1, Len(sendQueue))) = Len(sendQueue) - n
        /\ \A i \in 1 .. Len(sendQueue) - n :
             SubSeq(sendQueue, n + 1, Len(sendQueue))[i] = sendQueue[n + i]
    BY <1>1, FrontAndRest
  <2>2. ASSUME NEW i \in n + 1 .. Len(sendQueue)
        PROVE  sendQueue[i] \in RangeOf(SubSeq(sendQueue, n + 1, Len(sendQueue)))
    <3>1. i - n \in 1 .. Len(sendQueue) - n /\ n + (i - n) = i
      BY <1>1
    <3>2. SubSeq(sendQueue, n + 1, Len(sendQueue))[i - n] = sendQueue[i]
      BY <3>1, <2>1
    <3> QED
      BY <3>1, <3>2, <2>1 DEF RangeOf
  <2> QED
    BY <2>1, <2>2
<1>7. kept \in Seq(T) /\ sent \subseteq T
  BY <1>4, SeqGrows
<1>8. stay \o resent \in Seq(T)
  BY <1>3, <1>5, ConcatProperties
<1>9. resendQueue' = (stay \o resent) \o kept
  BY DEF GenerateFrame
<1>10. resendQueue' \in Seq(T)
  BY <1>7, <1>8, <1>9, ConcatProperties
<1>11. sendQueue' = SubSeq(sendQueue, n + 1, Len(sendQueue)) /\ UNCHANGED sent
  BY DEF GenerateFrame
<1>12. RangeOf(resent) \subseteq sent
  <2>1. \A i \in 1 .. Len(again) : resendQueue[again[i]] \in sent
    <3>1. SUFFICES ASSUME NEW i \in 1 .. Len(again) PROVE resendQueue[again[i]] \in sent
      OBVIOUS
    <3>2. again[i] \in 1 .. Len(resendQueue) /\ IsPacket(resendQueue[again[i]])
      BY <1>3, <1>2
    <3>3. resendQueue[again[i]] \in T
      BY <3>2, <1>1, ElementOfSeq
    <3> QED
      BY <3>2, <3>3 DEF IsPacket
  <2>2. Len(resent) = Len(again)
    BY <1>3, LenProperties
  <2> QED
    BY <2>1, <2>2 DEF RangeOf
<1>13. RangeOf(fresh) \subseteq sent
  BY <1>6, RangeFacts
<1>14. wire' \subseteq sent
  BY <1>12, <1>13 DEF GenerateFrame, Shape
<1>15. RangeOf(resendQueue') = RangeOf(stay) \union RangeOf(resent) \union RangeOf(kept)
  <2> HIDE DEF stay, resent, kept, T
  <2>1. RangeOf(stay \o resent) = RangeOf(stay) \union RangeOf(resent)
    BY <1>3, <1>5, RangeConcat
  <2>2. RangeOf((stay \o resent) \o kept) = RangeOf(stay \o resent) \union RangeOf(kept)
    BY <1>7, <1>8, RangeConcat
  <2> QED
    BY <1>9, <2>1, <2>2
<1>16. ASSUME NEW p \in sent, IsReliable(p), HeldBySender(p)
       PROVE  HeldBySender(p)'
  <2>1. CASE p \in RangeOf(sendQueue)
    <3>1. PICK i \in 1 .. Len(sendQueue) : sendQueue[i] = p
      BY <2>1 DEF RangeOf
    <3>2. CASE i <= n
      <4>1. i \in K
        BY <3>1, <3>2, <1>16
      <4>2. PICK j \in 1 .. Len(keep) : keep[j] = i
        BY <4>1, <1>4
      <4>3. kept[j] = p /\ Len(kept) = Len(keep)
        BY <4>2, <3>1, <1>4, LenProperties
      <4>4. p \in RangeOf(kept)
        BY <4>2, <4>3 DEF RangeOf
      <4> QED
        BY <4>4, <1>15 DEF HeldBySender
    <3>3. CASE ~(i <= n)
      <4>1. i \in n + 1 .. Len(sendQueue)
        BY <3>1, <3>3, <1>1
      <4> QED
        BY <4>1, <3>1, <1>6, <1>11 DEF HeldBySender
    <3> QED
      BY <3>2, <3>3
  <2>2. CASE p \in RangeOf(resendQueue)
    <3>1. PICK i \in 1 .. Len(resendQueue) : resendQueue[i] = p
      BY <2>2 DEF RangeOf
    <3>2. CASE i < from
      <4>1. i \in P
        BY <3>1, <3>2, <1>1, SentNotHole
      <4>2. PICK j \in 1 .. Len(again) : again[j] = i
        BY <4>1, <1>3
      <4>3. resent[j] = p /\ Len(resent) = Len(again)
        BY <4>2, <3>1, <1>3, LenProperties
      <4>4. p \in RangeOf(resent)
        BY <4>2, <4>3 DEF RangeOf
      <4> QED
        BY <4>4, <1>15 DEF HeldBySender
    <3>3. CASE ~(i < from)
      <4>1. i \in from .. Len(resendQueue)
        BY <3>1, <3>3, <1>1
      <4>2. p \in RangeOf(stay)
        <5> HIDE DEF stay
        <5> QED
          BY <4>1, <3>1, <1>5 DEF RangeOf
      <4> QED
        BY <4>2, <1>15 DEF HeldBySender
    <3> QED
      BY <3>2, <3>3
  <2> QED
    BY <1>16, <2>1, <2>2 DEF HeldBySender
<1> QED
  BY <1>6, <1>10, <1>11, <1>14, <1>16

LEMMA FrameShape ==
  ASSUME Shape, Frame
  PROVE  Shape' /\ \A p \in sent : IsReliable(p) /\ HeldBySender(p) => HeldBySender(p)'
<1>1. PICK from \in 1 .. Len(resendQueue) + 1, n \in 0 .. Len(sendQueue) :
        \E again \in InOrder({i \in 1 .. from - 1 : IsPacket(resendQueue[i])}),
           keep \in InOrder({i \in 1 .. n : IsReliable(sendQueue[i])}) :
             GenerateFrame(from, again, n, keep)
  BY DEF Frame
<1>2. PICK again \in InOrder({i \in 1 .. from - 1 : IsPacket(resendQueue[i])}),
           keep \in InOrder({i \in 1 .. n : IsReliable(sendQueue[i])}) :
             GenerateFrame(from, again, n, keep)
  BY <1>1
<1>3. /\ sendQueue' \in Seq(sent)
      /\ resendQueue' \in Seq(sent \union {Hole})
      /\ wire' \subseteq sent
      /\ \A p \in sent : IsReliable(p) /\ HeldBySender(p) => HeldBySender(p)'
  BY <1>2, FrameFacts
<1>4. LossWindow \in Nat
  BY ReliabilityAssumption DEF LossWindow, Shape
<1>5. /\ window' = IF again # <<>> THEN LossWindow ELSE window
      /\ lossy' = IF again # <<>> THEN IF again # <<>> THEN LossWindow ELSE window ELSE lossy
      /\ UNCHANGED <<packetNumber, splitPacketId, writeIndex, calls, sent, parsing, dead, ackWire, receiver>>
  BY <1>2 DEF GenerateFrame
<1>6. window' \in Nat /\ lossy' \in Nat
  BY <1>4, <1>5 DEF Shape
<1> QED
  BY <1>3, <1>5, <1>6 DEF Shape, receiver, Numbers, OrderedSent, SplitSent

LEMMA GiveUpShape ==
  ASSUME Shape, GiveUp
  PROVE  Shape' /\ \A p \in sent : HeldBySender(p) => HeldBySender(p)'
BY DEF GiveUp, Shape, sending, receiver, HeldBySender, Numbers, OrderedSent, SplitSent

LEMMA ReceiveAcksShape ==
  ASSUME Shape, NEW d \in ackWire, ReceiveAcks(d)
  PROVE  Shape' /\ \A p \in sent : HeldBySender(p) => HeldBySender(p)'
<1>1. d \in Seq(received) /\ Len(d) \in Nat
  BY LenProperties DEF Shape
<1>2. parsing' \in [left : Seq(received), count : Nat]
  BY <1>1 DEF ReceiveAcks
<1> QED
  BY <1>2 DEF ReceiveAcks, Shape, sending, receiver, HeldBySender, Numbers, OrderedSent, SplitSent

\* An ack takes no safe packet out of the resend queue but the one it is for.
LEMMA RemovePacketFacts ==
  ASSUME Shape, NEW n
  PROVE  /\ RemovePacket(resendQueue, n) \in Seq(sent \union {Hole})
         /\ \A p \in sent :
              /\ p.kind = "ordered" /\ p.number # n
              /\ p \in RangeOf(resendQueue)
              => p \in RangeOf(RemovePacket(resendQueue, n))
<1> DEFINE T     == sent \union {Hole}
           q     == resendQueue
           holed == [i \in 1 .. Len(q) |-> IF i \in Emptied(q, n) THEN Hole ELSE q[i]]
<1>1. q \in Seq(T) /\ Len(q) \in Nat
  BY LenProperties DEF Shape
<1>2. \A i \in 1 .. Len(q) : (IF i \in Emptied(q, n) THEN Hole ELSE q[i]) \in T
  BY <1>1, ElementOfSeq
<1>3. holed \in Seq(T) /\ Len(holed) = Len(q)
  <2>1. holed \in Seq(T)
    BY <1>1, <1>2, IsASeq
  <2> QED
    BY <1>1, <2>1, LenProperties
<1>4. 1 \in Acked(q, n) => holed # <<>>
  BY <1>1, <1>3 DEF Acked
<1>5. holed # <<>> => /\ Tail(holed) \in Seq(T)
                      /\ Len(Tail(holed)) = Len(holed) - 1
                      /\ \A i \in 1 .. Len(Tail(holed)) : Tail(holed)[i] = holed[i + 1]
  <2> HIDE DEF holed, T
  <2> QED
    BY <1>3, HeadTailProperties
<1>6. RemovePacket(q, n) = IF 1 \in Acked(q, n) THEN Tail(holed) ELSE holed
  BY DEF RemovePacket
<1>7. ASSUME NEW p \in sent, p.kind = "ordered", p.number # n, p \in RangeOf(q)
      PROVE  p \in RangeOf(RemovePacket(q, n))
  <2>1. PICK i \in 1 .. Len(q) : q[i] = p
    BY <1>7 DEF RangeOf
  <2>2. i \notin Acked(q, n)
    BY <2>1, <1>7 DEF Acked
  <2>3. i \notin Emptied(q, n)
    BY <2>1, <2>2, <1>7 DEF Emptied
  <2>4. holed[i] = p
    BY <2>1, <2>3
  <2>5. CASE 1 \in Acked(q, n)
    <3>1. i # 1
      BY <2>2, <2>5
    <3>2. i - 1 \in 1 .. Len(Tail(holed)) /\ (i - 1) + 1 = i
      BY <3>1, <1>1, <1>3, <1>4, <1>5, <2>5
    <3>3. Tail(holed)[i - 1] = p
      <4> HIDE DEF holed
      <4> QED
        BY <3>2, <2>4, <1>4, <1>5, <2>5
    <3> HIDE DEF holed, q
    <3> QED
      BY <3>2, <3>3, <1>6, <2>5 DEF RangeOf
  <2>6. CASE 1 \notin Acked(q, n)
    <3>1. i \in 1 .. Len(holed)
      BY <2>1, <1>3
    <3> HIDE DEF holed, q
    <3> QED
      BY <3>1, <2>4, <1>6, <2>6 DEF RangeOf
  <2> QED
    BY <2>5, <2>6
<1>8. RemovePacket(q, n) \in Seq(T)
  <2> HIDE DEF holed, T
  <2> QED
    BY <1>3, <1>4, <1>5, <1>6
<1> QED
  BY <1>7, <1>8

LEMMA HandleAckShape ==
  ASSUME Shape, NEW grow \in BOOLEAN, HandleAck(grow)
  PROVE  /\ Shape'
         /\ \A p \in sent : p.kind = "ordered" /\ HeldBySender(p)
                              => HeldBySender(p)' \/ p.number \in received
<1> DEFINE left == parsing.left
<1>1. left \in Seq(received) /\ left # <<>>
  BY DEF HandleAck, Shape
<1>2. Head(left) \in received /\ Tail(left) \in Seq(received)
  <2> HIDE DEF left
  <2> QED
    BY <1>1, HeadTailProperties
<1>3. resendQueue' \in Seq(sent \union {Hole})
  BY RemovePacketFacts DEF HandleAck
<1>4. parsing' \in [left : Seq(received), count : Nat]
  BY <1>2 DEF HandleAck, Shape
<1>5. window' \in Nat
  <2>1. window \in Nat /\ MaxWindow \in Nat
    BY ReliabilityAssumption DEF Shape
  <2>2. window' = IF grow THEN IF window + 1 > MaxWindow THEN MaxWindow ELSE window + 1
                  ELSE window
    BY DEF HandleAck
  <2> QED
    BY <2>1, <2>2
<1>6. lossy' \in Nat
  <2>1. lossy' = lossy + 1 \/ lossy' = lossy
    BY DEF HandleAck
  <2> QED
    BY <2>1 DEF Shape
<1>7. ASSUME NEW p \in sent, p.kind = "ordered", HeldBySender(p), p.number \notin received
      PROVE  HeldBySender(p)'
  <2>1. CASE p \in RangeOf(sendQueue)
    BY <2>1 DEF HeldBySender, HandleAck, sending
  <2>2. CASE p \in RangeOf(resendQueue)
    <3>1. p.number # Head(left)
      BY <1>2, <1>7
    <3>2. p \in RangeOf(RemovePacket(resendQueue, Head(left)))
      BY <3>1, <2>2, <1>7, RemovePacketFacts
    <3>3. p \in RangeOf(resendQueue)'
      BY <3>2 DEF HandleAck, RangeOf
    <3> QED
      BY <3>3 DEF HeldBySender
  <2> QED
    BY <1>7, <2>1, <2>2 DEF HeldBySender
<1>8. UNCHANGED <<sending, dead, wire, ackWire, receiver>>
  BY DEF HandleAck
<1>9. Shape'
  BY <1>3, <1>4, <1>5, <1>6, <1>8 DEF Shape, sending, receiver, Numbers, OrderedSent, SplitSent
<1> QED
  BY <1>7, <1>9

LEMMA SendAcksShape ==
  ASSUME Shape, NEW n \in 1 .. Len(acks), NEW arrives \in BOOLEAN, SendAcks(n, arrives)
  PROVE  Shape' /\ \A p \in sent : HeldBySender(p) => HeldBySender(p)'
<1>1. acks \in Seq(received) /\ n \in 0 .. Len(acks)
  BY LenProperties DEF Shape
<1>2. SubSeq(acks, 1, n) \in Seq(received) /\ SubSeq(acks, n + 1, Len(acks)) \in Seq(received)
  BY <1>1, FrontAndRest
<1>3. ackWire' \subseteq Seq(received) /\ acks' \in Seq(received)
  BY <1>2 DEF SendAcks, Shape
<1> QED
  BY <1>3 DEF SendAcks, Shape, sending, flow, HeldBySender, Numbers, OrderedSent, SplitSent

-----------------------------------------------------------------------------
(* The receiver keeps what it has accepted *)

LEMMA SeqOfLen ==
  ASSUME NEW S, NEW n \in Nat, NEW f, f = [i \in 1 .. n |-> f[i]], \A i \in 1 .. n : f[i] \in S
  PROVE  f \in Seq(S) /\ Len(f) = n
<1>1. [i \in 1 .. n |-> f[i]] \in Seq(S)
  BY IsASeq
<1>2. f \in Seq(S)
  BY <1>1
<1>3. DOMAIN f = 1 .. n
  BY Zenon
<1>4. Len(f) \in Nat /\ DOMAIN f = 1 .. Len(f)
  BY <1>2, LenProperties
<1> QED
  BY <1>2, <1>3, <1>4

\* The sequence of what waits that HandOrdered takes.
BehindIs(s, r, n) ==
  /\ Len(Behind(s, r, n)) = n
  /\ \A i \in 1 .. n : /\ Behind(s, r, n)[i] \in waiting
                       /\ Behind(s, r, n)[i].stream = s
                       /\ Index(Behind(s, r, n)[i]) = r + i
                       /\ Behind(s, r, n)[i].ordinal \in Nat
  /\ Ordinals(Behind(s, r, n)) \in Seq(Nat)
  /\ Len(Ordinals(Behind(s, r, n))) = n
  /\ \A i \in 1 .. n : Ordinals(Behind(s, r, n))[i] = Behind(s, r, n)[i].ordinal

LEMMA BehindFacts ==
  ASSUME Shape, NEW s, NEW r \in Nat, NEW n \in Nat,
         \A i \in 1 .. n : WaitingAt(s, r + i) # {}
  PROVE  BehindIs(s, r, n)
<1> DEFINE popped == Behind(s, r, n)
<1>1. ASSUME NEW i \in 1 .. n
      PROVE  /\ popped[i] \in waiting /\ popped[i].stream = s
             /\ Index(popped[i]) = r + i /\ popped[i].ordinal \in Nat
  <2>1. popped[i] \in WaitingAt(s, r + i)
    BY <1>1 DEF Behind
  <2>2. popped[i] \in waiting /\ popped[i].stream = s /\ Index(popped[i]) = r + i
    BY <2>1 DEF WaitingAt
  <2>3. popped[i] \in Packet
    BY <2>2 DEF Shape, OrderedSent
  <2> QED
    BY <2>2, <2>3 DEF Packet
<1>2. popped = [i \in 1 .. n |-> popped[i]]
  BY DEF Behind
<1> HIDE DEF popped
<1>3. popped \in Seq(waiting) /\ Len(popped) = n
  BY <1>1, <1>2, SeqOfLen
<1>4. /\ Ordinals(popped) = [i \in 1 .. n |-> Ordinals(popped)[i]]
      /\ \A i \in 1 .. n : Ordinals(popped)[i] = popped[i].ordinal
  BY <1>3 DEF Ordinals
<1>5. Ordinals(popped) \in Seq(Nat) /\ Len(Ordinals(popped)) = n
  <2>1. \A i \in 1 .. n : Ordinals(popped)[i] \in Nat
    BY <1>1, <1>4
  <2> QED
    BY <1>4, <2>1, SeqOfLen
<1> QED
  BY <1>1, <1>3, <1>4, <1>5 DEF popped, BehindIs

\* What is handed on was handed on before, is the message that has come or waited.
HandedFrom(p) ==
  \A k \in Indexed, s \in Streams : \A o \in RangeOf(handed'[k][s]) :
    \/ o \in RangeOf(handed[k][s])
    \/ k = p.kind /\ s = p.stream /\ o = p.ordinal
    \/ k = "ordered" /\ \E q \in waiting : q.stream = s /\ q.ordinal = o

LEMMA HandOrderedFacts ==
  ASSUME Shape, NEW p \in OrderedSent, NEW n \in 0 .. Modulus, HandOrdered(p, n)
  PROVE  /\ readIndex' \in [Indexed -> [Streams -> Nat]]
         /\ handed' \in [Indexed -> [Streams -> Seq(Nat)]]
         /\ waiting' \subseteq waiting
         /\ HandedOn(p)'
         /\ \A q \in OrderedSent : HandedOn(q) => HandedOn(q)'
         /\ \A q \in waiting : q \in waiting' \/ HandedOn(q)'
         /\ HandedFrom(p)
<1> DEFINE s      == p.stream
           r      == readIndex["ordered"][s]
           popped == Behind(s, r, n)
           more   == Ordinals(Behind(s, r, n))
           old    == handed["ordered"][s]
<1>1. /\ p \in sent /\ p.kind = "ordered" /\ s \in Streams /\ p.ordinal \in Nat
      /\ "ordered" \in Indexed /\ n \in Nat
  BY ReliabilityAssumption DEF Shape, OrderedSent, Packet, Indexed, Modulus
<1>2. r \in Nat /\ old \in Seq(Nat)
  BY <1>1 DEF Shape
<1>3. /\ \A i \in 1 .. n : WaitingAt(s, r + i) # {}
      /\ waiting' = waiting \ RangeOf(popped)
      /\ handed' = [handed EXCEPT !["ordered"][s] = old \o <<p.ordinal>> \o more]
      /\ readIndex' = [readIndex EXCEPT !["ordered"][s] = r + n + 1]
  BY DEF HandOrdered
<1>4. /\ Len(popped) = n
      /\ \A i \in 1 .. n : /\ popped[i] \in waiting /\ popped[i].stream = s
                           /\ Index(popped[i]) = r + i /\ popped[i].ordinal \in Nat
                           /\ more[i] = popped[i].ordinal
      /\ more \in Seq(Nat) /\ Len(more) = n
  <2> HIDE DEF s, r
  <2>1. n \in Nat /\ r \in Nat /\ \A i \in 1 .. n : WaitingAt(s, r + i) # {}
    BY <1>1, <1>2, <1>3
  <2>2. BehindIs(s, r, n)
    BY <2>1, BehindFacts
  <2> QED
    BY <2>2 DEF BehindIs
<1>5. <<p.ordinal>> \in Seq(Nat) /\ Len(<<p.ordinal>>) = 1 /\ RangeOf(<<p.ordinal>>) = {p.ordinal}
  BY <1>1 DEF RangeOf
<1>6. /\ old \o <<p.ordinal>> \in Seq(Nat)
      /\ (old \o <<p.ordinal>>) \o more \in Seq(Nat)
      /\ RangeOf((old \o <<p.ordinal>>) \o more)
           = RangeOf(old) \union {p.ordinal} \union RangeOf(more)
  <2> DEFINE mid == <<p.ordinal>>
  <2>1. mid \in Seq(Nat) /\ RangeOf(mid) = {p.ordinal}
    BY <1>5
  <2> HIDE DEF old, more, mid
  <2>2. old \o mid \in Seq(Nat) /\ RangeOf(old \o mid) = RangeOf(old) \union {p.ordinal}
    BY <1>2, <2>1, ConcatProperties, RangeConcat
  <2> DEFINE front == old \o mid
  <2>3. front \in Seq(Nat) /\ more \in Seq(Nat)
    BY <1>4, <2>2
  <2> HIDE DEF front
  <2>4. front \o more \in Seq(Nat)
    BY <2>3, ConcatProperties
  <2>5. RangeOf(front \o more) = RangeOf(front) \union RangeOf(more)
    BY <2>3, RangeConcat
  <2> QED
    BY <2>2, <2>4, <2>5 DEF front, mid
<1>7. /\ handed' \in [Indexed -> [Streams -> Seq(Nat)]]
      /\ handed'["ordered"][s] = (old \o <<p.ordinal>>) \o more
      /\ \A t \in Streams : t # s => handed'["ordered"][t] = handed["ordered"][t]
  <2> DEFINE new == (old \o <<p.ordinal>>) \o more
  <2>1. handed' = [handed EXCEPT !["ordered"][s] = new] /\ new \in Seq(Nat)
    BY <1>3, <1>6
  <2> HIDE DEF new
  <2>2. /\ handed' \in [Indexed -> [Streams -> Seq(Nat)]]
        /\ handed'["ordered"][s] = new
        /\ \A t \in Streams : t # s => handed'["ordered"][t] = handed["ordered"][t]
    BY <1>1, <2>1 DEF Shape
  <2> QED
    BY <2>2 DEF new
<1>8. readIndex' \in [Indexed -> [Streams -> Nat]]
  BY <1>1, <1>2, <1>3 DEF Shape
<1>9. HandedOn(p)'
  <2>1. p.ordinal \in RangeOf(handed'["ordered"][s])
    <3> HIDE DEF old, more
    <3> QED
      BY <1>6, <1>7
  <2> QED
    BY <2>1, <1>1 DEF HandedOn, RangeOf
<1>10. ASSUME NEW q \in OrderedSent, HandedOn(q) PROVE HandedOn(q)'
  <2>1. q.kind = "ordered" /\ q.stream \in Streams
    BY DEF OrderedSent, Shape, Packet
  <2>2. q.ordinal \in RangeOf(handed["ordered"][q.stream])
    BY <2>1, <1>10 DEF HandedOn
  <2>3. q.ordinal \in RangeOf(handed'["ordered"][q.stream])
    <3> HIDE DEF more, s
    <3>1. CASE q.stream = s
      BY <3>1, <2>2, <1>6, <1>7
    <3>2. CASE q.stream # s
      BY <3>2, <2>1, <2>2, <1>7
    <3> QED
      BY <3>1, <3>2
  <2> QED
    BY <2>1, <2>3 DEF HandedOn, RangeOf
<1>11. ASSUME NEW q \in waiting, q \notin waiting' PROVE HandedOn(q)'
  <2>1. q.kind = "ordered"
    BY DEF OrderedSent, Shape
  <2>2. q \in RangeOf(popped)
    BY <1>3, <1>11
  <2>3. PICK i \in 1 .. n : popped[i] = q
    BY <2>2, <1>4 DEF RangeOf
  <2>4. q.ordinal \in RangeOf(more) /\ q.stream = s
    <3>1. more[i] = q.ordinal
      BY <2>3, <1>4
    <3> HIDE DEF more
    <3> QED
      BY <3>1, <2>3, <1>4 DEF RangeOf
  <2>5. q.ordinal \in RangeOf(handed'["ordered"][s])
    <3> HIDE DEF old, more
    <3> QED
      BY <1>6, <1>7, <2>4
  <2> QED
    BY <2>1, <2>4, <2>5 DEF HandedOn, RangeOf
<1>12. waiting' \subseteq waiting
  BY <1>3
<1>13. HandedFrom(p)
  <2>1. SUFFICES ASSUME NEW k \in Indexed, NEW t \in Streams, NEW o \in RangeOf(handed'[k][t]),
                        o \notin RangeOf(handed[k][t])
        PROVE  /\ k = "ordered" /\ t = s
               /\ o = p.ordinal \/ \E q \in waiting : q.stream = t /\ q.ordinal = o
    <3> HIDE DEF popped, more, old, r
    <3> QED
      BY <1>1 DEF HandedFrom
  <2>2. k = "ordered" /\ t = s
    <3> DEFINE new == (old \o <<p.ordinal>>) \o more
    <3>1. handed' = [handed EXCEPT !["ordered"][s] = new]
      BY <1>3, <1>6
    <3> HIDE DEF new, s
    <3> QED
      BY <1>1, <2>1, <3>1 DEF Shape
  <2>3. o \in RangeOf(old) \union {p.ordinal} \union RangeOf(more)
    <3> HIDE DEF old, more, s
    <3> QED
      BY <1>6, <1>7, <2>1, <2>2
  <2>4. CASE o \in RangeOf(more)
    <3>1. PICK i \in 1 .. n : more[i] = o
      <4> HIDE DEF more
      <4> QED
        BY <1>4, <2>4 DEF RangeOf
    <3> HIDE DEF popped, more, s, r
    <3> QED
      BY <1>4, <2>2, <3>1
  <2> QED
    BY <2>1, <2>2, <2>3, <2>4
<1> QED
  BY <1>7, <1>8, <1>9, <1>10, <1>11, <1>12, <1>13

LEMMA OrderedFacts ==
  ASSUME Shape, NEW p \in OrderedSent, Ordered(p)
  PROVE  /\ readIndex' \in [Indexed -> [Streams -> Nat]]
         /\ handed' \in [Indexed -> [Streams -> Seq(Nat)]]
         /\ waiting' \subseteq OrderedSent
         /\ p \in waiting' \/ HandedOn(p)'
         /\ \A q \in OrderedSent : HandedOn(q) => HandedOn(q)'
         /\ \A q \in waiting : q \in waiting' \/ HandedOn(q)'
         /\ waiting' \subseteq waiting \union {p} /\ HandedFrom(p)
<1>1. CASE Index(p) = readIndex["ordered"][p.stream]
  <2>1. PICK n \in 0 .. Modulus : HandOrdered(p, n)
    BY <1>1 DEF Ordered
  <2>2. waiting \subseteq OrderedSent
    BY DEF Shape
  <2> QED
    BY <2>1, <2>2, HandOrderedFacts
<1>2. CASE Index(p) # readIndex["ordered"][p.stream]
  BY <1>2 DEF Ordered, Shape, HandedOn, HandedFrom
<1> QED
  BY <1>1, <1>2

LEMMA SequencedFacts ==
  ASSUME Shape, NEW p \in sent, p.kind = "sequenced", Sequenced(p)
  PROVE  /\ readIndex' \in [Indexed -> [Streams -> Nat]]
         /\ handed' \in [Indexed -> [Streams -> Seq(Nat)]]
         /\ waiting' = waiting
         /\ handed'["ordered"] = handed["ordered"]
         /\ HandedFrom(p)
<1>1. p.stream \in Streams /\ p.ordinal \in Nat /\ "sequenced" \in Indexed
  BY DEF Shape, Packet, Indexed
<1>2. Index(p) + 1 \in Nat
  BY <1>1, ReliabilityAssumption DEF Index, Modulus
<1>3. Append(handed["sequenced"][p.stream], p.ordinal) \in Seq(Nat)
  BY <1>1 DEF Shape
<1>4. "ordered" \in Indexed
  BY DEF Indexed
<1>5. RangeOf(Append(handed["sequenced"][p.stream], p.ordinal))
        = RangeOf(handed["sequenced"][p.stream]) \union {p.ordinal}
  <2> DEFINE old == handed["sequenced"][p.stream]
             mid == <<p.ordinal>>
  <2>1. old \in Seq(Nat) /\ mid \in Seq(Nat) /\ RangeOf(mid) = {p.ordinal}
    BY <1>1 DEF Shape, RangeOf
  <2>2. Append(old, p.ordinal) = old \o mid
    <3> HIDE DEF old
    <3> QED
      BY <1>1, <2>1, AppendIsConcat
  <2> HIDE DEF old, mid
  <2>3. RangeOf(old \o mid) = RangeOf(old) \union RangeOf(mid)
    BY <2>1, RangeConcat
  <2> QED
    BY <2>1, <2>2, <2>3 DEF old
<1>6. HandedFrom(p)
  <2> DEFINE new == Append(handed["sequenced"][p.stream], p.ordinal)
  <2>1. handed' = [handed EXCEPT !["sequenced"][p.stream] = new]
    BY DEF Sequenced
  <2>2. RangeOf(new) = RangeOf(handed["sequenced"][p.stream]) \union {p.ordinal}
    BY <1>5
  <2> HIDE DEF new
  <2> QED
    BY <1>1, <2>1, <2>2 DEF HandedFrom, Shape
<1> QED
  BY <1>1, <1>2, <1>3, <1>4, <1>6 DEF Sequenced, Shape

\* A message that leaves the list of parts, or was never there, is kept; a part of another
\* one that leaves with it had the same id.
LEMMA OrderedKeeps ==
  ASSUME Shape, NEW g \in OrderedSent, Ordered(g), splits' \subseteq splits,
         \A x \in splits \ splits' : Split(g) /\ x.of.id = g.id
  PROVE  /\ \A q \in OrderedSent : SameMessage(q, g) => HeldByReceiver(q)'
         /\ \A q \in OrderedSent : HeldByReceiver(q) => HeldByReceiver(q)' \/ Mixed(q)
<1>0. /\ waiting \subseteq OrderedSent /\ splits \subseteq [of : SplitSent, copy : Nat]
      /\ g \in sent /\ g.kind = "ordered"
  BY DEF Shape, OrderedSent
<1>1. /\ g \in waiting' \/ HandedOn(g)'
      /\ \A q \in OrderedSent : HandedOn(q) => HandedOn(q)'
      /\ \A q \in waiting : q \in waiting' \/ HandedOn(q)'
  BY OrderedFacts
<1>2. ASSUME NEW q \in OrderedSent, SameMessage(q, g) PROVE HeldByReceiver(q)'
  <2>1. q.kind = g.kind /\ q.stream = g.stream /\ q.ordinal = g.ordinal
    BY <1>2 DEF SameMessage
  <2>2. CASE g \in waiting'
    BY <2>1, <2>2 DEF HeldByReceiver
  <2>3. CASE HandedOn(g)'
    BY <2>1, <2>3 DEF HeldByReceiver, HandedOn
  <2> QED
    BY <1>1, <2>2, <2>3
<1>3. ASSUME NEW q \in OrderedSent, HeldByReceiver(q) PROVE HeldByReceiver(q)' \/ Mixed(q)
  <2>1. ASSUME NEW x \in splits, x.of = q PROVE HeldByReceiver(q)' \/ Mixed(q)
    <3>1. CASE x \in splits'
      BY <2>1, <3>1 DEF HeldByReceiver
    <3>2. CASE x \notin splits' /\ ~SameMessage(q, g)
      <4>1. q \in sent /\ Split(q) /\ Split(g) /\ q.id = g.id
        BY <1>0, <2>1, <3>2 DEF SplitSent, OrderedSent
      <4>2. SameMessage(q, q)
        BY DEF SameMessage
      <4> QED
        BY <1>0, <3>2, <4>1, <4>2 DEF Mixed
    <3> QED
      BY <1>2, <3>1, <3>2
  <2>2. CASE HandedOn(q)
    BY <1>1, <2>2 DEF HeldByReceiver
  <2>3. ASSUME NEW w \in waiting, w.stream = q.stream, w.ordinal = q.ordinal
        PROVE  HeldByReceiver(q)'
    <3>1. w \in waiting' \/ HandedOn(w)'
      BY <1>1
    <3>2. w.kind = "ordered" /\ q.kind = "ordered"
      BY <1>0 DEF OrderedSent
    <3> QED
      BY <3>1, <3>2, <2>3 DEF HeldByReceiver, HandedOn
  <2> QED
    BY <1>3, <2>1, <2>2, <2>3 DEF HeldByReceiver
<1> QED
  BY <1>2, <1>3

LEMMA CopyType ==
  ASSUME Shape, NEW p \in SplitSent
  PROVE  /\ Copy(p) \in [of : SplitSent, copy : Nat] /\ Copy(p).of = p
         /\ IsFiniteSet(splits \union {Copy(p)})
<1> DEFINE C == {x \in splits : x.of = p}
<1>1. IsFiniteSet(splits) /\ C \subseteq splits
  BY DEF Shape
<1>2. Cardinality(C) \in Nat
  BY <1>1, FS_Subset, FS_CardinalityType
<1>3. IsFiniteSet(splits \union {Copy(p)})
  BY <1>1, FS_AddElement
<1> QED
  BY <1>2, <1>3 DEF Copy

\* How a safe packet that no duplicate check has stopped gets on: alone, as the last part
\* of a message that goes by the first of its list, or as a part that waits.
LEMMA AcceptCases ==
  ASSUME Shape, NEW p \in sent, Accept(p)
  PROVE  \/ UNCHANGED <<splits, readIndex, waiting, handed>> /\ p.kind = "plain"
         \/ /\ UNCHANGED <<splits, readIndex, waiting, handed>> /\ p.kind = "sequenced"
            /\ IsOlder(Index(p), readIndex["sequenced"][p.stream])
         \/ /\ p.kind = "sequenced" /\ Sequenced(p) /\ UNCHANGED splits
            /\ ~IsOlder(Index(p), readIndex["sequenced"][p.stream])
         \/ p \in OrderedSent /\ ~Split(p) /\ Ordered(p) /\ UNCHANGED splits
         \/ /\ p \in SplitSent /\ splits' = splits \union {Copy(p)}
            /\ UNCHANGED <<readIndex, waiting, handed>>
         \/ /\ p \in SplitSent /\ splits' = splits \ Parts(p)
            /\ \E first \in Parts(p) : /\ Complete(p, first) /\ first.of \in SplitSent
                                       /\ first.of.id = p.id /\ Ordered(first.of)
<1>1. p.kind \in {"ordered", "sequenced", "plain"}
  BY DEF Shape, Packet, Kinds
<1>2. CASE p.kind = "ordered" /\ Split(p) /\ AcceptPart(p)
  <2>1. p \in SplitSent
    BY <1>2 DEF SplitSent, OrderedSent
  <2>2. PICK first \in Parts(p) :
          \/ Complete(p, first) /\ splits' = splits \ Parts(p) /\ Ordered(first.of)
          \/ splits' = splits \union {Copy(p)} /\ UNCHANGED <<readIndex, waiting, handed>>
    BY <1>2 DEF AcceptPart
  <2>3. first.of \in SplitSent /\ first.of.id = p.id
    <3>1. first \in splits \union {Copy(p)} /\ first.of.id = p.id
      BY DEF Parts
    <3> QED
      BY <2>1, <3>1, CopyType DEF Shape
  <2> QED
    BY <2>1, <2>2, <2>3
<1>3. CASE p.kind = "ordered" /\ ~Split(p) /\ Ordered(p) /\ UNCHANGED splits
  BY <1>3 DEF OrderedSent
<1> QED
  BY <1>1, <1>2, <1>3 DEF Accept

\* What Accept does to the safe packets.
LEMMA AcceptFacts ==
  ASSUME Shape, NEW p \in sent, Accept(p)
  PROVE  /\ readIndex' \in [Indexed -> [Streams -> Nat]]
         /\ handed' \in [Indexed -> [Streams -> Seq(Nat)]]
         /\ waiting' \subseteq OrderedSent
         /\ splits' \subseteq [of : SplitSent, copy : Nat] /\ IsFiniteSet(splits')
         /\ p \in OrderedSent => HeldByReceiver(p)' \/ Mixed(p)
         /\ \A q \in OrderedSent : HeldByReceiver(q) => HeldByReceiver(q)' \/ Mixed(q)
<1>0. /\ "ordered" \in Indexed /\ waiting \subseteq OrderedSent
      /\ readIndex \in [Indexed -> [Streams -> Nat]]
      /\ handed \in [Indexed -> [Streams -> Seq(Nat)]]
      /\ splits \subseteq [of : SplitSent, copy : Nat] /\ IsFiniteSet(splits)
  BY DEF Indexed, Shape
<1>1. CASE UNCHANGED <<splits, readIndex, waiting, handed>> /\ p.kind # "ordered"
  BY <1>1, <1>0 DEF HeldByReceiver, HandedOn, OrderedSent, RangeOf
<1>2. CASE p.kind = "sequenced" /\ Sequenced(p) /\ UNCHANGED splits
  <2>1. /\ readIndex' \in [Indexed -> [Streams -> Nat]]
        /\ handed' \in [Indexed -> [Streams -> Seq(Nat)]]
        /\ waiting' = waiting /\ handed'["ordered"] = handed["ordered"]
    BY <1>2, SequencedFacts
  <2>2. \A q \in OrderedSent : HeldByReceiver(q) => HeldByReceiver(q)'
    BY <2>1, <1>2 DEF HeldByReceiver, HandedOn, OrderedSent, RangeOf
  <2> QED
    BY <2>1, <2>2, <1>0, <1>2 DEF OrderedSent
<1>3. ASSUME NEW g \in OrderedSent, Ordered(g), splits' \subseteq splits,
             \A x \in splits \ splits' : Split(g) /\ x.of.id = g.id,
             p \in OrderedSent => HeldByReceiver(p)' \/ Mixed(p)
      PROVE  /\ readIndex' \in [Indexed -> [Streams -> Nat]]
             /\ handed' \in [Indexed -> [Streams -> Seq(Nat)]]
             /\ waiting' \subseteq OrderedSent
             /\ splits' \subseteq [of : SplitSent, copy : Nat] /\ IsFiniteSet(splits')
             /\ \A q \in OrderedSent : HeldByReceiver(q) => HeldByReceiver(q)' \/ Mixed(q)
  <2>1. /\ readIndex' \in [Indexed -> [Streams -> Nat]]
        /\ handed' \in [Indexed -> [Streams -> Seq(Nat)]]
        /\ waiting' \subseteq OrderedSent
    BY <1>3, OrderedFacts
  <2>2. splits' \subseteq [of : SplitSent, copy : Nat] /\ IsFiniteSet(splits')
    BY <1>0, <1>3, FS_Subset
  <2> QED
    BY <1>3, <2>1, <2>2, OrderedKeeps
<1>4. CASE p \in OrderedSent /\ ~Split(p) /\ Ordered(p) /\ UNCHANGED splits
  <2>1. HeldByReceiver(p)'
    BY <1>4, OrderedKeeps DEF SameMessage
  <2> QED
    BY <1>3, <1>4, <2>1
<1>5. CASE /\ p \in SplitSent /\ splits' = splits \union {Copy(p)}
           /\ UNCHANGED <<readIndex, waiting, handed>>
  <2>1. /\ Copy(p) \in [of : SplitSent, copy : Nat] /\ Copy(p).of = p
        /\ IsFiniteSet(splits \union {Copy(p)})
    BY <1>5, CopyType
  <2>2. HeldByReceiver(p)'
    BY <1>5, <2>1 DEF HeldByReceiver
  <2>3. \A q \in OrderedSent : HeldByReceiver(q) => HeldByReceiver(q)'
    BY <1>5 DEF HeldByReceiver, HandedOn, RangeOf
  <2> QED
    BY <1>0, <1>5, <2>1, <2>2, <2>3
<1>6. ASSUME p \in SplitSent, splits' = splits \ Parts(p), NEW first \in Parts(p),
             first.of \in SplitSent, first.of.id = p.id, Ordered(first.of)
      PROVE  /\ readIndex' \in [Indexed -> [Streams -> Nat]]
             /\ handed' \in [Indexed -> [Streams -> Seq(Nat)]]
             /\ waiting' \subseteq OrderedSent
             /\ splits' \subseteq [of : SplitSent, copy : Nat] /\ IsFiniteSet(splits')
             /\ HeldByReceiver(p)' \/ Mixed(p)
             /\ \A q \in OrderedSent : HeldByReceiver(q) => HeldByReceiver(q)' \/ Mixed(q)
  <2> DEFINE g == first.of
  <2>1. /\ g \in OrderedSent /\ g \in sent /\ Split(g)
        /\ p \in OrderedSent /\ p \in sent /\ Split(p)
    BY <1>6 DEF SplitSent, OrderedSent
  <2>2. \A x \in splits \ splits' : Split(g) /\ x.of.id = g.id
    BY <1>6, <2>1 DEF Parts
  <2>3. splits' \subseteq splits /\ Ordered(g)
    BY <1>6
  <2>4. HeldByReceiver(p)' \/ Mixed(p)
    <3>1. CASE SameMessage(p, g)
      <4> HIDE DEF g
      <4> QED
        BY <3>1, <2>1, <2>2, <2>3, OrderedKeeps
    <3>2. CASE ~SameMessage(p, g)
      <4>1. SameMessage(p, p)
        BY DEF SameMessage
      <4> QED
        BY <1>6, <2>1, <3>2, <4>1 DEF Mixed
    <3> QED
      BY <3>1, <3>2
  <2> HIDE DEF g
  <2> QED
    BY <1>3, <2>1, <2>2, <2>3, <2>4
<1>7. CASE p \in SplitSent
  <2>1. p \in OrderedSent
    BY <1>7 DEF SplitSent
  <2>2. CASE splits' = splits \union {Copy(p)} /\ UNCHANGED <<readIndex, waiting, handed>>
    BY <1>5, <1>7, <2>2
  <2>3. CASE /\ splits' = splits \ Parts(p)
             /\ \E first \in Parts(p) : /\ Complete(p, first) /\ first.of \in SplitSent
                                        /\ first.of.id = p.id /\ Ordered(first.of)
    BY <1>6, <1>7, <2>3
  <2>4. p.kind = "ordered" /\ Split(p)
    BY <1>7 DEF SplitSent, OrderedSent
  <2> QED
    BY <2>2, <2>3, <2>4, AcceptCases
<1> QED
  BY <1>1, <1>2, <1>4, <1>7, AcceptCases

LEMMA ReceivePacketShape ==
  ASSUME Shape, NEW p \in wire, NEW late \in BOOLEAN, ReceivePacket(p, late)
  PROVE  /\ Shape'
         /\ received' \subseteq received \union {p.number}
         /\ p \in OrderedSent => HeldByReceiver(p)' \/ Mixed(p) \/ p.number \in received
         /\ \A q \in OrderedSent : HeldByReceiver(q) => HeldByReceiver(q)' \/ Mixed(q)
         /\ \A q \in sent : HeldBySender(q) => HeldBySender(q)'
<1>1. p \in sent /\ p.number \in Numbers
  BY DEF Shape, Numbers
<1>2. /\ received \subseteq received' /\ received' \subseteq received \union {p.number}
      /\ p.number \in received'
  BY DEF ReceivePacket
<1>3. UNCHANGED <<sending, flow, ackWire>>
  BY DEF ReceivePacket
<1>4. wire' \subseteq sent
  BY DEF ReceivePacket, Shape
<1>5. acks' \in Seq(received') /\ repeats' \in Seq(received')
  <2>1. acks \in Seq(received') /\ repeats \in Seq(received')
    BY <1>2, SeqGrows DEF Shape
  <2>2. /\ Append(acks, p.number) \in Seq(received')
        /\ Append(repeats, p.number) \in Seq(received')
    BY <1>2, <2>1, RangeAppend
  <2> QED
    BY <2>1, <2>2 DEF ReceivePacket
<1>6. /\ ackWire \subseteq Seq(received')
      /\ parsing \in [left : Seq(received'), count : Nat]
  <2>1. Seq(received) \subseteq Seq(received')
    BY <1>2, SeqGrows
  <2> QED
    BY <2>1 DEF Shape
<1>7. /\ readIndex' \in [Indexed -> [Streams -> Nat]]
      /\ handed' \in [Indexed -> [Streams -> Seq(Nat)]]
      /\ waiting' \subseteq OrderedSent
      /\ splits' \subseteq [of : SplitSent, copy : Nat] /\ IsFiniteSet(splits')
      /\ p \in OrderedSent => HeldByReceiver(p)' \/ Mixed(p) \/ p.number \in received
      /\ \A q \in OrderedSent : HeldByReceiver(q) => HeldByReceiver(q)' \/ Mixed(q)
  <2>1. CASE p.number \in received /\ UNCHANGED <<readIndex, splits, waiting, handed>>
    BY <2>1 DEF Shape, HeldByReceiver, HandedOn, RangeOf
  <2>2. CASE Accept(p)
    BY <2>2, <1>1, AcceptFacts
  <2> QED
    BY <2>1, <2>2 DEF ReceivePacket
<1>8. received' \subseteq Numbers
  BY <1>1, <1>2 DEF Shape
<1>9. Shape'
  BY <1>3, <1>4, <1>5, <1>6, <1>7, <1>8 DEF Shape, sending, flow, Numbers, OrderedSent, SplitSent
<1>10. \A q \in sent : HeldBySender(q) => HeldBySender(q)'
  BY <1>3 DEF sending, flow, HeldBySender, RangeOf
<1> QED
  BY <1>2, <1>7, <1>9, <1>10

LEMMA ShapeStep == Shape /\ [Next]_vars => Shape'
<1> SUFFICES ASSUME Shape, [Next]_vars PROVE Shape'
  OBVIOUS
<1>1. CASE UNCHANGED vars
  BY <1>1 DEF vars, sending, flow, receiver, Shape, Numbers, OrderedSent, SplitSent
<1>2. ASSUME NEW c \in Callers, NEW t \in Traffic, ReadNumber(c, t) PROVE Shape'
  BY <1>2, ReadNumberShape
<1>3. ASSUME NEW c \in Callers, TakeIndex(c) PROVE Shape'
  BY <1>3, TakeIndexShape
<1>4. ASSUME NEW c \in Callers, Push(c) PROVE Shape'
  BY <1>4, PushShape
<1>11. ASSUME NEW c \in Callers, Making(c) PROVE Shape'
  BY <1>11, MakingShape
<1>5. CASE Frame
  BY <1>5, FrameShape
<1>6. CASE GiveUp
  BY <1>6, GiveUpShape
<1>7. ASSUME NEW d \in ackWire, ReceiveAcks(d) PROVE Shape'
  BY <1>7, ReceiveAcksShape
<1>8. ASSUME NEW grow \in BOOLEAN, HandleAck(grow) PROVE Shape'
  BY <1>8, HandleAckShape
<1>9. ASSUME NEW p \in wire, NEW late \in BOOLEAN, ReceivePacket(p, late)
      PROVE  Shape'
  BY <1>9, ReceivePacketShape
<1>10. ASSUME NEW n \in 1 .. Len(acks), NEW arrives \in BOOLEAN, SendAcks(n, arrives)
       PROVE  Shape'
  BY <1>10, SendAcksShape
<1> QED
  BY <1>1, <1>2, <1>3, <1>4, <1>5, <1>6, <1>7, <1>8, <1>9, <1>10, <1>11 DEF Next, Making

\* The layer's variables have their types in every reachable state, whatever the traffic.
THEOREM LayerTyped == Spec => []TypeOK
<1>1. Shape => TypeOK
  <2> SUFFICES ASSUME Shape PROVE TypeOK
    OBVIOUS
  <2>1. received \subseteq Nat
    BY DEF Shape, Numbers, Packet
  <2>2. sent \subseteq Packet /\ sent \union {Hole} \subseteq Packet \union {Hole}
    BY DEF Shape
  <2>3. Seq(received) \subseteq Seq(Nat)
    BY <2>1, SeqGrows
  <2>4. /\ Seq(sent) \subseteq Seq(Packet)
        /\ Seq(sent \union {Hole}) \subseteq Seq(Packet \union {Hole})
    BY <2>2, SeqGrows
  <2>5. splits \subseteq [of : Packet, copy : Nat]
    BY <2>2 DEF Shape, SplitSent, OrderedSent
  <2> QED
    BY <2>1, <2>2, <2>3, <2>4, <2>5 DEF Shape, TypeOK, OrderedSent
<1> QED
  BY <1>1, ShapeInit, ShapeStep, PTL DEF Spec

-----------------------------------------------------------------------------
(* No safe packet is lost *)

\* What the sender forgets the receiver has counted, and what it has counted it keeps.
Kept ==
  \A p \in OrderedSent :
    /\ HeldBySender(p) \/ p.number \in received
    /\ p.number \in received => HeldByReceiver(p) \/ Shared(p) \/ Mixed(p)

LEMMA PushKept == ASSUME Shape, Kept, NEW c \in Callers, Push(c) PROVE Kept'
<1> DEFINE new == RangeOf(calls[c].made)
<1>1. /\ sent \subseteq sent' /\ sent' = sent \union new
      /\ UNCHANGED <<received, splits, waiting, handed, resendQueue>>
      /\ RangeOf(sendQueue') = RangeOf(sendQueue) \union new
  BY PushFacts
<1> HIDE DEF new
<1>2. ASSUME NEW p \in sent, p.kind = "ordered"
      PROVE  /\ HeldBySender(p)' \/ p.number \in received'
             /\ p.number \in received' => HeldByReceiver(p)' \/ Shared(p)' \/ Mixed(p)'
  <2>1. p \in OrderedSent
    BY <1>2 DEF OrderedSent
  <2>2. HeldBySender(p) => HeldBySender(p)'
    BY <1>1 DEF HeldBySender, RangeOf
  <2>3. HeldByReceiver(p) => HeldByReceiver(p)'
    BY <1>1 DEF HeldByReceiver, HandedOn, RangeOf
  <2>4. (Shared(p) => Shared(p)') /\ (Mixed(p) => Mixed(p)')
    BY <1>1 DEF Shared, Mixed
  <2> QED
    BY <2>1, <2>2, <2>3, <2>4, <1>1 DEF Kept
<1>3. ASSUME NEW p \in new, p \notin sent
      PROVE  HeldBySender(p)' /\ (p.number \in received' => Shared(p)')
  <2>1. HeldBySender(p)'
    BY <1>1 DEF HeldBySender, RangeOf
  <2>2. ASSUME p.number \in received' PROVE Shared(p)'
    <3>1. PICK q \in sent : q.number = p.number
      BY <2>2, <1>1 DEF Shape, Numbers
    <3> QED
      BY <3>1, <1>1, <1>3 DEF Shared
  <2> QED
    BY <2>1, <2>2
<1> QED
  BY <1>1, <1>2, <1>3 DEF Kept, OrderedSent

LEMMA KeptStep == Shape /\ Kept /\ [Next]_vars => Kept'
<1> SUFFICES ASSUME Shape, Kept, [Next]_vars PROVE Kept'
  OBVIOUS
<1>1. ASSUME UNCHANGED <<sent, received, splits, waiting, handed>>,
             \A p \in OrderedSent : HeldBySender(p) => HeldBySender(p)' \/ p.number \in received
      PROVE  Kept'
  <2>1. \A p \in OrderedSent : HeldByReceiver(p) => HeldByReceiver(p)'
    BY <1>1 DEF HeldByReceiver, HandedOn, RangeOf
  <2>2. \A p \in OrderedSent : (Shared(p) => Shared(p)') /\ (Mixed(p) => Mixed(p)')
    BY <1>1 DEF Shared, Mixed
  <2> QED
    BY <1>1, <2>1, <2>2 DEF Kept, OrderedSent
<1>2. CASE UNCHANGED <<sent, sendQueue, resendQueue, received, splits, waiting, handed>>
  BY <1>1, <1>2 DEF HeldBySender, RangeOf
<1>3. CASE UNCHANGED vars
  BY <1>2, <1>3 DEF vars, sending, flow, receiver
<1>4. ASSUME NEW c \in Callers, NEW t \in Traffic, ReadNumber(c, t) PROVE Kept'
  BY <1>2, <1>4 DEF ReadNumber, flow, receiver
<1>5. ASSUME NEW c \in Callers, TakeIndex(c) PROVE Kept'
  BY <1>2, <1>5 DEF TakeIndex, flow, receiver
<1>6. ASSUME NEW c \in Callers, Push(c) PROVE Kept'
  BY <1>6, PushKept
<1>13. ASSUME NEW c \in Callers, Making(c) PROVE Kept'
  BY <1>2, <1>13, MakingFacts DEF flow, receiver
<1>7. CASE Frame
  <2>1. UNCHANGED <<sent, received, splits, waiting, handed>>
    BY <1>7 DEF Frame, GenerateFrame, receiver
  <2>2. \A p \in OrderedSent : HeldBySender(p) => HeldBySender(p)'
    BY <1>7, FrameShape DEF OrderedSent, IsReliable, Indexed
  <2> QED
    BY <1>1, <2>1, <2>2
<1>8. CASE GiveUp
  BY <1>2, <1>8 DEF GiveUp, sending, receiver
<1>9. ASSUME NEW d \in ackWire, ReceiveAcks(d) PROVE Kept'
  BY <1>2, <1>9 DEF ReceiveAcks, sending, receiver
<1>10. ASSUME NEW grow \in BOOLEAN, HandleAck(grow) PROVE Kept'
  <2>1. UNCHANGED <<sent, received, splits, waiting, handed>>
    BY <1>10 DEF HandleAck, sending, receiver
  <2>2. \A p \in OrderedSent : HeldBySender(p) => HeldBySender(p)' \/ p.number \in received
    BY <1>10, HandleAckShape DEF OrderedSent
  <2> QED
    BY <1>1, <2>1, <2>2
<1>11. ASSUME NEW p \in wire, NEW late \in BOOLEAN, ReceivePacket(p, late)
       PROVE  Kept'
  <2>1. /\ received' \subseteq received \union {p.number}
        /\ received \subseteq received' /\ sent' = sent
    BY <1>11 DEF ReceivePacket, sending
  <2>2. /\ p \in OrderedSent => HeldByReceiver(p)' \/ Mixed(p) \/ p.number \in received
        /\ \A q \in OrderedSent : HeldByReceiver(q) => HeldByReceiver(q)' \/ Mixed(q)
        /\ \A q \in sent : HeldBySender(q) => HeldBySender(q)'
    BY <1>11, ReceivePacketShape
  <2>3. \A q \in OrderedSent : (Shared(q) => Shared(q)') /\ (Mixed(q) => Mixed(q)')
    BY <2>1 DEF Shared, Mixed
  <2>4. ASSUME NEW q \in OrderedSent, q.number \in received', q.number \notin received, q # p
        PROVE  Shared(q)'
    <3>1. q.number = p.number /\ p \in sent
      BY <2>1, <2>4 DEF Shape
    <3> QED
      BY <3>1, <2>1, <2>4 DEF Shared
  <2>5. ASSUME NEW q \in OrderedSent
        PROVE  /\ HeldBySender(q)' \/ q.number \in received'
               /\ q.number \in received' => HeldByReceiver(q)' \/ Shared(q)' \/ Mixed(q)'
    BY <2>1, <2>2, <2>3, <2>4 DEF Kept, OrderedSent
  <2> QED
    BY <2>1, <2>5 DEF Kept, OrderedSent
<1>12. ASSUME NEW n \in 1 .. Len(acks), NEW arrives \in BOOLEAN, SendAcks(n, arrives)
       PROVE  Kept'
  BY <1>2, <1>12 DEF SendAcks, sending, flow
<1> QED
  BY <1>3, <1>4, <1>5, <1>6, <1>7, <1>8, <1>9, <1>10, <1>11, <1>12, <1>13
     DEF Next, Making

\* Whatever the network does, late repeats included, and however many threads send, a safe
\* packet is held by the sender or by the receiver or has been handed on, unless another
\* one has its number or the ids of its message and another one were mixed up.
THEOREM SafePacketsKept == Spec => []NoSafePacketLost
<1>1. Init => Kept
  BY DEF Init, Kept, OrderedSent
<1>2. Kept => NoSafePacketLost
  BY DEF Kept, NoSafePacketLost, OrderedSent
<1> QED
  BY <1>1, <1>2, ShapeInit, ShapeStep, KeptStep, PTL DEF Spec

-----------------------------------------------------------------------------
(* The streams, as long as no index has gone half round *)

\* The comment "This wraps at 255" is wrong, so the promise is one for that long.
NoWrap == \A k \in Indexed, s \in Streams : writeIndex[k][s] <= Half

\* Every ordinal was counted before it was used.
Counted ==
  /\ \A p \in sent : p.ordinal < writeIndex[p.kind][p.stream]
  /\ \A c \in Callers :
       Indexing(c) => calls[c].ordinal < writeIndex[calls[c].kind][calls[c].stream]

LEMMA CountedStep == Shape /\ Counted /\ [Next]_vars => Counted'
<1> SUFFICES ASSUME Shape, Counted, [Next]_vars PROVE Counted'
  OBVIOUS
<1>1. CASE UNCHANGED <<sent, writeIndex, calls>>
  BY <1>1 DEF Counted, Indexing
<1>2. CASE UNCHANGED vars
  BY <1>1, <1>2 DEF vars, sending
<1>3. ASSUME NEW c \in Callers, NEW t \in Traffic, ReadNumber(c, t) PROVE Counted'
  <2>1. /\ UNCHANGED <<sent, writeIndex>>
        /\ calls'[c].at = "numbered"
        /\ \A d \in Callers : d # c => calls'[d] = calls[d]
    BY <1>3 DEF ReadNumber, Shape
  <2> QED
    BY <2>1 DEF Counted, Indexing
<1>4. ASSUME NEW c \in Callers, TakeIndex(c) PROVE Counted'
  <2> DEFINE k == calls[c].kind
             s == calls[c].stream
  <2>1. calls[c] \in Call /\ k \in Kinds /\ s \in Streams
    BY <1>4, TakeIndexFacts DEF Call
  <2>2. /\ sent' = sent
        /\ writeIndex' = [writeIndex EXCEPT ![k][s] = @ + 1]
    BY <1>4 DEF TakeIndex
  <2>3. \A l \in Kinds, t \in Streams :
          writeIndex[l][t] \in Nat /\ writeIndex'[l][t] \in Nat
          /\ writeIndex[l][t] <= writeIndex'[l][t]
    <3> HIDE DEF k, s
    <3> QED
      BY <2>1, <2>2 DEF Shape
  <2>4. writeIndex'[k][s] = writeIndex[k][s] + 1
    <3> HIDE DEF k, s
    <3> QED
      BY <2>1, <2>2 DEF Shape
  <2>5. /\ calls'[c].ordinal = writeIndex[k][s] /\ calls'[c].kind = k /\ calls'[c].stream = s
        /\ \A d \in Callers : d # c => calls'[d] = calls[d]
    BY <1>4, TakeIndexFacts
  <2>6. \A p \in sent' : p.ordinal < writeIndex'[p.kind][p.stream]
    <3>1. \A p \in sent : p.kind \in Kinds /\ p.stream \in Streams /\ p.ordinal \in Nat
      BY DEF Shape, Packet
    <3> QED
      BY <3>1, <2>2, <2>3 DEF Counted
  <2>7. ASSUME NEW d \in Callers, d # c, Indexing(d)'
        PROVE  calls'[d].ordinal < writeIndex'[calls'[d].kind][calls'[d].stream]
    <3>1. calls'[d] = calls[d] /\ Indexing(d)
      BY <2>5, <2>7 DEF Indexing
    <3>2. calls[d] \in Call
      BY <3>1, CallType
    <3> QED
      BY <3>1, <3>2, <2>3 DEF Counted, Call
  <2>8. calls'[c].ordinal < writeIndex'[calls'[c].kind][calls'[c].stream]
    BY <2>1, <2>3, <2>4, <2>5
  <2> QED
    BY <2>6, <2>7, <2>8 DEF Counted
<1>5. ASSUME NEW c \in Callers, Push(c) PROVE Counted'
  <2>1. /\ Indexing(c) /\ \A p \in RangeOf(calls[c].made) : SameMessage(calls[c], p)
        /\ sent' = sent \union RangeOf(calls[c].made) /\ writeIndex' = writeIndex
        /\ ~Indexing(c)' /\ \A d \in Callers : d # c => calls'[d] = calls[d]
    BY <1>5, PushFacts
  <2>2. \A p \in sent' : p.ordinal < writeIndex[p.kind][p.stream]
    BY <2>1 DEF SameMessage, Counted
  <2> QED
    BY <2>1, <2>2 DEF Counted, Indexing
<1>12. ASSUME NEW c \in Callers, Making(c) PROVE Counted'
  <2>1. /\ sent' = sent /\ writeIndex' = writeIndex
        /\ \A d \in Callers : d # c => calls'[d] = calls[d]
        /\ Indexing(c) /\ SameMessage(calls[c], calls'[c])
    BY <1>12, MakingFacts
  <2> QED
    BY <2>1 DEF Counted, Indexing, SameMessage
<1>6. CASE Frame
  BY <1>1, <1>6 DEF Frame, GenerateFrame
<1>7. CASE GiveUp
  BY <1>1, <1>7 DEF GiveUp, sending
<1>8. ASSUME NEW d \in ackWire, ReceiveAcks(d) PROVE Counted'
  BY <1>1, <1>8 DEF ReceiveAcks, sending
<1>9. ASSUME NEW grow \in BOOLEAN, HandleAck(grow) PROVE Counted'
  BY <1>1, <1>9 DEF HandleAck, sending
<1>10. ASSUME NEW p \in wire, NEW late \in BOOLEAN, ReceivePacket(p, late)
       PROVE  Counted'
  BY <1>1, <1>10 DEF ReceivePacket, sending
<1>11. ASSUME NEW n \in 1 .. Len(acks), NEW arrives \in BOOLEAN, SendAcks(n, arrives)
       PROVE  Counted'
  BY <1>1, <1>11 DEF SendAcks, sending
<1> QED
  BY <1>2, <1>3, <1>4, <1>5, <1>6, <1>7, <1>8, <1>9, <1>10, <1>11, <1>12
     DEF Next, Making

\* So far the index on the wire is the ordinal.
LEMMA IndexIsOrdinal ==
  ASSUME Shape, Counted, NoWrap, NEW p \in sent, p.kind \in Indexed
  PROVE  /\ Index(p) = p.ordinal /\ p.ordinal \in Nat
         /\ p.ordinal < writeIndex[p.kind][p.stream]
         /\ writeIndex[p.kind][p.stream] <= Half
<1>1. p.stream \in Streams /\ p.kind \in Kinds /\ p.ordinal \in Nat
  BY DEF Shape, Packet
<1>2. p.ordinal < writeIndex[p.kind][p.stream] /\ writeIndex[p.kind][p.stream] <= Half
  BY <1>1 DEF Counted, NoWrap
<1>3. p.ordinal < 2 * Half /\ Half \in Nat \ {0}
  BY <1>1, <1>2, ReliabilityAssumption DEF Shape
<1>4. p.ordinal % (2 * Half) = p.ordinal
  BY <1>1, <1>3
<1> QED
  BY <1>1, <1>2, <1>4 DEF Index, Modulus

\* The read indices follow what was handed on, and nothing that is due waits.
InTurn ==
  \A s \in Streams :
    /\ readIndex["ordered"][s] = Len(handed["ordered"][s])
    /\ readIndex["ordered"][s] <= writeIndex["ordered"][s]
    /\ \A p \in waiting : p.stream = s => p.ordinal # readIndex["ordered"][s]
    /\ readIndex["sequenced"][s] <= writeIndex["sequenced"][s]
    /\ \A i \in 1 .. Len(handed["sequenced"][s]) :
         handed["sequenced"][s][i] < readIndex["sequenced"][s]

LEMMA RunOf ==
  ASSUME NEW old \in Seq(Nat), NEW n \in Nat, NEW more \in Seq(Nat), Len(more) = n,
         \A i \in 1 .. n : more[i] = Len(old) + i
  PROVE  (old \o <<Len(old)>>) \o more = old \o [i \in 1 .. n + 1 |-> Len(old) + i - 1]
<1> DEFINE mid   == <<Len(old)>>
           front == old \o mid
           run   == [i \in 1 .. n + 1 |-> Len(old) + i - 1]
<1>1. Len(old) \in Nat
  BY LenProperties
<1>2. mid \in Seq(Nat) /\ Len(mid) = 1 /\ mid[1] = Len(old)
  BY <1>1
<1>3. run \in Seq(Nat) /\ Len(run) = n + 1 /\ \A i \in 1 .. n + 1 : run[i] = Len(old) + i - 1
  <2>1. run = [i \in 1 .. n + 1 |-> run[i]] /\ \A i \in 1 .. n + 1 : run[i] \in Nat
    BY <1>1
  <2>2. \A i \in 1 .. n + 1 : run[i] = Len(old) + i - 1
    OBVIOUS
  <2>3. n + 1 \in Nat
    OBVIOUS
  <2> DEFINE l == n + 1
  <2>4. l \in Nat /\ run = [i \in 1 .. l |-> run[i]] /\ \A i \in 1 .. l : run[i] \in Nat
    BY <2>1, <2>3
  <2> HIDE DEF run, l
  <2>5. run \in Seq(Nat) /\ Len(run) = l
    BY <2>4, SeqOfLen
  <2> QED
    BY <2>2, <2>5 DEF l
<1> HIDE DEF mid, run
<1>4. /\ front \in Seq(Nat) /\ Len(front) = Len(old) + 1
      /\ \A i \in 1 .. Len(old) + 1 : front[i] = IF i <= Len(old) THEN old[i] ELSE Len(old)
  <2>1. /\ old \o mid \in Seq(Nat) /\ Len(old \o mid) = Len(old) + Len(mid)
        /\ \A i \in 1 .. Len(old) + Len(mid) :
             (old \o mid)[i] = IF i <= Len(old) THEN old[i] ELSE mid[i - Len(old)]
    <3>1. mid \in Seq(Nat)
      BY <1>2
    <3> QED
      BY <3>1, ConcatProperties
  <2>2. \A i \in 1 .. Len(old) + 1 : i <= Len(old) \/ i - Len(old) = 1
    BY <1>1
  <2> QED
    BY <2>1, <2>2, <1>2
<1> HIDE DEF front
<1>5. /\ front \o more \in Seq(Nat) /\ Len(front \o more) = Len(front) + Len(more)
      /\ \A i \in 1 .. Len(front) + Len(more) :
           (front \o more)[i] = IF i <= Len(front) THEN front[i] ELSE more[i - Len(front)]
  <2>1. front \in Seq(Nat)
    BY <1>4
  <2> QED
    BY <2>1, ConcatProperties
<1>6. /\ old \o run \in Seq(Nat) /\ Len(old \o run) = Len(old) + Len(run)
      /\ \A i \in 1 .. Len(old) + Len(run) :
           (old \o run)[i] = IF i <= Len(old) THEN old[i] ELSE run[i - Len(old)]
  BY <1>3, ConcatProperties
<1>7. Len(front \o more) = Len(old) + n + 1 /\ Len(old \o run) = Len(old) + n + 1
  BY <1>1, <1>3, <1>4, <1>5, <1>6
<1>8. ASSUME NEW i \in 1 .. Len(old) + n + 1
      PROVE  (front \o more)[i] = (old \o run)[i]
  <2>0. i \in 1 .. Len(front) + Len(more) /\ i \in 1 .. Len(old) + Len(run)
    BY <1>1, <1>3, <1>4
  <2>1. CASE i <= Len(old)
    <3>1. (old \o run)[i] = old[i]
      BY <2>0, <2>1, <1>6
    <3>2. i <= Len(front) /\ i \in 1 .. Len(old) + 1
      BY <2>1, <1>1, <1>4
    <3> QED
      BY <3>1, <3>2, <2>0, <2>1, <1>4, <1>5
  <2>2. CASE i = Len(old) + 1
    <3>1. i <= Len(front) /\ ~(i <= Len(old)) /\ i - Len(old) = 1
      BY <2>2, <1>1, <1>4
    <3>2. (front \o more)[i] = front[i] /\ front[i] = Len(old)
      BY <3>1, <2>0, <2>2, <1>4, <1>5
    <3>3. (old \o run)[i] = run[1]
      BY <3>1, <2>0, <1>6
    <3>4. run[1] = Len(old)
      BY <1>1, <1>3
    <3> QED
      BY <3>2, <3>3, <3>4
  <2>3. CASE i > Len(old) + 1
    <3>1. /\ i - Len(front) = i - Len(old) - 1 /\ i - Len(front) \in 1 .. n
          /\ i - Len(old) \in 1 .. n + 1
          /\ ~(i <= Len(front)) /\ ~(i <= Len(old))
      BY <2>3, <1>1, <1>4
    <3>2. (front \o more)[i] = more[i - Len(front)]
      BY <3>1, <2>0, <1>5
    <3>3. (old \o run)[i] = run[i - Len(old)]
      BY <3>1, <2>0, <1>6
    <3>4. more[i - Len(front)] = Len(old) + (i - Len(front))
      BY <3>1
    <3>5. run[i - Len(old)] = Len(old) + (i - Len(old)) - 1
      BY <3>1, <1>3
    <3> QED
      BY <3>1, <3>2, <3>3, <3>4, <3>5, <1>1
  <2>4. i <= Len(old) \/ i = Len(old) + 1 \/ i > Len(old) + 1
    BY <1>1
  <2> QED
    BY <2>1, <2>2, <2>3, <2>4
<1>9. front \o more = old \o run
  <2>1. Len(front \o more) = Len(old \o run)
    BY <1>7
  <2>2. \A i \in 1 .. Len(front \o more) : (front \o more)[i] = (old \o run)[i]
    BY <1>7, <1>8
  <2> QED
    BY <1>5, <1>6, <2>1, <2>2, SeqEqual
<1> QED
  BY <1>9 DEF front, mid, run

\* A message that is next on its stream goes out with those behind it, in one run.
LEMMA HandOrderedTurn ==
  ASSUME Shape, Counted, NoWrap, InTurn,
         NEW p \in OrderedSent, NEW n \in 0 .. Modulus, HandOrdered(p, n),
         Index(p) = readIndex["ordered"][p.stream]
  PROVE  LET s == p.stream
             r == readIndex["ordered"][s]
         IN /\ r + n + 1 <= writeIndex["ordered"][s]
            /\ handed' = [handed EXCEPT !["ordered"][s] =
                            @ \o [i \in 1 .. n + 1 |-> Len(handed["ordered"][s]) + i - 1]]
            /\ readIndex' = [readIndex EXCEPT !["ordered"][s] = r + n + 1]
            /\ waiting' \subseteq waiting
            /\ \A q \in waiting' : q.stream = s => q.ordinal # r + n + 1
<1> DEFINE s    == p.stream
           r    == readIndex["ordered"][s]
           old  == handed["ordered"][s]
           more == Ordinals(Behind(s, r, n))
<1>1. /\ p \in sent /\ p.kind = "ordered" /\ s \in Streams /\ n \in Nat
      /\ "ordered" \in Indexed /\ "ordered" \in Kinds
  BY ReliabilityAssumption DEF Shape, OrderedSent, Packet, Indexed, Kinds, Modulus
<1>2. /\ r \in Nat /\ old \in Seq(Nat) /\ r = Len(old)
      /\ writeIndex["ordered"][s] \in Nat /\ writeIndex["ordered"][s] <= Half /\ Half \in Nat \ {0}
  BY <1>1, ReliabilityAssumption DEF Shape, InTurn, NoWrap
<1>3. /\ \A i \in 1 .. n : WaitingAt(s, r + i) # {}
      /\ WaitingAt(s, r + n + 1) = {}
      /\ waiting' = waiting \ RangeOf(Behind(s, r, n))
      /\ handed' = [handed EXCEPT !["ordered"][s] = (old \o <<p.ordinal>>) \o more]
      /\ readIndex' = [readIndex EXCEPT !["ordered"][s] = r + n + 1]
  BY DEF HandOrdered
<1>4. BehindIs(s, r, n)
  <2> HIDE DEF s, r
  <2> QED
    BY <1>1, <1>2, <1>3, BehindFacts
<1>5. ASSUME NEW q \in waiting, q.stream = s
      PROVE  Index(q) = q.ordinal /\ q.ordinal \in Nat /\ q.ordinal < writeIndex["ordered"][s]
  <2>1. q \in sent /\ q.kind = "ordered"
    BY DEF Shape, OrderedSent
  <2> QED
    BY <2>1, <1>1, <1>5, IndexIsOrdinal
<1>6. p.ordinal = Len(old) /\ p.ordinal < writeIndex["ordered"][s]
  BY <1>1, <1>2, IndexIsOrdinal
<1>7. \A i \in 1 .. n : /\ more[i] = r + i
                        /\ r + i < writeIndex["ordered"][s]
  <2> HIDE DEF s, r
  <2>1. \A i \in 1 .. n : /\ Behind(s, r, n)[i] \in waiting
                          /\ Behind(s, r, n)[i].stream = s
                          /\ Index(Behind(s, r, n)[i]) = r + i
                          /\ more[i] = Behind(s, r, n)[i].ordinal
    BY <1>4 DEF BehindIs
  <2> QED
    BY <2>1, <1>5
<1>8. more \in Seq(Nat) /\ Len(more) = n
  BY <1>4 DEF BehindIs
<1>9. (old \o <<p.ordinal>>) \o more = old \o [i \in 1 .. n + 1 |-> Len(old) + i - 1]
  <2>1. \A i \in 1 .. n : more[i] = Len(old) + i
    BY <1>2, <1>7
  <2>2. (old \o <<Len(old)>>) \o more = old \o [i \in 1 .. n + 1 |-> Len(old) + i - 1]
    <3> HIDE DEF old, more
    <3> QED
      BY <1>1, <1>2, <1>8, <2>1, RunOf
  <2> QED
    BY <2>2, <1>6
<1>10. r + n + 1 <= writeIndex["ordered"][s]
  <2>1. CASE n = 0
    BY <2>1, <1>2, <1>6
  <2>2. CASE n # 0
    <3>1. n \in 1 .. n
      BY <2>2, <1>1
    <3>2. r + n < writeIndex["ordered"][s]
      BY <3>1, <1>7
    <3> QED
      BY <3>2, <1>1, <1>2
  <2> QED
    BY <2>1, <2>2
<1>11. ASSUME NEW q \in waiting', q.stream = s PROVE q.ordinal # r + n + 1
  <2>1. q \in waiting
    BY <1>3
  <2>2. q \notin WaitingAt(s, r + n + 1)
    BY <1>3
  <2>3. Index(q) # r + n + 1
    BY <2>1, <2>2, <1>11 DEF WaitingAt
  <2> QED
    BY <2>1, <2>3, <1>5, <1>11
<1>12. handed' = [handed EXCEPT !["ordered"][s] =
                    old \o [i \in 1 .. n + 1 |-> Len(old) + i - 1]]
  BY <1>3, <1>9
<1>13. waiting' \subseteq waiting /\ readIndex' = [readIndex EXCEPT !["ordered"][s] = r + n + 1]
  BY <1>3
<1> QED
  BY <1>10, <1>11, <1>12, <1>13

\* An unsafe message that is taken is newer than all before it.
LEMMA SequencedTurn ==
  ASSUME Shape, Counted, NoWrap, InTurn,
         NEW p \in sent, p.kind = "sequenced",
         ~IsOlder(Index(p), readIndex["sequenced"][p.stream])
  PROVE  /\ Index(p) = p.ordinal
         /\ readIndex["sequenced"][p.stream] <= p.ordinal
         /\ p.ordinal < writeIndex["sequenced"][p.stream]
<1> DEFINE r == readIndex["sequenced"][p.stream]
           w == writeIndex["sequenced"][p.stream]
<1>1. /\ p.stream \in Streams /\ "sequenced" \in Indexed /\ "sequenced" \in Kinds
      /\ r \in Nat /\ w \in Nat /\ r <= w
  BY DEF Shape, Packet, Indexed, Kinds, InTurn
<1>2. /\ Index(p) = p.ordinal /\ p.ordinal \in Nat /\ p.ordinal < w /\ w <= Half
      /\ Half \in Nat \ {0}
  BY <1>1, IndexIsOrdinal, ReliabilityAssumption
<1>3. ASSUME p.ordinal < r PROVE FALSE
  <2>1. r - p.ordinal \in 1 .. Half
    BY <1>1, <1>2, <1>3
  <2>2. (r - p.ordinal) % (2 * Half) = r - p.ordinal
    BY <1>2, <2>1
  <2> QED
    BY <1>2, <2>1, <2>2 DEF IsOlder, Modulus
<1> QED
  BY <1>1, <1>2, <1>3

LEMMA OrderedTurn ==
  ASSUME Shape, Counted, NoWrap, InTurn, writeIndex' = writeIndex,
         NEW p \in OrderedSent, Ordered(p)
  PROVE  InTurn' /\ [Promise!StreamNext]_(Promise!streamVars)
<1> DEFINE s == p.stream
           r == readIndex["ordered"][s]
<1>1. /\ p \in sent /\ p.kind = "ordered" /\ s \in Streams
      /\ "ordered" \in Indexed /\ "sequenced" \in Indexed /\ "ordered" # "sequenced"
  BY DEF Shape, OrderedSent, Packet, Indexed
<1>2. CASE Index(p) # r
  <2>1. waiting' = waiting \union {p} /\ UNCHANGED <<readIndex, handed>>
    BY <1>2 DEF Ordered
  <2>2. Index(p) = p.ordinal
    BY <1>1, IndexIsOrdinal
  <2>3. InTurn'
    BY <2>1, <2>2, <1>2 DEF InTurn
  <2> QED
    BY <2>1, <2>3 DEF Promise!streamVars
<1>3. CASE Index(p) = r
  <2>1. PICK n \in 0 .. Modulus : HandOrdered(p, n)
    BY <1>3 DEF Ordered
  <2> DEFINE run == [i \in 1 .. n + 1 |-> Len(handed["ordered"][s]) + i - 1]
             new == handed["ordered"][s] \o run
  <2>2. /\ r + n + 1 <= writeIndex["ordered"][s]
        /\ handed' = [handed EXCEPT !["ordered"][s] = new]
        /\ readIndex' = [readIndex EXCEPT !["ordered"][s] = r + n + 1]
        /\ waiting' \subseteq waiting
        /\ \A q \in waiting' : q.stream = s => q.ordinal # r + n + 1
    BY <1>3, <2>1, HandOrderedTurn
  <2>3. /\ r \in Nat /\ n \in Nat /\ n + 1 \in Nat /\ handed["ordered"][s] \in Seq(Nat)
        /\ r = Len(handed["ordered"][s]) /\ writeIndex["ordered"][s] \in Nat
    BY <1>1, ReliabilityAssumption DEF Shape, InTurn, Modulus, Kinds
  <2>4. Len(new) = r + n + 1
    <3>1. run \in Seq(Nat) /\ Len(run) = n + 1
      <4> DEFINE l == n + 1
      <4>1. /\ l \in Nat /\ run = [i \in 1 .. l |-> run[i]]
            /\ \A i \in 1 .. l : run[i] \in Nat
        BY <2>3
      <4> HIDE DEF l, run
      <4>2. run \in Seq(Nat) /\ Len(run) = l
        BY <4>1, SeqOfLen
      <4> QED
        BY <4>2 DEF l
    <3> HIDE DEF run
    <3>2. Len(new) = Len(handed["ordered"][s]) + Len(run)
      BY <3>1, <2>3, ConcatProperties
    <3> HIDE DEF new, r, s
    <3>3. Len(new) = r + (n + 1)
      BY <3>1, <3>2, <2>3, Zenon
    <3>4. r \in Nat /\ n \in Nat
      BY <2>3
    <3> QED
      BY <3>3, <3>4
  <2>5. InTurn'
    <3> HIDE DEF new, s, r
    <3>1. /\ readIndex'["ordered"][s] = r + n + 1
          /\ handed'["ordered"][s] = new
          /\ \A t \in Streams : t # s => /\ readIndex'["ordered"][t] = readIndex["ordered"][t]
                                         /\ handed'["ordered"][t] = handed["ordered"][t]
          /\ readIndex'["sequenced"] = readIndex["sequenced"]
          /\ handed'["sequenced"] = handed["sequenced"]
      BY <1>1, <2>2 DEF Shape
    <3>2. SUFFICES ASSUME NEW t \in Streams
          PROVE  /\ readIndex'["ordered"][t] = Len(handed'["ordered"][t])
                 /\ readIndex'["ordered"][t] <= writeIndex["ordered"][t]
                 /\ \A q \in waiting' : q.stream = t => q.ordinal # readIndex'["ordered"][t]
                 /\ readIndex'["sequenced"][t] <= writeIndex["sequenced"][t]
                 /\ \A i \in 1 .. Len(handed'["sequenced"][t]) :
                      handed'["sequenced"][t][i] < readIndex'["sequenced"][t]
      BY DEF InTurn
    <3>3. CASE t = s
      BY <3>1, <3>3, <2>2, <2>4 DEF InTurn
    <3>4. CASE t # s
      BY <3>1, <3>4, <2>2 DEF InTurn
    <3> QED
      BY <3>3, <3>4
  <2>6. Promise!StreamNext
    <3>0. [k \in Indexed |-> writeIndex[k]]["ordered"][s] = writeIndex["ordered"][s]
      BY <1>1
    <3>1. n + 1 \in 1 .. [k \in Indexed |-> writeIndex[k]]["ordered"][s]
      <4>1. n + 1 \in 1 .. writeIndex["ordered"][s]
        <5> HIDE DEF r, s
        <5> QED
          BY <2>2, <2>3
      <4> QED
        BY <3>0, <4>1
    <3>2. Promise!HandInOrder(s, n + 1)
      <4>1. Len(handed["ordered"][s]) + (n + 1) <= [k \in Indexed |-> writeIndex[k]]["ordered"][s]
        BY <1>1, <2>2, <2>3
      <4> QED
        BY <4>1, <2>2 DEF Promise!HandInOrder
    <3> QED
      BY <3>1, <3>2, <1>1 DEF Promise!StreamNext
  <2> QED
    BY <2>5, <2>6
<1> QED
  BY <1>2, <1>3

LEMMA SequencedTaken ==
  ASSUME Shape, Counted, NoWrap, InTurn, writeIndex' = writeIndex,
         NEW p \in sent, p.kind = "sequenced", Sequenced(p),
         ~IsOlder(Index(p), readIndex["sequenced"][p.stream])
  PROVE  InTurn' /\ [Promise!StreamNext]_(Promise!streamVars)
<1> DEFINE s == p.stream
           r == readIndex["sequenced"][s]
           m == p.ordinal
           old == handed["sequenced"][s]
<1>1. /\ s \in Streams /\ m \in Nat
      /\ "ordered" \in Indexed /\ "sequenced" \in Indexed /\ "ordered" # "sequenced"
      /\ r \in Nat /\ old \in Seq(Nat) /\ writeIndex["sequenced"][s] \in Nat
  BY DEF Shape, Packet, Indexed, Kinds
<1>2. Index(p) = m /\ r <= m /\ m < writeIndex["sequenced"][s]
  BY SequencedTurn
<1>3. /\ readIndex' = [readIndex EXCEPT !["sequenced"][s] = m + 1]
      /\ handed' = [handed EXCEPT !["sequenced"][s] = Append(@, m)]
      /\ waiting' = waiting
  BY <1>2 DEF Sequenced
<1>4. \A i \in 1 .. Len(old) : old[i] \in Nat /\ old[i] < r
  BY <1>1, ElementOfSeq DEF InTurn
<1>5. InTurn'
  <2> DEFINE new == Append(old, m)
  <2> HIDE DEF s, r, m
  <2>1. /\ readIndex'["sequenced"][s] = m + 1
        /\ handed'["sequenced"][s] = new
        /\ \A t \in Streams : t # s => /\ readIndex'["sequenced"][t] = readIndex["sequenced"][t]
                                       /\ handed'["sequenced"][t] = handed["sequenced"][t]
        /\ readIndex'["ordered"] = readIndex["ordered"]
        /\ handed'["ordered"] = handed["ordered"]
    BY <1>1, <1>3 DEF Shape
  <2>2. /\ Len(new) = Len(old) + 1 /\ Len(old) \in Nat
        /\ \A i \in 1 .. Len(old) : new[i] = old[i]
        /\ new[Len(old) + 1] = m
    <3> HIDE DEF old
    <3> QED
      BY <1>1, AppendProperties, LenProperties
  <2>3. \A i \in 1 .. Len(new) : new[i] < m + 1
    <3> HIDE DEF new, old
    <3>1. SUFFICES ASSUME NEW i \in 1 .. Len(new) PROVE new[i] < m + 1
      OBVIOUS
    <3>2. i \in 1 .. Len(old) \/ i = Len(old) + 1
      BY <2>2
    <3>3. CASE i \in 1 .. Len(old)
      <4>1. new[i] = old[i] /\ old[i] \in Nat /\ old[i] < r
        BY <2>2, <1>4, <3>3
      <4>2. r \in Nat /\ m \in Nat /\ r <= m
        BY <1>1, <1>2
      <4> HIDE DEF m, r
      <4> QED
        BY <4>1, <4>2
    <3>4. CASE i = Len(old) + 1
      <4>1. new[i] = m /\ m \in Nat
        BY <2>2, <3>4, <1>1
      <4> HIDE DEF m
      <4> QED
        BY <4>1
    <3> QED
      BY <3>2, <3>3, <3>4
  <2>4. m + 1 <= writeIndex["sequenced"][s]
    BY <1>1, <1>2
  <2> HIDE DEF new
  <2>5. ASSUME NEW t \in Streams
        PROVE  /\ readIndex'["sequenced"][t] <= writeIndex["sequenced"][t]
               /\ \A i \in 1 .. Len(handed'["sequenced"][t]) :
                    handed'["sequenced"][t][i] < readIndex'["sequenced"][t]
    <3>1. CASE t = s
      BY <3>1, <2>1, <2>3, <2>4
    <3>2. CASE t # s
      BY <3>2, <2>1 DEF InTurn
    <3> QED
      BY <3>1, <3>2
  <2> QED
    BY <2>1, <2>5, <1>3 DEF InTurn
<1>6. Promise!StreamNext
  <2>1. [k \in Indexed |-> writeIndex[k]]["sequenced"][s] = writeIndex["sequenced"][s]
    BY <1>1
  <2>2. \A i \in 1 .. Len(old) : old[i] < m
    BY <1>1, <1>2, <1>4
  <2>3. m < [k \in Indexed |-> writeIndex[k]]["sequenced"][s]
    BY <1>2, <2>1
  <2>4. Promise!HandNewer(s, m)
    BY <1>3, <2>2, <2>3 DEF Promise!HandNewer
  <2>5. m \in 0 .. [k \in Indexed |-> writeIndex[k]]["sequenced"][s]
    BY <1>1, <1>2, <2>1
  <2> QED
    BY <2>4, <2>5, <1>1 DEF Promise!StreamNext
<1> QED
  BY <1>5, <1>6

LEMMA TurnStep ==
  Shape /\ Counted /\ NoWrap /\ InTurn /\ [Next]_vars
    => InTurn' /\ [Promise!StreamNext]_(Promise!streamVars)
<1> SUFFICES ASSUME Shape, Counted, NoWrap, InTurn, [Next]_vars
             PROVE  InTurn' /\ [Promise!StreamNext]_(Promise!streamVars)
  OBVIOUS
<1> DEFINE Goal == InTurn' /\ [Promise!StreamNext]_(Promise!streamVars)
<1>1. ASSUME UNCHANGED <<writeIndex, readIndex, handed, waiting>> PROVE Goal
  BY <1>1 DEF InTurn, Promise!streamVars
<1>2. CASE UNCHANGED vars
  BY <1>1, <1>2 DEF vars, sending, receiver
<1>3. ASSUME NEW c \in Callers, NEW t \in Traffic, ReadNumber(c, t) PROVE Goal
  BY <1>1, <1>3 DEF ReadNumber, receiver
<1>4. ASSUME NEW c \in Callers, TakeIndex(c) PROVE Goal
  <2> DEFINE k == calls[c].kind
             s == calls[c].stream
  <2>1. calls[c] \in Call /\ k \in Kinds /\ s \in Streams
    BY <1>4, TakeIndexFacts DEF Call
  <2>2. /\ writeIndex' = [writeIndex EXCEPT ![k][s] = @ + 1]
        /\ UNCHANGED <<readIndex, handed, waiting>>
    BY <1>4 DEF TakeIndex, receiver
  <2> HIDE DEF k, s
  <2>3. \A l \in Indexed, t \in Streams :
          /\ writeIndex[l][t] \in Nat /\ writeIndex'[l][t] \in Nat
          /\ writeIndex[l][t] <= writeIndex'[l][t]
          /\ readIndex[l][t] \in Nat
    <3>1. SUFFICES ASSUME NEW l \in Indexed, NEW t \in Streams
          PROVE  /\ writeIndex[l][t] \in Nat /\ writeIndex'[l][t] \in Nat
                 /\ writeIndex[l][t] <= writeIndex'[l][t]
                 /\ readIndex[l][t] \in Nat
      OBVIOUS
    <3>2. l \in Kinds /\ writeIndex[l][t] \in Nat /\ readIndex[l][t] \in Nat
      BY DEF Shape, Indexed, Kinds
    <3>3. writeIndex'[l][t] = IF l = k /\ t = s THEN writeIndex[l][t] + 1 ELSE writeIndex[l][t]
      BY <3>2, <2>1, <2>2 DEF Shape
    <3> QED
      BY <3>2, <3>3
  <2>4. InTurn'
    <3>1. "ordered" \in Indexed /\ "sequenced" \in Indexed
      BY DEF Indexed
    <3>2. \A t \in Streams : /\ readIndex["ordered"][t] <= writeIndex'["ordered"][t]
                             /\ readIndex["sequenced"][t] <= writeIndex'["sequenced"][t]
      BY <2>3, <3>1 DEF InTurn
    <3> QED
      BY <2>2, <3>2 DEF InTurn
  <2>5. CASE k \in Indexed
    <3>1. [l \in Indexed |-> writeIndex'[l]]
            = [[l \in Indexed |-> writeIndex[l]] EXCEPT ![k][s] = @ + 1]
      BY <2>1, <2>2, <2>5 DEF Shape, Indexed, Kinds
    <3>2. Promise!SendOn(k, s)
      BY <2>2, <3>1 DEF Promise!SendOn
    <3>3. k \in Promise!Indexed
      BY <2>5 DEF Indexed, Promise!Indexed
    <3>4. Promise!StreamNext
      BY <2>1, <3>2, <3>3 DEF Promise!StreamNext, Promise!SendOn
    <3> QED
      BY <2>4, <3>4
  <2>6. CASE k \notin Indexed
    <3>1. [l \in Indexed |-> writeIndex'[l]] = [l \in Indexed |-> writeIndex[l]]
      BY <2>1, <2>2, <2>6 DEF Shape, Indexed, Kinds
    <3> QED
      BY <2>2, <2>4, <3>1 DEF Promise!streamVars
  <2> QED
    BY <2>5, <2>6
<1>5. ASSUME NEW c \in Callers, Push(c) PROVE Goal
  BY <1>1, <1>5 DEF Push, receiver
<1>12. ASSUME NEW c \in Callers, Making(c) PROVE Goal
  BY <1>1, <1>12, MakingFacts DEF receiver
<1>6. CASE Frame
  BY <1>1, <1>6 DEF Frame, GenerateFrame, receiver
<1>7. CASE GiveUp
  BY <1>1, <1>7 DEF GiveUp, sending, receiver
<1>8. ASSUME NEW d \in ackWire, ReceiveAcks(d) PROVE Goal
  BY <1>1, <1>8 DEF ReceiveAcks, sending, receiver
<1>9. ASSUME NEW grow \in BOOLEAN, HandleAck(grow) PROVE Goal
  BY <1>1, <1>9 DEF HandleAck, sending, receiver
<1>10. ASSUME NEW p \in wire, NEW late \in BOOLEAN, ReceivePacket(p, late)
       PROVE  Goal
  <2>1. writeIndex' = writeIndex /\ p \in sent
    BY <1>10 DEF ReceivePacket, sending, Shape
  <2>2. CASE UNCHANGED <<readIndex, handed, waiting>>
    BY <1>1, <2>1, <2>2
  <2>3. ASSUME NEW g \in OrderedSent, Ordered(g) PROVE Goal
    BY <2>1, <2>3, OrderedTurn
  <2>4. CASE /\ p.kind = "sequenced" /\ Sequenced(p)
             /\ ~IsOlder(Index(p), readIndex["sequenced"][p.stream])
    BY <2>1, <2>4, SequencedTaken
  <2>5. CASE Accept(p)
    <3>1. ASSUME NEW first, first.of \in SplitSent, Ordered(first.of) PROVE Goal
      <4>1. first.of \in OrderedSent
        BY <3>1 DEF SplitSent
      <4> QED
        BY <2>3, <3>1, <4>1
    <3> QED
      BY <2>1, <2>2, <2>3, <2>4, <2>5, <3>1, AcceptCases
  <2> QED
    BY <1>10, <2>2, <2>5 DEF ReceivePacket
<1>11. ASSUME NEW n \in 1 .. Len(acks), NEW arrives \in BOOLEAN, SendAcks(n, arrives)
       PROVE  Goal
  BY <1>1, <1>11 DEF SendAcks, sending
<1> QED
  BY <1>2, <1>3, <1>4, <1>5, <1>6, <1>7, <1>8, <1>9, <1>10, <1>11, <1>12
     DEF Next, Making

LEMMA TurnInit == Init => Counted /\ InTurn
BY DEF Init, Counted, InTurn, Idle, Indexing, Indexed, Kinds

\* As long as no index of a stream has gone half round, the layer implements PacketStreams:
\* safe packets are handed on once and in order, unsafe ones never after a newer one.
THEOREM LayerKeepsPromise == Spec /\ []NoWrap => Streamed
<1>1. Init => Promise!StreamInit
  <2> SUFFICES ASSUME Init PROVE Promise!StreamInit
    OBVIOUS
  <2>1. [k \in Indexed |-> writeIndex[k]] = [k \in Promise!Indexed |-> [s \in Streams |-> 0]]
    BY DEF Init, Indexed, Kinds, Promise!Indexed
  <2>2. handed = [k \in Promise!Indexed |-> [s \in Streams |-> <<>>]]
    BY DEF Init, Indexed, Promise!Indexed
  <2> QED
    BY <2>1, <2>2 DEF Promise!StreamInit
<1> QED
  BY <1>1, TurnInit, ShapeInit, ShapeStep, CountedStep, TurnStep, PTL
     DEF Spec, Streamed, Promise!StreamSpec

\* As long as no index of a stream has gone half round, no stream stalls: what is next is
\* never among the packets that wait.
THEOREM NoStreamStalls == Spec /\ []NoWrap => []DueIsHanded
<1>1. Shape /\ InTurn => DueIsHanded
  <2> SUFFICES ASSUME Shape, InTurn, NEW p \in waiting
               PROVE  p.ordinal # Len(handed["ordered"][p.stream])
    BY DEF DueIsHanded
  <2>1. p.stream \in Streams
    BY DEF Shape, OrderedSent, Packet
  <2> QED
    BY <2>1 DEF InTurn
<1> QED
  BY <1>1, TurnInit, ShapeInit, ShapeStep, CountedStep, TurnStep, PTL DEF Spec

-----------------------------------------------------------------------------
(* The newest unsafe packet is not lost, as long as no index has gone half round *)

Newest == {p \in sent :
  /\ p.kind = "sequenced"
  /\ \A q \in sent : q.kind = p.kind /\ q.stream = p.stream => q.ordinal <= p.ordinal}

\* As Kept, for the newest packets of the sequenced streams.
NewestKept ==
  \A p \in Newest :
    /\ HeldBySender(p) \/ p.number \in received
    /\ p.number \in received => HandedOn(p) \/ Shared(p)

\* The read index of a sequenced stream is just behind a message that was handed on.
ReadIsHanded ==
  \A s \in Streams :
    \/ readIndex["sequenced"][s] = 0
    \/ \E p \in sent : /\ p.kind = "sequenced" /\ p.stream = s
                       /\ p.ordinal + 1 = readIndex["sequenced"][s]
                       /\ HandedOn(p)

\* So far what looks older is.
LEMMA OlderIsLess ==
  ASSUME NEW i \in Nat, NEW w \in Nat, i < Half, w <= Half, IsOlder(i, w)
  PROVE  i < w
<1>1. Half \in Nat \ {0}
  BY ReliabilityAssumption
<1>2. ASSUME w = i PROVE FALSE
  <2>1. w - i = 0 /\ 0 % (2 * Half) = 0
    BY <1>1, <1>2
  <2> QED
    BY <2>1 DEF IsOlder, Modulus
<1>3. ASSUME w < i PROVE FALSE
  <2>1. 2 * Half - (i - w) \in Half + 1 .. 2 * Half - 1
    BY <1>1, <1>3
  <2>2. (w - i) % (2 * Half) = 2 * Half - (i - w)
    BY <1>1, <1>3, <2>1
  <2> QED
    BY <1>1, <2>1, <2>2 DEF IsOlder, Modulus
<1> QED
  BY <1>2, <1>3

\* An ack leaves the newest packet in the resend queue, unless it is for that one.
LEMMA RemovePacketNewest ==
  ASSUME Shape, Counted, NoWrap, NEW n,
         NEW p \in Newest, p.number # n, p \in RangeOf(resendQueue)
  PROVE  p \in RangeOf(RemovePacket(resendQueue, n))
<1> DEFINE q     == resendQueue
           holed == [i \in 1 .. Len(q) |-> IF i \in Emptied(q, n) THEN Hole ELSE q[i]]
<1>1. q \in Seq(sent \union {Hole}) /\ Len(q) \in Nat
  BY LenProperties DEF Shape
<1>2. PICK i \in 1 .. Len(q) : q[i] = p
  BY DEF RangeOf
<1>3. p \in sent /\ p.kind = "sequenced" /\ "sequenced" \in Indexed
  BY DEF Newest, Indexed
<1>4. ASSUME NEW j \in 1 .. Len(q), IsPacket(q[j]), q[j].kind = "sequenced",
             q[j].stream = p.stream, IsOlder(Index(p), Index(q[j]))
      PROVE  FALSE
  <2>1. q[j] \in sent
    BY <1>1, <1>4, ElementOfSeq DEF IsPacket
  <2>2. q[j].ordinal <= p.ordinal
    BY <1>3, <1>4, <2>1 DEF Newest
  <2>3. /\ Index(p) = p.ordinal /\ p.ordinal \in Nat
        /\ p.ordinal < writeIndex["sequenced"][p.stream]
        /\ writeIndex["sequenced"][p.stream] <= Half
    BY <1>3, IndexIsOrdinal
  <2>4. Index(q[j]) = q[j].ordinal /\ q[j].ordinal \in Nat
    BY <1>3, <1>4, <2>1, IndexIsOrdinal
  <2>5. p.ordinal < Half /\ q[j].ordinal <= Half
    <3>1. writeIndex["sequenced"][p.stream] \in Nat /\ Half \in Nat
      BY <1>3, ReliabilityAssumption DEF Shape, Packet, Kinds
    <3>2. \A a, b, w, h \in Nat : a < w /\ w <= h /\ b <= a => a < h /\ b <= h
      OBVIOUS
    <3> QED
      BY <3>1, <3>2, <2>2, <2>3, <2>4, Zenon
  <2>6. p.ordinal < q[j].ordinal
    BY <1>4, <2>3, <2>4, <2>5, OlderIsLess
  <2> QED
    BY <2>2, <2>3, <2>4, <2>6
<1>5. i \notin Acked(q, n)
  BY <1>2 DEF Acked
<1>6. i \notin Emptied(q, n)
  <2>1. Acked(q, n) \subseteq {j \in 1 .. Len(q) : IsPacket(q[j])}
    BY DEF Acked
  <2> QED
    BY <1>2, <1>3, <1>4, <1>5, <2>1 DEF Emptied
<1>7. holed[i] = p /\ DOMAIN holed = 1 .. Len(q)
  BY <1>2, <1>6
<1>8. holed \in Seq(sent \union {Hole}) /\ Len(holed) = Len(q)
  <2>1. \A j \in 1 .. Len(q) : holed[j] \in sent \union {Hole}
    BY <1>1, ElementOfSeq
  <2>2. holed = [j \in 1 .. Len(q) |-> holed[j]]
    OBVIOUS
  <2> HIDE DEF holed
  <2> QED
    BY <1>1, <2>1, <2>2, SeqOfLen
<1>9. RemovePacket(q, n) = IF 1 \in Acked(q, n) THEN Tail(holed) ELSE holed
  BY DEF RemovePacket
<1> HIDE DEF holed
<1>10. CASE 1 \in Acked(q, n)
  <2>1. i # 1
    BY <1>5, <1>10
  <2>2. holed # <<>>
    BY <1>1, <1>2, <1>8
  <2>3. /\ Len(Tail(holed)) = Len(holed) - 1
        /\ \A j \in 1 .. Len(Tail(holed)) : Tail(holed)[j] = holed[j + 1]
    BY <1>8, <2>2, HeadTailProperties
  <2>4. i - 1 \in 1 .. Len(Tail(holed)) /\ (i - 1) + 1 = i
    BY <1>1, <1>2, <1>8, <2>1, <2>3
  <2>5. Tail(holed)[i - 1] = p
    BY <1>7, <2>3, <2>4
  <2> QED
    BY <1>9, <1>10, <2>4, <2>5 DEF RangeOf
<1>11. CASE 1 \notin Acked(q, n)
  BY <1>1, <1>2, <1>7, <1>8, <1>9, <1>11 DEF RangeOf
<1> QED
  BY <1>10, <1>11

LEMMA PushNewest == ASSUME Shape, NewestKept, NEW c \in Callers, Push(c) PROVE NewestKept'
<1> DEFINE new == RangeOf(calls[c].made)
<1>1. /\ sent \subseteq sent' /\ sent' = sent \union new
      /\ UNCHANGED <<received, handed, resendQueue>>
      /\ RangeOf(sendQueue') = RangeOf(sendQueue) \union new
  BY PushFacts
<1> HIDE DEF new
<1>2. ASSUME NEW p \in Newest', p \in sent
      PROVE  /\ HeldBySender(p)' \/ p.number \in received'
             /\ p.number \in received' => HandedOn(p)' \/ Shared(p)'
  <2>1. p \in Newest
    BY <1>1, <1>2 DEF Newest
  <2>2. HeldBySender(p) => HeldBySender(p)'
    BY <1>1 DEF HeldBySender, RangeOf
  <2>3. HandedOn(p) => HandedOn(p)'
    BY <1>1 DEF HandedOn, RangeOf
  <2>4. Shared(p) => Shared(p)'
    BY <1>1 DEF Shared
  <2> QED
    BY <2>1, <2>2, <2>3, <2>4, <1>1 DEF NewestKept
<1>3. ASSUME NEW p \in new, p \notin sent
      PROVE  HeldBySender(p)' /\ (p.number \in received' => Shared(p)')
  <2>1. HeldBySender(p)'
    BY <1>1 DEF HeldBySender, RangeOf
  <2>2. ASSUME p.number \in received' PROVE Shared(p)'
    <3>1. PICK q \in sent : q.number = p.number
      BY <2>2, <1>1 DEF Shape, Numbers
    <3> QED
      BY <3>1, <1>1, <1>3 DEF Shared
  <2> QED
    BY <2>1, <2>2
<1>4. \A p \in Newest' : p \in sent \/ p \in new
  BY <1>1 DEF Newest
<1> QED
  BY <1>2, <1>3, <1>4 DEF NewestKept

\* What an unsafe message that is handed on changes, and a safe one leaves.
LEMMA SequencedHanded ==
  ASSUME Shape, Counted, NoWrap, NEW p \in sent, p.kind = "sequenced", Sequenced(p)
  PROVE  /\ HandedOn(p)'
         /\ readIndex'["sequenced"][p.stream] = p.ordinal + 1
         /\ \A s \in Streams : s # p.stream =>
              readIndex'["sequenced"][s] = readIndex["sequenced"][s]
         /\ \A q \in sent : q.kind = "sequenced" /\ HandedOn(q) => HandedOn(q)'
<1> DEFINE s   == p.stream
           old == handed["sequenced"][s]
           new == Append(old, p.ordinal)
<1>1. s \in Streams /\ p.ordinal \in Nat /\ "sequenced" \in Indexed /\ Index(p) = p.ordinal
  BY IndexIsOrdinal DEF Shape, Packet, Indexed
<1>2. old \in Seq(Nat)
  BY <1>1 DEF Shape
<1>3. /\ Len(new) = Len(old) + 1 /\ Len(old) \in Nat
      /\ \A i \in 1 .. Len(old) : new[i] = old[i]
      /\ new[Len(old) + 1] = p.ordinal
  <2> HIDE DEF old
  <2> QED
    BY <1>1, <1>2, AppendProperties, LenProperties
<1>4. /\ readIndex' = [readIndex EXCEPT !["sequenced"][s] = p.ordinal + 1]
      /\ handed' = [handed EXCEPT !["sequenced"][s] = new]
  BY <1>1 DEF Sequenced
<1> HIDE DEF new, s
<1>5. /\ readIndex'["sequenced"][s] = p.ordinal + 1
      /\ handed'["sequenced"][s] = new
      /\ \A t \in Streams : t # s => /\ readIndex'["sequenced"][t] = readIndex["sequenced"][t]
                                     /\ handed'["sequenced"][t] = handed["sequenced"][t]
  BY <1>1, <1>4 DEF Shape
<1>6. RangeOf(old) \subseteq RangeOf(new) /\ p.ordinal \in RangeOf(new)
  <2> HIDE DEF old
  <2>1. /\ \A i \in 1 .. Len(old) : i \in 1 .. Len(new) /\ new[i] = old[i]
        /\ Len(old) + 1 \in 1 .. Len(new)
    BY <1>3
  <2> QED
    BY <2>1, <1>3 DEF RangeOf
<1>7. HandedOn(p)'
  <2>1. p.ordinal \in RangeOf(handed'["sequenced"][s])
    BY <1>5, <1>6
  <2> QED
    BY <2>1 DEF HandedOn, RangeOf, s
<1>8. ASSUME NEW q \in sent, q.kind = "sequenced", HandedOn(q) PROVE HandedOn(q)'
  <2>1. q.stream \in Streams /\ q.ordinal \in RangeOf(handed["sequenced"][q.stream])
    BY <1>8 DEF Shape, Packet, HandedOn
  <2>2. q.ordinal \in RangeOf(handed'["sequenced"][q.stream])
    <3>1. CASE q.stream = s
      BY <3>1, <2>1, <1>5, <1>6
    <3>2. CASE q.stream # s
      BY <3>2, <2>1, <1>5
    <3> QED
      BY <3>1, <3>2
  <2> QED
    BY <2>2, <1>8 DEF HandedOn, RangeOf
<1> QED
  BY <1>5, <1>7, <1>8 DEF s

LEMMA OrderedLeaves ==
  ASSUME Shape, NEW p \in sent, p.kind = "ordered", Ordered(p)
  PROVE  /\ readIndex'["sequenced"] = readIndex["sequenced"]
         /\ handed'["sequenced"] = handed["sequenced"]
<1>1. "ordered" \in Indexed /\ "sequenced" \in Indexed /\ "ordered" # "sequenced"
  BY DEF Indexed
<1>2. CASE Index(p) = readIndex["ordered"][p.stream]
  <2>1. PICK n \in 0 .. Modulus : HandOrdered(p, n)
    BY <1>2 DEF Ordered
  <2> QED
    BY <2>1, <1>1 DEF HandOrdered, Shape
<1>3. CASE Index(p) # readIndex["ordered"][p.stream]
  BY <1>3 DEF Ordered
<1> QED
  BY <1>2, <1>3

\* What arrives on a sequenced stream: taken or older than the newest, which was handed on.
LEMMA AcceptNewest ==
  ASSUME Shape, Counted, NoWrap, InTurn, ReadIsHanded, UNCHANGED sent,
         NEW p \in sent, Accept(p)
  PROVE  /\ ReadIsHanded'
         /\ p \in Newest => HandedOn(p)'
         /\ \A q \in Newest : HandedOn(q) => HandedOn(q)'
<1>1. p.kind \in {"ordered", "sequenced", "plain"} /\ p.stream \in Streams /\ p.ordinal \in Nat
  BY DEF Shape, Packet, Kinds
<1>2. \A q \in Newest : q \in sent /\ q.kind = "sequenced"
  BY DEF Newest
<1>3. ASSUME readIndex'["sequenced"] = readIndex["sequenced"],
             handed'["sequenced"] = handed["sequenced"]
      PROVE  ReadIsHanded' /\ \A q \in Newest : HandedOn(q) => HandedOn(q)'
  <2>1. \A q \in sent : q.kind = "sequenced" => (HandedOn(q)' <=> HandedOn(q))
    BY <1>3 DEF HandedOn, RangeOf
  <2>2. ReadIsHanded'
    BY <1>3, <2>1 DEF ReadIsHanded
  <2> QED
    BY <1>2, <2>1, <2>2
<1>4. CASE UNCHANGED <<splits, readIndex, waiting, handed>> /\ p.kind # "sequenced"
  BY <1>2, <1>3, <1>4
<1>5. CASE /\ UNCHANGED <<splits, readIndex, waiting, handed>> /\ p.kind = "sequenced"
           /\ IsOlder(Index(p), readIndex["sequenced"][p.stream])
  <2> DEFINE r == readIndex["sequenced"][p.stream]
             w == writeIndex["sequenced"][p.stream]
  <2>1. /\ r \in Nat /\ w \in Nat /\ Half \in Nat /\ r <= w
        /\ "sequenced" \in Indexed
    BY <1>1, ReliabilityAssumption DEF Shape, InTurn, Indexed, Kinds
  <2>2. Index(p) = p.ordinal /\ p.ordinal < w /\ w <= Half
    BY <1>5, <2>1, IndexIsOrdinal
  <2>3. p.ordinal < Half /\ r <= Half
    <3> HIDE DEF r, w
    <3>1. \A a, b, c, h \in Nat : a < c /\ c <= h /\ b <= c => a < h /\ b <= h
      OBVIOUS
    <3> QED
      BY <3>1, <2>1, <2>2, <1>1, Zenon
  <2>4. p.ordinal < r
    BY <1>1, <1>5, <2>1, <2>2, <2>3, OlderIsLess
  <2>5. ASSUME p \in Newest PROVE HandedOn(p)
    <3>1. PICK q \in sent : /\ q.kind = "sequenced" /\ q.stream = p.stream
                            /\ q.ordinal + 1 = r /\ HandedOn(q)
      BY <1>1, <2>1, <2>4 DEF ReadIsHanded
    <3>2. q.ordinal <= p.ordinal /\ q.ordinal \in Nat
      BY <2>5, <3>1, <1>5 DEF Newest, Shape, Packet
    <3>3. q.ordinal = p.ordinal
      BY <1>1, <2>1, <2>4, <3>1, <3>2
    <3> QED
      BY <3>1, <3>3, <1>5 DEF HandedOn
  <2> QED
    BY <1>2, <1>3, <1>5, <2>5
<1>6. CASE p.kind # "sequenced" /\ UNCHANGED <<readIndex, waiting, handed>>
  BY <1>2, <1>3, <1>6
<1>7. ASSUME p.kind # "sequenced", NEW g \in OrderedSent, Ordered(g)
      PROVE  /\ ReadIsHanded'
             /\ p \in Newest => HandedOn(p)'
             /\ \A q \in Newest : HandedOn(q) => HandedOn(q)'
  <2>1. g \in sent /\ g.kind = "ordered"
    BY DEF OrderedSent
  <2> QED
    BY <1>2, <1>3, <1>7, <2>1, OrderedLeaves
<1>8. CASE p.kind = "sequenced" /\ Sequenced(p)
  <2>1. /\ HandedOn(p)'
        /\ readIndex'["sequenced"][p.stream] = p.ordinal + 1
        /\ \A s \in Streams : s # p.stream =>
             readIndex'["sequenced"][s] = readIndex["sequenced"][s]
        /\ \A q \in sent : q.kind = "sequenced" /\ HandedOn(q) => HandedOn(q)'
    BY <1>8, SequencedHanded
  <2>2. ReadIsHanded'
    <3>1. SUFFICES ASSUME NEW s \in Streams
          PROVE  \/ readIndex'["sequenced"][s] = 0
                 \/ \E q \in sent : /\ q.kind = "sequenced" /\ q.stream = s
                                    /\ q.ordinal + 1 = readIndex'["sequenced"][s]
                                    /\ HandedOn(q)'
      BY DEF ReadIsHanded
    <3>2. CASE s = p.stream
      BY <3>2, <2>1, <1>8
    <3>3. CASE s # p.stream
      BY <3>3, <2>1 DEF ReadIsHanded
    <3> QED
      BY <3>2, <3>3
  <2> QED
    BY <1>2, <2>1, <2>2
<1>9. \A q \in SplitSent : q \in OrderedSent /\ q.kind = "ordered"
  BY DEF SplitSent, OrderedSent
<1>10. CASE p \in SplitSent
  <2>1. p.kind = "ordered"
    BY <1>9, <1>10
  <2>2. ASSUME NEW first, first.of \in SplitSent, Ordered(first.of)
        PROVE  /\ ReadIsHanded'
               /\ p \in Newest => HandedOn(p)'
               /\ \A q \in Newest : HandedOn(q) => HandedOn(q)'
    <3>1. first.of \in OrderedSent
      BY <1>9, <2>2
    <3> QED
      BY <1>7, <2>1, <2>2, <3>1
  <2>3. p \in OrderedSent /\ Split(p)
    BY <1>9, <1>10 DEF SplitSent
  <2> QED
    BY <1>6, <2>1, <2>2, <2>3, AcceptCases
<1>11. CASE p \in OrderedSent /\ ~Split(p) /\ Ordered(p)
  <2>1. p.kind # "sequenced"
    BY <1>11 DEF OrderedSent
  <2> QED
    BY <1>7, <1>11, <2>1
<1> QED
  BY <1>4, <1>5, <1>8, <1>10, <1>11, AcceptCases

LEMMA NewestStep ==
  Shape /\ Counted /\ NoWrap /\ InTurn /\ ReadIsHanded /\ NewestKept /\ [Next]_vars
    => ReadIsHanded' /\ NewestKept'
<1> SUFFICES ASSUME Shape, Counted, NoWrap, InTurn, ReadIsHanded, NewestKept, [Next]_vars
             PROVE  ReadIsHanded' /\ NewestKept'
  OBVIOUS
<1> DEFINE Goal == ReadIsHanded' /\ NewestKept'
<1>0. \A p \in Newest : p \in sent /\ IsReliable(p)
  BY DEF Newest, IsReliable, Indexed
<1>1. ASSUME UNCHANGED <<sent, readIndex, received, handed>>,
             \A p \in Newest : HeldBySender(p) => HeldBySender(p)' \/ p.number \in received
      PROVE  Goal
  <2>1. \A p \in sent : (HandedOn(p) <=> HandedOn(p)') /\ (Shared(p) <=> Shared(p)')
    BY <1>1 DEF HandedOn, Shared, RangeOf
  <2>2. Newest' = Newest
    BY <1>1 DEF Newest
  <2> QED
    BY <1>0, <1>1, <2>1, <2>2 DEF NewestKept, ReadIsHanded
<1>2. CASE UNCHANGED <<sent, sendQueue, resendQueue, readIndex, received, handed>>
  BY <1>1, <1>2 DEF HeldBySender, RangeOf
<1>3. CASE UNCHANGED vars
  BY <1>2, <1>3 DEF vars, sending, flow, receiver
<1>4. ASSUME NEW c \in Callers, NEW t \in Traffic, ReadNumber(c, t) PROVE Goal
  BY <1>2, <1>4 DEF ReadNumber, flow, receiver
<1>5. ASSUME NEW c \in Callers, TakeIndex(c) PROVE Goal
  BY <1>2, <1>5 DEF TakeIndex, flow, receiver
<1>6. ASSUME NEW c \in Callers, Push(c) PROVE Goal
  <2>1. sent \subseteq sent' /\ UNCHANGED <<readIndex, handed>>
    BY <1>6 DEF Push, receiver
  <2>2. ReadIsHanded'
    BY <2>1 DEF ReadIsHanded, HandedOn, RangeOf
  <2> QED
    BY <1>6, <2>2, PushNewest
<1>13. ASSUME NEW c \in Callers, Making(c) PROVE Goal
  BY <1>2, <1>13, MakingFacts DEF flow, receiver
<1>7. CASE Frame
  <2>1. UNCHANGED <<sent, readIndex, received, handed>>
    BY <1>7 DEF Frame, GenerateFrame, receiver
  <2> QED
    BY <1>0, <1>1, <1>7, <2>1, FrameShape
<1>8. CASE GiveUp
  BY <1>2, <1>8 DEF GiveUp, sending, receiver
<1>9. ASSUME NEW d \in ackWire, ReceiveAcks(d) PROVE Goal
  BY <1>2, <1>9 DEF ReceiveAcks, sending, receiver
<1>10. ASSUME NEW grow \in BOOLEAN, HandleAck(grow) PROVE Goal
  <2>1. UNCHANGED <<sent, sendQueue, readIndex, received, handed>>
    BY <1>10 DEF HandleAck, sending, receiver
  <2>2. Head(parsing.left) \in received
    <3> DEFINE left == parsing.left
    <3>1. left \in Seq(received) /\ left # <<>>
      BY <1>10 DEF HandleAck, Shape
    <3> HIDE DEF left
    <3>2. Head(left) \in received
      BY <3>1, HeadTailProperties
    <3> QED
      BY <3>2 DEF left
  <2>3. ASSUME NEW p \in Newest, HeldBySender(p), p.number \notin received
        PROVE  HeldBySender(p)'
    <3>1. CASE p \in RangeOf(sendQueue)
      BY <2>1, <3>1 DEF HeldBySender, RangeOf
    <3>2. CASE p \in RangeOf(resendQueue)
      <4>1. p.number # Head(parsing.left)
        BY <2>2, <2>3
      <4>2. p \in RangeOf(RemovePacket(resendQueue, Head(parsing.left)))
        BY <3>2, <4>1, RemovePacketNewest
      <4>3. p \in RangeOf(resendQueue)'
        BY <4>2, <1>10 DEF HandleAck, RangeOf
      <4> QED
        BY <4>3 DEF HeldBySender
    <3> QED
      BY <2>3, <3>1, <3>2 DEF HeldBySender
  <2> QED
    BY <1>1, <2>1, <2>3
<1>11. ASSUME NEW p \in wire, NEW late \in BOOLEAN, ReceivePacket(p, late)
       PROVE  Goal
  <2>1. /\ p \in sent /\ UNCHANGED <<sent, sendQueue, resendQueue>>
        /\ received \subseteq received' /\ received' \subseteq received \union {p.number}
    BY <1>11 DEF ReceivePacket, sending, flow, Shape
  <2>2. CASE UNCHANGED <<readIndex, received, handed>>
    BY <1>2, <2>1, <2>2
  <2>3. CASE Accept(p)
    <3>1. /\ ReadIsHanded'
          /\ p \in Newest => HandedOn(p)'
          /\ \A q \in Newest : HandedOn(q) => HandedOn(q)'
      BY <2>1, <2>3, AcceptNewest
    <3>2. Newest' = Newest /\ \A q \in sent : Shared(q) <=> Shared(q)'
      BY <2>1 DEF Newest, Shared
    <3>3. \A q \in sent : q.number = p.number => q = p \/ Shared(q)
      BY <2>1 DEF Shared
    <3>4. ASSUME NEW q \in Newest
          PROVE  /\ HeldBySender(q)' \/ q.number \in received'
                 /\ q.number \in received' => HandedOn(q)' \/ Shared(q)'
      <4>1. HeldBySender(q)' \/ q.number \in received'
        BY <2>1 DEF NewestKept, HeldBySender, RangeOf
      <4>2. q \in sent /\ (Shared(q) => Shared(q)')
        BY <1>0, <3>2
      <4>3. q.number \in received => HandedOn(q)' \/ Shared(q)'
        BY <3>1, <4>2 DEF NewestKept
      <4>4. q.number = p.number => HandedOn(q)' \/ Shared(q)'
        BY <3>1, <3>3, <4>2
      <4> QED
        BY <2>1, <4>1, <4>3, <4>4
    <3> QED
      BY <3>1, <3>2, <3>4 DEF NewestKept
  <2>4. Accept(p) \/ UNCHANGED <<readIndex, received, handed>>
    BY <1>11 DEF ReceivePacket
  <2> QED
    BY <2>2, <2>3, <2>4
<1>12. ASSUME NEW n \in 1 .. Len(acks), NEW arrives \in BOOLEAN, SendAcks(n, arrives)
       PROVE  Goal
  BY <1>2, <1>12 DEF SendAcks, sending, flow
<1> QED
  BY <1>3, <1>4, <1>5, <1>6, <1>7, <1>8, <1>9, <1>10, <1>11, <1>12, <1>13
     DEF Next, Making

\* As long as no index of a stream has gone half round, the newest unsafe packet of a
\* stream is held by the sender or was handed on, unless another one has its number: what
\* the sender deletes for a newer one is never the newest.
THEOREM NewestPacketKept == Spec /\ []NoWrap => []NewestHeld
<1>1. Init => ReadIsHanded /\ NewestKept
  BY DEF Init, ReadIsHanded, NewestKept, Newest, Indexed
<1>2. NewestKept => NewestHeld
  BY DEF NewestKept, NewestHeld, Newest
<1> QED
  BY <1>1, <1>2, TurnInit, ShapeInit, ShapeStep, CountedStep, TurnStep, NewestStep, PTL DEF Spec

-----------------------------------------------------------------------------
(* No message is handed on in part *)

Message(m) == {p \in sent : SameMessage(m, p)}
Arrived(m) == \A p \in sent : SameMessage(m, p) => p.number \in received

\* A message is put into the send queue once, as so many parts as it says.
MessagesOnce ==
  /\ \A c \in Callers : Indexing(c) => Message(calls[c]) = {}
  /\ \A c, d \in Callers : c # d /\ Indexing(c) /\ Indexing(d) => ~SameMessage(calls[c], calls[d])
  /\ \A p \in sent : IsFiniteSet(Message(p)) /\ Cardinality(Message(p)) <= p.parts

\* All parts of p's message have come, or it is one of those that are excepted.
Sound(p) == Arrived(p) \/ Mixed(p) \/ Doubled(p)

\* Parts that wait have been counted, twice if there is a second copy, and a message that
\* waits or went on is sound.
WholeSplits == \A x \in splits : /\ x.of.number \in received
                                 /\ x.copy # 0 => x.of.number \in RangeOf(repeats)
WholeWaiting == \A p \in waiting : Sound(p)
WholeHanded == \A k \in Indexed, s \in Streams : \A o \in RangeOf(handed[k][s]) :
                 \E p \in sent : p.kind = k /\ p.stream = s /\ p.ordinal = o /\ Sound(p)
Whole == WholeSplits /\ WholeWaiting /\ WholeHanded

LEMMA MadeFinite ==
  ASSUME NEW m \in Call, MadeSound(m)
  PROVE  /\ IsFiniteSet(RangeOf(m.made)) /\ Cardinality(RangeOf(m.made)) <= m.parts
         /\ \A p \in RangeOf(m.made) : SameMessage(m, p) /\ p.parts = m.parts
<1> DEFINE f == m.made
           T == RangeOf(f)
           l == Len(f)
<1>1. f \in Seq(Packet) /\ l \in Nat /\ l <= m.parts /\ m.parts \in Nat
  BY LenProperties DEF Call, MadeSound
<1>2. f = [i \in 1 .. l |-> f[i]] /\ T = {f[i] : i \in 1 .. l}
  BY <1>1, LenProperties DEF RangeOf
<1> HIDE DEF f, T, l
<1>3. f \in Surjection(1 .. l, T)
  BY <1>2 DEF Surjection
<1>4. IsFiniteSet(1 .. l) /\ Cardinality(1 .. l) = l
  <2>1. IsFiniteSet(1 .. l) /\ Cardinality(1 .. l) = IF 1 > l THEN 0 ELSE l - 1 + 1
    BY <1>1, FS_Interval
  <2> QED
    BY <1>1, <2>1
<1>5. IsFiniteSet(T) /\ Cardinality(T) <= l /\ Cardinality(T) \in Nat
  BY <1>3, <1>4, FS_Surjection, FS_CardinalityType
<1>6. Cardinality(T) <= m.parts
  BY <1>1, <1>5
<1> QED
  BY <1>5, <1>6 DEF MadeSound, T, f

LEMMA MessagesOnceStep == Shape /\ Counted /\ MessagesOnce /\ [Next]_vars => MessagesOnce'
<1> SUFFICES ASSUME Shape, Counted, MessagesOnce, [Next]_vars PROVE MessagesOnce'
  OBVIOUS
<1>1. CASE UNCHANGED <<sent, calls>>
  BY <1>1 DEF MessagesOnce, Message, Indexing
<1>2. CASE UNCHANGED vars
  BY <1>1, <1>2 DEF vars, sending
<1>3. ASSUME NEW c \in Callers, NEW t \in Traffic, ReadNumber(c, t) PROVE MessagesOnce'
  <2>1. /\ sent' = sent /\ ~Indexing(c)'
        /\ \A d \in Callers : d # c => calls'[d] = calls[d]
    BY <1>3 DEF ReadNumber, Shape, Indexing
  <2> QED
    BY <2>1 DEF MessagesOnce, Message, Indexing
<1>4. ASSUME NEW c \in Callers, TakeIndex(c) PROVE MessagesOnce'
  <2> DEFINE k == calls[c].kind
             s == calls[c].stream
  <2>1. calls[c] \in Call /\ k \in Kinds /\ s \in Streams
    BY <1>4, TakeIndexFacts DEF Call
  <2>2. sent' = sent
    BY <1>4 DEF TakeIndex
  <2>3. /\ calls'[c].ordinal = writeIndex[k][s] /\ calls'[c].kind = k /\ calls'[c].stream = s
        /\ \A d \in Callers : d # c => calls'[d] = calls[d]
    BY <1>4, TakeIndexFacts
  <2>4. writeIndex[k][s] \in Nat
    BY <2>1 DEF Shape
  <2>5. Message(calls'[c]) = {}
    <3>1. \A p \in sent : p.kind = k /\ p.stream = s => p.ordinal # writeIndex[k][s]
      <4>1. \A p \in sent : p.ordinal \in Nat /\ p.ordinal < writeIndex[p.kind][p.stream]
        BY DEF Counted, Shape, Packet
      <4> QED
        BY <4>1, <2>4
    <3> HIDE DEF k, s
    <3> QED
      BY <3>1, <2>3 DEF Message, SameMessage
  <2>6. ASSUME NEW d \in Callers, d # c, Indexing(d)
        PROVE  ~SameMessage(calls'[c], calls[d]) /\ ~SameMessage(calls[d], calls'[c])
    <3>1. calls[d].ordinal < writeIndex[calls[d].kind][calls[d].stream] /\ calls[d].ordinal \in Nat
      BY <2>6, CallType DEF Counted, Call
    <3>2. calls[d].kind = k /\ calls[d].stream = s => calls[d].ordinal # writeIndex[k][s]
      BY <3>1, <2>4
    <3> HIDE DEF k, s
    <3> QED
      BY <3>2, <2>3 DEF SameMessage
  <2>7. \A p \in sent' : IsFiniteSet(Message(p)') /\ Cardinality(Message(p)') <= p.parts
    BY <2>2 DEF MessagesOnce, Message
  <2>8. \A d \in Callers : Indexing(d)' => {p \in sent' : SameMessage(calls'[d], p)} = {}
    BY <2>2, <2>3, <2>5 DEF MessagesOnce, Message, Indexing
  <2>9. \A d, e \in Callers :
           d # e /\ Indexing(d)' /\ Indexing(e)' => ~SameMessage(calls'[d], calls'[e])
    BY <2>3, <2>6 DEF MessagesOnce, Indexing
  <2> QED
    BY <2>7, <2>8, <2>9 DEF MessagesOnce, Message, Indexing
<1>5. ASSUME NEW c \in Callers, Push(c) PROVE MessagesOnce'
  <2> DEFINE m   == calls[c]
             new == RangeOf(m.made)
  <2>1. m \in Call /\ Indexing(c) /\ MadeSound(m)
    BY <1>5, PushFacts
  <2>2. /\ IsFiniteSet(new) /\ Cardinality(new) <= m.parts
        /\ \A p \in new : SameMessage(m, p) /\ p.parts = m.parts
    BY <2>1, MadeFinite
  <2>3. sent' = sent \union new
    BY <1>5 DEF Push
  <2>4. Message(m) = {}
    BY <2>1 DEF MessagesOnce
  <2> HIDE DEF new
  <2>5. ~Indexing(c)' /\ \A d \in Callers : d # c => calls'[d] = calls[d]
    BY <1>5, PushFacts
  <2>6. ASSUME NEW d \in Callers, d # c, Indexing(d)
        PROVE  {p \in sent' : SameMessage(calls[d], p)} = {}
    <3>1. \A p \in sent : ~SameMessage(calls[d], p)
      BY <2>6 DEF MessagesOnce, Message
    <3>2. ~SameMessage(calls[d], m)
      BY <2>1, <2>6 DEF MessagesOnce
    <3>3. \A p \in new : ~SameMessage(calls[d], p)
      BY <2>2, <3>2 DEF SameMessage
    <3> QED
      BY <2>3, <3>1, <3>3
  <2>7. ASSUME NEW p \in sent'
        PROVE  LET M == {q \in sent' : SameMessage(p, q)}
               IN  IsFiniteSet(M) /\ Cardinality(M) <= p.parts
    <3>1. CASE p \in sent
      <4>1. ~SameMessage(m, p)
        BY <2>4, <3>1 DEF Message
      <4>2. \A q \in new : ~SameMessage(p, q)
        BY <2>2, <4>1 DEF SameMessage
      <4>3. {q \in sent' : SameMessage(p, q)} = Message(p)
        BY <2>3, <4>2 DEF Message
      <4> QED
        BY <3>1, <4>3 DEF MessagesOnce
    <3>2. CASE p \in new
      <4>1. SameMessage(m, p) /\ p.parts = m.parts
        BY <2>2, <3>2
      <4>2. \A q \in sent : ~SameMessage(p, q)
        BY <2>4, <4>1 DEF Message, SameMessage
      <4>3. \A q \in new : SameMessage(p, q)
        BY <2>2, <4>1 DEF SameMessage
      <4>4. {q \in sent' : SameMessage(p, q)} = new
        BY <2>3, <4>2, <4>3
      <4> QED
        BY <2>2, <4>1, <4>4
    <3> QED
      BY <2>3, <3>1, <3>2
  <2>8. \A d \in Callers : Indexing(d)' => {p \in sent' : SameMessage(calls'[d], p)} = {}
    BY <2>5, <2>6 DEF Indexing
  <2>9. \A d, e \in Callers :
          d # e /\ Indexing(d)' /\ Indexing(e)' => ~SameMessage(calls'[d], calls'[e])
    BY <2>5 DEF MessagesOnce, Indexing
  <2> QED
    BY <2>7, <2>8, <2>9 DEF MessagesOnce, Message, Indexing
<1>12. ASSUME NEW c \in Callers, Making(c) PROVE MessagesOnce'
  <2>1. /\ sent' = sent /\ Indexing(c) /\ SameMessage(calls[c], calls'[c])
        /\ \A d \in Callers : d # c => calls'[d] = calls[d]
    BY <1>12, MakingFacts
  <2>2. \A d \in Callers : Indexing(d)' => /\ Indexing(d)
                                          /\ SameMessage(calls[d], calls'[d])
    BY <2>1 DEF Indexing, SameMessage
  <2>3. ASSUME NEW d \in Callers, Indexing(d)'
        PROVE  {p \in sent' : SameMessage(calls'[d], p)} = {}
    <3>1. Indexing(d) /\ SameMessage(calls[d], calls'[d])
      BY <2>2, <2>3
    <3>2. \A p \in sent : ~SameMessage(calls[d], p)
      BY <3>1 DEF MessagesOnce, Message
    <3> QED
      BY <2>1, <3>1, <3>2 DEF SameMessage
  <2>4. ASSUME NEW d \in Callers, NEW e \in Callers, d # e, Indexing(d)', Indexing(e)'
        PROVE  ~SameMessage(calls'[d], calls'[e])
    <3>1. /\ Indexing(d) /\ SameMessage(calls[d], calls'[d])
          /\ Indexing(e) /\ SameMessage(calls[e], calls'[e])
      BY <2>2, <2>4
    <3>2. ~SameMessage(calls[d], calls[e])
      BY <2>4, <3>1 DEF MessagesOnce
    <3> QED
      BY <3>1, <3>2 DEF SameMessage
  <2>5. \A p \in sent' : IsFiniteSet(Message(p)') /\ Cardinality(Message(p)') <= p.parts
    BY <2>1 DEF MessagesOnce, Message
  <2> QED
    BY <2>3, <2>4, <2>5 DEF MessagesOnce, Message
<1>6. CASE Frame
  BY <1>1, <1>6 DEF Frame, GenerateFrame
<1>7. CASE GiveUp
  BY <1>1, <1>7 DEF GiveUp, sending
<1>8. ASSUME NEW d \in ackWire, ReceiveAcks(d) PROVE MessagesOnce'
  BY <1>1, <1>8 DEF ReceiveAcks, sending
<1>9. ASSUME NEW grow \in BOOLEAN, HandleAck(grow) PROVE MessagesOnce'
  BY <1>1, <1>9 DEF HandleAck, sending
<1>10. ASSUME NEW p \in wire, NEW late \in BOOLEAN, ReceivePacket(p, late)
       PROVE  MessagesOnce'
  BY <1>1, <1>10 DEF ReceivePacket, sending
<1>11. ASSUME NEW n \in 1 .. Len(acks), NEW arrives \in BOOLEAN, SendAcks(n, arrives)
       PROVE  MessagesOnce'
  BY <1>1, <1>11 DEF SendAcks, sending
<1> QED
  BY <1>2, <1>3, <1>4, <1>5, <1>6, <1>7, <1>8, <1>9, <1>10, <1>11, <1>12
     DEF Next, Making

\* Same ids, and each part once: the part that makes a message complete arrives after all
\* its other parts.
LEMMA CompleteSound ==
  ASSUME Shape, MessagesOnce, Whole, UNCHANGED sent, NEW p \in SplitSent,
         received' = received \union {p.number},
         RangeOf(repeats) \subseteq RangeOf(repeats'),
         p.number \in received => p.number \in RangeOf(repeats'),
         NEW first \in Parts(p), Complete(p, first), first.of \in SplitSent, first.of.id = p.id
  PROVE  Sound(first.of)'
<1> DEFINE g == first.of
           P == Parts(p)
           D == {x.of : x \in P}
<1>1. /\ splits \subseteq [of : SplitSent, copy : Nat]
      /\ Copy(p) \in [of : SplitSent, copy : Nat] /\ Copy(p).of = p
      /\ IsFiniteSet(splits \union {Copy(p)})
      /\ SplitSent \subseteq sent /\ \A q \in SplitSent : Split(q)
  BY CopyType DEF Shape, SplitSent, OrderedSent
<1>2. /\ P \subseteq splits \union {Copy(p)}
      /\ \A x \in P : x.of.id = p.id
      /\ Cardinality(P) = g.parts
  BY DEF Parts, Complete
<1>3. SUFFICES ASSUME ~Mixed(g)', ~Doubled(g)' PROVE Arrived(g)'
  BY DEF Sound
<1>4. ~Mixed(g)
  BY <1>3 DEF Mixed
<1>5. \A x \in P : SameMessage(g, x.of) /\ x.of \in sent
  <2>1. SUFFICES ASSUME NEW x \in P PROVE SameMessage(g, x.of) /\ x.of \in sent
    OBVIOUS
  <2>2. x.of \in SplitSent
    BY <1>1, <1>2
  <2>3. SameMessage(g, g) /\ x.of.id = g.id
    BY <1>2 DEF SameMessage
  <2> QED
    BY <1>1, <1>4, <2>2, <2>3 DEF Mixed
<1>6. \A x \in P : x.copy = 0
  <2>1. SUFFICES ASSUME NEW x \in P, x.copy # 0 PROVE FALSE
    OBVIOUS
  <2>2. x.of.number \in RangeOf(repeats')
    <3>1. CASE x \in splits
      BY <2>1, <3>1 DEF Whole, WholeSplits
    <3>2. CASE x = Copy(p)
      <4> DEFINE C == {y \in splits : y.of = p}
      <4>1. C # {}
        <5>1. Cardinality(C) # 0
          BY <2>1, <3>2 DEF Copy
        <5> QED
          BY <5>1, FS_EmptySet
      <4>2. p.number \in received
        BY <4>1 DEF Whole, WholeSplits
      <4> QED
        BY <1>1, <3>2, <4>2
    <3> QED
      BY <1>2, <3>1, <3>2
  <2> QED
    BY <1>3, <1>5, <2>2 DEF Doubled, RangeOf
<1>7. \A x, y \in P : x.of = y.of => x = y
  <2>1. \A x \in P : x \in [of : SplitSent, copy : Nat]
    BY <1>1, <1>2
  <2>2. \A x, y \in [of : SplitSent, copy : Nat] : x.of = y.of /\ x.copy = y.copy => x = y
    OBVIOUS
  <2> QED
    BY <1>6, <2>1, <2>2
<1>8. IsFiniteSet(P)
  BY <1>1, <1>2, FS_Subset
<1>9. Cardinality(D) = Cardinality(P)
  <2> DEFINE f == [x \in P |-> x.of]
  <2> HIDE DEF P
  <2>1. f \in Bijection(P, D)
    <3>1. f \in [P -> D] /\ \A y \in D : \E x \in P : f[x] = y
      OBVIOUS
    <3>2. \A x, y \in P : f[x] = f[y] => x = y
      BY <1>7
    <3> HIDE DEF f, D
    <3> QED
      BY <3>1, <3>2, Fun_IsBij
  <2> HIDE DEF f, D
  <2>2. ExistsBijection(P, D)
    BY <2>1 DEF ExistsBijection
  <2> QED
    BY <1>8, <2>2, FS_Bijection
<1>10. D \subseteq Message(g)
  BY <1>5 DEF Message
<1>11. /\ IsFiniteSet(Message(g)) /\ Cardinality(Message(g)) <= g.parts /\ g.parts \in Nat
  BY <1>1 DEF MessagesOnce, Shape, Packet
<1>12. D = Message(g)
  <2> HIDE DEF D, P, g
  <2>1. /\ Cardinality(D) \in Nat /\ Cardinality(Message(g)) \in Nat
        /\ Cardinality(D) <= Cardinality(Message(g))
        /\ Cardinality(D) = Cardinality(Message(g)) => D = Message(g)
    BY <1>10, <1>11, FS_Subset, FS_CardinalityType
  <2>2. Cardinality(D) = g.parts
    BY <1>2, <1>9
  <2> QED
    BY <1>11, <2>1, <2>2
<1>13. ASSUME NEW q \in sent, SameMessage(g, q) PROVE q.number \in received'
  <2>1. q \in D
    BY <1>12, <1>13 DEF Message
  <2>2. PICK x \in P : x.of = q
    BY <2>1
  <2>3. CASE x \in splits
    BY <2>2, <2>3 DEF Whole, WholeSplits
  <2>4. CASE x = Copy(p)
    BY <1>1, <2>2, <2>4
  <2> QED
    BY <1>2, <2>3, <2>4
<1> QED
  BY <1>13 DEF Arrived

\* A message in one part arrives with its packet.
LEMMA AloneSound ==
  ASSUME Shape, MessagesOnce, UNCHANGED sent, NEW p \in sent, p.parts = 1,
         p.number \in received'
  PROVE  Sound(p)'
<1>1. /\ IsFiniteSet(Message(p)) /\ Cardinality(Message(p)) <= 1
  BY DEF MessagesOnce
<1>2. {p} \subseteq Message(p)
  BY DEF Message, SameMessage
<1>3. IsFiniteSet({p}) /\ Cardinality({p}) = 1
  BY FS_Singleton
<1>4. {p} = Message(p)
  <2>1. /\ Cardinality({p}) <= Cardinality(Message(p))
        /\ Cardinality({p}) = Cardinality(Message(p)) => {p} = Message(p)
        /\ Cardinality(Message(p)) \in Nat
    BY <1>1, <1>2, FS_Subset, FS_CardinalityType
  <2> QED
    BY <1>1, <1>3, <2>1
<1>5. \A q \in sent : SameMessage(p, q) => q = p
  BY <1>4 DEF Message
<1> QED
  BY <1>5 DEF Sound, Arrived

LEMMA AcceptWhole ==
  ASSUME Shape, MessagesOnce, Whole, UNCHANGED sent, NEW p \in sent, Accept(p),
         received' = received \union {p.number},
         RangeOf(repeats) \subseteq RangeOf(repeats'),
         p.number \in received => p.number \in RangeOf(repeats')
  PROVE  Whole'
<1>1. \A q \in sent : Sound(q) => Sound(q)'
  BY DEF Sound, Arrived, Mixed, Doubled, RangeOf
<1>2. \A q \in waiting : q \in sent
  BY DEF Shape, OrderedSent
<1>3. \A x \in splits : /\ x.of.number \in received'
                        /\ x.copy # 0 => x.of.number \in RangeOf(repeats')
  BY DEF Whole, WholeSplits
<1>4. ASSUME UNCHANGED <<waiting, handed>>,
             \A x \in splits' : /\ x.of.number \in received'
                                /\ x.copy # 0 => x.of.number \in RangeOf(repeats')
      PROVE  Whole'
  <2>1. \A q \in waiting' : Sound(q)'
    BY <1>1, <1>2, <1>4 DEF Whole, WholeWaiting
  <2>2. ASSUME NEW k \in Indexed, NEW s \in Streams, NEW o \in RangeOf(handed'[k][s])
        PROVE  \E q \in sent' : /\ q.kind = k /\ q.stream = s /\ q.ordinal = o
                                /\ Sound(q)'
    <3>1. PICK q \in sent : q.kind = k /\ q.stream = s /\ q.ordinal = o /\ Sound(q)
      BY <1>4, <2>2 DEF Whole, WholeHanded
    <3> QED
      BY <1>1, <3>1
  <2> QED
    <3>1. WholeSplits' /\ WholeWaiting'
      BY <1>4, <2>1 DEF WholeSplits, WholeWaiting
    <3>2. WholeHanded'
      BY <2>2 DEF WholeHanded
    <3> QED
      BY <3>1, <3>2 DEF Whole
<1>5. ASSUME NEW g \in sent, Sound(g)', splits' \subseteq splits,
             waiting' \subseteq waiting \union {g}, HandedFrom(g)
      PROVE  Whole'
  <2>1. /\ \A x \in splits' : /\ x.of.number \in received'
                              /\ x.copy # 0 => x.of.number \in RangeOf(repeats')
        /\ \A q \in waiting' : Sound(q)'
    BY <1>1, <1>2, <1>3, <1>5 DEF Whole, WholeWaiting
  <2>2. ASSUME NEW k \in Indexed, NEW s \in Streams, NEW o \in RangeOf(handed'[k][s])
        PROVE  \E q \in sent' : /\ q.kind = k /\ q.stream = s /\ q.ordinal = o
                                /\ Sound(q)'
    <3>1. CASE o \in RangeOf(handed[k][s])
      <4>1. PICK q \in sent : q.kind = k /\ q.stream = s /\ q.ordinal = o /\ Sound(q)
        BY <3>1 DEF Whole, WholeHanded
      <4> QED
        BY <1>1, <4>1
    <3>2. CASE k = g.kind /\ s = g.stream /\ o = g.ordinal
      BY <1>5, <3>2
    <3>3. CASE k = "ordered" /\ \E q \in waiting : q.stream = s /\ q.ordinal = o
      <4>1. PICK q \in waiting : q.stream = s /\ q.ordinal = o
        BY <3>3
      <4>2. q \in sent /\ q.kind = k /\ Sound(q)
        BY <3>3 DEF Shape, OrderedSent, Whole, WholeWaiting
      <4> QED
        BY <1>1, <4>1, <4>2
    <3>4. \/ o \in RangeOf(handed[k][s])
          \/ k = g.kind /\ s = g.stream /\ o = g.ordinal
          \/ k = "ordered" /\ \E q \in waiting : q.stream = s /\ q.ordinal = o
      BY <1>5 DEF HandedFrom
    <3> QED
      BY <3>1, <3>2, <3>3, <3>4
  <2> QED
    <3>1. WholeSplits' /\ WholeWaiting'
      BY <2>1 DEF WholeSplits, WholeWaiting
    <3>2. WholeHanded'
      BY <2>2 DEF WholeHanded
    <3> QED
      BY <3>1, <3>2 DEF Whole
<1>6. CASE UNCHANGED <<splits, readIndex, waiting, handed>>
  BY <1>3, <1>4, <1>6
<1>7. CASE p.kind = "sequenced" /\ Sequenced(p) /\ UNCHANGED splits
  <2>1. Sound(p)'
    BY <1>7, AloneSound DEF Shape
  <2> QED
    BY <1>5, <1>7, <2>1, SequencedFacts
<1>8. CASE p \in OrderedSent /\ ~Split(p) /\ Ordered(p) /\ UNCHANGED splits
  <2>1. p.parts = 1
    <3>1. p.parts \in Nat \ {0}
      BY DEF Shape, Packet
    <3> QED
      BY <1>8, <3>1 DEF Split
  <2>2. Sound(p)'
    BY <2>1, AloneSound
  <2> QED
    BY <1>5, <1>8, <2>2, OrderedFacts
<1>9. CASE /\ p \in SplitSent /\ splits' = splits \union {Copy(p)}
           /\ UNCHANGED <<readIndex, waiting, handed>>
  <2>1. Copy(p).of = p
    BY <1>9, CopyType
  <2>2. Copy(p).copy # 0 => p.number \in RangeOf(repeats')
    <3> DEFINE C == {y \in splits : y.of = p}
    <3>1. SUFFICES ASSUME Cardinality(C) # 0 PROVE p.number \in RangeOf(repeats')
      BY DEF Copy
    <3>2. C # {}
      BY <3>1, FS_EmptySet
    <3> QED
      BY <3>2 DEF Whole, WholeSplits
  <2> QED
    BY <1>3, <1>4, <1>9, <2>1, <2>2
<1>10. ASSUME p \in SplitSent, splits' = splits \ Parts(p), NEW first \in Parts(p),
              Complete(p, first), first.of \in SplitSent, first.of.id = p.id, Ordered(first.of)
       PROVE  Whole'
  <2> DEFINE g == first.of
  <2>1. Sound(g)'
    BY <1>10, CompleteSound
  <2>2. g \in OrderedSent /\ g \in sent /\ Ordered(g) /\ splits' \subseteq splits
    BY <1>10 DEF SplitSent, OrderedSent
  <2> HIDE DEF g
  <2>3. waiting' \subseteq waiting \union {g} /\ HandedFrom(g)
    BY <2>2, OrderedFacts
  <2> QED
    BY <1>5, <2>1, <2>2, <2>3
<1> QED
  BY <1>6, <1>7, <1>8, <1>9, <1>10, AcceptCases

LEMMA PushWhole == ASSUME Shape, MessagesOnce, Whole, NEW c \in Callers, Push(c) PROVE Whole'
<1> DEFINE m   == calls[c]
           new == RangeOf(m.made)
<1>1. /\ Indexing(c) /\ \A p \in new : SameMessage(m, p)
      /\ sent' = sent \union new
      /\ UNCHANGED <<received, repeats, splits, waiting, handed>>
  BY PushFacts
<1>2. \A p \in sent : ~SameMessage(m, p)
  BY <1>1 DEF MessagesOnce, Message
<1> HIDE DEF new
<1>3. ASSUME NEW p \in sent, Sound(p) PROVE Sound(p)'
  <2>1. \A q \in new : ~SameMessage(p, q)
    BY <1>1, <1>2 DEF SameMessage
  <2>2. Arrived(p) => Arrived(p)'
    BY <1>1, <2>1 DEF Arrived
  <2>3. (Mixed(p) => Mixed(p)') /\ (Doubled(p) => Doubled(p)')
    BY <1>1 DEF Mixed, Doubled, RangeOf
  <2> QED
    BY <1>3, <2>2, <2>3 DEF Sound
<1>4. \A p \in waiting : p \in sent
  BY DEF Shape, OrderedSent
<1>5. ASSUME NEW k \in Indexed, NEW s \in Streams, NEW o \in RangeOf(handed'[k][s])
      PROVE  \E q \in sent' : /\ q.kind = k /\ q.stream = s /\ q.ordinal = o
                              /\ Sound(q)'
  <2>1. PICK q \in sent : q.kind = k /\ q.stream = s /\ q.ordinal = o /\ Sound(q)
    BY <1>1, <1>5 DEF Whole, WholeHanded
  <2> QED
    BY <1>1, <1>3, <2>1
<1> QED
  <2>1. WholeSplits'
    BY <1>1 DEF Whole, WholeSplits, RangeOf
  <2>2. WholeWaiting'
    BY <1>1, <1>3, <1>4 DEF Whole, WholeWaiting
  <2>3. WholeHanded'
    BY <1>5 DEF WholeHanded
  <2> QED
    BY <2>1, <2>2, <2>3 DEF Whole

LEMMA WholeStep == Shape /\ MessagesOnce /\ Whole /\ [Next]_vars => Whole'
<1> SUFFICES ASSUME Shape, MessagesOnce, Whole, [Next]_vars PROVE Whole'
  OBVIOUS
<1>1. CASE UNCHANGED <<sent, received, repeats, splits, waiting, handed>>
  <2>1. \A p : Sound(p) => Sound(p)'
    BY <1>1 DEF Sound, Arrived, Mixed, Doubled, RangeOf
  <2> QED
    <3>1. WholeSplits' /\ WholeWaiting'
      BY <1>1, <2>1 DEF Whole, WholeSplits, WholeWaiting, RangeOf
    <3>2. ASSUME NEW k \in Indexed, NEW s \in Streams, NEW o \in RangeOf(handed'[k][s])
          PROVE  \E q \in sent' : /\ q.kind = k /\ q.stream = s /\ q.ordinal = o
                                  /\ Sound(q)'
      <4>1. PICK q \in sent : q.kind = k /\ q.stream = s /\ q.ordinal = o /\ Sound(q)
        BY <1>1, <3>2 DEF Whole, WholeHanded
      <4> QED
        BY <1>1, <2>1, <4>1
    <3>3. WholeHanded'
      BY <3>2 DEF WholeHanded
    <3> QED
      BY <3>1, <3>3 DEF Whole
<1>2. CASE UNCHANGED vars
  BY <1>1, <1>2 DEF vars, sending, receiver
<1>3. ASSUME NEW c \in Callers, NEW t \in Traffic, ReadNumber(c, t) PROVE Whole'
  BY <1>1, <1>3 DEF ReadNumber, receiver
<1>4. ASSUME NEW c \in Callers, TakeIndex(c) PROVE Whole'
  BY <1>1, <1>4 DEF TakeIndex, receiver
<1>5. ASSUME NEW c \in Callers, Push(c) PROVE Whole'
  BY <1>5, PushWhole
<1>6. ASSUME NEW c \in Callers, Making(c) PROVE Whole'
  BY <1>1, <1>6, MakingFacts DEF receiver
<1>7. CASE Frame
  BY <1>1, <1>7 DEF Frame, GenerateFrame, receiver
<1>8. CASE GiveUp
  BY <1>1, <1>8 DEF GiveUp, sending, receiver
<1>9. ASSUME NEW d \in ackWire, ReceiveAcks(d) PROVE Whole'
  BY <1>1, <1>9 DEF ReceiveAcks, sending, receiver
<1>10. ASSUME NEW grow \in BOOLEAN, HandleAck(grow) PROVE Whole'
  BY <1>1, <1>10 DEF HandleAck, sending, receiver
<1>11. ASSUME NEW p \in wire, NEW late \in BOOLEAN, ReceivePacket(p, late) PROVE Whole'
  <2>1. p \in sent /\ sent' = sent
    BY <1>11 DEF ReceivePacket, sending, Shape
  <2>2. CASE p.number \in received /\ ~late
    BY <1>1, <1>11, <2>1, <2>2 DEF ReceivePacket
  <2>3. CASE ~(p.number \in received /\ ~late)
    <3>1. Accept(p) /\ received' = received \union {p.number}
      BY <1>11, <2>3 DEF ReceivePacket
    <3>2. /\ RangeOf(repeats) \subseteq RangeOf(repeats')
          /\ late => p.number \in RangeOf(repeats')
      <4>1. CASE late
        <5>1. p.number \in received /\ repeats' = Append(repeats, p.number)
          BY <1>11, <4>1 DEF ReceivePacket
        <5>2. repeats \in Seq(received)
          BY DEF Shape
        <5>3. RangeOf(Append(repeats, p.number)) = RangeOf(repeats) \union {p.number}
          BY <5>1, <5>2, RangeAppend
        <5> QED
          BY <5>1, <5>3 DEF RangeOf
      <4>2. CASE ~late
        BY <1>11, <2>3, <4>2 DEF ReceivePacket, RangeOf
      <4> QED
        BY <4>1, <4>2
    <3>3. p.number \in received => p.number \in RangeOf(repeats')
      BY <2>3, <3>2
    <3> QED
      BY <2>1, <3>1, <3>2, <3>3, AcceptWhole
  <2> QED
    BY <2>2, <2>3
<1>12. ASSUME NEW n \in 1 .. Len(acks), NEW arrives \in BOOLEAN, SendAcks(n, arrives)
       PROVE  Whole'
  BY <1>1, <1>12 DEF SendAcks, sending
<1> QED
  BY <1>2, <1>3, <1>4, <1>5, <1>6, <1>7, <1>8, <1>9, <1>10, <1>11, <1>12 DEF Next, Making

\* However parts arrive and whichever calls share a number, a message is handed on only
\* when each of its parts was received, unless the ids of its parts and another one's were
\* mixed up or one of them came again later than a duplicate is known.
THEOREM NoPartialMessage == Spec => []WholeMessages
<1>1. Init => MessagesOnce /\ Whole
  BY DEF Init, MessagesOnce, Whole, WholeSplits, WholeWaiting, WholeHanded, Indexing, Idle,
     Indexed, RangeOf
<1>2. Shape /\ Whole => WholeMessages
  <2> SUFFICES ASSUME Shape, Whole, NEW p \in sent, p.kind \in Indexed, HandedOn(p)
               PROVE  p.number \in received \/ Mixed(p) \/ Doubled(p)
    BY DEF WholeMessages
  <2>1. p.stream \in Streams /\ p.ordinal \in RangeOf(handed[p.kind][p.stream])
    BY DEF Shape, Packet, HandedOn
  <2>2. PICK q \in sent : /\ q.kind = p.kind /\ q.stream = p.stream /\ q.ordinal = p.ordinal
                          /\ Sound(q)
    BY <2>1 DEF Whole, WholeHanded
  <2>3. SameMessage(q, p) /\ \A r : SameMessage(q, r) => SameMessage(p, r)
    BY <2>2 DEF SameMessage
  <2>4. (Mixed(q) => Mixed(p)) /\ (Doubled(q) => Doubled(p))
    BY <2>3 DEF Mixed, Doubled
  <2> QED
    BY <2>2, <2>3, <2>4 DEF Sound, Arrived
<1> QED
  BY <1>1, <1>2, TurnInit, ShapeInit, ShapeStep, CountedStep, MessagesOnceStep, WholeStep, PTL
     DEF Spec
=============================================================================
