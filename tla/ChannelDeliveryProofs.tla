------------------------ MODULE ChannelDeliveryProofs ------------------------
(***************************************************************************)
(* Proofs that the channel protocol hands every payload on once, loses no  *)
(* payload that was sent safely, reorders none but by way of todo, and     *)
(* always has asked for what waits in todo: for any set of clients and any *)
(* finite set of channels.                                                 *)
(***************************************************************************)
EXTENDS ChannelProtocolProofs

Links == [Streams -> Seq(Packet)]
Todos == [Nums -> Seq(Payload)]

\* A link with a packet more on a stream, and one with k packets fewer.
PutOn(l, s, m)     == [l EXCEPT ![s] = Append(@, m)]
TakenFrom(l, s, k) == [l EXCEPT ![s] = Rest(@, k)]

\* What waits with a payload more, and once all that waited for a number is
\* handed on.
Waits(q, n, b) == [q EXCEPT ![n] = Append(@, b)]
Emptied(q, n) == [q EXCEPT ![n] = <<>>]

\* A history that goes on with more entries.
More(h, new) == h \o new

\* The entries of a history for payloads handed on together.
EntriesOf(new, p, late) ==
  /\ new \in Seq(Handed) /\ DOMAIN new = DOMAIN p
  /\ \A k \in DOMAIN new : new[k].body = p[k] /\ new[k].late = late

\* No other number has payloads of the channel that waits for n.
IdsApart(q, n) == \A m \in Nums : \A i \in DOMAIN q[m], j \in DOMAIN q[n] :
  q[m][i].id = q[n][j].id => m = n

\* What was handed on or waited, and a payload, still do so.
Carried(q, h, q2, h2) ==
  /\ \A x \in DOMAIN h : \E y \in DOMAIN h2 : h2[y].body = h[x].body
  /\ \A n \in Nums : \A x \in DOMAIN q[n] :
       \/ \E y \in DOMAIN q2[n] : q2[n][y] = q[n][x]
       \/ \E y \in DOMAIN h2 : h2[y].body = q[n][x]
Landed(b, q2, h2) ==
  \/ \E n \in Nums : \E y \in DOMAIN q2[n] : q2[n][y] = b
  \/ \E y \in DOMAIN h2 : h2[y].body = b

-----------------------------------------------------------------------------
(* What is on a link *)

LEMMA NotEmpty == ASSUME NEW p, Len(p) = 1 PROVE p # <<>>
<1>1. ASSUME p = <<>> PROVE Len(p) = 0
  BY <1>1
<1> QED
  BY <1>1

LEMMA LoadType ==
  ASSUME NEW l \in Links, NEW s \in Streams
  PROVE  /\ DOMAIN l[s] = 1 .. Len(l[s]) /\ Len(l[s]) \in Nat
         /\ \A i \in DOMAIN l[s] : l[s][i] \in Packet /\ l[s][i].body \in Seq(Payload)
         /\ \A i \in Loaded(l[s]) : /\ i \in DOMAIN l[s] /\ i \in Nat
                                    /\ Load(l[s], i) \in Payload /\ Load(l[s], i).uid \in Nat
<1>1. l[s] \in Seq(Packet)
  BY DEF Links
<1>2. DOMAIN l[s] = 1 .. Len(l[s]) /\ Len(l[s]) \in Nat
  BY <1>1, LenProperties
<1>3. \A i \in DOMAIN l[s] : l[s][i] \in Packet
  BY <1>1, <1>2, ElementOfSeq
<1>4. \A i \in DOMAIN l[s] : l[s][i].body \in Seq(Payload)
  BY <1>3 DEF Packet
<1>5. ASSUME NEW i \in Loaded(l[s])
      PROVE  Load(l[s], i) \in Payload
  <2>1. l[s][i].body \in Seq(Payload) /\ l[s][i].body # <<>>
    BY <1>4, <1>5 DEF Loaded
  <2>2. 1 \in 1 .. Len(l[s][i].body)
    BY <2>1, EmptySeq, LenProperties
  <2> QED
    BY <2>1, <2>2, ElementOfSeq DEF Load
<1>6. \A i \in Loaded(l[s]) : i \in DOMAIN l[s] /\ i \in Nat
  BY <1>2 DEF Loaded
<1>7. \A p \in Payload : p.uid \in Nat
  BY DEF Payload
<1> QED
  BY <1>2, <1>3, <1>4, <1>5, <1>6, <1>7

\* A link that carries some of the packets of another one, in their order.
Thins(l2, l) == \A t \in Streams :
  /\ \A i \in DOMAIN l2[t] : \E x \in DOMAIN l[t] : l2[t][i] = l[t][x]
  /\ \A i, j \in DOMAIN l2[t] : i < j =>
       \E x, y \in DOMAIN l[t] : x < y /\ l2[t][i] = l[t][x] /\ l2[t][j] = l[t][y]

\* The loads of a link that thins another one are loads of it.
LEMMA ThinsLoads ==
  ASSUME NEW l2, NEW l, Thins(l2, l), NEW t \in Streams
  PROVE  /\ \A i \in Loaded(l2[t]) : \E x \in Loaded(l[t]) : Load(l2[t], i) = Load(l[t], x)
         /\ \A i, j \in Loaded(l2[t]) : i < j =>
              \E x, y \in Loaded(l[t]) :
                x < y /\ Load(l2[t], i) = Load(l[t], x) /\ Load(l2[t], j) = Load(l[t], y)
BY DEF Thins, Loaded, Load

\* What holds of a link holds of one that carries less.
LEMMA ThinsKeeps ==
  ASSUME NEW l2, NEW l, Thins(l2, l), NEW q, NEW h, NEW last
  PROVE  /\ LinkShape(l, last) => LinkShape(l2, last)
         /\ LinkOrder(l) => LinkOrder(l2)
         /\ LinkAfterHanded(l, h) => LinkAfterHanded(l2, h)
         /\ LinkAfterTodo(l, q) => LinkAfterTodo(l2, q)
<1>1. LinkShape(l, last) => LinkShape(l2, last)
  BY DEF LinkShape, Thins, Load
<1>2. ASSUME LinkOrder(l)
      PROVE  LinkOrder(l2)
  <2>1. ASSUME NEW s \in Streams, NEW i \in Loaded(l2[s]), NEW j \in Loaded(l2[s]), i < j
        PROVE  Load(l2[s], i).uid < Load(l2[s], j).uid
    <3>1. PICK x \in Loaded(l[s]), y \in Loaded(l[s]) :
            x < y /\ Load(l2[s], i) = Load(l[s], x) /\ Load(l2[s], j) = Load(l[s], y)
      BY <2>1, ThinsLoads
    <3> QED
      BY <1>2, <3>1 DEF LinkOrder
  <2>2. ASSUME NEW s \in Streams, NEW t \in Streams,
               NEW i \in Loaded(l2[s]), NEW j \in Loaded(l2[t]),
               Load(l2[s], i).uid = Load(l2[t], j).uid
        PROVE  s = t
    <3>1. PICK x \in Loaded(l[s]) : Load(l2[s], i) = Load(l[s], x)
      BY ThinsLoads
    <3>2. PICK y \in Loaded(l[t]) : Load(l2[t], j) = Load(l[t], y)
      BY ThinsLoads
    <3> QED
      BY <1>2, <2>2, <3>1, <3>2 DEF LinkOrder
  <2> QED
    BY <2>1, <2>2 DEF LinkOrder
<1>3. LinkAfterHanded(l, h) => LinkAfterHanded(l2, h)
  BY ThinsLoads DEF LinkAfterHanded
<1>4. LinkAfterTodo(l, q) => LinkAfterTodo(l2, q)
  BY ThinsLoads DEF LinkAfterTodo
<1> QED
  BY <1>1, <1>2, <1>3, <1>4

\* Taking a packet from a stream leaves those behind it.
LEMMA TakeProperties ==
  ASSUME NEW l \in Links, NEW s \in Streams, NEW k \in 1 .. Len(l[s]),
         NEW l2, l2 = TakenFrom(l, s, k)
  PROVE  /\ l2 \in Links
         /\ \A t \in Streams \ {s} : l2[t] = l[t]
         /\ DOMAIN l2[s] = 1 .. Len(l[s]) - k
         /\ \A i \in DOMAIN l2[s] : i + k \in DOMAIN l[s] /\ l2[s][i] = l[s][i + k]
         /\ \A i \in DOMAIN l[s] : i > k => i - k \in DOMAIN l2[s] /\ l2[s][i - k] = l[s][i]
         /\ Thins(l2, l)
<1>1. l[s] \in Seq(Packet) /\ DOMAIN l[s] = 1 .. Len(l[s]) /\ Len(l[s]) \in Nat /\ k \in Nat
  BY LenProperties DEF Links
<1>2. \A j \in k + 1 .. Len(l[s]) : l[s][j] \in Packet
  BY <1>1, ElementOfSeq
<1>3. /\ Rest(l[s], k) \in Seq(Packet)
      /\ Len(Rest(l[s], k)) = Len(l[s]) - k
      /\ \A i \in 1 .. Len(l[s]) - k : Rest(l[s], k)[i] = l[s][i + k]
  <2>1. SubSeq(l[s], k + 1, Len(l[s])) \in Seq(Packet)
    BY <1>1, <1>2, SubSeqProperties
  <2>2. Len(SubSeq(l[s], k + 1, Len(l[s]))) = Len(l[s]) - k
    BY <1>1, <1>2, SubSeqProperties
  <2>3. \A i \in 1 .. Len(l[s]) - k : SubSeq(l[s], k + 1, Len(l[s]))[i] = l[s][i + k]
    BY <1>1, <1>2, SubSeqProperties
  <2> QED
    BY <2>1, <2>2, <2>3 DEF Rest
<1>4. /\ l2 \in Links
      /\ l2[s] = Rest(l[s], k)
      /\ \A t \in Streams \ {s} : l2[t] = l[t]
  <2>1. l2 = [l EXCEPT ![s] = Rest(l[s], k)]
    BY DEF TakenFrom
  <2> QED
    BY <1>3, <2>1 DEF Links
<1>5. DOMAIN l2[s] = 1 .. Len(l[s]) - k
  BY <1>3, <1>4, LenProperties
<1>6. \A i \in DOMAIN l2[s] : i \in Nat /\ i + k \in DOMAIN l[s] /\ l2[s][i] = l[s][i + k]
  <2> SUFFICES ASSUME NEW i \in DOMAIN l2[s]
               PROVE  i \in Nat /\ i + k \in DOMAIN l[s] /\ l2[s][i] = l[s][i + k]
    OBVIOUS
  <2>1. i \in 1 .. Len(l[s]) - k
    BY <1>5
  <2>2. i \in Nat /\ i + k \in 1 .. Len(l[s])
    BY <1>1, <2>1
  <2> QED
    BY <1>1, <1>3, <1>4, <2>1, <2>2
<1>7. \A i \in DOMAIN l[s] : i > k => i - k \in DOMAIN l2[s] /\ l2[s][i - k] = l[s][i]
  <2> SUFFICES ASSUME NEW i \in DOMAIN l[s], i > k
               PROVE  i - k \in DOMAIN l2[s] /\ l2[s][i - k] = l[s][i]
    OBVIOUS
  <2>1. i - k \in 1 .. Len(l[s]) - k /\ (i - k) + k = i
    BY <1>1
  <2> QED
    BY <2>1, <1>3, <1>4, <1>5
<1>8. Thins(l2, l)
  <2> SUFFICES ASSUME NEW t \in Streams
               PROVE  /\ \A i \in DOMAIN l2[t] : \E x \in DOMAIN l[t] : l2[t][i] = l[t][x]
                      /\ \A i, j \in DOMAIN l2[t] : i < j =>
                           \E x, y \in DOMAIN l[t] : x < y /\ l2[t][i] = l[t][x] /\ l2[t][j] = l[t][y]
    BY DEF Thins
  <2>1. CASE t = s
    <3>1. ASSUME NEW i \in DOMAIN l2[s], NEW j \in DOMAIN l2[s], i < j
          PROVE  i + k < j + k
      BY <1>1, <1>6, <3>1
    <3> QED
      BY <2>1, <1>6, <3>1
  <2>2. CASE t # s
    BY <2>2, <1>4
  <2> QED
    BY <2>1, <2>2
<1> QED
  BY <1>4, <1>5, <1>6, <1>7, <1>8

\* A packet put on a stream comes after all the others.
LEMMA PutProperties ==
  ASSUME NEW l \in Links, NEW s \in Streams, NEW m \in Packet,
         NEW l2, l2 = PutOn(l, s, m)
  PROVE  /\ l2 \in Links
         /\ \A t \in Streams : \A i \in DOMAIN l[t] : i \in DOMAIN l2[t] /\ l2[t][i] = l[t][i]
         /\ Len(l[s]) + 1 \in DOMAIN l2[s] /\ l2[s][Len(l[s]) + 1] = m
         /\ \A t \in Streams : \A i \in DOMAIN l2[t] :
              \/ i \in DOMAIN l[t]
              \/ t = s /\ i = Len(l[s]) + 1
<1>1. l[s] \in Seq(Packet) /\ DOMAIN l[s] = 1 .. Len(l[s]) /\ Len(l[s]) \in Nat
  BY LenProperties DEF Links
<1>2. /\ Append(l[s], m) \in Seq(Packet)
      /\ DOMAIN Append(l[s], m) = 1 .. Len(l[s]) + 1
      /\ \A i \in 1 .. Len(l[s]) : Append(l[s], m)[i] = l[s][i]
      /\ Append(l[s], m)[Len(l[s]) + 1] = m
  BY <1>1, AppendProperties, LenProperties
<1>3. /\ l2 \in Links
      /\ l2[s] = Append(l[s], m)
      /\ \A t \in Streams \ {s} : l2[t] = l[t]
  BY <1>2 DEF Links, PutOn
<1>4. \A i \in DOMAIN l2[s] : i \in DOMAIN l[s] \/ i = Len(l[s]) + 1
  BY <1>1, <1>2, <1>3
<1>5. \A i \in DOMAIN l[s] : i \in DOMAIN l2[s] /\ l2[s][i] = l[s][i]
  BY <1>1, <1>2, <1>3
<1>6. Len(l[s]) + 1 \in DOMAIN l2[s] /\ l2[s][Len(l[s]) + 1] = m
  BY <1>1, <1>2, <1>3
<1> QED
  BY <1>3, <1>4, <1>5, <1>6

-----------------------------------------------------------------------------
(* The parts of the invariant that a client keeps in every mode, and those  *)
(* of a client that has joined                                              *)

LinkPart(l, h, last) ==
  LinkShape(l, last) /\ LinkOrder(l) /\ HandedOrder(h, last) /\ LinkAfterHanded(l, h)

TodoPart(l, q, h, last) ==
  TodoOrder(q, last) /\ LinkAfterTodo(l, q) /\ TodoAfterHanded(q, h)

LEMMA HandedType ==
  ASSUME NEW h \in Seq(Handed)
  PROVE  /\ DOMAIN h = 1 .. Len(h) /\ Len(h) \in Nat
         /\ \A k \in DOMAIN h : k \in Nat /\ h[k].body \in Payload /\ h[k].body.uid \in Nat
<1>1. DOMAIN h = 1 .. Len(h) /\ Len(h) \in Nat
  BY LenProperties
<1>2. \A k \in DOMAIN h : h[k] \in Handed
  BY <1>1, ElementOfSeq
<1> QED
  BY <1>1, <1>2 DEF Handed, Payload

LEMMA TodoType ==
  ASSUME NEW q \in Todos, NEW n \in Nums
  PROVE  /\ q[n] \in Seq(Payload) /\ DOMAIN q[n] = 1 .. Len(q[n]) /\ Len(q[n]) \in Nat
         /\ \A k \in DOMAIN q[n] : k \in Nat /\ q[n][k] \in Payload /\ q[n][k].uid \in Nat
<1>1. q[n] \in Seq(Payload)
  BY DEF Todos
<1>2. DOMAIN q[n] = 1 .. Len(q[n]) /\ Len(q[n]) \in Nat
  BY <1>1, LenProperties
<1>3. \A k \in DOMAIN q[n] : q[n][k] \in Payload
  BY <1>1, <1>2, ElementOfSeq
<1> QED
  BY <1>1, <1>2, <1>3 DEF Payload

\* A payload put on other links leaves this one as it was.
LEMMA LastGrows ==
  ASSUME NEW l \in Links, NEW q \in Todos, NEW h \in Seq(Handed),
         NEW last \in Nat, NEW last2 \in Nat, last <= last2
  PROVE  /\ LinkPart(l, h, last) => LinkPart(l, h, last2)
         /\ TodoPart(l, q, h, last) => TodoPart(l, q, h, last2)
<1>1. \A u \in Nat : u <= last => u <= last2
  OBVIOUS
<1>2. ASSUME LinkShape(l, last)
      PROVE  LinkShape(l, last2)
  <2> SUFFICES ASSUME NEW s \in Streams, NEW i \in DOMAIN l[s], l[s][i].type # "idNum"
               PROVE  Load(l[s], i).uid <= last2
    BY <1>2 DEF LinkShape
  <2>1. Len(l[s][i].body) = 1 /\ Load(l[s], i).uid <= last
    BY <1>2 DEF LinkShape
  <2>2. i \in Loaded(l[s])
    <3>1. l[s][i].body # <<>>
      BY <2>1, NotEmpty
    <3> QED
      BY <3>1 DEF Loaded
  <2> QED
    BY <1>1, <2>1, <2>2, LoadType
<1>3. HandedOrder(h, last) => HandedOrder(h, last2)
  BY <1>1, HandedType DEF HandedOrder
<1>4. TodoOrder(q, last) => TodoOrder(q, last2)
  BY <1>1, TodoType DEF TodoOrder
<1> QED
  BY <1>2, <1>3, <1>4 DEF LinkPart, TodoPart

\* Every payload on a link was numbered by now.
LEMMA LoadsNumbered ==
  ASSUME NEW l \in Links, NEW last, LinkShape(l, last), NEW t \in Streams, NEW i \in Loaded(l[t])
  PROVE  Load(l[t], i).uid \in Nat /\ Load(l[t], i).uid <= last
<1>1. i \in DOMAIN l[t] /\ l[t][i].body # <<>>
  BY DEF Loaded
<1>2. Load(l[t], i).uid <= last
  BY <1>1 DEF LinkShape
<1> QED
  BY <1>2, LoadType

\* The loads of l2 are those of l, and at most one more: b, behind the others
\* of stream s.
Adds(l2, l, s, k, b) ==
  /\ \A j \in Loaded(l[s]) : j < k
  /\ \A t \in Streams : \A i \in Loaded(l2[t]) :
       \/ i \in Loaded(l[t]) /\ Load(l2[t], i) = Load(l[t], i)
       \/ t = s /\ i = k /\ Load(l2[t], i) = b

\* A payload newer than all others keeps streams in order.
LEMMA AddsKeepsOrder ==
  ASSUME NEW l \in Links, NEW l2 \in Links, NEW s \in Streams, NEW k \in Nat, NEW b,
         Adds(l2, l, s, k, b), LinkOrder(l), b.uid \in Nat,
         \A t \in Streams : \A i \in Loaded(l[t]) : Load(l[t], i).uid < b.uid
  PROVE  LinkOrder(l2)
<1>1. \A t \in Streams : \A i \in Loaded(l[t]) : Load(l[t], i).uid \in Nat /\ i \in Nat
  BY LoadType
<1>2. ASSUME NEW t \in Streams, NEW i \in Loaded(l2[t]), NEW j \in Loaded(l2[t]), i < j
      PROVE  Load(l2[t], i).uid < Load(l2[t], j).uid
  <2>1. i \in Nat /\ j \in Nat
    BY LoadType
  <2>2. CASE t = s /\ i = k
    <3>1. ~(j < i) /\ i # j
      BY <1>2, <2>1
    <3>2. j = k \/ j < k
      BY <2>2 DEF Adds
    <3> QED
      BY <2>2, <3>1, <3>2
  <2>3. CASE i \in Loaded(l[t]) /\ Load(l2[t], i) = Load(l[t], i)
    <3>1. CASE Load(l2[t], j) = b
      BY <2>3, <3>1
    <3>2. CASE j \in Loaded(l[t]) /\ Load(l2[t], j) = Load(l[t], j)
      BY <1>2, <2>3, <3>2 DEF LinkOrder
    <3> QED
      BY <3>1, <3>2 DEF Adds
  <2> QED
    BY <2>2, <2>3 DEF Adds
<1>3. ASSUME NEW t \in Streams, NEW v \in Streams,
             NEW i \in Loaded(l2[t]), NEW j \in Loaded(l2[v]),
             Load(l2[t], i).uid = Load(l2[v], j).uid
      PROVE  t = v
  <2>1. \A z \in Streams : \A x \in Loaded(l[z]) : Load(l[z], x).uid # b.uid
    <3> SUFFICES ASSUME NEW z \in Streams, NEW x \in Loaded(l[z])
                 PROVE  Load(l[z], x).uid # b.uid
      OBVIOUS
    <3>1. Load(l[z], x).uid \in Nat /\ Load(l[z], x).uid < b.uid
      BY <1>1
    <3> QED
      BY <3>1
  <2>2. CASE t = s /\ Load(l2[t], i) = b
    <3>1. CASE j \in Loaded(l[v]) /\ Load(l2[v], j) = Load(l[v], j)
      BY <1>3, <2>1, <2>2, <3>1
    <3> QED
      BY <2>2, <3>1 DEF Adds
  <2>3. CASE i \in Loaded(l[t]) /\ Load(l2[t], i) = Load(l[t], i)
    <3>1. CASE Load(l2[v], j) = b
      BY <1>3, <2>1, <2>3, <3>1
    <3>2. CASE j \in Loaded(l[v]) /\ Load(l2[v], j) = Load(l[v], j)
      BY <1>3, <2>3, <3>2 DEF LinkOrder
    <3> QED
      BY <3>1, <3>2 DEF Adds
  <2> QED
    BY <2>2, <2>3 DEF Adds
<1> QED
  BY <1>2, <1>3 DEF LinkOrder

\* And it comes after all that was handed on or waits.
LEMMA AddsKeepsAfter ==
  ASSUME NEW l, NEW l2, NEW s, NEW k, NEW b, Adds(l2, l, s, k, b), b.uid \in Nat,
         NEW q \in Todos, NEW h \in Seq(Handed)
  PROVE  /\ LinkAfterHanded(l, h) /\ (\A x \in DOMAIN h : h[x].body.uid < b.uid)
              => LinkAfterHanded(l2, h)
         /\ LinkAfterTodo(l, q) /\ (\A n \in Nums : \A x \in DOMAIN q[n] : q[n][x].uid < b.uid)
              => LinkAfterTodo(l2, q)
<1>1. ASSUME LinkAfterHanded(l, h), \A x \in DOMAIN h : h[x].body.uid < b.uid,
             NEW t \in Streams, NEW i \in Loaded(l2[t]), NEW x \in DOMAIN h
      PROVE  /\ h[x].body.uid # Load(l2[t], i).uid
             /\ SameWay(h[x].body, Load(l2[t], i)) => h[x].body.uid < Load(l2[t], i).uid
  <2>1. CASE Load(l2[t], i) = b
    <3>1. h[x].body.uid \in Nat /\ h[x].body.uid < b.uid
      BY <1>1, HandedType
    <3> QED
      BY <2>1, <3>1
  <2>2. CASE i \in Loaded(l[t]) /\ Load(l2[t], i) = Load(l[t], i)
    BY <1>1, <2>2 DEF LinkAfterHanded
  <2> QED
    BY <2>1, <2>2 DEF Adds
<1>2. ASSUME LinkAfterTodo(l, q), \A n \in Nums : \A x \in DOMAIN q[n] : q[n][x].uid < b.uid,
             NEW t \in Streams, NEW n \in Nums, NEW i \in Loaded(l2[t]), NEW x \in DOMAIN q[n]
      PROVE  /\ q[n][x].uid # Load(l2[t], i).uid
             /\ SameWay(q[n][x], Load(l2[t], i)) => q[n][x].uid < Load(l2[t], i).uid
  <2>1. CASE Load(l2[t], i) = b
    <3>1. q[n][x].uid \in Nat /\ q[n][x].uid < b.uid
      BY <1>2, TodoType
    <3> QED
      BY <2>1, <3>1
  <2>2. CASE i \in Loaded(l[t]) /\ Load(l2[t], i) = Load(l[t], i)
    BY <1>2, <2>2 DEF LinkAfterTodo
  <2> QED
    BY <2>1, <2>2 DEF Adds
<1> QED
  BY <1>1, <1>2 DEF LinkAfterHanded, LinkAfterTodo

\* A packet put on a stream keeps the shape of the link if it fits the stream.
LEMMA PutKeepsShape ==
  ASSUME NEW l \in Links, NEW s \in Streams, NEW m \in Packet, NEW last,
         NEW l2, l2 = PutOn(l, s, m),
         LinkShape(l, last),
         IF m.type = "idNum" THEN m.body = <<>>
         ELSE /\ Len(m.body) = 1
              /\ m.body[1].uid <= last
              /\ m.type = "idChannel" => m.body[1].via = "idChannel"
              /\ m.type = "channel" => s = <<m.body[1].via, m.num>>
  PROVE  LinkShape(l2, last)
<1>1. \A t \in Streams : \A i \in DOMAIN l2[t] :
        \/ i \in DOMAIN l[t] /\ l2[t][i] = l[t][i]
        \/ t = s /\ l2[t][i] = m
  BY PutProperties
<1> SUFFICES ASSUME NEW t \in Streams, NEW i \in DOMAIN l2[t]
             PROVE  IF l2[t][i].type = "idNum" THEN l2[t][i].body = <<>>
                    ELSE /\ Len(l2[t][i].body) = 1
                         /\ l2[t][i].body[1].uid <= last
                         /\ l2[t][i].type = "idChannel" => l2[t][i].body[1].via = "idChannel"
                         /\ l2[t][i].type = "channel" => t = <<l2[t][i].body[1].via, l2[t][i].num>>
  BY DEF LinkShape, Load
<1>2. CASE i \in DOMAIN l[t] /\ l2[t][i] = l[t][i]
  BY <1>2 DEF LinkShape, Load
<1>3. CASE t = s /\ l2[t][i] = m
  BY <1>3
<1> QED
  BY <1>1, <1>2, <1>3

LEMMA PutAdds ==
  ASSUME NEW l \in Links, NEW s \in Streams, NEW m \in Packet,
         NEW l2, l2 = PutOn(l, s, m)
  PROVE  Adds(l2, l, s, Len(l[s]) + 1, m.body[1]) /\ l2 \in Links /\ Len(l[s]) + 1 \in Nat
<1>1. Len(l[s]) \in Nat /\ DOMAIN l[s] = 1 .. Len(l[s]) /\ l2 \in Links
  BY LoadType, PutProperties
<1>2. \A j \in Loaded(l[s]) : j < Len(l[s]) + 1
  BY <1>1 DEF Loaded
<1>3. ASSUME NEW t \in Streams, NEW i \in Loaded(l2[t])
      PROVE  \/ i \in Loaded(l[t]) /\ Load(l2[t], i) = Load(l[t], i)
             \/ t = s /\ i = Len(l[s]) + 1 /\ Load(l2[t], i) = m.body[1]
  <2>1. i \in DOMAIN l2[t] /\ l2[t][i].body # <<>>
    BY DEF Loaded
  <2>2. CASE i \in DOMAIN l[t]
    <3>1. l2[t][i] = l[t][i]
      BY <2>2, PutProperties
    <3> QED
      BY <2>1, <2>2, <3>1 DEF Loaded, Load
  <2>3. CASE i \notin DOMAIN l[t]
    <3>1. t = s /\ i = Len(l[s]) + 1
      BY <2>1, <2>3, PutProperties
    <3>2. l2[t][i] = m
      BY <3>1, PutProperties
    <3> QED
      BY <3>1, <3>2 DEF Load
  <2> QED
    BY <2>2, <2>3
<1> QED
  BY <1>1, <1>2, <1>3 DEF Adds

\* Putting the next payload on a stream of a link.
LEMMA PutData ==
  ASSUME NEW l \in Links, NEW q \in Todos, NEW h \in Seq(Handed), NEW last \in Nat,
         NEW s \in Streams, NEW m \in Packet,
         m.type \in {"channel", "idChannel"}, Len(m.body) = 1, m.body[1].uid = last + 1,
         m.type = "idChannel" => m.body[1].via = "idChannel",
         m.type = "channel" => s = <<m.body[1].via, m.num>>,
         NEW l2, l2 = PutOn(l, s, m),
         LinkPart(l, h, last)
  PROVE  /\ LinkPart(l2, h, last + 1)
         /\ TodoPart(l, q, h, last) => TodoPart(l2, q, h, last + 1)
<1> DEFINE k == Len(l[s]) + 1
           b == m.body[1]
<1>0. last + 1 \in Nat /\ last <= last + 1 /\ \A u \in Nat : u <= last => u < last + 1
  OBVIOUS
<1>1. LinkPart(l, h, last + 1) /\ (TodoPart(l, q, h, last) => TodoPart(l, q, h, last + 1))
  BY <1>0, LastGrows
<1>2. Adds(l2, l, s, k, b) /\ l2 \in Links /\ k \in Nat /\ b.uid \in Nat /\ b.uid = last + 1
  BY <1>0, PutAdds
<1>3. LinkShape(l2, last + 1)
  <2>1. m.type # "idNum" /\ b.uid <= last + 1
    BY <1>0
  <2> QED
    BY <1>1, <2>1, PutKeepsShape DEF LinkPart
<1> HIDE DEF k, b
<1>4. LinkOrder(l2)
  <2>1. \A t \in Streams : \A i \in Loaded(l[t]) : Load(l[t], i).uid < b.uid
    BY <1>0, <1>2, LoadsNumbered DEF LinkPart
  <2> QED
    BY <1>2, <2>1, AddsKeepsOrder DEF LinkPart
<1>5. LinkAfterHanded(l2, h)
  <2>1. \A x \in DOMAIN h : h[x].body.uid < b.uid
    BY <1>0, <1>2, HandedType DEF LinkPart, HandedOrder
  <2> QED
    BY <1>2, <2>1, AddsKeepsAfter DEF LinkPart
<1>6. ASSUME TodoPart(l, q, h, last)
      PROVE  LinkAfterTodo(l2, q)
  <2>1. \A n \in Nums : \A x \in DOMAIN q[n] : q[n][x].uid < b.uid
    BY <1>0, <1>2, <1>6, TodoType DEF TodoPart, TodoOrder
  <2> QED
    BY <1>2, <1>6, <2>1, AddsKeepsAfter DEF TodoPart
<1> QED
  BY <1>1, <1>3, <1>4, <1>5, <1>6 DEF LinkPart, TodoPart

\* The loads of l2 are those of l.
SameLoads(l2, l) == \A t \in Streams : \A i \in Loaded(l2[t]) :
  i \in Loaded(l[t]) /\ Load(l2[t], i) = Load(l[t], i)

LEMMA SameLoadsKeeps ==
  ASSUME NEW l, NEW l2, SameLoads(l2, l), NEW q, NEW h
  PROVE  /\ LinkOrder(l) => LinkOrder(l2)
         /\ LinkAfterHanded(l, h) => LinkAfterHanded(l2, h)
         /\ LinkAfterTodo(l, q) => LinkAfterTodo(l2, q)
<1>1. ASSUME LinkOrder(l)
      PROVE  LinkOrder(l2)
  <2>1. ASSUME NEW s \in Streams, NEW i \in Loaded(l2[s]), NEW j \in Loaded(l2[s]), i < j
        PROVE  Load(l2[s], i).uid < Load(l2[s], j).uid
    BY <1>1, <2>1 DEF LinkOrder, SameLoads
  <2>2. ASSUME NEW s \in Streams, NEW t \in Streams,
               NEW i \in Loaded(l2[s]), NEW j \in Loaded(l2[t]),
               Load(l2[s], i).uid = Load(l2[t], j).uid
        PROVE  s = t
    BY <1>1, <2>2 DEF LinkOrder, SameLoads
  <2> QED
    BY <2>1, <2>2 DEF LinkOrder
<1>2. LinkAfterHanded(l, h) => LinkAfterHanded(l2, h)
  BY DEF LinkAfterHanded, SameLoads
<1>3. LinkAfterTodo(l, q) => LinkAfterTodo(l2, q)
  BY DEF LinkAfterTodo, SameLoads
<1> QED
  BY <1>1, <1>2, <1>3

\* Putting an answer on a stream of a link.
LEMMA PutAnswer ==
  ASSUME NEW l \in Links, NEW q, NEW h, NEW last,
         NEW s \in Streams, NEW m \in Packet, m.body = <<>>, m.type = "idNum",
         NEW l2, l2 = PutOn(l, s, m),
         LinkPart(l, h, last)
  PROVE  /\ LinkPart(l2, h, last)
         /\ TodoPart(l, q, h, last) => TodoPart(l2, q, h, last)
<1>1. SameLoads(l2, l)
  <2> SUFFICES ASSUME NEW t \in Streams, NEW i \in Loaded(l2[t])
               PROVE  i \in Loaded(l[t]) /\ Load(l2[t], i) = Load(l[t], i)
    BY DEF SameLoads
  <2>1. i \in DOMAIN l2[t] /\ l2[t][i].body # <<>>
    BY DEF Loaded
  <2>2. i \in DOMAIN l[t]
    <3>1. ASSUME i \notin DOMAIN l[t]
          PROVE  l2[t][i] = m
      BY <2>1, <3>1, PutProperties
    <3> QED
      BY <2>1, <3>1
  <2>3. l2[t][i] = l[t][i]
    BY <2>2, PutProperties
  <2> QED
    BY <2>1, <2>2, <2>3 DEF Loaded, Load
<1>2. LinkShape(l2, last)
  BY PutKeepsShape DEF LinkPart
<1> QED
  BY <1>1, <1>2, SameLoadsKeeps DEF LinkPart, TodoPart

-----------------------------------------------------------------------------
(* Taking a packet from a stream *)

LEMMA TakeKeeps ==
  ASSUME NEW l \in Links, NEW q, NEW h, NEW last,
         NEW s \in Streams, NEW k \in 1 .. Len(l[s]), NEW l2, l2 = TakenFrom(l, s, k)
  PROVE  /\ LinkPart(l, h, last) => LinkPart(l2, h, last)
         /\ TodoPart(l, q, h, last) => TodoPart(l2, q, h, last)
<1>1. Thins(l2, l)
  BY TakeProperties
<1> QED
  BY <1>1, ThinsKeeps DEF LinkPart, TodoPart

\* A payload that is older than all that comes the same way on a link.
OlderThan(b, l) == \A t \in Streams : \A i \in Loaded(l[t]) :
  /\ b.uid # Load(l[t], i).uid
  /\ SameWay(b, Load(l[t], i)) => b.uid < Load(l[t], i).uid

\* The payload of the packet that was taken is one, if its channel and its way
\* name one stream.
LEMMA TakenIsOlder ==
  ASSUME NEW l \in Links, LinkOrder(l), NEW s \in Streams, NEW k \in Loaded(l[s]),
         NEW b, b = Load(l[s], k),
         \A t \in Streams : \A j \in Loaded(l[t]) : SameWay(b, Load(l[t], j)) => t = s,
         NEW l2, l2 = TakenFrom(l, s, k)
  PROVE  OlderThan(b, l2)
<1>1. k \in 1 .. Len(l[s]) /\ k \in Nat /\ b.uid \in Nat
  BY LoadType
<1>2. /\ l2 \in Links
      /\ \A t \in Streams \ {s} : l2[t] = l[t]
      /\ \A i \in DOMAIN l2[s] : i + k \in DOMAIN l[s] /\ l2[s][i] = l[s][i + k]
      /\ DOMAIN l2[s] = 1 .. Len(l[s]) - k
  BY <1>1, TakeProperties
<1> SUFFICES ASSUME NEW t \in Streams, NEW i \in Loaded(l2[t])
             PROVE  /\ b.uid # Load(l2[t], i).uid
                    /\ SameWay(b, Load(l2[t], i)) => b.uid < Load(l2[t], i).uid
  BY DEF OlderThan
<1>3. CASE t = s
  <2>1. i \in DOMAIN l2[s] /\ l2[s][i].body # <<>> /\ i \in Nat /\ i > 0
    BY <1>2, <1>3, LoadType DEF Loaded
  <2>2. i + k \in Loaded(l[s]) /\ Load(l2[s], i) = Load(l[s], i + k)
    BY <1>2, <2>1 DEF Loaded, Load
  <2>3. k < i + k
    BY <1>1, <2>1
  <2>4. b.uid < Load(l[s], i + k).uid
    BY <2>2, <2>3 DEF LinkOrder
  <2>5. Load(l[s], i + k).uid \in Nat
    BY <2>2, LoadType
  <2>6. b.uid # Load(l[s], i + k).uid
    BY <1>1, <2>4, <2>5
  <2> QED
    BY <1>3, <2>2, <2>4, <2>6
<1>4. CASE t # s
  <2>1. i \in Loaded(l[t]) /\ Load(l2[t], i) = Load(l[t], i)
    BY <1>2, <1>4
  <2>2. b.uid # Load(l[t], i).uid
    BY <1>4, <2>1 DEF LinkOrder
  <2> QED
    BY <1>4, <2>1, <2>2
<1> QED
  BY <1>3, <1>4

-----------------------------------------------------------------------------
(* Handing payloads on *)

\* The entries of a history that goes on with more of them.
LEMMA MoreHanded ==
  ASSUME NEW h \in Seq(Handed), NEW new \in Seq(Handed), NEW h2, h2 = More(h, new)
  PROVE  /\ h2 \in Seq(Handed)
         /\ \A i \in DOMAIN h2 :
              \/ i \in DOMAIN h /\ h2[i] = h[i]
              \/ /\ i - Len(h) \in DOMAIN new /\ h2[i] = new[i - Len(h)]
                 /\ \A x \in DOMAIN h : x < i
         /\ \A i \in DOMAIN h : i \in DOMAIN h2 /\ h2[i] = h[i]
         /\ \A i \in DOMAIN new : i + Len(h) \in DOMAIN h2 /\ h2[i + Len(h)] = new[i]
<1>1. /\ DOMAIN h = 1 .. Len(h) /\ Len(h) \in Nat
      /\ DOMAIN new = 1 .. Len(new) /\ Len(new) \in Nat
  BY LenProperties
<1>2. /\ h2 \in Seq(Handed)
      /\ Len(h2) = Len(h) + Len(new)
      /\ \A i \in 1 .. Len(h) + Len(new) :
           h2[i] = IF i <= Len(h) THEN h[i] ELSE new[i - Len(h)]
  <2>1. h2 = h \o new
    BY DEF More
  <2> QED
    BY <2>1, ConcatProperties
<1>3. DOMAIN h2 = 1 .. Len(h) + Len(new)
  BY <1>2, LenProperties
<1>4. ASSUME NEW i \in DOMAIN h2
      PROVE  \/ i \in DOMAIN h /\ h2[i] = h[i]
             \/ /\ i - Len(h) \in DOMAIN new /\ h2[i] = new[i - Len(h)]
                /\ \A x \in DOMAIN h : x < i
  <2>1. i \in Nat /\ i >= 1 /\ i <= Len(h) + Len(new)
    BY <1>1, <1>3
  <2>2. CASE i <= Len(h)
    BY <1>1, <1>2, <1>3, <2>1, <2>2
  <2>3. CASE i > Len(h)
    <3>1. i - Len(h) \in 1 .. Len(new)
      BY <1>1, <2>1, <2>3
    <3>2. \A x \in 1 .. Len(h) : x < i
      BY <1>1, <2>1, <2>3
    <3>3. h2[i] = new[i - Len(h)]
      BY <1>1, <1>2, <1>3, <2>1, <2>3
    <3> QED
      BY <1>1, <3>1, <3>2, <3>3
  <2> QED
    BY <1>1, <2>1, <2>2, <2>3
<1>5. ASSUME NEW i \in DOMAIN h
      PROVE  i \in DOMAIN h2 /\ h2[i] = h[i]
  <2>1. i \in 1 .. Len(h) + Len(new) /\ i <= Len(h)
    BY <1>1
  <2> QED
    BY <1>2, <1>3, <2>1
<1>6. ASSUME NEW i \in DOMAIN new
      PROVE  i + Len(h) \in DOMAIN h2 /\ h2[i + Len(h)] = new[i]
  <2>1. i + Len(h) \in 1 .. Len(h) + Len(new) /\ ~(i + Len(h) <= Len(h)) /\ (i + Len(h)) - Len(h) = i
    BY <1>1
  <2> QED
    BY <1>2, <1>3, <2>1
<1> QED
  BY <1>2, <1>4, <1>5, <1>6

LEMMA MoreHandedKeeps ==
  ASSUME NEW h \in Seq(Handed), NEW new \in Seq(Handed), NEW h2, h2 = More(h, new),
         NEW l, NEW q, NEW last
  PROVE  /\ LinkAfterHanded(l, h) /\ LinkAfterHanded(l, new) => LinkAfterHanded(l, h2)
         /\ TodoAfterHanded(q, h) /\ TodoAfterHanded(q, new) => TodoAfterHanded(q, h2)
         /\ /\ HandedOrder(h, last) /\ HandedOrder(new, last)
            /\ \A j \in DOMAIN h, k \in DOMAIN new :
                 /\ h[j].body.uid # new[k].body.uid
                 /\ SameWay(h[j].body, new[k].body) /\ new[k].body.uid < h[j].body.uid
                      => new[k].late /\ ~h[j].late
            => HandedOrder(h2, last)
<1>1. \A i \in DOMAIN h2 :
        \/ i \in DOMAIN h /\ h2[i] = h[i]
        \/ i - Len(h) \in DOMAIN new /\ h2[i] = new[i - Len(h)]
  BY MoreHanded
<1>2. LinkAfterHanded(l, h) /\ LinkAfterHanded(l, new) => LinkAfterHanded(l, h2)
  BY <1>1 DEF LinkAfterHanded
<1>3. TodoAfterHanded(q, h) /\ TodoAfterHanded(q, new) => TodoAfterHanded(q, h2)
  BY <1>1 DEF TodoAfterHanded
<1>4. ASSUME HandedOrder(h, last), HandedOrder(new, last),
             \A j \in DOMAIN h, k \in DOMAIN new :
               /\ h[j].body.uid # new[k].body.uid
               /\ SameWay(h[j].body, new[k].body) /\ new[k].body.uid < h[j].body.uid
                    => new[k].late /\ ~h[j].late
      PROVE  HandedOrder(h2, last)
  <2>1. \A k \in DOMAIN h2 : h2[k].body.uid <= last
    BY <1>1, <1>4 DEF HandedOrder
  <2>2. ASSUME NEW j \in DOMAIN h2, NEW k \in DOMAIN h2, j < k
        PROVE  /\ h2[j].body.uid # h2[k].body.uid
               /\ SameWay(h2[j].body, h2[k].body) /\ h2[k].body.uid < h2[j].body.uid
                    => h2[k].late /\ ~h2[j].late
    <3>0. h2 \in Seq(Handed) /\ j \in Nat /\ k \in Nat /\ Len(h) \in Nat
      BY MoreHanded, HandedType
    <3>1. CASE k \in DOMAIN h /\ h2[k] = h[k]
      <4>1. j \in DOMAIN h /\ h2[j] = h[j]
        <5>1. k \in 1 .. Len(h) /\ j \in 1 .. Len(h2)
          BY <3>0, <3>1, HandedType
        <5>2. j \in 1 .. Len(h)
          BY <2>2, <3>0, <5>1
        <5> QED
          BY <5>2, MoreHanded, HandedType
      <4> QED
        BY <1>4, <2>2, <3>1, <4>1 DEF HandedOrder
    <3>2. CASE k - Len(h) \in DOMAIN new /\ h2[k] = new[k - Len(h)]
      <4>1. CASE j \in DOMAIN h /\ h2[j] = h[j]
        BY <1>4, <3>2, <4>1
      <4>2. CASE j - Len(h) \in DOMAIN new /\ h2[j] = new[j - Len(h)]
        <5>1. j - Len(h) < k - Len(h)
          BY <2>2, <3>0
        <5> QED
          BY <1>4, <3>2, <4>2, <5>1 DEF HandedOrder
      <4> QED
        BY <1>1, <4>1, <4>2
    <3> QED
      BY <1>1, <3>1, <3>2
  <2> QED
    BY <2>1, <2>2 DEF HandedOrder
<1> QED
  BY <1>2, <1>3, <1>4

\* One payload handed on as it arrives: it is newer than all before it and
\* older than all that is still on the way.
LEMMA HandOnKeeps ==
  ASSUME NEW l, NEW q, NEW h \in Seq(Handed), NEW last,
         NEW s \in Streams, NEW k \in Loaded(l[s]), NEW b, b = Load(l[s], k),
         b.uid \in Nat, b.uid <= last,
         LinkPart(l, h, last),
         NEW l2, LinkPart(l2, h, last), OlderThan(b, l2),
         NEW new \in Seq(Handed), Len(new) = 1, new[1].body = b, new[1].late = FALSE,
         NEW h2, h2 = More(h, new)
  PROVE  /\ LinkPart(l2, h2, last)
         /\ TodoPart(l, q, h, last) /\ TodoPart(l2, q, h, last) => TodoPart(l2, q, h2, last)
<1>1. DOMAIN new = {1} /\ \A i \in DOMAIN new : new[i].body = b /\ new[i].late = FALSE
  <2>1. DOMAIN new = 1 .. Len(new) /\ 1 .. 1 = {1}
    BY HandedType
  <2> QED
    BY <2>1
<1>2. HandedOrder(new, last)
  BY <1>1 DEF HandedOrder
<1>3. LinkAfterHanded(l2, new)
  BY <1>1 DEF LinkAfterHanded, OlderThan
<1>4. \A j \in DOMAIN h, i \in DOMAIN new :
        /\ h[j].body.uid # new[i].body.uid
        /\ SameWay(h[j].body, new[i].body) /\ new[i].body.uid < h[j].body.uid
             => new[i].late /\ ~h[j].late
  <2> SUFFICES ASSUME NEW j \in DOMAIN h, NEW i \in DOMAIN new
               PROVE  /\ h[j].body.uid # b.uid
                      /\ ~(SameWay(h[j].body, b) /\ b.uid < h[j].body.uid)
    BY <1>1
  <2>1. /\ h[j].body.uid # b.uid
        /\ SameWay(h[j].body, b) => h[j].body.uid < b.uid
    BY DEF LinkPart, LinkAfterHanded
  <2>2. h[j].body.uid \in Nat
    BY HandedType
  <2> QED
    BY <2>1, <2>2
<1>5. LinkPart(l2, h2, last)
  BY <1>2, <1>3, <1>4, MoreHandedKeeps DEF LinkPart
<1>6. ASSUME TodoPart(l, q, h, last), TodoPart(l2, q, h, last)
      PROVE  TodoAfterHanded(q, new)
  <2> SUFFICES ASSUME NEW n \in Nums, NEW j \in DOMAIN q[n], NEW i \in DOMAIN new
               PROVE  new[i].body.uid # q[n][j].uid /\ ~new[i].late
    BY DEF TodoAfterHanded
  <2>1. q[n][j].uid # Load(l[s], k).uid
    BY <1>6 DEF TodoPart, LinkAfterTodo
  <2> QED
    BY <1>1, <2>1
<1>7. ASSUME TodoPart(l, q, h, last), TodoPart(l2, q, h, last)
      PROVE  TodoPart(l2, q, h2, last)
  BY <1>6, <1>7, MoreHandedKeeps DEF TodoPart
<1> QED
  BY <1>5, <1>7

LEMMA WaitsProperties ==
  ASSUME NEW q \in Todos, NEW n \in Nums, NEW b \in Payload, NEW q2, q2 = Waits(q, n, b)
  PROVE  /\ q2 \in Todos
         /\ \A m \in Nums \ {n} : q2[m] = q[m]
         /\ \A m \in Nums : \A i \in DOMAIN q2[m] :
              \/ i \in DOMAIN q[m] /\ q2[m][i] = q[m][i]
              \/ m = n /\ i = Len(q[n]) + 1 /\ q2[m][i] = b
         /\ \A x \in DOMAIN q[n] : \E y \in DOMAIN q2[n] : q2[n][y] = q[n][x]
         /\ \E y \in DOMAIN q2[n] : q2[n][y] = b
<1>1. /\ q[n] \in Seq(Payload) /\ DOMAIN q[n] = 1 .. Len(q[n]) /\ Len(q[n]) \in Nat
      /\ Append(q[n], b) \in Seq(Payload)
      /\ DOMAIN Append(q[n], b) = 1 .. Len(q[n]) + 1
      /\ \A i \in 1 .. Len(q[n]) : Append(q[n], b)[i] = q[n][i]
      /\ Append(q[n], b)[Len(q[n]) + 1] = b
  BY TodoType, AppendProperties, LenProperties
<1>2. /\ q2 \in Todos
      /\ q2[n] = Append(q[n], b)
      /\ \A m \in Nums \ {n} : q2[m] = q[m]
  BY <1>1 DEF Todos, Waits
<1>3. /\ \A i \in DOMAIN q2[n] : i \in 1 .. Len(q[n]) \/ i = Len(q[n]) + 1
      /\ 1 .. Len(q[n]) \subseteq DOMAIN q2[n] /\ Len(q[n]) + 1 \in DOMAIN q2[n]
  BY <1>1, <1>2
<1> QED
  BY <1>1, <1>2, <1>3

\* A payload that has to wait for its number: it is newer than all before it.
LEMMA WaitKeeps ==
  ASSUME NEW l, NEW q \in Todos, NEW h \in Seq(Handed), NEW last,
         NEW s \in Streams, NEW k \in Loaded(l[s]), NEW b \in Payload, b = Load(l[s], k),
         b.uid <= last, b.via # "idChannel", NEW n \in Nums,
         \A x \in DOMAIN q[n] : q[n][x].id = b.id,
         LinkPart(l, h, last), TodoPart(l, q, h, last),
         NEW l2, TodoPart(l2, q, h, last), OlderThan(b, l2),
         NEW q2, q2 = Waits(q, n, b)
  PROVE  q2 \in Todos /\ TodoPart(l2, q2, h, last)
<1>1. q[n] \in Seq(Payload) /\ DOMAIN q[n] = 1 .. Len(q[n]) /\ Len(q[n]) \in Nat
  BY TodoType
<1>2. q2 \in Todos
  BY WaitsProperties
<1>3. \A m \in Nums : \A i \in DOMAIN q2[m] :
        \/ i \in DOMAIN q[m] /\ q2[m][i] = q[m][i]
        \/ m = n /\ i = Len(q[n]) + 1 /\ q2[m][i] = b
  BY WaitsProperties
<1>4. \A m \in Nums : \A x \in DOMAIN q[m] :
        /\ q[m][x].uid # b.uid
        /\ SameWay(q[m][x], b) => q[m][x].uid < b.uid
  BY DEF TodoPart, LinkAfterTodo
<1>5. TodoOrder(q2, last)
  <2>1. \A m \in Nums : \A x \in DOMAIN q2[m] : q2[m][x].uid <= last /\ q2[m][x].via # "idChannel"
    BY <1>3 DEF TodoPart, TodoOrder
  <2>2. ASSUME NEW m \in Nums, NEW v \in Nums, NEW i \in DOMAIN q2[m], NEW j \in DOMAIN q2[v]
        PROVE  /\ q2[m][i].uid = q2[v][j].uid => m = v /\ i = j
               /\ m = v /\ i < j /\ q2[m][i].via = q2[v][j].via => q2[m][i].uid < q2[v][j].uid
    <3>1. CASE i \in DOMAIN q[m] /\ q2[m][i] = q[m][i] /\ j \in DOMAIN q[v] /\ q2[v][j] = q[v][j]
      BY <3>1 DEF TodoPart, TodoOrder
    <3>2. CASE i \in DOMAIN q[m] /\ q2[m][i] = q[m][i] /\ v = n /\ j = Len(q[n]) + 1 /\ q2[v][j] = b
      <4>1. m = v /\ q[m][i].via = b.via => SameWay(q[m][i], b)
        BY <3>2 DEF SameWay
      <4> QED
        BY <1>4, <3>2, <4>1
    <3>3. CASE m = n /\ i = Len(q[n]) + 1 /\ q2[m][i] = b /\ j \in DOMAIN q[v] /\ q2[v][j] = q[v][j]
      <4>1. m = v => ~(i < j)
        BY <1>1, <3>3
      <4>2. q[v][j].uid # b.uid
        BY <1>4, <3>3
      <4> QED
        BY <3>3, <4>1, <4>2
    <3>4. CASE m = n /\ i = Len(q[n]) + 1 /\ v = n /\ j = Len(q[n]) + 1
      <4>1. ~(i < j)
        BY <1>1, <3>4
      <4> QED
        BY <3>4, <4>1
    <3> QED
      BY <1>3, <3>1, <3>2, <3>3, <3>4
  <2> QED
    BY <2>1, <2>2 DEF TodoOrder
<1>6. LinkAfterTodo(l2, q2)
  <2> SUFFICES ASSUME NEW t \in Streams, NEW m \in Nums, NEW i \in Loaded(l2[t]), NEW j \in DOMAIN q2[m]
               PROVE  /\ q2[m][j].uid # Load(l2[t], i).uid
                      /\ SameWay(q2[m][j], Load(l2[t], i)) => q2[m][j].uid < Load(l2[t], i).uid
    BY DEF LinkAfterTodo
  <2>1. CASE j \in DOMAIN q[m] /\ q2[m][j] = q[m][j]
    BY <2>1 DEF TodoPart, LinkAfterTodo
  <2>2. CASE q2[m][j] = b
    BY <2>2 DEF OlderThan
  <2> QED
    BY <1>3, <2>1, <2>2
<1>7. TodoAfterHanded(q2, h)
  <2>1. \A x \in DOMAIN h : /\ h[x].body.uid # b.uid
                            /\ SameWay(h[x].body, b) => h[x].body.uid < b.uid
    BY DEF LinkPart, LinkAfterHanded
  <2> SUFFICES ASSUME NEW m \in Nums, NEW j \in DOMAIN q2[m], NEW x \in DOMAIN h
               PROVE  /\ h[x].body.uid # q2[m][j].uid
                      /\ h[x].late /\ SameWay(h[x].body, q2[m][j]) => h[x].body.uid < q2[m][j].uid
    BY DEF TodoAfterHanded
  <2>2. CASE j \in DOMAIN q[m] /\ q2[m][j] = q[m][j]
    BY <2>2 DEF TodoPart, TodoAfterHanded
  <2>3. CASE q2[m][j] = b
    BY <2>1, <2>3
  <2> QED
    BY <1>3, <2>2, <2>3
<1> QED
  BY <1>2, <1>5, <1>6, <1>7 DEF TodoPart

\* All that waited for a number handed on, in the order it waited in.
LEMMA HandWaitingKeeps ==
  ASSUME NEW l, NEW q \in Todos, NEW h \in Seq(Handed), NEW last, NEW n \in Nums,
         LinkPart(l, h, last), TodoPart(l, q, h, last),
         IdsApart(q, n), NEW new, EntriesOf(new, q[n], TRUE), NEW h2, h2 = More(h, new),
         NEW q2, q2 = Emptied(q, n)
  PROVE  q2 \in Todos /\ LinkPart(l, h2, last) /\ TodoPart(l, q2, h2, last)
<1> USE DEF EntriesOf
<1>1. /\ q2 \in Todos
      /\ q2[n] = <<>>
      /\ \A m \in Nums \ {n} : q2[m] = q[m]
  BY EmptySeq DEF Todos, Emptied
<1>2. \A m \in Nums : \A i \in DOMAIN q2[m] : m # n /\ i \in DOMAIN q[m] /\ q2[m][i] = q[m][i]
  BY <1>1
<1>3. TodoOrder(q, last) /\ LinkAfterTodo(l, q) /\ TodoAfterHanded(q, h)
  BY DEF TodoPart
<1>4. HandedOrder(new, last)
  <2>1. \A k \in DOMAIN new : new[k].body.uid <= last
    BY <1>3 DEF TodoOrder
  <2>2. ASSUME NEW j \in DOMAIN new, NEW k \in DOMAIN new, j < k
        PROVE  /\ new[j].body.uid # new[k].body.uid
               /\ ~(SameWay(new[j].body, new[k].body) /\ new[k].body.uid < new[j].body.uid)
    <3>1. j \in DOMAIN q[n] /\ k \in DOMAIN q[n] /\ new[j].body = q[n][j] /\ new[k].body = q[n][k]
      OBVIOUS
    <3>2. q[n][j].uid \in Nat /\ q[n][k].uid \in Nat /\ j \in Nat /\ k \in Nat /\ j # k
      BY <2>2, <3>1, TodoType
    <3>3. q[n][j].uid # q[n][k].uid
      BY <1>3, <3>1, <3>2 DEF TodoOrder
    <3>4. SameWay(q[n][j], q[n][k]) => q[n][j].uid < q[n][k].uid
      BY <1>3, <2>2, <3>1 DEF TodoOrder, SameWay
    <3> QED
      BY <3>1, <3>2, <3>3, <3>4
  <2> QED
    BY <2>1, <2>2 DEF HandedOrder
<1>5. ASSUME NEW j \in DOMAIN h, NEW k \in DOMAIN new
      PROVE  /\ h[j].body.uid # new[k].body.uid
             /\ SameWay(h[j].body, new[k].body) /\ new[k].body.uid < h[j].body.uid
                  => new[k].late /\ ~h[j].late
  <2>1. k \in DOMAIN q[n] /\ new[k].body = q[n][k] /\ new[k].late
    OBVIOUS
  <2>2. h[j].body.uid \in Nat /\ q[n][k].uid \in Nat
    BY <2>1, HandedType, TodoType
  <2>3. /\ h[j].body.uid # q[n][k].uid
        /\ h[j].late /\ SameWay(h[j].body, q[n][k]) => h[j].body.uid < q[n][k].uid
    BY <1>3, <2>1 DEF TodoAfterHanded
  <2> QED
    BY <2>1, <2>2, <2>3
<1>6. LinkAfterHanded(l, new)
  <2> SUFFICES ASSUME NEW s \in Streams, NEW i \in Loaded(l[s]), NEW k \in DOMAIN new
               PROVE  /\ new[k].body.uid # Load(l[s], i).uid
                      /\ SameWay(new[k].body, Load(l[s], i)) => new[k].body.uid < Load(l[s], i).uid
    BY DEF LinkAfterHanded
  <2>1. k \in DOMAIN q[n] /\ new[k].body = q[n][k]
    OBVIOUS
  <2>2. /\ q[n][k].uid # Load(l[s], i).uid
        /\ SameWay(q[n][k], Load(l[s], i)) => q[n][k].uid < Load(l[s], i).uid
    BY <1>3, <2>1 DEF LinkAfterTodo
  <2> QED
    BY <2>1, <2>2
<1>7. LinkPart(l, h2, last)
  BY <1>4, <1>5, <1>6, MoreHandedKeeps DEF LinkPart
<1>8. TodoOrder(q2, last) /\ LinkAfterTodo(l, q2) /\ TodoAfterHanded(q2, h)
  <2>1. TodoOrder(q2, last)
    BY <1>2, <1>3 DEF TodoOrder
  <2>2. LinkAfterTodo(l, q2)
    <3> SUFFICES ASSUME NEW s \in Streams, NEW m \in Nums, NEW i \in Loaded(l[s]), NEW k \in DOMAIN q2[m]
                 PROVE  /\ q2[m][k].uid # Load(l[s], i).uid
                        /\ SameWay(q2[m][k], Load(l[s], i)) => q2[m][k].uid < Load(l[s], i).uid
      BY DEF LinkAfterTodo
    <3>1. k \in DOMAIN q[m] /\ q2[m][k] = q[m][k]
      BY <1>2
    <3>2. /\ q[m][k].uid # Load(l[s], i).uid
          /\ SameWay(q[m][k], Load(l[s], i)) => q[m][k].uid < Load(l[s], i).uid
      BY <1>3, <3>1 DEF LinkAfterTodo
    <3> QED
      BY <3>1, <3>2
  <2>3. TodoAfterHanded(q2, h)
    <3> SUFFICES ASSUME NEW m \in Nums, NEW j \in DOMAIN q2[m], NEW k \in DOMAIN h
                 PROVE  /\ h[k].body.uid # q2[m][j].uid
                        /\ h[k].late /\ SameWay(h[k].body, q2[m][j]) => h[k].body.uid < q2[m][j].uid
      BY DEF TodoAfterHanded
    <3>1. j \in DOMAIN q[m] /\ q2[m][j] = q[m][j]
      BY <1>2
    <3>2. /\ h[k].body.uid # q[m][j].uid
          /\ h[k].late /\ SameWay(h[k].body, q[m][j]) => h[k].body.uid < q[m][j].uid
      BY <1>3, <3>1 DEF TodoAfterHanded
    <3> QED
      BY <3>1, <3>2
  <2> QED
    BY <2>1, <2>2, <2>3
<1>9. TodoAfterHanded(q2, new)
  <2> SUFFICES ASSUME NEW m \in Nums, NEW j \in DOMAIN q2[m], NEW k \in DOMAIN new
               PROVE  new[k].body.uid # q2[m][j].uid /\ ~SameWay(new[k].body, q2[m][j])
    BY DEF TodoAfterHanded
  <2>1. m # n /\ j \in DOMAIN q[m] /\ q2[m][j] = q[m][j] /\ k \in DOMAIN q[n] /\ new[k].body = q[n][k]
    BY <1>2
  <2>2. q[m][j].id # q[n][k].id
    BY <2>1 DEF IdsApart
  <2> QED
    BY <1>3, <2>1, <2>2 DEF TodoOrder, SameWay
<1> QED
  BY <1>1, <1>7, <1>8, <1>9, MoreHandedKeeps DEF TodoPart

-----------------------------------------------------------------------------
(* Where safe payloads and requests are *)

LEMMA PutKeepsRequests ==
  ASSUME NEW l \in Links, NEW s \in Streams, NEW m \in Packet, NEW l2, l2 = PutOn(l, s, m)
  PROVE  /\ \A n : OnOrdered(l, n) => OnOrdered(l2, n)
         /\ s[1] = "ordered" /\ m.type = "idNum" => OnOrdered(l2, m.num)
<1>1. \A t \in Streams : \A i \in DOMAIN l[t] : i \in DOMAIN l2[t] /\ l2[t][i] = l[t][i]
  BY PutProperties
<1>2. Len(l[s]) + 1 \in DOMAIN l2[s] /\ l2[s][Len(l[s]) + 1] = m
  BY PutProperties
<1>3. \A n : OnOrdered(l, n) => OnOrdered(l2, n)
  BY <1>1 DEF OnOrdered
<1>4. s[1] = "ordered" /\ m.type = "idNum" => OnOrdered(l2, m.num)
  BY <1>2 DEF OnOrdered
<1> QED
  BY <1>3, <1>4

LEMMA PutKeepsSafe ==
  ASSUME NEW l \in Links, NEW s \in Streams, NEW m \in Packet, NEW l2, l2 = PutOn(l, s, m),
         NEW q, NEW h
  PROVE  /\ \A u : Kept(u, l, q, h) => Kept(u, l2, q, h)
         /\ s[1] = "ordered" /\ m.body # <<>> => Kept(m.body[1].uid, l2, q, h)
<1>1. \A t \in Streams : \A i \in DOMAIN l[t] : i \in DOMAIN l2[t] /\ l2[t][i] = l[t][i]
  BY PutProperties
<1>2. Len(l[s]) + 1 \in DOMAIN l2[s] /\ l2[s][Len(l[s]) + 1] = m
  BY PutProperties
<1>3. \A t \in Streams : \A i \in Loaded(l[t]) : i \in Loaded(l2[t]) /\ Load(l2[t], i) = Load(l[t], i)
  BY <1>1 DEF Loaded, Load
<1>4. \A u : Kept(u, l, q, h) => Kept(u, l2, q, h)
  BY <1>3 DEF Kept
<1>5. ASSUME s[1] = "ordered", m.body # <<>>
      PROVE  Kept(m.body[1].uid, l2, q, h)
  <2>1. Len(l[s]) + 1 \in Loaded(l2[s]) /\ Load(l2[s], Len(l[s]) + 1) = m.body[1]
    BY <1>2, <1>5 DEF Loaded, Load
  <2> QED
    BY <1>5, <2>1 DEF Kept
<1> QED
  BY <1>4, <1>5

\* Taking a packet from an ordered stream takes the first.
LEMMA TakeLeaves ==
  ASSUME NEW l \in Links, NEW s \in Streams, NEW k \in 1 .. Len(l[s]), s[1] = "ordered" => k = 1,
         NEW l2, l2 = TakenFrom(l, s, k),
         NEW t \in Streams, t[1] = "ordered", NEW i \in DOMAIN l[t]
  PROVE  (t = s /\ i = k) \/ \E x \in DOMAIN l2[t] : l2[t][x] = l[t][i]
<1>1. /\ \A v \in Streams \ {s} : l2[v] = l[v]
      /\ \A x \in DOMAIN l[s] : x > k => x - k \in DOMAIN l2[s] /\ l2[s][x - k] = l[s][x]
  BY TakeProperties
<1>2. s[1] = "ordered" => \A x \in DOMAIN l[s] : x = k \/ x > k
  BY LoadType
<1> QED
  BY <1>1, <1>2

LEMMA TakeKeepsRequests ==
  ASSUME NEW l \in Links, NEW s \in Streams, NEW k \in 1 .. Len(l[s]), s[1] = "ordered" => k = 1,
         NEW l2, l2 = TakenFrom(l, s, k)
  PROVE  \A n : OnOrdered(l, n) => OnOrdered(l2, n) \/ (l[s][k].type = "idNum" /\ l[s][k].num = n)
BY TakeLeaves DEF OnOrdered

\* It moves the payload of the packet, or waiting ones, and loses none.
LEMMA TakeKeepsSafe ==
  ASSUME NEW l \in Links, NEW s \in Streams, NEW k \in 1 .. Len(l[s]), s[1] = "ordered" => k = 1,
         NEW l2, l2 = TakenFrom(l, s, k),
         NEW q, NEW h, NEW q2, NEW h2, Carried(q, h, q2, h2),
         k \in Loaded(l[s]) => Landed(Load(l[s], k), q2, h2)
  PROVE  \A u : Kept(u, l, q, h) => Kept(u, l2, q2, h2)
<1> SUFFICES ASSUME NEW u, Kept(u, l, q, h) PROVE Kept(u, l2, q2, h2)
  OBVIOUS
<1>1. ASSUME NEW t \in Streams, t[1] = "ordered", NEW i \in Loaded(l[t]), Load(l[t], i).uid = u
      PROVE  Kept(u, l2, q2, h2)
  <2>1. i \in DOMAIN l[t] /\ l[t][i].body # <<>>
    BY DEF Loaded
  <2>2. CASE t = s /\ i = k
    BY <1>1, <2>2 DEF Kept, Landed
  <2>3. CASE \E x \in DOMAIN l2[t] : l2[t][x] = l[t][i]
    <3>1. PICK x \in DOMAIN l2[t] : l2[t][x] = l[t][i]
      BY <2>3
    <3>2. x \in Loaded(l2[t]) /\ Load(l2[t], x) = Load(l[t], i)
      BY <2>1, <3>1 DEF Loaded, Load
    <3> QED
      BY <1>1, <3>2 DEF Kept
  <2> QED
    BY <1>1, <2>1, <2>2, <2>3, TakeLeaves
<1>2. ASSUME NEW n \in Nums, NEW x \in DOMAIN q[n], q[n][x].uid = u
      PROVE  Kept(u, l2, q2, h2)
  BY <1>2 DEF Kept, Carried
<1>3. ASSUME NEW x \in DOMAIN h, h[x].body.uid = u
      PROVE  Kept(u, l2, q2, h2)
  BY <1>3 DEF Kept, Carried
<1> QED
  BY <1>1, <1>2, <1>3 DEF Kept

\* What is handed on is carried over.
LEMMA HandingCarries ==
  ASSUME NEW h \in Seq(Handed), NEW new \in Seq(Handed), NEW h2, h2 = More(h, new)
  PROVE  /\ \A x \in DOMAIN h : \E y \in DOMAIN h2 : h2[y].body = h[x].body
         /\ \A x \in DOMAIN new : \E y \in DOMAIN h2 : h2[y].body = new[x].body
<1>1. ASSUME NEW x \in DOMAIN h
      PROVE  \E y \in DOMAIN h2 : h2[y].body = h[x].body
  <2>1. x \in DOMAIN h2 /\ h2[x] = h[x]
    BY MoreHanded
  <2> QED
    BY <2>1
<1>2. ASSUME NEW x \in DOMAIN new
      PROVE  \E y \in DOMAIN h2 : h2[y].body = new[x].body
  <2>1. x + Len(h) \in DOMAIN h2 /\ h2[x + Len(h)] = new[x]
    BY MoreHanded
  <2> QED
    BY <2>1
<1> QED
  BY <1>1, <1>2

\* A payload that a client takes from a link is handed on, or put with those
\* that wait; an answer lets those that wait go.
LEMMA TakeHandsOn ==
  ASSUME NEW l \in Links, NEW q \in Todos, NEW h \in Seq(Handed), NEW last,
         NEW s \in Streams, NEW k \in Loaded(l[s]), s[1] = "ordered" => k = 1,
         Load(l[s], k).uid <= last,
         LinkPart(l, h, last), TodoPart(l, q, h, last),
         NEW l2, l2 = TakenFrom(l, s, k), OlderThan(Load(l[s], k), l2),
         NEW p, Len(p) = 1, DOMAIN p = {1}, p[1] = Load(l[s], k),
         NEW new, EntriesOf(new, p, FALSE), NEW h2, h2 = More(h, new)
  PROVE  /\ LinkPart(l2, h2, last) /\ TodoPart(l2, q, h2, last)
         /\ \A u : Kept(u, l, q, h) => Kept(u, l2, q, h2)
<1> DEFINE b == Load(l[s], k)
<1> HIDE DEF b
<1>1. k \in 1 .. Len(l[s]) /\ b.uid \in Nat /\ b.uid <= last
  BY LoadType DEF b
<1>2. LinkPart(l2, h, last) /\ TodoPart(l2, q, h, last)
  BY <1>1, TakeKeeps
<1>3. new \in Seq(Handed) /\ DOMAIN new = {1} /\ new[1].body = b /\ new[1].late = FALSE
  BY DEF EntriesOf, b
<1>4. Len(new) = 1
  <2>1. DOMAIN new = 1 .. Len(new) /\ Len(new) \in Nat
    BY <1>3, LenProperties
  <2>2. 1 \in 1 .. Len(new) /\ ~(2 \in 1 .. Len(new))
    BY <1>3, <2>1
  <2> QED
    BY <2>1, <2>2
<1>5. LinkPart(l2, h2, last) /\ TodoPart(l2, q, h2, last)
  <2>1. OlderThan(b, l2) /\ b = Load(l[s], k)
    BY DEF b
  <2> QED
    BY <1>1, <1>2, <1>3, <1>4, <2>1, HandOnKeeps
<1>6. Carried(q, h, q, h2)
  <2>1. \A x \in DOMAIN h : \E y \in DOMAIN h2 : h2[y].body = h[x].body
    BY <1>3, HandingCarries
  <2> QED
    BY <2>1 DEF Carried
<1>7. Landed(b, q, h2)
  <2>1. \E y \in DOMAIN h2 : h2[y].body = new[1].body
    BY <1>3, HandingCarries
  <2> QED
    BY <1>3, <2>1 DEF Landed
<1>8. \A u : Kept(u, l, q, h) => Kept(u, l2, q, h2)
  BY <1>1, <1>6, <1>7, TakeKeepsSafe DEF b
<1> QED
  BY <1>5, <1>8

LEMMA TakeWaits ==
  ASSUME NEW l \in Links, NEW q \in Todos, NEW h \in Seq(Handed), NEW last,
         NEW s \in Streams, NEW k \in Loaded(l[s]), s[1] = "ordered" => k = 1,
         NEW b \in Payload, b = Load(l[s], k), b.uid <= last, b.via # "idChannel",
         NEW n \in Nums, \A x \in DOMAIN q[n] : q[n][x].id = b.id,
         LinkPart(l, h, last), TodoPart(l, q, h, last),
         NEW l2, l2 = TakenFrom(l, s, k), OlderThan(b, l2),
         NEW q2, q2 = Waits(q, n, b)
  PROVE  /\ LinkPart(l2, h, last) /\ TodoPart(l2, q2, h, last)
         /\ \A u : Kept(u, l, q, h) => Kept(u, l2, q2, h)
         /\ \A m \in Nums \ {n} : q2[m] = q[m]
<1>1. k \in 1 .. Len(l[s])
  BY LoadType
<1>2. LinkPart(l2, h, last) /\ TodoPart(l2, q, h, last)
  BY <1>1, TakeKeeps
<1>3. TodoPart(l2, q2, h, last)
  BY <1>2, WaitKeeps
<1>4. /\ \A m \in Nums \ {n} : q2[m] = q[m]
      /\ \A x \in DOMAIN q[n] : \E y \in DOMAIN q2[n] : q2[n][y] = q[n][x]
      /\ \E y \in DOMAIN q2[n] : q2[n][y] = b
  BY WaitsProperties
<1>5. \A m \in Nums : \A x \in DOMAIN q[m] : \E y \in DOMAIN q2[m] : q2[m][y] = q[m][x]
  BY <1>4
<1>6. Carried(q, h, q2, h) /\ Landed(Load(l[s], k), q2, h)
  BY <1>4, <1>5 DEF Carried, Landed
<1>7. \A u : Kept(u, l, q, h) => Kept(u, l2, q2, h)
  BY <1>1, <1>6, TakeKeepsSafe
<1> QED
  BY <1>2, <1>3, <1>4, <1>7

LEMMA EmptiedProperties ==
  ASSUME NEW q \in Todos, NEW n \in Nums, NEW q2, q2 = Emptied(q, n)
  PROVE  q2[n] = <<>> /\ \A m \in Nums \ {n} : q2[m] = q[m]
BY DEF Todos, Emptied

LEMMA AnswerCarries ==
  ASSUME NEW q \in Todos, NEW h \in Seq(Handed), NEW n \in Nums,
         NEW new, EntriesOf(new, q[n], TRUE), NEW h2, h2 = More(h, new),
         NEW q2, q2 = Emptied(q, n)
  PROVE  Carried(q, h, q2, h2)
<1>1. q2[n] = <<>> /\ \A m \in Nums \ {n} : q2[m] = q[m]
  BY EmptiedProperties
<1>2. /\ \A x \in DOMAIN h : \E y \in DOMAIN h2 : h2[y].body = h[x].body
      /\ \A x \in DOMAIN new : \E y \in DOMAIN h2 : h2[y].body = new[x].body
  BY HandingCarries DEF EntriesOf
<1>3. \A x \in DOMAIN q[n] : \E y \in DOMAIN h2 : h2[y].body = q[n][x]
  BY <1>2 DEF EntriesOf
<1>4. Carried(q, h, q2, h2)
  <2> SUFFICES ASSUME NEW m \in Nums, NEW x \in DOMAIN q[m]
               PROVE  \/ \E y \in DOMAIN q2[m] : q2[m][y] = q[m][x]
                      \/ \E y \in DOMAIN h2 : h2[y].body = q[m][x]
    BY <1>2 DEF Carried
  <2>1. CASE m = n
    BY <1>3, <2>1
  <2>2. CASE m # n
    BY <1>1, <2>2
  <2> QED
    BY <2>1, <2>2
<1> QED
  BY <1>4

-----------------------------------------------------------------------------
(* What the invariant of the maps says of payloads *)

LEMMA DeliveryTypes ==
  ASSUME TypeOK, NEW c \in Clients
  PROVE  /\ down[c] \in Links /\ up[c] \in Links
         /\ todo[c] \in Todos /\ handed[c] \in Seq(Handed)
         /\ sent \in Nat /\ owed[c] \subseteq Nat /\ c \in Nodes
BY NodesProperties DEF TypeOK, Links, Todos

\* Two numbers of a session do not have the same name.
LEMMA SessionIdsInjective ==
  ASSUME IInv, NEW n \in Nums, NEW m \in Nums, SessionIds[n] # NoId, SessionIds[n] = SessionIds[m]
  PROVE  n = m
BY DEF IInv, HostInv, SessionIds, EmptyIds

\* A packet with a payload is a data packet, on the stream of its number if it
\* was sent by number.
LEMMA LoadOrigin ==
  ASSUME IInv, NEW c \in Clients, LinkShape(down[c], sent),
         NEW s \in Streams, NEW i \in Loaded(down[c][s])
  PROVE  LET m == down[c][s][i]
             b == Load(down[c][s], i)
         IN  /\ Len(m.body) = 1 /\ b \in Payload /\ b.uid <= sent
             /\ m.type # "idNum"
             /\ m.type = "idChannel" => b.via = "idChannel"
             /\ m.type = "channel" => /\ m.num \in Nums /\ SessionIds[m.num] # NoId
                                      /\ b.id = SessionIds[m.num]
                                      /\ s = <<b.via, m.num>> /\ b.via \in Kinds
             /\ m.type \in {"channel", "idChannel"}
<1> DEFINE m == down[c][s][i]
           b == Load(down[c][s], i)
<1>1. /\ down[c] \in Links /\ i \in DOMAIN down[c][s] /\ m.body # <<>>
  BY DeliveryTypes DEF IInv, Loaded
<1>2. m \in DownPackets(SessionNums, SessionIds)
  <2>1. down[c][s] \in Seq(DownPackets(SessionNums, SessionIds))
    BY DEF IInv, WireInv
  <2>2. i \in 1 .. Len(down[c][s])
    BY <1>1, LoadType
  <2> QED
    BY <2>1, <2>2, ElementOfSeq
<1>3. b \in Payload
  BY <1>1, LoadType
<1>4. /\ m.type # "idNum" /\ Len(m.body) = 1 /\ b.uid <= sent
      /\ m.type = "idChannel" => b.via = "idChannel"
      /\ m.type = "channel" => s = <<b.via, m.num>>
  BY <1>1 DEF LinkShape
<1>5. m.type = "channel" \/ (m.type = "idChannel")
  BY <1>2, <1>4 DEF DownPackets
<1>6. ASSUME m.type = "channel"
      PROVE  m.num \in Nums /\ SessionIds[m.num] # NoId /\ b.id = SessionIds[m.num] /\ b.via \in Kinds
  <2>1. m.num \in Nums /\ SessionIds[m.num] # NoId /\ m.body \in Seq(PayloadsOf(SessionIds[m.num]))
    BY <1>2, <1>6 DEF DownPackets
  <2>2. m.body[1] \in PayloadsOf(SessionIds[m.num])
    <3>1. 1 \in 1 .. Len(m.body)
      BY <1>4
    <3> HIDE DEF m
    <3> QED
      BY <2>1, <3>1, ElementOfSeq
  <2>3. b.id = SessionIds[m.num]
    BY <2>2 DEF Load, PayloadsOf
  <2>4. b.via \in Kinds
    <3>1. s = <<b.via, m.num>>
      BY <1>4, <1>6
    <3>2. s[1] = b.via /\ s[1] \in Kinds
      <4> HIDE DEF b, m
      <4> QED
        BY <3>1 DEF Streams
    <3> QED
      BY <3>2
  <2> QED
    BY <2>1, <2>3, <2>4
<1> QED
  BY <1>3, <1>4, <1>5, <1>6

\* The channel and the way of a payload sent by number name its stream.
LEMMA OneStream ==
  ASSUME IInv, NEW c \in Clients, LinkShape(down[c], sent),
         NEW s \in Streams, NEW i \in Loaded(down[c][s]),
         NEW t \in Streams, NEW j \in Loaded(down[c][t]),
         SameWay(Load(down[c][s], i), Load(down[c][t], j))
  PROVE  s = t
<1> DEFINE m == down[c][s][i]
           k == down[c][t][j]
           a == Load(down[c][s], i)
           b == Load(down[c][t], j)
<1>1. a.id = b.id /\ a.via = b.via /\ a.via # "idChannel" /\ b.via # "idChannel"
  BY DEF SameWay
<1>2. m.num \in Nums /\ SessionIds[m.num] # NoId /\ a.id = SessionIds[m.num] /\ s = <<a.via, m.num>>
  BY <1>1, LoadOrigin
<1>3. k.num \in Nums /\ SessionIds[k.num] # NoId /\ b.id = SessionIds[k.num] /\ t = <<b.via, k.num>>
  BY <1>1, LoadOrigin
<1> HIDE DEF m, k, a, b
<1>4. m.num = k.num
  BY <1>1, <1>2, <1>3, SessionIdsInjective
<1> QED
  BY <1>1, <1>2, <1>3, <1>4

\* Payloads of one channel wait for one number.
LEMMA WaitingIds ==
  ASSUME IInv, NEW c \in Clients, Joined(c), NEW n \in Nums
  PROVE  /\ \A k \in DOMAIN todo[c][n] : todo[c][n][k].id = SessionIds[n] /\ SessionIds[n] # NoId
         /\ \A m \in Nums : \A i \in DOMAIN todo[c][m], j \in DOMAIN todo[c][n] :
              todo[c][m][i].id = todo[c][n][j].id => m = n
<1>1. ASSUME NEW m \in Nums, NEW k \in DOMAIN todo[c][m]
      PROVE  todo[c][m][k].id = SessionIds[m] /\ SessionIds[m] # NoId
  <2>1. /\ todo[c][m] # <<>> => SessionIds[m] # NoId
        /\ todo[c][m] \in Seq(PayloadsOf(SessionIds[m]))
    BY DEF IInv, ClientInv
  <2>2. k \in 1 .. Len(todo[c][m])
    BY <2>1, LenProperties
  <2>3. todo[c][m][k] \in PayloadsOf(SessionIds[m])
    BY <2>1, <2>2, ElementOfSeq
  <2>4. todo[c][m] # <<>>
    BY <2>2, EmptySeq
  <2> QED
    BY <2>1, <2>3, <2>4 DEF PayloadsOf
<1> QED
  BY <1>1, SessionIdsInjective

-----------------------------------------------------------------------------
(* The invariant of one client *)

SafeKept(c) == \A u \in owed[c] : Kept(u, down[c], todo[c], handed[c])
Asked(c) == \A n \in Nums : host = "running" /\ todo[c][n] # <<>> =>
              OnOrdered(up[c], n) \/ OnOrdered(down[c], n)

Delivers(c) ==
  /\ LinkPart(down[c], handed[c], sent)
  /\ Joined(c) => /\ TodoPart(down[c], todo[c], handed[c], sent)
                  /\ SafeKept(c)
                  /\ Asked(c)

LEMMA DeliversIsDelivery == DeliveryInv <=> \A c \in Clients : Delivers(c)
BY DEF DeliveryInv, Delivers, LinkPart, TodoPart, SafeKept, Asked

LEMMA DeliversIsDeliveryNext == (\A c \in Clients : (Delivers(c))') => DeliveryInv'
BY DEF DeliveryInv, Delivers, LinkPart, TodoPart, SafeKept, Asked

\* A client that a step leaves alone.
LEMMA SameClient ==
  ASSUME NEW c \in Clients, Delivers(c),
         down'[c] = down[c], todo'[c] = todo[c], handed'[c] = handed[c], sent' = sent,
         owed'[c] = owed[c], up'[c] = up[c],
         (Joined(c))' => Joined(c), host' = "running" => host = "running"
  PROVE  (Delivers(c))'
<1>1. (LinkPart(down[c], handed[c], sent))'
  BY DEF Delivers
<1>2. ASSUME (Joined(c))'
      PROVE  /\ (TodoPart(down[c], todo[c], handed[c], sent))'
             /\ (SafeKept(c))' /\ (Asked(c))'
  BY <1>2 DEF Delivers, SafeKept, Asked
<1> QED
  BY <1>1, <1>2 DEF Delivers

\* Nothing is on the way on a link that is new or gone.
LEMMA NothingOnTheWay ==
  ASSUME NEW l, NEW h, NEW last, LinkPart(l, h, last)
  PROVE  LinkPart(EmptyLink, h, last)
<1>1. \A s \in Streams : DOMAIN EmptyLink[s] = {} /\ Loaded(EmptyLink[s]) = {}
  BY EmptySeq DEF EmptyLink, Loaded
<1> QED
  BY <1>1 DEF LinkPart, LinkShape, LinkOrder, LinkAfterHanded

LEMMA NothingHanded ==
  ASSUME NEW l, NEW h, NEW last, LinkPart(l, h, last)
  PROVE  /\ LinkPart(l, <<>>, last)
         /\ TodoPart(l, EmptyTodo, <<>>, last)
<1>1. \A n \in Nums : DOMAIN EmptyTodo[n] = {}
  BY EmptySeq DEF EmptyTodo
<1>2. \A h2 : h2 = <<>> => DOMAIN h2 = {}
  BY EmptySeq
<1>3. LinkPart(l, <<>>, last)
  BY <1>2 DEF LinkPart, HandedOrder, LinkAfterHanded
<1>4. TodoPart(l, EmptyTodo, <<>>, last)
  BY <1>1 DEF TodoPart, TodoOrder, LinkAfterTodo, TodoAfterHanded
<1> QED
  BY <1>3, <1>4

-----------------------------------------------------------------------------
(* The life of a session *)

LEMMA InitDelivery == Init => DeliveryInv
<1> SUFFICES ASSUME Init, NEW c \in Clients PROVE Delivers(c)
  BY DeliversIsDelivery
<1>1. down[c] = EmptyLink /\ handed[c] = <<>> /\ ~Joined(c)
  BY NodesProperties DEF Init, Joined
<1>2. \A s \in Streams : DOMAIN EmptyLink[s] = {} /\ Loaded(EmptyLink[s]) = {}
  BY EmptySeq DEF EmptyLink, Loaded
<1>3. LinkPart(EmptyLink, <<>>, sent)
  <2>1. \A h : h = <<>> => DOMAIN h = {}
    BY EmptySeq
  <2> QED
    BY <1>2, <2>1 DEF LinkPart, LinkShape, LinkOrder, HandedOrder, LinkAfterHanded
<1> QED
  BY <1>1, <1>3 DEF Delivers

\* The steps of the UI that open and stop sessions, and those that only look.
LEMMA QuietStepDelivery ==
  ASSUME DeliveryInv, UNCHANGED <<todo, up, down, sent, handed, owed>>,
         \A c \in Clients : (Joined(c))' => Joined(c), host' = "running" => host = "running"
  PROVE  DeliveryInv'
<1>1. ASSUME NEW c \in Clients PROVE (Delivers(c))'
  BY DeliversIsDelivery, SameClient
<1> QED
  BY <1>1, DeliversIsDeliveryNext

LEMMA StartHostDelivery == ASSUME IInv, DeliveryInv, StartHost PROVE DeliveryInv'
<1> SUFFICES ASSUME NEW c \in Clients PROVE (Delivers(c))'
  BY DeliversIsDeliveryNext
<1>1. /\ UNCHANGED <<client, todo, up, down, sent, owed>>
      /\ host = "opened" /\ handed' = [handed EXCEPT ![Host] = <<>>]
  BY DEF StartHost
<1>2. handed'[c] = handed[c]
  BY <1>1, NodesProperties DEF IInv, TypeOK
<1>3. Delivers(c) /\ ((Joined(c))' => Joined(c))
  BY <1>1, DeliversIsDelivery DEF Joined
<1>4. (LinkPart(down[c], handed[c], sent))'
  BY <1>1, <1>2, <1>3 DEF Delivers
<1>5. ASSUME (Joined(c))'
      PROVE  (TodoPart(down[c], todo[c], handed[c], sent))' /\ (SafeKept(c))'
  BY <1>1, <1>2, <1>3, <1>5 DEF Delivers, SafeKept
<1>6. ASSUME (Joined(c))'
      PROVE  (Asked(c))'
  <2>1. \A n \in Nums : todo[c][n] = <<>>
    <3>1. SessionIds = EmptyIds
      BY <1>1 DEF SessionIds, InSession
    <3> QED
      BY <1>3, <1>6, <3>1 DEF IInv, ClientInv, EmptyIds
  <2> QED
    BY <1>1, <2>1 DEF Asked
<1> QED
  BY <1>4, <1>5, <1>6 DEF Delivers

\* A link that is gone takes nothing with it that the client still needs.
LEMMA LinkGoneDelivery ==
  ASSUME NEW c \in Clients, Delivers(c), ~(Joined(c))',
         down'[c] = EmptyLink, handed'[c] = handed[c], sent' = sent
  PROVE  (Delivers(c))'
<1>1. (LinkPart(down[c], handed[c], sent))'
  BY NothingOnTheWay DEF Delivers
<1> QED
  BY <1>1 DEF Delivers

LEMMA CloseServerDelivery == ASSUME IInv, DeliveryInv, CloseServer PROVE DeliveryInv'
<1> SUFFICES ASSUME NEW c \in Clients PROVE (Delivers(c))'
  BY DeliversIsDeliveryNext
<1>1. Delivers(c)
  BY DeliversIsDelivery
<1>2. ~(Joined(c))' /\ down'[c] = EmptyLink /\ handed' = handed /\ sent' = sent
  BY DEF IInv, TypeOK, CloseServer, Joined, Unlinked, ClientStates
<1> QED
  BY <1>1, <1>2, LinkGoneDelivery

LEMMA DropLinkDelivery ==
  ASSUME IInv, DeliveryInv, NEW c \in Clients, Leave(c) \/ LoseConnection(c)
  PROVE  DeliveryInv'
<1>1. /\ Linked(c) /\ DropLink(c) /\ UNCHANGED <<todo, sent, handed, owed>>
      /\ host' = "running" => host = "running"
  BY DEF Leave, LoseConnection, Linked
<1>2. ASSUME NEW d \in Clients PROVE (Delivers(d))'
  <2>1. Delivers(d)
    BY DeliversIsDelivery
  <2>2. CASE d = c
    BY <1>1, <2>1, <2>2, DropLinkProperties, LinkGoneDelivery DEF Joined
  <2>3. CASE d # c
    BY <1>1, <2>1, <2>3, DropLinkProperties, SameClient DEF Joined
  <2> QED
    BY <2>2, <2>3
<1> QED
  BY <1>2, DeliversIsDeliveryNext

LEMMA StartClientDelivery ==
  ASSUME IInv, DeliveryInv, NEW c \in Clients, StartClient(c)
  PROVE  DeliveryInv'
<1>1. /\ client' = [client EXCEPT ![c] = "joined"]
      /\ todo' = [todo EXCEPT ![c] = EmptyTodo]
      /\ handed' = [handed EXCEPT ![c] = <<>>]
      /\ owed' = [owed EXCEPT ![c] = {}]
      /\ ToHost(c, FullSendPacket, ReservedStream(c))
      /\ UNCHANGED <<host, down, sent>>
  BY DEF StartClient
<1>2. /\ client \in [Clients -> ClientStates] /\ todo \in [Clients -> [Nums -> Seq(Payload)]]
      /\ handed \in [Nodes -> Seq(Handed)] /\ owed \in [Clients -> SUBSET Nat]
      /\ up \in [Clients -> [Streams -> Seq(Packet)]]
  BY DEF IInv, TypeOK
<1>3. ASSUME NEW d \in Clients PROVE (Delivers(d))'
  <2>1. Delivers(d)
    BY DeliversIsDelivery
  <2>2. CASE d = c
    <3>1. todo'[c] = EmptyTodo /\ handed'[c] = <<>> /\ owed'[c] = {} /\ down'[c] = down[c]
      BY <1>1, <1>2, NodesProperties
    <3>2. LinkPart(down[c], <<>>, sent) /\ TodoPart(down[c], EmptyTodo, <<>>, sent)
      BY <2>1, <2>2, NothingHanded DEF Delivers
    <3>3. (LinkPart(down[c], handed[c], sent))' /\ (TodoPart(down[c], todo[c], handed[c], sent))'
      BY <1>1, <3>1, <3>2
    <3>4. (SafeKept(c))' /\ (Asked(c))'
      BY <3>1 DEF SafeKept, Asked, EmptyTodo
    <3> QED
      BY <2>2, <3>3, <3>4 DEF Delivers
  <2>3. CASE d # c
    <3>1. /\ client'[d] = client[d] /\ todo'[d] = todo[d] /\ handed'[d] = handed[d]
          /\ owed'[d] = owed[d] /\ up'[d] = up[d]
      BY <1>1, <1>2, <2>3, NodesProperties DEF ToHost
    <3> QED
      BY <1>1, <2>1, <3>1, SameClient DEF Joined
  <2> QED
    BY <2>2, <2>3
<1> QED
  BY <1>3, DeliversIsDeliveryNext

-----------------------------------------------------------------------------
(* Sending *)

\* What a broadcast and a packet to the host do to the links of a client.
LEMMA BroadcastPuts ==
  ASSUME TypeOK, NEW c \in Clients, NEW m, NEW s, Broadcast(m, s)
  PROVE  /\ HostCanSend /\ Linked(c) => down'[c] = PutOn(down[c], s, m)
         /\ ~(HostCanSend /\ Linked(c)) => down'[c] = down[c]
BY DEF Broadcast, PutOn, TypeOK

LEMMA ToHostPuts ==
  ASSUME TypeOK, NEW c \in Clients, NEW m, NEW s, ToHost(c, m, s)
  PROVE  /\ Linked(c) => up'[c] = PutOn(up[c], s, m)
         /\ ~Linked(c) => up'[c] = up[c]
         /\ \A d \in Clients \ {c} : up'[d] = up[d]
<1>1. up \in [Clients -> [Streams -> Seq(Packet)]]
  BY DEF TypeOK
<1>2. CASE Linked(c)
  <2>1. up' = [up EXCEPT ![c] = [up[c] EXCEPT ![s] = Append(@, m)]]
    BY <1>1, <1>2 DEF ToHost
  <2> QED
    BY <1>1, <1>2, <2>1 DEF PutOn
<1>3. CASE ~Linked(c)
  BY <1>3 DEF ToHost
<1> QED
  BY <1>2, <1>3

\* The packet of a send fits the stream it goes on.
LEMMA DataPacketShape ==
  ASSUME NEW p \in PendingSend, NEW n \in Nodes
  PROVE  LET m == DataPacket(p)
             s == StreamOf(n, p)
         IN  /\ m.type \in {"channel", "idChannel"}
             /\ Len(m.body) = 1 /\ m.body # <<>> /\ m.body[1].uid = sent + 1
             /\ m.type = "idChannel" => m.body[1].via = "idChannel"
             /\ m.type = "channel" => s = <<m.body[1].via, m.num>>
             /\ p.safe \/ p.named => s[1] = "ordered"
<1> DEFINE b == [id  |-> p.ch,
                 uid |-> sent + 1,
                 via |-> IF p.named THEN "idChannel"
                         ELSE IF p.safe THEN "ordered" ELSE "sequenced"]
           m == DataPacket(p)
           s == StreamOf(n, p)
<1>1. m.body = <<b>> /\ m.num = p.num /\ m.type = IF p.named THEN "idChannel" ELSE "channel"
  BY DEF DataPacket
<1>2. b.uid = sent + 1 /\ b.via = IF p.named THEN "idChannel"
                                  ELSE IF p.safe THEN "ordered" ELSE "sequenced"
  OBVIOUS
<1>3. Len(m.body) = 1 /\ m.body[1] = b
  <2> HIDE DEF b, m
  <2> QED
    BY <1>1
<1>4. m.body # <<>>
  <2> HIDE DEF b, m
  <2> QED
    BY <1>3, NotEmpty
<1>5. /\ p.named => s = <<"ordered", sentReserved[n]>>
      /\ ~p.named => s = <<IF p.safe THEN "ordered" ELSE "sequenced", p.num>>
  BY DEF StreamOf, ReservedStream
<1>6. p.safe \/ p.named => s[1] = "ordered"
  <2> HIDE DEF s
  <2> QED
    BY <1>5
<1>7. m.type = "channel" => s = <<m.body[1].via, m.num>>
  <2> HIDE DEF s, m, b
  <2> QED
    BY <1>1, <1>2, <1>3, <1>5
<1> QED
  <2> HIDE DEF s, m, b
  <2>1. m.type \in {"channel", "idChannel"} /\ (m.type = "idChannel" => m.body[1].via = "idChannel")
    BY <1>1, <1>2, <1>3
  <2>2. m.body[1].uid = sent + 1
    BY <1>2, <1>3
  <2> QED
    BY <1>3, <1>4, <1>6, <1>7, <2>1, <2>2 DEF m, s

\* The host puts a payload on the links of its clients.
LEMMA HostPutDelivery ==
  ASSUME IInv, DeliveryInv, NEW p \in PendingSend, p.num \in Nums, HostPut(p),
         UNCHANGED <<host, client, todo, handed, up>>
  PROVE  DeliveryInv'
<1> DEFINE m == DataPacket(p)
           s == StreamOf(Host, p)
<1> SUFFICES ASSUME NEW c \in Clients PROVE (Delivers(c))'
  BY DeliversIsDeliveryNext
<1>1. /\ down[c] \in Links /\ todo[c] \in Todos /\ handed[c] \in Seq(Handed) /\ sent \in Nat
      /\ TypeOK /\ Host \in Nodes /\ owed \in [Clients -> SUBSET Nat]
  BY DeliveryTypes, NodesProperties DEF IInv, TypeOK
<1>2. m \in Packet /\ s \in Streams
  BY <1>1, DataPacketProperties
<1>3. Broadcast(m, s)
  BY DEF HostPut
<1>4. Delivers(c) /\ ((Joined(c))' <=> Joined(c)) /\ (Joined(c) => Linked(c))
  BY DeliversIsDelivery DEF Joined, Linked
<1>5. /\ m.type \in {"channel", "idChannel"}
      /\ Len(m.body) = 1 /\ m.body # <<>> /\ m.body[1].uid = sent + 1
      /\ m.type = "idChannel" => m.body[1].via = "idChannel"
      /\ m.type = "channel" => s = <<m.body[1].via, m.num>>
      /\ p.safe \/ p.named => s[1] = "ordered"
  BY <1>1, DataPacketShape
<1>6. /\ sent' = IF HostCanSend THEN sent + 1 ELSE sent
      /\ owed'[c] = IF HostCanSend /\ Joined(c) /\ (p.safe \/ p.named)
                    THEN owed[c] \union {sent + 1} ELSE owed[c]
  BY <1>1 DEF HostPut
<1> HIDE DEF m, s
<1>7. CASE HostCanSend /\ Linked(c)
  <2>1. down'[c] = PutOn(down[c], s, m) /\ sent' = sent + 1
    BY <1>1, <1>3, <1>6, <1>7, BroadcastPuts
  <2>2. /\ LinkPart(down'[c], handed[c], sent + 1)
        /\ TodoPart(down[c], todo[c], handed[c], sent)
             => TodoPart(down'[c], todo[c], handed[c], sent + 1)
    BY <1>1, <1>2, <1>4, <1>5, <2>1, PutData DEF Delivers
  <2>3. /\ \A u : Kept(u, down[c], todo[c], handed[c]) => Kept(u, down'[c], todo[c], handed[c])
        /\ \A n : OnOrdered(down[c], n) => OnOrdered(down'[c], n)
        /\ p.safe \/ p.named => Kept(sent + 1, down'[c], todo[c], handed[c])
    <3>1. \A u : Kept(u, down[c], todo[c], handed[c]) => Kept(u, down'[c], todo[c], handed[c])
      BY <1>1, <1>2, <2>1, PutKeepsSafe
    <3>2. \A n : OnOrdered(down[c], n) => OnOrdered(down'[c], n)
      BY <1>1, <1>2, <2>1, PutKeepsRequests
    <3>3. s[1] = "ordered" /\ m.body # <<>> => Kept(m.body[1].uid, down'[c], todo[c], handed[c])
      BY <1>1, <1>2, <2>1, PutKeepsSafe
    <3> QED
      BY <1>5, <3>1, <3>2, <3>3
  <2>4. (LinkPart(down[c], handed[c], sent))'
    BY <2>1, <2>2
  <2>5. ASSUME (Joined(c))'
        PROVE  (TodoPart(down[c], todo[c], handed[c], sent))' /\ (SafeKept(c))' /\ (Asked(c))'
    <3>1. (TodoPart(down[c], todo[c], handed[c], sent))'
      BY <1>4, <2>1, <2>2, <2>5 DEF Delivers
    <3>2. (SafeKept(c))'
      BY <1>4, <1>6, <2>3, <2>5 DEF Delivers, SafeKept
    <3>3. (Asked(c))'
      BY <1>4, <2>3, <2>5 DEF Delivers, Asked
    <3> QED
      BY <3>1, <3>2, <3>3
  <2> QED
    BY <2>4, <2>5 DEF Delivers
<1>8. CASE ~(HostCanSend /\ Linked(c))
  <2>1. down'[c] = down[c]
    BY <1>1, <1>3, <1>8, BroadcastPuts
  <2>2. sent' \in Nat /\ sent <= sent'
    BY <1>1, <1>6
  <2>3. /\ LinkPart(down[c], handed[c], sent')
        /\ TodoPart(down[c], todo[c], handed[c], sent) => TodoPart(down[c], todo[c], handed[c], sent')
    BY <1>1, <1>4, <2>2, LastGrows DEF Delivers
  <2>4. (LinkPart(down[c], handed[c], sent))'
    BY <2>1, <2>3
  <2>5. ASSUME (Joined(c))'
        PROVE  (TodoPart(down[c], todo[c], handed[c], sent))' /\ (SafeKept(c))' /\ (Asked(c))'
    <3>1. owed'[c] = owed[c]
      BY <1>4, <1>6, <1>8, <2>5
    <3> QED
      BY <1>4, <2>1, <2>3, <2>5, <3>1 DEF Delivers, SafeKept, Asked
  <2> QED
    BY <2>4, <2>5 DEF Delivers
<1> QED
  BY <1>7, <1>8

LEMMA HostSendDelivery ==
  ASSUME IInv, DeliveryInv, NEW p \in pending[Host], HostSend(p)
  PROVE  DeliveryInv'
<1>1. p \in PendingSend /\ p.num \in Nums
  BY NodesProperties DEF IInv, TypeOK, PendingInv
<1> QED
  BY <1>1, HostPutDelivery DEF HostSend

LEMMA FullStateStepDelivery ==
  ASSUME IInv, DeliveryInv, NEW ch \in fullState, NEW safe \in BOOLEAN, FullStateStep(ch, safe)
  PROVE  DeliveryInv'
<1> DEFINE p == [ch |-> ch, num |-> HostNum(ch), named |-> idToNum[Host][ch] = 0, safe |-> safe]
<1>1. HostPut(p) /\ CreateIdNum(ch) /\ UNCHANGED <<host, client, todo, handed, up>>
  BY DEF FullStateStep
<1>2. ch \in Channels /\ InSession /\ InSession'
  BY <1>1 DEF IInv, TypeOK, SessionInv, HostMode, InSession
<1>3. HostNum(ch) \in Nums
  BY <1>1, <1>2, NumberingProperties
<1>4. p \in PendingSend /\ p.num \in Nums
  BY <1>2, <1>3 DEF PendingSend
<1> HIDE DEF p
<1> QED
  BY <1>1, <1>4, HostPutDelivery

LEMMA ClientSendDelivery ==
  ASSUME IInv, DeliveryInv, NEW c \in Clients, NEW p \in pending[c], ClientSend(c, p)
  PROVE  DeliveryInv'
<1> DEFINE m == DataPacket(p)
           s == StreamOf(c, p)
<1>1. /\ UNCHANGED <<host, client, todo, down, handed, owed>>
      /\ ToHost(c, m, s)
      /\ sent' = IF Linked(c) THEN sent + 1 ELSE sent
      /\ TypeOK /\ c \in Nodes /\ p \in PendingSend
  BY NodesProperties DEF ClientSend, IInv, TypeOK
<1>2. Linked(c) => m \in Packet /\ s \in Streams
  <2>1. Linked(c) => p.named \/ p.num \in Nums
    BY DEF IInv, PendingInv
  <2>2. p.num \in {0} \union Nums
    BY <1>1 DEF PendingSend
  <2> QED
    BY <1>1, <2>1, <2>2, DataPacketProperties
<1> HIDE DEF m, s
<1>3. ASSUME NEW d \in Clients PROVE (Delivers(d))'
  <2>1. /\ down[d] \in Links /\ up[d] \in Links /\ todo[d] \in Todos
        /\ handed[d] \in Seq(Handed) /\ sent \in Nat
    BY <1>1, DeliveryTypes
  <2>2. Delivers(d) /\ ((Joined(d))' <=> Joined(d))
    BY <1>1, DeliversIsDelivery DEF Joined
  <2>3. sent' \in Nat /\ sent <= sent'
    BY <1>1, <2>1
  <2>4. /\ LinkPart(down[d], handed[d], sent')
        /\ TodoPart(down[d], todo[d], handed[d], sent) => TodoPart(down[d], todo[d], handed[d], sent')
    BY <2>1, <2>2, <2>3, LastGrows DEF Delivers
  <2>5. \A n : OnOrdered(up[d], n) => OnOrdered(up'[d], n)
    <3>1. CASE d = c /\ Linked(c)
      <4>1. up'[c] = PutOn(up[c], s, m)
        BY <1>1, <3>1, ToHostPuts
      <4> QED
        BY <1>2, <2>1, <3>1, <4>1, PutKeepsRequests
    <3>2. CASE ~(d = c /\ Linked(c))
      BY <1>1, <3>2, ToHostPuts
    <3> QED
      BY <3>1, <3>2
  <2>6. (LinkPart(down[d], handed[d], sent))'
    BY <1>1, <2>4
  <2>7. ASSUME (Joined(d))'
        PROVE  (TodoPart(down[d], todo[d], handed[d], sent))' /\ (SafeKept(d))' /\ (Asked(d))'
    <3>1. (TodoPart(down[d], todo[d], handed[d], sent))'
      BY <1>1, <2>2, <2>4, <2>7 DEF Delivers
    <3>2. (SafeKept(d))' /\ (Asked(d))'
      BY <1>1, <2>2, <2>5, <2>7 DEF Delivers, SafeKept, Asked
    <3> QED
      BY <3>1, <3>2
  <2> QED
    BY <2>6, <2>7 DEF Delivers
<1> QED
  BY <1>3, DeliversIsDeliveryNext

-----------------------------------------------------------------------------
(* Receiving, on the host *)

\* The packet that arrives, as the take of a link.
LEMMA ArrivalTaken ==
  ASSUME NEW l \in Links, NEW s \in Streams, NEW i \in Arrivals(l[s], s[1])
  PROVE  i \in 1 .. Len(l[s]) /\ (s[1] = "ordered" => i = 1)
BY DEF Arrivals

LEMMA AnswerFits ==
  ASSUME NEW num \in Nums, NEW id \in Ids
  PROVE  LET m == IdNumPacket(num, id)
         IN  m \in Packet /\ m.body = <<>> /\ m.type = "idNum" /\ m.num = num
BY NodesProperties, EmptySeq DEF IdNumPacket, Packet, PacketTypes

\* What the host answers adds to what is on the way to a client, and takes a
\* request away only where it answers it.
LEMMA AnsweredDelivery ==
  ASSUME IInv, NEW c \in Clients, Delivers(c), UNCHANGED <<host, client, todo, sent, owed>>,
         handed'[c] = handed[c],
         \/ down'[c] = down[c]
         \/ \E s \in Streams, m \in Packet :
              m.body = <<>> /\ m.type = "idNum" /\ down'[c] = PutOn(down[c], s, m),
         \A n \in Nums : host = "running" /\ Joined(c) /\ OnOrdered(up[c], n)
                           => OnOrdered(up'[c], n) \/ OnOrdered(down'[c], n)
  PROVE  (Delivers(c))'
<1>1. down[c] \in Links
  BY DeliveryTypes DEF IInv
<1>2. /\ LinkPart(down'[c], handed[c], sent)
      /\ TodoPart(down[c], todo[c], handed[c], sent) => TodoPart(down'[c], todo[c], handed[c], sent)
      /\ \A u : Kept(u, down[c], todo[c], handed[c]) => Kept(u, down'[c], todo[c], handed[c])
      /\ \A n : OnOrdered(down[c], n) => OnOrdered(down'[c], n)
  <2>1. CASE down'[c] = down[c]
    BY <2>1 DEF Delivers
  <2>2. ASSUME NEW s \in Streams, NEW m \in Packet,
               m.body = <<>>, m.type = "idNum", down'[c] = PutOn(down[c], s, m)
        PROVE  <1>2!1 /\ <1>2!2 /\ <1>2!3 /\ <1>2!4
    <3>1. <1>2!1 /\ <1>2!2
      BY <1>1, <2>2, PutAnswer DEF Delivers
    <3>2. <1>2!3
      BY <1>1, <2>2, PutKeepsSafe
    <3>3. <1>2!4
      BY <1>1, <2>2, PutKeepsRequests
    <3> QED
      BY <3>1, <3>2, <3>3
  <2> QED
    BY <2>1, <2>2
<1>3. (Joined(c))' <=> Joined(c)
  BY DEF Joined
<1>4. (LinkPart(down[c], handed[c], sent))'
  BY <1>2
<1>5. ASSUME (Joined(c))'
      PROVE  (TodoPart(down[c], todo[c], handed[c], sent))' /\ (SafeKept(c))' /\ (Asked(c))'
  <2>1. (TodoPart(down[c], todo[c], handed[c], sent))'
    BY <1>2, <1>3, <1>5 DEF Delivers
  <2>2. (SafeKept(c))'
    BY <1>2, <1>3, <1>5 DEF Delivers, SafeKept
  <2>3. (Asked(c))'
    BY <1>2, <1>3, <1>5 DEF Delivers, Asked
  <2> QED
    BY <2>1, <2>2, <2>3
<1> QED
  BY <1>4, <1>5 DEF Delivers

LEMMA HostReceiveDelivery ==
  ASSUME IInv, DeliveryInv, NEW c \in Clients, NEW s \in Streams, HostReceive(c, s)
  PROVE  DeliveryInv'
<1>0. PICK i \in Arrivals(up[c][s], s[1]) :
        /\ up' = [up EXCEPT ![c][s] = Rest(@, i)]
        /\ \/ HostReceiveFullSend(up[c][s][i])
           \/ HostReceiveChannel(up[c][s][i])
           \/ HostReceiveIdChannel(up[c][s][i])
           \/ HostReceiveIdNum(up[c][s][i])
           \/ HostIgnore(up[c][s][i])
  BY DEF HostReceive
<1> DEFINE m == up[c][s][i]
<1>1. m \in UpPackets(SessionIds)
  BY <1>0, HostTakes
<1>2. /\ UNCHANGED <<host, client, todo, sent, owed>> /\ TypeOK
      /\ up \in [Clients -> [Streams -> Seq(Packet)]]
      /\ handed \in [Nodes -> Seq(Handed)]
  BY DEF HostReceive, IInv, TypeOK
<1>3. up'[c] = TakenFrom(up[c], s, i) /\ \A d \in Clients \ {c} : up'[d] = up[d]
  BY <1>0, <1>2 DEF TakenFrom
<1> HIDE DEF m
<1>4. \A d \in Clients : handed'[d] = handed[d]
  BY <1>0, <1>2, NodesProperties
  DEF m, HandTo, HostReceiveFullSend, HostReceiveChannel, HostReceiveIdChannel,
      HostReceiveIdNum, HostIgnore
\* What the host answers, if it does.
<1>5. \/ down' = down /\ ~(host = "running" /\ m.type = "idNum")
      \/ \E num \in Nums, id \in Ids :
           HostReply(num, id) /\ (m.type = "idNum" => num = m.num)
  <2>1. CASE HostReceiveFullSend(m) \/ HostReceiveChannel(m) \/ HostIgnore(m)
    BY <2>1 DEF HostReceiveFullSend, HostReceiveChannel, HostIgnore, HostMode
  <2>2. CASE HostReceiveIdChannel(m)
    <3>1. m.id \in Channels /\ m.id \in Ids
      BY <1>1, <2>2, NodesProperties DEF HostReceiveIdChannel, UpPackets
    <3>2. InSession /\ InSession' /\ CreateIdNum(m.id)
      BY <1>2, <2>2 DEF HostReceiveIdChannel, HostMode, InSession
    <3>3. HostNum(m.id) \in Nums
      BY <3>1, <3>2, NumberingProperties
    <3> QED
      BY <2>2, <3>1, <3>3 DEF HostReceiveIdChannel
  <2>3. CASE HostReceiveIdNum(m)
    <3>1. m.num \in Nums
      BY <1>1, <2>3 DEF HostReceiveIdNum, UpPackets
    <3>2. numToId[Host][m.num] \in Ids
      BY <1>2, <3>1, NodesProperties DEF TypeOK
    <3> QED
      BY <2>3, <3>1, <3>2 DEF HostReceiveIdNum
  <2> QED
    BY <1>0, <2>1, <2>2, <2>3 DEF m
<1>6. ASSUME NEW d \in Clients PROVE (Delivers(d))'
  <2>1. Delivers(d) /\ up[d] \in Links /\ up[c] \in Links /\ (Joined(d) => Linked(d))
    BY <1>2, DeliversIsDelivery, DeliveryTypes DEF Joined, Linked
  <2>2. ASSUME NEW n \in Nums, OnOrdered(up[d], n)
        PROVE  OnOrdered(up'[d], n) \/ (m.type = "idNum" /\ m.num = n)
    <3>1. CASE d = c
      <4>1. i \in 1 .. Len(up[c][s]) /\ (s[1] = "ordered" => i = 1)
        BY <2>1, ArrivalTaken
      <4>2. OnOrdered(up'[c], n) \/ (up[c][s][i].type = "idNum" /\ up[c][s][i].num = n)
        BY <1>3, <2>1, <2>2, <3>1, <4>1, TakeKeepsRequests
      <4> QED
        BY <3>1, <4>2 DEF m
    <3>2. CASE d # c
      BY <1>3, <2>2, <3>2
    <3> QED
      BY <3>1, <3>2
  <2>3. CASE down' = down /\ ~(host = "running" /\ m.type = "idNum")
    BY <1>2, <1>4, <2>1, <2>2, <2>3, AnsweredDelivery
  <2>4. ASSUME NEW num \in Nums, NEW id \in Ids,
               HostReply(num, id), m.type = "idNum" => num = m.num
        PROVE  (Delivers(d))'
    <3> DEFINE a == IdNumPacket(num, id)
               r == ReservedStream(Host)
    <3>1. a \in Packet /\ a.body = <<>> /\ a.type = "idNum" /\ a.num = num
      BY AnswerFits
    <3>2. r \in Streams /\ r[1] = "ordered"
      BY <1>2, NodesProperties, ReservedProperties DEF ReservedStream
    <3>3. Broadcast(a, r)
      BY <2>4 DEF HostReply
    <3> HIDE DEF a, r
    <3>4. CASE HostCanSend /\ Linked(d)
      <4>1. down'[d] = PutOn(down[d], r, a)
        BY <1>2, <3>3, <3>4, BroadcastPuts
      <4>2. OnOrdered(down'[d], num)
        <5>1. down[d] \in Links
          BY <1>2, DeliveryTypes
        <5> QED
          BY <3>1, <3>2, <4>1, <5>1, PutKeepsRequests
      <4>3. \A n \in Nums : OnOrdered(up[d], n) => OnOrdered(up'[d], n) \/ OnOrdered(down'[d], n)
        BY <2>2, <2>4, <4>2
      <4> QED
        BY <1>2, <1>4, <2>1, <3>1, <3>2, <4>1, <4>3, AnsweredDelivery
    <3>5. CASE ~(HostCanSend /\ Linked(d))
      <4>1. down'[d] = down[d]
        BY <1>2, <3>3, <3>5, BroadcastPuts
      <4>2. ~(host = "running" /\ Joined(d))
        BY <2>1, <3>5 DEF HostCanSend
      <4> QED
        BY <1>2, <1>4, <2>1, <4>1, <4>2, AnsweredDelivery
    <3> QED
      BY <3>4, <3>5
  <2> QED
    BY <1>5, <2>3, <2>4
<1> QED
  BY <1>6, DeliversIsDeliveryNext

-----------------------------------------------------------------------------
(* Receiving, on a client *)

\* What is handed to the channels of a node goes on its history.
LEMMA HandToAppends ==
  ASSUME TypeOK, NEW n \in Nodes, NEW id \in Ids, NEW payloads \in Seq(Payload),
         NEW late \in BOOLEAN, HandTo(n, id, payloads, late)
  PROVE  /\ \E new : EntriesOf(new, payloads, late) /\ handed'[n] = More(handed[n], new)
         /\ \A x \in Nodes \ {n} : handed'[x] = handed[x]
<1> DEFINE new == [k \in 1 .. Len(payloads) |->
                     [to |-> id, body |-> payloads[k], late |-> late,
                      taken |-> id \in registered[n]]]
<1>1. Len(payloads) \in Nat /\ DOMAIN payloads = 1 .. Len(payloads)
      /\ \A k \in 1 .. Len(payloads) : payloads[k] \in Payload
  BY LenProperties, ElementOfSeq
<1>2. new \in [1 .. Len(payloads) -> Handed]
  BY <1>1 DEF Handed
<1>3. new \in Seq(Handed) /\ DOMAIN new = 1 .. Len(payloads)
  <2> HIDE DEF new
  <2>1. new \in Seq(Handed)
    BY <1>1, <1>2, SeqDef
  <2> QED
    BY <1>2, <2>1
<1>4. \A k \in 1 .. Len(payloads) : new[k].body = payloads[k] /\ new[k].late = late
  OBVIOUS
<1>5. handed' = [handed EXCEPT ![n] = handed[n] \o new] /\ handed \in [Nodes -> Seq(Handed)]
  BY DEF HandTo, TypeOK
<1> HIDE DEF new
<1>6. handed'[n] = handed[n] \o new /\ \A x \in Nodes \ {n} : handed'[x] = handed[x]
  BY <1>5
<1>7. EntriesOf(new, payloads, late)
  BY <1>1, <1>3, <1>4 DEF EntriesOf
<1> QED
  BY <1>6, <1>7 DEF More

LEMMA ConcatOne ==
  ASSUME NEW S, NEW q \in Seq(S), NEW r \in Seq(S), Len(r) = 1
  PROVE  q \o r = Append(q, r[1])
<1>1. r[1] \in S
  <2>1. 1 \in 1 .. Len(r)
    OBVIOUS
  <2> QED
    BY <2>1, ElementOfSeq
<1>2. r = <<r[1]>>
  <2>1. <<r[1]>> \in Seq(S) /\ Len(<<r[1]>>) = 1
    BY <1>1
  <2>2. \A i \in 1 .. Len(r) : r[i] = <<r[1]>>[i]
    OBVIOUS
  <2> QED
    BY <2>1, <2>2, SeqEqual
<1>3. Append(q, r[1]) = q \o <<r[1]>>
  BY <1>1, AppendIsConcat
<1> QED
  BY <1>2, <1>3

\* The payload of a packet that a client takes is older than all that comes
\* the same way.
LEMMA ArrivedIsOlder ==
  ASSUME IInv, NEW c \in Clients, LinkPart(down[c], handed[c], sent),
         NEW s \in Streams, NEW i \in Loaded(down[c][s]),
         NEW l2, l2 = TakenFrom(down[c], s, i)
  PROVE  OlderThan(Load(down[c][s], i), l2)
<1>1. down[c] \in Links
  BY DeliveryTypes DEF IInv
<1>2. LinkShape(down[c], sent) /\ LinkOrder(down[c])
  BY DEF LinkPart
<1>3. ASSUME NEW t \in Streams, NEW j \in Loaded(down[c][t]),
             SameWay(Load(down[c][s], i), Load(down[c][t], j))
      PROVE  t = s
  BY <1>2, <1>3, OneStream
<1> QED
  BY <1>1, <1>2, <1>3, TakenIsOlder

\* A payload that is handed on as it arrives.
LEMMA HandedAtOnce ==
  ASSUME IInv, NEW c \in Clients, Delivers(c), Joined(c),
         NEW s \in Streams, NEW i \in Arrivals(down[c][s], s[1]), i \in Loaded(down[c][s]),
         UNCHANGED <<host, client, sent, owed>>,
         todo'[c] = todo[c], up'[c] = up[c], down'[c] = TakenFrom(down[c], s, i),
         NEW p, Len(p) = 1, DOMAIN p = {1}, p[1] = Load(down[c][s], i),
         NEW new, EntriesOf(new, p, FALSE), handed'[c] = More(handed[c], new)
  PROVE  (Delivers(c))'
<1>1. /\ down[c] \in Links /\ todo[c] \in Todos /\ handed[c] \in Seq(Handed)
      /\ i \in 1 .. Len(down[c][s]) /\ (s[1] = "ordered" => i = 1)
  BY DeliveryTypes, ArrivalTaken DEF IInv
<1>2. /\ LinkPart(down[c], handed[c], sent)
      /\ TodoPart(down[c], todo[c], handed[c], sent)
      /\ SafeKept(c) /\ Asked(c)
  BY DEF Delivers
<1>3. OlderThan(Load(down[c][s], i), down'[c])
  BY <1>2, ArrivedIsOlder
<1>4. Load(down[c][s], i).uid <= sent /\ down[c][s][i].type # "idNum"
  BY <1>2, LoadOrigin DEF LinkPart
<1>5. /\ LinkPart(down'[c], handed'[c], sent) /\ TodoPart(down'[c], todo[c], handed'[c], sent)
      /\ \A u : Kept(u, down[c], todo[c], handed[c]) => Kept(u, down'[c], todo[c], handed'[c])
  <2> DEFINE l == down[c]
             l2 == down'[c]
             q == todo[c]
             h == handed[c]
             h2 == handed'[c]
  <2>1. /\ l \in Links /\ q \in Todos /\ h \in Seq(Handed)
        /\ i \in Loaded(l[s]) /\ (s[1] = "ordered" => i = 1) /\ Load(l[s], i).uid <= sent
    BY <1>1, <1>4
  <2>2. LinkPart(l, h, sent) /\ TodoPart(l, q, h, sent)
    BY <1>2
  <2>3. /\ l2 = TakenFrom(l, s, i) /\ OlderThan(Load(l[s], i), l2)
        /\ p[1] = Load(l[s], i) /\ h2 = More(h, new)
    BY <1>3
  <2> HIDE DEF l, l2, q, h, h2
  <2>4. /\ LinkPart(l2, h2, sent) /\ TodoPart(l2, q, h2, sent)
        /\ \A u : Kept(u, l, q, h) => Kept(u, l2, q, h2)
    BY <2>1, <2>2, <2>3, TakeHandsOn
  <2> QED
    BY <2>4 DEF l, l2, q, h, h2
<1>6. \A n : OnOrdered(down[c], n) => OnOrdered(down'[c], n)
  BY <1>1, <1>4, TakeKeepsRequests
<1>7. (LinkPart(down[c], handed[c], sent))' /\ (TodoPart(down[c], todo[c], handed[c], sent))'
  BY <1>5
<1>8. (SafeKept(c))' /\ (Asked(c))'
  BY <1>2, <1>5, <1>6 DEF SafeKept, Asked
<1> QED
  BY <1>7, <1>8 DEF Delivers

\* A payload whose number is not known waits, and its number is asked for.
LEMMA WaitsForNumber ==
  ASSUME IInv, NEW c \in Clients, Delivers(c), Joined(c),
         NEW s \in Streams, NEW i \in Arrivals(down[c][s], s[1]), i \in Loaded(down[c][s]),
         UNCHANGED <<host, client, sent, owed>>,
         down[c][s][i].type = "channel", NEW num, num = down[c][s][i].num,
         handed'[c] = handed[c], down'[c] = TakenFrom(down[c], s, i),
         todo'[c] = Waits(todo[c], num, Load(down[c][s], i)),
         \A n : OnOrdered(up[c], n) => OnOrdered(up'[c], n),
         OnOrdered(up'[c], num)
  PROVE  (Delivers(c))'
<1>1. /\ down[c] \in Links /\ todo[c] \in Todos /\ handed[c] \in Seq(Handed)
      /\ i \in 1 .. Len(down[c][s]) /\ (s[1] = "ordered" => i = 1)
  BY DeliveryTypes, ArrivalTaken DEF IInv
<1>2. /\ LinkPart(down[c], handed[c], sent)
      /\ TodoPart(down[c], todo[c], handed[c], sent)
      /\ SafeKept(c) /\ Asked(c)
  BY DEF Delivers
<1>3. OlderThan(Load(down[c][s], i), down'[c])
  BY <1>2, ArrivedIsOlder
<1>4. /\ Load(down[c][s], i) \in Payload /\ Load(down[c][s], i).uid <= sent /\ num \in Nums
      /\ Load(down[c][s], i).via \in Kinds /\ Load(down[c][s], i).id = SessionIds[num]
  BY <1>2, LoadOrigin DEF LinkPart
<1>5. /\ Load(down[c][s], i).via # "idChannel"
      /\ \A x \in DOMAIN todo[c][num] : todo[c][num][x].id = Load(down[c][s], i).id
  BY <1>4, WaitingIds DEF Kinds
<1>6. /\ LinkPart(down'[c], handed[c], sent) /\ TodoPart(down'[c], todo'[c], handed[c], sent)
      /\ \A u : Kept(u, down[c], todo[c], handed[c]) => Kept(u, down'[c], todo'[c], handed[c])
      /\ \A n \in Nums \ {num} : todo'[c][n] = todo[c][n]
  BY <1>1, <1>2, <1>3, <1>4, <1>5, TakeWaits
<1>7. \A n : OnOrdered(down[c], n) => OnOrdered(down'[c], n)
  BY <1>1, TakeKeepsRequests
<1>8. (LinkPart(down[c], handed[c], sent))' /\ (TodoPart(down[c], todo[c], handed[c], sent))'
  BY <1>6
<1>9. (SafeKept(c))'
  BY <1>2, <1>6 DEF SafeKept
<1>10. (Asked(c))'
  <2> SUFFICES ASSUME NEW n \in Nums, host = "running", todo'[c][n] # <<>>
               PROVE  OnOrdered(up'[c], n) \/ OnOrdered(down'[c], n)
    BY DEF Asked
  <2>1. CASE n = num
    BY <2>1
  <2>2. CASE n # num
    <3>1. todo[c][n] # <<>>
      BY <1>6, <2>2
    <3> QED
      BY <1>2, <1>7, <3>1 DEF Asked
  <2> QED
    BY <2>1, <2>2
<1> QED
  BY <1>8, <1>9, <1>10 DEF Delivers

\* The answer to a request: all that waits for the number is handed on.
IsAnswer(m, num) == m.type = "idNum" /\ m.num = num

LEMMA AnswerArrives ==
  ASSUME IInv, NEW c \in Clients, Delivers(c), Joined(c),
         NEW s \in Streams, NEW i \in Arrivals(down[c][s], s[1]),
         UNCHANGED <<host, client, sent, owed>>,
         NEW num \in Nums, IsAnswer(down[c][s][i], num),
         down'[c] = TakenFrom(down[c], s, i), up'[c] = up[c],
         todo'[c] = Emptied(todo[c], num),
         NEW new, EntriesOf(new, todo[c][num], TRUE), handed'[c] = More(handed[c], new)
  PROVE  (Delivers(c))'
<1>1. /\ down[c] \in Links /\ todo[c] \in Todos /\ handed[c] \in Seq(Handed)
      /\ i \in 1 .. Len(down[c][s]) /\ (s[1] = "ordered" => i = 1)
  BY DeliveryTypes, ArrivalTaken DEF IInv
<1>2. /\ LinkPart(down[c], handed[c], sent)
      /\ TodoPart(down[c], todo[c], handed[c], sent)
      /\ SafeKept(c) /\ Asked(c)
  BY DEF Delivers
<1>3. IdsApart(todo[c], num)
  BY WaitingIds DEF IdsApart
<1>4. i \notin Loaded(down[c][s])
  BY <1>2, LoadOrigin DEF LinkPart, IsAnswer
<1>5. /\ LinkPart(down'[c], handed'[c], sent) /\ TodoPart(down'[c], todo'[c], handed'[c], sent)
      /\ \A u : Kept(u, down[c], todo[c], handed[c]) => Kept(u, down'[c], todo'[c], handed'[c])
      /\ todo'[c][num] = <<>> /\ \A n \in Nums \ {num} : todo'[c][n] = todo[c][n]
  <2> DEFINE l == down[c]
             l2 == down'[c]
             q == todo[c]
             q2 == todo'[c]
             h == handed[c]
             h2 == handed'[c]
  <2>1. /\ l \in Links /\ q \in Todos /\ h \in Seq(Handed)
        /\ i \in 1 .. Len(l[s]) /\ (s[1] = "ordered" => i = 1) /\ i \notin Loaded(l[s])
    BY <1>1, <1>4
  <2>2. LinkPart(l, h, sent) /\ TodoPart(l, q, h, sent) /\ IdsApart(q, num)
    BY <1>2, <1>3
  <2>3. /\ l2 = TakenFrom(l, s, i) /\ EntriesOf(new, q[num], TRUE)
        /\ h2 = More(h, new) /\ q2 = Emptied(q, num)
    OBVIOUS
  <2> HIDE DEF l, l2, q, q2, h, h2
  <2>4. /\ LinkPart(l2, h2, sent) /\ TodoPart(l2, q2, h2, sent)
        /\ \A u : Kept(u, l, q, h) => Kept(u, l2, q2, h2)
        /\ q2[num] = <<>> /\ \A n \in Nums \ {num} : q2[n] = q[n]
    <3>1. LinkPart(l2, h, sent) /\ TodoPart(l2, q, h, sent)
      BY <2>1, <2>2, <2>3, TakeKeeps
    <3>2. LinkPart(l2, h2, sent) /\ TodoPart(l2, q2, h2, sent)
      BY <2>1, <2>2, <2>3, <3>1, HandWaitingKeeps
    <3>3. q2[num] = <<>> /\ \A n \in Nums \ {num} : q2[n] = q[n]
      BY <2>1, <2>3, EmptiedProperties
    <3>5. Carried(q, h, q2, h2)
      BY <2>1, <2>3, AnswerCarries
    <3>4. \A u : Kept(u, l, q, h) => Kept(u, l2, q2, h2)
      BY <2>1, <2>3, <3>5, TakeKeepsSafe
    <3> QED
      BY <3>2, <3>3, <3>4
  <2> QED
    BY <2>4 DEF l, l2, q, q2, h, h2
<1>6. \A n : OnOrdered(down[c], n) => OnOrdered(down'[c], n) \/ num = n
  BY <1>1, TakeKeepsRequests DEF IsAnswer
<1>7. (LinkPart(down[c], handed[c], sent))' /\ (TodoPart(down[c], todo[c], handed[c], sent))'
  BY <1>5
<1>8. (SafeKept(c))'
  BY <1>2, <1>5 DEF SafeKept
<1>9. (Asked(c))'
  BY <1>2, <1>5, <1>6 DEF Asked
<1> QED
  BY <1>7, <1>8, <1>9 DEF Delivers

\* A packet that hands its payload to a channel at once, whether it names the
\* channel or the client knows the number.
LEMMA HandsAtOnce ==
  ASSUME IInv, NEW c \in Clients, Delivers(c), Joined(c),
         NEW s \in Streams, NEW i \in Arrivals(down[c][s], s[1]),
         UNCHANGED <<host, client, sent, owed>>,
         todo' = todo, up' = up, down'[c] = TakenFrom(down[c], s, i),
         NEW m, m = down[c][s][i], m \in DownPackets(SessionNums, SessionIds), m.type # "idNum",
         NEW id \in Ids, HandTo(c, id, m.body, FALSE)
  PROVE  (Delivers(c))'
<1>1. i \in 1 .. Len(down[c][s]) /\ down[c] \in Links /\ TypeOK /\ c \in Nodes
  BY ArrivalTaken, DeliveryTypes, NodesProperties DEF IInv
<1>2. i \in DOMAIN down[c][s]
  BY <1>1, LoadType
<1>3. Len(m.body) = 1
  BY <1>2 DEF Delivers, LinkPart, LinkShape
<1>4. i \in Loaded(down[c][s])
  BY <1>2, <1>3, NotEmpty DEF Loaded
<1>5. m.body \in Seq(Payload)
  BY DEF DownPackets, Packet
<1>6. DOMAIN m.body = {1}
  BY <1>3, <1>5, LenProperties
<1>7. m.body[1] = Load(down[c][s], i)
  BY DEF Load
<1>8. PICK new : EntriesOf(new, m.body, FALSE) /\ handed'[c] = More(handed[c], new)
  BY <1>1, <1>5, HandToAppends
<1>9. todo'[c] = todo[c] /\ up'[c] = up[c]
  OBVIOUS
<1> DEFINE p == m.body
<1>10. /\ Len(p) = 1 /\ DOMAIN p = {1} /\ p[1] = Load(down[c][s], i)
       /\ EntriesOf(new, p, FALSE)
  BY <1>3, <1>6, <1>7, <1>8
<1> HIDE DEF p
<1> QED
  BY <1>4, <1>8, <1>9, <1>10, HandedAtOnce

\* A packet of a number that the client does not know.
LEMMA AsksForNumber ==
  ASSUME IInv, NEW c \in Clients, Delivers(c),
         NEW s \in Streams, NEW i \in Arrivals(down[c][s], s[1]),
         UNCHANGED <<host, client, sent, owed>>,
         down'[c] = TakenFrom(down[c], s, i),
         NEW m, m = down[c][s][i], m \in DownPackets(SessionNums, SessionIds),
         ClientReceiveUnknown(c, m)
  PROVE  (Delivers(c))' /\ \A d \in Clients \ {c} : up'[d] = up[d] /\ todo'[d] = todo[d]
<1>1. /\ i \in 1 .. Len(down[c][s]) /\ down[c] \in Links /\ todo[c] \in Todos /\ TypeOK
      /\ c \in Nodes /\ up[c] \in Links /\ todo \in [Clients -> Todos] /\ Linked(c) /\ Joined(c)
  BY ArrivalTaken, DeliveryTypes, NodesProperties
  DEF IInv, TypeOK, Todos, ClientReceiveUnknown, Joined, Linked
<1>2. i \in DOMAIN down[c][s] /\ m.type = "channel" /\ m.num \in Nums
  BY <1>1, LoadType DEF ClientReceiveUnknown, DownPackets
<1>3. Len(m.body) = 1 /\ m.body \in Seq(Payload) /\ m.body[1] = Load(down[c][s], i)
  BY <1>2 DEF Delivers, LinkPart, LinkShape, DownPackets, Packet, Load
<1>4. i \in Loaded(down[c][s])
  BY <1>2, <1>3, NotEmpty DEF Loaded
<1> DEFINE num == m.num
           a == IdNumPacket(num, NoId)
           r == ReservedStream(c)
<1>5. todo[c][num] \o m.body = Append(todo[c][num], Load(down[c][s], i))
  <2>1. todo[c][num] \in Seq(Payload)
    BY <1>1, <1>2 DEF Todos
  <2> QED
    BY <1>3, <2>1, ConcatOne
<1>6. /\ todo'[c] = Waits(todo[c], num, Load(down[c][s], i))
      /\ \A d \in Clients \ {c} : todo'[d] = todo[d]
  <2>1. todo' = [todo EXCEPT ![c] = [todo[c] EXCEPT ![num] = todo[c][num] \o m.body]]
    BY <1>1 DEF ClientReceiveUnknown
  <2>2. /\ todo'[c] = [todo[c] EXCEPT ![num] = todo[c][num] \o m.body]
        /\ \A d \in Clients \ {c} : todo'[d] = todo[d]
    BY <1>1, <2>1
  <2> QED
    BY <1>5, <2>2 DEF Waits
<1>7. a \in Packet /\ a.type = "idNum" /\ a.num = num
  BY <1>2, NodesProperties, AnswerFits
<1>8. r \in Streams /\ r[1] = "ordered"
  BY <1>1, ReservedProperties DEF ReservedStream
<1>9. ToHost(c, a, r) /\ handed' = handed
  BY DEF ClientReceiveUnknown
<1> HIDE DEF a, r
<1>10. up'[c] = PutOn(up[c], r, a) /\ \A d \in Clients \ {c} : up'[d] = up[d]
  BY <1>1, <1>9, ToHostPuts
<1>11. /\ \A n : OnOrdered(up[c], n) => OnOrdered(up'[c], n)
       /\ OnOrdered(up'[c], num)
  BY <1>1, <1>7, <1>8, <1>10, PutKeepsRequests
<1>12. num = down[c][s][i].num /\ down[c][s][i].type = "channel" /\ handed'[c] = handed[c]
  BY <1>2, <1>9
<1> HIDE DEF num
<1>13. (Delivers(c))'
  BY <1>1, <1>4, <1>6, <1>11, <1>12, WaitsForNumber
<1> QED
  BY <1>6, <1>10, <1>13

\* The answer to a request, with what it sets free.
LEMMA SetsFree ==
  ASSUME IInv, NEW c \in Clients, Delivers(c),
         NEW s \in Streams, NEW i \in Arrivals(down[c][s], s[1]),
         UNCHANGED <<host, client, sent, owed>>,
         down'[c] = TakenFrom(down[c], s, i),
         NEW m, m = down[c][s][i], m \in DownPackets(SessionNums, SessionIds),
         ClientReceiveIdNum(c, m)
  PROVE  (Delivers(c))' /\ \A d \in Clients \ {c} : up'[d] = up[d] /\ todo'[d] = todo[d]
<1>1. /\ TypeOK /\ c \in Nodes /\ todo[c] \in Todos /\ todo \in [Clients -> Todos]
      /\ Joined(c) /\ up' = up
  BY DeliveryTypes, NodesProperties DEF IInv, TypeOK, Todos, ClientReceiveIdNum
<1>2. m.type = "idNum" /\ m.num \in Nums /\ m.id \in Ids
  BY NodesProperties DEF ClientReceiveIdNum, DownPackets
<1> DEFINE num == m.num
           id == m.id
<1>3. IsAnswer(down[c][s][i], num)
  BY <1>2 DEF IsAnswer
<1>4. /\ HandTo(c, id, todo[c][num], TRUE)
      /\ todo' = [todo EXCEPT ![c] = [todo[c] EXCEPT ![num] = <<>>]]
  BY <1>1 DEF ClientReceiveIdNum
<1>5. num \in Nums /\ id \in Ids
  BY <1>2
<1> HIDE DEF num, id
<1>6. todo'[c] = Emptied(todo[c], num) /\ \A d \in Clients \ {c} : todo'[d] = todo[d]
  BY <1>1, <1>4 DEF Emptied
<1>7. todo[c][num] \in Seq(Payload)
  BY <1>1, <1>5 DEF Todos
<1>8. PICK new : EntriesOf(new, todo[c][num], TRUE) /\ handed'[c] = More(handed[c], new)
  BY <1>1, <1>4, <1>5, <1>7, HandToAppends
<1>9. up'[c] = up[c]
  BY <1>1
<1>10. (Delivers(c))'
  BY <1>1, <1>3, <1>5, <1>6, <1>8, <1>9, AnswerArrives
<1> QED
  BY <1>1, <1>6, <1>10

\* A packet that arrives after the session has ended.
LEMMA ArrivesTooLate ==
  ASSUME IInv, NEW c \in Clients, Delivers(c), ~Joined(c),
         NEW s \in Streams, NEW i \in Arrivals(down[c][s], s[1]),
         UNCHANGED <<host, client, sent, owed>>,
         handed'[c] = handed[c], down'[c] = TakenFrom(down[c], s, i)
  PROVE  (Delivers(c))'
<1>1. i \in 1 .. Len(down[c][s]) /\ down[c] \in Links
  BY ArrivalTaken, DeliveryTypes DEF IInv
<1>2. LinkPart(down'[c], handed[c], sent)
  BY <1>1, TakeKeeps DEF Delivers
<1>3. (LinkPart(down[c], handed[c], sent))'
  BY <1>2
<1>4. ~(Joined(c))'
  BY DEF Joined
<1> QED
  BY <1>3, <1>4 DEF Delivers

LEMMA ClientReceiveDelivery ==
  ASSUME IInv, DeliveryInv, NEW c \in Clients, NEW s \in Streams, ClientReceive(c, s)
  PROVE  DeliveryInv'
<1>0. PICK i \in Arrivals(down[c][s], s[1]) :
        /\ down' = [down EXCEPT ![c][s] = Rest(@, i)]
        /\ \/ ClientReceiveKnown(c, down[c][s][i])
           \/ ClientReceiveUnknown(c, down[c][s][i])
           \/ ClientReceiveIdChannel(c, down[c][s][i])
           \/ ClientReceiveIdNum(c, down[c][s][i])
           \/ ClientIgnore(c)
  BY DEF ClientReceive
<1> DEFINE m == down[c][s][i]
<1>1. m \in DownPackets(SessionNums, SessionIds)
  BY <1>0, ClientTakes
<1>2. /\ UNCHANGED <<host, client, sent, owed>> /\ TypeOK
      /\ down \in [Clients -> [Streams -> Seq(Packet)]]
      /\ handed \in [Nodes -> Seq(Handed)]
      /\ numToId \in [Nodes -> [Nums -> Ids]]
  BY DEF ClientReceive, IInv, TypeOK
<1>3. down'[c] = TakenFrom(down[c], s, i) /\ \A d \in Clients \ {c} : down'[d] = down[d]
  BY <1>0, <1>2 DEF TakenFrom
<1>4. m = down[c][s][i] /\ Delivers(c) /\ c \in Nodes
  BY DeliversIsDelivery, NodesProperties
<1> HIDE DEF m
<1>5. \A d \in Clients \ {c} : handed'[d] = handed[d]
  BY <1>0, <1>2, <1>4, NodesProperties
  DEF m, HandTo, ClientReceiveKnown, ClientReceiveUnknown, ClientReceiveIdChannel,
      ClientReceiveIdNum, ClientIgnore
<1>6. (Delivers(c))' /\ \A d \in Clients \ {c} : up'[d] = up[d] /\ todo'[d] = todo[d]
  <2>1. CASE ClientReceiveKnown(c, m)
    <3> DEFINE id == numToId[c][m.num]
    <3>1. id \in Ids
      BY <1>1, <1>2, <1>4, <2>1 DEF ClientReceiveKnown, DownPackets
    <3>2. /\ Joined(c) /\ m.type # "idNum" /\ HandTo(c, id, m.body, FALSE)
          /\ up' = up /\ todo' = todo
      BY <2>1 DEF ClientReceiveKnown
    <3> HIDE DEF id
    <3> QED
      BY <1>1, <1>2, <1>3, <1>4, <3>1, <3>2, HandsAtOnce
  <2>2. CASE ClientReceiveUnknown(c, m)
    BY <1>1, <1>2, <1>3, <1>4, <2>2, AsksForNumber
  <2>3. CASE ClientReceiveIdChannel(c, m)
    <3> DEFINE id == m.id
    <3>1. id \in Ids
      BY <1>1, <2>3, NodesProperties DEF ClientReceiveIdChannel, DownPackets
    <3>2. /\ Joined(c) /\ m.type # "idNum" /\ HandTo(c, id, m.body, FALSE)
          /\ up' = up /\ todo' = todo
      BY <2>3 DEF ClientReceiveIdChannel
    <3> HIDE DEF id
    <3> QED
      BY <1>1, <1>2, <1>3, <1>4, <3>1, <3>2, HandsAtOnce
  <2>4. CASE ClientReceiveIdNum(c, m)
    BY <1>1, <1>2, <1>3, <1>4, <2>4, SetsFree
  <2>5. CASE ClientIgnore(c)
    <3>1. ~Joined(c) /\ up' = up /\ todo' = todo /\ handed'[c] = handed[c]
      BY <2>5 DEF ClientIgnore
    <3>2. (Delivers(c))'
      BY <1>2, <1>3, <1>4, <3>1, ArrivesTooLate DEF IInv
    <3> QED
      BY <3>1, <3>2
  <2> QED
    BY <1>0, <2>1, <2>2, <2>3, <2>4, <2>5 DEF m
<1>7. ASSUME NEW d \in Clients, d # c
      PROVE  (Delivers(d))'
  <2>1. /\ down'[d] = down[d] /\ todo'[d] = todo[d] /\ handed'[d] = handed[d]
        /\ owed'[d] = owed[d] /\ up'[d] = up[d]
        /\ ((Joined(d))' => Joined(d)) /\ (host' = "running" => host = "running")
    BY <1>2, <1>3, <1>5, <1>6, <1>7 DEF Joined
  <2>2. Delivers(d) /\ sent' = sent
    BY <1>2, DeliversIsDelivery
  <2> QED
    BY <2>1, <2>2, SameClient
<1>8. \A d \in Clients : (Delivers(d))'
  BY <1>6, <1>7
<1> QED
  BY <1>8, DeliversIsDeliveryNext

-----------------------------------------------------------------------------
(* The invariant and what follows from it *)

\* Steps that put nothing on a link, take nothing from one and hand nothing on.
LEMMA QuietSteps ==
  ASSUME IInv, DeliveryInv,
         \/ OpenServer \/ StopHost \/ UNCHANGED vars
         \/ \E c \in Clients : Connect(c) \/ StopClient(c)
         \/ \E n \in Nodes, ch \in Channels :
              Register(n, ch) \/ Unregister(n, ch) \/ \E safe \in BOOLEAN : SendLookup(n, ch, safe)
         \/ \E ch \in fullState : FullStateSkip(ch)
  PROVE  DeliveryInv'
<1>1. /\ UNCHANGED <<todo, up, down, sent, handed, owed>>
      /\ client' = client \/ \E c \in Clients : Connect(c) \/ StopClient(c)
      /\ host' = "running" => host = "running"
  BY DEF OpenServer, StopHost, Connect, StopClient, Register, Unregister, SendLookup,
         FullStateSkip, vars
<1>2. ASSUME NEW c \in Clients, (Joined(c))'
      PROVE  Joined(c)
  <2>1. CASE client' = client
    BY <1>2, <2>1 DEF Joined
  <2>2. ASSUME NEW d \in Clients, Connect(d) \/ StopClient(d)
        PROVE  Joined(c)
    <3>1. client \in [Clients -> ClientStates]
      BY DEF IInv, TypeOK
    <3>2. client'[d] # "joined" /\ (c # d => client'[c] = client[c])
      BY <2>2, <3>1 DEF Connect, StopClient
    <3> QED
      BY <1>2, <3>2 DEF Joined
  <2> QED
    BY <1>1, <2>1, <2>2
<1> QED
  BY <1>1, <1>2, QuietStepDelivery

LEMMA NextDelivery == IInv /\ DeliveryInv /\ [Next]_vars => DeliveryInv'
<1> SUFFICES ASSUME IInv, DeliveryInv, [Next]_vars PROVE DeliveryInv'
  OBVIOUS
<1>1. CASE OpenServer \/ StopHost \/ UNCHANGED vars
  BY <1>1, QuietSteps
<1>2. CASE StartHost
  BY <1>2, StartHostDelivery
<1>3. CASE CloseServer
  BY <1>3, CloseServerDelivery
<1>4. ASSUME NEW c \in Clients, Connect(c) \/ StopClient(c)
      PROVE  DeliveryInv'
  BY <1>4, QuietSteps
<1>5. ASSUME NEW c \in Clients, StartClient(c) \/ Leave(c) \/ LoseConnection(c)
      PROVE  DeliveryInv'
  BY <1>5, StartClientDelivery, DropLinkDelivery
<1>6. ASSUME NEW n \in Nodes, NEW ch \in Channels,
             Register(n, ch) \/ Unregister(n, ch) \/ \E safe \in BOOLEAN : SendLookup(n, ch, safe)
      PROVE  DeliveryInv'
  BY <1>6, QuietSteps
<1>7. ASSUME NEW p \in pending[Host], HostSend(p)
      PROVE  DeliveryInv'
  BY <1>7, HostSendDelivery
<1>8. ASSUME NEW c \in Clients, NEW p \in pending[c], ClientSend(c, p)
      PROVE  DeliveryInv'
  BY <1>8, ClientSendDelivery
<1>9. ASSUME NEW ch \in fullState, NEW safe \in BOOLEAN, FullStateStep(ch, safe)
      PROVE  DeliveryInv'
  BY <1>9, FullStateStepDelivery
<1>10. ASSUME NEW ch \in fullState, FullStateSkip(ch)
       PROVE  DeliveryInv'
  BY <1>10, QuietSteps
<1>11. ASSUME NEW c \in Clients, NEW s \in Streams, HostReceive(c, s) \/ ClientReceive(c, s)
       PROVE  DeliveryInv'
  BY <1>11, HostReceiveDelivery, ClientReceiveDelivery
<1> QED
  BY <1>1, <1>2, <1>3, <1>4, <1>5, <1>6, <1>7, <1>8, <1>9, <1>10, <1>11 DEF Next

\* Every reachable state satisfies the invariant of what is on the way, waits
\* and was handed on, for any clients and any finite set of channels
\* (sendChannelPacket, receive).
THEOREM DeliveryInvariance == Spec => []DeliveryInv
<1>1. IInv /\ DeliveryInv /\ [Next]_vars => DeliveryInv'
  BY NextDelivery
<1> QED
  BY <1>1, InitDelivery, Invariance, PTL DEF Spec

\* A payload on the way is the load of one packet.
LEMMA OnTheWayLoads ==
  ASSUME IInv, NEW c \in Clients, LinkShape(down[c], sent), NEW b
  PROVE  b \in OnTheWay(c) <=> \E s \in Streams : \E i \in Loaded(down[c][s]) : Load(down[c][s], i) = b
<1>1. down[c] \in Links
  BY DeliveryTypes DEF IInv
<1>2. ASSUME NEW s \in Streams, NEW i \in Loaded(down[c][s])
      PROVE  Load(down[c][s], i) \in OnTheWay(c)
  <2>1. i \in DOMAIN down[c][s] /\ Len(down[c][s][i].body) = 1
    BY <1>1, LoadType, LoadOrigin
  <2>2. down[c][s][i].body \in Seq(Payload)
    BY <1>1, <2>1, LoadType
  <2>3. 1 \in DOMAIN down[c][s][i].body
    BY <2>1, <2>2, LenProperties
  <2>4. Load(down[c][s], i) \in PayloadsOn(down[c], s)
    BY <2>1, <2>3 DEF PayloadsOn, Load
  <2> QED
    BY <2>4 DEF OnTheWay
<1>3. ASSUME b \in OnTheWay(c)
      PROVE  \E s \in Streams : \E i \in Loaded(down[c][s]) : Load(down[c][s], i) = b
  <2>1. PICK s \in Streams : b \in PayloadsOn(down[c], s)
    BY <1>3 DEF OnTheWay
  <2>2. PICK i \in DOMAIN down[c][s] : \E k \in DOMAIN down[c][s][i].body : down[c][s][i].body[k] = b
    BY <2>1 DEF PayloadsOn
  <2>3. PICK k \in DOMAIN down[c][s][i].body : down[c][s][i].body[k] = b
    BY <2>2
  <2>4. down[c][s][i].body \in Seq(Payload)
    BY <1>1, LoadType
  <2>5. down[c][s][i].body # <<>>
    BY <2>3, EmptySeq
  <2>6. i \in Loaded(down[c][s])
    BY <2>5 DEF Loaded
  <2>7. Len(down[c][s][i].body) = 1
    BY <2>6, LoadOrigin
  <2>8. k = 1
    BY <2>4, <2>7, LenProperties
  <2> QED
    BY <2>3, <2>6, <2>8 DEF Load
<1> QED
  BY <1>2, <1>3

\* No payload is handed to a client's channels twice, by two packets or by one
\* that waited in todo and stayed there, and what has been handed on is neither
\* waiting nor on the way (receive).
THEOREM NothingHandedTwice == Spec => []HandedOnce
<1>1. IInv /\ DeliveryInv => HandedOnce
  <2> SUFFICES ASSUME IInv, DeliveryInv, NEW c \in Clients
               PROVE  /\ \A j, k \in DOMAIN handed[c] : handed[c][j].body = handed[c][k].body => j = k
                      /\ Joined(c) => /\ HandedOn(c) \intersect (Waiting(c) \union OnTheWay(c)) = {}
                                      /\ Waiting(c) \intersect OnTheWay(c) = {}
    BY DEF HandedOnce
  <2>1. /\ LinkShape(down[c], sent) /\ HandedOrder(handed[c], sent)
        /\ LinkAfterHanded(down[c], handed[c])
    BY DEF DeliveryInv
  <2>2. ASSUME NEW j \in DOMAIN handed[c], NEW k \in DOMAIN handed[c],
               handed[c][j].body = handed[c][k].body, j # k
        PROVE  FALSE
    <3>1. handed[c] \in Seq(Handed)
      BY DeliveryTypes DEF IInv
    <3>2. j \in Nat /\ k \in Nat
      BY <3>1, LenProperties
    <3>3. j < k \/ k < j
      BY <2>2, <3>2
    <3> QED
      BY <2>1, <2>2, <3>3 DEF HandedOrder
  <2>3. \A b \in OnTheWay(c) : b \notin HandedOn(c)
    BY <2>1, OnTheWayLoads DEF LinkAfterHanded, HandedOn
  <2>4. ASSUME Joined(c)
        PROVE  /\ \A b \in Waiting(c) : b \notin HandedOn(c)
               /\ \A b \in Waiting(c) : b \notin OnTheWay(c)
    <3>1. LinkAfterTodo(down[c], todo[c]) /\ TodoAfterHanded(todo[c], handed[c])
      BY <2>4 DEF DeliveryInv
    <3> SUFFICES ASSUME NEW n \in Nums, NEW k \in DOMAIN todo[c][n]
                 PROVE  todo[c][n][k] \notin HandedOn(c) /\ todo[c][n][k] \notin OnTheWay(c)
      BY DEF Waiting
    <3>2. todo[c][n][k] \notin HandedOn(c)
      BY <3>1 DEF TodoAfterHanded, HandedOn
    <3> DEFINE b == todo[c][n][k]
    <3>3. \A s \in Streams : \A i \in Loaded(down[c][s]) : b.uid # Load(down[c][s], i).uid
      BY <3>1 DEF LinkAfterTodo
    <3> HIDE DEF b
    <3>4. b \notin OnTheWay(c)
      BY <2>1, <3>3, OnTheWayLoads
    <3> QED
      BY <3>2, <3>4 DEF b
  <2> QED
    BY <2>2, <2>3, <2>4
<1> QED
  BY <1>1, Invariance, DeliveryInvariance, PTL

\* A payload sent safely to a client that has joined is never lost while its
\* number is learned: it is on the way, in todo, or was handed on
\* (sendChannelPacket, receive).
THEOREM SafePayloadsKept == Spec => []NoSafeLoss
<1>1. IInv /\ DeliveryInv => NoSafeLoss
  <2> SUFFICES ASSUME IInv, DeliveryInv, NEW c \in Clients, Joined(c), NEW u \in owed[c]
               PROVE  \E b \in OnTheWay(c) \union Waiting(c) \union HandedOn(c) : b.uid = u
    BY DEF NoSafeLoss
  <2>1. Kept(u, down[c], todo[c], handed[c]) /\ LinkShape(down[c], sent)
    BY DEF DeliveryInv
  <2>2. ASSUME NEW s \in Streams, NEW i \in Loaded(down[c][s]), Load(down[c][s], i).uid = u
        PROVE  \E b \in OnTheWay(c) : b.uid = u
    BY <2>1, <2>2, OnTheWayLoads
  <2>3. ASSUME NEW n \in Nums, NEW k \in DOMAIN todo[c][n], todo[c][n][k].uid = u
        PROVE  \E b \in Waiting(c) : b.uid = u
    BY <2>3 DEF Waiting
  <2>4. ASSUME NEW k \in DOMAIN handed[c], handed[c][k].body.uid = u
        PROVE  \E b \in HandedOn(c) : b.uid = u
    BY <2>4 DEF HandedOn
  <2> QED
    BY <2>1, <2>2, <2>3, <2>4 DEF Kept
<1> QED
  BY <1>1, Invariance, DeliveryInvariance, PTL

\* A payload sent by number is handed on after a newer one of its channel and
\* its way only if it waited in todo and the newer one did not (receive).
THEOREM ReorderedOnlyByTodo == Spec => []InOrderUnlessLate
<1>1. IInv /\ DeliveryInv => InOrderUnlessLate
  <2> SUFFICES ASSUME IInv, DeliveryInv, NEW c \in Clients,
                      NEW j \in DOMAIN handed[c], NEW k \in DOMAIN handed[c], j < k,
                      handed[c][j].body.id = handed[c][k].body.id,
                      handed[c][j].body.via = handed[c][k].body.via,
                      handed[c][j].body.via # "idChannel",
                      handed[c][j].body.uid > handed[c][k].body.uid
               PROVE  handed[c][k].late /\ ~handed[c][j].late
    BY DEF InOrderUnlessLate
  <2>1. handed[c][j].body.uid \in Nat /\ handed[c][k].body.uid \in Nat
    <3>1. handed[c] \in Seq(Handed)
      BY DeliveryTypes DEF IInv
    <3> QED
      BY <3>1, HandedType
  <2>2. HandedOrder(handed[c], sent)
    BY DEF DeliveryInv
  <2>3. SameWay(handed[c][j].body, handed[c][k].body)
    BY DEF SameWay
  <2>4. handed[c][k].body.uid < handed[c][j].body.uid
    BY <2>1
  <2> QED
    BY <2>2, <2>3, <2>4 DEF HandedOrder
<1> QED
  BY <1>1, Invariance, DeliveryInvariance, PTL

\* Whatever waits in todo at a client of a running host has been asked for: the
\* request or its answer is on the way (receive).
THEOREM WaitingIsAskedFor == Spec => []RequestOutstanding
<1>1. DeliveryInv => RequestOutstanding
  BY DEF DeliveryInv, RequestOutstanding, OnOrdered
<1> QED
  BY <1>1, DeliveryInvariance, PTL
=============================================================================
