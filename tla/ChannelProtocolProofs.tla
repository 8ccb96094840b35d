------------------------ MODULE ChannelProtocolProofs ------------------------
(***************************************************************************)
(* Proofs that every behaviour of the channel protocol keeps the maps of   *)
(* the clients in agreement with the host's, for any set of clients and    *)
(* any finite set of channels.                                             *)
(***************************************************************************)
EXTENDS ChannelProtocol, FiniteSetTheorems, SequenceTheorems, TLAPS

-----------------------------------------------------------------------------
(* Sequences over a set *)

\* What a stream delivers is one of its packets, and what stays behind are
\* packets of it.
LEMMA ArrivalsProperties ==
  ASSUME NEW S, NEW q \in Seq(S), NEW kind, NEW i \in Arrivals(q, kind)
  PROVE  q[i] \in S /\ Rest(q, i) \in Seq(S)
<1>1. i \in 1 .. Len(q) /\ Len(q) \in Nat
  BY DEF Arrivals
<1>2. \A j \in i + 1 .. Len(q) : q[j] \in S
  BY <1>1, ElementOfSeq
<1>3. SubSeq(q, i + 1, Len(q)) \in Seq(S)
  BY <1>1, <1>2, SubSeqProperties
<1> QED
  BY <1>1, <1>3, ElementOfSeq DEF Rest

\* The set of payloads of a channel grows with nothing; the sets of packets
\* that may be on the way grow with the host's maps.
Grow(nums, ids, nums2, ids2) ==
  /\ \A id \in Channels : nums[id] # 0 => nums2[id] = nums[id]
  /\ \A n \in Nums : ids[n] # NoId => ids2[n] = ids[n]

LEMMA NumsProperties == Nums \subseteq Nat \ {0} /\ Reserved \subseteq Nat
BY ConstantsAssumption, FS_CardinalityType DEF Nums, Reserved

LEMMA PacketsGrow ==
  ASSUME NEW nums, NEW ids, NEW nums2, NEW ids2, Grow(nums, ids, nums2, ids2)
  PROVE  /\ DownPackets(nums, ids) \subseteq DownPackets(nums2, ids2)
         /\ UpPackets(ids) \subseteq UpPackets(ids2)
<1>1. ASSUME NEW m \in DownPackets(nums, ids)
      PROVE  m \in DownPackets(nums2, ids2)
  BY <1>1, NumsProperties DEF DownPackets, Grow
<1>2. ASSUME NEW m \in UpPackets(ids)
      PROVE  m \in UpPackets(ids2)
  BY <1>2 DEF UpPackets, Grow
<1> QED
  BY <1>1, <1>2

-----------------------------------------------------------------------------
(* Numbers *)

\* The host never gives out a number outside the range of channel numbers, and
\* never one that is in use.
LEMMA HostNumFresh ==
  ASSUME TypeOK, HostInv, NEW id \in Channels
  PROVE  /\ HostNum(id) \in Nums
         /\ idToNum[Host][id] = 0 => numToId[Host][HostNum(id)] = NoId
<1>1. idToNum[Host] \in [Ids -> {0} \union Nums] /\ numToId[Host] \in [Nums -> Ids]
  BY DEF TypeOK, Nodes
<1>2. CASE idToNum[Host][id] # 0
  BY <1>1, <1>2 DEF HostNum, Ids
<1>3. CASE idToNum[Host][id] = 0
  <2>1. Numbered \subseteq Channels \ {id}
    BY <1>3 DEF Numbered, HostInv, Ids
  <2>2. IsFiniteSet(Channels \ {id}) /\ Cardinality(Channels \ {id}) = Cardinality(Channels) - 1
    BY FS_RemoveElement, ConstantsAssumption
  <2>3. IsFiniteSet(Numbered) /\ Cardinality(Numbered) <= Cardinality(Channels) - 1
    BY <2>1, <2>2, FS_Subset
  <2>4. Cardinality(Numbered) \in Nat /\ Cardinality(Channels) \in Nat
    BY <2>3, ConstantsAssumption, FS_CardinalityType
  <2>5. HostNum(id) = Cardinality(Numbered) + ReservedChannels
    BY <1>3 DEF HostNum
  <2>6. HostNum(id) \in Nums
    BY <2>3, <2>4, <2>5, ConstantsAssumption DEF Nums
  <2>7. ASSUME numToId[Host][HostNum(id)] # NoId
        PROVE  FALSE
    <3> DEFINE old == numToId[Host][HostNum(id)]
    <3>1. old \in Channels /\ idToNum[Host][old] = HostNum(id)
      BY <1>1, <2>6, <2>7 DEF HostInv, Ids
    <3>2. HostNum(id) # 0
      BY <2>6, NumsProperties
    <3>3. HostNum(id) < ReservedChannels + Cardinality(Numbered)
      BY <3>1, <3>2 DEF HostInv
    <3> QED
      BY <3>3, <2>4, <2>5, ConstantsAssumption
  <2> QED
    BY <2>6, <2>7
<1> QED
  BY <1>2, <1>3

\* Giving a channel its number keeps the host's maps inverse to each other and
\* what they already say.
LEMMA CreateIdNumGrows ==
  ASSUME TypeOK, HostInv, NEW id \in Channels, CreateIdNum(id)
  PROVE  /\ idToNum' \in [Nodes -> [Ids -> {0} \union Nums]]
         /\ numToId' \in [Nodes -> [Nums -> Ids]]
         /\ HostInv'
         /\ Grow(idToNum[Host], numToId[Host], idToNum'[Host], numToId'[Host])
         /\ idToNum'[Host][id] = HostNum(id)
         /\ numToId'[Host][HostNum(id)] = id
         /\ \A c \in Clients : idToNum'[c] = idToNum[c] /\ numToId'[c] = numToId[c]
<1> DEFINE num == HostNum(id)
<1>0. /\ num \in Nums /\ id \in Ids /\ id # NoId
      /\ idToNum[Host][id] = 0 => numToId[Host][num] = NoId
      /\ num # 0
  BY HostNumFresh, NumsProperties, ConstantsAssumption DEF Ids
<1>1. /\ idToNum \in [Nodes -> [Ids -> {0} \union Nums]]
      /\ numToId \in [Nodes -> [Nums -> Ids]]
      /\ Host \in Nodes /\ Host \notin Clients /\ Clients \subseteq Nodes
      /\ idToNum[Host] \in [Ids -> {0} \union Nums] /\ numToId[Host] \in [Nums -> Ids]
  BY ConstantsAssumption DEF TypeOK, Nodes
<1>2. CASE idToNum[Host][id] # 0
  <2>1. UNCHANGED <<idToNum, numToId>>
    BY <1>2 DEF CreateIdNum, SetIdNum, mapVars
  <2>2. HostInv'
    BY <2>1 DEF HostInv, Numbered
  <2>3. num = idToNum[Host][id]
    BY <1>2 DEF HostNum
  <2>4. Grow(idToNum[Host], numToId[Host], idToNum'[Host], numToId'[Host])
    BY <2>1 DEF Grow
  <2>5. numToId'[Host][num] = id
    BY <1>2, <2>1, <2>3 DEF HostInv
  <2> QED
    BY <1>1, <2>1, <2>2, <2>3, <2>4, <2>5
<1>3. CASE idToNum[Host][id] = 0
  <2>1. /\ idToNum' = [idToNum EXCEPT ![Host][id] = num]
        /\ numToId' = [numToId EXCEPT ![Host][num] = id]
    BY <1>3 DEF CreateIdNum, SetIdNum
  <2>2. /\ idToNum'[Host] = [idToNum[Host] EXCEPT ![id] = num]
        /\ numToId'[Host] = [numToId[Host] EXCEPT ![num] = id]
    BY <2>1, <1>1
  <2>3. /\ \A x \in Ids : idToNum'[Host][x] = IF x = id THEN num ELSE idToNum[Host][x]
        /\ \A n \in Nums : numToId'[Host][n] = IF n = num THEN id ELSE numToId[Host][n]
    BY <2>2, <1>1, <1>0
  <2>4. Grow(idToNum[Host], numToId[Host], idToNum'[Host], numToId'[Host])
    BY <2>3, <1>0, <1>3 DEF Grow, Ids
  <2>5. Numbered' = Numbered \union {id}
    BY <2>3, <1>0 DEF Numbered
  <2>6. IsFiniteSet(Numbered) /\ Cardinality(Numbered) \in Nat /\ id \notin Numbered
    <3>1. Numbered \subseteq Channels
      BY DEF Numbered, HostInv, Ids
    <3> QED
      BY <3>1, <1>3, ConstantsAssumption, FS_Subset, FS_CardinalityType DEF Numbered
  <2>7. Cardinality(Numbered') = Cardinality(Numbered) + 1
    BY <2>5, <2>6, FS_AddElement
  <2>8. num = Cardinality(Numbered) + ReservedChannels
    BY <1>3 DEF HostNum
  <2>9. HostInv'
    <3>1. idToNum'[Host][NoId] = 0
      BY <2>3, <1>0 DEF HostInv, Ids
    <3>2. ASSUME NEW x \in Channels, idToNum'[Host][x] # 0
          PROVE  /\ numToId'[Host][idToNum'[Host][x]] = x
                 /\ idToNum'[Host][x] < ReservedChannels + Cardinality(Numbered')
      <4>1. CASE x = id
        BY <4>1, <2>3, <1>0, <2>6, <2>7, <2>8, ConstantsAssumption
      <4>2. CASE x # id
        <5>1. x \in Ids /\ idToNum'[Host][x] = idToNum[Host][x] /\ idToNum[Host][x] \in Nums
          BY <4>2, <3>2, <2>3, <1>1 DEF Ids
        <5>2. numToId[Host][idToNum[Host][x]] = x /\ x # NoId
          BY <5>1, <3>2, ConstantsAssumption DEF HostInv
        <5>3. idToNum[Host][x] # num
          BY <5>2, <1>0, <1>3
        <5>4. idToNum[Host][x] < ReservedChannels + Cardinality(Numbered)
          BY <5>1, <3>2 DEF HostInv
        <5>5. idToNum[Host][x] \in Nat
          BY <5>1, NumsProperties
        <5> QED
          BY <5>1, <5>2, <5>3, <5>4, <5>5, <2>3, <2>6, <2>7, ConstantsAssumption
      <4> QED
        BY <4>1, <4>2
    <3>3. ASSUME NEW n \in Nums, numToId'[Host][n] # NoId
          PROVE  idToNum'[Host][numToId'[Host][n]] = n
      <4>1. CASE n = num
        BY <4>1, <2>3, <1>0
      <4>2. CASE n # num
        <5>1. numToId'[Host][n] = numToId[Host][n] /\ numToId[Host][n] \in Ids
          BY <4>2, <2>3, <1>1
        <5>2. idToNum[Host][numToId[Host][n]] = n
          BY <5>1, <3>3 DEF HostInv
        <5>3. numToId[Host][n] # id
          BY <5>2, <1>3, NumsProperties
        <5> QED
          BY <5>1, <5>2, <5>3, <2>3
      <4> QED
        BY <4>1, <4>2
    <3> QED
      BY <3>1, <3>2, <3>3 DEF HostInv
  <2> QED
    BY <2>1, <2>3, <2>4, <2>9, <1>0, <1>1
<1> QED
  BY <1>2, <1>3

-----------------------------------------------------------------------------
(* Steps that begin and end sessions *)

LEMMA OpenServerStep == IInv /\ OpenServer => IInv'
<1> SUFFICES ASSUME IInv, OpenServer PROVE IInv'
  OBVIOUS
<1>1. SessionNums' = SessionNums /\ SessionIds' = SessionIds
  BY DEF OpenServer, SessionNums, SessionIds, InSession
<1>2. TypeOK'
  BY DEF IInv, OpenServer, TypeOK, HostStates
<1>3. HostInv'
  BY DEF IInv, OpenServer, HostInv, Numbered
<1>4. SessionInv'
  BY DEF IInv, OpenServer, SessionInv, InSession, HostMode, Linked
<1>5. WireInv'
  BY <1>1 DEF IInv, OpenServer, WireInv
<1>6. PendingInv' /\ ClientInv' /\ HandedInv'
  BY <1>1 DEF IInv, OpenServer, PendingInv, ClientInv, HandedInv, Linked, Joined
<1> QED
  BY <1>2, <1>3, <1>4, <1>5, <1>6 DEF IInv

LEMMA StartHostStep == IInv /\ StartHost => IInv'
<1> SUFFICES ASSUME IInv, StartHost PROVE IInv'
  OBVIOUS
<1>0. Host \in Nodes /\ Host \notin Clients /\ Clients \subseteq Nodes
  BY ConstantsAssumption DEF Nodes
<1>1. idToNum'[Host] = EmptyMap /\ numToId'[Host] = EmptyIds
  BY <1>0 DEF IInv, TypeOK, StartHost
<1>2. \A c \in Clients : idToNum'[c] = idToNum[c] /\ numToId'[c] = numToId[c]
  BY <1>0 DEF IInv, TypeOK, StartHost
<1>3. SessionNums' = SessionNums /\ SessionIds' = SessionIds
  BY <1>1 DEF StartHost, SessionNums, SessionIds, InSession
<1>4. TypeOK'
  <2>1. /\ idToNum' \in [Nodes -> [Ids -> {0} \union Nums]]
        /\ numToId' \in [Nodes -> [Nums -> Ids]]
    BY DEF IInv, StartHost, TypeOK, EmptyMap, EmptyIds, Ids
  <2>2. handed' \in [Nodes -> Seq(Handed)]
    <3>1. <<>> \in Seq(Handed)
      BY EmptySeq
    <3> QED
      BY <3>1 DEF IInv, StartHost, TypeOK
  <2> QED
    BY <1>0, <2>1, <2>2 DEF IInv, StartHost, TypeOK, HostStates
<1>5. HostInv'
  <2>1. NoId \in Ids /\ Channels \subseteq Ids
    BY DEF Ids
  <2> QED
    BY <1>1, <2>1 DEF HostInv, EmptyMap, EmptyIds
<1>6. SessionInv'
  BY DEF IInv, StartHost, SessionInv, InSession, HostMode, Linked
<1>7. WireInv'
  BY <1>3 DEF IInv, StartHost, WireInv
<1>8. PendingInv' /\ ClientInv'
  BY <1>2, <1>3 DEF IInv, StartHost, PendingInv, ClientInv, Linked, Joined
<1>9. HandedInv'
  BY DEF IInv, StartHost, HandedInv, TypeOK
<1> QED
  BY <1>4, <1>5, <1>6, <1>7, <1>8, <1>9 DEF IInv

LEMMA StopHostStep == IInv /\ StopHost => IInv'
<1> SUFFICES ASSUME IInv, StopHost PROVE IInv'
  OBVIOUS
<1>1. SessionNums' = SessionNums /\ SessionIds' = SessionIds
  BY DEF StopHost, SessionNums, SessionIds, InSession, HostMode
<1>2. TypeOK' /\ HostInv'
  BY DEF IInv, StopHost, TypeOK, HostStates, HostInv, Numbered
<1>3. SessionInv'
  BY DEF IInv, StopHost, SessionInv, InSession, HostMode, Linked, Unlocked
<1>4. WireInv' /\ PendingInv' /\ ClientInv' /\ HandedInv'
  BY <1>1 DEF IInv, StopHost, WireInv, PendingInv, ClientInv, HandedInv, Linked, Joined
<1> QED
  BY <1>2, <1>3, <1>4 DEF IInv

\* A link that is gone carries nothing, whatever the host's maps are.
LEMMA EmptyLinkProperties ==
  ASSUME NEW nums, NEW ids
  PROVE  /\ EmptyLink \in [Streams -> Seq(Packet)]
         /\ \A s \in Streams : /\ EmptyLink[s] \in Seq(UpPackets(ids))
                               /\ EmptyLink[s] \in Seq(DownPackets(nums, ids))
BY DEF EmptyLink

LEMMA CloseServerStep == IInv /\ CloseServer => IInv'
<1> SUFFICES ASSUME IInv, CloseServer PROVE IInv'
  OBVIOUS
<1>1. client' \in [Clients -> ClientStates] /\ \A c \in Clients : client'[c] \in {"off", "cut"}
  BY DEF IInv, TypeOK, CloseServer, Unlinked, ClientStates
<1>2. \A c \in Clients : up'[c] = EmptyLink /\ down'[c] = EmptyLink
  BY DEF CloseServer
<1>3. \A n \in Nodes : pending'[n] = {}
  BY DEF CloseServer
<1>4. TypeOK'
  BY <1>1, EmptyLinkProperties DEF IInv, CloseServer, TypeOK, HostStates
<1>5. HostInv'
  BY DEF IInv, CloseServer, HostInv, Numbered
<1>6. Host \in Nodes /\ Clients \subseteq Nodes
  BY DEF Nodes
<1>7. SessionInv'
  BY <1>1, <1>2, <1>3, <1>6 DEF IInv, CloseServer, SessionInv, HostMode, Linked
<1>8. WireInv'
  BY <1>2, EmptyLinkProperties DEF WireInv
<1>9. PendingInv' /\ ClientInv'
  BY <1>1, <1>3, <1>6 DEF PendingInv, ClientInv, Joined
<1>10. HandedInv'
  BY DEF IInv, CloseServer, HandedInv
<1> QED
  BY <1>4, <1>5, <1>7, <1>8, <1>9, <1>10 DEF IInv

-----------------------------------------------------------------------------
(* What the building blocks of the steps do *)

\* The facts about the nodes that every step needs.
LEMMA NodesProperties ==
  /\ Host \in Nodes /\ Host \notin Clients /\ Clients \subseteq Nodes
  /\ Channels \subseteq Ids /\ NoId \in Ids /\ NoId \notin Channels
BY ConstantsAssumption DEF Nodes, Ids

\* Reserved channels wrap around, and name an ordered stream.
LEMMA ReservedProperties ==
  ASSUME TypeOK, NEW n \in Nodes
  PROVE  /\ ReservedStream(n) \in Streams
         /\ NextReserved(n) => sentReserved' \in [Nodes -> Reserved]
<1>1. sentReserved[n] \in Reserved /\ sentReserved \in [Nodes -> Reserved]
  BY DEF TypeOK
<1> QED
  BY <1>1 DEF ReservedStream, Streams, Kinds, NextReserved

\* What is on the way stays well-formed when the host's maps grow.
LEMMA WireGrows ==
  ASSUME WireInv, NEW nums, NEW ids, Grow(SessionNums, SessionIds, nums, ids),
         NEW c \in Clients, NEW s \in Streams
  PROVE  up[c][s] \in Seq(UpPackets(ids)) /\ down[c][s] \in Seq(DownPackets(nums, ids))
<1>1. up[c][s] \in Seq(UpPackets(SessionIds)) /\ down[c][s] \in Seq(DownPackets(SessionNums, SessionIds))
  BY DEF WireInv
<1>2. /\ UpPackets(SessionIds) \subseteq UpPackets(ids)
      /\ DownPackets(SessionNums, SessionIds) \subseteq DownPackets(nums, ids)
  BY PacketsGrow
<1> QED
  BY <1>1, <1>2, SeqMonotonic

\* A broadcast adds a packet to streams of linked clients only.
LEMMA BroadcastProperties ==
  ASSUME TypeOK, NEW nums, NEW ids, NEW m \in DownPackets(nums, ids), NEW s \in Streams,
         Broadcast(m, s),
         \A c \in Clients, t \in Streams : down[c][t] \in Seq(DownPackets(nums, ids))
  PROVE  /\ down' \in [Clients -> [Streams -> Seq(Packet)]]
         /\ \A c \in Clients, t \in Streams : down'[c][t] \in Seq(DownPackets(nums, ids))
         /\ \A c \in Clients : ~Linked(c) => down'[c] = down[c]
<1>1. down \in [Clients -> [Streams -> Seq(Packet)]] /\ m \in Packet
  BY DEF TypeOK, DownPackets
<1>2. CASE ~HostCanSend
  BY <1>1, <1>2 DEF Broadcast
<1>3. CASE HostCanSend
  <2>1. down' = [c \in Clients |-> IF Linked(c) THEN [down[c] EXCEPT ![s] = Append(@, m)]
                                   ELSE down[c]]
    BY <1>3 DEF Broadcast
  <2>2. ASSUME NEW c \in Clients
        PROVE  /\ Append(down[c][s], m) \in Seq(Packet)
               /\ Append(down[c][s], m) \in Seq(DownPackets(nums, ids))
    <3>1. down[c][s] \in Seq(Packet) /\ down[c][s] \in Seq(DownPackets(nums, ids))
      BY <1>1
    <3> QED
      BY <3>1, <1>1, AppendProperties
  <2>3. ASSUME NEW c \in Clients
        PROVE  /\ down'[c] \in [Streams -> Seq(Packet)]
               /\ \A t \in Streams : down'[c][t] \in Seq(DownPackets(nums, ids))
               /\ ~Linked(c) => down'[c] = down[c]
    <3>1. CASE Linked(c)
      <4>1. down'[c] = [down[c] EXCEPT ![s] = Append(down[c][s], m)]
        BY <2>1, <3>1
      <4>2. down[c] \in [Streams -> Seq(Packet)]
        BY <1>1
      <4> QED
        BY <4>1, <4>2, <2>2, <3>1
    <3>2. CASE ~Linked(c)
      <4>1. down'[c] = down[c]
        BY <2>1, <3>2
      <4> QED
        BY <4>1, <1>1
    <3> QED
      BY <3>1, <3>2
  <2> QED
    BY <2>1, <2>3
<1> QED
  BY <1>2, <1>3

\* A packet to the host goes on one stream of a linked client.
LEMMA ToHostProperties ==
  ASSUME TypeOK, NEW ids, NEW d \in Clients, NEW m \in Packet, NEW s \in Streams,
         Linked(d) => m \in UpPackets(ids), ToHost(d, m, s),
         \A c \in Clients, t \in Streams : up[c][t] \in Seq(UpPackets(ids))
  PROVE  /\ up' \in [Clients -> [Streams -> Seq(Packet)]]
         /\ \A c \in Clients, t \in Streams : up'[c][t] \in Seq(UpPackets(ids))
         /\ \A c \in Clients : ~Linked(c) => up'[c] = up[c]
<1>1. up \in [Clients -> [Streams -> Seq(Packet)]]
  BY DEF TypeOK
<1>2. CASE ~Linked(d)
  BY <1>1, <1>2 DEF ToHost
<1>3. CASE Linked(d)
  <2>1. up' = [up EXCEPT ![d] = [up[d] EXCEPT ![s] = Append(up[d][s], m)]]
    BY <1>1, <1>3 DEF ToHost
  <2>2. Append(up[d][s], m) \in Seq(Packet) /\ Append(up[d][s], m) \in Seq(UpPackets(ids))
    <3>1. up[d][s] \in Seq(Packet) /\ up[d][s] \in Seq(UpPackets(ids))
      BY <1>1
    <3> QED
      BY <3>1, <1>3, AppendProperties
  <2>3. /\ up'[d] = [up[d] EXCEPT ![s] = Append(up[d][s], m)]
        /\ \A c \in Clients \ {d} : up'[c] = up[c]
    BY <1>1, <2>1
  <2>4. up'[d] \in [Streams -> Seq(Packet)] /\ \A t \in Streams : up'[d][t] \in Seq(UpPackets(ids))
    <3>1. up[d] \in [Streams -> Seq(Packet)]
      BY <1>1
    <3> QED
      BY <2>2, <2>3, <3>1
  <2> QED
    BY <1>1, <1>3, <2>1, <2>3, <2>4
<1> QED
  BY <1>2, <1>3

\* Payloads of a channel handed to that channel keep every handed payload at
\* the channel it was sent on.
LEMMA HandToProperties ==
  ASSUME TypeOK, HandedInv, NEW n \in Nodes, NEW id \in Channels,
         NEW payloads \in Seq(PayloadsOf(id)), NEW late \in BOOLEAN,
         HandTo(n, id, payloads, late)
  PROVE  handed' \in [Nodes -> Seq(Handed)] /\ HandedInv'
<1> DEFINE S == {e \in Handed : e.to = e.body.id}
           new == [k \in 1 .. Len(payloads) |->
                     [to |-> id, body |-> payloads[k], late |-> late,
                      taken |-> id \in registered[n]]]
<1>1. Len(payloads) \in Nat /\ \A k \in 1 .. Len(payloads) : payloads[k] \in PayloadsOf(id)
  BY LenProperties, ElementOfSeq
<1>2. \A k \in 1 .. Len(payloads) : new[k] \in S
  BY <1>1, NodesProperties DEF PayloadsOf, Handed
<1>3. new \in [1 .. Len(payloads) -> S]
  BY <1>2
<1>4. new \in Seq(S)
  <2> HIDE DEF new, S
  <2> QED
    BY <1>1, <1>3, SeqDef
<1>5. handed \in [Nodes -> Seq(Handed)] /\ \A x \in Nodes : handed[x] \in Seq(S)
  BY DEF TypeOK, HandedInv
<1>6. handed' = [handed EXCEPT ![n] = handed[n] \o new]
  BY DEF HandTo
<1>7. handed[n] \o new \in Seq(S)
  <2> HIDE DEF new, S
  <2> QED
    BY <1>4, <1>5, ConcatProperties
<1>8. S \subseteq Handed
  OBVIOUS
<1>9. handed[n] \o new \in Seq(Handed)
  <2> HIDE DEF new, S
  <2> QED
    BY <1>7, <1>8, SeqMonotonic
<1> QED
  <2> HIDE DEF new, S
  <2>1. handed' \in [Nodes -> Seq(Handed)] /\ \A x \in Nodes : handed'[x] \in Seq(S)
    BY <1>5, <1>6, <1>7, <1>9
  <2> QED
    BY <2>1 DEF HandedInv, S

-----------------------------------------------------------------------------
(* The other session steps *)

LEMMA ConnectStep == ASSUME IInv, NEW c \in Clients, Connect(c) PROVE IInv'
<1>1. SessionNums' = SessionNums /\ SessionIds' = SessionIds
  BY DEF Connect, SessionNums, SessionIds, InSession
<1>2. /\ client' \in [Clients -> ClientStates]
      /\ client'[c] = "connected"
      /\ \A d \in Clients \ {c} : client'[d] = client[d]
  BY DEF IInv, TypeOK, Connect, ClientStates
<1>3. TypeOK' /\ HostInv'
  BY <1>2 DEF IInv, Connect, TypeOK, HostInv, Numbered
<1>4. pending[c] = {}
  BY DEF IInv, Connect, SessionInv
<1>5. SessionInv'
  BY <1>2, <1>4 DEF IInv, Connect, SessionInv, InSession, HostMode, Linked
<1>6. WireInv' /\ HandedInv'
  BY <1>1 DEF IInv, Connect, WireInv, HandedInv
<1>7. PendingInv' /\ ClientInv'
  BY <1>1, <1>2, <1>4 DEF IInv, Connect, PendingInv, ClientInv, Linked, Joined
<1> QED
  BY <1>3, <1>5, <1>6, <1>7 DEF IInv

LEMMA StartClientStep == ASSUME IInv, NEW c \in Clients, StartClient(c) PROVE IInv'
<1>0. c \in Nodes /\ c # Host /\ Linked(c)
  BY NodesProperties DEF StartClient, Linked
<1>1. /\ client' \in [Clients -> ClientStates]
      /\ client'[c] = "joined"
      /\ \A d \in Clients \ {c} : client'[d] = client[d]
  BY DEF IInv, TypeOK, StartClient, ClientStates
<1>2. /\ idToNum' \in [Nodes -> [Ids -> {0} \union Nums]]
      /\ numToId' \in [Nodes -> [Nums -> Ids]]
      /\ idToNum'[c] = EmptyMap /\ numToId'[c] = EmptyIds
      /\ \A n \in Nodes \ {c} : idToNum'[n] = idToNum[n] /\ numToId'[n] = numToId[n]
  BY <1>0, NodesProperties DEF IInv, TypeOK, StartClient, EmptyMap, EmptyIds
<1>3. /\ todo' \in [Clients -> [Nums -> Seq(Payload)]]
      /\ todo'[c] = EmptyTodo
      /\ \A d \in Clients \ {c} : todo'[d] = todo[d]
  <2>1. EmptyTodo \in [Nums -> Seq(Payload)]
    BY EmptySeq DEF EmptyTodo
  <2> QED
    BY <2>1 DEF IInv, TypeOK, StartClient
<1>4. handed' \in [Nodes -> Seq(Handed)] /\ HandedInv'
  <2>1. <<>> \in Seq(Handed) /\ <<>> \in Seq({e \in Handed : e.to = e.body.id})
    BY EmptySeq
  <2> QED
    BY <2>1 DEF IInv, TypeOK, StartClient, HandedInv
<1>5. SessionNums' = SessionNums /\ SessionIds' = SessionIds
  BY <1>0, <1>2, NodesProperties DEF StartClient, SessionNums, SessionIds, InSession
<1>6. /\ up' \in [Clients -> [Streams -> Seq(Packet)]]
      /\ \A d \in Clients, t \in Streams : up'[d][t] \in Seq(UpPackets(SessionIds))
      /\ \A d \in Clients : ~Linked(d) => up'[d] = up[d]
  <2>1. FullSendPacket \in Packet /\ FullSendPacket \in UpPackets(SessionIds)
    <3>1. FullSendPacket \in Packet
      BY NodesProperties, EmptySeq DEF FullSendPacket, Packet, PacketTypes
    <3> QED
      BY <3>1 DEF FullSendPacket, UpPackets
  <2>2. TypeOK /\ ReservedStream(c) \in Streams /\ ToHost(c, FullSendPacket, ReservedStream(c))
    BY <1>0, ReservedProperties DEF IInv, StartClient
  <2>3. \A d \in Clients, t \in Streams : up[d][t] \in Seq(UpPackets(SessionIds))
    BY DEF IInv, WireInv
  <2> QED
    BY <2>1, <2>2, <2>3, ToHostProperties
<1>7. TypeOK'
  <2>1. sentReserved' \in [Nodes -> Reserved]
    BY <1>0, ReservedProperties DEF IInv, StartClient
  <2>2. owed' \in [Clients -> SUBSET Nat]
    BY DEF IInv, TypeOK, StartClient
  <2> QED
    BY <1>1, <1>2, <1>3, <1>4, <1>6, <2>1, <2>2 DEF IInv, TypeOK, StartClient
<1>8. HostInv'
  <2>1. idToNum'[Host] = idToNum[Host] /\ numToId'[Host] = numToId[Host]
    BY <1>0, <1>2, NodesProperties
  <2>2. Numbered' = Numbered
    BY <2>1 DEF Numbered
  <2> QED
    BY <2>1, <2>2 DEF IInv, HostInv
<1>9. SessionInv'
  BY <1>0, <1>1, <1>6 DEF IInv, StartClient, SessionInv, InSession, HostMode, Linked
<1>10. WireInv'
  BY <1>5, <1>6 DEF IInv, StartClient, WireInv
<1>11. PendingInv'
  BY <1>0, <1>1, <1>5 DEF IInv, StartClient, PendingInv, Linked
<1>12. ClientInv'
  <2>1. \A n \in Nums : EmptyTodo[n] = <<>> /\ EmptyIds[n] = NoId
    BY DEF EmptyTodo, EmptyIds
  <2>2. \A id \in Ids : EmptyMap[id] = 0
    BY DEF EmptyMap
  <2>3. \A S : <<>> \in Seq(S)
    BY EmptySeq
  <2>4. ASSUME NEW d \in Clients, Joined(d)', d = c
        PROVE  /\ \A id \in Ids : idToNum'[d][id] = 0
               /\ \A n \in Nums : numToId'[d][n] = NoId /\ todo'[d][n] = <<>>
    BY <1>2, <1>3, <2>1, <2>2, <2>4
  <2>5. ASSUME NEW d \in Clients, Joined(d)', d # c
        PROVE  Joined(d) /\ idToNum'[d] = idToNum[d] /\ numToId'[d] = numToId[d] /\ todo'[d] = todo[d]
    BY <1>1, <1>2, <1>3, <2>5, NodesProperties DEF Joined
  <2>6. ASSUME NEW d \in Clients, Joined(d)', NEW n \in Nums
        PROVE  /\ numToId'[d][n] \in {NoId, SessionIds'[n]}
               /\ todo'[d][n] # <<>> => SessionIds'[n] # NoId
               /\ todo'[d][n] \in Seq(PayloadsOf(SessionIds'[n]))
    <3>1. CASE d = c
      BY <2>3, <2>4, <2>6, <3>1
    <3>2. CASE d # c
      BY <1>5, <2>5, <2>6, <3>2 DEF IInv, ClientInv
    <3> QED
      BY <3>1, <3>2
  <2>7. ASSUME NEW d \in Clients, Joined(d)', NEW id \in Ids
        PROVE  idToNum'[d][id] \in {0, SessionNums'[id]}
    <3>1. CASE d = c
      BY <2>4, <2>7, <3>1
    <3>2. CASE d # c
      BY <1>5, <2>5, <2>7, <3>2 DEF IInv, ClientInv
    <3> QED
      BY <3>1, <3>2
  <2> QED
    BY <2>6, <2>7 DEF ClientInv
<1> QED
  BY <1>4, <1>7, <1>8, <1>9, <1>10, <1>11, <1>12 DEF IInv

LEMMA StopClientStep == ASSUME IInv, NEW c \in Clients, StopClient(c) PROVE IInv'
<1>0. c \in Nodes /\ c # Host
  BY NodesProperties
<1>1. SessionNums' = SessionNums /\ SessionIds' = SessionIds
  BY DEF StopClient, SessionNums, SessionIds, InSession
<1>2. /\ client' \in [Clients -> ClientStates]
      /\ client'[c] = IF Joined(c) THEN "leaving" ELSE "off"
      /\ \A d \in Clients \ {c} : client'[d] = client[d]
  BY DEF IInv, TypeOK, StopClient, ClientStates, Joined
<1>3. /\ pending' \in [Nodes -> SUBSET PendingSend]
      /\ pending'[c] = IF Joined(c) THEN pending[c] ELSE {}
      /\ \A n \in Nodes \ {c} : pending'[n] = pending[n]
  BY <1>0 DEF IInv, TypeOK, StopClient
<1>4. TypeOK' /\ HostInv'
  BY <1>2, <1>3 DEF IInv, StopClient, TypeOK, HostInv, Numbered
<1>5. \A d \in Clients : (Linked(d))' <=> Linked(d)
  BY <1>2 DEF Linked, Joined, StopClient
<1>6. SessionInv'
  BY <1>0, <1>2, <1>3, <1>5, NodesProperties DEF IInv, StopClient, SessionInv, InSession, HostMode, Joined
<1>7. WireInv' /\ HandedInv'
  BY <1>1 DEF IInv, StopClient, WireInv, HandedInv
<1>8. PendingInv'
  BY <1>0, <1>1, <1>3, <1>5, NodesProperties DEF IInv, PendingInv
<1>9. ClientInv'
  BY <1>1, <1>2 DEF IInv, StopClient, ClientInv, Joined
<1> QED
  BY <1>4, <1>6, <1>7, <1>8, <1>9 DEF IInv

\* A client without a link carries nothing and sends nothing.
LEMMA DropLinkProperties ==
  ASSUME IInv, NEW c \in Clients, Linked(c), DropLink(c)
  PROVE  /\ client' \in [Clients -> ClientStates]
         /\ client'[c] \in {"cut", "off"}
         /\ \A d \in Clients \ {c} : client'[d] = client[d]
         /\ pending' \in [Nodes -> SUBSET PendingSend]
         /\ pending'[c] = {} /\ pending'[Host] = pending[Host]
         /\ \A d \in Clients \ {c} : pending'[d] = pending[d]
         /\ up' \in [Clients -> [Streams -> Seq(Packet)]]
         /\ down' \in [Clients -> [Streams -> Seq(Packet)]]
         /\ up'[c] = EmptyLink /\ down'[c] = EmptyLink
         /\ \A d \in Clients \ {c} : up'[d] = up[d] /\ down'[d] = down[d]
<1>0. EmptyLink \in [Streams -> Seq(Packet)]
  BY EmptyLinkProperties
<1>1. Unlinked(c) \in {"cut", "off"}
  BY DEF Linked, Unlinked
<1>2. /\ client' = [client EXCEPT ![c] = Unlinked(c)]
      /\ pending' = [pending EXCEPT ![c] = {}]
      /\ up' = [up EXCEPT ![c] = EmptyLink]
      /\ down' = [down EXCEPT ![c] = EmptyLink]
  BY DEF DropLink
<1>3. client \in [Clients -> ClientStates] /\ {"cut", "off"} \subseteq ClientStates
  BY DEF IInv, TypeOK, ClientStates
<1>4. /\ pending \in [Nodes -> SUBSET PendingSend]
      /\ up \in [Clients -> [Streams -> Seq(Packet)]]
      /\ down \in [Clients -> [Streams -> Seq(Packet)]]
  BY DEF IInv, TypeOK
<1> QED
  BY <1>0, <1>1, <1>2, <1>3, <1>4, NodesProperties

LEMMA DropLinkStep ==
  ASSUME IInv, NEW c \in Clients, Linked(c), DropLink(c),
         host' \in HostStates, host = "off" <=> host' = "off", InSession' <=> InSession,
         HostMode => HostMode',
         UNCHANGED <<idToNum, numToId, todo, registered, sentReserved, fullState,
                     sent, handed, owed, sessions>>
  PROVE  IInv'
<1>1. SessionNums' = SessionNums /\ SessionIds' = SessionIds
  BY DEF SessionNums, SessionIds
<1>2. TypeOK' /\ HostInv' /\ HandedInv'
  BY DropLinkProperties DEF IInv, TypeOK, HostInv, Numbered, HandedInv
<1>3. \A d \in Clients \ {c} : ((Linked(d))' <=> Linked(d)) /\ ((Joined(d))' <=> Joined(d))
  BY DropLinkProperties DEF Linked, Joined
<1>4. ~(Linked(c))' /\ ~(Joined(c))'
  BY DropLinkProperties DEF Linked, Joined
<1>5. SessionInv'
  BY <1>3, <1>4, DropLinkProperties DEF IInv, SessionInv
<1>6. WireInv'
  BY <1>1, DropLinkProperties, EmptyLinkProperties DEF IInv, WireInv
<1>7. PendingInv'
  <2>1. \A d \in Clients : (Linked(d))' => Linked(d) /\ pending'[d] = pending[d]
    BY <1>3, <1>4, DropLinkProperties
  <2>2. pending'[Host] = pending[Host]
    BY DropLinkProperties
  <2> QED
    BY <1>1, <2>1, <2>2 DEF IInv, PendingInv
<1>8. ClientInv'
  <2>1. \A d \in Clients : (Joined(d))' => Joined(d)
    BY <1>3, <1>4
  <2> QED
    BY <1>1, <2>1 DEF IInv, ClientInv
<1> QED
  BY <1>2, <1>5, <1>6, <1>7, <1>8 DEF IInv

LEMMA LeaveStep == ASSUME IInv, NEW c \in Clients, Leave(c) PROVE IInv'
<1>1. Linked(c) /\ DropLink(c) /\ host' = host /\ host' \in HostStates
  BY DEF IInv, TypeOK, Leave, Linked
<1>2. (InSession' <=> InSession) /\ (HostMode => HostMode')
  BY <1>1 DEF InSession, HostMode
<1> QED
  BY <1>1, <1>2, DropLinkStep DEF Leave

LEMMA LoseConnectionStep == ASSUME IInv, NEW c \in Clients, LoseConnection(c) PROVE IInv'
<1>1. Linked(c) /\ DropLink(c) /\ host' \in HostStates /\ (host = "off" <=> host' = "off")
  BY DEF IInv, TypeOK, LoseConnection, HostStates
<1>2. (InSession' <=> InSession) /\ (HostMode => HostMode')
  BY DEF LoseConnection, InSession, HostMode
<1> QED
  BY <1>1, <1>2, DropLinkStep DEF LoseConnection

LEMMA RegisterStep ==
  ASSUME IInv, NEW n \in Nodes, NEW ch \in Channels, Register(n, ch) \/ Unregister(n, ch)
  PROVE  IInv'
<1>1. SessionNums' = SessionNums /\ SessionIds' = SessionIds
  BY DEF Register, Unregister, SessionNums, SessionIds, InSession
<1>2. registered' \in [Nodes -> SUBSET Channels]
  <2>1. registered[n] \union {ch} \in SUBSET Channels /\ registered[n] \ {ch} \in SUBSET Channels
    BY DEF IInv, TypeOK
  <2>2. \/ registered' = [registered EXCEPT ![n] = registered[n] \union {ch}]
        \/ registered' = [registered EXCEPT ![n] = registered[n] \ {ch}]
    BY DEF Register, Unregister
  <2>3. registered \in [Nodes -> SUBSET Channels]
    BY DEF IInv, TypeOK
  <2> QED
    BY <2>1, <2>2, <2>3
<1>3. UNCHANGED <<host, client, idToNum, numToId, todo, sentReserved, fullState,
                  pending, up, down, sent, handed, owed, sessions>>
  BY DEF Register, Unregister
<1>4. TypeOK' /\ HostInv' /\ HandedInv'
  BY <1>2, <1>3 DEF IInv, TypeOK, HostInv, Numbered, HandedInv
<1>5. SessionInv' /\ WireInv' /\ PendingInv' /\ ClientInv'
  BY <1>1, <1>3 DEF IInv, SessionInv, WireInv, PendingInv, ClientInv, InSession, HostMode, Linked, Joined
<1> QED
  BY <1>4, <1>5 DEF IInv

-----------------------------------------------------------------------------
(* How the parts of the invariant survive a step within a session *)

\* The host's maps are empty to the others outside a session.
LEMMA SessionMapsProperties ==
  ASSUME IInv
  PROVE  /\ SessionNums[NoId] = 0
         /\ SessionNums \in [Ids -> {0} \union Nums]
         /\ SessionIds \in [Nums -> Ids]
         /\ \A id \in Channels : SessionNums[id] # 0 => SessionIds[SessionNums[id]] = id
BY NodesProperties, NumsProperties
DEF IInv, TypeOK, HostInv, SessionNums, SessionIds, EmptyMap, EmptyIds

\* Numbering a channel within a session lets the session's maps grow.
LEMMA NumberingProperties ==
  ASSUME IInv, NEW id \in Channels, CreateIdNum(id), InSession, InSession'
  PROVE  /\ Grow(SessionNums, SessionIds, SessionNums', SessionIds')
         /\ HostNum(id) \in Nums
         /\ SessionNums'[id] = HostNum(id) /\ SessionIds'[HostNum(id)] = id
BY CreateIdNumGrows, HostNumFresh DEF IInv, SessionNums, SessionIds

LEMMA ClientGrows ==
  ASSUME IInv, Grow(SessionNums, SessionIds, SessionNums', SessionIds'),
         \A c \in Clients : (Joined(c))' =>
            Joined(c) /\ idToNum'[c] = idToNum[c] /\ numToId'[c] = numToId[c] /\ todo'[c] = todo[c]
  PROVE  ClientInv'
<1> SUFFICES ASSUME NEW c \in Clients, (Joined(c))'
             PROVE  /\ \A id \in Ids : idToNum[c][id] \in {0, SessionNums'[id]}
                    /\ \A n \in Nums : /\ numToId[c][n] \in {NoId, SessionIds'[n]}
                                       /\ todo[c][n] # <<>> => SessionIds'[n] # NoId
                                       /\ todo[c][n] \in Seq(PayloadsOf(SessionIds'[n]))
  BY DEF ClientInv
<1>1. Joined(c)
  OBVIOUS
<1>2. ASSUME NEW id \in Ids
      PROVE  idToNum[c][id] \in {0, SessionNums'[id]}
  <2>1. idToNum[c][id] \in {0, SessionNums[id]}
    BY <1>1 DEF IInv, ClientInv
  <2> QED
    BY <2>1, SessionMapsProperties, NodesProperties DEF Grow, Ids
<1>3. ASSUME NEW n \in Nums
      PROVE  /\ numToId[c][n] \in {NoId, SessionIds'[n]}
             /\ todo[c][n] # <<>> => SessionIds'[n] # NoId
             /\ todo[c][n] \in Seq(PayloadsOf(SessionIds'[n]))
  <2>1. /\ numToId[c][n] \in {NoId, SessionIds[n]}
        /\ todo[c][n] # <<>> => SessionIds[n] # NoId
        /\ todo[c][n] \in Seq(PayloadsOf(SessionIds[n]))
    BY <1>1 DEF IInv, ClientInv
  <2>2. CASE SessionIds[n] # NoId
    BY <2>1, <2>2 DEF Grow
  <2>3. CASE SessionIds[n] = NoId
    BY <2>1, <2>3, EmptySeq
  <2> QED
    BY <2>2, <2>3
<1> QED
  BY <1>2, <1>3

LEMMA PendingGrows ==
  ASSUME IInv, Grow(SessionNums, SessionIds, SessionNums', SessionIds'),
         pending'[Host] \subseteq pending[Host],
         \A c \in Clients : (Linked(c))' => Linked(c) /\ pending'[c] \subseteq pending[c]
  PROVE  PendingInv'
<1>1. pending \in [Nodes -> SUBSET PendingSend]
  BY DEF IInv, TypeOK
<1>2. ASSUME NEW p \in PendingSend, p.num \in Nums, SessionNums[p.ch] = p.num
      PROVE  SessionNums'[p.ch] = p.num
  BY <1>2, NumsProperties DEF PendingSend, Grow
<1>3. ASSUME NEW p \in pending'[Host]
      PROVE  p.num \in Nums /\ SessionNums'[p.ch] = p.num
  BY <1>1, <1>2, <1>3, NodesProperties DEF IInv, PendingInv
<1>4. ASSUME NEW c \in Clients, (Linked(c))', NEW p \in pending'[c]
      PROVE  p.named \/ (p.num \in Nums /\ SessionNums'[p.ch] = p.num)
  BY <1>1, <1>2, <1>4, NodesProperties DEF IInv, PendingInv
<1> QED
  BY <1>3, <1>4 DEF PendingInv

LEMMA SessionKept ==
  ASSUME IInv, UNCHANGED <<host, client>>,
         fullState' \subseteq fullState \/ HostMode \/ fullState' = {},
         ~InSession => pending'[Host] = {},
         \A c \in Clients : client[c] \in {"off", "connected"} => pending'[c] = {},
         \A c \in Clients : ~Linked(c) => up'[c] = up[c] /\ down'[c] = down[c]
  PROVE  SessionInv'
BY DEF IInv, SessionInv, InSession, HostMode, Linked

-----------------------------------------------------------------------------
(* Sending *)

LEMMA SendLookupStep ==
  ASSUME IInv, NEW n \in Nodes, NEW ch \in Channels, NEW safe \in BOOLEAN,
         SendLookup(n, ch, safe)
  PROVE  IInv'
<1> DEFINE p == [ch    |-> ch,
                 num   |-> IF n = Host THEN HostNum(ch) ELSE idToNum[n][ch],
                 named |-> idToNum[n][ch] = 0,
                 safe  |-> safe]
<1>0. /\ TypeOK /\ HostInv
      /\ idToNum \in [Nodes -> [Ids -> {0} \union Nums]]
      /\ pending \in [Nodes -> SUBSET PendingSend]
      /\ UNCHANGED <<host, client, todo, registered, sentReserved, fullState,
                     up, down, sent, handed, owed, sessions>>
      /\ Started(n)
      /\ pending' = [pending EXCEPT ![n] = pending[n] \union {p}]
  BY DEF IInv, TypeOK, SendLookup
<1>1. p \in PendingSend
  BY <1>0, HostNumFresh, NodesProperties DEF PendingSend
<1>2. /\ pending' \in [Nodes -> SUBSET PendingSend]
      /\ pending'[n] = pending[n] \union {p}
      /\ \A x \in Nodes \ {n} : pending'[x] = pending[x]
  BY <1>0, <1>1
<1>3. /\ (Linked(n))' <=> Linked(n)
      /\ InSession' <=> InSession
      /\ \A c \in Clients : ((Linked(c))' <=> Linked(c)) /\ ((Joined(c))' <=> Joined(c))
  BY <1>0 DEF Linked, Joined, InSession
<1>4. CASE n = Host
  <2>1. CreateIdNum(ch) /\ InSession
    BY <1>0, <1>4 DEF SendLookup, Started, HostMode, InSession
  <2>2. /\ idToNum' \in [Nodes -> [Ids -> {0} \union Nums]]
        /\ numToId' \in [Nodes -> [Nums -> Ids]]
        /\ HostInv'
        /\ \A c \in Clients : idToNum'[c] = idToNum[c] /\ numToId'[c] = numToId[c]
    BY <1>0, <2>1, CreateIdNumGrows
  <2>3. /\ Grow(SessionNums, SessionIds, SessionNums', SessionIds')
        /\ SessionNums'[ch] = HostNum(ch) /\ HostNum(ch) \in Nums
    BY <2>1, <1>3, NumberingProperties
  <2>4. TypeOK'
    BY <1>0, <1>2, <2>2 DEF TypeOK
  <2>5. SessionInv'
    BY <1>0, <1>2, <1>4, <2>1, NodesProperties, SessionKept DEF IInv, SessionInv
  <2>6. WireInv'
    BY <1>0, <2>3, WireGrows DEF IInv, WireInv
  <2>7. PendingInv'
    <3>1. \A q \in pending[Host] : q.ch \in Channels /\ SessionNums[q.ch] = q.num /\ q.num \in Nums
      BY <1>0, NodesProperties DEF IInv, PendingInv, PendingSend
    <3>2. \A q \in pending[Host] : SessionNums'[q.ch] = q.num
      BY <3>1, <2>3, NumsProperties DEF Grow
    <3>3. ASSUME NEW c \in Clients, (Linked(c))', NEW q \in pending'[c]
          PROVE  q.named \/ (q.num \in Nums /\ SessionNums'[q.ch] = q.num)
      <4>1. q \in pending[c] /\ Linked(c) /\ q.ch \in Channels
        BY <1>0, <1>2, <1>3, <1>4, <3>3, NodesProperties DEF PendingSend
      <4>2. q.named \/ (q.num \in Nums /\ SessionNums[q.ch] = q.num)
        BY <4>1 DEF IInv, PendingInv
      <4> QED
        BY <4>1, <4>2, <2>3, NumsProperties DEF Grow
    <3>4. p.ch = ch /\ p.num = HostNum(ch)
      BY <1>4
    <3> QED
      BY <3>1, <3>2, <3>3, <3>4, <1>2, <1>4, <2>3 DEF PendingInv
  <2>8. ClientInv'
    BY <1>0, <1>3, <2>2, <2>3, ClientGrows
  <2>9. HandedInv'
    BY <1>0 DEF IInv, HandedInv
  <2> QED
    BY <2>2, <2>4, <2>5, <2>6, <2>7, <2>8, <2>9 DEF IInv
<1>5. CASE n # Host
  <2>1. n \in Clients /\ UNCHANGED mapVars /\ client[n] \in {"joined", "cut"}
    BY <1>0, <1>5 DEF SendLookup, Started, Nodes
  <2>2. UNCHANGED <<idToNum, numToId>> /\ SessionNums' = SessionNums /\ SessionIds' = SessionIds
    BY <1>0, <2>1 DEF mapVars, SessionNums, SessionIds, InSession
  <2>3. TypeOK' /\ HostInv' /\ HandedInv'
    BY <1>0, <1>2, <2>2 DEF IInv, TypeOK, HostInv, Numbered, HandedInv
  <2>4. SessionInv'
    BY <1>0, <1>2, <1>5, <2>1, NodesProperties, SessionKept DEF IInv, SessionInv
  <2>5. WireInv' /\ ClientInv'
    BY <1>0, <2>2 DEF IInv, WireInv, ClientInv, Joined
  <2>6. PendingInv'
    <3>1. Linked(n) => p.named \/ (p.num \in Nums /\ SessionNums[p.ch] = p.num)
      <4>1. Linked(n) => Joined(n)
        BY <2>1 DEF Linked, Joined
      <4>2. Joined(n) => idToNum[n][ch] \in {0, SessionNums[ch]}
        BY <2>1, NodesProperties DEF IInv, ClientInv
      <4>3. idToNum[n][ch] \in {0} \union Nums
        BY <1>0, NodesProperties
      <4> QED
        BY <4>1, <4>2, <4>3, <1>5
    <3>2. pending'[Host] = pending[Host]
      BY <1>2, <1>5, NodesProperties
    <3>3. ASSUME NEW c \in Clients, (Linked(c))', NEW q \in pending'[c]
          PROVE  q.named \/ (q.num \in Nums /\ SessionNums'[q.ch] = q.num)
      <4>1. CASE q \in pending[c]
        BY <4>1, <3>3, <1>3, <2>2 DEF IInv, PendingInv
      <4>2. CASE q \notin pending[c]
        BY <4>2, <3>1, <3>3, <1>2, <1>3, <2>2, NodesProperties
      <4> QED
        BY <4>1, <4>2
    <3> QED
      BY <3>2, <3>3, <2>2 DEF IInv, PendingInv
  <2> QED
    BY <2>3, <2>4, <2>5, <2>6 DEF IInv
<1> QED
  BY <1>4, <1>5

\* The packet of a send that a number was looked up for.
LEMMA DataPacketProperties ==
  ASSUME TypeOK, NEW p \in PendingSend
  PROVE  /\ DataPacket(p).body \in Seq(PayloadsOf(p.ch))
         /\ p.num \in {0} \union Nums => DataPacket(p) \in Packet
         /\ \A n \in Nodes : p.named \/ p.num \in Nums => StreamOf(n, p) \in Streams
<1> DEFINE b == [id  |-> p.ch,
                 uid |-> sent + 1,
                 via |-> IF p.named THEN "idChannel"
                         ELSE IF p.safe THEN "ordered" ELSE "sequenced"]
<1>1. b \in Payload /\ p.ch \in Channels /\ b.id = p.ch
  BY DEF TypeOK, PendingSend, Payload, Kinds
<1>2. b \in PayloadsOf(p.ch) /\ PayloadsOf(p.ch) \subseteq Payload
  BY <1>1 DEF PayloadsOf
<1>3. DataPacket(p).body = <<b>>
  BY DEF DataPacket
<1>4. DataPacket(p).body \in Seq(PayloadsOf(p.ch)) /\ DataPacket(p).body \in Seq(Payload)
  <2> HIDE DEF b
  <2> QED
    BY <1>2, <1>3
<1>5. ASSUME p.num \in {0} \union Nums
      PROVE  DataPacket(p) \in Packet
  <2>1. DataPacket(p) = [type |-> DataPacket(p).type, num |-> DataPacket(p).num,
                         id |-> DataPacket(p).id, body |-> DataPacket(p).body]
    BY DEF DataPacket
  <2>2. /\ DataPacket(p).type \in PacketTypes
        /\ DataPacket(p).num = p.num
        /\ DataPacket(p).id \in Ids
    BY <1>1, NodesProperties DEF DataPacket, PacketTypes
  <2> HIDE DEF b
  <2> QED
    BY <1>4, <1>5, <2>1, <2>2 DEF Packet
<1>6. ASSUME NEW n \in Nodes, p.named \/ p.num \in Nums
      PROVE  StreamOf(n, p) \in Streams
  BY <1>6, ReservedProperties DEF StreamOf, Streams, Kinds
<1> QED
  BY <1>4, <1>5, <1>6

\* What the host puts on the wire is well-formed for maps that give the
\* channel the number of the send.
LEMMA HostPutProperties ==
  ASSUME IInv, NEW nums, NEW ids, Grow(SessionNums, SessionIds, nums, ids),
         NEW p \in PendingSend, p.num \in Nums, nums[p.ch] = p.num, ids[p.num] = p.ch, HostPut(p)
  PROVE  /\ down' \in [Clients -> [Streams -> Seq(Packet)]]
         /\ \A c \in Clients, t \in Streams : down'[c][t] \in Seq(DownPackets(nums, ids))
         /\ \A c \in Clients : ~Linked(c) => down'[c] = down[c]
         /\ sent' \in Nat
         /\ owed' \in [Clients -> SUBSET Nat]
         /\ sentReserved' \in [Nodes -> Reserved]
<1>1. TypeOK /\ Host \in Nodes
  BY NodesProperties DEF IInv
<1>2. /\ DataPacket(p) \in Packet
      /\ DataPacket(p).body \in Seq(PayloadsOf(p.ch))
      /\ StreamOf(Host, p) \in Streams
  BY <1>1, DataPacketProperties
<1>3. DataPacket(p) \in DownPackets(nums, ids)
  <2>1. p.ch \in Channels /\ p.ch # NoId
    BY NodesProperties DEF PendingSend
  <2>2. /\ DataPacket(p).num = p.num
        /\ DataPacket(p).type = IF p.named THEN "idChannel" ELSE "channel"
        /\ p.named => DataPacket(p).id = p.ch
    BY DEF DataPacket
  <2> QED
    BY <1>2, <2>1, <2>2 DEF DownPackets
<1>4. \A c \in Clients, t \in Streams : down[c][t] \in Seq(DownPackets(nums, ids))
  BY WireGrows DEF IInv
<1>5. Broadcast(DataPacket(p), StreamOf(Host, p))
  BY DEF HostPut
<1>6. /\ down' \in [Clients -> [Streams -> Seq(Packet)]]
      /\ \A c \in Clients, t \in Streams : down'[c][t] \in Seq(DownPackets(nums, ids))
      /\ \A c \in Clients : ~Linked(c) => down'[c] = down[c]
  BY <1>1, <1>2, <1>3, <1>4, <1>5, BroadcastProperties
<1>7. sent \in Nat /\ sent' \in Nat
  BY <1>1 DEF TypeOK, HostPut
<1>8. owed' \in [Clients -> SUBSET Nat]
  BY <1>1, <1>7 DEF TypeOK, HostPut
<1>9. sentReserved' \in [Nodes -> Reserved]
  BY <1>1, ReservedProperties DEF TypeOK, HostPut
<1> QED
  BY <1>6, <1>7, <1>8, <1>9

LEMMA HostSendStep == ASSUME IInv, NEW p \in pending[Host], HostSend(p) PROVE IInv'
<1>0. /\ UNCHANGED <<host, client, idToNum, numToId, todo, registered, fullState, up, handed, sessions>>
      /\ pending' = [pending EXCEPT ![Host] = pending[Host] \ {p}]
      /\ HostPut(p)
  BY DEF HostSend
<1>1. SessionNums' = SessionNums /\ SessionIds' = SessionIds
  BY <1>0 DEF SessionNums, SessionIds, InSession
<1>2. Grow(SessionNums, SessionIds, SessionNums, SessionIds)
  BY DEF Grow
<1>3. /\ p \in PendingSend /\ p.num \in Nums /\ SessionNums[p.ch] = p.num
      /\ p.ch \in Channels /\ SessionIds[p.num] = p.ch
  <2>1. p \in PendingSend /\ p.num \in Nums /\ SessionNums[p.ch] = p.num
    BY NodesProperties DEF IInv, TypeOK, PendingInv
  <2> QED
    BY <2>1, SessionMapsProperties, NumsProperties DEF PendingSend
<1>4. /\ down' \in [Clients -> [Streams -> Seq(Packet)]]
      /\ \A c \in Clients, t \in Streams : down'[c][t] \in Seq(DownPackets(SessionNums, SessionIds))
      /\ \A c \in Clients : ~Linked(c) => down'[c] = down[c]
      /\ sent' \in Nat /\ owed' \in [Clients -> SUBSET Nat]
      /\ sentReserved' \in [Nodes -> Reserved]
  BY <1>0, <1>2, <1>3, HostPutProperties
<1>5. /\ pending' \in [Nodes -> SUBSET PendingSend]
      /\ pending'[Host] \subseteq pending[Host]
      /\ \A c \in Clients : pending'[c] = pending[c]
  <2>1. pending \in [Nodes -> SUBSET PendingSend]
    BY DEF IInv, TypeOK
  <2> QED
    BY <1>0, <2>1, NodesProperties
<1>6. TypeOK' /\ HostInv' /\ HandedInv'
  BY <1>0, <1>4, <1>5 DEF IInv, TypeOK, HostInv, Numbered, HandedInv
<1>7. SessionInv'
  BY <1>0, <1>4, <1>5, SessionKept DEF IInv, SessionInv
<1>8. WireInv'
  BY <1>0, <1>1, <1>4 DEF IInv, WireInv
<1>9. PendingInv' /\ ClientInv'
  BY <1>0, <1>1, <1>2, <1>5, PendingGrows, ClientGrows DEF Linked, Joined
<1> QED
  BY <1>6, <1>7, <1>8, <1>9 DEF IInv

LEMMA ClientSendStep ==
  ASSUME IInv, NEW c \in Clients, NEW p \in pending[c], ClientSend(c, p)
  PROVE  IInv'
<1>0. /\ UNCHANGED <<host, client, idToNum, numToId, todo, registered, fullState,
                     down, handed, owed, sessions>>
      /\ pending' = [pending EXCEPT ![c] = pending[c] \ {p}]
      /\ ToHost(c, DataPacket(p), StreamOf(c, p))
      /\ c \in Nodes /\ c # Host /\ TypeOK
  BY NodesProperties DEF ClientSend, IInv
<1>1. SessionNums' = SessionNums /\ SessionIds' = SessionIds
  BY <1>0 DEF SessionNums, SessionIds, InSession
<1>2. Grow(SessionNums, SessionIds, SessionNums, SessionIds)
  BY DEF Grow
<1>3. p \in PendingSend /\ p.ch \in Channels
  BY <1>0 DEF TypeOK, PendingSend
<1>4. Linked(c) => p.named \/ (p.num \in Nums /\ SessionIds[p.num] = p.ch)
  <2>1. Linked(c) => p.named \/ (p.num \in Nums /\ SessionNums[p.ch] = p.num)
    BY DEF IInv, PendingInv
  <2> QED
    BY <1>3, <2>1, SessionMapsProperties, NumsProperties
<1>5. DataPacket(p) \in Packet /\ DataPacket(p).body \in Seq(PayloadsOf(p.ch))
  BY <1>0, <1>3, DataPacketProperties DEF PendingSend
<1>6. Linked(c) => StreamOf(c, p) \in Streams /\ DataPacket(p) \in UpPackets(SessionIds)
  <2> SUFFICES ASSUME Linked(c)
               PROVE  StreamOf(c, p) \in Streams /\ DataPacket(p) \in UpPackets(SessionIds)
    OBVIOUS
  <2>1. StreamOf(c, p) \in Streams
    BY <1>0, <1>3, <1>4, DataPacketProperties
  <2>2. /\ DataPacket(p).num = p.num
        /\ DataPacket(p).type = IF p.named THEN "idChannel" ELSE "channel"
        /\ p.named => DataPacket(p).id = p.ch
    BY DEF DataPacket
  <2>3. p.ch # NoId
    BY <1>3, NodesProperties
  <2> QED
    BY <1>3, <1>4, <1>5, <2>1, <2>2, <2>3 DEF UpPackets
<1>7. /\ up' \in [Clients -> [Streams -> Seq(Packet)]]
      /\ \A d \in Clients, t \in Streams : up'[d][t] \in Seq(UpPackets(SessionIds))
      /\ \A d \in Clients : ~Linked(d) => up'[d] = up[d]
  <2>1. \A d \in Clients, t \in Streams : up[d][t] \in Seq(UpPackets(SessionIds))
    BY DEF IInv, WireInv
  <2>2. CASE Linked(c)
    BY <1>0, <1>5, <1>6, <2>1, <2>2, ToHostProperties
  <2>3. CASE ~Linked(c)
    BY <1>0, <2>1, <2>3 DEF ToHost, TypeOK
  <2> QED
    BY <2>2, <2>3
<1>8. /\ pending' \in [Nodes -> SUBSET PendingSend]
      /\ pending'[c] \subseteq pending[c]
      /\ \A n \in Nodes \ {c} : pending'[n] = pending[n]
  <2>1. pending \in [Nodes -> SUBSET PendingSend]
    BY <1>0 DEF TypeOK
  <2> QED
    BY <1>0, <2>1
<1>9. sent' \in Nat /\ sentReserved' \in [Nodes -> Reserved]
  <2>1. sent' \in Nat
    BY <1>0 DEF TypeOK, ClientSend
  <2>2. sentReserved' \in [Nodes -> Reserved]
    BY <1>0, ReservedProperties DEF TypeOK, ClientSend
  <2> QED
    BY <2>1, <2>2
<1>10. TypeOK' /\ HostInv' /\ HandedInv'
  BY <1>0, <1>7, <1>8, <1>9 DEF IInv, TypeOK, HostInv, Numbered, HandedInv
<1>11. SessionInv'
  BY <1>0, <1>7, <1>8, NodesProperties, SessionKept DEF IInv, SessionInv
<1>12. WireInv'
  BY <1>0, <1>1, <1>7 DEF IInv, WireInv
<1>13. PendingInv' /\ ClientInv'
  BY <1>0, <1>1, <1>2, <1>8, NodesProperties, PendingGrows, ClientGrows DEF Linked, Joined
<1> QED
  BY <1>10, <1>11, <1>12, <1>13 DEF IInv

LEMMA FullStateStepStep ==
  ASSUME IInv, NEW ch \in fullState, NEW safe \in BOOLEAN, FullStateStep(ch, safe)
  PROVE  IInv'
<1> DEFINE p == [ch |-> ch, num |-> HostNum(ch), named |-> idToNum[Host][ch] = 0, safe |-> safe]
<1>0. /\ UNCHANGED <<host, client, todo, registered, pending, up, handed, sessions>>
      /\ HostPut(p) /\ CreateIdNum(ch)
      /\ fullState' = fullState \ {ch}
      /\ TypeOK /\ HostInv
  BY DEF FullStateStep, IInv
<1>1. ch \in Channels /\ HostMode /\ InSession /\ InSession'
  BY <1>0 DEF IInv, TypeOK, SessionInv, HostMode, InSession
<1>2. /\ idToNum' \in [Nodes -> [Ids -> {0} \union Nums]]
      /\ numToId' \in [Nodes -> [Nums -> Ids]]
      /\ HostInv'
      /\ \A c \in Clients : idToNum'[c] = idToNum[c] /\ numToId'[c] = numToId[c]
  BY <1>0, <1>1, CreateIdNumGrows
<1>3. /\ Grow(SessionNums, SessionIds, SessionNums', SessionIds')
      /\ HostNum(ch) \in Nums
      /\ SessionNums'[ch] = HostNum(ch) /\ SessionIds'[HostNum(ch)] = ch
  BY <1>0, <1>1, NumberingProperties
<1>4. p \in PendingSend /\ p.num = HostNum(ch) /\ p.ch = ch
  BY <1>1, <1>3 DEF PendingSend
<1>5. /\ down' \in [Clients -> [Streams -> Seq(Packet)]]
      /\ \A c \in Clients, t \in Streams : down'[c][t] \in Seq(DownPackets(SessionNums', SessionIds'))
      /\ \A c \in Clients : ~Linked(c) => down'[c] = down[c]
      /\ sent' \in Nat /\ owed' \in [Clients -> SUBSET Nat]
      /\ sentReserved' \in [Nodes -> Reserved]
  <2> HIDE DEF p
  <2> QED
    BY <1>0, <1>3, <1>4, HostPutProperties
<1>6. TypeOK' /\ HandedInv'
  BY <1>0, <1>2, <1>5 DEF IInv, TypeOK, HandedInv
<1>7. SessionInv'
  BY <1>0, <1>1, <1>5, SessionKept DEF IInv, SessionInv
<1>8. WireInv'
  BY <1>0, <1>3, <1>5, WireGrows DEF IInv, WireInv
<1>9. PendingInv' /\ ClientInv'
  BY <1>0, <1>2, <1>3, PendingGrows, ClientGrows DEF Linked, Joined
<1> QED
  BY <1>2, <1>6, <1>7, <1>8, <1>9 DEF IInv

LEMMA FullStateSkipStep == ASSUME IInv, NEW ch \in fullState, FullStateSkip(ch) PROVE IInv'
<1>1. /\ UNCHANGED <<host, client, idToNum, numToId, todo, registered, sentReserved,
                     pending, up, down, sent, handed, owed, sessions>>
      /\ fullState' = fullState \ {ch}
  BY DEF FullStateSkip
<1>2. SessionNums' = SessionNums /\ SessionIds' = SessionIds
  BY <1>1 DEF SessionNums, SessionIds, InSession
<1>3. TypeOK' /\ HostInv' /\ HandedInv'
  BY <1>1 DEF IInv, TypeOK, HostInv, Numbered, HandedInv
<1>4. SessionInv'
  BY <1>1, SessionKept DEF IInv, SessionInv
<1>5. WireInv' /\ PendingInv' /\ ClientInv'
  BY <1>1, <1>2 DEF IInv, WireInv, PendingInv, ClientInv, Linked, Joined
<1> QED
  BY <1>3, <1>4, <1>5 DEF IInv

-----------------------------------------------------------------------------
(* Receiving, on the host *)

LEMMA HostTakes ==
  ASSUME IInv, NEW c \in Clients, NEW s \in Streams, NEW i \in Arrivals(up[c][s], s[1]),
         up' = [up EXCEPT ![c][s] = Rest(@, i)]
  PROVE  /\ Linked(c)
         /\ up[c][s][i] \in UpPackets(SessionIds)
         /\ up' \in [Clients -> [Streams -> Seq(Packet)]]
         /\ \A d \in Clients, t \in Streams : up'[d][t] \in Seq(UpPackets(SessionIds))
         /\ \A d \in Clients : ~Linked(d) => up'[d] = up[d]
<1>1. /\ up \in [Clients -> [Streams -> Seq(Packet)]]
      /\ \A d \in Clients, t \in Streams : up[d][t] \in Seq(UpPackets(SessionIds))
  BY DEF IInv, TypeOK, WireInv
<1>2. /\ up[c][s][i] \in UpPackets(SessionIds)
      /\ Rest(up[c][s], i) \in Seq(UpPackets(SessionIds))
      /\ Rest(up[c][s], i) \in Seq(Packet)
  BY <1>1, ArrivalsProperties
<1>3. Linked(c)
  <2>1. EmptyLink[s] = <<>> /\ Arrivals(<<>>, s[1]) = {}
    BY EmptySeq DEF EmptyLink, Arrivals
  <2> QED
    BY <2>1 DEF IInv, SessionInv
<1>4. up'[c] = [up[c] EXCEPT ![s] = Rest(up[c][s], i)] /\ \A d \in Clients \ {c} : up'[d] = up[d]
  BY <1>1
<1>5. up'[c] \in [Streams -> Seq(Packet)] /\ \A t \in Streams : up'[c][t] \in Seq(UpPackets(SessionIds))
  <2>1. up[c] \in [Streams -> Seq(Packet)]
    BY <1>1
  <2> QED
    BY <1>1, <1>2, <1>4, <2>1
<1>6. up' \in [Clients -> [Streams -> Seq(Packet)]]
  <2>1. DOMAIN up' = Clients /\ up' = [d \in Clients |-> up'[d]]
    BY <1>1
  <2>2. \A d \in Clients : up'[d] \in [Streams -> Seq(Packet)]
    BY <1>1, <1>4, <1>5
  <2> QED
    BY <2>1, <2>2
<1> QED
  BY <1>1, <1>2, <1>3, <1>4, <1>5, <1>6

\* The answer of the host names a number the way its maps do.
LEMMA HostReplyProperties ==
  ASSUME IInv, NEW nums, NEW ids, Grow(SessionNums, SessionIds, nums, ids),
         NEW num \in Nums, NEW id \in Channels, nums[id] = num, HostReply(num, id)
  PROVE  /\ down' \in [Clients -> [Streams -> Seq(Packet)]]
         /\ \A c \in Clients, t \in Streams : down'[c][t] \in Seq(DownPackets(nums, ids))
         /\ \A c \in Clients : ~Linked(c) => down'[c] = down[c]
         /\ sentReserved' \in [Nodes -> Reserved]
<1>1. IdNumPacket(num, id) \in Packet
  BY NodesProperties, EmptySeq DEF IdNumPacket, Packet, PacketTypes
<1>2. IdNumPacket(num, id) \in DownPackets(nums, ids)
  <2>1. <<>> \in Seq(PayloadsOf(id))
    BY EmptySeq
  <2>2. /\ IdNumPacket(num, id).type = "idNum" /\ IdNumPacket(num, id).num = num
        /\ IdNumPacket(num, id).id = id /\ IdNumPacket(num, id).body = <<>>
    BY DEF IdNumPacket
  <2> QED
    BY <1>1, <2>1, <2>2 DEF DownPackets
<1>3. TypeOK /\ Host \in Nodes /\ \A c \in Clients, t \in Streams : down[c][t] \in Seq(DownPackets(nums, ids))
  BY NodesProperties, WireGrows DEF IInv
<1>4. /\ ReservedStream(Host) \in Streams
      /\ Broadcast(IdNumPacket(num, id), ReservedStream(Host))
      /\ sentReserved' \in [Nodes -> Reserved]
  BY <1>3, ReservedProperties DEF HostReply
<1> QED
  BY <1>2, <1>3, <1>4, BroadcastProperties

LEMMA HostReceiveStep ==
  ASSUME IInv, NEW c \in Clients, NEW s \in Streams, HostReceive(c, s)
  PROVE  IInv'
<1>0. PICK i \in Arrivals(up[c][s], s[1]) :
        /\ up' = [up EXCEPT ![c][s] = Rest(@, i)]
        /\ \/ HostReceiveFullSend(up[c][s][i])
           \/ HostReceiveChannel(up[c][s][i])
           \/ HostReceiveIdChannel(up[c][s][i])
           \/ HostReceiveIdNum(up[c][s][i])
           \/ HostIgnore(up[c][s][i])
  BY DEF HostReceive
<1> DEFINE m == up[c][s][i]
<1>1. /\ Linked(c)
      /\ m \in UpPackets(SessionIds)
      /\ up' \in [Clients -> [Streams -> Seq(Packet)]]
      /\ \A d \in Clients, t \in Streams : up'[d][t] \in Seq(UpPackets(SessionIds))
      /\ \A d \in Clients : ~Linked(d) => up'[d] = up[d]
  BY <1>0, HostTakes
<1>2. UNCHANGED <<host, client, todo, registered, pending, sent, owed, sessions>> /\ TypeOK
  BY DEF HostReceive, IInv
<1>3. (InSession' <=> InSession) /\ Grow(SessionNums, SessionIds, SessionNums, SessionIds)
  BY <1>2 DEF InSession, Grow
<1>4. HostMode => SessionNums = idToNum[Host] /\ SessionIds = numToId[Host] /\ InSession
  BY DEF HostMode, SessionNums, SessionIds, InSession
<1> HIDE DEF m
\* A packet that leaves the host's maps alone.
<1>5. ASSUME UNCHANGED mapVars, fullState' \in SUBSET Channels, HostMode \/ fullState' \subseteq fullState \/ fullState' = {},
             sentReserved' \in [Nodes -> Reserved],
             down' \in [Clients -> [Streams -> Seq(Packet)]],
             \A d \in Clients, t \in Streams : down'[d][t] \in Seq(DownPackets(SessionNums, SessionIds)),
             \A d \in Clients : ~Linked(d) => down'[d] = down[d],
             handed' \in [Nodes -> Seq(Handed)], HandedInv'
      PROVE  IInv'
  <2>1. UNCHANGED <<idToNum, numToId>> /\ SessionNums' = SessionNums /\ SessionIds' = SessionIds
    BY <1>2, <1>5 DEF mapVars, SessionNums, SessionIds, InSession
  <2>2. TypeOK' /\ HostInv'
    BY <1>1, <1>2, <1>5, <2>1 DEF IInv, TypeOK, HostInv, Numbered
  <2>3. SessionInv'
    BY <1>1, <1>2, <1>5, SessionKept DEF IInv, SessionInv
  <2>4. WireInv'
    BY <1>1, <1>5, <2>1 DEF WireInv
  <2>5. PendingInv' /\ ClientInv'
    BY <1>2, <1>3, <2>1, PendingGrows, ClientGrows DEF Linked, Joined
  <2> QED
    BY <1>5, <2>2, <2>3, <2>4, <2>5 DEF IInv
<1>6. /\ down \in [Clients -> [Streams -> Seq(Packet)]]
      /\ \A d \in Clients, t \in Streams : down[d][t] \in Seq(DownPackets(SessionNums, SessionIds))
      /\ sentReserved \in [Nodes -> Reserved] /\ fullState \in SUBSET Channels
      /\ handed \in [Nodes -> Seq(Handed)] /\ HandedInv
  BY DEF IInv, TypeOK, WireInv
<1>7. handed' = handed => HandedInv'
  BY <1>6 DEF HandedInv
<1>8. CASE HostReceiveFullSend(m)
  <2>1. registered[Host] \in SUBSET Channels
    BY <1>2, NodesProperties DEF TypeOK
  <2> QED
    BY <1>5, <1>6, <1>7, <1>8, <2>1 DEF HostReceiveFullSend, mapVars
<1>9. CASE HostReceiveChannel(m)
  <2>1. /\ m.num \in Nums /\ SessionIds[m.num] \in Channels
        /\ m.body \in Seq(PayloadsOf(SessionIds[m.num]))
    BY <1>1, <1>9, SessionMapsProperties DEF HostReceiveChannel, UpPackets, Ids
  <2>2. HandTo(Host, SessionIds[m.num], m.body, FALSE)
    BY <1>4, <1>9 DEF HostReceiveChannel
  <2>3. handed' \in [Nodes -> Seq(Handed)] /\ HandedInv'
    BY <1>2, <1>6, <2>1, <2>2, HandToProperties, NodesProperties
  <2> QED
    BY <1>5, <1>6, <1>9, <2>3 DEF HostReceiveChannel, mapVars
<1>10. CASE HostReceiveIdChannel(m)
  <2>1. HostMode /\ InSession /\ InSession' /\ CreateIdNum(m.id) /\ HostReply(HostNum(m.id), m.id)
    BY <1>3, <1>4, <1>10 DEF HostReceiveIdChannel
  <2>2. m.id \in Channels /\ m.body \in Seq(PayloadsOf(m.id))
    BY <1>1, <1>10 DEF HostReceiveIdChannel, UpPackets
  <2>3. /\ idToNum' \in [Nodes -> [Ids -> {0} \union Nums]]
        /\ numToId' \in [Nodes -> [Nums -> Ids]]
        /\ HostInv'
        /\ \A d \in Clients : idToNum'[d] = idToNum[d] /\ numToId'[d] = numToId[d]
    BY <2>1, <2>2, CreateIdNumGrows DEF IInv
  <2>4. /\ Grow(SessionNums, SessionIds, SessionNums', SessionIds')
        /\ HostNum(m.id) \in Nums /\ SessionNums'[m.id] = HostNum(m.id)
    BY <2>1, <2>2, NumberingProperties
  <2>5. /\ down' \in [Clients -> [Streams -> Seq(Packet)]]
        /\ \A d \in Clients, t \in Streams : down'[d][t] \in Seq(DownPackets(SessionNums', SessionIds'))
        /\ \A d \in Clients : ~Linked(d) => down'[d] = down[d]
        /\ sentReserved' \in [Nodes -> Reserved]
    BY <2>1, <2>2, <2>4, HostReplyProperties
  <2>6. handed' \in [Nodes -> Seq(Handed)] /\ HandedInv'
    BY <1>2, <1>6, <1>10, <2>2, HandToProperties, NodesProperties DEF HostReceiveIdChannel
  <2>7. fullState' = fullState
    BY <1>10 DEF HostReceiveIdChannel
  <2>8. TypeOK'
    BY <1>1, <1>2, <2>3, <2>5, <2>6, <2>7 DEF TypeOK
  <2>9. SessionInv'
    BY <1>1, <1>2, <2>5, <2>7, SessionKept DEF IInv, SessionInv
  <2>10. WireInv'
    <3>1. UpPackets(SessionIds) \subseteq UpPackets(SessionIds')
      BY <2>4, PacketsGrow
    <3>2. \A d \in Clients, t \in Streams : up'[d][t] \in Seq(UpPackets(SessionIds'))
      BY <1>1, <3>1, SeqMonotonic
    <3> QED
      BY <2>5, <3>2 DEF WireInv
  <2>11. PendingInv' /\ ClientInv'
    BY <1>2, <2>3, <2>4, PendingGrows, ClientGrows DEF Linked, Joined
  <2> QED
    BY <2>3, <2>6, <2>8, <2>9, <2>10, <2>11 DEF IInv
<1>11. CASE HostReceiveIdNum(m)
  <2>1. m.num \in Nums /\ SessionIds[m.num] \in Channels /\ HostMode
    BY <1>1, <1>11, SessionMapsProperties DEF HostReceiveIdNum, UpPackets, Ids
  <2>2. SessionNums[SessionIds[m.num]] = m.num /\ HostReply(m.num, SessionIds[m.num])
    BY <1>4, <1>11, <2>1, NodesProperties DEF HostReceiveIdNum, IInv, HostInv
  <2>3. /\ down' \in [Clients -> [Streams -> Seq(Packet)]]
        /\ \A d \in Clients, t \in Streams : down'[d][t] \in Seq(DownPackets(SessionNums, SessionIds))
        /\ \A d \in Clients : ~Linked(d) => down'[d] = down[d]
        /\ sentReserved' \in [Nodes -> Reserved]
    BY <1>3, <2>1, <2>2, HostReplyProperties
  <2> QED
    BY <1>5, <1>6, <1>7, <1>11, <2>3 DEF HostReceiveIdNum, mapVars
<1>12. CASE HostIgnore(m)
  BY <1>5, <1>6, <1>7, <1>12 DEF HostIgnore, mapVars
<1> QED
  BY <1>0, <1>8, <1>9, <1>10, <1>11, <1>12 DEF m

-----------------------------------------------------------------------------
(* Receiving, on a client *)

LEMMA ClientTakes ==
  ASSUME IInv, NEW c \in Clients, NEW s \in Streams, NEW i \in Arrivals(down[c][s], s[1]),
         down' = [down EXCEPT ![c][s] = Rest(@, i)]
  PROVE  /\ Linked(c)
         /\ down[c][s][i] \in DownPackets(SessionNums, SessionIds)
         /\ down' \in [Clients -> [Streams -> Seq(Packet)]]
         /\ \A d \in Clients, t \in Streams : down'[d][t] \in Seq(DownPackets(SessionNums, SessionIds))
         /\ \A d \in Clients : ~Linked(d) => down'[d] = down[d]
<1>1. /\ down \in [Clients -> [Streams -> Seq(Packet)]]
      /\ \A d \in Clients, t \in Streams : down[d][t] \in Seq(DownPackets(SessionNums, SessionIds))
  BY DEF IInv, TypeOK, WireInv
<1>2. /\ down[c][s][i] \in DownPackets(SessionNums, SessionIds)
      /\ Rest(down[c][s], i) \in Seq(DownPackets(SessionNums, SessionIds))
      /\ Rest(down[c][s], i) \in Seq(Packet)
  BY <1>1, ArrivalsProperties
<1>3. Linked(c)
  <2>1. EmptyLink[s] = <<>> /\ Arrivals(<<>>, s[1]) = {}
    BY EmptySeq DEF EmptyLink, Arrivals
  <2> QED
    BY <2>1 DEF IInv, SessionInv
<1>4. down'[c] = [down[c] EXCEPT ![s] = Rest(down[c][s], i)] /\ \A d \in Clients \ {c} : down'[d] = down[d]
  BY <1>1
<1>5. /\ down'[c] \in [Streams -> Seq(Packet)]
      /\ \A t \in Streams : down'[c][t] \in Seq(DownPackets(SessionNums, SessionIds))
  <2>1. down[c] \in [Streams -> Seq(Packet)]
    BY <1>1
  <2> QED
    BY <1>1, <1>2, <1>4, <2>1
<1>6. down' \in [Clients -> [Streams -> Seq(Packet)]]
  <2>1. DOMAIN down' = Clients /\ down' = [d \in Clients |-> down'[d]]
    BY <1>1
  <2>2. \A d \in Clients : down'[d] \in [Streams -> Seq(Packet)]
    BY <1>1, <1>4, <1>5
  <2> QED
    BY <2>1, <2>2
<1> QED
  BY <1>1, <1>2, <1>3, <1>4, <1>5, <1>6

\* A client that learns a number of the host learns nothing else.
LEMMA ClientLearns ==
  ASSUME IInv, NEW c \in Clients, Joined(c), NEW id \in Channels, NEW num \in Nums,
         SessionNums[id] = num, SetIdNum(c, id, num)
  PROVE  /\ idToNum' \in [Nodes -> [Ids -> {0} \union Nums]]
         /\ numToId' \in [Nodes -> [Nums -> Ids]]
         /\ \A n \in Nodes \ {c} : idToNum'[n] = idToNum[n] /\ numToId'[n] = numToId[n]
         /\ \A x \in Ids : idToNum'[c][x] \in {0, SessionNums[x]}
         /\ \A n \in Nums : numToId'[c][n] \in {NoId, SessionIds[n]}
<1>1. /\ idToNum \in [Nodes -> [Ids -> {0} \union Nums]]
      /\ numToId \in [Nodes -> [Nums -> Ids]]
      /\ c \in Nodes /\ id \in Ids
  BY NodesProperties DEF IInv, TypeOK
<1>2. /\ \A x \in Ids : idToNum[c][x] \in {0, SessionNums[x]}
      /\ \A n \in Nums : numToId[c][n] \in {NoId, SessionIds[n]}
  BY DEF IInv, ClientInv
<1>3. SessionIds[num] = id
  BY SessionMapsProperties, NumsProperties
<1>4. CASE idToNum[c][id] # 0
  BY <1>1, <1>2, <1>4 DEF SetIdNum, mapVars
<1>5. CASE idToNum[c][id] = 0
  <2>1. /\ idToNum' = [idToNum EXCEPT ![c] = [idToNum[c] EXCEPT ![id] = num]]
        /\ numToId' = [numToId EXCEPT ![c] = [numToId[c] EXCEPT ![num] = id]]
    BY <1>1, <1>5 DEF SetIdNum
  <2>2. /\ idToNum[c] \in [Ids -> {0} \union Nums] /\ numToId[c] \in [Nums -> Ids]
    BY <1>1
  <2>3. /\ [idToNum[c] EXCEPT ![id] = num] \in [Ids -> {0} \union Nums]
        /\ [numToId[c] EXCEPT ![num] = id] \in [Nums -> Ids]
    BY <1>1, <2>2
  <2>4. /\ idToNum'[c] = [idToNum[c] EXCEPT ![id] = num]
        /\ numToId'[c] = [numToId[c] EXCEPT ![num] = id]
        /\ \A n \in Nodes \ {c} : idToNum'[n] = idToNum[n] /\ numToId'[n] = numToId[n]
    BY <1>1, <2>1
  <2> QED
    BY <1>1, <1>2, <1>3, <2>1, <2>2, <2>3, <2>4
<1> QED
  BY <1>4, <1>5

LEMMA ClientReceiveStep ==
  ASSUME IInv, NEW c \in Clients, NEW s \in Streams, ClientReceive(c, s)
  PROVE  IInv'
<1>0. PICK i \in Arrivals(down[c][s], s[1]) :
        /\ down' = [down EXCEPT ![c][s] = Rest(@, i)]
        /\ \/ ClientReceiveKnown(c, down[c][s][i])
           \/ ClientReceiveUnknown(c, down[c][s][i])
           \/ ClientReceiveIdChannel(c, down[c][s][i])
           \/ ClientReceiveIdNum(c, down[c][s][i])
           \/ ClientIgnore(c)
  BY DEF ClientReceive
<1> DEFINE m == down[c][s][i]
<1>1. /\ Linked(c)
      /\ m \in DownPackets(SessionNums, SessionIds)
      /\ down' \in [Clients -> [Streams -> Seq(Packet)]]
      /\ \A d \in Clients, t \in Streams : down'[d][t] \in Seq(DownPackets(SessionNums, SessionIds))
      /\ \A d \in Clients : ~Linked(d) => down'[d] = down[d]
  BY <1>0, ClientTakes
<1>2. /\ UNCHANGED <<host, client, registered, fullState, pending, sent, owed, sessions>>
      /\ TypeOK /\ c \in Nodes /\ c # Host
  BY NodesProperties DEF ClientReceive, IInv
<1> HIDE DEF m
<1>3. /\ up \in [Clients -> [Streams -> Seq(Packet)]]
      /\ \A d \in Clients, t \in Streams : up[d][t] \in Seq(UpPackets(SessionIds))
      /\ sentReserved \in [Nodes -> Reserved]
      /\ todo \in [Clients -> [Nums -> Seq(Payload)]]
      /\ idToNum \in [Nodes -> [Ids -> {0} \union Nums]]
      /\ numToId \in [Nodes -> [Nums -> Ids]]
      /\ handed \in [Nodes -> Seq(Handed)] /\ HandedInv
  BY DEF IInv, TypeOK, WireInv
<1>4. Joined(c) =>
        /\ \A id \in Ids : idToNum[c][id] \in {0, SessionNums[id]}
        /\ \A n \in Nums : /\ numToId[c][n] \in {NoId, SessionIds[n]}
                           /\ todo[c][n] # <<>> => SessionIds[n] # NoId
                           /\ todo[c][n] \in Seq(PayloadsOf(SessionIds[n]))
  BY DEF IInv, ClientInv
\* What every packet leaves as the invariant wants it.
<1>5. ASSUME idToNum' \in [Nodes -> [Ids -> {0} \union Nums]],
             numToId' \in [Nodes -> [Nums -> Ids]],
             \A n \in Nodes \ {c} : idToNum'[n] = idToNum[n] /\ numToId'[n] = numToId[n],
             \A d \in Clients \ {c} : todo'[d] = todo[d],
             todo' \in [Clients -> [Nums -> Seq(Payload)]],
             Joined(c) =>
               /\ \A id \in Ids : idToNum'[c][id] \in {0, SessionNums[id]}
               /\ \A n \in Nums : /\ numToId'[c][n] \in {NoId, SessionIds[n]}
                                  /\ todo'[c][n] # <<>> => SessionIds[n] # NoId
                                  /\ todo'[c][n] \in Seq(PayloadsOf(SessionIds[n])),
             sentReserved' \in [Nodes -> Reserved],
             up' \in [Clients -> [Streams -> Seq(Packet)]],
             \A d \in Clients, t \in Streams : up'[d][t] \in Seq(UpPackets(SessionIds)),
             \A d \in Clients : ~Linked(d) => up'[d] = up[d],
             handed' \in [Nodes -> Seq(Handed)], HandedInv'
      PROVE  IInv'
  <2>1. /\ idToNum'[Host] = idToNum[Host] /\ numToId'[Host] = numToId[Host]
        /\ \A d \in Clients \ {c} : idToNum'[d] = idToNum[d] /\ numToId'[d] = numToId[d]
    BY <1>2, <1>5, NodesProperties
  <2>2. SessionNums' = SessionNums /\ SessionIds' = SessionIds
    BY <1>2, <2>1 DEF SessionNums, SessionIds, InSession
  <2>3. TypeOK'
    BY <1>1, <1>2, <1>5 DEF TypeOK
  <2>4. HostInv'
    <3>1. Numbered' = Numbered
      BY <2>1 DEF Numbered
    <3> QED
      BY <2>1, <3>1 DEF IInv, HostInv
  <2>5. SessionInv'
    BY <1>1, <1>2, <1>5, SessionKept DEF IInv, SessionInv
  <2>6. WireInv'
    BY <1>1, <1>5, <2>2 DEF WireInv
  <2>7. PendingInv'
    BY <1>2, <2>2 DEF IInv, PendingInv, Linked
  <2>8. ClientInv'
    <3>1. ASSUME NEW d \in Clients, (Joined(d))'
          PROVE  /\ \A id \in Ids : idToNum'[d][id] \in {0, SessionNums[id]}
                 /\ \A n \in Nums : /\ numToId'[d][n] \in {NoId, SessionIds[n]}
                                    /\ todo'[d][n] # <<>> => SessionIds[n] # NoId
                                    /\ todo'[d][n] \in Seq(PayloadsOf(SessionIds[n]))
      <4>1. Joined(d)
        BY <1>2, <3>1 DEF Joined
      <4>2. CASE d = c
        BY <1>5, <4>1, <4>2
      <4>3. CASE d # c
        <5>1. idToNum'[d] = idToNum[d] /\ numToId'[d] = numToId[d] /\ todo'[d] = todo[d]
          BY <1>5, <2>1, <4>3
        <5> QED
          BY <4>1, <5>1 DEF IInv, ClientInv
      <4> QED
        BY <4>2, <4>3
    <3> QED
      BY <2>2, <3>1 DEF ClientInv
  <2> QED
    BY <1>5, <2>3, <2>4, <2>5, <2>6, <2>7, <2>8 DEF IInv
<1>6. handed' = handed => HandedInv'
  BY <1>3 DEF HandedInv
<1>7. CASE ClientReceiveKnown(c, m)
  <2>1. /\ numToId[c][m.num] = SessionIds[m.num] /\ SessionIds[m.num] \in Channels
        /\ m.body \in Seq(PayloadsOf(SessionIds[m.num]))
    BY <1>1, <1>4, <1>7, SessionMapsProperties DEF ClientReceiveKnown, DownPackets, Ids
  <2>2. handed' \in [Nodes -> Seq(Handed)] /\ HandedInv'
    BY <1>2, <1>3, <1>7, <2>1, HandToProperties DEF ClientReceiveKnown
  <2>3. UNCHANGED <<idToNum, numToId, todo, sentReserved, up>>
    BY <1>7 DEF ClientReceiveKnown
  <2> QED
    BY <1>3, <1>4, <1>5, <2>2, <2>3
<1>8. CASE ClientReceiveUnknown(c, m)
  <2>0. /\ todo' = [todo EXCEPT ![c][m.num] = todo[c][m.num] \o m.body]
        /\ ToHost(c, IdNumPacket(m.num, NoId), ReservedStream(c))
        /\ NextReserved(c) /\ Joined(c)
        /\ UNCHANGED <<idToNum, numToId, handed>>
    BY <1>8 DEF ClientReceiveUnknown
  <2>1. /\ m.num \in Nums /\ SessionIds[m.num] # NoId
        /\ m.body \in Seq(PayloadsOf(SessionIds[m.num]))
        /\ m \in Packet
    BY <1>1, <1>8 DEF ClientReceiveUnknown, DownPackets
  <2>2. /\ todo[c][m.num] \o m.body \in Seq(PayloadsOf(SessionIds[m.num]))
        /\ todo[c][m.num] \o m.body \in Seq(Payload)
    <3>1. todo[c][m.num] \in Seq(PayloadsOf(SessionIds[m.num]))
      BY <1>4, <2>0, <2>1
    <3>2. PayloadsOf(SessionIds[m.num]) \subseteq Payload
      BY DEF PayloadsOf
    <3>3. todo[c][m.num] \o m.body \in Seq(PayloadsOf(SessionIds[m.num]))
      BY <2>1, <3>1, ConcatProperties
    <3> QED
      BY <3>2, <3>3, SeqMonotonic
  <2>3. todo' = [todo EXCEPT ![c] = [todo[c] EXCEPT ![m.num] = todo[c][m.num] \o m.body]]
    BY <1>3, <2>0
  <2>4. /\ todo' \in [Clients -> [Nums -> Seq(Payload)]]
        /\ \A d \in Clients \ {c} : todo'[d] = todo[d]
        /\ todo'[c] = [todo[c] EXCEPT ![m.num] = todo[c][m.num] \o m.body]
    <3>1. [todo[c] EXCEPT ![m.num] = todo[c][m.num] \o m.body] \in [Nums -> Seq(Payload)]
      BY <1>3, <2>1, <2>2
    <3> QED
      BY <1>3, <2>3, <3>1
  <2>5. ASSUME NEW n \in Nums
        PROVE  /\ todo'[c][n] # <<>> => SessionIds[n] # NoId
               /\ todo'[c][n] \in Seq(PayloadsOf(SessionIds[n]))
    <3>1. todo[c] \in [Nums -> Seq(Payload)]
      BY <1>3
    <3>2. CASE n = m.num
      BY <2>1, <2>2, <2>4, <3>1, <3>2
    <3>3. CASE n # m.num
      BY <1>4, <2>0, <2>4, <3>1, <3>3
    <3> QED
      BY <3>2, <3>3
  <2>6. /\ IdNumPacket(m.num, NoId) \in Packet
        /\ IdNumPacket(m.num, NoId) \in UpPackets(SessionIds)
    <3>1. IdNumPacket(m.num, NoId) \in Packet
      BY <2>1, NodesProperties, EmptySeq DEF IdNumPacket, Packet, PacketTypes
    <3>2. /\ IdNumPacket(m.num, NoId).type = "idNum" /\ IdNumPacket(m.num, NoId).num = m.num
          /\ IdNumPacket(m.num, NoId).body = <<>>
      BY DEF IdNumPacket
    <3> QED
      BY <2>1, <3>1, <3>2, EmptySeq DEF UpPackets
  <2>7. /\ up' \in [Clients -> [Streams -> Seq(Packet)]]
        /\ \A d \in Clients, t \in Streams : up'[d][t] \in Seq(UpPackets(SessionIds))
        /\ \A d \in Clients : ~Linked(d) => up'[d] = up[d]
        /\ sentReserved' \in [Nodes -> Reserved]
    <3>1. ReservedStream(c) \in Streams /\ sentReserved' \in [Nodes -> Reserved]
      BY <1>2, <2>0, ReservedProperties
    <3> QED
      BY <1>2, <1>3, <2>0, <2>6, <3>1, ToHostProperties
  <2> QED
    BY <1>3, <1>4, <1>5, <1>6, <2>0, <2>4, <2>5, <2>7
<1>9. CASE ClientReceiveIdChannel(c, m)
  <2>1. /\ m.id \in Channels /\ m.num \in Nums /\ SessionNums[m.id] = m.num
        /\ m.body \in Seq(PayloadsOf(m.id))
    BY <1>1, <1>9 DEF ClientReceiveIdChannel, DownPackets
  <2>2. Joined(c) /\ SetIdNum(c, m.id, m.num) /\ UNCHANGED <<todo, sentReserved, up>>
    BY <1>9 DEF ClientReceiveIdChannel
  <2>3. handed' \in [Nodes -> Seq(Handed)] /\ HandedInv'
    BY <1>2, <1>3, <1>9, <2>1, HandToProperties DEF ClientReceiveIdChannel
  <2>4. /\ idToNum' \in [Nodes -> [Ids -> {0} \union Nums]]
        /\ numToId' \in [Nodes -> [Nums -> Ids]]
        /\ \A n \in Nodes \ {c} : idToNum'[n] = idToNum[n] /\ numToId'[n] = numToId[n]
        /\ \A x \in Ids : idToNum'[c][x] \in {0, SessionNums[x]}
        /\ \A n \in Nums : numToId'[c][n] \in {NoId, SessionIds[n]}
    BY <2>1, <2>2, ClientLearns
  <2> QED
    BY <1>3, <1>4, <1>5, <2>2, <2>3, <2>4
<1>10. CASE ClientReceiveIdNum(c, m)
  <2>0. /\ Joined(c) /\ SetIdNum(c, m.id, m.num)
        /\ HandTo(c, m.id, todo[c][m.num], TRUE)
        /\ todo' = [todo EXCEPT ![c][m.num] = <<>>]
        /\ UNCHANGED <<sentReserved, up>>
    BY <1>10 DEF ClientReceiveIdNum
  <2>1. m.id \in Channels /\ m.num \in Nums /\ SessionNums[m.id] = m.num
    BY <1>1, <1>10 DEF ClientReceiveIdNum, DownPackets
  <2>2. SessionIds[m.num] = m.id
    BY <2>1, SessionMapsProperties, NumsProperties
  <2>3. todo[c][m.num] \in Seq(PayloadsOf(m.id))
    BY <1>4, <2>0, <2>1, <2>2
  <2>4. handed' \in [Nodes -> Seq(Handed)] /\ HandedInv'
    BY <1>2, <1>3, <2>0, <2>1, <2>3, HandToProperties
  <2>5. /\ idToNum' \in [Nodes -> [Ids -> {0} \union Nums]]
        /\ numToId' \in [Nodes -> [Nums -> Ids]]
        /\ \A n \in Nodes \ {c} : idToNum'[n] = idToNum[n] /\ numToId'[n] = numToId[n]
        /\ \A x \in Ids : idToNum'[c][x] \in {0, SessionNums[x]}
        /\ \A n \in Nums : numToId'[c][n] \in {NoId, SessionIds[n]}
    BY <2>0, <2>1, ClientLearns
  <2>6. todo' = [todo EXCEPT ![c] = [todo[c] EXCEPT ![m.num] = <<>>]]
    BY <1>3, <2>0
  <2>7. /\ todo' \in [Clients -> [Nums -> Seq(Payload)]]
        /\ \A d \in Clients \ {c} : todo'[d] = todo[d]
        /\ todo'[c] = [todo[c] EXCEPT ![m.num] = <<>>]
    <3>1. [todo[c] EXCEPT ![m.num] = <<>>] \in [Nums -> Seq(Payload)]
      BY <1>3, <2>1, EmptySeq
    <3> QED
      BY <1>3, <2>6, <3>1
  <2>8. ASSUME NEW n \in Nums
        PROVE  /\ todo'[c][n] # <<>> => SessionIds[n] # NoId
               /\ todo'[c][n] \in Seq(PayloadsOf(SessionIds[n]))
    <3>1. todo[c] \in [Nums -> Seq(Payload)]
      BY <1>3
    <3>2. CASE n = m.num
      BY <2>7, <3>1, <3>2, EmptySeq
    <3>3. CASE n # m.num
      BY <1>4, <2>0, <2>7, <3>1, <3>3
    <3> QED
      BY <3>2, <3>3
  <2> QED
    BY <1>3, <1>5, <2>0, <2>4, <2>5, <2>7, <2>8
<1>11. CASE ClientIgnore(c)
  BY <1>3, <1>4, <1>5, <1>6, <1>11 DEF ClientIgnore
<1> QED
  BY <1>0, <1>7, <1>8, <1>9, <1>10, <1>11 DEF m

-----------------------------------------------------------------------------
(* The invariant and what follows from it *)

LEMMA InitInvariant == Init => IInv
<1> SUFFICES ASSUME Init PROVE IInv
  OBVIOUS
<1>0. <<>> \in Seq(Payload) /\ <<>> \in Seq(Handed) /\ <<>> \in Seq({e \in Handed : e.to = e.body.id})
  BY EmptySeq
<1>1. /\ \A n \in Nodes : idToNum[n] = EmptyMap /\ numToId[n] = EmptyIds
      /\ Host \in Nodes
  BY NodesProperties DEF Init
<1>2. /\ \A id \in Ids : EmptyMap[id] = 0
      /\ \A n \in Nums : EmptyIds[n] = NoId
      /\ EmptyMap \in [Ids -> {0} \union Nums] /\ EmptyIds \in [Nums -> Ids]
      /\ EmptyTodo \in [Nums -> Seq(Payload)]
  BY <1>0, NodesProperties DEF EmptyMap, EmptyIds, EmptyTodo
<1>3. TypeOK
  <2>1. 0 \in Reserved
    BY ConstantsAssumption DEF Reserved
  <2> QED
    BY <1>0, <1>2, <2>1, EmptyLinkProperties DEF Init, TypeOK, HostStates, ClientStates
<1>4. HostInv
  BY <1>1, <1>2, NodesProperties DEF HostInv
<1>5. SessionInv
  BY NodesProperties DEF Init, SessionInv, InSession, HostMode, Linked
<1>6. WireInv
  BY EmptyLinkProperties DEF Init, WireInv
<1>7. PendingInv /\ ClientInv
  BY NodesProperties DEF Init, PendingInv, ClientInv, Linked, Joined
<1>8. HandedInv
  BY <1>0 DEF Init, HandedInv
<1> QED
  BY <1>3, <1>4, <1>5, <1>6, <1>7, <1>8 DEF IInv

LEMMA NextInvariant == IInv /\ [Next]_vars => IInv'
<1> SUFFICES ASSUME IInv, [Next]_vars PROVE IInv'
  OBVIOUS
<1>1. CASE OpenServer
  BY <1>1, OpenServerStep
<1>2. CASE StartHost
  BY <1>2, StartHostStep
<1>3. CASE StopHost
  BY <1>3, StopHostStep
<1>4. CASE CloseServer
  BY <1>4, CloseServerStep
<1>5. ASSUME NEW c \in Clients,
             \/ Connect(c) \/ StartClient(c) \/ StopClient(c) \/ Leave(c) \/ LoseConnection(c)
      PROVE  IInv'
  BY <1>5, ConnectStep, StartClientStep, StopClientStep, LeaveStep, LoseConnectionStep
<1>6. ASSUME NEW n \in Nodes, NEW ch \in Channels, Register(n, ch) \/ Unregister(n, ch)
      PROVE  IInv'
  BY <1>6, RegisterStep
<1>7. ASSUME NEW n \in Nodes, NEW ch \in Channels, NEW safe \in BOOLEAN, SendLookup(n, ch, safe)
      PROVE  IInv'
  BY <1>7, SendLookupStep
<1>8. ASSUME NEW p \in pending[Host], HostSend(p)
      PROVE  IInv'
  BY <1>8, HostSendStep
<1>9. ASSUME NEW c \in Clients, NEW p \in pending[c], ClientSend(c, p)
      PROVE  IInv'
  BY <1>9, ClientSendStep
<1>10. ASSUME NEW ch \in fullState, NEW safe \in BOOLEAN, FullStateStep(ch, safe)
       PROVE  IInv'
  BY <1>10, FullStateStepStep
<1>11. ASSUME NEW ch \in fullState, FullStateSkip(ch)
       PROVE  IInv'
  BY <1>11, FullStateSkipStep
<1>12. ASSUME NEW c \in Clients, NEW s \in Streams, HostReceive(c, s) \/ ClientReceive(c, s)
       PROVE  IInv'
  BY <1>12, HostReceiveStep, ClientReceiveStep
<1>13. CASE UNCHANGED vars
  <2>1. UNCHANGED <<host, client, idToNum, numToId, todo, registered, sentReserved,
                    fullState, pending, up, down, sent, handed, owed, sessions>>
    BY <1>13 DEF vars
  <2>2. SessionNums' = SessionNums /\ SessionIds' = SessionIds
    BY <2>1 DEF SessionNums, SessionIds, InSession
  <2>3. TypeOK' /\ HostInv' /\ HandedInv'
    BY <2>1 DEF IInv, TypeOK, HostInv, Numbered, HandedInv
  <2>4. SessionInv'
    BY <2>1, SessionKept DEF IInv, SessionInv
  <2>5. WireInv' /\ PendingInv' /\ ClientInv'
    BY <2>1, <2>2 DEF IInv, WireInv, PendingInv, ClientInv, Linked, Joined
  <2> QED
    BY <2>3, <2>4, <2>5 DEF IInv
<1> QED
  BY <1>1, <1>2, <1>3, <1>4, <1>5, <1>6, <1>7, <1>8, <1>9, <1>10, <1>11, <1>12, <1>13 DEF Next

\* Every reachable state satisfies the inductive invariant, for any clients and
\* any finite set of channels.
THEOREM Invariance == Spec => []IInv
<1> QED
  BY InitInvariant, NextInvariant, PTL DEF Spec

\* Every variable keeps its type: in particular every number the host gives out
\* lies just above the reserved ones (createIdNum).
THEOREM TypeCorrect == Spec => []TypeOK
<1>1. IInv => TypeOK
  BY DEF IInv
<1> QED
  BY <1>1, Invariance, PTL

\* A client that has joined never uses a number for another channel than the
\* host does (setIdNum, createIdNum).
THEOREM ClientsAgree == Spec => []MapsAgree
<1>1. IInv => MapsAgree
  <2> SUFFICES ASSUME IInv, NEW c \in Clients, Joined(c)
               PROVE  /\ \A id \in Ids : idToNum[c][id] \in {0, idToNum[Host][id]}
                      /\ \A n \in Nums : numToId[c][n] \in {NoId, numToId[Host][n]}
    BY DEF MapsAgree
  <2>1. /\ \A id \in Ids : idToNum[c][id] \in {0, SessionNums[id]}
        /\ \A n \in Nums : numToId[c][n] \in {NoId, SessionIds[n]}
    BY DEF IInv, ClientInv
  <2>2. /\ \A id \in Ids : SessionNums[id] \in {0, idToNum[Host][id]}
        /\ \A n \in Nums : SessionIds[n] \in {NoId, numToId[Host][n]}
    BY DEF SessionNums, SessionIds, EmptyMap, EmptyIds
  <2> QED
    BY <2>1, <2>2
<1> QED
  BY <1>1, Invariance, PTL

\* No two names share a number on the host, and the two maps are inverse to
\* each other (createIdNum).
THEOREM NumbersUnique == Spec => []HostMapsInverse
<1>1. IInv => HostMapsInverse
  <2> SUFFICES ASSUME IInv PROVE HostMapsInverse
    OBVIOUS
  <2>1. \A id \in Ids : idToNum[Host][id] # 0 => id \in Channels
    BY DEF IInv, HostInv, Ids
  <2> QED
    BY <2>1 DEF IInv, HostInv, HostMapsInverse
<1> QED
  BY <1>1, Invariance, PTL

\* A payload is handed to no other channel than the one it was sent on,
\* whether it came by name, by number or out of todo (receive).
THEOREM HandedToRightChannel == Spec => []RightChannel
<1>1. IInv => RightChannel
  <2> SUFFICES ASSUME IInv, NEW n \in Nodes, NEW k \in DOMAIN handed[n]
               PROVE  handed[n][k].to = handed[n][k].body.id
    BY DEF RightChannel
  <2>1. handed[n] \in Seq({e \in Handed : e.to = e.body.id})
    BY DEF IInv, HandedInv
  <2>2. k \in 1 .. Len(handed[n])
    BY <2>1, LenProperties
  <2> QED
    BY <2>1, <2>2, ElementOfSeq
<1> QED
  BY <1>1, Invariance, PTL

\* What waits at a joined client waits for a number the host knows, so the
\* host's answer to the client's request names a channel (receive).
THEOREM WaitingIsKnown == Spec => []TodoKnownToHost
<1>1. IInv => TodoKnownToHost
  <2> SUFFICES ASSUME IInv, NEW c \in Clients, NEW n \in Nums, Joined(c), todo[c][n] # <<>>
               PROVE  numToId[Host][n] # NoId
    BY DEF TodoKnownToHost
  <2>1. SessionIds[n] # NoId
    BY DEF IInv, ClientInv
  <2> QED
    BY <2>1 DEF SessionIds, EmptyIds
<1> QED
  BY <1>1, Invariance, PTL
=============================================================================
