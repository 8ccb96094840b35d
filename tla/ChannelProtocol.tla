--------------------------- MODULE ChannelProtocol ---------------------------
(***************************************************************************)
(* The channel protocol of multicrewcore (channelprotocol.cpp): one host   *)
(* and its clients exchange the packets of named network channels.  A      *)
(* channel name is sent only until its 12 bit number is known; the host    *)
(* assigns the numbers, a client learns them from the packets it receives  *)
(* or asks for them, and packets whose number it does not know wait in     *)
(* "todo".                                                                 *)
(*                                                                         *)
(* A node has one receiving network thread and application threads that    *)
(* send.  A step is what runs under one hold of the critical section, or   *)
(* one call of the connection.  The transport below is RakNet: a link      *)
(* carries one ordered stream and one sequenced stream per ordering        *)
(* channel, and nothing orders one stream after another.                   *)
(***************************************************************************)
EXTENDS Naturals, Sequences, FiniteSets

CONSTANTS
  Clients,           (* the client programs                                  *)
  Host,              (* the host program                                     *)
  Channels,          (* the ids of the network channels                      *)
  NoId,              (* the empty string that getNumId returns               *)
  ReservedChannels,  (* RESERVED_CHANNELS, 16 in the source                  *)
  Mobile,            (* the <<node, channel>> pairs that come and go         *)
  Senders,           (* the nodes whose application threads send             *)
  Racing,            (* the nodes where several threads take reserved        *)
                     (* channels at the same time                            *)
  MaxSessions,       (* bound: sessions opened and joined                    *)
  MaxSent,           (* bound: payloads put on the wire                      *)
  MaxPending         (* bound: application threads of a node inside send     *)

ASSUME ConstantsAssumption ==
  /\ Host \notin Clients
  /\ NoId \notin Channels
  /\ IsFiniteSet(Channels)
  /\ ReservedChannels \in Nat \ {0}
  /\ MaxSessions \in Nat
  /\ MaxSent \in Nat
  /\ MaxPending \in Nat

Nodes    == Clients \union {Host}
Ids      == Channels \union {NoId}
Reserved == 0 .. ReservedChannels - 1
Nums     == ReservedChannels .. ReservedChannels + Cardinality(Channels) - 1
Kinds    == {"ordered", "sequenced"}
Streams  == Kinds \X (Reserved \union Nums)

\* What a packet wraps: the channel it was sent on, and its place on the wire.
Payload == [id : Channels, uid : Nat, via : {"idChannel"} \union Kinds]

\* A packet: the key (type and number), the name if it has one, and a sequence
\* that holds the wrapped payload if there is one.
PacketTypes == {"fullSend", "channel", "idChannel", "idNum"}
Packet == [type : PacketTypes, num : {0} \union Nums, id : Ids, body : Seq(Payload)]

\* A send that has looked its number up and not yet called the connection.
PendingSend == [ch : Channels, num : {0} \union Nums, named : BOOLEAN, safe : BOOLEAN]

\* A payload handed to receiveChannelPacket: "to" is the channel it was handed
\* to, "late" that it came out of todo, "taken" that a channel was registered.
Handed == [to : Ids, body : Payload, late : BOOLEAN, taken : BOOLEAN]

VARIABLES
  host,          (* the host's session                                       *)
  client,        (* each client's session                                    *)
  idToNum,       (* per node: the number of an id, 0 if it has none          *)
  numToId,       (* per node: the id of a number, NoId if it has none        *)
  todo,          (* per client: payloads waiting for the id of their number  *)
  registered,    (* per node: the channels that have a NetworkChannel        *)
  sentReserved,  (* per node: sentReservedChannelPackets, modulo the channels*)
  fullState,     (* channels handleFullState of the host has still to visit  *)
  pending,       (* per node: sends between the lookup and the connection    *)
  up,            (* per client: packets on the way to the host               *)
  down,          (* per client: packets on the way to the client             *)
  sent,          (* payloads put on the wire (numbers them)                  *)
  handed,        (* history: what each node handed to its channels           *)
  owed,          (* history: safe payloads sent to a client that has joined  *)
  sessions       (* sessions opened and joined so far                        *)

mapVars  == <<idToNum, numToId>>
vars     == <<host, client, idToNum, numToId, todo, registered, sentReserved,
              fullState, pending, up, down, sent, handed, owed, sessions>>

EmptyLink == [s \in Streams |-> <<>>]
EmptyMap  == [i \in Ids |-> 0]
EmptyIds  == [n \in Nums |-> NoId]
EmptyTodo == [n \in Nums |-> <<>>]

(***************************************************************************)
(* Sessions.  The host's: "off"; "opened", the server accepts clients and  *)
(* the protocol is still idle; "running"; "lost", the connection is        *)
(* disconnected because a client was lost and the UI has not stopped the   *)
(* protocol yet; "closing", stopped and about to disconnect.  A client's:  *)
(* "off"; "connected", the link is up and the protocol idle; "joined";     *)
(* "cut", started but the link is gone; "leaving", stopped with the link   *)
(* still up.                                                               *)
(***************************************************************************)
HostStates   == {"off", "opened", "running", "lost", "closing"}
ClientStates == {"off", "connected", "joined", "cut", "leaving"}

HostMode      == host \in {"running", "lost"}
Joined(c)     == client[c] = "joined"
Linked(c)     == client[c] \in {"connected", "joined", "leaving"}

\* Where a client's session stands once its link is gone.
Unlinked(c) == IF client[c] \in {"connected", "joined"} THEN "cut"
               ELSE IF client[c] = "leaving" THEN "off"
               ELSE client[c]

\* d->connection is set exactly between start and stop.
Started(n) == IF n = Host THEN HostMode ELSE client[n] \in {"joined", "cut"}

\* handleFullState runs inside the host's critical section.
Unlocked(n) == n = Host => fullState = {}

TypeOK ==
  /\ host \in HostStates
  /\ client \in [Clients -> ClientStates]
  /\ idToNum \in [Nodes -> [Ids -> {0} \union Nums]]
  /\ numToId \in [Nodes -> [Nums -> Ids]]
  /\ todo \in [Clients -> [Nums -> Seq(Payload)]]
  /\ registered \in [Nodes -> SUBSET Channels]
  /\ sentReserved \in [Nodes -> Reserved]
  /\ fullState \in SUBSET Channels
  /\ pending \in [Nodes -> SUBSET PendingSend]
  /\ up \in [Clients -> [Streams -> Seq(Packet)]]
  /\ down \in [Clients -> [Streams -> Seq(Packet)]]
  /\ sent \in Nat
  /\ handed \in [Nodes -> Seq(Handed)]
  /\ owed \in [Clients -> SUBSET Nat]
  /\ sessions \in Nat

Init ==
  /\ host = "off"
  /\ client = [c \in Clients |-> "off"]
  /\ idToNum = [n \in Nodes |-> EmptyMap]
  /\ numToId = [n \in Nodes |-> EmptyIds]
  /\ todo = [c \in Clients |-> EmptyTodo]
  /\ registered \in {r \in [Nodes -> SUBSET Channels] :
                     \A n \in Nodes, ch \in Channels : <<n, ch>> \notin Mobile => ch \in r[n]}
  /\ sentReserved = [n \in Nodes |-> 0]
  /\ fullState = {}
  /\ pending = [n \in Nodes |-> {}]
  /\ up = [c \in Clients |-> EmptyLink]
  /\ down = [c \in Clients |-> EmptyLink]
  /\ sent = 0
  /\ handed = [n \in Nodes |-> <<>>]
  /\ owed = [c \in Clients |-> {}]
  /\ sessions = 0

-----------------------------------------------------------------------------
(* Numbers and names *)

\* setIdNum: a name that has a number keeps it.
SetIdNum(n, id, num) ==
  IF idToNum[n][id] = 0
  THEN /\ idToNum' = [idToNum EXCEPT ![n][id] = num]
       /\ numToId' = [numToId EXCEPT ![n][num] = id]
  ELSE UNCHANGED mapVars

\* Mutant of HostNum: the size of the map after the insertion.
HostNum_CountsItself(id) ==
  IF idToNum[Host][id] # 0
  THEN idToNum[Host][id]
  ELSE Cardinality({x \in Ids : idToNum[Host][x] # 0} \union {id}) + ReservedChannels

\* Mutant of HostNum: counts the registered channels, not the numbered ones.
HostNum_CountsRegistered(id) ==
  IF idToNum[Host][id] # 0
  THEN idToNum[Host][id]
  ELSE Cardinality(registered[Host]) - 1 + ReservedChannels

\* The number createIdNum returns: the old one, or the size of the map past
\* the reserved channels.
Numbered == {id \in Ids : idToNum[Host][id] # 0}
HostNum(id) == IF idToNum[Host][id] # 0
               THEN idToNum[Host][id]
               ELSE Cardinality(Numbered) + ReservedChannels

CreateIdNum(id) == SetIdNum(Host, id, HostNum(id))

\* reservedChannel: round robin over the reserved ordering channels.  The counter is not
\* locked: where two threads count at once it is left with any value, since one of them
\* may store what it read long ago, and both may use the same channel.
ReservedStream(n) == <<"ordered", sentReserved[n]>>
NextReserved(n) ==
  \E next \in Reserved :
    /\ n \in Racing \/ next = (sentReserved[n] + 1) % ReservedChannels
    /\ sentReserved' = [sentReserved EXCEPT ![n] = next]

-----------------------------------------------------------------------------
(* Packets and the wire *)

FullSendPacket       == [type |-> "fullSend", num |-> 0, id |-> NoId, body |-> <<>>]
IdNumPacket(num, id) == [type |-> "idNum", num |-> num, id |-> id, body |-> <<>>]

\* The packet of a send, with its payload numbered as it goes on the wire.
DataPacket(p) ==
  [type |-> IF p.named THEN "idChannel" ELSE "channel",
   num  |-> p.num,
   id   |-> IF p.named THEN p.ch ELSE NoId,
   body |-> <<[id  |-> p.ch,
               uid |-> sent + 1,
               via |-> IF p.named THEN "idChannel"
                       ELSE IF p.safe THEN "ordered" ELSE "sequenced"]>>]

\* Named packets go safely on a reserved channel, others on their own number.
StreamOf(n, p) == IF p.named THEN ReservedStream(n)
                  ELSE <<IF p.safe THEN "ordered" ELSE "sequenced", p.num>>

\* HostConnectionImpl::sendImpl sends to every player; Connection::send sends
\* nothing once the connection is disconnected.
HostCanSend == host \in {"running", "closing"}
Broadcast(m, s) ==
  down' = IF HostCanSend
          THEN [c \in Clients |-> IF Linked(c) THEN [down[c] EXCEPT ![s] = Append(@, m)]
                                  ELSE down[c]]
          ELSE down

ToHost(c, m, s) ==
  up' = IF Linked(c) THEN [up EXCEPT ![c][s] = Append(@, m)] ELSE up

\* What the transport may deliver next from a stream: the first packet of an
\* ordered stream, any packet of a sequenced one, which drops the older ones.
Arrivals(q, kind) == {i \in 1 .. Len(q) : kind = "sequenced" \/ i = 1}
Rest(q, i) == SubSeq(q, i + 1, Len(q))

\* receiveChannelPacket, for the payloads of one packet or of a todo queue.
HandTo(n, id, payloads, late) ==
  handed' = [handed EXCEPT ![n] = @ \o
               [k \in 1 .. Len(payloads) |->
                  [to |-> id, body |-> payloads[k], late |-> late,
                   taken |-> id \in registered[n]]]]

-----------------------------------------------------------------------------
(* The life of a session *)

\* HostConnectionSetup::host: the server accepts clients from here on.
OpenServer ==
  /\ host = "off"
  /\ sessions < MaxSessions
  /\ host' = "opened"
  /\ sessions' = sessions + 1
  /\ UNCHANGED <<client, idToNum, numToId, todo, registered, sentReserved,
                 fullState, pending, up, down, sent, handed, owed>>

\* start(true, con): clears the maps, then handleFullState visits every channel.
StartHost ==
  /\ host = "opened"
  /\ host' = "running"
  /\ idToNum' = [idToNum EXCEPT ![Host] = EmptyMap]
  /\ numToId' = [numToId EXCEPT ![Host] = EmptyIds]
  /\ fullState' = registered[Host]
  /\ handed' = [handed EXCEPT ![Host] = <<>>]
  /\ UNCHANGED <<client, todo, registered, sentReserved, pending, up, down, sent, owed, sessions>>

\* stop() on the host, called by the UI to end the session or to clean up
\* after a lost connection.
StopHost ==
  /\ HostMode
  /\ Unlocked(Host)
  /\ host' = "closing"
  /\ UNCHANGED <<client, idToNum, numToId, todo, registered, sentReserved,
                 fullState, pending, up, down, sent, handed, owed, sessions>>

\* The server goes away: every link is gone, and sends under way find the
\* connection disconnected.
CloseServer ==
  /\ host = "closing"
  /\ host' = "off"
  /\ client' = [c \in Clients |-> Unlinked(c)]
  /\ pending' = [n \in Nodes |-> {}]
  /\ up' = [c \in Clients |-> EmptyLink]
  /\ down' = [c \in Clients |-> EmptyLink]
  /\ UNCHANGED <<idToNum, numToId, todo, registered, sentReserved, fullState,
                 sent, handed, owed, sessions>>

\* ClientConnectionSetup::connect succeeded; the protocol is not started yet.
Connect(c) ==
  /\ client[c] = "off"
  /\ sessions < MaxSessions
  /\ sessions' = sessions + 1
  /\ host \in {"opened", "running", "lost"}
  /\ client' = [client EXCEPT ![c] = "connected"]
  /\ UNCHANGED <<host, idToNum, numToId, todo, registered, sentReserved, fullState,
                 pending, up, down, sent, handed, owed>>

\* Mutant of StartClient: the maps of the last session stay.
StartClient_KeepsMaps(c) ==
  /\ client[c] = "connected"
  /\ client' = [client EXCEPT ![c] = "joined"]
  /\ todo' = [todo EXCEPT ![c] = EmptyTodo]
  /\ ToHost(c, FullSendPacket, ReservedStream(c))
  /\ NextReserved(c)
  /\ handed' = [handed EXCEPT ![c] = <<>>]
  /\ owed' = [owed EXCEPT ![c] = {}]
  /\ UNCHANGED <<host, idToNum, numToId, registered, fullState, pending, down, sent, sessions>>

\* Mutant of StartClient: what waited in the last session stays.
StartClient_KeepsTodo(c) ==
  /\ client[c] = "connected"
  /\ client' = [client EXCEPT ![c] = "joined"]
  /\ idToNum' = [idToNum EXCEPT ![c] = EmptyMap]
  /\ numToId' = [numToId EXCEPT ![c] = EmptyIds]
  /\ ToHost(c, FullSendPacket, ReservedStream(c))
  /\ NextReserved(c)
  /\ handed' = [handed EXCEPT ![c] = <<>>]
  /\ owed' = [owed EXCEPT ![c] = {}]
  /\ UNCHANGED <<host, todo, registered, fullState, pending, down, sent, sessions>>

\* start(false, con): clears the maps and asks the host for its full state.
StartClient(c) ==
  /\ client[c] = "connected"
  /\ client' = [client EXCEPT ![c] = "joined"]
  /\ idToNum' = [idToNum EXCEPT ![c] = EmptyMap]
  /\ numToId' = [numToId EXCEPT ![c] = EmptyIds]
  /\ todo' = [todo EXCEPT ![c] = EmptyTodo]
  /\ ToHost(c, FullSendPacket, ReservedStream(c))
  /\ NextReserved(c)
  /\ handed' = [handed EXCEPT ![c] = <<>>]
  /\ owed' = [owed EXCEPT ![c] = {}]
  /\ UNCHANGED <<host, registered, fullState, pending, down, sent, sessions>>

\* stop() on a client, before it disconnects or after its link was lost.  A
\* send still under way holds the old connection and will find it disconnected.
StopClient(c) ==
  /\ client[c] \in {"joined", "cut"}
  /\ client' = [client EXCEPT ![c] = IF @ = "joined" THEN "leaving" ELSE "off"]
  /\ pending' = [pending EXCEPT ![c] = IF Joined(c) THEN @ ELSE {}]
  /\ UNCHANGED <<host, idToNum, numToId, todo, registered, sentReserved, fullState,
                 up, down, sent, handed, owed, sessions>>

DropLink(c) ==
  /\ client' = [client EXCEPT ![c] = Unlinked(c)]
  /\ pending' = [pending EXCEPT ![c] = {}]
  /\ up' = [up EXCEPT ![c] = EmptyLink]
  /\ down' = [down EXCEPT ![c] = EmptyLink]

\* ClientConnectionImpl::disconnect; the host only logs it.
Leave(c) ==
  /\ client[c] = "leaving"
  /\ DropLink(c)
  /\ UNCHANGED <<host, idToNum, numToId, todo, registered, sentReserved, fullState,
                 sent, handed, owed, sessions>>

\* The link of one client is lost: that ends the host's connection as well.
LoseConnection(c) ==
  /\ Linked(c)
  /\ host \in {"running", "lost", "closing"}
  /\ DropLink(c)
  /\ host' = IF host = "running" THEN "lost" ELSE host
  /\ UNCHANGED <<idToNum, numToId, todo, registered, sentReserved, fullState,
                 sent, handed, owed, sessions>>

-----------------------------------------------------------------------------
(* Channels come and go *)

Register(n, ch) ==
  /\ Unlocked(n)
  /\ <<n, ch>> \in Mobile
  /\ ch \notin registered[n]
  /\ registered' = [registered EXCEPT ![n] = @ \union {ch}]
  /\ UNCHANGED <<host, client, idToNum, numToId, todo, sentReserved, fullState,
                 pending, up, down, sent, handed, owed, sessions>>

Unregister(n, ch) ==
  /\ Unlocked(n)
  /\ <<n, ch>> \in Mobile
  /\ ch \in registered[n]
  /\ registered' = [registered EXCEPT ![n] = @ \ {ch}]
  /\ UNCHANGED <<host, client, idToNum, numToId, todo, sentReserved, fullState,
                 pending, up, down, sent, handed, owed, sessions>>

-----------------------------------------------------------------------------
(* Sending *)

\* sendChannelPacket up to the release of the critical section.  The host
\* numbers a new channel here; a client sends 0 until it knows the number.
SendLookup(n, ch, safe) ==
  /\ n \in Senders
  /\ Started(n)
  /\ Unlocked(n)
  /\ ch \in registered[n]
  /\ Cardinality(pending[n]) < MaxPending
  /\ pending' = [pending EXCEPT ![n] = @ \union
                   {[ch    |-> ch,
                     num   |-> IF n = Host THEN HostNum(ch) ELSE idToNum[n][ch],
                     named |-> idToNum[n][ch] = 0,
                     safe  |-> safe]}]
  /\ IF n = Host THEN CreateIdNum(ch) ELSE UNCHANGED mapVars
  /\ UNCHANGED <<host, client, todo, registered, sentReserved, fullState,
                 up, down, sent, handed, owed, sessions>>

\* The payload goes on the wire of every linked client, unless the connection
\* is disconnected; the reserved channel is used up in either case.
HostPut(p) ==
  /\ sent < MaxSent
  /\ Broadcast(DataPacket(p), StreamOf(Host, p))
  /\ sent' = IF HostCanSend THEN sent + 1 ELSE sent
  /\ owed' = [c \in Clients |->
                IF HostCanSend /\ Joined(c) /\ (p.safe \/ p.named)
                THEN owed[c] \union {sent + 1} ELSE owed[c]]
  /\ IF p.named THEN NextReserved(Host) ELSE UNCHANGED sentReserved

HostSend(p) ==
  /\ pending' = [pending EXCEPT ![Host] = @ \ {p}]
  /\ HostPut(p)
  /\ UNCHANGED <<host, client, idToNum, numToId, todo, registered, fullState, up, handed, sessions>>

ClientSend(c, p) ==
  /\ sent < MaxSent
  /\ pending' = [pending EXCEPT ![c] = @ \ {p}]
  /\ ToHost(c, DataPacket(p), StreamOf(c, p))
  /\ sent' = IF Linked(c) THEN sent + 1 ELSE sent
  /\ IF p.named THEN NextReserved(c) ELSE UNCHANGED sentReserved
  /\ UNCHANGED <<host, client, idToNum, numToId, todo, registered, fullState,
                 down, handed, owed, sessions>>

\* handleFullState visits one channel: it sends its state, or has none to send.
FullStateStep(ch, safe) ==
  LET p == [ch |-> ch, num |-> HostNum(ch), named |-> idToNum[Host][ch] = 0, safe |-> safe]
  IN /\ HostPut(p)
     /\ CreateIdNum(ch)
     /\ fullState' = fullState \ {ch}
     /\ UNCHANGED <<host, client, todo, registered, pending, up, handed, sessions>>

FullStateSkip(ch) ==
  /\ fullState' = fullState \ {ch}
  /\ UNCHANGED <<host, client, idToNum, numToId, todo, registered, sentReserved,
                 pending, up, down, sent, handed, owed, sessions>>

-----------------------------------------------------------------------------
(* Receiving, on the host *)

\* The host answers with the id of a number, on a reserved channel.
HostReply(num, id) ==
  /\ Broadcast(IdNumPacket(num, id), ReservedStream(Host))
  /\ NextReserved(Host)

HostReceiveFullSend(m) ==
  /\ m.type = "fullSend"
  /\ fullState' = IF HostMode THEN registered[Host] ELSE {}
  /\ UNCHANGED <<idToNum, numToId, sentReserved, down, handed>>

HostReceiveChannel(m) ==
  /\ HostMode
  /\ m.type = "channel"
  /\ HandTo(Host, numToId[Host][m.num], m.body, FALSE)
  /\ UNCHANGED <<fullState, idToNum, numToId, sentReserved, down>>

\* Mutant of HostReceiveIdChannel: no answer, the sender never learns the number.
HostReceiveIdChannel_NoReply(m) ==
  /\ HostMode
  /\ m.type = "idChannel"
  /\ HandTo(Host, m.id, m.body, FALSE)
  /\ CreateIdNum(m.id)
  /\ UNCHANGED <<fullState, sentReserved, down>>

HostReceiveIdChannel(m) ==
  /\ HostMode
  /\ m.type = "idChannel"
  /\ HandTo(Host, m.id, m.body, FALSE)
  /\ CreateIdNum(m.id)
  /\ HostReply(HostNum(m.id), m.id)
  /\ UNCHANGED fullState

\* Mutant of HostReceiveIdNum: the id of the request, not of the map.
HostReceiveIdNum_EchoesId(m) ==
  /\ HostMode
  /\ m.type = "idNum"
  /\ HostReply(m.num, m.id)
  /\ UNCHANGED <<fullState, idToNum, numToId, handed>>

\* Mutant of HostReceiveIdNum: the request is read and not answered.
HostReceiveIdNum_NoReply(m) ==
  /\ HostMode
  /\ m.type = "idNum"
  /\ UNCHANGED <<fullState, idToNum, numToId, handed, sentReserved, down>>

HostReceiveIdNum(m) ==
  /\ HostMode
  /\ m.type = "idNum"
  /\ HostReply(m.num, numToId[Host][m.num])
  /\ UNCHANGED <<fullState, idToNum, numToId, handed>>

\* In idle mode a packet is read and forgotten.
HostIgnore(m) ==
  /\ ~HostMode
  /\ m.type # "fullSend"
  /\ UNCHANGED <<fullState, idToNum, numToId, sentReserved, down, handed>>

HostReceive(c, s) ==
  /\ Unlocked(Host)
  /\ \E i \in Arrivals(up[c][s], s[1]) :
       LET m == up[c][s][i]
       IN /\ up' = [up EXCEPT ![c][s] = Rest(@, i)]
          /\ \/ HostReceiveFullSend(m)
             \/ HostReceiveChannel(m)
             \/ HostReceiveIdChannel(m)
             \/ HostReceiveIdNum(m)
             \/ HostIgnore(m)
  /\ UNCHANGED <<host, client, todo, registered, pending, sent, owed, sessions>>

-----------------------------------------------------------------------------
(* Receiving, on a client *)

\* A number the client knows: the payload goes to its channel.
ClientReceiveKnown(c, m) ==
  /\ Joined(c)
  /\ m.type = "channel"
  /\ numToId[c][m.num] # NoId
  /\ HandTo(c, numToId[c][m.num], m.body, FALSE)
  /\ UNCHANGED <<idToNum, numToId, todo, sentReserved, up>>

\* Mutant of ClientReceiveUnknown: the payload waits in front of the others.
ClientReceiveUnknown_Prepends(c, m) ==
  /\ Joined(c)
  /\ m.type = "channel"
  /\ numToId[c][m.num] = NoId
  /\ todo' = [todo EXCEPT ![c][m.num] = m.body \o @]
  /\ ToHost(c, IdNumPacket(m.num, NoId), ReservedStream(c))
  /\ NextReserved(c)
  /\ UNCHANGED <<idToNum, numToId, handed>>

\* Mutant of ClientReceiveUnknown: only a second payload makes it ask.
ClientReceiveUnknown_AsksLate(c, m) ==
  /\ Joined(c)
  /\ m.type = "channel"
  /\ numToId[c][m.num] = NoId
  /\ todo' = [todo EXCEPT ![c][m.num] = @ \o m.body]
  /\ IF todo[c][m.num] # <<>>
     THEN ToHost(c, IdNumPacket(m.num, NoId), ReservedStream(c)) /\ NextReserved(c)
     ELSE UNCHANGED <<up, sentReserved>>
  /\ UNCHANGED <<idToNum, numToId, handed>>

\* A number it does not know: the payload waits, and the client asks for the id.
ClientReceiveUnknown(c, m) ==
  /\ Joined(c)
  /\ m.type = "channel"
  /\ numToId[c][m.num] = NoId
  /\ todo' = [todo EXCEPT ![c][m.num] = @ \o m.body]
  /\ ToHost(c, IdNumPacket(m.num, NoId), ReservedStream(c))
  /\ NextReserved(c)
  /\ UNCHANGED <<idToNum, numToId, handed>>

\* Mutant of ClientReceiveIdChannel: what waits for the number is dropped.
ClientReceiveIdChannel_DropsTodo(c, m) ==
  /\ Joined(c)
  /\ m.type = "idChannel"
  /\ SetIdNum(c, m.id, m.num)
  /\ HandTo(c, m.id, m.body, FALSE)
  /\ todo' = [todo EXCEPT ![c][m.num] = <<>>]
  /\ UNCHANGED <<sentReserved, up>>

\* The client learns the number; what waits for it is not handed on here.
ClientReceiveIdChannel(c, m) ==
  /\ Joined(c)
  /\ m.type = "idChannel"
  /\ SetIdNum(c, m.id, m.num)
  /\ HandTo(c, m.id, m.body, FALSE)
  /\ UNCHANGED <<todo, sentReserved, up>>

\* Mutant of ClientReceiveIdNum: what was handed on stays in todo.
ClientReceiveIdNum_KeepsTodo(c, m) ==
  /\ Joined(c)
  /\ m.type = "idNum"
  /\ SetIdNum(c, m.id, m.num)
  /\ HandTo(c, m.id, todo[c][m.num], TRUE)
  /\ UNCHANGED <<todo, sentReserved, up>>

\* The answer of the host: what waits for the number goes to the channel.
ClientReceiveIdNum(c, m) ==
  /\ Joined(c)
  /\ m.type = "idNum"
  /\ SetIdNum(c, m.id, m.num)
  /\ HandTo(c, m.id, todo[c][m.num], TRUE)
  /\ todo' = [todo EXCEPT ![c][m.num] = <<>>]
  /\ UNCHANGED <<sentReserved, up>>

ClientIgnore(c) ==
  /\ ~Joined(c)
  /\ UNCHANGED <<idToNum, numToId, todo, sentReserved, up, handed>>

ClientReceive(c, s) ==
  /\ \E i \in Arrivals(down[c][s], s[1]) :
       LET m == down[c][s][i]
       IN /\ down' = [down EXCEPT ![c][s] = Rest(@, i)]
          /\ \/ ClientReceiveKnown(c, m)
             \/ ClientReceiveUnknown(c, m)
             \/ ClientReceiveIdChannel(c, m)
             \/ ClientReceiveIdNum(c, m)
             \/ ClientIgnore(c)
  /\ UNCHANGED <<host, client, registered, fullState, pending, sent, owed, sessions>>

-----------------------------------------------------------------------------
Next ==
  \/ OpenServer \/ StartHost \/ StopHost \/ CloseServer
  \/ \E c \in Clients : \/ Connect(c) \/ StartClient(c) \/ StopClient(c)
                        \/ Leave(c) \/ LoseConnection(c)
  \/ \E n \in Nodes, ch \in Channels :
       \/ Register(n, ch) \/ Unregister(n, ch)
       \/ \E safe \in BOOLEAN : SendLookup(n, ch, safe)
  \/ \E p \in pending[Host] : HostSend(p)
  \/ \E c \in Clients : \E p \in pending[c] : ClientSend(c, p)
  \/ \E ch \in fullState : \/ \E safe \in BOOLEAN : FullStateStep(ch, safe)
                           \/ FullStateSkip(ch)
  \/ \E c \in Clients, s \in Streams : HostReceive(c, s) \/ ClientReceive(c, s)

Spec == Init /\ [][Next]_vars

-----------------------------------------------------------------------------
(* Properties *)

\* The payloads of a sequence of packets.
PayloadsOn(link, s) == UNION {{m.body[k] : k \in DOMAIN m.body} :
                              m \in {link[s][i] : i \in DOMAIN link[s]}}
OnTheWay(c)  == UNION {PayloadsOn(down[c], s) : s \in Streams}
Waiting(c)   == UNION {{todo[c][n][k] : k \in DOMAIN todo[c][n]} : n \in Nums}
HandedOn(n)  == {handed[n][k].body : k \in DOMAIN handed[n]}

\* The numbers of a client that has joined are the host's: no client ever uses
\* a number for another channel than the host does.
MapsAgree ==
  \A c \in Clients : Joined(c) =>
    /\ \A id \in Ids : idToNum[c][id] \in {0, idToNum[Host][id]}
    /\ \A n \in Nums : numToId[c][n] \in {NoId, numToId[Host][n]}

\* On the host names and numbers are inverse to each other, and no two names
\* share a number.
HostMapsInverse ==
  /\ \A id \in Ids : idToNum[Host][id] # 0 => numToId[Host][idToNum[Host][id]] = id
  /\ \A n \in Nums : numToId[Host][n] # NoId => idToNum[Host][numToId[Host][n]] = n

\* A payload is only ever handed to the channel it was sent on, whichever way
\* it took: by name, by number, or through todo.
RightChannel ==
  \A n \in Nodes : \A k \in DOMAIN handed[n] : handed[n][k].to = handed[n][k].body.id

\* No payload reaches a client's channels twice, and what has been handed on is
\* neither in todo nor on the wire any more.
HandedOnce ==
  \A c \in Clients :
    /\ \A j, k \in DOMAIN handed[c] : handed[c][j].body = handed[c][k].body => j = k
    /\ Joined(c) => /\ HandedOn(c) \intersect (Waiting(c) \union OnTheWay(c)) = {}
                    /\ Waiting(c) \intersect OnTheWay(c) = {}

\* Every payload sent safely to a client that has joined is on the wire, waits
\* for its number, or was handed on: none gets lost while numbers are learned.
NoSafeLoss ==
  \A c \in Clients : Joined(c) =>
    \A u \in owed[c] : \E b \in OnTheWay(c) \union Waiting(c) \union HandedOn(c) : b.uid = u

\* Among the payloads of a channel that were sent by number and the same way,
\* one is handed on after a newer one only if it had to wait in todo and the
\* newer one had not: the reordering that learning a number from a named
\* packet causes, and no other.
InOrderUnlessLate ==
  \A c \in Clients : \A j, k \in DOMAIN handed[c] :
    LET older == handed[c][k]
        newer == handed[c][j]
    IN  j < k /\ newer.body.id = older.body.id /\ newer.body.via = older.body.via
          /\ newer.body.via # "idChannel" /\ newer.body.uid > older.body.uid
        => older.late /\ ~newer.late

\* What waits at a client that has joined will be claimed: the host knows the
\* number, so its answer names a channel.
TodoKnownToHost ==
  \A c \in Clients, n \in Nums : Joined(c) /\ todo[c][n] # <<>> => numToId[Host][n] # NoId

\* What a client waits for in todo: either its request or the host's answer is
\* on the wire (unless the host has lost its connection or stopped).
RequestOutstanding ==
  \A c \in Clients, n \in Nums : Joined(c) /\ host = "running" /\ todo[c][n] # <<>> =>
    \/ \E s \in Streams : \E i \in DOMAIN up[c][s] :
         up[c][s][i].type = "idNum" /\ up[c][s][i].num = n
    \/ \E s \in Streams : \E i \in DOMAIN down[c][s] :
         down[c][s][i].type = "idNum" /\ down[c][s][i].num = n

(***************************************************************************)
(* The inductive invariant behind MapsAgree, RightChannel and the others:  *)
(* everything that names a number, on the wire, in a map, in todo or in a  *)
(* send under way, agrees with the maps of the host's present session.     *)
(***************************************************************************)
InSession   == host \in {"running", "lost", "closing"}
SessionNums == IF InSession THEN idToNum[Host] ELSE EmptyMap
SessionIds  == IF InSession THEN numToId[Host] ELSE EmptyIds

PayloadsOf(id) == {p \in Payload : p.id = id}

\* The packets that may be on the way to a client, for maps of the host.
DownPackets(nums, ids) ==
  {m \in Packet :
     \/ /\ m.type = "channel"
        /\ m.num \in Nums
        /\ ids[m.num] # NoId
        /\ m.body \in Seq(PayloadsOf(ids[m.num]))
     \/ /\ m.type \in {"idChannel", "idNum"}
        /\ m.id \in Channels
        /\ m.num \in Nums
        /\ nums[m.id] = m.num
        /\ m.body \in Seq(PayloadsOf(m.id))}

\* The packets that may be on the way to the host.
UpPackets(ids) ==
  {m \in Packet :
     \/ m.type = "fullSend"
     \/ /\ m.type = "idChannel"
        /\ m.id \in Channels
        /\ m.body \in Seq(PayloadsOf(m.id))
     \/ /\ m.type \in {"channel", "idNum"}
        /\ m.num \in Nums
        /\ ids[m.num] # NoId
        /\ m.body \in Seq(PayloadsOf(ids[m.num]))}

\* The host's maps: inverse to each other, with the numbers given out so far
\* just below the next one.
HostInv ==
  /\ idToNum[Host][NoId] = 0
  /\ \A id \in Channels : idToNum[Host][id] # 0 =>
       /\ numToId[Host][idToNum[Host][id]] = id
       /\ idToNum[Host][id] < ReservedChannels + Cardinality(Numbered)
  /\ \A n \in Nums : numToId[Host][n] # NoId => idToNum[Host][numToId[Host][n]] = n

SessionInv ==
  /\ host = "off" => \A c \in Clients : ~Linked(c)
  /\ ~InSession => pending[Host] = {}
  /\ fullState # {} => HostMode
  /\ \A c \in Clients :
       /\ client[c] \in {"off", "connected"} => pending[c] = {}
       /\ ~Linked(c) => up[c] = EmptyLink /\ down[c] = EmptyLink

WireInv ==
  \A c \in Clients, s \in Streams :
    /\ up[c][s] \in Seq(UpPackets(SessionIds))
    /\ down[c][s] \in Seq(DownPackets(SessionNums, SessionIds))

PendingInv ==
  /\ \A p \in pending[Host] : p.num \in Nums /\ SessionNums[p.ch] = p.num
  /\ \A c \in Clients : Linked(c) =>
       \A p \in pending[c] : p.named \/ (p.num \in Nums /\ SessionNums[p.ch] = p.num)

ClientInv ==
  \A c \in Clients : Joined(c) =>
    /\ \A id \in Ids : idToNum[c][id] \in {0, SessionNums[id]}
    /\ \A n \in Nums : /\ numToId[c][n] \in {NoId, SessionIds[n]}
                       /\ todo[c][n] # <<>> => SessionIds[n] # NoId
                       /\ todo[c][n] \in Seq(PayloadsOf(SessionIds[n]))

HandedInv ==
  \A n \in Nodes : handed[n] \in Seq({e \in Handed : e.to = e.body.id})

IInv == /\ TypeOK
        /\ HostInv
        /\ SessionInv
        /\ WireInv
        /\ PendingInv
        /\ ClientInv
        /\ HandedInv

(***************************************************************************)
(* The inductive invariant behind HandedOnce, NoSafeLoss, InOrderUnlessLate *)
(* and RequestOutstanding: where the payloads of one client are.  "l" is    *)
(* what is on the way to it, "q" what waits in its todo, "h" what it handed *)
(* on, "last" the number of the last payload put on the wire.               *)
(***************************************************************************)

\* The packets of a stream that carry a payload, and the payload.
Loaded(p)  == {i \in DOMAIN p : p[i].body # <<>>}
Load(p, i) == p[i].body[1]

\* Payloads of one channel that were sent by number and the same way, and so
\* on the same stream.
SameWay(a, b) == a.id = b.id /\ a.via = b.via /\ b.via # "idChannel"

\* Answers carry nothing.  Data packets carry one payload, safe and named ones
\* on an ordered stream, those sent by number on the stream of the number.
LinkShape(l, last) == \A s \in Streams : \A i \in DOMAIN l[s] :
  IF l[s][i].type = "idNum" THEN l[s][i].body = <<>>
  ELSE /\ Len(l[s][i].body) = 1
       /\ Load(l[s], i).uid <= last
       /\ l[s][i].type = "idChannel" => Load(l[s], i).via = "idChannel"
       /\ l[s][i].type = "channel" => s = <<Load(l[s], i).via, l[s][i].num>>

\* A stream carries payloads in the order of sending, and no two streams the same.
LinkOrder(l) ==
  /\ \A s \in Streams : \A i, j \in Loaded(l[s]) :
       i < j => Load(l[s], i).uid < Load(l[s], j).uid
  /\ \A s, t \in Streams : \A i \in Loaded(l[s]), j \in Loaded(l[t]) :
       Load(l[s], i).uid = Load(l[t], j).uid => s = t

\* What has been handed on: each payload once, and out of order only if the
\* older one had to wait and the newer one had not.
HandedOrder(h, last) ==
  /\ \A k \in DOMAIN h : h[k].body.uid <= last
  /\ \A j, k \in DOMAIN h : j < k =>
       /\ h[j].body.uid # h[k].body.uid
       /\ SameWay(h[j].body, h[k].body) /\ h[k].body.uid < h[j].body.uid
            => h[k].late /\ ~h[j].late

\* What waits for a number waits in the order of sending.
TodoOrder(q, last) ==
  /\ \A n \in Nums : \A k \in DOMAIN q[n] : q[n][k].uid <= last /\ q[n][k].via # "idChannel"
  /\ \A n, m \in Nums : \A j \in DOMAIN q[n], k \in DOMAIN q[m] :
       /\ q[n][j].uid = q[m][k].uid => n = m /\ j = k
       /\ n = m /\ j < k /\ q[n][j].via = q[m][k].via => q[n][j].uid < q[m][k].uid

\* What is on the way was not handed on, does not wait, and is newer than what
\* came before it the same way.
LinkAfterHanded(l, h) == \A s \in Streams : \A i \in Loaded(l[s]), k \in DOMAIN h :
  /\ h[k].body.uid # Load(l[s], i).uid
  /\ SameWay(h[k].body, Load(l[s], i)) => h[k].body.uid < Load(l[s], i).uid
LinkAfterTodo(l, q) ==
  \A s \in Streams, n \in Nums : \A i \in Loaded(l[s]), k \in DOMAIN q[n] :
    /\ q[n][k].uid # Load(l[s], i).uid
    /\ SameWay(q[n][k], Load(l[s], i)) => q[n][k].uid < Load(l[s], i).uid

\* What waits was not handed on, and is newer than what waited before it.
TodoAfterHanded(q, h) == \A n \in Nums : \A j \in DOMAIN q[n], k \in DOMAIN h :
  /\ h[k].body.uid # q[n][j].uid
  /\ h[k].late /\ SameWay(h[k].body, q[n][j]) => h[k].body.uid < q[n][j].uid

\* Where a payload sent safely is, and where the request for a number is: on an
\* ordered stream, which drops nothing.
Kept(u, l, q, h) ==
  \/ \E s \in Streams : s[1] = "ordered" /\ \E i \in Loaded(l[s]) : Load(l[s], i).uid = u
  \/ \E n \in Nums : \E k \in DOMAIN q[n] : q[n][k].uid = u
  \/ \E k \in DOMAIN h : h[k].body.uid = u
OnOrdered(l, n) == \E s \in Streams : /\ s[1] = "ordered"
                                      /\ \E i \in DOMAIN l[s] : l[s][i].type = "idNum" /\ l[s][i].num = n

\* The inductive invariant of delivery: where each payload for a client is, and
\* in which order it can get to the client's channels.
DeliveryInv == \A c \in Clients :
  /\ LinkShape(down[c], sent) /\ LinkOrder(down[c])
  /\ HandedOrder(handed[c], sent) /\ LinkAfterHanded(down[c], handed[c])
  /\ Joined(c) =>
       /\ TodoOrder(todo[c], sent)
       /\ LinkAfterTodo(down[c], todo[c]) /\ TodoAfterHanded(todo[c], handed[c])
       /\ \A u \in owed[c] : Kept(u, down[c], todo[c], handed[c])
       /\ \A n \in Nums : host = "running" /\ todo[c][n] # <<>> =>
            OnOrdered(up[c], n) \/ OnOrdered(down[c], n)

(***************************************************************************)
(* Fairness.  The network threads poll every 10 ms and take packets in     *)
(* turn, so each packet that has arrived is processed; handleFullState     *)
(* runs to its end; a UI call that opened or stopped a session goes on;    *)
(* and the message loop delivers the disconnected callback.                *)
(***************************************************************************)
Fairness ==
  /\ \A c \in Clients, s \in Streams : SF_vars(HostReceive(c, s)) /\ WF_vars(ClientReceive(c, s))
  /\ WF_vars(\E ch \in fullState : FullStateSkip(ch) \/ \E safe \in BOOLEAN : FullStateStep(ch, safe))
  /\ WF_vars(StartHost) /\ WF_vars(CloseServer) /\ WF_vars(host = "lost" /\ StopHost)

LiveSpec == Spec /\ Fairness

\* What waits in todo is handed on or thrown away with the session: no payload
\* waits for ever for a number that nobody tells.
TodoDrained ==
  \A c \in Clients, n \in Nums :
    (Joined(c) /\ todo[c][n] # <<>>) ~> (~Joined(c) \/ todo[c][n] = <<>>)

\* A client that sent a named packet to a running host learns the number.
NumberLearned ==
  \A c \in Clients, id \in Channels :
    (/\ Joined(c) /\ host = "running"
     /\ \E s \in Streams : \E i \in DOMAIN up[c][s] :
          up[c][s][i].type = "idChannel" /\ up[c][s][i].id = id)
    ~> (~Joined(c) \/ host # "running" \/ idToNum[c][id] # 0)
=============================================================================
