# Verification of multicrew

Multicrew turns Flight Simulator 2004 into a shared cockpit: one PC is the
*host*, up to eight *clients* join it, and gauges, aircraft position and
FSUIPC variables are kept alike on all of them.  The project beside this file
models the parts of it that run concurrently and talk over the network, checks
them with TLC and proves the most important facts with TLAPS.

Everything is translated from the C++ sources under `src/multicrewcore`,
`src/multicrewgauge` and `src/multicrewui` (about 9400 lines), and from the
reliability layer of RakNet that the repository carries and has patched.  The
rest of RakNet, its samples, stlplus, zdelta and the FSUIPC library are third
party code; where a model needs them it states what the program relies on.
Most of the 217,000 lines of the repository are such code.

## 1. The system

    FS2004 panel/gauge callbacks      UI thread (wxWidgets)     multimedia timers
            |  |                              |                       |
        gauges, elements, metafiles     host / connect / disconnect   |
            |  |    (multicrewgauge)          |   (multicrewui)       |
            v  v                              v                       v
        MulticrewCore: modules, callbacks, frame counter, FSUIPC and position
            |                                 |
        ChannelProtocol  <--- start/stop ---  |
            |                                 |
        Connection (network thread, 10 ms poll) -> RakNet -> the other nodes

| Component | State | Operations | Talks to |
|---|---|---|---|
| Channel protocol (`channelprotocol.cpp`) | `idToNum`, `numToId`, `todo`, channel set, connection | `start`, `stop`, register/unregister, `sendChannelPacket`, `receive`, `handleFullState` | connection below, channels above |
| Connections (`connection.cpp`, `hostconnection.cpp`, `clientconnection.cpp`) | state, RakNet peer, network thread | `host`, `connect`, `disconnect`, `send`, `threadProc`, `Receive*` | RakNet, core, UI |
| Threads and shared objects (`thread.cpp`, `shared.cpp`) | thread handle, exit event, reference count | `startThread`, `stopThread`, `shouldExit`, `ref`, `deref` | everything |
| Core (`multicrewcore.cpp`) | mode, frame counter, list of async callees, modules | `triggerAsyncCallback`, `callbackAsync`, `ackNewFrame`, `frameCallback` | UI window, gauges |
| Signals (`signals.h`) | slots of a signal | `connect`, `disconnect`, call | core, UI |
| UI (`multicrewui.cpp`, wizards) | current connection, menu | `host`, `connect`, `disconnect`, `disconnected` | connections, protocol |
| Metafiles (`metafile.cpp`, `gauge.cpp`) | last and previous metafile, counter, timeout | `open`, `close`, compress thread, `receive` | one network channel |
| Gauges (`gauge.cpp`, `gaugemodule.cpp`) | hooked callbacks, mouse queue, detached gauges, frame counter | install, attach, detach, callback, mouse callback | core, channels |
| Elements (`*element.cpp`) | last value and flags, mark for a redraw | callback, `sendState`, `sendFullState`, `receive`, attach | one network channel each |
| FSUIPC module (`fsuipcmodule.cpp`, `fsuipc.cpp`) | watches with last values, full state flag, queue of the client | `watch`, thread, `receive`, `frameCallback` | simulator variables |
| Position (`position.cpp`) | last position and speeds, time stamps | `frameCallback`, `receive` | simulator variables |
| Packets and streams (`packets.h`, `streams.h`) | – | serialise, parse | protocol |
| Configuration (`artconf.c`, `config.cpp`, `fileconfig.cpp`) | key/value list | read, write, lookup | all |
| Module loader (`multicrewgauge/main.cpp`) | hooked import table, loaded modules | load, free | FS2004 |
| RakNet's reliability layer (`ReliabilityLayer.cpp`) | send and resend queue, window, ordering indexes | send, receive, update | UDP |

What makes the behaviour hard: five kinds of threads (UI, simulator, network,
metafile, FSUIPC) meet in the same objects; a packet may overtake another one
when it travels on another ordering channel; every node may leave at any
moment; sessions restart while state of the last one is still around; and
nothing of it is covered by a test – the repository has no tests, only
comments and one assertion (`thread.cpp:83`).

What makes each component correct is the list of `hazards` in `PROJECT.json`;
each hazard names the source line where it bites and the properties that watch
it, or the reason why none does.  A property with a note has an exception in it
that states what the code really loses there.

## 2. Modules

| Module | Models | Proofs |
|---|---|---|
| `ChannelProtocol` | names, numbers, waiting payloads and sessions of the channel protocol, on one host and any set of clients | `ChannelProtocolProofs`, `ChannelDeliveryProofs` |
| `Metafile` | the pictures a gauge draws: recorded, compressed, sent with a counter, decompressed, drawn | `MetafileProofs` |
| `SessionLifecycle` | connection objects between the UI thread, their network threads and the simulator thread, whose message loop runs the asynchronous callbacks | `SessionLifecycleProofs` |
| `PacketStreams` | what ordered and sequenced streams of packets promise | – |
| `ReliabilityLayer` | RakNet's reliability layer, one direction of a connection over a network that loses, repeats and reorders; implements `PacketStreams` | `ReliabilityLayerProofs` |
| `GaugePool` | which object hooks which gauge of the simulator while panels are opened, closed and resized | `GaugePoolProofs` |
| `FrameProvider` | which gauge tells the core of a new frame | `SimulatorProofs` |
| `FsuipcModule` | variables of the simulator copied from the host to a client | `SimulatorProofs` |
| `Elements` | needles, icons, static images and strings on host and client, with the threads that send and show them | `ElementsProofs` |

`MC*` modules give the constants finite values for TLC.  A run may cover several
environments, chosen by a variable that never changes: `user` of `SessionLifecycle` and
`network` of `Metafile`, on which the properties depend, `size` in `MCDelivery` and `part`
in `MCSimulator`.  `Sized` in an `MC` module bounds each environment by what it is for.

How the models rest on each other: `ReliabilityLayer` delivers packets and promises
`PacketStreams`; the links of `ChannelProtocol` are such streams, one per kind and
ordering channel, cut off when a connection is lost; `Metafile`, `Elements` and
`FsuipcModule` each use one channel, of the kind of stream their sends ask for, and
`Metafile` also has the learning of its number; `SessionLifecycle` has the threads
that start and stop sessions; `GaugePool` and `FrameProvider` have the simulator's
thread that calls everything else once a frame.

A definition
called `X_Something` is a mutant of `X`: a plausible bug in the code `X`
translates, kept beside it to show that the properties notice.

### 2.1 ChannelProtocol

*State.*  `idToNum`, `numToId`, `todo`, `registered` and `sentReserved` are
the members of `ChannelProtocol::Data`, per node.  `host` and `client` are the
phases of a session as the UI drives them: the server accepts connections
(`opened`) before `start(true)` runs, a client is `connected` before
`start(false)`, and `stop()` comes before the disconnect (`closing`,
`leaving`).  `lost` and `cut` are sessions whose connection is gone and which
the UI has not stopped yet.  `pending` holds the sends that have looked their
number up under the critical section and not yet called the connection
(`channelprotocol.cpp:282-332` releases the lock in between).  `up` and `down`
are the links.  `handed` and `owed` are histories for the properties.

*Transport.*  RakNet delivers per ordering channel; `Connection::send` maps a
safe packet to `RELIABLE_ORDERED` and another to `RELIABLE_SEQUENCED` on the
ordering channel that equals the number of the network channel, and named
packets go on a reserved channel, round robin; the counter is not locked, so on the nodes
of `Racing`, where two threads count at once, it is left with any value.  A link is therefore one queue
for each pair of a kind and an ordering channel; nothing orders one queue
after another; a sequenced queue may deliver any packet and drops the older
ones.  A lost link loses everything on it.

*Actions.*  One per critical section: `SendLookup` and then `HostSend` or
`ClientSend`; `HostReceive*` and `ClientReceive*` are the cases of `receive`;
`FullStateStep` is one channel of `handleFullState`, which blocks everything
that needs the host's lock (`Unlocked`); `StartHost`, `StopHost`,
`OpenServer`, `CloseServer`, `Connect`, `StartClient`, `StopClient`, `Leave`
and `LoseConnection` are the UI and the connection.  `FullStateStep` draws
whether a channel sends its state safely from a set, because every channel
decides that itself.

*Merged steps.*  Some steps join two holds of the critical section, or one and the call
of the connection after it; they are told apart where something can come between that
changes the outcome.  `SendLookup` joins the copy of the connection
(`channelprotocol.cpp:275`), `mode()` and the lookup: of a session that ends in between
the send finds the connection disconnected, as it does here; `HostReceive*` and
`ClientReceive*` join the lock and the answer after it (`504-516`, `465-478`), which one
thread sends and no other waits for; `StartHost` and `StartClient` join the lock and the
full state (`157-166`), and what comes in between could as well come before or after.
`LoseConnection` is seen by both ends at once and only while the host is past `opened`:
an end that notices later goes on sending into nothing, as a `cut` client and a `lost`
host do.

*Abstracted.*  A payload is its channel and a number; priorities only choose
between messages that are not ordered anyway; the 12 bit limit of a number is
not reached (`Nums` has one number per channel, and the proof shows that no
more are ever needed).  Taking `mode()` and the use of the connection as one
step hides the null dereference listed under the hazards.

*Runs.*  All have `CHECK_DEADLOCK FALSE`: with the sessions of `MaxSessions`
used up the system rests, as the program does when nobody connects again.

| Run | Instance | Shows |
|---|---|---|
| `restart` | 1 client, 2 channels, one mobile on the host, the client sends and the host answers with its full state, 4 openings and joinings, 2 payloads, the host's threads race for the reserved channels | types, unique numbers, right channel, the inductive invariant, agreement of the maps across restarts |
| `delivery` | long: 1 of 2 symmetric clients, 1 channel, 4 payloads of the host, 2 openings and joinings, 2 reserved streams; wide: both clients, 2 payloads, 1 opening and 2 joinings, closed by the loss of a link only; race: 1 client, 2 payloads, all threads race for the reserved channels | order, no double hand-over, no loss, the request for a number is on its way, the inductive invariant of delivery; in the wide instance with a late join, the loss of one client and answers to the other client's requests |
| `live` | 1 client, 1 channel, both send, 2 payloads, all threads race for the reserved channels | waiting payloads are claimed, numbers are learned |

Two channels and two payloads are what it takes to mix up two numbers; two
reserved streams let named packets overtake each other;
two payloads by number and one by name, plus one to overtake them
(`delivery`), give every order of `todo`; four openings and joinings allow a
host restart between two joins of the same client.

*Properties.*  `MapsAgree`, `HostMapsInverse`, `RightChannel`,
`TodoKnownToHost`: numbers mean the same everywhere.  `HandedOnce`,
`NoSafeLoss`, `InOrderUnlessLate`: what happens to payloads while numbers are
learned.  `RequestOutstanding`, `TodoDrained`, `NumberLearned`: nobody waits
for ever.  `InOrderUnlessLate` states the reordering the code *does* have: an
`idChannel` packet teaches the number without flushing `todo`
(`channelprotocol.cpp:495-503`), so newer payloads overtake those that wait
for the `idNum` answer.

*Fairness* (`live` only).  The network threads poll every 10 ms and process
what has arrived, so receiving is fair (strongly for the host, since
`handleFullState` disables it again and again); `handleFullState` is a loop
that ends; the UI call that opened a session goes on to start it, the one that
stopped it goes on to disconnect; and the message loop delivers the
`disconnected` callback, which stops the protocol of a lost session.  No
fairness is assumed of the user or of the application threads.

*Proof.*  `ChannelProtocolProofs` proves `Spec => []IInv` for any set of
clients, any finite set of channels, any number of reserved channels and any nodes
that race for them, and
from it `TypeOK`, `MapsAgree`, `HostMapsInverse`, `RightChannel` and
`TodoKnownToHost`.  None of these is inductive: the maps of a client agree
with the host's only because every packet that may still arrive does
(`WireInv`), a packet because the send it came from does (`PendingInv`), and
both only as long as the session lasts (`SessionInv`).  The maps of the host
only grow during a session, so whatever agreed goes on agreeing
(`PacketsGrow`).  The new number `HostNum` is the size of the map: it is free
because all numbers given out lie below it (`HostInv`) and it is below the
number of channels because a new name is one of the channels not numbered yet
(lemmas on `Cardinality`).  The proofs assume `ConstantsAssumption` only.

`ChannelDeliveryProofs` proves `Spec => []DeliveryInv` on top of `IInv`, and from
both `HandedOnce`, `NoSafeLoss`, `InOrderUnlessLate` and `RequestOutstanding`, again
for any clients and channels and any number of payloads.  These are properties of
what was delivered, and none is inductive.  `DeliveryInv` follows each payload through
the three places it can be in for a client, the links (`LinkShape`, `LinkOrder`),
`todo` (`TodoOrder`) and what was handed on (`HandedOrder`):

* it is in one place and once in it (the parts that compare `uid`), so handing it on
  twice would need it to be in two;
* each stream carries the payloads of one channel and one kind in the order of sending,
  so whatever is taken from a stream is newer than what came before it the same way
  (`LinkAfterHanded`, `LinkAfterTodo`) and older than the rest of the stream.  What the
  network drops from a sequenced stream makes the stream thinner and disturbs no order
  (lemma `ThinsKeeps`);
* what waits for a number is newer than what waited before it (`TodoAfterHanded`), but
  not than what was handed on at once: this is the one reordering the code has, and
  why `HandedOrder` has the exception of `InOrderUnlessLate` in it;
* what is owed to a client is in one of the three places, on an ordered stream if it is
  on the way (`Kept`), and so is the request or the answer for each number in `todo`
  (`OnOrdered`).  A stream that drops could lose either; that safe payloads, requests
  and answers never use one is what these two parts rest on.

The proof first shows what a step does to a link, to `todo` and to a history (lemmas
on `PutOn`, `TakenFrom`, `Waits`, `Emptied`, `More`), whatever the protocol is, and
then, action by action, which of these the action does.  It uses of `IInv` that a
number means one channel during a session, so that no two streams carry payloads of
one channel and one kind (`OneStream`) and no two numbers have payloads of one channel
waiting (`WaitingIds`).

### 2.2 Metafile

*State.*  `last`, `previous`, `counter`, `timeout` are the members of
`MetafileCompressor::Data`; `thread` and `job` are where the compress thread
stands and what it saved before it released the lock (`metafile.cpp:283-315`);
`expected` and `held` are `metafileCounter` and `lastMetafile` of a
decompressor; `display` is the gauge of a client between reading the recording
and the counter (`gauge.cpp:635-643`).  A recording is the number of the draw
it comes from, `Corrupt` what comes out of a wrong reference.  zdelta either
fails or yields something else then, and `Accept` does both.

*Transport.*  The metafile channel is one network channel.  `log` is what the
host has sent on it in its session; a client reads it from where it joined.
The first packet ever sent goes by name, on another ordering channel than
those by number; a client that joined later never gets it and asks for the
number, and its packets wait in `todo` meanwhile.  `link` is that part of
`ChannelProtocol`, seen from one client.

*Actions.*  `Draw` is `open`/`close`; `Wait`, `Take` and `Finish` are one round
of the thread, cut where it releases the lock; `HostReset`, `HostAck`,
`Refuse` and `Accept` are the two `receive` functions; `ReceiveNamed`,
`ReceiveNumbered`, `ReceiveAnswer` and `Flush` bring the packets; `DisplayRead`
and `DisplayDraw` are a drawing on a client; `Join`, `Leave`, `Restart` are
sessions.  None of them touches the compressor or the decompressor, because
the code does not: only a simulator started again does (`fresh`).

*Merged.*  `DisplayDraw` is in one step the two reads of the counter (`gauge.cpp:639`,
`643`); `Accept` stores the counter and the recording in one (`metafile.cpp:491`, `492`),
although `counter()` takes no lock (`429-431`).  The code has more chances
than the model to mark a recording drawn that was not, which `metafile_skip` shows
already; `NeverCorrupt` and the like say nothing about what is marked.

*The network* never changes; the constant `Networks` says which there are.
`network.overtake`: packets by number may overtake the named one.
`network.prompt`: all answers arrive before the thread has waited its ten
rounds of `metafileDelay`, 5 s by default.

| Run | Instance | Shows |
|---|---|---|
| `metafile_streams`, overtaking | 2 clients, 4 draws, 2 joins each, overtaking, any delay, counter modulo 3 | types; both references present whenever they are used |
| `metafile_streams`, ordered | 2 clients, one drawing, 4 draws, 1 join each, 1 host restart, no overtaking, modulo 3 | a client never decompresses against, or draws, the wrong recording |
| `metafile_streams`, prompt | 1 client alone, 6 draws, 2 joins, 2 restarts, overtaking, prompt answers | one reset is enough |
| `metafile_rejoin` | 2 clients, 4 draws, 2 joins each, prompt answers | *violation*: a rejoining client accepts a packet made from another reference |
| `metafile_skip` | 1 drawing client, 4 draws | *violation*: a recording is left undrawn |

Four draws are a fresh start, a difference, another fresh start and its
successor, the shortest exchange in which a wrong reference is used; modulo 3
lets the counter wrap inside it, modulo 7 keeps wrapping out of the
counterexamples.  `Throttle = 1` is one round instead of ten.
All runs have `CHECK_DEADLOCK FALSE`: after `MaxFrames` draws nothing is left
to do, as in a panel that is not drawn.

*What the violations mean.*  The counter is all the two sides compare (comment
`metafile.cpp:443`, "correct sequence?").  It identifies the reference only
while each client has read everything since the last fresh start, which the
proved theorem makes precise; a rejoin breaks it (`metafile_rejoin`), and so does
a late `todo` handed on after a fresh start (the same violation with one
client and overtaking).  A
picture stays wrong until the next reset.  There is also a livelock the model
reaches and no promise forbids: two clients with different counters alternate,
each refusing the packet the other one's reset brought about.

*Proof.*  `MetafileProofs` proves `PresenceInv` without any assumption on the
environment and from it `ReferencePresent` and `TypeOK`,
for every number of clients, draws, joins and restarts and every modulus.
`NeverCorruptInOrder` is proved for every client that joined once and whose
packets do not overtake the named one, exactly the
conditions without which it fails (`metafile_rejoin`), whatever the other clients do.  Its
inductive invariant `StreamInv` says that each packet of the log continues the one before it or starts afresh
(`LogInv`), that the host continues its last packet (`HostInv`), and that a
client at position `p` of the log which expects the counter of packet `p + 1`
holds the reference of that packet (`InStream`).  The counters alone say
nothing about references; the invariant ties them to positions.

`RefusedOnceIfPrompt` is proved for any number of sessions of one client, alone so far
(`Alone`), on a network with prompt answers, overtaking or not.  Its invariant `AloneInv`
(`Served`) says that one thing at most is under way between host and client, a packet on
the wire or in `todo`, an acknowledgement, or a reset, and that the thread waits as long as
there is one; and that after a refusal the client expects 0 and either the packet under way
is a fresh start, or the reset is, or the host starts afresh already.  It uses that the
thread waits at all (`Throttle` is not 0, `metafile.cpp:361`).  With a second client the
acknowledgement of one ends the wait for the other, and the proof shows nothing: this is the
livelock above.

### 2.3 SessionLifecycle

*Threads.*  `host()`, `connect()` and `disconnect()` run in the UI thread; each
connection has a network thread that polls RakNet; `ID_ASYNC` is handled by
the window procedure of the simulator (`multicrewui/main.cpp:165-175`), so
`callbackAsync` and with it `MulticrewUI::disconnected` run in the simulator's
main thread.  The records `ui` and `sim` and the function `net` say where each
thread stands; a step is what happens up to the next point where another
thread can interfere: a critical section, a wait, a question to the user, the
two halves of `setState`.

*State.*  `state`, `refs`, `exit` and `life` are the members of a connection:
its `State`, the count of `Shared`, the exit event of its thread and whether
the object still exists.  `uiCon` and `protoCon` are the smart pointers of
the UI and of the channel protocol, `slot` and `attached` the two ends of the
`disconnected` signal, `callees` and `posted` the set of the core and the
messages in the queue, `core` the holder of the core's critical section while
`callbackAsync` runs.  The critical section of the protocol is never held
across a wait except in the cases `ProtocolFree` lists.

*Destruction.*  `Exchange(old, new)` is the assignment of a smart pointer.  It
drops the old object first; if that was the last reference the thread enters
the destructor (`join`), sets the exit event and waits, and the pointer is set
only when `UIDeleted` or `SimDeleted` has seen the network thread exit.
`Timeout` is the end of the three second wait when the network thread is
`Blocked` on a section that stays taken until the wait is over.

*Crashes* end a behaviour with an `outcome`: the assertion, a null pointer, a
freed object.

| Run | Instance | Shows |
|---|---|---|
| `sessions`, hasty user | 1 host and 1 client connection, both may be open at once, lost and closed at any time, 2 mouse packets | types, no forgotten and no nested callback |
| `sessions`, polite user | 1 host and 2 client connections one after the other, no mouse packets | the same, and exact reference counts, nothing used after destruction, every end reported, a disconnected connection is destroyed, the inductive invariant |
| `sessions_assertion` | 1 host connection, 1 mouse packet | *violation*: the assertion in `stopThread` |

Two connections are what an old and a new session need to meet, the third is
one cancelled in the wizard between them.  Two mouse packets allow one to be
handed over while the gauge is already a callee.  `Sized` of `MCSessionLifecycle`
states these two bounds, one for each user.  `CHECK_DEADLOCK FALSE`: when
all connections are used up, or the program has crashed, nothing is left to
do.

*The two users.*  `user` never changes.  With the *polite* user a session is
opened only when the last one has ended, and no connection is lost while the UI
thread installs or closes one; with the *hasty* one neither holds.
The code promises neither: the
menu is grayed only when it is built or a session ends (`multicrewui.cpp:241`, not
after `host()` and `connect()`), and nothing locks a connection against its
own network thread.  With the hasty user the model reaches what the hazards list:
two threads in `setState` take two references for one callback and the
connection stays for ever; `disconnect()` goes through a pointer that
`disconnected()` has cleared meanwhile (`multicrewui.cpp:194`) or through an
object it has destroyed; a session that ends while `host()` installs it is
installed dead; `Slot1::connect` leaves the old signal attached
(`signals.h:107`), and the old connection takes the slot of the new one with
it.  No comment, assertion or document speaks about them, so they are hazards
and not findings.  `CallbackDue`, `NoReentry` and `TypeOK` are checked and proved
for both.  `TypeOK` leaves the sign of a reference count open, as `int refcount`
does (`shared.h:63`): a hasty user with three connections drops a reference
twice, and a count falls below zero.

*The violation.*  `callbackAsync` holds the critical section of the core while
the callback of a connection drops its last reference, and the destructor
waits for the network thread.  When that thread hands a mouse packet to a
gauge (`gauge.cpp:204`) it waits for the same section; after three seconds
`assert( ret!=WAIT_TIMEOUT )` (`thread.cpp:83`) fails.

*Fairness* (polite user).  Every thread goes on with what it has begun:
the network threads poll every 10 ms, the simulator's message loop delivers
`ID_ASYNC`, the user answers the question and leaves the wizard (a modal
dialog) and presses OK.  Nobody is assumed to lose, host, join or close
anything.  Without mouse packets because the violation above stops the threads.

*Proof.*  `SessionLifecycleProofs` proves every invariant of the run for any
number of connections and mouse packets.  It assumes `LifecycleAssumption` only:
hosts are connections, and `None`, `Gauge` and the two threads are not.

* `TypeOK`, for both users.  Alone it is not inductive: `UIAssign` puts
  `ui.con` into the pointer of the UI, and `Typed` adds that a thread that works
  with a connection has one.
* `CallbackDue` and `NoReentry`, for both users, from `CallbackInv`: a single
  message stands for all callees, in the queue or in the running
  `callbackAsync`, exactly as long as there is a callee, and the section of the
  core is held exactly while it runs.  `CallbackDue` alone is not inductive:
  `SimLeave` clears the set, and only the fact that no message is in the queue
  then keeps a stale one from entering.
* `RefsExact`, `NeverFreed` and `EndReported`, with the polite user, from
  `PoliteInv`.  That the count is the number of holders (`Counted`) is not
  inductive: a step that drops a reference must know whether it is the last
  one, and a step that takes one that nobody has begun to destroy the object.
  `UiOrder`, `SimOrder` and `SlotOrder` say what each thread may hold at each
  of its steps, and `LifeOrder` what a connection may still meet at each stage
  of its life: once a callback is due, both halves of `setState` are behind it
  in every thread; once the destructor has begun, no pointer is left.
  Along the way the proof shows that only two steps ever drop a last reference,
  the wizard that is cancelled (`UICancel`) and the end of a callback
  (`SimRelease`); all assignments of `uiCon` and `protoCon` happen while somebody
  else holds the object, so no destructor runs inside the critical section of the
  protocol.

Each action has a lemma for each part of `Orderly`, and `Holders` is
counted once and for all (`HoldersCounted`), so that the steps need only the
arithmetic of `HoldCount`.

*Merged.*  `Exchange` drops the last reference and sets the exit event of the network thread
in one step; in the code the destructors call `Disconnect( 300 )` first
(`clientconnection.cpp:42-49`, `hostconnection.cpp:47-50`).  A round of the network thread
that begins meanwhile is in the model one that began just before the last reference was
dropped; both must end before the destructor goes on.
`Holders` leaves out the `con` of `sendChannelPacket` (`channelprotocol.cpp:276`), which
lives for one call in a thread that sends: that thread can be the last holder and then
runs the destructor itself.  So that only two steps ever drop a last reference is shown for the
holders modelled.  `UIStart` and `UISlot` use the connection the function has in hand where
the code reads `d->connection` again (`multicrewui.cpp:159-160`, `181-182`); with the
polite user nobody changes it in between, with the hasty one the code has further
interleavings of the kind listed.

*Not modelled.*  The search for hosts, the three second limit and the retries
of `ClientConnectionSetup::connect`; the destructor of `MulticrewUI`; the
FSUIPC thread, which `stop()` also stops; callees deleted while they are due.

### 2.4 ReliabilityLayer and PacketStreams

*Why.*  Every other model relies on two kinds of streams.  The repository carries
RakNet in source and has patched this layer, so what is relied on is shown rather
than assumed, with the limits the code has.

*State.*  One direction of one connection.  Sender: `packetNumber`, `splitPacketId`,
`writeIndex`, `sendQueue`, `resendQueue` with its holes, the window (`window`, `lossy`), the calls
of `Send` under way, each with the packets it has `made`, and the acks of a datagram being
parsed.  Receiver: `received`, `readIndex`, `splits` (`splitPacketList`), `waiting`
(`orderingList`), `acks`, and `handed`, what it gave to the program; `repeats` is a history.  `wire` is a set from which packets are taken without removal, or never:
loss, repetition and reordering.  A packet has its true `ordinal`; `Index` is the byte
of it that is on the wire.

*Actions.*  `ReadNumber`, `TakeIndex` and `Push` are `Send`, cut where it releases a
lock.  A message longer than a datagram goes through `SplitPacketAndDeleteOriginal` in
between: `MakePart` once per part, which reads the split id and takes a number, then
`ReadSplitId` and `WriteSplitId`, the `splitPacketId++` that no lock protects
(`ReliabilityLayer.cpp:2209`, `2238`).  `Frame` and `GiveUp` are `Update` with and without a frame, `GenerateFrame` decides what
is sent and sent again; `ReceiveAcks` and `HandleAck` handle a datagram of
acknowledgements one by one, `RemovePacket` deletes what an ack supersedes;
`ReceivePacket` is the rest of `HandleSocketReceiveFromConnectedPlayer`; `AcceptPart` is
`BuildPacketFromSplitPacketList`, which takes the parts with one id, whatever message they
are of, for one message (`2286`, `2316`); `SendAcks` is the other end's frame.

*Abstracted.*  The priorities are one queue (they choose between messages that are not
ordered with each other); a datagram is taken packet by packet; an overdue packet may
be sent again at any time; packet numbers do not come round; a packet that comes again
more than `TIMEOUT_TIME` after its number was last taken is no duplicate to the code
(`438`), and `late` says that it does.  Which part is first in the list changes with every
deletion, so it is any.  A list with more parts of an id than the first part says is
beyond what the code allocated for it (`2307`), and the model, like the comparison at
`2327`, puts nothing together then.  `waiting` is a set: a second copy of what waits there
already is one element.  `MakePart` reads number and id in one step.  Only safe messages
have parts: what the program sends unsafely (needles, icons, positions, strings, FSUIPC
requests) fits into a datagram, and a recorded picture is sent safely.  `PeerSends` says whether
the other end sends frames of its own, which make acknowledgements due.

| Run | Instance | Shows |
|---|---|---|
| `reliability_delivery` | 2 threads on one stream, window 1 to 2. three: 3 packets, ordered whole and in 2 parts, sequenced; late: 2 packets, plain ones too, one repeated late, the connection may be given up; parts: 2 ordered messages in 2 parts each | types, no safe packet and no newest one lost, no stall, whole messages, the refinement `Streamed` |
| `reliability_wrap` | an index of 2 values, 4 ordered packets | *violation*: a stream stalls once the index has come round |
| `reliability_dead` | 2 sequenced packets, window 2 to 3 | *violation*: a connection given up with nothing unanswered |

Three packets are a message in two parts and one that overtakes or supersedes it; two
threads may read one packet number or one split id, and `parts` (in `MCLayerDelivery`) has
what it takes to put the parts of two messages together.  The code's values (256, a window
of five) only make the two counterexamples longer.
`CHECK_DEADLOCK FALSE`: when everything is handed on, or the connection is dead, nothing
is left to do.

*Proof.*  `ReliabilityLayerProofs` proves, for any streams, callers, traffic, window and
bounds: `LayerTyped`, `SafePacketsKept` and `NoPartialMessage`, and under `[]NoWrap` (no
ordinal reaches half the values of the index, the condition the first violation shows to
be needed) `NoStreamStalls`, `NewestPacketKept` and `LayerKeepsPromise`, the refinement.
The invariants build on each other: `Shape` (types; every packet in a queue or under way was sent, every number
acknowledged was received), `Kept` (a safe packet is with the sender or its number was
received, and then it is with the receiver), `Counted` (every ordinal is below the write
index) and `InTurn` (the read index of an ordered stream counts what was handed on and
nothing that waits is next; the one of a sequenced stream is past all that was handed on),
`ReadIsHanded` with `NewestKept` (the read index of a sequenced stream is just behind a
message that was handed on, so what is dropped as old is not the newest, and no ack for an
older packet deletes it), `MessagesOnce` (no ordinal is used twice, so a message has no
more packets than parts) and `Whole` (parts that wait were received, and all packets of
what waits or went on were, or it was mixed up: distinct parts of one message, as many as
it has, are all of them).

*Exceptions.*  The properties state what the races cost.  `Shared`: two threads read one
packet number (`895`, `927`), and the second packet is dropped as a duplicate.  `Mixed`:
two read one split id, or one stores an old value; the receiver then takes a part of each
for a whole message, or waits for ever.  Either is a safe message lost, and `Mixed` also a
message handed on in part.  `Doubled`: a part that comes again after `TIMEOUT_TIME` is
counted twice.  Without any one of these exceptions `reliability_delivery` finds a
violation.  No comment of the code speaks of two senders, so they are hazards and not
findings.

### 2.5 The simulator's thread: GaugePool, FrameProvider, FsuipcModule, Elements

The run `simulator` checks the four; a behaviour runs one of them (`part`), since they
share no state.

*GaugePool.*  `opened` is what the simulator has, `hook` the callback in a header,
`header` and `detachedGauges` the members of the gauges and of their module.  All
actions are in the simulator's thread; hard is the sequence of calls: a resize kills and
installs all gauges of a panel, some of them under one name.  An object is never given
back, so `NoneWasted` says that no more are made than headers were open at once.
3 headers, 2 names.  `ObjectsServeOneHeader` is proved by induction over `PoolInv`,
which adds that a waiting object waits once and under its own name; `NoObjectWasted` from
`HooksCount`: the headers open under a name call different objects of that name, and all
its objects when none of them waits.

*FrameProvider.*  `PreDraw` is the decision of `gauge.cpp:225-251`.  The simulator draws
each gauge at most once a frame, any subset in any order, and installs gauges at any
time: this is the environment (`NextFrame`, `drawn`).  `AckedOnce` allows one more count for
each gauge installed in the middle of a frame, which the code does.  3 gauges, 4 counts:
a provider that is left out, another one that takes over, and the return of the first.
Both properties are proved; the invariant says that after the count of a frame every
gauge not drawn yet is behind the counter.

*FsuipcModule.*  On the host the timer thread, the simulator's frame and the network
thread (`Tick`, `Poll*`, `SendFullState`), on the client the network thread and the
frame (`Receive`, `WriteTodo`).  A poll is cut between reading and clearing
`nextIsFullSend` and between the watches.  `nextIsFullSend` starts with any value, as the
code leaves it.  `Room` is how many reads or writes fit into the 256 bytes of a
request.  `Arrives` has the exception `spoiled` for what the code loses: a full state
requested between the two lines of `fsuipcmodule.cpp:226-229`, a queue that does not
fit, a write that fails.  2 watches, one beyond the room, 2 changes of each, 2 sessions.
`NothingForgotten` is the safety behind it: in a session that met none of these losses, each
variable of the client will be `oldData`, what the host noted as sent last, once `todo` and
the stream are written, or it is still to be sent: asked for, noted for the next poll, or
ahead of a poll that sends everything.  `oldData` lives through the sessions and is noted by
polls nobody listens to, so it is the request that repairs the difference, and the property
says it is never lost half way.  It is proved for any number of variables, sessions and any
size of a request (`NothingIsForgotten`).  With the types, only one fact makes it inductive: a
poll that has not cleared the flag has not sent anything yet (`FsuipcInv`).  The proof is
about the order of packets: receiving moves one from the stream to `todo`, a frame writes
all of `todo`, and the last packet of a variable decides.  The value of a packet is `data`,
so `Arrives` adds to it, under fairness, that polls read what the simulator has.
*Fairness:* the threads and frames go on, FSUIPC answers now and then (strong fairness of
`PollReads`); nobody has to change a variable, join or leave.

*Elements.*  One element of any kind.  The host's simulator thread compares, passes the
protocol's critical section and sends; the thread of a full state holds that section
from making a packet to sending it.  This, and not a lock of the element, keeps an older
value from overtaking a newer one (`Settled`).  A string holds its own lock too, and takes
the two in the order opposite to a full state's: `Stuck` is the deadlock the code has
there, the exception of `ChangeArrives`.  `SimLooksUp` is the two passes through that
section (`channelprotocol.cpp:275-277`, `284-299`) in one step: a full state between them has sent
its packet before the simulator's either way.  On the client `receive` stores and marks in two
steps, and the callback applies, tests and redraws.  Texts and flags are
applied before the test, so one that comes in between is drawn late (`missed`).
`Tests` tests and clears `changed` in one step (`iconelement.cpp:152-155`); a packet that
comes between the two loses its mark, and so does in the model one that comes just before
the test (`between`).  `attach` notes the flags of a new panel without sending them (`detuned`).  The session is
under way and the number of the channel known; the stream is sequenced, and its newest
packet arrives (`NewestHeld`).  Static images are those whose flags are watched.  2
edits, 2 full states, 1 panel: a full state is made before an edit and sent after it,
and another one follows.  *Fairness:* all threads; nobody has to edit, ask or load.
`Settled` and `Redrawn` are proved by induction over `ElementsInv`: a packet being
made is what was noted, the last one on the stream is the newest unless one is being
made, and what is unmarked is on the screen.

`CHECK_DEADLOCK FALSE`: the bounds end every part, and the strings can deadlock.

## 3. Findings

The violation runs above are disagreements between the code and what its own
comments and its one assertion say; `PROJECT.json` quotes them.

## 4. What is proved and what is only checked

Proved for all values of the constants: see the *Proof* paragraphs; the
theorems worth knowing are listed in `PROJECT.json`.  All that is only model-checked, on
the bounds given, is liveness (`TodoDrained`, `NumberLearned`, `Ended`, `Arrives`,
`ChangeArrives`), out of reach of the prover.  Every safety property that a passing run
checks is proved; those of the violation runs are false on the instance they run on.

## 5. What is left

* A session in which elements or FSUIPC variables share `ChannelProtocol` itself, instead of
  the stream it gives them: each model is within TLC's reach, the product is not.
* Connection attempts that outlive their wizard (`clientconnection.cpp:289`), with RakPeer's
  handshake.

## 6. What is not modelled

* *Drawing, GDI+, wxWidgets, the dialogs, logging*: layout and text.
* *Packets, streams, thunks (`callback.h`)*: plain serialisation and machine code; the
  records of the models are the packets.
* *Position*: its substance is the extrapolation in double arithmetic, out of reach of
  both tools; what is left without it is a switch on the mode.
* *Configuration*: read once by a sequential parser, never changed afterwards.
* *Module loader*: patches the import table of the simulator; its behaviour is that
  of the loader of Windows.
* *Mouse events*: the coordinates and the hooked rectangles of a gauge; a mouse packet in
  the network thread is part of `SessionLifecycle`.
* *Data races on containers* (the channel set while a gauge registers, the shared
  critical section created by the first user): listed as hazards; the models take each
  critical section, and each such access, as one step.  Races on numbers are modelled:
  the reserved channels, the packet number, the split id, `nextIsFullSend`.
* *RakPeer, sockets and encryption, the RakNet samples, stlplus, zdelta, the FSUIPC library*:
  third party.  What the models rely on is marked external in the map.
