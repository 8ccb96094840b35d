------------------------------ MODULE Metafile ------------------------------
(***************************************************************************)
(* The metafile channel of a gauge (metafile.cpp): the host records what   *)
(* the gauge draws, a thread of its own compresses each recording against  *)
(* the one before it and sends the difference with a counter, and every    *)
(* client decompresses it against the recording it holds.  A client that   *)
(* gets another counter than it expects asks for a fresh start.            *)
(*                                                                         *)
(* The packets travel on one network channel.  "log" is what the host has  *)
(* sent on it in its session; a client reads it from where it joined.      *)
(***************************************************************************)
EXTENDS Naturals, Sequences

CONSTANTS
  Clients,      (* the client programs                                       *)
  Displays,     (* the clients whose gauge is drawn                          *)
  Corrupt,      (* a recording decompressed against another reference        *)
  Modulus,      (* metafileCounter counts modulo this, 2^32 in the source    *)
  Throttle,     (* the timeout after a compression, 10 in the source         *)
  Networks,     (* the networks it may run on, see network                   *)
  MaxFrames,    (* bound: recordings drawn                                   *)
  MaxJoins,     (* bound: times a client joins                               *)
  MaxRestarts   (* bound: times the host ends its session and opens another  *)

(* "overtake": packets may overtake the named one that teaches the number;  *)
(* "prompt": all answers arrive before the timeout ends.                    *)
Network == [overtake : BOOLEAN, prompt : BOOLEAN]

ASSUME MetafileAssumption ==
  /\ Displays \subseteq Clients
  /\ Corrupt \notin Nat
  /\ Modulus \in Nat \ {0, 1}
  /\ Throttle \in Nat \ {0}
  /\ Networks \subseteq Network
  /\ MaxFrames \in Nat
  /\ MaxJoins \in Nat
  /\ MaxRestarts \in Nat

(* A recording is the number of the draw it comes from; the 1000 zero bytes *)
(* that stand in for a missing reference, and the null pointer, are none.   *)
NoFrame  == 0
Counters == 0 .. Modulus - 1

\* A recording with what it is compressed against and the counter it carries.
Delta == [frame : Nat, ref : Nat, counter : Counters]
NoDelta == [frame |-> NoFrame, ref |-> NoFrame, counter |-> 0]

(* The channel as a client sees it: "due", the named packet that was sent   *)
(* when nobody had joined before has not come yet; "arrived", the last      *)
(* packet by number that was taken off the wire; "waiting", those of them   *)
(* in todo; "known", the number is known; "asked", the answer that tells it *)
(* is outstanding; "flushing", the network thread is handing on todo.       *)
Link == [joined : BOOLEAN, due : BOOLEAN, arrived : Nat, waiting : SUBSET (Nat \ {0}),
         known : BOOLEAN, asked : BOOLEAN, flushing : BOOLEAN]
NoLink == [joined |-> FALSE, due |-> FALSE, arrived |-> 0, waiting |-> {},
           known |-> FALSE, asked |-> FALSE, flushing |-> FALSE]

Recordings == Nat \union {Corrupt}

\* The gauge of a client: "reading", it has read lastMetafile and not yet compared
\* the counters; "seen", what it read; "shown", what it drew last; "recorded", its
\* own metafileCounter, -1 (here: Modulus) before the first drawing.
Display == [reading : BOOLEAN, seen : Recordings, shown : Recordings, recorded : 0 .. Modulus]
NoDisplay == [reading |-> FALSE, seen |-> NoFrame, shown |-> NoFrame, recorded |-> Modulus]

VARIABLES
  network,     (* what the network does, which never changes                 *)
  last,        (* lastMetafile of the compressor: the recording to send      *)
  previous,    (* previousMetafile: the reference for the next one           *)
  counter,     (* metafileCounter of the compressor                          *)
  timeout,     (* rounds the thread still waits                              *)
  thread,      (* the thread: idle, compressing outside the lock, ended      *)
  job,         (* what the thread saved before it released the lock          *)
  drawn,       (* recordings drawn so far (numbers them)                     *)
  log,         (* packets of the host's session                              *)
  link,        (* per client: the channel                                    *)
  acks,        (* per client: ack packets on the way to the host             *)
  resets,      (* per client: reset packets on the way to the host           *)
  expected,    (* per client: metafileCounter of the decompressor            *)
  held,        (* per client: lastMetafile of the decompressor               *)
  display,     (* per client: the gauge                                      *)
  joins,       (* per client: times it has joined                            *)
  restarts,    (* sessions the host has ended                                *)
  refused      (* history, per client: packets refused in a row since it joined *)

compressor == <<last, previous, counter, timeout, thread, job>>
answers    == <<acks, resets>>
decoders   == <<expected, held, refused>>
vars       == <<network, last, previous, counter, timeout, thread, job, drawn, log, link, acks,
                resets, expected, held, display, joins, restarts, refused>>

TypeOK ==
  /\ network \in Networks
  /\ last \in Nat
  /\ previous \in Nat
  /\ counter \in Counters
  /\ timeout \in 0 .. Throttle
  /\ thread \in {"idle", "compressing", "ended"}
  /\ job \in Delta
  /\ drawn \in Nat
  /\ log \in Seq(Delta)
  /\ link \in [Clients -> Link]
  /\ acks \in [Clients -> Nat]
  /\ resets \in [Clients -> Nat]
  /\ expected \in [Clients -> Counters]
  /\ held \in [Clients -> Recordings]
  /\ display \in [Clients -> Display]
  /\ joins \in [Clients -> Nat]
  /\ restarts \in Nat
  /\ refused \in [Clients -> Nat]

Init ==
  /\ network \in Networks
  /\ last = NoFrame
  /\ previous = NoFrame
  /\ counter = 0
  /\ timeout = 0
  /\ thread = "idle"
  /\ job = NoDelta
  /\ drawn = 0
  /\ log = <<>>
  /\ link = [c \in Clients |-> NoLink]
  /\ acks = [c \in Clients |-> 0]
  /\ resets = [c \in Clients |-> 0]
  /\ expected = [c \in Clients |-> 0]
  /\ held = [c \in Clients |-> NoFrame]
  /\ display = [c \in Clients |-> NoDisplay]
  /\ joins = [c \in Clients |-> 0]
  /\ restarts = 0
  /\ refused = [c \in Clients |-> 0]

\* Mutant of After: the counter does not wrap.
After_Grows(n) == n + 1

\* The next counter.
After(n) == (n + 1) % Modulus

-----------------------------------------------------------------------------
(* The host: the gauge and the compressor *)

\* The gauge draws: open() refuses while the last recording is not yet sent.
Draw ==
  /\ drawn < MaxFrames
  /\ last = NoFrame
  /\ last' = drawn + 1
  /\ drawn' = drawn + 1
  /\ UNCHANGED <<previous, counter, timeout, thread, job, log, link, answers, decoders,
                 display, joins, restarts>>

\* Nothing is on the way to a client, and no answer on the way back.
Answered(c) ==
  /\ acks[c] = 0 /\ resets[c] = 0
  /\ link[c].joined => /\ link[c].arrived >= Len(log)
                       /\ ~link[c].due \/ log = <<>>
                       /\ link[c].waiting = {}

\* A round of the thread that only waits.
Wait ==
  /\ thread = "idle"
  /\ timeout > 0
  /\ network.prompt => \A c \in Clients : Answered(c)
  /\ timeout' = timeout - 1
  /\ UNCHANGED <<last, previous, counter, thread, job, drawn, log, link, answers, decoders,
                 display, joins, restarts>>

\* A round that takes the recording and its reference and starts compressing;
\* the thread ends itself if the reference is missing.
Take ==
  /\ thread = "idle"
  /\ timeout = 0
  /\ last # NoFrame
  /\ IF counter # 0 /\ previous = NoFrame
     THEN /\ thread' = "ended"
          /\ job' = job
     ELSE /\ thread' = "compressing"
          /\ job' = [frame   |-> last,
                     ref     |-> IF counter = 0 THEN NoFrame ELSE previous,
                     counter |-> counter]
  /\ UNCHANGED <<last, previous, counter, timeout, drawn, log, link, answers, decoders,
                 display, joins, restarts>>

\* Mutant of Finish: a reset that came during the compression goes unnoticed.
Finish_IgnoresReset(ok) ==
  /\ thread = "compressing"
  /\ IF ok
     THEN /\ log' = Append(log, [job EXCEPT !.counter = counter])
          /\ counter' = After(counter)
          /\ previous' = job.frame
     ELSE UNCHANGED <<log, counter, previous>>
  /\ last' = NoFrame
  /\ timeout' = Throttle
  /\ thread' = "idle"
  /\ job' = NoDelta
  /\ UNCHANGED <<drawn, link, answers, decoders, display, joins, restarts>>

\* Mutant of Finish: a recording that could not be compressed is counted.
Finish_CountsFailures(ok) ==
  /\ thread = "compressing"
  /\ IF ok /\ job.counter = counter
     THEN /\ log' = Append(log, job)
          /\ previous' = job.frame
     ELSE UNCHANGED <<log, previous>>
  /\ counter' = After(counter)
  /\ last' = NoFrame
  /\ timeout' = Throttle
  /\ thread' = "idle"
  /\ job' = NoDelta
  /\ UNCHANGED <<drawn, link, answers, decoders, display, joins, restarts>>

\* The compression is done, with or without success: the recording is sent
\* unless a reset has come meanwhile, and dropped otherwise.
Finish(ok) ==
  /\ thread = "compressing"
  /\ IF ok /\ job.counter = counter
     THEN /\ log' = Append(log, job)
          /\ counter' = After(counter)
          /\ previous' = job.frame
     ELSE UNCHANGED <<log, counter, previous>>
  /\ last' = NoFrame
  /\ timeout' = Throttle
  /\ thread' = "idle"
  /\ job' = NoDelta
  /\ UNCHANGED <<drawn, link, answers, decoders, display, joins, restarts>>

\* Mutant of HostReset: the request is read and nothing starts afresh.
HostReset_KeepsCounter(c) ==
  /\ resets[c] > 0
  /\ resets' = [resets EXCEPT ![c] = @ - 1]
  /\ UNCHANGED <<last, previous, counter, timeout, thread, job, drawn, log, link, acks,
                 decoders, display, joins, restarts>>

HostReset(c) ==
  /\ resets[c] > 0
  /\ resets' = [resets EXCEPT ![c] = @ - 1]
  /\ counter' = 0
  /\ UNCHANGED <<last, previous, timeout, thread, job, drawn, log, link, acks, decoders,
                 display, joins, restarts>>

HostAck(c) ==
  /\ acks[c] > 0
  /\ acks' = [acks EXCEPT ![c] = @ - 1]
  /\ timeout' = 0
  /\ UNCHANGED <<last, previous, counter, thread, job, drawn, log, link, resets, decoders,
                 display, joins, restarts>>

-----------------------------------------------------------------------------
(* The client: the decompressor *)

\* Mutant of Refuse: the client goes on with the counter it was sent.
Refuse_Adopts(c, m) ==
  /\ m.counter # expected[c]
  /\ expected' = [expected EXCEPT ![c] = After(m.counter)]
  /\ resets' = [resets EXCEPT ![c] = @ + 1]
  /\ refused' = [refused EXCEPT ![c] = @ + 1]
  /\ UNCHANGED <<acks, held>>

\* Not the counter it expects: the client asks for a fresh start.
Refuse(c, m) ==
  /\ m.counter # expected[c]
  /\ expected' = [expected EXCEPT ![c] = 0]
  /\ resets' = [resets EXCEPT ![c] = @ + 1]
  /\ refused' = [refused EXCEPT ![c] = @ + 1]
  /\ UNCHANGED <<acks, held>>

\* What the client decompresses against.
Reference(c) == IF expected[c] = 0 THEN NoFrame ELSE held[c]

\* The counter it expects: the packet is acknowledged and decompressed.  With
\* another reference than the sender's, that fails or yields something else.
Accept(c, m) ==
  /\ m.counter = expected[c]
  /\ acks' = [acks EXCEPT ![c] = @ + 1]
  /\ refused' = [refused EXCEPT ![c] = 0]
  /\ \/ /\ expected' = [expected EXCEPT ![c] = After(@)]
        /\ held' = [held EXCEPT ![c] = IF Reference(c) = m.ref THEN m.frame ELSE Corrupt]
     \/ /\ Reference(c) # m.ref
        /\ UNCHANGED <<expected, held>>
  /\ UNCHANGED resets

Decode(c, m) == Refuse(c, m) \/ Accept(c, m)

-----------------------------------------------------------------------------
(* The client: the gauge *)

\* The gauge is drawn: it reads the recording ...
DisplayRead(c) ==
  /\ c \in Displays
  /\ link[c].joined
  /\ ~display[c].reading
  /\ display' = [display EXCEPT ![c] = [@ EXCEPT !.reading = TRUE, !.seen = held[c]]]
  /\ UNCHANGED <<compressor, drawn, log, link, answers, decoders, joins, restarts>>

\* ... and then the counter, and draws unless it drew at this counter before.
DisplayDraw(c) ==
  /\ display[c].reading
  /\ display' = IF display[c].seen # NoFrame /\ display[c].recorded # expected[c]
                THEN [display EXCEPT ![c] = [@ EXCEPT !.reading  = FALSE,
                                                     !.shown    = display[c].seen,
                                                     !.recorded = expected[c]]]
                ELSE [display EXCEPT ![c].reading = FALSE]
  /\ UNCHANGED <<compressor, drawn, log, link, answers, decoders, joins, restarts>>

-----------------------------------------------------------------------------
(* The network channel of the metafile, as a client receives it *)

\* The named packet, the first of the host's session, teaches the number.
ReceiveNamed(c) ==
  /\ link[c].due /\ ~link[c].flushing
  /\ log # <<>>
  /\ link' = [link EXCEPT ![c] = [@ EXCEPT !.due = FALSE, !.known = TRUE]]
  /\ Decode(c, log[1])
  /\ UNCHANGED <<compressor, drawn, log, display, joins, restarts>>

\* A packet by number: handed on if the number is known, else it waits.
ReceiveNumbered(c) ==
  /\ link[c].joined /\ ~link[c].flushing
  /\ link[c].arrived < Len(log)
  /\ link[c].due => network.overtake
  /\ LET i == link[c].arrived + 1
     IN  IF link[c].known
         THEN /\ link' = [link EXCEPT ![c] = [@ EXCEPT !.arrived = i]]
              /\ Decode(c, log[i])
         ELSE /\ link' = [link EXCEPT ![c] =
                            [@ EXCEPT !.arrived = i, !.asked = TRUE,
                                      !.waiting = link[c].waiting \union {i}]]
              /\ UNCHANGED <<answers, decoders>>
  /\ UNCHANGED <<compressor, drawn, log, display, joins, restarts>>

\* The host's answer tells the number: what waits is handed on, in order.
ReceiveAnswer(c) ==
  /\ link[c].asked /\ ~link[c].flushing
  /\ link' = [link EXCEPT ![c] = [@ EXCEPT !.asked = FALSE, !.known = TRUE,
                                           !.flushing = TRUE]]
  /\ UNCHANGED <<compressor, drawn, log, answers, decoders, display, joins, restarts>>

Flush(c) ==
  /\ link[c].flushing
  /\ \E i \in link[c].waiting :
       /\ \A j \in link[c].waiting : i <= j
       /\ link' = [link EXCEPT ![c] = [@ EXCEPT !.waiting = link[c].waiting \ {i},
                                              !.flushing = link[c].waiting # {i}]]
       /\ Decode(c, log[i])
  /\ UNCHANGED <<compressor, drawn, log, display, joins, restarts>>

-----------------------------------------------------------------------------
(* Sessions.  Neither compressor nor decompressor is told of them. *)

Join(c) ==
  /\ ~link[c].joined
  /\ joins[c] < MaxJoins
  /\ joins' = [joins EXCEPT ![c] = @ + 1]
  /\ link' = [link EXCEPT ![c] = [NoLink EXCEPT !.joined = TRUE,
                                                !.due = log = <<>>,
                                                !.arrived = IF log = <<>> THEN 1 ELSE Len(log)]]
  /\ refused' = [refused EXCEPT ![c] = 0]
  /\ UNCHANGED <<compressor, drawn, log, answers, expected, held, display, restarts>>

Leave(c) ==
  /\ link[c].joined
  /\ link' = [link EXCEPT ![c] = NoLink]
  /\ acks' = [acks EXCEPT ![c] = 0]
  /\ resets' = [resets EXCEPT ![c] = 0]
  /\ UNCHANGED <<compressor, drawn, log, decoders, display, joins, restarts>>

\* The host ends its session and opens another, in the same program or, with
\* "fresh", after the simulator was started again.
Restart(fresh) ==
  /\ restarts < MaxRestarts
  /\ restarts' = restarts + 1
  /\ log' = <<>>
  /\ link' = [c \in Clients |-> NoLink]
  /\ acks' = [c \in Clients |-> 0]
  /\ resets' = [c \in Clients |-> 0]
  /\ IF fresh
     THEN /\ last' = NoFrame /\ previous' = NoFrame /\ counter' = 0
          /\ timeout' = 0 /\ thread' = "idle" /\ job' = NoDelta
     ELSE UNCHANGED compressor
  /\ UNCHANGED <<drawn, decoders, display, joins>>

-----------------------------------------------------------------------------
Next ==
  /\ UNCHANGED network
  /\ \/ Draw \/ Wait \/ Take
     \/ \E ok \in BOOLEAN : Finish(ok)
     \/ \E c \in Clients :
          \/ HostReset(c) \/ HostAck(c)
          \/ ReceiveNamed(c) \/ ReceiveNumbered(c) \/ ReceiveAnswer(c) \/ Flush(c)
          \/ DisplayRead(c) \/ DisplayDraw(c)
          \/ Join(c) \/ Leave(c)
     \/ \E fresh \in BOOLEAN : Restart(fresh)

Spec == Init /\ [][Next]_vars

-----------------------------------------------------------------------------
(* Properties *)

\* Whoever works with a difference has a recording to work from: the thread never meets
\* the missing reference its comment says should not happen (metafile.cpp:301) and after
\* which it would end for good, and a client that expects a difference holds a recording,
\* so that the decompressor never locks a null pointer (metafile.cpp:480).
ReferencePresent ==
  /\ thread # "ended"
  /\ \A c \in Clients : expected[c] # 0 => held[c] # NoFrame

\* What a client decompresses, and what its gauge draws, is what the host
\* recorded: the counters alone keep the references of both sides the same
\* (metafile.cpp:443 "correct sequence?", 478 "use previous as reference").
NeverCorrupt == \A c \in Clients : held[c] # Corrupt /\ display[c].shown # Corrupt

\* As long as it has joined once and the packets keep their order, a client decompresses
\* nothing against a wrong reference, whatever other clients do (metafile.cpp:443).
NeverCorruptInOrder == ~network.overtake =>
  \A c \in Clients : joins[c] <= 1 => held[c] # Corrupt /\ display[c].shown # Corrupt

\* A gauge leaves a recording undrawn only if it is the one it drew last
\* (gauge.cpp:642 "don't show same again").
SkipsOnlyTheSame ==
  [][\A c \in Clients : display[c].reading /\ ~display'[c].reading
                        /\ display'[c].recorded = display[c].recorded
                        => display[c].seen \in {NoFrame, display[c].shown}]_vars

\* No two clients have joined so far.
Alone == \A c, d \in Clients : joins[c] > 0 /\ joins[d] > 0 => c = d

\* For a client that is alone one refused packet is enough to start afresh if the answers
\* come before the next packet: the next one is accepted (metafile.cpp:445-455).
RefusedOnceIfPrompt == network.prompt /\ Alone => \A c \in Clients : refused[c] <= 1

(***************************************************************************)
(* The inductive invariants.  PresenceInv holds in every environment:      *)
(* whoever expects a difference has a reference.  StreamInv is the one     *)
(* behind NeverCorruptInOrder: each packet continues the one before it or  *)
(* starts afresh, the host continues its last packet, and a client that    *)
(* will accept the next packet holds its reference.  AloneInv is the one   *)
(* behind RefusedOnceIfPrompt: a packet, an acknowledgement or a reset is  *)
(* under way, never two of them, and the thread waits for it.              *)
(***************************************************************************)
PresenceInv ==
  /\ counter # 0 => previous # NoFrame
  /\ thread # "ended"
  /\ thread = "compressing" => job.frame # NoFrame
  /\ \A i \in 1 .. Len(log) : log[i].frame # NoFrame
  /\ \A c \in Clients : /\ expected[c] # 0 => held[c] # NoFrame
                        /\ link[c].waiting \subseteq 1 .. Len(log)

\* What a client at position p will be asked to continue: the next packet, or
\* the state of the host if none is on the way.
NextCounter(p) == IF p < Len(log) THEN log[p + 1].counter ELSE counter
NextRef(p)     == IF p < Len(log) THEN log[p + 1].ref ELSE previous

\* The packets a client has handed to its decompressor are the first p ones of
\* the log, or of what came after it joined.
AtPosition(c, p) ==
  /\ link[c].due => p = 0 /\ link[c].arrived = 1 /\ link[c].waiting = {}
                     /\ ~link[c].asked /\ ~link[c].flushing
  /\ ~link[c].due => /\ p <= link[c].arrived /\ link[c].arrived <= Len(log)
                     /\ link[c].waiting = (p + 1) .. link[c].arrived
  /\ link[c].known /\ ~link[c].flushing => link[c].waiting = {}

LogInv ==
  /\ \A i \in 1 .. Len(log) : log[i].counter = 0 => log[i].ref = NoFrame
  /\ \A i \in 1 .. Len(log) : \A j \in 1 .. Len(log) : j = i + 1 /\ log[j].counter # 0 =>
       log[j].counter = After(log[i].counter) /\ log[j].ref = log[i].frame

HostInv ==
  /\ log # <<>> /\ counter # 0 =>
       counter = After(log[Len(log)].counter) /\ previous = log[Len(log)].frame
  /\ thread = "compressing" =>
       /\ job.counter = 0 => job.ref = NoFrame
       /\ job.counter # 0 /\ job.counter = counter => job.ref = previous

Continues(c, p) == expected[c] # 0 /\ expected[c] = NextCounter(p) => held[c] = NextRef(p)

InStream(c) ==
  /\ held[c] # Corrupt /\ display[c].seen # Corrupt /\ display[c].shown # Corrupt
  /\ joins[c] = 0 => expected[c] = 0 /\ ~link[c].joined
  /\ ~link[c].joined => link[c] = NoLink
  /\ link[c].joined => \E p \in 0 .. Len(log) : AtPosition(c, p) /\ Continues(c, p)

ClientInv == ~network.overtake => \A c \in Clients : joins[c] <= 1 => InStream(c)

StreamInv == LogInv /\ HostInv /\ ClientInv

\* The packets of the log that have not been handed to the decompressor.
Underway(c) ==
  {i \in 1 .. Len(log) : /\ link[c].joined
                         /\ \/ i \in link[c].waiting
                            \/ i > link[c].arrived
                            \/ i = 1 /\ link[c].due}

Served(c) ==
  /\ ~link[c].joined => link[c] = NoLink /\ acks[c] = 0 /\ resets[c] = 0
  /\ joins[c] = 0 => ~link[c].joined /\ refused[c] = 0
  /\ \A i \in link[c].waiting : i <= link[c].arrived
  /\ link[c].due => link[c].arrived = 1 /\ link[c].waiting = {}
  /\ ~link[c].due => link[c].arrived <= Len(log)
  /\ acks[c] + resets[c] <= 1
  /\ Underway(c) # {} => Underway(c) = {Len(log)} /\ acks[c] = 0 /\ resets[c] = 0
  /\ Underway(c) # {} \/ acks[c] > 0 \/ resets[c] > 0 => timeout > 0 /\ thread = "idle"
  /\ refused[c] <= 1
  /\ refused[c] = 1 /\ link[c].joined =>
       /\ expected[c] = 0
       /\ IF Underway(c) # {} THEN log[Len(log)].counter = 0 ELSE resets[c] > 0 \/ counter = 0

AloneInv == network.prompt /\ Alone => \A c \in Clients : Served(c)
=============================================================================
