------------------------------ MODULE Elements ------------------------------
(***************************************************************************)
(* One element of a gauge: what a needle, an icon, a static image or a     *)
(* string shows on the host is sent and shown on a client (the files       *)
(* iconelement.cpp, needleelement.cpp, staticelement.cpp and               *)
(* stringelement.cpp).  On the host the simulator thread compares and      *)
(* sends, and the thread that got a full state request sends what was      *)
(* noted last, inside the critical section of the protocol.  On the        *)
(* client the network thread stores what arrives and the simulator thread  *)
(* shows it.                                                               *)
(*                                                                         *)
(* A datum is the number of the change that made it.  The packets of an    *)
(* element go on a sequenced stream of its own: some are skipped, the      *)
(* newest is not.  The session is under way and the channel has its number *)
(* (ChannelProtocol is about how it gets one).  Two assignments in a row   *)
(* to a value and its flags are one step.                                  *)
(***************************************************************************)
EXTENDS Naturals, Sequences

CONSTANTS
  MaxEdits,    (* bound: changes of the data in the simulator of the host    *)
  MaxAsks,     (* bound: full state requests                                 *)
  MaxAttaches  (* bound: times a panel is loaded anew                        *)

ASSUME ElementsAssumption == MaxEdits \in Nat /\ MaxAsks \in Nat /\ MaxAttaches \in Nat

Kinds == {"needle", "icon", "static", "string"}

\* What an element of a kind sends; the value is what its callback returns.
Parts(k) ==
  CASE k = "needle" -> {"value"}
    [] k = "icon"   -> {"value", "flags"}
    [] k = "static" -> {"flags"}
    [] k = "string" -> {"text"}

AllParts == {"value", "flags", "text"}

VARIABLES
  kind,        (* the kind of the element                                    *)
  actual,      (* host: the data in the simulator                            *)
  noted,       (* host: oldValue, oldFlags, value                            *)
  simSend,     (* host: the simulator thread in callback and sendState       *)
  fullSend,    (* host: the thread that handles a full state request         *)
  packet,      (* host: per thread, the packet it is about to send           *)
  protocolLock,(* host: who holds ChannelProtocol::critSect                  *)
  elementLock, (* host: who holds StringElement::cs                          *)
  channel,     (* packets on the way to the client                           *)
  held,        (* client: oldValue, oldFlags, value                          *)
  storing,     (* client: receive has stored and not marked yet              *)
  changed,     (* client: changed                                            *)
  showing,     (* client: the simulator thread in callback                   *)
  applied,     (* client: image_flags, and the buffer of a string            *)
  screen,      (* client: the data at the last redraw                        *)
  asks,        (* full state requests so far                                 *)
  attaches,    (* panels loaded so far                                       *)
  detuned,     (* history: a panel was loaded since the last packet was made *)
  between,     (* history: a packet came after the callback applied the data *)
  missed       (* history: so did one before the last redraw                 *)

hostData   == <<actual, noted>>
hostCode   == <<simSend, fullSend, packet, protocolLock, elementLock>>
clientData == <<held, storing, changed>>
clientCode == <<showing, applied, screen, between, missed>>
counters   == <<asks, attaches>>
elementVars == <<kind, hostData, hostCode, channel, clientData, clientCode, counters, detuned>>

Zero == [p \in AllParts |-> 0]

ElementsInit ==
  /\ kind \in Kinds
  /\ actual = Zero /\ noted = Zero
  /\ simSend = "idle" /\ fullSend = "idle"
  /\ packet = [t \in {"sim", "full"} |-> Zero]
  /\ protocolLock = "free" /\ elementLock = "free"
  /\ channel = <<>>
  /\ held = Zero /\ storing = FALSE /\ changed = FALSE
  /\ showing = "idle" /\ applied = Zero /\ screen = Zero
  /\ between = FALSE /\ missed = FALSE
  /\ asks = 0 /\ attaches = 0
  /\ detuned = FALSE

\* Parts that are shown before changed is tested
Early == {"flags", "text"}
Late  == {"value"}

-----------------------------------------------------------------------------
(* The host *)

Edit(p) ==
  /\ p \in Parts(kind)
  /\ actual["value"] + actual["flags"] + actual["text"] < MaxEdits
  /\ actual' = [actual EXCEPT ![p] = @ + 1]
  /\ UNCHANGED <<kind, noted, hostCode, channel, clientData, clientCode, counters, detuned>>

\* A string holds its lock from here to the end of the callback.
SimEnters ==
  /\ kind = "string" /\ simSend = "idle" /\ elementLock = "free"
  /\ simSend' = "compare"
  /\ elementLock' = "sim"
  /\ UNCHANGED <<kind, hostData, fullSend, packet, protocolLock, channel, clientData, clientCode,
                 counters, detuned>>

\* callback: what has changed is noted and put into a packet.
SimCompares ==
  /\ simSend = IF kind = "string" THEN "compare" ELSE "idle"
  /\ IF actual # noted
     THEN /\ noted' = actual
          /\ packet' = [packet EXCEPT !["sim"] = actual]
          /\ simSend' = "lookup"
          /\ detuned' = FALSE
          /\ UNCHANGED elementLock
     ELSE /\ kind = "string"
          /\ simSend' = "idle" /\ elementLock' = "free"
          /\ UNCHANGED <<noted, packet, detuned>>
  /\ UNCHANGED <<kind, actual, fullSend, protocolLock, channel, clientData, clientCode, counters>>

\* sendChannelPacket looks up the number of the channel inside the critical section,
\* and sends after it.
SimLooksUp ==
  /\ simSend = "lookup" /\ protocolLock = "free"
  /\ simSend' = "send"
  /\ UNCHANGED <<kind, hostData, fullSend, packet, protocolLock, elementLock, channel, clientData,
                 clientCode, counters, detuned>>

SimSends ==
  /\ simSend = "send"
  /\ channel' = Append(channel, packet["sim"])
  /\ simSend' = "idle"
  /\ elementLock' = "free"
  /\ UNCHANGED <<kind, hostData, fullSend, packet, protocolLock, clientData, clientCode, counters,
                 detuned>>

\* Mutant of FullEnters: a full state is handled without the critical section.
FullEnters_NoLock ==
  /\ fullSend = "idle" /\ asks < MaxAsks
  /\ fullSend' = "make"
  /\ asks' = asks + 1
  /\ UNCHANGED <<kind, hostData, simSend, packet, protocolLock, elementLock, channel, clientData,
                 clientCode, attaches, detuned>>

\* handleFullState
FullEnters ==
  /\ fullSend = "idle" /\ asks < MaxAsks /\ protocolLock = "free"
  /\ fullSend' = "make"
  /\ protocolLock' = "full"
  /\ asks' = asks + 1
  /\ UNCHANGED <<kind, hostData, simSend, packet, elementLock, channel, clientData, clientCode,
                 attaches, detuned>>

\* sendState
FullMakes ==
  /\ fullSend = "make"
  /\ kind = "string" => elementLock = "free"
  /\ elementLock' = IF kind = "string" THEN "full" ELSE elementLock
  /\ packet' = [packet EXCEPT !["full"] = noted]
  /\ fullSend' = "send"
  /\ detuned' = FALSE
  /\ UNCHANGED <<kind, hostData, simSend, protocolLock, channel, clientData, clientCode, counters>>

\* Mutant of FullSends: the string keeps its lock.
FullSends_KeepsLock ==
  /\ fullSend = "send"
  /\ channel' = Append(channel, packet["full"])
  /\ fullSend' = "leave"
  /\ UNCHANGED <<kind, hostData, simSend, packet, protocolLock, elementLock, clientData, clientCode,
                 counters, detuned>>

FullSends ==
  /\ fullSend = "send"
  /\ channel' = Append(channel, packet["full"])
  /\ fullSend' = "leave"
  /\ elementLock' = IF kind = "string" THEN "free" ELSE elementLock
  /\ UNCHANGED <<kind, hostData, simSend, packet, protocolLock, clientData, clientCode, counters,
                 detuned>>

FullLeaves ==
  /\ fullSend = "leave"
  /\ fullSend' = "idle"
  /\ protocolLock' = "free"
  /\ UNCHANGED <<kind, hostData, simSend, packet, elementLock, channel, clientData, clientCode,
                 counters, detuned>>

\* attach notes the flags of the new panel and sends nothing.
HostAttaches ==
  /\ "flags" \in Parts(kind) /\ simSend = "idle" /\ attaches < MaxAttaches
  /\ noted' = [noted EXCEPT !["flags"] = actual["flags"]]
  /\ attaches' = attaches + 1
  /\ detuned' = TRUE
  /\ UNCHANGED <<kind, actual, hostCode, channel, clientData, clientCode, asks>>

-----------------------------------------------------------------------------
(* The client *)

\* receive stores a packet; those before it are skipped.
Stores(i) ==
  /\ ~storing
  /\ held' = channel[i]
  /\ channel' = SubSeq(channel, i + 1, Len(channel))
  /\ storing' = TRUE
  /\ between' = (between \/ showing = "test")
  /\ UNCHANGED <<kind, hostData, hostCode, changed, showing, applied, screen, missed, counters,
                 detuned>>

\* A static image has no changed.
Marks ==
  /\ storing
  /\ storing' = FALSE
  /\ changed' = (kind # "static")
  /\ UNCHANGED <<kind, hostData, hostCode, channel, held, clientCode, counters, detuned>>

ClientAttaches ==
  /\ "flags" \in Parts(kind) /\ showing = "idle" /\ attaches < MaxAttaches
  /\ held' = [held EXCEPT !["flags"] = 0]
  /\ attaches' = attaches + 1
  /\ detuned' = TRUE /\ missed' = TRUE
  /\ UNCHANGED <<kind, hostData, hostCode, channel, storing, changed, showing, applied, screen,
                 between, asks>>

Applies ==
  /\ showing = "idle"
  /\ applied' = [p \in AllParts |-> IF p \in Early THEN held[p] ELSE applied[p]]
  /\ showing' = IF kind = "static" THEN "idle" ELSE "test"
  /\ between' = FALSE
  /\ UNCHANGED <<kind, hostData, hostCode, channel, clientData, screen, missed, counters, detuned>>

Tests ==
  /\ showing = "test"
  /\ showing' = IF changed THEN "redraw" ELSE "idle"
  /\ changed' = FALSE
  /\ missed' = IF changed THEN between ELSE missed
  /\ UNCHANGED <<kind, hostData, hostCode, channel, held, storing, applied, screen, between,
                 counters, detuned>>

\* Mutant of Redraws: changed is cleared at the end.
Redraws_ClearsLate ==
  /\ showing = "redraw"
  /\ screen' = [p \in AllParts |-> IF p \in Early THEN applied[p] ELSE held[p]]
  /\ showing' = "idle"
  /\ changed' = FALSE
  /\ UNCHANGED <<kind, hostData, hostCode, channel, held, storing, applied, between, missed,
                 counters, detuned>>

\* SET_OFF_SCREEN, and the value is returned.
Redraws ==
  /\ showing = "redraw"
  /\ screen' = [p \in AllParts |-> IF p \in Early THEN applied[p] ELSE held[p]]
  /\ showing' = "idle"
  /\ UNCHANGED <<kind, hostData, hostCode, channel, clientData, applied, between, missed, counters,
                 detuned>>

ElementsNext ==
  \/ \E p \in AllParts : Edit(p)
  \/ SimEnters \/ SimCompares \/ SimLooksUp \/ SimSends
  \/ FullEnters \/ FullMakes \/ FullSends \/ FullLeaves
  \/ HostAttaches \/ ClientAttaches
  \/ \E i \in 1 .. Len(channel) : Stores(i)
  \/ Marks \/ Applies \/ Tests \/ Redraws

ElementsSpec == ElementsInit /\ [][ElementsNext]_elementVars

\* The threads run, a lock that is free is got, and the newest packet of a sequenced
\* stream arrives (NewestHeld of ReliabilityLayer).  Nothing is assumed of who changes
\* data, asks for a full state or loads a panel.
ElementsFairness ==
  /\ WF_elementVars(SimEnters) /\ WF_elementVars(SimCompares)
  /\ WF_elementVars(SimLooksUp) /\ WF_elementVars(SimSends)
  /\ WF_elementVars(FullMakes) /\ WF_elementVars(FullSends) /\ WF_elementVars(FullLeaves)
  /\ WF_elementVars(\E i \in 1 .. Len(channel) : Stores(i)) /\ WF_elementVars(Marks)
  /\ WF_elementVars(Applies) /\ WF_elementVars(Tests) /\ WF_elementVars(Redraws)

-----------------------------------------------------------------------------
(* Properties *)

\* When nothing is under way the client holds what the host noted last.  An older value
\* does not overtake a newer one although two threads send without a common lock of the
\* element: a full state is made and sent inside the critical section of the protocol,
\* which the other thread passes between noting and sending.  Only a panel that is loaded
\* anew makes them differ, until the next packet.
Settled ==
  /\ simSend \in {"idle", "compare"} /\ fullSend # "send"
  /\ channel = <<>>
  /\ ~detuned
  => \A p \in Parts(kind) : held[p] = noted[p]

\* No redraw is forgotten: between callbacks, with nothing marked, the screen shows the
\* value the client holds.  Of flags and texts, which a callback takes before it tests
\* changed, that is so unless a packet came in between.
Redrawn ==
  /\ kind # "static"
  /\ showing = "idle" /\ ~changed /\ ~storing
  => \A p \in Parts(kind) : screen[p] = held[p] \/ (p \in Early /\ missed)

\* A string waits for the protocol with its lock held, and a full state for the string
\* with the protocol's lock held.
Stuck ==
  /\ simSend = "lookup" /\ elementLock = "sim"
  /\ fullSend = "make" /\ protocolLock = "full"

\* Once the data of the host rest the client gets them, and its screen the values, unless
\* the two threads of the host wait for each other or a panel is loaded.
ChangeArrives ==
  []<>(\/ \A p \in Parts(kind) : held[p] = actual[p] /\ (p \in Late => screen[p] = actual[p])
       \/ Stuck
       \/ detuned)

\* The inductive invariant behind both.  Newest is what the client holds once the stream
\* has run dry.
Datum == [AllParts -> Nat]
Newest == IF channel = <<>> THEN held ELSE channel[Len(channel)]

ElementsType ==
  /\ kind \in Kinds
  /\ actual \in Datum /\ noted \in Datum
  /\ simSend \in {"idle", "compare", "lookup", "send"}
  /\ fullSend \in {"idle", "make", "send", "leave"}
  /\ packet \in [{"sim", "full"} -> Datum]
  /\ protocolLock = IF fullSend = "idle" THEN "free" ELSE "full"
  /\ channel \in Seq(Datum)
  /\ held \in Datum
  /\ showing \in {"idle", "test", "redraw"}
  /\ applied \in Datum /\ screen \in Datum

SentInOrder ==
  /\ simSend \in {"lookup", "send"} => packet["sim"] = noted
  /\ fullSend = "send" /\ simSend # "lookup" /\ ~detuned => packet["full"] = noted
  /\ fullSend # "send" /\ simSend \in {"idle", "compare"} /\ ~detuned => Newest = noted

ShownInTime ==
  \A p \in AllParts :
    /\ p \in Late /\ showing # "redraw" /\ ~changed /\ ~storing => screen[p] = held[p]
    /\ p \in Early =>
         /\ showing = "test" /\ ~between => applied[p] = held[p]
         /\ showing = "redraw" /\ ~missed /\ ~changed /\ ~storing => applied[p] = held[p]
         /\ showing # "redraw" /\ ~missed /\ ~changed /\ ~storing => screen[p] = held[p]

ElementsInv == ElementsType /\ SentInOrder /\ (kind # "static" => ShownInTime)
=============================================================================
