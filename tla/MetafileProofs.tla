--------------------------- MODULE MetafileProofs ---------------------------
(***************************************************************************)
(* Proofs about the metafile channel, for any number of clients, frames    *)
(* and sessions: a reference is never missing, whatever the network does,  *)
(* and clients that read the packets of one stay in order never decompress *)
(* against a wrong one.                                                    *)
(***************************************************************************)
EXTENDS Metafile, SequenceTheorems, TLAPS

-----------------------------------------------------------------------------
(* Operators *)

\* Counting wraps within the counters.
LEMMA AfterType == \A n \in Nat : After(n) \in Counters
BY MetafileAssumption, SMT DEF After, Counters

LEMMA CountersAreNat == Counters \subseteq Nat /\ 0 \in Counters
BY MetafileAssumption, SMT DEF Counters

\* The packets of a sequence, and the sequence with one more.
LEMMA AppendFacts ==
  ASSUME NEW S, NEW s \in Seq(S), NEW e \in S
  PROVE  /\ Append(s, e) \in Seq(S)
         /\ Len(Append(s, e)) = Len(s) + 1
         /\ Append(s, e)[Len(s) + 1] = e
         /\ \A i \in 1 .. Len(s) : Append(s, e)[i] = s[i]
OBVIOUS

LEMMA ConstantTypes ==
  /\ NoDelta \in Delta
  /\ NoLink \in Link
  /\ NoDisplay \in Display
  /\ NoFrame \in Nat /\ NoFrame \in Recordings /\ NoFrame # Corrupt
  /\ Corrupt \in Recordings
  /\ Nat \subseteq Recordings
BY MetafileAssumption, CountersAreNat
DEF NoDelta, Delta, NoLink, Link, NoDisplay, Display, NoFrame, Recordings

-----------------------------------------------------------------------------
(* Types *)

\* What the decompressor does with a packet keeps the types.
LEMMA DecodeType ==
  ASSUME TypeOK, NEW c \in Clients, NEW m \in Delta, Decode(c, m)
  PROVE  /\ acks' \in [Clients -> Nat]
         /\ resets' \in [Clients -> Nat]
         /\ expected' \in [Clients -> Counters]
         /\ held' \in [Clients -> Recordings]
         /\ refused' \in [Clients -> Nat]
<1>1. m.frame \in Recordings
  BY ConstantTypes DEF Delta
<1>2. CASE Refuse(c, m)
  BY <1>2, CountersAreNat DEF Refuse, TypeOK
<1>3. CASE Accept(c, m)
  <2>1. After(expected[c]) \in Counters
    BY AfterType, CountersAreNat DEF TypeOK
  <2>2. acks' \in [Clients -> Nat] /\ resets' \in [Clients -> Nat] /\ refused' \in [Clients -> Nat]
    BY <1>3 DEF Accept, TypeOK
  <2>3. CASE UNCHANGED <<expected, held>>
    BY <2>2, <2>3 DEF TypeOK
  <2>4. CASE /\ expected' = [expected EXCEPT ![c] = After(@)]
             /\ held' = [held EXCEPT ![c] = IF Reference(c) = m.ref THEN m.frame ELSE Corrupt]
    BY <2>1, <2>2, <2>4, <1>1, ConstantTypes DEF TypeOK
  <2> QED
    BY <1>3, <2>3, <2>4 DEF Accept
<1> QED
  BY <1>2, <1>3 DEF Decode

LEMMA TypeInit == Init => TypeOK
BY ConstantTypes, CountersAreNat, MetafileAssumption, SMT DEF Init, TypeOK, NoFrame

\* A change of one client's link keeps the types of all.
LEMMA LinkUpdate ==
  ASSUME link \in [Clients -> Link], NEW c \in Clients, NEW new \in Link
  PROVE  [link EXCEPT ![c] = new] \in [Clients -> Link]
OBVIOUS

LEMMA DisplayUpdate ==
  ASSUME display \in [Clients -> Display], NEW c \in Clients, NEW new \in Display
  PROVE  [display EXCEPT ![c] = new] \in [Clients -> Display]
OBVIOUS

\* Each step keeps the types, one action after the other.
LEMMA TypeStep == TypeOK /\ PresenceInv /\ [Next]_vars => TypeOK'
<1> SUFFICES ASSUME TypeOK, PresenceInv, [Next]_vars, UNCHANGED network
             PROVE  TypeOK'
  BY DEF Next, vars
<1> USE DEF TypeOK
<1>1. ASSUME Draw PROVE TypeOK'
  BY <1>1 DEF Draw, answers, decoders
<1>2. ASSUME Wait PROVE TypeOK'
  BY <1>2, MetafileAssumption DEF Wait, answers, decoders
<1>3. ASSUME Take PROVE TypeOK'
  <2>1. job' \in Delta
    BY <1>3 DEF Take, Delta, NoFrame
  <2> QED
    BY <1>3, <2>1 DEF Take, answers, decoders
<1>4. ASSUME NEW ok \in BOOLEAN, Finish(ok) PROVE TypeOK'
  <2>1. After(counter) \in Counters /\ Append(log, job) \in Seq(Delta) /\ job.frame \in Nat
    BY AfterType, CountersAreNat, AppendFacts DEF Delta
  <2>2. Throttle \in 0 .. Throttle
    BY MetafileAssumption
  <2> QED
    BY <1>4, <2>1, <2>2, ConstantTypes DEF Finish, answers, decoders
<1>5. ASSUME NEW c \in Clients, HostReset(c) PROVE TypeOK'
  <2>1. resets' \in [Clients -> Nat]
    BY <1>5 DEF HostReset
  <2> QED
    BY <1>5, <2>1, CountersAreNat DEF HostReset, decoders
<1>6. ASSUME NEW c \in Clients, HostAck(c) PROVE TypeOK'
  <2>1. acks' \in [Clients -> Nat]
    BY <1>6 DEF HostAck
  <2> QED
    BY <1>6, <2>1, MetafileAssumption DEF HostAck, decoders
<1>7. ASSUME NEW c \in Clients, ReceiveNamed(c) PROVE TypeOK'
  <2>1. [link[c] EXCEPT !.due = FALSE, !.known = TRUE] \in Link
    BY DEF Link
  <2>2. link' \in [Clients -> Link]
    BY <1>7, <2>1, LinkUpdate DEF ReceiveNamed
  <2>3. log[1] \in Delta /\ Decode(c, log[1])
    BY <1>7 DEF ReceiveNamed
  <2> QED
    BY <1>7, <2>2, <2>3, DecodeType DEF ReceiveNamed, compressor
<1>8. ASSUME NEW c \in Clients, ReceiveNumbered(c) PROVE TypeOK'
  <2> DEFINE i == link[c].arrived + 1
  <2>1. i \in 1 .. Len(log) /\ i \in Nat \ {0} /\ log[i] \in Delta
    BY <1>8 DEF ReceiveNumbered, Link
  <2>2. /\ [link[c] EXCEPT !.arrived = i] \in Link
        /\ [link[c] EXCEPT !.arrived = i, !.asked = TRUE,
                            !.waiting = link[c].waiting \union {i}] \in Link
    BY <2>1 DEF Link
  <2>3. CASE link[c].known
    <3>1. Decode(c, log[i]) /\ link' = [link EXCEPT ![c] = [@ EXCEPT !.arrived = i]]
      BY <1>8, <2>3 DEF ReceiveNumbered
    <3> HIDE DEF i
    <3>2. link' \in [Clients -> Link]
      BY <2>2, <3>1, LinkUpdate
    <3> QED
      BY <1>8, <2>1, <3>1, <3>2, DecodeType DEF ReceiveNumbered, compressor
  <2>4. CASE ~link[c].known
    <3>1. link' = [link EXCEPT ![c] = [@ EXCEPT !.arrived = i, !.asked = TRUE,
                                                !.waiting = link[c].waiting \union {i}]]
      BY <1>8, <2>4 DEF ReceiveNumbered
    <3> HIDE DEF i
    <3>2. link' \in [Clients -> Link]
      BY <2>2, <3>1, LinkUpdate
    <3> QED
      BY <1>8, <2>4, <3>2 DEF ReceiveNumbered, compressor, answers, decoders
  <2> QED
    BY <2>3, <2>4
<1>9. ASSUME NEW c \in Clients, ReceiveAnswer(c) PROVE TypeOK'
  <2>1. [link[c] EXCEPT !.asked = FALSE, !.known = TRUE, !.flushing = TRUE] \in Link
    BY DEF Link
  <2>2. link' \in [Clients -> Link]
    BY <1>9, <2>1, LinkUpdate DEF ReceiveAnswer
  <2> QED
    BY <1>9, <2>2 DEF ReceiveAnswer, compressor, answers, decoders
<1>10. ASSUME NEW c \in Clients, Flush(c) PROVE TypeOK'
  <2>1. PICK i \in link[c].waiting :
           /\ link' = [link EXCEPT ![c] = [@ EXCEPT !.waiting = link[c].waiting \ {i},
                                                    !.flushing = link[c].waiting # {i}]]
           /\ Decode(c, log[i])
    BY <1>10 DEF Flush
  <2>2. [link[c] EXCEPT !.waiting = link[c].waiting \ {i},
                        !.flushing = link[c].waiting # {i}] \in Link
    BY DEF Link
  <2>3. link' \in [Clients -> Link]
    BY <2>1, <2>2, LinkUpdate
  <2>4. log[i] \in Delta
    BY DEF PresenceInv
  <2> QED
    BY <1>10, <2>1, <2>3, <2>4, DecodeType DEF Flush, compressor
<1>11. ASSUME NEW c \in Clients, DisplayRead(c) PROVE TypeOK'
  <2>1. [display[c] EXCEPT !.reading = TRUE, !.seen = held[c]] \in Display
    BY DEF Display
  <2>2. display' \in [Clients -> Display]
    BY <1>11, <2>1, DisplayUpdate DEF DisplayRead
  <2> QED
    BY <1>11, <2>2 DEF DisplayRead, compressor, answers, decoders
<1>12. ASSUME NEW c \in Clients, DisplayDraw(c) PROVE TypeOK'
  <2>1. expected[c] \in 0 .. Modulus
    BY MetafileAssumption DEF Counters
  <2>2. /\ [display[c] EXCEPT !.reading = FALSE, !.shown = display[c].seen,
                               !.recorded = expected[c]] \in Display
        /\ [display[c] EXCEPT !.reading = FALSE] \in Display
    BY <2>1 DEF Display
  <2>3. display' \in [Clients -> Display]
    BY <1>12, <2>2, DisplayUpdate DEF DisplayDraw
  <2> QED
    BY <1>12, <2>3 DEF DisplayDraw, compressor, answers, decoders
<1>13. ASSUME NEW c \in Clients, Join(c) PROVE TypeOK'
  <2>1. [NoLink EXCEPT !.joined = TRUE, !.due = log = <<>>,
                       !.arrived = IF log = <<>> THEN 1 ELSE Len(log)] \in Link
    <3>1. (IF log = <<>> THEN 1 ELSE Len(log)) \in Nat /\ (log = <<>>) \in BOOLEAN
      OBVIOUS
    <3> QED
      BY <3>1 DEF Link, NoLink
  <2>2. link' \in [Clients -> Link]
    BY <1>13, <2>1, LinkUpdate DEF Join
  <2>3. joins' \in [Clients -> Nat] /\ refused' \in [Clients -> Nat]
    BY <1>13 DEF Join
  <2> QED
    BY <1>13, <2>2, <2>3 DEF Join, compressor, answers
<1>14. ASSUME NEW c \in Clients, Leave(c) PROVE TypeOK'
  <2>1. link' \in [Clients -> Link]
    BY <1>14, ConstantTypes, LinkUpdate DEF Leave
  <2> QED
    BY <1>14, <2>1 DEF Leave, compressor, decoders
<1>15. ASSUME NEW fresh \in BOOLEAN, Restart(fresh) PROVE TypeOK'
  BY <1>15, ConstantTypes, CountersAreNat, MetafileAssumption DEF Restart, compressor, decoders
<1>16. CASE UNCHANGED vars
  BY <1>16 DEF vars
<1> QED
  BY <1>1, <1>2, <1>3, <1>4, <1>5, <1>6, <1>7, <1>8, <1>9, <1>10, <1>11, <1>12, <1>13, <1>14,
     <1>15, <1>16 DEF Next

-----------------------------------------------------------------------------
(* References are present *)

\* The decompressor never ends up expecting a difference with nothing held.
LEMMA DecodePresence ==
  ASSUME TypeOK, PresenceInv, NEW c \in Clients, NEW m \in Delta, m.frame # NoFrame,
         Decode(c, m)
  PROVE  \A d \in Clients : expected'[d] # 0 => held'[d] # NoFrame
<1>1. CASE Refuse(c, m)
  BY <1>1 DEF Refuse, TypeOK, PresenceInv
<1>2. CASE Accept(c, m)
  <2>1. CASE UNCHANGED <<expected, held>>
    BY <2>1 DEF PresenceInv
  <2>2. CASE /\ expected' = [expected EXCEPT ![c] = After(@)]
             /\ held' = [held EXCEPT ![c] = IF Reference(c) = m.ref THEN m.frame ELSE Corrupt]
    <3>1. held'[c] # NoFrame
      BY <2>2, ConstantTypes DEF TypeOK
    <3> QED
      BY <2>2, <3>1 DEF TypeOK, PresenceInv
  <2> QED
    BY <1>2, <2>1, <2>2 DEF Accept
<1> QED
  BY <1>1, <1>2 DEF Decode

LEMMA PresenceInit == Init => PresenceInv
BY DEF Init, PresenceInv, NoLink

LEMMA PresenceStep == TypeOK /\ PresenceInv /\ [Next]_vars => PresenceInv'
<1> SUFFICES ASSUME TypeOK, PresenceInv, [Next]_vars
             PROVE  PresenceInv'
  OBVIOUS
<1> USE DEF PresenceInv
<1>1. ASSUME Draw PROVE PresenceInv'
  BY <1>1 DEF Draw, decoders
<1>2. ASSUME Wait PROVE PresenceInv'
  BY <1>2 DEF Wait, decoders
<1>3. ASSUME Take PROVE PresenceInv'
  BY <1>3 DEF Take, decoders
<1>4. ASSUME NEW ok \in BOOLEAN, Finish(ok) PROVE PresenceInv'
  <2>1. CASE log' = log
    BY <1>4, <2>1 DEF Finish, decoders
  <2>2. CASE log' = Append(log, job) /\ previous' = job.frame
    <3>1. /\ Len(log') = Len(log) + 1 /\ Len(log) \in Nat
          /\ log'[Len(log) + 1] = job
          /\ \A i \in 1 .. Len(log) : log'[i] = log[i]
      BY <2>2, AppendFacts DEF TypeOK
    <3>2. \A i \in 1 .. Len(log') : log'[i].frame # NoFrame
      BY <3>1, <1>4 DEF Finish
    <3> QED
      BY <1>4, <2>2, <3>1, <3>2 DEF Finish, decoders
  <2> QED
    BY <1>4, <2>1, <2>2 DEF Finish
<1>5. ASSUME NEW c \in Clients, HostReset(c) PROVE PresenceInv'
  BY <1>5 DEF HostReset, decoders
<1>6. ASSUME NEW c \in Clients, HostAck(c) PROVE PresenceInv'
  BY <1>6 DEF HostAck, decoders
<1>7. ASSUME NEW c \in Clients, ReceiveNamed(c) PROVE PresenceInv'
  <2>0. 1 \in 1 .. Len(log)
    BY <1>7 DEF ReceiveNamed, TypeOK
  <2>1. log[1] \in Delta /\ Decode(c, log[1]) /\ log[1].frame # NoFrame
    BY <1>7, <2>0 DEF ReceiveNamed, TypeOK
  <2>2. \A d \in Clients : link'[d].waiting = link[d].waiting
    BY <1>7 DEF ReceiveNamed, TypeOK, Link
  <2> QED
    BY <1>7, <2>1, <2>2, DecodePresence DEF ReceiveNamed, compressor
<1>8. ASSUME NEW c \in Clients, ReceiveNumbered(c) PROVE PresenceInv'
  <2> DEFINE i == link[c].arrived + 1
  <2>1. i \in 1 .. Len(log) /\ log[i] \in Delta /\ log[i].frame # NoFrame
    BY <1>8 DEF ReceiveNumbered, TypeOK, Link
  <2>2. \A d \in Clients : link'[d].waiting \subseteq link[d].waiting \union {i}
    <3>1. \/ link' = [link EXCEPT ![c] = [@ EXCEPT !.arrived = i]]
          \/ link' = [link EXCEPT ![c] = [@ EXCEPT !.arrived = i, !.asked = TRUE,
                                                   !.waiting = link[c].waiting \union {i}]]
      BY <1>8 DEF ReceiveNumbered
    <3> HIDE DEF i
    <3>2. /\ [link[c] EXCEPT !.arrived = i].waiting = link[c].waiting
          /\ [link[c] EXCEPT !.arrived = i, !.asked = TRUE,
                             !.waiting = link[c].waiting \union {i}].waiting
             = link[c].waiting \union {i}
      BY DEF TypeOK, Link
    <3>3. \A d \in Clients \ {c} : link'[d] = link[d]
      BY <3>1 DEF TypeOK
    <3>4. link'[c].waiting \in {link[c].waiting, link[c].waiting \union {i}}
      BY <3>1, <3>2 DEF TypeOK
    <3> QED
      BY <3>3, <3>4
  <2>3. \A d \in Clients : expected'[d] # 0 => held'[d] # NoFrame
    BY <1>8, <2>1, DecodePresence DEF ReceiveNumbered, decoders
  <2> QED
    BY <1>8, <2>1, <2>2, <2>3 DEF ReceiveNumbered, compressor
<1>9. ASSUME NEW c \in Clients, ReceiveAnswer(c) PROVE PresenceInv'
  <2>1. \A d \in Clients : link'[d].waiting = link[d].waiting
    BY <1>9 DEF ReceiveAnswer, TypeOK, Link
  <2> QED
    BY <1>9, <2>1 DEF ReceiveAnswer, compressor, decoders
<1>10. ASSUME NEW c \in Clients, Flush(c) PROVE PresenceInv'
  <2>1. PICK i \in link[c].waiting :
           /\ link' = [link EXCEPT ![c] = [@ EXCEPT !.waiting = link[c].waiting \ {i},
                                                    !.flushing = link[c].waiting # {i}]]
           /\ Decode(c, log[i])
    BY <1>10 DEF Flush
  <2>2. log[i] \in Delta /\ log[i].frame # NoFrame
    BY DEF TypeOK
  <2>3. \A d \in Clients : link'[d].waiting \subseteq link[d].waiting
    BY <2>1 DEF TypeOK, Link
  <2> QED
    BY <1>10, <2>1, <2>2, <2>3, DecodePresence DEF Flush, compressor
<1>11. ASSUME NEW c \in Clients, DisplayRead(c) PROVE PresenceInv'
  BY <1>11 DEF DisplayRead, compressor, decoders
<1>12. ASSUME NEW c \in Clients, DisplayDraw(c) PROVE PresenceInv'
  BY <1>12 DEF DisplayDraw, compressor, decoders
<1>13. ASSUME NEW c \in Clients, Join(c) PROVE PresenceInv'
  <2>1. \A d \in Clients : link'[d].waiting \subseteq link[d].waiting
    BY <1>13 DEF Join, TypeOK, Link, NoLink
  <2> QED
    BY <1>13, <2>1 DEF Join, compressor
<1>14. ASSUME NEW c \in Clients, Leave(c) PROVE PresenceInv'
  <2>1. \A d \in Clients : link'[d].waiting \subseteq link[d].waiting
    BY <1>14 DEF Leave, TypeOK, Link, NoLink
  <2> QED
    BY <1>14, <2>1 DEF Leave, compressor, decoders
<1>15. ASSUME NEW fresh \in BOOLEAN, Restart(fresh) PROVE PresenceInv'
  <2>1. log' = <<>> /\ \A d \in Clients : link'[d].waiting = {}
    BY <1>15 DEF Restart, NoLink
  <2> QED
    BY <1>15, <2>1 DEF Restart, compressor, decoders
<1>16. CASE UNCHANGED vars
  BY <1>16 DEF vars
<1> QED
  BY <1>1, <1>2, <1>3, <1>4, <1>5, <1>6, <1>7, <1>8, <1>9, <1>10, <1>11, <1>12, <1>13, <1>14,
     <1>15, <1>16 DEF Next

THEOREM Presence == Spec => [](TypeOK /\ PresenceInv)
<1>1. Init => TypeOK /\ PresenceInv
  BY TypeInit, PresenceInit
<1>2. TypeOK /\ PresenceInv /\ [Next]_vars => TypeOK' /\ PresenceInv'
  BY TypeStep, PresenceStep
<1> QED
  BY <1>1, <1>2, PTL DEF Spec

\* Every state of the metafile channel has the declared types, whatever the
\* network delivers and whoever joins or leaves.
THEOREM TypeCorrect == Spec => []TypeOK
BY Presence, PTL

\* The compressing thread never meets the missing reference of metafile.cpp:300 and
\* never ends itself, and the decompressor never applies a difference to the null
\* pointer, whatever order the packets come in.
THEOREM ReferenceAlwaysPresent == Spec => []ReferencePresent
<1>1. PresenceInv => ReferencePresent
  BY DEF PresenceInv, ReferencePresent
<1> QED
  BY Presence, <1>1, PTL

-----------------------------------------------------------------------------
(* References agree, for clients that read the packets in order *)

\* A client none of whose state changes stays in the stream as long as the host
\* neither sends nor starts afresh.
LEMMA OthersInStream ==
  ASSUME NEW d, InStream(d), UNCHANGED <<log, counter, previous>>,
         link'[d] = link[d], expected'[d] = expected[d], held'[d] = held[d],
         joins'[d] = joins[d], display'[d] = display[d]
  PROVE  InStream(d)'
BY DEF InStream, AtPosition, Continues, NextCounter, NextRef

\* A client that decompresses the next packet moves on in the stream.
LEMMA DecodeContinues ==
  ASSUME TypeOK, LogInv, HostInv, NEW c \in Clients, NEW p \in 0 .. Len(log), p < Len(log),
         held[c] # Corrupt, Continues(c, p), Decode(c, log[p + 1]),
         UNCHANGED <<log, counter, previous>>
  PROVE  /\ held'[c] # Corrupt
         /\ Continues(c, p + 1)'
 <1> DEFINE m == log[p + 1]
<1>1. p \in Nat /\ p + 1 \in 1 .. Len(log) /\ m \in Delta /\ Len(log) \in Nat
  BY DEF TypeOK
<1>2. CASE Refuse(c, m)
  BY <1>2 DEF Refuse, TypeOK, Continues
<1>3. CASE Accept(c, m)
  <2>1. Reference(c) = m.ref
    <3>1. CASE expected[c] = 0
      BY <1>1, <1>3, <3>1 DEF Accept, Reference, LogInv
    <3>2. CASE expected[c] # 0
      BY <1>1, <1>3, <3>2 DEF Accept, Reference, Continues, NextCounter, NextRef
    <3> QED
      BY <3>1, <3>2
  <2>2. /\ expected' = [expected EXCEPT ![c] = After(@)]
        /\ held' = [held EXCEPT ![c] = m.frame]
    BY <1>3, <2>1 DEF Accept
  <2>3. expected'[c] = After(m.counter) /\ held'[c] = m.frame
    BY <1>3, <2>2 DEF Accept, TypeOK
  <2>4. m.frame # Corrupt
    BY <1>1, MetafileAssumption DEF Delta
  <2>5. CASE p + 1 < Len(log)
    <3>1. p + 2 \in 1 .. Len(log) /\ p + 2 = (p + 1) + 1
      BY <1>1, <2>5
    <3>2. log[p + 2].counter # 0 => log[p + 2].ref = m.frame
      BY <1>1, <3>1 DEF LogInv
    <3> QED
      BY <2>2, <2>3, <2>4, <2>5, <3>1, <3>2 DEF TypeOK, Continues, NextCounter, NextRef
  <2>6. CASE p + 1 = Len(log)
    <3>1. log # <<>>
      BY <1>1, <2>6
    <3>2. counter # 0 => previous = m.frame
      BY <2>6, <3>1 DEF HostInv
    <3> QED
      BY <2>2, <2>3, <2>4, <2>6, <3>2 DEF TypeOK, Continues, NextCounter, NextRef
  <2> QED
    BY <1>1, <2>5, <2>6
<1> QED
  BY <1>2, <1>3 DEF Decode

\* A client that decompresses a packet leaves the others alone.
LEMMA DecodeOthers ==
  ASSUME TypeOK, NEW d \in Clients, NEW m, Decode(d, m), NEW c \in Clients \ {d}
  PROVE  expected'[c] = expected[c] /\ held'[c] = held[c]
<1>1. CASE Refuse(d, m)
  BY <1>1 DEF Refuse, TypeOK
<1>2. CASE Accept(d, m)
  BY <1>2 DEF Accept, TypeOK
<1> QED
  BY <1>1, <1>2 DEF Decode

LEMMA StreamInit == Init => StreamInv
<1> SUFFICES ASSUME Init
             PROVE  StreamInv
  OBVIOUS
<1>1. LogInv /\ HostInv
  BY DEF Init, LogInv, HostInv
<1>2. \A c \in Clients : InStream(c)
  <2>1. ~NoLink.joined /\ NoDisplay.seen = NoFrame /\ NoDisplay.shown = NoFrame
    BY DEF NoLink, NoDisplay
  <2>2. ASSUME NEW c \in Clients
        PROVE  /\ link[c] = NoLink /\ display[c] = NoDisplay /\ joins[c] = 0
               /\ held[c] = NoFrame /\ expected[c] = 0
    BY DEF Init
  <2>3. NoFrame # Corrupt /\ 0 <= 1
    BY ConstantTypes
  <2> QED
    BY <2>1, <2>2, <2>3, Zenon DEF InStream
<1> QED
  BY <1>1, <1>2 DEF StreamInv, ClientInv

\* The packets keep continuing each other, and the host its last one.
LEMMA HostStep ==
  ASSUME TypeOK, LogInv, HostInv, [Next]_vars
  PROVE  LogInv' /\ HostInv'
<1>1. CASE UNCHANGED <<log, counter, previous, thread, job>>
  BY <1>1 DEF LogInv, HostInv
<1>2. ASSUME Take PROVE LogInv' /\ HostInv'
  BY <1>2 DEF Take, LogInv, HostInv, TypeOK, Delta
<1>3. ASSUME NEW ok \in BOOLEAN, Finish(ok) PROVE LogInv' /\ HostInv'
  <2>1. CASE UNCHANGED <<log, counter, previous>>
    BY <1>3, <2>1 DEF Finish, LogInv, HostInv
  <2>2. CASE /\ log' = Append(log, job) /\ job.counter = counter
             /\ counter' = After(counter) /\ previous' = job.frame
    <3>1. /\ Len(log') = Len(log) + 1 /\ Len(log) \in Nat
          /\ log'[Len(log) + 1] = job
          /\ \A i \in 1 .. Len(log) : log'[i] = log[i]
      BY <2>2, AppendFacts DEF TypeOK
    <3>2. job.counter = 0 => job.ref = NoFrame
      BY <1>3 DEF Finish, HostInv
    <3>3. Len(log) # 0 /\ job.counter # 0 =>
            job.counter = After(log[Len(log)].counter) /\ job.ref = log[Len(log)].frame
      BY <1>3, <2>2 DEF Finish, HostInv
    <3>4. LogInv'
      <4>1. \A i \in 1 .. Len(log') : log'[i].counter = 0 => log'[i].ref = NoFrame
        BY <3>1, <3>2 DEF LogInv
      <4>2. ASSUME NEW i \in 1 .. Len(log'), NEW j \in 1 .. Len(log'), j = i + 1,
                   log'[j].counter # 0
            PROVE  log'[j].counter = After(log'[i].counter) /\ log'[j].ref = log'[i].frame
        <5>1. CASE j \in 1 .. Len(log)
          BY <3>1, <4>2, <5>1 DEF LogInv
        <5>2. CASE j = Len(log) + 1
          BY <3>1, <3>3, <4>2, <5>2
        <5> QED
          BY <3>1, <5>1, <5>2
      <4> QED
        BY <4>1, <4>2 DEF LogInv
    <3>5. HostInv'
      BY <1>3, <2>2, <3>1 DEF Finish, HostInv
    <3> QED
      BY <3>4, <3>5
  <2> QED
    BY <1>3, <2>1, <2>2 DEF Finish
<1>4. ASSUME NEW c \in Clients, HostReset(c) PROVE LogInv' /\ HostInv'
  BY <1>4 DEF HostReset, LogInv, HostInv
<1>5. ASSUME NEW fresh \in BOOLEAN, Restart(fresh) PROVE LogInv' /\ HostInv'
  <2>1. log' = <<>> /\ (UNCHANGED compressor \/ thread' = "idle")
    BY <1>5 DEF Restart
  <2> QED
    BY <2>1 DEF LogInv, HostInv, compressor
<1> QED
  BY <1>1, <1>2, <1>3, <1>4, <1>5
  DEF Next, vars, Draw, Wait, HostAck, ReceiveNamed, ReceiveNumbered, ReceiveAnswer, Flush,
      DisplayRead, DisplayDraw, Join, Leave, compressor

\* A client never joins fewer times than it has.
LEMMA JoinsGrow ==
  ASSUME TypeOK, [Next]_vars, NEW c \in Clients
  PROVE  joins'[c] \in Nat /\ joins[c] <= joins'[c]
<1>1. ASSUME NEW d \in Clients, Join(d) PROVE joins'[c] \in Nat /\ joins[c] <= joins'[c]
  BY <1>1 DEF Join, TypeOK
<1>2. ASSUME NEW d \in Clients, HostReset(d) \/ HostAck(d) \/ ReceiveNamed(d)
             \/ ReceiveNumbered(d) \/ ReceiveAnswer(d) \/ Flush(d) \/ DisplayRead(d)
             \/ DisplayDraw(d) \/ Leave(d)
      PROVE  joins' = joins
  BY <1>2 DEF HostReset, HostAck, ReceiveNamed, ReceiveNumbered, ReceiveAnswer, Flush,
              DisplayRead, DisplayDraw, Leave
<1>3. CASE Draw \/ Wait \/ Take \/ (\E ok \in BOOLEAN : Finish(ok))
           \/ (\E fresh \in BOOLEAN : Restart(fresh)) \/ UNCHANGED vars
  <2>1. joins' = joins
    BY <1>3 DEF Draw, Wait, Take, Finish, Restart, vars
  <2> QED
    BY <2>1 DEF TypeOK
<1> QED
  BY <1>1, <1>2, <1>3 DEF Next, TypeOK

\* The clients stay in the stream, one action after the other.
LEMMA ClientStep ==
  ASSUME TypeOK, StreamInv, [Next]_vars
  PROVE  ClientInv'
<1> USE DEF StreamInv
<1> SUFFICES ASSUME ~network.overtake, NEW c \in Clients, joins'[c] <= 1
             PROVE  InStream(c)'
  BY DEF ClientInv, Next, vars
<1>a. InStream(c)
  <2>1. joins[c] <= 1
    BY JoinsGrow DEF TypeOK
  <2> QED
    BY <2>1 DEF ClientInv
<1>b. Len(log) \in Nat
  BY DEF TypeOK
<1>1. CASE /\ UNCHANGED <<log, counter, previous>> /\ link'[c] = link[c]
           /\ expected'[c] = expected[c] /\ held'[c] = held[c]
           /\ joins'[c] = joins[c] /\ display'[c] = display[c]
  BY <1>1, <1>a, OthersInStream
<1>2. ASSUME NEW ok \in BOOLEAN, Finish(ok) PROVE InStream(c)'
  <2>1. CASE UNCHANGED <<log, counter, previous>>
    BY <1>2, <1>a, <2>1, OthersInStream DEF Finish, decoders
  <2>2. CASE log' = Append(log, job) /\ job.counter = counter
    <3>1. /\ Len(log') = Len(log) + 1
          /\ log'[Len(log) + 1] = job
          /\ \A i \in 1 .. Len(log) : log'[i] = log[i]
      BY <2>2, AppendFacts DEF TypeOK
    <3>2. counter # 0 => job.ref = previous
      BY <1>2, <2>2 DEF Finish, HostInv
    <3>3. ASSUME link[c].joined
          PROVE  \E p \in 0 .. Len(log') : AtPosition(c, p)' /\ Continues(c, p)'
      <4>1. PICK p \in 0 .. Len(log) : AtPosition(c, p) /\ Continues(c, p)
        BY <1>a, <3>3 DEF InStream
      <4>2. AtPosition(c, p)'
        <5>1. link[c].arrived \in Nat
          BY DEF TypeOK, Link
        <5> QED
          BY <1>2, <1>b, <3>1, <4>1, <5>1 DEF Finish, AtPosition
      <4>3. CASE p < Len(log)
        <5>1. p < Len(log') /\ log'[p + 1] = log[p + 1]
          BY <1>b, <3>1, <4>3
        <5>2. Continues(c, p)'
          BY <1>2, <4>1, <4>3, <5>1 DEF Finish, decoders, Continues, NextCounter, NextRef
        <5> QED
          BY <1>b, <3>1, <4>2, <5>2
      <4>4. CASE p = Len(log)
        <5>1. p < Len(log') /\ log'[p + 1] = job
          BY <1>b, <3>1, <4>4
        <5>2. Continues(c, p)'
          BY <1>2, <1>b, <2>2, <3>2, <4>1, <4>4, <5>1
          DEF Finish, decoders, Continues, NextCounter, NextRef
        <5> QED
          BY <1>b, <3>1, <4>2, <5>2
      <4> QED
        BY <1>b, <4>3, <4>4
    <3> QED
      BY <1>2, <1>a, <3>3 DEF Finish, decoders, InStream
  <2> QED
    BY <1>2, <2>1, <2>2 DEF Finish
<1>3. ASSUME NEW d \in Clients, HostReset(d) PROVE InStream(c)'
  <2>1. ASSUME NEW p \in 0 .. Len(log), AtPosition(c, p), Continues(c, p)
        PROVE  AtPosition(c, p)' /\ Continues(c, p)'
    BY <1>3, <1>b, <2>1
    DEF HostReset, decoders, AtPosition, Continues, NextCounter, NextRef
  <2> QED
    BY <1>3, <1>a, <2>1 DEF HostReset, decoders, InStream
<1>4. ASSUME ReceiveNamed(c) PROVE InStream(c)'
  <2>1. link[c].joined
    BY <1>4, <1>a DEF ReceiveNamed, InStream, NoLink
  <2>2. PICK p \in 0 .. Len(log) : AtPosition(c, p) /\ Continues(c, p)
    BY <1>a, <2>1 DEF InStream
  <2>3. p = 0 /\ link[c].arrived = 1 /\ link[c].waiting = {} /\ ~link[c].flushing
    BY <1>4, <2>2 DEF ReceiveNamed, AtPosition
  <2>4. 0 < Len(log) /\ 0 + 1 = 1 /\ Decode(c, log[0 + 1])
    BY <1>4, <1>b DEF ReceiveNamed
  <2>5. held'[c] # Corrupt /\ Continues(c, 0 + 1)'
    BY <1>4, <1>a, <2>2, <2>3, <2>4, DecodeContinues DEF ReceiveNamed, compressor, InStream
  <2>6. link'[c] = [link[c] EXCEPT !.due = FALSE, !.known = TRUE]
    BY <1>4 DEF ReceiveNamed, TypeOK
  <2>7. /\ ~link'[c].due /\ link'[c].arrived = 1 /\ link'[c].waiting = {}
        /\ link'[c].joined /\ ~link'[c].flushing
    BY <2>1, <2>3, <2>6 DEF TypeOK, Link
  <2>8. AtPosition(c, 1)'
    <3>1. link'[c].waiting = (1 + 1) .. link'[c].arrived
      BY <2>7
    <3> QED
      BY <1>4, <1>b, <2>4, <2>7, <3>1 DEF ReceiveNamed, AtPosition
  <2> QED
    BY <1>4, <1>a, <1>b, <2>1, <2>4, <2>5, <2>7, <2>8 DEF ReceiveNamed, InStream
<1>5. ASSUME ReceiveNumbered(c) PROVE InStream(c)'
  <2> DEFINE i == link[c].arrived + 1
  <2>1. link[c].joined /\ ~link[c].due /\ ~link[c].flushing /\ link[c].arrived < Len(log)
    BY <1>5 DEF ReceiveNumbered
  <2>2. PICK p \in 0 .. Len(log) : AtPosition(c, p) /\ Continues(c, p)
    BY <1>a, <2>1 DEF InStream
  <2>3. /\ p <= link[c].arrived /\ link[c].waiting = (p + 1) .. link[c].arrived
        /\ link[c].arrived \in Nat /\ p \in Nat
    BY <2>1, <2>2 DEF AtPosition, TypeOK, Link
  <2>4. CASE link[c].known
    <3>1. link[c].waiting = {} /\ link[c].arrived = p
      <4>1. link[c].waiting = {}
        BY <2>1, <2>2, <2>4 DEF AtPosition
      <4>2. ~(p + 1 <= link[c].arrived)
        <5>1. p + 1 <= link[c].arrived => p + 1 \in (p + 1) .. link[c].arrived
          BY <2>3
        <5> QED
          BY <2>3, <4>1, <5>1
      <4> QED
        BY <2>3, <4>1, <4>2
    <3>2. /\ p < Len(log) /\ Decode(c, log[p + 1])
          /\ link' = [link EXCEPT ![c] = [@ EXCEPT !.arrived = p + 1]]
      BY <1>5, <2>1, <2>4, <3>1 DEF ReceiveNumbered
    <3>3. held'[c] # Corrupt /\ Continues(c, p + 1)'
      BY <1>5, <1>a, <2>2, <3>2, DecodeContinues DEF ReceiveNumbered, compressor, InStream
    <3>4. /\ link'[c].joined /\ ~link'[c].due /\ link'[c].arrived = p + 1
          /\ link'[c].waiting = {}
      BY <2>1, <3>1, <3>2 DEF TypeOK, Link
    <3>5. AtPosition(c, p + 1)'
      <4>1. link'[c].waiting = ((p + 1) + 1) .. link'[c].arrived
        BY <2>3, <3>4
      <4> QED
        BY <1>5, <1>b, <2>3, <3>2, <3>4, <4>1 DEF ReceiveNumbered, AtPosition
    <3> QED
      BY <1>5, <1>a, <1>b, <2>1, <2>3, <3>2, <3>3, <3>4, <3>5 DEF ReceiveNumbered, InStream
  <2>5. CASE ~link[c].known
    <3>1. link' = [link EXCEPT ![c] = [@ EXCEPT !.arrived = i, !.asked = TRUE,
                                                !.waiting = link[c].waiting \union {i}]]
      BY <1>5, <2>5 DEF ReceiveNumbered
    <3>2. /\ link'[c].joined /\ ~link'[c].due /\ link'[c].arrived = link[c].arrived + 1
          /\ link'[c].waiting = link[c].waiting \union {link[c].arrived + 1}
          /\ ~link'[c].known
      BY <2>1, <2>5, <3>1 DEF TypeOK, Link
    <3>3. link'[c].waiting = (p + 1) .. link'[c].arrived
      BY <2>3, <3>2
    <3>4. AtPosition(c, p)'
      BY <1>5, <1>b, <2>1, <2>3, <3>2, <3>3 DEF ReceiveNumbered, AtPosition
    <3>5. Continues(c, p)'
      BY <1>5, <2>2, <2>5
      DEF ReceiveNumbered, compressor, decoders, Continues, NextCounter, NextRef
    <3> QED
      BY <1>5, <1>a, <2>1, <2>5, <3>2, <3>4, <3>5 DEF ReceiveNumbered, decoders, InStream
  <2> QED
    BY <2>4, <2>5
<1>6. ASSUME ReceiveAnswer(c) PROVE InStream(c)'
  <2>1. link'[c] = [link[c] EXCEPT !.asked = FALSE, !.known = TRUE, !.flushing = TRUE]
    BY <1>6 DEF ReceiveAnswer, TypeOK
  <2>2. link[c].joined
    BY <1>6, <1>a DEF ReceiveAnswer, InStream, NoLink
  <2>3. PICK p \in 0 .. Len(log) : AtPosition(c, p) /\ Continues(c, p)
    BY <1>a, <2>2 DEF InStream
  <2>4. /\ link'[c].joined /\ link'[c].due = link[c].due /\ link'[c].flushing
        /\ link'[c].arrived = link[c].arrived /\ link'[c].waiting = link[c].waiting
    BY <2>1, <2>2 DEF TypeOK, Link
  <2>5. AtPosition(c, p)'
    BY <1>6, <2>3, <2>4 DEF ReceiveAnswer, AtPosition
  <2>6. Continues(c, p)'
    BY <1>6, <2>3 DEF ReceiveAnswer, compressor, decoders, Continues, NextCounter, NextRef
  <2> QED
    BY <1>6, <1>a, <2>2, <2>4, <2>5, <2>6 DEF ReceiveAnswer, decoders, InStream
<1>7. ASSUME Flush(c) PROVE InStream(c)'
  <2>1. PICK i \in link[c].waiting :
           /\ \A j \in link[c].waiting : i <= j
           /\ link' = [link EXCEPT ![c] = [@ EXCEPT !.waiting = link[c].waiting \ {i},
                                                    !.flushing = link[c].waiting # {i}]]
           /\ Decode(c, log[i])
    BY <1>7 DEF Flush
  <2>2. link[c].joined /\ link[c].flushing
    BY <1>7, <1>a DEF Flush, InStream, NoLink
  <2>3. PICK p \in 0 .. Len(log) : AtPosition(c, p) /\ Continues(c, p)
    BY <1>a, <2>2 DEF InStream
  <2>4. /\ ~link[c].due /\ p <= link[c].arrived /\ link[c].arrived <= Len(log)
        /\ link[c].waiting = (p + 1) .. link[c].arrived
        /\ link[c].arrived \in Nat /\ p \in Nat
    BY <2>2, <2>3 DEF AtPosition, TypeOK, Link
  <2>5. i = p + 1 /\ p < Len(log) /\ p + 1 <= link[c].arrived
    <3>1. i \in (p + 1) .. link[c].arrived
      BY <2>4
    <3>2. p + 1 \in link[c].waiting
      BY <2>4, <3>1
    <3>3. i <= p + 1
      BY <2>1, <3>2
    <3> QED
      BY <1>b, <2>4, <3>1, <3>3
  <2>6. held'[c] # Corrupt /\ Continues(c, p + 1)'
    BY <1>7, <1>a, <2>1, <2>3, <2>5, DecodeContinues DEF Flush, compressor, InStream
  <2>7. /\ link'[c].joined /\ ~link'[c].due /\ link'[c].arrived = link[c].arrived
        /\ link'[c].waiting = link[c].waiting \ {p + 1}
        /\ ~link'[c].flushing => link'[c].waiting = {}
    BY <2>1, <2>2, <2>4, <2>5 DEF TypeOK, Link
  <2>8. link'[c].waiting = ((p + 1) + 1) .. link'[c].arrived
    BY <2>4, <2>5, <2>7
  <2>9. AtPosition(c, p + 1)'
    BY <1>7, <2>4, <2>5, <2>7, <2>8 DEF Flush, AtPosition
  <2> QED
    BY <1>7, <1>a, <1>b, <2>2, <2>5, <2>6, <2>7, <2>9 DEF Flush, InStream
<1>8. ASSUME DisplayRead(c) PROVE InStream(c)'
  <2>1. display'[c].seen = held[c] /\ display'[c].shown = display[c].shown
    BY <1>8 DEF DisplayRead, TypeOK, Display
  <2> QED
    BY <1>8, <1>a, <2>1
    DEF DisplayRead, compressor, decoders, InStream, AtPosition, Continues, NextCounter, NextRef
<1>9. ASSUME DisplayDraw(c) PROVE InStream(c)'
  <2>1. /\ display'[c].seen = display[c].seen
        /\ display'[c].shown \in {display[c].seen, display[c].shown}
    BY <1>9 DEF DisplayDraw, TypeOK, Display
  <2> QED
    BY <1>9, <1>a, <2>1
    DEF DisplayDraw, compressor, decoders, InStream, AtPosition, Continues, NextCounter, NextRef
<1>10. ASSUME Join(c) PROVE InStream(c)'
  <2> DEFINE p == Len(log)
  <2>1. joins[c] = 0 /\ joins'[c] = 1
    BY <1>10 DEF Join, TypeOK
  <2>2. expected'[c] = 0
    BY <1>10, <1>a, <2>1 DEF Join, InStream
  <2>3. link'[c] = [NoLink EXCEPT !.joined = TRUE, !.due = log = <<>>,
                                  !.arrived = IF log = <<>> THEN 1 ELSE Len(log)]
    BY <1>10 DEF Join, TypeOK
  <2>4. /\ link'[c].joined /\ link'[c].waiting = {} /\ ~link'[c].asked /\ ~link'[c].flushing
        /\ link'[c].due <=> log = <<>>
        /\ link'[c].arrived = IF log = <<>> THEN 1 ELSE Len(log)
    BY <2>3 DEF NoLink
  <2>5. AtPosition(c, p)'
    <3>1. CASE log = <<>>
      BY <1>10, <2>4, <3>1 DEF Join, AtPosition
    <3>2. CASE log # <<>>
      <4>1. link'[c].arrived = p /\ ~link'[c].due
        BY <2>4, <3>2
      <4>2. link'[c].waiting = (p + 1) .. link'[c].arrived
        BY <1>b, <2>4, <4>1
      <4> HIDE DEF p
      <4> QED
        BY <1>10, <1>b, <2>4, <3>2, <4>1, <4>2 DEF Join, AtPosition, p
    <3> QED
      BY <3>1, <3>2
  <2>6. Continues(c, p)'
    BY <2>2 DEF Continues
  <2> QED
    BY <1>10, <1>a, <1>b, <2>1, <2>4, <2>5, <2>6 DEF Join, InStream
<1>11. ASSUME Leave(c) PROVE InStream(c)'
  <2>1. link'[c] = NoLink /\ ~NoLink.joined
    BY <1>11 DEF Leave, TypeOK, NoLink
  <2> QED
    BY <1>11, <1>a, <2>1 DEF Leave, decoders, InStream
<1>12. ASSUME NEW fresh \in BOOLEAN, Restart(fresh) PROVE InStream(c)'
  <2>1. link'[c] = NoLink /\ ~NoLink.joined
    BY <1>12 DEF Restart, NoLink
  <2> QED
    BY <1>12, <1>a, <2>1 DEF Restart, decoders, InStream
<1>13. ASSUME NEW d \in Clients \ {c},
              \/ ReceiveNamed(d) \/ ReceiveNumbered(d) \/ ReceiveAnswer(d) \/ Flush(d)
              \/ DisplayRead(d) \/ DisplayDraw(d) \/ Join(d) \/ Leave(d)
       PROVE  InStream(c)'
  <2>1. CASE ReceiveNamed(d)
    BY <2>1, <1>1, DecodeOthers DEF ReceiveNamed, compressor, TypeOK
  <2>2. CASE ReceiveNumbered(d)
    <3>1. link'[c] = link[c]
      BY <2>2 DEF ReceiveNumbered, TypeOK
    <3>2. expected'[c] = expected[c] /\ held'[c] = held[c]
      BY <2>2, DecodeOthers DEF ReceiveNumbered, decoders
    <3> QED
      BY <2>2, <3>1, <3>2, <1>1 DEF ReceiveNumbered, compressor
  <2>3. CASE ReceiveAnswer(d)
    BY <2>3, <1>1 DEF ReceiveAnswer, compressor, decoders, TypeOK
  <2>4. CASE Flush(d)
    <3>1. link'[c] = link[c]
      BY <2>4 DEF Flush, TypeOK
    <3>2. expected'[c] = expected[c] /\ held'[c] = held[c]
      BY <2>4, DecodeOthers DEF Flush
    <3> QED
      BY <2>4, <3>1, <3>2, <1>1 DEF Flush, compressor
  <2>5. CASE DisplayRead(d)
    BY <2>5, <1>1 DEF DisplayRead, compressor, decoders, TypeOK
  <2>6. CASE DisplayDraw(d)
    BY <2>6, <1>1 DEF DisplayDraw, compressor, decoders, TypeOK
  <2>7. CASE Join(d)
    BY <2>7, <1>1 DEF Join, compressor, TypeOK
  <2>8. CASE Leave(d)
    BY <2>8, <1>1 DEF Leave, compressor, decoders, TypeOK
  <2> QED
    BY <1>13, <2>1, <2>2, <2>3, <2>4, <2>5, <2>6, <2>7, <2>8
<1>14. CASE Draw \/ Wait \/ Take \/ (\E d \in Clients : HostAck(d)) \/ UNCHANGED vars
  BY <1>14, <1>1 DEF Draw, Wait, Take, HostAck, vars, decoders
<1> QED
  BY <1>2, <1>3, <1>4, <1>5, <1>6, <1>7, <1>8, <1>9, <1>10, <1>11, <1>12, <1>13, <1>14 DEF Next

\* The stream invariant holds on every network; its part about the clients is for those
\* whose packets do not overtake the one that teaches the number and who joined once.
THEOREM Stream == Spec => [](TypeOK /\ StreamInv)
<1>1. Init => TypeOK /\ PresenceInv /\ StreamInv
  BY TypeInit, PresenceInit, StreamInit
<1>2. TypeOK /\ PresenceInv /\ StreamInv /\ [Next]_vars => TypeOK' /\ PresenceInv' /\ StreamInv'
  BY TypeStep, PresenceStep, HostStep, ClientStep DEF StreamInv
<1> QED
  BY <1>1, <1>2, PTL DEF Spec

\* Such clients hold and draw only what the host recorded: the counter alone
\* keeps their references right, however resets, acks and frames interleave.
THEOREM NeverDecodesCorrupt == Spec => []NeverCorruptInOrder
<1>1. StreamInv => NeverCorruptInOrder
  BY DEF StreamInv, ClientInv, InStream, NeverCorruptInOrder
<1> QED
  BY Stream, <1>1, PTL

-----------------------------------------------------------------------------
(* One refusal is enough for a client that is alone *)

\* What is under way for a client.
Pending(c) == Underway(c) # {} \/ acks[c] > 0 \/ resets[c] > 0

\* Nothing is served to a client that has not joined.
LEMMA NotJoined ==
  ASSUME NEW c \in Clients, link'[c] = NoLink, acks'[c] = 0, resets'[c] = 0,
         refused'[c] <= 1, joins'[c] = 0 => refused'[c] = 0, log' \in Seq(Delta)
  PROVE  Served(c)'
<1>1. /\ ~link'[c].joined /\ ~link'[c].due /\ link'[c].waiting = {} /\ link'[c].arrived = 0
  BY DEF NoLink
<1>2. Underway(c)' = {}
  BY <1>1 DEF Underway
<1>3. 0 <= Len(log')
  OBVIOUS
<1> QED
  BY <1>1, <1>2, <1>3 DEF Served

\* A step that touches neither the client nor the packets keeps it served, if it leaves
\* the thread waiting for what is under way.
LEMMA ServedStays ==
  ASSUME TypeOK, NEW c \in Clients, Served(c), UNCHANGED log, counter' \in {counter, 0},
         link'[c] = link[c], acks'[c] = acks[c], resets'[c] = resets[c],
         refused'[c] = refused[c], expected'[c] = expected[c], joins'[c] = joins[c],
         Pending(c) => timeout' > 0 /\ thread' = "idle"
  PROVE  Served(c)'
<1>1. Underway(c)' = Underway(c)
  BY DEF Underway
<1> QED
  BY <1>1 DEF Served, Pending

\* The decompressor is handed the packet that is under way.
LEMMA DecodeServes ==
  ASSUME TypeOK, NEW c \in Clients, Served(c), link[c].joined, Underway(c) # {},
         Decode(c, log[Len(log)]), Underway(c)' = {}, link'[c].joined, ~link'[c].due,
         link'[c].arrived <= Len(log), \A i \in link'[c].waiting : i <= link'[c].arrived,
         UNCHANGED <<log, timeout, thread, joins>>
  PROVE  Served(c)'
<1>1. /\ acks[c] = 0 /\ resets[c] = 0 /\ timeout > 0 /\ thread = "idle" /\ joins[c] # 0
      /\ refused[c] \in {0, 1}
      /\ refused[c] = 1 => expected[c] = 0 /\ log[Len(log)].counter = 0
  BY DEF Served, TypeOK
<1>2. CASE Refuse(c, log[Len(log)])
  <2>1. /\ expected'[c] = 0 /\ acks'[c] = 0 /\ resets'[c] = 1 /\ refused'[c] = 1
    BY <1>1, <1>2 DEF Refuse, TypeOK
  <2> QED
    BY <1>1, <2>1 DEF Served
<1>3. CASE Accept(c, log[Len(log)])
  <2>1. /\ acks'[c] = 1 /\ resets'[c] = 0 /\ refused'[c] = 0
    BY <1>1, <1>3 DEF Accept, TypeOK
  <2> QED
    BY <1>1, <2>1 DEF Served
<1> QED
  BY <1>2, <1>3 DEF Decode

\* The host alone: it draws, waits for what is under way, and sends when nothing is.
LEMMA HostServes ==
  ASSUME TypeOK, NEW c \in Clients, Served(c), network.prompt,
         Draw \/ Wait \/ Take \/ (\E ok \in BOOLEAN : Finish(ok))
  PROVE  Served(c)'
<1>1. CASE Draw
  <2>1. Pending(c) => timeout' > 0 /\ thread' = "idle"
    BY <1>1 DEF Draw, Served, Pending
  <2> QED
    BY <1>1, <2>1, ServedStays DEF Draw, answers, decoders
<1>2. CASE Wait
  <2>1. Answered(c)
    BY <1>2 DEF Wait
  <2>2. Underway(c) = {}
    BY <2>1 DEF Answered, Underway, TypeOK, Link
  <2>3. ~Pending(c)
    BY <2>1, <2>2 DEF Answered, Pending
  <2> QED
    BY <1>2, <2>3, ServedStays DEF Wait, answers, decoders
<1>3. CASE Take
  <2>1. ~Pending(c)
    BY <1>3 DEF Take, Served, Pending
  <2> QED
    BY <1>3, <2>1, ServedStays DEF Take, answers, decoders
<1>4. ASSUME NEW ok \in BOOLEAN, Finish(ok) PROVE Served(c)'
  <2>1. /\ Underway(c) = {} /\ acks[c] = 0 /\ resets[c] = 0
        /\ timeout' > 0 /\ thread' = "idle"
    <3>1. ~Pending(c)
      BY <1>4 DEF Finish, Served, Pending
    <3>2. timeout' > 0 /\ thread' = "idle"
      BY <1>4, MetafileAssumption DEF Finish
    <3> QED
      BY <3>1, <3>2 DEF Pending, TypeOK
  <2>2. CASE UNCHANGED <<log, counter>>
    BY <1>4, <2>1, <2>2, ServedStays DEF Finish, answers, decoders
  <2>3. CASE log' = Append(log, job) /\ job.counter = counter
    <3>1. /\ Len(log') = Len(log) + 1 /\ Len(log) \in Nat
          /\ log'[Len(log) + 1] = job
      BY <2>3, AppendFacts DEF TypeOK
    <3>2. UNCHANGED <<link, acks, resets, expected, refused, joins>>
      BY <1>4 DEF Finish, answers, decoders
    <3>3. CASE ~link[c].joined
      <4>1. log' \in Seq(Delta)
        BY <2>3, AppendFacts DEF TypeOK
      <4> QED
        BY <3>2, <3>3, <4>1, NotJoined DEF Served
    <3>4. CASE link[c].joined
      <4>1. Underway(c)' = {Len(log')}
        <5>1. ASSUME NEW i \in 1 .. Len(log)
              PROVE  ~(i \in link[c].waiting \/ i > link[c].arrived \/ (i = 1 /\ link[c].due))
          BY <2>1, <3>4 DEF Underway
        <5>2. Len(log) + 1 > link[c].arrived \/ (Len(log) + 1 = 1 /\ link[c].due)
          <6>1. CASE link[c].due
            <7>1. Len(log) = 0
              BY <3>1, <5>1, <6>1
            <7> QED
              BY <6>1, <7>1
          <6>2. CASE ~link[c].due
            <7>1. link[c].arrived <= Len(log) /\ link[c].arrived \in Nat
              BY <6>2 DEF Served, TypeOK, Link
            <7>2. Len(log) + 1 > link[c].arrived
              BY <3>1, <7>1
            <7> QED
              BY <7>2
          <6> QED
            BY <6>1, <6>2
        <5>3. 1 .. Len(log') = (1 .. Len(log)) \union {Len(log) + 1}
          BY <3>1
        <5> QED
          BY <3>1, <3>2, <3>4, <5>1, <5>2, <5>3 DEF Underway
      <4>2. refused[c] = 1 => log'[Len(log')].counter = 0
        BY <2>1, <2>3, <3>1, <3>4 DEF Served
      <4>3. ~link[c].due => link[c].arrived <= Len(log')
        BY <3>1 DEF Served, TypeOK, Link
      <4> QED
        BY <2>1, <3>2, <3>4, <4>1, <4>2, <4>3 DEF Served
    <3> QED
      BY <3>3, <3>4
  <2> QED
    BY <1>4, <2>2, <2>3 DEF Finish
<1> QED
  BY <1>1, <1>2, <1>3, <1>4

\* The host reads an answer of the client: nothing is under way any more.
LEMMA AnswerServes ==
  ASSUME TypeOK, NEW c \in Clients, Served(c), HostReset(c) \/ HostAck(c)
  PROVE  Served(c)'
<1>1. /\ Underway(c) = {} /\ acks[c] + resets[c] = 1
      /\ acks[c] \in Nat /\ resets[c] \in Nat
      /\ HostAck(c) => acks[c] = 1
      /\ HostReset(c) => resets[c] = 1
  BY DEF Served, HostReset, HostAck, TypeOK
<1>2. acks'[c] = 0 /\ resets'[c] = 0
  <2>1. CASE HostReset(c)
    BY <1>1, <2>1 DEF HostReset, TypeOK
  <2>2. CASE HostAck(c)
    BY <1>1, <2>2 DEF HostAck, TypeOK
  <2> QED
    BY <2>1, <2>2
<1>3. UNCHANGED <<log, link, expected, refused, joins>>
  BY DEF HostReset, HostAck, decoders
<1>4. Underway(c)' = {}
  BY <1>1, <1>3 DEF Underway
<1>5. refused[c] = 1 /\ link[c].joined => counter' = 0
  <2>1. CASE HostReset(c)
    BY <2>1 DEF HostReset
  <2>2. CASE HostAck(c)
    BY <1>1, <2>2 DEF HostAck, Served
  <2> QED
    BY <2>1, <2>2
<1> QED
  BY <1>2, <1>3, <1>4, <1>5 DEF Served

\* The network thread of the client takes a packet, or learns the number.
LEMMA ReceiveServes ==
  ASSUME TypeOK, PresenceInv, NEW c \in Clients, Served(c),
         ReceiveNamed(c) \/ ReceiveNumbered(c) \/ ReceiveAnswer(c) \/ Flush(c)
  PROVE  Served(c)'
<1>a. Len(log) \in Nat /\ link[c].arrived \in Nat /\ link[c].waiting \subseteq 1 .. Len(log)
  BY DEF TypeOK, Link, PresenceInv
<1>b. ASSUME NEW i \in Underway(c) PROVE i = Len(log)
  BY <1>b DEF Served
<1>c. link[c].joined
  <2>1. ~NoLink.due /\ ~NoLink.asked /\ ~NoLink.flushing
    BY DEF NoLink
  <2>2. link[c].joined \/ link[c].due \/ link[c].asked \/ link[c].flushing
    BY DEF ReceiveNamed, ReceiveNumbered, ReceiveAnswer, Flush
  <2> QED
    BY <2>1, <2>2 DEF Served
<1>d. ASSUME NEW i \in 1 .. Len(log),
             i \in link[c].waiting \/ i > link[c].arrived \/ (i = 1 /\ link[c].due)
      PROVE  i = Len(log)
  BY <1>b, <1>c, <1>d DEF Underway
<1>1. CASE ReceiveNamed(c)
  <2>1. link[c].due /\ link[c].arrived = 1 /\ link[c].waiting = {} /\ Len(log) > 0
    BY <1>1, <1>a DEF ReceiveNamed, Served, TypeOK
  <2>2. 1 = Len(log)
    <3>1. 1 \in 1 .. Len(log)
      BY <1>a, <2>1
    <3> QED
      BY <1>d, <2>1, <3>1
  <2>3. link'[c] = [link[c] EXCEPT !.due = FALSE, !.known = TRUE]
    BY <1>1 DEF ReceiveNamed, TypeOK
  <2>4. link'[c].joined /\ ~link'[c].due /\ link'[c].arrived = 1 /\ link'[c].waiting = {}
    BY <1>c, <2>1, <2>3 DEF TypeOK, Link
  <2>5. Underway(c)' = {} /\ Underway(c) # {}
    <3>1. 1 .. Len(log) = {1} /\ log' = log
      <4>1. 1 .. 1 = {1}
        OBVIOUS
      <4> QED
        BY <1>1, <2>2, <4>1 DEF ReceiveNamed
    <3>2. Underway(c)' = {}
      BY <2>4, <3>1 DEF Underway
    <3> QED
      BY <1>c, <2>1, <3>1, <3>2 DEF Underway
  <2>6. Decode(c, log[Len(log)]) /\ UNCHANGED <<log, timeout, thread, joins>>
    BY <1>1, <2>2 DEF ReceiveNamed, compressor
  <2> QED
    BY <1>a, <1>c, <2>2, <2>4, <2>5, <2>6, DecodeServes
<1>2. CASE ReceiveNumbered(c)
  <2>1. link[c].arrived + 1 \in 1 .. Len(log) /\ link[c].arrived + 1 > link[c].arrived
    BY <1>2, <1>a DEF ReceiveNumbered
  <2>2. link[c].arrived + 1 = Len(log)
    BY <1>d, <2>1
  <2>3. link[c].waiting = {}
    <3>1. ASSUME NEW i \in link[c].waiting PROVE FALSE
      <4>1. i = Len(log) /\ i <= link[c].arrived
        BY <1>a, <1>d DEF Served
      <4> QED
        BY <1>a, <2>2, <4>1
    <3> QED
      BY <3>1
  <2>4. ~link[c].due
    <3>1. SUFFICES ASSUME link[c].due PROVE FALSE
      OBVIOUS
    <3>2. link[c].arrived = 1 /\ 1 = Len(log)
      BY <1>a, <1>d, <2>1, <3>1 DEF Served
    <3> QED
      BY <2>2, <3>2
  <2>5. Len(log) \in Underway(c)
    BY <1>a, <1>c, <2>1, <2>2 DEF Underway
  <2>6. CASE link[c].known
    <3>1. link'[c] = [link[c] EXCEPT !.arrived = link[c].arrived + 1]
      BY <1>2, <2>6 DEF ReceiveNumbered, TypeOK
    <3>2. /\ link'[c].joined /\ ~link'[c].due /\ link'[c].arrived = Len(log)
          /\ link'[c].waiting = {}
      BY <1>c, <2>2, <2>3, <2>4, <3>1 DEF TypeOK, Link
    <3>3. Decode(c, log[Len(log)]) /\ UNCHANGED <<log, timeout, thread, joins>>
      BY <1>2, <2>2, <2>6 DEF ReceiveNumbered, compressor
    <3>4. Underway(c)' = {}
      BY <1>a, <3>2, <3>3 DEF Underway
    <3> QED
      BY <1>a, <1>c, <2>5, <3>2, <3>3, <3>4, DecodeServes
  <2>7. CASE ~link[c].known
    <3>1. link'[c] = [link[c] EXCEPT !.arrived = link[c].arrived + 1, !.asked = TRUE,
                        !.waiting = link[c].waiting \union {link[c].arrived + 1}]
      BY <1>2, <2>7 DEF ReceiveNumbered, TypeOK
    <3>2. /\ link'[c].joined /\ ~link'[c].due /\ link'[c].arrived = Len(log)
          /\ link'[c].waiting = {Len(log)}
      BY <1>c, <2>2, <2>3, <2>4, <3>1 DEF TypeOK, Link
    <3>3. /\ UNCHANGED <<log, timeout, thread, counter, joins>>
          /\ UNCHANGED <<acks, resets, expected, refused>>
      BY <1>2, <2>7 DEF ReceiveNumbered, compressor, answers, decoders
    <3>4. Underway(c)' = {Len(log)} /\ Underway(c) = {Len(log)}
      <4>1. Underway(c)' = {Len(log)}
        BY <1>a, <2>1, <2>2, <3>2, <3>3 DEF Underway
      <4> QED
        BY <1>b, <2>5, <4>1
    <3> QED
      BY <1>a, <1>c, <3>2, <3>3, <3>4 DEF Served
  <2> QED
    BY <2>6, <2>7
<1>3. CASE ReceiveAnswer(c)
  <2>1. link'[c] = [link[c] EXCEPT !.asked = FALSE, !.known = TRUE, !.flushing = TRUE]
    BY <1>3 DEF ReceiveAnswer, TypeOK
  <2>2. /\ link'[c].joined = link[c].joined /\ link'[c].due = link[c].due
        /\ link'[c].arrived = link[c].arrived /\ link'[c].waiting = link[c].waiting
    BY <2>1 DEF TypeOK, Link
  <2>3. /\ UNCHANGED <<log, timeout, thread, counter, joins>>
        /\ UNCHANGED <<acks, resets, expected, refused>>
    BY <1>3 DEF ReceiveAnswer, compressor, answers, decoders
  <2>4. Underway(c)' = Underway(c)
    BY <2>2, <2>3 DEF Underway
  <2> QED
    BY <1>c, <2>2, <2>3, <2>4 DEF Served
<1>4. CASE Flush(c)
  <2>1. PICK i \in link[c].waiting :
           /\ link' = [link EXCEPT ![c] = [@ EXCEPT !.waiting = link[c].waiting \ {i},
                                                    !.flushing = link[c].waiting # {i}]]
           /\ Decode(c, log[i])
    BY <1>4 DEF Flush
  <2>2. i = Len(log) /\ i \in 1 .. Len(log) /\ i <= link[c].arrived
    BY <1>a, <1>d DEF Served
  <2>3. link[c].waiting = {Len(log)}
    BY <1>a, <1>d, <2>2
  <2>4. ~link[c].due /\ link[c].arrived <= Len(log)
    BY <2>3 DEF Served
  <2>5. link'[c] = [link[c] EXCEPT !.waiting = link[c].waiting \ {i},
                                   !.flushing = link[c].waiting # {i}]
    BY <2>1 DEF TypeOK
  <2>6. /\ link'[c].joined /\ ~link'[c].due /\ link'[c].arrived = link[c].arrived
        /\ link'[c].waiting = {}
    BY <1>c, <2>2, <2>3, <2>4, <2>5 DEF TypeOK, Link
  <2>7. Decode(c, log[Len(log)]) /\ UNCHANGED <<log, timeout, thread, joins>>
    BY <1>4, <2>1, <2>2 DEF Flush, compressor
  <2>8. Underway(c)' = {}
    BY <1>a, <2>2, <2>6, <2>7 DEF Underway
  <2>9. Underway(c) # {}
    BY <1>c, <2>2 DEF Underway
  <2> QED
    BY <1>c, <2>4, <2>6, <2>7, <2>8, <2>9, DecodeServes
<1> QED
  BY <1>1, <1>2, <1>3, <1>4

\* Sessions: a client joins where the log ends, and nobody waits for one that left.
LEMMA SessionServes ==
  ASSUME TypeOK, NEW c \in Clients, Served(c),
         Join(c) \/ Leave(c) \/ (\E fresh \in BOOLEAN : Restart(fresh))
  PROVE  Served(c)'
<1>1. CASE Join(c)
  <2>1. acks'[c] = 0 /\ resets'[c] = 0 /\ refused'[c] = 0 /\ joins'[c] # 0
    BY <1>1 DEF Join, Served, answers, TypeOK
  <2>2. link'[c] = [NoLink EXCEPT !.joined = TRUE, !.due = log = <<>>,
                                  !.arrived = IF log = <<>> THEN 1 ELSE Len(log)]
    BY <1>1 DEF Join, TypeOK
  <2>3. /\ link'[c].joined /\ link'[c].waiting = {} /\ (link'[c].due <=> log = <<>>)
        /\ link'[c].arrived = IF log = <<>> THEN 1 ELSE Len(log)
    BY <2>2 DEF NoLink
  <2>4. log' = log /\ Len(log) \in Nat
    BY <1>1 DEF Join, TypeOK
  <2>5. Underway(c)' = {}
    <3>1. CASE log = <<>>
      BY <2>4, <3>1 DEF Underway
    <3>2. CASE log # <<>>
      BY <2>3, <2>4, <3>2 DEF Underway
    <3> QED
      BY <3>1, <3>2
  <2> QED
    BY <2>1, <2>3, <2>4, <2>5 DEF Served
<1>2. CASE Leave(c)
  <2>1. /\ link'[c] = NoLink /\ acks'[c] = 0 /\ resets'[c] = 0
        /\ refused'[c] = refused[c] /\ joins'[c] = joins[c]
    BY <1>2 DEF Leave, decoders, TypeOK
  <2> QED
    BY <1>2, <2>1, NotJoined DEF Served, Leave, TypeOK
<1>3. ASSUME NEW fresh \in BOOLEAN, Restart(fresh) PROVE Served(c)'
  <2>1. /\ link'[c] = NoLink /\ acks'[c] = 0 /\ resets'[c] = 0
        /\ refused'[c] = refused[c] /\ joins'[c] = joins[c]
    BY <1>3 DEF Restart, decoders, TypeOK
  <2> QED
    <3>1. log' \in Seq(Delta)
      BY <1>3 DEF Restart
    <3> QED
      BY <2>1, <3>1, NotJoined DEF Served
<1> QED
  BY <1>1, <1>2, <1>3
\* A client whose gauge is drawn, or another one that does something, leaves this one as
\* it is.
LEMMA OthersServe ==
  ASSUME TypeOK, NEW c \in Clients, Served(c), NEW d \in Clients,
         \/ DisplayRead(d) \/ DisplayDraw(d)
         \/ /\ d # c /\ ~link[c].joined
            /\ \/ HostReset(d) \/ HostAck(d) \/ ReceiveNamed(d) \/ ReceiveNumbered(d)
               \/ ReceiveAnswer(d) \/ Flush(d) \/ Join(d) \/ Leave(d)
  PROVE  Served(c)'
<1>1. CASE DisplayRead(d) \/ DisplayDraw(d)
  <2>1. Pending(c) => timeout' > 0 /\ thread' = "idle"
    BY <1>1 DEF DisplayRead, DisplayDraw, compressor, Served, Pending
  <2> QED
    BY <1>1, <2>1, ServedStays DEF DisplayRead, DisplayDraw, compressor, answers, decoders
<1>2. ASSUME d # c, ~link[c].joined,
             HostReset(d) \/ HostAck(d) \/ ReceiveNamed(d) \/ ReceiveNumbered(d)
             \/ ReceiveAnswer(d) \/ Flush(d) \/ Join(d) \/ Leave(d)
      PROVE  Served(c)'
  <2>1. link'[c] = link[c] /\ joins'[c] = joins[c] /\ log' = log
    BY <1>2 DEF HostReset, HostAck, ReceiveNamed, ReceiveNumbered, ReceiveAnswer, Flush, Join,
                Leave, TypeOK
  <2>2. acks'[c] = acks[c] /\ resets'[c] = resets[c] /\ refused'[c] = refused[c]
    <3>1. ASSUME NEW m, Decode(d, m)
          PROVE  acks'[c] = acks[c] /\ resets'[c] = resets[c] /\ refused'[c] = refused[c]
      BY <1>2, <3>1 DEF Decode, Refuse, Accept, TypeOK
    <3>2. CASE HostReset(d) \/ HostAck(d) \/ Join(d) \/ Leave(d)
      BY <1>2, <3>2 DEF HostReset, HostAck, Join, Leave, answers, decoders, TypeOK
    <3>3. CASE ReceiveNamed(d) \/ Flush(d)
      BY <3>1, <3>3 DEF ReceiveNamed, Flush
    <3>4. CASE ReceiveNumbered(d)
      BY <3>1, <3>4 DEF ReceiveNumbered, answers, decoders
    <3>5. CASE ReceiveAnswer(d)
      BY <3>5 DEF ReceiveAnswer, answers, decoders
    <3> QED
      BY <1>2, <3>2, <3>3, <3>4, <3>5
  <2> QED
    BY <1>2, <2>1, <2>2, NotJoined DEF Served, TypeOK
<1> QED
  BY <1>1, <1>2

LEMMA AloneInit == Init => AloneInv
<1> SUFFICES ASSUME Init, NEW c \in Clients PROVE Served(c)
  BY DEF AloneInv
<1>1. /\ link[c] = NoLink /\ acks[c] = 0 /\ resets[c] = 0 /\ refused[c] = 0 /\ log = <<>>
  BY DEF Init
<1>2. Underway(c) = {} /\ Len(log) = 0
  BY <1>1 DEF Underway
<1> QED
  BY <1>1, <1>2 DEF Served, NoLink

LEMMA AloneStep ==
  ASSUME TypeOK, PresenceInv, AloneInv, [Next]_vars
  PROVE  AloneInv'
<1> SUFFICES ASSUME network.prompt, Alone', NEW c \in Clients PROVE Served(c)'
  BY DEF AloneInv, Next, vars
<1>1. Alone
  <2>1. \A d \in Clients : joins[d] > 0 => joins'[d] > 0
    BY JoinsGrow DEF TypeOK
  <2> QED
    BY <2>1 DEF Alone
<1>2. \A d \in Clients : Served(d)
  BY <1>1 DEF AloneInv
<1>3. ASSUME NEW d \in Clients, d # c, link[c].joined
      PROVE  /\ ~Join(d) /\ ~link[d].joined /\ link[d] = NoLink
             /\ acks[d] = 0 /\ resets[d] = 0
  <2>1. joins[c] # 0
    BY <1>2, <1>3 DEF Served
  <2>2. joins'[c] > 0 /\ joins[c] > 0
    BY <2>1, JoinsGrow DEF TypeOK
  <2>3. joins[d] = 0 /\ ~(joins'[d] > 0)
    BY <1>1, <1>3, <2>2 DEF Alone, TypeOK
  <2>4. ~Join(d)
    <3>1. Join(d) => joins'[d] = 1
      BY <2>3 DEF Join, TypeOK
    <3> QED
      BY <2>3, <3>1
  <2> QED
    BY <1>2, <2>3, <2>4 DEF Served
<1>4. CASE Draw \/ Wait \/ Take \/ (\E ok \in BOOLEAN : Finish(ok))
  BY <1>2, <1>4, HostServes
<1>5. CASE \E fresh \in BOOLEAN : Restart(fresh)
  BY <1>2, <1>5, SessionServes
<1>6. CASE \/ HostReset(c) \/ HostAck(c)
           \/ ReceiveNamed(c) \/ ReceiveNumbered(c) \/ ReceiveAnswer(c) \/ Flush(c)
           \/ Join(c) \/ Leave(c)
  BY <1>2, <1>6, AnswerServes, ReceiveServes, SessionServes
<1>7. CASE \E d \in Clients : DisplayRead(d) \/ DisplayDraw(d)
  BY <1>2, <1>7, OthersServe
<1>8. ASSUME NEW d \in Clients, d # c,
             \/ HostReset(d) \/ HostAck(d) \/ ReceiveNamed(d) \/ ReceiveNumbered(d)
             \/ ReceiveAnswer(d) \/ Flush(d) \/ Join(d) \/ Leave(d)
      PROVE  Served(c)'
  <2>1. CASE ~link[c].joined
    BY <1>2, <1>8, <2>1, OthersServe
  <2>2. CASE link[c].joined
    <3>1. ~NoLink.due /\ ~NoLink.asked /\ ~NoLink.flushing
      BY DEF NoLink
    <3>2. /\ ~Join(d) /\ acks[d] = 0 /\ resets[d] = 0
          /\ ~link[d].joined /\ ~link[d].due /\ ~link[d].asked /\ ~link[d].flushing
      BY <1>3, <1>8, <2>2, <3>1
    <3>3. /\ HostReset(d) => resets[d] > 0
          /\ HostAck(d) => acks[d] > 0
          /\ ReceiveNamed(d) => link[d].due
          /\ ReceiveNumbered(d) \/ Leave(d) => link[d].joined
          /\ ReceiveAnswer(d) => link[d].asked
          /\ Flush(d) => link[d].flushing
      BY DEF HostReset, HostAck, ReceiveNamed, ReceiveNumbered, ReceiveAnswer, Flush, Leave
    <3>4. ~(resets[d] > 0) /\ ~(acks[d] > 0)
      BY <3>2
    <3>5. FALSE
      BY <1>8, <3>2, <3>3, <3>4
    <3> QED
      BY <3>5
  <2> QED
    BY <2>1, <2>2
<1>9. CASE UNCHANGED vars
  <2>1. Pending(c) => timeout' > 0 /\ thread' = "idle"
    BY <1>2, <1>9 DEF vars, Served, Pending
  <2> QED
    BY <1>2, <1>9, <2>1, ServedStays DEF vars
<1> QED
  BY <1>4, <1>5, <1>6, <1>7, <1>8, <1>9 DEF Next

\* A client that is alone refuses no two packets in a row when the answers come before the
\* next packet (metafile.cpp:445-455): the reset it asks for is read, and nothing is sent
\* before.
THEOREM OneRefusalIsEnough == Spec => []RefusedOnceIfPrompt
<1>1. Init => TypeOK /\ PresenceInv /\ AloneInv
  BY TypeInit, PresenceInit, AloneInit
<1>2. TypeOK /\ PresenceInv /\ AloneInv /\ [Next]_vars => TypeOK' /\ PresenceInv' /\ AloneInv'
  BY TypeStep, PresenceStep, AloneStep
<1>3. AloneInv => RefusedOnceIfPrompt
  BY DEF AloneInv, Served, RefusedOnceIfPrompt
<1> QED
  BY <1>1, <1>2, <1>3, PTL DEF Spec
=============================================================================
