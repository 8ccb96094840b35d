--------------------------- MODULE PacketStreams ---------------------------
(***************************************************************************)
(* What the reliability layer of RakNet promises of its streams, whatever  *)
(* the network does: an ordered stream hands on what was sent, each packet *)
(* once and in the order of sending; a sequenced stream may skip packets   *)
(* but never goes back.  ReliabilityLayer implements it.                   *)
(***************************************************************************)
EXTENDS Naturals, Sequences

CONSTANT Streams

Indexed == {"ordered", "sequenced"}

VARIABLES
  sent,   (* per kind and stream: packets sent so far                        *)
  got     (* per kind and stream: the numbers of the packets handed on       *)

streamVars == <<sent, got>>

StreamInit ==
  /\ sent = [k \in Indexed |-> [s \in Streams |-> 0]]
  /\ got = [k \in Indexed |-> [s \in Streams |-> <<>>]]

SendOn(k, s) ==
  /\ sent' = [sent EXCEPT ![k][s] = @ + 1]
  /\ UNCHANGED got

\* The next n packets of an ordered stream.
HandInOrder(s, n) ==
  /\ Len(got["ordered"][s]) + n <= sent["ordered"][s]
  /\ got' = [got EXCEPT !["ordered"][s] =
               @ \o [i \in 1 .. n |-> Len(got["ordered"][s]) + i - 1]]
  /\ UNCHANGED sent

\* A packet of a sequenced stream that is newer than those before it.
HandNewer(s, m) ==
  /\ m < sent["sequenced"][s]
  /\ \A i \in 1 .. Len(got["sequenced"][s]) : got["sequenced"][s][i] < m
  /\ got' = [got EXCEPT !["sequenced"][s] = Append(@, m)]
  /\ UNCHANGED sent

StreamNext == \E s \in Streams :
  \/ \E k \in Indexed : SendOn(k, s)
  \/ \E n \in 1 .. sent["ordered"][s] : HandInOrder(s, n)
  \/ \E m \in 0 .. sent["sequenced"][s] : HandNewer(s, m)

StreamSpec == StreamInit /\ [][StreamNext]_streamVars
=============================================================================
