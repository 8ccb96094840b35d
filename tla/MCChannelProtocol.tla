------------------------- MODULE MCChannelProtocol -------------------------
(* The channel protocol on instances small enough for TLC. *)
EXTENDS ChannelProtocol, TLC

CONSTANTS c1, c2, h, a, b, none

OneClient   == {c1}
TwoClients  == {c1, c2}
OneChannel  == {a}
TwoChannels == {a, b}

\* The two clients run the same program and the bounds do not tell them apart.
ClientSymmetry == Permutations({c1, c2})

NoneMobile      == {}
OneMobile       == {<<h, b>>}
HostSends       == {h}
EveryoneSends   == Nodes
ClientSends     == {c1}
=============================================================================
