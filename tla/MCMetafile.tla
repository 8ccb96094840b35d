----------------------------- MODULE MCMetafile -----------------------------
(* The metafile channel on instances small enough for TLC. *)
EXTENDS Metafile, TLC

CONSTANTS c1, c2, corrupt

OneClient  == {c1}
TwoClients == {c1, c2}
None       == {}

\* The clients run the same program and nothing tells them apart.
ClientSymmetry == Permutations({c1, c2})

Overtaking == [overtake |-> TRUE, prompt |-> FALSE]
Ordered    == [overtake |-> FALSE, prompt |-> FALSE]
Prompt     == [overtake |-> TRUE, prompt |-> TRUE]
Best       == [overtake |-> FALSE, prompt |-> TRUE]

ThreeNetworks == {Overtaking, Ordered, Prompt}
BestNetwork   == {Best}

(* Bounds: with packets that overtake each other no gauge draws and the host *)
(* stays; when they keep their order a client joins once and the host opens  *)
(* a second session; with prompt answers one client is alone.                *)
Sized ==
  \/ network = Overtaking /\ drawn' <= 4 /\ restarts' = 0 /\ display' = display
  \/ network = Ordered /\ drawn' <= 4 /\ restarts' <= 1 /\ joins'[c1] <= 1 /\ joins'[c2] <= 1
  \/ network = Prompt /\ joins'[c2] = 0

SizedSpec == Init /\ [][Next /\ Sized]_vars
=============================================================================
