------------------------- MODULE MCReliabilityLayer -------------------------
(* The reliability layer on instances small enough for TLC. *)
EXTENDS ReliabilityLayer, TLC

CONSTANTS st, sim, net

OneStream  == {st}
OneCaller  == {sim}
TwoCallers == {sim, net}

\* Both callers run the same code.
CallerSymmetry == Permutations({sim, net})

On(k, m) == [kind |-> k, stream |-> st, parts |-> m]

Safe    == {On("ordered", 1)}
Unsafe  == {On("sequenced", 1)}
InParts == {On("ordered", 2)}
Program == Safe \union Unsafe \union InParts
Various == Program \union {On("plain", 1)}
=============================================================================
