------------------------- MODULE MCSessionLifecycle -------------------------
(* The life of connections on instances small enough for TLC. *)
EXTENDS SessionLifecycle, TLC

CONSTANTS h1, k1, k2, gauge, none

OneHost == {h1}
Three   == {h1, k1, k2}

OnlyPolite == {"polite"}
BothUsers  == {"polite", "hasty"}

(* Bounds: three connections and no click for the polite user, who opens one *)
(* session after the other; two connections and MaxClicks clicks for the     *)
(* hasty one, whose sessions overlap.                                        *)
Sized == IF user = "polite" THEN clicks' = 0 ELSE life'[k2] = "none"

SizedSpec == Init /\ [][Next /\ Sized]_vars /\ Fairness
=============================================================================
