-------------------------- MODULE MCLayerDelivery --------------------------
EXTENDS MCReliabilityLayer

(* Three instances in one run: "three", packets of the program that all come *)
(* in time, as the constants say; "late", two packets of any kind, one of    *)
(* which may be repeated late, and the connection may be given up; "parts",  *)
(* two messages in two parts each, whose packets go out once.                *)
VARIABLE size

Late == INSTANCE ReliabilityLayer WITH
  Traffic <- Various, MaxPackets <- 2, MaxLate <- 1

TwoSplit == INSTANCE ReliabilityLayer WITH Traffic <- InParts, MaxPackets <- 4

SizedInit == size \in {"three", "late", "parts"} /\ Init

SizedNext ==
  /\ UNCHANGED size
  /\ \/ size = "three" /\ Next /\ ~dead'
     \/ size = "late" /\ Late!Next
     \/ /\ size = "parts" /\ TwoSplit!Next /\ ~dead'
        /\ wire' \cap RangeOf(resendQueue) \subseteq wire

SizedSpec == SizedInit /\ [][SizedNext]_<<vars, size>>
=============================================================================
