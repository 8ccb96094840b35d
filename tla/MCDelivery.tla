----------------------------- MODULE MCDelivery -----------------------------
EXTENDS MCChannelProtocol

(* Three instances in one run: "long", one client takes part, in any number  *)
(* of its own and the host's sessions, as the constants say; "wide", both    *)
(* do, in one session of the host that is closed by the loss of a link if at *)
(* all, with a session more and fewer payloads; "race", one client and fewer *)
(* payloads, and threads count the reserved channels at the same time.       *)
VARIABLE size

Wide == INSTANCE ChannelProtocol WITH MaxSessions <- 3, MaxSent <- 2

Race == INSTANCE ChannelProtocol WITH MaxSent <- 2, Racing <- Nodes

SizedInit == size \in {"long", "wide", "race"} /\ Init

SizedNext ==
  /\ UNCHANGED size
  /\ \/ /\ size = "wide" /\ Wide!Next
        /\ host' \in {"opened", "running", "lost"}
        /\ \A c \in Clients : client'[c] # "leaving"
     \/ /\ \/ size = "long" /\ Next
           \/ size = "race" /\ Race!Next
        /\ \E c \in Clients : \A d \in Clients \ {c} : client'[d] = "off"

SizedSpec == SizedInit /\ [][SizedNext]_<<vars, size>>
=============================================================================
