--------------------------- MODULE FrameProvider ---------------------------
(***************************************************************************)
(* How the gauges tell the core of a new frame (gauge.cpp, Gauge::callback *)
(* with PANEL_SERVICE_PRE_DRAW).  Flight Simulator has no such call, so    *)
(* one gauge, the provider, counts a frame each time it is drawn, and a    *)
(* gauge that is drawn twice without a new count takes over.  Everything   *)
(* that is sent or written once a frame hangs on it: frameSignal polls the *)
(* FSUIPC variables and moves the aircraft.                                *)
(*                                                                         *)
(* The simulator draws each gauge at most once a frame, in any order and   *)
(* leaving out any of them; it installs gauges at any time.                *)
(***************************************************************************)
EXTENDS Naturals, FiniteSets

CONSTANTS
  Gauges,      (* gauge objects                                              *)
  MaxCount     (* bound: frameCounter, an unsigned long                      *)

ASSUME FrameAssumption == IsFiniteSet(Gauges) /\ MaxCount \in Nat

VARIABLES
  installed,   (* gauges that exist                                          *)
  lastFrame,   (* per gauge: lastFrameCounter                                *)
  provides,    (* per gauge: iProvideFrameCallback                           *)
  frameCounter,(* Gauge::Data::frameCounter, shared by all gauges            *)
  drawn,       (* history: gauges drawn in the present frame                 *)
  fresh,       (* history: gauges installed in the present frame             *)
  acks         (* history: calls of ackNewFrame in the present frame         *)

frameVars == <<installed, lastFrame, provides, frameCounter, drawn, fresh, acks>>

FrameInit ==
  /\ installed = {}
  /\ lastFrame = [g \in Gauges |-> 0]
  /\ provides = [g \in Gauges |-> FALSE]
  /\ frameCounter = 0
  /\ drawn = {}
  /\ fresh = {}
  /\ acks = 0

\* Gauge::Gauge
Install(g) ==
  /\ g \notin installed
  /\ installed' = installed \union {g}
  /\ lastFrame' = [lastFrame EXCEPT ![g] = frameCounter]
  /\ provides' = [provides EXCEPT ![g] = FALSE]
  /\ fresh' = fresh \union {g}
  /\ UNCHANGED <<frameCounter, drawn, acks>>

\* ackNewFrame: the gauge counts a frame and has seen it.
CountFrame(g) ==
  /\ frameCounter < MaxCount
  /\ frameCounter' = frameCounter + 1
  /\ lastFrame' = [lastFrame EXCEPT ![g] = frameCounter + 1]
  /\ acks' = acks + 1

\* Mutant of PreDraw: the former provider counts as well when another took over.
PreDraw_KeepsProviding(g) ==
  /\ g \in installed \ drawn
  /\ drawn' = drawn \union {g}
  /\ \/ /\ provides[g] \/ lastFrame[g] = frameCounter
        /\ CountFrame(g)
        /\ provides' = [provides EXCEPT ![g] = TRUE]
     \/ /\ ~provides[g] /\ lastFrame[g] # frameCounter
        /\ lastFrame' = [lastFrame EXCEPT ![g] = frameCounter]
        /\ UNCHANGED <<provides, frameCounter, acks>>
  /\ UNCHANGED <<installed, fresh>>

\* Mutant of PreDraw: only the provider counts, nobody takes over.
PreDraw_NoTakeOver(g) ==
  /\ g \in installed \ drawn
  /\ drawn' = drawn \union {g}
  /\ \/ /\ lastFrame[g] = frameCounter /\ (provides[g] \/ frameCounter = 0)
        /\ CountFrame(g)
        /\ provides' = [provides EXCEPT ![g] = TRUE]
     \/ /\ lastFrame[g] # frameCounter \/ ~(provides[g] \/ frameCounter = 0)
        /\ lastFrame' = [lastFrame EXCEPT ![g] = frameCounter]
        /\ provides' = [provides EXCEPT ![g] = FALSE]
        /\ UNCHANGED <<frameCounter, acks>>
  /\ UNCHANGED <<installed, fresh>>

\* "I am still the frame provider" or "frame provider missed frame => take over";
\* otherwise "somebody else took over", or it only notes the count.
PreDraw(g) ==
  /\ g \in installed \ drawn
  /\ drawn' = drawn \union {g}
  /\ \/ /\ lastFrame[g] = frameCounter
        /\ CountFrame(g)
        /\ provides' = [provides EXCEPT ![g] = TRUE]
     \/ /\ lastFrame[g] # frameCounter
        /\ lastFrame' = [lastFrame EXCEPT ![g] = frameCounter]
        /\ provides' = [provides EXCEPT ![g] = FALSE]
        /\ UNCHANGED <<frameCounter, acks>>
  /\ UNCHANGED <<installed, fresh>>

NextFrame ==
  /\ drawn \union fresh # {}
  /\ drawn' = {}
  /\ fresh' = {}
  /\ acks' = 0
  /\ UNCHANGED <<installed, lastFrame, provides, frameCounter>>

FrameNext ==
  \/ \E g \in Gauges : Install(g) \/ PreDraw(g)
  \/ NextFrame

FrameSpec == FrameInit /\ [][FrameNext]_frameVars

-----------------------------------------------------------------------------
(* Properties *)

\* The core hears of a frame once, however the provider changes and whichever gauges
\* are left out; only a gauge installed in the middle of a frame may count it again.
AckedOnce == acks <= 1 + Cardinality(fresh \intersect drawn)

\* Frames do not stop while some gauge is drawn: when it is drawn again a frame was
\* counted since the last time, or is counted now.
FramesGoOn ==
  [][\A g \in drawn' \ drawn : frameCounter' > lastFrame[g]]_frameVars

\* The inductive invariant behind AckedOnce: after the count of a frame every gauge
\* not drawn yet is behind, so that only fresh ones can count again.
FrameInv ==
  /\ installed \subseteq Gauges
  /\ lastFrame \in [Gauges -> Nat]
  /\ provides \in [Gauges -> BOOLEAN]
  /\ frameCounter \in Nat
  /\ drawn \subseteq installed
  /\ fresh \subseteq installed
  /\ acks \in Nat
  /\ \A g \in Gauges : lastFrame[g] <= frameCounter
  /\ acks > 0 => \A g \in installed \ (drawn \union fresh) : lastFrame[g] < frameCounter
  /\ AckedOnce
=============================================================================
