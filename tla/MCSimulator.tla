---------------------------- MODULE MCSimulator ----------------------------
(***************************************************************************)
(* The parts of the program that live in the simulator's thread and on its *)
(* frames, for TLC: the objects of the gauges, who counts the frames, the  *)
(* variables copied over FSUIPC, and the elements of the gauges.  They     *)
(* share no state, and a behaviour runs one of the four.                   *)
(***************************************************************************)
EXTENDS GaugePool, FrameProvider, FsuipcModule, Elements

VARIABLE part

vars == <<part, poolVars, frameVars, fsuipcVars, elementVars>>

Init ==
  /\ part \in {"panels", "frames", "fsuipc", "elements"}
  /\ PoolInit /\ FrameInit /\ FsuipcInit /\ ElementsInit
  \* the other parts start in one way
  /\ part # "fsuipc" => ~nextIsFullSend
  /\ part # "elements" => kind = "needle"

Panels ==
  /\ part = "panels" /\ PoolNext
  /\ UNCHANGED <<part, frameVars, fsuipcVars, elementVars>>

Frames ==
  /\ part = "frames" /\ FrameNext
  /\ UNCHANGED <<part, poolVars, fsuipcVars, elementVars>>

Variables ==
  /\ part = "fsuipc" /\ FsuipcNext
  /\ UNCHANGED <<part, poolVars, frameVars, elementVars>>

Element ==
  /\ part = "elements" /\ ElementsNext
  /\ UNCHANGED <<part, poolVars, frameVars, fsuipcVars>>

Next == Panels \/ Frames \/ Variables \/ Element

Spec ==
  /\ Init /\ [][Next]_vars
  /\ part = "fsuipc" => FsuipcFairness
  /\ part = "elements" => ElementsFairness
=============================================================================
