----------------------- MODULE SessionLifecycleProofs -----------------------
(***************************************************************************)
(* Proofs about the life of connections, for any number of connections,    *)
(* sessions and mouse packets.                                             *)
(*                                                                         *)
(* Whoever uses the program: the variables keep their types, a callback    *)
(* that was asked for is under way, and callbackAsync is never entered     *)
(* again from the message loop of a message box it opens.                  *)
(*                                                                         *)
(* With the polite user: the reference counts are exact, no connection is  *)
(* used after it was destroyed, and the end of a session will be reported. *)
(***************************************************************************)
EXTENDS SessionLifecycle, FiniteSetTheorems, TLAPS

-----------------------------------------------------------------------------
(* Type correctness, whoever uses the program.  A thread that works with a   *)
(* connection has one.                                                       *)

Typed ==
  /\ TypeOK
  /\ ui.at \notin {"idle", "asking", "closing"} => ui.con # None

LEMMA ExceptTyped ==
  ASSUME NEW S, NEW T, NEW f \in [S -> T], NEW x \in S, NEW y \in T
  PROVE  [f EXCEPT ![x] = y] \in [S -> T]
OBVIOUS

LEMMA CountsTyped ==
  ASSUME TypeOK, NEW old, NEW new
  PROVE  Counts(old, new) \in [Connections -> Int]
<1>1. ASSUME NEW c \in Connections
      PROVE  refs[c] + (IF c = new THEN 1 ELSE 0) - (IF c = old THEN 1 ELSE 0) \in Int
  <2>1. refs[c] \in Int
    BY DEF TypeOK
  <2> QED BY <2>1
<1> QED BY <1>1 DEF Counts

\* What the assignment of a smart pointer leaves.
LEMMA ExchangeTyped ==
  ASSUME TypeOK, NEW old \in Maybe, NEW new \in Maybe, Exchange(old, new)
  PROVE  /\ refs' \in [Connections -> Int]
         /\ state' \in [Connections -> {"idle", "connecting", "connected", "disconnected"}]
         /\ exit' \in [Connections -> BOOLEAN]
         /\ Doomed(old) \in Maybe /\ Pointer(old, new) \in Maybe
<1>1. Doomed(old) \in Maybe
  BY DEF Doomed, Maybe
<1>2. refs' \in [Connections -> Int]
  BY CountsTyped DEF Exchange
<1>3. state' \in [Connections -> {"idle", "connecting", "connected", "disconnected"}]
  BY DEF TypeOK, Exchange
<1>4. exit' \in [Connections -> BOOLEAN]
  BY DEF TypeOK, Exchange
<1>5. Pointer(old, new) \in Maybe
  BY DEF Pointer
<1> QED BY <1>1, <1>2, <1>3, <1>4, <1>5

LEMMA DeleteTyped ==
  ASSUME TypeOK, NEW c \in Connections, Delete(c)
  PROVE  /\ life' \in [Connections -> {"none", "alive", "deleted"}]
         /\ attached' \in [Connections -> BOOLEAN]
         /\ slot' \in Maybe
BY DEF TypeOK, Delete, Maybe, signals

LEMMA TriggerTyped ==
  ASSUME TypeOK, NEW callee \in Callees, Trigger(callee)
  PROVE  callees' \in SUBSET Callees /\ posted' \in Nat
<1>1. callees' \in SUBSET Callees
  BY DEF TypeOK, Trigger
<1>2. posted' \in Nat
  <2>1. posted \in Nat /\ posted' \in {posted, posted + 1}
    BY DEF TypeOK, Trigger
  <2> QED BY <2>1
<1> QED BY <1>1, <1>2

LEMMA UiTyped ==
  ASSUME Typed, UINext, UNCHANGED user
  PROVE  Typed'
<1> USE DEF objects, signals, async
<1>1. ui \in Ui
  BY DEF Typed, TypeOK
<1>2. CASE \E c \in Connections : UIHost(c) \/ UIWizard(c)
  <2>1. PICK c \in Connections : UIHost(c) \/ UIWizard(c)
    BY <1>2
  <2>2. ui' \in Ui /\ ui'.con = c
    BY <1>1, <2>1 DEF UIHost, UIWizard, Ui, Maybe
  <2>3. c # None
    BY LifecycleAssumption
  <2>4. TypeOK'
    <3>1. refs' = [refs EXCEPT ![c] = 1]
      BY <2>1 DEF UIHost, UIWizard
    <3>2. refs' \in [Connections -> Int]
      <4>1. refs \in [Connections -> Int]
        BY DEF Typed, TypeOK
      <4>2. 1 \in Int
        OBVIOUS
      <4>3. [refs EXCEPT ![c] = 1] \in [Connections -> Int]
        BY <4>1, <4>2, ExceptTyped
      <4> QED BY <3>1, <4>3
    <3>3. /\ life' \in [Connections -> {"none", "alive", "deleted"}]
          /\ state' \in [Connections -> {"idle", "connecting", "connected", "disconnected"}]
      BY <2>1 DEF UIHost, UIWizard, Typed, TypeOK
    <3>4. net' \in [Connections -> {"none", "polling", "losing", "triggering", "receiving",
                                    "handing", "naming", "replying", "exited"}]
      BY <2>1 DEF UIHost, UIWizard, Typed, TypeOK
    <3>5. UNCHANGED <<exit, signals, uiCon, protoCon, async, core, sim, clicks, outcome>>
      BY <2>1 DEF UIHost, UIWizard
    <3> QED BY <2>2, <3>2, <3>3, <3>4, <3>5 DEF Typed, TypeOK
  <2> QED BY <2>2, <2>3, <2>4 DEF Typed
<1>3. CASE UIConnected \/ UISlot \/ UIKeep \/ UIAsk
  <2>1. /\ ui' \in Ui
        /\ ui'.at \notin {"idle", "asking", "closing"} => ui'.con # None
    BY <1>1, <1>3 DEF Typed, UIConnected, UISlot, UIKeep, UIAsk, Ui
  <2>2. slot' \in Maybe
    BY <1>1, <1>3 DEF Typed, TypeOK, UIConnected, UISlot, UIKeep, UIAsk, Ui
  <2> QED BY <1>3, <2>1, <2>2 DEF Typed, TypeOK, UIConnected, UISlot, UIKeep, UIAsk
<1>4. CASE UICancel \/ UIAssign \/ UIStart \/ UIReturn \/ UIStop
  <2>1. ui.con \in Maybe /\ uiCon \in Maybe /\ protoCon \in Maybe /\ None \in Maybe
    BY <1>1 DEF Typed, TypeOK, Ui, Maybe
  <2>2. PICK old \in Maybe, new \in Maybe :
          /\ Exchange(old, new)
          /\ uiCon' \in {uiCon, Pointer(old, new)}
          /\ protoCon' \in {protoCon, Pointer(old, new)}
          /\ \/ ui' = [ui EXCEPT !.at = "slotted", !.join = Doomed(old)]
             \/ ui' = [ui EXCEPT !.at = "started", !.join = Doomed(old)]
             \/ ui' = [ui EXCEPT !.at = "closing", !.join = Doomed(old)]
             \/ ui' = [ui EXCEPT !.at = "assigned", !.join = Doomed(old)]
             \/ ui' = [at |-> "idle", con |-> None, join |-> Doomed(old)]
    BY <1>4, <2>1 DEF UICancel, UIAssign, UIStart, UIReturn, UIStop
  <2>3. /\ refs' \in [Connections -> Int]
        /\ state' \in [Connections -> {"idle", "connecting", "connected", "disconnected"}]
        /\ exit' \in [Connections -> BOOLEAN]
        /\ Doomed(old) \in Maybe /\ Pointer(old, new) \in Maybe
    BY <2>2, ExchangeTyped DEF Typed
  <2>4. ui' \in Ui
    <3>1. Doomed(old) \in Maybe
      BY <2>3
    <3>2. CASE ui' = [at |-> "idle", con |-> None, join |-> Doomed(old)]
      BY <2>1, <3>1, <3>2 DEF Ui
    <3>3. CASE \E at \in {"slotted", "started", "closing", "assigned"} :
                 ui' = [ui EXCEPT !.at = at, !.join = Doomed(old)]
      BY <1>1, <3>1, <3>3 DEF Ui
    <3> QED BY <2>2, <3>2, <3>3
  <2>5. ui'.at \notin {"idle", "asking", "closing"} => ui'.con # None
    <3>1. CASE UICancel \/ UIReturn
      BY <3>1 DEF UICancel, UIReturn
    <3>2. CASE UIStop
      BY <1>1, <3>2 DEF UIStop, Ui
    <3>3. CASE UIAssign \/ UIStart
      <4>1. ui.con # None /\ ui'.con = ui.con
        BY <1>1, <3>3 DEF UIAssign, UIStart, Typed, Ui
      <4> QED BY <4>1
    <3> QED BY <1>4, <3>1, <3>3, <3>2
  <2>6. UNCHANGED <<user, life, net, signals, async, core, sim, clicks, outcome>>
    BY <1>4 DEF UICancel, UIAssign, UIStart, UIReturn, UIStop
  <2> QED BY <2>1, <2>2, <2>3, <2>4, <2>5, <2>6 DEF Typed, TypeOK
<1>5. CASE UIClose
  <2>1. /\ ui' \in Ui
        /\ ui'.at \notin {"idle", "asking", "closing"} => ui'.con # None
        /\ outcome' \in {"null pointer", outcome}
    BY <1>1, <1>5 DEF UIClose, Typed, TypeOK, Ui
  <2> QED BY <1>5, <2>1 DEF UIClose, Typed, TypeOK
<1>6. CASE UICheck \/ UITrigger
  <2>1. /\ ui' \in Ui
        /\ ui'.at \notin {"idle", "asking", "closing"} => ui'.con # None
    BY <1>1, <1>6 DEF UICheck, UITrigger, Typed, Ui, Maybe
  <2>2. CASE UICheck
    BY <2>1, <2>2 DEF UICheck, Typed, TypeOK
  <2>3. CASE UITrigger
    <3>1. ui.con \in Callees
      BY <1>1, <2>3 DEF UITrigger, Typed, Ui, Maybe, Callees
    <3>2. callees' \in SUBSET Callees /\ posted' \in Nat
      BY <2>3, <3>1, TriggerTyped DEF UITrigger, Typed
    <3> QED BY <2>1, <2>3, <3>2 DEF UITrigger, Typed, TypeOK
  <2> QED BY <1>6, <2>2, <2>3
<1>7. CASE UIMark
  <2>1. /\ ui' \in Ui /\ ui.con \in Connections
        /\ ui'.at \notin {"idle", "asking", "closing"} => ui'.con # None
    BY <1>1, <1>7 DEF UIMark, Typed, Ui, Maybe
  <2>2. refs' \in [Connections -> Int]
    <3>1. refs' = [refs EXCEPT ![ui.con] = @ + 1] /\ refs \in [Connections -> Int]
      BY <1>7 DEF UIMark, Typed, TypeOK
    <3>2. refs[ui.con] + 1 \in Int
      BY <2>1, <3>1
    <3> QED BY <2>1, <3>1, <3>2, ExceptTyped
  <2> QED BY <1>7, <2>1, <2>2 DEF UIMark, Typed, TypeOK
<1>8. CASE UIFreed
  BY <1>8 DEF UIFreed, Typed, TypeOK
<1>9. CASE UIDeleted
  <2>1. ui.join \in Connections /\ Delete(ui.join)
    BY <1>1, <1>9 DEF UIDeleted, Ui, Maybe
  <2>2. /\ life' \in [Connections -> {"none", "alive", "deleted"}]
        /\ attached' \in [Connections -> BOOLEAN]
        /\ slot' \in Maybe
    BY <2>1, DeleteTyped DEF Typed
  <2>3. refs' \in [Connections -> Int]
    BY <1>9, CountsTyped DEF UIDeleted, Typed
  <2>4. /\ ui' \in Ui /\ uiCon' \in Maybe /\ protoCon' \in Maybe
        /\ ui'.at = ui.at /\ ui'.con = ui.con
    BY <1>1, <1>9 DEF UIDeleted, Typed, TypeOK, Ui, Maybe
  <2> QED BY <1>9, <2>2, <2>3, <2>4 DEF UIDeleted, Typed, TypeOK
<1> QED BY <1>2, <1>3, <1>4, <1>5, <1>6, <1>7, <1>8, <1>9 DEF UINext

LEMMA NetTyped ==
  ASSUME Typed, NEW c \in Connections, NetNext(c), UNCHANGED user
  PROVE  Typed'
<1> USE DEF objects, signals, async
<1>1. CASE NetAccept(c) \/ NetLose(c) \/ NetExit(c)
  BY <1>1 DEF NetAccept, NetLose, NetExit, Typed, TypeOK
<1>2. CASE NetMark(c)
  <2>1. refs' \in [Connections -> Int]
    <3>1. refs \in [Connections -> Int]
      BY DEF Typed, TypeOK
    <3>2. refs[c] + 1 \in Int
      BY <3>1
    <3>3. [refs EXCEPT ![c] = refs[c] + 1] \in [Connections -> Int]
      BY <3>1, <3>2, ExceptTyped
    <3> QED BY <1>2, <3>3 DEF NetMark
  <2> QED BY <1>2, <2>1 DEF NetMark, Typed, TypeOK
<1>3. CASE NetTrigger(c) \/ NetHand(c)
  <2>1. PICK callee \in Callees : Trigger(callee)
    BY <1>3 DEF NetTrigger, NetHand, Callees
  <2>2. callees' \in SUBSET Callees /\ posted' \in Nat
    BY <2>1, TriggerTyped DEF Typed
  <2> QED BY <1>3, <2>2 DEF NetTrigger, NetHand, Typed, TypeOK
<1>4. CASE NetReceive(c)
  <2>1. clicks' \in Nat
    <3>1. clicks \in Nat /\ clicks' = clicks + 1
      BY <1>4 DEF NetReceive, Typed, TypeOK
    <3> QED BY <3>1
  <2> QED BY <1>4, <2>1 DEF NetReceive, Typed, TypeOK
<1>5. CASE \E byName \in BOOLEAN : NetEnter(c, byName)
  BY <1>5 DEF NetEnter, Typed, TypeOK
<1>6. CASE NetReply(c)
  BY <1>6 DEF NetReply, Typed, TypeOK
<1> QED BY <1>1, <1>2, <1>3, <1>4, <1>5, <1>6 DEF NetNext

LEMMA SimTyped ==
  ASSUME Typed, SimNext, UNCHANGED user
  PROVE  Typed'
<1> USE DEF objects, signals, async
<1>1. sim \in Sim /\ ui \in Ui /\ None \in Maybe /\ sim.con \in Maybe /\ protoCon \in Maybe
      /\ uiCon \in Maybe
  BY DEF Typed, TypeOK, Sim, Maybe
<1>2. CASE SimEnter
  <2>1. posted' \in Nat
    <3>1. posted \in Nat
      BY DEF Typed, TypeOK
    <3>2. posted > 0 /\ posted' = posted - 1
      BY <1>2 DEF SimEnter
    <3> QED BY <3>1, <3>2
  <2>2. sim' \in Sim
    BY <1>1, <1>2 DEF SimEnter, Sim, Typed, TypeOK
  <2> QED BY <1>2, <2>1, <2>2 DEF SimEnter, Typed, TypeOK
<1>3. CASE SimGauge \/ SimOk \/ SimLeave
  <2>1. sim' \in Sim
    BY <1>1, <1>3 DEF SimGauge, SimOk, SimLeave, Sim
  <2> QED BY <1>3, <2>1 DEF SimGauge, SimOk, SimLeave, Typed, TypeOK
<1>4. CASE \E c \in Connections : SimCall(c)
  <2>1. PICK c \in Connections : SimCall(c)
    BY <1>4
  <2>2. outcome' \in {outcome, "freed object"}
    BY <2>1 DEF SimCall
  <2>3. sim' \in Sim
    <3>1. CASE sim' = sim
      BY <1>1, <3>1
    <3>2. CASE \E step \in {"stopping", "releasing"} :
                 sim' = [sim EXCEPT !.at = step, !.con = c, !.left = @ \ {c}]
      BY <1>1, <3>2 DEF Sim, Maybe
    <3> QED BY <2>1, <3>1, <3>2 DEF SimCall
  <2> QED BY <2>1, <2>2, <2>3 DEF SimCall, Typed, TypeOK
<1>5. CASE SimStop \/ SimUnset \/ SimRelease
  <2>1. PICK old \in Maybe :
          /\ Exchange(old, None)
          /\ uiCon' \in {uiCon, Pointer(old, None)}
          /\ protoCon' \in {protoCon, Pointer(old, None)}
          /\ \/ sim' = [sim EXCEPT !.at = "unsetting", !.join = Doomed(old)]
             \/ sim' = [sim EXCEPT !.at = "box", !.join = Doomed(old)]
             \/ sim' = [sim EXCEPT !.at = "calling", !.con = None, !.join = Doomed(old)]
    BY <1>1, <1>5 DEF SimStop, SimUnset, SimRelease
  <2>2. /\ refs' \in [Connections -> Int]
        /\ state' \in [Connections -> {"idle", "connecting", "connected", "disconnected"}]
        /\ exit' \in [Connections -> BOOLEAN]
        /\ Doomed(old) \in Maybe /\ Pointer(old, None) \in Maybe
    BY <1>1, <2>1, ExchangeTyped DEF Typed
  <2>3. sim' \in Sim
    <3>1. CASE \E at \in {"unsetting", "box"} :
                 sim' = [sim EXCEPT !.at = at, !.join = Doomed(old)]
      BY <1>1, <2>2, <3>1 DEF Sim
    <3>2. CASE sim' = [sim EXCEPT !.at = "calling", !.con = None, !.join = Doomed(old)]
      BY <1>1, <2>2, <3>2 DEF Sim
    <3> QED BY <2>1, <3>1, <3>2
  <2>4. UNCHANGED <<user, life, net, signals, async, core, ui, clicks, outcome>>
    BY <1>5 DEF SimStop, SimUnset, SimRelease
  <2> QED BY <1>1, <2>1, <2>2, <2>3, <2>4 DEF Typed, TypeOK
<1>6. CASE SimDeleted
  <2>1. sim.join \in Connections /\ Delete(sim.join)
    BY <1>1, <1>6 DEF SimDeleted, Sim, Maybe
  <2>2. /\ life' \in [Connections -> {"none", "alive", "deleted"}]
        /\ attached' \in [Connections -> BOOLEAN]
        /\ slot' \in Maybe
    BY <2>1, DeleteTyped DEF Typed
  <2>3. sim' \in Sim /\ uiCon' \in Maybe /\ protoCon' \in Maybe
    BY <1>1, <1>6 DEF SimDeleted, Sim
  <2> QED BY <1>6, <2>2, <2>3 DEF SimDeleted, Typed, TypeOK
<1> QED BY <1>2, <1>3, <1>4, <1>5, <1>6 DEF SimNext

LEMMA InitTyped == Init => Typed
BY DEF Init, Typed, TypeOK, Ui, Sim, Maybe

LEMMA StepTyped == Typed /\ [Next]_vars => Typed'
<1> SUFFICES ASSUME Typed, [Next]_vars PROVE Typed'
  OBVIOUS
<1>1. CASE UINext /\ UNCHANGED user
  BY <1>1, UiTyped
<1>2. CASE UNCHANGED user /\ \E c \in Connections : NetNext(c)
  BY <1>2, NetTyped
<1>3. CASE SimNext /\ UNCHANGED user
  BY <1>3, SimTyped
<1>4. CASE Timeout /\ UNCHANGED user
  BY <1>4 DEF Timeout, Typed, TypeOK, objects, signals, async
<1>5. CASE UNCHANGED vars
  BY <1>5 DEF vars, Typed, TypeOK
<1> QED BY <1>1, <1>2, <1>3, <1>4, <1>5 DEF Next

LEMMA TypedHolds == Spec => []Typed
BY InitTyped, StepTyped, PTL DEF Spec

-----------------------------------------------------------------------------
(* The callbacks.  One message stands for all callees: it is in the queue, or *)
(* callbackAsync runs, exactly as long as there is a callee.                  *)

SimSteps == {"idle", "calling", "stopping", "unsetting", "box", "releasing"}

SimShape ==
  /\ sim.at \in SimSteps
  /\ sim = [at |-> sim.at, con |-> sim.con, left |-> sim.left, join |-> sim.join]

CallbackInv ==
  /\ posted \in Nat
  /\ SimShape
  /\ core = IF sim.at = "idle" THEN None ELSE "sim"
  /\ posted <= 1
  /\ posted > 0 => sim.at = "idle"
  /\ callees # {} <=> posted > 0 \/ sim.at # "idle"

LEMMA NoneIsNotSim == None # "sim"
BY LifecycleAssumption

-----------------------------------------------------------------------------
(* The three kinds of steps that matter to the callbacks *)

\* Asking for a callback.
LEMMA TriggerKeepsInv ==
  ASSUME CallbackInv, NEW callee, Trigger(callee), UNCHANGED <<core, sim>>
  PROVE  CallbackInv'
<1>1. sim.at = "idle"
  BY NoneIsNotSim DEF CallbackInv, Trigger
<1>2. CASE callees = {}
  <2>1. posted = 0
    BY <1>2 DEF CallbackInv
  <2>2. posted' = 1 /\ callees' # {}
    BY <1>2, <2>1 DEF Trigger, CallbackInv
  <2> QED BY <1>1, <2>2 DEF CallbackInv, SimShape
<1>3. CASE callees # {}
  <2>1. posted' = posted /\ callees' # {}
    BY <1>3 DEF Trigger
  <2> QED BY <1>1, <1>3, <2>1 DEF CallbackInv, SimShape
<1> QED BY <1>2, <1>3

\* A step of callbackAsync that stays inside it.
LEMMA InsideKeepsInv ==
  ASSUME CallbackInv, UNCHANGED <<callees, posted, core>>,
         sim.at # "idle", SimShape', sim'.at # "idle"
  PROVE  CallbackInv'
BY DEF CallbackInv

\* A step that does not take part.
LEMMA OutsideKeepsInv ==
  ASSUME CallbackInv, UNCHANGED <<callees, posted, core, sim>>
  PROVE  CallbackInv'
BY DEF CallbackInv, SimShape

-----------------------------------------------------------------------------
(* The threads and the callbacks *)

LEMMA UIKeepsInv ==
  ASSUME CallbackInv, UINext
  PROVE  CallbackInv'
<1>1. CASE UITrigger
  BY <1>1, TriggerKeepsInv DEF UITrigger
<1>2. CASE \E c \in Connections : UIHost(c) \/ UIWizard(c)
  <2>1. UNCHANGED <<callees, posted, core, sim>>
    BY <1>2 DEF UIHost, UIWizard, async
  <2> QED BY <2>1, OutsideKeepsInv
<1>3. CASE UIConnected \/ UICancel \/ UIAssign \/ UISlot \/ UIStart \/ UIReturn
  <2>1. UNCHANGED <<callees, posted, core, sim>>
    BY <1>3 DEF UIConnected, UICancel, UIAssign, UISlot, UIStart, UIReturn, async
  <2> QED BY <2>1, OutsideKeepsInv
<1>4. CASE UIAsk \/ UIKeep \/ UIStop \/ UIClose \/ UICheck \/ UIMark \/ UIFreed \/ UIDeleted
  <2>1. UNCHANGED <<callees, posted, core, sim>>
    BY <1>4 DEF UIAsk, UIKeep, UIStop, UIClose, UICheck, UIMark, UIFreed, UIDeleted, async
  <2> QED BY <2>1, OutsideKeepsInv
<1> QED BY <1>1, <1>2, <1>3, <1>4 DEF UINext

LEMMA NetKeepsInv ==
  ASSUME CallbackInv, NEW c \in Connections, NetNext(c)
  PROVE  CallbackInv'
<1>1. CASE NetTrigger(c)
  BY <1>1, TriggerKeepsInv DEF NetTrigger
<1>2. CASE NetHand(c)
  BY <1>2, TriggerKeepsInv DEF NetHand
<1>3. CASE \/ NetAccept(c) \/ NetLose(c) \/ NetMark(c) \/ NetReceive(c)
           \/ (\E byName \in BOOLEAN : NetEnter(c, byName)) \/ NetReply(c) \/ NetExit(c)
  <2>1. UNCHANGED <<callees, posted, core, sim>>
    BY <1>3 DEF NetAccept, NetLose, NetMark, NetReceive, NetEnter, NetReply, NetExit, async
  <2> QED BY <2>1, OutsideKeepsInv
<1> QED BY <1>1, <1>2, <1>3 DEF NetNext

LEMMA SimKeepsInv ==
  ASSUME CallbackInv, SimNext
  PROVE  CallbackInv'
<1>1. CASE SimEnter
  <2>1. /\ sim' = [sim EXCEPT !.at = "calling", !.left = callees]
        /\ posted' = posted - 1 /\ posted = 1
        /\ core' = "sim" /\ callees' = callees /\ callees # {}
    BY <1>1 DEF SimEnter, CallbackInv
  <2>2. SimShape' /\ sim'.at = "calling"
    BY <2>1 DEF SimShape, SimSteps, CallbackInv
  <2> QED BY <2>1, <2>2 DEF CallbackInv
<1>2. CASE SimLeave
  <2>1. /\ sim' = [sim EXCEPT !.at = "idle"]
        /\ posted' = posted /\ core' = None /\ callees' = {} /\ posted = 0
    BY <1>2 DEF SimLeave, CallbackInv
  <2>2. SimShape' /\ sim'.at = "idle"
    BY <2>1 DEF SimShape, SimSteps, CallbackInv
  <2> QED BY <2>1, <2>2 DEF CallbackInv
<1>3. CASE \E c \in Connections : SimCall(c)
  <2>1. PICK c \in Connections : SimCall(c)
    BY <1>3
  <2>2. sim.at = "calling" /\ UNCHANGED <<callees, posted, core>>
    BY <2>1 DEF SimCall, async
  <2>3. \/ sim' = sim
        \/ \E step \in {"stopping", "releasing"} :
             sim' = [sim EXCEPT !.at = step, !.con = c, !.left = @ \ {c}]
    BY <2>1 DEF SimCall
  <2>4. SimShape' /\ sim'.at # "idle"
    BY <2>2, <2>3 DEF SimShape, SimSteps, CallbackInv
  <2> QED BY <2>2, <2>4, InsideKeepsInv
<1>4. CASE SimGauge \/ SimStop \/ SimUnset \/ SimOk \/ SimRelease
  <2>1. sim.at # "idle" /\ UNCHANGED <<callees, posted, core>>
    BY <1>4 DEF SimGauge, SimStop, SimUnset, SimOk, SimRelease, async
  <2>2. SimShape' /\ sim'.at # "idle"
    BY <1>4 DEF SimGauge, SimStop, SimUnset, SimOk, SimRelease, SimShape, SimSteps,
                CallbackInv
  <2> QED BY <2>1, <2>2, InsideKeepsInv
<1>5. CASE SimDeleted
  <2>1. sim' = [sim EXCEPT !.join = None] /\ UNCHANGED <<callees, posted, core>>
    BY <1>5 DEF SimDeleted, async
  <2>2. SimShape' /\ sim'.at = sim.at
    BY <2>1 DEF SimShape, CallbackInv
  <2> QED BY <2>1, <2>2 DEF CallbackInv
<1> QED BY <1>1, <1>2, <1>3, <1>4, <1>5 DEF SimNext

LEMMA InitInv == Init => CallbackInv
BY DEF Init, CallbackInv, SimShape, SimSteps

LEMMA StepInv == CallbackInv /\ [Next]_vars => CallbackInv'
<1> SUFFICES ASSUME CallbackInv, [Next]_vars PROVE CallbackInv'
  OBVIOUS
<1>1. CASE UINext
  BY <1>1, UIKeepsInv
<1>2. CASE \E c \in Connections : NetNext(c)
  BY <1>2, NetKeepsInv
<1>3. CASE SimNext
  BY <1>3, SimKeepsInv
<1>4. CASE Timeout
  BY <1>4, OutsideKeepsInv DEF Timeout, async
<1>5. CASE UNCHANGED vars
  BY <1>5, OutsideKeepsInv DEF vars
<1> QED BY <1>1, <1>2, <1>3, <1>4, <1>5 DEF Next

LEMMA InvHolds == Spec => []CallbackInv
BY InitInv, StepInv, PTL DEF Spec

-----------------------------------------------------------------------------
(* Reference counts.  A step takes a reference, drops one or moves one. *)

\* A step that moves no reference.
LEMMA CountedStays ==
  ASSUME Orderly, UNCHANGED <<refs, exit>>,
         \A c \in Connections : HoldCount(c)' = HoldCount(c)
  PROVE  Counted'
BY DEF Orderly, Counted

\* A reference to k is taken for its callback.
LEMMA CountedTakes ==
  ASSUME TypeOK, Orderly, NEW k \in Connections, ~exit[k], exit' = exit,
         refs' = [refs EXCEPT ![k] = @ + 1],
         \A c \in Connections : HoldCount(c)' = HoldCount(c) + One(c = k)
  PROVE  Counted'
<1>1. ASSUME NEW c \in Connections PROVE refs'[c] = IF exit'[c] THEN 0 ELSE HoldCount(c)'
  <2>1. refs[c] = IF exit[c] THEN 0 ELSE HoldCount(c)
    BY DEF Orderly, Counted
  <2>2. HoldCount(c)' = HoldCount(c) + One(c = k)
    OBVIOUS
  <2>3. CASE c = k
    <3>1. refs'[c] = refs[c] + 1
      BY <2>3 DEF TypeOK
    <3> QED BY <2>1, <2>2, <2>3, <3>1 DEF One
  <2>4. CASE c # k
    <3>1. refs'[c] = refs[c]
      BY <2>4 DEF TypeOK
    <3>2. HoldCount(c) \in Int
      BY DEF HoldCount, One
    <3> QED BY <2>1, <2>2, <2>4, <3>1, <3>2 DEF One
  <2> QED BY <2>3, <2>4
<1> QED BY <1>1 DEF Counted

LEMMA Spared ==
  ASSUME TypeOK, NEW old, NEW new, Exchange(old, new), Doomed(old) = None
  PROVE  /\ Pointer(old, new) = new
         /\ state' = state /\ exit' = exit
         /\ \A c \in Connections : refs'[c] = refs[c] + One(c = new) - One(c = old)
<1>1. \A c \in Connections : c # None
  BY LifecycleAssumption
<1>2. state' = state
  BY <1>1 DEF TypeOK, Exchange
<1>3. exit' = exit
  BY <1>1 DEF TypeOK, Exchange
<1>4. \A c \in Connections : refs'[c] = refs[c] + One(c = new) - One(c = old)
  BY DEF TypeOK, Exchange, Counts, One
<1> QED BY <1>2, <1>3, <1>4 DEF Pointer

\* A connection that the UI and somebody else hold.
HeldTwice(c) ==
  /\ uiCon = c /\ ~exit[c]
  /\ protoCon = c \/ c \in Due \/ (ui.con = c /\ ui.at = "started")

LEMMA TwoHolders ==
  ASSUME Orderly, NEW c \in Connections, HeldTwice(c)
  PROVE  Doomed(c) = None
<1>1. refs[c] = HoldCount(c)
  BY DEF Orderly, Counted, HeldTwice
<1>2. HoldCount(c) # 1
  BY DEF HoldCount, One, HeldTwice
<1> QED BY <1>1, <1>2 DEF Doomed

\* A pointer that is assigned moves one reference.
LEMMA CountedMoves ==
  ASSUME TypeOK, Orderly, NEW old, NEW new, Exchange(old, new), Doomed(old) = None,
         \A c \in Connections : HoldCount(c)' = HoldCount(c) + One(c = new) - One(c = old),
         \A c \in Connections : exit[c] => c # old /\ c # new
  PROVE  Counted'
<1>1. ASSUME NEW c \in Connections PROVE refs'[c] = IF exit'[c] THEN 0 ELSE HoldCount(c)'
  <2>1. refs[c] = IF exit[c] THEN 0 ELSE HoldCount(c)
    BY DEF Orderly, Counted
  <2>2. HoldCount(c)' = HoldCount(c) + One(c = new) - One(c = old)
    OBVIOUS
  <2>3. refs'[c] = refs[c] + One(c = new) - One(c = old) /\ exit'[c] = exit[c]
    BY Spared
  <2>4. CASE exit[c]
    BY <2>1, <2>3, <2>4 DEF One
  <2>5. CASE ~exit[c]
    BY <2>1, <2>2, <2>3, <2>5
  <2> QED BY <2>4, <2>5
<1> QED BY <1>1 DEF Counted

\* The last reference to a connection is dropped.
LEMMA LastDropped ==
  ASSUME TypeOK, NEW k \in Connections, Exchange(k, None), Doomed(k) # None
  PROVE  /\ Doomed(k) = k /\ refs[k] = 1
         /\ exit'[k] /\ refs'[k] = 0
         /\ \A c \in Connections \ {k} :
              exit'[c] = exit[c] /\ state'[c] = state[c] /\ refs'[c] = refs[c]
<1>1. Doomed(k) = k /\ refs[k] = 1
  BY DEF Doomed
<1>2. k # None
  BY LifecycleAssumption
<1>3. refs' = Counts(k, None)
  BY <1>1, <1>2 DEF Exchange
<1>4. exit'[k] /\ \A c \in Connections \ {k} : exit'[c] = exit[c]
  BY <1>1 DEF Exchange, TypeOK
<1>5. \A c \in Connections \ {k} : state'[c] = state[c]
  BY <1>1 DEF Exchange
<1>6. ASSUME NEW c \in Connections PROVE refs'[c] = IF c = k THEN 0 ELSE refs[c]
  <2>1. refs'[c] = refs[c] + (IF c = None THEN 1 ELSE 0) - (IF c = k THEN 1 ELSE 0)
    BY <1>3 DEF Counts
  <2>2. c # None /\ refs[c] \in Int
    BY LifecycleAssumption DEF TypeOK
  <2> QED BY <1>1, <2>1, <2>2
<1> QED BY <1>1, <1>4, <1>5, <1>6

LEMMA CountedEnds ==
  ASSUME TypeOK, Orderly, NEW k \in Connections, Exchange(k, None), Doomed(k) # None, ~exit[k],
         \A c \in Connections : HoldCount(c)' = HoldCount(c) - One(c = k)
  PROVE  Counted' /\ HoldCount(k) = 1
<1>1. HoldCount(k) = 1 /\ refs[k] = 1
  BY LastDropped DEF Orderly, Counted
<1>2. ASSUME NEW c \in Connections PROVE refs'[c] = IF exit'[c] THEN 0 ELSE HoldCount(c)'
  <2>1. refs[c] = IF exit[c] THEN 0 ELSE HoldCount(c)
    BY DEF Orderly, Counted
  <2>2. HoldCount(c)' = HoldCount(c) - One(c = k)
    OBVIOUS
  <2>3. CASE c = k
    BY <2>3, LastDropped
  <2>4. CASE c # k
    <3>1. refs'[c] = refs[c] /\ exit'[c] = exit[c]
      BY <2>4, LastDropped
    <3>2. HoldCount(c) \in Int
      BY DEF HoldCount, One
    <3> QED BY <2>1, <2>2, <2>4, <3>1, <3>2 DEF One
  <2> QED BY <2>3, <2>4
<1> QED BY <1>1, <1>2 DEF Counted

-----------------------------------------------------------------------------
(* The order of the UI thread's steps *)

LEMMA OpenKeeps ==
  ASSUME TypeOK, Orderly, user = "polite", NEW c \in Connections, UIHost(c) \/ UIWizard(c)
  PROVE  Orderly'
<1> USE DEF objects, signals, async
<1>1. /\ ui'.at \in {"opened", "connecting"} /\ ui'.con = c /\ ui'.join = None
      /\ ui.at = "idle" /\ ui.con = None /\ ui.join = None
      /\ sim.at = "idle" /\ uiCon = None /\ slot = None /\ protoCon = None
  BY DEF UIHost, UIWizard, MayOpen, UiOrder, SimOrder, SlotOrder, Orderly, TypeOK, Ui, Sim
<1>2. Due' = Due
  BY DEF UIHost, UIWizard, Due
<1>3. /\ life[c] = "none" /\ ~exit[c] /\ net[c] = "none"
      /\ c \notin Due /\ c # None /\ c \notin callees
  BY LifecycleAssumption DEF UIHost, UIWizard, Orderly, LifeOrder
<1>4. /\ refs' = [refs EXCEPT ![c] = 1] /\ exit' = exit
      /\ net' = [net EXCEPT ![c] = "polling"]
      /\ UNCHANGED <<uiCon, protoCon, exit>>
  BY DEF UIHost, UIWizard
<1>5. ASSUME NEW k \in Connections PROVE refs'[k] = IF exit'[k] THEN 0 ELSE HoldCount(k)'
  <2>1. CASE k = c
    <3>1. refs'[c] = 1 /\ ~exit'[c] /\ net'[c] = "polling"
      BY <1>3, <1>4 DEF TypeOK
    <3>2. uiCon' = None /\ protoCon' = None /\ c \notin Due'
      BY <1>1, <1>2, <1>3, <1>4
    <3>3. HoldCount(c)' = 1
      BY <1>1, <1>3, <3>1, <3>2 DEF HoldCount, One
    <3> QED BY <2>1, <3>1, <3>3
  <2>2. CASE k # c
    <3>1. refs'[k] = refs[k] /\ net'[k] = net[k]
      BY <1>4, <2>2 DEF TypeOK
    <3>2. HoldCount(k)' = HoldCount(k)
      BY <1>1, <1>2, <1>4, <2>2, <3>1 DEF HoldCount, One
    <3> QED BY <1>4, <3>1, <3>2 DEF Orderly, Counted
  <2> QED BY <2>1, <2>2
<1>6. UiOrder'
  <2>1. /\ net'[c] = "polling"
        /\ ui'.at = "opened" => state'[c] = "connected"
        /\ UNCHANGED <<uiCon, protoCon, slot>>
    BY DEF UIHost, UIWizard, TypeOK, Ui
  <2>2. ui'.at = "opened" => Steady(c)'
    BY <2>1 DEF Steady
  <2> QED BY <1>1, <1>3, <2>1, <2>2 DEF UiOrder, Steady
<1>7. SimOrder' /\ SlotOrder'
  BY <1>1 DEF UIHost, UIWizard, SimOrder, SlotOrder, Orderly
<1>8. ASSUME NEW k \in Connections PROVE LifeOrder(k)'
  <2>1. UNCHANGED <<exit, uiCon, protoCon, slot, callees>>
    BY DEF UIHost, UIWizard
  <2>2. CASE k = c
    <3>1. life'[k] = "alive" /\ net'[k] = "polling"
      BY <2>2 DEF UIHost, UIWizard, TypeOK
    <3> QED BY <1>2, <1>3, <2>1, <2>2, <3>1 DEF LifeOrder
  <2>3. CASE k # c
    <3>1. life'[k] = life[k] /\ net'[k] = net[k] /\ state'[k] = state[k]
      BY <2>3 DEF UIHost, UIWizard, TypeOK
    <3> QED BY <1>1, <1>2, <2>1, <2>3, <3>1 DEF LifeOrder, Orderly
  <2> QED BY <2>2, <2>3
<1> QED BY <1>5, <1>6, <1>7, <1>8 DEF UIHost, UIWizard, Orderly, Counted

LEMMA UIConnectedKeeps ==
  ASSUME TypeOK, Orderly, user = "polite", UIConnected
  PROVE  Orderly'
<1> USE DEF objects, signals, async
<1>1. /\ ui.at = "connecting" /\ ui.con \in Connections /\ ui.con # None /\ ui.join = None
      /\ state[ui.con] = "connected" /\ net[ui.con] # "losing" /\ uiCon = None /\ slot = None
  BY LifecycleAssumption DEF UIConnected, UiOrder, Orderly, TypeOK, Ui, Maybe
<1>2. Steady(ui.con)
  BY <1>1 DEF Orderly, LifeOrder, Steady
<1>3. ui'.at = "opened" /\ ui'.con = ui.con /\ ui'.join = None
  BY <1>1 DEF UIConnected, TypeOK, Ui
<1>4. UNCHANGED <<life, state, refs, exit, net, signals, uiCon, protoCon, async, core, sim,
                   outcome>>
  BY DEF UIConnected
<1>5. Due' = Due
  BY <1>4 DEF Due
<1>6. Counted'
  <2>1. \A c \in Connections : HoldCount(c)' = HoldCount(c)
    BY <1>1, <1>3, <1>4, <1>5 DEF HoldCount, One
  <2> QED BY <1>4, <2>1, CountedStays
<1>7. UiOrder'
  BY <1>1, <1>2, <1>3, <1>4 DEF UiOrder, Steady
<1>8. SimOrder' /\ SlotOrder'
  BY <1>1, <1>3, <1>4 DEF Orderly, SimOrder, SlotOrder
<1>9. ASSUME NEW c \in Connections PROVE LifeOrder(c)'
  BY <1>3, <1>4, <1>5 DEF Orderly, LifeOrder
<1> QED BY <1>4, <1>6, <1>7, <1>8, <1>9 DEF Orderly

LEMMA UICancelKeeps ==
  ASSUME TypeOK, Orderly, user = "polite", UICancel
  PROVE  Orderly'
<1> USE DEF objects, signals, async
<1> DEFINE k == ui.con
<1>1. /\ ui.at = "connecting" /\ k \in Connections /\ k # None /\ net[k] = "polling"
      /\ uiCon = None /\ slot = None /\ protoCon = None /\ ui.join = None /\ ~exit[k]
      /\ life[k] # "none"
  BY LifecycleAssumption DEF UICancel, UiOrder, SlotOrder, LifeOrder, Orderly, TypeOK, Ui, Maybe
<1>2. ui'.at = "idle" /\ ui'.con = None /\ ui'.join = Doomed(k)
  BY DEF UICancel
<1>3. UNCHANGED <<life, net, signals, uiCon, protoCon, async, core, sim, outcome>>
  BY DEF UICancel
<1>4. Due' = Due
  BY <1>3 DEF Due
<1>5. ASSUME NEW c \in Connections
      PROVE  /\ HoldCount(c)' = HoldCount(c) - One(c = k)
             /\ c # None
  <2>1. c # None
    BY LifecycleAssumption
  <2> QED BY <1>1, <1>2, <1>3, <1>4, <2>1 DEF HoldCount, One
<1>6. CASE Doomed(k) = None
  <2>1. /\ state' = state /\ exit' = exit
        /\ \A c \in Connections : refs'[c] = refs[c] + One(c = None) - One(c = k)
    BY <1>6, Spared DEF UICancel
  <2>2. Counted'
    <3>1. ASSUME NEW c \in Connections
          PROVE  HoldCount(c)' = HoldCount(c) + One(c = None) - One(c = k)
      <4>1. HoldCount(c)' = HoldCount(c) - One(c = k) /\ c # None
        BY <1>5
      <4>2. HoldCount(c) \in Int
        BY DEF HoldCount, One
      <4> QED BY <4>1, <4>2 DEF One
    <3>2. \A c \in Connections : exit[c] => c # k /\ c # None
      BY <1>1, <1>5
    <3>3. Exchange(k, None)
      BY DEF UICancel
    <3> QED BY <1>6, <3>1, <3>2, <3>3, CountedMoves
  <2>3. UiOrder'
    BY <1>2, <1>6 DEF UiOrder
  <2>4. SimOrder' /\ SlotOrder'
    BY <1>1, <1>2, <1>3, <2>1 DEF Orderly, SimOrder, SlotOrder
  <2>5. ASSUME NEW c \in Connections PROVE LifeOrder(c)'
    BY <1>2, <1>3, <1>4, <1>5, <2>1 DEF Orderly, LifeOrder
  <2> QED BY <1>3, <2>2, <2>3, <2>4, <2>5 DEF Orderly, Counted
<1>7. CASE Doomed(k) # None
  <2>1. Exchange(k, None)
    BY DEF UICancel
  <2>2. Doomed(k) = k
    BY <1>1, <1>7, <2>1, LastDropped
  <2>3. /\ exit'[k]
        /\ \A c \in Connections \ {k} : exit'[c] = exit[c] /\ state'[c] = state[c]
    BY <1>1, <1>7, <2>1, LastDropped
  <2>4. Counted' /\ HoldCount(k) = 1
    BY <1>1, <1>5, <1>7, <2>1, CountedEnds
  <2>5. k \notin Due
    BY <1>1, <2>4 DEF HoldCount, One
  <2>6. UiOrder'
    BY <1>1, <1>2, <1>3, <2>2, <2>3 DEF UiOrder
  <2>7. SimOrder' /\ SlotOrder'
    <3>1. ASSUME sim.join # None PROVE exit'[sim.join]
      BY <2>3, <3>1 DEF Orderly, SimOrder, TypeOK, Sim, Maybe
    <3> QED BY <1>1, <1>2, <1>3, <3>1 DEF Orderly, SimOrder, SlotOrder
  <2>8. ASSUME NEW c \in Connections PROVE LifeOrder(c)'
    <3>1. LifeOrder(c)
      BY DEF Orderly
    <3>2. CASE c = k
      BY <1>1, <1>2, <1>3, <1>4, <1>5, <2>5, <2>3, <3>1, <3>2 DEF LifeOrder
    <3>3. CASE c # k
      BY <1>1, <1>2, <1>3, <1>4, <1>5, <2>3, <3>1, <3>3 DEF LifeOrder
    <3> QED BY <3>2, <3>3
  <2> QED BY <1>3, <2>4, <2>6, <2>7, <2>8 DEF Orderly, Counted
<1> QED BY <1>6, <1>7

LEMMA UIAssignKeeps ==
  ASSUME TypeOK, Orderly, UIAssign
  PROVE  Orderly'
<1> USE DEF objects, signals, async
<1>1. /\ ui.at = "opened" /\ ui.con \in Connections /\ ui.con # None /\ ui.join = None
      /\ uiCon = None /\ slot = None /\ protoCon = None /\ Steady(ui.con)
  BY LifecycleAssumption DEF UIAssign, UiOrder, SlotOrder, Orderly, TypeOK, Ui, Maybe
<1>2. Doomed(uiCon) = None
  BY <1>1 DEF Doomed
<1>3. /\ state' = state /\ exit' = exit /\ uiCon' = ui.con
      /\ \A c \in Connections : refs'[c] = refs[c] + One(c = ui.con) - One(c = uiCon)
  BY <1>2, Spared DEF UIAssign
<1>4. /\ ui'.at = "assigned" /\ ui'.con = ui.con /\ ui'.join = None
  BY <1>1, <1>2 DEF UIAssign, TypeOK, Ui
<1>5. UNCHANGED <<life, net, signals, protoCon, async, core, sim, outcome>>
  BY DEF UIAssign
<1>6. Due' = Due
  BY <1>5 DEF Due
<1>7. ui.con \notin Due /\ ~exit[ui.con] /\ life[ui.con] # "none"
  BY <1>1 DEF Orderly, LifeOrder, Steady
<1>8. Counted'
  <2>1. \A c \in Connections : c # None
    BY LifecycleAssumption
  <2>2. ASSUME NEW c \in Connections
        PROVE  HoldCount(c)' = HoldCount(c) + One(c = ui.con) - One(c = uiCon)
    <3>1. CASE c = ui.con \/ c = uiCon
      BY <1>1, <1>3, <1>4, <1>5, <1>6, <1>7, <2>1, <3>1 DEF HoldCount, One
    <3>2. CASE c # ui.con /\ c # uiCon
      BY <1>1, <1>3, <1>4, <1>5, <1>6, <1>7, <2>1, <3>2 DEF HoldCount, One
    <3> QED BY <3>1, <3>2
  <2>3. \A c \in Connections : exit[c] => c # uiCon /\ c # ui.con
    BY <1>1, <1>7, <2>1
  <2>4. Exchange(uiCon, ui.con)
    BY DEF UIAssign
  <2> QED BY <1>2, <2>2, <2>3, <2>4, CountedMoves
<1>9. UiOrder'
  BY <1>1, <1>3, <1>4, <1>5 DEF UiOrder, Steady
<1>10. SimOrder'
  <2>1. sim.con # ui.con
    BY <1>1, <1>7, LifecycleAssumption DEF Due, Orderly, SimOrder
  <2>2. sim.at \notin {"stopping", "unsetting"}
    BY <1>1 DEF Orderly, SimOrder
  <2> QED BY <1>3, <1>5, <2>1, <2>2 DEF Orderly, SimOrder
<1>11. SlotOrder'
  BY <1>1, <1>3, <1>4, <1>5 DEF Orderly, SlotOrder
<1>12. ASSUME NEW k \in Connections PROVE LifeOrder(k)'
  BY <1>1, <1>3, <1>4, <1>5, <1>6, <1>7 DEF Orderly, LifeOrder
<1> QED BY <1>5, <1>8, <1>9, <1>10, <1>11, <1>12 DEF Orderly, Counted

LEMMA UISlotKeeps ==
  ASSUME TypeOK, Orderly, UISlot
  PROVE  Orderly'
<1> USE DEF objects, signals, async
<1>1. /\ ui.at = "assigned" /\ ui.con \in Connections /\ ui.con # None /\ ui.join = None
      /\ uiCon = ui.con /\ slot = None /\ protoCon = None /\ Steady(ui.con)
  BY LifecycleAssumption DEF UISlot, UiOrder, Orderly, TypeOK, Ui, Maybe
<1>2. ui'.at = "slotted" /\ ui'.con = ui.con /\ ui'.join = None /\ slot' = ui.con
  BY <1>1 DEF UISlot, TypeOK, Ui
<1>3. UNCHANGED <<life, state, refs, exit, net, uiCon, protoCon, async, core, sim, outcome>>
  BY DEF UISlot
<1>4. Due' = Due
  BY <1>3 DEF Due
<1>5. Counted'
  <2>1. \A c \in Connections : HoldCount(c)' = HoldCount(c)
    BY <1>1, <1>2, <1>3, <1>4 DEF HoldCount, One
  <2> QED BY <1>3, <2>1, CountedStays
<1>6. UiOrder'
  BY <1>1, <1>2, <1>3 DEF UiOrder, Steady
<1>7. SimOrder'
  BY <1>3 DEF Orderly, SimOrder
<1>8. SlotOrder'
  <2>1. \A c \in Connections : ~attached[c] /\ c # None
    BY <1>1, LifecycleAssumption DEF Orderly, SlotOrder
  <2>2. \A c \in Connections : attached'[c] <=> c = ui.con
    BY <2>1 DEF UISlot, TypeOK
  <2> QED BY <1>1, <1>2, <1>3, <2>2 DEF SlotOrder
<1>9. ASSUME NEW c \in Connections PROVE LifeOrder(c)'
  <2>1. life[ui.con] # "none"
    BY <1>1 DEF Orderly, LifeOrder
  <2> QED BY <1>2, <1>3, <1>4, <2>1 DEF Orderly, LifeOrder
<1> QED BY <1>3, <1>5, <1>6, <1>7, <1>8, <1>9 DEF Orderly

LEMMA UIStartKeeps ==
  ASSUME TypeOK, Orderly, UIStart
  PROVE  Orderly'
<1> USE DEF objects, signals, async
<1>1. /\ ui.at = "slotted" /\ ui.con \in Connections /\ ui.con # None /\ ui.join = None
      /\ uiCon = ui.con /\ protoCon = None /\ Steady(ui.con)
  BY LifecycleAssumption DEF UIStart, UiOrder, Orderly, TypeOK, Ui, Maybe
<1>2. Doomed(protoCon) = None
  BY <1>1 DEF Doomed
<1>3. /\ state' = state /\ exit' = exit /\ protoCon' = ui.con
      /\ \A c \in Connections : refs'[c] = refs[c] + One(c = ui.con) - One(c = protoCon)
  BY <1>2, Spared DEF UIStart
<1>4. /\ ui'.at = "started" /\ ui'.con = ui.con /\ ui'.join = None
  BY <1>1, <1>2 DEF UIStart, TypeOK, Ui
<1>5. UNCHANGED <<life, net, signals, uiCon, async, core, sim, outcome>>
  BY DEF UIStart
<1>6. Due' = Due
  BY <1>5 DEF Due
<1>7. ui.con \notin Due /\ ~exit[ui.con] /\ life[ui.con] # "none"
  BY <1>1 DEF Orderly, LifeOrder, Steady
<1>8. Counted'
  <2>1. \A c \in Connections : c # None
    BY LifecycleAssumption
  <2>2. ASSUME NEW c \in Connections
        PROVE  HoldCount(c)' = HoldCount(c) + One(c = ui.con) - One(c = protoCon)
    <3>1. CASE c = ui.con \/ c = uiCon
      BY <1>1, <1>3, <1>4, <1>5, <1>6, <1>7, <2>1, <3>1 DEF HoldCount, One
    <3>2. CASE c # ui.con /\ c # uiCon
      BY <1>1, <1>3, <1>4, <1>5, <1>6, <1>7, <2>1, <3>2 DEF HoldCount, One
    <3> QED BY <3>1, <3>2
  <2>3. \A c \in Connections : exit[c] => c # protoCon /\ c # ui.con
    BY <1>1, <1>7, <2>1
  <2>4. Exchange(protoCon, ui.con)
    BY DEF UIStart
  <2> QED BY <1>2, <2>2, <2>3, <2>4, CountedMoves
<1>9. UiOrder'
  BY <1>1, <1>3, <1>4, <1>5 DEF UiOrder, Steady
<1>10. SimOrder'
  <2>1. sim.at # "unsetting"
    BY <1>1, <1>7, LifecycleAssumption DEF Orderly, SimOrder, Due
  <2> QED BY <1>3, <1>5, <2>1 DEF Orderly, SimOrder
<1>11. SlotOrder'
  BY <1>1, <1>3, <1>4, <1>5 DEF Orderly, SlotOrder
<1>12. ASSUME NEW k \in Connections PROVE LifeOrder(k)'
  BY <1>1, <1>3, <1>4, <1>5, <1>6, <1>7 DEF Orderly, LifeOrder
<1> QED BY <1>5, <1>8, <1>9, <1>10, <1>11, <1>12 DEF Orderly, Counted

LEMMA UIReturnKeeps ==
  ASSUME TypeOK, Orderly, UIReturn
  PROVE  Orderly'
<1> USE DEF objects, signals, async
<1>1. /\ ui.at = "started" /\ ui.con \in Connections /\ ui.con # None /\ ui.join = None
      /\ uiCon = ui.con /\ ~exit[ui.con]
  BY LifecycleAssumption DEF UIReturn, UiOrder, LifeOrder, Orderly, TypeOK, Ui, Maybe
<1>2. Doomed(ui.con) = None
  <2>1. HeldTwice(ui.con)
    BY <1>1 DEF HeldTwice
  <2> QED BY <1>1, <2>1, TwoHolders
<1>3. /\ state' = state /\ exit' = exit
      /\ \A c \in Connections : refs'[c] = refs[c] + One(c = None) - One(c = ui.con)
  BY <1>2, Spared DEF UIReturn
<1>4. /\ ui'.at = "idle" /\ ui'.con = None /\ ui'.join = None
  BY <1>2 DEF UIReturn
<1>5. UNCHANGED <<life, net, signals, uiCon, protoCon, async, core, sim, outcome>>
  BY DEF UIReturn
<1>6. Due' = Due
  BY <1>5 DEF Due
<1>7. Counted'
  <2>1. \A c \in Connections : c # None
    BY LifecycleAssumption
  <2>2. ASSUME NEW c \in Connections
        PROVE  HoldCount(c)' = HoldCount(c) + One(c = None) - One(c = ui.con)
    <3>1. CASE c = ui.con \/ c = uiCon
      BY <1>1, <1>3, <1>4, <1>5, <1>6, <2>1, <3>1 DEF HoldCount, One
    <3>2. CASE c # ui.con /\ c # uiCon
      BY <1>1, <1>3, <1>4, <1>5, <1>6, <2>1, <3>2 DEF HoldCount, One
    <3> QED BY <3>1, <3>2
  <2>3. \A c \in Connections : exit[c] => c # ui.con /\ c # None
    BY <1>1, <2>1
  <2>4. Exchange(ui.con, None)
    BY DEF UIReturn
  <2> QED BY <1>2, <2>2, <2>3, <2>4, CountedMoves
<1>8. UiOrder'
  BY <1>3, <1>4, <1>5 DEF UiOrder
<1>9. SimOrder' /\ SlotOrder'
  BY <1>1, <1>3, <1>4, <1>5 DEF Orderly, SimOrder, SlotOrder
<1>10. ASSUME NEW k \in Connections PROVE LifeOrder(k)'
  <2>1. k # None
    BY LifecycleAssumption
  <2> QED BY <1>1, <1>3, <1>4, <1>5, <1>6, <2>1 DEF Orderly, LifeOrder
<1> QED BY <1>5, <1>7, <1>8, <1>9, <1>10 DEF Orderly, Counted

LEMMA UITurnKeeps ==
  ASSUME TypeOK, Orderly, user = "polite", UIAsk \/ UIKeep \/ UICheck
  PROVE  Orderly'
<1> USE DEF objects, signals, async
<1>1. /\ ui'.con = ui.con /\ ui'.join = None
      /\ \/ /\ ui.at = "idle" /\ ui'.at = "asking" /\ ui.con = None
            /\ uiCon # None /\ Steady(uiCon)
         \/ ui.at = "asking" /\ ui'.at = "idle" /\ ui.con = None
         \/ /\ ui.at = "dropping" /\ ui'.at = "marking" /\ ui.con # None
            /\ uiCon = ui.con /\ Steady(ui.con)
  <2>1. ui \in Ui /\ UiOrder
    BY DEF TypeOK, Orderly
  <2>2. CASE UIAsk
    BY <2>1, <2>2 DEF UIAsk, UiOrder, Ui, Steady
  <2>3. CASE UIKeep
    BY <2>1, <2>3 DEF UIKeep, UiOrder, Ui
  <2>4. CASE UICheck
    BY <2>1, <2>4 DEF UICheck, UiOrder, Ui, Steady
  <2> QED BY <2>2, <2>3, <2>4
<1>2. UNCHANGED <<life, state, refs, exit, net, signals, uiCon, protoCon, async, core, sim,
                   outcome>>
  BY DEF UIAsk, UIKeep, UICheck
<1>3. Due' = Due
  BY <1>2 DEF Due
<1>4. Counted'
  <2>1. \A c \in Connections : HoldCount(c)' = HoldCount(c)
    BY <1>1, <1>2, <1>3 DEF HoldCount, One
  <2> QED BY <1>2, <2>1, CountedStays
<1>5. UiOrder'
  BY <1>1, <1>2 DEF UiOrder, Steady
<1>6. SimOrder' /\ SlotOrder'
  BY <1>1, <1>2 DEF Orderly, SimOrder, SlotOrder
<1>7. ASSUME NEW c \in Connections PROVE LifeOrder(c)'
  BY <1>1, <1>2, <1>3 DEF Orderly, LifeOrder
<1> QED BY <1>2, <1>4, <1>5, <1>6, <1>7 DEF Orderly

LEMMA UIStopKeeps ==
  ASSUME TypeOK, Orderly, UIStop
  PROVE  Orderly'
<1> USE DEF objects, signals, async
<1>1. /\ ui.at = "asking" /\ ui.con = None /\ ui.join = None
      /\ uiCon \in Connections /\ uiCon # None /\ protoCon \in {None, uiCon}
      /\ Steady(uiCon) /\ ~exit[uiCon]
  BY LifecycleAssumption DEF UIStop, UiOrder, SlotOrder, LifeOrder, Orderly, TypeOK, Ui, Maybe
<1>2. Doomed(protoCon) = None
  <2>1. CASE protoCon = None
    BY <2>1 DEF Doomed
  <2>2. CASE protoCon = uiCon
    <3>1. HeldTwice(uiCon)
      BY <1>1, <2>2 DEF HeldTwice
    <3>2. Doomed(uiCon) = None
      BY <1>1, <3>1, TwoHolders
    <3> QED BY <2>2, <3>2
  <2> QED BY <1>1, <2>1, <2>2
<1>3. /\ state' = state /\ exit' = exit /\ protoCon' = None
      /\ \A c \in Connections : refs'[c] = refs[c] + One(c = None) - One(c = protoCon)
  BY <1>2, Spared DEF UIStop
<1>4. /\ ui'.at = "closing" /\ ui'.con = None /\ ui'.join = None
  BY <1>1, <1>2 DEF UIStop, TypeOK, Ui
<1>5. UNCHANGED <<life, net, signals, uiCon, async, core, sim, outcome>>
  BY DEF UIStop
<1>6. Due' = Due
  BY <1>5 DEF Due
<1>7. Counted'
  <2>1. \A c \in Connections : c # None
    BY LifecycleAssumption
  <2>2. ASSUME NEW c \in Connections
        PROVE  HoldCount(c)' = HoldCount(c) + One(c = None) - One(c = protoCon)
    <3>1. CASE c = ui.con \/ c = uiCon
      BY <1>1, <1>3, <1>4, <1>5, <1>6, <2>1, <3>1 DEF HoldCount, One
    <3>2. CASE c # ui.con /\ c # uiCon
      BY <1>1, <1>3, <1>4, <1>5, <1>6, <2>1, <3>2 DEF HoldCount, One
    <3> QED BY <3>1, <3>2
  <2>3. \A c \in Connections : exit[c] => c # protoCon /\ c # None
    BY <1>1, <2>1
  <2>4. Exchange(protoCon, None)
    BY DEF UIStop
  <2> QED BY <1>2, <2>2, <2>3, <2>4, CountedMoves
<1>8. UiOrder'
  BY <1>1, <1>3, <1>4, <1>5 DEF UiOrder, Steady
<1>9. SimOrder' /\ SlotOrder'
  BY <1>1, <1>3, <1>4, <1>5 DEF Orderly, SimOrder, SlotOrder
<1>10. ASSUME NEW k \in Connections PROVE LifeOrder(k)'
  <2>1. k # None
    BY LifecycleAssumption
  <2> QED BY <1>1, <1>3, <1>4, <1>5, <1>6, <2>1 DEF Orderly, LifeOrder
<1> QED BY <1>5, <1>7, <1>8, <1>9, <1>10 DEF Orderly, Counted

LEMMA UICloseKeeps ==
  ASSUME TypeOK, Orderly, user = "polite", UIClose
  PROVE  Orderly'
<1> USE DEF objects, signals, async
<1>1. /\ ui.at = "closing" /\ ui.con = None /\ ui.join = None
      /\ uiCon \in Connections /\ Steady(uiCon)
  BY DEF UIClose, UiOrder, Orderly, TypeOK, Maybe
<1>2. /\ ui'.at = "dropping" /\ ui'.con = uiCon /\ ui'.join = None
      /\ outcome' = outcome
  BY <1>1, LifecycleAssumption DEF UIClose, Steady, TypeOK, Ui
<1>3. UNCHANGED <<life, state, refs, exit, net, signals, uiCon, protoCon, async, core, sim>>
  BY DEF UIClose
<1>4. Due' = Due
  BY <1>3 DEF Due
<1>5. Counted'
  BY <1>1, <1>2, <1>3, <1>4, LifecycleAssumption DEF Counted, Orderly, HoldCount, One
<1>6. UiOrder'
  BY <1>1, <1>2, <1>3, LifecycleAssumption DEF UiOrder, Orderly, Steady
<1>7. SimOrder' /\ SlotOrder'
  BY <1>1, <1>2, <1>3 DEF SimOrder, SlotOrder, Orderly
<1>8. ASSUME NEW k \in Connections PROVE LifeOrder(k)'
  BY <1>1, <1>2, <1>3, <1>4 DEF LifeOrder, Orderly, Steady
<1> QED BY <1>2, <1>5, <1>6, <1>7, <1>8 DEF Orderly

LEMMA UIMarkKeeps ==
  ASSUME TypeOK, Orderly, UIMark
  PROVE  Orderly'
<1> USE DEF objects, signals, async
<1> DEFINE k == ui.con
<1>1. /\ ui.at = "marking" /\ k \in Connections /\ k # None /\ ui.join = None
      /\ uiCon = k /\ Steady(k)
  BY LifecycleAssumption DEF UIMark, UiOrder, Orderly, TypeOK, Ui, Maybe
<1>2. k \notin Due /\ ~exit[k]
  BY <1>1 DEF Orderly, LifeOrder, Steady
<1>3. ui'.at = "triggering" /\ ui'.con = k /\ ui'.join = None
  BY <1>1 DEF UIMark, TypeOK, Ui
<1>4. /\ UNCHANGED <<life, exit, net, signals, uiCon, protoCon, async, core, sim, outcome>>
      /\ refs' = [refs EXCEPT ![k] = @ + 1]
  BY DEF UIMark
<1>5. /\ state'[k] = "disconnected"
      /\ \A c \in Connections \ {k} : state'[c] = state[c]
  BY <1>1 DEF UIMark, TypeOK
<1>6. Due' = Due
  BY <1>4 DEF Due
<1>7. Counted'
  <2>1. ASSUME NEW c \in Connections PROVE HoldCount(c)' = HoldCount(c) + One(c = k)
    BY <1>1, <1>3, <1>4, <1>6 DEF HoldCount, One
  <2> QED BY <1>1, <1>2, <1>4, <2>1, CountedTakes
<1>8. UiOrder'
  BY <1>1, <1>3, <1>4, <1>5 DEF UiOrder, Steady
<1>9. SimOrder' /\ SlotOrder'
  BY <1>1, <1>3, <1>4 DEF Orderly, SimOrder, SlotOrder
<1>10. ASSUME NEW c \in Connections PROVE LifeOrder(c)'
  <2>1. LifeOrder(c)
    BY DEF Orderly
  <2>2. CASE c = k
    BY <1>1, <1>2, <1>3, <1>4, <1>5, <1>6, <2>1, <2>2 DEF LifeOrder, Steady
  <2>3. CASE c # k
    BY <1>3, <1>4, <1>5, <1>6, <2>1, <2>3 DEF LifeOrder
  <2> QED BY <2>2, <2>3
<1> QED BY <1>4, <1>7, <1>8, <1>9, <1>10 DEF Orderly

LEMMA UITriggerKeeps ==
  ASSUME TypeOK, Orderly, UITrigger
  PROVE  Orderly'
<1> USE DEF objects, signals, async
<1> DEFINE k == ui.con
<1>1. /\ ui.at = "triggering" /\ k \in Connections /\ k # None /\ ui.join = None
      /\ uiCon = k /\ state[k] = "disconnected" /\ net[k] \notin {"losing", "triggering"}
  BY LifecycleAssumption DEF UITrigger, UiOrder, Orderly, TypeOK, Ui, Maybe
<1>2. k \notin Due /\ ~exit[k] /\ life[k] # "none"
  BY <1>1 DEF Orderly, LifeOrder
<1>3. ui'.at = "idle" /\ ui'.con = None /\ ui'.join = None
  BY <1>1 DEF UITrigger, TypeOK, Ui
<1>4. UNCHANGED <<life, state, refs, exit, net, signals, uiCon, protoCon, core, sim, outcome>>
  BY DEF UITrigger
<1>5. sim.at = "idle" /\ callees' = callees \union {k}
  BY LifecycleAssumption DEF UITrigger, Trigger, Orderly, SimOrder
<1>6. Due' = Due \union {k}
  BY <1>4, <1>5 DEF Due
<1>7. Counted'
  <2>1. ASSUME NEW c \in Connections PROVE HoldCount(c)' = HoldCount(c)
    <3>1. CASE c = k
      BY <1>1, <1>2, <1>3, <1>4, <1>6, <3>1 DEF HoldCount, One
    <3>2. CASE c # k
      BY <1>1, <1>3, <1>4, <1>6, <3>2, LifecycleAssumption DEF HoldCount, One
    <3> QED BY <3>1, <3>2
  <2> QED BY <1>4, <2>1, CountedStays
<1>8. UiOrder'
  BY <1>3 DEF UiOrder
<1>9. SimOrder' /\ SlotOrder'
  BY <1>1, <1>3, <1>4, <1>5 DEF Orderly, SimOrder, SlotOrder
<1>10. ASSUME NEW c \in Connections PROVE LifeOrder(c)'
  <2>1. LifeOrder(c) /\ c # None
    BY LifecycleAssumption DEF Orderly
  <2>2. CASE c = k
    BY <1>1, <1>2, <1>3, <1>4, <1>6, <2>1, <2>2 DEF LifeOrder
  <2>3. CASE c # k
    BY <1>3, <1>4, <1>5, <1>6, <2>1, <2>3 DEF LifeOrder
  <2> QED BY <2>2, <2>3
<1> QED BY <1>4, <1>7, <1>8, <1>9, <1>10 DEF Orderly

LEMMA NothingFreed ==
  ASSUME TypeOK, Orderly
  PROVE  ~UIFreed
<1> SUFFICES ASSUME UIFreed PROVE FALSE
  OBVIOUS
<1>1. ui.con \in Connections /\ life[ui.con] = "deleted"
  BY DEF UIFreed, Orderly, UiOrder, TypeOK, Ui, Maybe
<1> QED BY <1>1 DEF Orderly, LifeOrder

\* The end of a destructor.
LEMMA DeleteFacts ==
  ASSUME TypeOK, Orderly, NEW k \in Connections, exit[k], Delete(k)
  PROVE  /\ \A c \in Connections : /\ life'[c] \in {life[c], "deleted"}
                                   /\ life'[c] = "deleted" => exit[c]
         /\ slot' = IF slot = k THEN None ELSE slot
         /\ \A c \in Connections : attached'[c] <=> slot' = c
<1>1. \A c \in Connections : c # None /\ (attached[c] <=> slot = c)
  BY LifecycleAssumption DEF Orderly, SlotOrder
<1>2. \A c \in Connections : /\ life'[c] \in {life[c], "deleted"}
                             /\ life'[c] = "deleted" => exit[c]
  BY DEF Delete, Orderly, LifeOrder, TypeOK
<1>3. CASE slot = k
  <2>1. slot' = None /\ attached' = [attached EXCEPT ![k] = FALSE]
    BY <1>1, <1>3 DEF Delete
  <2>2. \A c \in Connections : ~attached'[c]
    BY <1>1, <1>3, <2>1 DEF TypeOK
  <2> QED BY <1>1, <1>2, <1>3, <2>1, <2>2
<1>4. CASE slot # k
  BY <1>1, <1>2, <1>4 DEF Delete, signals
<1> QED BY <1>3, <1>4

LEMMA UIDeletedKeeps ==
  ASSUME TypeOK, Orderly, UIDeleted
  PROVE  Orderly'
<1> USE DEF objects, signals, async
<1> DEFINE k == ui.join
<1>1. /\ k # None /\ ui.at = "idle" /\ ui.con = None /\ exit[k]
  BY DEF UIDeleted, Orderly, UiOrder
<1>2. k \in Connections /\ Delete(k)
  BY <1>1 DEF UIDeleted, TypeOK, Ui, Maybe
<1>3. /\ \A c \in Connections : /\ life'[c] \in {life[c], "deleted"}
                                /\ life'[c] = "deleted" => exit[c]
      /\ slot' = IF slot = k THEN None ELSE slot
      /\ \A c \in Connections : attached'[c] <=> slot' = c
  BY <1>1, <1>2, DeleteFacts
<1>4. /\ ui'.at = "idle" /\ ui'.con = None /\ ui'.join = None
      /\ uiCon' = uiCon /\ protoCon' = protoCon
  BY <1>1 DEF UIDeleted, TypeOK, Ui
<1>5. UNCHANGED <<state, exit, net, async, core, sim, outcome>>
  BY DEF UIDeleted
<1>6. Due' = Due
  BY <1>5 DEF Due
<1>7. \A c \in Connections : refs'[c] = refs[c]
  <2>1. refs' = Counts(None, None)
    BY <1>1 DEF UIDeleted
  <2>2. ASSUME NEW c \in Connections PROVE refs'[c] = refs[c]
    <3>1. refs[c] \in Int /\ c # None
      BY LifecycleAssumption DEF TypeOK
    <3> QED BY <2>1, <3>1 DEF Counts
  <2> QED BY <2>2
<1>8. Counted'
  <2>1. ASSUME NEW c \in Connections PROVE HoldCount(c)' = HoldCount(c)
    BY <1>1, <1>4, <1>5, <1>6 DEF HoldCount, One
  <2> QED BY <1>5, <1>7, <2>1 DEF Orderly, Counted
<1>9. UiOrder'
  BY <1>4 DEF UiOrder
<1>10. SimOrder'
  BY <1>4, <1>5 DEF Orderly, SimOrder
<1>11. SlotOrder'
  <2>1. LifeOrder(k) /\ SlotOrder
    BY <1>2 DEF Orderly
  <2> QED BY <1>1, <1>2, <1>3, <1>4, <1>5, <2>1 DEF LifeOrder, SlotOrder
<1>12. ASSUME NEW c \in Connections PROVE LifeOrder(c)'
  <2>1. LifeOrder(c) /\ c # None
    BY LifecycleAssumption DEF Orderly
  <2> QED BY <1>1, <1>3, <1>4, <1>5, <1>6, <2>1 DEF LifeOrder
<1> QED BY <1>5, <1>8, <1>9, <1>10, <1>11, <1>12 DEF Orderly

LEMMA UIKeepsOrder ==
  ASSUME TypeOK, Orderly, user = "polite", UINext
  PROVE  Orderly'
<1>1. CASE \E c \in Connections : UIHost(c) \/ UIWizard(c)
  BY <1>1, OpenKeeps
<1>2. CASE UIConnected \/ UICancel \/ UIAssign \/ UISlot \/ UIStart \/ UIReturn
  BY <1>2, UIConnectedKeeps, UICancelKeeps, UIAssignKeeps, UISlotKeeps, UIStartKeeps,
     UIReturnKeeps
<1>3. CASE UIAsk \/ UIKeep \/ UIStop \/ UIClose \/ UICheck \/ UIMark \/ UITrigger
  BY <1>3, UITurnKeeps, UIStopKeeps, UICloseKeeps, UIMarkKeeps, UITriggerKeeps
<1>4. CASE UIFreed \/ UIDeleted
  BY <1>4, NothingFreed, UIDeletedKeeps
<1> QED BY <1>1, <1>2, <1>3, <1>4 DEF UINext

-----------------------------------------------------------------------------
(* The order of the network threads' steps *)

\* A network thread disturbs no connection the UI thread relies on.
LEMMA UiOrderStays ==
  ASSUME TypeOK, Orderly, UNCHANGED <<ui, uiCon, protoCon, slot, exit>>,
         \A k \in Connections :
           /\ net[k] \notin {"losing", "triggering"} => net'[k] \notin {"losing", "triggering"}
           /\ net[k] \notin {"losing", "triggering"} /\ state[k] \in {"connected", "disconnected"}
                => state'[k] = state[k]
  PROVE  UiOrder'
<1>1. ASSUME ui.con # None PROVE ui.con \in Connections
  BY <1>1 DEF TypeOK, Ui, Maybe
<1>2. ASSUME uiCon # None PROVE uiCon \in Connections
  BY <1>2 DEF TypeOK, Maybe
<1>3. UiOrder
  BY DEF Orderly
<1>4. ui.at \in {"asking", "closing"} => Steady(uiCon)'
  BY <1>2, <1>3 DEF UiOrder, Steady
<1>5. ui.at \in {"opened", "assigned", "slotted", "started", "dropping", "marking"}
        => Steady(ui.con)'
  BY <1>1, <1>3 DEF UiOrder, Steady
<1>6. ui.at = "triggering" => /\ net'[ui.con] \notin {"losing", "triggering"}
                              /\ state'[ui.con] = "disconnected"
  BY <1>1, <1>3 DEF UiOrder
<1> QED BY <1>3, <1>4, <1>5, <1>6 DEF UiOrder, Steady

\* Nothing but the place of a network thread changes.
LEMMA NetMoveKeeps ==
  ASSUME TypeOK, Orderly, NEW c \in Connections, NEW p,
         net[c] \notin {"none", "losing", "triggering"},
         p \notin {"losing", "triggering"}, net' = [net EXCEPT ![c] = p],
         UNCHANGED <<life, state, refs, exit, signals, uiCon, protoCon, async, core, ui, sim>>,
         outcome' # "freed object"
  PROVE  Orderly'
<1> USE DEF objects, signals, async
<1>1. Due' = Due
  BY DEF Due
<1>2. Counted'
  BY <1>1 DEF Counted, Orderly, HoldCount, One, TypeOK
<1>3. UiOrder'
  <2>1. \A k \in Connections :
          net[k] \notin {"losing", "triggering"} => net'[k] \notin {"losing", "triggering"}
    BY DEF TypeOK
  <2> QED BY <2>1, UiOrderStays
<1>4. SimOrder' /\ SlotOrder'
  BY DEF SimOrder, SlotOrder, Orderly
<1>5. ASSUME NEW k \in Connections PROVE LifeOrder(k)'
  BY <1>1 DEF LifeOrder, Orderly, TypeOK
<1> QED BY <1>2, <1>3, <1>4, <1>5 DEF Orderly

LEMMA NetAcceptKeeps ==
  ASSUME TypeOK, Orderly, NEW k \in Connections, NetAccept(k)
  PROVE  Orderly'
<1> USE DEF objects, signals, async
<1>1. net[k] = "polling" /\ ~exit[k] /\ state[k] = "connecting"
  BY DEF NetAccept
<1>2. /\ state'[k] = "connected"
      /\ \A c \in Connections \ {k} : state'[c] = state[c]
  BY DEF NetAccept, TypeOK
<1>3. UNCHANGED <<life, refs, exit, net, signals, uiCon, protoCon, async, core, ui, sim, outcome>>
  BY DEF NetAccept
<1>4. Due' = Due
  BY <1>3 DEF Due
<1>5. Counted'
  <2>1. \A c \in Connections : HoldCount(c)' = HoldCount(c)
    BY <1>3, <1>4 DEF HoldCount
  <2> QED BY <1>3, <2>1, CountedStays
<1>6. UiOrder'
  BY <1>1, <1>2, <1>3, UiOrderStays
<1>7. SimOrder' /\ SlotOrder'
  BY <1>3 DEF Orderly, SimOrder, SlotOrder
<1>8. ASSUME NEW c \in Connections PROVE LifeOrder(c)'
  <2>1. LifeOrder(c)
    BY DEF Orderly
  <2> QED BY <1>1, <1>2, <1>3, <1>4, <2>1 DEF LifeOrder
<1> QED BY <1>3, <1>5, <1>6, <1>7, <1>8 DEF Orderly

LEMMA NetLoseKeeps ==
  ASSUME TypeOK, Orderly, user = "polite", NEW k \in Connections, NetLose(k)
  PROVE  Orderly'
<1> USE DEF objects, signals, async
<1>1. /\ net[k] = "polling" /\ ~exit[k] /\ state[k] \in {"connecting", "connected"}
      /\ ui.at \in {"idle", "connecting"}
  BY DEF NetLose
<1>2. /\ net'[k] = "losing"
      /\ \A c \in Connections \ {k} : net'[c] = net[c]
  BY DEF NetLose, TypeOK
<1>3. UNCHANGED <<life, state, refs, exit, signals, uiCon, protoCon, async, core, ui, sim, outcome>>
  BY DEF NetLose
<1>4. Due' = Due
  BY <1>3 DEF Due
<1>5. Counted'
  <2>1. ASSUME NEW c \in Connections PROVE HoldCount(c)' = HoldCount(c)
    BY <1>1, <1>2, <1>3, <1>4 DEF HoldCount, One
  <2> QED BY <1>3, <2>1, CountedStays
<1>6. UiOrder'
  BY <1>1, <1>3 DEF Orderly, UiOrder
<1>7. SimOrder' /\ SlotOrder'
  BY <1>3 DEF Orderly, SimOrder, SlotOrder
<1>8. ASSUME NEW c \in Connections PROVE LifeOrder(c)'
  <2>1. LifeOrder(c)
    BY DEF Orderly
  <2> QED BY <1>1, <1>2, <1>3, <1>4, <2>1 DEF LifeOrder
<1> QED BY <1>3, <1>5, <1>6, <1>7, <1>8 DEF Orderly

LEMMA NetMarkKeeps ==
  ASSUME TypeOK, Orderly, NEW k \in Connections, NetMark(k)
  PROVE  Orderly'
<1> USE DEF objects, signals, async
<1>1. net[k] = "losing"
  BY DEF NetMark
<1>2. k \notin Due /\ ~exit[k] /\ life[k] # "none"
  BY <1>1 DEF Orderly, LifeOrder
<1>3. /\ state'[k] = "disconnected" /\ net'[k] = "triggering"
      /\ \A c \in Connections \ {k} : state'[c] = state[c] /\ net'[c] = net[c]
  BY DEF NetMark, TypeOK
<1>4. /\ UNCHANGED <<life, exit, signals, uiCon, protoCon, async, core, ui, sim, outcome>>
      /\ refs' = [refs EXCEPT ![k] = @ + 1]
  BY DEF NetMark
<1>5. Due' = Due
  BY <1>4 DEF Due
<1>6. Counted'
  <2>1. ASSUME NEW c \in Connections PROVE HoldCount(c)' = HoldCount(c) + One(c = k)
    <3>1. CASE c = k
      BY <1>1, <1>3, <1>4, <1>5, <3>1 DEF HoldCount, One
    <3>2. CASE c # k
      BY <1>3, <1>4, <1>5, <3>2 DEF HoldCount, One
    <3> QED BY <3>1, <3>2
  <2> QED BY <1>2, <1>4, <2>1, CountedTakes
<1>7. UiOrder'
  BY <1>1, <1>3, <1>4, UiOrderStays
<1>8. SimOrder' /\ SlotOrder'
  BY <1>4 DEF Orderly, SimOrder, SlotOrder
<1>9. ASSUME NEW c \in Connections PROVE LifeOrder(c)'
  <2>1. LifeOrder(c)
    BY DEF Orderly
  <2>2. CASE c = k
    BY <1>1, <1>2, <1>3, <1>4, <1>5, <2>1, <2>2 DEF LifeOrder
  <2>3. CASE c # k
    BY <1>3, <1>4, <1>5, <2>1, <2>3 DEF LifeOrder
  <2> QED BY <2>2, <2>3
<1> QED BY <1>4, <1>6, <1>7, <1>8, <1>9 DEF Orderly

LEMMA NetTriggerKeeps ==
  ASSUME TypeOK, Orderly, NEW k \in Connections, NetTrigger(k)
  PROVE  Orderly'
<1> USE DEF objects, signals, async
<1>1. net[k] = "triggering"
  BY DEF NetTrigger
<1>2. k \notin Due /\ ~exit[k] /\ life[k] # "none" /\ state[k] = "disconnected"
  BY <1>1 DEF Orderly, LifeOrder
<1>3. /\ net'[k] = "polling"
      /\ \A c \in Connections \ {k} : net'[c] = net[c]
  BY DEF NetTrigger, TypeOK
<1>4. UNCHANGED <<life, state, refs, exit, signals, uiCon, protoCon, core, ui, sim, outcome>>
  BY DEF NetTrigger
<1>5. sim.at = "idle" /\ callees' = callees \union {k}
  BY LifecycleAssumption DEF NetTrigger, Trigger, Orderly, SimOrder
<1>6. Due' = Due \union {k}
  BY <1>4, <1>5 DEF Due
<1>7. Counted'
  <2>1. ASSUME NEW c \in Connections PROVE HoldCount(c)' = HoldCount(c)
    <3>1. CASE c = k
      BY <1>1, <1>2, <1>3, <1>4, <1>6, <3>1 DEF HoldCount, One
    <3>2. CASE c # k
      BY <1>3, <1>4, <1>6, <3>2 DEF HoldCount, One
    <3> QED BY <3>1, <3>2
  <2> QED BY <1>4, <2>1, CountedStays
<1>8. UiOrder'
  BY <1>1, <1>3, <1>4, UiOrderStays
<1>9. SimOrder' /\ SlotOrder'
  BY <1>4, <1>5 DEF Orderly, SimOrder, SlotOrder
<1>10. ASSUME NEW c \in Connections PROVE LifeOrder(c)'
  <2>1. LifeOrder(c)
    BY DEF Orderly
  <2>2. CASE c = k
    <3>1. ~(ui.at = "triggering" /\ ui.con = k)
      BY <1>1 DEF Orderly, UiOrder
    <3> QED BY <1>2, <1>3, <1>4, <1>6, <2>1, <2>2, <3>1 DEF LifeOrder
  <2>3. CASE c # k
    BY <1>3, <1>4, <1>5, <1>6, <2>1, <2>3 DEF LifeOrder
  <2> QED BY <2>2, <2>3
<1> QED BY <1>4, <1>7, <1>8, <1>9, <1>10 DEF Orderly

LEMMA NetHandKeeps ==
  ASSUME TypeOK, Orderly, NEW k \in Connections, NetHand(k)
  PROVE  Orderly'
<1> USE DEF objects, signals, async
<1>1. /\ net[k] \in {"naming", "handing"} /\ net'[k] \in {"replying", "polling"}
      /\ \A c \in Connections \ {k} : net'[c] = net[c]
  BY DEF NetHand, TypeOK
<1>2. UNCHANGED <<life, state, refs, exit, signals, uiCon, protoCon, core, ui, sim, outcome>>
  BY DEF NetHand
<1>3. sim.at = "idle" /\ callees' = callees \union {Gauge}
  BY LifecycleAssumption DEF NetHand, Trigger, Orderly, SimOrder
<1>4. \A c \in Connections : /\ c \in Due' <=> c \in Due
                             /\ c \in callees' <=> c \in callees
  BY <1>2, <1>3, LifecycleAssumption DEF Due
<1>5. Counted'
  <2>1. ASSUME NEW c \in Connections PROVE HoldCount(c)' = HoldCount(c)
    BY <1>1, <1>2, <1>4 DEF HoldCount, One
  <2> QED BY <1>2, <2>1, CountedStays
<1>6. UiOrder'
  BY <1>1, <1>2, UiOrderStays
<1>7. SimOrder' /\ SlotOrder'
  BY <1>2, <1>3 DEF Orderly, SimOrder, SlotOrder
<1>8. ASSUME NEW c \in Connections PROVE LifeOrder(c)'
  <2>1. LifeOrder(c)
    BY DEF Orderly
  <2> QED BY <1>1, <1>2, <1>4, <2>1 DEF LifeOrder
<1> QED BY <1>2, <1>5, <1>6, <1>7, <1>8 DEF Orderly

LEMMA NetKeepsOrder ==
  ASSUME TypeOK, Orderly, user = "polite", outcome = "running",
         NEW k \in Connections, NetNext(k)
  PROVE  Orderly'
<1> USE DEF objects, signals, async
<1>1. CASE NetAccept(k) \/ NetLose(k) \/ NetMark(k) \/ NetTrigger(k) \/ NetHand(k)
  BY <1>1, NetAcceptKeeps, NetLoseKeeps, NetMarkKeeps, NetTriggerKeeps, NetHandKeeps
<1>2. CASE \/ NetReceive(k) \/ (\E byName \in BOOLEAN : NetEnter(k, byName))
           \/ NetReply(k) \/ NetExit(k)
  <2>1. PICK p \in {"receiving", "naming", "handing", "polling", "exited"} :
          net' = [net EXCEPT ![k] = p]
    BY <1>2 DEF NetReceive, NetEnter, NetReply, NetExit
  <2>2. net[k] \notin {"none", "losing", "triggering"}
    BY <1>2 DEF NetReceive, NetEnter, NetReply, NetExit
  <2>3. /\ UNCHANGED <<life, state, refs, exit, signals, uiCon, protoCon, async, core, ui, sim>>
        /\ outcome' \in {"running", "null pointer"}
    BY <1>2 DEF NetReceive, NetEnter, NetReply, NetExit
  <2> QED BY <2>1, <2>2, <2>3, NetMoveKeeps
<1> QED BY <1>1, <1>2 DEF NetNext

-----------------------------------------------------------------------------
(* The order of the simulator thread's steps *)

LEMMA SimEnterKeeps ==
  ASSUME TypeOK, Orderly, SimEnter
  PROVE  Orderly'
<1> USE DEF objects, signals, async
<1>1. /\ sim.at = "idle" /\ sim.con = None /\ sim.join = None
      /\ sim'.at = "calling" /\ sim'.con = None /\ sim'.join = None /\ sim'.left = callees
  BY DEF SimEnter, SimOrder, Orderly, TypeOK, Sim
<1>2. Due = callees /\ Due' = callees \union {None}
  BY <1>1 DEF Due
<1>3. \A c \in Connections : c # None
  BY LifecycleAssumption
<1>4. Counted'
  BY <1>2, <1>3 DEF SimEnter, Counted, Orderly, HoldCount, One
<1>5. UiOrder'
  BY DEF SimEnter, UiOrder, Orderly, Steady
<1>6. SimOrder'
  BY <1>1, LifecycleAssumption DEF SimEnter, SimOrder, Orderly, TypeOK, Callees
<1>7. SlotOrder'
  BY <1>1 DEF SimEnter, SlotOrder, Orderly
<1>8. ASSUME NEW k \in Connections PROVE LifeOrder(k)'
  BY <1>2, <1>3 DEF SimEnter, LifeOrder, Orderly
<1> QED BY <1>4, <1>5, <1>6, <1>7, <1>8 DEF SimEnter, Orderly

LEMMA SimInsideKeeps ==
  ASSUME TypeOK, Orderly, SimOk \/ SimLeave \/ SimGauge
  PROVE  Orderly'
<1> USE DEF objects, signals, async
<1>1. /\ sim.join = None /\ sim'.join = None /\ sim'.con = sim.con
      /\ \/ sim.at = "box" /\ sim'.at = "releasing" /\ sim'.left = sim.left
         \/ /\ sim.at = "calling" /\ sim.left = {} /\ sim.con = None
            /\ sim'.at = "idle" /\ sim'.left = {} /\ callees' = {}
         \/ /\ sim.at = "calling" /\ sim.con = None
            /\ sim'.at = "calling" /\ sim'.left = sim.left \ {Gauge}
      /\ sim'.at # "idle" => callees' = callees /\ core' = core
      /\ sim'.at = "idle" => core' = None
  <2>1. sim \in Sim /\ SimOrder
    BY DEF TypeOK, Orderly
  <2>2. CASE SimOk
    BY <2>1, <2>2 DEF SimOk, SimOrder, Sim
  <2>3. CASE SimLeave
    BY <2>1, <2>3 DEF SimLeave, SimOrder, Sim
  <2>4. CASE SimGauge
    BY <2>1, <2>4 DEF SimGauge, SimOrder, Sim
  <2> QED BY <2>2, <2>3, <2>4
<1>2. UNCHANGED <<life, state, refs, exit, net, signals, uiCon, protoCon, ui, outcome>>
  BY DEF SimOk, SimLeave, SimGauge
<1>3. \A c \in Connections : /\ c \in Due' <=> c \in Due
                             /\ c \in callees' => c \in callees
  BY <1>1, LifecycleAssumption DEF Due
<1>4. Counted'
  <2>1. ASSUME NEW c \in Connections PROVE HoldCount(c)' = HoldCount(c)
    BY <1>2, <1>3 DEF HoldCount, One
  <2> QED BY <1>2, <2>1, CountedStays
<1>5. UiOrder'
  BY <1>2 DEF Orderly, UiOrder, Steady
<1>6. SimOrder'
  BY <1>1, <1>2 DEF Orderly, SimOrder
<1>7. SlotOrder'
  BY <1>1, <1>2 DEF Orderly, SlotOrder
<1>8. ASSUME NEW c \in Connections PROVE LifeOrder(c)'
  <2>1. LifeOrder(c)
    BY DEF Orderly
  <2> QED BY <1>2, <1>3, <2>1 DEF LifeOrder
<1> QED BY <1>2, <1>4, <1>5, <1>6, <1>7, <1>8 DEF Orderly

LEMMA SimCallKeeps ==
  ASSUME TypeOK, Orderly, NEW k \in Connections, SimCall(k)
  PROVE  Orderly'
<1> USE DEF objects, signals, async
<1>1. /\ sim.at = "calling" /\ sim.con = None /\ sim.join = None
      /\ k \in sim.left /\ k \in Due /\ k # None
  BY LifecycleAssumption DEF SimCall, Orderly, SimOrder, Due
<1>2. LifeOrder(k) /\ SlotOrder
  BY DEF Orderly
<1>3. /\ life[k] # "deleted" /\ state[k] = "disconnected"
      /\ (ui.at = "assigned" => uiCon # k)
      /\ (attached[k] => uiCon = k) /\ (~attached[k] => uiCon # k)
  <2>1. life[k] # "deleted" /\ state[k] = "disconnected"
    BY <1>1, <1>2 DEF LifeOrder
  <2>2. ui.at = "assigned" => uiCon # k
    BY <2>1 DEF Orderly, UiOrder, Steady
  <2>3. attached[k] <=> slot = k
    BY <1>2 DEF SlotOrder
  <2> QED BY <1>1, <1>2, <2>1, <2>2, <2>3 DEF SlotOrder
<1>4. /\ sim'.at = IF attached[k] THEN "stopping" ELSE "releasing"
      /\ sim'.con = k /\ sim'.left = sim.left \ {k} /\ sim'.join = None
      /\ outcome' = outcome
  BY <1>1, <1>3 DEF SimCall, TypeOK, Sim
<1>5. UNCHANGED <<life, state, refs, exit, net, signals, uiCon, protoCon, async, core, ui>>
  BY DEF SimCall
<1>6. \A c \in Connections : c \in Due' <=> c \in Due
  BY <1>1, <1>4, LifecycleAssumption DEF Due
<1>7. Counted'
  BY <1>5, <1>6 DEF Orderly, Counted, HoldCount, One
<1>8. UiOrder'
  BY <1>5 DEF Orderly, UiOrder, Steady
<1>9. SimOrder'
  BY <1>1, <1>3, <1>4, <1>5 DEF Orderly, SimOrder
<1>10. SlotOrder'
  BY <1>1, <1>4, <1>5 DEF Orderly, SlotOrder
<1>11. ASSUME NEW c \in Connections PROVE LifeOrder(c)'
  BY <1>5, <1>6 DEF Orderly, LifeOrder
<1> QED BY <1>4, <1>7, <1>8, <1>9, <1>10, <1>11 DEF Orderly

\* The session that ends is the one that is shown, and its connection is not
\* the one the UI thread works with.
LEMMA SimEnds ==
  ASSUME TypeOK, Orderly, sim.at \in {"stopping", "unsetting"}
  PROVE  /\ uiCon = sim.con /\ uiCon \in Connections /\ uiCon # None /\ uiCon \in Due
         /\ ~exit[uiCon] /\ state[uiCon] = "disconnected"
         /\ ui.at = "idle" /\ ui.con = None /\ sim.join = None
<1>1. uiCon = sim.con /\ sim.con # None /\ uiCon \in Due /\ sim.join = None
  BY DEF Orderly, SimOrder, Due
<1>2. uiCon \in Connections
  BY <1>1 DEF TypeOK, Maybe
<1>3. LifeOrder(uiCon) /\ UiOrder
  BY <1>2 DEF Orderly
<1>4. /\ state[uiCon] = "disconnected" /\ ~exit[uiCon]
      /\ ui.at = "triggering" => ui.con # uiCon
  BY <1>1, <1>3 DEF LifeOrder
<1>5. ui.at = "idle"
  BY <1>1, <1>3, <1>4 DEF UiOrder, Steady, TypeOK, Ui
<1> QED BY <1>1, <1>2, <1>3, <1>4, <1>5 DEF UiOrder

LEMMA SimStopKeeps ==
  ASSUME TypeOK, Orderly, SimStop
  PROVE  Orderly'
<1> USE DEF objects, signals, async
<1>1. sim.at = "stopping"
  BY DEF SimStop
<1>2. /\ uiCon = sim.con /\ uiCon \in Connections /\ uiCon # None /\ uiCon \in Due
      /\ ~exit[uiCon] /\ state[uiCon] = "disconnected"
      /\ ui.at = "idle" /\ ui.con = None /\ sim.join = None
  BY <1>1, SimEnds
<1>3. protoCon \in {None, uiCon}
  BY DEF Orderly, SlotOrder
<1>4. Doomed(protoCon) = None
  <2>1. HeldTwice(uiCon)
    BY <1>2 DEF HeldTwice
  <2>2. Doomed(uiCon) = None
    BY <1>2, <2>1, TwoHolders
  <2> QED BY <1>3, <2>2 DEF Doomed
<1>5. /\ state' = state /\ exit' = exit /\ protoCon' = None
      /\ \A c \in Connections : refs'[c] = refs[c] + One(c = None) - One(c = protoCon)
  BY <1>4, Spared DEF SimStop
<1>6. /\ sim'.at = "unsetting" /\ sim'.con = sim.con /\ sim'.left = sim.left
      /\ sim'.join = None
  BY <1>4 DEF SimStop, TypeOK, Sim
<1>7. UNCHANGED <<life, net, signals, uiCon, async, core, ui, outcome>>
  BY DEF SimStop
<1>8. Due' = Due
  BY <1>1, <1>6 DEF Due
<1>9. Counted'
  <2>1. \A c \in Connections : c # None
    BY LifecycleAssumption
  <2>2. ASSUME NEW c \in Connections
        PROVE  HoldCount(c)' = HoldCount(c) + One(c = None) - One(c = protoCon)
    BY <1>5, <1>7, <1>8, <2>1 DEF HoldCount, One
  <2>3. \A c \in Connections : exit[c] => c # protoCon /\ c # None
    BY <1>2, <1>3, <2>1
  <2>4. Exchange(protoCon, None)
    BY DEF SimStop
  <2> QED BY <1>4, <2>2, <2>3, <2>4, CountedMoves
<1>10. UiOrder'
  BY <1>2, <1>5, <1>7 DEF Orderly, UiOrder
<1>11. SimOrder' /\ SlotOrder'
  BY <1>1, <1>2, <1>5, <1>6, <1>7 DEF Orderly, SimOrder, SlotOrder
<1>12. ASSUME NEW c \in Connections PROVE LifeOrder(c)'
  <2>1. c # None
    BY LifecycleAssumption
  <2> QED BY <1>5, <1>7, <1>8, <2>1 DEF Orderly, LifeOrder
<1> QED BY <1>7, <1>9, <1>10, <1>11, <1>12 DEF Orderly, Counted

LEMMA SimUnsetKeeps ==
  ASSUME TypeOK, Orderly, SimUnset
  PROVE  Orderly'
<1> USE DEF objects, signals, async
<1>1. sim.at = "unsetting"
  BY DEF SimUnset
<1>2. /\ uiCon = sim.con /\ uiCon \in Connections /\ uiCon # None /\ uiCon \in Due
      /\ ~exit[uiCon] /\ state[uiCon] = "disconnected"
      /\ ui.at = "idle" /\ ui.con = None /\ sim.join = None
  BY <1>1, SimEnds
<1>3. protoCon = None
  BY <1>1 DEF Orderly, SimOrder
<1>4. Doomed(uiCon) = None
  <2>1. HeldTwice(uiCon)
    BY <1>2 DEF HeldTwice
  <2> QED BY <1>2, <2>1, TwoHolders
<1>5. /\ state' = state /\ exit' = exit /\ uiCon' = None
      /\ \A c \in Connections : refs'[c] = refs[c] + One(c = None) - One(c = uiCon)
  BY <1>4, Spared DEF SimUnset
<1>6. /\ sim'.at = "box" /\ sim'.con = sim.con /\ sim'.left = sim.left
      /\ sim'.join = None
  BY <1>4 DEF SimUnset, TypeOK, Sim
<1>7. UNCHANGED <<life, net, signals, protoCon, async, core, ui, outcome>>
  BY DEF SimUnset
<1>8. Due' = Due
  BY <1>1, <1>6 DEF Due
<1>9. Counted'
  <2>1. \A c \in Connections : c # None
    BY LifecycleAssumption
  <2>2. ASSUME NEW c \in Connections
        PROVE  HoldCount(c)' = HoldCount(c) + One(c = None) - One(c = uiCon)
    BY <1>5, <1>7, <1>8, <2>1 DEF HoldCount, One
  <2>3. \A c \in Connections : exit[c] => c # uiCon /\ c # None
    BY <1>2, <2>1
  <2>4. Exchange(uiCon, None)
    BY DEF SimUnset
  <2> QED BY <1>4, <2>2, <2>3, <2>4, CountedMoves
<1>10. UiOrder'
  BY <1>2, <1>5, <1>7 DEF Orderly, UiOrder
<1>11. SimOrder' /\ SlotOrder'
  BY <1>1, <1>2, <1>3, <1>5, <1>6, <1>7 DEF Orderly, SimOrder, SlotOrder
<1>12. ASSUME NEW c \in Connections PROVE LifeOrder(c)'
  <2>1. c # None
    BY LifecycleAssumption
  <2> QED BY <1>5, <1>7, <1>8, <2>1 DEF Orderly, LifeOrder
<1> QED BY <1>7, <1>9, <1>10, <1>11, <1>12 DEF Orderly, Counted

LEMMA SimReleaseKeeps ==
  ASSUME TypeOK, Orderly, SimRelease
  PROVE  Orderly'
<1> USE DEF objects, signals, async
<1> DEFINE k == sim.con
<1>1. /\ sim.at = "releasing" /\ k # None /\ sim.join = None /\ k \in Due /\ uiCon # k
  BY DEF SimRelease, Orderly, SimOrder, Due
<1>2. k \in Connections
  BY <1>1 DEF TypeOK, Sim, Maybe
<1>3. LifeOrder(k) /\ SlotOrder /\ k \notin sim.left
  BY <1>2 DEF Orderly, SimOrder
<1>4. /\ ~exit[k] /\ state[k] = "disconnected" /\ net[k] \notin {"losing", "triggering"}
      /\ protoCon # k
      /\ ui.at = "triggering" => ui.con # k
      /\ life[k] # "none"
  BY <1>1, <1>2, <1>3 DEF LifeOrder, SlotOrder
<1>5. /\ sim'.at = "calling" /\ sim'.con = None /\ sim'.left = sim.left
      /\ sim'.join = Doomed(k)
  BY DEF SimRelease, TypeOK, Sim
<1>6. UNCHANGED <<life, net, signals, uiCon, protoCon, async, core, ui, outcome>>
  BY DEF SimRelease
<1>7. \A c \in Connections : c # None /\ (c \in Due' <=> c \in Due /\ c # k)
  BY <1>1, <1>3, <1>5, LifecycleAssumption DEF Due
<1>8. ASSUME NEW c \in Connections PROVE HoldCount(c)' = HoldCount(c) - One(c = k)
  <2>1. c \in Due' <=> c \in Due /\ c # k
    BY <1>7
  <2>2. One(c \in Due)' = One(c \in Due) - One(c = k)
    BY <1>1, <2>1 DEF One
  <2> QED BY <1>6, <2>2 DEF HoldCount, One
<1>9. Exchange(k, None)
  BY DEF SimRelease
<1>10. CASE Doomed(k) = None
  <2>1. state' = state /\ exit' = exit
    BY <1>9, <1>10, Spared
  <2>2. Counted'
    <3>1. ASSUME NEW c \in Connections
          PROVE  HoldCount(c)' = HoldCount(c) + One(c = None) - One(c = k)
      <4>1. HoldCount(c)' = HoldCount(c) - One(c = k) /\ c # None
        BY <1>7, <1>8
      <4>2. HoldCount(c) \in Int
        BY DEF HoldCount, One
      <4> QED BY <4>1, <4>2 DEF One
    <3>2. \A c \in Connections : exit[c] => c # k /\ c # None
      BY <1>4, <1>7
    <3> QED BY <1>9, <1>10, <3>1, <3>2, CountedMoves
  <2>3. UiOrder'
    BY <1>6, <2>1 DEF Orderly, UiOrder, Steady
  <2>4. SimOrder'
    BY <1>1, <1>5, <1>6, <1>10, <2>1, LifecycleAssumption DEF Orderly, SimOrder, TypeOK, Callees
  <2>5. SlotOrder'
    <3>1. slot # k
      <4> SUFFICES ASSUME slot = k PROVE FALSE
        OBVIOUS
      <4>1. ~(ui.con = k /\ ui.at \in {"connecting", "opened", "assigned", "slotted", "started"})
        BY <1>1, <1>4 DEF Orderly, UiOrder, Steady
      <4>2. HoldCount(k) = 1
        BY <1>1, <1>4, <4>1 DEF HoldCount, One
      <4>3. refs[k] = 1
        BY <1>2, <1>4, <4>2 DEF Orderly, Counted
      <4> QED BY <1>1, <1>10, <4>3 DEF Doomed
    <3> QED BY <1>1, <1>5, <1>6, <3>1 DEF Orderly, SlotOrder
  <2>6. ASSUME NEW c \in Connections PROVE LifeOrder(c)'
    BY <1>6, <1>7, <2>1 DEF Orderly, LifeOrder
  <2> QED BY <1>6, <2>2, <2>3, <2>4, <2>5, <2>6 DEF Orderly
<1>11. CASE Doomed(k) # None
  <2>1. Doomed(k) = k
    BY <1>2, <1>9, <1>11, LastDropped
  <2>2. /\ exit'[k]
        /\ \A c \in Connections \ {k} : exit'[c] = exit[c] /\ state'[c] = state[c]
    BY <1>2, <1>9, <1>11, LastDropped
  <2>3. Counted'
    BY <1>2, <1>4, <1>8, <1>9, <1>11, CountedEnds
  <2>4. ui.con # k
    <3>1. HoldCount(k) = 1
      BY <1>2, <1>4, <1>8, <1>9, <1>11, CountedEnds
    <3>2. ~(ui.con = k /\ ui.at \in {"connecting", "opened", "assigned", "slotted", "started"})
      BY <1>1, <3>1 DEF HoldCount, One
    <3> QED BY <1>1, <1>2, <1>4, <1>7, <3>2 DEF Orderly, UiOrder, TypeOK, Ui
  <2>5. UiOrder'
    <3>1. UiOrder /\ uiCon \in Connections \union {None} /\ ui.con \in Connections \union {None}
          /\ ui.join \in Connections \union {None}
      BY DEF Orderly, TypeOK, Ui, Maybe
    <3> QED BY <1>1, <1>6, <2>2, <2>4, <3>1 DEF UiOrder, Steady
  <2>6. SimOrder'
    <3>1. sim.left \subseteq callees /\ core = "sim"
      BY <1>1 DEF Orderly, SimOrder
    <3>2. None \notin sim.left
      BY <3>1, LifecycleAssumption DEF TypeOK, Callees
    <3>3. sim'.join = k /\ exit'[k]
      BY <1>5, <2>1, <2>2
    <3> QED BY <1>5, <1>6, <3>1, <3>2, <3>3 DEF SimOrder
  <2>7. SlotOrder'
    BY <1>1, <1>5, <1>6, <2>1 DEF Orderly, SlotOrder
  <2>8. ASSUME NEW c \in Connections PROVE LifeOrder(c)'
    <3>1. LifeOrder(c)
      BY DEF Orderly
    <3>2. CASE c = k
      BY <1>1, <1>3, <1>4, <1>6, <1>7, <2>2, <2>4, <3>1, <3>2 DEF LifeOrder
    <3>3. CASE c # k
      BY <1>6, <1>7, <2>2, <3>1, <3>3 DEF LifeOrder
    <3> QED BY <3>2, <3>3
  <2> QED BY <1>6, <2>3, <2>5, <2>6, <2>7, <2>8 DEF Orderly
<1> QED BY <1>10, <1>11

LEMMA SimDeletedKeeps ==
  ASSUME TypeOK, Orderly, SimDeleted
  PROVE  Orderly'
<1> USE DEF objects, signals, async
<1> DEFINE k == sim.join
<1>1. /\ k # None /\ sim.at = "calling" /\ sim.con = None /\ exit[k]
  BY DEF SimDeleted, Orderly, SimOrder
<1>2. k \in Connections /\ Delete(k)
  BY <1>1 DEF SimDeleted, TypeOK, Sim, Maybe
<1>3. /\ \A c \in Connections : /\ life'[c] \in {life[c], "deleted"}
                                /\ life'[c] = "deleted" => exit[c]
      /\ slot' = IF slot = k THEN None ELSE slot
      /\ \A c \in Connections : attached'[c] <=> slot' = c
  BY <1>1, <1>2, DeleteFacts
<1>4. /\ sim'.at = "calling" /\ sim'.con = None /\ sim'.left = sim.left /\ sim'.join = None
      /\ uiCon' = uiCon /\ protoCon' = protoCon
  BY <1>1 DEF SimDeleted, TypeOK, Sim
<1>5. UNCHANGED <<state, refs, exit, net, async, core, ui, outcome>>
  BY DEF SimDeleted
<1>6. Due' = Due
  BY <1>1, <1>4 DEF Due
<1>7. Counted'
  BY <1>4, <1>5, <1>6 DEF Orderly, Counted, HoldCount, One
<1>8. UiOrder'
  BY <1>3, <1>4, <1>5 DEF Orderly, UiOrder, Steady
<1>9. SimOrder'
  BY <1>1, <1>4, <1>5 DEF Orderly, SimOrder
<1>10. SlotOrder'
  <2>1. LifeOrder(k) /\ SlotOrder
    BY <1>2 DEF Orderly
  <2> QED BY <1>1, <1>2, <1>3, <1>4, <1>5, <2>1 DEF LifeOrder, SlotOrder
<1>11. ASSUME NEW c \in Connections PROVE LifeOrder(c)'
  <2>1. LifeOrder(c) /\ c # None
    BY LifecycleAssumption DEF Orderly
  <2> QED BY <1>1, <1>3, <1>4, <1>5, <1>6, <2>1 DEF LifeOrder
<1> QED BY <1>5, <1>7, <1>8, <1>9, <1>10, <1>11 DEF Orderly

LEMMA SimKeepsOrder ==
  ASSUME TypeOK, Orderly, SimNext
  PROVE  Orderly'
<1>1. CASE SimEnter \/ SimGauge \/ SimOk \/ SimLeave
  BY <1>1, SimEnterKeeps, SimInsideKeeps
<1>2. CASE \E c \in Connections : SimCall(c)
  BY <1>2, SimCallKeeps
<1>3. CASE SimStop \/ SimUnset \/ SimRelease \/ SimDeleted
  BY <1>3, SimStopKeeps, SimUnsetKeeps, SimReleaseKeeps, SimDeletedKeeps
<1> QED BY <1>1, <1>2, <1>3 DEF SimNext

-----------------------------------------------------------------------------
(* The polite user *)

LEMMA InitOrderly == Init => Orderly
<1> SUFFICES ASSUME Init PROVE Orderly
  OBVIOUS
<1>1. \A c \in Connections : c # None
  BY LifecycleAssumption
<1>2. Due = {}
  BY DEF Init, Due
<1>3. Counted
  BY <1>1, <1>2 DEF Init, Counted, HoldCount, One
<1>4. UiOrder /\ SimOrder /\ SlotOrder
  BY <1>1 DEF Init, UiOrder, SimOrder, SlotOrder
<1>5. ASSUME NEW c \in Connections PROVE LifeOrder(c)
  BY <1>1, <1>2 DEF Init, LifeOrder
<1> QED BY <1>3, <1>4, <1>5 DEF Orderly, Init

LEMMA StutterKeepsOrder ==
  ASSUME Orderly, outcome' # "freed object",
         UNCHANGED <<objects, net, signals, uiCon, protoCon, async, core, ui, sim>>
  PROVE  Orderly'
<1> USE DEF objects, signals, async
<1>1. Due' = Due
  BY DEF Due
<1>2. Counted'
  BY <1>1 DEF Orderly, Counted, HoldCount
<1>3. UiOrder' /\ SimOrder' /\ SlotOrder'
  BY DEF Orderly, UiOrder, SimOrder, SlotOrder, Steady
<1>4. ASSUME NEW c \in Connections PROVE LifeOrder(c)'
  BY <1>1 DEF Orderly, LifeOrder
<1> QED BY <1>2, <1>3, <1>4 DEF Orderly

LEMMA StepPolite == Typed /\ PoliteInv /\ [Next]_vars => PoliteInv'
<1> SUFFICES ASSUME Typed, PoliteInv, [Next]_vars, user' = "polite" PROVE Orderly'
  BY DEF PoliteInv
<1>1. user = "polite" /\ user' = user
  BY DEF Next, vars
<1>2. TypeOK /\ Orderly
  BY <1>1 DEF Typed, PoliteInv
<1>3. CASE UINext
  BY <1>1, <1>2, <1>3, UIKeepsOrder
<1>4. CASE outcome = "running" /\ \E c \in Connections : NetNext(c)
  BY <1>1, <1>2, <1>4, NetKeepsOrder
<1>5. CASE SimNext
  BY <1>2, <1>5, SimKeepsOrder
<1>6. CASE Timeout
  BY <1>2, <1>6, StutterKeepsOrder DEF Timeout
<1>7. CASE UNCHANGED vars
  <2>1. outcome' # "freed object"
    BY <1>2, <1>7 DEF vars, Orderly
  <2> QED BY <1>2, <1>7, <2>1, StutterKeepsOrder DEF vars, objects, signals, async
<1> QED BY <1>3, <1>4, <1>5, <1>6, <1>7 DEF Next

\* What a set of at most one element adds.
If(b, x) == IF b THEN {x} ELSE {}

LEMMA CountIf ==
  ASSUME NEW b, NEW x, NEW S, IsFiniteSet(S), x \notin S
  PROVE  IsFiniteSet(If(b, x) \union S) /\ Cardinality(If(b, x) \union S) = One(b) + Cardinality(S)
<1>1. Cardinality(S) \in Nat
  BY FS_CardinalityType
<1>2. CASE b
  <2>1. If(b, x) \union S = S \union {x}
    BY <1>2 DEF If
  <2>2. IsFiniteSet(S \union {x}) /\ Cardinality(S \union {x}) = Cardinality(S) + 1
    BY FS_AddElement
  <2>3. One(b) = 1
    BY <1>2 DEF One
  <2>4. Cardinality(If(b, x) \union S) = 1 + Cardinality(S)
    BY <1>1, <2>1, <2>2
  <2> QED BY <2>1, <2>2, <2>3, <2>4
<1>3. CASE ~b
  <2>1. If(b, x) \union S = S
    BY <1>3 DEF If
  <2>2. One(b) = 0
    BY <1>3 DEF One
  <2>3. Cardinality(S) = 0 + Cardinality(S)
    BY <1>1
  <2> QED BY <2>1, <2>2, <2>3
<1> QED BY <1>2, <1>3

LEMMA HoldersCounted ==
  ASSUME NEW c \in Connections
  PROVE  Cardinality(Holders(c)) = HoldCount(c)
<1> DEFINE p1 == ui.con = c /\ ui.at \in {"connecting", "opened", "assigned", "slotted", "started"}
           p2 == uiCon = c
           p3 == protoCon = c
           p4 == ui.at = "triggering" /\ ui.con = c
           p5 == net[c] = "triggering"
           p6 == c \in Due
           S6 == If(p6, "callback") \union {}
           S5 == If(p5, "network") \union S6
           S4 == If(p4, "disconnect") \union S5
           S3 == If(p3, "protocol") \union S4
           S2 == If(p2, "ui") \union S3
           S1 == If(p1, "call") \union S2
<1>1. Holders(c) = S1
  BY DEF Holders, If
<1>2. HoldCount(c) = One(p1) + One(p2) + One(p3) + One(p4) + One(p5) + One(p6)
  BY DEF HoldCount
<1>3. /\ "callback" \notin {} /\ "network" \notin S6 /\ "disconnect" \notin S5
      /\ "protocol" \notin S4 /\ "ui" \notin S3 /\ "call" \notin S2
  BY DEF If
<1> HIDE DEF p1, p2, p3, p4, p5, p6
<1>4. IsFiniteSet({}) /\ Cardinality({}) = 0
  BY FS_EmptySet
<1>5. IsFiniteSet(S6) /\ Cardinality(S6) = One(p6) + 0
  BY <1>3, <1>4, CountIf
<1> HIDE DEF S6
<1>6. IsFiniteSet(S5) /\ Cardinality(S5) = One(p5) + Cardinality(S6)
  BY <1>3, <1>5, CountIf
<1> HIDE DEF S5
<1>7. IsFiniteSet(S4) /\ Cardinality(S4) = One(p4) + Cardinality(S5)
  BY <1>3, <1>6, CountIf
<1> HIDE DEF S4
<1>8. IsFiniteSet(S3) /\ Cardinality(S3) = One(p3) + Cardinality(S4)
  BY <1>3, <1>7, CountIf
<1> HIDE DEF S3
<1>9. IsFiniteSet(S2) /\ Cardinality(S2) = One(p2) + Cardinality(S3)
  BY <1>3, <1>8, CountIf
<1> HIDE DEF S2
<1>10. Cardinality(S1) = One(p1) + Cardinality(S2)
  BY <1>3, <1>9, CountIf
<1> HIDE DEF S1
<1> QED BY <1>1, <1>2, <1>5, <1>6, <1>7, <1>8, <1>9, <1>10 DEF One

-----------------------------------------------------------------------------
(* The theorems *)

\* Type correctness, whoever uses the program: a reference count is an int
\* (shared.h:63) and can fall below zero, the number of posted messages cannot.
THEOREM TypeCorrect == Spec => []TypeOK
<1>1. Typed => TypeOK
  BY DEF Typed
<1> QED BY <1>1, TypedHolds, PTL

\* A callback that was asked for is under way (multicrewcore.cpp:209-233), also
\* if connections are lost while the user disconnects them.
THEOREM CallbackIsDue == Spec => []CallbackDue
<1>1. CallbackInv => CallbackDue
  BY DEF CallbackInv, CallbackDue
<1> QED BY <1>1, InvHolds, PTL

\* callbackAsync is never entered again from the message box that the end of a
\* session opens inside it (multicrewui.cpp:205).
THEOREM NeverReentered == Spec => []NoReentry
<1>1. CallbackInv => NoReentry
  BY DEF CallbackInv, NoReentry
<1> QED BY <1>1, InvHolds, PTL

\* What holds between any two steps with the polite user: each connection goes
\* from its creation to its end in one order (multicrewui.cpp:144-208,
\* connection.cpp:50-99).
THEOREM PoliteInvariance == Spec => []PoliteInv
<1>1. Init => PoliteInv
  BY InitOrderly DEF PoliteInv
<1> QED BY <1>1, StepPolite, TypedHolds, PTL DEF Spec

\* The reference counts are exact with the polite user (shared.cpp:31-67): no
\* reference is lost and none is dropped twice.
THEOREM ReferencesExact == Spec => []RefsExact
<1>1. PoliteInv => RefsExact
  BY HoldersCounted DEF PoliteInv, Orderly, Counted, RefsExact
<1> QED BY <1>1, PoliteInvariance, PTL

\* No thread uses a connection after its destructor (connection.cpp:50) with the
\* polite user.
THEOREM NothingUsedAfterItsEnd == Spec => []NeverFreed
<1>1. PoliteInv => NeverFreed
  BY DEF PoliteInv, Orderly, NeverFreed
<1> QED BY <1>1, PoliteInvariance, PTL

\* The end of the session the UI shows will be reported to it (multicrewui.cpp:159)
\* with the polite user.
THEOREM EndIsReported == Spec => []EndReported
<1>1. Typed /\ PoliteInv => EndReported
  BY DEF Typed, TypeOK, Maybe, PoliteInv, Orderly, SlotOrder, EndReported
<1> QED BY <1>1, TypedHolds, PoliteInvariance, PTL

=============================================================================
