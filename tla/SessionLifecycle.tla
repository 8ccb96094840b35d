-------------------------- MODULE SessionLifecycle --------------------------
(***************************************************************************)
(* The life of a connection object (connection.cpp, hostconnection.cpp,    *)
(* clientconnection.cpp) between three kinds of threads: the UI thread,    *)
(* which hosts, connects and disconnects (multicrewui.cpp); a network      *)
(* thread for each connection (thread.cpp); and the simulator thread, in   *)
(* whose message loop the asynchronous callbacks of the core run           *)
(* (multicrewcore.cpp), the end of a session among them.                   *)
(*                                                                         *)
(* A connection is reference counted (shared.cpp); whoever drops the last  *)
(* reference destroys it, and that waits for its network thread to exit.   *)
(***************************************************************************)
EXTENDS Integers, FiniteSets

CONSTANTS
  Connections,  (* connection objects, each is created once                  *)
  Hosts,        (* those that are HostConnectionImpl                         *)
  Gauge,        (* a gauge that receives mouse packets                       *)
  None,         (* no connection, nobody                                     *)
  Users,        (* who may use the program: one who waits for the end of a   *)
                (* session, which is not lost while he installs or ends it,  *)
                (* or one who does not and to whom this may happen           *)
  MaxClicks     (* bound: mouse packets that arrive                          *)

ASSUME LifecycleAssumption ==
  /\ Hosts \subseteq Connections
  /\ Gauge \notin Connections
  /\ None \notin Connections
  /\ None # Gauge
  /\ {"ui", "sim"} \intersect Connections = {}
  /\ None \notin {"ui", "sim"}
  /\ Users \subseteq {"polite", "hasty"}
  /\ MaxClicks \in Nat

Maybe   == Connections \union {None}
Callees == Connections \union {Gauge}

(* The UI thread: "connecting", the wizard is open; "opened" to "started",  *)
(* it installs the connection; "asking", the user is asked; "closing" to    *)
(* "triggering", it disconnects.  "con" is the connection it works with,    *)
(* "join" the one it destroys and whose thread it waits for.                *)
Ui == [at : {"idle", "connecting", "opened", "assigned", "slotted", "started", "asking",
             "closing", "dropping", "marking", "triggering"},
       con : Maybe, join : Maybe]

(* The simulator thread: outside the message loop it calls the callees left *)
(* in "left"; "con" is the one whose callback runs.                         *)
Sim == [at : {"idle", "calling", "stopping", "unsetting", "box", "releasing"},
        con : Maybe, left : SUBSET Callees, join : Maybe]

VARIABLES
  user,      (* who uses the program, which never changes                    *)
  life,      (* per connection: none, alive, deleted                         *)
  state,     (* per connection: Connection::State                            *)
  refs,      (* per connection: its reference count                          *)
  exit,      (* per connection: the exit event of its thread                 *)
  net,       (* per connection: where its network thread stands              *)
  attached,  (* per connection: its disconnected signal has the UI's slot    *)
  slot,      (* the signal the UI's slot points to                           *)
  uiCon,     (* the UI's connection                                          *)
  protoCon,  (* the channel protocol's connection, None in idle mode         *)
  callees,   (* asyncCallees of the core                                     *)
  posted,    (* ID_ASYNC messages in the queue of the simulator window       *)
  core,      (* who holds the critical section of the core for a while       *)
  ui,        (* the UI thread                                                *)
  sim,       (* the simulator thread                                         *)
  clicks,    (* mouse packets that arrived                                   *)
  outcome    (* running, or how the program crashed                          *)

objects == <<life, state, refs, exit>>
signals == <<attached, slot>>
async   == <<callees, posted>>
vars == <<user, life, state, refs, exit, net, attached, slot, uiCon, protoCon,
          callees, posted, core, ui, sim, clicks, outcome>>

TypeOK ==
  /\ user \in Users
  /\ life \in [Connections -> {"none", "alive", "deleted"}]
  /\ state \in [Connections -> {"idle", "connecting", "connected", "disconnected"}]
  /\ refs \in [Connections -> Int]
  /\ exit \in [Connections -> BOOLEAN]
  /\ net \in [Connections -> {"none", "polling", "losing", "triggering", "receiving",
                              "handing", "naming", "replying", "exited"}]
  /\ attached \in [Connections -> BOOLEAN]
  /\ slot \in Maybe
  /\ uiCon \in Maybe
  /\ protoCon \in Maybe
  /\ callees \in SUBSET Callees
  /\ posted \in Nat
  /\ core \in {"sim", None}
  /\ ui \in Ui
  /\ sim \in Sim
  /\ clicks \in Nat
  /\ outcome \in {"running", "assertion", "null pointer", "freed object"}

Init ==
  /\ user \in Users
  /\ life = [c \in Connections |-> "none"]
  /\ state = [c \in Connections |-> "idle"]
  /\ refs = [c \in Connections |-> 0]
  /\ exit = [c \in Connections |-> FALSE]
  /\ net = [c \in Connections |-> "none"]
  /\ attached = [c \in Connections |-> FALSE]
  /\ slot = None
  /\ uiCon = None
  /\ protoCon = None
  /\ callees = {}
  /\ posted = 0
  /\ core = None
  /\ ui = [at |-> "idle", con |-> None, join |-> None]
  /\ sim = [at |-> "idle", con |-> None, left |-> {}, join |-> None]
  /\ clicks = 0
  /\ outcome = "running"

-----------------------------------------------------------------------------
(* Reference counts, the two critical sections *)

\* Mutant of Counts: the assignment of a smart pointer forgets the new reference.
Counts_NotTaken(old, new) == [c \in Connections |-> refs[c] - (IF c = old THEN 1 ELSE 0)]

\* The counts after a reference to "old" is dropped and one to "new" is taken.
Counts(old, new) ==
  [c \in Connections |-> refs[c] + (IF c = new THEN 1 ELSE 0) - (IF c = old THEN 1 ELSE 0)]

\* The connection that is destroyed if a reference to "old" is dropped.
Doomed(old) == IF old # None /\ refs[old] = 1 THEN old ELSE None

\* A smart pointer is assigned: it drops "old" first, and if that destroys "old",
\* which makes its thread exit, the pointer is only set when this is done.
Pointer(old, new) == IF Doomed(old) = None THEN new ELSE old

Exchange(old, new) ==
  /\ refs' = Counts(old, IF Doomed(old) = None THEN new ELSE None)
  /\ state' = [c \in Connections |-> IF c = Doomed(old) /\ c \notin Hosts THEN "idle"
                                     ELSE state[c]]
  /\ exit' = [c \in Connections |-> exit[c] \/ c = Doomed(old)]

\* Mutant of Trigger: each callee posts a message.
Trigger_PostsEach(callee) ==
  /\ core = None
  /\ callees' = callees \union {callee}
  /\ posted' = posted + 1

\* triggerAsyncCallback: the first callee posts the message.
Trigger(callee) ==
  /\ core = None
  /\ callees' = callees \union {callee}
  /\ posted' = IF callees = {} THEN posted + 1 ELSE posted

\* Nobody holds the critical section of the channel protocol for long: a thread
\* that hands on a named packet, or that destroys a connection inside start()
\* or stop().
ProtocolFree ==
  /\ \A c \in Connections : net[c] # "naming"
  /\ ui.at \in {"started", "closing"} => ui.join = None
  /\ sim.at = "unsetting" => sim.join = None

-----------------------------------------------------------------------------
(* The UI thread: host and connect *)

MayOpen == user = "hasty" \/ (uiCon = None /\ sim.at = "idle")

UIHost(c) ==
  /\ ui.at = "idle" /\ ui.join = None
  /\ MayOpen
  /\ c \in Hosts
  /\ life[c] = "none"
  /\ life' = [life EXCEPT ![c] = "alive"]
  /\ state' = [state EXCEPT ![c] = "connected"]
  /\ net' = [net EXCEPT ![c] = "polling"]
  /\ refs' = [refs EXCEPT ![c] = 1]
  /\ ui' = [ui EXCEPT !.at = "opened", !.con = c]
  /\ UNCHANGED <<exit, signals, uiCon, protoCon, async, core, sim, clicks, outcome>>

\* The wizard opens with a connection of its own.
UIWizard(c) ==
  /\ ui.at = "idle" /\ ui.join = None
  /\ MayOpen
  /\ c \notin Hosts
  /\ life[c] = "none"
  /\ life' = [life EXCEPT ![c] = "alive"]
  /\ state' = [state EXCEPT ![c] = "connecting"]
  /\ net' = [net EXCEPT ![c] = "polling"]
  /\ refs' = [refs EXCEPT ![c] = 1]
  /\ ui' = [ui EXCEPT !.at = "connecting", !.con = c]
  /\ UNCHANGED <<exit, signals, uiCon, protoCon, async, core, sim, clicks, outcome>>

UIConnected ==
  /\ ui.at = "connecting"
  /\ state[ui.con] = "connected"
  /\ user = "hasty" \/ net[ui.con] # "losing"
  /\ ui' = [ui EXCEPT !.at = "opened"]
  /\ UNCHANGED <<objects, net, signals, uiCon, protoCon, async, core, sim, clicks, outcome>>

\* The wizard is closed without success and drops the connection.
UICancel ==
  /\ ui.at = "connecting"
  /\ user = "hasty" \/ net[ui.con] = "polling"
  /\ Exchange(ui.con, None)
  /\ ui' = [at |-> "idle", con |-> None, join |-> Doomed(ui.con)]
  /\ UNCHANGED <<life, net, signals, uiCon, protoCon, async, core, sim, clicks, outcome>>

\* Mutant of UIAssign: one of the two handlers forgets to connect the slot.
UIAssign_NoSlot ==
  /\ ui.at = "opened"
  /\ Exchange(uiCon, ui.con)
  /\ uiCon' = Pointer(uiCon, ui.con)
  /\ ui' = [ui EXCEPT !.at = "slotted", !.join = Doomed(uiCon)]
  /\ UNCHANGED <<life, net, signals, protoCon, async, core, sim, clicks, outcome>>

UIAssign ==
  /\ ui.at = "opened"
  /\ Exchange(uiCon, ui.con)
  /\ uiCon' = Pointer(uiCon, ui.con)
  /\ ui' = [ui EXCEPT !.at = "assigned", !.join = Doomed(uiCon)]
  /\ UNCHANGED <<life, net, signals, protoCon, async, core, sim, clicks, outcome>>

\* Slot1::connect disconnects from the new signal, not from the old one.
UISlot ==
  /\ ui.at = "assigned" /\ ui.join = None
  /\ attached' = [attached EXCEPT ![ui.con] = TRUE]
  /\ slot' = ui.con
  /\ ui' = [ui EXCEPT !.at = "slotted"]
  /\ UNCHANGED <<objects, net, uiCon, protoCon, async, core, sim, clicks, outcome>>

UIStart ==
  /\ ui.at = "slotted"
  /\ ProtocolFree
  /\ Exchange(protoCon, ui.con)
  /\ protoCon' = Pointer(protoCon, ui.con)
  /\ ui' = [ui EXCEPT !.at = "started", !.join = Doomed(protoCon)]
  /\ UNCHANGED <<life, net, signals, uiCon, async, core, sim, clicks, outcome>>

UIReturn ==
  /\ ui.at = "started" /\ ui.join = None
  /\ Exchange(ui.con, None)
  /\ ui' = [at |-> "idle", con |-> None, join |-> Doomed(ui.con)]
  /\ UNCHANGED <<life, net, signals, uiCon, protoCon, async, core, sim, clicks, outcome>>

-----------------------------------------------------------------------------
(* The UI thread: disconnect *)

\* The question whether to disconnect, for as long as the user likes.
UIAsk ==
  /\ ui.at = "idle" /\ ui.join = None
  /\ uiCon # None
  /\ user = "hasty" \/ (state[uiCon] = "connected" /\ net[uiCon] \notin {"losing", "triggering"})
  /\ ui' = [ui EXCEPT !.at = "asking"]
  /\ UNCHANGED <<objects, net, signals, uiCon, protoCon, async, core, sim, clicks, outcome>>

UIKeep ==
  /\ ui.at = "asking"
  /\ ui' = [ui EXCEPT !.at = "idle"]
  /\ UNCHANGED <<objects, net, signals, uiCon, protoCon, async, core, sim, clicks, outcome>>

UIStop ==
  /\ ui.at = "asking"
  /\ ProtocolFree
  /\ Exchange(protoCon, None)
  /\ protoCon' = Pointer(protoCon, None)
  /\ ui' = [ui EXCEPT !.at = "closing", !.join = Doomed(protoCon)]
  /\ UNCHANGED <<life, net, signals, uiCon, async, core, sim, clicks, outcome>>

\* It goes through the pointer it checked before the question.
UIClose ==
  /\ ui.at = "closing" /\ ui.join = None
  /\ IF uiCon = None
     THEN /\ outcome' = "null pointer"
          /\ ui' = ui
     ELSE /\ outcome' = outcome
          /\ ui' = IF uiCon \in Hosts \/ state[uiCon] = "connected"
                   THEN [ui EXCEPT !.at = "dropping", !.con = uiCon]
                   ELSE [ui EXCEPT !.at = "idle"]
  /\ UNCHANGED <<objects, net, signals, uiCon, protoCon, async, core, sim, clicks>>

\* The link is down; setState compares the state ...
UICheck ==
  /\ ui.at = "dropping"
  /\ life[ui.con] = "alive"
  /\ ui' = IF state[ui.con] # "disconnected" THEN [ui EXCEPT !.at = "marking"]
           ELSE [ui EXCEPT !.at = "idle", !.con = None]
  /\ UNCHANGED <<objects, net, signals, uiCon, protoCon, async, core, sim, clicks, outcome>>

\* Mutant of UIMark: no reference is taken for the callback.
UIMark_NoRef ==
  /\ ui.at = "marking"
  /\ life[ui.con] = "alive"
  /\ state' = [state EXCEPT ![ui.con] = "disconnected"]
  /\ ui' = [ui EXCEPT !.at = "triggering"]
  /\ UNCHANGED <<life, refs, exit, net, signals, uiCon, protoCon, async, core, sim, clicks,
                 outcome>>

\* ... sets it and takes the reference of the callback ...
UIMark ==
  /\ ui.at = "marking"
  /\ life[ui.con] = "alive"
  /\ state' = [state EXCEPT ![ui.con] = "disconnected"]
  /\ refs' = [refs EXCEPT ![ui.con] = @ + 1]
  /\ ui' = [ui EXCEPT !.at = "triggering"]
  /\ UNCHANGED <<life, exit, net, signals, uiCon, protoCon, async, core, sim, clicks, outcome>>

\* ... and triggers it.
UITrigger ==
  /\ ui.at = "triggering"
  /\ Trigger(ui.con)
  /\ ui' = [ui EXCEPT !.at = "idle", !.con = None]
  /\ UNCHANGED <<objects, net, signals, uiCon, protoCon, core, sim, clicks, outcome>>

UIFreed ==
  /\ ui.at \in {"dropping", "marking"}
  /\ life[ui.con] = "deleted"
  /\ outcome' = "freed object"
  /\ UNCHANGED <<objects, net, signals, uiCon, protoCon, async, core, ui, sim, clicks>>

-----------------------------------------------------------------------------
(* The network thread of a connection *)

NetAccept(c) ==
  /\ net[c] = "polling" /\ ~exit[c]
  /\ state[c] = "connecting"
  /\ state' = [state EXCEPT ![c] = "connected"]
  /\ UNCHANGED <<life, refs, exit, net, signals, uiCon, protoCon, async, core, ui, sim,
                 clicks, outcome>>

\* The connection is refused, closed or lost: setState compares the state ...
NetLose(c) ==
  /\ net[c] = "polling" /\ ~exit[c]
  /\ state[c] \in {"connecting", "connected"}
  /\ user = "hasty" \/ ui.at \in {"idle", "connecting"}
  /\ net' = [net EXCEPT ![c] = "losing"]
  /\ UNCHANGED <<objects, signals, uiCon, protoCon, async, core, ui, sim, clicks, outcome>>

\* Mutant of NetMark: no reference is taken for the callback.
NetMark_NoRef(c) ==
  /\ net[c] = "losing"
  /\ state' = [state EXCEPT ![c] = "disconnected"]
  /\ net' = [net EXCEPT ![c] = "triggering"]
  /\ UNCHANGED <<life, refs, exit, signals, uiCon, protoCon, async, core, ui, sim, clicks,
                 outcome>>

\* ... sets it and takes the reference of the callback ...
NetMark(c) ==
  /\ net[c] = "losing"
  /\ state' = [state EXCEPT ![c] = "disconnected"]
  /\ refs' = [refs EXCEPT ![c] = @ + 1]
  /\ net' = [net EXCEPT ![c] = "triggering"]
  /\ UNCHANGED <<life, exit, signals, uiCon, protoCon, async, core, ui, sim, clicks, outcome>>

\* ... and triggers it.
NetTrigger(c) ==
  /\ net[c] = "triggering"
  /\ Trigger(c)
  /\ net' = [net EXCEPT ![c] = "polling"]
  /\ UNCHANGED <<objects, signals, uiCon, protoCon, core, ui, sim, clicks, outcome>>

\* A mouse packet for the host.
NetReceive(c) ==
  /\ net[c] = "polling" /\ ~exit[c]
  /\ state[c] # "connecting"
  /\ protoCon \in Hosts
  /\ clicks < MaxClicks
  /\ clicks' = clicks + 1
  /\ net' = [net EXCEPT ![c] = "receiving"]
  /\ UNCHANGED <<objects, signals, uiCon, protoCon, async, core, ui, sim, outcome>>

\* The protocol hands a named packet on inside its critical section.
NetEnter(c, byName) ==
  /\ net[c] = "receiving"
  /\ ProtocolFree
  /\ net' = [net EXCEPT ![c] = IF byName THEN "naming" ELSE "handing"]
  /\ UNCHANGED <<objects, signals, uiCon, protoCon, async, core, ui, sim, clicks, outcome>>

\* The gauge asks for its callback.
NetHand(c) ==
  /\ net[c] \in {"naming", "handing"}
  /\ Trigger(Gauge)
  /\ net' = [net EXCEPT ![c] = IF @ = "naming" THEN "replying" ELSE "polling"]
  /\ UNCHANGED <<objects, signals, uiCon, protoCon, core, ui, sim, clicks, outcome>>

\* The number of the named channel is sent back.
NetReply(c) ==
  /\ net[c] = "replying"
  /\ ProtocolFree
  /\ net' = [net EXCEPT ![c] = "polling"]
  /\ outcome' = IF protoCon = None THEN "null pointer" ELSE outcome
  /\ UNCHANGED <<objects, signals, uiCon, protoCon, async, core, ui, sim, clicks>>

NetExit(c) ==
  /\ net[c] = "polling" /\ exit[c]
  /\ net' = [net EXCEPT ![c] = "exited"]
  /\ UNCHANGED <<objects, signals, uiCon, protoCon, async, core, ui, sim, clicks, outcome>>

-----------------------------------------------------------------------------
(* The simulator thread: callbackAsync *)

\* Mutant of SimEnter: callbackAsync runs without a message.
SimEnter_Polled ==
  /\ sim.at = "idle"
  /\ posted' = posted - 1
  /\ core' = "sim"
  /\ sim' = [sim EXCEPT !.at = "calling", !.left = callees]
  /\ UNCHANGED <<objects, net, signals, uiCon, protoCon, callees, ui, clicks, outcome>>

SimEnter ==
  /\ sim.at = "idle"
  /\ posted > 0
  /\ posted' = posted - 1
  /\ core' = "sim"
  /\ sim' = [sim EXCEPT !.at = "calling", !.left = callees]
  /\ UNCHANGED <<objects, net, signals, uiCon, protoCon, callees, ui, clicks, outcome>>

SimGauge ==
  /\ sim.at = "calling" /\ sim.join = None
  /\ Gauge \in sim.left
  /\ sim' = [sim EXCEPT !.left = @ \ {Gauge}]
  /\ UNCHANGED <<objects, net, signals, uiCon, protoCon, async, core, ui, clicks, outcome>>

\* The callback of a connection emits its disconnected signal.
SimCall(c) ==
  /\ sim.at = "calling" /\ sim.join = None
  /\ c \in sim.left
  /\ IF life[c] = "deleted"
     THEN /\ outcome' = "freed object"
          /\ sim' = sim
     ELSE /\ outcome' = outcome
          /\ sim' = [sim EXCEPT !.at = IF attached[c] THEN "stopping" ELSE "releasing",
                                !.con = c, !.left = @ \ {c}]
  /\ UNCHANGED <<objects, net, signals, uiCon, protoCon, async, core, ui, clicks>>

SimStop ==
  /\ sim.at = "stopping"
  /\ ProtocolFree
  /\ Exchange(protoCon, None)
  /\ protoCon' = Pointer(protoCon, None)
  /\ sim' = [sim EXCEPT !.at = "unsetting", !.join = Doomed(protoCon)]
  /\ UNCHANGED <<life, net, signals, uiCon, async, core, ui, clicks, outcome>>

\* Mutant of SimUnset: the UI keeps its pointer to the connection.
SimUnset_Keeps ==
  /\ sim.at = "unsetting" /\ sim.join = None
  /\ sim' = [sim EXCEPT !.at = "box"]
  /\ UNCHANGED <<objects, net, signals, uiCon, protoCon, async, core, ui, clicks, outcome>>

SimUnset ==
  /\ sim.at = "unsetting" /\ sim.join = None
  /\ Exchange(uiCon, None)
  /\ uiCon' = Pointer(uiCon, None)
  /\ sim' = [sim EXCEPT !.at = "box", !.join = Doomed(uiCon)]
  /\ UNCHANGED <<life, net, signals, protoCon, async, core, ui, clicks, outcome>>

\* The user reads the message and presses OK.
SimOk ==
  /\ sim.at = "box" /\ sim.join = None
  /\ sim' = [sim EXCEPT !.at = "releasing"]
  /\ UNCHANGED <<objects, net, signals, uiCon, protoCon, async, core, ui, clicks, outcome>>

SimRelease ==
  /\ sim.at = "releasing"
  /\ Exchange(sim.con, None)
  /\ sim' = [sim EXCEPT !.at = "calling", !.con = None, !.join = Doomed(sim.con)]
  /\ UNCHANGED <<life, net, signals, uiCon, protoCon, async, core, ui, clicks, outcome>>

\* Mutant of SimLeave: the callees are cleared after the section is left, when
\* another thread has already added its own.
SimLeave_ClearsLate ==
  /\ sim.at = "calling" /\ sim.join = None
  /\ sim.left = {}
  /\ \/ core = "sim" /\ core' = None /\ UNCHANGED <<callees, sim>>
     \/ core = None /\ callees' = {} /\ sim' = [sim EXCEPT !.at = "idle"] /\ core' = core
  /\ UNCHANGED <<objects, net, signals, uiCon, protoCon, posted, ui, clicks, outcome>>

SimLeave ==
  /\ sim.at = "calling" /\ sim.join = None
  /\ sim.left = {}
  /\ callees' = {}
  /\ core' = None
  /\ sim' = [sim EXCEPT !.at = "idle"]
  /\ UNCHANGED <<objects, net, signals, uiCon, protoCon, posted, ui, clicks, outcome>>

-----------------------------------------------------------------------------
(* The end of a destructor: the thread has exited, the signal lets go of its slot. *)

Delete(c) ==
  /\ net[c] \in {"none", "exited"}
  /\ life' = [life EXCEPT ![c] = "deleted"]
  /\ IF attached[c] /\ slot # None
     THEN /\ attached' = [attached EXCEPT ![slot] = FALSE]
          /\ slot' = None
     ELSE UNCHANGED signals

UIDeleted ==
  /\ ui.join # None
  /\ Delete(ui.join)
  /\ refs' = Counts(None, ui.con)
  /\ uiCon' = IF ui.at = "assigned" THEN ui.con ELSE uiCon
  /\ protoCon' = IF ui.at \in {"started", "closing"} THEN ui.con ELSE protoCon
  /\ ui' = [ui EXCEPT !.join = None]
  /\ UNCHANGED <<state, exit, net, async, core, sim, clicks, outcome>>

SimDeleted ==
  /\ sim.join # None
  /\ Delete(sim.join)
  /\ uiCon' = IF sim.at = "box" THEN None ELSE uiCon
  /\ protoCon' = IF sim.at = "unsetting" THEN None ELSE protoCon
  /\ sim' = [sim EXCEPT !.join = None]
  /\ UNCHANGED <<state, refs, exit, net, async, core, ui, clicks, outcome>>

\* The thread waits for a critical section that stays taken while it is waited for.
Blocked(c) ==
  \/ net[c] \in {"triggering", "handing", "naming"} /\ core = "sim"
  \/ net[c] \in {"receiving", "replying"} /\ ~ProtocolFree

\* After three seconds stopThread's wait is over.
Timeout ==
  /\ \/ sim.join # None /\ Blocked(sim.join)
     \/ ui.join # None /\ Blocked(ui.join) /\ (sim.at = "box" \/ ~ProtocolFree)
  /\ outcome' = "assertion"
  /\ UNCHANGED <<objects, net, signals, uiCon, protoCon, async, core, ui, sim, clicks>>

-----------------------------------------------------------------------------
UINext ==
  \/ \E c \in Connections : UIHost(c) \/ UIWizard(c)
  \/ UIConnected \/ UICancel \/ UIAssign \/ UISlot \/ UIStart \/ UIReturn
  \/ UIAsk \/ UIKeep \/ UIStop \/ UIClose \/ UICheck \/ UIMark \/ UITrigger \/ UIFreed
  \/ UIDeleted

NetNext(c) ==
  \/ NetAccept(c) \/ NetLose(c) \/ NetMark(c) \/ NetTrigger(c)
  \/ NetReceive(c) \/ (\E byName \in BOOLEAN : NetEnter(c, byName)) \/ NetHand(c)
  \/ NetReply(c) \/ NetExit(c)

SimNext ==
  \/ SimEnter \/ SimGauge \/ (\E c \in Connections : SimCall(c))
  \/ SimStop \/ SimUnset \/ SimOk \/ SimRelease \/ SimLeave \/ SimDeleted

Next ==
  /\ outcome = "running" /\ UNCHANGED user
  /\ UINext \/ (\E c \in Connections : NetNext(c)) \/ SimNext \/ Timeout

Spec == Init /\ [][Next]_vars

(* Fairness: every thread goes on with what it has begun; the simulator's    *)
(* message loop delivers ID_ASYNC; the user presses OK and leaves the wizard. *)
UIWork  == UICancel \/ UIAssign \/ UISlot \/ UIStart \/ UIReturn \/ UIKeep \/ UIClose
           \/ UICheck \/ UIMark \/ UITrigger \/ UIDeleted
NetWork(c) == NetMark(c) \/ NetTrigger(c) \/ (\E byName \in BOOLEAN : NetEnter(c, byName))
              \/ NetHand(c) \/ NetReply(c) \/ NetExit(c)

Fairness ==
  /\ WF_vars(outcome = "running" /\ UIWork /\ UNCHANGED user)
  /\ WF_vars(outcome = "running" /\ SimNext /\ UNCHANGED user)
  /\ \A c \in Connections : WF_vars(outcome = "running" /\ NetWork(c) /\ UNCHANGED user)

FairSpec == Spec /\ Fairness

-----------------------------------------------------------------------------
(* Properties *)

\* stopThread's wait for the exit of a thread never times out, as thread.cpp:83
\* asserts.
AssertionHolds == outcome # "assertion"

\* A callback that was asked for is under way: its message is in the queue of the
\* simulator, or callbackAsync runs and has not looked at all callees yet
\* (multicrewcore.cpp:211-218 posts for the first callee only).
CallbackDue == callees # {} => posted > 0 \/ core = "sim"

\* callbackAsync is never entered a second time from the message loop of the
\* message box that one of its own callees opens (multicrewui.cpp:205), although
\* its critical section would let the same thread in: no message is in the queue
\* while it runs.
NoReentry == posted <= 1 /\ (posted > 0 => sim.at = "idle")

\* The connections whose callback still has a reference of its own to drop.
Due == IF sim.at = "idle" THEN callees ELSE sim.left \union {sim.con}

\* Those who hold a reference to c.
Holders(c) ==
  {h \in {"call", "ui", "protocol", "disconnect", "network", "callback"} :
     \/ h = "call" /\ ui.con = c
                   /\ ui.at \in {"connecting", "opened", "assigned", "slotted", "started"}
     \/ h = "ui" /\ uiCon = c
     \/ h = "protocol" /\ protoCon = c
     \/ h = "disconnect" /\ ui.at = "triggering" /\ ui.con = c
     \/ h = "network" /\ net[c] = "triggering"
     \/ h = "callback" /\ c \in Due}

\* With the polite user the reference count (shared.cpp:42, shared.cpp:50) is exact:
\* no reference is lost, so that the connection and its thread would stay for ever,
\* and none is dropped twice; a connection whose destructor has begun has none.
RefsExact == user = "polite" =>
  \A c \in Connections : refs[c] = IF exit[c] THEN 0 ELSE Cardinality(Holders(c))

\* With the polite user no thread uses a connection after it was destroyed
\* (connection.cpp:83 takes a reference for the callback, connection.cpp:98 drops it).
NeverFreed == user = "polite" => outcome # "freed object"

\* With the polite user the end of the session the UI shows will be reported to it:
\* its slot hangs on the signal of this session (multicrewui.cpp:159, signals.h:107).
EndReported == user = "polite" /\ ui.at = "idle" /\ uiCon # None => slot = uiCon /\ attached[uiCon]

(* Why references are exact with the polite user: what holds between any two *)
(* of his steps and those of the other threads.                              *)

One(b) == IF b THEN 1 ELSE 0

HoldCount(c) ==
    One(ui.con = c /\ ui.at \in {"connecting", "opened", "assigned", "slotted", "started"})
  + One(uiCon = c) + One(protoCon = c)
  + One(ui.at = "triggering" /\ ui.con = c)
  + One(net[c] = "triggering") + One(c \in Due)

Counted == \A c \in Connections : refs[c] = IF exit[c] THEN 0 ELSE HoldCount(c)

\* The connection is up, and nothing but the UI thread will change this.
Steady(c) == state[c] = "connected" /\ net[c] \notin {"losing", "triggering"}

\* What the UI thread works with.
UiOrder ==
  /\ ui.at \in {"idle", "asking", "closing"} <=> ui.con = None
  /\ ui.join # None => ui.at = "idle" /\ exit[ui.join]
  /\ ui.at \in {"connecting", "opened"} => uiCon = None /\ slot = None
  /\ ui.at = "assigned" => slot = None
  /\ ui.at \in {"assigned", "slotted"} => protoCon = None
  /\ ui.at \in {"assigned", "slotted", "started", "dropping", "marking", "triggering"}
       => uiCon = ui.con
  /\ ui.at \in {"asking", "closing"} => uiCon # None /\ Steady(uiCon)
  /\ ui.at \in {"opened", "assigned", "slotted", "started", "dropping", "marking"}
       => Steady(ui.con)
  /\ ui.at = "triggering" => state[ui.con] = "disconnected"
                             /\ net[ui.con] \notin {"losing", "triggering"}

\* What the simulator thread works with.
SimOrder ==
  /\ sim.at \in {"idle", "calling"} <=> sim.con = None
  /\ sim.at = "idle" => sim.left = {}
  /\ sim.join # None => sim.at = "calling" /\ exit[sim.join]
  /\ sim.left \subseteq callees /\ sim.con \notin sim.left
  /\ sim.at \in {"stopping", "unsetting"} => uiCon = sim.con
  /\ sim.at = "unsetting" => protoCon = None
  /\ sim.at \in {"box", "releasing"} => uiCon # sim.con
  /\ core = IF sim.at = "idle" THEN None ELSE "sim"

\* The slot belongs to the session that is shown, or to the one that just ended.
SlotOrder ==
  /\ protoCon \in {None, uiCon}
  /\ uiCon # None /\ ui.at # "assigned" => slot = uiCon
  /\ slot # None => \/ slot = uiCon
                    \/ sim.at \in {"box", "releasing"} /\ slot = sim.con
                    \/ slot = sim.join
  /\ \A c \in Connections : attached[c] <=> slot = c

\* A connection from its creation to its end.
LifeOrder(c) ==
  /\ c \in Due => /\ state[c] = "disconnected" /\ ~exit[c]
                  /\ net[c] \notin {"losing", "triggering"}
                  /\ ui.at = "triggering" => ui.con # c
  /\ exit[c] => c \notin {uiCon, protoCon, ui.con} /\ net[c] \notin {"losing", "triggering"}
  /\ life[c] = "deleted" => exit[c]
  /\ life[c] = "none" => /\ ~exit[c] /\ net[c] = "none"
                         /\ c \notin {uiCon, protoCon, ui.con, slot} \union Due \union callees
  /\ net[c] = "losing" => state[c] \in {"connecting", "connected"}
  /\ net[c] = "triggering" => state[c] = "disconnected"

Orderly ==
  /\ Counted /\ UiOrder /\ SimOrder /\ SlotOrder
  /\ \A c \in Connections : LifeOrder(c)
  /\ outcome # "freed object"

\* With the polite user all this holds between any two steps: the count is the number
\* of holders, and the threads work on connections that are still there (shared.cpp:47,
\* connection.cpp:65-99).
PoliteInv == user = "polite" => Orderly

\* With the polite user a connection that is disconnected is destroyed some day, its
\* thread with it (connection.cpp:98 drops the last reference).
Ended == \A c \in Connections :
  user = "polite" /\ state[c] = "disconnected" ~> life[c] = "deleted"

=============================================================================
