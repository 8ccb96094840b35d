---------------------------- MODULE FsuipcModule ----------------------------
(***************************************************************************)
(* Variables of the simulator that are copied from the host to a client    *)
(* over FSUIPC (fsuipcmodule.cpp).  On the host a timer thread asks for a  *)
(* poll, the simulator thread does it at the next frame and sends what has *)
(* changed; a client that joins asks for everything, which the network     *)
(* thread of the host notes for the next poll.  On the client the network  *)
(* thread queues what arrives and the simulator thread writes the queue at *)
(* the next frame; what does not fit into a request is lost.               *)
(*                                                                         *)
(* A value is the number of the change that made it.  The packets of the   *)
(* channel are safe, so they arrive in the order of sending.  Frames come  *)
(* on both sides, which is what FrameProvider is about.                    *)
(***************************************************************************)
EXTENDS Naturals, Sequences, FiniteSets

CONSTANTS
  Watches,     (* number of watched variables                                *)
  Room,        (* reads or writes that fit into a request: the 256 bytes of  *)
               (* Fsuipc::Data::mem                                          *)
  MaxChanges,  (* bound: changes of each variable                            *)
  MaxJoins     (* bound: sessions of the client                              *)

ASSUME FsuipcAssumption ==
  Watches \in Nat \ {0} /\ Room \in Nat \ {0} /\ MaxChanges \in Nat /\ MaxJoins \in Nat

Ids == 1 .. Watches

VARIABLES
  variable,    (* host: the simulator's variables                            *)
  data,        (* host: FsuipcWatch::data                                    *)
  oldData,     (* host: FsuipcWatch::oldData                                 *)
  watchNow,    (* host: the timer thread asks for a poll                     *)
  nextIsFullSend, (* host: the network thread asks for everything            *)
  poll,        (* host: frameCallback in the simulator thread                *)
  joined,      (* is the client in a session                                 *)
  joins,       (* sessions so far                                            *)
  asked,       (* the client's full state request is under way               *)
  stream,      (* packets on the way to the client                           *)
  todo,        (* client: packets that wait for a frame                      *)
  written,     (* client: the variables as last written                      *)
  spoiled      (* history: the session lost something, see Arrives            *)

hostVars   == <<variable, data, oldData, watchNow, nextIsFullSend, poll>>
clientVars == <<todo, written>>
sessionVars == <<joined, joins, asked>>
fsuipcVars == <<hostVars, sessionVars, stream, clientVars, spoiled>>

NoPoll == [at |-> "none", full |-> FALSE, next |-> 1]

\* nextIsFullSend is not initialised.
FsuipcInit ==
  /\ variable = [w \in Ids |-> 0]
  /\ data = [w \in Ids |-> 0]
  /\ oldData = [w \in Ids |-> 0]
  /\ watchNow = FALSE
  /\ nextIsFullSend \in BOOLEAN
  /\ poll = NoPoll
  /\ joined = FALSE
  /\ joins = 0
  /\ asked = FALSE
  /\ stream = <<>>
  /\ todo = <<>>
  /\ written = [w \in Ids |-> 0]
  /\ spoiled = FALSE

-----------------------------------------------------------------------------
(* The host *)

Change(w) ==
  /\ variable[w] < MaxChanges
  /\ variable' = [variable EXCEPT ![w] = @ + 1]
  /\ UNCHANGED <<data, oldData, watchNow, nextIsFullSend, poll, sessionVars, stream, clientVars,
                 spoiled>>

\* threadProc, every 200 ms
Tick ==
  /\ ~watchNow
  /\ watchNow' = TRUE
  /\ UNCHANGED <<variable, data, oldData, nextIsFullSend, poll, sessionVars, stream, clientVars,
                 spoiled>>

\* Mutant of PollFails: the request for everything is taken by a poll that fails.
PollFails_TakesRequest ==
  /\ poll.at = "none" /\ watchNow
  /\ watchNow' = FALSE
  /\ nextIsFullSend' = FALSE
  /\ UNCHANGED <<variable, data, oldData, poll, sessionVars, stream, clientVars, spoiled>>

\* The reads are added to the request and end() fails: nothing is compared or sent.
PollFails ==
  /\ poll.at = "none" /\ watchNow
  /\ watchNow' = FALSE
  /\ UNCHANGED <<variable, data, oldData, nextIsFullSend, poll, sessionVars, stream, clientVars,
                 spoiled>>

\* end() succeeds and fullSend takes the flag.  Reads beyond the room have failed,
\* which only a log line in update() notices.
PollReads ==
  /\ poll.at = "none" /\ watchNow
  /\ watchNow' = FALSE
  /\ data' = [w \in Ids |-> IF w <= Room THEN variable[w] ELSE data[w]]
  /\ poll' = [at |-> "read", full |-> nextIsFullSend, next |-> 1]
  /\ UNCHANGED <<variable, oldData, nextIsFullSend, sessionVars, stream, clientVars, spoiled>>

\* "next is no full send by default": a request since the flag was read is lost.
PollClears ==
  /\ poll.at = "read"
  /\ poll' = [poll EXCEPT !.at = "sending"]
  /\ nextIsFullSend' = FALSE
  /\ spoiled' = (spoiled \/ nextIsFullSend # poll.full)
  /\ UNCHANGED <<variable, data, oldData, watchNow, sessionVars, stream, clientVars>>

\* Mutant of PollSends: a full send still leaves out what has not changed.
PollSends_OnlyChanges ==
  /\ poll.at = "sending"
  /\ LET w == poll.next
     IN IF oldData[w] # data[w]
        THEN /\ oldData' = [oldData EXCEPT ![w] = data[w]]
             /\ stream' = IF joined THEN Append(stream, [id |-> w, value |-> data[w]]) ELSE stream
        ELSE UNCHANGED <<oldData, stream>>
  /\ poll' = IF poll.next = Watches THEN NoPoll ELSE [poll EXCEPT !.next = @ + 1]
  /\ UNCHANGED <<variable, data, watchNow, nextIsFullSend, sessionVars, clientVars, spoiled>>

\* process and send, one watch after the other
PollSends ==
  /\ poll.at = "sending"
  /\ LET w == poll.next
     IN IF poll.full \/ oldData[w] # data[w]
        THEN /\ oldData' = [oldData EXCEPT ![w] = data[w]]
             /\ stream' = IF joined THEN Append(stream, [id |-> w, value |-> data[w]]) ELSE stream
        ELSE UNCHANGED <<oldData, stream>>
  /\ poll' = IF poll.next = Watches THEN NoPoll ELSE [poll EXCEPT !.next = @ + 1]
  /\ UNCHANGED <<variable, data, watchNow, nextIsFullSend, sessionVars, clientVars, spoiled>>

\* sendFullState, called by the network thread that received the request
SendFullState ==
  /\ asked
  /\ asked' = FALSE
  /\ nextIsFullSend' = TRUE
  /\ UNCHANGED <<variable, data, oldData, watchNow, poll, joined, joins, stream, clientVars,
                 spoiled>>

-----------------------------------------------------------------------------
(* The client *)

\* start(false): the mode is set and the full state request goes out; todo may hold
\* what an earlier session left there.
Join ==
  /\ ~joined /\ joins < MaxJoins
  /\ joined' = TRUE
  /\ joins' = joins + 1
  /\ asked' = TRUE
  /\ spoiled' = FALSE
  /\ UNCHANGED <<hostVars, stream, clientVars>>

\* The session ends; a request that has not arrived is gone, and so is the stream.
Leave ==
  /\ joined
  /\ joined' = FALSE
  /\ asked' = FALSE
  /\ stream' = <<>>
  /\ UNCHANGED <<hostVars, joins, clientVars, spoiled>>

Receive ==
  /\ joined /\ stream # <<>>
  /\ todo' = Append(todo, Head(stream))
  /\ stream' = Tail(stream)
  /\ UNCHANGED <<hostVars, sessionVars, written, spoiled>>

\* The variables after the first n packets of todo
After(n) ==
  [w \in Ids |->
     LET mine == {i \in 1 .. n : todo[i].id = w}
     IN IF mine = {} THEN written[w]
        ELSE todo[CHOOSE i \in mine : \A j \in mine : j <= i].value]

Fitting == IF Len(todo) < Room THEN Len(todo) ELSE Room

\* frameCallback: the packets that fit are written, up to the first failure, and all are
\* forgotten.  n of them reach the simulator: maybe none when end() fails.
WriteTodo(n) ==
  /\ joined /\ todo # <<>>
  /\ n \in {0, Fitting}
  /\ written' = After(n)
  /\ todo' = <<>>
  /\ spoiled' = (spoiled \/ n < Len(todo))
  /\ UNCHANGED <<hostVars, sessionVars, stream>>

FsuipcNext ==
  \/ \E w \in Ids : Change(w)
  \/ Tick \/ PollFails \/ PollReads \/ PollClears \/ PollSends \/ SendFullState
  \/ Join \/ Leave \/ Receive
  \/ \E n \in 0 .. Len(todo) : WriteTodo(n)

FsuipcSpec == FsuipcInit /\ [][FsuipcNext]_fsuipcVars

\* The timer and the network threads run, frames come on both sides, and FSUIPC answers
\* now and then.
FsuipcFairness ==
  /\ WF_fsuipcVars(Tick) /\ SF_fsuipcVars(PollReads)
  /\ WF_fsuipcVars(PollClears) /\ WF_fsuipcVars(PollSends)
  /\ WF_fsuipcVars(SendFullState) /\ WF_fsuipcVars(Receive)
  /\ WF_fsuipcVars(WriteTodo(Fitting))

-----------------------------------------------------------------------------
(* Properties *)

FsuipcTypeOK ==
  /\ {variable, data, oldData, written} \subseteq [Ids -> Nat]
  /\ {watchNow, nextIsFullSend, joined, asked, spoiled} \subseteq BOOLEAN
  /\ poll \in [at : {"none", "read", "sending"}, full : BOOLEAN, next : Ids]
  /\ joins \in Nat
  /\ {stream, todo} \subseteq Seq([id : Ids, value : Nat])

\* What the client will write, in this order.
OnTheWay == todo \o stream

\* Variable w of the client will be v when all of it is written.
EndsAs(w, v) ==
  \/ /\ written[w] = v
     /\ \A i \in 1 .. Len(OnTheWay) : OnTheWay[i].id # w
  \/ \E i \in 1 .. Len(OnTheWay) :
       /\ OnTheWay[i] = [id |-> w, value |-> v]
       /\ \A j \in i + 1 .. Len(OnTheWay) : OnTheWay[j].id # w

\* Variable w is still to be sent, changed or not: the client's request is under way, noted
\* for the next poll, or taken by a poll that has not come to w.
ToBeSent(w) ==
  asked \/ nextIsFullSend \/ (poll.at # "none" /\ poll.full /\ poll.next <= w)

\* What the host believes its clients know, since it compares with it to find changes, is
\* what they will have: oldData (fsuipcmodule.cpp:113) is kept through the sessions, also
\* by polls while nobody has joined, and only a full state can repair that.
NothingForgotten ==
  joined /\ ~spoiled => \A w \in Ids : ToBeSent(w) \/ EndsAs(w, oldData[w])

\* Why NothingForgotten holds, step by step.
FsuipcInv ==
  /\ FsuipcTypeOK
  /\ poll.at = "read" => poll.next = 1
  /\ NothingForgotten

\* Once the variables of the host rest, those of the client catch up while the session
\* lasts, with what they were when it joined and what changed later.  Lost are variables
\* that do not fit into the request of a poll, a request for everything that comes while
\* a poll takes the last one, and what a frame of the client cannot write.
Arrives ==
  []<>(~joined \/ spoiled \/ \A w \in Ids : w <= Room => written[w] = variable[w])
=============================================================================
