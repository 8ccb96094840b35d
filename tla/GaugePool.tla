----------------------------- MODULE GaugePool -----------------------------
(***************************************************************************)
(* How gauges of the simulator get the objects that hook them              *)
(* (gaugemodule.cpp, and attach and detach of gauge.cpp).  The simulator   *)
(* opens and closes panels at will and makes all gauges of a panel anew    *)
(* when its size changes.  A Gauge object, with its channels and elements, *)
(* is never given back: when its header goes it waits in a list under its  *)
(* name and parameters, and the next header of that name takes the oldest. *)
(*                                                                         *)
(* All of it happens in the simulator's thread.                            *)
(***************************************************************************)
EXTENDS Naturals, Sequences, FiniteSets

CONSTANTS
  Headers,     (* gauge headers of the simulator, by address                 *)
  Names        (* names of gauges with their parameters                      *)

None == 0

ASSUME PoolAssumption == IsFiniteSet(Headers) /\ None \notin Headers /\ None \notin Names

VARIABLES
  opened,      (* per header: the name it has, None when there is no such    *)
  hook,        (* per header: the object its gauge_callback calls            *)
  gauges,      (* the names of the objects: GaugeModule::Data::gauges        *)
  header,      (* per object: gaugeHeader                                    *)
  detachedGauges, (* per name: the objects that wait, oldest first           *)
  most         (* history: per name, the most headers that were open at once *)

poolVars == <<opened, hook, gauges, header, detachedGauges, most>>

PoolInit ==
  /\ opened = [h \in Headers |-> None]
  /\ hook = [h \in Headers |-> None]
  /\ gauges = <<>>
  /\ header = <<>>
  /\ detachedGauges = [n \in Names |-> <<>>]
  /\ most = [n \in Names |-> 0]

Open(n) == {h \in Headers : opened[h] = n}
Greater(a, b) == IF a > b THEN a ELSE b

\* Mutant of DetachedGauge: looks under another name than detached() files them.
DetachedGauge_NotFound(n) == None

\* getDetachedGauge: the oldest that waits
DetachedGauge(n) == IF detachedGauges[n] = <<>> THEN None ELSE Head(detachedGauges[n])

\* installGauge with PANEL_SERVICE_POST_INSTALL.  attach() would detach an object that
\* still has a header: its old header is restored and it is filed as waiting.
PostInstall(h, n) ==
  /\ opened[h] = None
  /\ opened' = [opened EXCEPT ![h] = n]
  /\ most' = [most EXCEPT ![n] = Greater(@, Cardinality(Open(n)) + 1)]
  /\ LET g == IF DetachedGauge(n) = None THEN Len(gauges) + 1 ELSE DetachedGauge(n)
         attached == g <= Len(gauges) /\ header[g] # None
         waiting == IF DetachedGauge(n) = None THEN detachedGauges[n] ELSE Tail(detachedGauges[n])
     IN /\ gauges' = IF g <= Len(gauges) THEN gauges ELSE Append(gauges, n)
        /\ header' = [x \in 1 .. Len(gauges') |-> IF x = g THEN h ELSE header[x]]
        /\ hook' = [x \in Headers |-> IF x = h THEN g
                                      ELSE IF attached /\ x = header[g] THEN None ELSE hook[x]]
        /\ detachedGauges' = [detachedGauges EXCEPT ![n] =
                                IF attached THEN Append(waiting, g) ELSE waiting]

\* Mutant of PreKill: the object keeps its header.
PreKill_KeepsHeader(h) ==
  /\ opened[h] # None
  /\ opened' = [opened EXCEPT ![h] = None]
  /\ LET g == hook[h]
     IN IF g # None /\ header[g] # None
        THEN /\ hook' = [hook EXCEPT ![header[g]] = None]
             /\ detachedGauges' = [detachedGauges EXCEPT ![gauges[g]] = Append(@, g)]
             /\ header' = header
        ELSE UNCHANGED <<hook, header, detachedGauges>>
  /\ UNCHANGED <<gauges, most>>

\* PANEL_SERVICE_PRE_KILL: the object that the header calls detaches from its header,
\* which gets its own callback back, and waits.
PreKill(h) ==
  /\ opened[h] # None
  /\ opened' = [opened EXCEPT ![h] = None]
  /\ LET g == hook[h]
     IN IF g # None /\ header[g] # None
        THEN /\ hook' = [hook EXCEPT ![header[g]] = None]
             /\ detachedGauges' = [detachedGauges EXCEPT ![gauges[g]] = Append(@, g)]
             /\ header' = [header EXCEPT ![g] = None]
        ELSE UNCHANGED <<hook, header, detachedGauges>>
  /\ UNCHANGED <<gauges, most>>

PoolNext == \E h \in Headers :
  \/ \E n \in Names : PostInstall(h, n)
  \/ PreKill(h)

PoolSpec == PoolInit /\ [][PoolNext]_poolVars

-----------------------------------------------------------------------------
(* Properties *)

Waits(g) == \E n \in Names : \E i \in 1 .. Len(detachedGauges[n]) : detachedGauges[n][i] = g

\* An object serves one header, of its name, and waits only while it serves none: what an
\* open header calls is attached to it, however panels are opened, closed and resized.
OneHeaderEach ==
  /\ \A h \in Headers :
       /\ (opened[h] = None) <=> (hook[h] = None)
       /\ hook[h] # None => header[hook[h]] = h /\ gauges[hook[h]] = opened[h]
  /\ \A g \in 1 .. Len(gauges) : (header[g] = None) <=> Waits(g)

\* No more objects are made than there were headers of a name at once, so that channels
\* and elements do not pile up with every resize.
NoneWasted ==
  \A n \in Names : Cardinality({g \in 1 .. Len(gauges) : gauges[g] = n}) = most[n]

\* The inductive invariant behind OneHeaderEach
PoolInv ==
  /\ opened \in [Headers -> Names \union {None}]
  /\ hook \in [Headers -> 0 .. Len(gauges)]
  /\ gauges \in Seq(Names)
  /\ header \in [1 .. Len(gauges) -> Headers \union {None}]
  /\ detachedGauges \in [Names -> Seq(Nat)]
  /\ \A g \in 1 .. Len(gauges) : header[g] # None => hook[header[g]] = g
  /\ \A n \in Names : \A i \in 1 .. Len(detachedGauges[n]) :
       /\ detachedGauges[n][i] \in 1 .. Len(gauges) /\ gauges[detachedGauges[n][i]] = n
       /\ \A j \in 1 .. Len(detachedGauges[n]) :
            detachedGauges[n][i] = detachedGauges[n][j] => i = j
  /\ OneHeaderEach
=============================================================================
