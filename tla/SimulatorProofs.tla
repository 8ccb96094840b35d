--------------------------- MODULE SimulatorProofs ---------------------------
(* Proofs about what happens with the simulator's frames: a frame is        *)
(* counted once, and counting never stops, whatever gauges are drawn; and   *)
(* no variable that is copied over FSUIPC is forgotten.                     *)
EXTENDS FrameProvider, FsuipcModule, FiniteSetTheorems, SequenceTheorems,
        WellFoundedInduction, TLAPS

-----------------------------------------------------------------------------
(* Who counts the frames *)

\* What is counted per frame is a finite set of gauges.
LEMMA FreshFinite ==
  ASSUME FrameInv, NEW S \in SUBSET Gauges
  PROVE  IsFiniteSet(S) /\ Cardinality(S) \in Nat
  BY FrameAssumption, FS_Subset, FS_CardinalityType

LEMMA FrameStart == FrameInit => FrameInv
  <1> SUFFICES ASSUME FrameInit PROVE FrameInv
    OBVIOUS
  <1>1. fresh \intersect drawn = {}
    BY DEF FrameInit
  <1>2. Cardinality(fresh \intersect drawn) = 0
    BY <1>1, FS_EmptySet
  <1> QED BY <1>2 DEF FrameInit, FrameInv, AckedOnce

\* Installing a gauge disturbs nobody: it is fresh, and not drawn.
LEMMA InstallKeeps ==
  ASSUME FrameInv, NEW g \in Gauges, Install(g)
  PROVE  FrameInv'
  <1>1. fresh' \intersect drawn' = fresh \intersect drawn
    BY DEF Install, FrameInv
  <1>2. AckedOnce'
    BY <1>1 DEF Install, FrameInv, AckedOnce
  <1> QED BY <1>2 DEF Install, FrameInv

\* A count: before it no gauge that is not fresh could still count if one had.
LEMMA CountKeeps ==
  ASSUME FrameInv, NEW g \in Gauges, PreDraw(g), lastFrame[g] = frameCounter, CountFrame(g),
         provides' = [provides EXCEPT ![g] = TRUE]
  PROVE  FrameInv'
  <1> DEFINE both == fresh \intersect drawn
  <1>1. /\ IsFiniteSet(both) /\ Cardinality(both) \in Nat
        /\ Cardinality(fresh' \intersect drawn') \in Nat
    <2>1. both \in SUBSET Gauges /\ fresh' \intersect drawn' \in SUBSET Gauges
      BY DEF FrameInv, PreDraw
    <2> QED BY <2>1, FreshFinite
  <1>2. AckedOnce'
    <2>1. CASE g \in fresh
      <3>1. fresh' \intersect drawn' = both \union {g} /\ g \notin both
        BY <2>1 DEF PreDraw
      <3>2. Cardinality(fresh' \intersect drawn') = Cardinality(both) + 1
        BY <3>1, <1>1, FS_AddElement
      <3> QED BY <3>2, <1>1 DEF FrameInv, AckedOnce, CountFrame
    <2>2. CASE g \notin fresh
      <3>1. acks = 0
        BY <2>2 DEF FrameInv, PreDraw
      <3> QED BY <3>1, <1>1 DEF AckedOnce, CountFrame
    <2> QED BY <2>1, <2>2
  <1>3. \A x \in Gauges : lastFrame'[x] <= frameCounter'
    BY DEF FrameInv, CountFrame
  <1>4. \A x \in installed' \ (drawn' \union fresh') : lastFrame'[x] < frameCounter'
    <2> SUFFICES ASSUME NEW x \in installed' \ (drawn' \union fresh')
                 PROVE  lastFrame'[x] < frameCounter'
      OBVIOUS
    <2>1. x \in Gauges /\ x # g
      BY DEF FrameInv, PreDraw
    <2> QED BY <2>1 DEF FrameInv, CountFrame
  <1> QED BY <1>2, <1>3, <1>4 DEF FrameInv, PreDraw, CountFrame

\* A gauge that only notes the count is drawn, so nothing is asked of it any more.
LEMMA NoteKeeps ==
  ASSUME FrameInv, NEW g \in Gauges, PreDraw(g),
         lastFrame' = [lastFrame EXCEPT ![g] = frameCounter],
         provides' = [provides EXCEPT ![g] = FALSE],
         UNCHANGED <<frameCounter, acks>>
  PROVE  FrameInv'
  <1> DEFINE both == fresh \intersect drawn
  <1>1. /\ IsFiniteSet(fresh' \intersect drawn') /\ Cardinality(both) \in Nat
        /\ Cardinality(fresh' \intersect drawn') \in Nat
    <2>1. both \in SUBSET Gauges /\ fresh' \intersect drawn' \in SUBSET Gauges
      BY DEF FrameInv, PreDraw
    <2> QED BY <2>1, FreshFinite
  <1>2. both \subseteq fresh' \intersect drawn'
    BY DEF PreDraw
  <1>3. Cardinality(both) <= Cardinality(fresh' \intersect drawn')
    BY <1>1, <1>2, FS_Subset
  <1>4. AckedOnce'
    BY <1>1, <1>3 DEF FrameInv, AckedOnce
  <1> QED BY <1>4 DEF FrameInv, PreDraw

LEMMA FrameStep == FrameInv /\ [FrameNext]_frameVars => FrameInv'
  <1> SUFFICES ASSUME FrameInv, [FrameNext]_frameVars PROVE FrameInv'
    OBVIOUS
  <1>1. ASSUME NEW g \in Gauges, Install(g) PROVE FrameInv'
    BY <1>1, InstallKeeps
  <1>2. ASSUME NEW g \in Gauges, PreDraw(g) PROVE FrameInv'
    BY <1>2, CountKeeps, NoteKeeps DEF PreDraw
  <1>3. CASE NextFrame
    <2>1. fresh' \intersect drawn' = {}
      BY <1>3 DEF NextFrame
    <2>2. Cardinality(fresh' \intersect drawn') = 0
      BY <2>1, FS_EmptySet
    <2> QED BY <1>3, <2>2 DEF NextFrame, FrameInv, AckedOnce
  <1>4. CASE UNCHANGED frameVars
    BY <1>4 DEF frameVars, FrameInv, AckedOnce
  <1> QED BY <1>1, <1>2, <1>3, <1>4 DEF FrameNext

\* A frame is counted once, and once more for each gauge installed and drawn in the
\* middle of it: for any number of gauges (Gauge::callback, PRE_DRAW).
THEOREM FrameCountedOnce == FrameSpec => []AckedOnce
  <1>1. FrameInv => AckedOnce
    BY DEF FrameInv
  <1> QED BY FrameStart, FrameStep, <1>1, PTL DEF FrameSpec

\* A gauge that is drawn finds a frame counted since it was drawn last, its own count
\* included: frames go on whichever gauges stop being drawn.
THEOREM FramesAlwaysGoOn == FrameSpec => FramesGoOn
  <1> DEFINE Moved == \A g \in drawn' \ drawn : frameCounter' > lastFrame[g]
  <1>1. FrameInv /\ [FrameNext]_frameVars => [Moved]_frameVars
    <2> SUFFICES ASSUME FrameInv, FrameNext, NEW g \in drawn' \ drawn
                 PROVE  frameCounter' > lastFrame[g]
      BY DEF frameVars
    <2>1. g \in Gauges /\ PreDraw(g)
      BY DEF FrameNext, Install, PreDraw, NextFrame, FrameInv
    <2> QED BY <2>1 DEF PreDraw, CountFrame, FrameInv
  <1> QED BY FrameStart, FrameStep, <1>1, PTL DEF FrameSpec, FramesGoOn

-----------------------------------------------------------------------------
(* Variables copied over FSUIPC *)

\* A set of natural numbers that is not empty and has a bound has a largest one.
LEMMA LargestExists ==
  ASSUME NEW n \in Nat, NEW S \in SUBSET (1 .. n), S # {}
  PROVE  \E i \in S : \A j \in S : j <= i
<1> DEFINE R == {ss \in Nat \X Nat : ss[1] < ss[2]}
           T == {n - i : i \in S}
<1>1. IsWellFoundedOn(R, Nat)
  BY NatLessThanWellFounded DEF OpToRel
<1>2. T \subseteq Nat /\ T # {}
  <2>1. \A i \in S : n - i \in Nat
    OBVIOUS
  <2>2. PICK i \in S : TRUE
    OBVIOUS
  <2>3. n - i \in T
    BY <2>2
  <2> QED
    BY <2>1, <2>3
<1>3. PICK x \in T : \A y \in T : ~(<<y, x>> \in R)
  <2> HIDE DEF R, T
  <2> QED
    BY <1>1, <1>2, WFMin
<1>4. PICK i \in S : x = n - i
  OBVIOUS
<1>5. ASSUME NEW j \in S PROVE j <= i
  <2>1. n - j \in T /\ ~(n - j < n - i)
    BY <1>2, <1>3, <1>4
  <2> QED
    BY <2>1
<1> QED
  BY <1>5

Packets == [id : Ids, value : Nat]

\* Receiving moves the first packet of the stream to the end of todo, and the client will
\* write the same.
LEMMA MovesOver ==
  ASSUME NEW q \in Seq(Packets), NEW r \in Seq(Packets), r # <<>>
  PROVE  /\ Append(q, Head(r)) \in Seq(Packets)
         /\ Tail(r) \in Seq(Packets)
         /\ Append(q, Head(r)) \o Tail(r) = q \o r
<1>1. /\ Append(q, Head(r)) \in Seq(Packets) /\ Tail(r) \in Seq(Packets)
      /\ Len(r) \in Nat \ {0} /\ Len(Tail(r)) = Len(r) - 1 /\ Head(r) = r[1]
      /\ \A i \in 1 .. Len(Tail(r)) : Tail(r)[i] = r[i + 1]
  BY HeadTailProperties, EmptySeq, LenProperties
<1>2. /\ Len(Append(q, Head(r))) = Len(q) + 1 /\ Append(q, Head(r))[Len(q) + 1] = r[1]
      /\ \A i \in 1 .. Len(q) : Append(q, Head(r))[i] = q[i]
  BY <1>1, AppendProperties
<1> DEFINE a == Append(q, Head(r)) \o Tail(r)
           b == q \o r
<1>3. /\ a \in Seq(Packets) /\ b \in Seq(Packets)
      /\ Len(a) = Len(q) + Len(r) /\ Len(b) = Len(q) + Len(r)
      /\ \A i \in 1 .. Len(a) : a[i] = IF i <= Len(q) + 1 THEN Append(q, Head(r))[i]
                                       ELSE Tail(r)[i - (Len(q) + 1)]
      /\ \A i \in 1 .. Len(b) : b[i] = IF i <= Len(q) THEN q[i] ELSE r[i - Len(q)]
  BY <1>1, <1>2, ConcatProperties, LenProperties
<1>4. ASSUME NEW i \in 1 .. Len(a) PROVE a[i] = b[i]
  <2>1. CASE i <= Len(q)
    BY <2>1, <1>2, <1>3, LenProperties
  <2>2. CASE i = Len(q) + 1
    BY <2>2, <1>1, <1>2, <1>3, LenProperties
  <2>3. CASE i > Len(q) + 1
    <3>1. i - (Len(q) + 1) \in 1 .. Len(Tail(r)) /\ i - (Len(q) + 1) + 1 = i - Len(q)
      BY <2>3, <1>1, <1>3, LenProperties
    <3> QED
      BY <2>3, <3>1, <1>1, <1>3, LenProperties
  <2> QED
    BY <2>1, <2>2, <2>3, LenProperties
<1>5. a = b
  BY <1>3, <1>4, SeqEqual
<1> QED
  BY <1>1, <1>5

\* A packet that is sent is the last one the client will write.
LEMMA SentLast ==
  ASSUME NEW q \in Seq(Packets), NEW r \in Seq(Packets), NEW m \in Packets
  PROVE  /\ Append(r, m) \in Seq(Packets)
         /\ q \o r \in Seq(Packets)
         /\ q \o Append(r, m) = Append(q \o r, m)
<1>1. /\ Append(r, m) \in Seq(Packets) /\ Len(Append(r, m)) = Len(r) + 1
      /\ Append(r, m)[Len(r) + 1] = m /\ \A i \in 1 .. Len(r) : Append(r, m)[i] = r[i]
  BY AppendProperties
<1> DEFINE a == q \o Append(r, m)
           b == Append(q \o r, m)
<1>2. /\ q \o r \in Seq(Packets) /\ Len(q \o r) = Len(q) + Len(r)
      /\ \A i \in 1 .. Len(q \o r) : (q \o r)[i] = IF i <= Len(q) THEN q[i] ELSE r[i - Len(q)]
  BY ConcatProperties, LenProperties
<1>3. /\ a \in Seq(Packets) /\ Len(a) = Len(q) + Len(r) + 1
      /\ \A i \in 1 .. Len(a) : a[i] = IF i <= Len(q) THEN q[i] ELSE Append(r, m)[i - Len(q)]
  <2>1. /\ a \in Seq(Packets) /\ Len(a) = Len(q) + Len(Append(r, m))
        /\ \A i \in 1 .. Len(q) + Len(Append(r, m)) :
             a[i] = IF i <= Len(q) THEN q[i] ELSE Append(r, m)[i - Len(q)]
    BY <1>1, ConcatProperties
  <2>2. Len(q) \in Nat /\ Len(r) \in Nat
    BY LenProperties
  <2>3. Len(q) + Len(Append(r, m)) = Len(q) + Len(r) + 1
    BY <1>1, <2>2
  <2> QED
    BY <2>1, <2>3
<1>4. /\ b \in Seq(Packets) /\ Len(b) = Len(q) + Len(r) + 1 /\ b[Len(q) + Len(r) + 1] = m
      /\ \A i \in 1 .. Len(q) + Len(r) : b[i] = (q \o r)[i]
  BY <1>2, AppendProperties
<1>5. ASSUME NEW i \in 1 .. Len(a) PROVE a[i] = b[i]
  <2>1. CASE i <= Len(q)
    BY <2>1, <1>2, <1>3, <1>4, LenProperties
  <2>2. CASE i > Len(q) /\ i <= Len(q) + Len(r)
    <3>1. i - Len(q) \in 1 .. Len(r)
      BY <2>2, LenProperties
    <3> QED
      BY <2>2, <3>1, <1>1, <1>2, <1>3, <1>4, LenProperties
  <2>3. CASE i = Len(q) + Len(r) + 1
    <3>1. i - Len(q) = Len(r) + 1 /\ ~(i <= Len(q))
      BY <2>3, LenProperties
    <3> QED
      BY <2>3, <3>1, <1>1, <1>3, <1>4
  <2> QED
    BY <2>1, <2>2, <2>3, <1>3, LenProperties
<1>6. a = b
  BY <1>3, <1>4, <1>5, SeqEqual
<1> QED
  BY <1>1, <1>2, <1>6

\* In a step that leaves the client alone, or only moves packets nearer to it, every
\* variable ends as before.
LEMMA SameEnd ==
  ASSUME UNCHANGED written, OnTheWay' = OnTheWay, NEW w \in Ids, NEW v, EndsAs(w, v)
  PROVE  EndsAs(w, v)'
BY DEF EndsAs

LEMMA OnTheWayType ==
  ASSUME FsuipcTypeOK
  PROVE  OnTheWay \in Seq(Packets) /\ Len(OnTheWay) \in Nat
BY ConcatProperties, LenProperties DEF FsuipcTypeOK, OnTheWay, Packets

\* Sending a packet: its variable ends as it says, the others as before.
LEMMA SendEnds ==
  ASSUME FsuipcTypeOK, UNCHANGED <<todo, written>>, NEW m \in Packets,
         stream' = Append(stream, m)
  PROVE  /\ EndsAs(m.id, m.value)'
         /\ \A w \in Ids \ {m.id} : \A v \in Nat : EndsAs(w, v) => EndsAs(w, v)'
<1>1. OnTheWay' = Append(OnTheWay, m)
  <2>1. todo \in Seq(Packets) /\ stream \in Seq(Packets)
    BY DEF FsuipcTypeOK, Packets
  <2>2. OnTheWay' = todo \o Append(stream, m)
    BY DEF OnTheWay
  <2> QED
    BY <2>1, <2>2, SentLast DEF OnTheWay
<1>2. /\ OnTheWay \in Seq(Packets) /\ Len(OnTheWay) \in Nat
      /\ Len(OnTheWay') = Len(OnTheWay) + 1 /\ OnTheWay'[Len(OnTheWay) + 1] = m
      /\ \A i \in 1 .. Len(OnTheWay) : OnTheWay'[i] = OnTheWay[i]
  BY <1>1, OnTheWayType, AppendProperties
<1>3. m = [id |-> m.id, value |-> m.value]
  BY DEF Packets
<1>4. EndsAs(m.id, m.value)'
  BY <1>2, <1>3 DEF EndsAs
<1>5. ASSUME NEW w \in Ids \ {m.id}, NEW v \in Nat, EndsAs(w, v) PROVE EndsAs(w, v)'
  <2>1. CASE written[w] = v /\ \A i \in 1 .. Len(OnTheWay) : OnTheWay[i].id # w
    <3>1. \A i \in 1 .. Len(OnTheWay') : OnTheWay'[i].id # w
      BY <2>1, <1>2
    <3> QED
      BY <2>1, <3>1 DEF EndsAs
  <2>2. ASSUME NEW i \in 1 .. Len(OnTheWay), OnTheWay[i] = [id |-> w, value |-> v],
               \A j \in i + 1 .. Len(OnTheWay) : OnTheWay[j].id # w
        PROVE  EndsAs(w, v)'
    <3>1. i \in 1 .. Len(OnTheWay') /\ OnTheWay'[i] = [id |-> w, value |-> v]
      BY <1>2, <2>2
    <3>2. ASSUME NEW j \in i + 1 .. Len(OnTheWay') PROVE OnTheWay'[j].id # w
      <4>1. j \in i + 1 .. Len(OnTheWay) \/ j = Len(OnTheWay) + 1
        BY <1>2
      <4>2. ASSUME j \in i + 1 .. Len(OnTheWay) PROVE OnTheWay'[j].id # w
        <5>1. j \in 1 .. Len(OnTheWay)
          BY <1>2, <4>2
        <5> QED
          BY <1>2, <2>2, <4>2, <5>1
      <4> QED
        BY <1>2, <4>1, <4>2
    <3> QED
      BY <3>1, <3>2 DEF EndsAs
  <2> QED
    BY <1>5, <2>1, <2>2 DEF EndsAs
<1> QED
  BY <1>4, <1>5

\* The variables after all packets of todo are written.
LEMMA AllWritten ==
  ASSUME FsuipcTypeOK, NEW w \in Ids
  PROVE  /\ (\A i \in 1 .. Len(todo) : todo[i].id # w) => After(Len(todo))[w] = written[w]
         /\ \A i \in 1 .. Len(todo) :
              todo[i].id = w /\ (\A j \in i + 1 .. Len(todo) : todo[j].id # w)
              => After(Len(todo))[w] = todo[i].value
<1> DEFINE mine == {i \in 1 .. Len(todo) : todo[i].id = w}
<1>0. Len(todo) \in Nat
  BY LenProperties DEF FsuipcTypeOK
<1>1. After(Len(todo))[w] = IF mine = {} THEN written[w]
                            ELSE todo[CHOOSE i \in mine : \A j \in mine : j <= i].value
  BY DEF After
<1>2. ASSUME NEW i \in 1 .. Len(todo), todo[i].id = w,
             \A j \in i + 1 .. Len(todo) : todo[j].id # w
      PROVE  After(Len(todo))[w] = todo[i].value
  <2>1. i \in mine /\ \A j \in mine : j <= i
    BY <1>0, <1>2
  <2> DEFINE last == CHOOSE k \in mine : \A j \in mine : j <= k
  <2>2. last \in mine /\ \A j \in mine : j <= last
    BY <2>1
  <2>3. last = i
    BY <1>0, <2>1, <2>2
  <2> QED
    BY <1>1, <2>1, <2>3
<1>3. (\A i \in 1 .. Len(todo) : todo[i].id # w) => mine = {}
  OBVIOUS
<1> QED
  BY <1>1, <1>2, <1>3

\* A frame of the client that writes the whole queue.
LEMMA WriteEnds ==
  ASSUME FsuipcTypeOK, WriteTodo(Len(todo)), NEW w \in Ids, NEW v \in Nat, EndsAs(w, v)
  PROVE  EndsAs(w, v)'
<1>1. /\ todo \in Seq(Packets) /\ stream \in Seq(Packets)
      /\ Len(todo) \in Nat /\ Len(stream) \in Nat
  BY LenProperties DEF FsuipcTypeOK, Packets
<1>2. /\ Len(OnTheWay) = Len(todo) + Len(stream)
      /\ \A i \in 1 .. Len(OnTheWay) :
           OnTheWay[i] = IF i <= Len(todo) THEN todo[i] ELSE stream[i - Len(todo)]
  BY <1>1, ConcatProperties DEF OnTheWay
<1>3. OnTheWay' = stream
  BY <1>1, ConcatEmptySeq DEF WriteTodo, OnTheWay
<1>4. written'[w] = After(Len(todo))[w]
  BY DEF WriteTodo
<1>5. \A i \in 1 .. Len(stream) : /\ i + Len(todo) \in 1 .. Len(OnTheWay)
                                  /\ OnTheWay[i + Len(todo)] = stream[i]
  BY <1>1, <1>2
<1>6. CASE written[w] = v /\ \A i \in 1 .. Len(OnTheWay) : OnTheWay[i].id # w
  <2>1. \A i \in 1 .. Len(todo) : todo[i].id # w
    BY <1>1, <1>2, <1>6
  <2>2. \A i \in 1 .. Len(stream) : stream[i].id # w
    BY <1>5, <1>6
  <2> QED
    BY <1>3, <1>4, <1>6, <2>1, <2>2, AllWritten DEF EndsAs
<1>7. ASSUME NEW i \in 1 .. Len(OnTheWay), OnTheWay[i] = [id |-> w, value |-> v],
             \A j \in i + 1 .. Len(OnTheWay) : OnTheWay[j].id # w
      PROVE  EndsAs(w, v)'
  <2>1. CASE i <= Len(todo)
    <3>1. i \in 1 .. Len(todo) /\ todo[i] = [id |-> w, value |-> v]
      BY <1>1, <1>2, <1>7, <2>1
    <3>2. \A j \in i + 1 .. Len(todo) : todo[j].id # w
      BY <1>1, <1>2, <1>7
    <3>3. \A j \in 1 .. Len(stream) : stream[j].id # w
      <4> SUFFICES ASSUME NEW j \in 1 .. Len(stream) PROVE stream[j].id # w
        OBVIOUS
      <4>1. j + Len(todo) \in i + 1 .. Len(OnTheWay)
        BY <1>1, <1>2, <2>1
      <4> QED
        BY <1>5, <1>7, <4>1
    <3>4. written'[w] = v
      BY <1>4, <3>1, <3>2, AllWritten
    <3> QED
      BY <1>3, <3>3, <3>4 DEF EndsAs
  <2>2. CASE i > Len(todo)
    <3> DEFINE k == i - Len(todo)
    <3>1. k \in 1 .. Len(stream) /\ stream[k] = [id |-> w, value |-> v]
      BY <1>1, <1>2, <1>7, <2>2
    <3>2. \A j \in k + 1 .. Len(stream) : stream[j].id # w
      <4> SUFFICES ASSUME NEW j \in k + 1 .. Len(stream) PROVE stream[j].id # w
        OBVIOUS
      <4>1. j \in 1 .. Len(stream) /\ j + Len(todo) \in i + 1 .. Len(OnTheWay)
        BY <1>1, <1>2, <2>2, <3>1
      <4> QED
        BY <1>5, <1>7, <4>1
    <3> QED
      BY <1>3, <3>1, <3>2 DEF EndsAs
  <2> QED
    BY <1>1, <1>2, <2>1, <2>2
<1> QED
  BY <1>6, <1>7 DEF EndsAs

LEMMA FsuipcStart == FsuipcInit => FsuipcInv
<1> SUFFICES ASSUME FsuipcInit PROVE FsuipcInv
  OBVIOUS
<1>1. 1 \in Ids
  BY FsuipcAssumption DEF Ids
<1>2. FsuipcTypeOK
  <2>1. poll \in [at : {"none", "read", "sending"}, full : BOOLEAN, next : Ids]
    BY <1>1 DEF FsuipcInit, NoPoll
  <2>2. {stream, todo} \subseteq Seq([id : Ids, value : Nat])
    BY EmptySeq DEF FsuipcInit
  <2>3. {variable, data, oldData, written} \subseteq [Ids -> Nat]
    BY DEF FsuipcInit
  <2>4. {watchNow, nextIsFullSend, joined, asked, spoiled} \subseteq BOOLEAN /\ joins \in Nat
    BY DEF FsuipcInit
  <2> QED
    BY <2>1, <2>2, <2>3, <2>4 DEF FsuipcTypeOK
<1> QED
  BY <1>2 DEF FsuipcInit, FsuipcInv, NothingForgotten, NoPoll

LEMMA FsuipcTypeStep ==
  ASSUME FsuipcInv, [FsuipcNext]_fsuipcVars
  PROVE  FsuipcTypeOK'
<1>0. FsuipcTypeOK /\ (poll.at = "read" => poll.next = 1) /\ 1 \in Ids
  BY FsuipcAssumption DEF FsuipcInv, Ids
<1> USE DEF FsuipcTypeOK, hostVars, sessionVars, clientVars
<1>1. ASSUME NEW w \in Ids, Change(w) PROVE FsuipcTypeOK'
  <2>1. variable' \in [Ids -> Nat]
    BY <1>0, <1>1 DEF Change
  <2> QED
    BY <1>0, <1>1, <2>1 DEF Change
<1>2. CASE Tick
  BY <1>0, <1>2 DEF Tick
<1>3. CASE PollFails
  BY <1>0, <1>3 DEF PollFails
<1>4. CASE PollReads
  <2>1. data' \in [Ids -> Nat]
    BY <1>0, <1>4 DEF PollReads
  <2>2. poll' \in [at : {"none", "read", "sending"}, full : BOOLEAN, next : Ids]
    BY <1>0, <1>4 DEF PollReads
  <2> QED
    BY <1>0, <1>4, <2>1, <2>2 DEF PollReads
<1>5. CASE PollClears
  <2>1. spoiled' \in BOOLEAN
    BY <1>0, <1>5 DEF PollClears
  <2>2. poll' \in [at : {"none", "read", "sending"}, full : BOOLEAN, next : Ids]
    BY <1>0, <1>5 DEF PollClears
  <2> QED
    BY <1>0, <1>5, <2>1, <2>2 DEF PollClears
<1>6. CASE PollSends
  <2>1. poll' \in [at : {"none", "read", "sending"}, full : BOOLEAN, next : Ids]
    <3>1. CASE poll.next = Watches
      BY <1>0, <1>6, <3>1 DEF PollSends, NoPoll
    <3>2. CASE poll.next # Watches
      <4>1. poll.next + 1 \in Ids
        <5>1. poll.next \in 1 .. Watches /\ Watches \in Nat
          BY <1>0, FsuipcAssumption DEF Ids
        <5> QED
          BY <3>2, <5>1 DEF Ids
      <4> QED
        BY <1>0, <1>6, <3>2, <4>1 DEF PollSends
    <3> QED
      BY <3>1, <3>2
  <2>2. [id |-> poll.next, value |-> data[poll.next]] \in Packets
    BY <1>0 DEF Packets
  <2>3. oldData' \in [Ids -> Nat]
    BY <1>0, <1>6 DEF PollSends
  <2>4. stream' \in Seq(Packets)
    <3>1. stream \in Seq(Packets)
      BY <1>0 DEF Packets
    <3>2. Append(stream, [id |-> poll.next, value |-> data[poll.next]]) \in Seq(Packets)
      BY <2>2, <3>1, AppendProperties
    <3> QED
      BY <1>6, <3>1, <3>2 DEF PollSends
  <2> QED
    BY <1>0, <1>6, <2>1, <2>3, <2>4 DEF PollSends, Packets
<1>7. CASE SendFullState
  BY <1>0, <1>7 DEF SendFullState
<1>8. CASE Join
  <2>1. joins' \in Nat
    BY <1>0, <1>8 DEF Join
  <2> QED
    BY <1>0, <1>8, <2>1 DEF Join
<1>9. CASE Leave
  BY <1>0, <1>9, EmptySeq DEF Leave
<1>10. CASE Receive
  <2>1. todo' \in Seq(Packets) /\ stream' \in Seq(Packets)
    BY <1>0, <1>10, MovesOver DEF Receive, Packets
  <2> QED
    BY <1>0, <1>10, <2>1 DEF Receive, Packets
<1>11. ASSUME NEW n \in 0 .. Len(todo), WriteTodo(n) PROVE FsuipcTypeOK'
  <2>1. After(n) \in [Ids -> Nat]
    <3> SUFFICES ASSUME NEW w \in Ids PROVE After(n)[w] \in Nat
      BY DEF After
    <3> DEFINE mine == {i \in 1 .. n : todo[i].id = w}
    <3>1. CASE mine = {}
      BY <1>0, <3>1 DEF After
    <3>2. CASE mine # {}
      <4> DEFINE last == CHOOSE i \in mine : \A j \in mine : j <= i
      <4>1. n \in Nat /\ mine \in SUBSET (1 .. n)
        BY <1>0, <1>11, LenProperties
      <4>2. \E i \in mine : \A j \in mine : j <= i
        BY <3>2, <4>1, LargestExists
      <4>3. last \in mine
        BY <4>2
      <4>4. last \in 1 .. Len(todo) /\ todo \in Seq(Packets)
        BY <1>0, <1>11, <4>3, LenProperties DEF Packets
      <4>5. todo[last].value \in Nat
        <5>1. todo[last] \in Packets
          BY <4>4, ElementOfSeq
        <5> QED
          BY <5>1 DEF Packets
      <4>6. After(n)[w] = todo[last].value
        BY <3>2 DEF After
      <4> QED
        BY <4>5, <4>6
    <3> QED
      BY <3>1, <3>2
  <2>2. spoiled' \in BOOLEAN
    BY <1>0, <1>11 DEF WriteTodo
  <2> QED
    BY <1>0, <1>11, <2>1, <2>2, EmptySeq DEF WriteTodo
<1>12. CASE UNCHANGED fsuipcVars
  BY <1>0, <1>12 DEF fsuipcVars
<1> QED
  BY <1>1, <1>2, <1>3, <1>4, <1>5, <1>6, <1>7, <1>8, <1>9, <1>10, <1>11, <1>12 DEF FsuipcNext

LEMMA ReadsFromFirst ==
  ASSUME FsuipcInv, [FsuipcNext]_fsuipcVars
  PROVE  poll'.at = "read" => poll'.next = 1
<1> USE DEF FsuipcInv, FsuipcTypeOK, hostVars
<1>1. CASE UNCHANGED poll
  BY <1>1
<1>2. CASE PollReads
  BY <1>2 DEF PollReads
<1>3. CASE PollClears
  BY <1>3 DEF PollClears
<1>4. CASE PollSends
  BY <1>4 DEF PollSends, NoPoll
<1>5. UNCHANGED poll \/ PollReads \/ PollClears \/ PollSends
  BY DEF FsuipcNext, fsuipcVars, Change, Tick, PollFails, SendFullState, Join, Leave, Receive,
         WriteTodo
<1> QED
  BY <1>1, <1>2, <1>3, <1>4, <1>5

\* One variable: what is on its way stays known, and what is not is still to be sent.
LEMMA KnownStep ==
  ASSUME FsuipcInv, [FsuipcNext]_fsuipcVars, NEW w \in Ids, joined', ~spoiled'
  PROVE  ToBeSent(w)' \/ EndsAs(w, oldData[w])'
<1>0. /\ FsuipcTypeOK /\ oldData[w] \in Nat /\ oldData' \in [Ids -> Nat]
      /\ poll.at = "read" => poll.next = 1
      /\ joined /\ ~spoiled => ToBeSent(w) \/ EndsAs(w, oldData[w])
  BY FsuipcTypeStep DEF FsuipcInv, FsuipcTypeOK, NothingForgotten
<1> USE DEF hostVars, sessionVars, clientVars
<1>1. ASSUME UNCHANGED <<asked, nextIsFullSend, poll, oldData, joined, spoiled, written>>,
             OnTheWay' = OnTheWay
      PROVE  ToBeSent(w)' \/ EndsAs(w, oldData[w])'
  <2>1. CASE ToBeSent(w)
    BY <1>1, <2>1 DEF ToBeSent
  <2>2. CASE EndsAs(w, oldData[w])
    BY <1>1, <2>2 DEF EndsAs
  <2> QED
    BY <1>0, <1>1, <2>1, <2>2
<1>2. ASSUME joined, ~spoiled, UNCHANGED <<oldData, written>>, OnTheWay' = OnTheWay,
             ToBeSent(w) => ToBeSent(w)'
      PROVE  ToBeSent(w)' \/ EndsAs(w, oldData[w])'
  BY <1>0, <1>2 DEF EndsAs
<1>3. ASSUME NEW x \in Ids, Change(x) PROVE ToBeSent(w)' \/ EndsAs(w, oldData[w])'
  BY <1>1, <1>3 DEF Change, OnTheWay
<1>4. CASE Tick
  BY <1>1, <1>4 DEF Tick, OnTheWay
<1>5. CASE PollFails
  BY <1>1, <1>5 DEF PollFails, OnTheWay
\* The poll takes the request, which stays noted until PollClears.
<1>6. CASE PollReads
  <2>1. OnTheWay' = OnTheWay
    BY <1>6 DEF PollReads, OnTheWay
  <2>2. ToBeSent(w) => ToBeSent(w)'
    BY <1>6 DEF PollReads, ToBeSent
  <2> QED
    BY <1>2, <1>6, <2>1, <2>2 DEF PollReads
\* Unless a request came in between, the one that is cleared is the one that was taken,
\* and no variable has been sent yet.
<1>7. CASE PollClears
  <2>1. OnTheWay' = OnTheWay
    BY <1>7 DEF PollClears, OnTheWay
  <2>2. ~spoiled /\ nextIsFullSend = poll.full
    BY <1>0, <1>7 DEF PollClears, FsuipcTypeOK
  <2>3. poll.next = 1 /\ 1 <= w
    BY <1>0, <1>7 DEF PollClears, Ids
  <2>4. poll' = [poll EXCEPT !.at = "sending"]
    BY <1>7 DEF PollClears
  <2>5. poll'.at = "sending" /\ poll'.full = poll.full /\ poll'.next = poll.next
    BY <1>0, <2>4 DEF FsuipcTypeOK
  <2>6. ToBeSent(w) => ToBeSent(w)'
    BY <1>7, <2>2, <2>3, <2>5 DEF PollClears, ToBeSent
  <2> QED
    BY <1>2, <1>7, <2>1, <2>2, <2>6 DEF PollClears
<1>8. CASE PollSends
  <2>0. /\ joined /\ ~spoiled /\ poll.at = "sending"
        /\ poll.next \in Ids /\ data[poll.next] \in Nat
        /\ UNCHANGED <<asked, nextIsFullSend, todo, written>>
    BY <1>0, <1>8 DEF PollSends, FsuipcTypeOK
  <2>1. CASE poll.full \/ oldData[poll.next] # data[poll.next]
    <3>1. PICK m \in Packets : m = [id |-> poll.next, value |-> data[poll.next]]
      BY <2>0 DEF Packets
    <3>2. /\ stream' = Append(stream, m)
          /\ oldData' = [oldData EXCEPT ![poll.next] = data[poll.next]]
      BY <1>8, <2>0, <2>1, <3>1 DEF PollSends
    <3>3. /\ EndsAs(m.id, m.value)'
          /\ \A x \in Ids \ {m.id} : \A v \in Nat : EndsAs(x, v) => EndsAs(x, v)'
      BY <1>0, <2>0, <3>2, SendEnds
    <3>4. CASE w = poll.next
      <4>1. m.id = w /\ m.value = oldData'[w]
        BY <1>0, <3>1, <3>2, <3>4 DEF FsuipcTypeOK
      <4>2. EndsAs(w, oldData[w])'
        BY <3>3, <4>1 DEF EndsAs
      <4> QED
        BY <4>2
    <3>5. CASE w # poll.next
      <4>1. m.id # w
        BY <3>1, <3>5
      <4>2. PICK v \in Nat : v = oldData[w]
        BY <1>0
      <4>3. oldData'[w] = v
        BY <1>0, <3>2, <3>5, <4>2 DEF FsuipcTypeOK
      <4>4. CASE EndsAs(w, oldData[w])
        <5>1. EndsAs(w, v)
          BY <4>2, <4>4
        <5>2. EndsAs(w, v)'
          BY <3>3, <4>1, <5>1
        <5> QED
          BY <4>3, <5>2 DEF EndsAs
      <4>5. CASE ToBeSent(w)
        <5>1. ToBeSent(w)'
          <6>1. CASE asked \/ nextIsFullSend
            BY <2>0, <6>1 DEF ToBeSent
          <6>2. CASE poll.full /\ poll.next <= w
            <7>1. poll.next \in 1 .. Watches /\ w \in 1 .. Watches /\ Watches \in Nat
              BY <2>0, FsuipcAssumption DEF Ids
            <7>2. poll.next # Watches /\ poll.next + 1 <= w
              BY <3>5, <6>2, <7>1
            <7>3. poll' = [poll EXCEPT !.next = @ + 1]
              BY <1>8, <7>2 DEF PollSends
            <7>4. poll'.at = "sending" /\ poll'.full /\ poll'.next = poll.next + 1
              BY <1>0, <2>0, <6>2, <7>3 DEF FsuipcTypeOK
            <7> QED
              BY <7>2, <7>4 DEF ToBeSent
          <6> QED
            BY <4>5, <6>1, <6>2 DEF ToBeSent
        <5> QED
          BY <5>1
      <4> QED
        BY <1>0, <2>0, <4>4, <4>5
    <3> QED
      BY <3>4, <3>5
  <2>2. CASE ~poll.full /\ oldData[poll.next] = data[poll.next]
    <3>1. UNCHANGED <<oldData, stream>>
      BY <1>8, <2>2 DEF PollSends
    <3>2. ToBeSent(w) => ToBeSent(w)'
      BY <2>0, <2>2 DEF ToBeSent
    <3> QED
      BY <1>2, <1>8, <2>0, <3>1, <3>2 DEF PollSends, OnTheWay
  <2> QED
    BY <2>1, <2>2
<1>9. CASE SendFullState
  BY <1>9 DEF SendFullState, ToBeSent
<1>10. CASE Join
  BY <1>10 DEF Join, ToBeSent
<1>11. CASE Leave
  BY <1>11 DEF Leave
<1>12. CASE Receive
  <2>1. OnTheWay' = OnTheWay
    <3>1. todo \in Seq(Packets) /\ stream \in Seq(Packets)
      BY <1>0 DEF FsuipcTypeOK, Packets
    <3> QED
      BY <1>12, <3>1, MovesOver DEF Receive, OnTheWay
  <2> QED
    BY <1>1, <1>12, <2>1 DEF Receive
\* A frame that does not write all it takes spoils the session.
<1>13. ASSUME NEW n \in 0 .. Len(todo), WriteTodo(n)
       PROVE  ToBeSent(w)' \/ EndsAs(w, oldData[w])'
  <2>1. Len(todo) \in Nat
    BY <1>0, LenProperties DEF FsuipcTypeOK
  <2>2. ~spoiled /\ ~(n < Len(todo))
    BY <1>0, <1>13 DEF WriteTodo, FsuipcTypeOK
  <2>3. n = Len(todo)
    BY <1>13, <2>1, <2>2
  <2>4. ASSUME EndsAs(w, oldData[w]) PROVE EndsAs(w, oldData[w])'
    <3>1. PICK v \in Nat : v = oldData[w]
      BY <1>0
    <3>2. EndsAs(w, v)
      BY <2>4, <3>1
    <3>3. EndsAs(w, v)'
      BY <1>0, <1>13, <2>3, <3>2, WriteEnds
    <3>4. oldData'[w] = v
      BY <1>13, <3>1 DEF WriteTodo
    <3> QED
      BY <3>3, <3>4 DEF EndsAs
  <2> QED
    BY <1>0, <1>13, <2>2, <2>4 DEF WriteTodo, ToBeSent
<1>14. CASE UNCHANGED fsuipcVars
  BY <1>1, <1>14 DEF fsuipcVars, OnTheWay
<1> QED
  BY <1>3, <1>4, <1>5, <1>6, <1>7, <1>8, <1>9, <1>10, <1>11, <1>12, <1>13, <1>14 DEF FsuipcNext

THEOREM FsuipcInvariant == FsuipcSpec => []FsuipcInv
<1>1. FsuipcInv /\ [FsuipcNext]_fsuipcVars => FsuipcInv'
  <2> SUFFICES ASSUME FsuipcInv, [FsuipcNext]_fsuipcVars PROVE FsuipcInv'
    OBVIOUS
  <2>1. NothingForgotten'
    BY KnownStep DEF NothingForgotten
  <2> QED
    BY <2>1, FsuipcTypeStep, ReadsFromFirst DEF FsuipcInv
<1> QED
  BY FsuipcStart, <1>1, PTL DEF FsuipcSpec

\* Whatever the client asks for and the host takes as sent is sent, in any order of polls,
\* requests and sessions.
THEOREM NothingIsForgotten == FsuipcSpec => []NothingForgotten
<1>1. FsuipcInv => NothingForgotten
  BY DEF FsuipcInv
<1> QED
  BY FsuipcInvariant, <1>1, PTL
=============================================================================
