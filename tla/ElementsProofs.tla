--------------------------- MODULE ElementsProofs ---------------------------
(* Proofs about the elements: however often the data change, a full state   *)
(* is asked for or a panel is loaded, the client settles on what the host   *)
(* noted last, and no redraw of a value is forgotten.                       *)
EXTENDS Elements, SequenceTheorems, TLAPS

USE DEF hostData, hostCode, clientData, clientCode, counters, Datum

\* What is left of a stream is a stream, and ends with the same packet.
LEMMA SkippedStream ==
  ASSUME NEW S, NEW s \in Seq(S), NEW i \in 1 .. Len(s)
  PROVE  LET t == SubSeq(s, i + 1, Len(s))
         IN /\ t \in Seq(S)
            /\ i = Len(s) => t = <<>>
            /\ i # Len(s) => t # <<>> /\ t[Len(t)] = s[Len(s)]
  <1> DEFINE t == SubSeq(s, i + 1, Len(s))
  <1>1. Len(s) \in Nat /\ i \in Nat /\ i <= Len(s) /\ i >= 1
    OBVIOUS
  <1>2. \A j \in i + 1 .. Len(s) : s[j] \in S
    BY <1>1
  <1>3. i + 1 \in Int /\ Len(s) \in Int
    BY <1>1
  <1>4. /\ t \in Seq(S)
        /\ Len(t) = IF i + 1 <= Len(s) THEN Len(s) - (i + 1) + 1 ELSE 0
        /\ \A j \in 1 .. Len(s) - (i + 1) + 1 : t[j] = s[(i + 1) + j - 1]
    BY <1>2, <1>3, SubSeqProperties
  <1>5. ASSUME i = Len(s) PROVE t = <<>>
    BY <1>1, <1>3, <1>5, SubSeqEmpty
  <1>6. ASSUME i # Len(s) PROVE t # <<>> /\ t[Len(t)] = s[Len(s)]
    <2> HIDE DEF t
    <2>1. Len(t) = Len(s) - i /\ Len(t) > 0
      BY <1>1, <1>4, <1>6
    <2>2. Len(t) \in 1 .. Len(s) - (i + 1) + 1
      BY <1>1, <2>1
    <2>3. t[Len(t)] = s[(i + 1) + Len(t) - 1]
      BY <1>4, <2>2
    <2>4. (i + 1) + Len(t) - 1 = Len(s)
      BY <1>1, <2>1
    <2>5. t # <<>>
      BY <2>1
    <2> QED BY <2>3, <2>4, <2>5
  <1> QED BY <1>4, <1>5, <1>6

LEMMA ElementsStart == ElementsInit => ElementsInv
  BY DEF ElementsInit, ElementsInv, ElementsType, SentInOrder, ShownInTime, Zero, AllParts, Newest,
         Late, Early

LEMMA TypeKeeps ==
  ASSUME ElementsType, [ElementsNext]_elementVars
  PROVE  ElementsType'
  <1> USE DEF ElementsType
  <1>1. ASSUME NEW p \in AllParts, Edit(p) PROVE ElementsType'
    <2>1. actual[p] + 1 \in Nat
      BY <1>1
    <2> QED BY <1>1, <2>1 DEF Edit
  <1>2. CASE SimEnters
    BY <1>2 DEF SimEnters
  <1>3. CASE SimCompares
    BY <1>3 DEF SimCompares
  <1>4. CASE SimLooksUp
    BY <1>4 DEF SimLooksUp
  <1>5. CASE SimSends
    BY <1>5 DEF SimSends
  <1>6. CASE FullEnters
    BY <1>6 DEF FullEnters
  <1>7. CASE FullMakes
    BY <1>7 DEF FullMakes
  <1>8. CASE FullSends
    BY <1>8 DEF FullSends
  <1>9. CASE FullLeaves
    BY <1>9 DEF FullLeaves
  <1>10. CASE HostAttaches
    <2>1. actual["flags"] \in Nat
      BY DEF AllParts
    <2> QED BY <1>10, <2>1 DEF HostAttaches
  <1>11. CASE ClientAttaches
    BY <1>11 DEF ClientAttaches
  <1>12. ASSUME NEW i \in 1 .. Len(channel), Stores(i) PROVE ElementsType'
    <2>1. channel[i] \in Datum
      OBVIOUS
    <2>2. channel' \in Seq(Datum)
      BY <1>12, SkippedStream DEF Stores
    <2> QED BY <1>12, <2>1, <2>2 DEF Stores
  <1>13. CASE Marks
    BY <1>13 DEF Marks
  <1>14. CASE Applies
    BY <1>14 DEF Applies
  <1>15. CASE Tests
    BY <1>15 DEF Tests
  <1>16. CASE Redraws
    BY <1>16 DEF Redraws
  <1>17. CASE UNCHANGED elementVars
    BY <1>17 DEF elementVars
  <1> QED BY <1>1, <1>2, <1>3, <1>4, <1>5, <1>6, <1>7, <1>8, <1>9, <1>10, <1>11, <1>12, <1>13, <1>14,
             <1>15, <1>16, <1>17 DEF ElementsNext

\* A packet at the end of the stream is what the client will hold.
LEMMA NewestSent ==
  ASSUME ElementsType, NEW v \in Datum, channel' = Append(channel, v)
  PROVE  Newest' = v
  <1>1. Len(channel') = Len(channel) + 1 /\ channel'[Len(channel) + 1] = v
    BY DEF ElementsType
  <1>2. channel' # <<>>
    <2>1. Len(channel') > 0
      BY <1>1 DEF ElementsType
    <2> QED BY <2>1
  <1> QED BY <1>1, <1>2 DEF Newest

\* The critical section of the protocol keeps the two senders in order: a full state that
\* was made before the other thread noted is sent before that thread looks up.
LEMMA OrderKeeps ==
  ASSUME ElementsType, SentInOrder, [ElementsNext]_elementVars
  PROVE  SentInOrder'
  <1> USE DEF SentInOrder
  <1>1. CASE \/ \E p \in AllParts : Edit(p)
             \/ SimEnters \/ FullEnters \/ FullLeaves
             \/ Marks \/ Applies \/ Tests \/ Redraws
             \/ UNCHANGED elementVars
    BY <1>1 DEF Edit, SimEnters, FullEnters, FullLeaves, Marks, Applies, Tests, Redraws, elementVars,
                Newest
  <1>2. CASE SimCompares
    BY <1>2 DEF SimCompares, ElementsType, Newest
  <1>3. CASE SimLooksUp
    <2>1. fullSend = "idle"
      BY <1>3 DEF SimLooksUp, ElementsType
    <2> QED BY <1>3, <2>1 DEF SimLooksUp
  <1>4. CASE SimSends
    <2>1. Newest' = noted
      BY <1>4, NewestSent DEF SimSends, ElementsType
    <2> QED BY <1>4, <2>1 DEF SimSends
  <1>5. CASE FullMakes
    BY <1>5 DEF FullMakes, ElementsType
  <1>6. CASE FullSends
    <2>1. Newest' = packet["full"]
      BY <1>6, NewestSent DEF FullSends, ElementsType
    <2> QED BY <1>6, <2>1 DEF FullSends
  <1>7. CASE HostAttaches
    BY <1>7 DEF HostAttaches
  <1>8. CASE ClientAttaches
    BY <1>8 DEF ClientAttaches
  <1>9. ASSUME NEW i \in 1 .. Len(channel), Stores(i) PROVE SentInOrder'
    <2>1. channel # <<>> /\ channel \in Seq(Datum)
      BY DEF ElementsType
    <2>2. channel' = SubSeq(channel, i + 1, Len(channel)) /\ held' = channel[i]
      BY <1>9 DEF Stores
    <2>3. /\ i = Len(channel) => channel' = <<>>
          /\ i # Len(channel) => channel' # <<>> /\ channel'[Len(channel')] = channel[Len(channel)]
      BY <2>1, <2>2, SkippedStream
    <2>4. Newest' = Newest
      BY <2>1, <2>2, <2>3 DEF Newest
    <2> QED BY <1>9, <2>4 DEF Stores
  <1> QED BY <1>1, <1>2, <1>3, <1>4, <1>5, <1>6, <1>7, <1>8, <1>9 DEF ElementsNext

\* The callback clears changed before it redraws, so that what comes later marks again.
LEMMA ShownKeeps ==
  ASSUME ElementsType, kind # "static", ShownInTime, [ElementsNext]_elementVars
  PROVE  ShownInTime'
  <1> USE DEF ShownInTime
  <1>1. CASE \/ \E p \in AllParts : Edit(p)
             \/ SimEnters \/ SimCompares \/ SimLooksUp \/ SimSends
             \/ FullEnters \/ FullMakes \/ FullSends \/ FullLeaves \/ HostAttaches
             \/ UNCHANGED elementVars
    BY <1>1 DEF Edit, SimEnters, SimCompares, SimLooksUp, SimSends, FullEnters, FullMakes, FullSends,
                FullLeaves, HostAttaches, elementVars
  <1>2. CASE ClientAttaches
    BY <1>2 DEF ClientAttaches, ElementsType, Late, Early
  <1>3. ASSUME NEW i \in 1 .. Len(channel), Stores(i) PROVE ShownInTime'
    BY <1>3 DEF Stores
  <1>4. CASE Marks
    BY <1>4 DEF Marks
  <1>5. CASE Applies
    BY <1>5 DEF Applies, Late, Early
  <1>6. CASE Tests
    BY <1>6 DEF Tests
  <1>7. CASE Redraws
    BY <1>7 DEF Redraws, Late, Early
  <1> QED BY <1>1, <1>2, <1>3, <1>4, <1>5, <1>6, <1>7 DEF ElementsNext

\* The invariant
THEOREM ElementsInvariant == ElementsSpec => []ElementsInv
  <1>1. ElementsInv /\ [ElementsNext]_elementVars => ElementsInv'
    <2> SUFFICES ASSUME ElementsInv, [ElementsNext]_elementVars PROVE ElementsInv'
      OBVIOUS
    <2>1. ElementsType' /\ SentInOrder'
      BY TypeKeeps, OrderKeeps DEF ElementsInv
    <2>2. kind' = kind
      BY DEF ElementsNext, Edit, SimEnters, SimCompares, SimLooksUp, SimSends, FullEnters, FullMakes,
             FullSends, FullLeaves, HostAttaches, ClientAttaches, Stores, Marks, Applies, Tests,
             Redraws, elementVars
    <2> QED BY <2>1, <2>2, ShownKeeps DEF ElementsInv
  <1> QED BY <1>1, ElementsStart, PTL DEF ElementsSpec

\* When nothing is under way the client holds what the host noted last: the order of the
\* simulator thread's packets and of full states is kept by the protocol's critical section.
THEOREM ClientSettles == ElementsSpec => []Settled
  <1>1. ElementsInv => Settled
    BY DEF ElementsInv, SentInOrder, Settled, Newest
  <1> QED BY <1>1, ElementsInvariant, PTL

\* No redraw of a value is forgotten, and none of flags or a text but for a packet between
\* applying and testing.
THEOREM NoRedrawForgotten == ElementsSpec => []Redrawn
  <1>1. ElementsInv => Redrawn
    <2> SUFFICES ASSUME ElementsInv, kind # "static", showing = "idle", ~changed, ~storing,
                        NEW p \in Parts(kind)
                 PROVE  screen[p] = held[p] \/ (p \in Early /\ missed)
      BY DEF Redrawn
    <2>1. p \in AllParts /\ (p \in Late \/ p \in Early)
      BY DEF ElementsInv, ElementsType, Kinds, Parts, AllParts, Late, Early
    <2> QED BY <2>1 DEF ElementsInv, ShownInTime
  <1> QED BY <1>1, ElementsInvariant, PTL
=============================================================================
