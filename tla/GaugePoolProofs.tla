-------------------------- MODULE GaugePoolProofs --------------------------
(* Proofs about the objects of the gauges: however panels are opened,       *)
(* closed and resized, an object serves one header at a time.               *)
EXTENDS GaugePool, SequenceTheorems, FiniteSetTheorems, TLAPS

\* PoolInv without the part that PostInstall and PreKill have to be careful about.
Files ==
  \A n \in Names : \A i \in 1 .. Len(detachedGauges[n]) :
    /\ detachedGauges[n][i] \in 1 .. Len(gauges) /\ gauges[detachedGauges[n][i]] = n
    /\ \A j \in 1 .. Len(detachedGauges[n]) :
         detachedGauges[n][i] = detachedGauges[n][j] => i = j

LEMMA PoolStart == PoolInit => PoolInv
  <1> SUFFICES ASSUME PoolInit PROVE PoolInv
    OBVIOUS
  <1>1. gauges = <<>> /\ header = <<>> /\ Len(gauges) = 0 /\ 1 .. Len(gauges) = {}
    BY DEF PoolInit
  <1>2. \A n \in Names : detachedGauges[n] = <<>> /\ Len(detachedGauges[n]) = 0
    BY DEF PoolInit
  <1>3. detachedGauges \in [Names -> Seq(Nat)]
    BY DEF PoolInit
  <1>4. header \in [1 .. Len(gauges) -> Headers \union {None}]
    BY <1>1
  <1>5. OneHeaderEach
    BY <1>1 DEF PoolInit, OneHeaderEach
  <1>6. /\ opened \in [Headers -> Names \union {None}] /\ hook \in [Headers -> 0 .. Len(gauges)]
        /\ gauges \in Seq(Names)
    BY <1>1 DEF PoolInit, None
  <1> QED BY <1>1, <1>2, <1>3, <1>4, <1>5, <1>6 DEF PoolInv

\* A header of a name nobody waits under gets a new object.
LEMMA NewKeeps ==
  ASSUME PoolInv, NEW h \in Headers, NEW n \in Names, PostInstall(h, n), detachedGauges[n] = <<>>
  PROVE  PoolInv'
  <1> DEFINE g == Len(gauges) + 1
  <1>1. Len(gauges) \in Nat /\ g \in Nat /\ ~(g <= Len(gauges)) /\ g # None
    BY DEF PoolInv, None
  <1>2. /\ opened[h] = None
        /\ opened' = [opened EXCEPT ![h] = n]
        /\ gauges' = Append(gauges, n)
        /\ header' = [x \in 1 .. Len(gauges') |-> IF x = g THEN h ELSE header[x]]
        /\ hook' = [x \in Headers |-> IF x = h THEN g ELSE hook[x]]
        /\ detachedGauges' = [detachedGauges EXCEPT ![n] = detachedGauges[n]]
    BY <1>1 DEF PostInstall, DetachedGauge
  <1>3. detachedGauges' = detachedGauges
    BY <1>2 DEF PoolInv
  <1>4. /\ gauges' \in Seq(Names) /\ Len(gauges') = g
        /\ \A x \in 1 .. Len(gauges) : gauges'[x] = gauges[x]
        /\ gauges'[g] = n
    BY <1>2, <1>1, AppendProperties DEF PoolInv
  <1>5. /\ opened' \in [Headers -> Names \union {None}]
        /\ hook' \in [Headers -> 0 .. Len(gauges')]
        /\ header' \in [1 .. Len(gauges') -> Headers \union {None}]
        /\ detachedGauges' \in [Names -> Seq(Nat)]
    <2>1. \A x \in 1 .. Len(gauges') : x # g => x \in 1 .. Len(gauges)
      BY <1>1, <1>4
    <2> QED BY <1>1, <1>2, <1>3, <1>4, <2>1 DEF PoolInv
  <1>6. Files'
    <2>1. Files
      BY DEF PoolInv, Files
    <2>2. \A m \in Names : \A i \in 1 .. Len(detachedGauges[m]) :
            /\ detachedGauges[m][i] \in 1 .. Len(gauges')
            /\ gauges'[detachedGauges[m][i]] = m
      BY <2>1, <1>1, <1>4 DEF Files
    <2> QED BY <2>1, <2>2, <1>3 DEF Files
  <1>7. \A x \in 1 .. Len(gauges') : x # g => x \in 1 .. Len(gauges) /\ header'[x] = header[x]
    BY <1>1, <1>2, <1>4
  <1>8. header'[g] = h /\ hook'[h] = g /\ hook[h] = None /\ g \in 1 .. Len(gauges')
    BY <1>1, <1>2, <1>4 DEF PoolInv, OneHeaderEach
  <1>9. \A x \in 1 .. Len(gauges') : header'[x] # None => hook'[header'[x]] = x
    <2> SUFFICES ASSUME NEW x \in 1 .. Len(gauges'), header'[x] # None, x # g
                 PROVE  hook'[header'[x]] = x
      BY <1>8
    <2>1. header'[x] = header[x] /\ hook[header[x]] = x /\ header[x] \in Headers
      BY <1>7 DEF PoolInv
    <2>2. header[x] # h
      BY <1>8, <2>1, <1>7 DEF None
    <2> QED BY <2>1, <2>2, <1>2
  <1>10. \A x \in Headers : /\ (opened'[x] = None) <=> (hook'[x] = None)
                            /\ hook'[x] # None => /\ header'[hook'[x]] = x
                                                  /\ gauges'[hook'[x]] = opened'[x]
    <2> SUFFICES ASSUME NEW x \in Headers
                 PROVE  /\ (opened'[x] = None) <=> (hook'[x] = None)
                        /\ hook'[x] # None => header'[hook'[x]] = x /\ gauges'[hook'[x]] = opened'[x]
      OBVIOUS
    <2>1. CASE x = h
      BY <2>1, <1>1, <1>2, <1>4, <1>8, PoolAssumption DEF PoolInv
    <2>2. CASE x # h
      <3>1. opened'[x] = opened[x] /\ hook'[x] = hook[x] /\ hook[x] \in 0 .. Len(gauges)
        BY <2>2, <1>2 DEF PoolInv
      <3>2. hook[x] # None => hook[x] \in 1 .. Len(gauges) /\ hook[x] # g
                              /\ hook[x] \in 1 .. Len(gauges')
        BY <3>1, <1>1, <1>4 DEF None
      <3>3. /\ (opened[x] = None) <=> (hook[x] = None)
            /\ hook[x] # None => header[hook[x]] = x /\ gauges[hook[x]] = opened[x]
        BY DEF PoolInv, OneHeaderEach
      <3> QED BY <3>1, <3>2, <3>3, <1>4, <1>7
    <2> QED BY <2>1, <2>2
  <1>11. \A x \in 1 .. Len(gauges') : (header'[x] = None) <=> Waits(x)'
    <2> SUFFICES ASSUME NEW x \in 1 .. Len(gauges') PROVE (header'[x] = None) <=> Waits(x)'
      OBVIOUS
    <2>1. Waits(x)' <=> Waits(x)
      BY <1>3 DEF Waits
    <2>2. CASE x = g
      <3>1. ~Waits(x)
        <4>1. \A m \in Names : \A i \in 1 .. Len(detachedGauges[m]) :
                detachedGauges[m][i] \in 1 .. Len(gauges)
          BY DEF PoolInv
        <4>2. g \notin 1 .. Len(gauges)
          BY <1>1
        <4> QED BY <4>1, <4>2, <2>2 DEF Waits
      <3> QED BY <3>1, <2>1, <2>2, <1>8, PoolAssumption
    <2>3. CASE x # g
      BY <2>1, <2>3, <1>7 DEF PoolInv, OneHeaderEach
    <2> QED BY <2>2, <2>3
  <1> QED BY <1>4, <1>5, <1>6, <1>9, <1>10, <1>11 DEF PoolInv, OneHeaderEach, Files

\* The oldest that waits takes the header, and waits no more.
LEMMA ReuseKeeps ==
  ASSUME PoolInv, NEW h \in Headers, NEW n \in Names, PostInstall(h, n), detachedGauges[n] # <<>>
  PROVE  PoolInv'
  <1> DEFINE g == Head(detachedGauges[n])
             rest == Tail(detachedGauges[n])
  <1>1. /\ detachedGauges[n] \in Seq(Nat)
        /\ g = detachedGauges[n][1] /\ 1 \in 1 .. Len(detachedGauges[n])
        /\ rest \in Seq(Nat) /\ Len(rest) = Len(detachedGauges[n]) - 1
        /\ \A i \in 1 .. Len(rest) : rest[i] = detachedGauges[n][i + 1]
                                    /\ i + 1 \in 1 .. Len(detachedGauges[n])
    <2>1. detachedGauges[n] \in Seq(Nat) /\ Len(detachedGauges[n]) \in Nat \ {0}
      BY EmptySeq DEF PoolInv
    <2> QED BY <2>1, HeadTailProperties
  <1>2. g \in 1 .. Len(gauges) /\ gauges[g] = n /\ Waits(g) /\ g # None /\ header[g] = None
    <2>1. g \in 1 .. Len(gauges) /\ gauges[g] = n /\ Waits(g)
      BY <1>1 DEF PoolInv, Waits
    <2> QED BY <2>1 DEF PoolInv, OneHeaderEach, None
  <1> HIDE DEF g, rest
  <1>3. DetachedGauge(n) = g /\ g <= Len(gauges) /\ Len(gauges) \in Nat
    BY <1>2 DEF DetachedGauge, PoolInv, g
  <1>4. /\ opened[h] = None
        /\ opened' = [opened EXCEPT ![h] = n]
        /\ gauges' = gauges
        /\ header' = [x \in 1 .. Len(gauges') |-> IF x = g THEN h ELSE header[x]]
        /\ hook' = [x \in Headers |-> IF x = h THEN g ELSE hook[x]]
        /\ detachedGauges' = [detachedGauges EXCEPT ![n] = rest]
    BY <1>2, <1>3 DEF PostInstall, rest
  <1>5. /\ opened' \in [Headers -> Names \union {None}]
        /\ hook' \in [Headers -> 0 .. Len(gauges')]
        /\ header' \in [1 .. Len(gauges') -> Headers \union {None}]
        /\ detachedGauges' \in [Names -> Seq(Nat)]
    BY <1>1, <1>2, <1>3, <1>4 DEF PoolInv
  <1>6. detachedGauges'[n] = rest /\ \A m \in Names : m # n => detachedGauges'[m] = detachedGauges[m]
    BY <1>4 DEF PoolInv
  <1>7. Files'
    <2>1. Files
      BY DEF PoolInv, Files
    <2> SUFFICES ASSUME NEW m \in Names, NEW i \in 1 .. Len(detachedGauges'[m])
                 PROVE  /\ detachedGauges'[m][i] \in 1 .. Len(gauges)
                        /\ gauges[detachedGauges'[m][i]] = m
                        /\ \A j \in 1 .. Len(detachedGauges'[m]) :
                             detachedGauges'[m][i] = detachedGauges'[m][j] => i = j
      BY <1>4 DEF Files
    <2>2. CASE m = n
      <3>1. i \in 1 .. Len(rest) /\ detachedGauges'[m] = rest
        BY <2>2, <1>6
      <3>2. rest[i] \in 1 .. Len(gauges) /\ gauges[rest[i]] = n
        <4>1. rest[i] = detachedGauges[n][i + 1] /\ i + 1 \in 1 .. Len(detachedGauges[n])
          BY <3>1, <1>1
        <4> QED BY <2>1, <4>1 DEF Files
      <3>3. ASSUME NEW j \in 1 .. Len(rest), rest[i] = rest[j] PROVE i = j
        <4>1. /\ i + 1 \in 1 .. Len(detachedGauges[n]) /\ j + 1 \in 1 .. Len(detachedGauges[n])
              /\ detachedGauges[n][i + 1] = detachedGauges[n][j + 1]
          BY <3>1, <3>3, <1>1
        <4>2. i + 1 = j + 1
          BY <2>1, <4>1 DEF Files
        <4> QED BY <4>2, <3>1
      <3> QED BY <2>2, <3>1, <3>2, <3>3
    <2>3. CASE m # n
      BY <2>1, <2>3, <1>6 DEF Files
    <2> QED BY <2>2, <2>3
  <1>8. \A x \in 1 .. Len(gauges) : header'[x] = IF x = g THEN h ELSE header[x]
    BY <1>4
  <1>9. hook[h] = None /\ \A x \in Headers : hook'[x] = IF x = h THEN g ELSE hook[x]
    BY <1>4 DEF PoolInv, OneHeaderEach
  <1>10. \A x \in 1 .. Len(gauges') : header'[x] # None => hook'[header'[x]] = x
    <2> SUFFICES ASSUME NEW x \in 1 .. Len(gauges), header'[x] # None, x # g
                 PROVE  hook'[header'[x]] = x
      BY <1>4, <1>8, <1>9
    <2>1. header'[x] = header[x]
      BY <1>8
    <2>2. hook[header[x]] = x /\ header[x] \in Headers
      BY <2>1 DEF PoolInv
    <2>3. header[x] # h
      BY <1>9, <2>2 DEF None
    <2> QED BY <2>1, <2>2, <2>3, <1>9
  <1>11. \A x \in Headers : /\ (opened'[x] = None) <=> (hook'[x] = None)
                            /\ hook'[x] # None => /\ header'[hook'[x]] = x
                                                  /\ gauges'[hook'[x]] = opened'[x]
    <2> SUFFICES ASSUME NEW x \in Headers
                 PROVE  /\ (opened'[x] = None) <=> (hook'[x] = None)
                        /\ hook'[x] # None => header'[hook'[x]] = x /\ gauges[hook'[x]] = opened'[x]
      BY <1>4
    <2>1. CASE x = h
      BY <2>1, <1>2, <1>4, <1>8, <1>9, PoolAssumption DEF PoolInv
    <2>2. CASE x # h
      <3>1. opened'[x] = opened[x] /\ hook'[x] = hook[x]
        BY <2>2, <1>4, <1>9 DEF PoolInv
      <3>2. hook[x] # None => hook[x] \in 1 .. Len(gauges)
        BY <1>3 DEF PoolInv, None
      <3>3. hook[x] # None => header[hook[x]] = x /\ gauges[hook[x]] = opened[x]
        BY DEF PoolInv, OneHeaderEach
      <3>4. hook[x] # None => hook[x] # g
        BY <3>3, <1>2, PoolAssumption
      <3>5. (opened[x] = None) <=> (hook[x] = None)
        BY DEF PoolInv, OneHeaderEach
      <3> QED BY <3>1, <3>2, <3>3, <3>4, <3>5, <1>8
    <2> QED BY <2>1, <2>2
  <1>12. \A x \in 1 .. Len(gauges') : (header'[x] = None) <=> Waits(x)'
    <2> SUFFICES ASSUME NEW x \in 1 .. Len(gauges) PROVE (header'[x] = None) <=> Waits(x)'
      BY <1>4
    <2>1. CASE x = g
      <3>1. ~Waits(x)'
        <4> SUFFICES ASSUME NEW m \in Names, NEW i \in 1 .. Len(detachedGauges'[m]),
                            detachedGauges'[m][i] = g
                     PROVE  FALSE
          BY <2>1 DEF Waits
        <4>1. m = n
          BY <1>2, <1>4, <1>7 DEF Files
        <4>2. i \in 1 .. Len(rest) /\ rest[i] = g
          BY <4>1, <1>6
        <4>3. i + 1 \in 1 .. Len(detachedGauges[n]) /\ detachedGauges[n][i + 1] = detachedGauges[n][1]
          BY <4>2, <1>1 DEF g
        <4>4. i + 1 = 1
          BY <4>3, <1>1 DEF PoolInv
        <4> QED BY <4>4, <4>2, <1>1
      <3> QED BY <3>1, <2>1, <1>8, PoolAssumption
    <2>2. CASE x # g
      <3>1. ASSUME Waits(x)' PROVE Waits(x)
        <4>1. PICK m \in Names : \E i \in 1 .. Len(detachedGauges'[m]) : detachedGauges'[m][i] = x
          BY <3>1 DEF Waits
        <4>2. CASE m = n
          BY <4>1, <4>2, <1>1, <1>6 DEF Waits
        <4>3. CASE m # n
          BY <4>1, <4>3, <1>6 DEF Waits
        <4> QED BY <4>2, <4>3
      <3>2. ASSUME Waits(x) PROVE Waits(x)'
        <4>1. PICK m \in Names : \E i \in 1 .. Len(detachedGauges[m]) : detachedGauges[m][i] = x
          BY <3>2 DEF Waits
        <4>2. PICK i \in 1 .. Len(detachedGauges[m]) : detachedGauges[m][i] = x
          BY <4>1
        <4>3. CASE m = n
          <5>1. i # 1
            BY <4>2, <4>3, <2>2, <1>1 DEF g
          <5>2. i - 1 \in 1 .. Len(rest)
            BY <5>1, <4>3, <1>1, LenProperties
          <5>3. rest[i - 1] = x
            BY <5>2, <4>2, <4>3, <1>1
          <5> QED BY <5>2, <5>3, <4>3, <1>6 DEF Waits
        <4>4. CASE m # n
          BY <4>2, <4>4, <1>6 DEF Waits
        <4> QED BY <4>3, <4>4
      <3> QED BY <3>1, <3>2, <2>2, <1>8 DEF PoolInv, OneHeaderEach
    <2> QED BY <2>1, <2>2
  <1> QED BY <1>4, <1>5, <1>7, <1>10, <1>11, <1>12 DEF PoolInv, OneHeaderEach, Files

\* The object of a header that goes waits behind the others of its name.
LEMMA KillKeeps ==
  ASSUME PoolInv, NEW h \in Headers, PreKill(h)
  PROVE  PoolInv'
  <1> DEFINE g == hook[h]
             n == opened[h]
             list == Append(detachedGauges[n], g)
  <1>1. /\ g \in 1 .. Len(gauges) /\ g # None /\ header[g] = h /\ gauges[g] = n
        /\ n \in Names /\ h # None
    <2>1. opened[h] # None /\ opened[h] \in Names /\ hook[h] \in 0 .. Len(gauges)
      BY DEF PreKill, PoolInv
    <2>2. g # None /\ header[g] = h /\ gauges[g] = n
      BY <2>1 DEF PoolInv, OneHeaderEach
    <2> QED BY <2>1, <2>2, PoolAssumption DEF None, PoolInv
  <1>2. /\ detachedGauges[n] \in Seq(Nat) /\ g \in Nat /\ Len(detachedGauges[n]) \in Nat
        /\ list \in Seq(Nat) /\ Len(list) = Len(detachedGauges[n]) + 1
        /\ list[Len(list)] = g
        /\ \A i \in 1 .. Len(detachedGauges[n]) : list[i] = detachedGauges[n][i]
    <2>1. detachedGauges[n] \in Seq(Nat) /\ g \in Nat
      BY <1>1 DEF PoolInv
    <2> QED BY <2>1, LenProperties, AppendProperties
  <1>3. ~Waits(g)
    BY <1>1 DEF PoolInv, OneHeaderEach
  <1>4. /\ opened' = [opened EXCEPT ![h] = None]
        /\ hook' = [hook EXCEPT ![h] = None]
        /\ header' = [header EXCEPT ![g] = None]
        /\ detachedGauges' = [detachedGauges EXCEPT ![n] = list]
        /\ gauges' = gauges
    BY <1>1 DEF PreKill
  <1> HIDE DEF g, n, list
  <1>5. /\ opened' \in [Headers -> Names \union {None}]
        /\ hook' \in [Headers -> 0 .. Len(gauges')]
        /\ header' \in [1 .. Len(gauges') -> Headers \union {None}]
        /\ detachedGauges' \in [Names -> Seq(Nat)]
        /\ gauges' \in Seq(Names)
    <2>1. None \in 0 .. Len(gauges)
      BY DEF None, PoolInv
    <2> QED BY <2>1, <1>2, <1>4 DEF PoolInv
  <1>6. detachedGauges'[n] = list /\ \A m \in Names : m # n => detachedGauges'[m] = detachedGauges[m]
    BY <1>1, <1>4 DEF PoolInv
  <1>7. Files'
    <2>1. Files
      BY DEF PoolInv, Files
    <2> SUFFICES ASSUME NEW m \in Names, NEW i \in 1 .. Len(detachedGauges'[m])
                 PROVE  /\ detachedGauges'[m][i] \in 1 .. Len(gauges)
                        /\ gauges[detachedGauges'[m][i]] = m
                        /\ \A j \in 1 .. Len(detachedGauges'[m]) :
                             detachedGauges'[m][i] = detachedGauges'[m][j] => i = j
      BY <1>4 DEF Files
    <2>2. CASE m = n
      <3>1. i \in 1 .. Len(list) /\ detachedGauges'[m] = list
        BY <2>2, <1>6
      <3>2. \A j \in 1 .. Len(list) : j # Len(list) => j \in 1 .. Len(detachedGauges[n])
                                                     /\ list[j] = detachedGauges[n][j]
        BY <1>2
      <3>3. \A j \in 1 .. Len(detachedGauges[n]) : detachedGauges[n][j] # g
        BY <1>1, <1>3 DEF Waits
      <3>4. list[i] \in 1 .. Len(gauges) /\ gauges[list[i]] = n
        <4>1. CASE i = Len(list)
          BY <4>1, <1>1, <1>2
        <4>2. CASE i # Len(list)
          BY <4>2, <2>1, <3>1, <3>2, <1>1 DEF Files
        <4> QED BY <4>1, <4>2
      <3>5. ASSUME NEW j \in 1 .. Len(list), list[i] = list[j] PROVE i = j
        <4>1. CASE i = Len(list) \/ j = Len(list)
          BY <4>1, <3>1, <3>2, <3>3, <3>5, <1>2
        <4>2. CASE i # Len(list) /\ j # Len(list)
          <5>1. /\ i \in 1 .. Len(detachedGauges[n]) /\ j \in 1 .. Len(detachedGauges[n])
                /\ detachedGauges[n][i] = detachedGauges[n][j]
            BY <4>2, <3>1, <3>2, <3>5
          <5> QED BY <5>1, <2>1, <1>1 DEF Files
        <4> QED BY <4>1, <4>2
      <3> QED BY <2>2, <3>1, <3>4, <3>5
    <2>3. CASE m # n
      BY <2>1, <2>3, <1>6 DEF Files
    <2> QED BY <2>2, <2>3
  <1>8. /\ \A x \in 1 .. Len(gauges) : header'[x] = IF x = g THEN None ELSE header[x]
        /\ \A x \in Headers : hook'[x] = IF x = h THEN None ELSE hook[x]
        /\ \A x \in Headers : opened'[x] = IF x = h THEN None ELSE opened[x]
    BY <1>4 DEF PoolInv
  <1>9. \A x \in 1 .. Len(gauges') : header'[x] # None => hook'[header'[x]] = x
    <2> SUFFICES ASSUME NEW x \in 1 .. Len(gauges), header'[x] # None
                 PROVE  hook'[header'[x]] = x
      BY <1>4
    <2>1. x # g /\ header'[x] = header[x]
      BY <1>8
    <2>2. hook[header[x]] = x /\ header[x] \in Headers
      BY <2>1 DEF PoolInv
    <2>3. header[x] # h
      BY <2>1, <2>2 DEF g
    <2> QED BY <2>1, <2>2, <2>3, <1>8
  <1>10. \A x \in Headers : /\ (opened'[x] = None) <=> (hook'[x] = None)
                            /\ hook'[x] # None => /\ header'[hook'[x]] = x
                                                  /\ gauges'[hook'[x]] = opened'[x]
    <2> SUFFICES ASSUME NEW x \in Headers, x # h
                 PROVE  /\ (opened[x] = None) <=> (hook[x] = None)
                        /\ hook[x] # None => header'[hook[x]] = x /\ gauges[hook[x]] = opened[x]
      BY <1>4, <1>8
    <2>1. /\ (opened[x] = None) <=> (hook[x] = None)
          /\ hook[x] # None => header[hook[x]] = x /\ gauges[hook[x]] = opened[x]
      BY DEF PoolInv, OneHeaderEach
    <2>2. hook[x] # None => hook[x] # g
      BY <2>1, <1>1
    <2>3. hook[x] # None => hook[x] \in 1 .. Len(gauges)
      BY DEF PoolInv, None
    <2> QED BY <2>1, <2>2, <2>3, <1>8
  <1>11. \A x \in 1 .. Len(gauges') : (header'[x] = None) <=> Waits(x)'
    <2> SUFFICES ASSUME NEW x \in 1 .. Len(gauges) PROVE (header'[x] = None) <=> Waits(x)'
      BY <1>4
    <2>1. CASE x = g
      <3>1. Len(list) \in 1 .. Len(detachedGauges'[n]) /\ detachedGauges'[n][Len(list)] = g
        BY <1>2, <1>6
      <3> QED BY <3>1, <2>1, <1>1, <1>8 DEF Waits
    <2>2. CASE x # g
      <3>1. ASSUME Waits(x)' PROVE Waits(x)
        <4>1. PICK m \in Names : \E i \in 1 .. Len(detachedGauges'[m]) : detachedGauges'[m][i] = x
          BY <3>1 DEF Waits
        <4>2. PICK i \in 1 .. Len(detachedGauges'[m]) : detachedGauges'[m][i] = x
          BY <4>1
        <4>3. CASE m = n
          <5>1. i # Len(list) /\ i \in 1 .. Len(list) /\ list[i] = x
            BY <4>2, <4>3, <2>2, <1>2, <1>6
          <5>2. i \in 1 .. Len(detachedGauges[n])
            BY <5>1, <1>2
          <5> QED BY <5>1, <5>2, <1>1, <1>2 DEF Waits
        <4>4. CASE m # n
          BY <4>2, <4>4, <1>6 DEF Waits
        <4> QED BY <4>3, <4>4
      <3>2. ASSUME Waits(x) PROVE Waits(x)'
        <4>1. PICK m \in Names : \E i \in 1 .. Len(detachedGauges[m]) : detachedGauges[m][i] = x
          BY <3>2 DEF Waits
        <4>2. PICK i \in 1 .. Len(detachedGauges[m]) : detachedGauges[m][i] = x
          BY <4>1
        <4>3. CASE m = n
          <5>1. i \in 1 .. Len(list) /\ list[i] = x
            BY <4>2, <4>3, <1>2
          <5> QED BY <5>1, <4>3, <1>6 DEF Waits
        <4>4. CASE m # n
          BY <4>2, <4>4, <1>6 DEF Waits
        <4> QED BY <4>3, <4>4
      <3> QED BY <3>1, <3>2, <2>2, <1>8 DEF PoolInv, OneHeaderEach
    <2> QED BY <2>1, <2>2
  <1> QED BY <1>4, <1>5, <1>7, <1>9, <1>10, <1>11 DEF PoolInv, OneHeaderEach, Files

LEMMA PoolStep == PoolInv /\ [PoolNext]_poolVars => PoolInv'
  <1> SUFFICES ASSUME PoolInv, [PoolNext]_poolVars PROVE PoolInv'
    OBVIOUS
  <1>1. ASSUME NEW h \in Headers, NEW n \in Names, PostInstall(h, n) PROVE PoolInv'
    BY <1>1, NewKeeps, ReuseKeeps
  <1>2. ASSUME NEW h \in Headers, PreKill(h) PROVE PoolInv'
    BY <1>2, KillKeeps
  <1>3. CASE UNCHANGED poolVars
    BY <1>3 DEF poolVars, PoolInv, OneHeaderEach, Waits
  <1> QED BY <1>1, <1>2, <1>3 DEF PoolNext

\* An object of a gauge serves one header, of its name, and waits only while it serves none.
THEOREM ObjectsServeOneHeader == PoolSpec => []OneHeaderEach
  <1>1. PoolInv => OneHeaderEach
    BY DEF PoolInv
  <1> QED BY <1>1, PoolStart, PoolStep, PTL DEF PoolSpec

-----------------------------------------------------------------------------
(* Counting objects *)

Objects(n) == {g \in 1 .. Len(gauges) : gauges[g] = n}

\* What NoneWasted needs beside PoolInv.
CountInv == most \in [Names -> Nat] /\ NoneWasted

\* The headers of a name are injected into the objects of the name by their hooks, and
\* onto them when nobody waits.
LEMMA HooksCount ==
  ASSUME PoolInv, NEW n \in Names
  PROVE  /\ IsFiniteSet(Open(n)) /\ IsFiniteSet(Objects(n))
         /\ Cardinality(Open(n)) \in Nat /\ Cardinality(Objects(n)) \in Nat
         /\ detachedGauges[n] = <<>> => Cardinality(Open(n)) = Cardinality(Objects(n))
         /\ detachedGauges[n] # <<>> => Cardinality(Open(n)) < Cardinality(Objects(n))
  <1> DEFINE f == [h \in Open(n) |-> hook[h]]
  <1>1. Len(gauges) \in Nat /\ n # None
    BY PoolAssumption DEF PoolInv
  <1>2. IsFiniteSet(Open(n))
    BY PoolAssumption, FS_Subset DEF Open
  <1>3. IsFiniteSet(Objects(n))
    <2>1. IsFiniteSet(1 .. Len(gauges))
      BY <1>1, FS_Interval
    <2>2. Objects(n) \in SUBSET (1 .. Len(gauges))
      BY DEF Objects
    <2> QED BY <2>1, <2>2, FS_Subset
  <1>4. ASSUME NEW h \in Open(n)
        PROVE  hook[h] \in Objects(n) /\ header[hook[h]] = h
    <2>1. h \in Headers /\ opened[h] = n
      BY DEF Open
    <2>2. hook[h] # None /\ hook[h] \in 0 .. Len(gauges)
      BY <1>1, <2>1 DEF PoolInv, OneHeaderEach
    <2>3. hook[h] \in 1 .. Len(gauges)
      BY <1>1, <2>2 DEF None
    <2> QED BY <2>1, <2>2, <2>3 DEF PoolInv, OneHeaderEach, Objects
  <1>5. f \in Injection(Open(n), Objects(n))
    BY <1>4 DEF Injection, IsInjective
  <1>6. /\ Cardinality(Open(n)) <= Cardinality(Objects(n))
        /\ Cardinality(Open(n)) = Cardinality(Objects(n)) <=> f \in Surjection(Open(n), Objects(n))
    BY <1>3, <1>5, FS_Injection
  <1>7. Cardinality(Open(n)) \in Nat /\ Cardinality(Objects(n)) \in Nat
    BY <1>2, <1>3, FS_CardinalityType
  <1>8. ASSUME detachedGauges[n] = <<>>
        PROVE  f \in Surjection(Open(n), Objects(n))
    <2>1. ASSUME NEW g \in Objects(n)
          PROVE  \E h \in Open(n) : f[h] = g
      <3>1. g \in 1 .. Len(gauges) /\ gauges[g] = n
        BY DEF Objects
      <3>2. ~Waits(g)
        <4> SUFFICES ASSUME NEW m \in Names, NEW i \in 1 .. Len(detachedGauges[m]),
                            detachedGauges[m][i] = g
                     PROVE  FALSE
          BY DEF Waits
        <4>1. m = n
          BY <3>1 DEF PoolInv
        <4> QED BY <4>1, <1>8
      <3>3. header[g] # None
        BY <3>1, <3>2 DEF PoolInv, OneHeaderEach
      <3>7. header[g] \in Headers
        <4>1. header \in [1 .. Len(gauges) -> Headers \union {None}]
          BY DEF PoolInv
        <4> QED BY <3>1, <3>3, <4>1
      <3>4. g # None
        BY <1>1, <3>1 DEF None
      <3>5. hook[header[g]] = g /\ opened[header[g]] = n
        BY <3>1, <3>3, <3>4, <3>7 DEF PoolInv, OneHeaderEach
      <3>6. header[g] \in Open(n)
        BY <3>5, <3>7 DEF Open
      <3> QED BY <3>5, <3>6
    <2> QED BY <2>1, <1>5 DEF Surjection, Injection
  <1>9. ASSUME detachedGauges[n] # <<>>
        PROVE  f \notin Surjection(Open(n), Objects(n))
    <2> DEFINE g == detachedGauges[n][1]
    <2>1. Len(detachedGauges[n]) \in Nat /\ 1 \in 1 .. Len(detachedGauges[n])
      BY <1>9 DEF PoolInv
    <2>2. g \in Objects(n) /\ Waits(g)
      BY <2>1 DEF PoolInv, Objects, Waits
    <2>3. header[g] = None
      BY <2>2 DEF PoolInv, OneHeaderEach, Objects
    <2>4. \A h \in Open(n) : h # None
      BY PoolAssumption DEF Open
    <2>5. \A h \in Open(n) : f[h] # g
      BY <1>4, <2>3, <2>4
    <2> QED BY <2>2, <2>5 DEF Surjection
  <1> QED BY <1>2, <1>3, <1>6, <1>7, <1>8, <1>9

\* A new object is made only when all objects of the name are in use, which is more
\* headers than there were before.
LEMMA WasteKeeps ==
  ASSUME PoolInv, CountInv, NEW h \in Headers, NEW n \in Names, PostInstall(h, n)
  PROVE  CountInv'
  <1>1. /\ most' = [most EXCEPT ![n] = Greater(@, Cardinality(Open(n)) + 1)]
        /\ detachedGauges[n] = <<>> => gauges' = Append(gauges, n)
        /\ detachedGauges[n] # <<>> => gauges' = gauges
    <2>1. CASE detachedGauges[n] = <<>>
      <3>1. DetachedGauge(n) = None /\ Len(gauges) \in Nat
        BY <2>1 DEF DetachedGauge, PoolInv
      <3> QED BY <2>1, <3>1 DEF PostInstall
    <2>2. CASE detachedGauges[n] # <<>>
      <3>1. /\ Len(detachedGauges[n]) \in Nat /\ 1 \in 1 .. Len(detachedGauges[n])
            /\ Head(detachedGauges[n]) = detachedGauges[n][1]
        BY <2>2 DEF PoolInv
      <3>2. DetachedGauge(n) \in 1 .. Len(gauges)
        BY <2>2, <3>1 DEF DetachedGauge, PoolInv
      <3>3. DetachedGauge(n) # None /\ DetachedGauge(n) <= Len(gauges)
        BY <3>2 DEF PoolInv, None
      <3> QED BY <2>2, <3>3 DEF PostInstall
    <2> QED BY <2>1, <2>2
  <1>2. /\ most \in [Names -> Nat] /\ Len(gauges) \in Nat
        /\ \A m \in Names : most[m] = Cardinality(Objects(m)) /\ Objects(m) \subseteq 1 .. Len(gauges)
    BY DEF CountInv, NoneWasted, PoolInv, Objects
  <1>3. CASE detachedGauges[n] # <<>>
    <2>1. Cardinality(Open(n)) \in Nat /\ Cardinality(Open(n)) + 1 <= most[n]
      BY <1>2, <1>3, HooksCount
    <2>2. Greater(most[n], Cardinality(Open(n)) + 1) = most[n]
      BY <1>2, <2>1 DEF Greater
    <2>3. most' = most
      BY <1>1, <1>2, <2>2
    <2> QED BY <1>1, <1>3, <2>3 DEF CountInv, NoneWasted
  <1>4. CASE detachedGauges[n] = <<>>
    <2>1. Cardinality(Open(n)) = most[n]
      BY <1>2, <1>4, HooksCount
    <2>10. Greater(most[n], Cardinality(Open(n)) + 1) = most[n] + 1
      BY <1>2, <2>1 DEF Greater
    <2>2. most' = [most EXCEPT ![n] = @ + 1]
      BY <1>1, <2>10
    <2>3. gauges' = Append(gauges, n) /\ Len(gauges') = Len(gauges) + 1
      BY <1>1, <1>4 DEF PoolInv
    <2>4. \A g \in 1 .. Len(gauges) : gauges'[g] = gauges[g]
      BY <2>3 DEF PoolInv
    <2>5. gauges'[Len(gauges) + 1] = n
      BY <2>3 DEF PoolInv
    <2>6. 1 .. Len(gauges') = 1 .. Len(gauges) \union {Len(gauges) + 1}
      BY <1>2, <2>3
    <2>7. ASSUME NEW m \in Names
          PROVE  Objects(m)' = IF m = n THEN Objects(m) \union {Len(gauges) + 1} ELSE Objects(m)
      <3>1. Objects(m)' = {g \in 1 .. Len(gauges') : gauges'[g] = m}
        BY DEF Objects
      <3> QED BY <2>4, <2>5, <2>6, <3>1 DEF Objects
    <2>8. ASSUME NEW m \in Names
          PROVE  Cardinality(Objects(m)') = most'[m]
      <3>1. CASE m # n
        BY <1>2, <2>2, <2>7, <3>1
      <3>2. CASE m = n
        <4>1. IsFiniteSet(Objects(n)) /\ Len(gauges) + 1 \notin Objects(n)
          BY <1>2, HooksCount
        <4>2. Cardinality(Objects(n) \union {Len(gauges) + 1}) = Cardinality(Objects(n)) + 1
          BY <4>1, FS_AddElement
        <4> QED BY <1>2, <2>2, <2>7, <3>2, <4>2
      <3> QED BY <3>1, <3>2
    <2>9. most' \in [Names -> Nat]
      BY <1>2, <2>2
    <2> QED BY <2>8, <2>9 DEF CountInv, NoneWasted, Objects
  <1> QED BY <1>3, <1>4

\* No more objects are made than there were headers of a name at once.
THEOREM NoObjectWasted == PoolSpec => []NoneWasted
  <1>1. PoolInit => PoolInv /\ CountInv
    <2> SUFFICES ASSUME PoolInit PROVE CountInv
      BY PoolStart
    <2>1. most \in [Names -> Nat] /\ \A n \in Names : most[n] = 0
      BY DEF PoolInit
    <2>2. \A n \in Names : {g \in 1 .. Len(gauges) : gauges[g] = n} = {}
      BY DEF PoolInit
    <2> QED BY <2>1, <2>2, FS_EmptySet DEF CountInv, NoneWasted
  <1>2. PoolInv /\ CountInv /\ [PoolNext]_poolVars => (PoolInv /\ CountInv)'
    <2> SUFFICES ASSUME PoolInv, CountInv, [PoolNext]_poolVars PROVE CountInv'
      BY PoolStep
    <2>1. ASSUME NEW h \in Headers, NEW n \in Names, PostInstall(h, n) PROVE CountInv'
      BY <2>1, WasteKeeps
    <2>2. ASSUME NEW h \in Headers, PreKill(h) PROVE CountInv'
      BY <2>2 DEF PreKill, CountInv, NoneWasted
    <2>3. CASE UNCHANGED poolVars
      BY <2>3 DEF poolVars, CountInv, NoneWasted
    <2> QED BY <2>1, <2>2, <2>3 DEF PoolNext
  <1>3. CountInv => NoneWasted
    BY DEF CountInv
  <1> QED BY <1>1, <1>2, <1>3, PTL DEF PoolSpec
=============================================================================
