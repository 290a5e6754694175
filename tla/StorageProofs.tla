---------------------------- MODULE StorageProofs ----------------------------
(***************************************************************************)
(* Theorems about Storage for every offset of the local clock, every       *)
(* limit, every time window and every number of racing handlers.           *)
(***************************************************************************)
EXTENDS Storage, FiniteSetTheorems, SequenceTheorems, TLAPS

\* What is stamped and not yet stored was stamped in the past, too.
Stamped ==
  /\ \A g \in Goroutine : held[g] # NoRecord => held[g].at <= now
  /\ \A i \in DOMAIN anomalies : anomalies[i].at <= now

IInv == TypeOK /\ Stamped

-----------------------------------------------------------------------------

\* Nothing is stored at first.
LEMMA InitIInv == Init => IInv
BY QueryAssumption DEF Init, IInv, TypeOK, Stamped

\* Appending a record to a table keeps the type of the table and its times.
LEMMA AppendKeeps ==
  ASSUME NEW R, NEW rows \in Seq(R), NEW r \in R, NEW t, r.at <= t,
         \A i \in DOMAIN rows : rows[i].at <= t
  PROVE  /\ Append(rows, r) \in Seq(R)
         /\ \A i \in DOMAIN Append(rows, r) : Append(rows, r)[i].at <= t
<1>1. /\ Append(rows, r) \in Seq(R) /\ Len(rows) \in Nat
      /\ DOMAIN Append(rows, r) = 1..(Len(rows) + 1) /\ DOMAIN rows = 1..Len(rows)
      /\ Append(rows, r)[Len(rows) + 1] = r
      /\ \A i \in 1..Len(rows) : Append(rows, r)[i] = rows[i]
  OBVIOUS
<1>2. QED
  BY <1>1

\* Every record has a natural number for its time.
LEMMA RecordTimes ==
  ASSUME TypeOK
  PROVE  /\ \A i \in DOMAIN measurements : measurements[i].at \in Nat
         /\ \A i \in DOMAIN anomalies : anomalies[i].at \in Nat
         /\ \A g \in Goroutine : held[g] # NoRecord => held[g].at \in Nat
<1>1. /\ \A i \in DOMAIN measurements : measurements[i] \in MeasurementRecord
      /\ \A i \in DOMAIN anomalies : anomalies[i] \in AnomalyRecord
      /\ \A g \in Goroutine : held[g] # NoRecord => held[g] \in MeasurementRecord \union AnomalyRecord
  BY DEF TypeOK
<1>2. \A r \in MeasurementRecord \union AnomalyRecord : r.at \in Nat
  BY DEF MeasurementRecord, AnomalyRecord
<1>3. QED
  BY <1>1, <1>2

\* Every step keeps the invariant.
LEMMA NextIInv == IInv /\ [Next]_vars => IInv'
<1> SUFFICES ASSUME IInv, [Next]_vars PROVE IInv'
  OBVIOUS
<1>0. /\ now \in 0..MaxTime /\ now \in Nat
      /\ held \in [Goroutine -> MeasurementRecord \union AnomalyRecord \union {NoRecord}]
      /\ measurements \in Seq(MeasurementRecord) /\ anomalies \in Seq(AnomalyRecord)
      /\ \A i \in DOMAIN measurements : measurements[i].at <= now
      /\ \A i \in DOMAIN anomalies : anomalies[i].at <= now
      /\ \A g \in Goroutine : held[g] # NoRecord => held[g].at <= now
  BY QueryAssumption DEF IInv, TypeOK, Stamped
<1>1. CASE Tick
  <2>1. /\ now' = now + 1 /\ now' \in 0..MaxTime
        /\ held' = held /\ measurements' = measurements /\ anomalies' = anomalies
    BY <1>0, <1>1, QueryAssumption DEF Tick
  <2>2. /\ \A i \in DOMAIN measurements : measurements[i].at \in Nat
        /\ \A i \in DOMAIN anomalies : anomalies[i].at \in Nat
    BY RecordTimes DEF IInv
  <2>3. \A g \in Goroutine : held[g] # NoRecord => held[g].at \in Nat
    BY RecordTimes DEF IInv
  <2>4. QED
    BY <1>0, <2>1, <2>2, <2>3 DEF IInv, TypeOK, Stamped
<1>2. ASSUME NEW g \in Goroutine, Write(g) PROVE IInv'
  <2>1. PICK r \in MeasurementRecord \union AnomalyRecord :
          r.at = now /\ held' = [held EXCEPT ![g] = r]
    BY <1>0, <1>2 DEF Write, Stamp, MeasurementRecord, AnomalyRecord
  <2>2. UNCHANGED <<now, measurements, anomalies>>
    BY <1>2 DEF Write
  <2>3. QED
    BY <1>0, <2>1, <2>2 DEF IInv, TypeOK, Stamped
<1>3. ASSUME NEW g \in Goroutine, SaveResult(g) PROVE IInv'
  <2>1. held[g] \in MeasurementRecord /\ held[g].at <= now
    BY <1>0, <1>3 DEF SaveResult, MeasurementRecord, AnomalyRecord
  <2>2. /\ measurements' = Append(measurements, held[g]) /\ now' = now
        /\ anomalies' = anomalies /\ held' = [held EXCEPT ![g] = NoRecord]
    BY <1>3 DEF SaveResult
  <2>3. /\ measurements' \in Seq(MeasurementRecord)
        /\ \A i \in DOMAIN measurements' : measurements'[i].at <= now
    BY <1>0, <2>1, <2>2, AppendKeeps
  <2>4. QED
    BY <1>0, <2>2, <2>3 DEF IInv, TypeOK, Stamped
<1>4. ASSUME NEW g \in Goroutine, LogAnomaly(g) PROVE IInv'
  <2>1. held[g] \in AnomalyRecord /\ held[g].at <= now
    BY <1>0, <1>4 DEF LogAnomaly, MeasurementRecord, AnomalyRecord
  <2>2. /\ anomalies' = Append(anomalies, held[g]) /\ now' = now
        /\ measurements' = measurements /\ held' = [held EXCEPT ![g] = NoRecord]
    BY <1>4 DEF LogAnomaly
  <2>3. /\ anomalies' \in Seq(AnomalyRecord)
        /\ \A i \in DOMAIN anomalies' : anomalies'[i].at <= now
    BY <1>0, <2>1, <2>2, AppendKeeps
  <2>4. QED
    BY <1>0, <2>2, <2>3 DEF IInv, TypeOK, Stamped
<1>5. ASSUME NEW g \in Goroutine, Fail(g) PROVE IInv'
  BY <1>0, <1>5 DEF Fail, IInv, TypeOK, Stamped
<1>6. CASE UNCHANGED vars
  BY <1>0, <1>6 DEF vars, IInv, TypeOK, Stamped
<1>7. QED
  BY <1>1, <1>2, <1>3, <1>4, <1>5, <1>6 DEF Next

-----------------------------------------------------------------------------
(* What the comparison of texts is worth. *)

\* The times that are compared: of a row, and the begin of a window.
Compared == (0..MaxTime) \union {n - w : n \in 0..MaxTime, w \in Windows}

\* A text that is not smaller is of a time that is at most Shift earlier, and a
\* time that is Shift later has a text that is not smaller.
LEMMA TextOrder ==
  ASSUME NEW t \in Compared, NEW u \in Compared
  PROVE  /\ t \in Int /\ u \in Int /\ Shift >= 0
         /\ Text(t) >= Text(u) => u <= t + Shift
         /\ t >= u + Shift => Text(t) >= Text(u)
<1>1. t \in Int /\ u \in Int
  BY QueryAssumption DEF Compared
<1>2. /\ Offset(t) \in Int /\ Offset(u) \in Int /\ Shift \in Int
      /\ Offset(t) - Offset(t) <= Shift
      /\ Offset(t) - Offset(u) <= Shift /\ Offset(u) - Offset(t) <= Shift
  BY OffsetAssumption DEF Compared
<1>3. QED
  BY <1>1, <1>2 DEF Text

\* An order of a finite set lists each member.
LEMMA AllListed ==
  ASSUME NEW S, IsFiniteSet(S), NEW f \in SetToSeqs(S)
  PROVE  /\ Cardinality(S) \in Nat /\ f \in Seq(S) /\ Len(f) = Cardinality(S)
         /\ \A x \in S : \E j \in 1..Len(f) : f[j] = x
<1> DEFINE n == Cardinality(S)
<1>1. n \in Nat
  BY FS_CardinalityType
<1>2. f \in [1..n -> S] /\ \A i, j \in 1..n : i # j => f[i] # f[j]
  BY DEF SetToSeqs
<1>3. f \in Seq(S) /\ Len(f) = n
  BY <1>1, <1>2
<1>4. f \in Injection(1..n, S)
  BY <1>2 DEF Injection, IsInjective
<1>5. IsFiniteSet(1..n) /\ Cardinality(1..n) = n
  BY <1>1, FS_Interval
<1>6. f \in Surjection(1..n, S)
  BY <1>4, <1>5, FS_Injection
<1>7. QED
  BY <1>1, <1>3, <1>6 DEF Surjection

\* What a limit leaves of a list.
LEMMA Prefix ==
  ASSUME NEW S, NEW f \in Seq(S), NEW m \in 0..Len(f)
  PROVE  /\ SubSeq(f, 1, m) \in Seq(S) /\ Len(SubSeq(f, 1, m)) = m
         /\ DOMAIN SubSeq(f, 1, m) = 1..m
         /\ \A i \in 1..m : SubSeq(f, 1, m)[i] = f[i]
<1>1. m \in Int /\ \A i \in 1..m : f[i] \in S
  OBVIOUS
<1>2. /\ SubSeq(f, 1, m) \in Seq(S) /\ Len(SubSeq(f, 1, m)) = m
      /\ \A i \in 1..m : SubSeq(f, 1, m)[i] = f[i]
  BY <1>1, SubSeqProperties
<1>3. QED
  BY <1>2

\* What the queries for histories may return is one of the newest, whatever the
\* order in which the rows came.
LEMMA NewestOfRows ==
  ASSUME NEW R, NEW rows \in Seq(R), \A i \in DOMAIN rows : rows[i].at \in 0..MaxTime,
         NEW client, NEW limit \in Int,
         NEW s \in Newest(rows, ByTimeDesc(rows, client), limit)
  PROVE  IsNewest(s, rows, client, limit)
<1> DEFINE mine == {i \in DOMAIN rows : rows[i].client = client}
<1>1. PICK f \in ByTimeDesc(rows, client) :
        s = SubSeq(f, 1, IF limit < 0 \/ limit > Len(f) THEN Len(f) ELSE limit)
  BY DEF Newest
<1> DEFINE m == IF limit < 0 \/ limit > Len(f) THEN Len(f) ELSE limit
<1>2. IsFiniteSet(mine)
  <2>1. DOMAIN rows = 1..Len(rows) /\ Len(rows) \in Nat
    OBVIOUS
  <2>2. IsFiniteSet(1..Len(rows))
    BY <2>1, FS_Interval
  <2>3. QED
    BY <2>1, <2>2, FS_Subset
<1>3. /\ f \in SetToSeqs(mine)
      /\ \A i, j \in DOMAIN f : i < j => Text(rows[f[i]].at) >= Text(rows[f[j]].at)
  BY <1>1 DEF ByTimeDesc
<1>4. /\ f \in Seq(mine) /\ Len(f) \in Nat /\ DOMAIN f = 1..Len(f)
      /\ \A i \in mine : \E j \in 1..Len(f) : f[j] = i
  <2> HIDE DEF mine
  <2>1. f \in Seq(mine) /\ \A i \in mine : \E j \in 1..Len(f) : f[j] = i
    BY <1>2, <1>3, AllListed
  <2>2. QED
    BY <2>1
<1>5. m \in 0..Len(f) /\ (m = Len(f) \/ m = limit)
  BY <1>4
<1>6. s = SubSeq(f, 1, m)
  BY <1>1
<1> HIDE DEF m
<1>7. /\ s \in Seq(mine) /\ Len(s) = m /\ DOMAIN s = 1..m
      /\ \A k \in 1..m : s[k] = f[k]
  <2> HIDE DEF mine
  <2> QED
    BY <1>4, <1>5, <1>6, Prefix
<1>8. ToSet(s) \subseteq mine
  BY <1>7 DEF ToSet
<1>9. ToSet(s) = mine \/ Len(s) = limit
  <2>1. CASE m = Len(f)
    <3> HIDE DEF mine
    <3>1. \A i \in mine : i \in ToSet(s)
      BY <1>4, <1>7, <2>1 DEF ToSet
    <3>2. QED
      BY <3>1, <1>8
  <2>2. CASE m = limit
    BY <1>7, <2>2
  <2>3. QED
    BY <1>5, <2>1, <2>2
<1>10. ASSUME NEW k \in DOMAIN s, NEW i \in mine, rows[i].at > rows[s[k]].at + Shift
       PROVE  i \in ToSet(SubSeq(s, 1, k - 1))
  <2>1. /\ k \in 1..m /\ k \in 1..Len(f) /\ k - 1 \in 0..Len(s)
        /\ s[k] = f[k] /\ f[k] \in mine
    <3> HIDE DEF mine
    <3> QED
      BY <1>4, <1>5, <1>7
  <2>2. PICK j \in 1..Len(f) : f[j] = i
    BY <1>4
  <2>3. /\ rows[i].at \in Compared /\ rows[f[k]].at \in Compared
        /\ rows[i].at \in Int /\ rows[f[k]].at \in Int
    BY <2>1 DEF Compared
  <2>4. /\ Shift >= 0
        /\ Text(rows[f[k]].at) >= Text(rows[i].at) => rows[i].at <= rows[f[k]].at + Shift
    BY <2>3, TextOrder
  <2>5. Shift \in Int
    BY OffsetAssumption
  <2>6. ~(rows[i].at <= rows[f[k]].at + Shift)
    BY <1>10, <2>1, <2>3, <2>5
  <2>7. j < k
    <3>1. j # k
      BY <2>2, <2>3, <2>4, <2>5, <2>6
    <3>2. ~(k < j)
      BY <1>3, <1>4, <2>1, <2>2, <2>4, <2>6
    <3>3. QED
      BY <2>1, <2>2, <3>1, <3>2
  <2>8. /\ DOMAIN SubSeq(s, 1, k - 1) = 1..(k - 1)
        /\ SubSeq(s, 1, k - 1)[j] = s[j] /\ s[j] = i
    <3> HIDE DEF mine
    <3> QED
      BY <1>5, <1>7, <2>1, <2>2, <2>7, Prefix
  <2>9. QED
    <3> DEFINE before == SubSeq(s, 1, k - 1)
    <3>1. j \in DOMAIN before /\ before[j] = i
      BY <2>1, <2>2, <2>7, <2>8
    <3> HIDE DEF before
    <3>2. i \in ToSet(before)
      BY <3>1 DEF ToSet
    <3>3. QED
      BY <3>2 DEF before
<1>11. QED
  BY <1>8, <1>9, <1>10 DEF IsNewest

-----------------------------------------------------------------------------

\* The tables are always as the handlers may have filled them.
THEOREM Invariance == Spec => []IInv
<1>1. QED
  BY InitIInv, NextIInv, PTL DEF Spec

\* A row has a client and a time that has passed when the row is stored.
THEOREM TypeCorrect == Spec => []TypeOK
<1>1. IInv => TypeOK
  BY DEF IInv
<1>2. QED
  BY Invariance, <1>1, PTL

\* GetClientHistory and GetAnomalies (storage.go:131, 174) list the newest, up
\* to the change of the local clock.
THEOREM HistoriesAreNewest == Spec => []HistoryIsNewest
<1>1. ASSUME IInv PROVE HistoryIsNewest
  <2>1. /\ now \in 0..MaxTime /\ MaxTime \in Nat
        /\ measurements \in Seq(MeasurementRecord) /\ anomalies \in Seq(AnomalyRecord)
        /\ \A i \in DOMAIN measurements : measurements[i].at <= now
        /\ \A i \in DOMAIN anomalies : anomalies[i].at <= now
    BY <1>1, QueryAssumption DEF IInv, TypeOK, Stamped
  <2>2. /\ \A i \in DOMAIN measurements : measurements[i].at \in 0..MaxTime
        /\ \A i \in DOMAIN anomalies : anomalies[i].at \in 0..MaxTime
    BY <1>1, <2>1, RecordTimes DEF IInv
  <2>3. ASSUME NEW client \in Client, NEW limit \in Limits,
               NEW s \in GetClientHistory(client, limit)
        PROVE  IsNewest(s, measurements, client, limit)
    BY <2>1, <2>2, NewestOfRows, QueryAssumption DEF GetClientHistory
  <2>4. ASSUME NEW client \in Client, NEW limit \in Limits,
               NEW s \in GetAnomalies(client, limit)
        PROVE  IsNewest(s, anomalies, client, limit)
    BY <2>1, <2>2, NewestOfRows, QueryAssumption DEF GetAnomalies
  <2>5. QED
    BY <2>3, <2>4 DEF HistoryIsNewest
<1>2. QED
  BY Invariance, <1>1, PTL

\* CountSuspicious (storage.go:199) is between the rows of a window shorter by
\* the change of the local clock and those of one longer by it.
THEOREM WindowsAreCounted == Spec => []WindowIsCounted
<1>1. ASSUME IInv PROVE WindowIsCounted
  <2> SUFFICES ASSUME NEW client \in Client, NEW window \in Windows
      PROVE  LET age(a) == {i \in DOMAIN measurements :
                              /\ measurements[i].client = client /\ measurements[i].suspicious
                              /\ now - measurements[i].at <= a}
             IN  /\ Cardinality(age(window - Shift)) <= CountSuspicious(client, window)
                 /\ CountSuspicious(client, window) <= Cardinality(age(window + Shift))
    BY DEF WindowIsCounted
  <2> DEFINE age(a) == {i \in DOMAIN measurements :
                          /\ measurements[i].client = client /\ measurements[i].suspicious
                          /\ now - measurements[i].at <= a}
             counted == {i \in DOMAIN measurements :
                          /\ measurements[i].client = client /\ measurements[i].suspicious
                          /\ Text(measurements[i].at) >= Since(window)}
  <2>1. /\ now \in 0..MaxTime /\ MaxTime \in Nat /\ now - window \in Compared
        /\ window \in Int /\ Shift \in Int /\ now \in Int
        /\ measurements \in Seq(MeasurementRecord)
        /\ \A i \in DOMAIN measurements : measurements[i].at <= now
    <3>1. /\ now \in 0..MaxTime /\ measurements \in Seq(MeasurementRecord)
          /\ \A i \in DOMAIN measurements : measurements[i].at <= now
      BY <1>1 DEF IInv, TypeOK
    <3>2. MaxTime \in Nat /\ window \in Int
      BY QueryAssumption
    <3>3. Shift \in Int
      BY OffsetAssumption
    <3>4. now \in Int /\ now - window \in Compared
      BY <3>1, <3>2 DEF Compared
    <3>5. QED
      BY <3>1, <3>2, <3>3, <3>4
  <2>2. \A i \in DOMAIN measurements : measurements[i].at \in Compared
    BY <1>1, <2>1, RecordTimes DEF IInv, Compared
  <2>3. ASSUME NEW i \in DOMAIN measurements
        PROVE  /\ now - measurements[i].at <= window - Shift
                    => Text(measurements[i].at) >= Since(window)
               /\ Text(measurements[i].at) >= Since(window)
                    => now - measurements[i].at <= window + Shift
    <3>1. /\ measurements[i].at \in Int
          /\ Text(measurements[i].at) >= Text(now - window)
               => now - window <= measurements[i].at + Shift
          /\ measurements[i].at >= (now - window) + Shift
               => Text(measurements[i].at) >= Text(now - window)
      BY <2>1, <2>2, TextOrder
    <3>2. QED
      BY <2>1, <3>1 DEF Since
  <2>4. age(window - Shift) \subseteq counted /\ counted \subseteq age(window + Shift)
    BY <2>3
  <2>5. IsFiniteSet(age(window + Shift))
    <3>1. DOMAIN measurements = 1..Len(measurements) /\ Len(measurements) \in Nat
      BY <2>1
    <3>2. IsFiniteSet(1..Len(measurements))
      BY <3>1, FS_Interval
    <3>3. QED
      BY <3>1, <3>2, FS_Subset
  <2>6. CountSuspicious(client, window) = Cardinality(counted)
    BY DEF CountSuspicious
  <2>7. QED
    <3> HIDE DEF age, counted
    <3>1. /\ Cardinality(age(window - Shift)) <= Cardinality(counted)
          /\ Cardinality(counted) <= Cardinality(age(window + Shift))
      BY <2>4, <2>5, FS_Subset
    <3> USE DEF age
    <3>2. QED
      BY <2>6, <3>1
<1>2. QED
  BY Invariance, <1>1, PTL
=============================================================================
