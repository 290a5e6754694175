-------------------------- MODULE GeoEngineProofs --------------------------
(***************************************************************************)
(* Theorems about GeoEngine for every metric space, every sampling of it,  *)
(* every dataset and every list of reports a client may send.              *)
(***************************************************************************)
EXTENDS GeoEngine, FiniteSetTheorems, WellFoundedInduction, TLAPS

-----------------------------------------------------------------------------
(* medianInt is a CHOOSE: it means something because a median exists. *)

\* A bounded non-empty set of naturals has a largest member.
LEMMA LargestNatural ==
  ASSUME NEW S \in SUBSET Nat, S # {}, NEW n \in Nat, \A x \in S : x <= n
  PROVE  \E x \in S : \A y \in S : y <= x
<1> DEFINE T == {n - x : x \in S}
<1>1. T \subseteq Nat /\ T # {}
  <2>1. \A x \in S : n - x \in Nat
    OBVIOUS
  <2>2. QED
    BY <2>1
<1>2. PICK t \in T : \A u \in T : ~(<<u, t>> \in OpToRel(<, Nat))
  BY <1>1, NatLessThanWellFounded, WFMin
<1>3. \A u \in T : ~(u < t)
  <2>1. \A u \in T : u < t => <<u, t>> \in OpToRel(<, Nat)
    BY <1>1 DEF OpToRel
  <2>2. QED
    BY <1>2, <2>1
<1>4. PICK x \in S : t = n - x
  OBVIOUS
<1>5. ASSUME NEW y \in S PROVE y <= x
  <2>1. ~(n - y < t)
    BY <1>3
  <2>2. QED
    BY <2>1, <1>4
<1>6. QED
  BY <1>5

\* So has a measure with values in 0..n on a non-empty set.
LEMMA LargestMeasure ==
  ASSUME NEW I, I # {}, NEW n \in Nat, NEW f \in [I -> 0..n]
  PROVE  \E i \in I : \A j \in I : f[j] <= f[i]
<1> DEFINE S == {f[i] : i \in I}
<1>1. S \in SUBSET Nat /\ S # {} /\ \A x \in S : x <= n
  OBVIOUS
<1>2. PICK x \in S : \A y \in S : y <= x
  BY <1>1, LargestNatural
<1>3. QED
  BY <1>2

\* And a smallest value.
LEMMA SmallestMeasure ==
  ASSUME NEW I, I # {}, NEW n \in Nat, NEW f \in [I -> 0..n]
  PROVE  \E i \in I : \A j \in I : f[i] <= f[j]
<1> DEFINE g == [i \in I |-> n - f[i]]
<1>1. g \in [I -> 0..n]
  OBVIOUS
<1>2. PICK i \in I : \A j \in I : g[j] <= g[i]
  <2> HIDE DEF g
  <2> QED
    BY <1>1, LargestMeasure
<1>3. \A j \in I : n - f[j] <= n - f[i]
  BY <1>2
<1>4. QED
  BY <1>3

\* The members of a list whose value is at most (below) v, and how many.
AtMost(s, v) == {i \in DOMAIN s : s[i] <= v}
Below(s, v) == {i \in DOMAIN s : s[i] < v}

\* A set of indices of a list is finite and has as many members as the list at most.
LEMMA CountType ==
  ASSUME NEW s \in Seq(Int), NEW T \in SUBSET DOMAIN s
  PROVE  IsFiniteSet(T) /\ Cardinality(T) \in 0..Len(s)
<1>1. Len(s) \in Nat /\ DOMAIN s = 1..Len(s)
  OBVIOUS
<1>2. IsFiniteSet(1..Len(s)) /\ Cardinality(1..Len(s)) = Len(s)
  <2>1. Cardinality(1..Len(s)) = IF 1 > Len(s) THEN 0 ELSE Len(s) - 1 + 1
    BY <1>1, FS_Interval
  <2>2. IsFiniteSet(1..Len(s))
    BY <1>1, FS_Interval
  <2>3. QED
    BY <1>1, <2>1, <2>2
<1>3. IsFiniteSet(T) /\ Cardinality(T) <= Len(s)
  BY <1>1, <1>2, FS_Subset
<1>4. QED
  BY <1>1, <1>3, FS_CardinalityType

\* One list is in the other, and misses a member of it: it has fewer.
LEMMA CountLess ==
  ASSUME NEW s \in Seq(Int), NEW B \in SUBSET DOMAIN s, NEW A \in SUBSET B,
         NEW k \in B, k \notin A
  PROVE  Cardinality(A) < Cardinality(B)
<1>1. IsFiniteSet(B) /\ Cardinality(B) \in Nat /\ Cardinality(A) \in Nat
  BY CountType
<1>2. Cardinality(A) <= Cardinality(B) /\ (Cardinality(B) = Cardinality(A) => B = A)
  BY <1>1, FS_Subset
<1>3. QED
  BY <1>1, <1>2

\* A non-empty list has a median in the sense of medianInt.
LEMMA MedianExists ==
  ASSUME NEW s \in Seq(Int), s # <<>>
  PROVE  \E v \in ToSet(s) : /\ Cardinality(Below(s, v)) <= Len(s) \div 2
                             /\ Cardinality(AtMost(s, v)) > Len(s) \div 2
<1> DEFINE n == Len(s)
           D == DOMAIN s
           f == [i \in D |-> Cardinality(AtMost(s, s[i]))]
           I == {i \in D : f[i] > n \div 2}
<1>1. n \in Nat \ {0} /\ D = 1..n /\ D # {} /\ \A i \in D : s[i] \in Int
  OBVIOUS
<1>2. f \in [D -> 0..n]
  BY CountType DEF AtMost
<1>3. I # {}
  <2>1. PICK i \in D : \A j \in D : f[j] <= f[i]
    <3> HIDE DEF f, D
    <3> QED
      BY <1>1, <1>2, LargestMeasure
  <2>2. ASSUME NEW j \in D PROVE s[j] <= s[i]
    <3>1. SUFFICES ASSUME s[i] < s[j] PROVE FALSE
      BY <1>1
    <3>2. AtMost(s, s[i]) \in SUBSET AtMost(s, s[j]) /\ j \in AtMost(s, s[j]) /\ j \notin AtMost(s, s[i])
      BY <1>1, <3>1 DEF AtMost
    <3>3. AtMost(s, s[j]) \in SUBSET DOMAIN s
      BY DEF AtMost
    <3>4. f[i] < f[j]
      BY <3>2, <3>3, CountLess
    <3>5. QED
      BY <2>1, <3>4, <1>2
  <2>3. AtMost(s, s[i]) = 1..n
    BY <2>2, <1>1 DEF AtMost
  <2>4. f[i] = n
    <3>1. Cardinality(1..n) = IF 1 > n THEN 0 ELSE n - 1 + 1
      BY <1>1, FS_Interval
    <3>2. QED
      BY <2>3, <1>1, <3>1
  <2>5. n > n \div 2
    BY <1>1
  <2>6. QED
    BY <2>4, <2>5
<1>4. PICK i \in I : \A j \in I : f[i] <= f[j]
  <2>1. [k \in I |-> f[k]] \in [I -> 0..n]
    BY <1>2
  <2>2. PICK i \in I : \A j \in I : [k \in I |-> f[k]][i] <= [k \in I |-> f[k]][j]
    <3> HIDE DEF I
    <3> QED
      BY <1>1, <1>3, <2>1, SmallestMeasure
  <2>3. QED
    BY <2>2
<1>5. Cardinality(Below(s, s[i])) <= n \div 2
  <2> DEFINE L == Below(s, s[i])
  <2>1. L \in SUBSET D /\ Cardinality(L) \in 0..n
    BY CountType DEF Below
  <2>2. SUFFICES ASSUME Cardinality(L) > n \div 2 PROVE FALSE
    BY <1>1, <2>1
  <2>3. L # {}
    <3>1. Cardinality({}) = 0
      BY FS_EmptySet
    <3>2. n \div 2 \in Nat
      BY <1>1
    <3>3. Cardinality(L) # 0
      BY <2>1, <2>2, <3>2
    <3>4. QED
      BY <3>1, <3>3
  <2>4. PICK j \in L : \A k \in L : f[k] <= f[j]
    <3>1. [k \in L |-> f[k]] \in [L -> 0..n]
      BY <1>2, <2>1
    <3>2. PICK j \in L : \A k \in L : [m \in L |-> f[m]][k] <= [m \in L |-> f[m]][j]
      <4> HIDE DEF L
      <4> QED
        BY <1>1, <2>3, <3>1, LargestMeasure
    <3>3. QED
      BY <3>2
  <2>5. ASSUME NEW k \in L PROVE s[k] <= s[j]
    <3>1. SUFFICES ASSUME s[j] < s[k] PROVE FALSE
      BY <1>1, <2>1
    <3>2. AtMost(s, s[j]) \in SUBSET AtMost(s, s[k]) /\ k \in AtMost(s, s[k]) /\ k \notin AtMost(s, s[j])
      BY <1>1, <2>1, <3>1 DEF AtMost
    <3>3. AtMost(s, s[k]) \in SUBSET DOMAIN s
      BY DEF AtMost
    <3>4. f[j] < f[k]
      BY <3>2, <3>3, <2>1, CountLess
    <3>5. f[j] \in Int /\ f[k] \in Int /\ f[k] <= f[j]
      <4> HIDE DEF f
      <4> QED
        BY <2>1, <2>4, <1>2
    <3>6. QED
      BY <3>4, <3>5
  <2>6. AtMost(s, s[j]) = L
    BY <2>5, <1>1, <2>1 DEF AtMost, Below
  <2>7. j \in I
    BY <2>6, <2>2, <2>1
  <2>8. f[j] < f[i]
    <3>1. L \in SUBSET AtMost(s, s[i]) /\ i \in AtMost(s, s[i]) /\ i \notin L
      BY <1>1 DEF AtMost, Below
    <3>2. AtMost(s, s[i]) \in SUBSET DOMAIN s
      BY DEF AtMost
    <3>3. Cardinality(L) < Cardinality(AtMost(s, s[i]))
      BY <3>1, <3>2, CountLess
    <3>4. QED
      BY <3>3, <2>6, <2>1
  <2>9. QED
    BY <2>7, <2>8, <1>4, <1>2
<1>6. QED
  BY <1>5, <1>1 DEF ToSet, AtMost

\* The median of a list that is not empty is in it, and more than half of the
\* list is no larger.
LEMMA MedianMember ==
  ASSUME NEW s \in Seq(Int), s # <<>>
  PROVE  medianInt(s) \in ToSet(s) /\ Cardinality(AtMost(s, medianInt(s))) > Len(s) \div 2
<1> DEFINE P(v) == /\ Cardinality(Below(s, v)) <= Len(s) \div 2
                   /\ Cardinality(AtMost(s, v)) > Len(s) \div 2
<1>1. \E v \in ToSet(s) : P(v)
  BY MedianExists
<1>2. medianInt(s) = CHOOSE v \in ToSet(s) : P(v)
  BY DEF medianInt, Below, AtMost
<1>3. medianInt(s) \in ToSet(s) /\ P(medianInt(s))
  <2> HIDE DEF P
  <2> QED
    BY <1>1, <1>2
<1>4. QED
  BY <1>3

\* medianInt is a number: one of the list, or zero.
LEMMA MedianType ==
  ASSUME NEW s \in Seq(Int)
  PROVE  medianInt(s) \in Int
<1>1. CASE s = <<>>
  BY <1>1 DEF medianInt
<1>2. CASE s # <<>>
  <2>1. ToSet(s) \subseteq Int
    BY DEF ToSet
  <2>2. QED
    BY <1>2, <2>1, MedianMember
<1>3. QED
  BY <1>1, <1>2

-----------------------------------------------------------------------------
(* Circles. *)

\* Two circles with a common place reach as far as their centres are apart.
LEMMA CirclesMeet ==
  ASSUME NEW a \in Place, NEW b \in Place, NEW p \in Place, NEW r \in Int, NEW s \in Int,
         Dist(p, a) <= r, Dist(p, b) <= s
  PROVE  r + s >= Dist(a, b)
<1>1. Dist(a, b) <= Dist(a, p) + Dist(p, b)
  BY MetricAssumption
<1>2. Dist(a, p) = Dist(p, a) /\ Dist(a, p) \in Nat /\ Dist(p, b) \in Nat /\ Dist(a, b) \in Nat
  BY MetricAssumption
<1>3. QED
  BY <1>1, <1>2

\* What a client reported is a number of ticks, and its circle a number of units.
LEMMA RadiusType ==
  ASSUME NEW m \in Measurement
  PROVE  medianInt(m.RTTs) \in Int /\ Radius(m) \in Int
<1>1. m.RTTs \in Seq(Int)
  BY SamplingAssumption DEF Measurement
<1>2. medianInt(m.RTTs) \in Int
  BY <1>1, MedianType
<1>3. QED
  BY <1>2, SamplingAssumption DEF Radius, MaxDistanceFromRTT

\* The distance between two reported probes.
LEMMA ProbeDistance ==
  ASSUME NEW m \in Measurement, NEW o \in Measurement
  PROVE  /\ m.probe \in Place /\ o.probe \in Place
         /\ Dist(m.probe, o.probe) \in Nat /\ Dist(m.probe, o.probe) = Dist(o.probe, m.probe)
BY MetricAssumption, SamplingAssumption DEF Measurement

\* Two circles with a common place overlap in the sense of CheckRatios.
LEMMA CommonPlace ==
  ASSUME NEW m \in Measurement, NEW o \in Measurement, NEW p \in Place,
         Dist(p, m.probe) <= Radius(m), Dist(p, o.probe) <= Radius(o)
  PROVE  Radius(m) + Radius(o) >= Dist(m.probe, o.probe)
BY ProbeDistance, RadiusType, CirclesMeet

-----------------------------------------------------------------------------

\* The conversion loop of SubmitMeasurement makes measurements of known probes only.
THEOREM TypeCorrect == Spec => []TypeOK
<1>1. Init => TypeOK
  BY SamplingAssumption DEF Init, TypeOK
<1>2. TypeOK /\ [Next]_measurements => TypeOK'
  <2>1. ASSUME TypeOK, NEW p \in Probe, NEW rtts \in RttLists, Convert(p, rtts)
        PROVE  TypeOK'
    <3>1. [probe |-> p, RTTs |-> rtts] \in Measurement
      BY DEF Measurement
    <3>2. measurements \in Seq(Measurement) /\ Len(measurements) < MaxReports
      BY <2>1 DEF TypeOK, Convert
    <3>3. measurements' \in Seq(Measurement) /\ Len(measurements') = Len(measurements) + 1
      BY <2>1, <3>1, <3>2 DEF Convert
    <3>4. QED
      BY <3>2, <3>3, SamplingAssumption DEF TypeOK
  <2>2. TypeOK /\ UNCHANGED measurements => TypeOK'
    BY DEF TypeOK
  <2>3. QED
    BY <2>1, <2>2 DEF Next, Convert
<1>3. QED
  BY <1>1, <1>2, PTL DEF Spec

\* A failed ratio check leaves the intersection no sample point.
LEMMA RatioMeansNoSample ==
  ASSUME TypeOK, ~CheckRatios(measurements)
  PROVE  Len(measurements) > 1 /\ Inside(Circles(measurements)) = {}
<1> DEFINE ms == measurements
<1>1. ms \in Seq(Measurement)
  BY DEF TypeOK
<1>2. PICK i \in DOMAIN ms, j \in DOMAIN ms :
        i < j /\ ~(Radius(ms[i]) + Radius(ms[j]) >= Dist(ms[i].probe, ms[j].probe))
  BY DEF CheckRatios
<1>3. ms[i] \in Measurement /\ ms[j] \in Measurement /\ Len(ms) > 1
  BY <1>1, <1>2
<1>4. ASSUME NEW p \in Place, InAll(p, Circles(ms)) PROVE FALSE
  <2>1. Dist(p, ms[i].probe) <= Radius(ms[i]) /\ Dist(p, ms[j].probe) <= Radius(ms[j])
    BY <1>4, <1>2 DEF InAll, Circles
  <2>2. QED
    BY <1>2, <1>3, <2>1, CommonPlace
<1>5. Inside(Circles(ms)) = {}
  BY <1>4 DEF Inside
<1>6. QED
  BY <1>3, <1>5

\* The verdict does not depend on the dataset where physics excludes the reports.
LEMMA RatioMeansImpossible ==
  ASSUME TypeOK, ~CheckRatios(measurements), NEW b
  PROVE  Locate(measurements, b).impossible
<1>1. Len(measurements) > 1 /\ Inside(Circles(measurements)) = {}
  BY RatioMeansNoSample
<1>2. Len(Circles(measurements)) = Len(measurements)
  <2>1. measurements \in Seq(Measurement)
    BY DEF TypeOK
  <2>2. QED
    BY <2>1 DEF Circles
<1>3. IntersectCircles(Circles(measurements)).radius = 0
  <2>1. Overlap(Circles(measurements), Inside(Circles(measurements))) = [found |-> FALSE, radius |-> 0]
    BY <1>1 DEF Overlap
  <2>2. Len(Circles(measurements)) # 0 /\ Len(Circles(measurements)) # 1
    BY <1>1, <1>2
  <2>3. QED
    BY <2>1, <2>2 DEF IntersectCircles
<1>4. Locate(measurements, b).impossible
        = (Len(measurements) > 1 /\ IntersectCircles(Circles(measurements)).radius = 0)
  BY Zenon DEF Locate
<1>5. QED
  BY <1>1, <1>3, <1>4

\* Comparing every probe with a closest one finds nothing that comparing all
\* pairs does not, whichever closest one the sort puts first.
LEMMA CorrelationFromRatios ==
  ASSUME TypeOK, CheckRatios(measurements), NEW c \in DOMAIN measurements
  PROVE  CorrelateProbes(measurements, c)
<1> DEFINE ms == measurements
<1>1. SUFFICES ASSUME NEW j \in DOMAIN ms \ {c}
               PROVE  Radius(ms[c]) + Radius(ms[j]) >= Dist(ms[c].probe, ms[j].probe)
  BY DEF CorrelateProbes
<1>2. ms \in Seq(Measurement)
  BY DEF TypeOK
<1>3. ms[c] \in Measurement /\ ms[j] \in Measurement /\ (c < j \/ j < c)
  BY <1>1, <1>2
<1>4. CASE c < j
  BY <1>1, <1>4 DEF CheckRatios
<1>5. CASE j < c
  <2>1. Radius(ms[j]) + Radius(ms[c]) >= Dist(ms[j].probe, ms[c].probe)
    BY <1>1, <1>5 DEF CheckRatios
  <2>2. QED
    BY <2>1, <1>3, RadiusType, ProbeDistance
<1>6. QED
  BY <1>3, <1>4, <1>5

\* geo.go:289 and the sampling of geo.go:116-139 agree, wherever the sample
\* points lie: what the pairwise test rejects has no overlap, and is REJECTED.
THEOREM FailedRatioIsRejected == Spec => []RatioMeansRejected
<1>1. TypeOK => RatioMeansRejected
  BY RatioMeansImpossible DEF RatioMeansRejected
<1>2. QED
  BY <1>1, TypeCorrect, PTL

\* jitter.go:116: the correlation test never fails alone.
THEOREM CorrelationIsCovered == Spec => []CorrelationCovered
<1>1. TypeOK => CorrelationCovered
  BY CorrelationFromRatios DEF CorrelationCovered, Closest
<1>2. QED
  BY <1>1, TypeCorrect, PTL

\* Every SUSPICIOUS verdict is stored with its flag (server.go:135 and 174):
\* the one indicator the flag leaves out, Locate's own ratio check, never
\* makes a verdict SUSPICIOUS, because it makes it REJECTED.
THEOREM SuspiciousVerdictIsFlagged == Spec => []SuspiciousIsFlagged
<1>1. ASSUME TypeOK, NEW c, NEW b, Verdict(measurements, c, b) = "SUSPICIOUS"
      PROVE  Suspicious(measurements, c)
  <2> DEFINE l == Locate(measurements, b)
  <2>1. ~l.impossible
    BY <1>1 DEF Verdict, Status
  <2>2. CheckRatios(measurements)
    BY <1>1, <2>1, RatioMeansImpossible
  <2>3. DetectVPN(measurements) \/ l.jitter \/ l.ratio \/ ~CorrelateProbes(measurements, c)
    BY <1>1, <2>1 DEF Verdict, Status
  <2>4. l.jitter = JitterAbnormal(measurements) /\ l.ratio = ~CheckRatios(measurements)
    BY Zenon DEF Locate
  <2>5. QED
    BY <2>2, <2>3, <2>4 DEF Suspicious
<1>2. TypeOK => SuspiciousIsFlagged
  BY <1>1 DEF SuspiciousIsFlagged
<1>3. QED
  BY <1>2, TypeCorrect, PTL

\* The order in which an unstable sort leaves equally close probes
\* (jitter.go:81) decides nothing of the verdict, and of the stored flag only
\* what stands beside REJECTED.
THEOREM TiesDecideNothing == Spec => []VerdictIgnoresTies
<1>1. ASSUME TypeOK, NEW c \in Closest(measurements), NEW d \in Closest(measurements), NEW b
      PROVE  /\ Verdict(measurements, c, b) = Verdict(measurements, d, b)
             /\ Suspicious(measurements, c) # Suspicious(measurements, d) =>
                  Verdict(measurements, c, b) = "REJECTED"
  <2>1. c \in DOMAIN measurements /\ d \in DOMAIN measurements
    BY DEF Closest
  <2>2. CASE CheckRatios(measurements)
    <3>1. CorrelateProbes(measurements, c) /\ CorrelateProbes(measurements, d)
      BY <1>1, <2>1, <2>2, CorrelationFromRatios
    <3>2. QED
      BY <3>1 DEF Verdict, Status, Suspicious
  <2>3. CASE ~CheckRatios(measurements)
    <3>1. Locate(measurements, b).impossible
      BY <1>1, <2>3, RatioMeansImpossible
    <3>2. QED
      BY <3>1 DEF Verdict, Status
  <2>4. QED
    BY <2>2, <2>3
<1>2. TypeOK => VerdictIgnoresTies
  BY <1>1 DEF VerdictIgnoresTies
<1>3. QED
  BY <1>2, TypeCorrect, PTL

\* What a confidence of 85 is made of, with and without the dataset's bonus.
LEMMA ConfidentScore ==
  ASSUME NEW r, NEW n \in Nat, NEW b, score(r, n, FALSE, TRUE, b) >= 85
  PROVE  r # 0 /\ (b = 0 => n >= 3)
<1> DEFINE probes == IF n >= 6 THEN 20 ELSE IF n >= 3 THEN 10 ELSE 0
           tight == IF r < Near THEN 20 ELSE IF r < Wide THEN 10 ELSE 0
           s == 50 + probes + tight + 5 + 5 + b
<1>1. r # 0
  BY DEF score
<1>2. (IF s > 100 THEN 100 ELSE IF s < 0 THEN 0 ELSE s) >= 85
  BY <1>1 DEF score
<1>3. probes \in {0, 10, 20} /\ tight \in {0, 10, 20}
  OBVIOUS
<1>4. b = 0 => probes # 0
  <2> HIDE DEF probes, tight
  <2> QED
    BY <1>2, <1>3
<1>5. QED
  BY <1>1, <1>4

\* CONFIRMED (engine.go:189-230, server.go:137) takes a place that all circles
\* contain, where there is more than one, and without a dataset three reports.
THEOREM ConfirmationIsEvidence == Spec => []ConfirmedNeedsEvidence
<1>1. ASSUME TypeOK, NEW c, NEW b, Verdict(measurements, c, b) = "CONFIRMED"
      PROVE  /\ Len(measurements) > 1 => \E p \in Place : InAll(p, Circles(measurements))
             /\ b = 0 => Len(measurements) >= 3
  <2> DEFINE l == Locate(measurements, b)
             region == IntersectCircles(Circles(measurements))
  <2>1. ~l.jitter /\ ~l.ratio /\ l.confidence >= 85
    BY <1>1 DEF Verdict, Status
  <2>2. l.jitter = JitterAbnormal(measurements) /\ l.ratio = ~CheckRatios(measurements)
    BY Zenon DEF Locate
  <2>3. JitterAbnormal(measurements) = FALSE /\ CheckRatios(measurements) = TRUE
    BY <2>1, <2>2 DEF JitterAbnormal, CheckRatios
  <2>4. l.confidence = score(region.radius, Len(measurements), FALSE, TRUE, b)
    BY <2>3, Zenon DEF Locate
  <2>5. measurements \in Seq(Measurement) /\ Len(measurements) \in Nat
    BY <1>1 DEF TypeOK
  <2>6. region.radius # 0 /\ (b = 0 => Len(measurements) >= 3)
    BY <2>1, <2>4, <2>5, ConfidentScore
  <2>7. ASSUME Len(measurements) > 1
        PROVE  \E p \in Place : InAll(p, Circles(measurements))
    <3>1. Len(Circles(measurements)) # 0 /\ Len(Circles(measurements)) # 1
      <4>1. Len(Circles(measurements)) = Len(measurements)
        BY <2>5 DEF Circles
      <4>2. QED
        BY <2>5, <2>7, <4>1
    <3>2. region = Overlap(Circles(measurements), Inside(Circles(measurements)))
      BY <3>1 DEF IntersectCircles
    <3>3. Inside(Circles(measurements)) # {}
      BY <2>6, <3>2 DEF Overlap
    <3>4. QED
      BY <3>3 DEF Inside
  <2>8. QED
    BY <2>6, <2>7
<1>2. TypeOK => ConfirmedNeedsEvidence
  BY <1>1 DEF ConfirmedNeedsEvidence
<1>3. QED
  BY <1>2, TypeCorrect, PTL
=============================================================================
