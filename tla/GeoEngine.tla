----------------------------- MODULE GeoEngine -----------------------------
(***************************************************************************)
(* internal/geo, and the verdict that SubmitMeasurement makes of it: what  *)
(* a list of measurements says about where the client can be.              *)
(*                                                                         *)
(* The circles are those of GeoCircles.  The 101 x 101 grid over the       *)
(* smallest circle is any set of places, and the dataset whatever bonus it *)
(* may give to the confidence.  Comparisons of ratios are multiplied out   *)
(* and confidences counted in hundredths.                                  *)
(***************************************************************************)
EXTENDS GeoCircles

CONSTANTS
  Grid(_, _),   \* the sample points for a circle, by centre and radius
  Spread(_),    \* largest distance of the sampled overlap from its centroid
  Probe,        \* the places of the known probes
  UnknownProbe, \* a probe ID that is not in the table
  RttLists,     \* the RTT lists a client may report for one probe
  MaxReports,   \* bound of the model: reports in one submission
  HighRtt,      \* the 50 ms of CheckJitter and DetectVPN
  Near, Wide,   \* the 500 km and the 2000 km of score
  Bonuses       \* what a dataset match may add: 15, 5 or nothing

VARIABLE measurements  \* what the server has converted of the submission so far

ASSUME SamplingAssumption ==
  /\ Probe \subseteq Place
  /\ UnknownProbe \notin Probe
  /\ TcpOverhead \in Nat /\ HighRtt \in Nat /\ Near \in Nat /\ Wide \in Nat
  /\ MaxReports \in Nat /\ Bonuses \subseteq Nat
  /\ RttLists \subseteq Seq(Int)

Measurement == [probe : Probe, RTTs : RttLists]

-----------------------------------------------------------------------------
(* Faults the code does not have, each of which breaks a property below. *)

\* The probe of a report is not looked up before its place is used.
Convert_NoLookup(p, rtts) ==
  /\ Len(measurements) < MaxReports
  /\ measurements' = Append(measurements, [probe |-> p, RTTs |-> rtts])

\* The flag of the stored record looks at the jitter alone.
Suspicious_JitterOnly(ms, c) ==
  \E i \in DOMAIN ms : LET s == ms[i].RTTs
                       IN  Len(s) >= 2 /\ Max(ToSet(s)) = Min(ToSet(s))

\* The bands of the probe count are tested in the wrong order, so that two
\* probes already count as several.
score_Bands(radius, probeCount, jitterBad, ratioOK, bonus) ==
  IF radius = 0 THEN 0
  ELSE 50 + (IF probeCount >= 2 THEN 10 ELSE 0)
          + (IF radius < Near THEN 20 ELSE IF radius < Wide THEN 10 ELSE 0)
          + (IF jitterBad THEN -20 ELSE 5) + (IF ratioOK THEN 5 ELSE -20) + bonus

-----------------------------------------------------------------------------

\* The first of the smallest circles, whose bounding box is sampled.
Smallest(circles) ==
  circles[CHOOSE i \in DOMAIN circles :
            /\ \A j \in DOMAIN circles : circles[i].radius <= circles[j].radius
            /\ \A j \in 1..(i - 1) : circles[i].radius < circles[j].radius]

Inside(circles) ==
  LET c == Smallest(circles)
  IN  {p \in Grid(c.at, c.radius) \intersect Place : InAll(p, circles)}

\* IntersectCircles: nothing to intersect, one circle, no common sample point
\* (the zero Region again), or what the common sample points span.  All sample
\* points of a circle of radius zero are one place, and the mean of their
\* coordinates misses it by a rounding error, which is not zero.
Overlap(circles, inside) ==
  IF inside = {} THEN [found |-> FALSE, radius |-> 0]
  ELSE [found |-> TRUE,
        radius |-> IF Smallest(circles).radius = 0 THEN 1 ELSE Spread(inside)]

IntersectCircles(circles) ==
  IF Len(circles) = 0 THEN [found |-> FALSE, radius |-> 0]
  ELSE IF Len(circles) = 1 THEN [found |-> TRUE, radius |-> circles[1].radius]
  ELSE Overlap(circles, Inside(circles))

Sum(s) == FoldSeq(LAMBDA v, acc : v + acc, 0, s)
SumSquares(s) == FoldSeq(LAMBDA v, acc : v * v + acc, 0, s)

JitterNormal(s) ==
  Len(s) >= 2 =>
    LET jitter == Max(ToSet(s)) - Min(ToSet(s))
    IN  /\ jitter # 0
        /\ ~(Sum(s) > HighRtt * Len(s) /\ 200 * jitter * Len(s) < Sum(s))

-----------------------------------------------------------------------------
(* jitter.go *)

\* Len(s) squared times the variance: cv < a/b becomes
\* b * b * Variance2(s) < a * a * Sum(s) * Sum(s).
Variance2(s) == Len(s) * SumSquares(s) - Sum(s) * Sum(s)

\* What DetectVPN takes from AnalyzeJitter: whether the CV exceeds 3%.
Unsteady(s) == Len(s) > 1 /\ Sum(s) > 0 /\ 10000 * Variance2(s) > 9 * Sum(s) * Sum(s)

DetectVPN(ms) ==
  LET medians == [i \in DOMAIN ms |-> medianInt(ms[i].RTTs)]
  IN  /\ Len(ms) >= 2
      /\ Sum(medians) >= HighRtt * Len(ms)
      /\ 400 * Variance2(medians) < Sum(medians) * Sum(medians)
      /\ \A i \in DOMAIN ms : ~Unsteady(ms[i].RTTs)

-----------------------------------------------------------------------------
(* engine.go and the verdict of server.go *)

score(radius, probeCount, jitterBad, ratioOK, bonus) ==
  IF radius = 0 THEN 0
  ELSE LET s == 50 + (IF probeCount >= 6 THEN 20 ELSE IF probeCount >= 3 THEN 10 ELSE 0)
                   + (IF radius < Near THEN 20 ELSE IF radius < Wide THEN 10 ELSE 0)
                   + (IF jitterBad THEN -20 ELSE 5)
                   + (IF ratioOK THEN 5 ELSE -20)
                   + bonus
       IN  IF s > 100 THEN 100 ELSE IF s < 0 THEN 0 ELSE s

JitterAbnormal(ms) == \E i \in DOMAIN ms : ~JitterNormal(ms[i].RTTs)

\* The part of Locate's result that the verdict looks at.
Locate(ms, bonus) ==
  LET region == IntersectCircles(Circles(ms))
  IN  [region |-> region,
       impossible |-> Len(ms) > 1 /\ region.radius = 0,
       jitter |-> JitterAbnormal(ms),
       ratio |-> ~CheckRatios(ms),
       confidence |-> score(region.radius, Len(ms), JitterAbnormal(ms), CheckRatios(ms), bonus)]

\* SubmitMeasurement adds its own two checks to the indicators of Locate.
Status(result, vpn, correlated) ==
  IF result.impossible THEN "REJECTED"
  ELSE IF vpn \/ result.jitter \/ result.ratio \/ ~correlated THEN "SUSPICIOUS"
  ELSE IF result.confidence >= 85 THEN "CONFIRMED"
  ELSE "PLAUSIBLE"

Verdict(ms, c, bonus) == Status(Locate(ms, bonus), DetectVPN(ms), CorrelateProbes(ms, c))

\* The flag of the stored record and the anomalies logged with it.
Suspicious(ms, c) == DetectVPN(ms) \/ JitterAbnormal(ms) \/ ~CorrelateProbes(ms, c)

-----------------------------------------------------------------------------

Init == measurements = <<>>

\* The conversion loop takes the next report; one of an unknown probe ends the
\* call with InvalidArgument.
Convert(p, rtts) ==
  /\ p \in Probe
  /\ Len(measurements) < MaxReports
  /\ measurements' = Append(measurements, [probe |-> p, RTTs |-> rtts])

Next == \E p \in Probe \union {UnknownProbe}, rtts \in RttLists : Convert(p, rtts)

Spec == Init /\ [][Next]_measurements

-----------------------------------------------------------------------------

\* What is converted is what a client may report.
TypeOK == measurements \in Seq(Measurement) /\ Len(measurements) <= MaxReports

\* The pairwise test of CheckRatios and the sampling of IntersectCircles are
\* two pieces of code; where the first finds a contradiction (geo.go:289) the
\* second finds no overlap, so a failed ratio check is always REJECTED.
RatioMeansRejected ==
  ~CheckRatios(measurements) => Locate(measurements, 0).impossible

\* jitter.go:116 "already covered by CheckRatios": comparing every probe with
\* the closest one finds nothing that comparing all pairs does not.
CorrelationCovered ==
  \A c \in Closest(measurements) :
    CheckRatios(measurements) => CorrelateProbes(measurements, c)

\* A SUSPICIOUS verdict and the suspicious flag of the record are computed from
\* different indicators (server.go:135 and 174); still no such verdict is
\* stored without the flag, so CountSuspicious misses none.
SuspiciousIsFlagged ==
  \A c \in Closest(measurements), b \in Bonuses :
    Verdict(measurements, c, b) = "SUSPICIOUS" => Suspicious(measurements, c)

\* sort.Slice is not stable: which of several equally close probes comes first
\* may differ from run to run.  The verdict does not depend on it; the flag of
\* the record and the anomalies do, but only beside a verdict of REJECTED.
VerdictIgnoresTies ==
  \A c, d \in Closest(measurements), b \in Bonuses :
    /\ Verdict(measurements, c, b) = Verdict(measurements, d, b)
    /\ Suspicious(measurements, c) # Suspicious(measurements, d) =>
         Verdict(measurements, c, b) = "REJECTED"

\* Whatever a dataset adds, what is confirmed has a place that satisfies all
\* reports; and physics alone confirms only what three of them agree on (with
\* the bonus of a dataset, one or two do).
ConfirmedNeedsEvidence ==
  \A c \in Closest(measurements), b \in Bonuses :
    Verdict(measurements, c, b) = "CONFIRMED" =>
      /\ Len(measurements) > 1 => \E p \in Place : InAll(p, Circles(measurements))
      /\ b = 0 => Len(measurements) >= 3

\* fallback_test.go:35 "The engine should NEVER return (0,0) as a location":
\* a Region that was not found is the zero Region, at 0 N 0 E.
NeverZeroRegion == measurements # <<>> => Locate(measurements, 0).region.found

\* integration_test.go:153 "Check result was marked suspicious", for a verdict
\* that is SUSPICIOUS or REJECTED (line 140).
RejectedIsFlagged ==
  \A c \in Closest(measurements), b \in Bonuses :
    Verdict(measurements, c, b) \in {"SUSPICIOUS", "REJECTED"} => Suspicious(measurements, c)
=============================================================================
