---------------------------- MODULE GeoCircles ----------------------------
(***************************************************************************)
(* The circles of internal/geo: what one round-trip time says about the    *)
(* distance of a client, and what a list of measurements says about a      *)
(* place, wherever the measurements come from.                             *)
(*                                                                         *)
(* Times are in ticks of which TcpOverhead make 10 ms, distances in the    *)
(* length light travels in fibre in half a tick, so that MaxDistanceFromRTT*)
(* is exact in integers.  The sphere is any metric space.                  *)
(***************************************************************************)
EXTENDS Integers, Sequences, FiniteSets, SequencesExt

CONSTANTS
  Place,        \* points on the earth
  Dist(_, _),   \* HaversineKM
  TcpOverhead   \* tcpOverheadUS

ASSUME MetricAssumption ==
  /\ \A p, q \in Place : Dist(p, q) \in Nat /\ Dist(p, q) = Dist(q, p)
  /\ \A p, q, r \in Place : Dist(p, r) <= Dist(p, q) + Dist(q, r)

-----------------------------------------------------------------------------

\* Entry Len(s) \div 2, counted from zero, of the sorted list.
medianInt(s) ==
  IF s = <<>> THEN 0
  ELSE CHOOSE v \in ToSet(s) :
         /\ Cardinality({i \in DOMAIN s : s[i] < v}) <= Len(s) \div 2
         /\ Cardinality({i \in DOMAIN s : s[i] <= v}) > Len(s) \div 2

MaxDistanceFromRTT(rtt) ==
  IF rtt <= 0 THEN 0 ELSE IF rtt <= TcpOverhead THEN rtt ELSE rtt - TcpOverhead

-----------------------------------------------------------------------------
(* Faults the code does not have, each of which breaks a property of       *)
(* GeoEngine or Client.                                                    *)

\* Circles that only touch are taken for a contradiction.
CheckRatios_Strict(ms) ==
  \A i, j \in DOMAIN ms :
    i < j => MaxDistanceFromRTT(medianInt(ms[i].RTTs)) + MaxDistanceFromRTT(medianInt(ms[j].RTTs))
               > Dist(ms[i].probe, ms[j].probe)

\* The overhead is taken off twice before probes are correlated.
CorrelateProbes_Overhead(ms, c) ==
  Len(ms) < 2 \/ \A j \in DOMAIN ms \ {c} :
    MaxDistanceFromRTT(medianInt(ms[c].RTTs) - TcpOverhead) +
    MaxDistanceFromRTT(medianInt(ms[j].RTTs)) >= Dist(ms[c].probe, ms[j].probe)

-----------------------------------------------------------------------------

Radius(m) == MaxDistanceFromRTT(medianInt(m.RTTs))

\* The circles that Locate draws, one around each probe.
Circles(ms) == [i \in DOMAIN ms |-> [at |-> ms[i].probe, radius |-> Radius(ms[i])]]

InAll(p, circles) == \A i \in DOMAIN circles : Dist(p, circles[i].at) <= circles[i].radius

CheckRatios(ms) ==
  \A i, j \in DOMAIN ms :
    i < j => Radius(ms[i]) + Radius(ms[j]) >= Dist(ms[i].probe, ms[j].probe)

\* sort.Slice may put any of the probes with the lowest median first.
Closest(ms) ==
  {i \in DOMAIN ms : \A j \in DOMAIN ms : medianInt(ms[i].RTTs) <= medianInt(ms[j].RTTs)}

CorrelateProbes(ms, c) ==
  Len(ms) < 2 \/ \A j \in DOMAIN ms \ {c} :
                   Radius(ms[c]) + Radius(ms[j]) >= Dist(ms[c].probe, ms[j].probe)

Outside(p, circle) == Dist(p, circle.at) > circle.radius

\* ComputeExclusions: the reference places that at least half of the circles
\* leave out.
Exclusions(circles, references) ==
  {p \in references :
     LET outside == {i \in DOMAIN circles : Outside(p, circles[i])}
     IN  outside # {} /\ 2 * Cardinality(outside) >= Len(circles)}
=============================================================================
