------------------------------ MODULE Dataset ------------------------------
(***************************************************************************)
(* internal/dataset: tables of round-trip times between cities, how they   *)
(* are built, and which city fits the round-trip times of a report best.   *)
(*                                                                         *)
(* The average of a pair is the only number of it that anything reads.  A  *)
(* report is the median of its RTTs (GeoEngine says which that is), in the *)
(* unit of the averages, so one over an average is a multiple of one over  *)
(* Scale and the normalised errors are exact integers.                     *)
(***************************************************************************)
EXTENDS Integers, Sequences, FiniteSets, SequencesExt

CONSTANTS
  Name,         \* of cities, in the CSV files and in the adapters' entries
  Place,        \* points on the earth
  Dist(_, _),   \* HaversineKM
  Origin,       \* 0 N 0 E, which FromEntries takes for an unknown place
  Probe,        \* the known probes
  At(_),        \* the place of a probe
  ProbeToCity,  \* defaultProbeToCity
  NoCity,       \* the empty name
  Scale,        \* the unit of errors: 1 / Scale
  Tie           \* the 0.01 of BestMatch, in that unit

ASSUME DatasetAssumption ==
  /\ IsFiniteSet(Name)
  /\ Origin \in Place /\ NoCity \notin Name
  /\ DOMAIN ProbeToCity \subseteq Probe
  /\ \A p \in DOMAIN ProbeToCity : ProbeToCity[p] \in Name
  /\ \A p \in Probe : At(p) \in Place
  /\ Scale \in Nat \ {0} /\ Tie \in Nat

-----------------------------------------------------------------------------
(* Faults the code does not have, each of which breaks a property of       *)
(* DatasetSource.                                                          *)

\* The names of a pair are joined as they come.
pairKey_Directed(a, b) == <<a, b>>

\* A better match by any amount goes first.
Less_NoAbs(a, b) ==
  IF a.total * b.matched - b.total * a.matched < Tie * a.matched * b.matched
  THEN a.matched > b.matched
  ELSE a.total * b.matched < b.total * a.matched

\* Among equals the city with fewer matches is preferred.
Less_Fewer(a, b) ==
  LET gap == a.total * b.matched - b.total * a.matched
  IN  IF gap < Tie * a.matched * b.matched /\ -gap < Tie * a.matched * b.matched
      THEN a.matched < b.matched
      ELSE gap < 0

-----------------------------------------------------------------------------
(* Building a table: later rows overwrite earlier ones. *)

\* Keyed by pairs of names in alphabetical order: a set of two names, or one.
pairKey(a, b) == {a, b}

Empty == [entries |-> <<>>, cities |-> <<>>]

Single(x, v) == [y \in {x} |-> v]

Overwrite(f, g) ==
  [x \in DOMAIN f \union DOMAIN g |-> IF x \in DOMAIN g THEN g[x] ELSE f[x]]

\* What one row sets: of a CSV file, whose places are taken as they are ...
CsvRow(r) ==
  [entries |-> Single(pairKey(r.src, r.dst), r.avg),
   cities |-> Overwrite(Single(r.src, r.srcAt), Single(r.dst, r.dstAt))]

\* ... or of an adapter's entries, whose places may be unknown.
Located(name, place) == IF place = Origin THEN <<>> ELSE Single(name, place)

EntryRow(e) ==
  [entries |-> Single(pairKey(e.src, e.dst), e.avg),
   cities |-> Overwrite(Located(e.src, e.srcAt), Located(e.dst, e.dstAt))]

AddRow(ds, row) ==
  [entries |-> Overwrite(ds.entries, row.entries),
   cities |-> Overwrite(ds.cities, row.cities)]

Table(rows) == FoldLeft(AddRow, Empty, rows)

LoadCSVFromReader(rows) == Table([i \in DOMAIN rows |-> CsvRow(rows[i])])

-----------------------------------------------------------------------------
(* Lookups: 0 where the code returns no value. *)

Lookup(ds, a, b) ==
  LET key == pairKey(a, b)
  IN  IF key \in DOMAIN ds.entries THEN ds.entries[key] ELSE 0

\* The cities among which the order of the map picks one.
NearestCities(ds, place) ==
  LET d(c) == Dist(place, ds.cities[c])
  IN  {c \in DOMAIN ds.cities : \A b \in DOMAIN ds.cities : d(c) <= d(b)}

\* Every value that LookupByProbeCoords may return.
LookupByProbeCoords(ds, place, city) ==
  IF DOMAIN ds.cities = {} THEN {0}
  ELSE {IF c = city THEN 0 ELSE Lookup(ds, c, city) : c \in NearestCities(ds, place)}

-----------------------------------------------------------------------------
(* BestMatch *)

\* What a report is compared with: 0 when the table says nothing of it.
Known(ds, city, report) ==
  IF report.probe \in DOMAIN ProbeToCity
  THEN Lookup(ds, city, ProbeToCity[report.probe]) ELSE 0

AbsDiff(a, b) == IF a < b THEN b - a ELSE a - b

normErr(ds, city, report) ==
  LET avg == Known(ds, city, report)
  IN  AbsDiff(report.rtt, avg) * (Scale \div avg)

totalErr(ds, city, reports, M) ==
  MapThenSumSet(LAMBDA i : normErr(ds, city, reports[i]), M)

\* The error of a city is total / matched.
Score(ds, reports, city) ==
  LET M == {i \in DOMAIN reports : Known(ds, city, reports[i]) > 0}
  IN  [city |-> city, matched |-> Cardinality(M), total |-> totalErr(ds, city, reports, M)]

Candidates(ds, reports) ==
  {s \in {Score(ds, reports, c) : c \in DOMAIN ds.cities} : s.matched > 0}

\* a.err - b.err, on the denominator that both errors have.
Gap(a, b) == a.total * b.matched - b.total * a.matched

Tied(a, b) == AbsDiff(Gap(a, b), 0) < Tie * a.matched * b.matched

\* No order: that a ties with b and b with c says nothing of a and c.
Less(a, b) == IF Tied(a, b) THEN a.matched > b.matched ELSE Gap(a, b) < 0

\* Candidates that are less than all others, whichever of both are compared.
Cut(low, S) == low # {} /\ \A a \in low, b \in S \ low : Less(a, b)

\* Which element sort.Slice puts first depends on the order in which the map
\* yields the cities and, with more than 12 of them, on the pivots it picks.
\* Its steps - insertion, partition about a pivot, heap - keep the candidates
\* of a cut before the others, so it is one that lies in every cut.
Firsts(S) == {s \in S : \A low \in SUBSET S : Cut(low, S) => s \in low}

\* Every city that BestMatch may return, with its score.
BestMatch(candidates) ==
  IF candidates = {} THEN {[city |-> NoCity, matched |-> 0, total |-> 0]}
  ELSE Firsts(candidates)
=============================================================================
