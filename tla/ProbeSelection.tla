--------------------------- MODULE ProbeSelection ---------------------------
(***************************************************************************)
(* SelectProbes of internal/challenge, one loop iteration a step: first    *)
(* the nearest probe of every region in the order of the regions' names,   *)
(* then the nearest of the others until there are enough.                  *)
(***************************************************************************)
EXTENDS Integers, Sequences, FiniteSets, SequencesExt

CONSTANTS
  knownProbes,  \* the table, a sequence of probes
  regions,      \* the sorted names of their regions
  Region(_),    \* the region of a probe
  Distances,    \* the distances an estimated location may have to the probes
  MaxCount      \* bound of the model: probes that are asked for

VARIABLES
  dist,    \* HaversineKM from the estimated location to each probe
  count,   \* how many probes the caller wants
  result   \* what was selected so far

vars == <<dist, count, result>>

Probe == ToSet(knownProbes)

ASSUME TableAssumption ==
  /\ knownProbes \in Seq(Probe) /\ IsInjective(knownProbes)
  /\ regions \in Seq(ToSet(regions)) /\ IsInjective(regions)
  /\ ToSet(regions) = {Region(p) : p \in Probe}
  /\ Distances \subseteq Nat /\ MaxCount \in Nat

-----------------------------------------------------------------------------
(* Faults the code does not have, each of which breaks a property below. *)

\* The probes of the first step are not taken out of the remaining ones.
remaining_All == Probe

\* The first probe of the region is good enough.
Best_First(r) ==
  LET i == CHOOSE i \in DOMAIN knownProbes :
             /\ Region(knownProbes[i]) = r
             /\ \A j \in 1..(i - 1) : Region(knownProbes[j]) # r
  IN  knownProbes[i]

\* One probe more than there is room for.
Fill_OneMore ==
  /\ count < Len(knownProbes) /\ Len(regions) <= Len(result) /\ Len(result) <= count
  /\ \E p \in remaining_All \ ToSet(result) :
       /\ \A q \in remaining_All \ ToSet(result) : dist[p] <= dist[q]
       /\ result' = Append(result, p)
  /\ UNCHANGED <<dist, count>>

\* The copy is as long as the caller asks, with zero Probes behind the table.
TakeAll_Padded ==
  /\ count >= Len(knownProbes) /\ result = <<>>
  /\ result' = [i \in 1..count |-> IF i <= Len(knownProbes) THEN knownProbes[i] ELSE ""]
  /\ UNCHANGED <<dist, count>>

-----------------------------------------------------------------------------

Init ==
  /\ dist \in [Probe -> Distances]
  /\ count \in 1..MaxCount
  /\ result = <<>>

\* As many as there are, or more: the whole table in its order.
TakeAll ==
  /\ count >= Len(knownProbes) /\ result = <<>>
  /\ result' = knownProbes
  /\ UNCHANGED <<dist, count>>

\* The nearest probe of a region, the first in the table of several.
Best(r) ==
  LET here == {i \in DOMAIN knownProbes : Region(knownProbes[i]) = r}
      i == CHOOSE i \in here :
             \A j \in here : LET di == dist[knownProbes[i]]
                                 dj == dist[knownProbes[j]]
                             IN  di < dj \/ (di = dj /\ i <= j)
  IN  knownProbes[i]

PickFromRegion ==
  /\ count < Len(knownProbes) /\ Len(result) < Len(regions) /\ Len(result) < count
  /\ result' = Append(result, Best(regions[Len(result) + 1]))
  /\ UNCHANGED <<dist, count>>

remaining == Probe \ ToSet(result)

\* sort.Slice leaves equally near probes in any order.
Fill ==
  /\ count < Len(knownProbes) /\ Len(regions) <= Len(result) /\ Len(result) < count
  /\ \E p \in remaining : /\ \A q \in remaining : dist[p] <= dist[q]
                          /\ result' = Append(result, p)
  /\ UNCHANGED <<dist, count>>

Next == TakeAll \/ PickFromRegion \/ Fill

Spec == Init /\ [][Next]_vars

-----------------------------------------------------------------------------

Done == Len(result) >= count \/ Len(result) = Len(knownProbes)
Covered(probes) == {Region(p) : p \in probes}
Total(probes) == FoldSet(LAMBDA p, sum : dist[p] + sum, 0, probes)

TypeOK ==
  /\ dist \in [Probe -> Distances] /\ count \in 1..MaxCount
  /\ result \in Seq(Probe) /\ Len(result) <= Len(knownProbes)

\* A probe is measured once: its circle would otherwise count twice in the
\* confidence, and the map from IDs to probes has one entry for it.
NoDuplicates == IsInjective(result)

\* The caller gets as many probes as it asks for, while there are so many, and
\* FetchChallenge, which asks for at least one per region, one of each.
AskedIsGiven ==
  Done => /\ Len(result) = IF count < Len(knownProbes) THEN count ELSE Len(knownProbes)
          /\ count >= Len(regions) => Covered(ToSet(result)) = ToSet(regions)

\* Taking the nearest of each region and then the nearest of the rest is not
\* only greedy: of all sets of this size with a probe in every region, none is
\* nearer to the estimated location as a whole.
NoneIsNearer ==
  Done /\ count >= Len(regions) =>
    \A other \in SUBSET Probe :
      Cardinality(other) = Len(result) /\ Covered(other) = ToSet(regions)
        => Total(ToSet(result)) <= Total(other)
=============================================================================
