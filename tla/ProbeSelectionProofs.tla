------------------------ MODULE ProbeSelectionProofs ------------------------
(***************************************************************************)
(* Theorems about ProbeSelection for every table of probes, every place    *)
(* and every number of probes that is asked for.                           *)
(***************************************************************************)
EXTENDS ProbeSelection, FiniteSetTheorems, WellFoundedInduction, TLAPS

\* The probes of the regions are the nearest there, and no probe is left that is
\* nearer than one of the others.
Nearest ==
  \A i \in DOMAIN result :
    IF i <= Len(regions)
    THEN \A q \in Probe : Region(q) = Region(result[i]) => dist[result[i]] <= dist[q]
    ELSE \A q \in Probe \ ToSet(result) : dist[result[i]] <= dist[q]

\* The selection so far: the table, or probes of the regions in their order and
\* then others, none twice and not more than asked for.
InProgress ==
  /\ Len(result) <= count
  /\ IsInjective(result)
  /\ \A i \in DOMAIN result : i <= Len(regions) => Region(result[i]) = regions[i]
  /\ Nearest

Selected ==
  \/ count >= Len(knownProbes) /\ result \in {<<>>, knownProbes}
  \/ count < Len(knownProbes) /\ InProgress

IInv == TypeOK /\ Selected

-----------------------------------------------------------------------------
(* Induction and recursion on finite sets.  No lemma takes an operator as  *)
(* its parameter: a claim is the set of the sets that it holds of, and a   *)
(* recursion is given by functions.                                        *)

\* A non-empty set of naturals has a smallest member.
LEMMA SmallestMember ==
  ASSUME NEW S \in SUBSET Nat, S # {}
  PROVE  \E x \in S : \A y \in S : x <= y
<1>1. PICK x \in S : \A y \in S : ~(<<y, x>> \in OpToRel(<, Nat))
  BY NatLessThanWellFounded, WFMin
<1>2. \A y \in S : ~(y < x)
  <2>1. \A y \in S : y < x => <<y, x>> \in OpToRel(<, Nat)
    BY DEF OpToRel
  <2>2. QED
    BY <1>1, <2>1
<1>3. \A y \in S : x \in Nat /\ y \in Nat
  OBVIOUS
<1>4. QED
  BY <1>2, <1>3

\* A set of naturals with zero, and with every successor, has all of them.
LEMMA CountUp ==
  ASSUME NEW N \in SUBSET Nat, 0 \in N, \A n \in N : n + 1 \in N
  PROVE  \A n \in Nat : n \in N
<1> DEFINE Rest == Nat \ N
<1>1. SUFFICES ASSUME Rest # {} PROVE FALSE
  OBVIOUS
<1>2. PICK m \in Rest : \A n \in Rest : m <= n
  <2>1. Rest \in SUBSET Nat
    OBVIOUS
  <2> HIDE DEF Rest
  <2>2. QED
    BY <1>1, <2>1, SmallestMember
<1>3. m \in Nat /\ m # 0 /\ m - 1 \in Nat
  OBVIOUS
<1>4. m - 1 \in N
  BY <1>2, <1>3
<1>5. (m - 1) + 1 \in N
  BY <1>4
<1>6. QED
  BY <1>3, <1>5

\* Taking an element away makes a finite set one smaller.
LEMMA OneLess ==
  ASSUME NEW T, IsFiniteSet(T), NEW x \in T
  PROVE  /\ IsFiniteSet(T \ {x})
         /\ Cardinality(T) \in Nat /\ Cardinality(T \ {x}) = Cardinality(T) - 1
BY FS_RemoveElement, FS_CardinalityType

\* What holds of the empty set, and of a set whenever it holds without some
\* element of it, holds of all finite sets.
LEMMA SubsetInduction ==
  ASSUME NEW S, IsFiniteSet(S), NEW Good, {} \in Good,
         \A T \in SUBSET S : T # {} => \E x \in T : T \ {x} \in Good => T \in Good
  PROVE  \A T \in SUBSET S : T \in Good
<1> DEFINE N == {n \in Nat : \A T \in SUBSET S : Cardinality(T) = n => T \in Good}
<1>1. \A T \in SUBSET S : IsFiniteSet(T) /\ Cardinality(T) \in Nat
  BY FS_Subset, FS_CardinalityType
<1>2. 0 \in N
  BY <1>1, FS_EmptySet
<1>3. ASSUME NEW n \in N PROVE n + 1 \in N
  <2>1. SUFFICES ASSUME NEW T \in SUBSET S, Cardinality(T) = n + 1 PROVE T \in Good
    OBVIOUS
  <2>2. T # {}
    <3>1. n \in Nat /\ n + 1 # 0
      OBVIOUS
    <3>2. QED
      BY <2>1, <3>1, FS_EmptySet
  <2>3. PICK x \in T : T \ {x} \in Good => T \in Good
    BY <2>2
  <2>4. Cardinality(T \ {x}) = n /\ T \ {x} \in SUBSET S
    BY <1>1, <2>1, OneLess
  <2>5. QED
    BY <2>3, <2>4
<1>4. \A n \in Nat : n \in N
  <2> HIDE DEF N
  <2>1. N \in SUBSET Nat
    BY DEF N
  <2>2. QED
    BY <2>1, <1>2, <1>3, CountUp
<1>5. QED
  BY <1>1, <1>4

\* An element of every set of indices but the empty one, and the recursion that
\* takes these elements away one at a time.
Chooses(chosen, S) == \A T \in SUBSET S : T # {} => chosen[T] \in T

Recurs(g, S, base, step, chosen) ==
  /\ g[{}] = base
  /\ \A T \in SUBSET S : T # {} => g[T] = step[<<chosen[T], g[T \ {chosen[T]}]>>]

\* It has a solution.
LEMMA RecursionExists ==
  ASSUME NEW S, IsFiniteSet(S), NEW D, NEW base \in D, NEW step \in [S \X D -> D],
         NEW chosen, Chooses(chosen, S)
  PROVE  \E g \in [SUBSET S -> D] : Recurs(g, S, base, step, chosen)
<1> USE DEF Chooses
<1> DEFINE Next1(g) == [T \in SUBSET S |->
                          IF T = {} THEN base ELSE step[<<chosen[T], g[T \ {chosen[T]}]>>]]
           Upto(n) == {T \in SUBSET S : Cardinality(T) <= n}
           N == {n \in Nat : \E g \in [SUBSET S -> D] : \A T \in Upto(n) : g[T] = Next1(g)[T]}
<1>1. \A T \in SUBSET S : IsFiniteSet(T) /\ Cardinality(T) \in Nat
  BY FS_Subset, FS_CardinalityType
<1>2. ASSUME NEW g \in [SUBSET S -> D] PROVE Next1(g) \in [SUBSET S -> D]
  <2>1. ASSUME NEW T \in SUBSET S, T # {}
        PROVE  step[<<chosen[T], g[T \ {chosen[T]}]>>] \in D
    <3>1. chosen[T] \in S /\ g[T \ {chosen[T]}] \in D
      BY <2>1, <1>2
    <3>2. QED
      BY <3>1
  <2>2. QED
    BY <2>1
<1>3. 0 \in N
  <2>1. \A T \in Upto(0) : T = {}
    BY <1>1, FS_EmptySet
  <2>2. [T \in SUBSET S |-> base] \in [SUBSET S -> D]
    OBVIOUS
  <2>3. QED
    BY <2>1, <2>2
<1>4. ASSUME NEW n \in N PROVE n + 1 \in N
  <2>1. PICK g \in [SUBSET S -> D] : \A T \in Upto(n) : g[T] = Next1(g)[T]
    OBVIOUS
  <2> DEFINE h == Next1(g)
  <2>2. h \in [SUBSET S -> D]
    BY <1>2
  <2>3. ASSUME NEW T \in Upto(n + 1) PROVE h[T] = Next1(h)[T]
    <3>1. CASE T = {}
      BY <3>1
    <3>2. CASE T # {}
      <4> DEFINE x == chosen[T]
      <4>1. x \in T /\ T \ {x} \in SUBSET S /\ Cardinality(T \ {x}) = Cardinality(T) - 1
        BY <1>1, <3>2, OneLess
      <4>2. T \ {x} \in Upto(n)
        BY <1>1, <4>1
      <4>3. h[T \ {x}] = g[T \ {x}]
        <5> HIDE DEF x
        <5> QED
          BY <2>1, <4>1, <4>2
      <4>4. QED
        BY <3>2, <4>1, <4>3
    <3>3. QED
      BY <3>1, <3>2
  <2>4. QED
    <3> HIDE DEF h, Next1
    <3> QED
      BY <2>2, <2>3
<1>5. Cardinality(S) \in N
  <2> HIDE DEF N
  <2>1. N \in SUBSET Nat
    BY DEF N
  <2>2. QED
    BY <2>1, <1>1, <1>3, <1>4, CountUp
<1>6. PICK g \in [SUBSET S -> D] : \A T \in Upto(Cardinality(S)) : g[T] = Next1(g)[T]
  BY <1>5
<1>7. \A T \in SUBSET S : T \in Upto(Cardinality(S))
  BY <1>1, FS_Subset
<1>8. g = Next1(g)
  <2> HIDE DEF Upto
  <2> QED
    BY <1>6, <1>7
<1>9. QED
  <2> HIDE DEF N, Upto
  <2> QED
    BY <1>8 DEF Recurs

-----------------------------------------------------------------------------

\* Best is a CHOOSE: a region has a nearest probe, and it is one of the region.
LEMMA BestOfRegion ==
  ASSUME TypeOK, NEW r \in ToSet(regions)
  PROVE  /\ Best(r) \in Probe /\ Region(Best(r)) = r
         /\ \A q \in Probe : Region(q) = r => dist[Best(r)] <= dist[q]
<1> DEFINE here == {i \in DOMAIN knownProbes : Region(knownProbes[i]) = r}
           d(i) == dist[knownProbes[i]]
           First(i) == \A j \in here : d(i) < d(j) \/ (d(i) = d(j) /\ i <= j)
<1>1. here \subseteq Nat /\ \A i \in here : knownProbes[i] \in Probe /\ d(i) \in Nat
  <2>1. /\ DOMAIN knownProbes = 1..Len(knownProbes) /\ Len(knownProbes) \in Nat
        /\ \A i \in DOMAIN knownProbes : knownProbes[i] \in Probe
    BY TableAssumption
  <2>2. \A p \in Probe : dist[p] \in Nat
    BY TableAssumption DEF TypeOK
  <2>3. QED
    BY <2>1, <2>2
<1>2. here # {}
  <2>1. PICK p \in Probe : Region(p) = r
    BY TableAssumption
  <2>2. QED
    BY <2>1 DEF Probe, ToSet
<1>3. PICK m \in here : \A j \in here : d(m) <= d(j)
  <2> DEFINE distances == {d(i) : i \in here}
  <2>1. distances \in SUBSET Nat /\ distances # {}
    BY <1>1, <1>2
  <2>2. \E x \in distances : \A y \in distances : x <= y
    <3> HIDE DEF distances
    <3> QED
      BY <2>1, SmallestMember
  <2>3. QED
    BY <2>2
<1>4. \E i \in here : First(i)
  <2> DEFINE nearest == {i \in here : d(i) = d(m)}
  <2>1. nearest \in SUBSET Nat /\ nearest # {}
    BY <1>1
  <2>2. PICK i \in nearest : \A j \in nearest : i <= j
    <3> HIDE DEF nearest
    <3> QED
      BY <2>1, SmallestMember
  <2>3. ASSUME NEW j \in here PROVE d(i) < d(j) \/ (d(i) = d(j) /\ i <= j)
    <3>1. d(i) = d(m) /\ d(m) <= d(j) /\ d(m) \in Nat /\ d(j) \in Nat
      BY <1>1, <1>3
    <3>2. CASE d(j) = d(m)
      BY <2>2, <3>1, <3>2
    <3>3. CASE d(j) # d(m)
      BY <3>1, <3>3
    <3>4. QED
      BY <3>2, <3>3
  <2>4. QED
    BY <2>3
<1> DEFINE i == CHOOSE i \in here : First(i)
<1>5. i \in here /\ First(i)
  BY <1>4
<1>6. Best(r) = knownProbes[i]
  BY DEF Best
<1>7. ASSUME NEW q \in Probe, Region(q) = r PROVE dist[Best(r)] <= dist[q]
  <2>1. PICK j \in DOMAIN knownProbes : q = knownProbes[j]
    BY DEF Probe, ToSet
  <2>2. j \in here /\ d(i) \in Nat /\ d(j) \in Nat
    BY <1>1, <1>5, <1>7, <2>1
  <2>3. d(i) <= d(j)
    <3>1. d(i) < d(j) \/ d(i) = d(j)
      BY <1>5, <2>2
    <3> HIDE DEF d, i
    <3>2. QED
      BY <2>2, <3>1
  <2>4. QED
    BY <1>6, <2>1, <2>3
<1>8. QED
  BY <1>1, <1>5, <1>6, <1>7

\* One more probe: another one, of the region whose turn it is.
LEMMA OneMore ==
  ASSUME TypeOK, InProgress, Len(result) < count, count < Len(knownProbes),
         NEW p \in Probe \ ToSet(result), result' = Append(result, p),
         UNCHANGED <<dist, count>>,
         Len(result) < Len(regions) =>
           /\ Region(p) = regions[Len(result) + 1]
           /\ \A q \in Probe : Region(q) = Region(p) => dist[p] <= dist[q],
         ~(Len(result) < Len(regions)) => \A q \in Probe \ ToSet(result) : dist[p] <= dist[q]
  PROVE  IInv'
<1>1. /\ Len(result) \in Nat /\ Len(knownProbes) \in Nat /\ count \in Nat
      /\ Len(regions) \in Nat /\ result \in Seq(Probe)
  BY TableAssumption DEF TypeOK
<1>2. /\ result' \in Seq(Probe) /\ Len(result') = Len(result) + 1
      /\ DOMAIN result' = 1..(Len(result) + 1) /\ DOMAIN result = 1..Len(result)
      /\ result'[Len(result) + 1] = p /\ \A i \in 1..Len(result) : result'[i] = result[i]
  BY <1>1
<1>3. TypeOK'
  BY <1>1, <1>2 DEF TypeOK
<1>4. IsInjective(result')
  BY <1>1, <1>2 DEF InProgress, IsInjective, ToSet
<1>5. \A i \in DOMAIN result' : i <= Len(regions) => Region(result'[i]) = regions[i]
  BY <1>1, <1>2 DEF InProgress
<1>6. Nearest'
  <2>1. SUFFICES ASSUME NEW i \in 1..(Len(result) + 1)
                 PROVE  IF i <= Len(regions)
                        THEN \A q \in Probe : Region(q) = Region(result'[i]) =>
                               dist[result'[i]] <= dist[q]
                        ELSE \A q \in Probe \ ToSet(result') : dist[result'[i]] <= dist[q]
    BY <1>2 DEF Nearest
  <2>2. CASE i = Len(result) + 1
    <3>1. ToSet(result) \subseteq ToSet(result')
      BY <1>1, <1>2 DEF ToSet
    <3>2. i <= Len(regions) <=> Len(result) < Len(regions)
      BY <1>1, <2>2
    <3>3. QED
      BY <1>2, <2>2, <3>1, <3>2
  <2>3. CASE i \in 1..Len(result)
    <3>1. ToSet(result) \subseteq ToSet(result')
      BY <1>1, <1>2 DEF ToSet
    <3>2. QED
      BY <1>2, <2>3, <3>1 DEF InProgress, Nearest
  <2>4. QED
    BY <1>1, <2>2, <2>3
<1>7. QED
  BY <1>1, <1>2, <1>3, <1>4, <1>5, <1>6 DEF IInv, Selected, InProgress

\* Nothing is selected at first.
LEMMA InitIInv == Init => IInv
<1> SUFFICES ASSUME Init PROVE IInv
  OBVIOUS
<1>1. /\ Len(knownProbes) \in Nat /\ result = <<>> /\ result \in Seq(Probe) /\ Len(result) = 0
      /\ DOMAIN result = {} /\ count \in Nat /\ count >= 1
  BY TableAssumption DEF Init
<1>2. TypeOK
  BY <1>1 DEF Init, TypeOK
<1>3. Selected
  BY <1>1 DEF Selected, InProgress, Nearest, IsInjective
<1>4. QED
  BY <1>2, <1>3 DEF IInv

\* Every step keeps the invariant.
LEMMA NextIInv == IInv /\ [Next]_vars => IInv'
<1> SUFFICES ASSUME IInv, [Next]_vars PROVE IInv'
  OBVIOUS
<1>0. /\ TypeOK /\ Len(knownProbes) \in Nat /\ count \in Nat /\ Len(result) \in Nat
      /\ Len(regions) \in Nat /\ result \in Seq(Probe)
  BY TableAssumption DEF IInv, TypeOK
<1>1. CASE TakeAll
  BY <1>0, <1>1, TableAssumption DEF TakeAll, IInv, TypeOK, Selected
<1>2. CASE PickFromRegion
  <2>1. /\ InProgress /\ Len(result) < count /\ count < Len(knownProbes)
        /\ Len(result) < Len(regions) /\ UNCHANGED <<dist, count>>
    BY <1>0, <1>2 DEF PickFromRegion, IInv, Selected
  <2> DEFINE k == Len(result) + 1
             p == Best(regions[k])
  <2>2. k \in DOMAIN regions /\ regions[k] \in ToSet(regions)
    BY <1>0, <2>1, TableAssumption DEF ToSet
  <2>3. /\ p \in Probe /\ Region(p) = regions[k]
        /\ \A q \in Probe : Region(q) = Region(p) => dist[p] <= dist[q]
    BY <1>0, <2>2, BestOfRegion
  <2>4. ASSUME NEW i \in DOMAIN result PROVE result[i] # p
    <3>1. i \in DOMAIN regions /\ i # k /\ Region(result[i]) = regions[i]
      BY <1>0, <2>1, TableAssumption DEF InProgress
    <3>2. QED
      BY <2>2, <2>3, <3>1, TableAssumption DEF IsInjective
  <2>5. p \notin ToSet(result) /\ result' = Append(result, p)
    BY <1>2, <2>4 DEF PickFromRegion, ToSet
  <2>6. QED
    BY <1>0, <2>1, <2>3, <2>5, OneMore
<1>3. CASE Fill
  <2>1. /\ InProgress /\ Len(result) < count /\ count < Len(knownProbes)
        /\ Len(regions) <= Len(result) /\ UNCHANGED <<dist, count>>
    BY <1>0, <1>3 DEF Fill, IInv, Selected
  <2>2. PICK p \in Probe \ ToSet(result) :
          /\ \A q \in Probe \ ToSet(result) : dist[p] <= dist[q]
          /\ result' = Append(result, p)
    BY <1>3 DEF Fill, remaining
  <2>3. QED
    BY <1>0, <2>1, <2>2, OneMore
<1>4. CASE UNCHANGED vars
  BY <1>4 DEF vars, IInv, TypeOK, Selected, InProgress, Nearest
<1>5. QED
  BY <1>1, <1>2, <1>3, <1>4 DEF Next

\* The selection is always one that the code can be making.
THEOREM Invariance == Spec => []IInv
<1>1. QED
  BY InitIInv, NextIInv, PTL DEF Spec

\* What is selected are probes of the table, and no more than it has.
THEOREM TypeCorrect == Spec => []TypeOK
<1>1. IInv => TypeOK
  BY DEF IInv
<1>2. QED
  BY Invariance, <1>1, PTL

\* The nearest probe of a region and the fill from the rest never meet in the
\* same probe (challenge.go:228).
THEOREM SelectedOnce == Spec => []NoDuplicates
<1>1. IInv => NoDuplicates
  BY TableAssumption DEF IInv, Selected, InProgress, NoDuplicates, IsInjective
<1>2. QED
  BY Invariance, <1>1, PTL

\* The caller gets the number it asked for, and one of each region if that is
\* enough.
THEOREM AskedAreGiven == Spec => []AskedIsGiven
<1>1. ASSUME IInv, Done PROVE AskedIsGiven
  <2>0. /\ Len(knownProbes) \in Nat /\ count \in Nat /\ count >= 1 /\ Len(result) \in Nat
        /\ Len(regions) \in Nat /\ result \in Seq(Probe) /\ DOMAIN result = 1..Len(result)
        /\ knownProbes \in Seq(Probe) /\ Len(<<>>) = 0
    BY <1>1, TableAssumption DEF IInv, TypeOK
  <2>1. CASE count >= Len(knownProbes)
    <3>1. result = knownProbes
      BY <1>1, <2>0, <2>1 DEF IInv, Selected, Done
    <3>2. Covered(ToSet(result)) = ToSet(regions)
      BY <3>1, TableAssumption DEF Covered, Probe
    <3>3. Len(result) = Len(knownProbes) /\ ~(count < Len(knownProbes))
      BY <2>0, <2>1, <3>1
    <3>4. QED
      BY <3>2, <3>3 DEF AskedIsGiven
  <2>2. CASE count < Len(knownProbes)
    <3>1. Len(result) = count /\ InProgress
      <4>1. InProgress
        BY <1>1, <2>0, <2>2 DEF IInv, Selected
      <4>2. Len(result) <= count
        BY <4>1 DEF InProgress
      <4>3. Len(result) >= count \/ Len(result) = Len(knownProbes)
        BY <1>1 DEF Done
      <4>4. Len(result) \in Nat /\ count \in Nat /\ Len(knownProbes) \in Nat
        BY <2>0
      <4>5. Len(result) = count
        BY <2>2, <4>2, <4>3, <4>4
      <4>6. QED
        BY <4>1, <4>5
    <3>2. ToSet(result) \subseteq Probe
      BY <2>0 DEF ToSet
    <3>3. Covered(ToSet(result)) \subseteq ToSet(regions)
      BY <3>2, TableAssumption DEF Covered
    <3>4. ASSUME count >= Len(regions), NEW r \in ToSet(regions)
          PROVE  r \in Covered(ToSet(result))
      <4>1. PICK i \in DOMAIN regions : r = regions[i]
        BY DEF ToSet
      <4>2. i \in 1..Len(regions)
        BY TableAssumption
      <4>3. i \in DOMAIN result /\ Region(result[i]) = r
        BY <2>0, <3>1, <3>4, <4>1, <4>2 DEF InProgress
      <4>4. QED
        BY <4>3 DEF Covered, ToSet
    <3>5. QED
      BY <2>0, <2>2, <3>1, <3>3, <3>4 DEF AskedIsGiven
  <2>3. QED
    BY <2>0, <2>1, <2>2
<1>2. IInv => AskedIsGiven
  BY <1>1 DEF AskedIsGiven
<1>3. QED
  BY Invariance, <1>2, PTL

-----------------------------------------------------------------------------
(* NoneIsNearer: another set of probes, one of each region and as many, is *)
(* turned into the selection probe by probe, and never becomes farther.    *)

\* A sequence without duplicates has as many members as its length.
LEMMA AsManyMembers ==
  ASSUME NEW s \in Seq(Probe), IsInjective(s)
  PROVE  IsFiniteSet(ToSet(s)) /\ Cardinality(ToSet(s)) = Len(s)
<1>1. Len(s) \in Nat /\ DOMAIN s = 1..Len(s)
  OBVIOUS
<1> DEFINE f == [i \in 1..Len(s) |-> s[i]]
<1>2. f \in Bijection(1..Len(s), ToSet(s))
  <2>1. f \in [1..Len(s) -> ToSet(s)]
    BY <1>1 DEF ToSet
  <2>2. \A i, j \in 1..Len(s) : f[i] = f[j] => i = j
    BY <1>1 DEF IsInjective
  <2>3. \A p \in ToSet(s) : \E i \in 1..Len(s) : f[i] = p
    BY <1>1 DEF ToSet
  <2> HIDE DEF f
  <2>4. QED
    BY <2>1, <2>2, <2>3 DEF Bijection, Injection, Surjection, IsInjective
<1>3. IsFiniteSet(1..Len(s)) /\ Cardinality(1..Len(s)) = Len(s)
  BY <1>1, FS_Interval
<1>4. ExistsBijection(1..Len(s), ToSet(s))
  BY <1>2 DEF ExistsBijection
<1>5. QED
  BY <1>3, <1>4, FS_Bijection

\* A recursion that is given by the distances.
AddsUp(g, S, chosen) ==
  /\ g[{}] = 0
  /\ \A T \in SUBSET S : T # {} => g[T] = dist[chosen[T]] + g[T \ {chosen[T]}]

\* Total is such a recursion: one function has the totals of all sets of probes.
LEMMA TotalRecurs ==
  ASSUME TypeOK
  PROVE  \E chosen, g : /\ Chooses(chosen, Probe) /\ AddsUp(g, Probe, chosen)
                        /\ g \in [SUBSET Probe -> Nat]
                        /\ \A S \in SUBSET Probe : Total(S) = g[S]
<1>1. IsFiniteSet(Probe) /\ \A p \in Probe : dist[p] \in Nat
  BY AsManyMembers, TableAssumption DEF Probe, TypeOK
<1> DEFINE pick(T) == CHOOSE p \in T : TRUE
           chosen == [T \in SUBSET Probe |-> pick(T)]
           step == [x \in Probe \X Nat |-> dist[x[1]] + x[2]]
<1>2. \A T : T # {} => pick(T) \in T
  OBVIOUS
<1>3. Chooses(chosen, Probe)
  BY <1>2 DEF Chooses
<1>4. PICK g \in [SUBSET Probe -> Nat] : Recurs(g, Probe, 0, step, chosen)
  <2>1. step \in [Probe \X Nat -> Nat]
    BY <1>1
  <2> HIDE DEF step, chosen
  <2>2. QED
    BY <1>1, <1>3, <2>1, RecursionExists
<1>5. ASSUME NEW T \in SUBSET Probe, T # {}
      PROVE  g[T] = dist[pick(T)] + g[T \ {pick(T)}]
  <2>1. pick(T) \in Probe /\ g[T \ {pick(T)}] \in Nat
    BY <1>2, <1>5
  <2>2. g[T] = step[<<pick(T), g[T \ {pick(T)}]>>]
    BY <1>4, <1>5 DEF Recurs
  <2> HIDE DEF pick
  <2>3. QED
    BY <2>1, <2>2
<1>6. g[{}] = 0
  BY <1>4 DEF Recurs
<1>7. AddsUp(g, Probe, chosen)
  BY <1>5, <1>6 DEF AddsUp
<1>8. ASSUME NEW S \in SUBSET Probe PROVE Total(S) = g[S]
  <2> DEFINE Folds(f) == f = [T \in SUBSET S |->
                                IF T = {} THEN 0 ELSE dist[pick(T)] + f[T \ {pick(T)}]]
             f == CHOOSE f : Folds(f)
  <2>1. Total(S) = f[S]
    BY DEF Total, FoldSet, MapThenFoldSet
  <2>2. Folds(f)
    <3> DEFINE h == [T \in SUBSET S |-> g[T]]
    <3>1. Folds(h)
      <4>1. ASSUME NEW T \in SUBSET S
            PROVE  h[T] = IF T = {} THEN 0 ELSE dist[pick(T)] + h[T \ {pick(T)}]
        <5>1. T \in SUBSET Probe /\ T \ {pick(T)} \in SUBSET S
          OBVIOUS
        <5>2. h[T] = g[T] /\ h[T \ {pick(T)}] = g[T \ {pick(T)}]
          BY <5>1
        <5> HIDE DEF pick, h
        <5>3. QED
          BY <1>5, <1>6, <5>1, <5>2
      <4> HIDE DEF pick
      <4>2. QED
        BY <4>1
    <3> HIDE DEF Folds, h
    <3>2. QED
      BY <3>1
  <2> DEFINE Good == {T \in SUBSET S : f[T] = g[T]}
  <2>3. {} \in Good
    <3>1. f[{}] = 0
      BY <2>2
    <3> HIDE DEF f
    <3>2. QED
      BY <1>6, <3>1
  <2>4. ASSUME NEW T \in SUBSET S, T # {}
        PROVE  \E x \in T : T \ {x} \in Good => T \in Good
    <3>1. pick(T) \in T /\ T \in SUBSET Probe
      BY <1>2, <2>4
    <3>2. f[T] = dist[pick(T)] + f[T \ {pick(T)}]
      BY <2>2, <2>4
    <3> HIDE DEF f, pick
    <3>3. QED
      BY <1>5, <2>4, <3>1, <3>2
  <2>5. S \in Good
    <3>1. IsFiniteSet(S)
      BY <1>1, FS_Subset
    <3> HIDE DEF Good, f, Folds
    <3>2. \A T \in SUBSET S : T # {} => \E x \in T : T \ {x} \in Good => T \in Good
      BY <2>4
    <3>3. \A T \in SUBSET S : T \in Good
      BY <2>3, <3>1, <3>2, SubsetInduction
    <3>4. QED
      BY <3>3
  <2>6. QED
    BY <2>1, <2>5
<1>9. QED
  <2> HIDE DEF chosen
  <2> QED
    BY <1>3, <1>7, <1>8

\* What a set adds up to is its total less any of its probes, and that probe:
\* the order in which the fold takes them does not matter.
LEMMA TotalOfRest ==
  ASSUME TypeOK, NEW S \in SUBSET Probe
  PROVE  /\ Total(S) \in Nat
         /\ \A x \in S : dist[x] \in Nat /\ Total(S) = dist[x] + Total(S \ {x})
<1>1. PICK chosen, g : /\ Chooses(chosen, Probe) /\ AddsUp(g, Probe, chosen)
                       /\ g \in [SUBSET Probe -> Nat]
                       /\ \A T \in SUBSET Probe : Total(T) = g[T]
  BY TotalRecurs
<1>2. IsFiniteSet(Probe) /\ \A p \in Probe : dist[p] \in Nat
  BY AsManyMembers, TableAssumption DEF Probe, TypeOK
<1>3. \A T \in SUBSET Probe : g[T] \in Nat /\ IsFiniteSet(T) /\ Cardinality(T) \in Nat
  BY <1>1, <1>2, FS_Subset, FS_CardinalityType
<1> DEFINE AnyLast(T) == \A x \in T : g[T] = dist[x] + g[T \ {x}]
           N == {n \in Nat : \A T \in SUBSET Probe : Cardinality(T) = n => AnyLast(T)}
<1>4. 0 \in N
  BY <1>3, FS_EmptySet
<1>5. ASSUME NEW n \in N PROVE n + 1 \in N
  <2>1. SUFFICES ASSUME NEW T \in SUBSET Probe, Cardinality(T) = n + 1, NEW x \in T
                 PROVE  g[T] = dist[x] + g[T \ {x}]
    OBVIOUS
  <2> DEFINE y == chosen[T]
  <2>2. y \in T /\ g[T] = dist[y] + g[T \ {y}]
    BY <1>1 DEF Chooses, AddsUp
  <2>3. CASE x = y
    BY <2>2, <2>3
  <2>4. CASE x # y
    <3>1. /\ T \ {x} \in SUBSET Probe /\ Cardinality(T \ {x}) = n
          /\ T \ {y} \in SUBSET Probe /\ Cardinality(T \ {y}) = n
      BY <1>3, <2>1, <2>2, OneLess
    <3> HIDE DEF y
    <3>2. AnyLast(T \ {x}) /\ AnyLast(T \ {y})
      BY <3>1
    <3>3. y \in T \ {x} /\ x \in T \ {y} /\ (T \ {x}) \ {y} = (T \ {y}) \ {x}
      BY <2>2, <2>4
    <3>4. /\ g[T \ {x}] = dist[y] + g[(T \ {x}) \ {y}]
          /\ g[T \ {y}] = dist[x] + g[(T \ {x}) \ {y}]
      BY <3>2, <3>3
    <3>5. /\ dist[x] \in Nat /\ dist[y] \in Nat
          /\ (T \ {x}) \ {y} \in SUBSET Probe /\ g[(T \ {x}) \ {y}] \in Nat
      BY <1>2, <1>3, <2>2
    <3>6. QED
      BY <2>2, <3>4, <3>5
  <2>5. QED
    BY <2>3, <2>4
<1>6. AnyLast(S)
  <2>1. \A n \in Nat : n \in N
    <3> HIDE DEF N
    <3>1. N \in SUBSET Nat
      BY DEF N
    <3>2. QED
      BY <3>1, <1>4, <1>5, CountUp
  <2>2. QED
    BY <2>1, <1>3
<1>7. QED
  <2>1. \A x \in S : S \ {x} \in SUBSET Probe
    OBVIOUS
  <2>2. QED
    BY <1>1, <1>2, <1>3, <1>6, <2>1

\* A probe in the place of one that is not nearer.
LEMMA Swap ==
  ASSUME TypeOK, NEW other \in SUBSET Probe, NEW q \in other,
         NEW p \in Probe \ other, dist[p] <= dist[q]
  PROVE  LET swapped == (other \ {q}) \union {p}
         IN  /\ Cardinality(swapped) = Cardinality(other)
             /\ Total(swapped) <= Total(other)
<1> DEFINE swapped == (other \ {q}) \union {p}
<1>1. swapped \in SUBSET Probe /\ p \in swapped /\ swapped \ {p} = other \ {q}
  OBVIOUS
<1>2. /\ Total(swapped) = dist[p] + Total(other \ {q}) /\ Total(other \ {q}) \in Nat
      /\ Total(other) = dist[q] + Total(other \ {q}) /\ dist[p] \in Nat /\ dist[q] \in Nat
  <2> HIDE DEF swapped
  <2>1. other \ {q} \in SUBSET Probe
    OBVIOUS
  <2>2. QED
    BY <1>1, <2>1, TotalOfRest
<1>3. IsFiniteSet(other)
  BY AsManyMembers, TableAssumption, FS_Subset DEF Probe
<1>4. IsFiniteSet(other \ {q}) /\ Cardinality(other \ {q}) = Cardinality(other) - 1
      /\ Cardinality(other) \in Nat
  BY <1>3, OneLess
<1>5. Cardinality(swapped) = Cardinality(other)
  <2>1. Cardinality(swapped) = Cardinality(other \ {q}) + 1
    BY <1>4, FS_AddElement
  <2> HIDE DEF swapped
  <2>2. QED
    BY <1>4, <2>1
<1>6. Total(swapped) <= Total(other)
  <2> HIDE DEF swapped
  <2> QED
    BY <1>2
<1>7. QED
  BY <1>5, <1>6

\* The sets that the selection is compared with, the probes that it took for
\* their regions, and how much of both is missing in such a set.
Rival(other) ==
  /\ other \in SUBSET Probe
  /\ Cardinality(other) = Len(result) /\ Covered(other) = ToSet(regions)

OfRegions == {result[i] : i \in 1..Len(regions)}

Away(other) ==
  Cardinality(ToSet(result) \ other) + Cardinality(OfRegions \ other)

\* A rival that is not the selection can come nearer to it, and then it is not
\* farther from the estimated location than it was.
LEMMA Exchange ==
  ASSUME TypeOK, InProgress, Len(regions) <= Len(result),
         NEW other, Rival(other), other # ToSet(result)
  PROVE  \E swapped : /\ Rival(swapped) /\ Total(swapped) <= Total(other)
                      /\ Away(swapped) < Away(other)
<1> DEFINE R == ToSet(result)
           B == OfRegions
           swap(q, p) == (other \ {q}) \union {p}
<1>1. /\ Len(result) \in Nat /\ Len(regions) \in Nat /\ DOMAIN result = 1..Len(result)
      /\ DOMAIN regions = 1..Len(regions)
      /\ R \subseteq Probe /\ B \subseteq R /\ other \in SUBSET Probe
  <2>1. Len(result) \in Nat /\ Len(regions) \in Nat /\ result \in Seq(Probe)
    BY TableAssumption DEF TypeOK
  <2>2. DOMAIN result = 1..Len(result) /\ DOMAIN regions = 1..Len(regions)
    BY <2>1, TableAssumption
  <2>3. QED
    BY <2>1, <2>2 DEF ToSet, OfRegions, Rival
<1>2. /\ \A p \in Probe : dist[p] \in Nat
      /\ IsFiniteSet(R) /\ Cardinality(R) = Len(result)
      /\ IsFiniteSet(R \ other) /\ IsFiniteSet(B \ other) /\ IsFiniteSet(other)
  <2>1. \A p \in Probe : dist[p] \in Nat
    BY TableAssumption DEF TypeOK
  <2>2. IsFiniteSet(R) /\ Cardinality(R) = Len(result)
    BY AsManyMembers DEF TypeOK, InProgress
  <2>3. IsFiniteSet(other)
    BY <1>1, AsManyMembers, TableAssumption, FS_Subset DEF Probe
  <2>4. R \ other \in SUBSET R /\ B \ other \in SUBSET R
    BY <1>1
  <2> HIDE DEF R, B
  <2>5. QED
    BY <2>1, <2>2, <2>3, <2>4, FS_Subset
<1>3. \A b \in B : Region(b) \in ToSet(regions) /\ \A q \in Probe : Region(q) = Region(b) => dist[b] <= dist[q]
  BY <1>1 DEF OfRegions, InProgress, Nearest, ToSet
<1>4. \A b, c \in B : Region(b) = Region(c) => b = c
  BY <1>1, TableAssumption DEF OfRegions, InProgress, IsInjective
<1>5. \A r \in ToSet(regions) : \E b \in B : Region(b) = r
  BY <1>1 DEF OfRegions, InProgress, ToSet
<1>6. \A f \in R \ B : \A q \in Probe \ R : dist[f] <= dist[q]
  BY <1>1 DEF OfRegions, InProgress, Nearest, ToSet
\* A swap is a rival if no region loses its last probe.
<1>7. ASSUME NEW q \in other, NEW p \in Probe \ other, dist[p] <= dist[q],
             \E c \in swap(q, p) : Region(c) = Region(q)
      PROVE  Rival(swap(q, p)) /\ Total(swap(q, p)) <= Total(other)
  <2>1. Cardinality(swap(q, p)) = Cardinality(other) /\ Total(swap(q, p)) <= Total(other)
    BY <1>1, <1>7, Swap
  <2>2. Covered(swap(q, p)) \subseteq ToSet(regions)
    BY <1>1, TableAssumption DEF Covered
  <2>3. ASSUME NEW r \in ToSet(regions) PROVE r \in Covered(swap(q, p))
    <3>1. PICK c \in other : r = Region(c)
      BY DEF Rival, Covered
    <3>2. c = q \/ c \in swap(q, p)
      OBVIOUS
    <3>3. QED
      BY <1>7, <3>1, <3>2 DEF Covered
  <2>4. swap(q, p) \in SUBSET Probe
    BY <1>1
  <2> HIDE DEF swap
  <2>5. QED
    BY <2>1, <2>2, <2>3, <2>4 DEF Rival
<1>8. CASE \E b \in B : b \notin other
  <2>1. PICK b \in B : b \notin other
    BY <1>8
  <2>2. PICK q \in other : Region(q) = Region(b)
    BY <1>3, <2>1 DEF Rival, Covered
  <2>3. q \notin B /\ b \in Probe \ other /\ dist[b] <= dist[q]
    BY <1>1, <1>3, <1>4, <2>1, <2>2
  <2>4. b \in swap(q, b) /\ Region(b) = Region(q)
    BY <2>2
  <2>5. Rival(swap(q, b)) /\ Total(swap(q, b)) <= Total(other)
    <3> HIDE DEF swap, R, B
    <3> QED
      BY <1>7, <2>2, <2>3, <2>4
  <2>6. B \ swap(q, b) = (B \ other) \ {b} /\ b \in B \ other
    BY <2>1, <2>3
  <2>7. /\ Cardinality(B \ swap(q, b)) = Cardinality(B \ other) - 1
        /\ Cardinality(B \ other) \in Nat
    <3> HIDE DEF swap, B
    <3> QED
      BY <1>2, <2>6, OneLess
  <2>8. /\ Cardinality(R \ swap(q, b)) <= Cardinality(R \ other)
        /\ Cardinality(R \ swap(q, b)) \in Nat /\ Cardinality(R \ other) \in Nat
    <3>1. b \in R \ other /\ q \notin (R \ other) \ {b}
      BY <1>1, <2>1
    <3>2. /\ IsFiniteSet((R \ other) \ {b}) /\ Cardinality(R \ other) \in Nat
          /\ Cardinality((R \ other) \ {b}) = Cardinality(R \ other) - 1
      <4> HIDE DEF R
      <4> QED
        BY <1>2, <3>1, OneLess
    <3>3. CASE q \in R
      <4>1. R \ swap(q, b) = ((R \ other) \ {b}) \union {q}
        BY <2>2, <2>3, <3>1, <3>3
      <4> HIDE DEF R, swap
      <4>2. QED
        <5>1. Cardinality(((R \ other) \ {b}) \union {q}) = Cardinality((R \ other) \ {b}) + 1
          BY <3>1, <3>2, FS_AddElement
        <5>2. Cardinality(R \ swap(q, b)) = Cardinality((R \ other) \ {b}) + 1
          BY <4>1, <5>1
        <5>3. QED
          BY <3>2, <5>2
    <3>4. CASE q \notin R
      <4>1. R \ swap(q, b) = (R \ other) \ {b}
        BY <3>4
      <4> HIDE DEF R, swap
      <4>2. QED
        <5>1. Cardinality((R \ other) \ {b}) \in Nat
          BY <3>2, FS_CardinalityType
        <5>2. Cardinality(R \ swap(q, b)) = Cardinality((R \ other) \ {b})
          BY <4>1
        <5>3. QED
          BY <3>2, <5>1, <5>2
    <3>5. QED
      BY <3>3, <3>4
  <2>9. Away(swap(q, b)) < Away(other)
    <3> HIDE DEF swap
    <3> QED
      BY <2>7, <2>8 DEF Away
  <2>10. QED
    BY <2>5, <2>9
<1>9. CASE \A b \in B : b \in other
  <2>1. PICK f \in R : f \notin other
    <3>1. Cardinality(R) = Cardinality(other)
      BY <1>2 DEF Rival
    <3>2. ~(R \in SUBSET other)
      <4> HIDE DEF R
      <4> QED
        BY <1>2, <3>1, FS_Subset DEF R
    <3>3. QED
      BY <3>2
  <2>2. PICK q \in other : q \notin R
    <3>1. Cardinality(R) = Cardinality(other)
      BY <1>2 DEF Rival
    <3>2. ~(other \in SUBSET R)
      <4> HIDE DEF R
      <4> QED
        BY <1>2, <3>1, FS_Subset DEF R
    <3>3. QED
      BY <3>2
  <2>3. f \in R \ B /\ q \in Probe \ R /\ f \in Probe \ other
    BY <1>1, <1>9, <2>1, <2>2
  <2>4. dist[f] <= dist[q]
    BY <1>6, <2>3
  <2>5. PICK c \in B : Region(c) = Region(q)
    BY <1>5, <2>3, TableAssumption
  <2>6. c \in swap(q, f)
    BY <1>1, <1>9, <2>2, <2>5
  <2>7. Rival(swap(q, f)) /\ Total(swap(q, f)) <= Total(other)
    <3> HIDE DEF swap, R, B
    <3> QED
      BY <1>7, <2>2, <2>3, <2>4, <2>5, <2>6
  <2>8. /\ Cardinality(R \ swap(q, f)) = Cardinality(R \ other) - 1
        /\ Cardinality(R \ other) \in Nat
    <3>1. R \ swap(q, f) = (R \ other) \ {f} /\ f \in R \ other
      BY <2>1, <2>2
    <3> HIDE DEF R, swap
    <3>2. QED
      BY <1>2, <3>1, OneLess
  <2>9. B \ swap(q, f) = B \ other /\ Cardinality(B \ other) \in Nat
    <3>1. B \ swap(q, f) = B \ other
      BY <1>1, <2>3
    <3> HIDE DEF B, swap
    <3>2. QED
      BY <1>2, <3>1, FS_CardinalityType
  <2>10. Away(swap(q, f)) < Away(other)
    <3>1. Cardinality(B \ swap(q, f)) = Cardinality(B \ other)
      BY <2>9
    <3> HIDE DEF swap
    <3>2. QED
      BY <2>8, <2>9, <3>1 DEF Away
  <2>11. QED
    BY <2>7, <2>10
<1>10. QED
  BY <1>8, <1>9

\* No set of as many probes, one of each region, is nearer to the estimated
\* location as a whole: the two greedy loops (challenge.go:179-224) find the
\* smallest sum of distances that there is.
THEOREM NearestOfAll == Spec => []NoneIsNearer
<1>1. ASSUME IInv, Done, count >= Len(regions), NEW other, Rival(other)
      PROVE  Total(ToSet(result)) <= Total(other)
  <2>0. /\ TypeOK /\ Len(knownProbes) \in Nat /\ count \in Nat /\ count >= 1
        /\ Len(result) \in Nat /\ Len(regions) \in Nat /\ Len(<<>>) = 0
        /\ ToSet(result) \in SUBSET Probe
    <3>1. TypeOK /\ Len(knownProbes) \in Nat /\ count \in Nat /\ count >= 1
          /\ result \in Seq(Probe) /\ Len(result) \in Nat
      BY <1>1, TableAssumption DEF IInv, TypeOK
    <3>2. QED
      BY <3>1, TableAssumption DEF ToSet
  <2>1. CASE count >= Len(knownProbes)
    <3>1. result = knownProbes
      BY <1>1, <2>0, <2>1 DEF IInv, Selected, Done
    <3>2. other \in SUBSET Probe /\ Cardinality(other) = Cardinality(Probe) /\ IsFiniteSet(Probe)
      BY <1>1, <3>1, AsManyMembers, TableAssumption DEF Rival, Probe
    <3>3. other = Probe
      BY <3>2, FS_Subset
    <3>4. Total(ToSet(result)) = Total(other) /\ Total(other) \in Nat
      BY <2>0, <3>1, <3>2, <3>3, TotalOfRest DEF Probe
    <3>5. QED
      BY <3>4
  <2>2. CASE count < Len(knownProbes)
    <3>1. InProgress /\ Len(regions) <= Len(result)
      BY <1>1, <2>0, <2>2 DEF IInv, Selected, Done, InProgress
    <3> DEFINE Nearer(set) == Rival(set) /\ Total(set) < Total(ToSet(result))
               Missing == {Away(set) : set \in {s \in SUBSET Probe : Nearer(s)}}
    <3>2. SUFFICES ASSUME ~(Total(ToSet(result)) <= Total(other)) PROVE FALSE
      OBVIOUS
    <3>3. Missing \in SUBSET Nat
      <4>1. ASSUME NEW set \in SUBSET Probe PROVE Away(set) \in Nat
        <5>1. IsFiniteSet(Probe)
          BY AsManyMembers, TableAssumption DEF Probe
        <5>2. \A i \in 1..Len(regions) : result[i] \in Probe
          BY <2>0, <3>1 DEF TypeOK
        <5>3. ToSet(result) \ set \in SUBSET Probe /\ OfRegions \ set \in SUBSET Probe
          BY <2>0, <5>2 DEF OfRegions
        <5>4. /\ Cardinality(ToSet(result) \ set) \in Nat
              /\ Cardinality(OfRegions \ set) \in Nat
          BY <5>1, <5>3, FS_Subset, FS_CardinalityType
        <5>5. QED
          BY <5>4 DEF Away
      <4>2. QED
        BY <4>1
    <3>4. Missing # {}
      <4>1. other \in SUBSET Probe
        BY <1>1 DEF Rival
      <4>2. Total(other) \in Nat /\ Total(ToSet(result)) \in Nat
        BY <2>0, <4>1, TotalOfRest
      <4>3. Nearer(other)
        BY <1>1, <3>2, <4>2
      <4>4. QED
        BY <4>1, <4>3
    <3>5. PICK m \in Missing : \A n \in Missing : m <= n
      <4> HIDE DEF Missing
      <4> QED
        BY <3>3, <3>4, SmallestMember
    <3>6. PICK set \in SUBSET Probe : Nearer(set) /\ Away(set) = m
      BY <3>5
    <3>7. Total(set) \in Nat /\ Total(ToSet(result)) \in Nat
      BY <2>0, <3>6, TotalOfRest
    <3>8. set # ToSet(result)
      BY <3>6, <3>7
    <3>9. PICK next : Rival(next) /\ Total(next) <= Total(set) /\ Away(next) < Away(set)
      BY <2>0, <3>1, <3>6, <3>8, Exchange
    <3>10. next \in SUBSET Probe /\ Total(next) \in Nat
      BY <2>0, <3>9, TotalOfRest DEF Rival
    <3>11. Away(next) \in Missing
      <4>1. Nearer(next)
        BY <3>6, <3>7, <3>9, <3>10
      <4>2. QED
        BY <3>10, <4>1
    <3>12. Away(next) \in Nat /\ m \in Nat /\ m <= Away(next)
      BY <3>3, <3>5, <3>11
    <3>13. QED
      BY <3>6, <3>9, <3>12
  <2>3. QED
    BY <2>0, <2>1, <2>2
<1>2. IInv => NoneIsNearer
  BY <1>1 DEF NoneIsNearer, Rival
<1>3. QED
  BY Invariance, <1>2, PTL
=============================================================================
