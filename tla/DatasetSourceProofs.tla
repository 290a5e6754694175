------------------------ MODULE DatasetSourceProofs ------------------------
(***************************************************************************)
(* Theorems about DatasetSource for every platform, every file, every list *)
(* of measurements and every submission.                                   *)
(*                                                                         *)
(* The tables and the errors are folds, which are recursive functions over *)
(* the sets of indices done so far.  Induction on them takes no operator   *)
(* as its parameter, only a set: the sets of indices for which the claim   *)
(* holds.                                                                  *)
(***************************************************************************)
EXTENDS DatasetSource, FiniteSetTheorems, SequenceTheorems, TLAPS

-----------------------------------------------------------------------------
(* Induction and recursion on finite sets: the lemmas that the selection   *)
(* of probes needs too.  They say nothing of probes, so an empty table     *)
(* stands for it.                                                          *)

NoProbes == <<>>
NoRegion(p) == 0

Lemmas == INSTANCE ProbeSelectionProofs WITH
  knownProbes <- NoProbes, regions <- NoProbes, Region <- NoRegion, Distances <- {},
  MaxCount <- 0, dist <- NoProbes, count <- 0, result <- NoProbes

\* What is assumed of a table of probes holds of the empty one.
LEMMA SameAssumption == Lemmas!TableAssumption
<1>1. Lemmas!ToSet(NoProbes) = {} /\ Lemmas!Probe = {}
  BY DEF NoProbes, Lemmas!ToSet, Lemmas!Probe
<1>2. NoProbes \in Seq({}) /\ Lemmas!IsInjective(NoProbes)
  BY DEF NoProbes, Lemmas!IsInjective
<1>3. QED
  BY <1>1, <1>2 DEF Lemmas!TableAssumption

\* Both modules mean the same by a finite set.
LEMMA SameFinite == \A S : IsFiniteSet(S) = Lemmas!IsFiniteSet(S)
BY Zenon DEF IsFiniteSet, Lemmas!IsFiniteSet

\* A non-empty set of naturals has a smallest member.
LEMMA SmallestMember ==
  ASSUME NEW S \in SUBSET Nat, S # {}
  PROVE  \E x \in S : \A y \in S : x <= y
BY SameAssumption, Lemmas!SmallestMember

\* What holds of the empty set, and of a set whenever it holds without some
\* element of it, holds of all finite sets.
LEMMA SubsetInduction ==
  ASSUME NEW S, IsFiniteSet(S), NEW Good, {} \in Good,
         \A T \in SUBSET S : T # {} => \E x \in T : T \ {x} \in Good => T \in Good
  PROVE  \A T \in SUBSET S : T \in Good
BY SameAssumption, SameFinite, Lemmas!SubsetInduction

\* A recursion over the subsets of a finite set has a solution.
LEMMA RecursionExists ==
  ASSUME NEW S, IsFiniteSet(S), NEW D, NEW base \in D, NEW step \in [S \X D -> D],
         NEW chosen, Lemmas!Chooses(chosen, S)
  PROVE  \E g \in [SUBSET S -> D] : Lemmas!Recurs(g, S, base, step, chosen)
BY SameAssumption, SameFinite, Lemmas!RecursionExists

\* The elements of a list are folded from the largest index down.
LEMMA MaxIndex ==
  ASSUME NEW n \in Nat, NEW T \in SUBSET (0..n), T # {}
  PROVE  Max(T) \in T /\ \A x \in T : x <= Max(T)
<1> DEFINE U == {n - x : x \in T}
<1>1. U \subseteq Nat /\ U # {}
  <2>1. \A x \in T : n - x \in Nat
    OBVIOUS
  <2>2. QED
    BY <2>1
<1>2. PICK m \in U : \A u \in U : m <= u
  <2> HIDE DEF U
  <2>1. U \in SUBSET Nat
    BY <1>1
  <2>2. QED
    BY <1>1, <2>1, SmallestMember
<1>3. PICK x \in T : m = n - x
  OBVIOUS
<1>4. ASSUME NEW y \in T PROVE x >= y
  <2>1. m <= n - y
    BY <1>2
  <2>2. QED
    BY <1>3, <2>1
<1>5. QED
  BY <1>3, <1>4 DEF Max

\* The indices of a list are as many as its length.
LEMMA IndicesFinite ==
  ASSUME NEW n \in Nat
  PROVE  IsFiniteSet(1..n) /\ Cardinality(1..n) = n
<1>1. IsFiniteSet(1..n) /\ Cardinality(1..n) = IF 1 > n THEN 0 ELSE n - 1 + 1
  BY FS_Interval
<1>2. QED
  BY <1>1

-----------------------------------------------------------------------------
(* Tables *)

Partial(K, V) == UNION {[A -> V] : A \in SUBSET K}

Key == {pairKey(a, b) : a \in Name, b \in Name}

Tables == [entries : Partial(Key, Int), cities : Partial(Name, Place)]

\* A function on one key is part of a table.
LEMMA SingleType ==
  ASSUME NEW K, NEW V, NEW x \in K, NEW v \in V
  PROVE  Single(x, v) \in Partial(K, V) /\ DOMAIN Single(x, v) = {x}
<1>1. Single(x, v) \in [{x} -> V]
  BY DEF Single
<1>2. {x} \in SUBSET K
  OBVIOUS
<1>3. QED
  BY <1>1, <1>2 DEF Partial

\* One that overwrites another has the keys of both.
LEMMA OverwriteType ==
  ASSUME NEW K, NEW V, NEW f \in Partial(K, V), NEW g \in Partial(K, V)
  PROVE  /\ Overwrite(f, g) \in Partial(K, V)
         /\ DOMAIN Overwrite(f, g) = DOMAIN f \union DOMAIN g
<1>1. DOMAIN f \subseteq K /\ DOMAIN g \subseteq K
  BY DEF Partial
<1>2. (\A x \in DOMAIN f : f[x] \in V) /\ (\A x \in DOMAIN g : g[x] \in V)
  BY DEF Partial
<1>3. Overwrite(f, g) \in [DOMAIN f \union DOMAIN g -> V]
  BY <1>2 DEF Overwrite
<1>4. QED
  BY <1>1, <1>3 DEF Partial

\* The empty function is a table of anything.
LEMMA NothingType ==
  ASSUME NEW K, NEW V
  PROVE  <<>> \in Partial(K, V) /\ DOMAIN <<>> = {}
<1>1. <<>> \in [{} -> V]
  OBVIOUS
<1>2. QED
  BY <1>1 DEF Partial

\* The dataset before its first row.
LEMMA EmptyType == Empty \in Tables /\ DOMAIN Empty.entries = {}
BY NothingType DEF Empty, Tables

\* What one row of a file sets.
LEMMA CsvRowType ==
  ASSUME NEW r \in Record
  PROVE  CsvRow(r) \in Tables /\ DOMAIN CsvRow(r).entries = {pairKey(r.src, r.dst)}
<1>1. /\ r.src \in Name /\ r.dst \in Name /\ r.srcAt \in Place /\ r.dstAt \in Place
      /\ r.avg \in Int /\ pairKey(r.src, r.dst) \in Key
  BY DEF Record, Key
<1>2. /\ Single(pairKey(r.src, r.dst), r.avg) \in Partial(Key, Int)
      /\ DOMAIN Single(pairKey(r.src, r.dst), r.avg) = {pairKey(r.src, r.dst)}
  BY <1>1, SingleType
<1>3. Overwrite(Single(r.src, r.srcAt), Single(r.dst, r.dstAt)) \in Partial(Name, Place)
  BY <1>1, SingleType, OverwriteType
<1>4. QED
  BY <1>2, <1>3 DEF CsvRow, Tables

\* What one measurement of the platform sets.
LEMMA EntryRowType ==
  ASSUME NEW e \in Record
  PROVE  EntryRow(e) \in Tables /\ DOMAIN EntryRow(e).entries = {pairKey(e.src, e.dst)}
<1>1. /\ e.src \in Name /\ e.dst \in Name /\ e.srcAt \in Place /\ e.dstAt \in Place
      /\ e.avg \in Int /\ pairKey(e.src, e.dst) \in Key
  BY DEF Record, Key
<1>2. /\ Single(pairKey(e.src, e.dst), e.avg) \in Partial(Key, Int)
      /\ DOMAIN Single(pairKey(e.src, e.dst), e.avg) = {pairKey(e.src, e.dst)}
  BY <1>1, SingleType
<1>3. \A c \in Name, p \in Place : Located(c, p) \in Partial(Name, Place)
  BY SingleType, NothingType DEF Located
<1>4. Overwrite(Located(e.src, e.srcAt), Located(e.dst, e.dstAt)) \in Partial(Name, Place)
  BY <1>1, <1>3, OverwriteType
<1>5. QED
  BY <1>2, <1>4 DEF EntryRow, Tables

\* A dataset with one more row keeps every pair that it has.
LEMMA AddRowType ==
  ASSUME NEW ds \in Tables, NEW row \in Tables
  PROVE  /\ AddRow(ds, row) \in Tables
         /\ DOMAIN AddRow(ds, row).entries = DOMAIN ds.entries \union DOMAIN row.entries
<1>1. /\ Overwrite(ds.entries, row.entries) \in Partial(Key, Int)
      /\ DOMAIN Overwrite(ds.entries, row.entries) = DOMAIN ds.entries \union DOMAIN row.entries
  BY OverwriteType DEF Tables
<1>2. Overwrite(ds.cities, row.cities) \in Partial(Name, Place)
  BY OverwriteType DEF Tables
<1>3. QED
  BY <1>1, <1>2 DEF AddRow, Tables

\* A table has the pairs of all its rows.
LEMMA TableType ==
  ASSUME NEW n \in Nat, NEW rows \in [1..n -> Tables]
  PROVE  /\ Table(rows) \in Tables
         /\ DOMAIN Table(rows).entries = UNION {DOMAIN rows[i].entries : i \in 1..n}
<1> DEFINE S == 1..n
           Folds(f) == f = [T \in SUBSET S |->
                              IF T = {} THEN Empty
                              ELSE AddRow(f[T \ {Max(T)}], rows[Max(T)])]
           f == CHOOSE f : Folds(f)
<1>1. Table(rows) = f[S]
  <2>1. DOMAIN rows = S
    OBVIOUS
  <2>2. QED
    BY <2>1 DEF Table, FoldLeft, MapThenFoldSet
<1>2. IsFiniteSet(S) /\ \A T \in SUBSET S : T # {} => Max(T) \in T
  <2>1. ASSUME NEW T \in SUBSET S, T # {} PROVE Max(T) \in T
    <3>1. T \in SUBSET (0..n)
      OBVIOUS
    <3>2. QED
      BY <3>1, <2>1, MaxIndex
  <2>2. QED
    BY <2>1, IndicesFinite
<1>3. \E g : Folds(g)
  <2> DEFINE step == [x \in S \X Tables |-> AddRow(x[2], rows[x[1]])]
             chosen == [T \in SUBSET S |-> Max(T)]
  <2>1. step \in [S \X Tables -> Tables]
    BY AddRowType
  <2>2. PICK g \in [SUBSET S -> Tables] : Lemmas!Recurs(g, S, Empty, step, chosen)
    <3>1. Lemmas!Chooses(chosen, S)
      BY <1>2 DEF Lemmas!Chooses
    <3> HIDE DEF step, Folds, f, S, chosen
    <3>2. QED
      BY <2>1, <1>2, <3>1, EmptyType, RecursionExists
  <2>3. ASSUME NEW T \in SUBSET S, T # {}
        PROVE  g[T] = AddRow(g[T \ {Max(T)}], rows[Max(T)])
    <3>1. Max(T) \in S /\ g[T \ {Max(T)}] \in Tables
      BY <1>2, <2>3
    <3>2. g[T] = step[<<Max(T), g[T \ {Max(T)}]>>]
      BY <2>2, <2>3 DEF Lemmas!Recurs
    <3> HIDE DEF S
    <3>3. QED
      BY <3>1, <3>2
  <2>4. Folds(g)
    <3>1. g[{}] = Empty
      BY <2>2 DEF Lemmas!Recurs
    <3> HIDE DEF step, chosen
    <3>2. QED
      BY <2>3, <3>1
  <2>5. QED
    BY <2>4
<1>4. Folds(f)
  <2> HIDE DEF Folds
  <2> QED
    BY <1>3
<1> DEFINE Good == {T \in SUBSET S :
                      /\ f[T] \in Tables
                      /\ DOMAIN f[T].entries = UNION {DOMAIN rows[i].entries : i \in T}}
<1>5. {} \in Good
  <2>1. f[{}] = Empty
    BY <1>4
  <2>2. QED
    BY <2>1, EmptyType
<1>6. ASSUME NEW T \in SUBSET S, T # {}
      PROVE  \E x \in T : T \ {x} \in Good => T \in Good
  <2> DEFINE x == Max(T)
  <2>1. x \in T
    BY <1>2, <1>6
  <2>2. f[T] = AddRow(f[T \ {x}], rows[x])
    BY <1>4, <1>6
  <2>3. ASSUME T \ {x} \in Good PROVE T \in Good
    <3> HIDE DEF x, f
    <3>1. /\ f[T \ {x}] \in Tables
          /\ DOMAIN f[T \ {x}].entries = UNION {DOMAIN rows[i].entries : i \in T \ {x}}
      BY <2>3
    <3>2. rows[x] \in Tables
      BY <2>1
    <3>3. /\ f[T] \in Tables
          /\ DOMAIN f[T].entries = DOMAIN f[T \ {x}].entries \union DOMAIN rows[x].entries
      BY <2>2, <3>1, <3>2, AddRowType
    <3>4. UNION {DOMAIN rows[i].entries : i \in T}
            = (UNION {DOMAIN rows[i].entries : i \in T \ {x}}) \union DOMAIN rows[x].entries
      BY <2>1
    <3>5. QED
      BY <3>1, <3>3, <3>4
  <2>4. QED
    <3> HIDE DEF x
    <3> QED
      BY <2>1, <2>3
<1>7. S \in Good
  <2> HIDE DEF Good, S, f, Folds
  <2>1. \A T \in SUBSET S : T # {} => \E x \in T : T \ {x} \in Good => T \in Good
    BY <1>6
  <2>2. \A T \in SUBSET S : T \in Good
    BY <1>2, <1>5, <2>1, SubsetInduction
  <2>3. QED
    BY <2>2
<1>8. QED
  BY <1>1, <1>7

\* What is looked up in a table is a number.
LEMMA LookupType ==
  ASSUME NEW ds \in Tables, NEW a, NEW b
  PROVE  Lookup(ds, a, b) \in Int
<1>1. ds.entries \in Partial(Key, Int)
  BY DEF Tables
<1>2. \A key \in DOMAIN ds.entries : ds.entries[key] \in Int
  BY <1>1 DEF Partial
<1>3. QED
  BY <1>2 DEF Lookup

-----------------------------------------------------------------------------
(* The score of a city *)

Scored == [city : Name, matched : Nat, total : Nat]

\* The error of a report that is compared: its divisor is positive.
LEMMA NormErrType ==
  ASSUME NEW ds \in Tables, NEW city, NEW report \in Report, Known(ds, city, report) > 0
  PROVE  normErr(ds, city, report) \in Nat
<1> DEFINE avg == Known(ds, city, report)
<1>1. avg \in Int /\ avg > 0
  BY LookupType DEF Known
<1>2. Scale \div avg \in Nat /\ report.rtt \in Int
  BY <1>1, DatasetAssumption DEF Report
<1>3. AbsDiff(report.rtt, avg) \in Nat
  BY <1>1, <1>2 DEF AbsDiff
<1>4. \A x, y \in Nat : x * y \in Nat
  OBVIOUS
<1>5. QED
  BY <1>2, <1>3, <1>4 DEF normErr

\* A sum of errors is a natural number, in whatever order it is made.
LEMMA ErrorSum ==
  ASSUME NEW ds, NEW reports, NEW city, NEW M, IsFiniteSet(M),
         \A i \in M : normErr(ds, city, reports[i]) \in Nat
  PROVE  totalErr(ds, city, reports, M) \in Nat
<1> DEFINE pick(T) == CHOOSE i \in T : TRUE
           e(i) == normErr(ds, city, reports[i])
           Folds(f) == f = [T \in SUBSET M |->
                              IF T = {} THEN 0 ELSE e(pick(T)) + f[T \ {pick(T)}]]
           f == CHOOSE f : Folds(f)
<1>1. totalErr(ds, city, reports, M) = f[M]
  BY DEF totalErr, MapThenSumSet, MapThenFoldSet
<1>2. \A T \in SUBSET M : T # {} => pick(T) \in T
  OBVIOUS
<1>3. \E g : Folds(g)
  <2> DEFINE step == [x \in M \X Nat |-> e(x[1]) + x[2]]
             chosen == [T \in SUBSET M |-> pick(T)]
  <2>1. step \in [M \X Nat -> Nat]
    <3> HIDE DEF e
    <3>1. \A i \in M : e(i) \in Nat
      BY DEF e
    <3>2. QED
      BY <3>1
  <2>2. PICK g \in [SUBSET M -> Nat] : Lemmas!Recurs(g, M, 0, step, chosen)
    <3>1. Lemmas!Chooses(chosen, M)
      BY <1>2 DEF Lemmas!Chooses
    <3> HIDE DEF step, Folds, f, chosen
    <3>2. QED
      BY <2>1, <3>1, RecursionExists
  <2>3. ASSUME NEW T \in SUBSET M, T # {}
        PROVE  g[T] = e(pick(T)) + g[T \ {pick(T)}]
    <3>1. pick(T) \in M /\ g[T \ {pick(T)}] \in Nat
      BY <1>2, <2>3
    <3>2. g[T] = step[<<pick(T), g[T \ {pick(T)}]>>]
      BY <2>2, <2>3 DEF Lemmas!Recurs
    <3> HIDE DEF pick, e
    <3>3. QED
      BY <3>1, <3>2
  <2>4. Folds(g)
    <3>1. g[{}] = 0
      BY <2>2 DEF Lemmas!Recurs
    <3> HIDE DEF step, chosen, pick, e
    <3>2. QED
      BY <2>3, <3>1
  <2>5. QED
    BY <2>4
<1>4. Folds(f)
  <2> HIDE DEF Folds
  <2> QED
    BY <1>3
<1> DEFINE Good == {T \in SUBSET M : f[T] \in Nat}
<1>5. {} \in Good
  <2>1. f[{}] = 0
    BY <1>4
  <2> HIDE DEF f
  <2>2. QED
    BY <2>1
<1>6. ASSUME NEW T \in SUBSET M, T # {}
      PROVE  \E x \in T : T \ {x} \in Good => T \in Good
  <2>1. pick(T) \in T
    BY <1>2, <1>6
  <2>2. f[T] = e(pick(T)) + f[T \ {pick(T)}] /\ e(pick(T)) \in Nat
    <3>1. e(pick(T)) \in Nat
      BY <2>1
    <3>2. QED
      BY <3>1, <1>4, <1>6
  <2>3. QED
    <3> HIDE DEF f, pick, e
    <3> QED
      BY <2>1, <2>2
<1>7. M \in Good
  <2> HIDE DEF Good, f, Folds
  <2>1. \A T \in SUBSET M : T # {} => \E x \in T : T \ {x} \in Good => T \in Good
    BY <1>6
  <2>2. \A T \in SUBSET M : T \in Good
    BY <1>5, <2>1, SubsetInduction
  <2>3. QED
    BY <2>2
<1>8. QED
  BY <1>1, <1>7

\* The score of a city adds such errors only.
LEMMA ScoreType ==
  ASSUME NEW ds \in Tables, NEW reports \in Seq(Report), NEW c \in DOMAIN ds.cities
  PROVE  Score(ds, reports, c) \in Scored
<1> DEFINE M == {i \in DOMAIN reports : Known(ds, c, reports[i]) > 0}
<1>1. c \in Name
  <2>1. ds.cities \in Partial(Name, Place)
    BY DEF Tables
  <2>2. QED
    BY <2>1 DEF Partial
<1>2. IsFiniteSet(M) /\ Cardinality(M) \in Nat
  <2>1. DOMAIN reports = 1..Len(reports) /\ Len(reports) \in Nat
    OBVIOUS
  <2>2. QED
    BY <2>1, IndicesFinite, FS_Subset, FS_CardinalityType
<1>3. \A i \in M : normErr(ds, c, reports[i]) \in Nat
  BY NormErrType
<1>4. totalErr(ds, c, reports, M) \in Nat
  BY <1>2, <1>3, ErrorSum
<1>5. QED
  BY <1>1, <1>2, <1>4 DEF Score, Scored

-----------------------------------------------------------------------------
(* The comparison *)

\* Multiplication commutes.
LEMMA Product ==
  ASSUME NEW a \in Int, NEW b \in Int
  PROVE  a * b \in Int /\ a * b = b * a
OBVIOUS

\* And associates.
LEMMA ProductOfThree ==
  ASSUME NEW a \in Int, NEW b \in Int, NEW c \in Int
  PROVE  (a * b) * c = (a * c) * b /\ (a * b) * c = a * (b * c)
OBVIOUS

\* A common factor that is positive decides nothing.
LEMMA Multiply ==
  ASSUME NEW a \in Int, NEW b \in Int, NEW c \in Nat, c > 0
  PROVE  (a < b <=> a * c < b * c) /\ (a <= b <=> a * c <= b * c)
<1>1. a * c \in Int /\ b * c \in Int
  BY Product
<1>2. ASSUME NEW x \in Int, NEW y \in Int, x < y PROVE x * c < y * c
  BY <1>2
<1>3. CASE a < b
  BY <1>1, <1>2, <1>3
<1>4. CASE a = b
  BY <1>1, <1>4
<1>5. CASE b < a
  <2>1. b * c < a * c
    BY <1>2, <1>5
  <2>2. QED
    BY <2>1, <1>1, <1>5
<1>6. QED
  BY <1>3, <1>4, <1>5

\* The two scores a comparison looks at, the other way round.
LEMMA GapType ==
  ASSUME NEW a \in Scored, NEW b \in Scored
  PROVE  /\ a.total \in Nat /\ a.matched \in Nat
         /\ Gap(a, b) \in Int /\ Gap(b, a) = -Gap(a, b)
         /\ Tie * a.matched * b.matched \in Int
         /\ (Tied(a, b) <=> Tied(b, a))
<1>1. /\ a.total \in Nat /\ a.matched \in Nat /\ b.total \in Nat /\ b.matched \in Nat
      /\ Tie \in Nat
  BY DatasetAssumption DEF Scored
<1>2. a.total * b.matched \in Int /\ b.total * a.matched \in Int
  BY <1>1, Product
<1>3. Gap(a, b) \in Int /\ Gap(b, a) = -Gap(a, b)
  BY <1>2 DEF Gap
<1>4. /\ Tie * a.matched * b.matched \in Int
      /\ Tie * a.matched * b.matched = Tie * b.matched * a.matched
  BY <1>1, Product, ProductOfThree
<1>5. AbsDiff(Gap(b, a), 0) = AbsDiff(Gap(a, b), 0)
  BY <1>3 DEF AbsDiff
<1>6. QED
  BY <1>1, <1>3, <1>4, <1>5 DEF Tied

\* Between a score j that is no worse than d, and a score i that is worse than d
\* but not sorted behind j, there is a tie; so there is one between d and i.
LEMMA TiePassedOn ==
  ASSUME NEW d \in Scored, NEW i \in Scored, NEW j \in Scored,
         d.matched > 0, i.matched > 0, j.matched > 0,
         Gap(d, i) < 0, ~(Gap(d, j) < 0), ~Less(j, i)
  PROVE  Tied(d, i)
<1> DEFINE td == d.total  md == d.matched
           ti == i.total  mi == i.matched
           tj == j.total  mj == j.matched
<1>1. /\ td \in Nat /\ md \in Nat /\ ti \in Nat /\ mi \in Nat /\ tj \in Nat /\ mj \in Nat
      /\ md > 0 /\ mi > 0 /\ mj > 0 /\ Tie \in Nat
  BY GapType, DatasetAssumption
<1>2. td * mi < ti * md /\ tj * md <= td * mj
  <2>1. td * mi \in Int /\ ti * md \in Int /\ tj * md \in Int /\ td * mj \in Int
    BY <1>1, Product
  <2>2. td * mi - ti * md < 0 /\ ~(td * mj - tj * md < 0)
    BY DEF Gap
  <2> HIDE DEF td, md, ti, mi, tj, mj
  <2>3. QED
    BY <2>1, <2>2
<1>3. (Tied(j, i) <=> AbsDiff(tj * mi - ti * mj, 0) < Tie * mj * mi)
      /\ (~Tied(j, i) => ~(tj * mi - ti * mj < 0))
  BY DEF Tied, Less, Gap
<1>4. Tied(d, i) <=> AbsDiff(td * mi - ti * md, 0) < Tie * md * mi
  BY DEF Tied, Gap
<1> HIDE DEF td, md, ti, mi, tj, mj
<1>5. /\ td * mi \in Int /\ ti * md \in Int /\ tj * md \in Int /\ td * mj \in Int
      /\ tj * mi \in Int /\ ti * mj \in Int
      /\ Tie * mj \in Int /\ Tie * md \in Int /\ Tie * mj * mi \in Int /\ Tie * md * mi \in Int
  BY <1>1, Product
\* The errors of all three, on their common denominator.
<1>6. (tj * mi) * md <= (td * mi) * mj
  <2>1. (tj * md) * mi <= (td * mj) * mi
    BY <1>1, <1>2, <1>5, Multiply
  <2>2. (tj * md) * mi = (tj * mi) * md /\ (td * mj) * mi = (td * mi) * mj
    BY <1>1, ProductOfThree
  <2>3. QED
    BY <2>1, <2>2
<1>7. (td * mi) * mj < (ti * md) * mj
  BY <1>1, <1>2, <1>5, Multiply
<1>8. (ti * md) * mj = (ti * mj) * md
  BY <1>1, ProductOfThree
<1>9. /\ (tj * mi) * md \in Int /\ (td * mi) * mj \in Int /\ (ti * mj) * md \in Int
      /\ (ti * md) * mj \in Int
  BY <1>1, <1>5, Product
<1>10. tj * mi < ti * mj
  <2>1. (tj * mi) * md < (ti * mj) * md
    BY <1>6, <1>7, <1>8, <1>9
  <2>2. QED
    BY <1>1, <1>5, <2>1, Multiply
<1>11. ti * mj - tj * mi < Tie * mj * mi
  <2>1. AbsDiff(tj * mi - ti * mj, 0) < Tie * mj * mi
    BY <1>3, <1>5, <1>10
  <2>2. AbsDiff(tj * mi - ti * mj, 0) = ti * mj - tj * mi
    BY <1>5, <1>10 DEF AbsDiff
  <2>3. QED
    BY <2>1, <2>2
<1>12. ti * md - td * mi < Tie * md * mi
  <2>1. (ti * mj - tj * mi) * md < (Tie * mj * mi) * md
    BY <1>1, <1>5, <1>11, Multiply
  <2>2. (ti * mj - tj * mi) * md = (ti * mj) * md - (tj * mi) * md
    BY <1>1, <1>5
  <2>3. (Tie * mj * mi) * md = (Tie * md * mi) * mj
    <3>1. (Tie * mj * mi) * md = (Tie * mj * md) * mi
      BY <1>1, <1>5, ProductOfThree
    <3>2. Tie * mj * md = Tie * md * mj
      BY <1>1, ProductOfThree
    <3>3. (Tie * md * mj) * mi = (Tie * md * mi) * mj
      BY <1>1, <1>5, ProductOfThree
    <3>4. QED
      BY <3>1, <3>2, <3>3
  <2>4. (ti * md - td * mi) * mj = (ti * md) * mj - (td * mi) * mj
    BY <1>1, <1>5
  <2>5. (Tie * md * mi) * mj \in Int
    BY <1>1, <1>5, Product
  <2>6. (ti * md - td * mi) * mj < (Tie * md * mi) * mj
    BY <2>1, <2>2, <2>3, <2>4, <2>5, <1>6, <1>8, <1>9
  <2>7. QED
    BY <1>1, <1>5, <2>6, Multiply
<1>13. AbsDiff(td * mi - ti * md, 0) = ti * md - td * mi
  BY <1>2, <1>5 DEF AbsDiff
<1>14. QED
  BY <1>4, <1>12, <1>13

-----------------------------------------------------------------------------
(* BestMatch *)

\* A city with data for some report.
Rival == {s \in Scored : s.matched > 0}

\* There are finitely many cities, and those that are sorted have a match.
LEMMA RivalsType ==
  ASSUME NEW ds \in Tables, NEW reports \in Seq(Report)
  PROVE  Candidates(ds, reports) \subseteq Rival /\ IsFiniteSet(Candidates(ds, reports))
<1> DEFINE C == DOMAIN ds.cities
           score == [c \in C |-> Score(ds, reports, c)]
           all == {Score(ds, reports, c) : c \in C}
<1>1. IsFiniteSet(C)
  <2>1. ds.cities \in Partial(Name, Place)
    BY DEF Tables
  <2>2. C \subseteq Name
    BY <2>1 DEF Partial
  <2>3. QED
    BY <2>2, DatasetAssumption, FS_Subset
<1>2. IsFiniteSet(all)
  <2>1. score \in Surjection(C, all)
    BY DEF Surjection
  <2> HIDE DEF score, C, all
  <2>2. QED
    BY <1>1, <2>1, FS_Surjection
<1>3. all \subseteq Scored
  BY ScoreType
<1>4. Candidates(ds, reports) = {s \in all : s.matched > 0}
  BY DEF Candidates
<1>5. QED
  BY <1>2, <1>3, <1>4, FS_Subset DEF Rival

\* Finitely many rivals have one with the most matches.
LEMMA LargestMatched ==
  ASSUME NEW R, IsFiniteSet(R), R # {}, \A x \in R : x.matched \in Nat
  PROVE  \E x \in R : \A y \in R : y.matched <= x.matched
<1> DEFINE Good == {T \in SUBSET R : T = {} \/ \E x \in T : \A y \in T : y.matched <= x.matched}
<1>1. {} \in Good
  OBVIOUS
<1>2. ASSUME NEW T \in SUBSET R, T # {}
      PROVE  \E x \in T : T \ {x} \in Good => T \in Good
  <2>1. PICK x \in T : TRUE
    BY <1>2
  <2>2. ASSUME T \ {x} \in Good PROVE T \in Good
    <3>1. CASE T \ {x} = {}
      <4>1. \A y \in T : y = x
        BY <3>1
      <4>2. x.matched <= x.matched
        BY <2>1
      <4>3. QED
        BY <2>1, <4>1, <4>2
    <3>2. CASE T \ {x} # {}
      <4>1. PICK z \in T \ {x} : \A y \in T \ {x} : y.matched <= z.matched
        BY <2>2, <3>2
      <4>2. CASE x.matched <= z.matched
        BY <4>1, <4>2
      <4>3. CASE ~(x.matched <= z.matched)
        <5>1. \A y \in T : y.matched <= x.matched
          BY <2>1, <4>1, <4>3
        <5>2. QED
          BY <2>1, <5>1
      <4>4. QED
        BY <4>2, <4>3
    <3>3. QED
      BY <3>1, <3>2
  <2>3. QED
    BY <2>1, <2>2
<1>3. R \in Good
  <2> HIDE DEF Good
  <2>1. \A T \in SUBSET R : T # {} => \E x \in T : T \ {x} \in Good => T \in Good
    BY <1>2
  <2>2. \A T \in SUBSET R : T \in Good
    BY <1>1, <2>1, SubsetInduction
  <2>3. QED
    BY <2>2
<1>4. QED
  BY <1>3

\* One that beats the first by its error ties with another that it beats: those
\* whose errors are no larger than its own are no cut, as the first is none of
\* them.
LEMMA NoGapBelow ==
  ASSUME NEW R, R \subseteq Rival, NEW match \in Firsts(R), NEW d \in R, Gap(d, match) < 0
  PROVE  \E e \in R : Gap(d, e) < 0 /\ Tied(d, e)
<1> DEFINE low == {x \in R : ~(Gap(d, x) < 0)}
<1>1. \A x \in R : x \in Scored /\ x.matched > 0
  BY DEF Rival
<1>2. d \in low
  <2>1. Gap(d, d) \in Int /\ Gap(d, d) = -Gap(d, d)
    BY <1>1, GapType
  <2>2. QED
    BY <2>1
<1>3. match \in R /\ match \notin low
  BY DEF Firsts
<1>4. ~Cut(low, R)
  <2>1. low \in SUBSET R
    OBVIOUS
  <2> HIDE DEF low
  <2>2. QED
    BY <1>3, <2>1 DEF Firsts
<1>5. PICK a \in low, e \in R \ low : ~Less(a, e)
  <2> HIDE DEF low
  <2> QED
    BY <1>2, <1>4 DEF Cut
<1>6. Gap(d, e) < 0 /\ ~(Gap(d, a) < 0) /\ a \in R
  BY <1>5
<1>7. Tied(d, e)
  BY <1>1, <1>5, <1>6, TiePassedOn
<1>8. QED
  BY <1>6, <1>7

\* Where all tie, those with the most matches are a cut.
LEMMA MostMatchesFirst ==
  ASSUME NEW R, R \subseteq Rival, IsFiniteSet(R), \A d, e \in R : Tied(d, e),
         NEW match \in Firsts(R), NEW d \in R
  PROVE  d.matched <= match.matched
<1> DEFINE low == {x \in R : \A y \in R : y.matched <= x.matched}
<1>1. match \in R /\ \A x \in R : x.matched \in Nat
  BY DEF Rival, Scored, Firsts
<1>2. PICK x \in R : \A y \in R : y.matched <= x.matched
  BY <1>1, LargestMatched
<1>3. low # {} /\ low \in SUBSET R
  BY <1>2
<1>4. ASSUME NEW a \in low, NEW b \in R \ low PROVE Less(a, b)
  <2>1. PICK y \in R : ~(y.matched <= b.matched)
    BY <1>4
  <2>2. y.matched <= a.matched /\ a \in R /\ b \in R
    BY <1>4, <2>1
  <2>3. a.matched > b.matched /\ Tied(a, b)
    BY <1>1, <2>1, <2>2
  <2>4. QED
    BY <2>3 DEF Less
<1>5. match \in low
  <2> HIDE DEF low
  <2>1. Cut(low, R)
    BY <1>3, <1>4 DEF Cut
  <2>2. QED
    BY <1>3, <2>1 DEF Firsts
<1>6. QED
  BY <1>5

\* What BestMatch makes of the candidates, whichever the sort puts first.
LEMMA BestMatchType ==
  ASSUME NEW R, IsFiniteSet(R), R \subseteq Rival, NEW match \in BestMatch(R)
  PROVE  /\ R = {} => match.city = NoCity
         /\ R # {} => match \in R
         /\ R # {} => \A d \in R : Gap(d, match) < 0 =>
                        \E e \in R : Gap(d, e) < 0 /\ Tied(d, e)
         /\ R # {} /\ (\A d, e \in R : Tied(d, e)) =>
                        \A d \in R : d.matched <= match.matched
<1>1. CASE R = {}
  BY <1>1 DEF BestMatch
<1>2. CASE R # {}
  <2>1. match \in Firsts(R) /\ match \in R
    BY <1>2 DEF BestMatch, Firsts
  <2>2. ASSUME NEW d \in R, Gap(d, match) < 0
        PROVE  \E e \in R : Gap(d, e) < 0 /\ Tied(d, e)
    BY <2>1, <2>2, NoGapBelow
  <2>3. ASSUME \A d, e \in R : Tied(d, e), NEW d \in R
        PROVE  d.matched <= match.matched
    BY <2>1, <2>3, MostMatchesFirst
  <2>4. QED
    BY <1>2, <2>1, <2>2, <2>3
<1>3. QED
  BY <1>1, <1>2

-----------------------------------------------------------------------------
(* Where the dataset comes from *)

\* A file gives a dataset.
LEMMA LoadType ==
  ASSUME NEW rows \in Seq(Record)
  PROVE  LoadCSVFromReader(rows) \in Tables
<1> DEFINE table == [i \in DOMAIN rows |-> CsvRow(rows[i])]
<1>1. Len(rows) \in Nat /\ table \in [1..Len(rows) -> Tables]
  BY CsvRowType
<1>2. Table(table) \in Tables
  <2> HIDE DEF table
  <2> QED
    BY <1>1, TableType
<1>3. QED
  BY <1>2 DEF LoadCSVFromReader

\* A dataset of the platform has a pair for every result of a known probe.
LEMMA BuildType ==
  ASSUME NEW all \in Seq(PingResult), NEW probes
  PROVE  /\ BuildDataset(all, probes) \in Tables
         /\ \A r \in ToSet(all) :
              r.probe \in probes => pairKey(r.probe, r.dst) \in DOMAIN BuildDataset(all, probes).entries
<1> DEFINE n == Len(all)
           row(i) == IF all[i].probe \in probes THEN EntryRow(Entry(all[i])) ELSE Empty
           table == [i \in DOMAIN all |-> row(i)]
<1>1. n \in Nat /\ DOMAIN all = 1..n /\ \A i \in 1..n : all[i] \in PingResult
  OBVIOUS
<1>2. ASSUME NEW i \in 1..n
      PROVE  /\ EntryRow(Entry(all[i])) \in Tables
             /\ DOMAIN EntryRow(Entry(all[i])).entries = {pairKey(all[i].probe, all[i].dst)}
  <2>1. /\ all[i].probe \in RipeProbe /\ all[i].dst \in Address /\ all[i].avg \in Int
        /\ all[i].probe \in Name /\ all[i].dst \in Name
    BY <1>1, SourceAssumption DEF PingResult
  <2>2. Entry(all[i]) \in Record
    BY <2>1, SourceAssumption, DatasetAssumption DEF Entry, Record
  <2>3. Entry(all[i]).src = all[i].probe /\ Entry(all[i]).dst = all[i].dst
    BY DEF Entry
  <2>4. QED
    BY <2>2, <2>3, EntryRowType
<1>3. table \in [1..n -> Tables]
  <2>1. \A i \in 1..n : row(i) \in Tables
    BY <1>2, EmptyType
  <2> HIDE DEF row
  <2>2. QED
    BY <1>1, <2>1
<1>4. BuildDataset(all, probes) = Table(table)
  BY DEF BuildDataset
<1>5. /\ Table(table) \in Tables
      /\ DOMAIN Table(table).entries = UNION {DOMAIN table[i].entries : i \in 1..n}
  <2> HIDE DEF table, n
  <2> QED
    BY <1>1, <1>3, TableType
<1>6. ASSUME NEW i \in 1..n, all[i].probe \in probes
      PROVE  pairKey(all[i].probe, all[i].dst) \in DOMAIN table[i].entries
  <2>1. table[i] = EntryRow(Entry(all[i]))
    BY <1>1, <1>6
  <2>2. QED
    BY <1>2, <2>1
<1>7. ASSUME NEW r \in ToSet(all), r.probe \in probes
      PROVE  pairKey(r.probe, r.dst) \in DOMAIN Table(table).entries
  <2>1. PICK i \in 1..n : r = all[i]
    BY <1>1 DEF ToSet
  <2> HIDE DEF table
  <2>2. QED
    BY <1>5, <1>6, <1>7, <2>1
<1>8. QED
  <2> HIDE DEF table
  <2> QED
    BY <1>4, <1>5, <1>7

\* Stages: what is still to fetch, what has been fetched, which requests were
\* answered, and what was taken.
Fetching ==
  /\ todo \in Seq(DOMAIN RipeResults) /\ results \in Seq(PingResult)
  /\ Len(todo) <= Len(config.ids)
  /\ \A i \in DOMAIN config.ids :
       \/ config.ids[i] \in ToSet(todo)
       \/ ToSet(RipeResults[config.ids[i]]) \subseteq ToSet(results)

Asking ==
  /\ down \subseteq 1..(Len(config.ids) + 1)
  /\ stage # "serving" => \A k \in down : k >= Request

\* Which dataset is taken, and why.
Chosen(from, ds, probes) ==
  /\ from = IF config.file \in Files THEN "csv"
            ELSE IF config.ids # <<>> /\ down = {} THEN "ripe" ELSE "embedded"
  /\ from = "csv" => ds = LoadCSVFromReader(config.file)
  /\ from = "embedded" => ds = LoadCSVFromReader(Embedded)
  /\ from = "ripe" => todo = <<>> /\ ds = BuildDataset(results, probes)

Loaded ==
  /\ stage # "serving" => source = "none" /\ dataset = Empty /\ reply = NoReply
  /\ stage = "ripe" => config.file \notin Files
  /\ stage = "serving" => Chosen(source, dataset, known)

\* A reply is the one that Locate made of the dataset.
Computed ==
  Answered =>
    /\ reply.reports \in Submissions
    /\ reply.match \in BestMatch(Rivals)
    /\ \A i \in DOMAIN reply.reports : reply.expected[i] \in Expected(reply.reports[i], reply.match)

IInv ==
  /\ config \in [file : {NoFile, Unreadable} \union Files, ids : IDs]
  /\ stage \in {"csv", "ripe", "serving"}
  /\ dataset \in Tables
  /\ Fetching /\ Asking /\ Loaded /\ Computed

\* The server starts with the whole list to fetch.
LEMMA InitIInv == Init => IInv
<1> SUFFICES ASSUME Init PROVE IInv
  OBVIOUS
<1>1. config \in [file : {NoFile, Unreadable} \union Files, ids : IDs] /\ stage = "csv"
  BY DEF Init
<1>2. Fetching
  <2>1. config.ids \in Seq(DOMAIN RipeResults) /\ todo = config.ids /\ results = <<>>
    BY <1>1, SourceAssumption DEF Init
  <2>2. \A i \in DOMAIN config.ids : config.ids[i] \in ToSet(todo)
    BY <2>1 DEF ToSet
  <2>3. results \in Seq(PingResult)
    BY <2>1
  <2>4. QED
    BY <2>1, <2>2, <2>3 DEF Fetching
<1>3. Asking
  <2>1. config.ids \in Seq(DOMAIN RipeResults)
    BY <1>1, SourceAssumption
  <2>2. Request = 1 /\ Len(config.ids) \in Nat
    BY <2>1 DEF Init, Request
  <2>3. QED
    BY <2>2 DEF Init, Asking
<1>4. Loaded /\ Computed
  BY DEF Init, Loaded, Computed, Answered
<1>5. QED
  BY <1>1, <1>2, <1>3, <1>4, EmptyType DEF Init, IInv

\* What is taken leaves what was fetched as it is.
LEMMA ServeIInv ==
  ASSUME IInv, stage # "serving", NEW from, NEW ds \in Tables, Serve(from, ds),
         UNCHANGED <<config, down, todo, results, reply>>, Chosen(from, ds, known')
  PROVE  IInv'
<1>1. Fetching' /\ Asking'
  BY DEF IInv, Fetching, Asking, Serve
<1>2. Loaded'
  BY DEF Serve, Loaded, Chosen
<1>3. Computed'
  BY DEF IInv, Loaded, Computed, Answered
<1>4. QED
  BY <1>1, <1>2, <1>3 DEF IInv, Serve

\* The next measurement, fetched or given up.
LEMMA FetchIInv ==
  ASSUME IInv, FetchPingResults
  PROVE  IInv'
<1> DEFINE id == Head(todo)
<1>1. /\ todo \in Seq(DOMAIN RipeResults) /\ todo # <<>> /\ todo' = Tail(todo)
      /\ results \in Seq(PingResult) /\ results' = results \o RipeResults[id]
      /\ UNCHANGED <<config, down, stage, known, source, dataset, reply>>
      /\ stage = "ripe" /\ Request \notin down /\ Len(todo) <= Len(config.ids)
      /\ config.ids \in Seq(DOMAIN RipeResults)
  BY SourceAssumption DEF IInv, Fetching, FetchPingResults
<1>2. id \in DOMAIN RipeResults /\ RipeResults[id] \in Seq(PingResult)
  BY <1>1, SourceAssumption
<1>3. todo' \in Seq(DOMAIN RipeResults) /\ results' \in Seq(PingResult)
  BY <1>1, <1>2
<1>4. ToSet(todo) \subseteq ToSet(todo') \union {id}
  <2>1. ASSUME NEW i \in DOMAIN todo PROVE todo[i] \in ToSet(todo') \union {id}
    <3>1. CASE i = 1
      BY <1>1, <3>1
    <3>2. CASE i # 1
      <4>1. i - 1 \in DOMAIN todo' /\ todo'[i - 1] = todo[i]
        BY <1>1, <3>2
      <4>2. QED
        BY <4>1 DEF ToSet
    <3>3. QED
      BY <3>1, <3>2
  <2>2. QED
    BY <2>1 DEF ToSet
<1>5. ToSet(results') = ToSet(results) \union ToSet(RipeResults[id])
  <2> DEFINE a == results
             b == RipeResults[id]
  <2>1. /\ Len(a) \in Nat /\ Len(b) \in Nat /\ DOMAIN a = 1..Len(a) /\ DOMAIN b = 1..Len(b)
        /\ DOMAIN (a \o b) = 1..(Len(a) + Len(b))
        /\ \A i \in 1..(Len(a) + Len(b)) :
             (a \o b)[i] = IF i <= Len(a) THEN a[i] ELSE b[i - Len(a)]
    BY <1>1, <1>2, ConcatProperties
  <2> HIDE DEF a, b
  <2>2. ASSUME NEW i \in 1..(Len(a) + Len(b)) PROVE (a \o b)[i] \in ToSet(a) \union ToSet(b)
    <3>1. CASE i <= Len(a)
      BY <2>1, <3>1 DEF ToSet
    <3>2. CASE i > Len(a)
      <4>1. i - Len(a) \in 1..Len(b)
        BY <2>1, <3>2
      <4>2. QED
        BY <2>1, <3>2, <4>1 DEF ToSet
    <3>3. QED
      BY <2>1, <3>1, <3>2
  <2>3. ASSUME NEW i \in 1..Len(a) PROVE a[i] \in ToSet(a \o b)
    <3>1. i \in 1..(Len(a) + Len(b)) /\ (a \o b)[i] = a[i]
      BY <2>1
    <3>2. QED
      BY <2>1, <3>1 DEF ToSet
  <2>4. ASSUME NEW i \in 1..Len(b) PROVE b[i] \in ToSet(a \o b)
    <3>1. Len(a) + i \in 1..(Len(a) + Len(b)) /\ (a \o b)[Len(a) + i] = b[i]
      BY <2>1
    <3>2. QED
      BY <2>1, <3>1 DEF ToSet
  <2>5. ToSet(a \o b) = ToSet(a) \union ToSet(b)
    BY <2>1, <2>2, <2>3, <2>4 DEF ToSet
  <2>6. QED
    BY <1>1, <2>5 DEF a, b
<1>6. Fetching'
  <2>1. ASSUME NEW i \in DOMAIN config.ids
        PROVE  \/ config.ids[i] \in ToSet(todo')
               \/ ToSet(RipeResults[config.ids[i]]) \subseteq ToSet(results')
    BY <1>4, <1>5 DEF IInv, Fetching
  <2>2. Len(todo') <= Len(config.ids)
    BY <1>1
  <2>3. QED
    BY <1>1, <1>3, <2>1, <2>2 DEF Fetching
<1>7. Asking'
  <2>1. Request' = Request + 1 /\ Request \in Int
    BY <1>1 DEF Request
  <2>2. ASSUME NEW k \in down PROVE k >= Request + 1
    <3>1. k \in Int /\ k >= Request /\ k # Request
      BY <1>1, <2>2 DEF IInv, Asking
    <3>2. QED
      BY <2>1, <3>1
  <2>3. QED
    BY <1>1, <2>1, <2>2 DEF IInv, Asking
<1>8. Loaded'
  BY <1>1 DEF IInv, Loaded
<1>9. Computed'
  BY <1>1 DEF IInv, Loaded, Computed, Answered
<1>10. QED
  BY <1>1, <1>6, <1>7, <1>8, <1>9 DEF IInv

\* A submission is answered.
LEMMA LocateIInv ==
  ASSUME IInv, Locate
  PROVE  IInv'
<1> DEFINE Replies(reports, match) ==
  \E expected \in [DOMAIN reports -> {0} \union Range(dataset.entries)] :
    /\ \A i \in DOMAIN reports : expected[i] \in Expected(reports[i], match)
    /\ reply' = [reports |-> reports, match |-> match, expected |-> expected]
<1>1. PICK reports \in Submissions :
        \E match \in BestMatch(Candidates(dataset, reports)) : Replies(reports, match)
  BY DEF Locate
<1>2. PICK match \in BestMatch(Candidates(dataset, reports)) : Replies(reports, match)
  BY <1>1
<1>3. UNCHANGED served /\ stage = "serving"
  BY DEF Locate
<1>4. Computed'
  <2>1. dataset' = dataset /\ reply'.reports = reports /\ reply'.match = match
    BY <1>2, <1>3 DEF served
  <2>2. \A i \in DOMAIN reports : reply'.expected[i] \in Expected(reports[i], match)
    BY <1>2
  <2>3. Rivals' = Candidates(dataset, reports)
    BY <2>1 DEF Rivals, Candidates
  <2>4. \A r, m : Expected(r, m)' = Expected(r, m)
    BY <2>1 DEF Expected
  <2>5. QED
    BY <2>1, <2>2, <2>3, <2>4 DEF Computed
<1>5. Fetching' /\ Asking' /\ Loaded'
  BY <1>3 DEF IInv, Fetching, Asking, Request, Loaded, Chosen, served
<1>6. QED
  BY <1>3, <1>4, <1>5 DEF IInv, served

\* Every step keeps the invariant.
LEMMA NextIInv ==
  ASSUME IInv, [Next]_vars
  PROVE  IInv'
<1>1. CASE LoadCSV
  <2>1. CASE config.file \in Files
    <3>1. LoadCSVFromReader(config.file) \in Tables
      BY <2>1, SourceAssumption, LoadType
    <3>2. /\ Serve("csv", LoadCSVFromReader(config.file)) /\ stage # "serving"
          /\ UNCHANGED <<config, down, todo, results, reply>>
      BY <1>1, <2>1 DEF LoadCSV
    <3>3. Chosen("csv", LoadCSVFromReader(config.file), known')
      BY <2>1 DEF Chosen
    <3>4. QED
      BY <3>1, <3>2, <3>3, ServeIInv
  <2>2. CASE config.file \notin Files
    <3>1. stage = "csv" /\ stage' = "ripe"
          /\ UNCHANGED <<source, dataset, config, down, todo, results, known, reply>>
      BY <1>1, <2>2 DEF LoadCSV
    <3>2. Fetching' /\ Asking' /\ Loaded' /\ Computed'
      BY <2>2, <3>1 DEF IInv, Fetching, Asking, Request, Loaded, Computed, Answered
    <3>3. QED
      BY <3>1, <3>2 DEF IInv
  <2>3. QED
    BY <2>1, <2>2
<1>2. CASE FetchPingResults
  BY <1>2, FetchIInv
<1>3. CASE FetchProbes
  <2>1. /\ stage = "ripe" /\ todo = <<>> /\ config.file \notin Files /\ config.ids # <<>>
        /\ Serve("ripe", BuildDataset(results, known')) /\ Request \notin down
        /\ UNCHANGED <<config, down, todo, results, reply>>
    BY <1>3 DEF FetchProbes, IInv, Loaded
  <2>2. BuildDataset(results, known') \in Tables
    BY BuildType DEF IInv, Fetching
  <2>3. down = {}
    <3>1. config.ids \in Seq(DOMAIN RipeResults)
      BY SourceAssumption DEF IInv
    <3>2. Request = Len(config.ids) + 1 /\ Len(config.ids) \in Nat
      BY <2>1, <3>1 DEF Request
    <3>3. \A k \in down : k \in 1..(Len(config.ids) + 1) /\ k >= Request
      BY <2>1 DEF IInv, Asking
    <3>4. QED
      BY <2>1, <3>2, <3>3
  <2>4. Chosen("ripe", BuildDataset(results, known'), known')
    BY <2>1, <2>3 DEF Chosen
  <2>5. QED
    BY <2>1, <2>2, <2>4, ServeIInv
<1>4. CASE FallBack
  <2>1. LoadCSVFromReader(Embedded) \in Tables
    BY SourceAssumption, LoadType
  <2>2. /\ stage = "ripe" /\ config.file \notin Files
        /\ config.ids = <<>> \/ down # {}
        /\ Serve("embedded", LoadCSVFromReader(Embedded))
        /\ UNCHANGED <<config, down, todo, results, known, reply>>
    BY <1>4 DEF FallBack, FetchFails, LoadEmbedded, IInv, Loaded
  <2>3. Chosen("embedded", LoadCSVFromReader(Embedded), known')
    BY <2>2 DEF Chosen
  <2>4. QED
    BY <2>1, <2>2, <2>3, ServeIInv
<1>5. CASE Locate
  BY <1>5, LocateIInv
<1>6. CASE Return
  <2>1. reply' = NoReply /\ UNCHANGED served
    BY <1>6 DEF Return
  <2>2. Fetching' /\ Asking' /\ Loaded' /\ Computed'
    BY <2>1 DEF IInv, Fetching, Asking, Request, Loaded, Chosen, Computed, Answered, served
  <2>3. QED
    BY <2>1, <2>2 DEF IInv, served
<1>7. CASE UNCHANGED vars
  <2>1. Fetching' /\ Asking' /\ Loaded'
    BY <1>7 DEF IInv, Fetching, Asking, Request, Loaded, Chosen, vars
  <2>2. Computed'
    <3>1. reply' = reply /\ dataset' = dataset
      BY <1>7 DEF vars
    <3>2. Rivals' = Rivals
      BY <3>1 DEF Rivals, Candidates
    <3>3. \A r, m : Expected(r, m)' = Expected(r, m)
      BY <3>1 DEF Expected
    <3>4. QED
      BY <3>1, <3>2, <3>3 DEF IInv, Computed, Answered
  <2>3. QED
    BY <1>7, <2>1, <2>2 DEF IInv, vars
<1>8. QED
  BY <1>1, <1>2, <1>3, <1>4, <1>5, <1>6, <1>7 DEF Next

\* The dataset is what the stages so far make it, and a reply what Locate makes
\* of the dataset.
THEOREM Invariance == Spec => []IInv
<1>1. IInv /\ [Next]_vars => IInv'
  BY NextIInv
<1>2. QED
  BY <1>1, InitIInv, PTL DEF Spec

-----------------------------------------------------------------------------
(* Theorems *)

\* What the invariant says of an answer.
LEMMA AnswerType ==
  ASSUME IInv, Answered
  PROVE  /\ reply.reports \in Submissions /\ reply.reports \in Seq(Report)
         /\ Rivals = {} => reply.match.city = NoCity
         /\ Rivals # {} => reply.match \in Rivals
         /\ Rivals # {} => \A d \in Rivals : Gap(d, reply.match) < 0 =>
                             \E e \in Rivals : Gap(d, e) < 0 /\ Tied(d, e)
         /\ Rivals # {} /\ (\A d, e \in Rivals : Tied(d, e)) =>
                             \A d \in Rivals : d.matched <= reply.match.matched
<1>1. reply.reports \in Submissions /\ reply.reports \in Seq(Report)
  BY SourceAssumption DEF IInv, Computed
<1>2. reply.match \in BestMatch(Rivals)
  BY DEF IInv, Computed
<1>3. Rivals \subseteq Rival /\ IsFiniteSet(Rivals)
  BY <1>1, RivalsType DEF IInv, Rivals
<1> DEFINE R == Rivals
<1>4. R = Rivals
  OBVIOUS
<1> HIDE DEF R
<1>5. QED
  BY <1>1, <1>2, <1>3, <1>4, BestMatchType

\* Stages, names and places stay what they are, and the answer is the score of
\* a city of the dataset, or of none where none has data.
THEOREM TypeCorrect == Spec => []TypeOK
<1>1. ASSUME IInv PROVE TypeOK
  <2>1. dataset.entries \in Partial(Key, Int) /\ dataset.cities \in Partial(Name, Place)
    BY <1>1 DEF IInv, Tables
  <2>2. \A key \in DOMAIN dataset.entries : dataset.entries[key] \in Int
    BY <2>1 DEF Partial
  <2>3. \A c \in DOMAIN dataset.cities : c \in Name /\ dataset.cities[c] \in Place
    BY <2>1 DEF Partial
  <2>4. /\ stage \in {"csv", "ripe", "serving"}
        /\ source \in {"none", "csv", "ripe", "embedded"}
        /\ (stage = "serving") = (source # "none")
    BY <1>1 DEF IInv, Loaded, Chosen
  <2>5. Answered =>
          /\ reply.reports \in Submissions
          /\ IF Rivals = {} THEN reply.match.city = NoCity ELSE reply.match \in Rivals
    BY <1>1, AnswerType
  <2>6. QED
    BY <2>2, <2>3, <2>4, <2>5 DEF TypeOK
<1>2. QED
  BY <1>1, Invariance, PTL

\* dataset.go:234: although the comparison is no order, the map yields the
\* cities in any order and the sort may pick any pivots, it leaves no gap below
\* the city that it puts first.
THEOREM NoGap == Spec => []NoGapBelowMatch
<1>1. ASSUME IInv PROVE NoGapBelowMatch
  BY <1>1, AnswerType DEF NoGapBelowMatch
<1>2. QED
  BY <1>1, Invariance, PTL

\* dataset.go:237: where all cities tie, one with the most matches is taken.
THEOREM MostMatches == Spec => []CountBreaksTies
<1>1. ASSUME IInv PROVE CountBreaksTies
  BY <1>1, AnswerType DEF CountBreaksTies
<1>2. QED
  BY <1>1, Invariance, PTL

\* main.go: the file before the platform before what is embedded; the platform
\* is taken if all requests to it are answered, and only then, and of it
\* everything.
THEOREM FirstOfThree == Spec => []BestSource
<1>1. ASSUME IInv, stage = "serving" PROVE BestSource
  <2>1. Chosen(source, dataset, known)
    BY <1>1 DEF IInv, Loaded
  <2>2. ASSUME source = "ripe", NEW i \in DOMAIN config.ids,
               NEW r \in ToSet(RipeResults[config.ids[i]]), r.probe \in known
        PROVE  pairKey(r.probe, r.dst) \in DOMAIN dataset.entries
    <3>1. todo = <<>> /\ dataset = BuildDataset(results, known) /\ results \in Seq(PingResult)
      BY <1>1, <2>1, <2>2 DEF IInv, Chosen, Fetching
    <3>2. ToSet(todo) = {}
      BY <3>1 DEF ToSet
    <3>3. r \in ToSet(results)
      BY <1>1, <2>2, <3>2 DEF IInv, Fetching
    <3>4. QED
      BY <2>2, <3>1, <3>3, BuildType
  <2>3. QED
    BY <2>1, <2>2 DEF BestSource, Chosen
<1>2. ASSUME IInv, stage # "serving" PROVE BestSource
  BY <1>2 DEF BestSource
<1>3. IInv => BestSource
  BY <1>1, <1>2
<1>4. QED
  BY <1>3, Invariance, PTL

\* engine.go:128 and 140: the two ways of finding a probe's city, by its ID and
\* by its place, come to the same entry of the table.
THEOREM SameLookup == Spec => []ExpectedIsCompared
<1>1. ASSUME IInv, Answered, Aligned, NEW i \in DOMAIN reply.reports,
             ProbeToCity[reply.reports[i].probe] # reply.match.city, reply.match.city # NoCity
      PROVE  reply.expected[i] = Known(dataset, reply.match.city, reply.reports[i])
  <2> DEFINE p == reply.reports[i].probe
             m == reply.match.city
             c == ProbeToCity[p]
  <2>1. p \in Probe
    <3>1. reply.reports[i] \in Report
      BY <1>1, AnswerType
    <3>2. QED
      BY <3>1 DEF Report
  <2>2. p \in DOMAIN ProbeToCity /\ NearestCities(dataset, At(p)) = {c}
    BY <1>1, <2>1 DEF Aligned
  <2>3. DOMAIN dataset.cities # {}
    BY <2>2 DEF NearestCities
  <2>4. reply.expected[i] \in LookupByProbeCoords(dataset, At(p), m)
    BY <1>1 DEF IInv, Computed, Expected
  <2>5. reply.expected[i] = Lookup(dataset, c, m)
    <3>1. LookupByProbeCoords(dataset, At(p), m)
            = {IF b = m THEN 0 ELSE Lookup(dataset, b, m) : b \in {c}}
      BY <2>2, <2>3 DEF LookupByProbeCoords
    <3>2. c # m
      BY <1>1
    <3> HIDE DEF c, m, p
    <3>3. QED
      BY <2>4, <3>1, <3>2
  <2>6. Lookup(dataset, c, m) = Lookup(dataset, m, c)
    <3>1. pairKey(c, m) = pairKey(m, c)
      BY DEF pairKey
    <3>2. QED
      BY <3>1 DEF Lookup
  <2>7. Known(dataset, m, reply.reports[i]) = Lookup(dataset, m, c)
    BY <2>2 DEF Known
  <2>8. QED
    BY <2>5, <2>6, <2>7
<1>2. IInv => ExpectedIsCompared
  BY <1>1 DEF ExpectedIsCompared
<1>3. QED
  BY <1>2, Invariance, PTL
=============================================================================
