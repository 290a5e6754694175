----------------------------- MODULE MCDataset -----------------------------
(***************************************************************************)
(* DatasetSource on a line: three probes in three of four cities, and RTTs *)
(* in such units that errors of half a percent and of one percent occur:   *)
(* with 2 from every probe, B ties with A and A with D, but not B with D.  *)
(***************************************************************************)
EXTENDS DatasetSource

MCPlace == 0..8
MCDist(p, q) == AbsDiff(p, q)

Row(a, b, rtt) ==
  LET at == [A |-> 1, B |-> 3, C |-> 5, D |-> 7]
  IN  [src |-> a, dst |-> b, avg |-> rtt, srcAt |-> at[a], dstAt |-> at[b]]

MCProbeToCity == [pa |-> "A", pb |-> "B", pc |-> "C"]
MCAt(p) == [pa |-> 1, pb |-> 3, pc |-> 5][p]

\* As in the real table, some pairs are missing.
MCEmbedded ==
  << Row("A", "B", 100), Row("C", "A", 200), Row("D", "A", 200),
     Row("B", "D", 200), Row("D", "C", 200) >>

\* A header without rows, and a file with a pair of each kind: overwritten,
\* of a city with itself, not a number, and in a city at the origin.
Custom ==
  << Row("A", "B", 100), Row("B", "A", 200), Row("A", "A", 100), Row("C", "B", 0),
     Row("D", "A", 100), [Row("C", "D", 200) EXCEPT !.dstAt = 0] >>
MCFiles == {<<>>, Custom}

Result(probe, dst, rtt) == [probe |-> probe, dst |-> dst, avg |-> rtt]
MCRipeAt(p) == [r1 |-> 1, r2 |-> 3, r3 |-> 5, r4 |-> 0][p]

\* The platform gives -1 where no ping was answered.
MCRipeResults ==
  << <<Result("r1", "x", 100), Result("r2", "x", 200)>>,
     <<Result("r3", "x", 100), Result("r1", "x", -1), Result("r1", "y", 200),
       Result("r4", "y", 100)>> >>
MCIDs == {<<>>, <<1>>, <<1, 2>>}

Reports == {[probe |-> p, rtt |-> rtt] : p \in {"pa", "pb", "pc"}, rtt \in {0, 2, 100, 200}}
MCSubmissions == SeqOf(Reports, 2) \union
  {<<a, b, c>> : a \in {r \in Reports : r.probe = "pa"}, b \in {r \in Reports : r.probe = "pb"},
                 c \in {r \in Reports : r.probe = "pc"}}
=============================================================================
