---------------------------- MODULE MCGeoEngine ----------------------------
(***************************************************************************)
(* GeoEngine on a piece of plane: places 200 km apart, the distance is the *)
(* larger of the two coordinate differences, the unit is 100 km and 1 ms.  *)
(* The grid takes every other place around the centre of a circle, so that *)
(* like the grid of the code it can miss a narrow overlap.                 *)
(***************************************************************************)
EXTENDS GeoEngine

MCPlace == {2 * x : x \in 0..10} \X {0, 2, 4}
MCProbe == {<<0, 0>>, <<8, 4>>, <<20, 0>>}

Abs(n) == IF n < 0 THEN -n ELSE n
Larger(a, b) == IF a > b THEN a ELSE b

MCDist(p, q) == Larger(Abs(p[1] - q[1]), Abs(p[2] - q[2]))

MCGrid(c, r) ==
  {p \in MCPlace : /\ MCDist(p, c) <= r
                   /\ (p[1] - c[1]) % 4 = 0 /\ (p[2] - c[2]) % 4 = 0}

\* The distance of the farthest sample from the mean of all, rounded up.
MCSpread(S) ==
  LET n == Cardinality(S)
      mean(x(_)) == FoldSet(LAMBDA p, acc : x(p) + acc, 0, S)
      cx == mean(LAMBDA p : p[1])
      cy == mean(LAMBDA p : p[2])
      far == Max({Larger(Abs(n * p[1] - cx), Abs(n * p[2] - cy)) : p \in S})
  IN  (far + n - 1) \div n

\* No answer, short, just beyond the overhead, medium, and three long ones:
\* without jitter, and twice as a VPN would look.
MCRttLists ==
  { <<>>, <<8, 9, 8>>, <<16, 14, 18>>, <<20, 18, 22>>, <<33, 31, 32>>,
    <<60, 60, 60>>, <<60, 61, 60>>, <<62, 61, 60>> }
=============================================================================
