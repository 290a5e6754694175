----------------------------- MODULE MCStorage -----------------------------
(***************************************************************************)
(* Storage for TLC: summer time, two ticks ahead of UTC, ends at tick 2.   *)
(***************************************************************************)
EXTENDS Storage

MCOffset(t) == IF t < 2 THEN 2 ELSE 1

MCLimits == {-1, 0, 1, 2}

Symmetry == Permutations(Goroutine) \union Permutations(Client)
=============================================================================
