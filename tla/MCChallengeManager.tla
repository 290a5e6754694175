------------------------- MODULE MCChallengeManager -------------------------
(***************************************************************************)
(* ChallengeManager for TLC.  The time to live is one second of two ticks, *)
(* so that a challenge drawn at an odd tick expires in mid-second, and the *)
(* clock runs to the last tick at which its reported second has not passed *)
(* and beyond.                                                             *)
(***************************************************************************)
EXTENDS ChallengeManager, TLC

\* The goroutines run the same code, and the names of challenges and clients
\* mean nothing to the manager.
Symmetry ==
  Permutations(Goroutine) \union Permutations(ChallengeId) \union Permutations(Client)
=============================================================================
