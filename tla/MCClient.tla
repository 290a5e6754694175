------------------------------ MODULE MCClient ------------------------------
(***************************************************************************)
(* Client on a line of three places with a probe at either end.            *)
(***************************************************************************)
EXTENDS Client

MCDist(p, q) == IF p < q THEN q - p ELSE p - q
MCTargets == <<0, 2>>
=============================================================================
