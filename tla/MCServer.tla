------------------------------ MODULE MCServer ------------------------------
(***************************************************************************)
(* Server for TLC: reports of each kind that the verdict and the anomalies *)
(* tell apart.                                                             *)
(***************************************************************************)
EXTENDS Server, TLC

Clean == [known |-> TRUE, impossible |-> FALSE, jitter |-> FALSE, vpn |-> FALSE,
          correlated |-> TRUE, confident |-> TRUE]
VPN == [Clean EXCEPT !.vpn = TRUE, !.confident = FALSE]
SteadyVPN == [VPN EXCEPT !.jitter = TRUE]
Contradiction == [Clean EXCEPT !.impossible = TRUE, !.correlated = FALSE]
UnknownProbe == [Clean EXCEPT !.known = FALSE]

AllReports == {Clean, VPN, SteadyVPN, Contradiction, UnknownProbe}
TwoReports == {VPN, UnknownProbe}

Symmetry ==
  Permutations(Goroutine) \union Permutations(ChallengeId) \union Permutations(Client)
=============================================================================
