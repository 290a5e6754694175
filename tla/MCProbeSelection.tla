-------------------------- MODULE MCProbeSelection --------------------------
(***************************************************************************)
(* ProbeSelection for TLC: a table of six probes in three regions, whose   *)
(* order is neither that of the regions nor of the distances.              *)
(***************************************************************************)
EXTENDS ProbeSelection

MCProbes == <<"lax", "fra", "sea", "lon", "hnd", "par">>
MCRegions == <<"asia", "eu", "na">>
MCRegion(p) ==
  IF p \in {"lax", "sea"} THEN "na" ELSE IF p = "hnd" THEN "asia" ELSE "eu"
=============================================================================
