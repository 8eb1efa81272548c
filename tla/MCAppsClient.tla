---------------------------- MODULE MCAppsClient ----------------------------
(* An instance of AppsClient for TLC.                                       *)
EXTENDS AppsClient, TLC
Symmetry == Permutations(Callers)
=============================================================================
