----------------------------- MODULE MCSeedInfo -----------------------------
(* Model-checking instances of SeedInfo.                                   *)
EXTENDS SeedInfo, TLC

Symmetry == Permutations(Request)
=============================================================================
