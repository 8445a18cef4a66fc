--------------------------- MODULE MCHookChannel ---------------------------
(* Model-checking instances of HookChannel.                                *)
EXTENDS HookChannel, TLC

Symmetry == Permutations(Producer)
=============================================================================
