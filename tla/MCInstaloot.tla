---------------------------- MODULE MCInstaloot ----------------------------
(* Model-checking instances of Instaloot.                                  *)
EXTENDS Instaloot, TLC

Symmetry == Permutations(Item) \cup Permutations(File)
              \cup Permutations(Listener) \cup Permutations(Mode)
=============================================================================
