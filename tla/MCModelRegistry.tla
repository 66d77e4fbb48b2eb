--------------------------- MODULE MCModelRegistry ---------------------------
(* Instances of ModelRegistry for TLC. *)
EXTENDS ModelRegistry, TLC

Sym == Permutations(Tasks) \cup Permutations(Paths) \cup Permutations(Contents)
=============================================================================
