--------------------------- MODULE MCRunProvenance ---------------------------
(* An instance of RunProvenance for TLC. *)
EXTENDS RunProvenance, TLC

Sym == Permutations(Tasks) \cup Permutations(Contents)
=============================================================================
