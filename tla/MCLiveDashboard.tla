--------------------------- MODULE MCLiveDashboard ---------------------------
(* Instances of LiveDashboard for TLC. *)
EXTENDS LiveDashboard, TLC

Sym == Permutations(Publishers)
=============================================================================
