----------------------------- MODULE MCPortfolio -----------------------------
(* Instances of Portfolio for TLC. *)
EXTENDS Portfolio, TLC

Symmetry == Permutations(Threads) \cup Permutations(Keys) \cup Permutations(Producers)
Quarters == {<<25, 25, 25, 25>>}
=============================================================================
