----------------------------- MODULE MCIncentives -----------------------------
(* Instances of Incentives for TLC. *)
EXTENDS Incentives, TLC

Symmetry == Permutations(Threads) \cup Permutations(Plans) \cup Permutations(Sources)

\* Two percent from ten units on.
TwoPercent == {[threshold |-> 1000, kind |-> "PERCENTAGE", value |-> 2]}
=============================================================================
