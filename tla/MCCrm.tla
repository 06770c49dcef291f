-------------------------------- MODULE MCCrm --------------------------------
(* Instances of Crm for TLC. *)
EXTENDS Crm, TLC

Symmetry == Permutations(Threads)
=============================================================================
