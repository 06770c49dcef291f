---------------------------- MODULE MCOrgAccess ------------------------------
(* Instances of OrgAccess for TLC. *)
EXTENDS OrgAccess, TLC

SmallLimits == {[internal |-> 1, producer |-> 1], [internal |-> 2, producer |-> 0]}
ThreadSymmetry == Permutations(Threads)
=============================================================================
