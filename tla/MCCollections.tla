---------------------------- MODULE MCCollections ----------------------------
(* Symmetry of the promises and of the clerks, for TLC. *)
EXTENDS Collections, TLC

SamePromises == Permutations(Promises)
SamePeople == Permutations(Promises) \cup Permutations(Clerks)
=============================================================================
