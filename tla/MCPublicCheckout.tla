-------------------------- MODULE MCPublicCheckout --------------------------
(* PublicCheckout for TLC: one or two trips, two plans, prices that tell them apart. *)
EXTENDS PublicCheckout, TLC

CONSTANTS p1, p2, t1, t2

\* One trip or two; the second costs more and carries another number of passengers.
MCPrice == [t \in Trips |-> [p \in Plans |->
              (IF p = p1 THEN 10 ELSE 20) + (IF t = t1 THEN 0 ELSE 5)]]
MCPax == [t \in Trips |-> IF t = t1 THEN 1 ELSE 2]

\* Threads, sessions and opportunities are interchangeable (safety runs only).
Symmetry == Permutations(Pages) \cup Permutations(Hooks) \cup Permutations(Sessions)
              \cup Permutations(Opps)

\* A commit lost after its answer leaves what a request cut short leaves, but for acked, which
\* no step and no safety property reads.
Kept == \A s \in Sessions : ~Lost(s)
=============================================================================
