------------------------------ MODULE MCOutreach ------------------------------
(* Instances of Outreach for TLC. *)
EXTENDS Outreach, TLC

CONSTANTS q1, q2, c1, c2

\* Both policies are of one customer; the other has none.
Clients == (q1 :> c1) @@ (q2 :> c1)

\* The customer with the policies is the older one.
Ranks == (c1 :> 2) @@ (c2 :> 1)

Symmetry == Permutations(Threads) \cup Permutations(Contents)
\* The two halves of the module share the notes and nothing else: a behaviour is about the
\* phones or about the statements, which do not ask who holds the policies.
Phones ==
  \/ files > 0 \/ \E n \in Range(note) : n.item.text # "mailed"
  \/ \E r \in Threads : req[r].kind \in {"note", "doc", "office", "delete"}
Statements ==
  \/ mail # <<>> \/ delivery # <<>> \/ owes # {} \/ today > 1 \/ cache # {} \/ setting.mail
  \/ \E r \in Threads : req[r].kind \in {"hand", "batch", "settings"}
\* Two batches at once go over one customer, a single one over both.
Single == c2 \notin owes \/ Cardinality({r \in Threads : req[r].kind = "batch"}) < 2
Apart == Single /\ ~(Phones /\ Statements) /\ (Statements => \A p \in Policies : holder[p] = None)
=============================================================================
