------------------------------ MODULE PaidSale ------------------------------
(***************************************************************************)
(* What the public channel promises its buyer: one sale, charged once, and *)
(* covered by one policy for the amount that was charged                   *)
(* (docs/ROADMAP_ESECUREBROKER.md, "pagado -> cliente + poliza VIAJE").    *)
(***************************************************************************)
EXTENDS Sequences

CONSTANT Amounts

VARIABLES
  charged,   \* the amounts the buyer has been charged
  covered,   \* the premiums of the policies issued, in order
  forgotten  \* was the charge acknowledged to the provider and then lost?

sale == <<charged, covered, forgotten>>

Init == charged = {} /\ covered = <<>> /\ forgotten = FALSE

Charge(a) ==
  /\ charged = {}
  /\ charged' = {a}
  /\ UNCHANGED <<covered, forgotten>>

Cover(a) ==
  /\ a \in charged
  /\ covered = <<>>
  /\ covered' = <<a>>
  /\ UNCHANGED <<charged, forgotten>>

Forget ==
  /\ charged # {}
  /\ forgotten' = TRUE
  /\ UNCHANGED <<charged, covered>>

Next == Forget \/ \E a \in Amounts : Charge(a) \/ Cover(a)

\* No charge stays without its policy, unless it is forgotten.
Spec == Init /\ [][Next]_sale /\ (charged # {} ~> covered # <<>> \/ forgotten)
=============================================================================
