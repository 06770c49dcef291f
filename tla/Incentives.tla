------------------------------ MODULE Incentives ------------------------------
(***************************************************************************)
(* The incentive plans agreed with the carriers (ADR-009): the eligible    *)
(* transactions of a plan, the settlement that is recalculated from them   *)
(* at every change, and its way from calculated to claimed, recognized and *)
(* paid.                                                                   *)
(*                                                                         *)
(* A request reads its rows and decides in one step and commits in a later *)
(* one, writing only the columns it changed; it may die between them.  A   *)
(* recalculation that is refused is answered with a redirect, which        *)
(* commits the change of the transaction it came after.                    *)
(***************************************************************************)
EXTENDS Integers, FiniteSets, FiniteSetsExt

CONSTANTS
  Plans,        \* plans there is room for
  Sources,      \* source ids of transactions
  Amounts,      \* amounts of transactions, in cents
  Agreed,       \* amounts a carrier recognizes or pays, in cents
  Tiers,        \* the tiers a plan may be created with
  Threads,      \* requests in service at once
  MaxRequests,  \* bound: requests served
  None          \* no row, no amount

Plan == [status : {"", "DRAFT", "ACTIVE"}, tiers : SUBSET Tiers, locked : BOOLEAN]
\* within: its date falls in the period of the plan.
Txn == [amount : Amounts, within : BOOLEAN, status : {"PENDING", "CONFIRMED", "REVERSED"},
        reversed : BOOLEAN]
Settlement ==
  [eligible : Nat, benefit : Nat, stage : {"ESTIMATED", "EARNED"},
   status : {"CALCULATED", "CLAIMED", "RECOGNIZED", "PARTIALLY_PAID", "PAID"},
   claimed : Nat \cup {None}, recognized : Agreed \cup {None}, paid : Agreed \cup {None},
   closed : BOOLEAN]

ASSUME IncentivesAssumption ==
  /\ Amounts \subseteq Nat /\ Agreed \subseteq Nat /\ None \notin Nat
  /\ None \notin Plans /\ IsFiniteSet(Sources)
  /\ None \notin Txn /\ None \notin Settlement
  /\ Tiers \subseteq [threshold : Nat, kind : {"PERCENTAGE", "FIXED_AMOUNT"}, value : Nat]
  /\ MaxRequests \in Nat

VARIABLES
  plan,        \* carrier_incentive_plans, each with its tiers
  txn,         \* carrier_incentive_eligible_txns, by plan and source
  settlement,  \* carrier_incentive_settlements: one period label a plan
  evidence,    \* how many rows of carrier_incentive_evidence a plan has
  req,         \* the request of each thread: its plan of writes
  served,      \* requests begun so far
  behind       \* history: plans written by a request that had read them before another
               \* wrote them, or whose transactions changed under the address of another plan

vars == <<plan, txn, settlement, evidence, req, served, behind>>

\* kind "": nothing to commit.  tp and source: the transaction written; sp: the plan whose
\* settlement is written.
NoPlan == [kind |-> "", tp |-> None, source |-> None, told |-> None, was |-> None, now |-> None,
           sp |-> None, swas |-> None, snow |-> None, lock |-> FALSE, settles |-> FALSE,
           stale |-> FALSE]

-----------------------------------------------------------------------------
(* compute_progress *)

Created == {p \in Plans : plan[p].status # ""}
Filed(rows) == {s \in Sources : rows[s] # None}

\* _sum_txns
Sum(rows, status) ==
  LET counted == {s \in Filed(rows) : rows[s].status \in status /\ rows[s].within}
  IN  FoldSet(LAMBDA s, total : total + rows[s].amount, 0, counted)

\* The highest tier whose threshold is met: of two with the same threshold, either.
Reached(tiers, amount) == {t \in tiers : t.threshold <= amount}
Hit(tiers, amount) ==
  CHOOSE t \in Reached(tiers, amount) : \A u \in Reached(tiers, amount) : u.threshold <= t.threshold

\* _benefit_for_amount: percent points of the amount, rounded half up, or a fixed sum.
Benefit(tiers, amount) ==
  IF Reached(tiers, amount) = {} THEN 0
  ELSE LET t == Hit(tiers, amount)
       IN  IF t.kind = "FIXED_AMOUNT" THEN t.value ELSE (amount * t.value + 50) \div 100

Fresh == [eligible |-> 0, benefit |-> 0, stage |-> "ESTIMATED", status |-> "CALCULATED",
          claimed |-> None, recognized |-> None, paid |-> None, closed |-> FALSE]

\* Variant: pending transactions are eligible.
CalculatedPending(row, tiers, rows) ==
  LET confirmed == Sum(rows, {"CONFIRMED", "PENDING"})
  IN  [row EXCEPT !.eligible = confirmed, !.benefit = Benefit(tiers, confirmed),
                  !.stage = IF Reached(tiers, confirmed) # {} THEN "EARNED" ELSE "ESTIMATED"]

\* What a recalculation writes: until a tier is reached the benefit is the one that the
\* pending transactions would bring.
Calculated(row, tiers, rows) ==
  LET confirmed == Sum(rows, {"CONFIRMED"})
      earned == Reached(tiers, confirmed) # {}
  IN  [row EXCEPT !.eligible = confirmed,
                  !.stage = IF earned THEN "EARNED" ELSE "ESTIMATED",
                  !.benefit = IF earned THEN Benefit(tiers, confirmed)
                              ELSE Benefit(tiers, Sum(rows, {"CONFIRMED", "PENDING"}))]

\* Variant: a settlement that was recognized is recalculated.
OpenAlways(p) == TRUE

\* upsert_calculated_settlement refuses a closed settlement.
IsOpen(p) == settlement[p] # None => ~settlement[p].closed

\* The recalculation of plan p, given its transactions as the request sees them.
Recalculated(q, p, rows) ==
  IF ~IsOpen(p) THEN q
  ELSE LET old == IF settlement[p] = None THEN Fresh ELSE settlement[p]
       IN  [q EXCEPT !.sp = p, !.swas = settlement[p], !.settles = TRUE,
                     !.snow = Calculated(old, plan[p].tiers, rows)]

-----------------------------------------------------------------------------
(* Plans *)

Ready(r) == req[r].kind = "" /\ served < MaxRequests

\* beneficios_create: the plan, its tier, its scope, its activation.  A tier or a line that
\* is refused leaves the draft behind: the redirect commits it.  Nobody sees the plan before.
CreatePlan ==
  /\ served < MaxRequests
  /\ \E p \in Plans, t \in Tiers :
       /\ plan[p].status = ""
       /\ \E made \in {[status |-> "DRAFT", tiers |-> {}, locked |-> FALSE],
                       [status |-> "DRAFT", tiers |-> {t}, locked |-> FALSE],
                       [status |-> "ACTIVE", tiers |-> {t}, locked |-> FALSE]} :
            plan' = [plan EXCEPT ![p] = made]
  /\ served' = served + 1
  /\ UNCHANGED <<txn, settlement, evidence, req, behind>>

AddEvidence ==
  /\ served < MaxRequests
  /\ \E p \in Created : evidence' = [evidence EXCEPT ![p] = @ + 1]
  /\ served' = served + 1
  /\ UNCHANGED <<plan, txn, settlement, req, behind>>

-----------------------------------------------------------------------------
(* Transactions *)

Begin(r, q) ==
  /\ req' = [req EXCEPT ![r] = q]
  /\ served' = served + 1
  /\ UNCHANGED <<plan, txn, settlement, evidence, behind>>

\* beneficio_add_txn: a source on file is left as it is, and the plan is recalculated.
AddTxn(r) ==
  /\ Ready(r)
  /\ \E p \in Created, s \in Sources, a \in Amounts, w \in BOOLEAN,
        c \in {"PENDING", "CONFIRMED", "REVERSED"} :
       LET row == [amount |-> a, within |-> w, status |-> c, reversed |-> FALSE]
           q == [NoPlan EXCEPT !.kind = "txn", !.tp = p, !.source = s]
       IN  IF txn[p][s] = None
           THEN Begin(r, Recalculated([q EXCEPT !.now = row], p, [txn[p] EXCEPT ![s] = row]))
           ELSE Begin(r, Recalculated([q EXCEPT !.was = txn[p][s], !.now = txn[p][s]], p, txn[p]))

\* A change of one transaction under the address of plan u, which is the one recalculated.
Changed(r, p, s, now, u) ==
  LET q == [NoPlan EXCEPT !.kind = "txn", !.tp = p, !.source = s, !.told = u,
                          !.was = txn[p][s], !.now = now]
  IN  Begin(r, Recalculated(q, u, IF u = p THEN [txn[p] EXCEPT ![s] = now] ELSE txn[u]))

\* Variant: a transaction that was reversed can be confirmed again.
ConfirmableAny(row) == TRUE

Confirmable(row) == row.status # "REVERSED"

\* beneficio_confirm_txn: the transaction is looked up by its own id.
ConfirmTxn(r) ==
  /\ Ready(r)
  /\ \E p, u \in Created : \E s \in Filed(txn[p]) :
       /\ Confirmable(txn[p][s])
       /\ Changed(r, p, s, [txn[p][s] EXCEPT !.status = "CONFIRMED"], u)

\* beneficio_reverse_txn
ReverseTxn(r) ==
  /\ Ready(r)
  /\ \E p, u \in Created : \E s \in Filed(txn[p]) :
       Changed(r, p, s, IF txn[p][s].status = "REVERSED" THEN txn[p][s]
                        ELSE [txn[p][s] EXCEPT !.status = "REVERSED", !.reversed = TRUE], u)

-----------------------------------------------------------------------------
(* The settlement *)

\* beneficio_reclamar recalculates first and claims what comes out.
Claim(r) ==
  /\ Ready(r)
  /\ \E p \in Created :
       /\ IsOpen(p)
       /\ LET q == Recalculated([NoPlan EXCEPT !.kind = "claim"], p, txn[p])
          IN  Begin(r, [q EXCEPT !.snow.status = "CLAIMED", !.snow.claimed = q.snow.benefit])

\* Variant: a calculated settlement may be recognized.
ReclaimedAny(row) == row.status \in {"CALCULATED", "CLAIMED", "RECOGNIZED"}

\* mark_recognized
Reclaimed(row) == row.status \in {"CLAIMED", "RECOGNIZED"}

Recognize(r) ==
  /\ Ready(r)
  /\ \E p \in Created, a \in Agreed :
       /\ settlement[p] # None /\ Reclaimed(settlement[p])
       /\ Begin(r, [NoPlan EXCEPT !.kind = "recognize", !.sp = p, !.swas = settlement[p],
                      !.lock = TRUE,
                      !.snow = [settlement[p] EXCEPT !.status = "RECOGNIZED", !.recognized = a,
                                                     !.closed = TRUE]])

\* mark_paid: the last amount paid replaces the one before.
Pay(r) ==
  /\ Ready(r)
  /\ \E p \in Created, a \in Agreed :
       /\ settlement[p] # None
       /\ settlement[p].status \in {"RECOGNIZED", "PARTIALLY_PAID", "PAID"}
       /\ Begin(r, [NoPlan EXCEPT !.kind = "pay", !.sp = p, !.swas = settlement[p],
                      !.snow = [settlement[p] EXCEPT
                                  !.paid = a, !.closed = TRUE,
                                  !.status = IF a < settlement[p].recognized
                                               THEN "PARTIALLY_PAID" ELSE "PAID"]])

-----------------------------------------------------------------------------
(* Committing *)

\* The columns of a row that the request changed.
Written(row, was, now) == [f \in DOMAIN row |-> IF now[f] = was[f] THEN row[f] ELSE now[f]]

\* The unique indexes refuse a row that another request has inserted meanwhile.
TakenSource(q) == q.tp # None /\ q.was = None /\ txn[q.tp][q.source] # None
TakenPeriod(q) == q.sp # None /\ q.swas = None /\ settlement[q.sp] # None

Touched(q) == {q.tp, q.sp, q.told} \ {None}

\* A request that was read before another commit leaves its plans behind; a recalculation
\* that was not brings its plan up to date, and a change under another address does not.
Behind(q) ==
  LET healed == IF q.settles /\ ~q.stale THEN behind \ {q.sp} ELSE behind
  IN  healed \cup (IF q.stale THEN Touched(q) ELSE {})
             \cup (IF q.told \notin {None, q.tp} /\ q.was # q.now THEN {q.tp} ELSE {})

Commit(r) ==
  LET q == req[r]
  IN  /\ q.kind # ""
      /\ ~TakenSource(q) /\ ~TakenPeriod(q)
      /\ txn' = IF q.tp = None THEN txn
                ELSE [txn EXCEPT ![q.tp][q.source] = IF q.was = None \/ @ = None THEN q.now
                                                     ELSE Written(@, q.was, q.now)]
      /\ settlement' = IF q.sp = None THEN settlement
                       ELSE [settlement EXCEPT ![q.sp] = IF q.swas = None THEN q.snow
                                                         ELSE Written(@, q.swas, q.snow)]
      /\ plan' = IF q.lock THEN [plan EXCEPT ![q.sp].locked = TRUE] ELSE plan
      /\ req' = [s \in Threads |->
           IF s = r THEN NoPlan
           ELSE [req[s] EXCEPT !.stale = @ \/ Touched(req[s]) \cap Touched(q) # {}]]
      /\ behind' = Behind(q)
      /\ UNCHANGED <<evidence, served>>

\* A request is lost before its commit, or refused by an index, with all it wrote.
Die(r) ==
  /\ req[r].kind # ""
  /\ req' = [req EXCEPT ![r] = NoPlan]
  /\ UNCHANGED <<plan, txn, settlement, evidence, served, behind>>

-----------------------------------------------------------------------------

Init ==
  /\ plan \in [Plans -> {[status |-> "", tiers |-> {}, locked |-> FALSE]}
                        \cup {[status |-> "ACTIVE", tiers |-> {t}, locked |-> FALSE] : t \in Tiers}]
  /\ txn = [p \in Plans |-> [s \in Sources |-> None]]
  /\ settlement = [p \in Plans |-> None]
  /\ evidence = [p \in Plans |-> 0]
  /\ req = [r \in Threads |-> NoPlan]
  /\ served = 0
  /\ behind = {}

Next ==
  \/ CreatePlan \/ AddEvidence
  \/ \E r \in Threads :
       \/ AddTxn(r) \/ ConfirmTxn(r) \/ ReverseTxn(r)
       \/ Claim(r) \/ Recognize(r) \/ Pay(r)
       \/ Commit(r) \/ Die(r)

Spec == Init /\ [][Next]_vars

-----------------------------------------------------------------------------
(* Properties *)

TypeOK ==
  /\ plan \in [Plans -> Plan]
  /\ txn \in [Plans -> [Sources -> Txn \cup {None}]]
  /\ settlement \in [Plans -> Settlement \cup {None}]
  /\ evidence \in [Plans -> Nat]
  /\ \A r \in Threads : req[r].kind \in {"", "txn", "claim", "recognize", "pay"}
  /\ served \in 0 .. MaxRequests /\ behind \subseteq Plans

\* An open settlement says what the confirmed transactions of its plan say, whatever was
\* added, confirmed or reversed, and it never lags for longer than until the next
\* recalculation of the plan that no other request overlaps.
SettlementFollows ==
  \A p \in Plans \ behind :
    settlement[p] # None /\ ~settlement[p].closed =>
      /\ settlement[p].eligible = Sum(txn[p], {"CONFIRMED"})
      /\ settlement[p].stage = "EARNED" =>
           settlement[p].benefit = Benefit(plan[p].tiers, Sum(txn[p], {"CONFIRMED"}))

\* "liquidacion cerrada; no se recalcula en silencio" (carrier_incentives.py:714): what a
\* closed settlement was calculated from stays, except that a recalculation may overtake
\* the close.
ClosedIsFrozen ==
  [][\A p \in Plans \ behind' :
       settlement[p] # None =>
         /\ settlement'[p] # None
         /\ settlement[p].closed =>
              /\ settlement'[p].closed
              /\ settlement'[p].eligible = settlement[p].eligible
              /\ settlement'[p].benefit = settlement[p].benefit
              /\ settlement'[p].claimed = settlement[p].claimed]_settlement

\* "ORIGINAL -> CONFIRMED -> REVERSED. Never DELETE" (carrier_incentives.py:486): no
\* transaction disappears or changes its amount, and none that was reversed counts again
\* unless its confirmation and its reversal overlapped.
ReversedStays ==
  [][\A p \in Plans : \A s \in Filed(txn[p]) :
       /\ txn'[p][s] # None /\ txn'[p][s].amount = txn[p][s].amount
       /\ p \notin behind' /\ txn[p][s].status = "REVERSED" => txn'[p][s].status = "REVERSED"]_txn

\* Nothing is paid that was not recognized, nor recognized that was not claimed, and from the
\* recognition on the conditions of the plan are locked, whatever overlaps.  Without an
\* overlap the settlement is paid when the amount reaches what was recognized.
MoneyFollowsClaim ==
  \A p \in Plans : settlement[p] # None =>
    LET s == settlement[p]
    IN  /\ s.paid # None => s.recognized # None
        /\ s.recognized # None => s.claimed # None /\ s.closed /\ plan[p].locked
        /\ p \notin behind /\ s.status = "PAID" => s.paid >= s.recognized
        /\ p \notin behind /\ s.status = "PARTIALLY_PAID" => s.paid < s.recognized
=============================================================================
