--------------------------- MODULE IncentivesProofs ---------------------------
(***************************************************************************)
(* Theorems about Incentives, for any plans, tiers, amounts and number of  *)
(* requests: types, that an open settlement says what its confirmed        *)
(* transactions say, that no money is paid that was not claimed and        *)
(* recognized, that a closed settlement is frozen and that what was        *)
(* reversed stays reversed.                                                *)
(***************************************************************************)
EXTENDS Incentives, FiniteSetTheorems, WellFoundedInduction, TLAPS

-----------------------------------------------------------------------------
(* A sum of amounts is a number *)

LEMMA LeastOf ==
  ASSUME NEW T \in SUBSET Nat, T # {}
  PROVE  \E m \in T : \A k \in T : m <= k
  <1> DEFINE R == OpToRel(<, Nat)
  <1>1. PICK m \in T : \A k \in T : <<k, m>> \notin R
    BY NatLessThanWellFounded, WFMin
  <1>2. \A k \in T : ~(k < m)
    BY <1>1 DEF OpToRel
  <1> QED
    BY <1>2

\* The sum over s, given the sums over the sets with one element less.
Total(rows, g, s) ==
  IF s = {} THEN 0 ELSE LET x == CHOOSE x \in s : TRUE IN g[s \ {x}] + rows[x].amount

LEMMA RemoveChosen ==
  ASSUME NEW C, IsFiniteSet(C), NEW s \in SUBSET C, s # {}
  PROVE  LET x == CHOOSE x \in s : TRUE
         IN  /\ x \in s /\ s \ {x} \in SUBSET C /\ Cardinality(s) \in Nat \ {0}
             /\ Cardinality(s \ {x}) = Cardinality(s) - 1
  <1> DEFINE x == CHOOSE x \in s : TRUE
  <1>1. x \in s /\ s \ {x} \in SUBSET C
    OBVIOUS
  <1>2. IsFiniteSet(s) /\ Cardinality(s) \in Nat
    BY FS_Subset, FS_CardinalityType
  <1>3. Cardinality(s) # 0
    BY <1>2, FS_EmptySet
  <1> HIDE DEF x
  <1>4. Cardinality(s \ {x}) = Cardinality(s) - 1
    BY <1>1, <1>2, FS_RemoveElement
  <1> QED
    BY <1>1, <1>2, <1>3, <1>4 DEF x

\* The recursion that computes a sum has a solution, built up by the size of the sets.
LEMMA TotalExists ==
  ASSUME NEW C, IsFiniteSet(C), NEW rows
  PROVE  \E g : g = [s \in SUBSET C |-> Total(rows, g, s)]
  <1> DEFINE D(n) == {s \in SUBSET C : Cardinality(s) <= n}
             Solved(n) == \E g : g = [s \in D(n) |-> Total(rows, g, s)]
             T == {n \in Nat : ~Solved(n)}
  <1>1. \A s \in SUBSET C : IsFiniteSet(s) /\ Cardinality(s) \in Nat /\ Cardinality(s) <= Cardinality(C)
    BY FS_Subset, FS_CardinalityType
  <1>2. Cardinality(C) \in Nat
    BY FS_CardinalityType
  <1>3. Solved(0)
    <2> DEFINE g == [s \in D(0) |-> 0]
    <2>1. \A s \in D(0) : s = {}
      BY <1>1, FS_EmptySet
    <2>2. \A s \in D(0) : Total(rows, g, s) = 0
      BY <2>1 DEF Total
    <2>3. g = [s \in D(0) |-> Total(rows, g, s)]
      BY <2>2
    <2> QED
      BY <2>3
  <1>4. ASSUME NEW n \in Nat, Solved(n)
        PROVE  Solved(n + 1)
    <2>1. PICK g : g = [s \in D(n) |-> Total(rows, g, s)]
      BY <1>4
    <2> DEFINE h == [s \in D(n + 1) |-> Total(rows, g, s)]
    <2>2. \A s \in D(n) : h[s] = g[s]
      <3>1. \A s \in D(n) : s \in D(n + 1)
        BY <1>1
      <3> QED
        BY <2>1, <3>1
    <2>3. ASSUME NEW s \in D(n + 1)
          PROVE  Total(rows, h, s) = Total(rows, g, s)
      <3>1. CASE s = {}
        BY <3>1 DEF Total
      <3>2. CASE s # {}
        <4> DEFINE x == CHOOSE x \in s : TRUE
        <4>1. s \ {x} \in SUBSET C /\ Cardinality(s) \in Nat /\ Cardinality(s \ {x}) = Cardinality(s) - 1
          BY <3>2, RemoveChosen
        <4>2. s \ {x} \in D(n)
          BY <4>1
        <4>3. h[s \ {x}] = g[s \ {x}]
          BY <2>2, <4>2
        <4> HIDE DEF h
        <4> QED
          BY <3>2, <4>3 DEF Total
      <3> QED
        BY <3>1, <3>2
    <2>4. h = [s \in D(n + 1) |-> Total(rows, h, s)]
      BY <2>3
    <2> QED
      BY <2>4
  <1> HIDE DEF Solved
  <1>5. T = {}
    <2> SUFFICES ASSUME T # {} PROVE FALSE
      OBVIOUS
    <2>1. PICK m \in T : \A k \in T : m <= k
      BY LeastOf
    <2>2. m \in Nat /\ m # 0 /\ ~Solved(m)
      BY <1>3, <2>1
    <2>3. m - 1 \in Nat /\ m - 1 + 1 = m /\ ~(m <= m - 1)
      BY <2>2
    <2>4. Solved(m - 1)
      BY <2>1, <2>3
    <2> QED
      BY <1>4, <2>2, <2>3, <2>4
  <1>6. Solved(Cardinality(C))
    BY <1>2, <1>5
  <1>7. D(Cardinality(C)) = SUBSET C
    BY <1>1
  <1> QED
    BY <1>6, <1>7 DEF Solved

Counted(rows, status) == {s \in Filed(rows) : rows[s].status \in status /\ rows[s].within}

LEMMA SumIsNat ==
  ASSUME NEW rows \in [Sources -> Txn \cup {None}], NEW status
  PROVE  Sum(rows, status) \in Nat
  <1> DEFINE C == Counted(rows, status)
             g == CHOOSE g : g = [s \in SUBSET C |-> Total(rows, g, s)]
             Bad == {s \in SUBSET C : g[s] \notin Nat}
             T == {Cardinality(s) : s \in Bad}
  <1>1. Sum(rows, status) = g[C]
    BY DEF Sum, FoldSet, MapThenFoldSet, Counted, Total
  <1>2. C \in SUBSET Sources /\ \A x \in C : rows[x].amount \in Nat
    BY IncentivesAssumption DEF Counted, Filed, Txn
  <1>3. IsFiniteSet(C)
    BY <1>2, IncentivesAssumption, FS_Subset
  <1> HIDE DEF C
  <1>4. g = [s \in SUBSET C |-> Total(rows, g, s)]
    BY <1>3, TotalExists
  <1> HIDE DEF g
  <1>5. \A s \in SUBSET C : g[s] = Total(rows, g, s)
    BY <1>4
  <1>6. \A s \in SUBSET C : Cardinality(s) \in Nat
    BY <1>3, FS_Subset, FS_CardinalityType
  <1>7. Bad = {}
    <2> SUFFICES ASSUME Bad # {} PROVE FALSE
      OBVIOUS
    <2>1. T \in SUBSET Nat /\ T # {}
      BY <1>6
    <2>2. PICK m \in T : \A k \in T : m <= k
      BY <2>1, LeastOf
    <2>3. PICK s \in Bad : m = Cardinality(s)
      BY <2>2
    <2>4. g[s] = Total(rows, g, s) /\ g[s] \notin Nat
      BY <1>5, <2>3
    <2>5. s # {}
      BY <2>4 DEF Total
    <2> DEFINE x == CHOOSE x \in s : TRUE
    <2>6. /\ x \in s /\ s \ {x} \in SUBSET C /\ Cardinality(s) \in Nat
          /\ Cardinality(s \ {x}) = Cardinality(s) - 1
      BY <1>3, <2>3, <2>5, RemoveChosen
    <2>7. g[s \ {x}] \in Nat
      <3> SUFFICES ASSUME s \ {x} \in Bad PROVE FALSE
        BY <2>6
      <3>1. Cardinality(s \ {x}) \in T
        OBVIOUS
      <3> QED
        BY <2>2, <2>3, <2>6, <3>1
    <2>8. rows[x].amount \in Nat
      BY <1>2, <2>3, <2>6
    <2>9. Total(rows, g, s) = g[s \ {x}] + rows[x].amount
      BY <2>5 DEF Total
    <2> QED
      BY <2>4, <2>7, <2>8, <2>9
  <1>8. g[C] \in Nat
    BY <1>7
  <1> QED
    BY <1>1, <1>8

-----------------------------------------------------------------------------
(* The benefit of a tier is a number *)

LEMMA HitIsReached ==
  ASSUME NEW tiers \in SUBSET Tiers, NEW n \in Nat, Reached(tiers, n) # {}
  PROVE  Hit(tiers, n) \in Tiers
  <1> DEFINE S == Reached(tiers, n)
             T == {n - t.threshold : t \in S}
  <1>1. \A t \in S : t \in Tiers /\ t.threshold \in Nat /\ n - t.threshold \in Nat
    BY IncentivesAssumption DEF Reached
  <1>2. T \in SUBSET Nat /\ T # {}
    BY <1>1
  <1>3. PICK m \in T : \A k \in T : m <= k
    BY <1>2, LeastOf
  <1>4. PICK t \in S : m = n - t.threshold
    BY <1>3
  <1>5. \A u \in S : u.threshold <= t.threshold
    <2> TAKE u \in S
    <2>1. n - u.threshold \in T
      OBVIOUS
    <2>2. n - t.threshold <= n - u.threshold
      BY <1>3, <1>4, <2>1
    <2> QED
      BY <1>1, <2>2
  <1> HIDE DEF T
  <1>6. Hit(tiers, n) \in S
    BY <1>5 DEF Hit
  <1> QED
    BY <1>1, <1>6

LEMMA BenefitIsNat ==
  ASSUME NEW tiers \in SUBSET Tiers, NEW n \in Nat
  PROVE  Benefit(tiers, n) \in Nat
  <1>1. CASE Reached(tiers, n) = {}
    BY <1>1 DEF Benefit
  <1>2. CASE Reached(tiers, n) # {}
    <2>1. PICK t : t = Hit(tiers, n)
      OBVIOUS
    <2>2. t.value \in Nat
      BY <1>2, <2>1, HitIsReached, IncentivesAssumption
    <2>3. Benefit(tiers, n) = IF t.kind = "FIXED_AMOUNT" THEN t.value ELSE (n * t.value + 50) \div 100
      BY <1>2, <2>1 DEF Benefit
    <2>4. n * t.value \in Nat
      BY <2>2
    <2> QED
      BY <2>2, <2>3, <2>4
  <1> QED
    BY <1>1, <1>2

-----------------------------------------------------------------------------
(* The inductive invariant *)

Kinds == {"", "txn", "claim", "recognize", "pay"}
Txns == [Sources -> Txn \cup {None}]

Request ==
  [kind : Kinds, tp : Plans \cup {None}, source : Sources \cup {None}, told : Plans \cup {None},
   was : Txn \cup {None}, now : Txn \cup {None}, sp : Plans \cup {None},
   swas : Settlement \cup {None}, snow : Settlement \cup {None}, lock : BOOLEAN,
   settles : BOOLEAN, stale : BOOLEAN]

Recognized == {"RECOGNIZED", "PARTIALLY_PAID", "PAID"}

\* Money stands on what came before it.
Sane(s) ==
  /\ s.paid # None => s.recognized # None
  /\ s.recognized # None => s.claimed # None /\ s.closed
  /\ s.status \in Recognized => s.recognized # None
  /\ s.status # "CALCULATED" => s.claimed # None

PaidRight(s) ==
  /\ s.status = "PAID" => s.paid >= s.recognized
  /\ s.status = "PARTIALLY_PAID" => s.paid < s.recognized

\* What row t keeps of row s.
Kept(s, t) ==
  /\ s.claimed # None => t.claimed # None
  /\ s.recognized # None => t.recognized # None
  /\ s.paid # None => t.paid # None
  /\ s.closed => t.closed

Frozen(s, t) ==
  s.closed => t.closed /\ t.eligible = s.eligible /\ t.benefit = s.benefit /\ t.claimed = s.claimed

\* The row says what the confirmed transactions say.
Says(s, tiers, rows) ==
  /\ s.eligible = Sum(rows, {"CONFIRMED"})
  /\ s.stage = "EARNED" => s.benefit = Benefit(tiers, Sum(rows, {"CONFIRMED"}))

\* The transactions of the plan recalculated, as they will be.
RowsAfter(q, tx) ==
  IF q.tp = q.sp THEN [tx[q.sp] EXCEPT ![q.source] = q.now] ELSE tx[q.sp]

\* A request that writes a transaction: what it read is current unless it is stale.
TxnFits(q, pl, tx, se) ==
  q.tp # None =>
    /\ pl[q.tp].status # "" /\ q.source \in Sources /\ q.now \in Txn
    /\ q.was # None => /\ tx[q.tp][q.source] # None /\ q.now.amount = q.was.amount
                       /\ q.was.status = "REVERSED" => q.now.status = "REVERSED"
    /\ ~q.stale => tx[q.tp][q.source] = q.was
    /\ q.settles => q.sp = IF q.told = None THEN q.tp ELSE q.told
    /\ ~q.settles /\ q.told \in {None, q.tp} => se[q.tp] # None /\ se[q.tp].closed

\* A request that writes a settlement.
SettlementFits(q, pl, tx, se) ==
  q.sp # None =>
    /\ pl[q.sp].status # "" /\ q.snow \in Settlement /\ Sane(q.snow) /\ PaidRight(q.snow)
    /\ q.snow.recognized # None => q.lock \/ pl[q.sp].locked
    /\ q.swas # None => /\ se[q.sp] # None /\ Kept(q.swas, se[q.sp]) /\ Kept(q.swas, q.snow)
                        /\ Frozen(q.swas, q.snow)
    /\ ~q.stale => se[q.sp] = q.swas
    /\ ~q.settles => q.tp = None /\ q.snow.closed
    /\ q.settles /\ ~q.stale => Says(q.snow, pl[q.sp].tiers, RowsAfter(q, tx))

Fits(q, pl, tx, se) ==
  /\ TxnFits(q, pl, tx, se) /\ SettlementFits(q, pl, tx, se)
  /\ q.lock \/ q.settles => q.sp # None
  /\ q.told # None => q.tp # None

Solid(p, pl, se) ==
  se[p] # None =>
    Sane(se[p]) /\ pl[p].status # "" /\ (se[p].recognized # None => pl[p].locked)

Current(p, pl, tx, se) ==
  se[p] # None => PaidRight(se[p]) /\ (~se[p].closed => Says(se[p], pl[p].tiers, tx[p]))

IInv ==
  /\ TypeOK /\ req \in [Threads -> Request]
  /\ \A p \in Plans : Solid(p, plan, settlement)
  /\ \A p \in Plans \ behind : Current(p, plan, txn, settlement)
  /\ \A r \in Threads : Fits(req[r], plan, txn, settlement)

LEMMA NoPlanFits ==
  ASSUME NEW pl, NEW tx, NEW se
  PROVE  NoPlan \in Request /\ Fits(NoPlan, pl, tx, se)
  BY DEF NoPlan, Request, Kinds, Fits, TxnFits, SettlementFits

LEMMA InitIInv == Init => IInv
  <1> SUFFICES ASSUME Init PROVE IInv
    OBVIOUS
  <1>1. plan \in [Plans -> Plan]
    <2> DEFINE S == {[status |-> "", tiers |-> {}, locked |-> FALSE]}
                    \cup {[status |-> "ACTIVE", tiers |-> {t}, locked |-> FALSE] : t \in Tiers}
    <2>1. S \subseteq Plan
      <3>1. [status |-> "", tiers |-> {}, locked |-> FALSE] \in Plan
        BY DEF Plan
      <3>2. \A t \in Tiers : {t} \in SUBSET Tiers
        OBVIOUS
      <3>3. \A t \in Tiers : [status |-> "ACTIVE", tiers |-> {t}, locked |-> FALSE] \in Plan
        BY <3>2 DEF Plan
      <3> QED
        BY <3>1, <3>3
    <2>2. plan \in [Plans -> S]
      BY DEF Init
    <2> HIDE DEF S
    <2> QED
      BY <2>1, <2>2
  <1>2. /\ txn \in [Plans -> Txns] /\ settlement \in [Plans -> Settlement \cup {None}]
        /\ \A p \in Plans : settlement[p] = None
    BY DEF Init, Txns
  <1>3. evidence \in [Plans -> Nat] /\ served \in 0 .. MaxRequests /\ behind \subseteq Plans
    <2>1. evidence = [p \in Plans |-> 0] /\ served = 0 /\ behind = {}
      BY DEF Init
    <2>2. 0 \in 0 .. MaxRequests
      BY IncentivesAssumption
    <2> QED
      BY <2>1, <2>2
  <1>4. \A r \in Threads : req[r] = NoPlan
    BY DEF Init
  <1>5. req \in [Threads -> Request] /\ \A r \in Threads : Fits(req[r], plan, txn, settlement)
    BY <1>4, NoPlanFits DEF Init
  <1>6. \A r \in Threads : req[r].kind \in Kinds
    BY <1>5 DEF Request
  <1>7. TypeOK
    BY <1>1, <1>2, <1>3, <1>6 DEF TypeOK, Txns, Kinds
  <1> QED
    BY <1>2, <1>5, <1>7 DEF IInv, Solid, Current

-----------------------------------------------------------------------------
(* Beginning a request *)

LEMMA BeginKeeps ==
  ASSUME IInv, NEW r \in Threads, NEW q \in Request, Fits(q, plan, txn, settlement),
         Ready(r), Begin(r, q)
  PROVE  IInv'
  <1>1. req' = [req EXCEPT ![r] = q] /\ req' \in [Threads -> Request]
    BY DEF Begin, IInv
  <1>2. UNCHANGED <<plan, txn, settlement, evidence, behind>>
    BY DEF Begin
  <1>3. served' \in 0 .. MaxRequests
    <2>1. served \in 0 .. MaxRequests
      BY DEF IInv, TypeOK
    <2>2. served < MaxRequests /\ served' = served + 1
      BY DEF Ready, Begin
    <2> QED
      BY <2>1, <2>2, IncentivesAssumption
  <1>4. \A s \in Threads : req'[s].kind \in Kinds
    BY <1>1 DEF Request
  <1>5. TypeOK'
    BY <1>2, <1>3, <1>4 DEF IInv, TypeOK, Kinds
  <1>6. \A s \in Threads : Fits(req'[s], plan, txn, settlement)
    BY <1>1 DEF IInv
  <1>7. (\A p \in Plans : Solid(p, plan, settlement))'
    BY <1>2 DEF IInv
  <1>8. (\A p \in Plans \ behind : Current(p, plan, txn, settlement))'
    BY <1>2 DEF IInv
  <1>9. (\A s \in Threads : Fits(req[s], plan, txn, settlement))'
    BY <1>2, <1>6
  <1> QED
    BY <1>1, <1>5, <1>7, <1>8, <1>9 DEF IInv

\* A recalculation comes out of an open settlement and leaves it open and sane.
LEMMA CalculatedFacts ==
  ASSUME NEW row \in Settlement, Sane(row), ~row.closed, NEW tiers \in SUBSET Tiers, NEW rows \in Txns
  PROVE  LET c == Calculated(row, tiers, rows)
         IN  /\ c \in Settlement /\ Sane(c) /\ PaidRight(c) /\ Kept(row, c) /\ ~c.closed
             /\ Says(c, tiers, rows) /\ c.recognized = None /\ c.benefit \in Nat
  <1> DEFINE confirmed == Sum(rows, {"CONFIRMED"})
             earned == Reached(tiers, confirmed) # {}
             stage == IF earned THEN "EARNED" ELSE "ESTIMATED"
             benefit == IF earned THEN Benefit(tiers, confirmed)
                        ELSE Benefit(tiers, Sum(rows, {"CONFIRMED", "PENDING"}))
             c == [row EXCEPT !.eligible = confirmed, !.stage = stage, !.benefit = benefit]
  <1>1. Calculated(row, tiers, rows) = c
    BY DEF Calculated
  <1>2. confirmed \in Nat /\ benefit \in Nat
    BY SumIsNat, BenefitIsNat DEF Txns
  <1>3. stage \in {"ESTIMATED", "EARNED"} /\ (stage = "EARNED" => benefit = Benefit(tiers, confirmed))
    OBVIOUS
  <1> HIDE DEF benefit, stage, earned, confirmed
  <1>4. /\ c \in Settlement /\ c.eligible = confirmed /\ c.benefit = benefit /\ c.stage = stage
        /\ c.status = row.status /\ c.claimed = row.claimed /\ c.recognized = row.recognized
        /\ c.paid = row.paid /\ c.closed = row.closed
    BY <1>2, <1>3 DEF Settlement
  <1> HIDE DEF c
  <1>5. Sane(c) /\ Kept(row, c) /\ ~c.closed /\ c.recognized = None
    BY <1>4 DEF Sane, Kept
  <1>6. PaidRight(c)
    BY <1>5 DEF PaidRight, Sane, Recognized
  <1>7. Says(c, tiers, rows)
    BY <1>3, <1>4 DEF Says, confirmed
  <1> QED
    BY <1>1, <1>2, <1>4, <1>5, <1>6, <1>7

\* A request before its recalculation: it writes a transaction, or nothing yet.
Plain(q) ==
  q \in Request /\ q.sp = None /\ q.swas = None /\ q.snow = None /\ ~q.lock /\ ~q.settles /\ ~q.stale

LEMMA RecalculatedFacts ==
  ASSUME IInv, NEW p \in Created, NEW q, Plain(q), NEW rows \in Txns
  PROVE  LET m == Recalculated(q, p, rows)
         IN  /\ m \in Request /\ ~m.lock /\ ~m.stale
             /\ m.kind = q.kind /\ m.tp = q.tp /\ m.source = q.source /\ m.told = q.told
             /\ m.was = q.was /\ m.now = q.now
             /\ IF IsOpen(p) THEN /\ m.sp = p /\ m.swas = settlement[p] /\ m.settles
                                  /\ m.snow \in Settlement /\ Sane(m.snow) /\ PaidRight(m.snow)
                                  /\ ~m.snow.closed /\ m.snow.recognized = None /\ m.snow.benefit \in Nat
                                  /\ m.swas # None => Kept(m.swas, m.snow) /\ ~m.swas.closed
                                  /\ Says(m.snow, plan[p].tiers, rows)
                ELSE m = q
  <1>1. CASE ~IsOpen(p)
    BY <1>1 DEF Recalculated, Plain
  <1>2. CASE IsOpen(p)
    <2>1. p \in Plans /\ settlement[p] \in Settlement \cup {None} /\ plan[p].tiers \in SUBSET Tiers
      BY DEF Created, IInv, TypeOK, Plan
    <2> DEFINE old == IF settlement[p] = None THEN Fresh ELSE settlement[p]
               c == Calculated(old, plan[p].tiers, rows)
               m == [q EXCEPT !.sp = p, !.swas = settlement[p], !.settles = TRUE, !.snow = c]
    <2>2. Recalculated(q, p, rows) = m
      BY <1>2 DEF Recalculated
    <2>3. old \in Settlement /\ Sane(old) /\ ~old.closed /\ (settlement[p] # None => old = settlement[p])
      <3>1. CASE settlement[p] = None
        <4>1. old = Fresh
          BY <3>1
        <4>2. Fresh \in Settlement
          BY DEF Fresh, Settlement
        <4>3. Sane(Fresh) /\ ~Fresh.closed
          BY DEF Sane, Fresh, Recognized
        <4> HIDE DEF old
        <4> QED
          BY <3>1, <4>1, <4>2, <4>3
      <3>2. CASE settlement[p] # None
        <4>1. old = settlement[p]
          BY <3>2
        <4>2. Sane(settlement[p]) /\ ~settlement[p].closed
          BY <1>2, <2>1, <3>2 DEF IInv, Solid, IsOpen
        <4> HIDE DEF old
        <4> QED
          BY <2>1, <3>2, <4>1, <4>2
      <3> QED
        BY <3>1, <3>2
    <2> HIDE DEF old
    <2>4. /\ c \in Settlement /\ Sane(c) /\ PaidRight(c) /\ Kept(old, c) /\ ~c.closed
          /\ Says(c, plan[p].tiers, rows) /\ c.recognized = None /\ c.benefit \in Nat
      BY <2>1, <2>3, CalculatedFacts
    <2> HIDE DEF c
    <2>5. /\ m \in Request /\ ~m.lock /\ ~m.stale
          /\ m.kind = q.kind /\ m.tp = q.tp /\ m.source = q.source /\ m.told = q.told
          /\ m.was = q.was /\ m.now = q.now
          /\ m.sp = p /\ m.swas = settlement[p] /\ m.settles /\ m.snow = c
      BY <2>1, <2>4 DEF Plain, Request
    <2> HIDE DEF m
    <2> QED
      BY <1>2, <2>2, <2>3, <2>4, <2>5
  <1> QED
    BY <1>1, <1>2

\* A request that writes one transaction and recalculates plan u.
LEMMA WritingFits ==
  ASSUME IInv, NEW p \in Created, NEW s \in Sources, NEW now \in Txn, NEW u \in Created,
         NEW q, Plain(q), q.kind = "txn", q.tp = p, q.source = s, q.was = txn[p][s], q.now = now,
         q.told \in Plans \cup {None}, u = IF q.told = None THEN p ELSE q.told,
         q.was # None => /\ now.amount = q.was.amount
                         /\ q.was.status = "REVERSED" => now.status = "REVERSED"
  PROVE  LET m == Recalculated(q, u, IF u = p THEN [txn[p] EXCEPT ![s] = now] ELSE txn[u])
         IN  m \in Request /\ Fits(m, plan, txn, settlement)
  <1> DEFINE rows == IF u = p THEN [txn[p] EXCEPT ![s] = now] ELSE txn[u]
             m == Recalculated(q, u, rows)
  <1>1. p \in Plans /\ u \in Plans /\ p # None /\ u # None /\ plan[p].status # "" /\ plan[u].status # ""
    BY IncentivesAssumption DEF Created
  <1>2. txn[p] \in Txns /\ txn[u] \in Txns
    BY <1>1 DEF IInv, TypeOK, Txns
  <1>3. rows \in Txns
    BY <1>2 DEF Txns
  <1> HIDE DEF rows
  <1>4. /\ m \in Request /\ ~m.lock /\ ~m.stale
        /\ m.tp = p /\ m.source = s /\ m.told = q.told /\ m.was = q.was /\ m.now = now
        /\ IF IsOpen(u) THEN /\ m.sp = u /\ m.swas = settlement[u] /\ m.settles
                             /\ m.snow \in Settlement /\ Sane(m.snow) /\ PaidRight(m.snow)
                             /\ ~m.snow.closed /\ m.snow.recognized = None
                             /\ m.swas # None => Kept(m.swas, m.snow) /\ ~m.swas.closed
                             /\ Says(m.snow, plan[u].tiers, rows)
           ELSE m = q
    BY <1>3, RecalculatedFacts
  <1> HIDE DEF m
  <1>5. ~IsOpen(u) => settlement[u] # None /\ settlement[u].closed
    BY DEF IsOpen
  <1>6. TxnFits(m, plan, txn, settlement)
    <2>1. m.settles => m.sp = IF m.told = None THEN m.tp ELSE m.told
      BY <1>4 DEF Plain
    <2>2. ~m.settles /\ m.told \in {None, m.tp} => settlement[m.tp] # None /\ settlement[m.tp].closed
      BY <1>4, <1>5
    <2> QED
      BY <1>1, <1>4, <2>1, <2>2 DEF TxnFits
  <1>7. SettlementFits(m, plan, txn, settlement)
    <2>1. CASE ~IsOpen(u)
      BY <1>4, <2>1 DEF Plain, SettlementFits
    <2>2. CASE IsOpen(u)
      <3>1. m.sp = u => Says(m.snow, plan[m.sp].tiers, RowsAfter(m, txn))
        BY <1>4, <2>2 DEF RowsAfter, rows
      <3>2. m.swas # None => Kept(m.swas, settlement[m.sp]) /\ Frozen(m.swas, m.snow)
        BY <1>4, <2>2 DEF Kept, Frozen
      <3> QED
        BY <1>1, <1>4, <2>2, <3>1, <3>2 DEF SettlementFits
    <2> QED
      BY <2>1, <2>2
  <1>8. Fits(m, plan, txn, settlement)
    BY <1>1, <1>4, <1>6, <1>7 DEF Fits, Plain
  <1> QED
    BY <1>4, <1>8 DEF m, rows

LEMMA AddTxnKeeps ==
  ASSUME IInv, NEW r \in Threads, AddTxn(r)
  PROVE  IInv'
  <1>1. PICK p \in Created, s \in Sources, a \in Amounts, w \in BOOLEAN,
             c \in {"PENDING", "CONFIRMED", "REVERSED"} :
          LET row == [amount |-> a, within |-> w, status |-> c, reversed |-> FALSE]
              q == [NoPlan EXCEPT !.kind = "txn", !.tp = p, !.source = s]
          IN  IF txn[p][s] = None
              THEN Begin(r, Recalculated([q EXCEPT !.now = row], p, [txn[p] EXCEPT ![s] = row]))
              ELSE Begin(r, Recalculated([q EXCEPT !.was = txn[p][s], !.now = txn[p][s]], p, txn[p]))
    BY DEF AddTxn
  <1>2. Ready(r)
    BY DEF AddTxn
  <1>3. p \in Plans /\ txn[p] \in Txns
    BY DEF Created, IInv, TypeOK, Txns
  <1> DEFINE row == [amount |-> a, within |-> w, status |-> c, reversed |-> FALSE]
  <1>4. row \in Txn
    BY DEF Txn
  <1> HIDE DEF row
  <1>5. CASE txn[p][s] = None
    <2> DEFINE q == [NoPlan EXCEPT !.kind = "txn", !.tp = p, !.source = s, !.now = row]
    <2>1. /\ Plain(q) /\ q.kind = "txn" /\ q.tp = p /\ q.source = s /\ q.was = None /\ q.now = row
          /\ q.told = None
      BY <1>3, <1>4 DEF Plain, Request, Kinds, NoPlan
    <2>2. Begin(r, Recalculated(q, p, [txn[p] EXCEPT ![s] = row]))
      BY <1>1, <1>5 DEF row, NoPlan
    <2> HIDE DEF q
    <2>3. /\ Recalculated(q, p, [txn[p] EXCEPT ![s] = row]) \in Request
          /\ Fits(Recalculated(q, p, [txn[p] EXCEPT ![s] = row]), plan, txn, settlement)
      BY <1>4, <1>5, <2>1, WritingFits
    <2> QED
      BY <1>2, <2>2, <2>3, BeginKeeps
  <1>6. CASE txn[p][s] # None
    <2> DEFINE t == txn[p][s]
               q == [NoPlan EXCEPT !.kind = "txn", !.tp = p, !.source = s, !.was = t, !.now = t]
    <2>1. t \in Txn /\ [txn[p] EXCEPT ![s] = t] = txn[p]
      BY <1>3, <1>6 DEF Txns
    <2>2. Begin(r, Recalculated(q, p, txn[p]))
      BY <1>1, <1>6 DEF NoPlan
    <2> HIDE DEF t
    <2>3. /\ Plain(q) /\ q.kind = "txn" /\ q.tp = p /\ q.source = s /\ q.was = t /\ q.now = t
          /\ q.told = None
      BY <1>3, <2>1 DEF Plain, Request, Kinds, NoPlan
    <2> HIDE DEF q
    <2>4. /\ Recalculated(q, p, [txn[p] EXCEPT ![s] = t]) \in Request
          /\ Fits(Recalculated(q, p, [txn[p] EXCEPT ![s] = t]), plan, txn, settlement)
      BY <2>1, <2>3, WritingFits DEF t
    <2> QED
      BY <1>2, <2>1, <2>2, <2>4, BeginKeeps
  <1> QED
    BY <1>5, <1>6

LEMMA ChangedKeeps ==
  ASSUME IInv, NEW r \in Threads, Ready(r), NEW p \in Created, NEW u \in Created, NEW s \in Filed(txn[p]),
         NEW now \in Txn, Changed(r, p, s, now, u), now.amount = txn[p][s].amount,
         txn[p][s].status = "REVERSED" => now.status = "REVERSED"
  PROVE  IInv'
  <1> DEFINE q == [NoPlan EXCEPT !.kind = "txn", !.tp = p, !.source = s, !.told = u,
                                 !.was = txn[p][s], !.now = now]
             rows == IF u = p THEN [txn[p] EXCEPT ![s] = now] ELSE txn[u]
  <1>1. Begin(r, Recalculated(q, u, rows))
    BY DEF Changed
  <1>2. p \in Plans /\ u \in Plans /\ u # None /\ s \in Sources /\ txn[p][s] \in Txn
    <2>1. p \in Plans /\ u \in Plans /\ u # None
      BY IncentivesAssumption DEF Created
    <2>2. txn[p] \in Txns
      BY <2>1 DEF IInv, TypeOK, Txns
    <2>3. s \in Sources /\ txn[p][s] # None
      BY DEF Filed
    <2> QED
      BY <2>1, <2>2, <2>3 DEF Txns
  <1>3. /\ Plain(q) /\ q.kind = "txn" /\ q.tp = p /\ q.source = s /\ q.was = txn[p][s] /\ q.now = now
        /\ q.told = u
    BY <1>2 DEF Plain, Request, Kinds, NoPlan
  <1> HIDE DEF q
  <1>4. Recalculated(q, u, rows) \in Request /\ Fits(Recalculated(q, u, rows), plan, txn, settlement)
    BY <1>2, <1>3, WritingFits
  <1> QED
    BY <1>1, <1>4, BeginKeeps

LEMMA TxnsKeep ==
  ASSUME IInv, NEW r \in Threads, ConfirmTxn(r) \/ ReverseTxn(r)
  PROVE  IInv'
  <1>1. Ready(r)
    BY DEF ConfirmTxn, ReverseTxn
  <1>2. \A p \in Created : \A s \in Filed(txn[p]) : txn[p][s] \in Txn
    BY DEF Created, Filed, IInv, TypeOK
  <1>3. CASE ConfirmTxn(r)
    <2>1. PICK p \in Created, u \in Created : \E s \in Filed(txn[p]) :
            /\ Confirmable(txn[p][s])
            /\ Changed(r, p, s, [txn[p][s] EXCEPT !.status = "CONFIRMED"], u)
      BY <1>3 DEF ConfirmTxn
    <2>2. PICK s \in Filed(txn[p]) :
            /\ Confirmable(txn[p][s])
            /\ Changed(r, p, s, [txn[p][s] EXCEPT !.status = "CONFIRMED"], u)
      BY <2>1
    <2> DEFINE now == [txn[p][s] EXCEPT !.status = "CONFIRMED"]
    <2>3. now \in Txn /\ now.amount = txn[p][s].amount
      BY <1>2 DEF Txn
    <2>4. txn[p][s].status # "REVERSED"
      BY <2>2 DEF Confirmable
    <2> HIDE DEF now
    <2> QED
      BY <1>1, <2>2, <2>3, <2>4, ChangedKeeps DEF now
  <1>4. CASE ReverseTxn(r)
    <2>1. PICK p \in Created, u \in Created : \E s \in Filed(txn[p]) :
            Changed(r, p, s, IF txn[p][s].status = "REVERSED" THEN txn[p][s]
                             ELSE [txn[p][s] EXCEPT !.status = "REVERSED", !.reversed = TRUE], u)
      BY <1>4 DEF ReverseTxn
    <2> DEFINE now(s) == IF txn[p][s].status = "REVERSED" THEN txn[p][s]
                         ELSE [txn[p][s] EXCEPT !.status = "REVERSED", !.reversed = TRUE]
    <2>2. PICK s \in Filed(txn[p]) : Changed(r, p, s, now(s), u)
      BY <2>1
    <2>3. now(s) \in Txn /\ now(s).amount = txn[p][s].amount /\ now(s).status = "REVERSED"
      BY <1>2 DEF Txn
    <2> HIDE DEF now
    <2> QED
      BY <1>1, <2>2, <2>3, ChangedKeeps
  <1> QED
    BY <1>3, <1>4

LEMMA ClaimKeeps ==
  ASSUME IInv, NEW r \in Threads, Claim(r)
  PROVE  IInv'
  <1>1. Ready(r)
    BY DEF Claim
  <1> DEFINE c == [NoPlan EXCEPT !.kind = "claim"]
             q(p) == Recalculated(c, p, txn[p])
             m(p) == [q(p) EXCEPT !.snow.status = "CLAIMED", !.snow.claimed = q(p).snow.benefit]
  <1>2. PICK p \in Created : IsOpen(p) /\ Begin(r, m(p))
    BY DEF Claim
  <1>3. p \in Plans /\ p # None /\ plan[p].status # "" /\ txn[p] \in Txns
    BY IncentivesAssumption DEF Created, IInv, TypeOK, Txns
  <1>4. Plain(c) /\ c.tp = None /\ c.told = None
    BY DEF Plain, Request, Kinds, NoPlan
  <1> HIDE DEF c
  <1>5. PICK k : k = q(p)
    OBVIOUS
  <1>6. /\ k \in Request /\ ~k.lock /\ ~k.stale /\ k.tp = None /\ k.told = None
        /\ k.sp = p /\ k.swas = settlement[p] /\ k.settles
        /\ k.snow \in Settlement /\ Sane(k.snow) /\ ~k.snow.closed /\ k.snow.recognized = None
        /\ k.snow.benefit \in Nat /\ (k.swas # None => Kept(k.swas, k.snow) /\ ~k.swas.closed)
        /\ Says(k.snow, plan[p].tiers, txn[p])
    BY <1>2, <1>3, <1>4, <1>5, RecalculatedFacts
  <1> HIDE DEF q
  <1> DEFINE row == [k.snow EXCEPT !.status = "CLAIMED", !.claimed = k.snow.benefit]
             n == [k EXCEPT !.snow = row]
  <1>7. m(p) = n
    BY <1>5, <1>6 DEF Request, Settlement
  <1>8. /\ row \in Settlement /\ row.status = "CLAIMED" /\ row.claimed \in Nat
        /\ row.eligible = k.snow.eligible /\ row.benefit = k.snow.benefit /\ row.stage = k.snow.stage
        /\ row.recognized = None /\ row.paid = k.snow.paid /\ row.closed = k.snow.closed
    BY <1>6 DEF Settlement
  <1> HIDE DEF row, m
  <1>9. /\ n \in Request /\ n.lock = k.lock /\ n.stale = k.stale /\ n.tp = None /\ n.sp = p /\ n.told = None
        /\ n.swas = settlement[p] /\ n.settles /\ n.snow = row
    BY <1>6, <1>8 DEF Request
  <1> HIDE DEF n
  <1>10. Sane(row) /\ PaidRight(row) /\ (n.swas # None => Kept(n.swas, row) /\ Frozen(n.swas, row))
    <2>1. Sane(row)
      BY <1>6, <1>8, IncentivesAssumption DEF Sane, Recognized
    <2>2. PaidRight(row)
      BY <1>8 DEF PaidRight
    <2>3. n.swas # None => Kept(n.swas, row) /\ Frozen(n.swas, row)
      BY <1>6, <1>8, <1>9, IncentivesAssumption DEF Kept, Frozen
    <2> QED
      BY <2>1, <2>2, <2>3
  <1>11. Says(row, plan[p].tiers, RowsAfter(n, txn))
    <2>1. RowsAfter(n, txn) = txn[p]
      BY <1>3, <1>9 DEF RowsAfter
    <2> QED
      BY <1>6, <1>8, <2>1 DEF Says
  <1>12. n.swas # None => Kept(n.swas, settlement[p])
    BY <1>9 DEF Kept
  <1>13. SettlementFits(n, plan, txn, settlement)
    BY <1>3, <1>8, <1>9, <1>10, <1>11, <1>12 DEF SettlementFits
  <1>14. Fits(n, plan, txn, settlement)
    BY <1>3, <1>9, <1>13 DEF Fits, TxnFits
  <1> QED
    BY <1>1, <1>2, <1>7, <1>9, <1>14, BeginKeeps

\* A request that closes a settlement.
LEMMA ClosingFits ==
  ASSUME IInv, NEW p \in Created, settlement[p] # None, NEW row \in Settlement, NEW q \in Request,
         q.sp = p, q.swas = settlement[p], q.snow = row, q.tp = None, q.told = None, ~q.settles, ~q.stale,
         row.closed, row.eligible = q.swas.eligible, row.benefit = q.swas.benefit,
         row.claimed = q.swas.claimed, row.claimed # None, row.recognized # None,
         row.paid # None \/ q.swas.paid = None, q.lock \/ q.swas.recognized # None, PaidRight(row)
  PROVE  Fits(q, plan, txn, settlement)
  <1>1. p \in Plans /\ p # None /\ plan[p].status # ""
    BY IncentivesAssumption DEF Created
  <1>2. Sane(row)
    BY DEF Sane
  <1>3. Kept(q.swas, row) /\ Kept(q.swas, settlement[p]) /\ Frozen(q.swas, row)
    BY DEF Kept, Frozen
  <1>4. q.lock \/ plan[p].locked
    BY <1>1 DEF IInv, Solid
  <1>5. SettlementFits(q, plan, txn, settlement)
    BY <1>1, <1>2, <1>3, <1>4 DEF SettlementFits
  <1> QED
    BY <1>1, <1>5 DEF Fits, TxnFits

LEMMA RecognizeKeeps ==
  ASSUME IInv, NEW r \in Threads, Recognize(r)
  PROVE  IInv'
  <1> DEFINE row(p, a) == [settlement[p] EXCEPT !.status = "RECOGNIZED", !.recognized = a, !.closed = TRUE]
             q(p, a) == [NoPlan EXCEPT !.kind = "recognize", !.sp = p, !.swas = settlement[p],
                                       !.lock = TRUE, !.snow = row(p, a)]
  <1>1. PICK p \in Created, a \in Agreed :
          settlement[p] # None /\ Reclaimed(settlement[p]) /\ Begin(r, q(p, a))
    BY DEF Recognize
  <1>2. Ready(r)
    BY DEF Recognize
  <1>3. p \in Plans /\ settlement[p] \in Settlement
    BY <1>1 DEF Created, IInv, TypeOK
  <1>4. settlement[p].claimed # None
    BY <1>1, <1>3 DEF IInv, Solid, Sane, Reclaimed
  <1>5. /\ row(p, a) \in Settlement /\ row(p, a).closed /\ row(p, a).eligible = settlement[p].eligible
        /\ row(p, a).benefit = settlement[p].benefit /\ row(p, a).claimed = settlement[p].claimed
        /\ row(p, a).recognized = a /\ row(p, a).paid = settlement[p].paid /\ row(p, a).status = "RECOGNIZED"
    BY <1>3 DEF Settlement
  <1>6. a # None
    BY IncentivesAssumption
  <1> HIDE DEF row
  <1>7. /\ q(p, a) \in Request /\ q(p, a).sp = p /\ q(p, a).swas = settlement[p] /\ q(p, a).snow = row(p, a)
        /\ q(p, a).tp = None /\ q(p, a).told = None /\ ~q(p, a).settles /\ ~q(p, a).stale /\ q(p, a).lock
    BY <1>3, <1>5 DEF Request, Kinds, NoPlan
  <1> HIDE DEF q
  <1>8. PaidRight(row(p, a))
    BY <1>5 DEF PaidRight
  <1>9. Fits(q(p, a), plan, txn, settlement)
    BY <1>1, <1>4, <1>5, <1>6, <1>7, <1>8, ClosingFits
  <1> QED
    BY <1>1, <1>2, <1>7, <1>9, BeginKeeps

LEMMA PayKeeps ==
  ASSUME IInv, NEW r \in Threads, Pay(r)
  PROVE  IInv'
  <1> DEFINE status(p, a) == IF a < settlement[p].recognized THEN "PARTIALLY_PAID" ELSE "PAID"
             row(p, a) == [settlement[p] EXCEPT !.paid = a, !.closed = TRUE, !.status = status(p, a)]
             q(p, a) == [NoPlan EXCEPT !.kind = "pay", !.sp = p, !.swas = settlement[p], !.snow = row(p, a)]
  <1>1. PICK p \in Created, a \in Agreed :
          /\ settlement[p] # None /\ settlement[p].status \in {"RECOGNIZED", "PARTIALLY_PAID", "PAID"}
          /\ Begin(r, q(p, a))
    BY DEF Pay
  <1>2. Ready(r)
    BY DEF Pay
  <1>3. p \in Plans /\ settlement[p] \in Settlement
    BY <1>1 DEF Created, IInv, TypeOK
  <1>4. settlement[p].recognized # None /\ settlement[p].claimed # None
    BY <1>1, <1>3 DEF IInv, Solid, Sane, Recognized
  <1>5. /\ row(p, a) \in Settlement /\ row(p, a).closed /\ row(p, a).eligible = settlement[p].eligible
        /\ row(p, a).benefit = settlement[p].benefit /\ row(p, a).claimed = settlement[p].claimed
        /\ row(p, a).recognized = settlement[p].recognized /\ row(p, a).paid = a
        /\ row(p, a).status = status(p, a)
    BY <1>3 DEF Settlement
  <1>6. a # None /\ a \in Nat /\ settlement[p].recognized \in Nat
    BY <1>3, <1>4, IncentivesAssumption DEF Settlement
  <1> HIDE DEF row
  <1>7. /\ q(p, a) \in Request /\ q(p, a).sp = p /\ q(p, a).swas = settlement[p] /\ q(p, a).snow = row(p, a)
        /\ q(p, a).tp = None /\ q(p, a).told = None /\ ~q(p, a).settles /\ ~q(p, a).stale
    BY <1>3, <1>5 DEF Request, Kinds, NoPlan
  <1> HIDE DEF q
  <1>8. PaidRight(row(p, a))
    BY <1>5, <1>6 DEF PaidRight
  <1>9. Fits(q(p, a), plan, txn, settlement)
    BY <1>1, <1>4, <1>5, <1>6, <1>7, <1>8, ClosingFits
  <1> QED
    BY <1>1, <1>2, <1>7, <1>9, BeginKeeps

-----------------------------------------------------------------------------
(* Committing *)

\* A row keeps, column by column, what it has and what the request adds.
LEMMA WrittenFacts ==
  ASSUME NEW row \in Settlement, NEW was \in Settlement, NEW now \in Settlement,
         Sane(row), Sane(now), Kept(was, row), Kept(was, now)
  PROVE  LET w == Written(row, was, now)
         IN  /\ w \in Settlement /\ Sane(w) /\ Kept(row, w) /\ Kept(now, w)
             /\ w.recognized # None => row.recognized # None \/ now.recognized # None
             /\ row = was => w = now
  <1> DEFINE w == Written(row, was, now)
             Columns == {"eligible", "benefit", "stage", "status", "claimed", "recognized", "paid", "closed"}
  <1>1. DOMAIN row = Columns
    BY DEF Settlement
  <1>2. w = [f \in Columns |-> IF now[f] = was[f] THEN row[f] ELSE now[f]]
    BY <1>1 DEF Written
  <1>3. /\ w.eligible = IF now.eligible = was.eligible THEN row.eligible ELSE now.eligible
        /\ w.benefit = IF now.benefit = was.benefit THEN row.benefit ELSE now.benefit
        /\ w.stage = IF now.stage = was.stage THEN row.stage ELSE now.stage
        /\ w.status = IF now.status = was.status THEN row.status ELSE now.status
        /\ w.claimed = IF now.claimed = was.claimed THEN row.claimed ELSE now.claimed
        /\ w.recognized = IF now.recognized = was.recognized THEN row.recognized ELSE now.recognized
        /\ w.paid = IF now.paid = was.paid THEN row.paid ELSE now.paid
        /\ w.closed = IF now.closed = was.closed THEN row.closed ELSE now.closed
    BY <1>2
  <1>4. w = [eligible |-> w.eligible, benefit |-> w.benefit, stage |-> w.stage, status |-> w.status,
             claimed |-> w.claimed, recognized |-> w.recognized, paid |-> w.paid, closed |-> w.closed]
    BY <1>2
  <1> HIDE DEF w
  <1>5. w \in Settlement
    <2>1. w.eligible \in Nat /\ w.benefit \in Nat /\ w.stage \in {"ESTIMATED", "EARNED"}
      BY <1>3 DEF Settlement
    <2>2. w.status \in {"CALCULATED", "CLAIMED", "RECOGNIZED", "PARTIALLY_PAID", "PAID"}
      BY <1>3 DEF Settlement
    <2>3. /\ w.claimed \in Nat \cup {None} /\ w.recognized \in Agreed \cup {None}
          /\ w.paid \in Agreed \cup {None} /\ w.closed \in BOOLEAN
      BY <1>3 DEF Settlement
    <2> QED
      BY <1>4, <2>1, <2>2, <2>3 DEF Settlement
  <1>6. row.closed \in BOOLEAN /\ was.closed \in BOOLEAN /\ now.closed \in BOOLEAN
    BY DEF Settlement
  <1>7. /\ w.claimed # None <=> row.claimed # None \/ now.claimed # None
        /\ w.recognized # None <=> row.recognized # None \/ now.recognized # None
        /\ w.paid # None <=> row.paid # None \/ now.paid # None
        /\ w.closed <=> row.closed \/ now.closed
    BY <1>3, <1>6 DEF Kept
  <1>8. w.status = row.status \/ w.status = now.status
    BY <1>3
  <1>9. Sane(w) /\ Kept(row, w) /\ Kept(now, w)
    BY <1>7, <1>8 DEF Sane, Kept
  <1>10. row = was => w = now
    <2> SUFFICES ASSUME row = was PROVE w = now
      OBVIOUS
    <2>1. now = [eligible |-> now.eligible, benefit |-> now.benefit, stage |-> now.stage, status |-> now.status,
                 claimed |-> now.claimed, recognized |-> now.recognized, paid |-> now.paid, closed |-> now.closed]
      BY DEF Settlement
    <2>2. /\ w.eligible = now.eligible /\ w.benefit = now.benefit /\ w.stage = now.stage
          /\ w.status = now.status /\ w.claimed = now.claimed /\ w.recognized = now.recognized
          /\ w.paid = now.paid /\ w.closed = now.closed
      BY <1>3
    <2> QED
      BY <1>4, <2>1, <2>2
  <1> QED
    BY <1>5, <1>7, <1>9, <1>10 DEF w

\* The same of a transaction, whose amount no request changes.
LEMMA WrittenTxn ==
  ASSUME NEW row \in Txn, NEW was \in Txn, NEW now \in Txn, now.amount = was.amount
  PROVE  LET w == Written(row, was, now)
         IN  w \in Txn /\ w.amount = row.amount /\ (row = was => w = now)
  <1> DEFINE w == Written(row, was, now)
             Columns == {"amount", "within", "status", "reversed"}
  <1>1. DOMAIN row = Columns
    BY DEF Txn
  <1>2. w = [f \in Columns |-> IF now[f] = was[f] THEN row[f] ELSE now[f]]
    BY <1>1 DEF Written
  <1>3. /\ w.amount = IF now.amount = was.amount THEN row.amount ELSE now.amount
        /\ w.within = IF now.within = was.within THEN row.within ELSE now.within
        /\ w.status = IF now.status = was.status THEN row.status ELSE now.status
        /\ w.reversed = IF now.reversed = was.reversed THEN row.reversed ELSE now.reversed
    BY <1>2
  <1>4. w = [amount |-> w.amount, within |-> w.within, status |-> w.status, reversed |-> w.reversed]
    BY <1>2
  <1> HIDE DEF w
  <1>5. w \in Txn
    <2>1. w.amount \in Amounts /\ w.within \in BOOLEAN /\ w.reversed \in BOOLEAN
      BY <1>3 DEF Txn
    <2>2. w.status \in {"PENDING", "CONFIRMED", "REVERSED"}
      BY <1>3 DEF Txn
    <2> QED
      BY <1>4, <2>1, <2>2 DEF Txn
  <1>6. row = was => w = now
    <2>1. now = [amount |-> now.amount, within |-> now.within, status |-> now.status, reversed |-> now.reversed]
      BY DEF Txn
    <2> QED
      BY <1>3, <1>4, <2>1
  <1> QED
    BY <1>3, <1>5, <1>6 DEF w

\* What a commit does to the transactions.
LEMMA CommitTxns ==
  ASSUME IInv, NEW r \in Threads, Commit(r)
  PROVE  LET q == req[r]
         IN  /\ txn' \in [Plans -> Txns]
             /\ \A p \in Plans : p # q.tp => txn'[p] = txn[p]
             /\ \A p \in Plans : \A s \in Sources :
                  txn[p][s] # None => txn'[p][s] # None /\ txn'[p][s].amount = txn[p][s].amount
             /\ q.tp # None => q.tp \in Plans
             /\ q.tp # None /\ ~q.stale => txn'[q.tp] = [txn[q.tp] EXCEPT ![q.source] = q.now]
  <1> DEFINE q == req[r]
             new == IF q.was = None \/ txn[q.tp][q.source] = None THEN q.now
                    ELSE Written(txn[q.tp][q.source], q.was, q.now)
  <1>1. txn \in [Plans -> Txns]
    BY DEF IInv, TypeOK, Txns
  <1>2. q \in Request /\ TxnFits(q, plan, txn, settlement) /\ ~TakenSource(q)
    BY DEF IInv, Fits, Commit
  <1>3. txn' = IF q.tp = None THEN txn ELSE [txn EXCEPT ![q.tp][q.source] = new]
    BY DEF Commit
  <1> HIDE DEF q
  <1>4. CASE q.tp = None
    BY <1>1, <1>3, <1>4 DEF q
  <1>5. CASE q.tp # None
    <2>1. q.tp \in Plans /\ q.source \in Sources /\ q.now \in Txn /\ q.now # None
      BY <1>2, <1>5, IncentivesAssumption DEF TxnFits, Request
    <2>2. txn[q.tp] \in Txns /\ txn[q.tp][q.source] \in Txn \cup {None}
      BY <1>1, <2>1 DEF Txns
    <2>3. /\ new \in Txn /\ (txn[q.tp][q.source] # None => new.amount = txn[q.tp][q.source].amount)
          /\ (~q.stale => new = q.now)
      <3>1. CASE q.was = None
        <4>1. txn[q.tp][q.source] = None
          BY <1>2, <1>5, <3>1 DEF TakenSource
        <4> QED
          BY <2>1, <3>1, <4>1
      <3>2. CASE q.was # None
        <4>1. /\ txn[q.tp][q.source] # None /\ q.now.amount = q.was.amount
              /\ ~q.stale => txn[q.tp][q.source] = q.was
          BY <1>2, <1>5, <3>2 DEF TxnFits
        <4>2. txn[q.tp][q.source] \in Txn /\ q.was \in Txn
          BY <1>2, <2>2, <3>2, <4>1 DEF Request
        <4>3. new = Written(txn[q.tp][q.source], q.was, q.now)
          BY <3>2, <4>1
        <4> HIDE DEF new
        <4> QED
          BY <2>1, <4>1, <4>2, <4>3, WrittenTxn
      <3> QED
        BY <3>1, <3>2
    <2>4. new # None
      BY <2>3, IncentivesAssumption
    <2> HIDE DEF new
    <2>5. txn' = [txn EXCEPT ![q.tp] = [txn[q.tp] EXCEPT ![q.source] = new]]
      BY <1>1, <1>3, <1>5
    <2>6. [txn[q.tp] EXCEPT ![q.source] = new] \in Txns
      BY <2>2, <2>3 DEF Txns
    <2>7. txn' \in [Plans -> Txns]
      BY <1>1, <2>5, <2>6
    <2>8. \A p \in Plans : p # q.tp => txn'[p] = txn[p]
      BY <1>1, <2>5
    <2>9. \A p \in Plans : \A s \in Sources :
            txn[p][s] # None => txn'[p][s] # None /\ txn'[p][s].amount = txn[p][s].amount
      <3> TAKE p \in Plans
      <3> TAKE s \in Sources
      <3>1. CASE p = q.tp /\ s = q.source
        <4>1. txn'[p][s] = new
          BY <1>1, <2>1, <2>2, <2>5, <3>1 DEF Txns
        <4> QED
          BY <2>3, <2>4, <3>1, <4>1
      <3>2. CASE ~(p = q.tp /\ s = q.source)
        <4>1. txn'[p][s] = txn[p][s]
          BY <1>1, <2>1, <2>2, <2>5, <3>2 DEF Txns
        <4> QED
          BY <4>1
      <3> QED
        BY <3>1, <3>2
    <2>10. ~q.stale => txn'[q.tp] = [txn[q.tp] EXCEPT ![q.source] = q.now]
      BY <1>1, <2>1, <2>3, <2>5
    <2> QED
      BY <2>1, <2>7, <2>8, <2>9, <2>10 DEF q
  <1> QED
    BY <1>4, <1>5

\* What a commit does to the settlements.
LEMMA CommitSettlements ==
  ASSUME IInv, NEW r \in Threads, Commit(r)
  PROVE  LET q == req[r]
         IN  /\ settlement' \in [Plans -> Settlement \cup {None}]
             /\ \A p \in Plans : p # q.sp => settlement'[p] = settlement[p]
             /\ \A p \in Plans : settlement[p] # None =>
                  settlement'[p] # None /\ Kept(settlement[p], settlement'[p])
             /\ q.sp # None =>
                  /\ q.sp \in Plans /\ settlement'[q.sp] \in Settlement /\ Sane(settlement'[q.sp])
                  /\ ~q.stale => settlement'[q.sp] = q.snow
                  /\ settlement'[q.sp].recognized # None =>
                       q.snow.recognized # None \/ (settlement[q.sp] # None /\ settlement[q.sp].recognized # None)
  <1> DEFINE q == req[r]
             new == IF q.swas = None THEN q.snow ELSE Written(settlement[q.sp], q.swas, q.snow)
  <1>1. settlement \in [Plans -> Settlement \cup {None}]
    BY DEF IInv, TypeOK
  <1>2. q \in Request /\ SettlementFits(q, plan, txn, settlement) /\ ~TakenPeriod(q)
    BY DEF IInv, Fits, Commit
  <1>3. settlement' = IF q.sp = None THEN settlement ELSE [settlement EXCEPT ![q.sp] = new]
    BY DEF Commit
  <1>4. \A p \in Plans : settlement[p] # None => Sane(settlement[p]) /\ settlement[p] \in Settlement
    BY <1>1 DEF IInv, Solid
  <1> HIDE DEF q
  <1>5. CASE q.sp = None
    BY <1>1, <1>3, <1>5 DEF q, Kept
  <1>6. CASE q.sp # None
    <2>1. q.sp \in Plans /\ q.snow \in Settlement /\ Sane(q.snow)
      BY <1>2, <1>6 DEF SettlementFits, Request
    <2>2. /\ new \in Settlement /\ Sane(new) /\ (~q.stale => new = q.snow)
          /\ settlement[q.sp] # None => Kept(settlement[q.sp], new)
          /\ new.recognized # None =>
               q.snow.recognized # None \/ (settlement[q.sp] # None /\ settlement[q.sp].recognized # None)
      <3>1. CASE q.swas = None
        <4>1. settlement[q.sp] = None
          BY <1>2, <1>6, <3>1 DEF TakenPeriod
        <4> QED
          BY <2>1, <3>1, <4>1
      <3>2. CASE q.swas # None
        <4>1. /\ settlement[q.sp] # None /\ Kept(q.swas, settlement[q.sp]) /\ Kept(q.swas, q.snow)
              /\ ~q.stale => settlement[q.sp] = q.swas
          BY <1>2, <1>6, <3>2 DEF SettlementFits
        <4>2. settlement[q.sp] \in Settlement /\ Sane(settlement[q.sp]) /\ q.swas \in Settlement
          BY <1>2, <1>4, <2>1, <3>2, <4>1 DEF Request
        <4>3. new = Written(settlement[q.sp], q.swas, q.snow)
          BY <3>2
        <4> HIDE DEF new
        <4> QED
          BY <2>1, <4>1, <4>2, <4>3, WrittenFacts
      <3> QED
        BY <3>1, <3>2
    <2>3. new # None
      BY <2>2, IncentivesAssumption
    <2> HIDE DEF new
    <2>4. settlement' = [settlement EXCEPT ![q.sp] = new]
      BY <1>3, <1>6
    <2>5. settlement' \in [Plans -> Settlement \cup {None}] /\ settlement'[q.sp] = new
      BY <1>1, <2>1, <2>2, <2>4
    <2>6. \A p \in Plans : p # q.sp => settlement'[p] = settlement[p]
      BY <1>1, <2>4
    <2>7. \A p \in Plans : settlement[p] # None => settlement'[p] # None /\ Kept(settlement[p], settlement'[p])
      <3> TAKE p \in Plans
      <3>1. CASE p = q.sp
        BY <2>2, <2>3, <2>5, <3>1
      <3>2. CASE p # q.sp
        BY <2>6, <3>2 DEF Kept
      <3> QED
        BY <3>1, <3>2
    <2> QED
      BY <2>1, <2>2, <2>5, <2>6, <2>7 DEF q
  <1> QED
    BY <1>5, <1>6

\* What a commit does to the plans.
LEMMA CommitPlans ==
  ASSUME IInv, NEW r \in Threads, Commit(r)
  PROVE  LET q == req[r]
         IN  /\ plan' \in [Plans -> Plan]
             /\ \A p \in Plans : /\ plan'[p].status = plan[p].status /\ plan'[p].tiers = plan[p].tiers
                                 /\ plan[p].locked => plan'[p].locked
             /\ q.lock => plan'[q.sp].locked
  <1> DEFINE q == req[r]
  <1>1. plan \in [Plans -> Plan]
    BY DEF IInv, TypeOK
  <1>2. q \in Request /\ (q.lock => q.sp # None)
    BY DEF IInv, Fits
  <1>3. plan' = IF q.lock THEN [plan EXCEPT ![q.sp].locked = TRUE] ELSE plan
    BY DEF Commit
  <1> HIDE DEF q
  <1>4. CASE ~q.lock
    BY <1>1, <1>3, <1>4 DEF q
  <1>5. CASE q.lock
    <2>1. q.sp \in Plans
      BY <1>2, <1>5 DEF Request
    <2>2. plan[q.sp] \in Plan
      BY <1>1, <2>1
    <2> DEFINE locked == [plan[q.sp] EXCEPT !.locked = TRUE]
    <2>3. /\ locked \in Plan /\ locked.status = plan[q.sp].status /\ locked.tiers = plan[q.sp].tiers
          /\ locked.locked
      BY <2>2 DEF Plan
    <2>4. plan' = [plan EXCEPT ![q.sp] = locked]
      BY <1>1, <1>3, <1>5
    <2> HIDE DEF locked
    <2>5. plan' \in [Plans -> Plan]
      BY <1>1, <2>3, <2>4
    <2>6. plan'[q.sp] = locked /\ \A p \in Plans : p # q.sp => plan'[p] = plan[p]
      BY <1>1, <2>1, <2>4
    <2>7. \A p \in Plans : /\ plan'[p].status = plan[p].status /\ plan'[p].tiers = plan[p].tiers
                           /\ plan[p].locked => plan'[p].locked
      BY <2>3, <2>6
    <2> QED
      BY <2>3, <2>5, <2>6, <2>7 DEF q
  <1> QED
    BY <1>4, <1>5

\* A request still fits after a step that keeps what it builds on, and leaves alone the
\* plans it touches unless the request turns stale.
LEMMA StillFits ==
  ASSUME NEW q \in Request, NEW b \in BOOLEAN, q.stale => b,
         NEW pl, NEW tx, NEW se, NEW pl2, NEW tx2, NEW se2, Fits(q, pl, tx, se),
         \A p \in Plans : pl[p].status # "" =>
           /\ pl2[p].status = pl[p].status /\ pl2[p].tiers = pl[p].tiers /\ (pl[p].locked => pl2[p].locked),
         \A p \in Plans : \A s \in Sources : tx[p][s] # None => tx2[p][s] # None,
         \A p \in Plans : se[p] # None => se2[p] # None /\ Kept(se[p], se2[p]),
         ~b => \A p \in Touched(q) : tx2[p] = tx[p] /\ se2[p] = se[p]
  PROVE  [q EXCEPT !.stale = b] \in Request /\ Fits([q EXCEPT !.stale = b], pl2, tx2, se2)
  <1> DEFINE t == [q EXCEPT !.stale = b]
  <1>1. /\ t \in Request /\ t.tp = q.tp /\ t.source = q.source /\ t.told = q.told /\ t.was = q.was
        /\ t.now = q.now /\ t.sp = q.sp /\ t.swas = q.swas /\ t.snow = q.snow /\ t.lock = q.lock
        /\ t.settles = q.settles /\ t.stale = b
    BY DEF Request
  <1> HIDE DEF t
  <1>2. (q.tp # None => q.tp \in Plans /\ q.tp \in Touched(q)) /\ (q.sp # None => q.sp \in Plans /\ q.sp \in Touched(q))
    BY DEF Request, Touched
  <1>3. TxnFits(t, pl2, tx2, se2)
    <2> SUFFICES ASSUME q.tp # None PROVE TxnFits(t, pl2, tx2, se2)
      BY <1>1 DEF TxnFits
    <2>1. /\ pl[q.tp].status # "" /\ q.source \in Sources /\ q.now \in Txn
          /\ q.was # None => /\ tx[q.tp][q.source] # None /\ q.now.amount = q.was.amount
                             /\ q.was.status = "REVERSED" => q.now.status = "REVERSED"
          /\ ~q.stale => tx[q.tp][q.source] = q.was
          /\ q.settles => q.sp = IF q.told = None THEN q.tp ELSE q.told
          /\ ~q.settles /\ q.told \in {None, q.tp} => se[q.tp] # None /\ se[q.tp].closed
      BY DEF Fits, TxnFits
    <2>2. pl2[q.tp].status # "" /\ (q.was # None => tx2[q.tp][q.source] # None)
      BY <1>2, <2>1
    <2>3. ~b => tx2[q.tp][q.source] = q.was
      BY <1>2, <2>1
    <2>4. ~q.settles /\ q.told \in {None, q.tp} => se2[q.tp] # None /\ se2[q.tp].closed
      BY <1>2, <2>1 DEF Kept
    <2> QED
      BY <1>1, <2>1, <2>2, <2>3, <2>4 DEF TxnFits
  <1>4. SettlementFits(t, pl2, tx2, se2)
    <2> SUFFICES ASSUME q.sp # None PROVE SettlementFits(t, pl2, tx2, se2)
      BY <1>1 DEF SettlementFits
    <2>1. /\ pl[q.sp].status # "" /\ q.snow \in Settlement /\ Sane(q.snow) /\ PaidRight(q.snow)
          /\ q.snow.recognized # None => q.lock \/ pl[q.sp].locked
          /\ q.swas # None => /\ se[q.sp] # None /\ Kept(q.swas, se[q.sp]) /\ Kept(q.swas, q.snow)
                              /\ Frozen(q.swas, q.snow)
          /\ ~q.stale => se[q.sp] = q.swas
          /\ ~q.settles => q.tp = None /\ q.snow.closed
          /\ q.settles /\ ~q.stale => Says(q.snow, pl[q.sp].tiers, RowsAfter(q, tx))
      BY DEF Fits, SettlementFits
    <2>2. pl2[q.sp].status # "" /\ (q.snow.recognized # None => q.lock \/ pl2[q.sp].locked)
      BY <1>2, <2>1
    <2>3. q.swas # None => se2[q.sp] # None /\ Kept(q.swas, se2[q.sp])
      BY <1>2, <2>1 DEF Kept
    <2>4. ~b => se2[q.sp] = q.swas
      BY <1>2, <2>1
    <2>5. q.settles /\ ~b => Says(q.snow, pl2[q.sp].tiers, RowsAfter(t, tx2))
      <3>1. ~b => RowsAfter(t, tx2) = RowsAfter(q, tx)
        BY <1>1, <1>2, <2>1 DEF RowsAfter
      <3>2. pl2[q.sp].tiers = pl[q.sp].tiers
        BY <1>2, <2>1
      <3> QED
        BY <2>1, <3>1, <3>2
    <2> QED
      BY <1>1, <2>1, <2>2, <2>3, <2>4, <2>5 DEF SettlementFits
  <1> QED
    BY <1>1, <1>3, <1>4 DEF Fits, t

\* Commits leave the other requests fitting.
LEMMA OthersFit ==
  ASSUME IInv, NEW r \in Threads, Commit(r), NEW s \in Threads, s # r
  PROVE  req'[s] \in Request /\ Fits(req'[s], plan', txn', settlement')
  <1> DEFINE q == req[r]
             o == req[s]
             b == o.stale \/ Touched(o) \cap Touched(q) # {}
  <1>1. o \in Request /\ Fits(o, plan, txn, settlement) /\ q \in Request
    BY DEF IInv
  <1>2. req'[s] = [o EXCEPT !.stale = b]
    BY DEF Commit
  <1>3. o.stale \in BOOLEAN
    BY <1>1 DEF Request
  <1>4. ~b => \A p \in Touched(o) : txn'[p] = txn[p] /\ settlement'[p] = settlement[p]
    <2> SUFFICES ASSUME ~b, NEW p \in Touched(o)
                 PROVE  txn'[p] = txn[p] /\ settlement'[p] = settlement[p]
      OBVIOUS
    <2>1. p \notin Touched(q) /\ p \in Plans
      BY <1>1 DEF Touched, Request
    <2>2. p # q.tp /\ p # q.sp
      BY <2>1, IncentivesAssumption DEF Touched
    <2> QED
      BY <2>1, <2>2, CommitTxns, CommitSettlements
  <1>5. b \in BOOLEAN /\ (o.stale => b)
    BY <1>3
  <1> HIDE DEF o, b
  <1>6. \A p \in Plans : plan[p].status # "" =>
          /\ plan'[p].status = plan[p].status /\ plan'[p].tiers = plan[p].tiers
          /\ plan[p].locked => plan'[p].locked
    BY CommitPlans
  <1>7. \A p \in Plans : \A x \in Sources : txn[p][x] # None => txn'[p][x] # None
    BY CommitTxns
  <1>8. \A p \in Plans : settlement[p] # None => settlement'[p] # None /\ Kept(settlement[p], settlement'[p])
    BY CommitSettlements
  <1> HIDE DEF q
  <1>9. [o EXCEPT !.stale = b] \in Request /\ Fits([o EXCEPT !.stale = b], plan', txn', settlement')
    BY <1>1, <1>4, <1>5, <1>6, <1>7, <1>8, StillFits
  <1> QED
    BY <1>2, <1>9

LEMMA CommitSolid ==
  ASSUME IInv, NEW r \in Threads, Commit(r), NEW p \in Plans
  PROVE  Solid(p, plan', settlement')
  <1> DEFINE q == req[r]
  <1>1. q \in Request /\ SettlementFits(q, plan, txn, settlement) /\ Solid(p, plan, settlement)
    BY DEF IInv, Fits
  <1>2. /\ plan'[p].status = plan[p].status /\ (plan[p].locked => plan'[p].locked)
        /\ q.lock => plan'[q.sp].locked
    BY CommitPlans
  <1>3. /\ p # q.sp => settlement'[p] = settlement[p]
        /\ q.sp # None =>
             /\ Sane(settlement'[q.sp])
             /\ settlement'[q.sp].recognized # None =>
                  q.snow.recognized # None \/ (settlement[q.sp] # None /\ settlement[q.sp].recognized # None)
    BY CommitSettlements
  <1> HIDE DEF q
  <1>4. CASE p # q.sp
    BY <1>1, <1>2, <1>3, <1>4 DEF Solid
  <1>5. CASE p = q.sp
    <2>1. q.sp # None
      BY <1>5, IncentivesAssumption
    <2>2. plan[p].status # "" /\ (q.snow.recognized # None => q.lock \/ plan[p].locked)
      BY <1>1, <1>5, <2>1 DEF SettlementFits
    <2> QED
      BY <1>1, <1>2, <1>3, <1>5, <2>1, <2>2 DEF Solid
  <1> QED
    BY <1>4, <1>5

LEMMA CommitCurrent ==
  ASSUME IInv, NEW r \in Threads, Commit(r), NEW p \in Plans \ behind'
  PROVE  Current(p, plan', txn', settlement')
  <1> DEFINE q == req[r]
  <1>1. q \in Request /\ TxnFits(q, plan, txn, settlement) /\ SettlementFits(q, plan, txn, settlement)
    BY DEF IInv, Fits
  <1>2. p \in Plans /\ p # None /\ plan'[p].tiers = plan[p].tiers
    BY CommitPlans, IncentivesAssumption
  <1>3. txn[p] \in Txns
    BY <1>2 DEF IInv, TypeOK, Txns
  <1>4. /\ p # q.sp => p \notin behind
        /\ p \in {q.sp, q.tp} => ~q.stale
        /\ q.told \notin {None, q.tp} /\ q.was # q.now => p # q.tp
    <2>1. p \notin Behind(q)
      BY DEF Commit
    <2> HIDE DEF q
    <2>2. p \in {q.sp, q.tp} => p \in Touched(q)
      BY <1>2 DEF Touched
    <2> QED
      BY <2>1, <2>2 DEF Behind
  <1>5. /\ p # q.tp => txn'[p] = txn[p]
        /\ p = q.tp /\ ~q.stale => txn'[p] = [txn[p] EXCEPT ![q.source] = q.now]
    BY <1>2, CommitTxns
  <1>6. p # q.sp => settlement'[p] = settlement[p]
    BY <1>2, CommitSettlements
  <1>7. p = q.sp => ~q.stale /\ settlement'[p] = q.snow
    BY <1>2, <1>4, CommitSettlements
  <1> HIDE DEF q
  <1>8. CASE p = q.sp
    <2>1. ~q.stale /\ settlement'[p] = q.snow /\ PaidRight(q.snow)
      BY <1>1, <1>2, <1>7, <1>8 DEF SettlementFits
    <2>2. txn'[p] = RowsAfter(q, txn)
      BY <1>5, <1>8, <2>1 DEF RowsAfter
    <2>3. ~q.snow.closed => Says(q.snow, plan[p].tiers, RowsAfter(q, txn))
      BY <1>1, <1>2, <1>8, <2>1 DEF SettlementFits
    <2> QED
      BY <1>2, <2>1, <2>2, <2>3 DEF Current
  <1>9. CASE p # q.sp
    <2>1. Current(p, plan, txn, settlement) /\ settlement'[p] = settlement[p]
      BY <1>2, <1>4, <1>6, <1>9 DEF IInv
    <2>2. CASE p # q.tp
      BY <1>2, <1>5, <2>1, <2>2 DEF Current
    <2>3. CASE p = q.tp
      <3>1. ~q.stale /\ q.source \in Sources /\ txn[p][q.source] = q.was
        BY <1>1, <1>2, <1>4, <2>3 DEF TxnFits
      <3>2. CASE q.told \notin {None, q.tp}
        <4>1. q.was = q.now
          BY <1>4, <2>3, <3>2
        <4>2. txn'[p] = txn[p]
          BY <1>3, <1>5, <2>3, <3>1, <4>1 DEF Txns
        <4> QED
          BY <1>2, <2>1, <4>2 DEF Current
      <3>3. CASE q.told \in {None, q.tp}
        <4>1. ~q.settles
          BY <1>1, <1>2, <1>9, <2>3, <3>3 DEF TxnFits
        <4>2. settlement[p].closed
          BY <1>1, <1>2, <2>3, <3>3, <4>1 DEF TxnFits
        <4> QED
          BY <2>1, <4>2 DEF Current
      <3> QED
        BY <3>2, <3>3
    <2> QED
      BY <2>2, <2>3
  <1> QED
    BY <1>8, <1>9

LEMMA CommitKeeps ==
  ASSUME IInv, NEW r \in Threads, Commit(r)
  PROVE  IInv'
  <1> DEFINE q == req[r]
  <1>1. req[r] \in Request /\ UNCHANGED <<evidence, served>> /\ behind' = Behind(req[r])
    BY DEF IInv, Commit
  <1>2. behind' \subseteq Plans
    <2>1. Touched(req[r]) \subseteq Plans /\ req[r].tp \in Plans \cup {None} /\ behind \subseteq Plans
      BY <1>1 DEF Touched, Request, IInv, TypeOK
    <2>2. req[r].told # None => req[r].tp # None
      BY DEF IInv, Fits
    <2> QED
      BY <1>1, <2>1, <2>2 DEF Behind
  <1>3. req'[r] = NoPlan /\ DOMAIN req' = Threads /\ req' = [s \in Threads |-> req'[s]]
    BY DEF Commit
  <1>4. \A s \in Threads : req'[s] \in Request /\ Fits(req'[s], plan', txn', settlement')
    <2> TAKE s \in Threads
    <2>1. CASE s = r
      BY <1>3, <2>1, NoPlanFits
    <2>2. CASE s # r
      BY <2>2, OthersFit
    <2> QED
      BY <2>1, <2>2
  <1>5. req' \in [Threads -> Request] /\ \A s \in Threads : req'[s].kind \in Kinds
    BY <1>3, <1>4 DEF Request
  <1>6. plan' \in [Plans -> Plan] /\ txn' \in [Plans -> Txns] /\ settlement' \in [Plans -> Settlement \cup {None}]
    BY CommitPlans, CommitTxns, CommitSettlements
  <1>7. TypeOK'
    BY <1>1, <1>2, <1>5, <1>6 DEF IInv, TypeOK, Txns, Kinds
  <1>8. (\A p \in Plans : Solid(p, plan, settlement))'
    BY CommitSolid
  <1>9. (\A p \in Plans \ behind : Current(p, plan, txn, settlement))'
    BY CommitCurrent
  <1>10. (\A s \in Threads : Fits(req[s], plan, txn, settlement))'
    BY <1>4
  <1> QED
    BY <1>5, <1>7, <1>8, <1>9, <1>10 DEF IInv

-----------------------------------------------------------------------------
(* The other steps *)

LEMMA CreatePlanKeeps ==
  ASSUME IInv, CreatePlan
  PROVE  IInv'
  <1>1. PICK p \in Plans, t \in Tiers :
          /\ plan[p].status = ""
          /\ \E made \in {[status |-> "DRAFT", tiers |-> {}, locked |-> FALSE],
                          [status |-> "DRAFT", tiers |-> {t}, locked |-> FALSE],
                          [status |-> "ACTIVE", tiers |-> {t}, locked |-> FALSE]} :
               plan' = [plan EXCEPT ![p] = made]
    BY DEF CreatePlan
  <1>2. PICK made \in Plan : plan' = [plan EXCEPT ![p] = made]
    <2>1. {t} \in SUBSET Tiers /\ {} \in SUBSET Tiers
      OBVIOUS
    <2>2. /\ [status |-> "DRAFT", tiers |-> {}, locked |-> FALSE] \in Plan
          /\ [status |-> "DRAFT", tiers |-> {t}, locked |-> FALSE] \in Plan
          /\ [status |-> "ACTIVE", tiers |-> {t}, locked |-> FALSE] \in Plan
      BY <2>1 DEF Plan
    <2> QED
      BY <1>1, <2>2
  <1>3. UNCHANGED <<txn, settlement, evidence, req, behind>>
    BY DEF CreatePlan
  <1>4. served' \in 0 .. MaxRequests
    <2>1. served \in 0 .. MaxRequests
      BY DEF IInv, TypeOK
    <2>2. served < MaxRequests /\ served' = served + 1
      BY DEF CreatePlan
    <2> QED
      BY <2>1, <2>2, IncentivesAssumption
  <1>5. plan \in [Plans -> Plan] /\ req \in [Threads -> Request]
    BY DEF IInv, TypeOK
  <1>6. plan' \in [Plans -> Plan] /\ \A x \in Plans : x # p => plan'[x] = plan[x]
    BY <1>2, <1>5
  <1>7. TypeOK'
    BY <1>3, <1>4, <1>6 DEF IInv, TypeOK
  <1>8. \A x \in Plans : plan[x].status # "" => plan'[x] = plan[x]
    BY <1>1, <1>6
  <1>9. \A x \in Plans : settlement[x] # None => plan'[x] = plan[x]
    BY <1>8 DEF IInv, Solid
  <1>10. (\A x \in Plans : Solid(x, plan, settlement))'
    BY <1>3, <1>9 DEF IInv, Solid
  <1>11. (\A x \in Plans \ behind : Current(x, plan, txn, settlement))'
    BY <1>3, <1>7, <1>9 DEF IInv, Current
  <1>12. (\A r \in Threads : Fits(req[r], plan, txn, settlement))'
    <2> SUFFICES ASSUME NEW r \in Threads
                 PROVE  Fits(req[r], plan', txn, settlement)
      BY <1>3
    <2>1. req[r] \in Request /\ Fits(req[r], plan, txn, settlement)
      BY <1>5 DEF IInv
    <2>2. req[r].stale \in BOOLEAN /\ [req[r] EXCEPT !.stale = req[r].stale] = req[r]
      BY <2>1 DEF Request
    <2>3. \A x \in Plans : plan[x].status # "" =>
            /\ plan'[x].status = plan[x].status /\ plan'[x].tiers = plan[x].tiers
            /\ plan[x].locked => plan'[x].locked
      BY <1>8
    <2>4. \A x \in Plans : settlement[x] # None => settlement[x] # None /\ Kept(settlement[x], settlement[x])
      BY DEF Kept
    <2>5. Fits([req[r] EXCEPT !.stale = req[r].stale], plan', txn, settlement)
      BY <2>1, <2>2, <2>3, <2>4, StillFits
    <2> QED
      BY <2>2, <2>5
  <1> QED
    BY <1>3, <1>5, <1>7, <1>10, <1>11, <1>12 DEF IInv

LEMMA AddEvidenceKeeps ==
  ASSUME IInv, AddEvidence
  PROVE  IInv'
  <1>1. UNCHANGED <<plan, txn, settlement, req, behind>>
    BY DEF AddEvidence
  <1>2. served' \in 0 .. MaxRequests
    <2>1. served \in 0 .. MaxRequests
      BY DEF IInv, TypeOK
    <2>2. served < MaxRequests /\ served' = served + 1
      BY DEF AddEvidence
    <2> QED
      BY <2>1, <2>2, IncentivesAssumption
  <1>3. evidence' \in [Plans -> Nat]
    <2>1. PICK p \in Created : evidence' = [evidence EXCEPT ![p] = @ + 1]
      BY DEF AddEvidence
    <2>2. p \in Plans /\ evidence \in [Plans -> Nat]
      BY DEF Created, IInv, TypeOK
    <2>3. evidence[p] + 1 \in Nat
      BY <2>2
    <2> QED
      BY <2>1, <2>2, <2>3
  <1>4. TypeOK'
    BY <1>1, <1>2, <1>3 DEF IInv, TypeOK
  <1> QED
    BY <1>1, <1>4 DEF IInv

LEMMA DieKeeps ==
  ASSUME IInv, NEW r \in Threads, Die(r)
  PROVE  IInv'
  <1>1. UNCHANGED <<plan, txn, settlement, evidence, served, behind>> /\ req' = [req EXCEPT ![r] = NoPlan]
    BY DEF Die
  <1>2. req' \in [Threads -> Request] /\ \A s \in Threads : req'[s].kind \in Kinds
    BY <1>1, NoPlanFits DEF IInv, Request
  <1>3. TypeOK'
    BY <1>1, <1>2 DEF IInv, TypeOK, Kinds
  <1>4. \A s \in Threads : Fits(req'[s], plan, txn, settlement)
    BY <1>1, NoPlanFits DEF IInv
  <1>5. (\A s \in Threads : Fits(req[s], plan, txn, settlement))'
    BY <1>1, <1>4
  <1>6. (\A p \in Plans : Solid(p, plan, settlement))'
    BY <1>1 DEF IInv
  <1>7. (\A p \in Plans \ behind : Current(p, plan, txn, settlement))'
    BY <1>1 DEF IInv
  <1> QED
    BY <1>2, <1>3, <1>5, <1>6, <1>7 DEF IInv

LEMMA StepIInv == IInv /\ [Next]_vars => IInv'
  <1> SUFFICES ASSUME IInv, [Next]_vars PROVE IInv'
    OBVIOUS
  <1>1. CASE CreatePlan
    BY <1>1, CreatePlanKeeps
  <1>2. CASE AddEvidence
    BY <1>2, AddEvidenceKeeps
  <1>3. ASSUME NEW r \in Threads,
               \/ AddTxn(r) \/ ConfirmTxn(r) \/ ReverseTxn(r)
               \/ Claim(r) \/ Recognize(r) \/ Pay(r) \/ Commit(r) \/ Die(r)
        PROVE  IInv'
    BY <1>3, AddTxnKeeps, TxnsKeep, ClaimKeeps, RecognizeKeeps, PayKeeps, CommitKeeps, DieKeeps
  <1>4. CASE UNCHANGED vars
    BY <1>4 DEF vars, IInv, TypeOK, Solid, Current
  <1> QED
    BY <1>1, <1>2, <1>3, <1>4 DEF Next

LEMMA OnlyCommits ==
  ASSUME Next, txn' # txn \/ settlement' # settlement
  PROVE  \E r \in Threads : Commit(r)
  <1>1. ~CreatePlan /\ ~AddEvidence
    BY DEF CreatePlan, AddEvidence
  <1>2. ASSUME NEW r \in Threads, NEW q PROVE ~Begin(r, q)
    BY DEF Begin
  <1>3. \A r \in Threads : ~AddTxn(r)
    BY <1>2 DEF AddTxn
  <1>4. \A r \in Threads : ~ConfirmTxn(r) /\ ~ReverseTxn(r)
    BY <1>2 DEF ConfirmTxn, ReverseTxn, Changed
  <1>5. \A r \in Threads : ~Claim(r) /\ ~Recognize(r) /\ ~Pay(r) /\ ~Die(r)
    BY <1>2 DEF Claim, Recognize, Pay, Die
  <1> QED
    BY <1>1, <1>3, <1>4, <1>5 DEF Next

LEMMA AlwaysIInv == Spec => []IInv
  BY InitIInv, StepIInv, PTL DEF Spec

-----------------------------------------------------------------------------
(* Theorems *)

\* Every row holds values of its columns' types, whatever the requests do.
THEOREM TypeCorrect == Spec => []TypeOK
  <1>1. IInv => TypeOK
    BY DEF IInv
  <1> QED
    BY <1>1, AlwaysIInv, PTL

\* An open settlement of upsert_calculated_settlement says what the confirmed transactions
\* of its plan say, unless a request overlapped or came under the address of another plan.
THEOREM SettlementsFollow == Spec => []SettlementFollows
  <1>1. IInv => SettlementFollows
    BY DEF IInv, Current, Says, SettlementFollows
  <1> QED
    BY <1>1, AlwaysIInv, PTL

\* What mark_paid pays was recognized by mark_recognized and claimed before, and a
\* recognized plan is locked.
THEOREM ClaimsBeforeMoney == Spec => []MoneyFollowsClaim
  <1>1. IInv => MoneyFollowsClaim
    BY DEF IInv, Solid, Sane, Current, PaidRight, MoneyFollowsClaim
  <1> QED
    BY <1>1, AlwaysIInv, PTL

\* No request changes what a closed settlement was calculated from, unless it overlapped
\* the one that closed it.
THEOREM ClosedStaysFrozen == Spec => ClosedIsFrozen
  <1> DEFINE A == \A p \in Plans \ behind' :
                    settlement[p] # None =>
                      /\ settlement'[p] # None
                      /\ settlement[p].closed =>
                           /\ settlement'[p].closed
                           /\ settlement'[p].eligible = settlement[p].eligible
                           /\ settlement'[p].benefit = settlement[p].benefit
                           /\ settlement'[p].claimed = settlement[p].claimed
  <1>1. IInv /\ [Next]_vars => [A]_settlement
    <2> SUFFICES ASSUME IInv, Next, settlement' # settlement PROVE A
      BY DEF vars
    <2>1. PICK r \in Threads : Commit(r)
      BY OnlyCommits
    <2> SUFFICES ASSUME NEW p \in Plans \ behind', settlement[p] # None
                 PROVE  settlement'[p] # None /\ Frozen(settlement[p], settlement'[p])
      BY DEF Frozen
    <2>2. req[r] \in Request /\ SettlementFits(req[r], plan, txn, settlement)
      BY DEF IInv, Fits
    <2>3. p \in Plans /\ p # None
      BY IncentivesAssumption
    <2>4. CASE p # req[r].sp
      <3>1. settlement'[p] = settlement[p]
        BY <2>1, <2>3, <2>4, CommitSettlements
      <3> QED
        BY <3>1 DEF Frozen
    <2>5. CASE p = req[r].sp
      <3>1. ~req[r].stale
        BY <2>1, <2>3, <2>5 DEF Commit, Behind, Touched
      <3>2. settlement'[p] = req[r].snow /\ settlement'[p] # None
        BY <2>1, <2>3, <2>5, <3>1, CommitSettlements
      <3>3. settlement[p] = req[r].swas /\ Frozen(req[r].swas, req[r].snow)
        BY <2>2, <2>3, <2>5, <3>1 DEF SettlementFits
      <3> QED
        BY <3>2, <3>3
    <2> QED
      BY <2>4, <2>5
  <1>2. Spec => [][A]_settlement
    BY <1>1, AlwaysIInv, PTL DEF Spec
  <1> QED
    BY <1>2 DEF ClosedIsFrozen

\* beneficio_reverse_txn is final, and no request deletes a transaction or changes its amount.
THEOREM ReversalsStay == Spec => ReversedStays
  <1> DEFINE A == \A p \in Plans : \A s \in Filed(txn[p]) :
                    /\ txn'[p][s] # None /\ txn'[p][s].amount = txn[p][s].amount
                    /\ p \notin behind' /\ txn[p][s].status = "REVERSED" => txn'[p][s].status = "REVERSED"
  <1>1. IInv /\ [Next]_vars => [A]_txn
    <2> SUFFICES ASSUME IInv, Next, txn' # txn PROVE A
      BY DEF vars
    <2>1. PICK r \in Threads : Commit(r)
      BY OnlyCommits
    <2> SUFFICES ASSUME NEW p \in Plans, NEW s \in Filed(txn[p])
                 PROVE  /\ txn'[p][s] # None /\ txn'[p][s].amount = txn[p][s].amount
                        /\ p \notin behind' /\ txn[p][s].status = "REVERSED" => txn'[p][s].status = "REVERSED"
      OBVIOUS
    <2>2. s \in Sources /\ txn[p][s] # None
      BY DEF Filed
    <2>3. txn'[p][s] # None /\ txn'[p][s].amount = txn[p][s].amount
      BY <2>1, <2>2, CommitTxns
    <2>4. ASSUME p \notin behind', txn[p][s].status = "REVERSED"
          PROVE  txn'[p][s].status = "REVERSED"
      <3>1. req[r] \in Request /\ TxnFits(req[r], plan, txn, settlement)
        BY DEF IInv, Fits
      <3>2. p # None /\ txn[p] \in Txns
        BY IncentivesAssumption DEF IInv, TypeOK, Txns
      <3>3. CASE p # req[r].tp
        <4>1. txn'[p] = txn[p]
          BY <2>1, <3>3, CommitTxns
        <4> QED
          BY <2>4, <4>1
      <3>4. CASE p = req[r].tp
        <4>1. ~req[r].stale
          BY <2>1, <2>4, <3>2, <3>4 DEF Commit, Behind, Touched
        <4>2. txn'[p] = [txn[p] EXCEPT ![req[r].source] = req[r].now]
          BY <2>1, <3>2, <3>4, <4>1, CommitTxns
        <4>3. txn[p][req[r].source] = req[r].was
          BY <3>1, <3>2, <3>4, <4>1 DEF TxnFits
        <4>4. req[r].was # None /\ req[r].was.status = "REVERSED" => req[r].now.status = "REVERSED"
          BY <3>1, <3>2, <3>4 DEF TxnFits
        <4>5. CASE s = req[r].source
          <5>1. req[r].was # None /\ req[r].was.status = "REVERSED"
            BY <2>2, <2>4, <4>3, <4>5
          <5>2. txn'[p][s] = req[r].now
            BY <2>2, <3>2, <4>2, <4>5 DEF Txns
          <5> QED
            BY <4>4, <5>1, <5>2
        <4>6. CASE s # req[r].source
          <5>1. txn'[p][s] = txn[p][s]
            BY <2>2, <3>2, <4>2, <4>6 DEF Txns
          <5> QED
            BY <2>4, <5>1
        <4> QED
          BY <4>5, <4>6
      <3> QED
        BY <3>3, <3>4
    <2> QED
      BY <2>3, <2>4
  <1>2. Spec => [][A]_txn
    BY <1>1, AlwaysIInv, PTL DEF Spec
  <1> QED
    BY <1>2 DEF ReversedStays
=============================================================================
