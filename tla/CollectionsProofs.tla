-------------------------- MODULE CollectionsProofs --------------------------
(* Theorems about Collections, for every number of clerks and promises, every *)
(* premium, every number of installments and every amount typed.              *)
EXTENDS Collections, FiniteSetTheorems, TLAPS

Rows == [Ids -> Row]

\* A row has what another has allocated to it; or that and perhaps more.
SamePaid(new, old) == new.paid = old.paid /\ new.dust = old.dust
MorePaid(new, old) == new.paid >= old.paid /\ (old.dust => new.dust)

USE DEF Allocated, SamePaid, MorePaid

-----------------------------------------------------------------------------
(* Types *)

\* The equal share of an amount of cents is a whole number of cents, and so is
\* what is left for the last installment.
LEMMA ShareType ==
  ASSUME NEW total \in Nat, NEW n \in Nat \ {0}, NEW k
  PROVE  Share(total, n, k) \in Int
  <1>1. total \div n \in Int
    OBVIOUS
  <1>2. Base(total, n) \in Int
    BY <1>1 DEF Base
  <1>3. (n - 1) * Base(total, n) \in Int
    BY <1>2
  <1> QED
    BY <1>2, <1>3 DEF Share

\* What is stored of an amount is a whole number of cents, and no more than a
\* balance the amount exceeds by a tenth of a cent at most.
LEMMA StoredType ==
  ASSUME NEW tender \in Tenders
  PROVE  Stored(tender) \in Nat
  <1>1. tender \in Nat
    BY ConstantsAssumption
  <1> QED
    BY <1>1 DEF Stored

LEMMA StoredFits ==
  ASSUME NEW tender \in Tenders, NEW b \in Nat, tender <= 10 * b + 1
  PROVE  Stored(tender) <= b
  <1>1. tender \in Nat
    BY ConstantsAssumption
  <1> QED
    BY <1>1 DEF Stored

LEMMA DueType ==
  ASSUME NEW start \in Days, NEW k \in Int
  PROVE  DueOf(start, k) \in Days
  BY ConstantsAssumption DEF DueOf, Days

LEMMA GeneratedType ==
  ASSUME NEW first \in Nat, NEW n \in Nat \ {0}, NEW total \in Nat,
         NEW start \in Days, NEW i \in Int, first <= i
  PROVE  Generated(first, n, total, start, i) \in Row
  BY ShareType, DueType DEF Generated, Row

LEMMA NoRowType == NoRow \in Row /\ NoPromise \in PromiseRow /\ Idle \in Request
  BY ConstantsAssumption DEF NoRow, NoPromise, Idle, Row, PromiseRow, Request, Days

\* A plan has a natural number of live installments, and one if any is live.
LEMMA LiveCount ==
  ASSUME NEW rows
  PROVE  /\ Cardinality(Live(rows)) \in Nat
         /\ \A i \in Live(rows) : Cardinality(Live(rows)) # 0
  <1>1. IsFiniteSet(Ids)
    BY ConstantsAssumption, FS_Interval DEF Ids
  <1>2. IsFiniteSet(Live(rows))
    BY <1>1, FS_Subset DEF Live
  <1> QED
    BY <1>2, FS_CardinalityType, FS_EmptySet

\* A new task changes the tasks of a row and nothing else.
LEMMA TasksKeep ==
  ASSUME NEW db \in Rows, NEW seen, NEW looked
  PROVE  /\ WithTasks(db, seen, looked) \in Rows
         /\ \A i \in Ids : /\ WithTasks(db, seen, looked)[i].state = db[i].state
                           /\ SamePaid(WithTasks(db, seen, looked)[i], db[i])
                           /\ WithTasks(db, seen, looked)[i].amount = db[i].amount
                           /\ WithTasks(db, seen, looked)[i].due = db[i].due
  BY DEF WithTasks, Rows, Row

\* The UPDATE of a row changes its amount and its date and nothing else.
LEMMA MergeKeeps ==
  ASSUME NEW db \in Row, NEW old \in Row, NEW new \in Row
  PROVE  /\ MergeRow(db, old, new) \in Row
         /\ MergeRow(db, old, new).state = db.state
         /\ SamePaid(MergeRow(db, old, new), db)
         /\ MergeRow(db, old, new).tasks = db.tasks
  BY DEF MergeRow, Row

\* An edit, with tasks or without, leaves rows of the right type in the same
\* state and with the same money.
LEMMA EditKeeps ==
  ASSUME TypeOK, NEW w \in Clerks, NEW new \in Rows,
         WriteRows(w, new) \/ WriteRowsAndTasks(w, new)
  PROVE  /\ inst' \in Rows
         /\ \A i \in Ids : inst'[i].state = inst[i].state /\ SamePaid(inst'[i], inst[i])
  <1> DEFINE merged == [i \in Ids |-> MergeRow(inst[i], req[w].inst[i], new[i])]
  <1>1. req[w].inst \in Rows /\ inst \in Rows
    BY DEF TypeOK, Request, Rows
  <1>2. /\ merged \in Rows
        /\ \A i \in Ids : merged[i].state = inst[i].state /\ SamePaid(merged[i], inst[i])
    BY <1>1, MergeKeeps DEF Rows
  <1>3. CASE WriteRows(w, new)
    BY <1>2, <1>3 DEF WriteRows
  <1>4. CASE WriteRowsAndTasks(w, new)
    <2>1. inst' = WithTasks(merged, new, inst)
      BY <1>4 DEF WriteRowsAndTasks
    <2> HIDE DEF merged
    <2> QED
      BY <1>2, <2>1, TasksKeep
  <1> QED
    BY <1>3, <1>4

\* The rows an edit of the plan computes.
LEMMA TypedType ==
  ASSUME NEW rows \in Rows, NEW S \in SUBSET Ids,
         NEW typed \in [S -> [amount : Money, due : Days]]
  PROVE  [i \in Ids |-> IF i \in DOMAIN typed
            THEN [rows[i] EXCEPT !.amount = typed[i].amount, !.due = typed[i].due]
            ELSE rows[i]] \in Rows
  <1>1. \A i \in S : typed[i].amount \in Int /\ typed[i].due \in Days
    <2>1. \A i \in S : typed[i] \in [amount : Money, due : Days]
      OBVIOUS
    <2>2. \A m \in [amount : Money, due : Days] : m.amount \in Int /\ m.due \in Days
      <3> TAKE m \in [amount : Money, due : Days]
      <3>1. m.amount \in Money /\ m.due \in Days
        OBVIOUS
      <3> QED
        <4>1. Money \subseteq Int
          BY ConstantsAssumption
        <4> QED
          BY <3>1, <4>1
    <2> QED
      BY <2>1, <2>2
  <1>2. DOMAIN typed = S
    OBVIOUS
  <1>3. \A i \in Ids : rows[i] \in Row
    BY DEF Rows
  <1>4. \A i \in S : [rows[i] EXCEPT !.amount = typed[i].amount, !.due = typed[i].due] \in Row
    BY <1>1, <1>3 DEF Row
  <1> QED
    BY <1>2, <1>3, <1>4 DEF Rows

\* What an edit of the premium or of the plan leaves of the installments.
LEMMA PremiumKeeps ==
  ASSUME TypeOK, NEW w \in Clerks, NEW total \in Premiums, EditPremium(w, total)
  PROVE  /\ inst' \in Rows
         /\ \A i \in Ids : inst'[i].state = inst[i].state /\ SamePaid(inst'[i], inst[i])
  <1>1. total \in Nat /\ req[w].inst \in Rows /\ inst \in Rows
    BY ConstantsAssumption DEF TypeOK, Request, Rows
  <1> DEFINE n == Cardinality(Live(req[w].inst))
             Fits(k) == \A j \in 1 .. k : Share(total, n, j) > 0
             new == [i \in Ids |-> IF i \in Live(req[w].inst) /\ Fits(req[w].inst[i].num)
                      THEN [req[w].inst[i] EXCEPT !.amount = Share(total, n, req[w].inst[i].num)]
                      ELSE req[w].inst[i]]
  <1>2. new \in Rows
    <2>1. \A i \in Live(req[w].inst) : Share(total, n, req[w].inst[i].num) \in Int
      BY <1>1, LiveCount, ShareType
    <2> HIDE DEF Fits, n
    <2> QED
      BY <1>1, <2>1 DEF Rows, Row
  <1>3. inst' = inst \/ WriteRows(w, new) \/ WriteRowsAndTasks(w, new)
    BY DEF EditPremium
  <1> HIDE DEF new
  <1> QED
    BY <1>1, <1>2, <1>3, EditKeeps

LEMMA OpenKeeps ==
  ASSUME TypeOK, NEW w \in Clerks, NEW typed \in Forms(w), NEW stops, UpdateOpen(w, typed, stops)
  PROVE  /\ inst' \in Rows
         /\ \A i \in Ids : inst'[i].state = inst[i].state /\ SamePaid(inst'[i], inst[i])
  <1>1. req[w].inst \in Rows
    BY DEF TypeOK, Request, Rows
  <1>2. PICK S \in SUBSET Live(req[w].inst) : typed \in [S -> [amount : Money, due : Days]]
    BY DEF Forms
  <1>3. S \in SUBSET Ids
    BY DEF Live
  <1> DEFINE new == [i \in Ids |-> IF i \in DOMAIN typed
                THEN [req[w].inst[i] EXCEPT !.amount = typed[i].amount, !.due = typed[i].due]
                ELSE req[w].inst[i]]
  <1>4. new \in Rows
    BY <1>1, <1>2, <1>3, TypedType
  <1>5. WriteRows(w, new) \/ WriteRowsAndTasks(w, new)
    BY DEF UpdateOpen
  <1> HIDE DEF new
  <1> QED
    BY <1>4, <1>5, EditKeeps

\* The rows of a regenerated plan: the old ones deleted with what was paid into
\* them, which is nothing, the new ones live.
LEMMA FreshRows ==
  ASSUME TypeOK, NEW w \in Clerks, NEW n \in Counts, NEW start \in Days,
         Regenerate(w, n, start)
  PROVE  /\ inst' \in Rows
         /\ made' \in 0 .. MaxRows
         /\ \A i \in Ids :
              \/ i \in Live(req[w].inst) /\ inst'[i].state = "deleted" /\ SamePaid(inst'[i], inst[i])
              \/ i \in made + 1 .. made' /\ ~Allocated(inst'[i])
              \/ /\ i \notin Live(req[w].inst) /\ i \notin made + 1 .. made'
                 /\ inst'[i].state = inst[i].state /\ SamePaid(inst'[i], inst[i])
  <1> DEFINE r == req[w]
             fresh == [i \in Ids |->
                 IF i \in Live(r.inst) THEN [inst[i] EXCEPT !.state = "deleted", !.tasks = 0]
                 ELSE IF i \in made + 1 .. made + n THEN Generated(made, n, r.premium, start, i)
                 ELSE [inst[i] EXCEPT !.tasks = 0]]
  <1>1. /\ made \in Nat /\ n \in Nat \ {0} /\ r.premium \in Nat /\ inst \in Rows
        /\ made' = made + n /\ made + n <= MaxRows /\ MaxRows \in Nat
    <2>1. made' = made + n /\ made + n <= MaxRows
      BY DEF Regenerate
    <2> QED
      BY <2>1, ConstantsAssumption DEF TypeOK, Request, Rows
  <1>2. \A i \in made + 1 .. made + n : Generated(made, n, r.premium, start, i) \in Row
    BY <1>1, GeneratedType
  <1>3. fresh \in Rows
    BY <1>1, <1>2 DEF Rows, Row
  <1>4. inst' = WithTasks(fresh, fresh, fresh)
    BY DEF Regenerate
  <1>5. \A i \in Ids :
              \/ i \in Live(r.inst) /\ fresh[i].state = "deleted" /\ SamePaid(fresh[i], inst[i])
              \/ i \in made + 1 .. made + n /\ ~Allocated(fresh[i])
              \/ /\ i \notin Live(r.inst) /\ i \notin made + 1 .. made + n
                 /\ fresh[i].state = inst[i].state /\ SamePaid(fresh[i], inst[i])
    <2> SUFFICES ASSUME NEW i \in Ids
                 PROVE  \/ i \in Live(r.inst) /\ fresh[i].state = "deleted" /\ SamePaid(fresh[i], inst[i])
                        \/ i \in made + 1 .. made + n /\ ~Allocated(fresh[i])
                        \/ /\ i \notin Live(r.inst) /\ i \notin made + 1 .. made + n
                           /\ fresh[i].state = inst[i].state /\ SamePaid(fresh[i], inst[i])
      OBVIOUS
    <2>1. inst[i] \in Row
      BY <1>1 DEF Rows
    <2>2. CASE i \in Live(r.inst)
      <3>1. fresh[i] = [inst[i] EXCEPT !.state = "deleted", !.tasks = 0]
        BY <2>2
      <3> QED
        BY <2>1, <2>2, <3>1 DEF Row
    <2>3. CASE i \notin Live(r.inst) /\ i \in made + 1 .. made + n
      <3>1. fresh[i] = Generated(made, n, r.premium, start, i)
        BY <2>3
      <3>2. fresh[i].paid = 0 /\ fresh[i].dust = FALSE
        BY <3>1 DEF Generated
      <3> QED
        BY <2>3, <3>2
    <2>4. CASE i \notin Live(r.inst) /\ i \notin made + 1 .. made + n
      <3>1. fresh[i] = [inst[i] EXCEPT !.tasks = 0]
        BY <2>4
      <3> QED
        BY <2>1, <2>4, <3>1 DEF Row
    <2> QED
      BY <2>2, <2>3, <2>4
  <1> HIDE DEF fresh
  <1>6. /\ inst' \in Rows
        /\ \A i \in Ids : inst'[i].state = fresh[i].state /\ SamePaid(inst'[i], fresh[i])
    BY <1>3, <1>4, TasksKeep
  <1> QED
    BY <1>1, <1>5, <1>6

\* The initial rows.
LEMMA InitRows ==
  ASSUME Init
  PROVE  TypeOK /\ \A i \in Ids : ~Allocated(inst[i]) /\ (i > made => inst[i].state = "none")
  <1>1. PICK p \in Premiums, n \in Counts, start \in Days :
           /\ n <= MaxRows /\ premium = p /\ made = n
           /\ inst = [i \in Ids |-> IF i <= n THEN Generated(0, n, p, start, i) ELSE NoRow]
    BY DEF Init
  <1>2. p \in Nat /\ n \in Nat \ {0} /\ MaxRows \in Nat
    BY ConstantsAssumption
  <1>3. \A i \in Ids : Generated(0, n, p, start, i) \in Row
    BY <1>2, GeneratedType DEF Ids
  <1>4. inst \in Rows
    BY <1>1, <1>3, NoRowType DEF Rows
  <1>5. TypeOK
    BY <1>1, <1>2, <1>4, NoRowType, ConstantsAssumption DEF TypeOK, Init, Days, Rows
  <1>6. \A i \in Ids : inst[i].paid = 0 /\ inst[i].dust = FALSE /\ (i > made => inst[i].state = "none")
    BY <1>1, <1>2 DEF Generated, NoRow, Ids
  <1> QED
    BY <1>5, <1>6

\* Every step keeps the types.
LEMMA TypeStep == TypeOK /\ [Next]_vars => TypeOK'
  <1> SUFFICES ASSUME TypeOK, [Next]_vars
               PROVE  TypeOK'
    OBVIOUS
  <1>1. \A w \in Clerks : /\ req[w] \in Request
                          /\ [req EXCEPT ![w] = Idle] \in [Clerks -> Request]
    BY NoRowType DEF TypeOK
  <1>2. ASSUME NEW w \in Clerks, Begin(w)
        PROVE  TypeOK'
    <2>1. premium \in Nat /\ 0 \in Nat
      BY ConstantsAssumption DEF TypeOK
    <2>2. [pc |-> "loaded", premium |-> premium, inst |-> inst, promise |-> promise,
           target |-> 0, amt |-> 0] \in Request
      BY <2>1 DEF TypeOK, Request
    <2> QED
      BY <1>2, <2>2 DEF TypeOK, Begin
  <1>3. ASSUME NEW w \in Clerks, Leave(w)
        PROVE  TypeOK'
    BY <1>1, <1>3 DEF TypeOK, Leave
  <1>4. ASSUME NEW w \in Clerks, NEW i \in Ids, NEW tender \in Tenders, PayCheck(w, i, tender)
        PROVE  TypeOK'
    <2>1. i \in Nat /\ Stored(tender) \in Nat
      BY StoredType DEF Ids
    <2>2. [req[w] EXCEPT !.pc = "paying", !.promise = promise, !.target = i,
                        !.amt = Stored(tender)]
            \in Request
      BY <2>1, <1>1 DEF TypeOK, Request
    <2> QED
      BY <1>4, <2>2 DEF TypeOK, PayCheck
  <1>5. ASSUME NEW w \in Clerks, PayCommit(w)
        PROVE  TypeOK'
    <2>1. inst' \in [Ids -> Row]
      <3>1. req[w].amt \in Nat
        BY <1>1 DEF Request
      <3>2. \A i \in Ids : inst[i] \in Row /\ inst[i].paid \in Nat
        BY DEF TypeOK, Row
      <3>3. \A i \in Ids : inst[i].paid + req[w].amt \in Nat
        BY <3>1, <3>2
      <3>4. \A i \in Ids : [inst[i] EXCEPT !.paid = @ + req[w].amt,
                                            !.dust = @ \/ req[w].amt = 0] \in Row
        BY <3>2, <3>3 DEF Row
      <3> QED
        BY <1>5, <3>4 DEF TypeOK, PayCommit
    <2>2. promise' \in [Promises -> PromiseRow]
      BY <1>5 DEF TypeOK, PayCommit, PromiseRow
    <2> QED
      BY <1>1, <1>5, <2>1, <2>2 DEF TypeOK, PayCommit
  <1>6. ASSUME NEW w \in Clerks, NEW i \in Ids, NEW p \in Promises, NEW date \in Days,
               NewPromise(w, i, p, date)
        PROVE  TypeOK'
    <2>1. i \in Nat
      BY DEF Ids
    <2>2. promise' \in [Promises -> PromiseRow]
      BY <1>6, <2>1 DEF TypeOK, NewPromise, PromiseRow
    <2> QED
      BY <1>1, <1>6, <2>2 DEF TypeOK, NewPromise
  <1>7. ASSUME NEW w \in Clerks, Refresh(w)
        PROVE  TypeOK'
    <2>1. promise' \in [Promises -> PromiseRow]
      BY <1>7 DEF TypeOK, Refresh, PromiseRow
    <2> QED
      BY <1>1, <1>7, <2>1 DEF TypeOK, Refresh
  <1>8. ASSUME NEW w \in Clerks, NEW total \in Premiums, EditPremium(w, total)
        PROVE  TypeOK'
    <2>1. inst' \in [Ids -> Row]
      BY <1>8, PremiumKeeps DEF Rows
    <2> QED
      BY <1>1, <1>8, <2>1 DEF TypeOK, EditPremium
  <1>9. ASSUME NEW w \in Clerks, NEW n \in Counts, NEW start \in Days, Regenerate(w, n, start)
        PROVE  TypeOK'
    <2>1. inst' \in [Ids -> Row] /\ made' \in 0 .. MaxRows
      BY <1>9, FreshRows DEF Rows
    <2>2. promise' \in [Promises -> PromiseRow]
      BY <1>9 DEF TypeOK, Regenerate, PromiseRow
    <2>3. premium' = premium /\ today' = today /\ req' = [req EXCEPT ![w] = Idle]
      BY <1>9 DEF Regenerate
    <2> QED
      BY <1>1, <2>1, <2>2, <2>3 DEF TypeOK
  <1>10. ASSUME NEW w \in Clerks, NEW typed \in Forms(w), NEW stops \in BOOLEAN,
                UpdateOpen(w, typed, stops)
         PROVE  TypeOK'
    <2>1. inst' \in [Ids -> Row]
      BY <1>10, OpenKeeps DEF Rows
    <2> QED
      BY <1>1, <1>10, <2>1 DEF TypeOK, UpdateOpen
  <1>11. ASSUME NEW w \in Clerks, Materialize(w)
         PROVE  TypeOK'
    <2>1. inst' \in [Ids -> Row]
      BY <1>11, TasksKeep DEF TypeOK, Materialize, Rows
    <2> QED
      BY <1>1, <1>11, <2>1 DEF TypeOK, Materialize
  <1>12. CASE NextDay
    BY <1>12, ConstantsAssumption DEF TypeOK, NextDay, Days
  <1>13. CASE UNCHANGED vars
    BY <1>13 DEF TypeOK, vars, Request, Row
  <1> QED
    BY <1>2, <1>3, <1>4, <1>5, <1>6, <1>7, <1>8, <1>9, <1>10, <1>11, <1>12, <1>13 DEF Next

\* Every variable keeps its type, for every number of clerks, every premium and
\* every plan.
THEOREM TypeCorrect == Spec => []TypeOK
  <1>1. Init => TypeOK
    BY InitRows
  <1> QED
    BY <1>1, TypeStep, PTL DEF Spec

-----------------------------------------------------------------------------
(* Money and promises, however requests overlap *)

\* Money lies on live installments; rows not made yet are empty.
MoneyIsLive ==
  \A i \in Ids : /\ Allocated(inst[i]) => inst[i].state = "live"
                 /\ i > made => inst[i].state = "none"

\* A promise on file has its installment; a fulfilled one a payment.
PromisesStand ==
  \A p \in Promises :
    /\ promise[p].status \notin {"NONE", "DELETED"} =>
         promise[p].inst \in Ids /\ inst[promise[p].inst].state = "live"
    /\ promise[p].status = "FULFILLED" => Allocated(inst[promise[p].inst])

\* What a request has read: promises on file stay on file; the key-share lock of
\* a payment keeps its installment, and with it the promises to be fulfilled.
ReadsStand ==
  \A w \in Clerks :
    /\ req[w].pc # "idle" =>
         \A p \in Promises : req[w].promise[p].status # "NONE" => promise[p].status # "NONE"
    /\ req[w].pc = "paying" =>
         /\ req[w].target \in Ids /\ inst[req[w].target].state = "live"
         /\ \A p \in OpenFor(req[w].promise, req[w].target) :
              promise[p].inst = req[w].target /\ promise[p].status \notin {"NONE", "DELETED"}

Standing == MoneyIsLive /\ PromisesStand /\ ReadsStand

\* A step that moves no money, deletes no row and leaves the promises alone, and
\* starts no request.
LEMMA QuietStep ==
  ASSUME TypeOK, Standing, NEW w \in Clerks,
         \A i \in Ids : inst'[i].state = inst[i].state /\ SamePaid(inst'[i], inst[i]),
         made' = made, promise' = promise, req' = [req EXCEPT ![w] = Idle] \/ req' = req
  PROVE  Standing'
  <1>1. MoneyIsLive'
    BY DEF Standing, MoneyIsLive
  <1>2. PromisesStand'
    BY DEF Standing, PromisesStand
  <1>3. ReadsStand'
    <2> SUFFICES ASSUME NEW v \in Clerks, req'[v].pc # "idle"
                 PROVE  /\ \A p \in Promises :
                             req'[v].promise[p].status # "NONE" => promise[p].status # "NONE"
                        /\ req'[v].pc = "paying" =>
                             /\ req'[v].target \in Ids /\ inst'[req'[v].target].state = "live"
                             /\ \A p \in OpenFor(req'[v].promise, req'[v].target) :
                                  /\ promise[p].inst = req'[v].target
                                  /\ promise[p].status \notin {"NONE", "DELETED"}
      BY DEF ReadsStand, OpenFor
    <2>1. req'[v] = req[v]
      BY DEF TypeOK, Idle
    <2> QED
      BY <2>1 DEF Standing, ReadsStand
  <1> QED
    BY <1>1, <1>2, <1>3 DEF Standing

\* A request that begins has read the promises as they are.
LEMMA BeginStands ==
  ASSUME TypeOK, Standing, NEW w \in Clerks, Begin(w)
  PROVE  Standing'
  <1>1. /\ inst' = inst /\ made' = made /\ promise' = promise
        /\ req'[w].pc = "loaded" /\ req'[w].promise = promise
        /\ \A v \in Clerks \ {w} : req'[v] = req[v]
    BY DEF Begin, TypeOK
  <1> QED
    BY <1>1 DEF Standing, MoneyIsLive, PromisesStand, ReadsStand, OpenFor

\* A payment that passed its check has read the promises of a live installment.
LEMMA PayCheckStands ==
  ASSUME TypeOK, Standing, NEW w \in Clerks, NEW i \in Ids, NEW tender \in Tenders,
         PayCheck(w, i, tender)
  PROVE  Standing'
  <1>1. /\ inst' = inst /\ made' = made /\ promise' = promise
        /\ req'[w].pc = "paying" /\ req'[w].promise = promise
        /\ req'[w].target = i
        /\ \A v \in Clerks \ {w} : req'[v] = req[v]
    BY DEF PayCheck, TypeOK, Request
  <1>2. inst[i].state = "live"
    BY DEF PayCheck, Exists
  <1> QED
    BY <1>1, <1>2 DEF Standing, MoneyIsLive, PromisesStand, ReadsStand, OpenFor

\* A payment is allocated to the installment it holds as it fulfills promises.
LEMMA PayCommitStands ==
  ASSUME TypeOK, Standing, NEW w \in Clerks, PayCommit(w)
  PROVE  /\ Standing'
         /\ \A i \in Ids : inst'[i].state = inst[i].state /\ MorePaid(inst'[i], inst[i])
  <1> DEFINE t == req[w].target
             done == OpenFor(req[w].promise, t)
  <1>1. /\ t \in Ids /\ inst[t].state = "live" /\ req[w].amt \in Nat
        /\ \A p \in done : promise[p].inst = t /\ promise[p].status \notin {"NONE", "DELETED"}
    BY DEF PayCommit, Standing, ReadsStand, TypeOK, Request
  <1>2. \A i \in Ids : inst[i].paid \in Nat
    BY DEF TypeOK, Row
  <1>3. inst' = [inst EXCEPT ![t].paid = @ + req[w].amt, ![t].dust = @ \/ req[w].amt = 0]
    BY DEF PayCommit
  <1>4. \A i \in Ids : inst'[i].state = inst[i].state
    BY <1>3 DEF TypeOK, Row
  <1>5. \A i \in Ids \ {t} : SamePaid(inst'[i], inst[i])
    BY <1>3 DEF TypeOK, Row
  <1>6. /\ inst'[t].paid = inst[t].paid + req[w].amt
        /\ inst[t].dust \/ req[w].amt = 0 => inst'[t].dust
    BY <1>1, <1>3 DEF TypeOK, Row
  <1>7. Allocated(inst'[t]) /\ MorePaid(inst'[t], inst[t])
    <2>1. req[w].amt = 0 \/ inst'[t].paid > 0
      BY <1>1, <1>2, <1>6
    <2>2. inst'[t].paid >= inst[t].paid
      BY <1>1, <1>2, <1>6
    <2> QED
      BY <1>6, <2>1, <2>2
  <1>8. \A i \in Ids : MorePaid(inst'[i], inst[i])
    BY <1>2, <1>5, <1>7
  <1>9. made' = made /\ req'[w] = Idle /\ \A v \in Clerks \ {w} : req'[v] = req[v]
    BY DEF PayCommit, TypeOK
  <1>10. \A p \in Promises :
           /\ promise'[p].inst = promise[p].inst
           /\ p \in done => promise'[p].status = "FULFILLED"
           /\ p \notin done => promise'[p].status = promise[p].status
    BY DEF PayCommit, TypeOK, PromiseRow
  <1>11. MoneyIsLive'
    <2>1. \A i \in Ids \ {t} : Allocated(inst'[i]) => inst'[i].state = "live"
      BY <1>4, <1>5 DEF Standing, MoneyIsLive
    <2>2. \A i \in Ids : i > made => inst'[i].state = "none"
      BY <1>4 DEF Standing, MoneyIsLive
    <2> QED
      BY <1>1, <1>4, <1>9, <2>1, <2>2 DEF MoneyIsLive
  <1>12. PromisesStand'
    <2> SUFFICES ASSUME NEW p \in Promises
                 PROVE  /\ promise'[p].status \notin {"NONE", "DELETED"} =>
                             promise'[p].inst \in Ids /\ inst'[promise'[p].inst].state = "live"
                        /\ promise'[p].status = "FULFILLED" => Allocated(inst'[promise'[p].inst])
      BY DEF PromisesStand
    <2>1. CASE p \in done
      BY <1>1, <1>4, <1>7, <1>10, <2>1
    <2>2. CASE p \notin done
      <3>1. promise'[p].status = promise[p].status /\ promise'[p].inst = promise[p].inst
        BY <1>10, <2>2
      <3>2. promise[p].status = "FULFILLED" =>
              promise[p].inst \in Ids /\ Allocated(inst[promise[p].inst])
        BY DEF Standing, PromisesStand
      <3>3. promise[p].status = "FULFILLED" => Allocated(inst'[promise[p].inst])
        BY <1>5, <1>7, <3>2
      <3> QED
        BY <1>4, <3>1, <3>3 DEF Standing, PromisesStand
    <2> QED
      BY <2>1, <2>2
  <1>13. ReadsStand'
    <2>1. \A p \in Promises : promise[p].status # "NONE" => promise'[p].status # "NONE"
      BY <1>10
    <2>2. \A p \in Promises : promise[p].status \notin {"NONE", "DELETED"} =>
            promise'[p].status \notin {"NONE", "DELETED"}
      BY <1>10
    <2> HIDE DEF done, t
    <2> QED
      BY <1>4, <1>9, <1>10, <2>1, <2>2 DEF Standing, ReadsStand, OpenFor, Idle
  <1> QED
    BY <1>4, <1>8, <1>11, <1>12, <1>13 DEF Standing

\* A new promise is made for an installment that exists; the old ones are on file.
LEMMA NewPromiseStands ==
  ASSUME TypeOK, Standing, NEW w \in Clerks, NEW i \in Ids, NEW p \in Promises,
         NEW date \in Days, NewPromise(w, i, p, date)
  PROVE  Standing'
  <1> DEFINE old == OpenFor(req[w].promise, i)
  <1>1. /\ inst[i].state = "live" /\ promise[p].status = "NONE"
        /\ inst' = inst /\ made' = made
        /\ req'[w] = Idle /\ \A v \in Clerks \ {w} : req'[v] = req[v]
    BY DEF NewPromise, Exists, TypeOK
  <1>2. \A x \in old : promise[x].status \notin {"NONE", "DELETED"}
    BY DEF NewPromise, StillThere, Standing, ReadsStand, OpenFor
  <1>3. /\ promise'[p].status = "ACTIVE" /\ promise'[p].inst = i
        /\ \A x \in Promises \ {p} :
             /\ promise'[x].inst = promise[x].inst
             /\ x \in old => promise'[x].status = "CANCELLED"
             /\ x \notin old => promise'[x].status = promise[x].status
    BY DEF NewPromise, TypeOK, PromiseRow
  <1> HIDE DEF old
  <1>4. MoneyIsLive'
    BY <1>1 DEF Standing, MoneyIsLive
  <1>5. PromisesStand'
    BY <1>1, <1>2, <1>3 DEF Standing, PromisesStand
  <1>6. ReadsStand'
    BY <1>1, <1>2, <1>3 DEF Standing, ReadsStand, OpenFor, Idle
  <1> QED
    BY <1>4, <1>5, <1>6 DEF Standing

\* A promise reported broken is on file.
LEMMA RefreshStands ==
  ASSUME TypeOK, Standing, NEW w \in Clerks, Refresh(w)
  PROVE  Standing'
  <1> DEFINE late == Late(req[w].promise)
  <1>1. /\ inst' = inst /\ made' = made
        /\ req'[w] = Idle /\ \A v \in Clerks \ {w} : req'[v] = req[v]
    BY DEF Refresh, TypeOK
  <1>2. \A x \in late : promise[x].status \notin {"NONE", "DELETED"}
    BY DEF Refresh, StillThere, Standing, ReadsStand, Late
  <1>3. \A x \in Promises :
          /\ promise'[x].inst = promise[x].inst
          /\ x \in late => promise'[x].status = "BROKEN"
          /\ x \notin late => promise'[x].status = promise[x].status
    BY DEF Refresh, TypeOK, PromiseRow
  <1> HIDE DEF late
  <1>4. MoneyIsLive'
    BY <1>1 DEF Standing, MoneyIsLive
  <1>5. PromisesStand'
    BY <1>1, <1>2, <1>3 DEF Standing, PromisesStand
  <1>6. ReadsStand'
    BY <1>1, <1>2, <1>3 DEF Standing, ReadsStand, OpenFor, Idle
  <1> QED
    BY <1>4, <1>5, <1>6 DEF Standing

\* A regeneration replaces rows without money, takes their promises with them,
\* and meets no payment in course.
LEMMA RegenerateStands ==
  ASSUME TypeOK, Standing, NEW w \in Clerks, NEW n \in Counts, NEW start \in Days,
         Regenerate(w, n, start)
  PROVE  /\ Standing'
         /\ \A i \in Ids : Allocated(inst[i]) =>
              inst'[i].state = "live" /\ MorePaid(inst'[i], inst[i])
  <1>1. /\ Live(req[w].inst) = Live(inst) /\ Unpaid(inst)
        /\ \A v \in Clerks : req[v].pc = "paying" => req[v].target \notin Live(inst)
        /\ req'[w] = Idle /\ \A v \in Clerks \ {w} : req'[v] = req[v]
    BY DEF Regenerate, PlanIsFree, TypeOK
  <1>2. made \in Nat /\ made' \in Nat /\ made <= made' /\ Ids \subseteq Nat
    <2>1. made' = made + n
      BY DEF Regenerate
    <2>2. n \in Nat /\ made \in Nat
      BY ConstantsAssumption DEF TypeOK
    <2> QED
      BY <2>1, <2>2 DEF Ids
  <1>3. \A i \in Ids :
              \/ i \in Live(inst) /\ inst'[i].state = "deleted" /\ SamePaid(inst'[i], inst[i])
              \/ i \in made + 1 .. made' /\ ~Allocated(inst'[i])
              \/ /\ i \notin Live(inst) /\ i \notin made + 1 .. made'
                 /\ inst'[i].state = inst[i].state /\ SamePaid(inst'[i], inst[i])
    BY <1>1, FreshRows
  <1>4. \A i \in Ids : ~Allocated(inst[i])
    <2>1. \A i \in Ids : inst[i].paid \in Nat
      BY DEF TypeOK, Row
    <2>2. \A i \in Live(inst) : ~(Allocated(inst[i]))
      BY <1>1 DEF Unpaid, Locked
    <2>3. \A i \in Ids : Allocated(inst[i]) => i \in Live(inst)
      BY DEF Standing, MoneyIsLive, Live
    <2> QED
      BY <2>1, <2>2, <2>3
  <1>5. \A i \in Ids : ~Allocated(inst'[i])
    BY <1>3, <1>4
  <1>6. \A i \in Ids : i > made' => inst'[i].state = "none"
    <2> TAKE i \in Ids
    <2> HAVE i > made'
    <2>1. i > made /\ i \notin made + 1 .. made'
      BY <1>2
    <2>2. inst[i].state = "none"
      BY <2>1 DEF Standing, MoneyIsLive
    <2>3. i \notin Live(inst)
      BY <2>2 DEF Live
    <2> QED
      BY <1>3, <2>1, <2>2, <2>3
  <1>7. MoneyIsLive'
    BY <1>5, <1>6 DEF MoneyIsLive
  <1>8. \A p \in Promises :
          /\ promise'[p].inst = promise[p].inst
          /\ promise[p].inst \in Live(inst) => promise'[p].status = "DELETED"
          /\ promise[p].inst \notin Live(inst) => promise'[p].status = promise[p].status
    BY <1>1 DEF Regenerate, TypeOK, PromiseRow
  <1>9. \A p \in Promises : promise'[p].status \in {"NONE", "DELETED"}
    BY <1>8 DEF Standing, PromisesStand, Live
  <1>10. PromisesStand'
    BY <1>9 DEF PromisesStand
  <1>11. \A v \in Clerks : req[v].pc # "paying"
    BY <1>1 DEF Standing, ReadsStand, Live
  <1>12. ReadsStand'
    BY <1>1, <1>8, <1>11 DEF Standing, ReadsStand, Idle
  <1> QED
    BY <1>4, <1>7, <1>10, <1>12 DEF Standing

\* Every step keeps the invariant, and the money where it is.
LEMMA StandingStep ==
  ASSUME TypeOK, Standing, [Next]_vars
  PROVE  /\ Standing'
         /\ \A i \in Ids : Allocated(inst[i]) =>
              inst'[i].state = "live" /\ MorePaid(inst'[i], inst[i])
  <1>1. \A i \in Ids : inst[i].paid \in Nat /\ (Allocated(inst[i]) => inst[i].state = "live")
    BY DEF TypeOK, Row, Standing, MoneyIsLive
  <1>2. ASSUME NEW w \in Clerks, Begin(w)
        PROVE  Standing' /\ inst' = inst
    BY <1>2, BeginStands DEF Begin
  <1>3. ASSUME NEW w \in Clerks, Leave(w)
        PROVE  Standing' /\ inst' = inst
    BY <1>3, QuietStep DEF Leave
  <1>4. ASSUME NEW w \in Clerks, NEW i \in Ids, NEW tender \in Tenders, PayCheck(w, i, tender)
        PROVE  Standing' /\ inst' = inst
    BY <1>4, PayCheckStands DEF PayCheck
  <1>5. ASSUME NEW w \in Clerks, PayCommit(w)
        PROVE  /\ Standing'
               /\ \A i \in Ids : inst'[i].state = inst[i].state /\ MorePaid(inst'[i], inst[i])
    BY <1>5, PayCommitStands
  <1>6. ASSUME NEW w \in Clerks, NEW i \in Ids, NEW p \in Promises, NEW date \in Days,
               NewPromise(w, i, p, date)
        PROVE  Standing' /\ inst' = inst
    BY <1>6, NewPromiseStands DEF NewPromise
  <1>7. ASSUME NEW w \in Clerks, Refresh(w)
        PROVE  Standing' /\ inst' = inst
    BY <1>7, RefreshStands DEF Refresh
  <1>8. ASSUME NEW w \in Clerks, NEW total \in Premiums, EditPremium(w, total)
        PROVE  /\ Standing'
               /\ \A i \in Ids : inst'[i].state = inst[i].state /\ SamePaid(inst'[i], inst[i])
    BY <1>8, PremiumKeeps, QuietStep DEF EditPremium
  <1>9. ASSUME NEW w \in Clerks, NEW n \in Counts, NEW start \in Days, Regenerate(w, n, start)
        PROVE  /\ Standing'
               /\ \A i \in Ids : Allocated(inst[i]) =>
                    inst'[i].state = "live" /\ MorePaid(inst'[i], inst[i])
    BY <1>9, RegenerateStands
  <1>10. ASSUME NEW w \in Clerks, NEW typed \in Forms(w), NEW stops \in BOOLEAN,
                UpdateOpen(w, typed, stops)
         PROVE  /\ Standing'
                /\ \A i \in Ids : inst'[i].state = inst[i].state /\ SamePaid(inst'[i], inst[i])
    BY <1>10, OpenKeeps, QuietStep DEF UpdateOpen
  <1>11. ASSUME NEW w \in Clerks, Materialize(w)
         PROVE  /\ Standing'
                /\ \A i \in Ids : inst'[i].state = inst[i].state /\ SamePaid(inst'[i], inst[i])
    <2>1. \A i \in Ids : inst'[i].state = inst[i].state /\ SamePaid(inst'[i], inst[i])
      BY <1>11, TasksKeep DEF Materialize, TypeOK, Rows
    <2> QED
      BY <1>11, <2>1, QuietStep DEF Materialize
  <1>12. CASE NextDay
    BY <1>1, <1>12 DEF NextDay, Standing, MoneyIsLive, PromisesStand, ReadsStand, OpenFor
  <1>13. CASE UNCHANGED vars
    BY <1>1, <1>13 DEF vars, Standing, MoneyIsLive, PromisesStand, ReadsStand, OpenFor
  <1> QED
    BY <1>1, <1>2, <1>3, <1>4, <1>5, <1>6, <1>7, <1>8, <1>9, <1>10, <1>11, <1>12, <1>13 DEF Next

LEMMA InitStands == Init => Standing
  <1> SUFFICES ASSUME Init PROVE Standing
    OBVIOUS
  <1>1. \A i \in Ids : ~Allocated(inst[i]) /\ (i > made => inst[i].state = "none")
    BY InitRows
  <1>2. (\A p \in Promises : promise[p].status = "NONE") /\ \A w \in Clerks : req[w].pc = "idle"
    BY DEF Init, NoPromise, Idle
  <1> QED
    BY <1>1, <1>2 DEF Standing, MoneyIsLive, PromisesStand, ReadsStand

\* The invariant, in every behaviour.
LEMMA AlwaysStanding == Spec => [](TypeOK /\ Standing)
  <1>1. Init => TypeOK /\ Standing
    BY InitRows, InitStands
  <1>2. TypeOK /\ Standing /\ [Next]_vars => (TypeOK /\ Standing)'
    BY TypeStep, StandingStep
  <1> QED
    BY <1>1, <1>2, PTL DEF Spec

\* However many requests overlap, money that is allocated to an installment
\* stays there, and the installment stays in the plan.
THEOREM MoneyStays == Spec => MoneyIsKept
  <1>1. TypeOK /\ Standing /\ [Next]_vars =>
          [\A i \in Ids : Allocated(inst[i]) =>
             /\ inst'[i].state = "live"
             /\ inst'[i].paid >= inst[i].paid
             /\ inst[i].dust => inst'[i].dust]_vars
    BY StandingStep
  <1> QED
    BY <1>1, AlwaysStanding, PTL DEF Spec, MoneyIsKept

\* However many requests overlap, a promise is fulfilled only by a payment on its
\* installment, though it may be one the column stores as 0.00.
THEOREM FulfilledHasPayment == Spec => []FulfilledIsPaid
  <1>1. Standing => FulfilledIsPaid
    BY DEF Standing, PromisesStand, FulfilledIsPaid
  <1> QED
    BY <1>1, AlwaysStanding, PTL

\* However many requests overlap, a promise on file has its installment.
THEOREM PromisesHaveInstallments == Spec => []PromiseHasInstallment
  <1>1. Standing => PromiseHasInstallment
    BY DEF Standing, PromisesStand, PromiseHasInstallment
  <1> QED
    BY <1>1, AlwaysStanding, PTL

-----------------------------------------------------------------------------
(* One request at a time *)

\* What the only clerk has read is what is stored; a payment fits its balance.
ReadsFresh ==
  \A w \in Clerks :
    /\ req[w].pc # "idle" => req[w].inst = inst /\ req[w].premium = premium
    /\ req[w].pc = "paying" => req[w].amt <= Balance(inst[req[w].target])

Alone == \A v, w \in Clerks : v = w

Frozen ==
  \A i \in Ids : Allocated(inst[i]) =>
    premium' = premium /\ inst'[i].amount = inst[i].amount /\ inst'[i].due = inst[i].due

\* A step that ends the only request leaves nothing read.
LEMMA NothingRead ==
  ASSUME TypeOK, Alone, NEW w \in Clerks, req' = [req EXCEPT ![w] = Idle]
  PROVE  ReadsFresh'
  BY DEF TypeOK, Alone, ReadsFresh, Idle

\* An edit that has read the rows as they are writes the columns it computed.
LEMMA FreshEdit ==
  ASSUME TypeOK, NEW w \in Clerks, NEW new \in Rows, req[w].inst = inst,
         WriteRows(w, new) \/ WriteRowsAndTasks(w, new)
  PROVE  \A i \in Ids : inst'[i].amount = new[i].amount /\ inst'[i].due = new[i].due
  <1> DEFINE merged == [i \in Ids |-> MergeRow(inst[i], inst[i], new[i])]
  <1>1. merged \in Rows /\ \A i \in Ids : merged[i].amount = new[i].amount /\ merged[i].due = new[i].due
    <2> SUFFICES ASSUME NEW i \in Ids
                 PROVE  /\ merged[i] \in Row
                        /\ merged[i].amount = new[i].amount /\ merged[i].due = new[i].due
      BY DEF Rows
    <2>1. inst[i] \in Row /\ new[i] \in Row
      BY DEF TypeOK, Rows
    <2>2. MergeRow(inst[i], inst[i], new[i]) \in Row
      BY <2>1, MergeKeeps
    <2>3. /\ MergeRow(inst[i], inst[i], new[i]).amount = new[i].amount
          /\ MergeRow(inst[i], inst[i], new[i]).due = new[i].due
      BY <2>1 DEF Row, MergeRow
    <2> QED
      BY <2>2, <2>3
  <1>2. CASE WriteRows(w, new)
    BY <1>1, <1>2 DEF WriteRows
  <1>3. CASE WriteRowsAndTasks(w, new)
    <2>1. inst' = WithTasks(merged, new, inst)
      BY <1>3 DEF WriteRowsAndTasks
    <2> HIDE DEF merged
    <2> QED
      BY <1>1, <2>1, TasksKeep
  <1> QED
    BY <1>2, <1>3

\* A payment that passed the check on fresh rows leaves no more than was asked for.
LEMMA PayFits ==
  ASSUME TypeOK, Standing, ReadsFresh, NotOverpaid, NEW w \in Clerks, PayCommit(w)
  PROVE  NotOverpaid' /\ Frozen
  <1> DEFINE t == req[w].target
  <1>1. t \in Ids /\ req[w].amt \in Nat /\ req[w].amt <= Balance(inst[t])
    BY DEF PayCommit, Standing, ReadsStand, ReadsFresh, TypeOK, Request
  <1>2. inst[t].paid \in Nat /\ inst[t].amount \in Int
    BY <1>1 DEF TypeOK, Row
  <1>3. req[w].amt = 0 \/ inst[t].paid + req[w].amt <= inst[t].amount
    BY <1>1, <1>2 DEF Balance
  <1>4. \A i \in Ids :
          /\ inst'[i].amount = inst[i].amount /\ inst'[i].due = inst[i].due
          /\ i = t => inst'[i].paid = inst[i].paid + req[w].amt
          /\ i # t => SamePaid(inst'[i], inst[i])
    BY <1>1 DEF PayCommit, TypeOK, Row
  <1>5. premium' = premium
    BY DEF PayCommit
  <1>6. NotOverpaid'
    <2> SUFFICES ASSUME NEW i \in Ids, inst'[i].paid > 0
                 PROVE  inst'[i].paid <= inst'[i].amount
      BY DEF NotOverpaid
    <2>1. CASE i = t
      BY <1>2, <1>3, <1>4, <2>1 DEF NotOverpaid
    <2>2. CASE i # t
      BY <1>4, <2>2 DEF NotOverpaid
    <2> QED
      BY <2>1, <2>2
  <1> QED
    BY <1>4, <1>5, <1>6 DEF Frozen

\* A plan on which nothing is paid has nothing to overpay or to freeze.
LEMMA NothingPaid ==
  ASSUME TypeOK, Standing, Unpaid(inst)
  PROVE  \A i \in Ids : ~Allocated(inst[i])
  BY DEF TypeOK, Row, Standing, MoneyIsLive, Unpaid, Locked, Live

\* Alone, every step keeps the plan within its amounts and what is paid as it is.
LEMMA SerialStep ==
  ASSUME Alone, TypeOK, Standing, ReadsFresh, NotOverpaid, [Next]_vars
  PROVE  ReadsFresh' /\ NotOverpaid' /\ Frozen
  <1>1. ASSUME NEW w \in Clerks, Begin(w)
        PROVE  ReadsFresh' /\ inst' = inst /\ premium' = premium
    BY <1>1 DEF Begin, TypeOK, Alone, ReadsFresh
  <1>2. ASSUME NEW w \in Clerks, Leave(w)
        PROVE  ReadsFresh' /\ inst' = inst /\ premium' = premium
    BY <1>2, NothingRead DEF Leave
  <1>3. ASSUME NEW w \in Clerks, NEW i \in Ids, NEW tender \in Tenders, PayCheck(w, i, tender)
        PROVE  ReadsFresh' /\ inst' = inst /\ premium' = premium
    <2>1. /\ inst' = inst /\ premium' = premium
          /\ req'[w].inst = req[w].inst /\ req'[w].premium = req[w].premium
          /\ req'[w].target = i /\ req'[w].amt = Stored(tender)
          /\ req[w].pc # "idle" /\ Stored(tender) <= Balance(req[w].inst[i])
      <3>1. Balance(req[w].inst[i]) \in Nat
        <4>1. req[w].inst[i] \in Row
          BY DEF TypeOK, Request
        <4> QED
          BY <4>1 DEF Row, Balance
      <3>2. Stored(tender) <= Balance(req[w].inst[i])
        BY <1>3, <3>1, StoredFits DEF PayCheck
      <3> QED
        BY <1>3, <3>2 DEF PayCheck, TypeOK, Request
    <2> QED
      BY <2>1 DEF Alone, ReadsFresh, Balance
  <1>4. ASSUME NEW w \in Clerks, PayCommit(w)
        PROVE  ReadsFresh' /\ NotOverpaid' /\ Frozen
    BY <1>4, PayFits, NothingRead DEF PayCommit
  <1>5. ASSUME NEW w \in Clerks, NEW i \in Ids, NEW p \in Promises, NEW date \in Days,
               NewPromise(w, i, p, date)
        PROVE  ReadsFresh' /\ inst' = inst /\ premium' = premium
    BY <1>5, NothingRead DEF NewPromise
  <1>6. ASSUME NEW w \in Clerks, Refresh(w)
        PROVE  ReadsFresh' /\ inst' = inst /\ premium' = premium
    BY <1>6, NothingRead DEF Refresh
  <1>7. ASSUME NEW w \in Clerks, NEW total \in Premiums, EditPremium(w, total)
        PROVE  ReadsFresh' /\ NotOverpaid' /\ Frozen
    <2>1. req[w].inst = inst
      BY <1>7 DEF EditPremium, ReadsFresh
    <2>2. \A i \in Ids : ~Allocated(inst[i])
      BY <1>7, <2>1, NothingPaid DEF EditPremium
    <2>3. \A i \in Ids : ~Allocated(inst'[i])
      BY <1>7, <2>2, PremiumKeeps
    <2>4. ReadsFresh'
      BY <1>7, NothingRead DEF EditPremium
    <2> QED
      BY <2>2, <2>3, <2>4 DEF NotOverpaid, Frozen
  <1>8. ASSUME NEW w \in Clerks, NEW n \in Counts, NEW start \in Days, Regenerate(w, n, start)
        PROVE  ReadsFresh' /\ NotOverpaid' /\ Frozen
    <2>1. \A i \in Ids : ~Allocated(inst[i])
      BY <1>8, NothingPaid DEF Regenerate, PlanIsFree
    <2>2. \A i \in Ids : ~Allocated(inst'[i])
      BY <1>8, <2>1, FreshRows
    <2>3. ReadsFresh'
      BY <1>8, NothingRead DEF Regenerate
    <2> QED
      BY <2>1, <2>2, <2>3 DEF NotOverpaid, Frozen
  <1>9. ASSUME NEW w \in Clerks, NEW typed \in Forms(w), NEW stops \in BOOLEAN,
               UpdateOpen(w, typed, stops)
        PROVE  ReadsFresh' /\ NotOverpaid' /\ Frozen
    <2> DEFINE new == [i \in Ids |-> IF i \in DOMAIN typed
                THEN [req[w].inst[i] EXCEPT !.amount = typed[i].amount, !.due = typed[i].due]
                ELSE req[w].inst[i]]
    <2>1. req[w].inst = inst
      BY <1>9 DEF UpdateOpen, ReadsFresh
    <2>2. PICK S \in SUBSET Live(inst) : typed \in [S -> [amount : Money, due : Days]]
      BY <2>1 DEF Forms
    <2>3. new \in Rows
      <3>1. req[w].inst \in Rows /\ S \in SUBSET Ids
        BY <2>1 DEF TypeOK, Rows, Live
      <3> QED
        BY <2>2, <3>1, TypedType
    <2>4. WriteRows(w, new) \/ WriteRowsAndTasks(w, new)
      BY <1>9 DEF UpdateOpen
    <2>5. \A i \in Ids : Allocated(inst[i]) => new[i] = inst[i]
      BY <1>9, <2>1 DEF UpdateOpen, Locked
    <2> HIDE DEF new
    <2>6. \A i \in Ids : inst'[i].amount = new[i].amount /\ inst'[i].due = new[i].due
      BY <2>1, <2>3, <2>4, FreshEdit
    <2>7. \A i \in Ids : SamePaid(inst'[i], inst[i])
      BY <1>9, OpenKeeps
    <2>8. premium' = premium /\ req' = [req EXCEPT ![w] = Idle]
      BY <1>9 DEF UpdateOpen
    <2> QED
      BY <2>5, <2>6, <2>7, <2>8, NothingRead DEF NotOverpaid, Frozen
  <1>10. ASSUME NEW w \in Clerks, Materialize(w)
         PROVE  ReadsFresh' /\ NotOverpaid' /\ Frozen
    <2>1. \A i \in Ids : /\ SamePaid(inst'[i], inst[i])
                         /\ inst'[i].amount = inst[i].amount /\ inst'[i].due = inst[i].due
      BY <1>10, TasksKeep DEF Materialize, TypeOK, Rows
    <2> QED
      BY <1>10, <2>1, NothingRead DEF Materialize, NotOverpaid, Frozen
  <1>11. CASE NextDay
    BY <1>11 DEF NextDay, ReadsFresh, NotOverpaid, Frozen, Balance
  <1>12. CASE UNCHANGED vars
    BY <1>12 DEF vars, ReadsFresh, NotOverpaid, Frozen, Balance
  <1>13. ASSUME inst' = inst, premium' = premium
         PROVE  NotOverpaid' /\ Frozen
    BY <1>13 DEF NotOverpaid, Frozen
  <1> QED
    BY <1>1, <1>2, <1>3, <1>4, <1>5, <1>6, <1>7, <1>8, <1>9, <1>10, <1>11, <1>12, <1>13 DEF Next

\* The invariant of requests that do not overlap.
LEMMA AlwaysFresh ==
  ASSUME Alone
  PROVE  Spec => [](TypeOK /\ Standing /\ ReadsFresh /\ NotOverpaid)
  <1>1. Init => ReadsFresh /\ NotOverpaid
    BY InitRows DEF Init, Idle, ReadsFresh, NotOverpaid
  <1>2. TypeOK /\ Standing /\ ReadsFresh /\ NotOverpaid /\ [Next]_vars => (ReadsFresh /\ NotOverpaid)'
    BY SerialStep
  <1> QED
    BY <1>1, <1>2, AlwaysStanding, PTL DEF Spec

\* Requests that do not overlap never leave an installment overpaid, whatever
\* is edited, corrected, regenerated, refused half way or paid.
THEOREM NeverOverpaid ==
  ASSUME Alone
  PROVE  Spec => []NotOverpaid
  BY AlwaysFresh, PTL

\* Requests that do not overlap change neither the premium nor a paid installment.
THEOREM PaidIsFrozen ==
  ASSUME Alone
  PROVE  Spec => LockedIsFrozen
  <1>1. TypeOK /\ Standing /\ ReadsFresh /\ NotOverpaid /\ [Next]_vars =>
          [\A i \in Ids : Allocated(inst[i]) =>
             /\ premium' = premium
             /\ inst'[i].amount = inst[i].amount
             /\ inst'[i].due = inst[i].due]_vars
    BY SerialStep DEF Frozen
  <1> QED
    BY <1>1, AlwaysFresh, PTL DEF Spec, LockedIsFrozen

-----------------------------------------------------------------------------
(* One open promise and one open task *)

\* The promises the only clerk has read are the ones stored.
PromisesFresh == \A w \in Clerks : req[w].pc # "idle" => req[w].promise = promise

\* A row of the plan has one open task at most, any other row none.
OneTask(rows) ==
  \A i \in Ids : rows[i].tasks <= 1 /\ (rows[i].state # "live" => rows[i].tasks = 0)

Open(p) == promise[p].status \in {"ACTIVE", "BROKEN"}

\* Two open promises are of two installments.
OneOpen ==
  \A p, q \in Promises : Open(p) /\ Open(q) /\ promise[p].inst = promise[q].inst => p = q

OneEach == PromisesFresh /\ OneTask(inst) /\ OneOpen

Final ==
  \A p \in Promises : promise[p].status \in {"FULFILLED", "CANCELLED"} =>
    promise'[p].status \in {promise[p].status, "DELETED"}

\* Tasks opened for rows whose tasks have been looked for leave one on each.
LEMMA TasksStayOne ==
  ASSUME NEW db \in Rows, NEW seen, NEW looked, OneTask(db),
         \A i \in Live(seen) : db[i].state = "live",
         \A i \in Ids : looked[i].tasks = db[i].tasks
  PROVE  OneTask(WithTasks(db, seen, looked))
  <1> SUFFICES ASSUME NEW i \in Ids
               PROVE  /\ WithTasks(db, seen, looked)[i].tasks <= 1
                      /\ WithTasks(db, seen, looked)[i].state # "live" =>
                           WithTasks(db, seen, looked)[i].tasks = 0
    BY DEF OneTask
  <1>1. db[i] \in Row /\ db[i].tasks \in Nat /\ db[i].tasks <= 1
    BY DEF Rows, Row, OneTask
  <1>2. CASE i \in Live(seen) /\ Overdue(seen[i]) /\ looked[i].tasks = 0
    <2>1. WithTasks(db, seen, looked)[i] = [db[i] EXCEPT !.tasks = @ + 1]
      BY <1>2 DEF WithTasks
    <2>2. db[i].tasks = 0 /\ db[i].state = "live"
      BY <1>2
    <2> QED
      BY <1>1, <2>1, <2>2 DEF Row
  <1>3. CASE ~(i \in Live(seen) /\ Overdue(seen[i]) /\ looked[i].tasks = 0)
    BY <1>3 DEF WithTasks, OneTask
  <1> QED
    BY <1>2, <1>3

\* An edit that has read the rows as they are keeps one task on each.
LEMMA EditTasks ==
  ASSUME TypeOK, OneTask(inst), NEW w \in Clerks, NEW new \in Rows, req[w].inst = inst,
         \A i \in Ids : new[i].state = inst[i].state,
         WriteRows(w, new) \/ WriteRowsAndTasks(w, new)
  PROVE  OneTask(inst')
  <1> DEFINE merged == [i \in Ids |-> MergeRow(inst[i], inst[i], new[i])]
  <1>1. /\ merged \in Rows
        /\ \A i \in Ids : merged[i].tasks = inst[i].tasks /\ merged[i].state = inst[i].state
    BY MergeKeeps DEF TypeOK, Rows
  <1>2. OneTask(merged)
    BY <1>1 DEF OneTask
  <1>3. CASE WriteRows(w, new)
    BY <1>2, <1>3 DEF WriteRows
  <1>4. CASE WriteRowsAndTasks(w, new)
    <2>1. inst' = WithTasks(merged, new, inst)
      BY <1>4 DEF WriteRowsAndTasks
    <2>2. \A i \in Live(new) : merged[i].state = "live"
      BY <1>1 DEF Live
    <2> HIDE DEF merged
    <2> QED
      BY <1>1, <1>2, <2>1, <2>2, TasksStayOne
  <1> QED
    BY <1>3, <1>4

LEMMA PremiumTasks ==
  ASSUME TypeOK, ReadsFresh, OneTask(inst), NEW w \in Clerks, NEW total \in Premiums,
         EditPremium(w, total)
  PROVE  OneTask(inst')
  <1>1. req[w].inst = inst
    BY DEF EditPremium, ReadsFresh
  <1>2. total \in Nat /\ inst \in Rows
    BY ConstantsAssumption DEF TypeOK, Rows
  <1> DEFINE n == Cardinality(Live(req[w].inst))
             Fits(k) == \A j \in 1 .. k : Share(total, n, j) > 0
             new == [i \in Ids |-> IF i \in Live(req[w].inst) /\ Fits(req[w].inst[i].num)
                      THEN [req[w].inst[i] EXCEPT !.amount = Share(total, n, req[w].inst[i].num)]
                      ELSE req[w].inst[i]]
  <1>3. new \in Rows /\ \A i \in Ids : new[i].state = inst[i].state
    <2>1. \A i \in Live(req[w].inst) : Share(total, n, req[w].inst[i].num) \in Int
      BY <1>2, LiveCount, ShareType
    <2> HIDE DEF Fits, n
    <2> QED
      BY <1>1, <1>2, <2>1 DEF Rows, Row
  <1>4. inst' = inst \/ WriteRows(w, new) \/ WriteRowsAndTasks(w, new)
    BY DEF EditPremium
  <1> HIDE DEF new
  <1> QED
    BY <1>1, <1>3, <1>4, EditTasks

LEMMA OpenTasks ==
  ASSUME TypeOK, ReadsFresh, OneTask(inst), NEW w \in Clerks, NEW typed \in Forms(w),
         NEW stops, UpdateOpen(w, typed, stops)
  PROVE  OneTask(inst')
  <1>1. req[w].inst = inst
    BY DEF UpdateOpen, ReadsFresh
  <1>2. req[w].inst \in Rows
    BY DEF TypeOK, Request, Rows
  <1>3. PICK S \in SUBSET Live(req[w].inst) : typed \in [S -> [amount : Money, due : Days]]
    BY DEF Forms
  <1>4. S \in SUBSET Ids
    BY DEF Live
  <1> DEFINE new == [i \in Ids |-> IF i \in DOMAIN typed
                THEN [req[w].inst[i] EXCEPT !.amount = typed[i].amount, !.due = typed[i].due]
                ELSE req[w].inst[i]]
  <1>5. new \in Rows
    BY <1>2, <1>3, <1>4, TypedType
  <1>6. \A i \in Ids : new[i].state = inst[i].state
    BY <1>1, <1>2 DEF Rows, Row
  <1>7. WriteRows(w, new) \/ WriteRowsAndTasks(w, new)
    BY DEF UpdateOpen
  <1> HIDE DEF new
  <1> QED
    BY <1>1, <1>5, <1>6, <1>7, EditTasks

\* A regeneration closes every task before it opens those of the new rows.
LEMMA FreshTasks ==
  ASSUME TypeOK, NEW w \in Clerks, NEW n \in Counts, NEW start \in Days,
         Regenerate(w, n, start)
  PROVE  OneTask(inst')
  <1> DEFINE r == req[w]
             fresh == [i \in Ids |->
                 IF i \in Live(r.inst) THEN [inst[i] EXCEPT !.state = "deleted", !.tasks = 0]
                 ELSE IF i \in made + 1 .. made + n THEN Generated(made, n, r.premium, start, i)
                 ELSE [inst[i] EXCEPT !.tasks = 0]]
  <1>1. made \in Nat /\ n \in Nat \ {0} /\ r.premium \in Nat /\ inst \in Rows
    BY ConstantsAssumption DEF TypeOK, Request, Rows
  <1>2. \A i \in made + 1 .. made + n : Generated(made, n, r.premium, start, i) \in Row
    BY <1>1, GeneratedType
  <1>3. fresh \in Rows
    BY <1>1, <1>2 DEF Rows, Row
  <1>4. inst' = WithTasks(fresh, fresh, fresh)
    BY DEF Regenerate
  <1>5. \A i \in Ids : fresh[i].tasks = 0
    BY <1>1 DEF Rows, Row, Generated
  <1> HIDE DEF fresh
  <1>6. OneTask(fresh) /\ \A i \in Live(fresh) : fresh[i].state = "live"
    BY <1>5 DEF OneTask, Live
  <1> QED
    BY <1>3, <1>4, <1>6, TasksStayOne

\* A payment fulfills open promises and opens none.
LEMMA PayOnce ==
  ASSUME TypeOK, OneEach, NEW w \in Clerks, PayCommit(w)
  PROVE  OneTask(inst') /\ OneOpen' /\ Final
  <1> DEFINE done == OpenFor(req[w].promise, req[w].target)
  <1>1. \A i \in Ids : inst'[i].tasks = inst[i].tasks /\ inst'[i].state = inst[i].state
    BY DEF PayCommit, TypeOK, Row
  <1>2. OneTask(inst')
    BY <1>1 DEF OneTask, OneEach
  <1>3. \A p \in done : promise[p].status \in {"ACTIVE", "BROKEN"}
    BY DEF PayCommit, OneEach, PromisesFresh, OpenFor
  <1>4. \A p \in Promises :
           /\ promise'[p].inst = promise[p].inst
           /\ p \in done => promise'[p].status = "FULFILLED"
           /\ p \notin done => promise'[p].status = promise[p].status
    BY DEF PayCommit, TypeOK, PromiseRow
  <1> HIDE DEF done
  <1>5. OneOpen'
    BY <1>4 DEF OneEach, OneOpen, Open
  <1>6. Final
    BY <1>3, <1>4 DEF Final
  <1> QED
    BY <1>2, <1>5, <1>6

\* The promise a new one replaces is cancelled with it.
LEMMA PromiseOnce ==
  ASSUME TypeOK, OneEach, NEW w \in Clerks, NEW i \in Ids, NEW p \in Promises,
         NEW date \in Days, NewPromise(w, i, p, date)
  PROVE  OneOpen' /\ Final
  <1> DEFINE old == OpenFor(req[w].promise, i)
  <1>1. promise[p].status = "NONE"
    BY DEF NewPromise
  <1>2. old = {x \in Promises : promise[x].status \in {"ACTIVE", "BROKEN"} /\ promise[x].inst = i}
    BY DEF NewPromise, OneEach, PromisesFresh, OpenFor
  <1>3. /\ promise'[p].status = "ACTIVE" /\ promise'[p].inst = i
        /\ \A x \in Promises \ {p} :
             /\ promise'[x].inst = promise[x].inst
             /\ x \in old => promise'[x].status = "CANCELLED"
             /\ x \notin old => promise'[x].status = promise[x].status
    BY DEF NewPromise, TypeOK, PromiseRow
  <1> HIDE DEF old
  <1>4. OneOpen'
    BY <1>2, <1>3 DEF OneEach, OneOpen, Open
  <1>5. Final
    BY <1>1, <1>2, <1>3 DEF Final
  <1> QED
    BY <1>4, <1>5

\* Only an active promise is reported broken.
LEMMA RefreshOnce ==
  ASSUME TypeOK, OneEach, NEW w \in Clerks, Refresh(w)
  PROVE  OneOpen' /\ Final
  <1> DEFINE late == Late(req[w].promise)
  <1>1. \A x \in late : promise[x].status = "ACTIVE"
    BY DEF Refresh, OneEach, PromisesFresh, Late
  <1>2. \A x \in Promises :
          /\ promise'[x].inst = promise[x].inst
          /\ x \in late => promise'[x].status = "BROKEN"
          /\ x \notin late => promise'[x].status = promise[x].status
    BY DEF Refresh, TypeOK, PromiseRow
  <1> HIDE DEF late
  <1>3. OneOpen'
    BY <1>1, <1>2 DEF OneEach, OneOpen, Open
  <1>4. Final
    BY <1>1, <1>2 DEF Final
  <1> QED
    BY <1>3, <1>4

\* A regeneration deletes the promises of the rows it replaces and opens none.
LEMMA RegenerateOnce ==
  ASSUME TypeOK, OneEach, NEW w \in Clerks, NEW n \in Counts, NEW start \in Days,
         Regenerate(w, n, start)
  PROVE  OneOpen' /\ Final
  <1>1. \A p \in Promises :
          /\ promise'[p].inst = promise[p].inst
          /\ promise'[p].status \in {promise[p].status, "DELETED"}
    BY DEF Regenerate, TypeOK, PromiseRow
  <1> QED
    BY <1>1 DEF OneEach, OneOpen, Open, Final

\* A step that ends the only request leaves no promise read.
LEMMA NoPromiseRead ==
  ASSUME TypeOK, Alone, NEW w \in Clerks, req' = [req EXCEPT ![w] = Idle]
  PROVE  PromisesFresh'
  BY DEF TypeOK, Alone, PromisesFresh, Idle

\* Alone, every step keeps one promise and one task, and what is resolved.
LEMMA OneStep ==
  ASSUME Alone, TypeOK, Standing, ReadsFresh, OneEach, [Next]_vars
  PROVE  OneEach' /\ Final
  <1>1. ASSUME promise' = promise
        PROVE  OneOpen' /\ Final
    BY <1>1 DEF OneEach, OneOpen, Open, Final
  <1>2. ASSUME inst' = inst
        PROVE  OneTask(inst')
    BY <1>2 DEF OneEach
  <1>3. ASSUME NEW w \in Clerks, Begin(w)
        PROVE  PromisesFresh' /\ inst' = inst /\ promise' = promise
    BY <1>3 DEF Begin, TypeOK, Alone, PromisesFresh
  <1>4. ASSUME NEW w \in Clerks, Leave(w)
        PROVE  PromisesFresh' /\ inst' = inst /\ promise' = promise
    BY <1>4, NoPromiseRead DEF Leave
  <1>5. ASSUME NEW w \in Clerks, NEW i \in Ids, NEW tender \in Tenders, PayCheck(w, i, tender)
        PROVE  PromisesFresh' /\ inst' = inst /\ promise' = promise
    <2>1. inst' = inst /\ promise' = promise /\ req'[w].promise = promise
      BY <1>5 DEF PayCheck, TypeOK, Request
    <2> QED
      BY <2>1 DEF Alone, PromisesFresh
  <1>6. ASSUME NEW w \in Clerks, PayCommit(w)
        PROVE  PromisesFresh' /\ OneTask(inst') /\ OneOpen' /\ Final
    BY <1>6, PayOnce, NoPromiseRead DEF PayCommit
  <1>7. ASSUME NEW w \in Clerks, NEW i \in Ids, NEW p \in Promises, NEW date \in Days,
               NewPromise(w, i, p, date)
        PROVE  PromisesFresh' /\ inst' = inst /\ OneOpen' /\ Final
    BY <1>7, PromiseOnce, NoPromiseRead DEF NewPromise
  <1>8. ASSUME NEW w \in Clerks, Refresh(w)
        PROVE  PromisesFresh' /\ inst' = inst /\ OneOpen' /\ Final
    BY <1>8, RefreshOnce, NoPromiseRead DEF Refresh
  <1>9. ASSUME NEW w \in Clerks, NEW total \in Premiums, EditPremium(w, total)
        PROVE  PromisesFresh' /\ OneTask(inst') /\ promise' = promise
    BY <1>9, PremiumTasks, NoPromiseRead DEF EditPremium, OneEach
  <1>10. ASSUME NEW w \in Clerks, NEW n \in Counts, NEW start \in Days, Regenerate(w, n, start)
         PROVE  PromisesFresh' /\ OneTask(inst') /\ OneOpen' /\ Final
    BY <1>10, FreshTasks, RegenerateOnce, NoPromiseRead DEF Regenerate
  <1>11. ASSUME NEW w \in Clerks, NEW typed \in Forms(w), NEW stops \in BOOLEAN,
                UpdateOpen(w, typed, stops)
         PROVE  PromisesFresh' /\ OneTask(inst') /\ promise' = promise
    BY <1>11, OpenTasks, NoPromiseRead DEF UpdateOpen, OneEach
  <1>12. ASSUME NEW w \in Clerks, Materialize(w)
         PROVE  PromisesFresh' /\ OneTask(inst') /\ promise' = promise
    <2>1. req[w].inst = inst /\ inst' = WithTasks(inst, inst, inst)
      BY <1>12 DEF Materialize, ReadsFresh
    <2>2. inst \in Rows /\ \A i \in Live(inst) : inst[i].state = "live"
      BY DEF TypeOK, Rows, Live
    <2>3. OneTask(inst')
      BY <2>1, <2>2, TasksStayOne DEF OneEach
    <2> QED
      BY <1>12, <2>3, NoPromiseRead DEF Materialize
  <1>13. CASE NextDay
    BY <1>13, <1>1, <1>2 DEF NextDay, OneEach, PromisesFresh
  <1>14. CASE UNCHANGED vars
    BY <1>14, <1>1, <1>2 DEF vars, OneEach, PromisesFresh
  <1> HIDE DEF Final
  <1> QED
    BY <1>1, <1>2, <1>3, <1>4, <1>5, <1>6, <1>7, <1>8, <1>9, <1>10, <1>11, <1>12, <1>13, <1>14
       DEF Next, OneEach

\* What is registered has no promise and no task.
LEMMA InitOnce == Init => OneEach
  <1> SUFFICES ASSUME Init PROVE OneEach
    OBVIOUS
  <1>1. PICK p \in Premiums, n \in Counts, start \in Days :
           inst = [i \in Ids |-> IF i <= n THEN Generated(0, n, p, start, i) ELSE NoRow]
    BY DEF Init
  <1>2. \A i \in Ids : inst[i].tasks = 0
    BY <1>1 DEF Generated, NoRow
  <1>3. OneTask(inst)
    BY <1>2 DEF OneTask
  <1>4. (\A p1 \in Promises : promise[p1].status = "NONE") /\ \A w \in Clerks : req[w].pc = "idle"
    BY DEF Init, NoPromise, Idle
  <1> QED
    BY <1>3, <1>4 DEF OneEach, OneOpen, Open, PromisesFresh

LEMMA AlwaysOne ==
  ASSUME Alone
  PROVE  Spec => [](TypeOK /\ Standing /\ ReadsFresh /\ OneEach)
  <1>1. TypeOK /\ Standing /\ ReadsFresh /\ OneEach /\ [Next]_vars => OneEach'
    BY OneStep
  <1> QED
    BY <1>1, InitOnce, AlwaysFresh, PTL DEF Spec

\* Two open promises are of two installments, so an installment has one at most.
LEMMA OneCounts ==
  ASSUME TypeOK, Standing, OneEach
  PROVE  OnePerInstallment
  <1> SUFFICES ASSUME NEW i \in Ids
               PROVE  LET open == {p \in Promises : Open(p) /\ promise[p].inst = i}
                          most == IF inst[i].state = "live" THEN 1 ELSE 0
                      IN  Cardinality(open) <= most /\ inst[i].tasks <= most
    BY DEF OnePerInstallment, Open
  <1> DEFINE open == {p \in Promises : Open(p) /\ promise[p].inst = i}
  <1>1. inst[i].tasks \in Nat /\ inst[i].tasks <= 1 /\ (inst[i].state # "live" => inst[i].tasks = 0)
    BY DEF OneEach, OneTask, TypeOK, Row
  <1>2. open # {} => inst[i].state = "live"
    BY DEF Open, Standing, PromisesStand
  <1>3. open = {} \/ \E p \in Promises : open = {p}
    BY DEF OneEach, OneOpen
  <1>4. Cardinality(open) <= 1 /\ (open = {} => Cardinality(open) = 0)
    <2>1. Cardinality({}) = 0 /\ \A p \in Promises : Cardinality({p}) = 1
      BY FS_EmptySet, FS_Singleton
    <2> HIDE DEF open
    <2> QED
      BY <1>3, <2>1
  <1> HIDE DEF open
  <1>5. CASE inst[i].state = "live"
    BY <1>1, <1>4, <1>5 DEF open
  <1>6. CASE inst[i].state # "live"
    <2>1. Cardinality(open) = 0
      BY <1>2, <1>4, <1>6
    <2> QED
      BY <1>1, <1>6, <2>1 DEF open
  <1> QED
    BY <1>5, <1>6

\* Requests that do not overlap leave an installment with one open promise and one
\* open task at most, and a replaced one with none.
THEOREM OneOfEach ==
  ASSUME Alone
  PROVE  Spec => []OnePerInstallment
  BY OneCounts, AlwaysOne, PTL

\* Requests that do not overlap never open or break a promise that was fulfilled
\* or cancelled.
THEOREM ResolvedStays ==
  ASSUME Alone
  PROVE  Spec => ResolvedIsFinal
  <1>1. TypeOK /\ Standing /\ ReadsFresh /\ OneEach /\ [Next]_vars =>
          [\A p \in Promises : promise[p].status \in {"FULFILLED", "CANCELLED"} =>
             promise'[p].status \in {promise[p].status, "DELETED"}]_vars
    BY OneStep DEF Final
  <1> QED
    BY <1>1, AlwaysOne, PTL DEF Spec, ResolvedIsFinal
=============================================================================
