----------------------------- MODULE Collections -----------------------------
(***************************************************************************)
(* The collection of one policy's premium: its payment plan                *)
(* (services/payment_plan_edit.py), the payments recorded against the      *)
(* installments (services/payments/premium.py), the promises to pay them   *)
(* (services/promises.py) and the collection tasks opened for those that   *)
(* fall overdue (services/materialize_portfolio.py), driven by the         *)
(* requests of web/routes.py.                                              *)
(*                                                                         *)
(* A request runs on a clerk's thread as one transaction at READ           *)
(* COMMITTED: Begin loads the rows, a later step writes.  The handlers     *)
(* catch the ValueError of a refused edit, so what the edit had changed by *)
(* then is committed with the error page.  Money is counted in cents, as   *)
(* the columns store it; the amount of a payment in tenths of a cent, as   *)
(* it may be typed.                                                        *)
(***************************************************************************)
EXTENDS Integers, FiniteSets, FiniteSetsExt

CONSTANTS
  Clerks,        \* threads that serve the requests
  Promises,      \* ids of the rows of payment_promises
  Premiums,      \* premiums the policy may have, in cents
  Counts,        \* numbers of installments a plan may be given
  Money,         \* amounts typed for installments, in cents
  Tenders,       \* amounts typed for payments, in tenths of a cent
  MaxRows,       \* bound: installments ever made
  LastDay        \* bound: the last day

ASSUME ConstantsAssumption ==
  /\ Premiums \subseteq Nat \ {0}
  /\ Counts \subseteq Nat \ {0}
  /\ Money \subseteq Nat \ {0}
  /\ Tenders \subseteq Nat
  /\ MaxRows \in Nat /\ LastDay \in Nat

Days == 0 .. LastDay
Ids == 1 .. MaxRows    \* an installment's id: the order in which it was made

VARIABLES
  premium,    \* annual_premium of the policy
  inst,       \* the installments, with what is allocated to each and its open tasks
  made,       \* installments made so far
  promise,    \* the promises to pay
  today,
  req         \* the request of each clerk

vars == <<premium, inst, made, promise, today, req>>

\* dust: a payment of nothing, 0.00, is allocated to the installment.
Row == [state : {"none", "live", "deleted"}, num : Nat, amount : Int,
        due : Days, paid : Nat, dust : BOOLEAN, tasks : Nat]
PromiseRow == [status : {"NONE", "ACTIVE", "BROKEN", "FULFILLED", "CANCELLED", "DELETED"},
               inst : Nat, date : Days]

\* pc: "loaded" has read policy, plan and promises; "paying" has inserted the
\* payment, holds its installment and has read the promises again.
Request == [pc : {"idle", "loaded", "paying"}, premium : Nat, inst : [Ids -> Row],
            promise : [Promises -> PromiseRow], target : Nat, amt : Nat]

NoRow == [state |-> "none", num |-> 0, amount |-> 0, due |-> 0, paid |-> 0,
          dust |-> FALSE, tasks |-> 0]
NoPromise == [status |-> "NONE", inst |-> 0, date |-> 0]
Idle == [pc |-> "idle", premium |-> 0, inst |-> [i \in Ids |-> NoRow],
         promise |-> [p \in Promises |-> NoPromise], target |-> 0, amt |-> 0]

-----------------------------------------------------------------------------
(* Arithmetic of the plan *)

\* Decimal division quantized to cents rounds half to even.
Base(total, n) ==
  LET q == total \div n  r == total % n
  IN  IF 2 * r > n \/ (2 * r = n /\ q % 2 = 1) THEN q + 1 ELSE q

\* The last installment takes what the rounding left; nothing keeps it positive.
Share(total, n, k) == IF k = n THEN total - (n - 1) * Base(total, n) ELSE Base(total, n)

\* Variant: what has been paid is not subtracted.
FullAmount(r) == r.amount

\* outstanding_balance
Balance(r) == IF r.amount > r.paid THEN r.amount - r.paid ELSE 0

\* A payment is allocated to the installment, of 0.00 perhaps.
Allocated(r) == r.paid > 0 \/ r.dust

\* Variant: only an installment paid in full is locked.
LockedWhenSettled(r) == r.paid > 0 /\ r.paid = r.amount

\* _is_locked: money is allocated to it, or at least a row of payment_allocations.
Locked(r) == Allocated(r)

\* derive_installment_status: a part payment is PARTIALLY_PAID, never OVERDUE.
Overdue(r) == r.amount > r.paid /\ r.paid = 0 /\ r.due < today

Live(rows) == {i \in Ids : rows[i].state = "live"}

\* materialize_portfolio: a task for each installment seen overdue for which no
\* open task was found.
WithTasks(db, seen, looked) ==
  [i \in Ids |-> IF i \in Live(seen) /\ Overdue(seen[i]) /\ looked[i].tasks = 0
                   THEN [db[i] EXCEPT !.tasks = @ + 1] ELSE db[i]]

\* Installments fall due a month apart, which is a day of the model; a day beyond
\* the bound is the last one.
DueOf(start, k) == IF start + k - 1 \in Days THEN start + k - 1 ELSE LastDay

\* generate_proposed_installments: rows first + 1 .. first + n.
Generated(first, n, total, start, i) ==
  [state |-> "live", num |-> i - first, amount |-> Share(total, n, i - first),
   due |-> DueOf(start, i - first), paid |-> 0, dust |-> FALSE, tasks |-> 0]

\* A policy is registered with its plan and its tasks.
Init ==
  /\ today = 0
  /\ \E p \in Premiums, n \in Counts, start \in Days :
       /\ n <= MaxRows
       /\ premium = p
       /\ made = n
       /\ inst = [i \in Ids |-> IF i <= n THEN Generated(0, n, p, start, i) ELSE NoRow]
  /\ promise = [p \in Promises |-> NoPromise]
  /\ req = [w \in Clerks |-> Idle]

-----------------------------------------------------------------------------
Begin(w) ==
  /\ req[w].pc = "idle"
  /\ req' = [req EXCEPT ![w] = [pc |-> "loaded", premium |-> premium, inst |-> inst,
                                promise |-> promise, target |-> 0, amt |-> 0]]
  /\ UNCHANGED <<premium, inst, made, promise, today>>

\* A request that writes nothing: a page, a refusal, an error that rolls back.
Leave(w) ==
  /\ req[w].pc # "idle"
  /\ req' = [req EXCEPT ![w] = Idle]
  /\ UNCHANGED <<premium, inst, made, promise, today>>

-----------------------------------------------------------------------------
(* Payments *)

\* Variant: no foreign key.
Anywhere(i) == i \in Ids

\* The foreign keys to installments.
Exists(i) == inst[i].state = "live"

\* Variant: the query for the promises of a payment lacks the installment.
OpenForAny(ps, i) == {p \in Promises : ps[p].status \in {"ACTIVE", "BROKEN"}}

\* Variant: a broken promise is not counted as open.
OpenForActive(ps, i) == {p \in Promises : ps[p].status = "ACTIVE" /\ ps[p].inst = i}

\* The open promises of an installment.
OpenFor(ps, i) == {p \in Promises : ps[p].status \in {"ACTIVE", "BROKEN"} /\ ps[p].inst = i}

\* What Numeric(14, 2) stores of an amount: whole cents, half a cent rounded up.
Stored(tender) == (tender + 5) \div 10

\* record_payment: the amount is compared as it was typed, with the balance of the
\* loaded rows and a tolerance of a tenth of a cent, and is rounded when stored.
\* The insert takes a key-share lock on the installment; then the promises are read.
PayCheck(w, i, tender) ==
  /\ req[w].pc = "loaded"
  /\ i \in Live(req[w].inst)
  /\ tender > 0
  /\ tender <= 10 * Balance(req[w].inst[i]) + 1
  /\ Exists(i)
  /\ req' = [req EXCEPT ![w].pc = "paying", ![w].promise = promise,
                        ![w].target = i, ![w].amt = Stored(tender)]
  /\ UNCHANGED <<premium, inst, made, promise, today>>

\* fulfill_promises_for_installment and the commit: the promises are fulfilled
\* whatever has been stored of the amount.
PayCommit(w) ==
  LET i == req[w].target IN
  /\ req[w].pc = "paying"
  /\ inst' = [inst EXCEPT ![i].paid = @ + req[w].amt, ![i].dust = @ \/ req[w].amt = 0]
  /\ promise' = [p \in Promises |-> IF p \in OpenFor(req[w].promise, i)
                   THEN [promise[p] EXCEPT !.status = "FULFILLED"] ELSE promise[p]]
  /\ req' = [req EXCEPT ![w] = Idle]
  /\ UNCHANGED <<premium, made, today>>

-----------------------------------------------------------------------------
(* Promises *)

\* An UPDATE of a row that is gone fails the request.
StillThere(ps) == \A p \in ps : promise[p].status # "DELETED"

\* POST promesas/nueva: the open promises of the installment are cancelled.
NewPromise(w, i, p, date) ==
  LET old == OpenFor(req[w].promise, i) IN
  /\ req[w].pc = "loaded"
  /\ i \in Live(req[w].inst)
  /\ Exists(i)
  /\ promise[p].status = "NONE"
  /\ StillThere(old)
  /\ promise' = [x \in Promises |->
       IF x = p THEN [status |-> "ACTIVE", inst |-> i, date |-> date]
       ELSE IF x \in old THEN [promise[x] EXCEPT !.status = "CANCELLED"]
       ELSE promise[x]]
  /\ req' = [req EXCEPT ![w] = Idle]
  /\ UNCHANGED <<premium, inst, made, today>>

\* Variant: every promise past its date is broken.
LateWhateverStatus(ps) == {p \in Promises : ps[p].status # "NONE" /\ ps[p].date < today}

\* Active promises past their date.
Late(ps) == {p \in Promises : ps[p].status = "ACTIVE" /\ ps[p].date < today}

\* refresh_overdue_promises, each time the board or the home page is opened.
Refresh(w) ==
  LET late == Late(req[w].promise) IN
  /\ req[w].pc = "loaded"
  /\ late # {}
  /\ StillThere(late)
  /\ promise' = [p \in Promises |-> IF p \in late
                   THEN [promise[p] EXCEPT !.status = "BROKEN"] ELSE promise[p]]
  /\ req' = [req EXCEPT ![w] = Idle]
  /\ UNCHANGED <<premium, inst, made, today>>

-----------------------------------------------------------------------------
(* The plan *)

\* The UPDATE of an installment: the columns that differ from the loaded row.
MergeRow(db, old, new) ==
  [db EXCEPT !.amount = IF new.amount = old.amount THEN @ ELSE new.amount,
             !.due = IF new.due = old.due THEN @ ELSE new.due]

\* Writes the rows the edit has changed, none of which may be gone.
WriteRows(w, new) ==
  /\ \A i \in Live(new) : new[i] # req[w].inst[i] => Exists(i)
  /\ inst' = [i \in Ids |-> MergeRow(inst[i], req[w].inst[i], new[i])]

\* The same, after which materialize_portfolio runs.
WriteRowsAndTasks(w, new) ==
  /\ \A i \in Live(new) : new[i] # req[w].inst[i] => Exists(i)
  /\ inst' = WithTasks([i \in Ids |-> MergeRow(inst[i], req[w].inst[i], new[i])], new, inst)

Unpaid(rows) == \A i \in Live(rows) : ~Locked(rows[i])

\* update_policy_premium.  The rescaling looks for payments once more, and stops
\* at the first share that is not positive; in both cases the new premium, and
\* the shares before, are committed with the error.
EditPremium(w, total) ==
  LET r == req[w]
      n == Cardinality(Live(r.inst))
      Fits(k) == \A j \in 1 .. k : Share(total, n, j) > 0
      new == [i \in Ids |-> IF i \in Live(r.inst) /\ Fits(r.inst[i].num)
                              THEN [r.inst[i] EXCEPT !.amount = Share(total, n, r.inst[i].num)]
                              ELSE r.inst[i]]
  IN  /\ r.pc = "loaded"
      /\ Unpaid(r.inst)
      /\ premium' = IF total = r.premium THEN premium ELSE total
      /\ \E checked \in {r.inst, inst} :
           IF \E i \in Live(r.inst) : Locked(checked[i])
             THEN inst' = inst
             ELSE IF Fits(n) THEN WriteRowsAndTasks(w, new) ELSE WriteRows(w, new)
      /\ req' = [req EXCEPT ![w] = Idle]
      /\ UNCHANGED <<made, promise, today>>

\* Variant: installments are deleted whatever refers to them.
PlanIsLoaded(w) == Live(inst) = Live(req[w].inst)

\* The deletes of a regeneration wait for the payments in course and fail if one
\* is allocated; its inserts fail if another regeneration has numbered new rows.
PlanIsFree(w) ==
  /\ Live(inst) = Live(req[w].inst)
  /\ Unpaid(inst)
  /\ \A v \in Clerks : req[v].pc = "paying" => req[v].target \notin Live(inst)

\* regenerate_payment_plan: the promises of the old installments and the
\* collection tasks of the policy go with them.
Regenerate(w, n, start) ==
  LET r == req[w]
      fresh == [i \in Ids |->
                 IF i \in Live(r.inst) THEN [inst[i] EXCEPT !.state = "deleted", !.tasks = 0]
                 ELSE IF i \in made + 1 .. made + n THEN Generated(made, n, r.premium, start, i)
                 ELSE [inst[i] EXCEPT !.tasks = 0]]
  IN  /\ r.pc = "loaded"
      /\ Unpaid(r.inst)
      /\ made + n <= MaxRows
      /\ PlanIsFree(w)
      /\ inst' = WithTasks(fresh, fresh, fresh)
      /\ made' = made + n
      /\ promise' = [p \in Promises |-> IF promise[p].inst \in Live(r.inst)
                       THEN [promise[p] EXCEPT !.status = "DELETED"] ELSE promise[p]]
      /\ req' = [req EXCEPT ![w] = Idle]
      /\ UNCHANGED <<premium, today>>

Total(rows) == MapThenSumSet(LAMBDA i : rows[i].amount, Live(rows))

\* The sum may miss the premium by two cents.
SumIsRight(w, new) ==
  LET gap == Total(new) - req[w].premium IN -2 <= gap /\ gap <= 2

\* update_open_installments: the rows typed are changed, up to one that holds no
\* amount (stops); then the sum is compared.  A refusal commits what was changed.
UpdateOpen(w, typed, stops) ==
  LET r == req[w]
      new == [i \in Ids |-> IF i \in DOMAIN typed
                THEN [r.inst[i] EXCEPT !.amount = typed[i].amount, !.due = typed[i].due]
                ELSE r.inst[i]]
  IN  /\ r.pc = "loaded"
      /\ \A i \in DOMAIN typed : i \in Live(r.inst) /\ ~Locked(r.inst[i])
      /\ IF SumIsRight(w, new) /\ ~stops THEN WriteRowsAndTasks(w, new)
                                         ELSE WriteRows(w, new)
      /\ req' = [req EXCEPT ![w] = Idle]
      /\ UNCHANGED <<premium, made, promise, today>>

\* An edit of another policy: materialize_portfolio runs over the organization.
Materialize(w) ==
  /\ req[w].pc = "loaded"
  /\ inst' = WithTasks(inst, req[w].inst, req[w].inst)
  /\ req' = [req EXCEPT ![w] = Idle]
  /\ UNCHANGED <<premium, made, promise, today>>

NextDay ==
  /\ today < LastDay
  /\ today' = today + 1
  /\ UNCHANGED <<premium, inst, made, promise, req>>

\* What may be typed for the open installments of the plan.
Forms(w) == UNION {[S -> [amount : Money, due : Days]] : S \in SUBSET Live(req[w].inst)}

Next ==
  \/ \E w \in Clerks :
       \/ Begin(w) \/ Leave(w)
       \/ \E i \in Ids, tender \in Tenders : PayCheck(w, i, tender)
       \/ PayCommit(w)
       \/ \E i \in Ids, p \in Promises, date \in Days : NewPromise(w, i, p, date)
       \/ Refresh(w)
       \/ \E total \in Premiums : EditPremium(w, total)
       \/ \E n \in Counts, start \in Days : Regenerate(w, n, start)
       \/ \E typed \in Forms(w), stops \in BOOLEAN : UpdateOpen(w, typed, stops)
       \/ Materialize(w)
  \/ NextDay

Spec == Init /\ [][Next]_vars

-----------------------------------------------------------------------------
(* Properties *)

\* Every variable keeps its type.
TypeOK ==
  /\ premium \in Premiums
  /\ inst \in [Ids -> Row]
  /\ made \in 0 .. MaxRows
  /\ promise \in [Promises -> PromiseRow]
  /\ today \in Days
  /\ req \in [Clerks -> Request]

\* Whatever edit, payment or regeneration runs at the same time: money that is
\* allocated stays allocated, to an installment that stays in the plan.
MoneyIsKept ==
  [][\A i \in Ids : Allocated(inst[i]) =>
       /\ inst'[i].state = "live"
       /\ inst'[i].paid >= inst[i].paid
       /\ inst[i].dust => inst'[i].dust]_vars

\* However requests overlap, a promise is reported fulfilled only if a payment is on
\* file for its installment: money, or a payment of less than half a cent, which
\* record_payment accepts and the column stores as 0.00 (FulfilledHasMoney).
FulfilledIsPaid ==
  \A p \in Promises : promise[p].status = "FULFILLED" => Allocated(inst[promise[p].inst])

\* "amount must be positive": a fulfilled promise has been paid for.  Half a cent
\* less a tenth is positive when it is compared and nothing when it is stored.
FulfilledHasMoney ==
  \A p \in Promises : promise[p].status = "FULFILLED" => inst[promise[p].inst].paid > 0

\* A promise that is on file belongs to an installment of the plan.
PromiseHasInstallment ==
  \A p \in Promises :
    promise[p].status \notin {"NONE", "DELETED"} => inst[promise[p].inst].state = "live"

\* "amount exceeds outstanding balance": no sequence of payments, edits of the
\* plan, corrections of the premium and regenerations leaves an installment with
\* more money than it asks for.
NotOverpaid == \A i \in Ids : inst[i].paid > 0 => inst[i].paid <= inst[i].amount

\* "Installments with allocations are locked": from the first payment on the
\* premium and the installment stay what they were when it was paid.
LockedIsFrozen ==
  [][\A i \in Ids : Allocated(inst[i]) =>
       /\ premium' = premium
       /\ inst'[i].amount = inst[i].amount
       /\ inst'[i].due = inst[i].due]_vars

\* A promise that was fulfilled or cancelled is not opened or broken again.
ResolvedIsFinal ==
  [][\A p \in Promises : promise[p].status \in {"FULFILLED", "CANCELLED"} =>
       promise'[p].status \in {promise[p].status, "DELETED"}]_vars

\* "Cierra promesas abiertas previas de la misma cuota antes de re-prometer" and
\* "Idempotent: skips entities that already exist": an installment has one open promise
\* and one open collection task at most, and none once a regeneration has replaced it.
OnePerInstallment ==
  \A i \in Ids :
    LET open == {p \in Promises : promise[p].status \in {"ACTIVE", "BROKEN"} /\ promise[p].inst = i}
        most == IF inst[i].state = "live" THEN 1 ELSE 0
    IN  Cardinality(open) <= most /\ inst[i].tasks <= most

\* "Sum of all amounts must match premium", to two cents, whichever edits are
\* accepted and whichever are refused.
SumIsPremium ==
  LET gap == Total(inst) - premium IN -2 <= gap /\ gap <= 2
=============================================================================
