-------------------------- MODULE SubscriptionProofs --------------------------
(***************************************************************************)
(* Theorems about Subscription, for any plans, number of requests,         *)
(* customers, receipts and sessions: types, that access is only ever given *)
(* for something, that an activation is never undone, that the repeated    *)
(* promotion checkouts of an office subscribe one customer of it once, and *)
(* that a decided receipt stays decided.                                   *)
(***************************************************************************)
EXTENDS Subscription, FiniteSetTheorems, TLAPS

-----------------------------------------------------------------------------
(* The inductive invariant *)

\* What gives access: a payment vouched for, or a traveller's session.
Granted == Vouched \/ borrowed

\* A row that exists has a plan that exists; one that does not is blank.
Sound(row) == IF row.status = "NONE" THEN row = NoRow ELSE row.plan \in PlanCodes

Calling == {"sync", "report", "boot", "pay", "ask", "repair"}

\* What a request at work may do to the row, given the row on file.
RequestFits(q, row) ==
  /\ Sound(q.saw) /\ Sound(q.new)
  /\ q.saw.status # "NONE" => row.status # "NONE"
  /\ q.new.status = "NONE" => q.new = q.saw
  /\ q.new.status \in {q.saw.status, "active"} \/ q.saw.status = "NONE"
  /\ q.step \in Calling => q.new.status # "NONE" /\ q.saw.status # "NONE" /\ q.new.status = q.saw.status
  /\ q.step \in {"insert", "enrol", "sync", "report"} => q.plan \in PlanCodes
  /\ q.step \in {"insert", "enrol"} => q.saw = NoRow /\ q.new.status # "active"
  /\ q.step = "enrol" => q.new.status = "pending"
  /\ q.step = "ask" => q.cust \in Customers
  /\ q.step \in Calling => q.user \in Users
  /\ q.step \in {"boot", "pay", "ask", "repair"} => q.code \in Codes

\* An activation not yet committed has its ground, a review still has its receipt.
Grounded(q) == q.new.status = "active" => Granted \/ (q.receipt # 0 /\ q.verdict = "approved")

ReviewFits(q) ==
  q.receipt # 0 => q.verdict # "none" /\ (~q.stale => receipt[q.receipt].status = "pending")

\* Everything but the row and the requests.
WorldOK ==
  /\ receipt \in [Receipts -> Receipt] /\ session \in [Sessions -> Session]
  /\ customer \in [Customers -> Customer]
  /\ bootKeys \subseteq (({"signup"} \X Nat) \cup ({"repair"} \X (PlanCodes \X Users))) \X Customers
  /\ IsFiniteSet(bootKeys)
  /\ paid \subseteq [customer : Customers, code : Codes, plan : PlanCodes]
  /\ settings \in [en1 : BOOLEAN, stripe : BOOLEAN]
  /\ served \in 0 .. MaxRequests /\ pilot \in BOOLEAN /\ borrowed \in BOOLEAN
  /\ \A s \in Sessions : session[s].state # "none" => session[s].plan \in PlanCodes

IInv ==
  /\ WorldOK /\ org \in BOOLEAN /\ sub \in Row /\ raced \in BOOLEAN /\ req \in [Threads -> Request]
  /\ Sound(sub) /\ (sub.status # "NONE" => org) /\ (sub.status = "active" => Granted)
  /\ \A r \in Threads : RequestFits(req[r], sub) /\ Grounded(req[r]) /\ ReviewFits(req[r])

LEMMA PlanFacts == NoPlan \notin PlanCodes
  BY SubscriptionAssumption DEF PlanCodes

LEMMA IdleFits ==
  ASSUME NEW row
  PROVE  Idle \in Request /\ RequestFits(Idle, row) /\ Grounded(Idle) /\ ReviewFits(Idle)
  <1>1. NoRow \in Row /\ NoRow.status = "NONE"
    BY DEF NoRow, Row, CustomerIds
  <1>2. Idle \in Request
    BY <1>1 DEF Idle, Request, CustomerIds
  <1>3. /\ Idle.saw = NoRow /\ Idle.new = NoRow /\ Idle.step = "idle" /\ Idle.receipt = 0
    BY DEF Idle
  <1> QED
    BY <1>1, <1>2, <1>3 DEF RequestFits, Sound, Calling, Grounded, ReviewFits

LEMMA InitIInv == Init => IInv
  <1> SUFFICES ASSUME Init PROVE IInv
    OBVIOUS
  <1>1. NoRow \in Row /\ NoRow.status = "NONE" /\ sub = NoRow
    BY DEF Init, NoRow, Row, CustomerIds
  <1>2. /\ receipt \in [Receipts -> Receipt] /\ session \in [Sessions -> Session]
        /\ customer \in [Customers -> Customer]
    BY DEF Init, Receipt, Session, Customer
  <1>3. bootKeys = {} /\ IsFiniteSet(bootKeys)
    BY FS_EmptySet DEF Init
  <1>4. paid = {}
    BY DEF Init
  <1>5. served \in 0 .. MaxRequests
    BY SubscriptionAssumption DEF Init
  <1>6. WorldOK
    BY <1>2, <1>3, <1>4, <1>5 DEF Init, WorldOK
  <1>7. \A r \in Threads : req[r] = Idle
    BY DEF Init
  <1>8. req \in [Threads -> Request]
    BY IdleFits DEF Init
  <1> QED
    BY <1>1, <1>6, <1>7, <1>8, IdleFits DEF IInv, Init, Sound

-----------------------------------------------------------------------------
(* A request that leaves the row alone *)

LEMMA StepKeeps ==
  ASSUME IInv, NEW r \in Threads, NEW q \in Request, Moves(r, q), UNCHANGED <<org, sub, raced>>,
         WorldOK', Granted => Granted',
         \A i \in Receipts : receipt[i].status = "pending" => receipt'[i].status = "pending",
         RequestFits(q, sub),
         q.new.status = "active" => Granted' \/ (q.receipt # 0 /\ q.verdict = "approved"),
         q.receipt # 0 => q.verdict # "none" /\ (~q.stale => receipt'[q.receipt].status = "pending")
  PROVE  IInv'
  <1>1. req' = [req EXCEPT ![r] = q] /\ req' \in [Threads -> Request]
    BY DEF Moves, IInv
  <1>2. \A s \in Threads : s # r => req'[s] = req[s]
    BY <1>1 DEF IInv
  <1>3. req'[r] = q
    BY <1>1 DEF IInv
  <1>4. \A s \in Threads : RequestFits(req'[s], sub)
    BY <1>2, <1>3 DEF IInv
  <1>5. \A s \in Threads : req'[s].new.status = "active" =>
          Granted' \/ (req'[s].receipt # 0 /\ req'[s].verdict = "approved")
    BY <1>2, <1>3 DEF IInv, Grounded
  <1>6. \A s \in Threads : req'[s].receipt # 0 =>
          req'[s].verdict # "none" /\ (~req'[s].stale => receipt'[req'[s].receipt].status = "pending")
    <2> TAKE s \in Threads
    <2>1. CASE s = r
      BY <1>3, <2>1
    <2>2. CASE s # r
      <3>1. req'[s] = req[s] /\ req[s] \in Request /\ ReviewFits(req[s])
        BY <1>2, <2>2 DEF IInv
      <3>2. req[s].receipt \in Receipts \cup {0}
        BY <3>1 DEF Request
      <3> QED
        BY <3>1, <3>2 DEF ReviewFits
    <2> QED
      BY <2>1, <2>2
  <1>7. (\A s \in Threads : RequestFits(req[s], sub) /\ Grounded(req[s]) /\ ReviewFits(req[s]))'
    BY <1>4, <1>5, <1>6 DEF Grounded, ReviewFits
  <1>8. (sub.status = "active" => Granted)'
    BY DEF IInv
  <1> QED
    BY <1>1, <1>7, <1>8 DEF IInv

\* A request that begins, while the rest of the world stands still or moves as it may.
LEMMA ServedMore ==
  ASSUME IInv, NEW r \in Threads, NEW q, Begin(r, q)
  PROVE  served' \in 0 .. MaxRequests /\ settings' = settings
  <1>1. served < MaxRequests /\ served' = served + 1 /\ settings' = settings
    BY DEF Begin
  <1>2. served \in 0 .. MaxRequests
    BY DEF IInv, WorldOK
  <1> QED
    BY <1>1, <1>2, SubscriptionAssumption

LEMMA WorldStands ==
  ASSUME IInv, UNCHANGED <<receipt, pilot, raced, borrowed, Remote>>, served' \in 0 .. MaxRequests,
         settings' \in [en1 : BOOLEAN, stripe : BOOLEAN]
  PROVE  WorldOK' /\ (Granted => Granted')
         /\ \A i \in Receipts : receipt[i].status = "pending" => receipt'[i].status = "pending"
  BY DEF IInv, WorldOK, Remote, Granted, Vouched, StripePaid

\* A request that begins with plan q to change the row, the world standing still.
LEMMA BeginKeeps ==
  ASSUME IInv, NEW r \in Threads, NEW q, [q EXCEPT !.saw = sub] \in Request, Begin(r, q),
         UNCHANGED <<Local, Remote>>, RequestFits([q EXCEPT !.saw = sub], sub),
         [q EXCEPT !.saw = sub].new.status = "active" =>
           Granted \/ ([q EXCEPT !.saw = sub].receipt # 0 /\ [q EXCEPT !.saw = sub].verdict = "approved"),
         [q EXCEPT !.saw = sub].receipt # 0 =>
           /\ [q EXCEPT !.saw = sub].verdict # "none"
           /\ receipt[[q EXCEPT !.saw = sub].receipt].status = "pending"
  PROVE  IInv'
  <1> DEFINE m == [q EXCEPT !.saw = sub]
  <1>1. Moves(r, m) /\ UNCHANGED <<org, sub, raced, borrowed, receipt, pilot, Remote>>
    BY DEF Begin, Local
  <1>2. served' \in 0 .. MaxRequests /\ settings' \in [en1 : BOOLEAN, stripe : BOOLEAN]
    BY ServedMore DEF IInv, WorldOK
  <1>3. /\ WorldOK' /\ (Granted => Granted')
        /\ \A i \in Receipts : receipt[i].status = "pending" => receipt'[i].status = "pending"
    BY <1>1, <1>2, WorldStands
  <1> HIDE DEF m
  <1>4. /\ m \in Request /\ RequestFits(m, sub)
        /\ m.new.status = "active" => Granted' \/ (m.receipt # 0 /\ m.verdict = "approved")
        /\ m.receipt # 0 => m.verdict # "none" /\ (~m.stale => receipt'[m.receipt].status = "pending")
    BY <1>1, <1>3 DEF m
  <1> QED
    BY <1>1, <1>3, <1>4, StepKeeps

-----------------------------------------------------------------------------
(* Sign-up *)

LEMMA NoRowFacts ==
  NoRow \in Row /\ NoRow.status = "NONE" /\ NoRow.plan = NoPlan /\ Sound(NoRow)
  BY DEF NoRow, Row, CustomerIds, Sound

LEMMA RegisterKeeps ==
  ASSUME IInv, NEW r \in Threads, Register(r)
  PROVE  IInv'
  <1> DEFINE q(p) == [Idle EXCEPT !.step = "insert", !.plan = p]
             m(p) == [q(p) EXCEPT !.saw = sub]
  <1>1. PICK p \in Plans : ~org /\ Begin(r, q(p)) /\ UNCHANGED <<Local, Remote>>
    BY DEF Register
  <1>2. sub = NoRow /\ p \in PlanCodes
    BY <1>1 DEF IInv, Sound, PlanCodes
  <1>3. /\ m(p) \in Request /\ m(p).step = "insert" /\ m(p).plan = p /\ m(p).saw = NoRow
        /\ m(p).new = NoRow /\ m(p).receipt = 0
    BY <1>2, IdleFits DEF Idle, Request
  <1> HIDE DEF q
  <1>4. RequestFits(m(p), sub)
    BY <1>2, <1>3, NoRowFacts DEF RequestFits, Calling
  <1> QED
    BY <1>1, <1>3, <1>4, NoRowFacts, BeginKeeps

LEMMA InsertAccountKeeps ==
  ASSUME IInv, NEW r \in Threads, InsertAccount(r)
  PROVE  IInv'
  <1>1. /\ req[r].step = "insert" /\ req[r] \in Request /\ RequestFits(req[r], sub)
        /\ Grounded(req[r]) /\ ReviewFits(req[r])
    BY DEF InsertAccount, IInv
  <1>2. UNCHANGED <<Local, Remote, settings, served>>
    BY DEF InsertAccount
  <1>3. /\ WorldOK' /\ (Granted => Granted')
        /\ \A i \in Receipts : receipt[i].status = "pending" => receipt'[i].status = "pending"
    BY <1>2, WorldStands DEF Local, IInv, WorldOK
  <1> DEFINE step == IF settings.en1 THEN "enrol" ELSE "commit"
             row == [NoRow EXCEPT !.status = "pending", !.plan = req[r].plan]
             m == [req[r] EXCEPT !.step = step, !.new = row]
  <1>4. Moves(r, Idle) \/ Moves(r, m)
    BY DEF InsertAccount
  <1>5. CASE Moves(r, Idle)
    BY <1>2, <1>3, <1>5, IdleFits, StepKeeps DEF Local, Idle, NoRow
  <1>6. CASE Moves(r, m)
    <2>1. req[r].plan \in PlanCodes /\ req[r].saw = NoRow
      BY <1>1 DEF RequestFits
    <2>2. row \in Row /\ row.status = "pending" /\ row.plan = req[r].plan
      BY <2>1 DEF Row, NoRow, CustomerIds
    <2>3. step \in {"enrol", "commit"}
      OBVIOUS
    <2> HIDE DEF row, step
    <2>4. /\ m \in Request /\ m.step = step /\ m.new = row /\ m.saw = NoRow /\ m.plan = req[r].plan
          /\ m.receipt = req[r].receipt /\ m.verdict = req[r].verdict /\ m.stale = req[r].stale
      BY <1>1, <2>1, <2>2, <2>3 DEF Request
    <2> HIDE DEF m
    <2>5. RequestFits(m, sub)
      BY <2>1, <2>2, <2>3, <2>4, NoRowFacts DEF RequestFits, Calling, Sound
    <2>6. m.receipt # 0 => m.verdict # "none" /\ (~m.stale => receipt'[m.receipt].status = "pending")
      BY <1>1, <1>2, <2>4 DEF ReviewFits, Local
    <2> QED
      BY <1>2, <1>3, <1>6, <2>2, <2>4, <2>5, <2>6, StepKeeps DEF Local
  <1> QED
    BY <1>4, <1>5, <1>6

Keys == ({"signup"} \X Nat) \cup ({"repair"} \X (PlanCodes \X Users))

LEMMA BootstrappedFacts ==
  ASSUME IInv, NEW key \in Keys, NEW c \in Customers, Bootstrapped(key, c),
         UNCHANGED <<receipt, session, paid, pilot, settings, served, raced, borrowed>>
  PROVE  WorldOK' /\ (Granted => Granted')
         /\ \A i \in Receipts : receipt[i].status = "pending" => receipt'[i].status = "pending"
  <1>1. CASE UNCHANGED <<customer, bootKeys>>
    BY <1>1, WorldStands DEF Remote, IInv, WorldOK
  <1>2. CASE customer' = [customer EXCEPT ![c].state = "live"] /\ bootKeys' = bootKeys \cup {<<key, c>>}
    <2> DEFINE live == [customer[c] EXCEPT !.state = "live"]
    <2>1. customer \in [Customers -> Customer]
      BY DEF IInv, WorldOK
    <2>2. live \in Customer /\ live.plan = customer[c].plan
      BY <2>1 DEF Customer
    <2>3. customer' = [customer EXCEPT ![c] = live]
      BY <1>2, <2>1
    <2> HIDE DEF live
    <2>4. /\ customer' \in [Customers -> Customer]
          /\ \A d \in Customers : customer'[d].plan = customer[d].plan
      BY <2>1, <2>2, <2>3
    <2>5. bootKeys \subseteq Keys \X Customers /\ IsFiniteSet(bootKeys)
      BY DEF IInv, WorldOK, Keys
    <2>6. bootKeys' \subseteq Keys \X Customers
      BY <1>2, <2>5
    <2>7. IsFiniteSet(bootKeys')
      BY <1>2, <2>5, FS_AddElement
    <2>8. Granted => Granted'
      BY <2>4 DEF Granted, Vouched, StripePaid
    <2> QED
      BY <2>4, <2>6, <2>7, <2>8 DEF IInv, WorldOK, Keys
  <1> QED
    BY <1>1, <1>2 DEF Bootstrapped

LEMMA EnrolKeeps ==
  ASSUME IInv, NEW r \in Threads, Enrol(r)
  PROVE  IInv'
  <1>1. /\ req[r].step = "enrol" /\ req[r] \in Request /\ RequestFits(req[r], sub)
        /\ Grounded(req[r]) /\ ReviewFits(req[r])
    BY DEF Enrol, IInv
  <1>2. UNCHANGED <<Local, session, paid, settings, served>>
    BY DEF Enrol
  <1> DEFINE key == <<"signup", Cardinality(bootKeys)>>
             m(c) == [req[r] EXCEPT !.step = "commit", !.new.provider = "en1", !.new.customer = c]
  <1>3. key \in Keys
    BY FS_CardinalityType DEF IInv, WorldOK, Keys
  <1>4. \/ \E c \in Customers : Bootstrapped(key, c) /\ (Moves(r, m(c)) \/ Moves(r, Idle))
        \/ Moves(r, Idle) /\ UNCHANGED <<customer, bootKeys>>
    BY DEF Enrol
  <1> HIDE DEF key
  <1>5. CASE Moves(r, Idle) /\ UNCHANGED <<customer, bootKeys>>
    <2>1. /\ WorldOK' /\ (Granted => Granted')
          /\ \A i \in Receipts : receipt[i].status = "pending" => receipt'[i].status = "pending"
      BY <1>2, <1>5, WorldStands DEF Local, Remote, IInv, WorldOK
    <2> QED
      BY <1>2, <1>5, <2>1, IdleFits, StepKeeps DEF Local, Idle, NoRow
  <1>6. ASSUME NEW c \in Customers, Bootstrapped(key, c), Moves(r, m(c)) \/ Moves(r, Idle)
        PROVE  IInv'
    <2>1. /\ WorldOK' /\ (Granted => Granted')
          /\ \A i \in Receipts : receipt[i].status = "pending" => receipt'[i].status = "pending"
      BY <1>2, <1>3, <1>6, BootstrappedFacts DEF Local
    <2>2. CASE Moves(r, Idle)
      BY <1>2, <2>1, <2>2, IdleFits, StepKeeps DEF Local, Idle, NoRow
    <2>3. CASE Moves(r, m(c))
      <3> DEFINE row == [req[r].new EXCEPT !.provider = "en1", !.customer = c]
      <3>1. req[r].new \in Row /\ req[r].new.status = "pending" /\ Sound(req[r].new) /\ req[r].saw = NoRow
        BY <1>1 DEF Request, RequestFits
      <3>2. row \in Row /\ row.status = "pending" /\ row.plan = req[r].new.plan
        BY <3>1 DEF Row, CustomerIds
      <3>3. m(c) = [req[r] EXCEPT !.step = "commit", !.new = row]
        BY <1>1, <3>1 DEF Request, Row
      <3> HIDE DEF row
      <3>4. /\ m(c) \in Request /\ m(c).step = "commit" /\ m(c).new = row /\ m(c).saw = NoRow
            /\ m(c).receipt = req[r].receipt /\ m(c).verdict = req[r].verdict /\ m(c).stale = req[r].stale
        BY <1>1, <3>1, <3>2, <3>3 DEF Request
      <3> HIDE DEF m
      <3>5. RequestFits(m(c), sub)
        BY <3>1, <3>2, <3>4, NoRowFacts DEF RequestFits, Calling, Sound
      <3>6. m(c).receipt # 0 => m(c).verdict # "none" /\ (~m(c).stale => receipt'[m(c).receipt].status = "pending")
        BY <1>1, <1>2, <3>4 DEF ReviewFits, Local
      <3> QED
        BY <1>2, <2>1, <2>3, <3>2, <3>4, <3>5, <3>6, StepKeeps DEF Local
    <2> QED
      BY <1>6, <2>2, <2>3
  <1> QED
    BY <1>4, <1>5, <1>6

-----------------------------------------------------------------------------
(* Checkout *)

LEMMA CheckoutPageKeeps ==
  ASSUME IInv, NEW r \in Threads, CheckoutPage(r)
  PROVE  IInv'
  <1> DEFINE row(p) == [sub EXCEPT !.plan = p]
             q(p) == [Idle EXCEPT !.step = "commit", !.new = row(p)]
             m(p) == [q(p) EXCEPT !.saw = sub]
  <1>1. PICK p \in Sold : /\ org /\ sub.status = "pending" /\ sub.plan # p /\ Begin(r, q(p))
                          /\ UNCHANGED <<Local, Remote>>
    BY DEF CheckoutPage
  <1>2. p \in PlanCodes /\ sub \in Row /\ Sound(sub)
    BY SubscriptionAssumption DEF IInv, PlanCodes
  <1>3. row(p) \in Row /\ row(p).status = "pending" /\ row(p).plan = p
    BY <1>1, <1>2 DEF Row
  <1> HIDE DEF row
  <1>4. /\ m(p) \in Request /\ m(p).step = "commit" /\ m(p).saw = sub
        /\ m(p).new = row(p) /\ m(p).receipt = 0
    BY <1>2, <1>3, IdleFits DEF Idle, Request
  <1> HIDE DEF q
  <1>5. RequestFits(m(p), sub)
    BY <1>1, <1>2, <1>3, <1>4 DEF RequestFits, Calling, Sound
  <1> QED
    BY <1>1, <1>3, <1>4, <1>5, BeginKeeps

LEMMA PaysFacts ==
  ASSUME NEW code \in Codes \cup {NoCode}
  PROVE  Pays(code) \in {"report", "boot"} /\ (Pays(code) = "boot" => code \in Codes)
  BY DEF Pays

LEMMA CheckoutPostKeeps ==
  ASSUME IInv, NEW r \in Threads, CheckoutPost(r)
  PROVE  IInv'
  <1> DEFINE step(p, k) == IF SyncsPlan(sub, p) THEN "sync" ELSE Pays(k)
             q(p, k, u) == [Idle EXCEPT !.step = step(p, k), !.plan = p, !.new = sub,
                                        !.code = k, !.user = u]
             m(p, k, u) == [q(p, k, u) EXCEPT !.saw = sub]
  <1>1. PICK p \in Plans, k \in Codes \cup {NoCode}, u \in Users :
          sub.status # "NONE" /\ Begin(r, q(p, k, u)) /\ UNCHANGED <<Local, Remote>>
    BY DEF CheckoutPost
  <1>2. sub \in Row /\ Sound(sub) /\ (sub.status = "active" => Granted) /\ p \in PlanCodes
    BY DEF IInv, PlanCodes
  <1>3. step(p, k) \in {"sync", "report", "boot"} /\ (step(p, k) = "boot" => k \in Codes)
    BY PaysFacts
  <1> HIDE DEF step
  <1>4. /\ m(p, k, u) \in Request /\ m(p, k, u).step = step(p, k) /\ m(p, k, u).plan = p
        /\ m(p, k, u).saw = sub /\ m(p, k, u).new = sub /\ m(p, k, u).receipt = 0
        /\ m(p, k, u).code = k /\ m(p, k, u).user = u
    BY <1>2, <1>3, IdleFits DEF Idle, Request
  <1> HIDE DEF q
  <1>5. RequestFits(m(p, k, u), sub)
    BY <1>1, <1>2, <1>3, <1>4 DEF RequestFits, Calling
  <1> QED
    BY <1>1, <1>2, <1>4, <1>5, BeginKeeps

\* What the ORM writes of a sound change to a sound row.
LEMMA MergeFacts ==
  ASSUME NEW row \in Row, NEW saw \in Row, NEW new \in Row, Sound(row), Sound(saw), Sound(new),
         saw.status # "NONE" => row.status # "NONE",
         new.status = "NONE" => new = saw,
         ~(saw.status = "NONE" /\ row.status # "NONE" /\ new.status # "NONE")
  PROVE  LET m == Merge(row, saw, new)
         IN  /\ m \in Row /\ Sound(m) /\ (row.status # "NONE" => m.status # "NONE")
             /\ m.status = IF new.status = saw.status THEN row.status ELSE new.status
             /\ m.status # "NONE" => row.status # "NONE" \/ new.status # "NONE"
  <1> DEFINE m == Merge(row, saw, new)
  <1>1. m = [status |-> IF new.status = saw.status THEN row.status ELSE new.status,
             plan |-> IF new.plan = saw.plan THEN row.plan ELSE new.plan,
             provider |-> IF new.provider = saw.provider THEN row.provider ELSE new.provider,
             customer |-> IF new.customer = saw.customer THEN row.customer ELSE new.customer,
             seats |-> IF new.seats = saw.seats THEN row.seats ELSE new.seats]
    BY DEF Merge
  <1>2. /\ m.status = IF new.status = saw.status THEN row.status ELSE new.status
        /\ m.plan = IF new.plan = saw.plan THEN row.plan ELSE new.plan
    BY <1>1
  <1>3. m \in Row
    BY <1>1 DEF Row
  <1>4. CASE new.status = "NONE"
    <2>1. new = saw
      BY <1>4
    <2>2. row = [status |-> row.status, plan |-> row.plan, provider |-> row.provider,
                 customer |-> row.customer, seats |-> row.seats]
      BY DEF Row
    <2>3. m = row
      BY <1>1, <2>1, <2>2
    <2> QED
      BY <1>2, <1>3, <1>4, <2>1, <2>3
  <1>5. CASE new.status # "NONE"
    <2>1. new.plan \in PlanCodes
      BY <1>5 DEF Sound
    <2>2. CASE row.status = "NONE"
      <3>1. saw.status = "NONE" /\ saw.plan = NoPlan
        BY <2>2, NoRowFacts DEF Sound
      <3>2. m.plan = new.plan /\ m.status = new.status
        BY <1>2, <1>5, <2>1, <3>1, PlanFacts
      <3> QED
        BY <1>2, <1>3, <1>5, <2>1, <2>2, <3>2 DEF Sound
    <2>3. CASE row.status # "NONE"
      <3>1. row.plan \in PlanCodes
        BY <2>3 DEF Sound
      <3>2. m.plan \in PlanCodes /\ m.status # "NONE"
        BY <1>2, <1>5, <2>1, <2>3, <3>1
      <3> QED
        BY <1>2, <1>3, <2>3, <3>2 DEF Sound
    <2> QED
      BY <2>2, <2>3
  <1> HIDE DEF m
  <1> QED
    BY <1>4, <1>5 DEF m

LEMMA SyncPlanKeeps ==
  ASSUME IInv, NEW r \in Threads, SyncPlan(r)
  PROVE  IInv'
  <1> DEFINE q == req[r]
             new == [q.saw EXCEPT !.plan = q.plan]
             row == Merge(sub, q.saw, new)
             step == Pays(q.code)
             m == [q EXCEPT !.saw = row, !.new = row, !.step = step]
  <1>1. /\ q.step = "sync" /\ q \in Request /\ RequestFits(q, sub) /\ Grounded(q) /\ ReviewFits(q)
        /\ sub' = row /\ Moves(r, m) /\ UNCHANGED <<org, receipt, pilot, raced, borrowed, Remote, settings, served>>
    BY DEF SyncPlan, IInv
  <1>2. /\ q.plan \in PlanCodes /\ q.saw \in Row /\ Sound(q.saw) /\ q.saw.status # "NONE"
        /\ sub.status # "NONE" /\ sub \in Row /\ Sound(sub)
        /\ q.user \in Users /\ q.code \in Codes \cup {NoCode}
    BY <1>1 DEF RequestFits, Request, Calling, IInv
  <1>3. new \in Row /\ new.status = q.saw.status /\ Sound(new)
    BY <1>2 DEF Row, Sound
  <1> HIDE DEF new
  <1>4. row \in Row /\ Sound(row) /\ row.status = sub.status
    BY <1>2, <1>3, MergeFacts
  <1>5. step \in {"report", "boot"} /\ (step = "boot" => q.code \in Codes)
    BY <1>2, PaysFacts
  <1> HIDE DEF row, step
  <1>6. /\ m \in Request /\ m.step = step /\ m.saw = row /\ m.new = row /\ m.plan = q.plan
        /\ m.code = q.code /\ m.user = q.user
        /\ m.receipt = q.receipt /\ m.verdict = q.verdict /\ m.stale = q.stale
    BY <1>1, <1>4, <1>5 DEF Request
  <1> HIDE DEF m
  <1>7. RequestFits(m, row)
    BY <1>2, <1>4, <1>5, <1>6 DEF RequestFits, Calling
  <1>8. /\ WorldOK' /\ (Granted => Granted')
        /\ \A i \in Receipts : receipt[i].status = "pending" => receipt'[i].status = "pending"
    BY <1>1, WorldStands DEF IInv, WorldOK
  <1>9. req' \in [Threads -> Request] /\ req'[r] = m /\ \A s \in Threads : s # r => req'[s] = req[s]
    BY <1>1, <1>6 DEF Moves, IInv
  <1> HIDE DEF q
  <1>10. \A s \in Threads : RequestFits(req'[s], row)
    <2> TAKE s \in Threads
    <2>1. CASE s = r
      BY <1>7, <1>9, <2>1
    <2>2. CASE s # r
      BY <1>2, <1>4, <1>9, <2>2 DEF IInv, RequestFits
    <2> QED
      BY <2>1, <2>2
  <1>11. row.status = "active" => Granted'
    BY <1>4, <1>8 DEF IInv
  <1>12. (\A s \in Threads : Grounded(req[s]) /\ ReviewFits(req[s]))'
    <2> SUFFICES ASSUME NEW s \in Threads
                 PROVE  (Grounded(req[s]) /\ ReviewFits(req[s]))'
      OBVIOUS
    <2>1. CASE s = r
      BY <1>1, <1>6, <1>9, <1>11, <2>1 DEF Grounded, ReviewFits
    <2>2. CASE s # r
      BY <1>1, <1>8, <1>9, <2>2 DEF IInv, Grounded, ReviewFits
    <2> QED
      BY <2>1, <2>2
  <1>13. (\A s \in Threads : RequestFits(req[s], sub) /\ Grounded(req[s]) /\ ReviewFits(req[s]))'
    BY <1>1, <1>10, <1>12
  <1>14. (sub.status = "active" => Granted)'
    BY <1>1, <1>11
  <1> QED
    BY <1>1, <1>2, <1>4, <1>8, <1>9, <1>13, <1>14 DEF IInv

LEMMA ReportReceiptKeeps ==
  ASSUME IInv, NEW r \in Threads, ReportReceipt(r)
  PROVE  IInv'
  <1>1. /\ req[r].plan \in PlanCodes /\ Moves(r, Idle)
        /\ UNCHANGED <<org, sub, pilot, raced, borrowed, Remote, settings, served>>
    BY DEF ReportReceipt, IInv, RequestFits
  <1> DEFINE new == [status |-> "pending", plan |-> req[r].plan]
  <1>2. PICK i \in Receipts : receipt[i].status = "NONE" /\ receipt' = [receipt EXCEPT ![i] = new]
    BY DEF ReportReceipt, Reported
  <1>3. new \in Receipt /\ new.status = "pending" /\ receipt \in [Receipts -> Receipt]
    BY <1>1 DEF Receipt, IInv, WorldOK
  <1> HIDE DEF new
  <1>4. /\ receipt' \in [Receipts -> Receipt] /\ receipt'[i] = new
        /\ \A j \in Receipts : j # i => receipt'[j] = receipt[j]
    BY <1>2, <1>3
  <1>5. WorldOK'
    BY <1>1, <1>4 DEF IInv, WorldOK, Remote
  <1>6. \A j \in Receipts : receipt[j].status \in {"approved", "rejected"} => receipt'[j] = receipt[j]
    BY <1>2, <1>4
  <1>7. \A j \in Receipts : receipt[j].status = "pending" => receipt'[j].status = "pending"
    BY <1>2, <1>4
  <1>8. Granted => Granted'
    BY <1>1, <1>6 DEF Granted, Vouched, StripePaid, Remote
  <1> QED
    BY <1>1, <1>5, <1>7, <1>8, IdleFits, StepKeeps DEF Idle, NoRow

-----------------------------------------------------------------------------
(* The calls to EN1 *)

\* A request between two calls: it keeps the status and the plan it pays for, or activates.
LEMMA CallKeeps ==
  ASSUME IInv, NEW r \in Threads, req[r].step \in Calling, NEW m \in Request, Moves(r, m),
         UNCHANGED <<org, sub, receipt, raced>>, WorldOK', Granted => Granted',
         m.saw = req[r].saw, m.receipt = req[r].receipt, m.verdict = req[r].verdict,
         m.stale = req[r].stale, m.code = req[r].code, m.user = req[r].user, m.step \in {"pay", "ask", "repair", "commit"},
         m.step = "ask" => m.cust \in Customers, req[r].step = "boot" \/ req[r].step \in {"pay", "ask", "repair"},
         \/ m.new.status = req[r].new.status /\ m.new.plan = req[r].new.plan
         \/ m.step = "commit" /\ m.new.status = "active" /\ m.new.plan \in PlanCodes /\ Granted'
  PROVE  IInv'
  <1>1. RequestFits(req[r], sub) /\ Grounded(req[r]) /\ ReviewFits(req[r])
    BY DEF IInv
  <1>2. /\ req[r].new.status # "NONE" /\ req[r].saw.status # "NONE" /\ req[r].new.status = req[r].saw.status
        /\ Sound(req[r].new) /\ Sound(req[r].saw) /\ sub.status # "NONE"
        /\ req[r].user \in Users /\ req[r].code \in Codes
    BY <1>1 DEF RequestFits
  <1>3. Sound(m.new) /\ m.new.status # "NONE"
    BY <1>2 DEF Sound
  <1>4. RequestFits(m, sub)
    BY <1>2, <1>3 DEF RequestFits, Calling
  <1>5. m.new.status = "active" => Granted' \/ (m.receipt # 0 /\ m.verdict = "approved")
    BY <1>1 DEF Grounded
  <1>6. m.receipt # 0 => m.verdict # "none" /\ (~m.stale => receipt'[m.receipt].status = "pending")
    BY <1>1 DEF ReviewFits
  <1> QED
    BY <1>4, <1>5, <1>6, StepKeeps

LEMMA FindCustomerKeeps ==
  ASSUME IInv, NEW r \in Threads, FindCustomer(r)
  PROVE  IInv'
  <1> DEFINE q == req[r]
             known == [q EXCEPT !.step = "pay", !.cust = q.saw.customer]
             mine(c) == [q EXCEPT !.step = "pay", !.cust = c, !.new.customer = c, !.new.provider = "en1"]
             failed == [q EXCEPT !.step = "commit"]
  <1>1. /\ q.step = "boot" /\ q.step \in Calling /\ q \in Request /\ RequestFits(q, sub)
        /\ UNCHANGED <<Local, session, paid, settings, served>>
    BY DEF FindCustomer, IInv, Calling
  <1>2. q.saw \in Row /\ q.new \in Row /\ q.new.plan \in PlanCodes /\ q.user \in Users
    BY <1>1 DEF Request, RequestFits, Sound
  <1>3. RepairKey(q.new.plan, q.user) \in Keys
    BY <1>2 DEF RepairKey, Keys
  <1>4. \/ Moves(r, known) /\ UNCHANGED <<customer, bootKeys>>
        \/ \E c \in Customers : Bootstrapped(RepairKey(q.new.plan, q.user), c) /\ (Moves(r, mine(c)) \/ Moves(r, failed))
    BY DEF FindCustomer, Rebootstrap, Repaired, Fails
  <1>5. /\ known \in Request /\ known.step = "pay" /\ known.new = q.new /\ known.saw = q.saw
        /\ known.receipt = q.receipt /\ known.verdict = q.verdict /\ known.stale = q.stale
        /\ known.code = q.code /\ known.user = q.user
    BY <1>1, <1>2 DEF Request, Row
  <1>6. /\ failed \in Request /\ failed.step = "commit" /\ failed.new = q.new /\ failed.saw = q.saw
        /\ failed.receipt = q.receipt /\ failed.verdict = q.verdict /\ failed.stale = q.stale
        /\ failed.code = q.code /\ failed.user = q.user
    BY <1>1 DEF Request
  <1>7. \A c \in Customers :
          /\ mine(c) \in Request /\ mine(c).step = "pay" /\ mine(c).saw = q.saw
          /\ mine(c).receipt = q.receipt /\ mine(c).verdict = q.verdict /\ mine(c).stale = q.stale
          /\ mine(c).code = q.code /\ mine(c).user = q.user
          /\ mine(c).new.status = q.new.status /\ mine(c).new.plan = q.new.plan
    <2> TAKE c \in Customers
    <2> DEFINE row == [q.new EXCEPT !.customer = c, !.provider = "en1"]
    <2>1. row \in Row /\ row.status = q.new.status /\ row.plan = q.new.plan
      BY <1>2 DEF Row, CustomerIds
    <2>2. mine(c) = [q EXCEPT !.step = "pay", !.cust = c, !.new = row]
      BY <1>1, <1>2 DEF Request, Row
    <2> HIDE DEF row
    <2> QED
      BY <1>1, <2>1, <2>2 DEF Request, CustomerIds
  <1> HIDE DEF known, mine, failed
  <1>8. CASE Moves(r, known) /\ UNCHANGED <<customer, bootKeys>>
    <2>1. WorldOK' /\ (Granted => Granted')
      BY <1>1, <1>8, WorldStands DEF Local, Remote, IInv, WorldOK
    <2> QED
      BY <1>1, <1>5, <1>8, <2>1, CallKeeps DEF Local
  <1>9. ASSUME NEW c \in Customers, Bootstrapped(RepairKey(q.new.plan, q.user), c), Moves(r, mine(c)) \/ Moves(r, failed)
        PROVE  IInv'
    <2>1. WorldOK' /\ (Granted => Granted')
      BY <1>1, <1>3, <1>9, BootstrappedFacts DEF Local
    <2> QED
      BY <1>1, <1>6, <1>7, <1>9, <2>1, CallKeeps DEF Local
  <1> QED
    BY <1>4, <1>8, <1>9

LEMMA RepairKeeps ==
  ASSUME IInv, NEW r \in Threads, Repair(r)
  PROVE  IInv'
  <1> DEFINE q == req[r]
             mine(c) == [q EXCEPT !.step = "pay", !.cust = c, !.again = TRUE,
                                  !.new.customer = c, !.new.provider = "en1"]
             failed == [q EXCEPT !.step = "commit"]
  <1>1. /\ q.step = "repair" /\ q.step \in Calling /\ q \in Request /\ RequestFits(q, sub)
        /\ UNCHANGED <<Local, session, paid, settings, served>>
    BY DEF Repair, IInv, Calling
  <1>2. q.new \in Row /\ q.new.plan \in PlanCodes /\ q.user \in Users
    BY <1>1 DEF Request, RequestFits, Sound
  <1>3. RepairKey(q.new.plan, q.user) \in Keys
    BY <1>2 DEF RepairKey, Keys
  <1>4. \/ Moves(r, failed) /\ UNCHANGED <<customer, bootKeys>>
        \/ \E c \in Customers : Bootstrapped(RepairKey(q.new.plan, q.user), c) /\ Moves(r, mine(c))
    BY DEF Repair, Repaired, Fails
  <1>5. /\ failed \in Request /\ failed.step = "commit" /\ failed.new = q.new /\ failed.saw = q.saw
        /\ failed.receipt = q.receipt /\ failed.verdict = q.verdict /\ failed.stale = q.stale
        /\ failed.code = q.code /\ failed.user = q.user
    BY <1>1 DEF Request
  <1>6. \A c \in Customers :
          /\ mine(c) \in Request /\ mine(c).step = "pay" /\ mine(c).saw = q.saw
          /\ mine(c).receipt = q.receipt /\ mine(c).verdict = q.verdict /\ mine(c).stale = q.stale
          /\ mine(c).code = q.code /\ mine(c).user = q.user
          /\ mine(c).new.status = q.new.status /\ mine(c).new.plan = q.new.plan
    <2> TAKE c \in Customers
    <2> DEFINE row == [q.new EXCEPT !.customer = c, !.provider = "en1"]
    <2>1. row \in Row /\ row.status = q.new.status /\ row.plan = q.new.plan
      BY <1>2 DEF Row, CustomerIds
    <2>2. mine(c) = [q EXCEPT !.step = "pay", !.cust = c, !.again = TRUE, !.new = row]
      BY <1>1, <1>2 DEF Request, Row
    <2> HIDE DEF row
    <2> QED
      BY <1>1, <2>1, <2>2 DEF Request, CustomerIds
  <1> HIDE DEF mine, failed
  <1>7. CASE Moves(r, failed) /\ UNCHANGED <<customer, bootKeys>>
    <2>1. WorldOK' /\ (Granted => Granted')
      BY <1>1, <1>7, WorldStands DEF Local, Remote, IInv, WorldOK
    <2> QED
      BY <1>1, <1>5, <1>7, <2>1, CallKeeps DEF Local
  <1>8. ASSUME NEW c \in Customers, Bootstrapped(RepairKey(q.new.plan, q.user), c), Moves(r, mine(c))
        PROVE  IInv'
    <2>1. WorldOK' /\ (Granted => Granted')
      BY <1>1, <1>3, <1>8, BootstrappedFacts DEF Local
    <2> QED
      BY <1>1, <1>6, <1>8, <2>1, CallKeeps DEF Local
  <1> QED
    BY <1>4, <1>7, <1>8

\* A request that takes its next call, fails, or goes to repair its customer.
LEMMA SteppedFacts ==
  ASSUME IInv, NEW r \in Threads, NEW x \in {"ask", "commit", "repair"}
  PROVE  LET m == [req[r] EXCEPT !.step = x]
         IN  /\ m \in Request /\ m.step = x /\ m.new = req[r].new /\ m.saw = req[r].saw /\ m.cust = req[r].cust
             /\ m.receipt = req[r].receipt /\ m.verdict = req[r].verdict /\ m.stale = req[r].stale
             /\ m.code = req[r].code /\ m.user = req[r].user
  <1>1. req[r] \in Request
    BY DEF IInv
  <1> QED
    BY <1>1 DEF Request

LEMMA PayKeeps ==
  ASSUME IInv, NEW r \in Threads, Pay(r)
  PROVE  IInv'
  <1> DEFINE q == req[r]
             m(x) == [q EXCEPT !.step = x]
  <1>1. /\ q.step = "pay" /\ q.step \in Calling /\ q \in Request /\ RequestFits(q, sub)
        /\ UNCHANGED <<Local, session, bootKeys, settings, served>>
    BY DEF Pay, IInv, Calling
  <1>2. q.new.plan \in PlanCodes /\ q.code \in Codes
    BY <1>1 DEF RequestFits, Sound
  <1> DEFINE key == CheckoutKey(q.cust, q.code, q.new.plan)
  <1>3. \/ q.cust \in Customers /\ CheckedOut(key) /\ (Moves(r, m("ask")) \/ Moves(r, m("commit")))
        \/ UNCHANGED <<customer, paid>> /\ (Moves(r, m("commit")) \/ Moves(r, m("repair")))
    BY DEF Pay, Fails, Stale
  <1>4. \A x \in {"ask", "commit", "repair"} :
          /\ m(x) \in Request /\ m(x).step = x /\ m(x).new = q.new /\ m(x).saw = q.saw /\ m(x).cust = q.cust
          /\ m(x).receipt = q.receipt /\ m(x).verdict = q.verdict /\ m(x).stale = q.stale
          /\ m(x).code = q.code /\ m(x).user = q.user
    BY SteppedFacts
  <1> HIDE DEF m
  <1>5. CASE UNCHANGED <<customer, paid>> /\ (Moves(r, m("commit")) \/ Moves(r, m("repair")))
    <2>1. WorldOK' /\ (Granted => Granted')
      BY <1>1, <1>5, WorldStands DEF Local, Remote, IInv, WorldOK
    <2> QED
      BY <1>1, <1>4, <1>5, <2>1, CallKeeps DEF Local
  <1>6. CASE /\ q.cust \in Customers /\ CheckedOut(key)
             /\ Moves(r, m("ask")) \/ Moves(r, m("commit"))
    <2> DEFINE bought == [customer[q.cust] EXCEPT !.plan = q.new.plan]
    <2>1. /\ key \in [customer : Customers, code : Codes, plan : PlanCodes]
          /\ key.customer = q.cust /\ key.plan = q.new.plan
      BY <1>2, <1>6 DEF CheckoutKey
    <2>2. customer \in [Customers -> Customer]
      BY DEF IInv, WorldOK
    <2>3. bought \in Customer /\ bought.plan = q.new.plan
      BY <1>2, <1>6, <2>2 DEF Customer
    <2> HIDE DEF key
    <2>4. customer' = [customer EXCEPT ![q.cust] = bought] /\ paid' = paid \cup {key}
      BY <1>6, <2>1, <2>2 DEF CheckedOut
    <2> HIDE DEF bought
    <2>5. customer' \in [Customers -> Customer] /\ customer'[q.cust].plan = q.new.plan
      BY <1>6, <2>2, <2>3, <2>4
    <2>6. WorldOK'
      BY <1>1, <2>1, <2>4, <2>5 DEF IInv, WorldOK, Local
    <2>7. Granted'
      BY <1>2, <1>6, <2>5, PlanFacts DEF Granted, Vouched
    <2> QED
      BY <1>1, <1>4, <1>6, <2>6, <2>7, CallKeeps DEF Local
  <1> QED
    BY <1>3, <1>5, <1>6

LEMMA AskKeeps ==
  ASSUME IInv, NEW r \in Threads, Ask(r)
  PROVE  IInv'
  <1> DEFINE q == req[r]
             c == q.cust
             row == [Activated(q.new, "en1") EXCEPT !.customer = c, !.seats = TRUE, !.plan = customer[c].plan]
             bought == [q EXCEPT !.step = "commit", !.new = row]
             m(x) == [q EXCEPT !.step = x]
  <1>1. /\ q.step = "ask" /\ q.step \in Calling /\ q \in Request /\ RequestFits(q, sub)
        /\ UNCHANGED <<Local, Remote, settings, served>>
    BY DEF Ask, IInv, Calling
  <1>2. c \in Customers /\ customer[c] \in Customer /\ q.new \in Row
    BY <1>1 DEF RequestFits, IInv, WorldOK, Request
  <1>3. (Entitled(c) /\ Moves(r, bought)) \/ Moves(r, m("repair")) \/ Moves(r, m("commit"))
    BY DEF Ask, Stale, Fails
  <1>4. WorldOK' /\ (Granted => Granted')
    BY <1>1, WorldStands DEF Local, IInv, WorldOK
  <1>5. CASE Moves(r, m("repair")) \/ Moves(r, m("commit"))
    <2>1. \A x \in {"ask", "commit", "repair"} :
            /\ m(x) \in Request /\ m(x).step = x /\ m(x).new = q.new /\ m(x).saw = q.saw /\ m(x).cust = q.cust
            /\ m(x).receipt = q.receipt /\ m(x).verdict = q.verdict /\ m(x).stale = q.stale
            /\ m(x).code = q.code /\ m(x).user = q.user
      BY SteppedFacts
    <2> HIDE DEF m
    <2> QED
      BY <1>1, <1>4, <1>5, <2>1, CallKeeps DEF Local
  <1>6. CASE Entitled(c) /\ Moves(r, bought)
    <2>1. customer[c].plan \in PlanCodes
      BY <1>2, <1>6 DEF Entitled, Customer
    <2>2. row \in Row /\ row.status = "active" /\ row.plan \in PlanCodes
      BY <1>2, <2>1 DEF Activated, Row, CustomerIds
    <2> HIDE DEF row
    <2>3. /\ bought \in Request /\ bought.step = "commit" /\ bought.new = row /\ bought.saw = q.saw
          /\ bought.receipt = q.receipt /\ bought.verdict = q.verdict /\ bought.stale = q.stale
          /\ bought.code = q.code /\ bought.user = q.user
      BY <1>1, <2>2 DEF Request
    <2>4. Granted
      BY <1>2, <1>6 DEF Granted, Vouched, StripePaid, Entitled
    <2> HIDE DEF bought
    <2> QED
      BY <1>1, <1>4, <1>6, <2>2, <2>3, <2>4, CallKeeps DEF Local
  <1> QED
    BY <1>3, <1>5, <1>6

-----------------------------------------------------------------------------
(* Checkout with Stripe and without payment *)

LEMMA StartedFacts ==
  ASSUME NEW row \in Row, Sound(row), NEW p \in PlanCodes
  PROVE  LET n == Started(row, p)
         IN  /\ n \in Row /\ n.status # "NONE" /\ n.plan \in PlanCodes /\ Sound(n)
             /\ n.status = row.status \/ row.status = "NONE"
             /\ n.status = "active" => row.status = "active"
  <1>1. CASE row.status = "NONE"
    <2> DEFINE n == [NoRow EXCEPT !.status = "pending", !.plan = p]
    <2>1. n \in Row /\ n.status = "pending" /\ n.plan = p
      BY NoRowFacts DEF Row
    <2>2. Started(row, p) = n
      BY <1>1 DEF Started
    <2> HIDE DEF n
    <2> QED
      BY <1>1, <2>1, <2>2 DEF Sound
  <1>2. CASE row.status # "NONE"
    <2> DEFINE status == IF row.status = "active" THEN row.status ELSE "pending"
               n == [row EXCEPT !.plan = p, !.status = status]
    <2>1. status = row.status /\ status # "NONE"
      BY <1>2 DEF Row
    <2>2. Started(row, p) = n
      BY <1>2 DEF Started
    <2> HIDE DEF status
    <2>3. n \in Row /\ n.status = row.status /\ n.plan = p
      BY <2>1 DEF Row
    <2> HIDE DEF n
    <2> QED
      BY <1>2, <2>2, <2>3 DEF Sound
  <1> QED
    BY <1>1, <1>2

LEMMA ActivatedFacts ==
  ASSUME NEW row \in Row, row.plan \in PlanCodes, NEW provider \in {"piloto", "en1", "stripe", "bank_manual"}
  PROVE  LET n == Activated(row, provider)
         IN  n \in Row /\ n.status = "active" /\ n.plan = row.plan /\ Sound(n)
  BY DEF Activated, Row, Sound

\* A request that is to commit row n begins, over what it reads.
Committing(n, receiptId, verdict) ==
  [Idle EXCEPT !.step = "commit", !.saw = sub, !.new = n, !.receipt = receiptId, !.verdict = verdict]

LEMMA CommittingFits ==
  ASSUME IInv, NEW n \in Row, Sound(n), NEW i \in Receipts \cup {0},
         NEW v \in {"none", "approved", "rejected"}, i # 0 => v # "none",
         n.status = "NONE" => n = sub, n.status \in {sub.status, "active"} \/ sub.status = "NONE"
  PROVE  LET m == Committing(n, i, v)
         IN  /\ m \in Request /\ RequestFits(m, sub) /\ m.new = n /\ m.receipt = i /\ m.verdict = v
             /\ m.saw = sub /\ m.step = "commit" /\ ~m.stale
  <1>1. sub \in Row /\ Sound(sub)
    BY DEF IInv
  <1> DEFINE m == Committing(n, i, v)
  <1>2. /\ m \in Request /\ m.new = n /\ m.receipt = i /\ m.verdict = v
        /\ m.saw = sub /\ m.step = "commit" /\ ~m.stale
    BY <1>1, IdleFits DEF Committing, Idle, Request
  <1> HIDE DEF m
  <1>3. RequestFits(m, sub)
    BY <1>1, <1>2 DEF RequestFits, Calling
  <1> QED
    BY <1>2, <1>3 DEF m

LEMMA BeginsCommitting ==
  ASSUME NEW r \in Threads, NEW n \in Row
  PROVE  /\ Begin(r, [Idle EXCEPT !.step = "commit", !.new = n]) => Moves(r, Committing(n, 0, "none"))
         /\ \A i, v : Begin(r, [Idle EXCEPT !.step = "commit", !.new = n, !.receipt = i, !.verdict = v])
              => Moves(r, Committing(n, i, v))
  <1>1. [[Idle EXCEPT !.step = "commit", !.new = n] EXCEPT !.saw = sub] = Committing(n, 0, "none")
    <2> DEFINE f == [Idle EXCEPT !.step = "commit", !.new = n]
               g == [Idle EXCEPT !.step = "commit", !.new = n, !.receipt = 0, !.verdict = "none"]
    <2>1. Idle \in Request /\ Idle.receipt = 0 /\ Idle.verdict = "none"
      BY IdleFits DEF Idle
    <2>2. f \in Request /\ g \in Request /\ f = g
      BY <2>1 DEF Request
    <2>3. Committing(n, 0, "none") = [g EXCEPT !.saw = sub]
      BY DEF Committing, Idle
    <2> QED
      BY <2>2, <2>3
  <1>2. ASSUME NEW i, NEW v
        PROVE  [[Idle EXCEPT !.step = "commit", !.new = n, !.receipt = i, !.verdict = v] EXCEPT !.saw = sub]
                 = Committing(n, i, v)
    BY DEF Idle, Committing
  <1> QED
    BY <1>1, <1>2 DEF Begin

\* Such a request begins, on good ground.
LEMMA CommittingKeeps ==
  ASSUME IInv, NEW r \in Threads, NEW n \in Row, Sound(n), NEW i \in Receipts \cup {0},
         NEW v \in {"none", "approved", "rejected"}, i # 0 => v # "none" /\ receipt[i].status = "pending",
         n.status = "NONE" => n = sub, n.status \in {sub.status, "active"} \/ sub.status = "NONE",
         n.status = "active" => Granted' \/ (i # 0 /\ v = "approved"), Granted => Granted', WorldOK',
         Moves(r, Committing(n, i, v)), UNCHANGED <<org, sub, receipt, raced>>
  PROVE  IInv'
  <1> DEFINE m == Committing(n, i, v)
  <1>1. m \in Request /\ RequestFits(m, sub) /\ m.new = n /\ m.receipt = i /\ m.verdict = v
    BY CommittingFits
  <1>2. Moves(r, m)
    OBVIOUS
  <1> HIDE DEF m
  <1> QED
    BY <1>1, <1>2, StepKeeps

\* Stripe opens a session.
LEMMA OpenedFacts ==
  ASSUME IInv, NEW s \in Sessions, NEW p \in PlanCodes, NEW kind \in {"saas", "channel"},
         Opened(s, p, kind), UNCHANGED <<Local, customer, bootKeys, paid>>,
         served' \in 0 .. MaxRequests, settings' \in [en1 : BOOLEAN, stripe : BOOLEAN]
  PROVE  WorldOK' /\ (Granted => Granted')
  <1> DEFINE opened == [state |-> "open", plan |-> p, kind |-> kind]
  <1>1. /\ opened \in Session /\ opened.state = "open" /\ opened.plan \in PlanCodes
        /\ session \in [Sessions -> Session]
    BY DEF Session, IInv, WorldOK
  <1>2. session[s].state = "none" /\ session' = [session EXCEPT ![s] = opened]
    BY DEF Opened
  <1> HIDE DEF opened
  <1>3. /\ session' \in [Sessions -> Session] /\ session'[s] = opened
        /\ \A t \in Sessions : t # s => session'[t] = session[t]
    BY <1>1, <1>2
  <1>4. WorldOK'
    BY <1>1, <1>3 DEF IInv, WorldOK, Local
  <1>5. StripePaid => StripePaid'
    BY <1>2, <1>3 DEF StripePaid
  <1>6. Granted => Granted'
    BY <1>5 DEF Granted, Vouched, Local
  <1> QED
    BY <1>4, <1>6

LEMMA StripeCheckoutKeeps ==
  ASSUME IInv, NEW r \in Threads, StripeCheckout(r)
  PROVE  IInv'
  <1>1. PICK p \in Plans, s \in Sessions :
          /\ Begin(r, [Idle EXCEPT !.step = "commit", !.new = Started(sub, p)])
          /\ Opened(s, p, "saas")
          /\ UNCHANGED <<Local, customer, bootKeys, paid>>
    BY DEF StripeCheckout
  <1>2. p \in PlanCodes
    BY DEF PlanCodes
  <1> DEFINE n == Started(sub, p)
  <1>3. /\ n \in Row /\ n.status # "NONE" /\ Sound(n)
        /\ n.status = sub.status \/ sub.status = "NONE"
        /\ n.status = "active" => Granted
    BY <1>2, StartedFacts DEF IInv
  <1>4. Moves(r, Committing(n, 0, "none"))
    BY <1>1, <1>3, BeginsCommitting
  <1> HIDE DEF n
  <1>5. served' \in 0 .. MaxRequests /\ settings' = settings
    BY <1>1, ServedMore
  <1>6. WorldOK' /\ (Granted => Granted')
    BY <1>1, <1>5, <1>2, OpenedFacts DEF Local, IInv, WorldOK
  <1> QED
    BY <1>1, <1>3, <1>4, <1>6, CommittingKeeps DEF Local

LEMMA PilotCheckoutKeeps ==
  ASSUME IInv, NEW r \in Threads, PilotCheckout(r)
  PROVE  IInv'
  <1>1. PICK p \in Plans :
          /\ Begin(r, [Idle EXCEPT !.step = "commit", !.new = Activated(Started(sub, p), "piloto")])
          /\ pilot' = TRUE /\ UNCHANGED <<org, sub, receipt, raced, borrowed, Remote>>
    BY DEF PilotCheckout
  <1>2. p \in PlanCodes
    BY DEF PlanCodes
  <1> DEFINE n == Activated(Started(sub, p), "piloto")
  <1>3. n \in Row /\ n.status = "active" /\ Sound(n)
    BY <1>2, StartedFacts, ActivatedFacts DEF IInv
  <1>4. Moves(r, Committing(n, 0, "none"))
    BY <1>1, <1>3, BeginsCommitting
  <1> HIDE DEF n
  <1>5. served' \in 0 .. MaxRequests /\ settings' = settings
    BY <1>1, ServedMore
  <1>6. WorldOK'
    BY <1>1, <1>5 DEF IInv, WorldOK, Remote
  <1>7. Granted'
    BY <1>1 DEF Granted, Vouched, StripePaid
  <1> QED
    BY <1>1, <1>3, <1>4, <1>6, <1>7, CommittingKeeps

LEMMA ConfirmStripeKeeps ==
  ASSUME IInv, NEW r \in Threads, NEW s \in Sessions, ConfirmStripe(r, s)
  PROVE  IInv'
  <1> DEFINE n == FromSession(s)
             a == Activated(Started(sub, session[s].plan), "stripe")
  <1>1. /\ session[s].state = "complete" /\ session[s] \in Session
        /\ Begin(r, [Idle EXCEPT !.step = "commit", !.new = n])
        /\ borrowed' = (borrowed \/ session[s].kind = "channel")
        /\ UNCHANGED <<org, sub, receipt, pilot, raced, Remote>>
    BY DEF ConfirmStripe, PaidSession, IInv, WorldOK
  <1>2. session[s].plan \in PlanCodes /\ session[s].kind \in {"saas", "channel"}
    BY <1>1 DEF Session, IInv, WorldOK
  <1>3. a \in Row /\ a.status = "active" /\ a.plan \in PlanCodes
    BY <1>2, StartedFacts, ActivatedFacts DEF IInv
  <1>4. \/ n = [a EXCEPT !.customer = Foreign]
        \/ n = [a EXCEPT !.customer = @]
    BY DEF FromSession
  <1> HIDE DEF a
  <1>5. n \in Row /\ n.status = "active" /\ Sound(n)
    BY <1>3, <1>4 DEF Row, CustomerIds, Sound
  <1>6. Moves(r, Committing(n, 0, "none"))
    BY <1>1, <1>5, BeginsCommitting
  <1> HIDE DEF n
  <1>7. served' \in 0 .. MaxRequests /\ settings' \in [en1 : BOOLEAN, stripe : BOOLEAN]
    BY <1>1, ServedMore DEF IInv, WorldOK
  <1>8. borrowed' \in BOOLEAN /\ (borrowed => borrowed')
    BY <1>1 DEF IInv, WorldOK
  <1>9. WorldOK'
    BY <1>1, <1>7, <1>8 DEF IInv, WorldOK, Remote
  <1>10. Granted'
    <2>1. CASE session[s].kind = "saas"
      BY <1>1, <2>1 DEF Granted, Vouched, StripePaid, Remote
    <2>2. CASE session[s].kind = "channel"
      BY <1>1, <2>2 DEF Granted
    <2> QED
      BY <1>2, <2>1, <2>2
  <1> QED
    BY <1>1, <1>5, <1>6, <1>9, <1>10, CommittingKeeps

-----------------------------------------------------------------------------
(* The tray of receipts *)

LEMMA ApproveKeeps ==
  ASSUME IInv, NEW r \in Threads, ApproveReceipt(r)
  PROVE  IInv'
  <1>1. PICK i \in Receipts :
          /\ Reviewable(i) /\ sub.status # "NONE"
          /\ Begin(r, [Idle EXCEPT !.step = "commit", !.new = Activated(sub, "bank_manual"),
                                   !.receipt = i, !.verdict = "approved"])
          /\ UNCHANGED <<Local, Remote>>
    BY DEF ApproveReceipt
  <1> DEFINE n == Activated(sub, "bank_manual")
  <1>2. n \in Row /\ n.status = "active" /\ Sound(n)
    BY <1>1, ActivatedFacts DEF IInv, Sound
  <1>3. Moves(r, Committing(n, i, "approved"))
    BY <1>1, <1>2, BeginsCommitting
  <1> HIDE DEF n
  <1>4. i # 0 /\ receipt[i].status = "pending"
    BY <1>1 DEF Reviewable, Receipts
  <1>5. served' \in 0 .. MaxRequests /\ settings' \in [en1 : BOOLEAN, stripe : BOOLEAN]
    BY <1>1, ServedMore DEF IInv, WorldOK
  <1>6. WorldOK' /\ (Granted => Granted')
    BY <1>1, <1>5, WorldStands DEF Local
  <1> QED
    BY <1>1, <1>2, <1>3, <1>4, <1>6, CommittingKeeps DEF Local

LEMMA RejectKeeps ==
  ASSUME IInv, NEW r \in Threads, RejectReceipt(r)
  PROVE  IInv'
  <1>1. PICK i \in Receipts :
          /\ Reviewable(i)
          /\ Begin(r, [Idle EXCEPT !.step = "commit", !.new = sub, !.receipt = i, !.verdict = "rejected"])
          /\ UNCHANGED <<Local, Remote>>
    BY DEF RejectReceipt
  <1>2. sub \in Row /\ Sound(sub) /\ (sub.status = "active" => Granted)
    BY DEF IInv
  <1>3. Moves(r, Committing(sub, i, "rejected"))
    BY <1>1, <1>2, BeginsCommitting
  <1>4. i # 0 /\ receipt[i].status = "pending"
    BY <1>1 DEF Reviewable, Receipts
  <1>5. served' \in 0 .. MaxRequests /\ settings' \in [en1 : BOOLEAN, stripe : BOOLEAN]
    BY <1>1, ServedMore DEF IInv, WorldOK
  <1>6. WorldOK' /\ (Granted => Granted')
    BY <1>1, <1>5, WorldStands DEF Local
  <1> QED
    BY <1>1, <1>2, <1>3, <1>4, <1>6, CommittingKeeps DEF Local

-----------------------------------------------------------------------------
(* Committing *)

\* What a commit does to the row and the receipts.
LEMMA CommitWrites ==
  ASSUME IInv, NEW r \in Threads, Commit(r)
  PROVE  /\ sub' \in Row /\ Sound(sub') /\ (sub.status # "NONE" => sub'.status # "NONE")
         /\ sub'.status # "NONE" => org'
         /\ sub.status = "active" => sub'.status = "active"
         /\ sub'.status = "active" => sub.status = "active" \/ req[r].new.status = "active"
         /\ receipt' \in [Receipts -> Receipt]
         /\ \A i \in Receipts : i # req[r].receipt => receipt'[i] = receipt[i]
         /\ req[r].receipt # 0 => /\ req[r].receipt \in Receipts
                                  /\ receipt'[req[r].receipt].status = req[r].verdict
                                  /\ receipt'[req[r].receipt].status \in {"approved", "rejected"}
                                  /\ req[r].stale \/ receipt[req[r].receipt].status = "pending"
  <1> DEFINE q == req[r]
  <1>1. /\ q \in Request /\ RequestFits(q, sub) /\ ReviewFits(q) /\ sub \in Row /\ Sound(sub)
        /\ receipt \in [Receipts -> Receipt] /\ (sub.status # "NONE" => org) /\ org \in BOOLEAN
    BY DEF IInv, WorldOK
  <1>2. /\ ~(q.saw.status = "NONE" /\ sub.status # "NONE" /\ q.new.status # "NONE")
        /\ sub' = Merge(sub, q.saw, q.new) /\ org' = (org \/ q.new.status # "NONE")
        /\ receipt' = IF q.receipt # 0 THEN [receipt EXCEPT ![q.receipt].status = q.verdict] ELSE receipt
    BY DEF Commit, Reviews
  <1> HIDE DEF q
  <1>3. /\ q.saw \in Row /\ q.new \in Row /\ Sound(q.saw) /\ Sound(q.new)
        /\ q.saw.status # "NONE" => sub.status # "NONE"
        /\ q.new.status = "NONE" => q.new = q.saw
        /\ q.new.status \in {q.saw.status, "active"} \/ q.saw.status = "NONE"
    BY <1>1 DEF Request, RequestFits
  <1>4. /\ sub' \in Row /\ Sound(sub') /\ (sub.status # "NONE" => sub'.status # "NONE")
        /\ sub'.status = IF q.new.status = q.saw.status THEN sub.status ELSE q.new.status
        /\ sub'.status # "NONE" => sub.status # "NONE" \/ q.new.status # "NONE"
    BY <1>1, <1>2, <1>3, MergeFacts
  <1>5. sub.status = "active" => sub'.status = "active"
    BY <1>2, <1>3, <1>4
  <1>6. CASE q.receipt = 0
    BY <1>1, <1>2, <1>4, <1>5, <1>6 DEF q
  <1>7. CASE q.receipt # 0
    <2>1. q.receipt \in Receipts /\ q.verdict \in {"approved", "rejected"}
      BY <1>1, <1>7 DEF Request, ReviewFits
    <2> DEFINE new == [receipt[q.receipt] EXCEPT !.status = q.verdict]
    <2>2. new \in Receipt /\ new.status = q.verdict
      BY <1>1, <2>1 DEF Receipt
    <2>3. receipt' = [receipt EXCEPT ![q.receipt] = new]
      BY <1>2, <1>7
    <2> HIDE DEF new
    <2>4. /\ receipt' \in [Receipts -> Receipt] /\ receipt'[q.receipt] = new
          /\ \A i \in Receipts : i # q.receipt => receipt'[i] = receipt[i]
      BY <1>1, <2>1, <2>2, <2>3
    <2>5. q.stale \/ receipt[q.receipt].status = "pending"
      BY <1>1, <1>7 DEF ReviewFits
    <2> QED
      BY <1>1, <1>2, <1>4, <1>5, <2>1, <2>2, <2>4, <2>5 DEF q
  <1> QED
    BY <1>6, <1>7

LEMMA CommitKeeps ==
  ASSUME IInv, NEW r \in Threads, Commit(r)
  PROVE  IInv'
  <1>1. /\ raced' = (raced \/ req[r].stale) /\ req' = Outdated(r)
        /\ UNCHANGED <<pilot, borrowed, Remote, settings, served>> /\ org' \in BOOLEAN
        /\ req[r] \in Request /\ raced \in BOOLEAN /\ Grounded(req[r])
    BY DEF Commit, IInv
  <1>2. raced' \in BOOLEAN /\ req[r].stale \in BOOLEAN
    BY <1>1 DEF Request
  <1>3. WorldOK'
    BY <1>1, CommitWrites DEF IInv, WorldOK, Remote
  <1>4. Granted => Granted'
    <2> SUFFICES ASSUME Granted PROVE Granted'
      OBVIOUS
    <2>1. CASE \E c \in Customers : customer[c].plan # NoPlan
      BY <1>1, <2>1 DEF Granted, Vouched, StripePaid, Remote
    <2>2. CASE StripePaid
      BY <1>1, <2>2 DEF Granted, Vouched, StripePaid, Remote
    <2>3. CASE \E i \in Receipts : receipt[i].status = "approved" \/ (raced /\ receipt[i].status = "rejected")
      <3>1. PICK i \in Receipts : receipt[i].status = "approved" \/ (raced /\ receipt[i].status = "rejected")
        BY <2>3
      <3>2. CASE i # req[r].receipt
        <4>1. receipt'[i] = receipt[i] /\ (raced => raced')
          BY <1>1, <3>2, CommitWrites
        <4> QED
          BY <3>1, <4>1 DEF Granted, Vouched, StripePaid
      <3>3. CASE i = req[r].receipt
        <4>1. i # 0
          BY DEF Receipts
        <4>2. receipt'[i].status \in {"approved", "rejected"} /\ raced'
          BY <1>1, <3>1, <3>3, <4>1, CommitWrites
        <4> QED
          BY <4>2 DEF Granted, Vouched, StripePaid
      <3> QED
        BY <3>2, <3>3
    <2>4. CASE pilot \/ borrowed
      BY <1>1, <2>4 DEF Granted, Vouched, StripePaid
    <2> QED
      BY <2>1, <2>2, <2>3, <2>4 DEF Granted, Vouched, StripePaid
  <1>5. sub'.status = "active" => Granted'
    <2>1. CASE sub.status = "active"
      BY <1>4, <2>1 DEF IInv
    <2>2. CASE req[r].new.status = "active"
      <3>1. CASE Granted
        BY <1>4, <3>1
      <3>2. CASE req[r].receipt # 0 /\ req[r].verdict = "approved"
        BY <3>2, CommitWrites DEF Granted, Vouched, StripePaid
      <3> QED
        BY <1>1, <2>2, <3>1, <3>2 DEF Grounded
    <2> QED
      BY <2>1, <2>2, CommitWrites
  <1>6. req'[r] = Idle
    BY <1>1 DEF Outdated
  <1>7. ASSUME NEW o \in Threads, o # r
        PROVE  /\ req'[o] \in Request /\ RequestFits(req'[o], sub')
               /\ req'[o].new.status = "active" => Granted' \/ (req'[o].receipt # 0 /\ req'[o].verdict = "approved")
               /\ req'[o].receipt # 0 =>
                    req'[o].verdict # "none" /\ (~req'[o].stale => receipt'[req'[o].receipt].status = "pending")
    <2> DEFINE p == req[o]
               b == p.stale \/ (req[r].receipt # 0 /\ p.receipt = req[r].receipt)
               m == [p EXCEPT !.stale = b]
    <2>1. p \in Request /\ RequestFits(p, sub) /\ Grounded(p) /\ ReviewFits(p)
      BY DEF IInv
    <2>2. req'[o] = m
      BY <1>1, <1>7 DEF Outdated, Reviews
    <2>3. b \in BOOLEAN
      BY <2>1 DEF Request
    <2>4. b \/ (~p.stale /\ (p.receipt # 0 => p.receipt # req[r].receipt))
      BY <2>1 DEF Request
    <2> HIDE DEF b
    <2>5. /\ m \in Request /\ m.step = p.step /\ m.plan = p.plan /\ m.saw = p.saw /\ m.new = p.new
          /\ m.cust = p.cust /\ m.receipt = p.receipt /\ m.verdict = p.verdict /\ m.stale = b
          /\ m.code = p.code /\ m.user = p.user
      BY <2>1, <2>3 DEF Request
    <2> HIDE DEF m, p
    <2>6. RequestFits(m, sub')
      BY <2>1, <2>5, CommitWrites DEF RequestFits
    <2>7. m.new.status = "active" => Granted' \/ (m.receipt # 0 /\ m.verdict = "approved")
      BY <1>4, <2>1, <2>5 DEF Grounded
    <2>8. m.receipt # 0 => m.verdict # "none" /\ (~m.stale => receipt'[m.receipt].status = "pending")
      <3>1. p.receipt \in Receipts \cup {0}
        BY <2>1 DEF Request
      <3>2. p.receipt # 0 /\ p.receipt # req[r].receipt => receipt'[p.receipt] = receipt[p.receipt]
        BY <3>1, CommitWrites
      <3> QED
        BY <2>1, <2>4, <2>5, <3>2 DEF ReviewFits
    <2> QED
      BY <2>2, <2>5, <2>6, <2>7, <2>8
  <1>8. \A o \in Threads :
          /\ req'[o] \in Request /\ RequestFits(req'[o], sub')
          /\ req'[o].new.status = "active" => Granted' \/ (req'[o].receipt # 0 /\ req'[o].verdict = "approved")
          /\ req'[o].receipt # 0 =>
               req'[o].verdict # "none" /\ (~req'[o].stale => receipt'[req'[o].receipt].status = "pending")
    <2>1. /\ Idle \in Request /\ RequestFits(Idle, sub') /\ Idle.receipt = 0 /\ Idle.new.status # "active"
      BY IdleFits, NoRowFacts DEF Idle
    <2> QED
      BY <1>6, <1>7, <2>1
  <1>9. req' \in [Threads -> Request]
    BY <1>1, <1>8 DEF Outdated
  <1>10. (\A o \in Threads : RequestFits(req[o], sub) /\ Grounded(req[o]) /\ ReviewFits(req[o]))'
    BY <1>8 DEF Grounded, ReviewFits
  <1>11. (sub.status = "active" => Granted)'
    BY <1>5
  <1> QED
    BY <1>1, <1>2, <1>3, <1>9, <1>10, <1>11, CommitWrites DEF IInv

\* The row was inserted by another request.
LEMMA ConflictKeeps ==
  ASSUME IInv, NEW r \in Threads, Conflict(r)
  PROVE  IInv'
  <1>1. Moves(r, Idle) /\ UNCHANGED <<Local, Remote, settings, served>>
    BY DEF Conflict
  <1>2. /\ WorldOK' /\ (Granted => Granted')
        /\ \A i \in Receipts : receipt[i].status = "pending" => receipt'[i].status = "pending"
    BY <1>1, WorldStands DEF Local, IInv, WorldOK
  <1>3. Idle.receipt = 0 /\ Idle.new.status = "NONE"
    BY NoRowFacts DEF Idle
  <1> QED
    BY <1>1, <1>2, <1>3, IdleFits, StepKeeps DEF Local

-----------------------------------------------------------------------------
(* What happens outside the requests *)

LEMMA OutsideKeeps ==
  ASSUME IInv, UNCHANGED <<org, sub, receipt, raced, req>>, WorldOK', Granted => Granted'
  PROVE  IInv'
  <1>1. \A r \in Threads : RequestFits(req'[r], sub)
    BY DEF IInv
  <1>2. \A r \in Threads : Grounded(req[r]) => Grounded(req[r])'
    BY DEF Grounded
  <1>3. \A r \in Threads : ReviewFits(req[r]) => ReviewFits(req[r])'
    BY DEF ReviewFits
  <1>4. (\A r \in Threads : RequestFits(req[r], sub) /\ Grounded(req[r]) /\ ReviewFits(req[r]))'
    BY <1>1, <1>2, <1>3 DEF IInv
  <1> QED
    BY <1>4 DEF IInv

LEMMA DeleteCustomerKeeps ==
  ASSUME IInv, DeleteCustomer
  PROVE  IInv'
  <1>1. PICK c \in Customers :
          /\ customer' = [customer EXCEPT ![c].state = "deleted"]
          /\ UNCHANGED <<Local, session, bootKeys, paid, settings, req, served>>
    BY DEF DeleteCustomer
  <1>2. customer \in [Customers -> Customer]
    BY DEF IInv, WorldOK
  <1>3. /\ customer' \in [Customers -> Customer]
        /\ \A d \in Customers : customer'[d].plan = customer[d].plan
    BY <1>1, <1>2 DEF Customer
  <1>4. WorldOK'
    BY <1>1, <1>3 DEF IInv, WorldOK, Local
  <1>5. Granted => Granted'
    BY <1>1, <1>3 DEF Granted, Vouched, StripePaid, Local
  <1> QED
    BY <1>1, <1>4, <1>5, OutsideKeeps DEF Local

LEMMA TravellerCheckoutKeeps ==
  ASSUME IInv, TravellerCheckout
  PROVE  IInv'
  <1>1. PICK s \in Sessions :
          /\ Opened(s, DefaultPlan, "channel")
          /\ UNCHANGED <<Local, customer, bootKeys, paid, settings, req, served>>
    BY DEF TravellerCheckout
  <1>2. /\ DefaultPlan \in PlanCodes /\ served' \in 0 .. MaxRequests
        /\ settings' \in [en1 : BOOLEAN, stripe : BOOLEAN]
    BY <1>1 DEF PlanCodes, IInv, WorldOK
  <1>3. WorldOK' /\ (Granted => Granted')
    BY <1>1, <1>2, OpenedFacts
  <1> QED
    BY <1>1, <1>3, OutsideKeeps DEF Local

LEMMA StripePaysKeeps ==
  ASSUME IInv, StripePays
  PROVE  IInv'
  <1>1. PICK s \in Sessions :
          /\ session[s].state = "open" /\ session' = [session EXCEPT ![s].state = "complete"]
          /\ UNCHANGED <<Local, customer, bootKeys, paid, settings, req, served>>
    BY DEF StripePays
  <1>2. session \in [Sessions -> Session]
    BY DEF IInv, WorldOK
  <1>3. /\ session' \in [Sessions -> Session] /\ session'[s].state = "complete"
        /\ \A t \in Sessions : session'[t].plan = session[t].plan /\ session'[t].kind = session[t].kind
        /\ \A t \in Sessions : t # s => session'[t] = session[t]
    BY <1>1, <1>2 DEF Session
  <1>4. \A t \in Sessions : session'[t].state # "none" => session'[t].plan \in PlanCodes
    BY <1>1, <1>3 DEF IInv, WorldOK
  <1>5. WorldOK'
    BY <1>1, <1>3, <1>4 DEF IInv, WorldOK, Local
  <1>6. Granted => Granted'
    <2>1. StripePaid => StripePaid'
      BY <1>1, <1>3 DEF StripePaid
    <2> QED
      BY <1>1, <2>1 DEF Granted, Vouched, Local
  <1> QED
    BY <1>1, <1>5, <1>6, OutsideKeeps DEF Local

LEMMA MaintainKeeps ==
  ASSUME IInv, Maintain
  PROVE  IInv'
  <1>1. /\ served < MaxRequests /\ served' = served + 1 /\ UNCHANGED <<Local, Remote, req>>
        /\ settings' \in [en1 : BOOLEAN, stripe : BOOLEAN]
    BY DEF Maintain
  <1>2. served \in 0 .. MaxRequests
    BY DEF IInv, WorldOK
  <1>3. served' \in 0 .. MaxRequests
    BY <1>1, <1>2, SubscriptionAssumption
  <1>4. WorldOK' /\ (Granted => Granted')
    BY <1>1, <1>3, WorldStands DEF Local
  <1> QED
    BY <1>1, <1>4, OutsideKeeps DEF Local

-----------------------------------------------------------------------------
(* Every step *)

LEMMA StepIInv == IInv /\ [Next]_vars => IInv'
  <1> SUFFICES ASSUME IInv, [Next]_vars PROVE IInv'
    OBVIOUS
  <1>1. CASE UNCHANGED vars
    <2>1. WorldOK' /\ (Granted => Granted')
      BY <1>1, WorldStands DEF vars, Remote, IInv, WorldOK
    <2> QED
      BY <1>1, <2>1, OutsideKeeps DEF vars
  <1>2. ASSUME NEW r \in Threads,
               \/ Register(r) \/ InsertAccount(r) \/ Enrol(r)
               \/ CheckoutPage(r) \/ CheckoutPost(r) \/ SyncPlan(r) \/ ReportReceipt(r)
        PROVE  IInv'
    BY <1>2, RegisterKeeps, InsertAccountKeeps, EnrolKeeps, CheckoutPageKeeps, CheckoutPostKeeps,
       SyncPlanKeeps, ReportReceiptKeeps
  <1>3. ASSUME NEW r \in Threads,
               \/ FindCustomer(r) \/ Repair(r) \/ Pay(r) \/ Ask(r)
        PROVE  IInv'
    BY <1>3, FindCustomerKeeps, RepairKeeps, PayKeeps, AskKeeps
  <1>4. ASSUME NEW r \in Threads,
               \/ StripeCheckout(r) \/ PilotCheckout(r) \/ CheckoutSuccess(r) \/ StripeWebhook(r)
               \/ ApproveReceipt(r) \/ RejectReceipt(r) \/ Commit(r) \/ Conflict(r)
        PROVE  IInv'
    <2>1. CheckoutSuccess(r) \/ StripeWebhook(r) => \E s \in Sessions : ConfirmStripe(r, s)
      BY DEF CheckoutSuccess, StripeWebhook
    <2> QED
      BY <1>4, <2>1, StripeCheckoutKeeps, PilotCheckoutKeeps, ConfirmStripeKeeps, ApproveKeeps,
         RejectKeeps, CommitKeeps, ConflictKeeps
  <1>5. CASE DeleteCustomer \/ TravellerCheckout \/ StripePays \/ Maintain
    BY <1>5, DeleteCustomerKeeps, TravellerCheckoutKeeps, StripePaysKeeps, MaintainKeeps
  <1> QED
    BY <1>1, <1>2, <1>3, <1>4, <1>5 DEF Next

LEMMA AlwaysIInv == Spec => []IInv
  BY InitIInv, StepIInv, PTL DEF Spec

-----------------------------------------------------------------------------
(* Which customers a checkout may use *)

KnownIn(cs, id) == id \in Customers => cs[id].state # "none"
Known(id) == KnownIn(customer, id)
Live(id) == id \in Customers /\ customer[id].state = "live"
RepairMade(id) == \E k \in Repairs : k[2] = id

InCall == {"pay", "ask", "repair"}

\* The customer ids that a request over an existing row may still use or write.
UsedBy(q, n) ==
  /\ q.saw.status # "NONE"
  /\ n = q.saw.customer \/ n = q.new.customer \/ (q.step \in InCall /\ n = q.cust)

Used(n) ==
  \/ sub.status # "NONE" /\ n = sub.customer
  \/ \E a \in paid : n = a.customer
  \/ \E r \in Threads : UsedBy(req[r], n)

\* A request knows its customers (cs), and repairs only one that EN1 has deleted; only
\* Stripe gives ids of another kind.
RequestPays(q, cs, stripe) ==
  /\ KnownIn(cs, q.saw.customer) /\ KnownIn(cs, q.new.customer) /\ KnownIn(cs, q.cust)
  /\ q.step \in InCall => q.cust # NoCustomer
  /\ q.step = "repair" /\ q.cust \in Customers => cs[q.cust].state = "deleted"
  /\ ~stripe => q.saw.customer # Foreign /\ q.new.customer # Foreign /\ q.cust # Foreign

RequestsPay == \A r \in Threads : RequestPays(req[r], customer, StripePaid)

\* EN1's answer to a key, and the customer it names, stand.
KeysOK ==
  /\ \A j, k \in bootKeys : j[1] = k[1] => j[2] = k[2]
  /\ \A k \in bootKeys : Known(k[2])

\* A live customer in use beside another was made by a repair: a second customer enters
\* by a repair only, after the first was found missing or deleted.
OthersRepaired ==
  ~StripePaid => \A m, n : Used(m) /\ Used(n) /\ m # n /\ Live(m) => RepairMade(m)

PInv ==
  /\ Known(sub.customer) /\ (~StripePaid => sub.customer # Foreign)
  /\ \A a \in paid : Known(a.customer)
  /\ paid # {} => sub.status # "NONE"
  /\ KeysOK /\ OthersRepaired
  /\ RequestsPay

LEMMA KnownNobody == Known(NoCustomer) /\ Known(Foreign) /\ ~Live(NoCustomer)
  BY DEF Known, KnownIn, Live, NoCustomer, Foreign, Customers

LEMMA IdlePays ==
  ASSUME NEW cs, NEW stripe \in BOOLEAN
  PROVE  RequestPays(Idle, cs, stripe) /\ \A n : ~UsedBy(Idle, n)
  <1>1. /\ Idle.saw.customer = NoCustomer /\ Idle.new.customer = NoCustomer /\ Idle.cust = NoCustomer
        /\ Idle.step = "idle" /\ Idle.saw.status = "NONE" /\ NoCustomer # Foreign
    BY DEF Idle, NoRow, NoCustomer, Foreign
  <1> QED
    BY <1>1 DEF RequestPays, UsedBy, InCall, KnownIn, NoCustomer, Customers

LEMMA InitPInv == Init => PInv
  <1> SUFFICES ASSUME Init PROVE PInv
    OBVIOUS
  <1>1. sub = NoRow /\ paid = {} /\ bootKeys = {} /\ \A r \in Threads : req[r] = Idle
    BY DEF Init
  <1>2. sub.status = "NONE" /\ sub.customer = NoCustomer /\ NoCustomer # Foreign
    BY <1>1 DEF NoRow, NoCustomer, Foreign
  <1>3. StripePaid \in BOOLEAN
    BY DEF StripePaid
  <1>4. RequestsPay /\ \A n : ~Used(n)
    BY <1>1, <1>2, <1>3, IdlePays DEF Used, RequestsPay
  <1> QED
    BY <1>1, <1>2, <1>4, KnownNobody DEF PInv, KeysOK, OthersRepaired

LEMMA UsedIsKnown ==
  ASSUME PInv, NEW n, Used(n)
  PROVE  Known(n)
  BY DEF PInv, Used, UsedBy, RequestsPay, RequestPays, Known

\* The customers EN1 has never come back to life and the facts about them last.
Aged ==
  /\ \A c \in Customers : customer[c].state # "none" =>
       customer'[c].state # "none" /\ (customer'[c].state = "live" => customer[c].state = "live")
  /\ bootKeys \subseteq bootKeys' /\ KeysOK'
  /\ StripePaid => StripePaid'

LEMMA AgedFacts ==
  ASSUME IInv, IInv', Aged
  PROVE  /\ \A id : Known(id) => Known(id)'
         /\ \A id : Known(id) /\ Live(id)' => Live(id)
         /\ \A id : RepairMade(id) => RepairMade(id)'
         /\ \A q : RequestPays(q, customer, StripePaid) => RequestPays(q, customer', StripePaid')
  <1>1. customer \in [Customers -> Customer] /\ customer' \in [Customers -> Customer]
    BY DEF IInv, WorldOK
  <1>2. \A c \in Customers : customer[c].state = "deleted" => customer'[c].state = "deleted"
    <2>1. \A c \in Customers : customer'[c].state \in {"none", "live", "deleted"}
      BY <1>1 DEF Customer
    <2> QED
      BY <2>1 DEF Aged
  <1>3. \A id : KnownIn(customer, id) => KnownIn(customer', id)
    BY DEF Aged, KnownIn
  <1>4. \A id : Known(id) /\ Live(id)' => Live(id)
    BY DEF Aged, Known, KnownIn, Live
  <1>5. \A id : RepairMade(id) => RepairMade(id)'
    BY DEF Aged, RepairMade, Repairs
  <1>6. \A q : RequestPays(q, customer, StripePaid) => RequestPays(q, customer', StripePaid')
    BY <1>2, <1>3 DEF RequestPays, Aged
  <1> QED
    BY <1>3, <1>4, <1>5, <1>6 DEF Known

LEMMA NothingAges ==
  ASSUME PInv, UNCHANGED <<customer, bootKeys>>, StripePaid => StripePaid'
  PROVE  Aged
  BY DEF PInv, KeysOK, Known, KnownIn, Aged

\* What is used after a step was used before it, or was made by a repair when all that
\* was in use alive had been.
Keeps ==
  ~StripePaid' =>
    \/ \A n : Used(n)' => Used(n)
    \/ \E x : /\ RepairMade(x)'
              /\ \A n : Used(n)' => Used(n) \/ n = x
              /\ \A m : Used(m) /\ Live(m) => RepairMade(m)

LEMMA OthersStayRepaired ==
  ASSUME IInv, IInv', PInv, Aged, Keeps
  PROVE  OthersRepaired'
  <1> SUFFICES ASSUME ~StripePaid', NEW m, NEW n, Used(m)', Used(n)', m # n, Live(m)'
               PROVE  RepairMade(m)'
    BY DEF OthersRepaired
  <1>1. ~StripePaid
    BY DEF Aged
  <1>2. CASE \A i : Used(i)' => Used(i)
    <2>1. Used(m) /\ Used(n) /\ Live(m)
      BY <1>2, UsedIsKnown, AgedFacts
    <2> QED
      BY <1>1, <2>1, AgedFacts DEF PInv, OthersRepaired
  <1>3. ASSUME NEW x, RepairMade(x)', \A i : Used(i)' => Used(i) \/ i = x,
               \A i : Used(i) /\ Live(i) => RepairMade(i)
        PROVE  RepairMade(m)'
    <2>1. CASE m = x
      BY <1>3, <2>1
    <2>2. CASE m # x
      <3>1. Used(m) /\ Live(m)
        BY <1>3, <2>2, UsedIsKnown, AgedFacts
      <3> QED
        BY <1>3, <3>1, AgedFacts
    <2> QED
      BY <2>1, <2>2
  <1> QED
    BY <1>2, <1>3 DEF Keeps

\* A request that moves on, the row keeping its customer.
LEMMA MovePays ==
  ASSUME IInv, IInv', PInv, Aged, NEW r \in Threads, NEW q, Moves(r, q), RequestPays(q, customer', StripePaid'),
         sub'.customer = sub.customer, sub'.status # "NONE" <=> sub.status # "NONE",
         \A a \in paid' : a \in paid \/ (Used(a.customer) /\ sub.status # "NONE"),
         ~StripePaid' =>
           \/ \A n : UsedBy(q, n) => Used(n)
           \/ \E x : /\ RepairMade(x)'
                     /\ \A n : UsedBy(q, n) => Used(n) \/ n = x
                     /\ \A m : Used(m) /\ Live(m) => RepairMade(m)
  PROVE  PInv'
  <1>1. req'[r] = q /\ \A s \in Threads : s # r => req'[s] = req[s]
    BY DEF Moves, IInv
  <1>2. \A s \in Threads : RequestPays(req'[s], customer', StripePaid')
    <2> TAKE s \in Threads
    <2>1. CASE s = r
      BY <1>1, <2>1
    <2>2. CASE s # r
      <3>1. RequestPays(req[s], customer, StripePaid)
        BY DEF PInv, RequestsPay
      <3> QED
        BY <1>1, <2>2, <3>1, AgedFacts
    <2> QED
      BY <2>1, <2>2
  <1>3. \A n : Used(n)' => Used(n) \/ UsedBy(q, n)
    <2> TAKE n
    <2> HAVE Used(n)'
    <2>1. CASE sub'.status # "NONE" /\ n = sub'.customer
      BY <2>1 DEF Used
    <2>2. CASE \E a \in paid' : n = a.customer
      BY <2>2 DEF Used
    <2>3. CASE \E s \in Threads : UsedBy(req'[s], n)
      BY <1>1, <2>3 DEF Used
    <2> QED
      BY <2>1, <2>2, <2>3 DEF Used
  <1>4. Keeps
    BY <1>3 DEF Keeps
  <1>5. OthersRepaired'
    BY <1>4, OthersStayRepaired
  <1>6. \A a \in paid' : Known(a.customer)'
    BY UsedIsKnown, AgedFacts DEF PInv
  <1>7. paid' # {} => sub'.status # "NONE"
    BY DEF PInv
  <1>8. Known(sub.customer)' /\ (~StripePaid => sub.customer # Foreign)'
    BY AgedFacts DEF PInv, Aged
  <1>9. RequestsPay'
    BY <1>2 DEF RequestsPay
  <1> QED
    BY <1>5, <1>6, <1>7, <1>8, <1>9 DEF PInv, Aged

\* A request that begins, with the customer of the row or, after Stripe, its own.
LEMMA BeginPays ==
  ASSUME IInv, IInv', PInv, NEW r \in Threads, NEW q, Moves(r, q),
         UNCHANGED <<sub, customer, bootKeys, paid>>, StripePaid => StripePaid',
         q.saw = sub, q.step \notin InCall, q.cust = NoCustomer,
         q.new.customer = sub.customer \/ (StripePaid /\ q.new.customer = Foreign)
  PROVE  PInv'
  <1>1. Aged
    BY NothingAges
  <1>2. NoCustomer # Foreign /\ Foreign \notin Customers /\ NoCustomer \notin Customers
    BY DEF NoCustomer, Foreign, Customers
  <1>3. RequestPays(q, customer', StripePaid')
    BY <1>2 DEF RequestPays, PInv, Known, KnownIn, InCall
  <1>4. ~StripePaid' => \A n : UsedBy(q, n) => Used(n)
    BY DEF UsedBy, Used
  <1> QED
    BY <1>1, <1>3, <1>4, MovePays

LEMMA CommittingPays ==
  ASSUME IInv, IInv', PInv, NEW r \in Threads, NEW n, NEW i, NEW v, Moves(r, Committing(n, i, v)),
         UNCHANGED <<sub, customer, bootKeys, paid>>, StripePaid => StripePaid',
         n.customer = sub.customer \/ (StripePaid /\ n.customer = Foreign)
  PROVE  PInv'
  <1> DEFINE q == Committing(n, i, v)
  <1>1. q.saw = sub /\ q.step = "commit" /\ q.cust = NoCustomer /\ q.new = n
    BY DEF Committing, Idle
  <1>2. Moves(r, q)
    OBVIOUS
  <1> HIDE DEF q
  <1> QED
    BY <1>1, <1>2, BeginPays DEF InCall

\* A request that is over, or has not reached the row.
LEMMA EndPays ==
  ASSUME IInv, IInv', PInv, Aged, NEW r \in Threads, Moves(r, Idle), UNCHANGED <<sub, paid>>
  PROVE  PInv'
  <1>1. StripePaid' \in BOOLEAN
    BY DEF StripePaid
  <1>2. RequestPays(Idle, customer', StripePaid') /\ \A n : ~UsedBy(Idle, n)
    BY <1>1, IdlePays
  <1> QED
    BY <1>2, MovePays

LEMMA StartedCustomer ==
  ASSUME IInv, NEW p
  PROVE  Started(sub, p).customer = sub.customer
  <1>1. sub \in Row /\ (sub.status = "NONE" => sub = NoRow)
    BY DEF IInv, Sound
  <1> QED
    BY <1>1 DEF Started, NoRow, Row

LEMMA ActivatedCustomer ==
  ASSUME NEW row \in Row, NEW provider
  PROVE  Activated(row, provider).customer = row.customer
  BY DEF Activated, Row

LEMMA SignUpPays ==
  ASSUME IInv, IInv', PInv, NEW r \in Threads, Register(r) \/ InsertAccount(r)
  PROVE  PInv'
  <1>1. CASE Register(r)
    <2> DEFINE q(p) == [Idle EXCEPT !.step = "insert", !.plan = p]
               m(p) == [q(p) EXCEPT !.saw = sub]
    <2>1. PICK p \in Plans : ~org /\ Moves(r, m(p)) /\ UNCHANGED <<Local, Remote>>
      BY <1>1 DEF Register, Begin
    <2>2. sub = NoRow /\ NoRow.customer = NoCustomer
      BY <2>1 DEF IInv, Sound, NoRow
    <2>3. /\ m(p).saw = sub /\ m(p).step = "insert" /\ m(p).cust = NoCustomer
          /\ m(p).new = NoRow
      BY DEF Idle
    <2>4. StripePaid => StripePaid'
      BY <2>1 DEF StripePaid, Remote
    <2> HIDE DEF m
    <2> QED
      BY <2>1, <2>2, <2>3, <2>4, BeginPays DEF InCall, Local, Remote
  <1>2. CASE InsertAccount(r)
    <2> DEFINE step == IF settings.en1 THEN "enrol" ELSE "commit"
               row == [NoRow EXCEPT !.status = "pending", !.plan = req[r].plan]
               m == [req[r] EXCEPT !.step = step, !.new = row]
    <2>1. /\ UNCHANGED <<Local, Remote>> /\ (Moves(r, Idle) \/ Moves(r, m))
          /\ req[r].step = "insert" /\ req[r] \in Request /\ req[r].saw = NoRow
      BY <1>2 DEF InsertAccount, IInv, RequestFits
    <2>2. UNCHANGED <<sub, customer, bootKeys, paid>> /\ (StripePaid => StripePaid')
      BY <2>1 DEF Local, Remote, StripePaid
    <2>3. Aged
      BY <2>2, NothingAges
    <2>4. /\ m.saw = NoRow /\ m.step \notin InCall /\ m.cust = req[r].cust
          /\ m.new.customer = NoCustomer
      BY <2>1 DEF Request, InCall, NoRow
    <2>5. RequestPays(req[r], customer, StripePaid)
      BY DEF PInv, RequestsPay
    <2>6. CASE Moves(r, m)
      <3> HIDE DEF m
      <3>1. NoRow.status = "NONE" /\ NoRow.customer = NoCustomer /\ NoCustomer # Foreign
        BY DEF NoRow, NoCustomer, Foreign
      <3>2. RequestPays(m, customer', StripePaid')
        BY <2>2, <2>4, <2>5, <3>1 DEF RequestPays, InCall, KnownIn, Customers, NoCustomer
      <3>3. \A n : ~UsedBy(m, n)
        BY <2>4, <3>1 DEF UsedBy
      <3> QED
        BY <2>2, <2>3, <2>6, <3>2, <3>3, MovePays
    <2> QED
      BY <2>1, <2>2, <2>3, <2>6, EndPays
  <1> QED
    BY <1>1, <1>2

LEMMA BootstrappedAges ==
  ASSUME IInv, PInv, NEW key, NEW c \in Customers, Bootstrapped(key, c), session' = session
  PROVE  Aged /\ Known(c)' /\ <<key, c>> \in bootKeys' /\ (StripePaid <=> StripePaid')
  <1>1. StripePaid <=> StripePaid'
    BY DEF StripePaid
  <1>2. CASE <<key, c>> \in bootKeys /\ UNCHANGED <<customer, bootKeys>>
    <2>1. Known(<<key, c>>[2])
      BY <1>2 DEF PInv, KeysOK
    <2>2. Known(c)'
      BY <1>2, <2>1 DEF Known, KnownIn
    <2> QED
      BY <1>1, <1>2, <2>2, NothingAges
  <1>3. CASE /\ \A k \in bootKeys : k[1] # key
             /\ c \in FreshCustomers
             /\ customer' = [customer EXCEPT ![c].state = "live"]
             /\ bootKeys' = bootKeys \cup {<<key, c>>}
    <2>1. customer \in [Customers -> Customer] /\ customer[c].state = "none"
      BY <1>3 DEF IInv, WorldOK, FreshCustomers
    <2>2. customer'[c].state = "live" /\ \A d \in Customers : d # c => customer'[d] = customer[d]
      BY <1>3, <2>1 DEF Customer
    <2>3. \A id : Known(id) => Known(id)'
      BY <2>2 DEF Known, KnownIn
    <2>4. Known(c)'
      BY <2>2 DEF Known, KnownIn
    <2>5. \A j, k \in bootKeys' : j[1] = k[1] => j[2] = k[2]
      BY <1>3 DEF PInv, KeysOK
    <2>6. \A k \in bootKeys' : Known(k[2])'
      BY <1>3, <2>3, <2>4 DEF PInv, KeysOK
    <2>7. KeysOK'
      BY <2>5, <2>6 DEF KeysOK
    <2>8. Aged
      BY <1>1, <1>3, <2>1, <2>2, <2>7 DEF Aged
    <2> QED
      BY <1>1, <1>3, <2>4, <2>8
  <1> QED
    BY <1>2, <1>3 DEF Bootstrapped

LEMMA EnrolPays ==
  ASSUME IInv, IInv', PInv, NEW r \in Threads, Enrol(r)
  PROVE  PInv'
  <1> DEFINE key == <<"signup", Cardinality(bootKeys)>>
             m(c) == [req[r] EXCEPT !.step = "commit", !.new.provider = "en1", !.new.customer = c]
  <1>1. /\ UNCHANGED <<Local, session, paid>> /\ req[r] \in Request /\ req[r].saw = NoRow
        /\ \/ \E c \in Customers : Bootstrapped(key, c) /\ (Moves(r, m(c)) \/ Moves(r, Idle))
           \/ Moves(r, Idle) /\ UNCHANGED <<customer, bootKeys>>
    BY DEF Enrol, IInv, RequestFits
  <1> HIDE DEF key
  <1>2. CASE Moves(r, Idle) /\ UNCHANGED <<customer, bootKeys>>
    <2>1. StripePaid => StripePaid'
      BY <1>1 DEF StripePaid
    <2> QED
      BY <1>1, <1>2, <2>1, NothingAges, EndPays DEF Local
  <1>3. ASSUME NEW c \in Customers, Bootstrapped(key, c), Moves(r, m(c)) \/ Moves(r, Idle)
        PROVE  PInv'
    <2>1. Aged /\ Known(c)' /\ (StripePaid <=> StripePaid')
      BY <1>1, <1>3, BootstrappedAges
    <2>2. CASE Moves(r, Idle)
      BY <1>1, <2>1, <2>2, EndPays DEF Local
    <2>3. CASE Moves(r, m(c))
      <3>1. req[r].new \in Row /\ RequestPays(req[r], customer, StripePaid)
        BY <1>1 DEF Request, PInv, RequestsPay
      <3>2. /\ m(c).saw = NoRow /\ m(c).step = "commit" /\ m(c).cust = req[r].cust
            /\ m(c).new.customer = c
        BY <1>1, <3>1 DEF Request, Row
      <3> HIDE DEF m
      <3>3. NoRow.status = "NONE" /\ NoRow.customer = NoCustomer /\ NoCustomer # Foreign /\ c # Foreign
        BY DEF NoRow, NoCustomer, Foreign, Customers
      <3>4. RequestPays(req[r], customer', StripePaid')
        BY <2>1, <3>1, AgedFacts
      <3>5. RequestPays(m(c), customer', StripePaid')
        BY <1>1, <2>1, <3>2, <3>3, <3>4 DEF RequestPays, InCall, Known, KnownIn
      <3>6. \A n : ~UsedBy(m(c), n)
        BY <3>2, <3>3 DEF UsedBy
      <3> QED
        BY <1>1, <2>1, <2>3, <3>5, <3>6, MovePays DEF Local
    <2> QED
      BY <1>3, <2>2, <2>3
  <1> QED
    BY <1>1, <1>2, <1>3

LEMMA CheckoutPays ==
  ASSUME IInv, IInv', PInv, NEW r \in Threads, CheckoutPage(r) \/ CheckoutPost(r)
  PROVE  PInv'
  <1>1. CASE CheckoutPage(r)
    <2> DEFINE n(p) == [sub EXCEPT !.plan = p]
    <2>1. PICK p \in Sold : Begin(r, [Idle EXCEPT !.step = "commit", !.new = n(p)]) /\ UNCHANGED <<Local, Remote>>
      BY <1>1 DEF CheckoutPage
    <2>2. sub \in Row /\ p \in PlanCodes
      BY SubscriptionAssumption DEF IInv, PlanCodes
    <2>3. n(p) \in Row /\ n(p).customer = sub.customer
      BY <2>2 DEF Row
    <2> HIDE DEF n
    <2>4. Moves(r, Committing(n(p), 0, "none"))
      BY <2>1, <2>3, BeginsCommitting
    <2>5. StripePaid => StripePaid'
      BY <2>1 DEF StripePaid, Remote
    <2> QED
      BY <2>1, <2>3, <2>4, <2>5, CommittingPays DEF Local, Remote
  <1>2. CASE CheckoutPost(r)
    <2> DEFINE step(p, k) == IF SyncsPlan(sub, p) THEN "sync" ELSE Pays(k)
               q(p, k, u) == [Idle EXCEPT !.step = step(p, k), !.plan = p, !.new = sub,
                                          !.code = k, !.user = u]
               m(p, k, u) == [q(p, k, u) EXCEPT !.saw = sub]
    <2>1. PICK p \in Plans, k \in Codes \cup {NoCode}, u \in Users :
            Moves(r, m(p, k, u)) /\ UNCHANGED <<Local, Remote>>
      BY <1>2 DEF CheckoutPost, Begin
    <2>2. step(p, k) \notin InCall
      BY PaysFacts DEF InCall
    <2> HIDE DEF step
    <2>3. /\ m(p, k, u).saw = sub /\ m(p, k, u).step = step(p, k) /\ m(p, k, u).cust = NoCustomer
          /\ m(p, k, u).new = sub
      BY DEF Idle
    <2>4. StripePaid => StripePaid'
      BY <2>1 DEF StripePaid, Remote
    <2> HIDE DEF m
    <2> QED
      BY <2>1, <2>2, <2>3, <2>4, BeginPays DEF Local, Remote
  <1> QED
    BY <1>1, <1>2

LEMMA SyncPlanPays ==
  ASSUME IInv, IInv', PInv, NEW r \in Threads, SyncPlan(r)
  PROVE  PInv'
  <1> DEFINE q == req[r]
             new == [q.saw EXCEPT !.plan = q.plan]
             row == Merge(sub, q.saw, new)
             m == [q EXCEPT !.saw = row, !.new = row, !.step = Pays(q.code)]
  <1>1. /\ q.step = "sync" /\ q \in Request /\ RequestFits(q, sub)
        /\ sub' = row /\ Moves(r, m) /\ UNCHANGED <<session, customer, bootKeys, paid>>
    BY DEF SyncPlan, IInv, Remote
  <1>2. q.saw \in Row /\ q.saw.status # "NONE" /\ sub.status # "NONE" /\ q.code \in Codes \cup {NoCode}
    BY <1>1 DEF RequestFits, Request, Calling
  <1>3. new.customer = q.saw.customer /\ new.status = q.saw.status
    BY <1>2 DEF Row
  <1> HIDE DEF new
  <1>4. row.customer = sub.customer /\ row.status = sub.status
    BY <1>3 DEF Merge
  <1>5. m.saw = row /\ m.new = row /\ m.step \notin InCall /\ m.cust = q.cust
    BY <1>1, <1>2, PaysFacts DEF Request, InCall
  <1> HIDE DEF row, m
  <1>6. StripePaid => StripePaid'
    BY <1>1 DEF StripePaid
  <1>7. Aged
    BY <1>1, <1>6, NothingAges
  <1>8. RequestPays(q, customer', StripePaid')
    BY <1>7, AgedFacts DEF PInv, RequestsPay
  <1>9. RequestPays(m, customer', StripePaid')
    BY <1>1, <1>4, <1>5, <1>7, <1>8 DEF RequestPays, PInv, Known, KnownIn, InCall, Aged
  <1>10. \A n : UsedBy(m, n) => Used(n)
    BY <1>2, <1>4, <1>5 DEF UsedBy, Used
  <1> QED
    BY <1>1, <1>2, <1>4, <1>7, <1>9, <1>10, MovePays

\* A repair that EN1 has answered: every customer in use alive was made by one already,
\* because the request found no customer or a deleted one.
LEMMA RepairedFacts ==
  ASSUME IInv, PInv, NEW r \in Threads, NEW c \in Customers, Repaired(r, c), session' = session,
         req[r].saw.status # "NONE",
         \/ req[r].saw.customer = NoCustomer
         \/ req[r].step = "repair"
  PROVE  /\ Aged /\ Known(c)' /\ RepairMade(c)' /\ (StripePaid <=> StripePaid')
         /\ ~StripePaid => \A m : Used(m) /\ Live(m) => RepairMade(m)
  <1> DEFINE key == RepairKey(req[r].new.plan, req[r].user)
  <1>1. /\ Aged /\ Known(c)' /\ <<key, c>> \in bootKeys' /\ (StripePaid <=> StripePaid')
    BY BootstrappedAges DEF Repaired
  <1>2. key[1] = "repair"
    BY DEF RepairKey
  <1> HIDE DEF key
  <1>3. RepairMade(c)'
    BY <1>1, <1>2 DEF RepairMade, Repairs
  <1>4. ASSUME ~StripePaid, NEW m, Used(m), Live(m)
        PROVE  RepairMade(m)
    <2>1. CASE req[r].saw.customer = NoCustomer
      <3>1. Used(NoCustomer)
        BY <2>1 DEF Used, UsedBy
      <3>2. m # NoCustomer
        BY <1>4, KnownNobody
      <3> QED
        BY <1>4, <3>1, <3>2 DEF PInv, OthersRepaired
    <2>2. CASE req[r].step = "repair"
      <3>1. RequestPays(req[r], customer, StripePaid) /\ req[r] \in Request
        BY DEF PInv, RequestsPay, IInv
      <3>2. req[r].cust \in Customers
        BY <1>4, <2>2, <3>1 DEF RequestPays, InCall, Request, CustomerIds
      <3>3. customer[req[r].cust].state = "deleted" /\ Used(req[r].cust)
        BY <2>2, <3>1, <3>2 DEF RequestPays, Used, UsedBy, InCall
      <3>4. m # req[r].cust
        BY <1>4, <3>3 DEF Live
      <3> QED
        BY <1>4, <3>3, <3>4 DEF PInv, OthersRepaired
    <2> QED
      BY <2>1, <2>2
  <1> QED
    BY <1>1, <1>3, <1>4

\* A request that takes another step on the row it has, with no new customer.
LEMMA StepPays ==
  ASSUME IInv, IInv', PInv, Aged, NEW r \in Threads, NEW q, Moves(r, q), sub' = sub,
         \A a \in paid' : a \in paid \/ (Used(a.customer) /\ sub.status # "NONE"),
         q.saw = req[r].saw, q.new.customer \in {req[r].new.customer, req[r].cust},
         q.cust = req[r].cust, req[r].step \in Calling,
         req[r].step \in InCall \/ (q.new.customer = req[r].new.customer /\ q.step \notin InCall),
         q.step = "repair" /\ q.cust \in Customers => customer'[q.cust].state = "deleted"
  PROVE  PInv'
  <1>1. RequestPays(req[r], customer', StripePaid')
    BY AgedFacts DEF PInv, RequestsPay
  <1>2. RequestPays(q, customer', StripePaid')
    BY <1>1 DEF RequestPays
  <1>3. \A n : UsedBy(q, n) => UsedBy(req[r], n)
    BY DEF UsedBy
  <1>4. \A n : UsedBy(q, n) => Used(n)
    BY <1>3 DEF Used
  <1> QED
    BY <1>2, <1>4, MovePays

LEMMA FindCustomerPays ==
  ASSUME IInv, IInv', PInv, NEW r \in Threads, FindCustomer(r)
  PROVE  PInv'
  <1> DEFINE q == req[r]
             known == [q EXCEPT !.step = "pay", !.cust = q.saw.customer]
             mine(c) == [q EXCEPT !.step = "pay", !.cust = c, !.new.customer = c, !.new.provider = "en1"]
             failed == [q EXCEPT !.step = "commit"]
  <1>1. /\ q.step = "boot" /\ q \in Request /\ q.saw.status # "NONE" /\ q.new \in Row
        /\ UNCHANGED <<Local, session, paid>> /\ RequestPays(q, customer, StripePaid)
    BY DEF FindCustomer, IInv, RequestFits, Calling, PInv, RequestsPay, Request
  <1>2. \/ q.saw.customer # NoCustomer /\ Moves(r, known) /\ UNCHANGED <<customer, bootKeys>>
        \/ /\ q.saw.customer = NoCustomer
           /\ \E c \in Customers : Repaired(r, c) /\ (Moves(r, mine(c)) \/ Moves(r, failed))
    BY DEF FindCustomer, Rebootstrap, Fails
  <1>3. known.saw = q.saw /\ known.new = q.new /\ known.step = "pay" /\ known.cust = q.saw.customer
    BY <1>1 DEF Request
  <1>4. failed.saw = q.saw /\ failed.new = q.new /\ failed.step = "commit" /\ failed.cust = q.cust
    BY <1>1 DEF Request
  <1>5. \A c : mine(c).saw = q.saw /\ mine(c).new.customer = c /\ mine(c).step = "pay" /\ mine(c).cust = c
    BY <1>1 DEF Request, Row
  <1> HIDE DEF known, failed, mine
  <1>6. CASE q.saw.customer # NoCustomer /\ Moves(r, known) /\ UNCHANGED <<customer, bootKeys>>
    <2>1. StripePaid <=> StripePaid'
      BY <1>1 DEF StripePaid
    <2>2. RequestPays(known, customer', StripePaid')
      BY <1>1, <1>3, <1>6, <2>1 DEF RequestPays
    <2>3. \A n : UsedBy(known, n) => UsedBy(q, n)
      BY <1>3 DEF UsedBy
    <2>4. Aged /\ \A n : UsedBy(known, n) => Used(n)
      BY <1>6, <2>1, <2>3, NothingAges DEF Used
    <2> QED
      BY <1>1, <1>6, <2>2, <2>4, MovePays DEF Local
  <1>7. ASSUME NEW c \in Customers, q.saw.customer = NoCustomer, Repaired(r, c), Moves(r, mine(c)) \/ Moves(r, failed)
        PROVE  PInv'
    <2>1. /\ Aged /\ Known(c)' /\ RepairMade(c)' /\ (StripePaid <=> StripePaid')
          /\ ~StripePaid => \A m : Used(m) /\ Live(m) => RepairMade(m)
      BY <1>1, <1>7, RepairedFacts
    <2>2. CASE Moves(r, failed)
      BY <1>1, <1>4, <2>1, <2>2, StepPays DEF Local, Calling, InCall
    <2>3. CASE Moves(r, mine(c))
      <3>1. RequestPays(q, customer', StripePaid') /\ c # NoCustomer /\ c # Foreign
        BY <1>1, <2>1, AgedFacts DEF NoCustomer, Foreign, Customers
      <3>2. RequestPays(mine(c), customer', StripePaid')
        BY <1>5, <2>1, <3>1 DEF RequestPays, Known, KnownIn
      <3>3. \A n : UsedBy(mine(c), n) => Used(n) \/ n = c
        BY <1>5 DEF UsedBy, Used
      <3> QED
        BY <1>1, <2>1, <2>3, <3>2, <3>3, MovePays DEF Local
    <2> QED
      BY <1>7, <2>2, <2>3
  <1> QED
    BY <1>2, <1>6, <1>7

LEMMA RepairPays ==
  ASSUME IInv, IInv', PInv, NEW r \in Threads, Repair(r)
  PROVE  PInv'
  <1> DEFINE q == req[r]
             mine(c) == [q EXCEPT !.step = "pay", !.cust = c, !.again = TRUE,
                                  !.new.customer = c, !.new.provider = "en1"]
             failed == [q EXCEPT !.step = "commit"]
  <1>1. /\ q.step = "repair" /\ q \in Request /\ q.saw.status # "NONE" /\ q.new \in Row
        /\ UNCHANGED <<Local, session, paid>> /\ RequestPays(q, customer, StripePaid)
    BY DEF Repair, IInv, RequestFits, Calling, PInv, RequestsPay, Request
  <1>2. \/ Moves(r, failed) /\ UNCHANGED <<customer, bootKeys>>
        \/ \E c \in Customers : Repaired(r, c) /\ Moves(r, mine(c))
    BY DEF Repair, Fails
  <1>3. failed.saw = q.saw /\ failed.new = q.new /\ failed.step = "commit" /\ failed.cust = q.cust
    BY <1>1 DEF Request
  <1>4. \A c : mine(c).saw = q.saw /\ mine(c).new.customer = c /\ mine(c).step = "pay" /\ mine(c).cust = c
    BY <1>1 DEF Request, Row
  <1> HIDE DEF failed, mine
  <1>5. CASE Moves(r, failed) /\ UNCHANGED <<customer, bootKeys>>
    <2>1. StripePaid <=> StripePaid'
      BY <1>1 DEF StripePaid
    <2>2. Aged
      BY <1>5, <2>1, NothingAges
    <2> QED
      BY <1>1, <1>3, <1>5, <2>2, StepPays DEF Local, Calling, InCall
  <1>6. ASSUME NEW c \in Customers, Repaired(r, c), Moves(r, mine(c))
        PROVE  PInv'
    <2>1. /\ Aged /\ Known(c)' /\ RepairMade(c)' /\ (StripePaid <=> StripePaid')
          /\ ~StripePaid => \A m : Used(m) /\ Live(m) => RepairMade(m)
      BY <1>1, <1>6, RepairedFacts
    <2>2. RequestPays(q, customer', StripePaid') /\ c # NoCustomer /\ c # Foreign
      BY <1>1, <2>1, AgedFacts DEF NoCustomer, Foreign, Customers
    <2>3. RequestPays(mine(c), customer', StripePaid')
      BY <1>4, <2>1, <2>2 DEF RequestPays, Known, KnownIn
    <2>4. \A n : UsedBy(mine(c), n) => Used(n) \/ n = c
      BY <1>4 DEF UsedBy, Used
    <2> QED
      BY <1>1, <1>6, <2>1, <2>3, <2>4, MovePays DEF Local
  <1> QED
    BY <1>2, <1>5, <1>6

LEMMA PayPays ==
  ASSUME IInv, IInv', PInv, NEW r \in Threads, Pay(r)
  PROVE  PInv'
  <1> DEFINE q == req[r]
             m(x) == [q EXCEPT !.step = x]
             key == CheckoutKey(q.cust, q.code, q.new.plan)
  <1>1. /\ q.step = "pay" /\ q \in Request /\ q.saw.status # "NONE" /\ sub.status # "NONE"
        /\ UNCHANGED <<Local, session, bootKeys>> /\ customer \in [Customers -> Customer]
    BY DEF Pay, IInv, RequestFits, Calling, WorldOK
  <1>2. \/ q.cust \in Customers /\ CheckedOut(key) /\ (Moves(r, m("ask")) \/ Moves(r, m("commit")))
        \/ UNCHANGED <<customer, paid>> /\ Moves(r, m("commit"))
        \/ UNCHANGED <<customer, paid>> /\ Unknown(q.cust) /\ Moves(r, m("repair"))
    BY DEF Pay, Fails, Stale
  <1>3. \A x \in {"ask", "commit", "repair"} :
          m(x).step = x /\ m(x).new = q.new /\ m(x).saw = q.saw /\ m(x).cust = q.cust
    BY SteppedFacts
  <1> HIDE DEF m
  <1>4. StripePaid <=> StripePaid'
    BY <1>1 DEF StripePaid
  <1>5. CASE \/ UNCHANGED <<customer, paid>> /\ Moves(r, m("commit"))
             \/ UNCHANGED <<customer, paid>> /\ Unknown(q.cust) /\ Moves(r, m("repair"))
    <2>1. Aged /\ sub' = sub /\ \A a \in paid' : a \in paid
      BY <1>1, <1>4, <1>5, NothingAges DEF Local
    <2>2. q.step \in InCall /\ q.step \in Calling
      BY <1>1 DEF InCall, Calling
    <2>3. CASE Moves(r, m("commit"))
      <3>1. m("commit").step = "commit" /\ m("commit").new = q.new /\ m("commit").saw = q.saw /\ m("commit").cust = q.cust
        BY <1>3
      <3> QED
        BY <2>1, <2>2, <2>3, <3>1, StepPays
    <2>4. CASE UNCHANGED <<customer, paid>> /\ Unknown(q.cust) /\ Moves(r, m("repair"))
      <3>1. m("repair").step = "repair" /\ m("repair").new = q.new /\ m("repair").saw = q.saw /\ m("repair").cust = q.cust
        BY <1>3
      <3>2. q.cust \in Customers => customer'[q.cust].state = "deleted"
        BY <2>4 DEF Unknown
      <3> QED
        BY <2>1, <2>2, <2>4, <3>1, <3>2, StepPays
    <2> QED
      BY <1>5, <2>3, <2>4
  <1>6. CASE q.cust \in Customers /\ CheckedOut(key) /\ (Moves(r, m("ask")) \/ Moves(r, m("commit")))
    <2>1. key.customer = q.cust
      BY DEF CheckoutKey
    <2> HIDE DEF key
    <2>2. paid' = paid \cup {key} /\ customer' = [customer EXCEPT ![q.cust].plan = key.plan]
      BY <1>6, <2>1 DEF CheckedOut
    <2>3. \A c \in Customers : customer'[c].state = customer[c].state
      BY <1>1, <1>6, <2>2 DEF Customer
    <2>4. KeysOK'
      BY <1>1, <2>3 DEF PInv, KeysOK, Known, KnownIn
    <2>5. Aged
      BY <1>1, <1>4, <2>3, <2>4 DEF Aged
    <2>6. Used(q.cust)
      BY <1>1 DEF Used, UsedBy, InCall
    <2>7. \A a \in paid' : a \in paid \/ (Used(a.customer) /\ sub.status # "NONE")
      BY <1>1, <2>1, <2>2, <2>6
    <2>8. PICK x \in {"ask", "commit"} : Moves(r, m(x))
      BY <1>6
    <2>9. m(x).step = x /\ m(x).new = q.new /\ m(x).saw = q.saw /\ m(x).cust = q.cust
      BY <1>3
    <2>10. q.step \in InCall /\ q.step \in Calling /\ sub' = sub
      BY <1>1 DEF InCall, Calling, Local
    <2> QED
      BY <2>5, <2>7, <2>8, <2>9, <2>10, StepPays
  <1> QED
    BY <1>2, <1>5, <1>6

LEMMA AskPays ==
  ASSUME IInv, IInv', PInv, NEW r \in Threads, Ask(r)
  PROVE  PInv'
  <1> DEFINE q == req[r]
             c == q.cust
             row == [Activated(q.new, "en1") EXCEPT !.customer = c, !.seats = TRUE, !.plan = customer[c].plan]
             bought == [q EXCEPT !.step = "commit", !.new = row]
             m(x) == [q EXCEPT !.step = x]
  <1>1. /\ q.step = "ask" /\ q \in Request /\ UNCHANGED <<Local, Remote>> /\ q.new \in Row
    BY DEF Ask, IInv, Request
  <1>2. Moves(r, bought) \/ (customer[c].state = "deleted" /\ Moves(r, m("repair"))) \/ Moves(r, m("commit"))
    BY DEF Ask, Stale, Fails
  <1>3. \A x \in {"ask", "commit", "repair"} :
          m(x).step = x /\ m(x).new = q.new /\ m(x).saw = q.saw /\ m(x).cust = q.cust
    BY SteppedFacts
  <1>4. bought.saw = q.saw /\ bought.step = "commit" /\ bought.new.customer = c /\ bought.cust = c
    BY <1>1 DEF Request, Activated, Row
  <1> HIDE DEF m, bought
  <1>5. StripePaid <=> StripePaid'
    BY <1>1 DEF StripePaid, Remote
  <1>6. Aged
    BY <1>1, <1>5, NothingAges DEF Remote
  <1>7. q.step \in InCall /\ q.step \in Calling /\ sub' = sub /\ \A a \in paid' : a \in paid
    BY <1>1 DEF InCall, Calling, Local, Remote
  <1>8. CASE Moves(r, bought)
    BY <1>4, <1>6, <1>7, <1>8, StepPays
  <1>9. CASE Moves(r, m("commit"))
    <2>1. m("commit").step = "commit" /\ m("commit").new = q.new /\ m("commit").saw = q.saw /\ m("commit").cust = q.cust
      BY <1>3
    <2> QED
      BY <1>6, <1>7, <1>9, <2>1, StepPays
  <1>10. CASE customer[c].state = "deleted" /\ Moves(r, m("repair"))
    <2>1. m("repair").step = "repair" /\ m("repair").new = q.new /\ m("repair").saw = q.saw /\ m("repair").cust = q.cust
      BY <1>3
    <2>2. customer'[c].state = "deleted"
      BY <1>1, <1>10 DEF Remote
    <2> QED
      BY <1>6, <1>7, <1>10, <2>1, <2>2, StepPays
  <1> QED
    BY <1>2, <1>8, <1>9, <1>10

LEMMA OtherPays ==
  ASSUME IInv, IInv', PInv, NEW r \in Threads,
         \/ StripeCheckout(r) \/ PilotCheckout(r) \/ ApproveReceipt(r) \/ RejectReceipt(r)
         \/ \E s \in Sessions : ConfirmStripe(r, s)
  PROVE  PInv'
  <1>1. CASE StripeCheckout(r)
    <2>1. PICK p \in Plans, s \in Sessions :
            /\ Begin(r, [Idle EXCEPT !.step = "commit", !.new = Started(sub, p)])
            /\ Opened(s, p, "saas") /\ UNCHANGED <<Local, customer, bootKeys, paid>>
      BY <1>1 DEF StripeCheckout
    <2>2. Started(sub, p) \in Row
      BY StartedFacts DEF IInv, PlanCodes
    <2>3. Moves(r, Committing(Started(sub, p), 0, "none"))
      BY <2>1, <2>2, BeginsCommitting
    <2>4. StripePaid => StripePaid'
      BY <2>1 DEF StripePaid, Opened, IInv, WorldOK
    <2> QED
      BY <2>1, <2>3, <2>4, StartedCustomer, CommittingPays DEF Local
  <1>2. CASE PilotCheckout(r)
    <2>1. PICK p \in Plans :
            /\ Begin(r, [Idle EXCEPT !.step = "commit", !.new = Activated(Started(sub, p), "piloto")])
            /\ UNCHANGED <<sub, Remote>>
      BY <1>2 DEF PilotCheckout
    <2> DEFINE n == Activated(Started(sub, p), "piloto")
    <2>2. n \in Row /\ n.customer = sub.customer
      <3>1. p \in PlanCodes /\ sub \in Row /\ Sound(sub)
        BY DEF PlanCodes, IInv
      <3>2. Started(sub, p) \in Row /\ Started(sub, p).plan \in PlanCodes
        BY <3>1, StartedFacts
      <3> QED
        BY <3>2, ActivatedFacts, ActivatedCustomer, StartedCustomer
    <2>3. Moves(r, Committing(n, 0, "none"))
      BY <2>1, <2>2, BeginsCommitting
    <2> HIDE DEF n
    <2>4. StripePaid => StripePaid'
      BY <2>1 DEF StripePaid, Remote
    <2> QED
      BY <2>1, <2>2, <2>3, <2>4, CommittingPays DEF Remote
  <1>3. CASE ApproveReceipt(r)
    <2> DEFINE n == Activated(sub, "bank_manual")
    <2>1. PICK i \in Receipts :
            /\ sub.status # "NONE"
            /\ Begin(r, [Idle EXCEPT !.step = "commit", !.new = n, !.receipt = i, !.verdict = "approved"])
            /\ UNCHANGED <<Local, Remote>>
      BY <1>3 DEF ApproveReceipt
    <2>2. n \in Row /\ n.customer = sub.customer
      BY DEF IInv, Activated, Row
    <2>3. Moves(r, Committing(n, i, "approved"))
      BY <2>1, <2>2, BeginsCommitting
    <2> HIDE DEF n
    <2>4. StripePaid => StripePaid'
      BY <2>1 DEF StripePaid, Remote
    <2> QED
      BY <2>1, <2>2, <2>3, <2>4, CommittingPays DEF Local, Remote
  <1>4. CASE RejectReceipt(r)
    <2>1. PICK i \in Receipts :
            /\ Begin(r, [Idle EXCEPT !.step = "commit", !.new = sub, !.receipt = i, !.verdict = "rejected"])
            /\ UNCHANGED <<Local, Remote>>
      BY <1>4 DEF RejectReceipt
    <2>2. sub \in Row
      BY DEF IInv
    <2>3. Moves(r, Committing(sub, i, "rejected"))
      BY <2>1, <2>2, BeginsCommitting
    <2>4. StripePaid => StripePaid'
      BY <2>1 DEF StripePaid, Remote
    <2> QED
      BY <2>1, <2>3, <2>4, CommittingPays DEF Local, Remote
  <1>5. ASSUME NEW s \in Sessions, ConfirmStripe(r, s)
        PROVE  PInv'
    <2> DEFINE n == FromSession(s)
               a == Activated(Started(sub, session[s].plan), "stripe")
    <2>1. /\ session[s].state = "complete" /\ session[s].plan \in PlanCodes
          /\ Begin(r, [Idle EXCEPT !.step = "commit", !.new = n])
          /\ UNCHANGED <<sub, Remote>>
      BY <1>5 DEF ConfirmStripe, PaidSession, IInv, WorldOK
    <2>2. a \in Row /\ a.customer = sub.customer
      <3> DEFINE st == Started(sub, session[s].plan)
      <3>1. sub \in Row /\ Sound(sub)
        BY DEF IInv
      <3>2. st \in Row /\ st.plan \in PlanCodes /\ st.customer = sub.customer
        BY <2>1, <3>1, StartedFacts, StartedCustomer
      <3> HIDE DEF st
      <3>3. Activated(st, "stripe") \in Row /\ Activated(st, "stripe").customer = st.customer
        BY <3>2, ActivatedFacts, ActivatedCustomer
      <3> QED
        BY <3>2, <3>3 DEF st
    <2>3. \/ session[s].kind = "saas" /\ n = [a EXCEPT !.customer = Foreign]
          \/ n = [a EXCEPT !.customer = @]
      BY DEF FromSession
    <2> HIDE DEF a
    <2>4. n \in Row /\ (n.customer = sub.customer \/ (session[s].kind = "saas" /\ n.customer = Foreign))
      BY <2>2, <2>3 DEF Row, CustomerIds
    <2>5. Moves(r, Committing(n, 0, "none"))
      BY <2>1, <2>4, BeginsCommitting
    <2> HIDE DEF n
    <2>6. StripePaid => StripePaid'
      BY <2>1 DEF StripePaid, Remote
    <2>7. n.customer = sub.customer \/ (StripePaid /\ n.customer = Foreign)
      BY <2>1, <2>4 DEF StripePaid
    <2> QED
      BY <2>1, <2>5, <2>6, <2>7, CommittingPays DEF Remote
  <1> QED
    BY <1>1, <1>2, <1>3, <1>4, <1>5

\* A commit writes a customer in use, or the first one of the office.
LEMMA CommitPays ==
  ASSUME IInv, IInv', PInv, NEW r \in Threads, Commit(r)
  PROVE  PInv'
  <1> DEFINE q == req[r]
  <1>1. /\ q \in Request /\ RequestFits(q, sub) /\ RequestPays(q, customer, StripePaid)
        /\ sub' = Merge(sub, q.saw, q.new) /\ req' = Outdated(r)
        /\ UNCHANGED <<session, customer, bootKeys, paid>>
        /\ ~(q.saw.status = "NONE" /\ sub.status # "NONE" /\ q.new.status # "NONE")
    BY DEF Commit, IInv, PInv, RequestsPay, Remote
  <1>2. StripePaid <=> StripePaid'
    BY <1>1 DEF StripePaid
  <1>3. Aged
    BY <1>1, <1>2, NothingAges
  <1>4. \A o \in Threads : /\ RequestPays(req'[o], customer', StripePaid')
                           /\ \A n : UsedBy(req'[o], n) => UsedBy(req[o], n)
    <2> TAKE o \in Threads
    <2>1. CASE o = r
      <3>1. req'[o] = Idle /\ StripePaid' \in BOOLEAN
        BY <1>1, <2>1 DEF Outdated, StripePaid
      <3> QED
        BY <3>1, IdlePays
    <2>2. CASE o # r
      <3>1. req[o] \in Request /\ RequestPays(req[o], customer, StripePaid)
        BY DEF IInv, PInv, RequestsPay
      <3>2. /\ req'[o].step = req[o].step /\ req'[o].saw = req[o].saw /\ req'[o].new = req[o].new
            /\ req'[o].cust = req[o].cust
        BY <1>1, <2>2, <3>1 DEF Outdated, Request
      <3> QED
        BY <1>1, <1>2, <3>1, <3>2 DEF RequestPays, UsedBy
    <2> QED
      BY <2>1, <2>2
  <1>5. sub'.customer = sub.customer \/ sub'.customer = q.new.customer
    BY <1>1 DEF Merge
  <1>6. sub.status # "NONE" => sub'.status # "NONE"
    BY CommitWrites
  <1>7. OthersRepaired'
    <2>1. CASE sub.status # "NONE" /\ q.saw.status # "NONE"
      <3>1. Used(sub.customer) /\ Used(q.new.customer)
        BY <2>1 DEF Used, UsedBy
      <3>2. \A n : Used(n)' => Used(n)
        BY <1>1, <1>4, <1>5, <3>1 DEF Used
      <3> QED
        BY <1>3, <3>2, OthersStayRepaired DEF Keeps
    <2>2. CASE sub.status # "NONE" /\ q.saw.status = "NONE"
      <3>1. q.new = q.saw
        BY <1>1, <2>2 DEF RequestFits
      <3>2. sub'.customer = sub.customer /\ Used(sub.customer)
        BY <1>1, <2>2, <3>1 DEF Merge, Used
      <3>3. \A n : Used(n)' => Used(n)
        BY <1>1, <1>4, <3>2 DEF Used
      <3> QED
        BY <1>3, <3>3, OthersStayRepaired DEF Keeps
    <2>3. CASE sub.status = "NONE"
      <3>1. paid = {} /\ \A o \in Threads : req[o].saw.status = "NONE"
        BY <2>3 DEF PInv, IInv, RequestFits
      <3>2. \A n : Used(n)' => n = sub'.customer
        BY <1>1, <1>4, <3>1 DEF Used, UsedBy
      <3> QED
        BY <3>2 DEF OthersRepaired
    <2> QED
      BY <2>1, <2>2, <2>3
  <1>8. RequestsPay'
    BY <1>4 DEF RequestsPay
  <1>9. Known(sub.customer)' /\ (~StripePaid => sub.customer # Foreign)'
    BY <1>1, <1>2, <1>5 DEF PInv, RequestPays, Known
  <1>10. \A a \in paid' : Known(a.customer)'
    BY <1>1 DEF PInv, Known
  <1> QED
    BY <1>1, <1>3, <1>6, <1>7, <1>8, <1>9, <1>10 DEF PInv, Aged

\* The requests and the row stand still.
LEMMA StillPays ==
  ASSUME IInv, IInv', PInv, Aged, UNCHANGED <<sub, req, paid>>
  PROVE  PInv'
  <1>1. \A n : Used(n)' <=> Used(n)
    BY DEF Used
  <1>2. OthersRepaired'
    BY <1>1, OthersStayRepaired DEF Keeps
  <1>3. RequestsPay'
    BY AgedFacts DEF PInv, RequestsPay
  <1>4. Known(sub.customer)' /\ (~StripePaid => sub.customer # Foreign)'
    BY AgedFacts DEF PInv, Aged
  <1>5. \A a \in paid' : Known(a.customer)'
    BY AgedFacts DEF PInv
  <1> QED
    BY <1>2, <1>3, <1>4, <1>5 DEF PInv, Aged

LEMMA OutsidePays ==
  ASSUME IInv, IInv', PInv, \/ DeleteCustomer \/ TravellerCheckout \/ StripePays \/ Maintain
                            \/ UNCHANGED vars
  PROVE  PInv'
  <1>1. CASE DeleteCustomer
    <2>1. PICK c \in Customers :
            /\ customer' = [customer EXCEPT ![c].state = "deleted"]
            /\ UNCHANGED <<Local, session, bootKeys, paid, req>>
      BY <1>1 DEF DeleteCustomer
    <2>2. customer \in [Customers -> Customer]
      BY DEF IInv, WorldOK
    <2>3. customer'[c].state = "deleted" /\ \A d \in Customers : d # c => customer'[d] = customer[d]
      BY <2>1, <2>2 DEF Customer
    <2>4. KeysOK'
      BY <2>1, <2>3 DEF PInv, KeysOK, Known, KnownIn
    <2>5. Aged
      BY <2>1, <2>3, <2>4 DEF Aged, StripePaid
    <2> QED
      BY <2>1, <2>5, StillPays DEF Local
  <1>2. CASE TravellerCheckout \/ StripePays
    <2>1. UNCHANGED <<Local, customer, bootKeys, paid, req>>
      BY <1>2 DEF TravellerCheckout, StripePays
    <2>2. StripePaid => StripePaid'
      <3>1. session \in [Sessions -> Session]
        BY DEF IInv, WorldOK
      <3>2. CASE TravellerCheckout
        BY <3>1, <3>2 DEF TravellerCheckout, Opened, StripePaid
      <3>3. CASE StripePays
        <4>1. PICK s \in Sessions : session' = [session EXCEPT ![s].state = "complete"]
          BY <3>3 DEF StripePays
        <4>2. \A z \in Sessions : session'[z].kind = session[z].kind
                                  /\ (session[z].state = "complete" => session'[z].state = "complete")
          BY <3>1, <4>1 DEF Session
        <4> QED
          BY <4>2 DEF StripePaid
      <3> QED
        BY <1>2, <3>2, <3>3
    <2>3. Aged
      BY <2>1, <2>2, NothingAges
    <2> QED
      BY <2>1, <2>3, StillPays DEF Local
  <1>3. CASE Maintain \/ UNCHANGED vars
    <2>1. UNCHANGED <<Local, Remote, req>>
      BY <1>3 DEF Maintain, vars, Local, Remote
    <2>2. StripePaid => StripePaid'
      BY <2>1 DEF StripePaid, Remote
    <2>3. Aged
      BY <2>1, <2>2, NothingAges DEF Remote
    <2> QED
      BY <2>1, <2>3, StillPays DEF Local, Remote
  <1> QED
    BY <1>1, <1>2, <1>3

LEMMA StepPInv == IInv /\ IInv' /\ PInv /\ [Next]_vars => PInv'
  <1> SUFFICES ASSUME IInv, IInv', PInv, [Next]_vars PROVE PInv'
    OBVIOUS
  <1>1. CASE \/ UNCHANGED vars \/ DeleteCustomer \/ TravellerCheckout \/ StripePays \/ Maintain
    BY <1>1, OutsidePays
  <1>2. ASSUME NEW r \in Threads,
               \/ Register(r) \/ InsertAccount(r) \/ Enrol(r)
               \/ CheckoutPage(r) \/ CheckoutPost(r) \/ SyncPlan(r)
        PROVE  PInv'
    BY <1>2, SignUpPays, EnrolPays, CheckoutPays, SyncPlanPays
  <1>3. ASSUME NEW r \in Threads, ReportReceipt(r) \/ Conflict(r)
        PROVE  PInv'
    <2>1. Moves(r, Idle) /\ UNCHANGED <<sub, Remote>>
      BY <1>3 DEF ReportReceipt, Conflict, Local
    <2>2. StripePaid => StripePaid'
      BY <2>1 DEF StripePaid, Remote
    <2> QED
      BY <2>1, <2>2, NothingAges, EndPays DEF Remote
  <1>4. ASSUME NEW r \in Threads,
               \/ FindCustomer(r) \/ Repair(r) \/ Pay(r) \/ Ask(r)
        PROVE  PInv'
    BY <1>4, FindCustomerPays, RepairPays, PayPays, AskPays
  <1>5. ASSUME NEW r \in Threads,
               \/ StripeCheckout(r) \/ PilotCheckout(r) \/ CheckoutSuccess(r) \/ StripeWebhook(r)
               \/ ApproveReceipt(r) \/ RejectReceipt(r) \/ Commit(r)
        PROVE  PInv'
    <2>1. CheckoutSuccess(r) \/ StripeWebhook(r) => \E s \in Sessions : ConfirmStripe(r, s)
      BY DEF CheckoutSuccess, StripeWebhook
    <2> QED
      BY <1>5, <2>1, OtherPays, CommitPays
  <1> QED
    BY <1>1, <1>2, <1>3, <1>4, <1>5 DEF Next

LEMMA AlwaysPInv == Spec => [](IInv /\ PInv)
  <1>1. Init => IInv /\ PInv
    BY InitIInv, InitPInv
  <1>2. (IInv /\ PInv) /\ [Next]_vars => (IInv /\ PInv)'
    BY StepIInv, StepPInv
  <1> QED
    BY <1>1, <1>2, PTL DEF Spec

\* The row and the receipts change in few steps only.
LEMMA OnlyWrites ==
  ASSUME Next, UNCHANGED <<sub, receipt>> => FALSE
  PROVE  \E r \in Threads : SyncPlan(r) \/ ReportReceipt(r) \/ Commit(r)
  <1>1. \A r \in Threads : \/ Register(r) \/ InsertAccount(r) \/ Enrol(r)
                           \/ CheckoutPage(r) \/ CheckoutPost(r) \/ FindCustomer(r)
          => UNCHANGED <<sub, receipt>>
    BY DEF Register, InsertAccount, Enrol, CheckoutPage, CheckoutPost, FindCustomer, Local
  <1>2. \A r \in Threads : \/ Repair(r) \/ Pay(r) \/ Ask(r) \/ StripeCheckout(r) \/ PilotCheckout(r)
          => UNCHANGED <<sub, receipt>>
    BY DEF Repair, Pay, Ask, StripeCheckout, PilotCheckout, Local
  <1>3. \A r \in Threads : \/ CheckoutSuccess(r) \/ StripeWebhook(r) \/ ApproveReceipt(r)
                           \/ RejectReceipt(r) \/ Conflict(r)
          => UNCHANGED <<sub, receipt>>
    BY DEF CheckoutSuccess, StripeWebhook, ConfirmStripe, ApproveReceipt, RejectReceipt, Conflict, Local
  <1>4. DeleteCustomer \/ TravellerCheckout \/ StripePays \/ Maintain => UNCHANGED <<sub, receipt>>
    BY DEF DeleteCustomer, TravellerCheckout, StripePays, Maintain, Local
  <1> QED
    BY <1>1, <1>2, <1>3, <1>4 DEF Next

-----------------------------------------------------------------------------
(* Theorems *)

\* Every row, key and request holds values of its type, whatever the requests do.
THEOREM TypeCorrect == Spec => []TypeOK
  <1>1. IInv => TypeOK
    BY DEF IInv, WorldOK, TypeOK
  <1> QED
    BY <1>1, AlwaysIInv, PTL

\* subscription_allows_access lets an office in only when EN1, Stripe, a reviewer or the
\* pilot vouched for it, or checkout_success took a traveller's session for a payment.
THEOREM AccessOnGrounds == Spec => []AccessWasGranted
  <1>1. IInv => AccessWasGranted
    BY DEF IInv, Sound, Granted, AccessWasGranted, HasAccess
  <1> QED
    BY <1>1, AlwaysIInv, PTL

\* process_promo_activation asks for another customer only when it knows of none or EN1 no
\* longer has the one it knows, with a key per plan and user: so EN1 never makes two
\* subscriptions for two customers it has, unless two plans or users, or Stripe, are
\* involved.
THEOREM NoSecondPayment == Spec => []RetryPaysOnce
  <1>1. IInv /\ PInv => RetryPaysOnce
    <2> SUFFICES ASSUME IInv, PInv, NEW a \in paid, NEW b \in paid, Double(a, b), ~StripePaid,
                        \A j, k \in Repairs : MadeFor(j) = MadeFor(k)
                 PROVE  FALSE
      BY DEF RetryPaysOnce
    <2>1. /\ a \in [customer : Customers, code : Codes, plan : PlanCodes]
          /\ b \in [customer : Customers, code : Codes, plan : PlanCodes]
      BY DEF IInv, WorldOK
    <2>2. a.customer # b.customer /\ Live(a.customer) /\ Live(b.customer)
      BY <2>1 DEF Double, Live
    <2>3. Used(a.customer) /\ Used(b.customer)
      BY DEF Used
    <2>4. RepairMade(a.customer) /\ RepairMade(b.customer)
      BY <2>2, <2>3 DEF PInv, OthersRepaired
    <2>5. PICK j \in Repairs : j[2] = a.customer
      BY <2>4 DEF RepairMade
    <2>6. PICK k \in Repairs : k[2] = b.customer
      BY <2>4 DEF RepairMade
    <2>7. j[1] = k[1]
      <3>1. \A i \in Repairs : /\ i[1] \in {"repair"} \X (PlanCodes \X Users)
                               /\ i \in bootKeys
        BY DEF Repairs, IInv, WorldOK
      <3>2. \A i \in Repairs : i[1] = <<"repair", <<i[1][2][1], i[1][2][2]>>>>
        BY <3>1
      <3> QED
        BY <3>2 DEF MadeFor
    <2>8. j[2] = k[2]
      BY <2>7 DEF PInv, KeysOK, Repairs
    <2> QED
      BY <2>2, <2>5, <2>6, <2>8
  <1> QED
    BY <1>1, AlwaysPInv, PTL

\* No request that loaded the row earlier undoes activate_subscription.
THEOREM NoUndoneActivation == Spec => ActivationStays
  <1> DEFINE A == sub.status = "active" => sub'.status = "active"
  <1>1. IInv /\ [Next]_vars => [A]_vars
    <2> SUFFICES ASSUME IInv, Next, sub' # sub, sub.status = "active" PROVE sub'.status = "active"
      BY DEF vars
    <2>1. PICK r \in Threads : SyncPlan(r) \/ ReportReceipt(r) \/ Commit(r)
      BY OnlyWrites
    <2>2. CASE SyncPlan(r)
      <3> DEFINE q == req[r]
                 new == [q.saw EXCEPT !.plan = q.plan]
      <3>1. sub' = Merge(sub, q.saw, new) /\ q.saw \in Row
        BY <2>2 DEF SyncPlan, IInv, Request
      <3>2. new.status = q.saw.status
        BY <3>1 DEF Row
      <3> QED
        BY <3>1, <3>2 DEF Merge
    <2>3. CASE ReportReceipt(r)
      BY <2>3 DEF ReportReceipt
    <2>4. CASE Commit(r)
      BY <2>4, CommitWrites
    <2> QED
      BY <2>1, <2>2, <2>3, <2>4
  <1>2. Spec => [][A]_vars
    BY <1>1, AlwaysIInv, PTL DEF Spec
  <1> QED
    BY <1>2 DEF ActivationStays

\* approve_receipt and reject_receipt decide a receipt once, unless two of them overlapped.
THEOREM DecisionsStand == Spec => DecisionStands
  <1> DEFINE A == \A i \in Receipts : receipt[i].status \in {"approved", "rejected"} =>
                    receipt'[i] = receipt[i] \/ raced'
  <1>1. IInv /\ [Next]_vars => [A]_vars
    <2> SUFFICES ASSUME IInv, Next, NEW i \in Receipts, receipt' # receipt,
                        receipt[i].status \in {"approved", "rejected"}
                 PROVE  receipt'[i] = receipt[i] \/ raced'
      BY DEF vars
    <2>1. PICK r \in Threads : SyncPlan(r) \/ ReportReceipt(r) \/ Commit(r)
      BY OnlyWrites
    <2>2. CASE SyncPlan(r)
      BY <2>2 DEF SyncPlan
    <2>3. CASE ReportReceipt(r)
      <3>1. receipt \in [Receipts -> Receipt]
        BY DEF IInv, WorldOK
      <3> QED
        BY <2>3, <3>1 DEF ReportReceipt, Reported
    <2>4. CASE Commit(r)
      <3>1. raced' = (raced \/ req[r].stale)
        BY <2>4 DEF Commit
      <3>2. CASE i # req[r].receipt
        BY <2>4, <3>2, CommitWrites
      <3>3. CASE i = req[r].receipt
        <4>1. i # 0
          BY DEF Receipts
        <4> QED
          BY <2>4, <3>1, <3>3, <4>1, CommitWrites
      <3> QED
        BY <3>2, <3>3
    <2> QED
      BY <2>1, <2>2, <2>3, <2>4
  <1>2. Spec => [][A]_vars
    BY <1>1, AlwaysIInv, PTL DEF Spec
  <1> QED
    BY <1>2 DEF DecisionStands
=============================================================================
