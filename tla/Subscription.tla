---------------------------- MODULE Subscription -----------------------------
(***************************************************************************)
(* How one brokerage comes to pay for the platform: sign-up                *)
(* (services/saas_signup.py), the checkout by promotion code at the        *)
(* commercial system EN1 (services/payments/service.py), by bank receipt   *)
(* (services/saas_receipt_verify.py), by Stripe or without payment in the  *)
(* pilot (services/saas_billing.py), and the handlers of web/routes.py.    *)
(*                                                                         *)
(* A request reads the subscription, may call EN1 or Stripe, and writes    *)
(* the columns it changed when it commits.  checkout_post and the webhook  *)
(* are async: between its first read and its last call such a handler      *)
(* holds the event loop, so two of them never call EN1 at once.            *)
(***************************************************************************)
EXTENDS Integers, FiniteSets

CONSTANTS
  Plans,         \* plan codes
  Sold,          \* plans sold on line: those without contact_sales
  DefaultPlan,   \* the code stored for a Stripe session that names no plan
  Codes,         \* promotion codes
  Users,         \* e-mails of the office's users
  Threads,       \* requests in service at once
  MaxRequests,   \* bound: requests served
  MaxCustomers,  \* bound: customers EN1 ever makes for this brokerage
  MaxReceipts,   \* bound: receipts ever reported
  MaxSessions,   \* bound: Stripe sessions ever opened
  MaxDeletes     \* bound: customers EN1 deletes

NoPlan == "none"
NoCode == "receipt"    \* a checkout without promotion code: by receipt
NoUser == "nobody"

ASSUME SubscriptionAssumption ==
  /\ NoPlan \notin Plans /\ Sold \subseteq Plans /\ DefaultPlan # NoPlan /\ NoCode \notin Codes
  /\ MaxRequests \in Nat /\ MaxCustomers \in Nat /\ MaxReceipts \in Nat
  /\ MaxSessions \in Nat /\ MaxDeletes \in Nat

PlanCodes == Plans \cup {DefaultPlan}
Customers == 1 .. MaxCustomers
Receipts == 1 .. MaxReceipts
Sessions == 1 .. MaxSessions
NoCustomer == 0
Foreign == -1          \* a customer id given by Stripe, unknown to EN1
CustomerIds == Customers \cup {NoCustomer, Foreign}

VARIABLES
  org,        \* the organization exists: registered, or a legacy one without subscription
  sub,        \* its org_subscriptions row
  receipt,    \* saas_payment_receipts
  session,    \* Stripe checkout sessions whose metadata name the organization
  customer,   \* EN1's customers made for it
  bootKeys,   \* EN1: idempotency keys of bootstrap, with the customer each gave
  paid,       \* EN1: the idempotency keys of checkout, a subscription made for each
  settings,   \* what the settings of the platform answer: EN1 commerce enabled, Stripe key present
  req,        \* the request of each thread
  served,     \* requests begun so far
  pilot,      \* history: an activation without payment has been asked for
  raced,      \* history: a review of a receipt has committed on a stale read
  borrowed    \* history: a traveller's session was taken for a payment of the office

vars == <<org, sub, receipt, session, customer, bootKeys, paid, settings, req, served,
          pilot, raced, borrowed>>

Row == [status : {"NONE", "pending", "active"}, plan : PlanCodes \cup {NoPlan},
        provider : {"piloto", "en1", "stripe", "bank_manual"},
        customer : CustomerIds, seats : BOOLEAN]
Receipt == [status : {"NONE", "pending", "approved", "rejected"}, plan : PlanCodes \cup {NoPlan}]

\* kind: what the session is for; the public channel's sell a policy to a traveller and
\* carry the id of the office as well.
Session == [state : {"none", "open", "complete"}, plan : PlanCodes \cup {NoPlan},
            kind : {"saas", "channel"}]

\* plan: the one EN1 last subscribed the customer to, which its entitlement answers.
Customer == [state : {"none", "live", "deleted"}, plan : PlanCodes \cup {NoPlan}]

\* saw: the row as loaded; new: as the handler leaves it; code, user: the promotion code
\* given and who gives it; cust: the EN1 customer it pays for; again: it has already
\* repaired the customer once.
Request == [step : {"idle", "insert", "enrol", "sync", "report", "boot", "pay", "ask",
                    "repair", "commit"},
            plan : PlanCodes \cup {NoPlan}, saw : Row, new : Row,
            code : Codes \cup {NoCode}, user : Users \cup {NoUser},
            cust : CustomerIds, again : BOOLEAN, receipt : Receipts \cup {0},
            verdict : {"none", "approved", "rejected"}, stale : BOOLEAN]

NoRow == [status |-> "NONE", plan |-> NoPlan, provider |-> "piloto",
          customer |-> NoCustomer, seats |-> FALSE]
Idle == [step |-> "idle", plan |-> NoPlan, saw |-> NoRow, new |-> NoRow,
         code |-> NoCode, user |-> NoUser, cust |-> NoCustomer, again |-> FALSE, receipt |-> 0, verdict |-> "none",
         stale |-> FALSE]

Init ==
  /\ org \in BOOLEAN
  /\ sub = NoRow
  /\ receipt = [i \in Receipts |-> [status |-> "NONE", plan |-> NoPlan]]
  /\ session = [s \in Sessions |-> [state |-> "none", plan |-> NoPlan, kind |-> "saas"]]
  /\ customer = [c \in Customers |-> [state |-> "none", plan |-> NoPlan]]
  /\ bootKeys = {}
  /\ paid = {}
  /\ settings \in [en1 : BOOLEAN, stripe : BOOLEAN]
  /\ req = [r \in Threads |-> Idle]
  /\ served = 0
  /\ pilot = FALSE
  /\ raced = FALSE
  /\ borrowed = FALSE

-----------------------------------------------------------------------------
(* Requests: reading, the call steps, committing *)

Local == <<org, sub, receipt, pilot, raced, borrowed>>
Remote == <<session, customer, bootKeys, paid>>

\* The request takes its next step, or ends.
Moves(r, q) == req' = [req EXCEPT ![r] = q]

Begin(r, q) ==
  /\ req[r].step = "idle" /\ served < MaxRequests
  /\ Moves(r, [q EXCEPT !.saw = sub])
  /\ served' = served + 1
  /\ UNCHANGED settings

\* An async handler starts only when none is between its first read and its last call.
LoopFree == \A r \in Threads : req[r].step \notin {"sync", "report", "boot", "pay", "ask", "repair"}

\* subscription_allows_access, asked at log-in: an organization without a row has access.
HasAccess(row) == row.status \in {"NONE", "active"}

\* activate_subscription: whatever the status was.
Activated(row, provider) == [row EXCEPT !.status = "active", !.provider = provider]

\* The UPDATE of the ORM: only the columns that differ from what was loaded.
Merge(stored, saw, new) ==
  [status |-> IF new.status = saw.status THEN stored.status ELSE new.status,
   plan |-> IF new.plan = saw.plan THEN stored.plan ELSE new.plan,
   provider |-> IF new.provider = saw.provider THEN stored.provider ELSE new.provider,
   customer |-> IF new.customer = saw.customer THEN stored.customer ELSE new.customer,
   seats |-> IF new.seats = saw.seats THEN stored.seats ELSE new.seats]

-----------------------------------------------------------------------------
(* EN1 (external, as the client of services/en1_commercial.py sees it) *)

FreshCustomers == {c \in Customers : customer[c].state = "none"}

\* bootstrap: a key already seen is answered with the customer it gave.
Bootstrapped(key, c) ==
  \/ /\ <<key, c>> \in bootKeys
     /\ UNCHANGED <<customer, bootKeys>>
  \/ /\ \A k \in bootKeys : k[1] # key
     /\ c \in FreshCustomers /\ \A d \in FreshCustomers : c <= d
     /\ customer' = [customer EXCEPT ![c].state = "live"]
     /\ bootKeys' = bootKeys \cup {<<key, c>>}

\* checkout: a key already seen is answered without a second subscription.
CheckedOut(key) ==
  /\ customer[key.customer].state = "live"
  /\ paid' = paid \cup {key}
  /\ customer' = [customer EXCEPT ![key.customer].plan = key.plan]

\* customer_not_found.
Unknown(c) == c \in Customers => customer[c].state = "deleted"

Entitled(c) == customer[c].state = "live" /\ customer[c].plan # NoPlan

\* EN1 deletes a commercial customer on its own side.
DeleteCustomer ==
  \E c \in Customers :
    /\ customer[c].state = "live"
    /\ Cardinality({d \in Customers : customer[d].state = "deleted"}) < MaxDeletes
    /\ customer' = [customer EXCEPT ![c].state = "deleted"]
    /\ UNCHANGED <<Local, session, bootKeys, paid, settings, req, served>>

-----------------------------------------------------------------------------
(* Sign-up *)

\* registro_post, up to find_account_by_email.
Register(r) ==
  \E p \in Plans :
    /\ ~org
    /\ Begin(r, [Idle EXCEPT !.step = "insert", !.plan = p])
    /\ UNCHANGED <<Local, Remote>>

\* register_broker's flush: the unique e-mail makes a second registration wait for the
\* first, and fail when that one commits.
InsertAccount(r) ==
  /\ req[r].step = "insert"
  /\ \A o \in Threads : req[o].step = "enrol" => o = r
  /\ \A o \in Threads : ~(req[o].step = "commit" /\ req[o].saw = NoRow /\ ~org)
  /\ IF org
       THEN Moves(r, Idle)
       ELSE Moves(r, [req[r] EXCEPT !.step = IF settings.en1 THEN "enrol" ELSE "commit",
                                    !.new = [NoRow EXCEPT !.status = "pending",
                                                          !.plan = req[r].plan]])
  /\ UNCHANGED <<Local, Remote, settings, served>>

\* The bootstrap of a registration; the key holds the id of the new organization, so it
\* is new each time.  An error rolls the registration back, whatever EN1 has done.
Enrol(r) ==
  /\ req[r].step = "enrol"
  /\ \/ \E c \in Customers, answered \in BOOLEAN :
          /\ Bootstrapped(<<"signup", Cardinality(bootKeys)>>, c)
          /\ IF answered
               THEN Moves(r, [req[r] EXCEPT !.step = "commit", !.new.provider = "en1",
                                            !.new.customer = c])
               ELSE Moves(r, Idle)
     \/ Moves(r, Idle) /\ UNCHANGED <<customer, bootKeys>>
  /\ UNCHANGED <<Local, session, paid, settings, served>>

-----------------------------------------------------------------------------
(* Checkout while EN1 commerce is enabled *)

\* checkout_get: the plan may change as long as the subscription is pending.
CheckoutPage(r) ==
  \E p \in Sold :
    /\ org /\ sub.status = "pending" /\ sub.plan # p
    /\ Begin(r, [Idle EXCEPT !.step = "commit", !.new = [sub EXCEPT !.plan = p]])
    /\ UNCHANGED <<Local, Remote>>

\* checkout_post: the same change of plan first, committed at once.
SyncsPlan(row, p) == row.status = "pending" /\ row.plan # p /\ p \in Sold

\* Then the payment, by receipt or by promotion code.
Pays(code) == IF code = NoCode THEN "report" ELSE "boot"

CheckoutPost(r) ==
  \E p \in Plans, code \in Codes \cup {NoCode}, user \in Users :
    /\ org /\ settings.en1 /\ LoopFree /\ sub.status # "NONE"
    /\ LET step == IF SyncsPlan(sub, p) THEN "sync" ELSE Pays(code)
       IN  Begin(r, [Idle EXCEPT !.step = step, !.plan = p, !.new = sub,
                                 !.code = code, !.user = user])
    /\ UNCHANGED <<Local, Remote>>

\* The commit in the middle of checkout_post; the row is then loaded again.
SyncPlan(r) ==
  /\ req[r].step = "sync"
  /\ LET row == Merge(sub, req[r].saw, [req[r].saw EXCEPT !.plan = req[r].plan])
     IN  /\ sub' = row
         /\ Moves(r, [req[r] EXCEPT !.saw = row, !.new = row, !.step = Pays(req[r].code)])
  /\ UNCHANGED <<org, receipt, pilot, raced, borrowed, Remote, settings, served>>

\* create_receipt_report.
Reported(i, p) ==
  /\ receipt[i].status = "NONE" /\ \A j \in 1 .. i - 1 : receipt[j].status # "NONE"
  /\ receipt' = [receipt EXCEPT ![i] = [status |-> "pending", plan |-> p]]

\* The branch of checkout_post that keeps the uploaded receipt and commits it.
ReportReceipt(r) ==
  /\ req[r].step = "report"
  /\ \E i \in Receipts : Reported(i, req[r].plan)
  /\ Moves(r, Idle)
  /\ UNCHANGED <<org, sub, pilot, raced, borrowed, Remote, settings, served>>

\* Variant: the key also holds the correlation id, new in each request.
RepairKeyAnew(p, user) == <<"repair", <<p, user, Cardinality(bootKeys)>>>>

\* The key of a repair: plan and e-mail, within the office.
RepairKey(p, user) == <<"repair", <<p, user>>>>

\* The customer EN1 answers to the repair a request asks for.
Repaired(r, c) == Bootstrapped(RepairKey(req[r].new.plan, req[r].user), c)

\* The key of a checkout.
CheckoutKey(c, code, p) == [customer |-> c, code |-> code, plan |-> p]

\* _rebootstrap_customer: the columns of the mirror follow the customer it got.
Rebootstrap(r, c) ==
  /\ Repaired(r, c)
  /\ Moves(r, [req[r] EXCEPT !.step = "pay", !.cust = c, !.new.customer = c,
                             !.new.provider = "en1"])

\* The handler answers its error with a page: what it changed so far is committed.
Fails(r) == Moves(r, [req[r] EXCEPT !.step = "commit"])

\* process_promo_activation, to the first call: a customer is made if none is known.
FindCustomer(r) ==
  /\ req[r].step = "boot"
  /\ \/ /\ req[r].saw.customer # NoCustomer
        /\ Moves(r, [req[r] EXCEPT !.step = "pay", !.cust = req[r].saw.customer])
        /\ UNCHANGED <<customer, bootKeys>>
     \/ /\ req[r].saw.customer = NoCustomer
        /\ \/ \E c \in Customers : Rebootstrap(r, c)
           \/ \E c \in Customers : Repaired(r, c) /\ Fails(r)
  /\ UNCHANGED <<Local, session, paid, settings, served>>

\* customer_not_found: repaired once, then an error.
Stale(r) == Moves(r, [req[r] EXCEPT !.step = IF req[r].again THEN "commit" ELSE "repair"])

Repair(r) ==
  /\ req[r].step = "repair"
  /\ \/ \E c \in Customers :
          /\ Repaired(r, c)
          /\ Moves(r, [req[r] EXCEPT !.step = "pay", !.cust = c, !.again = TRUE,
                                     !.new.customer = c, !.new.provider = "en1"])
     \/ Fails(r) /\ UNCHANGED <<customer, bootKeys>>
  /\ UNCHANGED <<Local, session, paid, settings, served>>

\* The first call of _run_checkout: EN1 subscribes the customer; its answer may be lost.
Pay(r) ==
  /\ req[r].step = "pay"
  /\ \/ /\ req[r].cust \in Customers
        /\ CheckedOut(CheckoutKey(req[r].cust, req[r].code, req[r].new.plan))
        /\ \/ Moves(r, [req[r] EXCEPT !.step = "ask"])
           \/ Fails(r)
     \/ Fails(r) /\ UNCHANGED <<customer, paid>>
     \/ /\ Unknown(req[r].cust)
        /\ Stale(r)
        /\ UNCHANGED <<customer, paid>>
  /\ UNCHANGED <<Local, session, bootKeys, settings, served>>

\* The second call: the subscription is active only when EN1 says it is entitled, with
\* the plan and the seat limits EN1 answers.
Ask(r) ==
  /\ req[r].step = "ask"
  /\ LET c == req[r].cust
     IN  \/ /\ Entitled(c)
            /\ Moves(r, [req[r] EXCEPT !.step = "commit",
                           !.new = [Activated(@, "en1") EXCEPT !.customer = c, !.seats = TRUE,
                                                               !.plan = customer[c].plan]])
         \/ customer[c].state = "deleted" /\ Stale(r)
         \/ Fails(r)
  /\ UNCHANGED <<Local, Remote, settings, served>>

-----------------------------------------------------------------------------
(* Checkout with Stripe, or without payment, while EN1 commerce is disabled *)

\* Variant: every checkout starts again from pending.
StartedAfresh(row, p) ==
  [row EXCEPT !.plan = p, !.status = "pending"]

\* start_checkout: the plan is written in any case; an active subscription stays so.
Started(row, p) ==
  IF row.status = "NONE"
    THEN [NoRow EXCEPT !.status = "pending", !.plan = p]
    ELSE [row EXCEPT !.plan = p, !.status = IF @ = "active" THEN @ ELSE "pending"]

\* Stripe opens a session with the metadata it is given.
Opened(s, p, kind) ==
  /\ session[s].state = "none" /\ \A t \in 1 .. s - 1 : session[t].state # "none"
  /\ session' = [session EXCEPT ![s] = [state |-> "open", plan |-> p, kind |-> kind]]

StripeCheckout(r) ==
  \E p \in Plans, s \in Sessions :
    /\ org /\ ~settings.en1 /\ settings.stripe /\ LoopFree
    /\ Begin(r, [Idle EXCEPT !.step = "commit", !.new = Started(sub, p)])
    /\ Opened(s, p, "saas")
    /\ UNCHANGED <<Local, customer, bootKeys, paid>>

\* confirm_piloto_payment, in the request of checkout_post.
PilotCheckout(r) ==
  \E p \in Plans :
    /\ org /\ ~settings.en1 /\ ~settings.stripe /\ LoopFree
    /\ Begin(r, [Idle EXCEPT !.step = "commit", !.new = Activated(Started(sub, p), "piloto")])
    /\ pilot' = TRUE
    /\ UNCHANGED <<org, sub, receipt, raced, borrowed, Remote>>

\* A traveller goes to pay for a policy at the office's public channel
\* (services/public_channel_payments.py, start_payment_checkout): the metadata name the
\* office, and no plan.
TravellerCheckout ==
  \E s \in Sessions :
    /\ org /\ settings.stripe /\ Opened(s, DefaultPlan, "channel")
    /\ UNCHANGED <<Local, customer, bootKeys, paid, settings, req, served>>

\* Whoever opened the session pays at Stripe (external).
StripePays ==
  \E s \in Sessions :
    /\ session[s].state = "open"
    /\ session' = [session EXCEPT ![s].state = "complete"]
    /\ UNCHANGED <<Local, customer, bootKeys, paid, settings, req, served>>

\* Variant: any session of the organization will do.
KnownSession(s) == session[s].state # "none"

\* The status activate_from_stripe_session asks of the session.
PaidSession(s) == session[s].state = "complete"

\* activate_from_stripe_session: the plan is that of the session; the customer id Stripe
\* gives with a subscription goes to the column of EN1's.
FromSession(s) ==
  [Activated(Started(sub, session[s].plan), "stripe") EXCEPT
     !.customer = IF session[s].kind = "saas" THEN Foreign ELSE @]

\* It does not look at the product of the session.
ConfirmStripe(r, s) ==
  /\ PaidSession(s)
  /\ Begin(r, [Idle EXCEPT !.step = "commit", !.new = FromSession(s)])
  /\ borrowed' = (borrowed \/ session[s].kind = "channel")
  /\ UNCHANGED <<org, sub, receipt, pilot, raced, Remote>>

\* checkout_success, once or more, with whatever session id its address carries.
CheckoutSuccess(r) == settings.stripe /\ \E s \in Sessions : ConfirmStripe(r, s)

\* Stripe delivers the event, once or more; this async handler leaves the sessions of the
\* public channel to PublicCheckout.
StripeWebhook(r) ==
  LoopFree /\ \E s \in Sessions : session[s].kind = "saas" /\ ConfirmStripe(r, s)

-----------------------------------------------------------------------------
(* The tray of receipts *)

\* Variant: any receipt can be approved.
ReviewableAgain(i) == receipt[i].status # "NONE"

\* Only a pending receipt is decided.
Reviewable(i) == receipt[i].status = "pending"

\* approve_receipt activates the subscription on whatever plan it has by then.
ApproveReceipt(r) ==
  \E i \in Receipts :
    /\ Reviewable(i) /\ sub.status # "NONE"
    /\ Begin(r, [Idle EXCEPT !.step = "commit", !.new = Activated(sub, "bank_manual"),
                             !.receipt = i, !.verdict = "approved"])
    /\ UNCHANGED <<Local, Remote>>

RejectReceipt(r) ==
  \E i \in Receipts :
    /\ Reviewable(i)
    /\ Begin(r, [Idle EXCEPT !.step = "commit", !.new = sub, !.receipt = i,
                             !.verdict = "rejected"])
    /\ UNCHANGED <<Local, Remote>>

-----------------------------------------------------------------------------
(* The end of a request *)

Reviews(r) == req[r].receipt # 0

\* Another review of the same receipt becomes stale.
Outdated(r) ==
  [o \in Threads |->
     IF o = r THEN Idle
     ELSE [req[o] EXCEPT !.stale = @ \/ (Reviews(r) /\ req[o].receipt = req[r].receipt)]]

Commit(r) ==
  /\ req[r].step = "commit"
  /\ ~(req[r].saw.status = "NONE" /\ sub.status # "NONE" /\ req[r].new.status # "NONE")
  /\ sub' = Merge(sub, req[r].saw, req[r].new)
  /\ org' = (org \/ req[r].new.status # "NONE")
  /\ receipt' = IF Reviews(r) THEN [receipt EXCEPT ![req[r].receipt].status = req[r].verdict]
                              ELSE receipt
  /\ raced' = (raced \/ req[r].stale)
  /\ req' = Outdated(r)
  /\ UNCHANGED <<pilot, borrowed, Remote, settings, served>>

\* The unique organization_id: the row was inserted by another request meanwhile.
Conflict(r) ==
  /\ req[r].step = "commit"
  /\ req[r].saw.status = "NONE" /\ sub.status # "NONE" /\ req[r].new.status # "NONE"
  /\ Moves(r, Idle)
  /\ UNCHANGED <<Local, Remote, settings, served>>

\* The maintenance page turns EN1 commerce on or off, or sets the Stripe key.
Maintain ==
  /\ served < MaxRequests
  /\ settings' \in [en1 : BOOLEAN, stripe : BOOLEAN] /\ settings' # settings
  /\ served' = served + 1
  /\ UNCHANGED <<Local, Remote, req>>

Next ==
  \/ \E r \in Threads :
       \/ Register(r) \/ InsertAccount(r) \/ Enrol(r)
       \/ CheckoutPage(r) \/ CheckoutPost(r) \/ SyncPlan(r) \/ ReportReceipt(r)
       \/ FindCustomer(r) \/ Repair(r) \/ Pay(r) \/ Ask(r)
       \/ StripeCheckout(r) \/ PilotCheckout(r) \/ CheckoutSuccess(r) \/ StripeWebhook(r)
       \/ ApproveReceipt(r) \/ RejectReceipt(r)
       \/ Commit(r) \/ Conflict(r)
  \/ DeleteCustomer \/ TravellerCheckout \/ StripePays \/ Maintain

Spec == Init /\ [][Next]_vars

-----------------------------------------------------------------------------
(* Properties *)

TypeOK ==
  /\ org \in BOOLEAN /\ sub \in Row
  /\ receipt \in [Receipts -> Receipt] /\ session \in [Sessions -> Session]
  /\ customer \in [Customers -> Customer]
  /\ bootKeys \subseteq (({"signup"} \X Nat) \cup ({"repair"} \X (PlanCodes \X Users))) \X Customers
  /\ paid \subseteq [customer : Customers, code : Codes, plan : PlanCodes]
  /\ settings \in [en1 : BOOLEAN, stripe : BOOLEAN]
  /\ req \in [Threads -> Request] /\ served \in 0 .. MaxRequests
  /\ pilot \in BOOLEAN /\ raced \in BOOLEAN /\ borrowed \in BOOLEAN

StripePaid == \E s \in Sessions : session[s].state = "complete" /\ session[s].kind = "saas"

\* What vouches for a payment of the office: EN1 subscribed a customer of it, Stripe
\* completed a subscription session of it, a reviewer approved a receipt, or the pilot
\* lets everybody in.  A receipt approved and rejected at once may end as rejected.
Vouched ==
  \/ \E c \in Customers : customer[c].plan # NoPlan
  \/ StripePaid
  \/ \E i \in Receipts : receipt[i].status = "approved" \/ (raced /\ receipt[i].status = "rejected")
  \/ pilot

\* An office has access only after somebody vouched for its payment, or after the success
\* page took a traveller's session for one (AccessWasPaid drops this last case).
AccessWasGranted == org /\ HasAccess(sub) /\ sub # NoRow => Vouched \/ borrowed

\* Not so in the code: the success page activates an office for any completed session
\* that carries its id, although the webhook tells the two products apart.
AccessWasPaid == org /\ HasAccess(sub) /\ sub # NoRow => Vouched

\* Two subscriptions EN1 made for one office, one plan and one code, both with a customer
\* it still has.
Double(a, b) ==
  /\ a # b /\ a.code = b.code /\ a.plan = b.plan
  /\ customer[a.customer].state = "live" /\ customer[b.customer].state = "live"

\* What a customer made by a repair was made for: plan and user.
Repairs == {k \in bootKeys : k[1][1] = "repair"}
MadeFor(k) == <<k[1][2][1], k[1][2][2]>>

\* However often a promotion checkout is repeated, after lost answers, deletions and
\* repairs or from two windows, the office pays for a plan once ("sin un segundo pago").
\* Excepted are an office whose customers were repaired for two plans or by two users,
\* and one that paid through Stripe, whose customer id hides EN1's (UsersPayOnce drops the
\* first case).
RetryPaysOnce ==
  \A a, b \in paid : Double(a, b) =>
    StripePaid \/ \E j, k \in Repairs : MadeFor(j) # MadeFor(k)

\* Not so in the code: two users of an office that has no customer yet make it two, and
\* each is subscribed.
UsersPayOnce == \A a, b \in paid : Double(a, b) => StripePaid

\* Nor is it so that a retry cannot pay again: with another code the key is another.
RetryNeverPaysAgain ==
  \A a, b \in paid : a.customer = b.customer /\ a.plan = b.plan => a = b

\* An activation is never undone by another request that read the row earlier.
ActivationStays == [][sub.status = "active" => sub'.status = "active"]_vars

\* A receipt decided stays as decided, unless two reviewers decide it at once.
DecisionStands ==
  [][\A i \in Receipts : receipt[i].status \in {"approved", "rejected"} =>
       receipt'[i] = receipt[i] \/ raced']_vars
=============================================================================
