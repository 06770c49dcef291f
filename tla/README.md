# Formal verification of the broker platform

TLA+ models, model-checking runs and machine-checked proofs for the insurance
broker platform under `src/` (the Python package `src/corredores`, a FastAPI
application over SQLAlchemy and PostgreSQL).  The models are written from the
code; `PROJECT.json` maps every definition to the lines it stands for.

## 1. The system

A broker's office runs its whole business on one database: clients, policies,
quotes, collections, commissions, a CRM, a public sales channel for travel
insurance, a mobile API for producers, and the subscription by which offices pay
for the platform itself.

| Component | State | Operations | Hard behaviour | Module |
|---|---|---|---|---|
| Public sales channel (`services/public_channel*.py`, `web/public_channel_routes.py`) | quote, travelers, payment attempts, emergency contact | wizard steps, checkout, confirmation by page and webhook, issuance of client and policy | two confirmations at once, redelivery, late or wrong payment, partial commit, changes after checkout | `PublicCheckout` |
| Collections (`services/payments/premium.py`, `payment_plan_edit.py`, `promises.py`, `installment_status.py`) | premium, installments, allocations, promises, tasks | record a payment, promise, break, fulfil, edit amounts, regenerate plan, correct premium | stale balances, edits refused after they were made, regeneration against payment | `Collections` |
| Commissions (`commission.py`, `catalog_admin.py`), renewals and quotations (`renewals.py`, `quote_orchestrator.py`) | commission and splits of a policy, renewals, quote requests | derived by `materialize_portfolio.py`, advanced and completed by hand | derived twice, rounding, reopened renewals | `Portfolio` |
| Imports (`import_engine.py`, `excel_import.py`, `auto_e2e.py`, `policy_photo_*.py`) | staged files, policies, parties, payments | preview, commit of each profile, photograph and confirm | repeated import, a file that fails halfway, the same number twice | `Portfolio` |
| Producer portfolio (`producer_portfolio.py`) | dated PRIMARY rows of a policy | assign, reassign | two producers at once, dates | `Portfolio`, `Outreach` |
| CRM (`crm_service.py`, `crm_access.py`, `web/crm_*.py`) | prospects, opportunities, activities | create, assign, move, win, lose, quote, convert | converted twice, stamps of a stage, scope written twice | `Crm` |
| SaaS subscription (`saas_*.py`, `payments/service.py`, `en1_commercial.py`) | subscription, receipts, EN1's and Stripe's side | register, check out four ways, review receipts | lost answers and repairs, stale activation, two reviewers | `Subscription` |
| Organization access (`org_access_admin.py`, `seats.py`, `tenant.py`, `web/mobile/tokens.py`) | memberships, roles, invitations, accounts, seats, refresh tokens | invite, accept, change role, deactivate, revoke, grant producer access, bind at login, rotate tokens | seat limits that shrink, the last owner, old invitations, tokens of members put out | `OrgAccess` |
| Carrier incentives (`carrier_incentives.py`, `web/carrier_incentive_routes.py`) | plans, eligible transactions, settlements | register, confirm, reverse, claim, recognize, pay | recalculation against the close, one plan's transaction under another's address | `Incentives` |
| Mobile API (`mobile_writes.py`, `web/mobile`), documents (`documents.py`), statements (`statement_delivery.py`, `mail.py`), settings (`runtime_settings.py`) | activities, documents and their files, deliveries, cached settings | idempotent writes, upload, delete, send by hand and by the daily batch | retries, answers before commits, files and mails that a rollback does not undo | `Outreach`, tokens in `OrgAccess` |
| Claims (`claims.py`) | stage of a claim | advance | stage graph | not modelled |
| Reports, dashboards, labels, seeds | none | read | none | not modelled |

**How a request runs.**  Plain `def` handlers run on a pool of threads; an
`async def` handler blocks the event loop, so such handlers run one at a time.
`get_session` (`web/deps.py:37`) opens one transaction per request, commits when
the handler *returns* and rolls back when it *raises*; with the FastAPI versions
`requirements.txt` allows, that commit may run after the answer has left.  The
consequences shape every model here:

* a handler that catches a `ValueError` and answers with a page or a redirect
  *commits* whatever the service had changed before it raised;
* whoever takes a 200 for a promise (Stripe, a phone) may have it before the
  commit, and a commit that then fails is not asked for again (`CommitLost` in
  `PublicCheckout`, `Answer` in `Outreach`);
* the database runs at READ COMMITTED, there are no version columns and hardly
  any explicit locks, and autoflush is off: a request decides on rows it loaded
  earlier and writes back the columns that differ from what it loaded.

So each request has a step that loads (`Begin`, which leaves a *plan* of what
will be written) and a later step that writes (`Commit`, through the `Merge` or
`Written` of the ORM).  Between the two any other request may commit; then the
plan is `stale`, and a history variable (`raced`, `seen`, `behind`) remembers that
a stale plan was committed.  No action reads a history variable: properties that
hold only of requests that do not overlap name it, and the others hold in any case.

**How components interact.**  They share the database and call one another in one
transaction: issuing a public quote creates the client and the policy and wins
the CRM opportunity; importing or registering a policy materializes commissions
and renewals of the whole organization; a payment fulfils promises; revoking a
member revokes tokens; what a phone lists follows the producer rows of policies.
Where a component only reads another's state the module keeps that state
coarsely and changes it by an action of the environment: `Reassign` and
`BalanceChanges` in `Outreach`, `RegisterParty` in `Crm`, the opportunity of
`PublicCheckout`.  `PaidSale` is the composition across the sale: the customer's
view of checkout, confirmation and issuance.

## 2. Modules

| Module | Role |
|---|---|
| `PublicCheckout` | one public quote from creation to policy, with Stripe and the CRM opportunity |
| `PaidSale` | what a sale promises: an amount is charged once, then covered by one policy of that amount |
| `Collections` | the collection of one policy's premium |
| `OrgAccess` | the memberships of one organization, their invitations, seats and tokens |
| `Subscription` | how one organization comes to pay for the platform |
| `Portfolio` | the policies of an organization and what is derived from them |
| `Crm` | prospects, opportunities and the customers they become |
| `Incentives` | incentive plans, their transactions and settlements |
| `Outreach` | activities, documents and statements of customers |
| `...Proofs` | theorems about the module of that name |
| `MC...` | values and symmetry for TLC |

### PublicCheckout

State: `quote` is the `public_quotes` row (status, trip, trip the plans were
calculated for, plan, premium, payment status, opportunity, client, policy);
`attempt` and `ref` are the payment attempts by amount, because the idempotency
key of an attempt is made of the quote and the amount; `stripe` is the provider's
side; `opp` the CRM opportunity with the client its prospect became; `policies`
the policies issued; `req` the request each thread is serving with the quote it
has loaded.

Each action is one handler or one part of it between two points at which another
request can act.  `Begin` loads the quote.  `Calculate`, `SelectPlan`,
`SaveTravelers`, `SaveEmergency` are the wizard.  `CheckoutRead` is
`start_checkout` up to the lookup of the attempt, `CheckoutReuse` and
`CheckoutCreate` its two outcomes.  `ResultPage`, `ResultMismatch`, `Webhook` and
`ConfirmSandbox` bring the answer of the provider; the `Confirm...` actions are
the seven outcomes of `apply_successful_payment` with
`issue_party_and_policy_from_paid_quote`.  `Merge` is the UPDATE the ORM emits.
`CommitLost` is a commit of the webhook that fails after its 200: `acked` holds the
sessions answered, each with whether it was committed.  `HoldsLock` tells the
confirmations that write a row before they look for the policy number, and so wait
for one another, from those that do not.  `Hooks` is the webhook: an `async def`
handler on the event loop, so the instances have one; the theorems hold for any set.

Abstractions: one quote; prices, trips and plans from small sets; the plan
snapshot is written with the plan and the premium; the beneficiaries are data
only; one currency; a Stripe session made by a checkout that then rolls back is
never shown to anybody and is left out.  `Reopens`, `Delayed`, `Drift` and
`Outage` are assumptions about the environment, one constant each.

### Collections

State: `premium`; `inst`, the installments with the money allocated to each and
its open collection tasks; `promise`; `today`; `req` with the rows each request
has read.  `PayCheck` and `PayCommit` are `record_payment` followed by
`fulfill_promises_for_installment`, cut where the insert has taken its key-share
lock on the installment; `NewPromise` is the promise handler with its
cancellations; `Refresh` is `refresh_overdue_promises`, which every view of the
board runs; `EditPremium`, `Regenerate` and `UpdateOpen` are the three plan edits
*with* the partial commits of a refusal; `Materialize` is the same
`materialize_portfolio` run by an edit of another policy.  `PlanIsFree` holds the
constraints the database enforces on a regeneration (two foreign keys and the
unique installment number).  Money is in cents and the shares are rounded half to
even, as `Decimal.quantize` does.  What a clerk types is in tenths of a cent
(`Tenders`): `record_payment` compares it as it was typed, and the column rounds it
(`Stored`), so that a payment of less than half a cent leaves an allocation of 0.00,
`dust`.

Abstractions: one policy with a plan; the amount of a promise, methods and notes
are data only; a month is a day of the model; `materialize_portfolio` looks the
tasks up when it writes them, except in `Materialize`, which uses what the
request read; the commissions and renewals it also makes are in `Portfolio`.

### OrgAccess

State: `member`, the rows of `org_memberships`, two at most for a person (one
under the pending subject `pending:<email>`, one under the subject of the
account, as the unique constraint allows); `invite`, the invitations with the row
they are for; `account`, who has a `BrokerAccount`; `limit`, the two seat limits;
`token`, the refresh tokens bound to the organization; `req`, the request of each
thread.

A request takes two steps.  Its own action (`InviteCollaborator`,
`AcceptInvitation`, `Revoke`, `GrantProducer`, `BindAtLogin`, ...) reads the rows,
takes the decisions of the handler and leaves its plan; `Commit` writes the plan,
or `RollBack` answers for the constraint it violates (`Conflict`).

The refusals that write something are actions of their own: `AcceptLate` (the
expired invitation is marked by the request that refuses it) and `AcceptRefused`
(the account made before the refusal is committed with the error page).

Abstractions: who performs an administrative act and with what permission,
passwords, names and the notification mail are left out; the custom roles of an
organization behave as its internal roles do; the producer profile that
`change_member_role` or `accept_invitation` links, and which
`grant_producer_system_access` requires ACTIVE, is left out; accounts are
active; tokens bound to no organization are left out; the several queries of one
handler are read at one instant.

### Subscription

State: `sub` is the `org_subscriptions` row of one organization (`org`: whether
it exists, registered or a legacy one without row); `receipt` the bank receipts,
`session` the Stripe sessions, of a subscription or of a traveller's checkout in the
public channel; `customer`, `bootKeys` and `paid` are EN1's side as its client sees
it: the customers made, the idempotency keys of `bootstrap` (a repair's holds plan
and user) and those of the subscriptions made, which hold customer, promotion code
and plan; `settings` decides which way to pay the page offers; `req` the request of
each thread; `borrowed` remembers that a traveller's session activated an office.

`Register`, `InsertAccount`, `Enrol` are `register_broker` cut at its flush and at
the call to EN1; `CheckoutPage` and `CheckoutPost` with `SyncPlan`,
`ReportReceipt`, `FindCustomer`, `Repair`, `Pay`, `Ask` are `checkout_post` cut at
its commit in the middle and at every call of `process_promo_activation`, each of
which may be answered, be lost or say that the customer is unknown;
`StripeCheckout`, `PilotCheckout`, `CheckoutSuccess`, `StripeWebhook` the other
ways; the webhook looks at the product of a session, the success page does not;
`ApproveReceipt` and `RejectReceipt` the review.  `LoopFree` is the event
loop that an async handler holds; the webhook and the pages in threads ignore it.

Abstractions: one organization; bank details, the receipt's file, prices and mail
are data only; the seats EN1 answers with are a flag; EN1 is external and does what
its client distinguishes: in particular it honours an idempotency key, which is what
the keys are sent for, and the model keeps everything the client puts into them.

### Portfolio

State: `policy` is a sequence, and `commission`, `renewal` and `producer` hold the
rows of each policy; `answers` the carrier requests of quotations; `person` counts
the parties filed under each document number; `rule` the commission rate and the
split; `file` and `capture` what is staged; `today`; `req`; `seen` what happened
that a property excepts.

`RegisterByHand`, `OneClick`, `ConfirmCapture`, `IssueOnline` and the `Import...`
actions register policies; `Materialize` is `materialize_portfolio` as the part of
each of them it is, over the whole organization.  `Done`, `FreshRows`, `Nth` say
which rows of a file are reached before the first that fails, and that the redirect
then commits them (origin `half`).  `Readings` are the ways a photograph can go: a
document refused after the policy was registered is caught by the one-click handler,
whose page commits the policy (origin `refused`).  `SetStatus`, `SameCarrier`, `Requote`, `NewQuote`,
`AnswerQuote` are the handlers of renewals and quotations; `SaveRates` and
`SaveSplit` change the rules; `ReassignPolicy` and `AssignToProducer` are the two
pages that reassign.  `Replaced` is the close and the insert in a savepoint, which
the partial unique index refuses when another row is open.  A request may `Die`
between its reading and its commit, with the staged file already gone.

Abstractions: all policies have one premium; payments are counted, their amounts
are in `Collections`; files are rows of number, person and status; texts of
workbooks and photographs, carriers, dates of validity and quote amounts are left
out; `paid hints` of an import file are not modelled.

### Crm

State: `prospect`, `opp`, `customer`, `activity` are the tables; `portfolio` the
customers each producer sees through his policies; `req` holds a plan of up to one
row of each table, as loaded and as it will be written.  `SetStage` and
`RefusedLost` are the pages that move an opportunity, the second one the refusal of
a loss without reason, which is committed and remembered in `slipped` until the row
is won or properly lost; `Quote` is `crm_opp_cotizar` with
`ensure_party_for_opportunity`; `Convert` is `convert_opportunity_to_customer` with
its search for a match (`Target`, `Matches`).  The rules of scope are written
twice, as in the code: for one row (`...InScope`) and as the condition of the
queries (`Listed...`).

Abstractions: open stages are two; names, titles, notes, premiums, sources and
tasks are left out; a contact is a member of `Persons`.

### Incentives

State: `plan` with its tiers and its lock, `txn` the eligible transactions by plan
and source, `settlement` one for each plan, `evidence`, `req`, `behind`.  `AddTxn`,
`ConfirmTxn`, `ReverseTxn` each recalculate the settlement of the plan in the
address (`Recalculated`), which need not be the plan of the transaction, and which
is refused once the settlement is closed, while the change of the transaction is
committed.  `Claim`, `Recognize`, `Pay` take the settlement on; `Commit` writes the
columns that changed and meets the two unique indexes (`TakenSource`,
`TakenPeriod`).

Abstractions: one period for each plan; amounts in cents, a tier's percentage is
applied as `quantize` does; scopes, notes and files of evidence are data only; the
import of transactions from payments is left out.

### Outreach

State: `note`, `doc`, `delivery` are the tables, `disk` the stored files, `acked`
what the phones were told is SYNCED, `mail` what the mail server took, `setting`
and `cache` the settings and what the process remembers of them, `holder` the
producer of each policy, `owes` the customers with an overdue balance.

`CreateActivity` and `UploadDocument` are the idempotent writes: they answer a
known id from the row (`Replay`), or begin.  `Answer` is the answer leaving before
the session of the request is committed, which the dependency's exit allows;
`Commit` may answer too, or the answer gets lost.  `Taken` is the partial unique
index, which makes a second insert wait and fail.  `Filing` and `DeleteDocument`
touch the disk before they touch the table.  `StartBatch` and `SendNext` are
`run_auto_statement_send`, one customer at a time in one transaction; `SendByHand`
is the page.  Each of them prepares a mail (for the batch, with the question about
the cooldown) in one step and hands it to the mail server in another (`HandOver`),
so that another request can mail in between.  The lists are taken with their
limits: `CustomersListed` reads the first `FetchLimit` customers, searches among
them and shows `PageLimit` of those found, `NotesListed` the newest notes.  `Die` ends a request anywhere: its rows are gone, its files and mails
stay.

Abstractions: contents are two values; the message's text is left out; customers
owe or do not; the settings are two flags; one batch has the transaction of one
organization.

## 3. Runs

| Run | Bounds | Shows |
|---|---|---|
| `checkout_sale` | 2 page threads and the webhook, 2 Stripe sessions, fair | the customer who walks the wizard once is charged once, what is issued was paid, is issued once, at that amount, with the opportunity won; the system implements `PaidSale`, which lets a charge be forgotten only after a 200 whose commit failed |
| `checkout_trouble` | 1 page thread (with two the second property fails, section 6) and the webhook; delayed payments, wrong totals, no carrier at first; fair | no policy without a completed session, and what is paid is eventually issued, unless a commit failed after the 200 |
| `checkout_overlap` | wizard requests overlap freely and change plan and trip after checkout; Stripe and sandbox | a completed quote has client and policy; a recorded success is never taken back |
| `collections_serial` | 1 clerk, 2 promises, 2 premiums (one of them too small to share), 2 installments, 2 days, payments of 0.4, 1.1 and 3 cents | nothing overpaid, what is paid is frozen, one open promise and one open task for an installment, resolved promises stay resolved |
| `collections_overlap` | 2 clerks, 2 promises, 1 premium, 2 installments, payments of 0.4 and 1.1 cents, 1 day | money is kept, a fulfilled promise has a payment on file, no promise outlives its installment |
| `access_overlap` | 3 people (one platform administrator, two pilots), 3 roles, 2 threads, 4 requests, 2 invitations, 2 tokens, two pairs of limits that shrink and grow | seats are not oversold, the last owner is not let go, invitations and tokens follow their rows, each with the exceptions its statement names; active members are linked in any case |
| `subscription_overlap` | 2 threads, 5 requests, 2 plans and the default one (of which one is sold on line), 3 EN1 customers of which 2 may be deleted, 1 receipt, 1 Stripe session of either product, 2 users, 1 promotion code, settings that change | access has been vouched for or borrowed from a traveller's payment, a repeated checkout subscribes once, an activation is not undone, a decision on a receipt stands |
| `crm_overlap` | 2 users, one of them a producer, 2 threads, 4 requests, 1 prospect, 2 opportunities, 2 customers, 1 activity | a prospect becomes one customer, no stamp outlives its stage except by a refused loss, what is listed opens |
| `portfolio_overlap` | 2 threads, 3 requests, 2 numbers, files of 2 rows, 2 producers, 2 days | nothing is derived twice, a number is registered once, every policy is followed but for the origins the property names, and has one producer with a history without gaps |
| `incentives_overlap` | 2 plans, 2 sources, 2 threads, 5 requests | a settlement follows its transactions, a closed one is frozen, money follows claims, a reversal stands |
| `outreach_overlap` | 2 threads, 3 requests, 2 customers, 2 policies of one of them, 1 producer, 1 id, 2 contents, 3 days with a cooldown of 2, limits of 1 customer and 2 notes | SYNCED is stored, a document has its file, the cooldown is kept unless two requests send at once, lists and details agree up to the limits |
| `portfolio_mother` | 2 organizations, 1 thread | a disagreement, section 6 |

**Why the bounds are enough.**  The hazards are races of two requests with each
other and with one external event, so two threads (with the single webhook thread
for Stripe) are what a race needs; the number of requests is that of the longest
story a property speaks of.

* Checkout: two sessions and two prices tell the session of one price from that
  of another.
* Collections: two premiums make a correction possible, a premium of one cent for
  two installments reaches the rescaling that fails, and two promises allow one to
  replace the other.  `collections_overlap` has a single day: the refresh of late
  promises changes no state its properties speak of, and `collections_serial`
  exercises it.  A tender of 0.4 cents passes the check and is stored as nothing; one
  of 1.1 cents is stored as less than what was typed.
* OrgAccess: four requests are an invitation, its acceptance, and two acts that
  race on the result; two invitations, and two tokens, tell an old one from its
  successor; a limit of one internal seat is full from the start, and a limit of
  none for producers is the lowest boundary.
* Subscription: five requests are a registration, a checkout whose answer is lost,
  the repair after a deletion, and two that race; three customers are the one made
  at sign-up and the two that repairs may make; two users make two repair keys.
* Crm: two opportunities of one prospect can be won and converted each, two customers
  let the error happen, four requests are create, win, and two conversions.
* Portfolio: an office starts empty or with one number registered twice; two rows of
  a file make it fail halfway, pay a policy twice or repeat a number.
* Incentives: two plans allow a change under the wrong address; one transaction of 1025
  reaches the tier of 1000 and its two percent is rounded; what is agreed may be less
  than the benefit.
* Outreach: two threads and one id are a request and its retry; three days with a
  cooldown of two hold a send inside and one outside of it.  The module's halves,
  phones and statements, share the notes and nothing else, and the statements do not
  ask who holds the policies: `Apart` in `MCOutreach` constrains the run to
  behaviours of one half or the other.  The theorems need no such constraint.

Deadlock is not checked: a lapsed quote with finished sessions, a plan at the bound
of its rows, or the last of `MaxRequests` requests, really is the end.

**Fairness** (`PublicCheckout!Fairness`).  Stripe delivers a completed session
again until it is answered with 200 (strong fairness of `Webhook` for a session
not answered); not every delivery is cut short by a restart (strong fairness
of `Confirm(h)` and `ConfirmInsert(h)`: `Leave` can always interrupt one).  That is
also what ends a delivery that waits, on the event loop, for a row whose transaction
needs the loop to commit: nothing in the code does, a restart and the next delivery
do.  Nothing is assumed of a commit that fails after the 200: `CommitLost` may
happen to every session, and the property excepts the sessions it happened to;
the operator gives the organization a carrier (`ActivateCarrier`).  No fairness is
assumed of the customer, of the pages or of the clock.  The other modules have no
liveness property because the code schedules nothing: a task or a broken promise
appears when somebody opens a page, a person may never answer an invitation, a
phone may never send again, and the daily batch is a command that the host's
scheduler starts or does not.

## 4. Proofs

TLC explores the instances above; the theorems hold for every value of the
constants that satisfies the module's assumption (`ConstantsAssumption`,
`SubscriptionAssumption`, ...).

*PublicCheckoutProofs.*  `TypeCorrect`; `PaymentsAreBacked` (with Stripe
configured, that is `"SANDBOX" \notin Providers`); `OneSessionEach` and
`SuccessIsFinal` (while Stripe reports the totals it was asked for, `Drift =
FALSE`).  `PaymentIsBacked` is not inductive: a thread between Stripe's answer
and its commit must be known to hold an accepted session of its amount, which is
the invariant `Backing`.  `OneSessionPerAmount` needs that no attempt ever
fails (`NoFailure`) and that an amount with a session has an attempt row
(`KeyIsUsed`), so that the request that inserts a second row meets the unique key; a
success is final by the same invariant, since REDIRECTED is written only where there was no row or a failure.

`CompletedHasPolicy` has no hypothesis at all.  The three columns it relates are
written by different requests, each only if it changed them in its own copy of the
row.  `Filed` therefore speaks of the copies as well: a row with a policy has its
client and one that reads COMPLETED its policy (`Whole`), and the stored row has what
any copy has of the two (`Keeps`), so that merging a copy takes nothing back.

`OnePolicyEach`, `IssuedOpportunityIsWon` and `PolicyAsPaid` hold where the wizard is
walked in one tab and the organization has its carrier (`Reopens = FALSE`, `Outage =
FALSE`), the last one with Stripe configured; `PublicCheckout_swapped.cfg` and
`PublicCheckout_twice.cfg` show what happens elsewhere.  Stripe may delay payments,
report other totals and deliver as often as it likes.  They rest on one invariant,
`OneSale`: `InStore` says what quote, attempts, policy and opportunity are before the
first attempt (`Browsing`), from then on (`Buying`), and before and after the issue
(`Unissued`, `Issued`); `InSale` says that a request has loaded the quote either as it
was before the policy or with it.  A request with the older copy then looks the number
up, finds the policy, and settles on the client the opportunity was converted to.

`SaleSteps` is the refinement of `PaidSale`, step by step: under those hypotheses and
`Drift = FALSE` the first session Stripe completes is `Charge`, the commit that
issues is `Cover` at a premium that was charged, and all other steps leave the sale
as it is.  Two charges of one amount would be one element of `charged`; that there is
one session for each amount is `OneSessionEach`.  `PaidSale!Spec` asks one thing more, that a charge is followed by a
policy or forgotten; `SaleImplemented` reduces `SaleSpec` to that, which is liveness
and TLC's.

*CollectionsProofs.*  `TypeCorrect`.  `MoneyStays`, `FulfilledHasPayment` and
`PromisesHaveInstallments` hold *however many requests overlap*; they follow from
`Standing`: money, or the dust of a payment too small to store, lies only on live installments and rows not yet made are empty
(`MoneyIsLive`); promises on file have their installment (`PromisesStand`); and
what a request has read still stands where it matters: a promise it has seen
stays on file, and a payment in course holds its installment, hence its promises
(`ReadsStand`).  That last part is why the foreign-key lock is in the model.
`NeverOverpaid`, `PaidIsFrozen`, `OneOfEach` and `ResolvedStays` assume that requests
do not overlap (`Alone`); they add `ReadsFresh`, that what the one request has read is
what is stored, and the last two `OneEach`: the same of the promises (`PromisesFresh`),
one task on a live row and none on a replaced one (`OneTask`), and no two open promises
of one installment (`OneOpen`).  Without that assumption all four are false (section 6).

*OrgAccessProofs.*  All properties of `access_overlap`, and two more: `TypeCorrect`,
`ActiveCanLogIn`, `OpenInvitations`, `TokensOfMembers`, and of the steps
`SeatsAreHeld`, `OwnerIsKept`, `OldInvitationsAreShut`, for any number of people,
threads, invitations and tokens and any limits.  None is inductive, because what
a commit does was decided earlier.  `IInv` therefore says what is true of a plan
not yet written.  `Linking` holds of *any* plan, however old what it read is: the
row it changes is still there, and what it puts as ACTIVE is linked.  It survives
the commits of others because a row never disappears and never loses its
subject (`RowsKept`).  `Checked` and `Tidy` hold of a plan that is still current:
the row is as it was read, a seat it takes is free, an owner it lets go has
another beside him; and it settles the invitations and the tokens of the row it
puts out.  They are established when the request begins, one lemma for each
handler, and need not survive anything: a commit or a change of limits makes
every other plan stale.  `CommitWrites` reduces a commit to one row and its new
value, from which the conjuncts of the invariant and the three step properties
follow; the counts of seats and owners need only that one element is added or
removed (`OneMore`, `Another`).

*SubscriptionProofs.*  All four properties of `subscription_overlap` and the types.
An activation is decided before it is committed, and what grounds it may change
meanwhile, so `IInv` speaks of the requests: `Grounded`, that an activation not yet
committed already has its ground (or is the approval of a receipt, which will be);
`ReviewFits`, that a review nothing has overtaken still has its pending receipt;
`RequestFits`, that no request can take a row back from active, because one that
writes a status writes its own reading of it or `active`.  `Granted` is stable: no
step takes a subscription at EN1, a completed session or a decision back.
`NoSecondPayment` does not follow from the shape of a key.  Two keys of one code and
plan differ in the customer, so the question is how an office comes to use two
customers that are both live; a second invariant, `PInv`, says that a live customer
in use beside another was made by a repair (`OthersRepaired`), that EN1 answers a
repair key with one customer for ever (`KeysOK`), and what the customer a request is
about to pay for can be (`RequestsPay`).  Repairs of one plan by one user share their
key, hence their customer.

*PortfolioProofs.*  All five properties of `portfolio_overlap`, the types, and
`SplitWithinTwoCents` for *any* rates and shares that sum to one.  The step of
`OneProducer` is `Replaced`: whatever the plan read, after it the policy has one
open row (`Settled`).  `Sound` says of a plan that it follows up what it registers
or gives it one of the origins that are excepted.  For the split, each part is within half a
cent of its exact share (`QuantizedNear`), and four halves are two.

`DerivedOnlyOnce`, `NumbersOnFileOnce` and `HistoryJoined` rest on `Calm`, which holds
until a plan that was overtaken is committed.  It says of the rows what the three
properties say (`CommissionOnce`, `LinkOnce`, `PaidOnce`, `OpenOnce`, `NumbersDiffer`,
`AllJoined`), and of every plan that is not stale that it is `Fresh`: the numbers it
registers are not on file and differ (`Registers`), the policies it derives for have
nothing yet (`Derives`, `Pays`, `Follows`), and the producer row it closes is the last
one and has begun (`Assigns`).  A file's keys differ because `Nth` counts the rows that
are new, which is proved by descent on a well-founded set.  As in the other modules a
commit overtakes every other request, so freshness need not survive it; but it must
survive midnight, which is why `Joined` speaks of the day.

*CrmProofs.*  All three properties of `crm_overlap` and the types; that a refused loss is
the only way a `won_at` survives needs that a row which carries it outside WON is
`slipped` in every copy a request holds.  `RefsOK`, that a
customer which a row or a plan refers to is on file or comes with it, holds however
requests race: a customer never disappears, and a plan that loaded one finds it
(`StillThere`).  `Orderly` holds until a stale plan is committed: the rows are in
order (`WorldOK`: a prospect in the customer file knows its customer, which makes
`OneCustomerEach` inductive), and every plan that is not stale `Fits` the rows and
is `Sound`.  A commit makes every other plan stale, so none of this has to survive
another's commit.  The scope rules are compared for any rows at all (`ListsAgree`).

*IncentivesProofs.*  All four properties of `incentives_overlap` and the types, for
any tiers and amounts.  `Current` says that the settlement of a plan not `behind`
says what its transactions say; `TxnFits` and `SettlementFits` say of a request what
it may write, and that it does so of the current rows unless it is stale; `Solid`
(nothing paid without recognition, nothing recognized without a claim and the lock)
holds of every plan.  The sum over the transactions is a fold, shown to be a number
by well-founded induction on finite sets.

*OutreachProofs.*  All four properties of `outreach_overlap` and the types.
`FilesOK`: no two rows share a file, and a file not yet on record belongs to one
request.  `AcksOK`: ids are unique; a request that answered before its commit is the
only one with its id (`AnswersStand`, which is what the unique index does for it);
and what was answered is about to be filed, on file, or lost.  `MailsOK`: every mail
is booked in the deliveries or in the request that sent it, and a request about to
hand a mail over does so alone, unless the customer is `loose`, so that the cooldown
is asked of a complete list and still holds at the hand-over.  `ListsAgree` counts
what stands before a row that a limit cut off.

Every inductive invariant was checked by TLC on the instance of a run before it was
proved.  Every invariant and action property of a run is now a theorem.  Only
model-checked are `PaidIsEventuallyIssued` and the last conjunct of `SaleSpec`:
liveness under strong fairness, where the prover would need `ENABLED`; what they rest
on in every state is proved (`PaidStaysPayable`, `DeliveriesCanIssue`).

## 5. Not modelled

* Reports, dashboards, boards, labels, seeds, styles: they read, and keep no state.
* Claims: `open_claim` and `advance_claim` are called by the certification script
  `scripts/p0_certify.py` and by a test only; no handler changes a claim.
* The parsing of workbooks, PDFs and photographs is text processing; passwords,
  session cookies and the signatures of access tokens are left to their libraries.
* `paid hints` of an import (payments made up from a column of the file), the
  registration of incentive transactions from payments, the tiers and scopes added
  to an incentive plan later, custom roles, data scopes and the producer profile of
  a membership, CRM tasks and catalogues, the comparison of carriers' answers, and the
  single-row edits of names, notes, titles, bank details and catalogues.
* Liveness outside checkout: no code schedules anything there (section 3).

## 6. What was found

A finding with a run, in `PROJECT.json`:

* `portfolio_mother`: the mother file is imported into the organization named in a
  default argument, whoever uploads it (`import_engine.py:407`,
  `excel_import.py:593`).

Disagreements whose configurations are kept beside the runs; TLC finds each of
these properties violated:

* `PublicCheckout_swapped.cfg` (`PolicyIsWhatWasPaid`): a plan selected after
  checkout began is issued at its own premium, not at the amount charged
  (`public_channel_issuance.py:236`).
* `PublicCheckout_twice.cfg` (`OnePolicyPerNumber`): after an issuance that failed,
  page and webhook repairing at once issue one policy number twice
  (`public_channel_issuance.py:223`).
* `PublicCheckout_retry.cfg` (`RetryCanBePaid`): the stored page of an expired
  Stripe session is handed out forever (`public_channel_payments.py:196`).
* `PublicCheckout_unissued.cfg` (`PaidIsEventuallyIssued`, fair): with two pages and
  no carrier at first, a second checkout that was read before the result page
  recorded the payment sets the quote back to unpaid
  (`public_channel_payments.py:199`).  Every later delivery is refused as unpaid
  (`public_channel_issuance.py:346`), so what was paid is never issued.
* `PublicCheckout_lost.cfg` (`EveryPaidIsIssued`, fair): the webhook answers 200 and
  the commit of its session fails afterwards (`web/deps.py:41`); Stripe does not
  deliver again, and unless the customer returns to the result page the payment stays
  without its policy.
* `Collections_subcent.cfg` (`FulfilledHasMoney`): a payment of 0.004 passes "amount
  must be positive", is stored as 0.00 and fulfils the promise
  (`payments/premium.py:45`, `web/routes.py:2874`).
* `Collections_sum.cfg` (`SumIsPremium`): an edit of the installments refused
  because its sum misses the premium is committed all the same
  (`payment_plan_edit.py:364`, `web/routes.py:2567`).  The refusal of a premium too
  low to share (`payment_plan_edit.py:157`) commits the premium and part of the
  shares alike.
* `Collections_overpaid.cfg` (`NotOverpaid`): two payments recorded at once both
  pass the balance check (`payments/premium.py:48`).
* `OrgAccess_owner.cfg` (`AlwaysAnOwner`): granting producer access to the e-mail of
  the only owner leaves the organization without one (`seats.py:290`,
  `web/routes.py:3821`).
* `Crm_lost.cfg` (`LostHasReason`): an opportunity marked lost without a reason is
  refused, and committed as LOST (`crm_service.py:505`, `web/crm_ui_routes.py:712`).
* `Crm_stamps.cfg` (`ReopeningClears`): such a refusal of a won opportunity leaves
  `won_at` on it, and reopening it, which clears the stamp of the stage it leaves,
  leaves an open opportunity with `won_at` (`crm_service.py:520`).
* `Subscription_borrowed.cfg` (`AccessWasPaid`): the success page activates an office
  for the paid session of a traveller's checkout, whose metadata carries its id: only
  the webhook asks for the product (`saas_billing.py:125`, `web/routes.py:850`,
  `public_channel_payments.py:265`).
* `Subscription_users.cfg` (`UsersPayOnce`): two users of an office without EN1
  customer repair it under two keys, and the two customers are both subscribed
  (`payments/service.py:56`).
* `Subscription_code.cfg` (`RetryNeverPaysAgain`): a retry with another promotion code
  is another key, and subscribes the same customer to the same plan again
  (`payments/service.py:150`).
* `Portfolio_refused.cfg` (`PhotosFollowed`): a photograph of more than 10 MB, or of
  another type, is refused as a document after its policy was registered; the
  one-click page catches the refusal and commits the policy without commission and
  renewal (`policy_photo_commit.py:221`, `documents.py:83`, `web/routes.py:1848`).
* `Outreach_twice.cfg` (`CooldownKept`): the batch asks about the cooldown before it
  renders and sends, and a statement sent by hand meanwhile makes two
  (`statement_delivery.py:348`, `:220`).
* `Outreach_search.cfg` (`SearchFinds`): the search looks among the first 500
  customers only (`web/mobile/router.py:379`), so a later one opens and is not found.

Seen while modelling, without a run of their own.  In the sale and the collections:

* A page or webhook that loaded the quote before another request marked it paid
  is refused as unpaid (`public_channel_issuance.py:346`), although the repair is
  described as idempotent (`public_channel_payments.py:117`).  A request that
  loads the quote afterwards succeeds (`DeliveriesCanIssue`), unless the quote was
  set back meanwhile as in `PublicCheckout_unissued.cfg`.
* A trip recalculated after checkout clears the premium, and the quote once paid
  is never issued (`public_channel_issuance.py:236`): `checkout_trouble` excludes
  it by `Reopens = FALSE`.
* A session complete but not yet paid is issued
  (`public_channel_payments.py:353`); `PaymentIsBacked` counts it as backed.
* Two overlapping submissions of the travelers make two opportunities, and the
  quote may end at the one that is not won (`public_channel.py:331`).
* With requests overlapping, the refresh of late promises overwrites FULFILLED
  with BROKEN, two promises of one installment can both be open, and an edit
  checked on stale rows changes a paid installment.
* The collection task of an installment is never closed: no handler calls
  `complete_task`.

In organizations and subscriptions:

* In a deployment with one organization, a deactivated or revoked collaborator
  who logs in again on the web is made an active BROKER (`web/routes.py:979`,
  `tenant.py:131`), with no seat asked for: the exceptions `bind` of `SeatsHeld`
  and `OldInvitationsStayShut`.  The contract's end-to-end case 6 expects the
  login to be refused.
* A collaborator revoked after having joined cannot come back by a new
  invitation, although `activate_member` tells the administrator to issue one
  (`org_access_admin.py:798`): the revoked row keeps the subject and every
  acceptance is refused (`org_access_admin.py:619`).
* With requests overlapping, two owners can put each other out, two invitations
  can take the last seat, and a token rotated during a deactivation outlives it.
* A receipt is not tied to the plan the office has when it is approved
  (`saas_receipt_verify.py:134`), and one approved and rejected at once may end
  rejected with the subscription active.
* With EN1 disabled, `start_checkout` writes the plan of an active subscription
  before any payment (`saas_billing.py:90`); a legacy organization without row loses
  its access when it opens such a checkout.
* A promotion activation that races with the checkout page keeps the page's plan;
  a Stripe activation overwrites the EN1 customer id.
* A registration that fails after EN1 answered leaves a customer there
  (`saas_signup.py:168`).  The repair key holds organization, plan and user, so that the
  repair after a second deletion is answered with the deleted customer
  (`payments/service.py:56`).
* No handler ever sets a subscription to `cancelled` or `past_due`.

In policies, imports and renewals:

* `materialize_portfolio` creates a new UPCOMING renewal for a policy whose
  renewal is RENEWED or ACCEPTED (`materialize_portfolio.py:225`), because the
  previous policy stays ACTIVE and those statuses are not among those it looks
  for; registering the renewed policy (`web/routes.py:2405`) does both in one
  request.
* `SameCarrier`, `Requote` and the form of statuses reopen closed renewals, and a
  policy then has two under way.
* A partial import is committed by the redirect that reports its failure
  (`web/routes.py:4162`), and the staged file is removed before the commit.
* Two rows of a payment file for one policy pay its instalment twice.
* Two rows of a file that tie one policy to the same referrer, with nobody filed in
  between, insert the same role twice; `uq_party_role_ctx` refuses it and the whole
  import is rolled back (`excel_import.py:790`), a `Die` of the model.
* A policy of the public channel is not materialized until something else is, and
  its producer row may be dated ahead.
* A person filed twice by two requests at once makes every later import of that
  person fail (`one_or_none`).
* A registration by hand never looks for the number.

In the CRM and the incentives:

* An opportunity of a prospect whose executive is the producer opens in detail and
  is not listed (`crm_access.py:125`, `:63`); the reverse never happens
  (`ListedOpens`).
* An opportunity created in WON or LOST has no stamps; a quick create with an
  unknown stage keeps the prospect; a refused update keeps title and premium.
* Overlapping conversions make two customers of one prospect, and overlapping moves
  leave a won opportunity with the stamp of a loss.
* A claim may claim the benefit that only pending transactions would bring; a
  transaction confirmed under another plan's address leaves its own plan's
  settlement behind; a refused tier leaves the draft of the plan.

In documents, statements and settings:

* A document tied to another producer's policy is listed but does not open.
* A refused number in the maintenance page leaves the settings before it committed
  and the cache as it was; an accepted change voids the cache before its commit.
* The loser of two uploads of one id leaves its file on disk.  The upload is an `async
  def` handler, so a second one that waits on the first one's uncommitted row holds
  the event loop while it waits.
* All organizations of the batch command share one transaction.

## 7. Running

    tlc -config Collections_serial.cfg MCCollections.tla
    tlapm CollectionsProofs.tla
    tlc -config Outreach_overlap.cfg MCOutreach.tla
    tlapm OutreachProofs.tla

Each configuration names its module in `PROJECT.json`.  A configuration lists no
`TypeOK` where a theorem states it.
