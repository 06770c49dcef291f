--------------------------- MODULE PublicCheckout ---------------------------
(***************************************************************************)
(* One public travel quote, from its creation to the policy it is sold as: *)
(* the wizard (services/public_channel.py), the payment attempts           *)
(* (services/public_channel_payments.py), the issuance of the client and   *)
(* the policy (services/public_channel_issuance.py) and the requests that  *)
(* drive them (web/public_channel_routes.py, the Stripe webhook of         *)
(* web/routes.py).                                                         *)
(*                                                                         *)
(* Wizard requests run on the threads Pages and deliveries of the webhook  *)
(* on Hooks.  A request is one database transaction at READ COMMITTED: it  *)
(* ends with the commit of get_session, which runs after the answer has    *)
(* left, so deliveries overlap although their handlers take turns on the   *)
(* event loop, and a 200 may be followed by a commit that fails.  The ORM  *)
(* keeps the quote row it has loaded and writes back the columns it has    *)
(* changed (Merge), so every request has a step that loads the row and a   *)
(* later step that writes it.                                              *)
(***************************************************************************)
EXTENDS Integers, Sequences, FiniteSets

CONSTANTS
  Pages,         \* threads that serve the wizard and the result page
  Hooks,         \* deliveries of the webhook in service
  Trips,         \* the trips a customer may ask for
  Plans,         \* codes of the plans of the channel
  Price,         \* Price[t][p]: premium of plan p for trip t
  Pax,           \* Pax[t]: passengers of trip t
  Sessions,      \* ids of the Stripe Checkout sessions
  Opps,          \* ids of CRM prospect + opportunity pairs, and of the clients made of them
  NoTrip, NoPlan, NoOpp, NoSession,
  Providers,     \* "STRIPE" while its keys are configured, "SANDBOX" while a DEV database lacks them
  Reopens,       \* may wizard requests overlap, and change trip or plan after checkout began?
  Delayed,       \* may a session be complete before its money has arrived?
  Drift,         \* may Stripe report a total that is not the amount asked for?
  Outage         \* does the organization start without an active carrier?

ASSUME ConstantsAssumption ==
  /\ Hooks \cap Pages = {}
  /\ Price \in [Trips -> [Plans -> Nat \ {0}]]
  /\ Pax \in [Trips -> Nat \ {0}]
  /\ NoTrip \notin Trips /\ NoPlan \notin Plans
  /\ NoOpp \notin Opps /\ NoSession \notin Sessions
  /\ Providers \subseteq {"STRIPE", "SANDBOX"}
  /\ {Reopens, Delayed, Drift, Outage} \subseteq BOOLEAN

Threads == Pages \cup Hooks
Amounts == {Price[t][p] : t \in Trips, p \in Plans}

VARIABLES
  quote,      \* the public_quotes row
  travelers,  \* number of public_quote_travelers rows
  emergency,  \* is there an emergency contact?
  attempt,    \* status of the payment attempt with each amount (its idempotency key)
  ref,        \* Stripe session whose URL the attempt hands out
  stripe,     \* the provider's sessions: what was asked for and where it stands
  acked,      \* sessions whose event was answered with 200, and whether it was committed
  opp,        \* CRM: stage of the opportunity and client its prospect was converted to
  policies,   \* the policies issued; a policy's id is its position
  carrier,    \* has the organization an active carrier?
  lapsed,     \* is expires_at in the past?
  req         \* the request each thread is serving

vars == <<quote, travelers, emergency, attempt, ref, stripe, acked, opp,
          policies, carrier, lapsed, req>>

QuoteStatus == {"STARTED", "QUOTED", "PLAN_SELECTED", "CUSTOMER_DATA",
                "CHECKOUT_PENDING", "PAID", "COMPLETED"}
PaymentStatus == {"NONE", "PENDING", "SUCCEEDED", "FAILED"}
AttemptStatus == {"NONE", "REDIRECTED", "SUCCEEDED", "FAILED"}
SessionState == {"NONE", "open", "expired", "unpaid", "paid", "drifted"}

\* quoted_plans_json is the trip it was calculated for; premium 0 is NULL, as
\* is policy 0; the plan snapshot is written with the plan and the premium.
QuoteRow == [status : QuoteStatus, trip : Trips \cup {NoTrip},
             quoted : Trips \cup {NoTrip}, plan : Plans \cup {NoPlan},
             premium : Amounts \cup {0}, pay : PaymentStatus,
             opp : Opps \cup {NoOpp}, party : Opps \cup {NoOpp}, policy : Nat]

\* pc: "loaded" has read the quote; "checkout" has read the attempt too;
\* "paying" has Stripe's answer and the attempt; "issuing" has looked the
\* policy up without holding a row lock.  keep: the caller catches the
\* error and commits.
Request == [pc : {"idle", "loaded", "checkout", "paying", "issuing"},
            q : QuoteRow, amt : Amounts \cup {0}, att : AttemptStatus,
            sess : Sessions \cup {NoSession}, keep : BOOLEAN]

NewQuote == [status |-> "STARTED", trip |-> NoTrip, quoted |-> NoTrip,
             plan |-> NoPlan, premium |-> 0, pay |-> "NONE",
             opp |-> NoOpp, party |-> NoOpp, policy |-> 0]

Idle == [pc |-> "idle", q |-> NewQuote, amt |-> 0, att |-> "NONE",
         sess |-> NoSession, keep |-> FALSE]

\* The UPDATE the ORM emits: only the columns whose value differs from the loaded one.
Merge(db, old, new) ==
  LET Column(f) == IF new[f] = old[f] THEN db[f] ELSE new[f]
  IN  [status |-> Column("status"), trip |-> Column("trip"),
       quoted |-> Column("quoted"), plan |-> Column("plan"),
       premium |-> Column("premium"), pay |-> Column("pay"),
       opp |-> Column("opp"), party |-> Column("party"),
       policy |-> Column("policy")]

Init ==
  /\ quote = NewQuote
  /\ travelers = 0
  /\ emergency = FALSE
  /\ attempt = [a \in Amounts |-> "NONE"]
  /\ ref = [a \in Amounts |-> NoSession]
  /\ stripe = [s \in Sessions |-> [amount |-> 0, state |-> "NONE"]]
  /\ acked = {}
  /\ opp = [o \in Opps |-> [stage |-> "NONE", client |-> NoOpp]]
  /\ policies = <<>>
  /\ carrier = ~Outage
  /\ lapsed = FALSE
  /\ req = [w \in Threads |-> Idle]

-----------------------------------------------------------------------------
(* Requests of the wizard *)

\* get_quote_by_token: the EXPIRED it writes is rolled back with the 404 it raises.
Begin(w) ==
  /\ req[w].pc = "idle"
  /\ ~lapsed \/ quote.status \in {"PAID", "COMPLETED"}
  /\ req' = [req EXCEPT ![w] = [Idle EXCEPT !.pc = "loaded", !.q = quote]]
  /\ UNCHANGED <<quote, travelers, emergency, attempt, ref, stripe, acked,
                 opp, policies, carrier, lapsed>>

\* The end of a request that writes nothing: a GET, a refusal, an error that
\* rolls back, a restart of the server.
Leave(w) ==
  /\ req[w].pc # "idle"
  /\ req' = [req EXCEPT ![w] = Idle]
  /\ UNCHANGED <<quote, travelers, emergency, attempt, ref, stripe, acked,
                 opp, policies, carrier, lapsed>>

\* Without Reopens the customer fills the wizard in one request at a time.
OneAtATime(w) == Reopens \/ \A v \in Pages \ {w} : req[v].pc = "idle"

NotAtCheckout == Reopens \/ \A a \in Amounts : attempt[a] = "NONE"

\* POST calculate: update_trip then calculate_plans, two flushes of one transaction.
Calculate(w, t) ==
  LET q == req[w].q
      u == [q EXCEPT !.trip = t, !.plan = NoPlan, !.premium = 0,
                     !.status = "STARTED", !.quoted = NoTrip]
      c == [u EXCEPT !.quoted = t, !.status = "QUOTED"]
  IN  /\ req[w].pc = "loaded"
      /\ q.status \in {"STARTED", "QUOTED", "PLAN_SELECTED"}
      /\ OneAtATime(w) /\ NotAtCheckout
      /\ quote' = Merge(Merge(quote, q, u), u, c)
      /\ req' = [req EXCEPT ![w] = Idle]
      /\ UNCHANGED <<travelers, emergency, attempt, ref, stripe, acked, opp,
                     policies, carrier, lapsed>>

\* POST select-plan: any status will do.
SelectPlan(w, p) ==
  LET q == req[w].q IN
  /\ req[w].pc = "loaded"
  /\ q.quoted # NoTrip
  /\ OneAtATime(w) /\ NotAtCheckout
  /\ quote' = Merge(quote, q, [q EXCEPT !.plan = p, !.premium = Price[q.quoted][p],
                                        !.status = "PLAN_SELECTED"])
  /\ req' = [req EXCEPT ![w] = Idle]
  /\ UNCHANGED <<travelers, emergency, attempt, ref, stripe, acked, opp,
                 policies, carrier, lapsed>>

\* POST travelers: replaces the rows; _ensure_crm makes the opportunity unless
\* the loaded quote already has one.
SaveTravelers(w) ==
  LET q == req[w].q IN
  /\ req[w].pc = "loaded"
  /\ q.status \in {"PLAN_SELECTED", "CUSTOMER_DATA", "CHECKOUT_PENDING"}
  /\ q.trip # NoTrip
  /\ OneAtATime(w)
  /\ travelers' = Pax[q.trip]
  /\ \E o \in Opps :
       /\ IF q.opp = NoOpp
            THEN /\ opp[o].stage = "NONE"
                 /\ opp' = [opp EXCEPT ![o].stage = "QUOTING"]
            ELSE o = q.opp /\ opp' = opp
       /\ quote' = Merge(quote, q, [q EXCEPT !.status = "CUSTOMER_DATA", !.opp = o])
  /\ req' = [req EXCEPT ![w] = Idle]
  /\ UNCHANGED <<emergency, attempt, ref, stripe, acked, policies, carrier, lapsed>>

\* POST emergency-contact: any status will do.
SaveEmergency(w) ==
  /\ req[w].pc = "loaded"
  /\ emergency' = TRUE
  /\ req' = [req EXCEPT ![w] = Idle]
  /\ UNCHANGED <<quote, travelers, attempt, ref, stripe, acked, opp, policies,
                 carrier, lapsed>>

-----------------------------------------------------------------------------
(* Checkout *)

\* start_checkout up to the query for the attempt with the idempotency key.  A
\* quote that is paid, or whose attempt has succeeded, is answered without a write.
CheckoutRead(w) ==
  LET q == req[w].q IN
  /\ req[w].pc = "loaded"
  /\ q.status \in {"CUSTOMER_DATA", "CHECKOUT_PENDING", "PAID"}
  /\ ~(q.status = "PAID" /\ q.pay = "SUCCEEDED")
  /\ q.premium # 0 /\ q.trip # NoTrip
  /\ travelers = Pax[q.trip]
  /\ emergency
  /\ attempt[q.premium] # "SUCCEEDED"
  /\ req' = [req EXCEPT ![w].pc = "checkout", ![w].amt = q.premium,
                        ![w].att = attempt[q.premium]]
  /\ UNCHANGED <<quote, travelers, emergency, attempt, ref, stripe, acked,
                 opp, policies, carrier, lapsed>>

\* quote.status and quote.payment_status while the provider is awaited.
AwaitPayment(w) ==
  quote' = Merge(quote, req[w].q,
                 [req[w].q EXCEPT !.status = "CHECKOUT_PENDING", !.pay = "PENDING"])

\* An attempt already redirected hands its stored URL out again.
CheckoutReuse(w) ==
  /\ req[w].pc = "checkout"
  /\ req[w].att = "REDIRECTED"
  /\ AwaitPayment(w)
  /\ req' = [req EXCEPT ![w] = Idle]
  /\ UNCHANGED <<travelers, emergency, attempt, ref, stripe, acked, opp,
                 policies, carrier, lapsed>>

\* Variant: no unique key on the attempts.
KeyIsNotUnique(w) == req[w].att \in AttemptStatus

\* The unique idempotency key fails the request that inserts the second row.
KeyIsFree(w) == req[w].att = "NONE" => attempt[req[w].amt] = "NONE"

\* A new attempt, or a failed one again: a Stripe session, or the DEV sandbox.
CheckoutCreate(w) ==
  LET a == req[w].amt IN
  /\ req[w].pc = "checkout"
  /\ req[w].att \in {"NONE", "FAILED"}
  /\ KeyIsFree(w)
  /\ \/ /\ "STRIPE" \in Providers
        /\ \E s \in Sessions :
             /\ stripe[s].state = "NONE"
             /\ stripe' = [stripe EXCEPT ![s] = [amount |-> a, state |-> "open"]]
             /\ ref' = [ref EXCEPT ![a] = s]
     \/ /\ "SANDBOX" \in Providers
        /\ ref' = [ref EXCEPT ![a] = NoSession]
        /\ stripe' = stripe
  /\ attempt' = [attempt EXCEPT ![a] = "REDIRECTED"]
  /\ AwaitPayment(w)
  /\ req' = [req EXCEPT ![w] = Idle]
  /\ UNCHANGED <<travelers, emergency, acked, opp, policies, carrier, lapsed>>

-----------------------------------------------------------------------------
(* Confirmation *)

\* Variant: the browser's return from the hosted page is believed.
AcceptedOnReturn(s) == stripe[s].state # "NONE"

\* confirm_from_stripe_session refuses a session that is neither paid nor complete.
Accepted(s) == stripe[s].state \in {"unpaid", "paid", "drifted"}

\* The result page: the quote was loaded before Stripe was asked, the attempt after.
ResultPage(w, s) ==
  LET a == stripe[s].amount IN
  /\ req[w].pc = "loaded"
  /\ Accepted(s) /\ stripe[s].state # "drifted"
  /\ attempt[a] # "NONE"
  /\ req' = [req EXCEPT ![w].pc = "paying", ![w].amt = a, ![w].att = attempt[a],
                        ![w].sess = s, ![w].keep = TRUE]
  /\ UNCHANGED <<quote, travelers, emergency, attempt, ref, stripe, acked,
                 opp, policies, carrier, lapsed>>

\* A total that is not the attempt's: the page catches the error and commits
\* the failure.  The webhook raises, and its rollback leaves no trace.
ResultMismatch(w, s) ==
  LET a == stripe[s].amount  q == req[w].q IN
  /\ req[w].pc = "loaded"
  /\ Accepted(s) /\ stripe[s].state = "drifted"
  /\ attempt[a] # "NONE"
  /\ attempt' = [attempt EXCEPT ![a] = "FAILED"]
  /\ quote' = Merge(quote, q, [q EXCEPT !.pay = "FAILED"])
  /\ req' = [req EXCEPT ![w] = Idle]
  /\ UNCHANGED <<travelers, emergency, ref, stripe, acked, opp, policies,
                 carrier, lapsed>>

\* The DEV sandbox confirms any attempt that was made without Stripe.
ConfirmSandbox(w, a) ==
  /\ "SANDBOX" \in Providers
  /\ req[w].pc = "loaded"
  /\ attempt[a] # "NONE" /\ ref[a] = NoSession
  /\ req' = [req EXCEPT ![w].pc = "paying", ![w].amt = a, ![w].att = attempt[a]]
  /\ UNCHANGED <<quote, travelers, emergency, attempt, ref, stripe, acked,
                 opp, policies, carrier, lapsed>>

\* The webhook loads attempt and quote once Stripe has answered.  Stripe
\* delivers at least once, and again until it is answered with 200.
Webhook(h, s) ==
  LET a == stripe[s].amount IN
  /\ req[h].pc = "idle"
  /\ Accepted(s) /\ stripe[s].state # "drifted"
  /\ attempt[a] # "NONE"
  /\ req' = [req EXCEPT ![h] =
               [Idle EXCEPT !.pc = "paying", !.q = quote, !.amt = a,
                            !.att = attempt[a], !.sess = s]]
  /\ UNCHANGED <<quote, travelers, emergency, attempt, ref, stripe, acked,
                 opp, policies, carrier, lapsed>>

\* Variant: a quote is completed by its payment alone.
CompletedWhenPaid(w) ==
  IF req[w].att # "SUCCEEDED"
    THEN [req[w].q EXCEPT !.pay = "SUCCEEDED", !.status = "COMPLETED"]
    ELSE req[w].q

\* apply_successful_payment sets these only if the attempt it loaded has not succeeded.
First(w) == req[w].att # "SUCCEEDED"

PaidQuote(w) ==
  IF First(w) THEN [req[w].q EXCEPT !.pay = "SUCCEEDED", !.status = "PAID"]
              ELSE req[w].q

\* issue_party_and_policy_from_paid_quote looks at the quote in memory.
IsPaid(q) == q.status \in {"PAID", "COMPLETED"} \/ q.pay = "SUCCEEDED"

Win(w, o) == IF First(w) /\ o # NoOpp
               THEN [opp EXCEPT ![o].stage = "WON"] ELSE opp

RecordPayment(w) ==
  attempt' = IF First(w) THEN [attempt EXCEPT ![req[w].amt] = "SUCCEEDED"]
                         ELSE attempt

\* A 200 to the webhook and its commit; the end of any other request.
Done(w) ==
  /\ acked' = IF w \in Hooks THEN acked \cup {<<req[w].sess, TRUE>>} ELSE acked
  /\ req' = [req EXCEPT ![w] = Idle]

\* Refused as unpaid: the attempt has succeeded, the quote in memory is older.
ConfirmRefused(w) ==
  /\ req[w].pc = "paying"
  /\ ~IsPaid(PaidQuote(w))
  /\ req' = [req EXCEPT ![w] = Idle]
  /\ UNCHANGED <<quote, travelers, emergency, attempt, ref, stripe, acked,
                 opp, policies, carrier, lapsed>>

\* The quote in memory already has its policy.
ConfirmIssued(w) ==
  LET q == PaidQuote(w) IN
  /\ req[w].pc = "paying"
  /\ IsPaid(q) /\ q.policy # 0
  /\ RecordPayment(w)
  /\ opp' = Win(w, q.opp)
  /\ quote' = Merge(quote, req[w].q,
                    [q EXCEPT !.status = IF @ = "PAID" THEN "COMPLETED" ELSE @])
  /\ Done(w)
  /\ UNCHANGED <<travelers, emergency, ref, stripe, policies, carrier, lapsed>>

\* The clients ensure_party_for_paid_quote may settle on: the quote's, the one
\* its prospect was converted to, one that matches, or a new one.
Clients(q) ==
  IF q.party # NoOpp THEN {q.party}
  ELSE IF opp[q.opp].client # NoOpp THEN {opp[q.opp].client}
  ELSE {q.opp} \cup {opp[o].client : o \in {x \in Opps : opp[x].client # NoOpp}}

\* Variant: the opportunity is not linked to the client.
ConvertUnlinked(w, q, c) == Win(w, q.opp)

\* convert_opportunity_to_customer links the opportunity and its prospect.
Convert(w, q, c) ==
  IF q.party # NoOpp THEN Win(w, q.opp)
                     ELSE [Win(w, q.opp) EXCEPT ![q.opp].client = c]

\* Variant: the policy is created without looking its number up.
NumberNotLookedUp(q) == {}

\* The policy number is the quote's token and the plan.
SameNumber(q) == {i \in DOMAIN policies : policies[i].plan = q.plan}

\* Variant: the premium of the first quoted plan, not of the selected one.
PolicyOfFirstPlan(q, c) ==
  [plan |-> q.plan, premium |-> Price[q.quoted][CHOOSE p \in Plans : TRUE], client |-> c]

\* The policy row: number, premiums and client.
PolicyOf(q, c) == [plan |-> q.plan, premium |-> q.premium, client |-> c]

\* The row locks taken before _create_policy: marking the payment, or storing
\* the party, writes the quote, and a second request waits for the first's commit.
HoldsLock(w) == First(w) \/ req[w].q.party = NoOpp

\* one_or_none raises on two rows; a new policy needs a premium.
CanIssue(q) ==
  /\ carrier
  /\ \A i, j \in SameNumber(q) : i = j
  /\ SameNumber(q) # {} \/ q.premium # 0

\* Variant: an attempt that has succeeded is not looked at again.
NeedsPolicyOnce(w) ==
  /\ req[w].pc = "paying"
  /\ First(w)
  /\ req[w].q.policy = 0
  /\ req[w].q.party = NoOpp => req[w].q.opp # NoOpp

\* A paid quote without policy, and someone to issue it to.
NeedsPolicy(w) ==
  /\ req[w].pc = "paying"
  /\ IsPaid(PaidQuote(w))
  /\ req[w].q.policy = 0
  /\ req[w].q.party = NoOpp => req[w].q.opp # NoOpp

\* Party and policy in one transaction that holds the rows.
ConfirmIssue(w) ==
  LET q == PaidQuote(w) IN
  /\ NeedsPolicy(w) /\ HoldsLock(w) /\ CanIssue(q)
  /\ RecordPayment(w)
  /\ \E c \in Clients(q) :
       /\ opp' = Convert(w, q, c)
       /\ IF SameNumber(q) # {}
            THEN /\ policies' = policies
                 /\ \E i \in SameNumber(q) :
                      quote' = Merge(quote, req[w].q,
                        [q EXCEPT !.party = c, !.policy = i, !.status = "COMPLETED"])
            ELSE /\ policies' = Append(policies, PolicyOf(q, c))
                 /\ quote' = Merge(quote, req[w].q,
                      [q EXCEPT !.party = c, !.policy = Len(policies) + 1,
                                !.status = "COMPLETED"])
  /\ Done(w)
  /\ UNCHANGED <<travelers, emergency, ref, stripe, carrier, lapsed>>

\* With the party stored and the payment marked nothing is written, so nothing
\* is locked, before the query for the policy number finds none.
ConfirmLookup(w) ==
  LET q == PaidQuote(w) IN
  /\ NeedsPolicy(w) /\ ~HoldsLock(w) /\ CanIssue(q)
  /\ SameNumber(q) = {}
  /\ req' = [req EXCEPT ![w].pc = "issuing"]
  /\ UNCHANGED <<quote, travelers, emergency, attempt, ref, stripe, acked,
                 opp, policies, carrier, lapsed>>

ConfirmInsert(w) ==
  LET q == req[w].q IN
  /\ req[w].pc = "issuing"
  /\ policies' = Append(policies, PolicyOf(q, q.party))
  /\ quote' = Merge(quote, q, [q EXCEPT !.policy = Len(policies) + 1,
                                        !.status = "COMPLETED"])
  /\ Done(w)
  /\ UNCHANGED <<travelers, emergency, attempt, ref, stripe, opp, carrier, lapsed>>

\* Or it finds the policy another request has issued.
ConfirmFound(w) ==
  LET q == PaidQuote(w) IN
  /\ NeedsPolicy(w) /\ ~HoldsLock(w) /\ CanIssue(q)
  /\ \E i \in SameNumber(q) :
       quote' = Merge(quote, req[w].q, [q EXCEPT !.policy = i, !.status = "COMPLETED"])
  /\ Done(w)
  /\ UNCHANGED <<travelers, emergency, attempt, ref, stripe, opp, policies,
                 carrier, lapsed>>

\* No carrier, no premium left on the quote, or two policies of that number.
\* The result page commits the payment and the client; the webhook and the
\* sandbox roll everything back.
ConfirmFailed(w) ==
  LET q == PaidQuote(w) IN
  /\ NeedsPolicy(w) /\ ~CanIssue(q)
  /\ IF req[w].keep
       THEN /\ RecordPayment(w)
            /\ \E c \in Clients(q) :
                 /\ opp' = Convert(w, q, c)
                 /\ quote' = Merge(quote, req[w].q, [q EXCEPT !.party = c])
       ELSE UNCHANGED <<attempt, opp, quote>>
  /\ req' = [req EXCEPT ![w] = Idle]
  /\ UNCHANGED <<travelers, emergency, ref, stripe, acked, policies, carrier, lapsed>>

\* The webhook has answered 200 and its commit fails: nothing is written and, since it was
\* answered, nothing is delivered again.
CommitLost(h) ==
  LET q == PaidQuote(h) IN
  /\ \/ req[h].pc = "issuing"
     \/ NeedsPolicy(h) /\ CanIssue(q)
     \/ req[h].pc = "paying" /\ IsPaid(q) /\ q.policy # 0
  /\ acked' = acked \cup {<<req[h].sess, FALSE>>}
  /\ req' = [req EXCEPT ![h] = Idle]
  /\ UNCHANGED <<quote, travelers, emergency, attempt, ref, stripe, opp,
                 policies, carrier, lapsed>>

Confirm(w) == \/ ConfirmRefused(w) \/ ConfirmIssued(w) \/ ConfirmIssue(w)
              \/ ConfirmLookup(w) \/ ConfirmInsert(w) \/ ConfirmFound(w)
              \/ ConfirmFailed(w)

-----------------------------------------------------------------------------
(* The provider, the operator and the clock *)

\* The customer finishes the hosted checkout page, now or after a delay.
CompleteSession(s) ==
  /\ stripe[s].state = "open"
  /\ \E st \in {"paid"} \cup (IF Delayed THEN {"unpaid"} ELSE {})
                        \cup (IF Drift THEN {"drifted"} ELSE {}) :
       stripe' = [stripe EXCEPT ![s].state = st]
  /\ UNCHANGED <<quote, travelers, emergency, attempt, ref, acked, opp,
                 policies, carrier, lapsed, req>>

SettleSession(s) ==
  /\ stripe[s].state = "unpaid"
  /\ stripe' = [stripe EXCEPT ![s].state = "paid"]
  /\ UNCHANGED <<quote, travelers, emergency, attempt, ref, acked, opp,
                 policies, carrier, lapsed, req>>

ExpireSession(s) ==
  /\ stripe[s].state = "open"
  /\ stripe' = [stripe EXCEPT ![s].state = "expired"]
  /\ UNCHANGED <<quote, travelers, emergency, attempt, ref, acked, opp,
                 policies, carrier, lapsed, req>>

ActivateCarrier ==
  /\ ~carrier
  /\ carrier' = TRUE
  /\ UNCHANGED <<quote, travelers, emergency, attempt, ref, stripe, acked,
                 opp, policies, lapsed, req>>

\* Seven days after the quote was made.
Lapse ==
  /\ ~lapsed
  /\ lapsed' = TRUE
  /\ UNCHANGED <<quote, travelers, emergency, attempt, ref, stripe, acked,
                 opp, policies, carrier, req>>

-----------------------------------------------------------------------------
Next ==
  \/ \E w \in Pages :
       \/ Begin(w)
       \/ \E t \in Trips : Calculate(w, t)
       \/ \E p \in Plans : SelectPlan(w, p)
       \/ SaveTravelers(w) \/ SaveEmergency(w)
       \/ CheckoutRead(w) \/ CheckoutReuse(w) \/ CheckoutCreate(w)
       \/ \E s \in Sessions : ResultPage(w, s) \/ ResultMismatch(w, s)
       \/ \E a \in Amounts : ConfirmSandbox(w, a)
  \/ \E h \in Hooks : CommitLost(h) \/ \E s \in Sessions : Webhook(h, s)
  \/ \E w \in Threads : Confirm(w) \/ Leave(w)
  \/ \E s \in Sessions : CompleteSession(s) \/ SettleSession(s) \/ ExpireSession(s)
  \/ ActivateCarrier \/ Lapse

Spec == Init /\ [][Next]_vars

Answered(s) == \E committed \in BOOLEAN : <<s, committed>> \in acked
Lost(s) == <<s, FALSE>> \in acked

\* Stripe redelivers what was not answered with 200 and not every delivery is
\* cut short; the operator gives the organization a carrier.
Fairness ==
  /\ \A s \in Sessions : SF_vars(\E h \in Hooks : ~Answered(s) /\ Webhook(h, s))
  /\ \A h \in Hooks : SF_vars(Confirm(h)) /\ SF_vars(ConfirmInsert(h))
  /\ WF_vars(ActivateCarrier)

FairSpec == Spec /\ Fairness

-----------------------------------------------------------------------------
(* Properties *)

\* Every variable keeps its type; the columns hold the values the code assigns.
TypeOK ==
  /\ quote \in QuoteRow
  /\ travelers \in Nat
  /\ emergency \in BOOLEAN
  /\ attempt \in [Amounts -> AttemptStatus]
  /\ ref \in [Amounts -> Sessions \cup {NoSession}]
  /\ stripe \in [Sessions -> [amount : Amounts \cup {0}, state : SessionState]]
  /\ acked \subseteq Sessions \X BOOLEAN
  /\ opp \in [Opps -> [stage : {"NONE", "QUOTING", "WON"}, client : Opps \cup {NoOpp}]]
  /\ policies \in Seq([plan : Plans \cup {NoPlan}, premium : Amounts \cup {0},
                       client : Opps \cup {NoOpp}])
  /\ carrier \in BOOLEAN
  /\ lapsed \in BOOLEAN
  /\ req \in [Threads -> Request]

Backed(a) == \E s \in Sessions :
               stripe[s].amount = a /\ stripe[s].state \in {"unpaid", "paid"}

\* "Never trust browser return_url alone": an attempt has succeeded, and a
\* policy exists, only if Stripe reported a session of the quote complete, for
\* the amount asked for.
PaymentIsBacked ==
  /\ \A a \in Amounts : attempt[a] = "SUCCEEDED" => Backed(a)
  /\ policies # <<>> => \E a \in Amounts : Backed(a)

\* However checkouts overlap, one amount is put up for payment once: the
\* customer never holds two payable sessions of one price.
OneSessionPerAmount ==
  \A s, t \in Sessions :
    stripe[s].state # "NONE" /\ stripe[s].amount = stripe[t].amount => s = t

\* No late checkout, page or webhook takes a success back.
SucceededIsFinal ==
  [][\A a \in Amounts : attempt[a] = "SUCCEEDED" => attempt'[a] = "SUCCEEDED"]_vars

\* A completed quote has its client and its policy, whichever request wrote
\* the status and whichever wrote the rest.
CompletedIsIssued ==
  quote.status = "COMPLETED" =>
    /\ quote.party # NoOpp
    /\ quote.policy \in DOMAIN policies

\* The payment is confirmed by page and webhook at once and any number of
\* times, yet one policy is issued, to the client of the quote.
OnePolicy ==
  /\ Len(policies) <= 1
  /\ \A i \in DOMAIN policies : policies[i].client = quote.party

\* The policy covers what the customer paid for.
PolicyIsWhatWasPaid ==
  \A i \in DOMAIN policies :
    \E s \in Sessions : Accepted(s) /\ stripe[s].amount = policies[i].premium

\* "CRM: prospect + oportunidad -> WON al pagar": once a policy is issued, the
\* opportunity the quote points at is won and converted to its client.
IssuedIsWon ==
  policies # <<>> =>
    /\ quote.opp # NoOpp
    /\ opp[quote.opp] = [stage |-> "WON", client |-> quote.party]

\* "Safe to re-run": no policy number is issued twice.
OnePolicyPerNumber ==
  \A i, j \in DOMAIN policies : policies[i].plan = policies[j].plan => i = j

\* "Puedes volver y reintentar cuando quieras": a checkout that hands the
\* stored payment page out again hands out one that can still be paid.
RetryCanBePaid ==
  [][\A w \in Pages : CheckoutReuse(w) =>
       LET s == ref[req[w].amt] IN s = NoSession \/ stripe[s].state # "expired"]_vars

PolicyFor(s) == \E i \in DOMAIN policies : policies[i].premium = stripe[s].amount

\* "pagado -> cliente (Party) + poliza VIAJE": what Stripe was paid is eventually a policy,
\* through failures, refusals and redeliveries, unless a 200 preceded a commit that failed.
PaidIsEventuallyIssued ==
  \A s \in Sessions : stripe[s].state = "paid" ~> PolicyFor(s) \/ Lost(s)

\* The same without the exception.
EveryPaidIsIssued == \A s \in Sessions : stripe[s].state = "paid" ~> PolicyFor(s)

Sale == INSTANCE PaidSale WITH
          charged <- {stripe[s].amount : s \in {x \in Sessions : Accepted(x)}},
          covered <- [i \in DOMAIN policies |-> policies[i].premium],
          forgotten <- \E s \in Sessions : Lost(s)

\* The customer who walks the wizard once is charged once and gets one policy
\* for that amount, whatever page, webhook and redelivery do in between, unless
\* a commit was lost after its 200.
SaleSpec == Sale!Spec
=============================================================================
