------------------------ MODULE PublicCheckoutProofs ------------------------
(* Theorems about PublicCheckout, for every number of threads, trips, plans, *)
(* prices and Stripe sessions.                                              *)
EXTENDS PublicCheckout, SequenceTheorems, TLAPS

PolicyRow == [plan : Plans \cup {NoPlan}, premium : Amounts \cup {0},
              client : Opps \cup {NoOpp}]

\* Writing back the changed columns of a row of the right type leaves one.
LEMMA MergeType ==
  ASSUME NEW db \in QuoteRow, NEW old \in QuoteRow, NEW new \in QuoteRow
  PROVE  Merge(db, old, new) \in QuoteRow
  BY DEF Merge, QuoteRow

\* A new quote and an idle thread have the types of their variables.
LEMMA IdleType == NewQuote \in QuoteRow /\ Idle \in Request
  BY DEF NewQuote, Idle, QuoteRow, Request, QuoteStatus, PaymentStatus, AttemptStatus

\* The premiums of the price table are the amounts of the model.
LEMMA PriceType ==
  ASSUME NEW t \in Trips, NEW p \in Plans
  PROVE  Price[t][p] \in Amounts /\ Price[t][p] \in Nat /\ Price[t][p] # 0
  BY ConstantsAssumption DEF Amounts

\* Marking the quote paid, winning the opportunity and converting it keep the types.
LEMMA PaidType ==
  ASSUME TypeOK, NEW w \in Threads
  PROVE  PaidQuote(w) \in QuoteRow
  BY DEF TypeOK, PaidQuote, Request, QuoteRow, First, QuoteStatus, PaymentStatus

OppTable == [Opps -> [stage : {"NONE", "QUOTING", "WON"}, client : Opps \cup {NoOpp}]]

LEMMA WinType ==
  ASSUME TypeOK, NEW w \in Threads, NEW o \in Opps \cup {NoOpp}
  PROVE  Win(w, o) \in OppTable
  BY DEF TypeOK, Win, OppTable

LEMMA ConvertType ==
  ASSUME TypeOK, NEW w \in Threads, NEW q \in QuoteRow,
         NEW c \in Opps \cup {NoOpp}
  PROVE  Convert(w, q, c) \in OppTable
  <1>1. q.opp \in Opps \cup {NoOpp}
    BY DEF QuoteRow
  <1>2. Win(w, q.opp) \in OppTable
    BY <1>1, WinType
  <1> QED
    BY <1>2 DEF Convert, OppTable

LEMMA ClientType ==
  ASSUME TypeOK, NEW q \in QuoteRow, q.party = NoOpp => q.opp # NoOpp,
         NEW c \in Clients(q)
  PROVE  c \in Opps
  BY DEF TypeOK, Clients, QuoteRow

LEMMA PolicyType ==
  ASSUME NEW q \in QuoteRow, NEW c \in Opps \cup {NoOpp}
  PROVE  PolicyOf(q, c) \in PolicyRow
  BY DEF PolicyOf, PolicyRow, QuoteRow

\* The fields of a paid quote that identify it are those of the quote loaded.
LEMMA PaidKeeps ==
  ASSUME TypeOK, NEW w \in Threads
  PROVE  /\ PaidQuote(w).party = req[w].q.party
         /\ PaidQuote(w).opp = req[w].q.opp
         /\ PaidQuote(w).policy = req[w].q.policy
  BY DEF TypeOK, PaidQuote, Request, QuoteRow

\* The payment recorded, or not, leaves the attempts well typed.
LEMMA RecordType ==
  ASSUME TypeOK, NEW w \in Threads, RecordPayment(w)
  PROVE  attempt' \in [Amounts -> AttemptStatus]
  BY DEF TypeOK, RecordPayment, AttemptStatus

LEMMA AckType ==
  ASSUME NEW S, NEW A, A \subseteq S \X BOOLEAN, NEW s \in S, NEW b \in BOOLEAN
  PROVE  A \cup {<<s, b>>} \subseteq S \X BOOLEAN
  <1>1. <<s, b>> \in S \X BOOLEAN
    OBVIOUS
  <1> QED
    BY <1>1

\* The end of a confirmation keeps the types of what it writes.
LEMMA DoneType ==
  ASSUME TypeOK, NEW w \in Threads, Done(w), req[w].pc # "idle",
         w \in Hooks => req[w].sess \in Sessions
  PROVE  acked' \subseteq Sessions \X BOOLEAN /\ req' \in [Threads -> Request]
  <1>1. acked \subseteq Sessions \X BOOLEAN /\ req \in [Threads -> Request]
    BY DEF TypeOK
  <1>2. CASE w \in Hooks
    <2>1. acked \cup {<<req[w].sess, TRUE>>} \subseteq Sessions \X BOOLEAN
      BY <1>1, <1>2, AckType
    <2> QED
      BY <1>1, <1>2, <2>1, IdleType DEF Done
  <1>3. CASE w \notin Hooks
    BY <1>1, <1>3, IdleType DEF Done
  <1> QED
    BY <1>2, <1>3

-----------------------------------------------------------------------------
(* Type correctness.  The amount a request carries is an index of attempt,   *)
(* and only the webhook acknowledges a session.                              *)

Confirming(w) == req[w].pc \in {"paying", "issuing"}

RequestsSound ==
  \A w \in Threads :
    /\ req[w].pc \in {"checkout", "paying", "issuing"} => req[w].amt \in Amounts
    /\ w \in Hooks /\ req[w].pc # "idle" => Confirming(w) /\ req[w].sess \in Sessions

SessionsSound ==
  \A s \in Sessions : stripe[s].state # "NONE" => stripe[s].amount \in Amounts

TypeInv == TypeOK /\ RequestsSound /\ SessionsSound

LEMMA InitTypeInv == Init => TypeInv
  <1> SUFFICES ASSUME Init PROVE TypeInv
    OBVIOUS
  <1>1. TypeOK
    <2>1. carrier \in BOOLEAN /\ lapsed \in BOOLEAN /\ emergency \in BOOLEAN
      BY ConstantsAssumption DEF Init
    <2>2. /\ quote \in QuoteRow
          /\ req \in [Threads -> Request]
          /\ policies \in Seq(PolicyRow)
          /\ travelers \in Nat /\ acked \subseteq Sessions \X BOOLEAN
      BY IdleType DEF Init
    <2>3. /\ attempt \in [Amounts -> AttemptStatus]
          /\ ref \in [Amounts -> Sessions \cup {NoSession}]
          /\ stripe \in [Sessions -> [amount : Amounts \cup {0}, state : SessionState]]
          /\ opp \in OppTable
      BY DEF Init, AttemptStatus, SessionState, OppTable
    <2> QED
      BY <2>1, <2>2, <2>3 DEF TypeOK, OppTable, PolicyRow
  <1>2. RequestsSound /\ SessionsSound
    BY DEF Init, RequestsSound, SessionsSound, Idle
  <1> QED
    BY <1>1, <1>2 DEF TypeInv

\* The steps that only read and remember, and the ends of requests.
LEMMA RequestSteps ==
  ASSUME TypeInv,
         \/ \E w \in Pages : Begin(w) \/ CheckoutRead(w)
         \/ \E w \in Threads : Leave(w) \/ ConfirmRefused(w) \/ ConfirmLookup(w)
         \/ \E w \in Pages, s \in Sessions : ResultPage(w, s)
         \/ \E w \in Pages, a \in Amounts : ConfirmSandbox(w, a)
         \/ \E h \in Hooks, s \in Sessions : Webhook(h, s)
  PROVE  TypeInv'
  <1> USE DEF TypeInv
  <1> DEFINE Rest == UNCHANGED <<quote, travelers, emergency, attempt, ref, stripe,
                                 acked, opp, policies, carrier, lapsed>>
  <1>0. ASSUME Rest, req' \in [Threads -> Request], RequestsSound'
        PROVE  TypeInv'
    BY <1>0 DEF TypeOK, SessionsSound, Accepted
  <1>1. ASSUME NEW w \in Pages, Begin(w) PROVE TypeInv'
    <2>1. req' \in [Threads -> Request]
      BY <1>1, IdleType DEF Begin, TypeOK, Request, Idle, AttemptStatus
    <2>2. RequestsSound'
      BY <1>1, ConstantsAssumption, IdleType
      DEF Begin, RequestsSound, Confirming, TypeOK, Threads, Request
    <2> QED
      BY <1>0, <1>1, <2>1, <2>2 DEF Begin
  <1>2. ASSUME NEW w \in Threads, Leave(w) \/ ConfirmRefused(w) PROVE TypeInv'
    <2>1. req' \in [Threads -> Request]
      BY <1>2, IdleType DEF Leave, ConfirmRefused, TypeOK
    <2>2. RequestsSound'
      BY <1>2 DEF Leave, ConfirmRefused, RequestsSound, Confirming, TypeOK, Idle
    <2> QED
      BY <1>0, <1>2, <2>1, <2>2 DEF Leave, ConfirmRefused
  <1>3. ASSUME NEW w \in Pages, CheckoutRead(w) PROVE TypeInv'
    <2> w \in Threads /\ w \notin Hooks
      BY ConstantsAssumption DEF Threads
    <2>0. req[w].q.premium \in Amounts
      BY <1>3 DEF CheckoutRead, TypeOK, Threads, Request, QuoteRow
    <2>1. req' \in [Threads -> Request]
      <3>1. req[w] \in Request
        BY DEF TypeOK
      <3>2. [req[w] EXCEPT !.pc = "checkout", !.amt = req[w].q.premium,
                             !.att = attempt[req[w].q.premium]] \in Request
        BY <2>0, <3>1 DEF Request, TypeOK, AttemptStatus
      <3>3. req' = [req EXCEPT ![w] = [req[w] EXCEPT !.pc = "checkout", !.amt = req[w].q.premium,
                             !.att = attempt[req[w].q.premium]]]
        BY <1>3, <3>1 DEF CheckoutRead, Request
      <3> QED
        BY <3>2, <3>3 DEF TypeOK
    <2>2. RequestsSound'
      BY <1>3, <2>0 DEF CheckoutRead, RequestsSound, Confirming, TypeOK, Request
    <2> QED
      BY <1>0, <1>3, <2>1, <2>2 DEF CheckoutRead
  <1>4. ASSUME NEW w \in Pages, NEW s \in Sessions, ResultPage(w, s) PROVE TypeInv'
    <2> w \in Threads /\ w \notin Hooks
      BY ConstantsAssumption DEF Threads
    <2>0. stripe[s].amount \in Amounts
      BY <1>4 DEF ResultPage, Accepted, SessionsSound
    <2>1. req' \in [Threads -> Request]
      <3>1. req[w] \in Request
        BY DEF TypeOK
      <3>2. [req[w] EXCEPT !.pc = "paying", !.amt = stripe[s].amount,
                             !.att = attempt[stripe[s].amount],
                             !.sess = s, !.keep = TRUE] \in Request
        BY <2>0, <3>1 DEF Request, TypeOK, AttemptStatus
      <3>3. req' = [req EXCEPT ![w] = [req[w] EXCEPT !.pc = "paying", !.amt = stripe[s].amount,
                             !.att = attempt[stripe[s].amount],
                             !.sess = s, !.keep = TRUE]]
        BY <1>4, <3>1 DEF ResultPage, Request
      <3> QED
        BY <3>2, <3>3 DEF TypeOK
    <2>2. RequestsSound'
      BY <1>4, <2>0 DEF ResultPage, RequestsSound, Confirming, TypeOK, Request
    <2> QED
      BY <1>0, <1>4, <2>1, <2>2 DEF ResultPage
  <1>5. ASSUME NEW w \in Pages, NEW a \in Amounts, ConfirmSandbox(w, a) PROVE TypeInv'
    <2> w \in Threads /\ w \notin Hooks
      BY ConstantsAssumption DEF Threads
    <2>1. req' \in [Threads -> Request]
      <3>1. req[w] \in Request
        BY DEF TypeOK
      <3>2. [req[w] EXCEPT !.pc = "paying", !.amt = a, !.att = attempt[a]] \in Request
        BY <3>1 DEF Request, TypeOK, AttemptStatus
      <3>3. req' = [req EXCEPT ![w] = [req[w] EXCEPT !.pc = "paying", !.amt = a, !.att = attempt[a]]]
        BY <1>5, <3>1 DEF ConfirmSandbox, Request
      <3> QED
        BY <3>2, <3>3 DEF TypeOK
    <2>2. RequestsSound'
      BY <1>5 DEF ConfirmSandbox, RequestsSound, Confirming, TypeOK, Request
    <2> QED
      BY <1>0, <1>5, <2>1, <2>2 DEF ConfirmSandbox
  <1>6. ASSUME NEW h \in Hooks, NEW s \in Sessions, Webhook(h, s) PROVE TypeInv'
    <2>0. stripe[s].amount \in Amounts
      BY <1>6 DEF Webhook, Accepted, SessionsSound
    <2>1. req' \in [Threads -> Request]
      BY <1>6, <2>0, IdleType DEF Webhook, TypeOK, Request, Idle, Threads
    <2>2. RequestsSound'
      BY <1>6, <2>0, IdleType
      DEF Webhook, RequestsSound, Confirming, TypeOK, Threads, Request, Idle
    <2> QED
      BY <1>0, <1>6, <2>1, <2>2 DEF Webhook
  <1>7. ASSUME NEW w \in Threads, ConfirmLookup(w) PROVE TypeInv'
    <2>1. req' \in [Threads -> Request]
      BY <1>7 DEF ConfirmLookup, TypeOK, Request
    <2>2. RequestsSound'
      BY <1>7 DEF ConfirmLookup, NeedsPolicy, RequestsSound, Confirming, TypeOK, Request
    <2> QED
      BY <1>0, <1>7, <2>1, <2>2 DEF ConfirmLookup
  <1> QED
    BY <1>1, <1>2, <1>3, <1>4, <1>5, <1>6, <1>7

\* A thread that goes idle breaks no assumption about the requests.
LEMMA IdleSound ==
  ASSUME TypeInv, NEW w \in Threads, req' = [req EXCEPT ![w] = Idle]
  PROVE  req' \in [Threads -> Request] /\ RequestsSound'
  <1>1. req' \in [Threads -> Request]
    BY IdleType DEF TypeInv, TypeOK
  <1>2. RequestsSound'
    BY DEF TypeInv, TypeOK, RequestsSound, Confirming, Idle
  <1> QED
    BY <1>1, <1>2

\* The wizard's writes.
LEMMA WizardSteps ==
  ASSUME TypeInv,
         \E w \in Pages :
           \/ \E t \in Trips : Calculate(w, t)
           \/ \E p \in Plans : SelectPlan(w, p)
           \/ SaveTravelers(w) \/ SaveEmergency(w)
  PROVE  TypeInv'
  <1> USE DEF TypeInv
  <1> PICK w \in Pages :
           \/ \E t \in Trips : Calculate(w, t)
           \/ \E p \in Plans : SelectPlan(w, p)
           \/ SaveTravelers(w) \/ SaveEmergency(w)
    OBVIOUS
  <1> w \in Threads /\ req[w].q \in QuoteRow /\ quote \in QuoteRow
    BY DEF Threads, TypeOK, Request
  <1>0. req' \in [Threads -> Request] /\ RequestsSound'
    BY IdleSound DEF Calculate, SelectPlan, SaveTravelers, SaveEmergency
  <1>1. ASSUME NEW t \in Trips, Calculate(w, t) PROVE TypeInv'
    <2> DEFINE q == req[w].q
               u == [q EXCEPT !.trip = t, !.plan = NoPlan, !.premium = 0,
                              !.status = "STARTED", !.quoted = NoTrip]
               c == [u EXCEPT !.quoted = t, !.status = "QUOTED"]
    <2>1. u \in QuoteRow /\ c \in QuoteRow
      BY DEF QuoteRow, QuoteStatus
    <2>2. quote' = Merge(Merge(quote, q, u), u, c)
      BY <1>1 DEF Calculate
    <2> HIDE DEF q, u, c
    <2>3. Merge(quote, q, u) \in QuoteRow
      BY <2>1, MergeType DEF q
    <2>4. quote' \in QuoteRow
      BY <2>1, <2>2, <2>3, MergeType
    <2> QED
      BY <1>0, <1>1, <2>4 DEF Calculate, TypeOK, SessionsSound
  <1>2. ASSUME NEW p \in Plans, SelectPlan(w, p) PROVE TypeInv'
    <2> DEFINE n == [req[w].q EXCEPT !.plan = p,
                       !.premium = Price[req[w].q.quoted][p], !.status = "PLAN_SELECTED"]
    <2>1. req[w].q.quoted \in Trips
      BY <1>2 DEF SelectPlan, QuoteRow
    <2>2. n \in QuoteRow
      BY <2>1, PriceType DEF QuoteRow, QuoteStatus
    <2>3. quote' = Merge(quote, req[w].q, n)
      BY <1>2 DEF SelectPlan
    <2> HIDE DEF n
    <2>4. quote' \in QuoteRow
      BY <2>2, <2>3, MergeType
    <2> QED
      BY <1>0, <1>2, <2>4 DEF SelectPlan, TypeOK, SessionsSound
  <1>3. ASSUME SaveTravelers(w) PROVE TypeInv'
    <2>1. PICK o \in Opps :
            /\ IF req[w].q.opp = NoOpp
                 THEN opp' = [opp EXCEPT ![o].stage = "QUOTING"]
                 ELSE opp' = opp
            /\ quote' = Merge(quote, req[w].q,
                              [req[w].q EXCEPT !.status = "CUSTOMER_DATA", !.opp = o])
      BY <1>3 DEF SaveTravelers
    <2>2. [req[w].q EXCEPT !.status = "CUSTOMER_DATA", !.opp = o] \in QuoteRow
      BY DEF QuoteRow, QuoteStatus
    <2>3. quote' \in QuoteRow
      BY <2>1, <2>2, MergeType
    <2>4. opp' \in OppTable
      BY <2>1 DEF TypeOK, OppTable
    <2>5. travelers' \in Nat
      BY <1>3, ConstantsAssumption DEF SaveTravelers, QuoteRow
    <2> QED
      BY <1>0, <1>3, <2>3, <2>4, <2>5 DEF SaveTravelers, TypeOK, SessionsSound, OppTable
  <1>4. ASSUME SaveEmergency(w) PROVE TypeInv'
    BY <1>0, <1>4 DEF SaveEmergency, TypeOK, SessionsSound
  <1> QED
    BY <1>1, <1>2, <1>3, <1>4

\* The checkout's writes, and a page that commits a payment of another amount.
LEMMA CheckoutSteps ==
  ASSUME TypeInv,
         \E w \in Pages :
           \/ CheckoutReuse(w) \/ CheckoutCreate(w)
           \/ \E s \in Sessions : ResultMismatch(w, s)
  PROVE  TypeInv'
  <1> USE DEF TypeInv
  <1> PICK w \in Pages :
           \/ CheckoutReuse(w) \/ CheckoutCreate(w)
           \/ \E s \in Sessions : ResultMismatch(w, s)
    OBVIOUS
  <1> w \in Threads /\ req[w].q \in QuoteRow /\ quote \in QuoteRow
    BY DEF Threads, TypeOK, Request
  <1>0. req' \in [Threads -> Request] /\ RequestsSound'
    BY IdleSound DEF CheckoutReuse, CheckoutCreate, ResultMismatch
  <1>1. ASSUME AwaitPayment(w) PROVE quote' \in QuoteRow
    <2>1. [req[w].q EXCEPT !.status = "CHECKOUT_PENDING", !.pay = "PENDING"] \in QuoteRow
      BY DEF QuoteRow, QuoteStatus, PaymentStatus
    <2> QED
      BY <1>1, <2>1, MergeType DEF AwaitPayment
  <1>2. ASSUME CheckoutReuse(w) PROVE TypeInv'
    BY <1>0, <1>1, <1>2 DEF CheckoutReuse, TypeOK, SessionsSound
  <1>3. ASSUME CheckoutCreate(w) PROVE TypeInv'
    <2>1. req[w].amt \in Amounts
      BY <1>3 DEF CheckoutCreate, RequestsSound
    <2>2. attempt' \in [Amounts -> AttemptStatus]
      BY <1>3 DEF CheckoutCreate, TypeOK, AttemptStatus
    <2>3. /\ ref' \in [Amounts -> Sessions \cup {NoSession}]
          /\ stripe' \in [Sessions -> [amount : Amounts \cup {0}, state : SessionState]]
          /\ SessionsSound'
      <3>1. ASSUME NEW s \in Sessions,
                   stripe' = [stripe EXCEPT ![s] = [amount |-> req[w].amt, state |-> "open"]],
                   ref' = [ref EXCEPT ![req[w].amt] = s]
            PROVE  /\ ref' \in [Amounts -> Sessions \cup {NoSession}]
                   /\ stripe' \in [Sessions -> [amount : Amounts \cup {0}, state : SessionState]]
                   /\ SessionsSound'
        BY <2>1, <3>1 DEF TypeOK, SessionState, SessionsSound
      <3>2. CASE ref' = [ref EXCEPT ![req[w].amt] = NoSession] /\ stripe' = stripe
        BY <2>1, <3>2 DEF TypeOK, SessionsSound
      <3> QED
        BY <1>3, <3>1, <3>2 DEF CheckoutCreate
    <2>4. quote' \in QuoteRow
      BY <1>1, <1>3 DEF CheckoutCreate
    <2> QED
      BY <1>0, <1>3, <2>2, <2>3, <2>4 DEF CheckoutCreate, TypeOK
  <1>4. ASSUME NEW s \in Sessions, ResultMismatch(w, s) PROVE TypeInv'
    <2>1. attempt' \in [Amounts -> AttemptStatus]
      BY <1>4 DEF ResultMismatch, TypeOK, AttemptStatus
    <2>2. [req[w].q EXCEPT !.pay = "FAILED"] \in QuoteRow
      BY DEF QuoteRow, PaymentStatus
    <2>3. quote' \in QuoteRow
      BY <1>4, <2>2, MergeType DEF ResultMismatch
    <2> QED
      BY <1>0, <1>4, <2>1, <2>3 DEF ResultMismatch, TypeOK, SessionsSound
  <1> QED
    BY <1>2, <1>3, <1>4

\* The steps of the provider, the operator and the clock.
LEMMA EnvironmentSteps ==
  ASSUME TypeInv,
         \/ \E s \in Sessions :
              CompleteSession(s) \/ SettleSession(s) \/ ExpireSession(s)
         \/ ActivateCarrier \/ Lapse
  PROVE  TypeInv'
  <1> USE DEF TypeInv
  <1>1. ASSUME NEW s \in Sessions, CompleteSession(s) PROVE TypeInv'
    BY <1>1 DEF CompleteSession, TypeOK, SessionsSound, RequestsSound, Confirming, SessionState
  <1>2. ASSUME NEW s \in Sessions, SettleSession(s) PROVE TypeInv'
    BY <1>2 DEF SettleSession, TypeOK, SessionsSound, RequestsSound, Confirming, SessionState
  <1>3. ASSUME NEW s \in Sessions, ExpireSession(s) PROVE TypeInv'
    BY <1>3 DEF ExpireSession, TypeOK, SessionsSound, RequestsSound, Confirming, SessionState
  <1>4. ASSUME ActivateCarrier PROVE TypeInv'
    BY <1>4 DEF ActivateCarrier, TypeOK, SessionsSound, RequestsSound, Confirming
  <1>5. ASSUME Lapse PROVE TypeInv'
    BY <1>5 DEF Lapse, TypeOK, SessionsSound, RequestsSound, Confirming
  <1> QED
    BY <1>1, <1>2, <1>3, <1>4, <1>5

\* What every confirmation that ends well leaves behind.
LEMMA DoneSound ==
  ASSUME TypeInv, NEW w \in Threads, Done(w), req[w].pc # "idle"
  PROVE  acked' \subseteq Sessions \X BOOLEAN /\ req' \in [Threads -> Request] /\ RequestsSound'
  <1>1. w \in Hooks => req[w].sess \in Sessions
    BY DEF TypeInv, RequestsSound
  <1>2. acked' \subseteq Sessions \X BOOLEAN /\ req' \in [Threads -> Request]
    BY <1>1, DoneType DEF TypeInv
  <1>3. RequestsSound'
    BY IdleSound DEF Done
  <1> QED
    BY <1>2, <1>3

\* A commit lost after its answer leaves an acknowledgement.
LEMMA LossSteps ==
  ASSUME TypeInv, NEW h \in Hooks, CommitLost(h)
  PROVE  TypeInv' /\ Confirming(h)
  <1> h \in Threads
    BY DEF Threads
  <1>1. Confirming(h) /\ req[h].pc # "idle"
    BY DEF CommitLost, NeedsPolicy, Confirming
  <1>2. req' \in [Threads -> Request] /\ RequestsSound'
    BY IdleSound DEF CommitLost
  <1>3. req[h].sess \in Sessions
    BY <1>1 DEF TypeInv, RequestsSound
  <1>4. acked' \subseteq Sessions \X BOOLEAN
    <2>1. acked' = acked \cup {<<req[h].sess, FALSE>>}
      BY DEF CommitLost
    <2>2. acked \subseteq Sessions \X BOOLEAN
      BY DEF TypeInv, TypeOK
    <2> QED
      BY <1>3, <2>1, <2>2, AckType
  <1> QED
    BY <1>1, <1>2, <1>4 DEF CommitLost, TypeInv, TypeOK, SessionsSound

\* The policy a quote is given, looked up or appended, is a position.
LEMMA PositionType ==
  ASSUME TypeInv, NEW q
  PROVE  /\ \A i \in SameNumber(q) : i \in Nat
         /\ Len(policies) + 1 \in Nat
         /\ policies \in Seq(PolicyRow)
  <1>1. policies \in Seq(PolicyRow)
    BY DEF TypeInv, TypeOK, PolicyRow
  <1>2. DOMAIN policies = 1 .. Len(policies) /\ Len(policies) \in Nat
    BY <1>1, LenProperties
  <1> QED
    BY <1>1, <1>2 DEF SameNumber

\* A row given a client, a policy and a status is a row.
LEMMA StampType ==
  ASSUME NEW q \in QuoteRow, NEW c \in Opps \cup {NoOpp}, NEW i \in Nat
  PROVE  /\ [q EXCEPT !.party = c] \in QuoteRow
         /\ [q EXCEPT !.policy = i, !.status = "COMPLETED"] \in QuoteRow
         /\ [q EXCEPT !.party = c, !.policy = i, !.status = "COMPLETED"] \in QuoteRow
         /\ [q EXCEPT !.status = IF @ = "PAID" THEN "COMPLETED" ELSE @] \in QuoteRow
  BY DEF QuoteRow, QuoteStatus

\* The confirmations that write.
LEMMA ConfirmSteps ==
  ASSUME TypeInv, NEW w \in Threads,
         ConfirmIssued(w) \/ ConfirmIssue(w) \/ ConfirmInsert(w) \/ ConfirmFound(w)
           \/ ConfirmFailed(w)
  PROVE  TypeInv'
  <1> TypeOK /\ req[w].q \in QuoteRow /\ quote \in QuoteRow /\ PaidQuote(w) \in QuoteRow
    BY PaidType DEF TypeInv, TypeOK, Request
  <1>1. ASSUME quote' \in QuoteRow, attempt' \in [Amounts -> AttemptStatus],
               opp' \in OppTable, policies' \in Seq(PolicyRow),
               acked' \subseteq Sessions \X BOOLEAN, req' \in [Threads -> Request], RequestsSound',
               UNCHANGED <<travelers, emergency, ref, stripe, carrier, lapsed>>
        PROVE  TypeInv'
    BY <1>1 DEF TypeInv, TypeOK, OppTable, PolicyRow, SessionsSound
  <1>2. policies \in Seq(PolicyRow) /\ opp \in OppTable
        /\ attempt \in [Amounts -> AttemptStatus] /\ acked \subseteq Sessions \X BOOLEAN
    BY DEF TypeOK, PolicyRow, OppTable
  <1>3. PaidQuote(w).opp \in Opps \cup {NoOpp}
    BY DEF QuoteRow
  <1>4. CASE ConfirmIssued(w)
    <2>1. acked' \subseteq Sessions \X BOOLEAN /\ req' \in [Threads -> Request] /\ RequestsSound'
      BY <1>4, DoneSound DEF ConfirmIssued
    <2>2. attempt' \in [Amounts -> AttemptStatus]
      BY <1>4, RecordType DEF ConfirmIssued
    <2>3. opp' \in OppTable
      BY <1>3, <1>4, WinType DEF ConfirmIssued
    <2>4. quote' \in QuoteRow
      <3> DEFINE n == [PaidQuote(w) EXCEPT !.status = IF @ = "PAID" THEN "COMPLETED" ELSE @]
      <3>1. n \in QuoteRow
        BY StampType
      <3>2. quote' = Merge(quote, req[w].q, n)
        BY <1>4 DEF ConfirmIssued
      <3> HIDE DEF n
      <3> QED
        BY <3>1, <3>2, MergeType
    <2> QED
      BY <1>1, <1>2, <1>4, <2>1, <2>2, <2>3, <2>4 DEF ConfirmIssued
  <1>5. CASE ConfirmIssue(w)
    <2> DEFINE q == PaidQuote(w)
    <2>1. acked' \subseteq Sessions \X BOOLEAN /\ req' \in [Threads -> Request] /\ RequestsSound'
      BY <1>5, DoneSound DEF ConfirmIssue, NeedsPolicy
    <2>2. attempt' \in [Amounts -> AttemptStatus]
      BY <1>5, RecordType DEF ConfirmIssue
    <2>3. PICK c \in Clients(q) :
            /\ opp' = Convert(w, q, c)
            /\ IF SameNumber(q) # {}
                 THEN /\ policies' = policies
                      /\ \E i \in SameNumber(q) :
                           quote' = Merge(quote, req[w].q,
                             [q EXCEPT !.party = c, !.policy = i, !.status = "COMPLETED"])
                 ELSE /\ policies' = Append(policies, PolicyOf(q, c))
                      /\ quote' = Merge(quote, req[w].q,
                           [q EXCEPT !.party = c, !.policy = Len(policies) + 1,
                                     !.status = "COMPLETED"])
      BY <1>5 DEF ConfirmIssue
    <2>4. c \in Opps
      BY <1>5, PaidKeeps, ClientType DEF ConfirmIssue, NeedsPolicy
    <2> q \in QuoteRow
      OBVIOUS
    <2> HIDE DEF q
    <2>5. opp' \in OppTable
      BY <2>3, <2>4, ConvertType
    <2>6. PolicyOf(q, c) \in PolicyRow
      BY <2>4, PolicyType
    <2>7. policies' \in Seq(PolicyRow)
      <3>1. Append(policies, PolicyOf(q, c)) \in Seq(PolicyRow)
        BY <1>2, <2>6, AppendProperties
      <3> QED
        BY <1>2, <2>3, <3>1
    <2>8. quote' \in QuoteRow
      <3> DEFINE n(i) == [q EXCEPT !.party = c, !.policy = i, !.status = "COMPLETED"]
      <3>1. \A i \in Nat : n(i) \in QuoteRow
        BY <2>4, StampType
      <3>2. \E i \in Nat : quote' = Merge(quote, req[w].q, n(i))
        <4>1. Len(policies) + 1 \in Nat /\ \A i \in SameNumber(q) : i \in Nat
          BY PositionType
        <4> QED
          BY <2>3, <4>1
      <3> HIDE DEF n
      <3> QED
        BY <3>1, <3>2, MergeType
    <2> QED
      BY <1>1, <1>5, <2>1, <2>2, <2>5, <2>7, <2>8 DEF ConfirmIssue
  <1>6. CASE ConfirmInsert(w)
    <2> DEFINE q == req[w].q
    <2>1. acked' \subseteq Sessions \X BOOLEAN /\ req' \in [Threads -> Request] /\ RequestsSound'
      BY <1>6, DoneSound DEF ConfirmInsert
    <2>2. q.party \in Opps \cup {NoOpp}
      BY DEF QuoteRow
    <2>3. policies' \in Seq(PolicyRow)
      BY <1>2, <1>6, <2>2, PolicyType, AppendProperties DEF ConfirmInsert
    <2>4. quote' = Merge(quote, q, [q EXCEPT !.policy = Len(policies) + 1,
                                             !.status = "COMPLETED"])
      BY <1>6 DEF ConfirmInsert
    <2>5. quote' \in QuoteRow
      BY <2>2, <2>4, PositionType, StampType, MergeType
    <2> QED
      BY <1>1, <1>2, <1>6, <2>1, <2>3, <2>5 DEF ConfirmInsert
  <1>7. CASE ConfirmFound(w)
    <2> DEFINE q == PaidQuote(w)
    <2>1. acked' \subseteq Sessions \X BOOLEAN /\ req' \in [Threads -> Request] /\ RequestsSound'
      BY <1>7, DoneSound DEF ConfirmFound, NeedsPolicy
    <2>2. PICK i \in SameNumber(q) :
            quote' = Merge(quote, req[w].q, [q EXCEPT !.policy = i, !.status = "COMPLETED"])
      BY <1>7 DEF ConfirmFound
    <2> q \in QuoteRow
      OBVIOUS
    <2> HIDE DEF q
    <2>3. quote' \in QuoteRow
      BY <2>2, PositionType, StampType, MergeType
    <2> QED
      BY <1>1, <1>2, <1>7, <2>1, <2>3 DEF ConfirmFound
  <1>8. CASE ConfirmFailed(w)
    <2> DEFINE q == PaidQuote(w)
    <2>1. req' \in [Threads -> Request] /\ RequestsSound'
      BY <1>8, IdleSound DEF ConfirmFailed
    <2>2. CASE req[w].keep
      <3>1. attempt' \in [Amounts -> AttemptStatus]
        BY <1>8, <2>2, RecordType DEF ConfirmFailed
      <3>2. PICK c \in Clients(q) :
              /\ opp' = Convert(w, q, c)
              /\ quote' = Merge(quote, req[w].q, [q EXCEPT !.party = c])
        BY <1>8, <2>2 DEF ConfirmFailed
      <3>3. c \in Opps
        BY <1>8, PaidKeeps, ClientType DEF ConfirmFailed, NeedsPolicy
      <3> q \in QuoteRow
        OBVIOUS
      <3> HIDE DEF q
      <3>4. opp' \in OppTable
        BY <3>2, <3>3, ConvertType
      <3>5. quote' \in QuoteRow
        BY <3>2, <3>3, StampType, MergeType
      <3> QED
        BY <1>1, <1>2, <1>8, <2>1, <3>1, <3>4, <3>5 DEF ConfirmFailed
    <2>3. CASE ~req[w].keep
      BY <1>1, <1>2, <1>8, <2>1, <2>3 DEF ConfirmFailed
    <2> QED
      BY <2>2, <2>3
  <1> QED
    BY <1>4, <1>5, <1>6, <1>7, <1>8

LEMMA NextTypeInv == TypeInv /\ [Next]_vars => TypeInv'
  <1> SUFFICES ASSUME TypeInv, [Next]_vars PROVE TypeInv'
    OBVIOUS
  <1>1. CASE UNCHANGED vars
    BY <1>1 DEF vars, TypeInv, TypeOK, RequestsSound, SessionsSound, Confirming
  <1>2. CASE Next
    BY <1>2, RequestSteps, WizardSteps, CheckoutSteps, ConfirmSteps, LossSteps, EnvironmentSteps
    DEF Next, Confirm
  <1> QED
    BY <1>1, <1>2

\* Every variable keeps its type, and requests and sessions carry amounts of
\* the price table: web/public_channel_routes.py never stores a value its
\* columns do not know.
THEOREM InvariantTypes == Spec => []TypeInv
  BY InitTypeInv, NextTypeInv, PTL DEF Spec

\* TypeOK, the type invariant the runs check.
THEOREM TypeCorrect == Spec => []TypeOK
  BY InvariantTypes, PTL DEF TypeInv

-----------------------------------------------------------------------------
(* Payments.  Four kinds of step touch the attempts or the sessions.         *)

MarksPaid(w) ==
  /\ Confirming(w)
  /\ attempt' = [attempt EXCEPT ![req[w].amt] = "SUCCEEDED"]

SessionMoves(s) == CompleteSession(s) \/ SettleSession(s) \/ ExpireSession(s)

LEMMA StepKinds ==
  ASSUME [Next]_vars
  PROVE  \/ \E w \in Pages : CheckoutCreate(w)
         \/ \E w \in Pages, s \in Sessions : ResultMismatch(w, s)
         \/ (\E s \in Sessions : SessionMoves(s)) /\ UNCHANGED attempt
         \/ UNCHANGED stripe /\ (UNCHANGED attempt \/ \E w \in Threads : MarksPaid(w))
  <1>1. CASE UNCHANGED vars
    BY <1>1 DEF vars
  <1>2. ASSUME NEW w \in Pages,
               \/ Begin(w)
               \/ \E t \in Trips : Calculate(w, t)
               \/ \E p \in Plans : SelectPlan(w, p)
               \/ SaveTravelers(w) \/ SaveEmergency(w)
               \/ CheckoutRead(w) \/ CheckoutReuse(w)
               \/ \E s \in Sessions : ResultPage(w, s)
               \/ \E a \in Amounts : ConfirmSandbox(w, a)
        PROVE  UNCHANGED <<stripe, attempt>>
    BY <1>2 DEF Begin, Calculate, SelectPlan, SaveTravelers, SaveEmergency,
                CheckoutRead, CheckoutReuse, ResultPage, ConfirmSandbox
  <1>3. ASSUME NEW w \in Threads, Confirm(w) \/ Leave(w)
        PROVE  UNCHANGED stripe /\ (UNCHANGED attempt \/ MarksPaid(w))
    BY <1>3 DEF Confirm, Leave, ConfirmRefused, ConfirmIssued, ConfirmIssue, ConfirmLookup,
                ConfirmInsert, ConfirmFound, ConfirmFailed, RecordPayment, NeedsPolicy,
                Confirming, MarksPaid
  <1>4. ASSUME NEW h \in Hooks, CommitLost(h) \/ \E s \in Sessions : Webhook(h, s)
        PROVE  UNCHANGED <<stripe, attempt>>
    BY <1>4 DEF CommitLost, Webhook
  <1>5. ASSUME NEW s \in Sessions, SessionMoves(s)
        PROVE  UNCHANGED attempt
    BY <1>5 DEF SessionMoves, CompleteSession, SettleSession, ExpireSession
  <1>6. ASSUME ActivateCarrier \/ Lapse
        PROVE  UNCHANGED <<stripe, attempt>>
    BY <1>6 DEF ActivateCarrier, Lapse
  <1> QED
    BY <1>1, <1>2, <1>3, <1>4, <1>5, <1>6 DEF Next, SessionMoves

\* What the provider has completed stays completed.
LEMMA BackedStable ==
  ASSUME TypeInv, [Next]_vars, NEW a \in Amounts, Backed(a)
  PROVE  Backed(a)'
  <1> PICK t \in Sessions : stripe[t].amount = a /\ stripe[t].state \in {"unpaid", "paid"}
    BY DEF Backed
  <1> SUFFICES stripe'[t].amount = a /\ stripe'[t].state \in {"unpaid", "paid"}
    BY DEF Backed
  <1>1. ASSUME NEW w \in Pages, CheckoutCreate(w)
        PROVE  stripe'[t].amount = a /\ stripe'[t].state \in {"unpaid", "paid"}
    BY <1>1 DEF CheckoutCreate, TypeInv, TypeOK
  <1>2. ASSUME NEW s \in Sessions, SessionMoves(s)
        PROVE  stripe'[t].amount = a /\ stripe'[t].state \in {"unpaid", "paid"}
    BY <1>2 DEF SessionMoves, CompleteSession, SettleSession, ExpireSession, TypeInv, TypeOK
  <1>3. ASSUME NEW w \in Pages, NEW s \in Sessions, ResultMismatch(w, s)
        PROVE  UNCHANGED stripe
    BY <1>3 DEF ResultMismatch
  <1> QED
    BY <1>1, <1>2, <1>3, StepKinds

\* A request that confirms has Stripe's word for the amount it confirms.
Backing == PaymentIsBacked /\ \A w \in Threads : Confirming(w) => Backed(req[w].amt)

LEMMA PoliciesMove ==
  ASSUME [Next]_vars
  PROVE  UNCHANGED policies \/ \E w \in Threads : Confirm(w)
  <1>1. CASE UNCHANGED vars
    BY <1>1 DEF vars
  <1>2. ASSUME NEW w \in Pages,
               \/ Begin(w)
               \/ \E t \in Trips : Calculate(w, t)
               \/ \E p \in Plans : SelectPlan(w, p)
               \/ SaveTravelers(w) \/ SaveEmergency(w)
               \/ CheckoutRead(w) \/ CheckoutReuse(w) \/ CheckoutCreate(w)
               \/ \E s \in Sessions : ResultPage(w, s) \/ ResultMismatch(w, s)
               \/ \E a \in Amounts : ConfirmSandbox(w, a)
        PROVE  UNCHANGED policies
    BY <1>2 DEF Begin, Calculate, SelectPlan, SaveTravelers, SaveEmergency, CheckoutRead,
                CheckoutReuse, CheckoutCreate, ResultPage, ResultMismatch, ConfirmSandbox
  <1>3. ASSUME NEW w \in Threads, Leave(w)
        PROVE  UNCHANGED policies
    BY <1>3 DEF Leave
  <1>4. ASSUME \/ \E h \in Hooks : CommitLost(h) \/ \E s \in Sessions : Webhook(h, s)
               \/ \E s \in Sessions :
                    CompleteSession(s) \/ SettleSession(s) \/ ExpireSession(s)
        PROVE  UNCHANGED policies
    BY <1>4 DEF CommitLost, Webhook, CompleteSession, SettleSession, ExpireSession
  <1>5. ASSUME ActivateCarrier \/ Lapse
        PROVE  UNCHANGED policies
    BY <1>5 DEF ActivateCarrier, Lapse
  <1> QED
    BY <1>1, <1>2, <1>3, <1>4, <1>5 DEF Next

LEMMA BackingStep ==
  ASSUME "SANDBOX" \notin Providers, TypeInv, Backing, [Next]_vars
  PROVE  Backing'
  <1>1. \A a \in Amounts : Backed(a) => Backed(a)'
    BY BackedStable
  <1>2. ASSUME NEW w \in Threads, Confirming(w)
        PROVE  req[w].amt \in Amounts /\ Backed(req[w].amt)
    BY <1>2 DEF Backing, TypeInv, RequestsSound, Confirming
  <1>3. ASSUME NEW a \in Amounts, attempt'[a] = "SUCCEEDED"
        PROVE  Backed(a)'
    <2>1. CASE attempt[a] = "SUCCEEDED"
      BY <1>1, <2>1 DEF Backing, PaymentIsBacked
    <2>2. CASE \E w \in Pages : CheckoutCreate(w)
      BY <1>3, <2>1, <2>2 DEF CheckoutCreate, TypeInv, TypeOK
    <2>3. CASE \E w \in Pages, s \in Sessions : ResultMismatch(w, s)
      BY <1>3, <2>1, <2>3 DEF ResultMismatch, TypeInv, TypeOK
    <2>4. CASE \E w \in Threads : MarksPaid(w)
      BY <1>1, <1>2, <1>3, <2>1, <2>4 DEF MarksPaid, TypeInv, TypeOK
    <2> QED
      BY <1>3, <2>1, <2>2, <2>3, <2>4, StepKinds
  <1>4. ASSUME policies' # <<>>
        PROVE  \E a \in Amounts : Backed(a)'
    <2>1. CASE policies # <<>>
      BY <1>1, <2>1 DEF Backing, PaymentIsBacked
    <2>2. CASE \E w \in Threads : Confirm(w) /\ Confirming(w)
      BY <1>1, <1>2, <2>2
    <2>3. CASE UNCHANGED policies
      BY <1>4, <2>1, <2>3
    <2>4. ASSUME NEW w \in Threads, Confirm(w), policies' # policies
          PROVE  Confirming(w)
      BY <2>4 DEF Confirm, Confirming, ConfirmRefused, ConfirmIssued, ConfirmIssue,
                  ConfirmLookup, ConfirmInsert, ConfirmFound, ConfirmFailed, NeedsPolicy
    <2>5. UNCHANGED policies \/ \E w \in Threads : Confirm(w)
      BY PoliciesMove
    <2> QED
      BY <2>2, <2>3, <2>4, <2>5
  <1>5. ASSUME NEW w \in Threads, Confirming(w)'
        PROVE  Backed(req[w].amt)'
    <2>1. CASE req'[w] = req[w]
      BY <1>1, <1>2, <1>5, <2>1 DEF Confirming
    <2>2. CASE req'[w] = Idle
      BY <1>5, <2>2 DEF Confirming, Idle
    <2>3. CASE \E s \in Sessions : ResultPage(w, s)
      <3>1. PICK s \in Sessions : ResultPage(w, s)
        BY <2>3
      <3>2. req'[w].amt = stripe[s].amount /\ UNCHANGED stripe
        BY <3>1 DEF ResultPage, TypeInv, TypeOK, Request
      <3>3. stripe[s].state \in {"unpaid", "paid"}
        BY <3>1 DEF ResultPage, Accepted
      <3> QED
        BY <3>2, <3>3 DEF Backed
    <2>4. CASE w \in Hooks /\ \E s \in Sessions : Webhook(w, s)
      <3>1. PICK s \in Sessions : Webhook(w, s)
        BY <2>4
      <3>2. req'[w].amt = stripe[s].amount /\ UNCHANGED stripe
        BY <2>4, <3>1 DEF Webhook, TypeInv, TypeOK, Idle
      <3>3. stripe[s].state \in {"unpaid", "paid"}
        BY <3>1 DEF Webhook, Accepted
      <3> QED
        BY <3>2, <3>3 DEF Backed
    <2>5. CASE ConfirmLookup(w)
      <3>1. Confirming(w) /\ req'[w].amt = req[w].amt
        BY <2>5 DEF ConfirmLookup, NeedsPolicy, Confirming, TypeInv, TypeOK, Request
      <3> QED
        BY <1>1, <1>2, <3>1
    <2>6. CASE req'[w].pc \in {"loaded", "checkout"}
      BY <1>5, <2>6 DEF Confirming
    <2>7. \/ req'[w] = req[w] \/ req'[w] = Idle
          \/ \E s \in Sessions : ResultPage(w, s)
          \/ w \in Hooks /\ \E s \in Sessions : Webhook(w, s)
          \/ ConfirmLookup(w)
          \/ req'[w].pc \in {"loaded", "checkout"}
      <3> req \in [Threads -> Request] /\ Pages \subseteq Threads /\ Hooks \subseteq Threads
        BY DEF TypeInv, TypeOK, Threads
      <3>1. ASSUME NEW v \in Threads, req' = [req EXCEPT ![v] = Idle]
            PROVE  req'[w] = req[w] \/ req'[w] = Idle
        BY <3>1
      <3>2. ASSUME NEW v \in Pages, Begin(v) \/ CheckoutRead(v)
            PROVE  req'[w] = req[w] \/ req'[w].pc \in {"loaded", "checkout"}
        <4>1. CASE w # v
          BY <3>2, <4>1 DEF Begin, CheckoutRead
        <4>2. CASE w = v /\ Begin(v)
          BY <4>2 DEF Begin, Idle
        <4>3. CASE w = v /\ CheckoutRead(v)
          <5>1. req[v] \in Request
            BY DEF Threads
          <5>2. req'[v].pc = "checkout"
            BY <4>3, <5>1 DEF CheckoutRead, Request
          <5> QED
            BY <4>3, <5>2
        <4> QED
          BY <3>2, <4>1, <4>2, <4>3
      <3>3. ASSUME NEW v \in Pages, NEW s \in Sessions, ResultPage(v, s)
            PROVE  req'[w] = req[w] \/ ResultPage(w, s)
        <4>1. CASE w = v
          BY <3>3, <4>1
        <4>2. CASE w # v
          BY <3>3, <4>2 DEF ResultPage
        <4> QED
          BY <4>1, <4>2
      <3>4. ASSUME NEW h \in Hooks, NEW s \in Sessions, Webhook(h, s)
            PROVE  req'[w] = req[w] \/ (w \in Hooks /\ Webhook(w, s))
        <4>1. CASE w = h
          BY <3>4, <4>1
        <4>2. CASE w # h
          BY <3>4, <4>2 DEF Webhook
        <4> QED
          BY <4>1, <4>2
      <3>5. CASE \E v \in Threads : ConfirmLookup(v)
        BY <3>5 DEF ConfirmLookup
      <3>6. CASE UNCHANGED req
        BY <3>6
      <3>7. CASE \E v \in Threads : req' = [req EXCEPT ![v] = Idle]
        BY <3>1, <3>7
      <3>8. \/ \E v \in Pages : Begin(v) \/ CheckoutRead(v)
            \/ \E v \in Pages, s \in Sessions : ResultPage(v, s)
            \/ \E h \in Hooks, s \in Sessions : Webhook(h, s)
            \/ \E v \in Threads : ConfirmLookup(v)
            \/ UNCHANGED req
            \/ \E v \in Threads : req' = [req EXCEPT ![v] = Idle]
        BY DEF Next, vars, Calculate, SelectPlan, SaveTravelers, SaveEmergency,
               CheckoutReuse, CheckoutCreate, ResultMismatch,
               ConfirmSandbox, Leave, CommitLost, CompleteSession, SettleSession, ExpireSession,
               ActivateCarrier, Lapse, Confirm, ConfirmRefused, ConfirmIssued,
               ConfirmIssue, ConfirmInsert, ConfirmFound, ConfirmFailed, Done
      <3> QED
        BY <3>2, <3>3, <3>4, <3>5, <3>6, <3>7, <3>8
    <2> QED
      BY <2>1, <2>2, <2>3, <2>4, <2>5, <2>6, <2>7
  <1> QED
    BY <1>3, <1>4, <1>5 DEF Backing, PaymentIsBacked

\* "Never trust browser return_url alone" (public_channel_payments.py): no
\* attempt succeeds and no policy exists unless Stripe reported a session of
\* that amount complete, however pages, webhooks and their retries interleave.
THEOREM PaymentsAreBacked ==
  ASSUME "SANDBOX" \notin Providers
  PROVE  Spec => []PaymentIsBacked
  <1>1. Init => Backing
    BY DEF Init, Backing, PaymentIsBacked, Confirming, Idle
  <1>2. TypeInv /\ Backing /\ [Next]_vars => Backing'
    BY BackingStep
  <1>3. Backing => PaymentIsBacked
    BY DEF Backing
  <1> QED
    BY <1>1, <1>2, <1>3, InvariantTypes, PTL DEF Spec

-----------------------------------------------------------------------------
(* One session per amount.  While Stripe reports the totals it was asked for, *)
(* an attempt never fails, so its idempotency key is used up once.            *)

NoFailure ==
  /\ \A s \in Sessions : stripe[s].state # "drifted"
  /\ \A a \in Amounts : attempt[a] # "FAILED"
  /\ \A w \in Threads : req[w].att # "FAILED"

KeyIsUsed ==
  \A s \in Sessions :
    IF stripe[s].state = "NONE" THEN stripe[s].amount = 0
                                ELSE attempt[stripe[s].amount] # "NONE"

OneSession == NoFailure /\ KeyIsUsed /\ OneSessionPerAmount

\* What a request knows of an attempt it has read from the table.
LEMMA AttemptsRead ==
  ASSUME TypeInv, [Next]_vars, NEW w \in Threads
  PROVE  \/ req'[w].att \in {req[w].att, "NONE"}
         \/ \E a \in Amounts : req'[w].att = attempt[a]
  <1> USE DEF TypeInv, TypeOK
  <1> Pages \subseteq Threads /\ Hooks \subseteq Threads
    BY DEF Threads
  <1>1. CASE UNCHANGED req
    BY <1>1
  <1>2. ASSUME NEW v \in Threads, req' = [req EXCEPT ![v] = Idle]
        PROVE  req'[w].att \in {req[w].att, "NONE"}
    BY <1>2 DEF Idle
  <1>3. ASSUME NEW v \in Pages, Begin(v)
        PROVE  req'[w].att \in {req[w].att, "NONE"}
    BY <1>3 DEF Begin, Idle
  <1>5. ASSUME w \in Pages, CheckoutRead(w)
        PROVE  \E a \in Amounts : req'[w].att = attempt[a]
    <2>1. req[w].q.premium \in Amounts
      BY <1>5 DEF CheckoutRead, Request, QuoteRow
    <2>2. req'[w].att = attempt[req[w].q.premium]
      BY <1>5 DEF CheckoutRead, Request
    <2> QED
      BY <2>1, <2>2
  <1>6. ASSUME w \in Pages, NEW s \in Sessions, ResultPage(w, s)
        PROVE  \E a \in Amounts : req'[w].att = attempt[a]
    <2>1. stripe[s].amount \in Amounts
      BY <1>6 DEF ResultPage, Accepted, SessionsSound
    <2>2. req'[w].att = attempt[stripe[s].amount]
      BY <1>6 DEF ResultPage, Request
    <2> QED
      BY <2>1, <2>2
  <1>7. ASSUME w \in Pages, NEW a \in Amounts, ConfirmSandbox(w, a)
        PROVE  req'[w].att = attempt[a]
    BY <1>7 DEF ConfirmSandbox, Request
  <1>8. ASSUME NEW h \in Hooks, NEW s \in Sessions, Webhook(h, s)
        PROVE  req'[w].att = req[w].att \/ req'[w].att = attempt[stripe[s].amount]
    BY <1>8 DEF Webhook, Idle
  <1>9. ASSUME NEW h \in Hooks, NEW s \in Sessions, Webhook(h, s)
        PROVE  stripe[s].amount \in Amounts
    BY <1>9 DEF Webhook, Accepted, SessionsSound
  <1>10. ASSUME NEW v \in Threads, ConfirmLookup(v)
         PROVE  req'[w].att = req[w].att
    BY <1>10 DEF ConfirmLookup, Request
  <1>11. \/ UNCHANGED req
         \/ \E v \in Threads : req' = [req EXCEPT ![v] = Idle] \/ ConfirmLookup(v)
         \/ \E v \in Pages : Begin(v) \/ CheckoutRead(v)
         \/ \E v \in Pages, s \in Sessions : ResultPage(v, s)
         \/ \E v \in Pages, a \in Amounts : ConfirmSandbox(v, a)
         \/ \E h \in Hooks, s \in Sessions : Webhook(h, s)
    BY DEF Next, vars, Calculate, SelectPlan, SaveTravelers, SaveEmergency,
           CheckoutReuse, CheckoutCreate, ResultMismatch, Leave, CommitLost, CompleteSession,
           SettleSession, ExpireSession, ActivateCarrier, Lapse, Confirm, ConfirmRefused,
           ConfirmIssued, ConfirmIssue, ConfirmInsert, ConfirmFound, ConfirmFailed, Done
  <1>12. ASSUME NEW v \in Pages, CheckoutRead(v)
         PROVE  \/ req'[w] = req[w]
                \/ \E a \in Amounts : req'[w].att = attempt[a]
    <2>1. CASE v = w
      BY <1>5, <1>12, <2>1
    <2>2. CASE v # w
      BY <1>12, <2>2 DEF CheckoutRead
    <2> QED
      BY <2>1, <2>2
  <1>13. ASSUME NEW v \in Pages, NEW s \in Sessions, ResultPage(v, s)
         PROVE  \/ req'[w] = req[w]
                \/ \E a \in Amounts : req'[w].att = attempt[a]
    <2>1. CASE v = w
      BY <1>6, <1>13, <2>1
    <2>2. CASE v # w
      BY <1>13, <2>2 DEF ResultPage
    <2> QED
      BY <2>1, <2>2
  <1>4. ASSUME NEW v \in Pages, NEW a \in Amounts, ConfirmSandbox(v, a)
         PROVE  \/ req'[w] = req[w]
                \/ req'[w].att = attempt[a]
    <2>1. CASE v = w
      BY <1>7, <1>4, <2>1
    <2>2. CASE v # w
      BY <1>4, <2>2 DEF ConfirmSandbox
    <2> QED
      BY <2>1, <2>2
  <1> QED
    BY <1>1, <1>2, <1>3, <1>8, <1>9, <1>10, <1>11, <1>12, <1>13, <1>4

LEMMA OneSessionStep ==
  ASSUME Drift = FALSE, TypeInv, OneSession, [Next]_vars
  PROVE  OneSession' /\ \A a \in Amounts : attempt[a] = "SUCCEEDED" => attempt'[a] = "SUCCEEDED"
  <1> USE DEF TypeInv, TypeOK
  <1>1. ASSUME NEW w \in Pages, NEW s \in Sessions, ResultMismatch(w, s)
        PROVE  FALSE
    BY <1>1 DEF ResultMismatch, OneSession, NoFailure
  <1>2. ASSUME NEW w \in Threads
        PROVE  req'[w].att # "FAILED"
    BY AttemptsRead DEF OneSession, NoFailure
  <1>3. CASE \E w \in Pages : CheckoutCreate(w)
    <2>1. PICK w \in Pages : CheckoutCreate(w)
      BY <1>3
    <2> DEFINE a == req[w].amt
    <2>2. a \in Amounts /\ attempt[a] = "NONE"
      BY <2>1 DEF CheckoutCreate, KeyIsFree, RequestsSound, Threads, OneSession, NoFailure
    <2>3. attempt' = [attempt EXCEPT ![a] = "REDIRECTED"]
      BY <2>1 DEF CheckoutCreate
    <2>4. CASE UNCHANGED stripe
      BY <1>2, <2>2, <2>3, <2>4 DEF OneSession, NoFailure, KeyIsUsed, OneSessionPerAmount
    <2>5. ASSUME NEW s \in Sessions, stripe[s].state = "NONE",
                 stripe' = [stripe EXCEPT ![s] = [amount |-> a, state |-> "open"]]
          PROVE  /\ OneSession'
                 /\ \A b \in Amounts : attempt[b] = "SUCCEEDED" => attempt'[b] = "SUCCEEDED"
      <3>1. \A t \in Sessions : stripe[t].amount # a
        BY <2>2, PriceType DEF OneSession, KeyIsUsed, Amounts
      <3>2. NoFailure'
        BY <1>2, <2>3, <2>5 DEF OneSession, NoFailure
      <3>3. KeyIsUsed'
        BY <2>2, <2>3, <2>5 DEF OneSession, KeyIsUsed, SessionsSound
      <3>4. OneSessionPerAmount'
        BY <2>5, <3>1 DEF OneSession, OneSessionPerAmount
      <3> QED
        BY <2>2, <2>3, <3>2, <3>3, <3>4 DEF OneSession
    <2> QED
      BY <2>1, <2>4, <2>5 DEF CheckoutCreate
  <1>4. CASE (\E s \in Sessions : SessionMoves(s)) /\ UNCHANGED attempt
    <2>1. PICK s \in Sessions : SessionMoves(s)
      BY <1>4
    <2>2. /\ stripe[s].state # "NONE"
          /\ \E st \in {"paid", "unpaid", "expired"} :
               stripe' = [stripe EXCEPT ![s].state = st]
      BY <2>1 DEF SessionMoves, CompleteSession, SettleSession, ExpireSession
    <2>3. NoFailure'
      BY <1>2, <1>4, <2>2 DEF OneSession, NoFailure
    <2>4. KeyIsUsed' /\ OneSessionPerAmount'
      BY <1>4, <2>2 DEF OneSession, KeyIsUsed, OneSessionPerAmount
    <2> QED
      BY <1>4, <2>3, <2>4 DEF OneSession
  <1>5. CASE UNCHANGED stripe /\ (UNCHANGED attempt \/ \E w \in Threads : MarksPaid(w))
    <2>1. CASE UNCHANGED attempt
      BY <1>2, <1>5, <2>1 DEF OneSession, NoFailure, KeyIsUsed, OneSessionPerAmount
    <2>2. ASSUME NEW w \in Threads, MarksPaid(w)
          PROVE  /\ OneSession'
                 /\ \A b \in Amounts : attempt[b] = "SUCCEEDED" => attempt'[b] = "SUCCEEDED"
      BY <1>2, <1>5, <2>2
      DEF MarksPaid, OneSession, NoFailure, KeyIsUsed, OneSessionPerAmount, SessionsSound
    <2> QED
      BY <1>5, <2>1, <2>2
  <1> QED
    BY <1>1, <1>3, <1>4, <1>5, StepKinds

LEMMA InitOneSession == Init => OneSession
  BY DEF Init, OneSession, NoFailure, KeyIsUsed, OneSessionPerAmount, Idle

\* However many pages start a checkout at once, and whatever they had read of
\* the attempts before, Stripe is asked for each price once: the unique
\* idempotency key of start_payment_checkout suffices, unless a session whose
\* total differs has failed the attempt and opened it for another.
THEOREM OneSessionEach ==
  ASSUME Drift = FALSE
  PROVE  Spec => []OneSessionPerAmount
  <1>1. TypeInv /\ OneSession /\ [Next]_vars => OneSession'
    BY OneSessionStep
  <1>2. OneSession => OneSessionPerAmount
    BY DEF OneSession
  <1> QED
    BY <1>1, <1>2, InitOneSession, InvariantTypes, PTL DEF Spec

\* A success recorded by apply_successful_payment is final: no checkout, page
\* or webhook that read the attempt earlier takes it back.
THEOREM SuccessIsFinal ==
  ASSUME Drift = FALSE
  PROVE  Spec => SucceededIsFinal
  <1>1. TypeInv /\ OneSession /\ [Next]_vars => OneSession'
    BY OneSessionStep
  <1>2. TypeInv /\ OneSession /\ [Next]_vars
          => [\A a \in Amounts : attempt[a] = "SUCCEEDED" => attempt'[a] = "SUCCEEDED"]_vars
    BY OneSessionStep
  <1> QED
    BY <1>1, <1>2, InitOneSession, InvariantTypes, PTL DEF Spec, SucceededIsFinal

-----------------------------------------------------------------------------
(* What a step does to the row a request has loaded, and to the quote.       *)

LEMMA RequestMoves ==
  ASSUME TypeInv, [Next]_vars, NEW w \in Threads
  PROVE  \/ req'[w] = req[w]
         \/ req'[w] = Idle
         \/ /\ w \in Pages
            /\ \/ Begin(w) \/ CheckoutRead(w)
               \/ \E s \in Sessions : ResultPage(w, s)
               \/ \E a \in Amounts : ConfirmSandbox(w, a)
         \/ w \in Hooks /\ \E s \in Sessions : Webhook(w, s)
         \/ ConfirmLookup(w)
  <1> req \in [Threads -> Request] /\ Pages \subseteq Threads /\ Hooks \subseteq Threads
    BY DEF TypeInv, TypeOK, Threads
  <1>1. ASSUME NEW v \in Threads, req' = [req EXCEPT ![v] = Idle]
        PROVE  req'[w] = req[w] \/ req'[w] = Idle
    BY <1>1
  <1>2. ASSUME NEW v \in Pages, v # w,
               \/ Begin(v) \/ CheckoutRead(v)
               \/ \E s \in Sessions : ResultPage(v, s)
               \/ \E a \in Amounts : ConfirmSandbox(v, a)
        PROVE  req'[w] = req[w]
    BY <1>2 DEF Begin, CheckoutRead, ResultPage, ConfirmSandbox
  <1>3. ASSUME NEW h \in Hooks \ {w}, NEW s \in Sessions, Webhook(h, s)
        PROVE  req'[w] = req[w]
    BY <1>3 DEF Webhook
  <1>4. ASSUME NEW v \in Threads, v # w, ConfirmLookup(v)
        PROVE  req'[w] = req[w]
    BY <1>4 DEF ConfirmLookup
  <1>5. \/ UNCHANGED req
        \/ \E v \in Threads : req' = [req EXCEPT ![v] = Idle] \/ ConfirmLookup(v)
        \/ \E v \in Pages :
             \/ Begin(v) \/ CheckoutRead(v)
             \/ \E s \in Sessions : ResultPage(v, s)
             \/ \E a \in Amounts : ConfirmSandbox(v, a)
        \/ \E h \in Hooks, s \in Sessions : Webhook(h, s)
    BY DEF Next, vars, Calculate, SelectPlan, SaveTravelers, SaveEmergency,
           CheckoutReuse, CheckoutCreate, ResultMismatch, Leave, CommitLost, CompleteSession,
           SettleSession, ExpireSession, ActivateCarrier, Lapse, Confirm, ConfirmRefused,
           ConfirmIssued, ConfirmIssue, ConfirmInsert, ConfirmFound, ConfirmFailed, Done
  <1> QED
    BY <1>1, <1>2, <1>3, <1>4, <1>5

\* The row in memory is the one it was, the stored one, or a new request's.
LEMMA LoadedRow ==
  ASSUME TypeInv, [Next]_vars, NEW w \in Threads
  PROVE  \/ req'[w] = Idle
         \/ /\ req'[w].q = req[w].q
            /\ req'[w].pc = "issuing" => req[w].pc = "issuing" \/ ConfirmLookup(w)
         \/ /\ req'[w].q = quote /\ req'[w].pc # "issuing"
            /\ UNCHANGED <<quote, policies>>
  <1> req \in [Threads -> Request] /\ quote \in QuoteRow
    BY DEF TypeInv, TypeOK
  <1>1. ASSUME Begin(w)
        PROVE  req'[w].q = quote /\ req'[w].pc = "loaded" /\ UNCHANGED <<quote, policies>>
    BY <1>1, IdleType DEF Begin, Request
  <1>2. ASSUME CheckoutRead(w)
        PROVE  req'[w].q = req[w].q /\ req'[w].pc = "checkout"
    BY <1>2 DEF CheckoutRead, Request
  <1>3. ASSUME NEW s \in Sessions, ResultPage(w, s)
        PROVE  req'[w].q = req[w].q /\ req'[w].pc = "paying"
    BY <1>3 DEF ResultPage, Request
  <1>4. ASSUME NEW a \in Amounts, ConfirmSandbox(w, a)
        PROVE  req'[w].q = req[w].q /\ req'[w].pc = "paying"
    BY <1>4 DEF ConfirmSandbox, Request
  <1>5. ASSUME w \in Hooks, NEW s \in Sessions, Webhook(w, s)
        PROVE  req'[w].q = quote /\ req'[w].pc = "paying" /\ UNCHANGED <<quote, policies>>
    BY <1>5, IdleType DEF Webhook, Request
  <1>6. ASSUME ConfirmLookup(w)
        PROVE  req'[w].q = req[w].q
    BY <1>6 DEF ConfirmLookup, Request
  <1> QED
    BY <1>1, <1>2, <1>3, <1>4, <1>5, <1>6, RequestMoves

\* The UPDATE of the ORM, column by column.
LEMMA MergeColumns ==
  ASSUME NEW db, NEW old, NEW new
  PROVE  LET m == Merge(db, old, new) IN
         /\ m.status = IF new.status = old.status THEN db.status ELSE new.status
         /\ m.trip = IF new.trip = old.trip THEN db.trip ELSE new.trip
         /\ m.quoted = IF new.quoted = old.quoted THEN db.quoted ELSE new.quoted
         /\ m.plan = IF new.plan = old.plan THEN db.plan ELSE new.plan
         /\ m.premium = IF new.premium = old.premium THEN db.premium ELSE new.premium
         /\ m.pay = IF new.pay = old.pay THEN db.pay ELSE new.pay
         /\ m.opp = IF new.opp = old.opp THEN db.opp ELSE new.opp
         /\ m.party = IF new.party = old.party THEN db.party ELSE new.party
         /\ m.policy = IF new.policy = old.policy THEN db.policy ELSE new.policy
  BY DEF Merge

-----------------------------------------------------------------------------
(* A completed quote is issued.  The status, the client and the policy are   *)
(* three columns that different requests may write from rows they loaded at  *)
(* different times; none of them is ever taken back.                         *)

\* A row that may have been read or stored while n policies were issued.
Whole(r, n) ==
  /\ r.policy \in 0 .. n
  /\ r.policy # 0 => r.party # NoOpp
  /\ r.status = "COMPLETED" => r.policy # 0

\* What row s has of client and policy, row r has too.
Keeps(r, s) ==
  /\ s.party # NoOpp => r.party # NoOpp
  /\ s.policy # 0 => r.policy # 0

Filed ==
  /\ Whole(quote, Len(policies))
  /\ \A w \in Threads :
       /\ Whole(req[w].q, Len(policies))
       /\ Keeps(quote, req[w].q)
       /\ req[w].pc = "issuing" => req[w].q.party # NoOpp

LEMMA MergeWhole ==
  ASSUME NEW n \in Nat, NEW db, NEW old, NEW new,
         Whole(db, n), Whole(new, n), Keeps(db, old), Keeps(new, old)
  PROVE  Whole(Merge(db, old, new), n) /\ Keeps(Merge(db, old, new), db)
  <1> DEFINE m == Merge(db, old, new)
  <1>1. /\ m.party = IF new.party = old.party THEN db.party ELSE new.party
        /\ m.policy = IF new.policy = old.policy THEN db.policy ELSE new.policy
        /\ m.status = IF new.status = old.status THEN db.status ELSE new.status
    BY MergeColumns
  <1> HIDE DEF m
  <1>2. Keeps(m, db)
    BY <1>1 DEF Keeps
  <1>3. m.policy \in 0 .. n
    BY <1>1 DEF Whole
  <1>4. m.policy # 0 => m.party # NoOpp
    BY <1>1 DEF Whole, Keeps
  <1>5. m.status = "COMPLETED" => m.policy # 0
    BY <1>1 DEF Whole, Keeps
  <1> QED
    BY <1>2, <1>3, <1>4, <1>5 DEF Whole, m

\* A later count of policies takes nothing from a row.
LEMMA WholeGrows ==
  ASSUME NEW n \in Nat, NEW m \in Nat, n <= m, NEW r, Whole(r, n)
  PROVE  Whole(r, m)
  BY DEF Whole

\* Policies are appended, and the quote is written from a row that keeps what
\* its request had read.
LEMMA FiledWrites ==
  ASSUME TypeInv, Filed, [Next]_vars
  PROVE  /\ Len(policies) \in Nat /\ Len(policies') \in Nat
         /\ Len(policies) <= Len(policies')
         /\ Whole(quote', Len(policies')) /\ Keeps(quote', quote)
  <1> DEFINE n == Len(policies)
  <1> TypeOK /\ quote \in QuoteRow /\ policies \in Seq(PolicyRow) /\ req \in [Threads -> Request]
    BY DEF TypeInv, TypeOK, PolicyRow
  <1>0. n \in Nat /\ Len(policies) + 1 \in Nat
    BY LenProperties
  <1>1. ASSUME UNCHANGED <<quote, policies>>
        PROVE  /\ Len(policies') = n
               /\ Whole(quote', Len(policies')) /\ Keeps(quote', quote)
    BY <1>1 DEF Filed, Keeps
  <1>2. ASSUME NEW w \in Threads, NEW new, UNCHANGED policies,
               quote' = Merge(quote, req[w].q, new), Whole(new, n), Keeps(new, req[w].q)
        PROVE  /\ Len(policies') = n
               /\ Whole(quote', Len(policies')) /\ Keeps(quote', quote)
    BY <1>0, <1>2, MergeWhole DEF Filed
  <1>3. ASSUME NEW w \in Threads, NEW new, NEW p \in PolicyRow, policies' = Append(policies, p),
               quote' = Merge(quote, req[w].q, new), Whole(new, n + 1), Keeps(new, req[w].q)
        PROVE  /\ Len(policies') = n + 1
               /\ Whole(quote', Len(policies')) /\ Keeps(quote', quote)
    <2>1. Len(policies') = n + 1
      BY <1>3, AppendProperties
    <2>2. Whole(quote, n + 1)
      BY <1>0, WholeGrows DEF Filed
    <2>3. Keeps(quote, req[w].q)
      BY DEF Filed
    <2>4. n + 1 \in Nat
      BY <1>0
    <2> QED
      BY <1>3, <2>1, <2>2, <2>3, <2>4, MergeWhole
  <1>4. ASSUME NEW w \in Threads
        PROVE  /\ req[w].q \in QuoteRow /\ PaidQuote(w) \in QuoteRow
               /\ Whole(req[w].q, n) /\ Whole(PaidQuote(w), n)
               /\ Keeps(PaidQuote(w), req[w].q)
    <2>1. req[w].q \in QuoteRow /\ PaidQuote(w) \in QuoteRow /\ Whole(req[w].q, n)
      BY PaidType DEF Request, Filed
    <2>2. PaidQuote(w).status = "COMPLETED" => req[w].q.status = "COMPLETED"
      BY <2>1 DEF PaidQuote, QuoteRow
    <2> QED
      BY <2>1, <2>2, PaidKeeps DEF Whole, Keeps
  <1> HIDE DEF n
  <1>5. ASSUME NEW w \in Threads, NEW st \in QuoteStatus \ {"COMPLETED"}, NEW py \in PaymentStatus
        PROVE  LET r == [req[w].q EXCEPT !.status = st, !.pay = py]
               IN  Whole(r, n) /\ Keeps(r, req[w].q)
    BY <1>4 DEF Whole, Keeps, QuoteRow
  <1>6. CASE \E w \in Pages, t \in Trips : Calculate(w, t)
    <2> PICK w \in Pages, t \in Trips : Calculate(w, t)
      BY <1>6
    <2> w \in Threads
      BY DEF Threads
    <2> DEFINE q == req[w].q
               u == [q EXCEPT !.trip = t, !.plan = NoPlan, !.premium = 0,
                              !.status = "STARTED", !.quoted = NoTrip]
               c == [u EXCEPT !.quoted = t, !.status = "QUOTED"]
    <2>1. quote' = Merge(Merge(quote, q, u), u, c) /\ UNCHANGED policies
      BY DEF Calculate
    <2>2. /\ u.party = q.party /\ u.policy = q.policy /\ u.status = "STARTED"
          /\ c.party = q.party /\ c.policy = q.policy /\ c.status = "QUOTED"
      BY <1>4 DEF QuoteRow
    <2>3. Whole(q, n) /\ Whole(quote, n) /\ Keeps(quote, q)
      BY DEF Filed, n
    <2> HIDE DEF q, u, c
    <2>4. Whole(u, n) /\ Whole(c, n) /\ Keeps(u, q) /\ Keeps(c, u)
      BY <2>2, <2>3 DEF Whole, Keeps
    <2>5. Whole(Merge(quote, q, u), n) /\ Keeps(Merge(quote, q, u), quote)
      BY <1>0, <2>3, <2>4, MergeWhole DEF n
    <2>6. Keeps(Merge(quote, q, u), u)
      BY <2>2, <2>3, <2>5 DEF Keeps
    <2>7. Whole(quote', n) /\ Keeps(quote', Merge(quote, q, u))
      BY <1>0, <2>1, <2>4, <2>5, <2>6, MergeWhole DEF n
    <2>8. Keeps(quote', quote)
      BY <2>5, <2>7 DEF Keeps
    <2> QED
      BY <1>0, <2>1, <2>7, <2>8 DEF n
  <1>7. CASE \E w \in Pages, p \in Plans : SelectPlan(w, p)
    <2> PICK w \in Pages, p \in Plans : SelectPlan(w, p)
      BY <1>7
    <2> w \in Threads
      BY DEF Threads
    <2>1. [req[w].q EXCEPT !.plan = p, !.premium = Price[req[w].q.quoted][p],
                           !.status = "PLAN_SELECTED"].party = req[w].q.party
          /\ [req[w].q EXCEPT !.plan = p, !.premium = Price[req[w].q.quoted][p],
                           !.status = "PLAN_SELECTED"].policy = req[w].q.policy
          /\ [req[w].q EXCEPT !.plan = p, !.premium = Price[req[w].q.quoted][p],
                           !.status = "PLAN_SELECTED"].status = "PLAN_SELECTED"
      BY <1>4 DEF QuoteRow
    <2>2. /\ UNCHANGED policies
          /\ quote' = Merge(quote, req[w].q, [req[w].q EXCEPT !.plan = p,
                               !.premium = Price[req[w].q.quoted][p],
                               !.status = "PLAN_SELECTED"])
      BY DEF SelectPlan
    <2>3. /\ Whole([req[w].q EXCEPT !.plan = p, !.premium = Price[req[w].q.quoted][p],
                           !.status = "PLAN_SELECTED"], n)
          /\ Keeps([req[w].q EXCEPT !.plan = p, !.premium = Price[req[w].q.quoted][p],
                           !.status = "PLAN_SELECTED"], req[w].q)
      BY <1>4, <2>1 DEF Whole, Keeps
    <2> QED
      BY <1>0, <1>2, <2>2, <2>3 DEF n
  <1>8. CASE \E w \in Pages : SaveTravelers(w)
    <2> PICK w \in Pages : SaveTravelers(w)
      BY <1>8
    <2> w \in Threads
      BY DEF Threads
    <2>1. PICK o \in Opps :
            quote' = Merge(quote, req[w].q, [req[w].q EXCEPT !.status = "CUSTOMER_DATA", !.opp = o])
      BY DEF SaveTravelers
    <2>2. /\ Whole([req[w].q EXCEPT !.status = "CUSTOMER_DATA", !.opp = o], n)
          /\ Keeps([req[w].q EXCEPT !.status = "CUSTOMER_DATA", !.opp = o], req[w].q)
      BY <1>4 DEF Whole, Keeps, QuoteRow
    <2>3. UNCHANGED policies
      BY DEF SaveTravelers
    <2> QED
      BY <1>0, <1>2, <2>1, <2>2, <2>3 DEF n
  <1>9. CASE \E w \in Pages : CheckoutReuse(w) \/ CheckoutCreate(w)
    <2> PICK w \in Pages : CheckoutReuse(w) \/ CheckoutCreate(w)
      BY <1>9
    <2> w \in Threads
      BY DEF Threads
    <2>1. /\ UNCHANGED policies
          /\ quote' = Merge(quote, req[w].q,
                            [req[w].q EXCEPT !.status = "CHECKOUT_PENDING", !.pay = "PENDING"])
      BY DEF CheckoutReuse, CheckoutCreate, AwaitPayment
    <2>2. /\ Whole([req[w].q EXCEPT !.status = "CHECKOUT_PENDING", !.pay = "PENDING"], n)
          /\ Keeps([req[w].q EXCEPT !.status = "CHECKOUT_PENDING", !.pay = "PENDING"], req[w].q)
      BY <1>4 DEF Whole, Keeps, QuoteRow
    <2> QED
      BY <1>0, <1>2, <2>1, <2>2 DEF n
  <1>10. CASE \E w \in Pages, s \in Sessions : ResultMismatch(w, s)
    <2> PICK w \in Pages, s \in Sessions : ResultMismatch(w, s)
      BY <1>10
    <2> w \in Threads
      BY DEF Threads
    <2>1. /\ UNCHANGED policies
          /\ quote' = Merge(quote, req[w].q, [req[w].q EXCEPT !.pay = "FAILED"])
      BY DEF ResultMismatch
    <2>2. /\ Whole([req[w].q EXCEPT !.pay = "FAILED"], n)
          /\ Keeps([req[w].q EXCEPT !.pay = "FAILED"], req[w].q)
      BY <1>4 DEF Whole, Keeps, QuoteRow
    <2> QED
      BY <1>0, <1>2, <2>1, <2>2 DEF n
  <1>11. ASSUME NEW w \in Threads, ConfirmIssued(w)
         PROVE  /\ Len(policies) <= Len(policies')
                /\ Whole(quote', Len(policies')) /\ Keeps(quote', quote)
    <2> DEFINE r == [PaidQuote(w) EXCEPT !.status = IF @ = "PAID" THEN "COMPLETED" ELSE @]
    <2>1. /\ UNCHANGED policies /\ quote' = Merge(quote, req[w].q, r)
          /\ PaidQuote(w).policy # 0
      BY <1>11 DEF ConfirmIssued
    <2>2. r.party = PaidQuote(w).party /\ r.policy = PaidQuote(w).policy
      BY <1>4 DEF QuoteRow
    <2> HIDE DEF r
    <2>3. Whole(r, n) /\ Keeps(r, req[w].q)
      BY <1>4, <2>1, <2>2 DEF Whole, Keeps
    <2> QED
      BY <1>0, <1>2, <2>1, <2>3 DEF n
  <1>13. ASSUME NEW q \in QuoteRow, NEW i \in SameNumber(q)
         PROVE  i \in 1 .. n
    BY <1>13 DEF SameNumber, n
  <1>14. ASSUME NEW w \in Threads, NEW c \in Opps, NEW m \in Nat, NEW i \in 1 .. m
         PROVE  /\ Whole([PaidQuote(w) EXCEPT !.party = c, !.policy = i, !.status = "COMPLETED"], m)
                /\ Keeps([PaidQuote(w) EXCEPT !.party = c, !.policy = i, !.status = "COMPLETED"],
                         req[w].q)
    BY <1>4, ConstantsAssumption DEF Whole, Keeps, QuoteRow
  <1>15. ASSUME NEW w \in Threads, ConfirmIssue(w)
         PROVE  /\ Len(policies) <= Len(policies')
                /\ Whole(quote', Len(policies')) /\ Keeps(quote', quote)
    <2>1. PICK c \in Clients(PaidQuote(w)) :
            IF SameNumber(PaidQuote(w)) # {}
              THEN /\ policies' = policies
                   /\ \E i \in SameNumber(PaidQuote(w)) :
                        quote' = Merge(quote, req[w].q, [PaidQuote(w) EXCEPT
                                    !.party = c, !.policy = i, !.status = "COMPLETED"])
              ELSE /\ policies' = Append(policies, PolicyOf(PaidQuote(w), c))
                   /\ quote' = Merge(quote, req[w].q, [PaidQuote(w) EXCEPT
                                  !.party = c, !.policy = Len(policies) + 1,
                                  !.status = "COMPLETED"])
      BY <1>15 DEF ConfirmIssue
    <2>2. c \in Opps
      BY <1>4, <1>15, PaidKeeps, ClientType DEF ConfirmIssue, NeedsPolicy
    <2>3. CASE SameNumber(PaidQuote(w)) # {}
      <3>1. PICK i \in SameNumber(PaidQuote(w)) :
              quote' = Merge(quote, req[w].q, [PaidQuote(w) EXCEPT
                          !.party = c, !.policy = i, !.status = "COMPLETED"])
        BY <2>1, <2>3
      <3>2. i \in 1 .. n /\ n \in Nat
        BY <1>0, <1>4, <1>13 DEF n
      <3>3. /\ Whole([PaidQuote(w) EXCEPT !.party = c, !.policy = i, !.status = "COMPLETED"], n)
            /\ Keeps([PaidQuote(w) EXCEPT !.party = c, !.policy = i, !.status = "COMPLETED"],
                     req[w].q)
        BY <1>14, <2>2, <3>2
      <3>4. UNCHANGED policies
        BY <2>1, <2>3
      <3> QED
        BY <1>0, <1>2, <3>1, <3>3, <3>4 DEF n
    <2>4. CASE SameNumber(PaidQuote(w)) = {}
      <3>1. /\ policies' = Append(policies, PolicyOf(PaidQuote(w), c))
            /\ quote' = Merge(quote, req[w].q, [PaidQuote(w) EXCEPT
                           !.party = c, !.policy = n + 1, !.status = "COMPLETED"])
        BY <2>1, <2>4 DEF n
      <3>2. n + 1 \in 1 .. (n + 1) /\ n + 1 \in Nat /\ n \in Nat
        BY <1>0 DEF n
      <3>3. /\ Whole([PaidQuote(w) EXCEPT !.party = c, !.policy = n + 1,
                                          !.status = "COMPLETED"], n + 1)
            /\ Keeps([PaidQuote(w) EXCEPT !.party = c, !.policy = n + 1,
                                          !.status = "COMPLETED"], req[w].q)
        BY <1>14, <2>2, <3>2
      <3>4. PolicyOf(PaidQuote(w), c) \in PolicyRow
        BY <1>4, <2>2, PolicyType
      <3>5. /\ Len(policies') = n + 1
            /\ Whole(quote', Len(policies')) /\ Keeps(quote', quote)
        BY <1>3, <3>1, <3>3, <3>4
      <3>6. Len(policies) = n
        BY DEF n
      <3> QED
        BY <3>2, <3>5, <3>6
    <2> QED
      BY <2>3, <2>4
  <1>16. ASSUME NEW w \in Threads, ConfirmInsert(w)
         PROVE  /\ Len(policies) <= Len(policies')
                /\ Whole(quote', Len(policies')) /\ Keeps(quote', quote)
    <2>1. /\ policies' = Append(policies, PolicyOf(req[w].q, req[w].q.party))
          /\ quote' = Merge(quote, req[w].q, [req[w].q EXCEPT !.policy = n + 1,
                                                              !.status = "COMPLETED"])
          /\ req[w].q.party # NoOpp
      BY <1>16 DEF ConfirmInsert, Filed, n
    <2>2. req[w].q \in QuoteRow /\ req[w].q.party \in Opps \cup {NoOpp}
      BY <1>4 DEF QuoteRow
    <2>3. PolicyOf(req[w].q, req[w].q.party) \in PolicyRow
      BY <2>2, PolicyType
    <2>4. n \in Nat
      BY <1>0 DEF n
    <2>5. LET r == [req[w].q EXCEPT !.policy = n + 1, !.status = "COMPLETED"]
          IN  /\ r.party = req[w].q.party /\ r.policy = n + 1
      BY <2>2 DEF QuoteRow
    <2>6. /\ Whole([req[w].q EXCEPT !.policy = n + 1, !.status = "COMPLETED"], n + 1)
          /\ Keeps([req[w].q EXCEPT !.policy = n + 1, !.status = "COMPLETED"], req[w].q)
      BY <2>1, <2>4, <2>5 DEF Whole, Keeps
    <2>7. /\ Len(policies') = n + 1
          /\ Whole(quote', Len(policies')) /\ Keeps(quote', quote)
      BY <1>3, <2>1, <2>3, <2>6
    <2>8. Len(policies) = n
      BY DEF n
    <2> QED
      BY <2>4, <2>7, <2>8
  <1>17. ASSUME NEW w \in Threads, ConfirmFound(w)
         PROVE  /\ Len(policies) <= Len(policies')
                /\ Whole(quote', Len(policies')) /\ Keeps(quote', quote)
    <2>1. PICK i \in SameNumber(PaidQuote(w)) :
            quote' = Merge(quote, req[w].q,
                           [PaidQuote(w) EXCEPT !.policy = i, !.status = "COMPLETED"])
      BY <1>17 DEF ConfirmFound
    <2>2. UNCHANGED policies /\ req[w].q.party # NoOpp
      BY <1>17 DEF ConfirmFound, HoldsLock
    <2>3. i \in 1 .. n
      BY <1>4, <1>13
    <2>4. LET r == [PaidQuote(w) EXCEPT !.policy = i, !.status = "COMPLETED"]
          IN  r.party = req[w].q.party /\ r.policy = i
      BY <1>4, PaidKeeps DEF QuoteRow
    <2>5. /\ Whole([PaidQuote(w) EXCEPT !.policy = i, !.status = "COMPLETED"], n)
          /\ Keeps([PaidQuote(w) EXCEPT !.policy = i, !.status = "COMPLETED"], req[w].q)
      BY <1>0, <2>2, <2>3, <2>4 DEF Whole, Keeps
    <2> QED
      BY <1>0, <1>2, <2>1, <2>2, <2>5 DEF n
  <1>18. ASSUME NEW w \in Threads, ConfirmFailed(w)
         PROVE  /\ Len(policies) <= Len(policies')
                /\ Whole(quote', Len(policies')) /\ Keeps(quote', quote)
    <2>1. CASE ~req[w].keep
      BY <1>0, <1>1, <1>18, <2>1 DEF ConfirmFailed, n
    <2>2. CASE req[w].keep
      <3>1. PICK c \in Clients(PaidQuote(w)) :
              quote' = Merge(quote, req[w].q, [PaidQuote(w) EXCEPT !.party = c])
        BY <1>18, <2>2 DEF ConfirmFailed
      <3>2. c \in Opps
        BY <1>4, <1>18, PaidKeeps, ClientType DEF ConfirmFailed, NeedsPolicy
      <3>3. LET r == [PaidQuote(w) EXCEPT !.party = c]
            IN  /\ r.party = c /\ r.policy = PaidQuote(w).policy
                /\ r.status = PaidQuote(w).status
        BY <1>4 DEF QuoteRow
      <3>4. /\ Whole([PaidQuote(w) EXCEPT !.party = c], n)
            /\ Keeps([PaidQuote(w) EXCEPT !.party = c], req[w].q)
        BY <1>4, <3>2, <3>3, ConstantsAssumption DEF Whole, Keeps
      <3>5. UNCHANGED policies
        BY <1>18 DEF ConfirmFailed
      <3> QED
        BY <1>0, <1>2, <3>1, <3>4, <3>5 DEF n
    <2> QED
      BY <2>1, <2>2
  <1>19. CASE UNCHANGED <<quote, policies>>
    BY <1>0, <1>1, <1>19 DEF n
  <1>20. \/ UNCHANGED <<quote, policies>>
         \/ \E w \in Pages, t \in Trips : Calculate(w, t)
         \/ \E w \in Pages, p \in Plans : SelectPlan(w, p)
         \/ \E w \in Pages : SaveTravelers(w)
         \/ \E w \in Pages : CheckoutReuse(w) \/ CheckoutCreate(w)
         \/ \E w \in Pages, s \in Sessions : ResultMismatch(w, s)
         \/ \E w \in Threads : \/ ConfirmIssued(w) \/ ConfirmIssue(w) \/ ConfirmInsert(w)
                               \/ ConfirmFound(w) \/ ConfirmFailed(w)
    <2>1. CASE UNCHANGED vars
      BY <2>1 DEF vars
    <2>2. ASSUME NEW w \in Pages,
                 \/ Begin(w) \/ SaveEmergency(w) \/ CheckoutRead(w)
                 \/ \E s \in Sessions : ResultPage(w, s)
                 \/ \E a \in Amounts : ConfirmSandbox(w, a)
          PROVE  UNCHANGED <<quote, policies>>
      BY <2>2 DEF Begin, SaveEmergency, CheckoutRead, ResultPage, ConfirmSandbox
    <2>3. ASSUME NEW w \in Threads, Leave(w) \/ ConfirmRefused(w) \/ ConfirmLookup(w)
          PROVE  UNCHANGED <<quote, policies>>
      BY <2>3 DEF Leave, ConfirmRefused, ConfirmLookup
    <2>4. ASSUME \/ \E h \in Hooks : CommitLost(h) \/ \E s \in Sessions : Webhook(h, s)
                 \/ \E s \in Sessions :
                      CompleteSession(s) \/ SettleSession(s) \/ ExpireSession(s)
          PROVE  UNCHANGED <<quote, policies>>
      BY <2>4 DEF CommitLost, Webhook, CompleteSession, SettleSession, ExpireSession
    <2>5. ASSUME ActivateCarrier \/ Lapse
          PROVE  UNCHANGED <<quote, policies>>
      BY <2>5 DEF ActivateCarrier, Lapse
    <2> QED
      BY <2>1, <2>2, <2>3, <2>4, <2>5 DEF Next, Confirm
  <1>21. Len(policies) \in Nat /\ Len(policies') \in Nat
    <2>1. TypeInv'
      BY NextTypeInv
    <2> QED
      BY <2>1, LenProperties DEF TypeInv, TypeOK
  <1>22. Len(policies) <= Len(policies') /\ Whole(quote', Len(policies')) /\ Keeps(quote', quote)
    BY <1>0, <1>6, <1>7, <1>8, <1>9, <1>10, <1>11, <1>15, <1>16, <1>17, <1>18, <1>19, <1>20
  <1> QED
    BY <1>21, <1>22

LEMMA FiledStep == TypeInv /\ Filed /\ [Next]_vars => Filed'
  <1> SUFFICES ASSUME TypeInv, Filed, [Next]_vars PROVE Filed'
    OBVIOUS
  <1> DEFINE n == Len(policies)
             m == Len(policies')
  <1>1. /\ n \in Nat /\ m \in Nat /\ n <= m
        /\ Whole(quote', m) /\ Keeps(quote', quote)
    BY FiledWrites
  <1>2. ASSUME NEW w \in Threads
        PROVE  /\ Whole(req'[w].q, m) /\ Keeps(quote', req'[w].q)
               /\ req'[w].pc = "issuing" => req'[w].q.party # NoOpp
    <2>1. /\ Whole(req[w].q, n) /\ Keeps(quote, req[w].q)
          /\ req[w].pc = "issuing" => req[w].q.party # NoOpp
      BY DEF Filed
    <2> HIDE DEF n, m
    <2>2. CASE req'[w] = Idle
      <3>1. Idle.q.policy = 0 /\ Idle.q.party = NoOpp /\ Idle.q.status = "STARTED"
            /\ Idle.pc = "idle"
        BY DEF Idle, NewQuote
      <3> QED
        BY <1>1, <2>2, <3>1 DEF Whole, Keeps
    <2>3. CASE /\ req'[w].q = req[w].q
               /\ req'[w].pc = "issuing" => req[w].pc = "issuing" \/ ConfirmLookup(w)
      <3>1. ConfirmLookup(w) => req[w].q.party # NoOpp
        BY DEF ConfirmLookup, HoldsLock
      <3>2. Whole(req[w].q, m)
        BY <1>1, <2>1, WholeGrows
      <3> QED
        BY <1>1, <2>1, <2>3, <3>1, <3>2 DEF Keeps
    <2>4. CASE req'[w].q = quote /\ req'[w].pc # "issuing" /\ UNCHANGED <<quote, policies>>
      BY <1>1, <2>4 DEF Keeps
    <2> QED
      BY <2>2, <2>3, <2>4, LoadedRow
  <1> QED
    BY <1>1, <1>2 DEF Filed

LEMMA InitFiled == Init => Filed
  <1> SUFFICES ASSUME Init PROVE Filed
    OBVIOUS
  <1>1. Len(policies) = 0
    BY DEF Init
  <1>2. /\ quote = NewQuote
        /\ \A w \in Threads : req[w] = Idle
    BY DEF Init
  <1>3. /\ NewQuote.policy = 0 /\ NewQuote.party = NoOpp /\ NewQuote.status = "STARTED"
        /\ Idle.q = NewQuote /\ Idle.pc = "idle"
    BY DEF NewQuote, Idle
  <1> QED
    BY <1>1, <1>2, <1>3 DEF Filed, Whole, Keeps

\* A quote that reads COMPLETED has a client and an issued policy, whichever
\* request wrote which of the three columns and from which row it had loaded
\* (issue_party_and_policy_from_paid_quote): without any assumption on how
\* requests overlap, fail or lag behind the payment.
THEOREM CompletedHasPolicy == Spec => []CompletedIsIssued
  <1>1. TypeInv /\ Filed => CompletedIsIssued
    <2> SUFFICES ASSUME TypeInv, Filed, quote.status = "COMPLETED"
                 PROVE  quote.party # NoOpp /\ quote.policy \in DOMAIN policies
      BY DEF CompletedIsIssued
    <2>1. policies \in Seq(PolicyRow)
      BY DEF TypeInv, TypeOK, PolicyRow
    <2>2. DOMAIN policies = 1 .. Len(policies) /\ Len(policies) \in Nat
      BY <2>1, LenProperties
    <2>3. /\ quote.policy \in 0 .. Len(policies) /\ quote.policy # 0
          /\ quote.party # NoOpp
      BY DEF Filed, Whole
    <2> QED
      BY <2>2, <2>3
  <1>2. TypeInv /\ Filed /\ [Next]_vars => Filed'
    BY FiledStep
  <1> QED
    BY <1>1, <1>2, InitFiled, InvariantTypes, PTL DEF Spec

-----------------------------------------------------------------------------
(* One sale.  The customer fills the wizard in one request at a time and the *)
(* organization has its carrier.  Until the first attempt exists, what a     *)
(* request has loaded is what is stored; from then on plan, premium and      *)
(* opportunity never change, and a request has loaded the quote either       *)
(* before the policy was issued or with it.                                  *)

Started == \E a \in Amounts : attempt[a] # "NONE"

SameOffer(r, s) == r.plan = s.plan /\ r.premium = s.premium /\ r.opp = s.opp

Unsold(r) == r.party = NoOpp /\ r.policy = 0 /\ ~IsPaid(r)

Sold(r, c) == r.party = c /\ r.policy = 1

\* The one policy there can be.
TheSale(c) == [plan |-> quote.plan, premium |-> quote.premium, client |-> c]

\* What a request knows of the sale.
InSale(w) ==
  /\ req[w].pc # "issuing"
  /\ req[w].pc # "idle" => SameOffer(req[w].q, quote)
  /\ req[w].pc \in {"checkout", "paying"} =>
       req[w].amt = quote.premium /\ quote.premium # 0 /\ quote.opp # NoOpp
  /\ ~Started =>
       /\ req[w].pc \in {"idle", "loaded", "checkout"} /\ req[w].att = "NONE"
       /\ req[w].pc # "idle" => w \in Pages /\ req[w].q = quote
  /\ policies = <<>> => Unsold(req[w].q) /\ req[w].att # "SUCCEEDED"
  /\ policies # <<>> => Unsold(req[w].q) \/ Sold(req[w].q, quote.party)

Browsing ==
  /\ policies = <<>>
  /\ \A s \in Sessions : stripe[s].state = "NONE"
  /\ quote.status \in {"STARTED", "QUOTED", "PLAN_SELECTED", "CUSTOMER_DATA"}
  /\ quote.status = "CUSTOMER_DATA" => quote.opp # NoOpp

Buying ==
  /\ quote.premium # 0 /\ quote.opp # NoOpp
  /\ \A a \in Amounts : attempt[a] # "NONE" => a = quote.premium
  /\ \A s \in Sessions : stripe[s].state # "NONE" => stripe[s].amount = quote.premium

Unissued ==
  /\ Unsold(quote)
  /\ \A o \in Opps : opp[o].client = NoOpp
  /\ \A a \in Amounts : attempt[a] # "SUCCEEDED"

Issued ==
  /\ Len(policies) = 1 /\ policies[1] = TheSale(quote.party)
  /\ Sold(quote, quote.party) /\ quote.party # NoOpp
  /\ opp[quote.opp].stage = "WON" /\ opp[quote.opp].client = quote.party
  /\ \A o \in Opps : opp[o].client \in {NoOpp, quote.party}

InStore ==
  /\ carrier
  /\ IF Started THEN Buying ELSE Browsing
  /\ IF policies = <<>> THEN Unissued ELSE Issued

OneSale == InStore /\ \A w \in Threads : InSale(w)

LEMMA InitOneSale == Outage = FALSE /\ Init => OneSale
  <1> SUFFICES ASSUME Outage = FALSE, Init PROVE OneSale
    OBVIOUS
  <1>1. /\ NewQuote.policy = 0 /\ NewQuote.party = NoOpp /\ NewQuote.status = "STARTED"
        /\ NewQuote.pay = "NONE"
        /\ Idle.q = NewQuote /\ Idle.pc = "idle" /\ Idle.att = "NONE"
    BY DEF NewQuote, Idle
  <1>2. Unsold(NewQuote)
    BY <1>1 DEF Unsold, IsPaid
  <1>3. /\ quote = NewQuote /\ carrier /\ ~Started /\ policies = <<>>
        /\ \A w \in Threads : req[w] = Idle
    BY DEF Init, Started
  <1>4. Browsing /\ Unissued
    BY <1>1, <1>2, <1>3 DEF Init, Browsing, Unissued
  <1>5. \A w \in Threads : InSale(w)
    BY <1>1, <1>2, <1>3 DEF InSale
  <1> QED
    BY <1>3, <1>4, <1>5 DEF OneSale, InStore

\* An attempt, once made, stays.
LEMMA StartedStays == TypeInv /\ Started /\ [Next]_vars => Started'
  <1> SUFFICES ASSUME TypeInv, [Next]_vars, NEW a \in Amounts, attempt[a] # "NONE"
               PROVE  attempt'[a] # "NONE"
    BY DEF Started
  <1> attempt \in [Amounts -> AttemptStatus]
    BY DEF TypeInv, TypeOK
  <1>1. ASSUME NEW w \in Pages, CheckoutCreate(w) PROVE attempt'[a] # "NONE"
    BY <1>1 DEF CheckoutCreate
  <1>2. ASSUME NEW w \in Pages, NEW s \in Sessions, ResultMismatch(w, s)
        PROVE  attempt'[a] # "NONE"
    BY <1>2 DEF ResultMismatch
  <1>3. ASSUME NEW w \in Threads, MarksPaid(w) PROVE attempt'[a] # "NONE"
    BY <1>3 DEF MarksPaid
  <1> QED
    BY <1>1, <1>2, <1>3, StepKinds

\* With one policy at most, a paid quote always finds a carrier, a premium and
\* no second policy of its number, and it is issued under the row lock.
LEMMA NoDetour ==
  ASSUME TypeInv, OneSale, NEW w \in Threads
  PROVE  ~ConfirmLookup(w) /\ ~ConfirmInsert(w) /\ ~ConfirmFound(w) /\ ~ConfirmFailed(w)
  <1> InSale(w) /\ InStore
    BY DEF OneSale
  <1>1. ~ConfirmInsert(w)
    BY DEF InSale, ConfirmInsert
  <1>2. NeedsPolicy(w) => req[w].q.party = NoOpp
    BY DEF NeedsPolicy, InSale, Unsold, Sold
  <1>3. ~ConfirmLookup(w) /\ ~ConfirmFound(w)
    BY <1>2 DEF ConfirmLookup, ConfirmFound, HoldsLock
  <1>4. ASSUME ConfirmFailed(w) PROVE FALSE
    <2> PaidQuote(w) \in QuoteRow /\ req[w].q \in QuoteRow
      BY PaidType DEF TypeInv, TypeOK, Request
    <2>1. PaidQuote(w).premium = req[w].q.premium
      BY DEF PaidQuote, QuoteRow
    <2>2. PaidQuote(w).premium # 0
      BY <1>4, <2>1 DEF ConfirmFailed, NeedsPolicy, InSale, SameOffer
    <2>3. \A i, j \in SameNumber(PaidQuote(w)) : i = j
      <3>1. policies \in Seq(PolicyRow)
        BY DEF TypeInv, TypeOK, PolicyRow
      <3>2. DOMAIN policies = 1 .. Len(policies) /\ Len(policies) \in Nat
        BY <3>1, LenProperties
      <3>3. Len(policies) = 0 \/ Len(policies) = 1
        BY <3>1, EmptySeq DEF InStore, Issued
      <3> QED
        BY <3>2, <3>3 DEF SameNumber
    <2> QED
      BY <1>4, <2>2, <2>3 DEF ConfirmFailed, CanIssue, InStore
  <1> QED
    BY <1>1, <1>3, <1>4

\* A request that only reads learns what is stored.
LEMMA ReadInSale ==
  ASSUME TypeInv, OneSale, [Next]_vars, NEW w \in Threads,
         UNCHANGED <<quote, attempt, stripe, opp, policies>>
  PROVE  InSale(w)'
  <1> req \in [Threads -> Request] /\ quote \in QuoteRow /\ InSale(w) /\ InStore
      /\ attempt \in [Amounts -> AttemptStatus] /\ SessionsSound
    BY DEF TypeInv, TypeOK, OneSale
  <1>0. Started' <=> Started
    BY DEF Started
  <1>1. CASE req'[w] = req[w]
    BY <1>0, <1>1 DEF InSale
  <1>2. /\ Idle.q = NewQuote /\ Idle.pc = "idle" /\ Idle.att = "NONE"
        /\ Unsold(NewQuote)
    BY DEF Idle, NewQuote, Unsold, IsPaid
  <1>3. CASE req'[w] = Idle
    BY <1>0, <1>2, <1>3 DEF InSale
  <1>4. policies = <<>> => Unsold(quote)
    BY DEF InStore, Unissued
  <1>5. policies # <<>> => Sold(quote, quote.party)
    BY DEF InStore, Issued
  <1>6. \A a \in Amounts : policies = <<>> => attempt[a] # "SUCCEEDED"
    BY DEF InStore, Unissued
  <1>7. ASSUME w \in Pages, Begin(w) PROVE InSale(w)'
    <2>1. req'[w].pc = "loaded" /\ req'[w].q = quote /\ req'[w].att = "NONE"
      BY <1>7, IdleType, <1>2 DEF Begin, Request
    <2> QED
      BY <1>0, <1>4, <1>5, <1>7, <2>1 DEF InSale, SameOffer
  <1>8. ASSUME w \in Pages, CheckoutRead(w) PROVE InSale(w)'
    <2>1. /\ req'[w].pc = "checkout" /\ req'[w].q = req[w].q
          /\ req'[w].amt = req[w].q.premium /\ req'[w].att = attempt[req[w].q.premium]
          /\ req[w].pc = "loaded" /\ req[w].q.premium # 0
          /\ req[w].q.status \in {"CUSTOMER_DATA", "CHECKOUT_PENDING", "PAID"}
      BY <1>8 DEF CheckoutRead, Request
    <2>2. req[w].q.premium \in Amounts
      BY <2>1 DEF Request, QuoteRow
    <2>3. SameOffer(req[w].q, quote)
      BY <2>1 DEF InSale
    <2>4. quote.opp # NoOpp
      <3>1. CASE Started
        BY <3>1 DEF InStore, Buying
      <3>2. CASE ~Started
        BY <2>1, <3>2 DEF InStore, Browsing, InSale
      <3> QED
        BY <3>1, <3>2
    <2>5. ~Started => req'[w].att = "NONE"
      BY <2>1, <2>2 DEF Started
    <2> QED
      BY <1>0, <1>6, <1>8, <2>1, <2>2, <2>3, <2>4, <2>5 DEF InSale, SameOffer
  <1>9. ASSUME NEW a \in Amounts, attempt[a] # "NONE", req'[w].pc = "paying",
               req'[w].amt = a, req'[w].att = attempt[a],
               req'[w].q = quote \/ (req[w].pc # "idle" /\ req'[w].q = req[w].q)
        PROVE  InSale(w)'
    <2>1. Started /\ Buying /\ a = quote.premium
      BY <1>9 DEF Started, InStore, Buying
    <2>2. SameOffer(req'[w].q, quote)
      BY <1>9 DEF InSale, SameOffer
    <2>3. /\ policies = <<>> => Unsold(req'[w].q) /\ req'[w].att # "SUCCEEDED"
          /\ policies # <<>> => Unsold(req'[w].q) \/ Sold(req'[w].q, quote.party)
      BY <1>4, <1>5, <1>6, <1>9 DEF InSale
    <2> QED
      BY <1>0, <1>9, <2>1, <2>2, <2>3 DEF InSale, Buying
  <1>10. ASSUME w \in Pages, NEW s \in Sessions, ResultPage(w, s) PROVE InSale(w)'
    <2>1. /\ stripe[s].amount \in Amounts /\ attempt[stripe[s].amount] # "NONE"
          /\ req'[w].pc = "paying" /\ req'[w].amt = stripe[s].amount
          /\ req'[w].att = attempt[stripe[s].amount]
          /\ req[w].pc # "idle" /\ req'[w].q = req[w].q
      BY <1>10 DEF ResultPage, Accepted, SessionsSound, Request
    <2>2. PICK a \in Amounts : a = stripe[s].amount
      BY <2>1
    <2> QED
      BY <1>9, <2>1, <2>2
  <1>11. ASSUME w \in Pages, NEW a \in Amounts, ConfirmSandbox(w, a) PROVE InSale(w)'
    <2>1. /\ attempt[a] # "NONE" /\ req'[w].pc = "paying" /\ req'[w].amt = a
          /\ req'[w].att = attempt[a] /\ req[w].pc # "idle" /\ req'[w].q = req[w].q
      BY <1>11 DEF ConfirmSandbox, Request
    <2> QED
      BY <1>9, <2>1
  <1>12. ASSUME w \in Hooks, NEW s \in Sessions, Webhook(w, s) PROVE InSale(w)'
    <2>1. /\ stripe[s].amount \in Amounts /\ attempt[stripe[s].amount] # "NONE"
          /\ req'[w].pc = "paying" /\ req'[w].amt = stripe[s].amount
          /\ req'[w].att = attempt[stripe[s].amount] /\ req'[w].q = quote
      BY <1>12, IdleType DEF Webhook, Accepted, SessionsSound, Request
    <2>2. PICK a \in Amounts : a = stripe[s].amount
      BY <2>1
    <2>3. /\ attempt[a] # "NONE" /\ req'[w].pc = "paying" /\ req'[w].amt = a
          /\ req'[w].att = attempt[a] /\ req'[w].q = quote
      BY <2>1, <2>2
    <2> QED
      BY <1>9, <2>3
  <1> QED
    BY <1>1, <1>3, <1>7, <1>8, <1>10, <1>11, <1>12, NoDetour, RequestMoves

\* What the requests know outlives a write that keeps offer, client and policy.
LEMMA KeepInSale ==
  ASSUME NEW w \in Threads, InSale(w), Started', req'[w] = req[w] \/ req'[w] = Idle,
         SameOffer(quote', quote), quote'.party = quote.party, UNCHANGED policies
  PROVE  InSale(w)'
  <1>1. /\ Idle.q = NewQuote /\ Idle.pc = "idle" /\ Idle.att = "NONE"
        /\ Unsold(NewQuote)
    BY DEF Idle, NewQuote, Unsold, IsPaid
  <1>2. CASE req'[w] = Idle
    BY <1>1, <1>2 DEF InSale
  <1>3. CASE req'[w] = req[w]
    BY <1>3 DEF InSale, SameOffer
  <1> QED
    BY <1>2, <1>3

\* The steps of the wizard before the first attempt: nobody else is at it.
LEMMA BrowsingSteps ==
  ASSUME Reopens = FALSE, TypeInv, OneSale, ~Started, [Next]_vars,
         \E w \in Pages :
           \/ \E t \in Trips : Calculate(w, t)
           \/ \E p \in Plans : SelectPlan(w, p)
           \/ SaveTravelers(w)
  PROVE  OneSale'
  <1> PICK w \in Pages :
           \/ \E t \in Trips : Calculate(w, t)
           \/ \E p \in Plans : SelectPlan(w, p)
           \/ SaveTravelers(w)
    OBVIOUS
  <1> /\ w \in Threads /\ req[w].q \in QuoteRow /\ quote \in QuoteRow
      /\ req \in [Threads -> Request] /\ opp \in OppTable
    BY DEF Threads, TypeInv, TypeOK, Request, OppTable
  <1>1. /\ Browsing /\ Unissued /\ carrier /\ policies = <<>>
        /\ \A v \in Threads : InSale(v)
    BY DEF OneSale, InStore, Browsing
  <1>2. /\ req' = [req EXCEPT ![w] = Idle]
        /\ \A v \in Pages \ {w} : req[v].pc = "idle"
        /\ req[w].pc = "loaded"
        /\ UNCHANGED <<attempt, stripe, policies, carrier>>
    BY DEF Calculate, SelectPlan, SaveTravelers, OneAtATime
  <1>3. Idle.q = NewQuote /\ Idle.pc = "idle" /\ Idle.att = "NONE" /\ Unsold(NewQuote)
    BY DEF Idle, NewQuote, Unsold, IsPaid
  <1>4. req[w].q = quote
    BY <1>1, <1>2 DEF InSale
  <1>5. ~Started' /\ policies' = <<>>
    BY <1>1, <1>2 DEF Started
  <1>6. ASSUME NEW v \in Threads PROVE InSale(v)'
    <2>1. InSale(v)
      BY <1>1
    <2>2. CASE v = w
      <3>1. req'[v] = Idle
        BY <1>2, <2>2
      <3> QED
        BY <1>3, <1>5, <3>1 DEF InSale
    <2>3. CASE v # w
      <3>1. req'[v] = req[v]
        BY <1>2, <2>3
      <3>2. req[v].pc = "idle"
        BY <1>2, <2>1, <2>3 DEF InSale
      <3> QED
        BY <1>1, <1>5, <2>1, <3>1, <3>2 DEF InSale
    <2> QED
      BY <2>2, <2>3
  <1>7. ASSUME quote'.party = quote.party, quote'.policy = quote.policy,
               quote'.pay = quote.pay,
               quote'.status \in {"STARTED", "QUOTED", "PLAN_SELECTED", "CUSTOMER_DATA"},
               quote'.status = "CUSTOMER_DATA" => quote'.opp # NoOpp,
               \A o \in Opps : opp'[o].client = NoOpp
        PROVE  InStore'
    <2>1. Browsing'
      BY <1>1, <1>2, <1>5, <1>7 DEF Browsing
    <2>2. Unissued'
      BY <1>1, <1>2, <1>7 DEF Unissued, Unsold, IsPaid
    <2> QED
      BY <1>1, <1>2, <1>5, <2>1, <2>2 DEF InStore
  <1>8. ASSUME NEW t \in Trips, Calculate(w, t) PROVE InStore'
    <2> DEFINE q == req[w].q
               u == [q EXCEPT !.trip = t, !.plan = NoPlan, !.premium = 0,
                              !.status = "STARTED", !.quoted = NoTrip]
               c == [u EXCEPT !.quoted = t, !.status = "QUOTED"]
    <2>1. quote' = Merge(Merge(quote, q, u), u, c) /\ UNCHANGED opp
      BY <1>8 DEF Calculate
    <2>2. /\ u.party = q.party /\ u.policy = q.policy /\ u.pay = q.pay
          /\ u.status = "STARTED"
          /\ c.party = q.party /\ c.policy = q.policy /\ c.pay = q.pay
          /\ c.status = "QUOTED"
      BY DEF QuoteRow
    <2> HIDE DEF q, u, c
    <2> DEFINE m == Merge(quote, q, u)
    <2>3. m.party = quote.party /\ m.policy = quote.policy /\ m.pay = quote.pay
      BY <2>2, MergeColumns
    <2> HIDE DEF m
    <2>4. quote' = Merge(m, u, c)
      BY <2>1 DEF m
    <2>5. /\ quote'.party = m.party /\ quote'.policy = m.policy /\ quote'.pay = m.pay
          /\ quote'.status = "QUOTED"
      BY <2>2, <2>4, MergeColumns
    <2> QED
      BY <1>1, <1>7, <2>1, <2>3, <2>5 DEF Unissued
  <1>9. ASSUME NEW p \in Plans, SelectPlan(w, p) PROVE InStore'
    <2> DEFINE n == [req[w].q EXCEPT !.plan = p,
                       !.premium = Price[req[w].q.quoted][p], !.status = "PLAN_SELECTED"]
    <2>1. /\ n.party = req[w].q.party /\ n.policy = req[w].q.policy
          /\ n.pay = req[w].q.pay /\ n.status = "PLAN_SELECTED"
      BY DEF QuoteRow
    <2>2. quote' = Merge(quote, req[w].q, n) /\ UNCHANGED opp
      BY <1>9 DEF SelectPlan
    <2> HIDE DEF n
    <2>3. /\ quote'.party = quote.party /\ quote'.policy = quote.policy
          /\ quote'.pay = quote.pay /\ quote'.status = "PLAN_SELECTED"
      BY <1>4, <2>1, <2>2, MergeColumns
    <2> QED
      BY <1>1, <1>7, <2>2, <2>3 DEF Unissued
  <1>10. ASSUME SaveTravelers(w) PROVE InStore'
    <2>1. PICK o \in Opps :
            /\ IF req[w].q.opp = NoOpp
                 THEN opp' = [opp EXCEPT ![o].stage = "QUOTING"]
                 ELSE opp' = opp
            /\ quote' = Merge(quote, req[w].q,
                              [req[w].q EXCEPT !.status = "CUSTOMER_DATA", !.opp = o])
      BY <1>10 DEF SaveTravelers
    <2> DEFINE n == [req[w].q EXCEPT !.status = "CUSTOMER_DATA", !.opp = o]
    <2>2. /\ n.party = req[w].q.party /\ n.policy = req[w].q.policy
          /\ n.pay = req[w].q.pay /\ n.status = "CUSTOMER_DATA" /\ n.opp = o
      BY DEF QuoteRow
    <2>3. quote' = Merge(quote, req[w].q, n)
      BY <2>1
    <2> HIDE DEF n
    <2>4. /\ quote'.party = quote.party /\ quote'.policy = quote.policy
          /\ quote'.pay = quote.pay /\ quote'.status = "CUSTOMER_DATA" /\ quote'.opp = o
      BY <1>4, <2>2, <2>3, MergeColumns
    <2>5. \A x \in Opps : opp'[x].client = opp[x].client
      BY <2>1 DEF OppTable
    <2> QED
      BY <1>1, <1>7, <2>4, <2>5, ConstantsAssumption DEF Unissued
  <1> QED
    BY <1>6, <1>8, <1>9, <1>10 DEF OneSale

\* A write after checkout has begun that leaves offer, client and policy alone.
LEMMA Resume ==
  ASSUME NEW w \in Threads, OneSale, req[w].pc # "idle",
         NEW new \in QuoteRow, SameOffer(new, req[w].q),
         new.party = req[w].q.party, new.policy = req[w].q.policy,
         quote' = Merge(quote, req[w].q, new)
  PROVE  /\ SameOffer(quote', quote)
         /\ quote'.party = quote.party /\ quote'.policy = quote.policy
         /\ Unsold(quote) /\ ~IsPaid(new) => Unsold(quote')
  <1>1. /\ quote'.plan = quote.plan /\ quote'.premium = quote.premium
        /\ quote'.opp = quote.opp
        /\ quote'.party = quote.party /\ quote'.policy = quote.policy
        /\ quote'.status \in {quote.status, new.status}
        /\ quote'.pay \in {quote.pay, new.pay}
    BY MergeColumns DEF SameOffer
  <1> QED
    BY <1>1 DEF SameOffer, Unsold, IsPaid

\* The writes after checkout has begun that do not confirm a payment.
LEMMA BuyingSteps ==
  ASSUME Reopens = FALSE, TypeInv, OneSale, [Next]_vars,
         \E w \in Pages :
           \/ Started /\ SaveTravelers(w)
           \/ CheckoutReuse(w) \/ CheckoutCreate(w)
           \/ \E s \in Sessions : ResultMismatch(w, s)
  PROVE  OneSale'
  <1> PICK w \in Pages :
           \/ Started /\ SaveTravelers(w)
           \/ CheckoutReuse(w) \/ CheckoutCreate(w)
           \/ \E s \in Sessions : ResultMismatch(w, s)
    OBVIOUS
  <1> /\ w \in Threads /\ req[w].q \in QuoteRow /\ quote \in QuoteRow
      /\ req \in [Threads -> Request] /\ opp \in OppTable
      /\ attempt \in [Amounts -> AttemptStatus]
      /\ stripe \in [Sessions -> [amount : Amounts \cup {0}, state : SessionState]]
    BY DEF Threads, TypeInv, TypeOK, Request, OppTable
  <1>1. /\ carrier /\ \A v \in Threads : InSale(v)
        /\ IF Started THEN Buying ELSE Browsing
        /\ IF policies = <<>> THEN Unissued ELSE Issued
    BY DEF OneSale, InStore
  <1>2. /\ req' = [req EXCEPT ![w] = Idle] /\ req[w].pc # "idle"
        /\ UNCHANGED <<policies, carrier>>
    BY DEF SaveTravelers, CheckoutReuse, CheckoutCreate, ResultMismatch
  <1>3. PICK new \in QuoteRow :
          /\ quote' = Merge(quote, req[w].q, new)
          /\ SameOffer(new, req[w].q)
          /\ new.party = req[w].q.party /\ new.policy = req[w].q.policy
          /\ new.pay \in {req[w].q.pay, "PENDING", "FAILED"}
          /\ new.status \in {req[w].q.status, "CUSTOMER_DATA", "CHECKOUT_PENDING"}
          /\ UNCHANGED opp
    <2>1. CASE Started /\ SaveTravelers(w)
      <3>1. req[w].q.opp = quote.opp /\ quote.opp # NoOpp
        BY <1>1, <1>2, <2>1 DEF InSale, SameOffer, Buying
      <3>2. /\ UNCHANGED opp
            /\ quote' = Merge(quote, req[w].q, [req[w].q EXCEPT !.status = "CUSTOMER_DATA",
                                                                !.opp = req[w].q.opp])
        BY <2>1, <3>1 DEF SaveTravelers
      <3> [req[w].q EXCEPT !.status = "CUSTOMER_DATA", !.opp = req[w].q.opp] \in QuoteRow
        BY DEF QuoteRow, QuoteStatus, PaymentStatus
      <3> WITNESS [req[w].q EXCEPT !.status = "CUSTOMER_DATA", !.opp = req[w].q.opp] \in QuoteRow
      <3> QED
        BY <3>2 DEF SameOffer, QuoteRow, QuoteStatus
    <2>2. CASE CheckoutReuse(w) \/ CheckoutCreate(w)
      <3>1. /\ UNCHANGED opp
            /\ quote' = Merge(quote, req[w].q, [req[w].q EXCEPT !.status = "CHECKOUT_PENDING",
                                                                !.pay = "PENDING"])
        BY <2>2 DEF CheckoutReuse, CheckoutCreate, AwaitPayment
      <3> [req[w].q EXCEPT !.status = "CHECKOUT_PENDING", !.pay = "PENDING"] \in QuoteRow
        BY DEF QuoteRow, QuoteStatus, PaymentStatus
      <3> WITNESS [req[w].q EXCEPT !.status = "CHECKOUT_PENDING", !.pay = "PENDING"] \in QuoteRow
      <3> QED
        BY <3>1 DEF SameOffer, QuoteRow, QuoteStatus, PaymentStatus
    <2>3. CASE \E s \in Sessions : ResultMismatch(w, s)
      <3>1. /\ UNCHANGED opp
            /\ quote' = Merge(quote, req[w].q, [req[w].q EXCEPT !.pay = "FAILED"])
        BY <2>3 DEF ResultMismatch
      <3> [req[w].q EXCEPT !.pay = "FAILED"] \in QuoteRow
        BY DEF QuoteRow, QuoteStatus, PaymentStatus
      <3> WITNESS [req[w].q EXCEPT !.pay = "FAILED"] \in QuoteRow
      <3> QED
        BY <3>1 DEF SameOffer, QuoteRow, PaymentStatus
    <2> QED
      BY <2>1, <2>2, <2>3
  <1>4. /\ SameOffer(quote', quote)
        /\ quote'.party = quote.party /\ quote'.policy = quote.policy
        /\ Unsold(quote) /\ ~IsPaid(new) => Unsold(quote')
    BY <1>2, <1>3, Resume
  <1>5. CheckoutReuse(w) \/ CheckoutCreate(w) =>
          req[w].amt \in Amounts /\ req[w].amt = quote.premium
    BY <1>1 DEF CheckoutReuse, CheckoutCreate, TypeInv, RequestsSound, InSale
  <1>6. Started'
    <2>1. CASE Started
      BY <2>1, StartedStays
    <2>2. CASE CheckoutCreate(w)
      BY <1>5, <2>2 DEF CheckoutCreate, Started
    <2>3. CASE CheckoutReuse(w)
      <3>1. req[w].att = "REDIRECTED"
        BY <2>3 DEF CheckoutReuse
      <3>2. Started
        BY <1>1, <3>1 DEF InSale
      <3> QED
        BY <3>2, StartedStays
    <2>4. CASE \E s \in Sessions : ResultMismatch(w, s)
      <3>1. Started
        BY <1>1, <2>4 DEF ResultMismatch, Browsing
      <3> QED
        BY <3>1, StartedStays
    <2> QED
      BY <2>1, <2>2, <2>3, <2>4
  <1>7. \A v \in Threads : InSale(v)'
    BY <1>1, <1>2, <1>4, <1>6, KeepInSale
  <1>8. /\ \A a \in Amounts : attempt'[a] # "NONE" => a = quote.premium
        /\ policies = <<>> => \A a \in Amounts : attempt'[a] # "SUCCEEDED"
        /\ \A s \in Sessions : stripe'[s].state # "NONE" => stripe'[s].amount = quote.premium
        /\ quote.premium # 0 /\ quote.opp # NoOpp
    <2>0. Started => Buying
      BY <1>1
    <2>00. policies = <<>> => \A a \in Amounts : attempt[a] # "SUCCEEDED"
      BY <1>1 DEF Unissued
    <2>1. CASE Started /\ SaveTravelers(w)
      BY <2>0, <2>00, <2>1 DEF SaveTravelers, Buying
    <2>2. CASE CheckoutReuse(w)
      <3>1. req[w].att = "REDIRECTED" /\ UNCHANGED <<attempt, stripe>>
        BY <2>2 DEF CheckoutReuse
      <3>2. Started
        BY <1>1, <3>1 DEF InSale
      <3> QED
        BY <2>0, <2>00, <3>1, <3>2 DEF Buying
    <2>3. CASE \E s \in Sessions : ResultMismatch(w, s)
      <3>1. PICK s \in Sessions : ResultMismatch(w, s)
        BY <2>3
      <3>2. Started
        BY <1>1, <3>1 DEF ResultMismatch, Browsing
      <3>3. /\ attempt[stripe[s].amount] # "NONE" /\ UNCHANGED stripe
            /\ attempt' = [attempt EXCEPT ![stripe[s].amount] = "FAILED"]
        BY <3>1 DEF ResultMismatch
      <3> QED
        BY <2>0, <2>00, <3>2, <3>3 DEF Buying
    <2>4. CASE CheckoutCreate(w)
      <3>1. /\ req[w].amt = quote.premium /\ quote.premium # 0 /\ quote.opp # NoOpp
        BY <1>1, <2>4 DEF CheckoutCreate, InSale
      <3>2. /\ attempt' = [attempt EXCEPT ![req[w].amt] = "REDIRECTED"]
            /\ \/ stripe' = stripe
               \/ \E s \in Sessions :
                    stripe' = [stripe EXCEPT ![s] = [amount |-> req[w].amt, state |-> "open"]]
        BY <2>4 DEF CheckoutCreate
      <3>3. \A s \in Sessions : stripe[s].state # "NONE" => stripe[s].amount = quote.premium
        BY <1>1 DEF Buying, Browsing
      <3>4. \A a \in Amounts : attempt[a] # "NONE" => a = quote.premium
        BY <1>1 DEF Buying, Started
      <3> QED
        BY <2>00, <3>1, <3>2, <3>3, <3>4
    <2> QED
      BY <2>1, <2>2, <2>3, <2>4
  <1>9. Buying'
    BY <1>4, <1>8 DEF Buying, SameOffer
  <1>10. policies = <<>> => Unissued'
    <2> SUFFICES ASSUME policies = <<>> PROVE Unissued'
      OBVIOUS
    <2>1. Unsold(quote) /\ Unsold(req[w].q) /\ Unissued
      BY <1>1 DEF Unissued, InSale
    <2>2. ~IsPaid(new)
      BY <1>3, <2>1 DEF Unsold, IsPaid
    <2> QED
      BY <1>3, <1>4, <1>8, <2>1, <2>2 DEF Unissued
  <1>11. policies # <<>> => Issued'
    BY <1>1, <1>2, <1>3, <1>4 DEF Issued, TheSale, Sold, SameOffer
  <1> QED
    BY <1>1, <1>2, <1>6, <1>7, <1>9, <1>10, <1>11 DEF OneSale, InStore

\* A confirmation of a quote that has its policy.
LEMMA IssuedStep ==
  ASSUME TypeInv, OneSale, [Next]_vars, NEW w \in Threads, ConfirmIssued(w)
  PROVE  OneSale'
  <1> /\ TypeOK /\ req[w].q \in QuoteRow /\ PaidQuote(w) \in QuoteRow /\ quote \in QuoteRow
      /\ req \in [Threads -> Request] /\ opp \in OppTable
      /\ attempt \in [Amounts -> AttemptStatus]
    BY PaidType DEF TypeInv, TypeOK, Request, OppTable
  <1>1. /\ carrier /\ \A v \in Threads : InSale(v)
        /\ IF Started THEN Buying ELSE Browsing
        /\ IF policies = <<>> THEN Unissued ELSE Issued
    BY DEF OneSale, InStore
  <1> DEFINE r == [PaidQuote(w) EXCEPT !.status = IF @ = "PAID" THEN "COMPLETED" ELSE @]
  <1>2. /\ req[w].pc = "paying" /\ req[w].q.policy # 0
        /\ RecordPayment(w) /\ opp' = Win(w, PaidQuote(w).opp)
        /\ quote' = Merge(quote, req[w].q, r)
        /\ req' = [req EXCEPT ![w] = Idle]
        /\ UNCHANGED <<stripe, policies, carrier>>
    BY PaidKeeps DEF ConfirmIssued, Done
  <1>3. r \in QuoteRow /\ SameOffer(r, req[w].q) /\ r.party = req[w].q.party
        /\ r.policy = req[w].q.policy
    BY DEF PaidQuote, QuoteRow, QuoteStatus, PaymentStatus, SameOffer
  <1> HIDE DEF r
  <1>4. /\ SameOffer(quote', quote)
        /\ quote'.party = quote.party /\ quote'.policy = quote.policy
    BY <1>2, <1>3, Resume
  <1>5. policies # <<>> /\ Issued /\ Started /\ Buying
    BY <1>1, <1>2 DEF InSale, Unsold, Browsing
  <1>6. Started'
    BY <1>5, StartedStays
  <1>7. \A v \in Threads : InSale(v)'
    BY <1>1, <1>2, <1>4, <1>6, KeepInSale
  <1>8. PaidQuote(w).opp = quote.opp /\ quote.opp \in Opps /\ req[w].amt = quote.premium
    BY <1>1, <1>2, <1>5, PaidKeeps DEF InSale, SameOffer, Buying, QuoteRow
  <1>9. opp' = [opp EXCEPT ![quote.opp].stage = "WON"] \/ opp' = opp
    BY <1>2, <1>8 DEF Win
  <1>10. Buying'
    BY <1>2, <1>4, <1>5, <1>8 DEF Buying, RecordPayment, SameOffer
  <1>11. Issued'
    <2>1. /\ \A o \in Opps : opp'[o].client = opp[o].client
          /\ opp'[quote.opp].stage = "WON"
      BY <1>5, <1>8, <1>9 DEF OppTable, Issued
    <2>2. quote'.opp = quote.opp /\ quote'.plan = quote.plan /\ quote'.premium = quote.premium
      BY <1>4 DEF SameOffer
    <2> QED
      BY <1>2, <1>4, <1>5, <1>8, <2>1, <2>2 DEF Issued, TheSale, Sold
  <1> QED
    BY <1>1, <1>2, <1>5, <1>6, <1>7, <1>10, <1>11 DEF OneSale, InStore

\* The confirmation that issues, or that finds what another has issued.
LEMMA IssueStep ==
  ASSUME TypeInv, OneSale, [Next]_vars, NEW w \in Threads, ConfirmIssue(w)
  PROVE  /\ OneSale'
         /\ policies = <<>> => policies' = Append(<<>>, TheSale(quote'.party))
         /\ policies # <<>> => UNCHANGED policies
  <1> /\ TypeOK /\ req[w].q \in QuoteRow /\ PaidQuote(w) \in QuoteRow /\ quote \in QuoteRow
      /\ req \in [Threads -> Request] /\ opp \in OppTable
      /\ attempt \in [Amounts -> AttemptStatus] /\ policies \in Seq(PolicyRow)
    BY PaidType DEF TypeInv, TypeOK, Request, OppTable, PolicyRow
  <1>1. /\ carrier /\ \A v \in Threads : InSale(v)
        /\ IF Started THEN Buying ELSE Browsing
        /\ IF policies = <<>> THEN Unissued ELSE Issued
    BY DEF OneSale, InStore
  <1>2. /\ req[w].pc = "paying" /\ req[w].q.policy = 0 /\ IsPaid(PaidQuote(w))
        /\ RecordPayment(w)
        /\ req' = [req EXCEPT ![w] = Idle]
        /\ UNCHANGED <<stripe, carrier>>
    BY DEF ConfirmIssue, NeedsPolicy, Done
  <1>3. Unsold(req[w].q) /\ SameOffer(req[w].q, quote) /\ req[w].amt = quote.premium
        /\ quote.opp # NoOpp
    BY <1>1, <1>2 DEF InSale, Sold
  <1>4. First(w)
    BY <1>2, <1>3 DEF PaidQuote, Unsold
  <1>5. Started /\ Buying
    BY <1>1, <1>2 DEF InSale
  <1>6. Started'
    BY <1>5, StartedStays
  <1>7. /\ PaidQuote(w).plan = quote.plan /\ PaidQuote(w).premium = quote.premium
        /\ PaidQuote(w).opp = quote.opp /\ PaidQuote(w).party = NoOpp
        /\ PaidQuote(w).policy = 0 /\ quote.opp \in Opps
    BY <1>3 DEF PaidQuote, SameOffer, Unsold, QuoteRow
  <1>8. PICK c \in Clients(PaidQuote(w)) :
          /\ opp' = Convert(w, PaidQuote(w), c)
          /\ IF SameNumber(PaidQuote(w)) # {}
               THEN /\ policies' = policies
                    /\ \E i \in SameNumber(PaidQuote(w)) :
                         quote' = Merge(quote, req[w].q, [PaidQuote(w) EXCEPT
                                     !.party = c, !.policy = i, !.status = "COMPLETED"])
               ELSE /\ policies' = Append(policies, PolicyOf(PaidQuote(w), c))
                    /\ quote' = Merge(quote, req[w].q, [PaidQuote(w) EXCEPT
                                   !.party = c, !.policy = Len(policies) + 1,
                                   !.status = "COMPLETED"])
    BY DEF ConfirmIssue
  <1>9. c \in Opps /\ c # NoOpp
    BY <1>3, <1>7, ClientType, ConstantsAssumption DEF TypeInv
  <1>10. /\ opp'[quote.opp].stage = "WON" /\ opp'[quote.opp].client = c
         /\ \A o \in Opps \ {quote.opp} : opp'[o] = opp[o]
    <2>1. Win(w, quote.opp) = [opp EXCEPT ![quote.opp].stage = "WON"]
      BY <1>3, <1>4 DEF Win
    <2>2. opp' = [Win(w, quote.opp) EXCEPT ![quote.opp].client = c]
      BY <1>7, <1>8 DEF Convert
    <2> QED
      BY <1>7, <2>1, <2>2 DEF OppTable
  <1> DEFINE Stamped(i) == [PaidQuote(w) EXCEPT !.party = c, !.policy = i, !.status = "COMPLETED"]
  <1>16. \A i \in Nat : /\ Stamped(i).plan = quote.plan /\ Stamped(i).premium = quote.premium
                         /\ Stamped(i).opp = quote.opp
                         /\ Stamped(i).party = c /\ Stamped(i).policy = i
    BY <1>7 DEF QuoteRow
  <1>17. IF SameNumber(PaidQuote(w)) # {}
           THEN /\ policies' = policies
                /\ \E i \in SameNumber(PaidQuote(w)) :
                     quote' = Merge(quote, req[w].q, Stamped(i))
           ELSE /\ policies' = Append(policies, PolicyOf(PaidQuote(w), c))
                /\ quote' = Merge(quote, req[w].q, Stamped(Len(policies) + 1))
    BY <1>8
  <1> HIDE DEF Stamped
  <1>11. ASSUME quote' = Merge(quote, req[w].q, Stamped(1))
         PROVE  /\ SameOffer(quote', quote)
                /\ quote'.party = c /\ quote'.policy = 1
    <2>1. req[w].q.party = NoOpp /\ req[w].q.policy = 0
      BY <1>3 DEF Unsold
    <2> QED
      BY <1>3, <1>9, <1>11, <1>16, <2>1, MergeColumns DEF SameOffer
  <1>12. Len(policies) \in Nat /\ DOMAIN policies = 1 .. Len(policies)
    BY LenProperties
  <1>13. ASSUME SameOffer(quote', quote),
                quote'.party = c, quote'.policy = 1, Len(policies') = 1,
                policies'[1] = TheSale(c), policies' # <<>>,
                policies = <<>> \/ c = quote.party,
                \A o \in Opps : opp[o].client \in {NoOpp, c}
         PROVE  OneSale'
    <2>1. Buying'
      BY <1>2, <1>3, <1>5, <1>13 DEF Buying, RecordPayment, SameOffer
    <2>2. Issued'
      BY <1>7, <1>9, <1>10, <1>13 DEF Issued, TheSale, Sold, SameOffer, OppTable
    <2>3. ASSUME NEW v \in Threads PROVE InSale(v)'
      <3>1. InSale(v)
        BY <1>1
      <3>2. CASE v = w
        <4>1. /\ Idle.q = NewQuote /\ Idle.pc = "idle" /\ Unsold(NewQuote)
              /\ req'[v] = Idle
          BY <1>2, <3>2 DEF Idle, NewQuote, Unsold, IsPaid
        <4> QED
          BY <1>6, <1>13, <4>1 DEF InSale
      <3>3. CASE v # w
        <4>1. req'[v] = req[v]
          BY <1>2, <3>3
        <4>2. Unsold(req[v].q) \/ Sold(req[v].q, quote.party)
          BY <3>1 DEF InSale
        <4>3. Unsold(req[v].q) \/ Sold(req[v].q, c)
          BY <1>13, <3>1, <4>2 DEF InSale
        <4> QED
          BY <1>6, <1>13, <3>1, <4>1, <4>3 DEF InSale, SameOffer
      <3> QED
        BY <3>2, <3>3
    <2> QED
      BY <1>1, <1>2, <1>6, <1>13, <2>1, <2>2, <2>3 DEF OneSale, InStore
  <1>14. CASE policies = <<>>
    <2>1. SameNumber(PaidQuote(w)) = {} /\ Len(policies) = 0
      BY <1>14 DEF SameNumber
    <2>2. PolicyOf(PaidQuote(w), c) = TheSale(c)
      BY <1>7 DEF PolicyOf, TheSale
    <2>3. policies' = Append(policies, TheSale(c))
      BY <1>17, <2>1, <2>2
    <2>4. TheSale(c) \in PolicyRow
      BY <1>9, <2>2, PolicyType
    <2>5. Len(policies') = 1 /\ policies'[1] = TheSale(c) /\ policies' # <<>>
      <3>1. /\ Len(policies') = Len(policies) + 1
            /\ policies'[Len(policies) + 1] = TheSale(c)
        BY <2>3, <2>4, AppendProperties
      <3>2. Len(policies) + 1 = 1
        BY <2>1
      <3>3. Len(policies') = 1 /\ policies'[1] = TheSale(c)
        BY <3>1, <3>2
      <3>4. ASSUME policies' = <<>> PROVE FALSE
        <4>1. Len(policies') = 0
          BY <3>4
        <4> QED
          BY <3>3, <4>1
      <3> QED
        BY <3>3, <3>4
    <2>6. SameOffer(quote', quote) /\ quote'.party = c /\ quote'.policy = 1
      <3>1. Len(policies) + 1 = 1
        BY <2>1
      <3> QED
        BY <1>11, <1>17, <2>1, <3>1
    <2>7. \A o \in Opps : opp[o].client \in {NoOpp, c}
      BY <1>1, <1>14 DEF Unissued
    <2>8. OneSale'
      BY <1>13, <1>14, <2>5, <2>6, <2>7
    <2> QED
      BY <1>14, <2>3, <2>6, <2>8
  <1>15. CASE policies # <<>>
    <2>1. Issued
      BY <1>1, <1>15
    <2>2. c = quote.party
      BY <1>7, <1>8, <2>1 DEF Clients, Issued
    <2>3. \A i \in SameNumber(PaidQuote(w)) : i = 1
      BY <1>12, <2>1 DEF SameNumber, Issued
    <2>4. 1 \in SameNumber(PaidQuote(w))
      BY <1>7, <1>12, <2>1 DEF SameNumber, Issued, TheSale
    <2>5. /\ policies' = policies
          /\ quote' = Merge(quote, req[w].q, Stamped(1))
      BY <1>17, <2>3, <2>4
    <2>6. SameOffer(quote', quote) /\ quote'.party = c /\ quote'.policy = 1
      BY <1>11, <2>5
    <2>7. OneSale'
      BY <1>13, <1>15, <2>1, <2>2, <2>5, <2>6 DEF Issued
    <2> QED
      BY <1>15, <2>5, <2>7
  <1> QED
    BY <1>14, <1>15

\* The provider's sessions move only once there are any.
LEMMA SessionInSale ==
  ASSUME TypeInv, OneSale, [Next]_vars, NEW s \in Sessions, SessionMoves(s)
  PROVE  OneSale'
  <1> /\ req \in [Threads -> Request]
      /\ stripe \in [Sessions -> [amount : Amounts \cup {0}, state : SessionState]]
    BY DEF TypeInv, TypeOK
  <1>1. /\ carrier /\ \A v \in Threads : InSale(v)
        /\ IF Started THEN Buying ELSE Browsing
        /\ IF policies = <<>> THEN Unissued ELSE Issued
    BY DEF OneSale, InStore
  <1>2. /\ stripe[s].state # "NONE"
        /\ \E st \in SessionState : stripe' = [stripe EXCEPT ![s].state = st]
        /\ UNCHANGED <<quote, attempt, opp, policies, carrier, req>>
    BY DEF SessionMoves, CompleteSession, SettleSession, ExpireSession, SessionState
  <1>3. Started /\ Buying /\ Started'
    BY <1>1, <1>2, StartedStays DEF Browsing
  <1>4. Buying'
    BY <1>2, <1>3 DEF Buying
  <1>5. IF policies' = <<>> THEN Unissued' ELSE Issued'
    BY <1>1, <1>2 DEF Unissued, Issued, TheSale
  <1>6. \A v \in Threads : InSale(v)'
    BY <1>1, <1>2, <1>3 DEF InSale
  <1> QED
    BY <1>1, <1>2, <1>3, <1>4, <1>5, <1>6 DEF OneSale, InStore

\* Every other step leaves the stored sale as it is.
LEMMA ReadStep ==
  ASSUME TypeInv, OneSale, [Next]_vars,
         UNCHANGED <<quote, attempt, stripe, opp, policies, carrier>>
  PROVE  OneSale'
  <1>1. \A w \in Threads : InSale(w)'
    BY ReadInSale
  <1>2. InStore'
    BY DEF OneSale, InStore, Started, Buying, Browsing, Unissued, Issued, TheSale
  <1> QED
    BY <1>1, <1>2 DEF OneSale

LEMMA SaleKinds ==
  ASSUME TypeInv, OneSale, [Next]_vars
  PROVE  \/ UNCHANGED <<quote, attempt, stripe, opp, policies, carrier>>
         \/ \E w \in Pages :
              \/ \E t \in Trips : Calculate(w, t)
              \/ \E p \in Plans : SelectPlan(w, p)
              \/ SaveTravelers(w)
              \/ CheckoutReuse(w) \/ CheckoutCreate(w)
              \/ \E s \in Sessions : ResultMismatch(w, s)
         \/ \E s \in Sessions : SessionMoves(s)
         \/ \E w \in Threads : ConfirmIssued(w) \/ ConfirmIssue(w)
  <1> DEFINE Same == UNCHANGED <<quote, attempt, stripe, opp, policies, carrier>>
  <1>1. ASSUME UNCHANGED vars
        PROVE  Same
    BY <1>1 DEF vars
  <1>2. ASSUME NEW w \in Pages,
               \/ Begin(w) \/ SaveEmergency(w) \/ CheckoutRead(w)
               \/ \E s \in Sessions : ResultPage(w, s)
               \/ \E a \in Amounts : ConfirmSandbox(w, a)
        PROVE  Same
    BY <1>2 DEF Begin, SaveEmergency, CheckoutRead, ResultPage, ConfirmSandbox
  <1>3. ASSUME NEW w \in Threads, Leave(w) \/ ConfirmRefused(w)
        PROVE  Same
    BY <1>3 DEF Leave, ConfirmRefused
  <1>4. ASSUME NEW h \in Hooks, CommitLost(h) \/ \E s \in Sessions : Webhook(h, s)
        PROVE  Same
    BY <1>4 DEF CommitLost, Webhook
  <1>5. ASSUME Lapse
        PROVE  Same
    BY <1>5 DEF Lapse
  <1>6. ~ActivateCarrier
    BY DEF OneSale, InStore, ActivateCarrier
  <1> HIDE DEF Same
  <1>7. \/ Same
        \/ \E w \in Pages :
              \/ \E t \in Trips : Calculate(w, t)
              \/ \E p \in Plans : SelectPlan(w, p)
              \/ SaveTravelers(w)
              \/ CheckoutReuse(w) \/ CheckoutCreate(w)
              \/ \E s \in Sessions : ResultMismatch(w, s)
        \/ \E s \in Sessions : SessionMoves(s)
        \/ \E v \in Threads : ConfirmIssued(v) \/ ConfirmIssue(v)
    <2>1. ASSUME NEW w \in Threads, Confirm(w)
          PROVE  Same \/ ConfirmIssued(w) \/ ConfirmIssue(w)
      BY <1>3, <2>1, NoDetour DEF Confirm
    <2> QED
      BY <1>1, <1>2, <1>3, <1>4, <1>5, <1>6, <2>1 DEF Next, SessionMoves
  <1> QED
    BY <1>7 DEF Same

LEMMA OneSaleStep ==
  ASSUME Reopens = FALSE, TypeInv, OneSale, [Next]_vars
  PROVE  OneSale'
  <1>1. ASSUME NEW w \in Pages, NEW t \in Trips, Calculate(w, t) PROVE ~Started
    BY <1>1 DEF Calculate, NotAtCheckout, Started
  <1>2. ASSUME NEW w \in Pages, NEW p \in Plans, SelectPlan(w, p) PROVE ~Started
    BY <1>2 DEF SelectPlan, NotAtCheckout, Started
  <1> QED
    BY <1>1, <1>2, SaleKinds, ReadStep, BrowsingSteps, BuyingSteps, SessionInSale,
       IssuedStep, IssueStep

\* The invariant of one sale, for every number of pages, trips, plans and
\* sessions, and whether or not Stripe delays payments or reports other totals.
LEMMA OneSaleHolds ==
  ASSUME Reopens = FALSE, Outage = FALSE
  PROVE  Spec => []OneSale
  <1>1. Init => OneSale
    BY InitOneSale
  <1>2. TypeInv /\ OneSale /\ [Next]_vars => OneSale'
    BY OneSaleStep
  <1> QED
    BY <1>1, <1>2, InvariantTypes, PTL DEF Spec

LEMMA PolicyCount ==
  ASSUME TypeInv, OneSale
  PROVE  \A i \in DOMAIN policies : i = 1 /\ Issued
  <1>1. policies \in Seq(PolicyRow)
    BY DEF TypeInv, TypeOK, PolicyRow
  <1>2. DOMAIN policies = 1 .. Len(policies) /\ Len(policies) \in Nat
    BY <1>1, LenProperties
  <1>3. policies = <<>> => Len(policies) = 0
    OBVIOUS
  <1> QED
    BY <1>2, <1>3 DEF OneSale, InStore, Issued

\* confirm_from_stripe_session runs on the result page and in the webhook, at
\* once and any number of times: one policy is issued, to the quote's client.
\* The customer uses one tab and the organization has its carrier; Stripe may
\* delay payments, report other totals and deliver as often as it likes.
THEOREM OnePolicyEach ==
  ASSUME Reopens = FALSE, Outage = FALSE
  PROVE  Spec => []OnePolicy
  <1>1. TypeInv /\ OneSale => OnePolicy
    <2> SUFFICES ASSUME TypeInv, OneSale PROVE OnePolicy
      OBVIOUS
    <2>1. Len(policies) <= 1
      <3>1. policies = <<>> => Len(policies) = 0
        OBVIOUS
      <3>2. Len(policies) = 0 \/ Len(policies) = 1
        BY <3>1 DEF OneSale, InStore, Issued
      <3> QED
        BY <3>2
    <2>2. \A i \in DOMAIN policies : policies[i].client = quote.party
      BY PolicyCount DEF Issued, TheSale
    <2> QED
      BY <2>1, <2>2 DEF OnePolicy
  <1> QED
    BY <1>1, OneSaleHolds, InvariantTypes, PTL

\* "CRM: prospect + oportunidad -> WON al pagar": whichever confirmation
\* issues the policy, the opportunity is won and converted to its client, and
\* no later request takes that back.
THEOREM IssuedOpportunityIsWon ==
  ASSUME Reopens = FALSE, Outage = FALSE
  PROVE  Spec => []IssuedIsWon
  <1>1. TypeInv /\ OneSale => IssuedIsWon
    <2> SUFFICES ASSUME TypeInv, OneSale, policies # <<>>
                 PROVE  /\ quote.opp # NoOpp
                        /\ opp[quote.opp] = [stage |-> "WON", client |-> quote.party]
      BY DEF IssuedIsWon
    <2>1. Issued /\ Started /\ Buying
      BY DEF OneSale, InStore, Browsing
    <2>2. quote.opp \in Opps /\ quote.opp # NoOpp
      BY <2>1 DEF Buying, TypeInv, TypeOK, QuoteRow
    <2>3. opp[quote.opp] \in [stage : {"NONE", "QUOTING", "WON"}, client : Opps \cup {NoOpp}]
      BY <2>2 DEF TypeInv, TypeOK
    <2>4. opp[quote.opp].stage = "WON" /\ opp[quote.opp].client = quote.party
      BY <2>1 DEF Issued
    <2> QED
      BY <2>2, <2>3, <2>4
  <1> QED
    BY <1>1, OneSaleHolds, InvariantTypes, PTL

LEMMA BackingHolds ==
  ASSUME "SANDBOX" \notin Providers
  PROVE  Spec => []Backing
  <1>1. Init => Backing
    BY DEF Init, Backing, PaymentIsBacked, Confirming, Idle
  <1>2. TypeInv /\ Backing /\ [Next]_vars => Backing'
    BY BackingStep
  <1> QED
    BY <1>1, <1>2, InvariantTypes, PTL DEF Spec

\* The premium of the policy is the amount of a session Stripe reported
\* complete: plan and premium cannot change once a payment page exists.
THEOREM PolicyAsPaid ==
  ASSUME Reopens = FALSE, Outage = FALSE, "SANDBOX" \notin Providers
  PROVE  Spec => []PolicyIsWhatWasPaid
  <1>1. TypeInv /\ OneSale /\ Backing => PolicyIsWhatWasPaid
    <2> SUFFICES ASSUME TypeInv, OneSale, Backing, NEW i \in DOMAIN policies
                 PROVE  \E s \in Sessions : Accepted(s) /\ stripe[s].amount = policies[i].premium
      BY DEF PolicyIsWhatWasPaid
    <2>1. i = 1 /\ Issued
      BY PolicyCount
    <2>2. policies # <<>>
      <3>1. policies = <<>> => Len(policies) = 0
        OBVIOUS
      <3> QED
        BY <2>1, <3>1 DEF Issued
    <2>3. PICK a \in Amounts : Backed(a)
      BY <2>2 DEF Backing, PaymentIsBacked
    <2>4. PICK s \in Sessions : stripe[s].amount = a /\ stripe[s].state \in {"unpaid", "paid"}
      BY <2>3 DEF Backed
    <2>5. Buying
      BY <2>2 DEF OneSale, InStore, Browsing
    <2>6. stripe[s].amount = quote.premium /\ Accepted(s)
      BY <2>4, <2>5 DEF Buying, Accepted
    <2>7. policies[i].premium = quote.premium
      BY <2>1 DEF Issued, TheSale
    <2> QED
      BY <2>6, <2>7
  <1> QED
    BY <1>1, OneSaleHolds, BackingHolds, InvariantTypes, PTL

-----------------------------------------------------------------------------
(* The checkout implements PaidSale: every step charges the buyer once,      *)
(* covers what was charged once, or changes neither.                         *)

Charged == {stripe[s].amount : s \in {x \in Sessions : Accepted(x)}}

Premiums == [i \in DOMAIN policies |-> policies[i].premium]

Forgotten == \E s \in Sessions : Lost(s)

LEMMA InitSale == Init => Sale!Init
  <1> SUFFICES ASSUME Init PROVE Charged = {} /\ Premiums = <<>> /\ Forgotten = FALSE
    BY DEF Sale!Init, Charged, Premiums, Forgotten
  <1>1. Charged = {}
    BY DEF Init, Charged, Accepted
  <1>2. Premiums = <<>>
    BY DEF Init, Premiums
  <1>3. Forgotten = FALSE
    BY DEF Init, Forgotten, Lost
  <1> QED
    BY <1>1, <1>2, <1>3

\* Only a session that completes charges the buyer, and only the first one.
LEMMA ChargeStep ==
  ASSUME Drift = FALSE, TypeInv, OneSession, OneSale, [Next]_vars,
         NEW s \in Sessions, SessionMoves(s)
  PROVE  UNCHANGED policies /\ (Charged' = Charged \/ \E a \in Amounts : Charged = {} /\ Charged' = {a})
  <1> stripe \in [Sessions -> [amount : Amounts \cup {0}, state : SessionState]]
    BY DEF TypeInv, TypeOK
  <1>1. UNCHANGED policies
    BY DEF SessionMoves, CompleteSession, SettleSession, ExpireSession
  <1>2. stripe[s].state # "NONE" /\ stripe[s].amount \in Amounts
    BY DEF SessionMoves, CompleteSession, SettleSession, ExpireSession, TypeInv, SessionsSound
  <1>3. CASE Accepted(s) \/ ExpireSession(s)
    <2>1. \A x \in Sessions : (Accepted(x)' <=> Accepted(x)) /\ stripe'[x].amount = stripe[x].amount
      BY <1>3 DEF SessionMoves, CompleteSession, SettleSession, ExpireSession, Accepted
    <2>2. Charged' = Charged
      BY <2>1 DEF Charged
    <2> QED
      BY <1>1, <2>2
  <1>4. CASE ~Accepted(s) /\ ~ExpireSession(s)
    <2>1. CompleteSession(s)
      BY <1>4 DEF SessionMoves, SettleSession, Accepted
    <2>2. Started
      BY <1>2 DEF OneSale, InStore, Browsing
    <2>3. \A x \in Sessions : stripe[x].state # "NONE" => stripe[x].amount = quote.premium
      BY <2>2 DEF OneSale, InStore, Buying
    <2>4. \A x \in Sessions : stripe[x].state # "NONE" => x = s
      BY <1>2, <2>3 DEF OneSession, OneSessionPerAmount
    <2>5. \A x \in Sessions : ~Accepted(x)
      BY <1>4, <2>4 DEF Accepted
    <2>6. /\ \A x \in Sessions : Accepted(x)' => x = s
          /\ Accepted(s)' /\ stripe'[s].amount = stripe[s].amount
      BY <2>1, <2>5 DEF CompleteSession, Accepted
    <2>7. Charged = {}
      BY <2>5 DEF Charged
    <2>8. Charged' = {stripe[s].amount}
      BY <2>6 DEF Charged
    <2> QED
      BY <1>1, <1>2, <2>7, <2>8
  <1> QED
    BY <1>3, <1>4

\* What is accepted is left alone by every other step.
LEMMA ChargedStays ==
  ASSUME TypeInv,
         \/ UNCHANGED stripe
         \/ \E w \in Pages : CheckoutCreate(w)
  PROVE  Charged' = Charged
  <1> stripe \in [Sessions -> [amount : Amounts \cup {0}, state : SessionState]]
    BY DEF TypeInv, TypeOK
  <1>1. CASE UNCHANGED stripe
    BY <1>1 DEF Charged, Accepted
  <1>2. ASSUME NEW w \in Pages, CheckoutCreate(w) PROVE Charged' = Charged
    <2>1. \A x \in Sessions : /\ Accepted(x)' <=> Accepted(x)
                              /\ Accepted(x) => stripe'[x].amount = stripe[x].amount
      BY <1>2 DEF CheckoutCreate, Accepted
    <2> QED
      BY <2>1 DEF Charged
  <1> QED
    BY <1>1, <1>2

\* A policy is issued over an amount that has been charged.
LEMMA CoverStep ==
  ASSUME "SANDBOX" \notin Providers, Reopens = FALSE, TypeInv, Backing, OneSale, [Next]_vars,
         NEW w \in Threads, ConfirmIssue(w), policies = <<>>
  PROVE  \E a \in Amounts : a \in Charged /\ Premiums = <<>> /\ Premiums' = <<a>>
  <1>1. Confirming(w) /\ req[w].pc = "paying"
    BY DEF ConfirmIssue, NeedsPolicy, Confirming
  <1>2. req[w].amt \in Amounts /\ Backed(req[w].amt)
    BY <1>1 DEF Backing, TypeInv, RequestsSound, Confirming
  <1>3. req[w].amt = quote.premium
    BY <1>1 DEF OneSale, InSale
  <1>4. quote.premium \in Charged
    BY <1>2, <1>3 DEF Backed, Charged, Accepted
  <1>5. OneSale' /\ policies' = Append(<<>>, TheSale(quote'.party))
    BY IssueStep
  <1>6. policies' = <<TheSale(quote'.party)>>
    BY <1>5
  <1>7. Premiums' = <<quote.premium>>
    BY <1>6 DEF Premiums, TheSale
  <1>8. Premiums = <<>>
    BY DEF Premiums
  <1> QED
    BY <1>2, <1>3, <1>4, <1>7, <1>8

\* Only a lost commit forgets, and it forgets a charge.
LEMMA ForgottenStays ==
  ASSUME [Next]_vars, \A h \in Hooks : ~CommitLost(h)
  PROVE  Forgotten' = Forgotten
  <1>1. ASSUME NEW s \in Sessions PROVE Lost(s)' <=> Lost(s)
    <2>1. CASE UNCHANGED acked
      BY <2>1 DEF Lost
    <2>2. ASSUME NEW w \in Threads, Done(w)
          PROVE  Lost(s)' <=> Lost(s)
      BY <2>2 DEF Lost, Done
    <2>3. ASSUME NEW w \in Pages,
                 \/ Begin(w)
                 \/ \E t \in Trips : Calculate(w, t)
                 \/ \E p \in Plans : SelectPlan(w, p)
                 \/ SaveTravelers(w) \/ SaveEmergency(w)
                 \/ CheckoutRead(w) \/ CheckoutReuse(w) \/ CheckoutCreate(w)
                 \/ \E t \in Sessions : ResultPage(w, t) \/ ResultMismatch(w, t)
                 \/ \E a \in Amounts : ConfirmSandbox(w, a)
          PROVE  UNCHANGED acked
      BY <2>3 DEF Begin, Calculate, SelectPlan, SaveTravelers, SaveEmergency, CheckoutRead,
                  CheckoutReuse, CheckoutCreate, ResultPage, ResultMismatch, ConfirmSandbox
    <2>4. ASSUME NEW w \in Threads, Confirm(w) \/ Leave(w)
          PROVE  UNCHANGED acked \/ Done(w)
      BY <2>4 DEF Confirm, Leave, ConfirmRefused, ConfirmIssued, ConfirmIssue, ConfirmLookup,
                  ConfirmInsert, ConfirmFound, ConfirmFailed
    <2>5. ASSUME \/ \E h \in Hooks, t \in Sessions : Webhook(h, t)
                 \/ \E t \in Sessions :
                      CompleteSession(t) \/ SettleSession(t) \/ ExpireSession(t)
                 \/ ActivateCarrier \/ Lapse \/ UNCHANGED vars
          PROVE  UNCHANGED acked
      BY <2>5 DEF Webhook, CompleteSession, SettleSession, ExpireSession, ActivateCarrier, Lapse,
                  vars
    <2> QED
      BY <2>1, <2>2, <2>3, <2>4, <2>5 DEF Next
  <1> QED
    BY <1>1 DEF Forgotten

LEMMA ForgetStep ==
  ASSUME TypeInv, Backing, NEW h \in Hooks, CommitLost(h)
  PROVE  Charged # {} /\ Forgotten' = TRUE /\ UNCHANGED <<stripe, policies>>
  <1> h \in Threads
    BY DEF Threads
  <1>1. Confirming(h) /\ req[h].sess \in Sessions /\ req[h].amt \in Amounts
    BY LossSteps DEF TypeInv, RequestsSound, Confirming
  <1>2. Backed(req[h].amt)
    BY <1>1 DEF Backing
  <1>3. Charged # {}
    BY <1>2 DEF Backed, Charged, Accepted
  <1>4. UNCHANGED <<stripe, policies>>
    BY DEF CommitLost
  <1>5. Forgotten'
    <2>1. PICK s \in Sessions : s = req[h].sess
      BY <1>1
    <2>2. <<s, FALSE>> \in acked'
      BY <2>1 DEF CommitLost
    <2> QED
      BY <2>2 DEF Forgotten, Lost
  <1> QED
    BY <1>3, <1>4, <1>5

LEMMA SaleStep ==
  ASSUME "SANDBOX" \notin Providers, Drift = FALSE, Reopens = FALSE,
         TypeInv, Backing, OneSession, OneSale, [Next]_vars
  PROVE  [Sale!Next]_(Sale!sale)
  <1>0. CASE \E h \in Hooks : CommitLost(h)
    <2>1. Charged # {} /\ Forgotten' = TRUE /\ UNCHANGED <<stripe, policies>>
      BY <1>0, ForgetStep
    <2>2. Charged' = Charged /\ Premiums' = Premiums
      BY <2>1, ChargedStays DEF Premiums
    <2> QED
      BY <2>1, <2>2 DEF Sale!Next, Sale!Forget, Charged, Premiums, Forgotten
  <1> SUFFICES ASSUME ~\E h \in Hooks : CommitLost(h)
               PROVE  [Sale!Next]_(Sale!sale)
    BY <1>0
  <1>a. Forgotten' = Forgotten
    BY ForgottenStays
  <1>1. ASSUME Charged' = Charged, Premiums' = Premiums
        PROVE  UNCHANGED Sale!sale
    BY <1>a, <1>1 DEF Sale!sale, Charged, Premiums, Forgotten
  <1>2. UNCHANGED policies => Premiums' = Premiums
    BY DEF Premiums
  <1>3. CASE \E s \in Sessions : SessionMoves(s)
    <2>1. UNCHANGED policies
          /\ (Charged' = Charged \/ \E a \in Amounts : Charged = {} /\ Charged' = {a})
      BY <1>3, ChargeStep
    <2>2. ASSUME NEW a \in Amounts, Charged = {}, Charged' = {a}
          PROVE  Sale!Next
      BY <1>a, <1>2, <2>1, <2>2 DEF Sale!Next, Sale!Charge, Charged, Premiums, Forgotten
    <2> QED
      BY <1>1, <1>2, <2>1, <2>2
  <1>4. ASSUME NEW w \in Threads, ConfirmIssue(w), policies = <<>>
        PROVE  Sale!Next
    <2>1. PICK a \in Amounts : a \in Charged /\ Premiums = <<>> /\ Premiums' = <<a>>
      BY <1>4, CoverStep
    <2>2. UNCHANGED stripe
      BY <1>4 DEF ConfirmIssue
    <2>3. Charged' = Charged
      BY <2>2, ChargedStays
    <2> QED
      BY <1>a, <2>1, <2>3 DEF Sale!Next, Sale!Cover, Charged, Premiums, Forgotten
  <1>5. ASSUME NEW w \in Threads, ConfirmIssue(w), policies # <<>>
        PROVE  UNCHANGED <<policies, stripe>>
    <2>1. UNCHANGED stripe
      BY <1>5 DEF ConfirmIssue
    <2> QED
      BY <2>1, <1>5, IssueStep
  <1>6. ASSUME NEW w \in Threads, ConfirmIssued(w)
        PROVE  UNCHANGED <<policies, stripe>>
    BY <1>6 DEF ConfirmIssued
  <1>7. ASSUME NEW w \in Pages,
               \/ \E t \in Trips : Calculate(w, t)
               \/ \E p \in Plans : SelectPlan(w, p)
               \/ SaveTravelers(w) \/ CheckoutReuse(w)
               \/ \E s \in Sessions : ResultMismatch(w, s)
        PROVE  UNCHANGED <<policies, stripe>>
    BY <1>7 DEF Calculate, SelectPlan, SaveTravelers, CheckoutReuse, ResultMismatch
  <1>8. ASSUME NEW w \in Pages, CheckoutCreate(w)
        PROVE  UNCHANGED policies
    BY <1>8 DEF CheckoutCreate
  <1>9. UNCHANGED <<policies, stripe>> => UNCHANGED Sale!sale
    BY <1>1, <1>2, ChargedStays
  <1>10. (\E w \in Pages : CheckoutCreate(w)) => UNCHANGED Sale!sale
    BY <1>1, <1>2, <1>8, ChargedStays
  <1> QED
    BY <1>3, <1>4, <1>5, <1>6, <1>7, <1>9, <1>10, SaleKinds

\* The public channel implements PaidSale: from an empty sale, each step of
\* pages, webhooks and provider charges the buyer for the first time, issues
\* the one policy over what was charged, forgets a charge by a commit lost after
\* its answer, or changes nothing of these.  (That no charge stays without its
\* policy, the rest of PaidSale's Spec, is liveness.)
THEOREM SaleSteps ==
  ASSUME Reopens = FALSE, Outage = FALSE, Drift = FALSE, "SANDBOX" \notin Providers
  PROVE  Spec => Sale!Init /\ [][Sale!Next]_(Sale!sale)
  <1>1. TypeInv /\ Backing /\ OneSession /\ OneSale /\ [Next]_vars => [Sale!Next]_(Sale!sale)
    BY SaleStep
  <1>2. TypeInv /\ OneSession /\ [Next]_vars => OneSession'
    BY OneSessionStep
  <1> QED
    BY <1>1, <1>2, InitSale, InitOneSession, OneSaleHolds, BackingHolds, InvariantTypes, PTL
    DEF Spec

\* All that PaidSale asks beyond those steps is that a charge is followed by a
\* policy: given that, the public channel is a paid sale.
THEOREM SaleImplemented ==
  ASSUME Reopens = FALSE, Outage = FALSE, Drift = FALSE, "SANDBOX" \notin Providers
  PROVE  Spec /\ (Charged # {} ~> Premiums # <<>> \/ Forgotten) => SaleSpec
  BY SaleSteps, PTL DEF SaleSpec, Sale!Spec, Charged, Premiums, Forgotten

-----------------------------------------------------------------------------
(* What is paid can be issued: the safety half of PaidIsEventuallyIssued.    *)
(* As long as nothing is issued, the row a delivery of a completed session   *)
(* would load is that of a quote with an attempt at the amount charged, and  *)
(* paid once that attempt has succeeded; only the carrier can be missing.    *)
(* It takes a carrier from the start (OneSale), or a customer who asks for   *)
(* one page at a time (Lone): with two, a checkout that was overtaken by a   *)
(* payment not yet issued sets the quote back to unpaid.                     *)

OnePage == \A v, w \in Pages : v = w

\* Whoever has paid and has no policy yet has an attempt at the amount charged
\* and a quote of that amount, without policy and with its opportunity, that
\* counts as paid once the payment is recorded.
Payable ==
  policies = <<>> =>
    \A s \in Sessions : Accepted(s) =>
      LET a == stripe[s].amount IN
      /\ attempt[a] # "NONE"
      /\ attempt[a] = "SUCCEEDED" => IsPaid(quote)
      /\ quote.policy = 0 /\ quote.premium = a /\ quote.opp # NoOpp

LoneStore ==
  /\ quote.policy = 0
  /\ IF Started
       THEN Buying /\ \A a \in Amounts : attempt[a] = "SUCCEEDED" => IsPaid(quote)
       ELSE Browsing

\* The one page has loaded what is stored.
LonePage(w) ==
  /\ req[w].pc # "idle" => req[w].q = quote
  /\ req[w].pc \in {"checkout", "paying"} =>
       /\ req[w].amt = quote.premium /\ req[w].att = attempt[req[w].amt]
       /\ quote.premium # 0 /\ quote.opp # NoOpp

Lone ==
  policies = <<>> =>
    /\ LoneStore
    /\ \A w \in Pages : LonePage(w)
    /\ \A h \in Hooks : req[h].q.policy = 0 /\ ~req[h].keep

LEMMA InitLone == Init => Lone
  <1> SUFFICES ASSUME Init PROVE Lone
    OBVIOUS
  <1>1. NewQuote.policy = 0 /\ NewQuote.status = "STARTED"
    BY DEF NewQuote
  <1>2. Idle.q = NewQuote /\ Idle.pc = "idle" /\ ~Idle.keep
    BY DEF Idle
  <1>3. Hooks \subseteq Threads /\ Pages \subseteq Threads
    BY DEF Threads
  <1>4. LoneStore
    BY <1>1 DEF Init, LoneStore, Started, Browsing
  <1>5. \A w \in Pages : LonePage(w)
    BY <1>2, <1>3 DEF Init, LonePage
  <1> QED
    BY <1>1, <1>2, <1>3, <1>4, <1>5 DEF Init, Lone

\* The UPDATE of a request whose row is the stored one writes that row anew.
LEMMA MergeFresh ==
  ASSUME NEW q, NEW new
  PROVE  LET m == Merge(q, q, new) IN
         /\ m.status = new.status /\ m.premium = new.premium /\ m.pay = new.pay
         /\ m.opp = new.opp /\ m.policy = new.policy
  BY MergeColumns

\* A step after which there is still no policy is none that issues one.
LEMMA NothingIssued ==
  ASSUME TypeInv, [Next]_vars, policies' = <<>>
  PROVE  /\ policies = <<>>
         /\ \A w \in Threads : ~ConfirmIssue(w) /\ ~ConfirmInsert(w) /\ ~ConfirmFound(w)
  <1> policies \in Seq(PolicyRow) /\ req \in [Threads -> Request] /\ TypeOK
    BY DEF TypeInv, TypeOK, PolicyRow
  <1>1. ASSUME NEW p \in PolicyRow, policies' = Append(policies, p)
        PROVE  FALSE
    <2>1. Len(policies') = Len(policies) + 1 /\ Len(policies) \in Nat
      BY <1>1, AppendProperties, LenProperties
    <2>2. Len(policies') = 0
      OBVIOUS
    <2> QED
      BY <2>1, <2>2
  <1>2. ASSUME NEW w \in Threads, ConfirmInsert(w) PROVE FALSE
    <2>1. PolicyOf(req[w].q, req[w].q.party) \in PolicyRow
      BY PolicyType DEF Request, QuoteRow
    <2> QED
      BY <1>1, <1>2, <2>1 DEF ConfirmInsert
  <1>3. policies = <<>>
    <2>1. ASSUME NEW w \in Threads, Confirm(w) PROVE policies = <<>>
      <3>1. UNCHANGED policies \/ ConfirmIssue(w) \/ ConfirmInsert(w)
        BY <2>1 DEF Confirm, ConfirmRefused, ConfirmIssued, ConfirmLookup, ConfirmFound,
                    ConfirmFailed
      <3>2. ASSUME ConfirmIssue(w)
            PROVE  UNCHANGED policies
        <4>1. PaidQuote(w) \in QuoteRow /\ req[w].q \in QuoteRow
          BY PaidType DEF Request
        <4>2. PaidQuote(w).party = NoOpp => PaidQuote(w).opp # NoOpp
          BY <3>2, PaidKeeps DEF ConfirmIssue, NeedsPolicy
        <4>3. PICK c \in Clients(PaidQuote(w)) :
                \/ policies' = policies
                \/ policies' = Append(policies, PolicyOf(PaidQuote(w), c))
          BY <3>2 DEF ConfirmIssue
        <4>4. c \in Opps
          BY <4>1, <4>2, ClientType
        <4>5. PolicyOf(PaidQuote(w), c) \in PolicyRow
          BY <4>1, <4>4, PolicyType
        <4> QED
          BY <1>1, <4>3, <4>5
      <3> QED
        BY <1>2, <3>1, <3>2
    <2> QED
      BY <2>1, PoliciesMove
  <1>4. \A w \in Threads : SameNumber(PaidQuote(w)) = {}
    BY <1>3 DEF SameNumber
  <1>5. ASSUME NEW w \in Threads, ConfirmIssue(w) PROVE FALSE
    <2>1. PaidQuote(w) \in QuoteRow /\ req[w].q \in QuoteRow
      BY PaidType DEF Request
    <2>2. PaidQuote(w).party = NoOpp => PaidQuote(w).opp # NoOpp
      BY <1>5, PaidKeeps DEF ConfirmIssue, NeedsPolicy
    <2>3. PICK c \in Clients(PaidQuote(w)) :
            policies' = Append(policies, PolicyOf(PaidQuote(w), c))
      BY <1>4, <1>5 DEF ConfirmIssue
    <2>4. c \in Opps
      BY <2>1, <2>2, ClientType
    <2>5. PolicyOf(PaidQuote(w), c) \in PolicyRow
      BY <2>1, <2>4, PolicyType
    <2> QED
      BY <1>1, <2>3, <2>5
  <1>6. \A w \in Threads : ~ConfirmFound(w)
    BY <1>4 DEF ConfirmFound
  <1> QED
    BY <1>2, <1>3, <1>5, <1>6

\* The steps that leave the store alone, and those that do not.
LEMMA LoneKinds ==
  ASSUME TypeInv, Lone, [Next]_vars, policies' = <<>>
  PROVE  \/ UNCHANGED <<quote, attempt, stripe, policies>>
         \/ \E w \in Pages :
              /\ req' = [req EXCEPT ![w] = Idle] /\ req[w].pc # "idle"
              /\ \/ \E t \in Trips : Calculate(w, t)
                 \/ \E p \in Plans : SelectPlan(w, p)
                 \/ SaveTravelers(w)
                 \/ CheckoutReuse(w) \/ CheckoutCreate(w)
                 \/ \E s \in Sessions : ResultMismatch(w, s)
                 \/ ConfirmFailed(w)
         \/ \E s \in Sessions : SessionMoves(s)
  <1> DEFINE Same == UNCHANGED <<quote, attempt, stripe, policies>>
             Writes(w) == \/ \E t \in Trips : Calculate(w, t)
                          \/ \E p \in Plans : SelectPlan(w, p)
                          \/ SaveTravelers(w)
                          \/ CheckoutReuse(w) \/ CheckoutCreate(w)
                          \/ \E s \in Sessions : ResultMismatch(w, s)
                          \/ ConfirmFailed(w)
  <1>1. ASSUME UNCHANGED vars
        PROVE  Same
    BY <1>1 DEF vars
  <1>2. ASSUME NEW w \in Pages,
               \/ Begin(w) \/ SaveEmergency(w) \/ CheckoutRead(w)
               \/ \E s \in Sessions : ResultPage(w, s)
               \/ \E a \in Amounts : ConfirmSandbox(w, a)
        PROVE  Same
    BY <1>2 DEF Begin, SaveEmergency, CheckoutRead, ResultPage, ConfirmSandbox
  <1>3. ASSUME NEW w \in Threads, Leave(w) \/ ConfirmRefused(w) \/ ConfirmLookup(w)
        PROVE  Same
    BY <1>3 DEF Leave, ConfirmRefused, ConfirmLookup
  <1>4. ASSUME NEW h \in Hooks, CommitLost(h) \/ \E s \in Sessions : Webhook(h, s)
        PROVE  Same
    BY <1>4 DEF CommitLost, Webhook
  <1>5. ASSUME ActivateCarrier \/ Lapse
        PROVE  Same
    BY <1>5 DEF ActivateCarrier, Lapse
  <1>6. ASSUME NEW w \in Pages, Writes(w)
        PROVE  req' = [req EXCEPT ![w] = Idle] /\ req[w].pc # "idle"
    BY <1>6 DEF Calculate, SelectPlan, SaveTravelers, CheckoutReuse, CheckoutCreate,
                ResultMismatch, ConfirmFailed, NeedsPolicy
  <1>7. ASSUME NEW h \in Hooks, ConfirmFailed(h)
        PROVE  Same
    BY <1>7, NothingIssued DEF Lone, ConfirmFailed
  <1>8. ASSUME NEW w \in Threads, ConfirmIssued(w)
        PROVE  FALSE
    <2>1. PaidQuote(w).policy = req[w].q.policy
      BY PaidKeeps DEF TypeInv
    <2>2. CASE w \in Hooks
      BY <1>8, <2>1, <2>2, NothingIssued DEF Lone, ConfirmIssued
    <2>3. CASE w \in Pages
      BY <1>8, <2>1, <2>3, NothingIssued DEF Lone, LonePage, LoneStore, ConfirmIssued
    <2> QED
      BY <2>2, <2>3 DEF Threads
  <1> HIDE DEF Same
  <1>9. ASSUME NEW w \in Threads, Confirm(w)
        PROVE  Same \/ (w \in Pages /\ ConfirmFailed(w))
    <2>1. ~ConfirmIssue(w) /\ ~ConfirmInsert(w) /\ ~ConfirmFound(w)
      BY NothingIssued
    <2>2. ConfirmRefused(w) \/ ConfirmLookup(w) => Same
      BY <1>3
    <2>3. CASE ConfirmFailed(w)
      <3>1. w \in Hooks \/ w \in Pages
        BY DEF Threads
      <3> QED
        BY <1>7, <2>3, <3>1
    <2> QED
      BY <1>8, <1>9, <2>1, <2>2, <2>3 DEF Confirm
  <1>10. \/ Same
         \/ \E w \in Pages : Writes(w)
         \/ \E s \in Sessions : SessionMoves(s)
    BY <1>1, <1>2, <1>3, <1>4, <1>5, <1>9 DEF Next, SessionMoves
  <1> HIDE DEF Writes
  <1>11. \/ Same
         \/ \E w \in Pages :
              req' = [req EXCEPT ![w] = Idle] /\ req[w].pc # "idle" /\ Writes(w)
         \/ \E s \in Sessions : SessionMoves(s)
    BY <1>6, <1>10
  <1> QED
    BY <1>11 DEF Same, Writes

\* What the webhook has loaded has no policy, and its errors roll back.
LEMMA LoneDelivery ==
  ASSUME TypeInv, Lone, [Next]_vars, policies' = <<>>, NEW h \in Hooks
  PROVE  req'[h].q.policy = 0 /\ ~req'[h].keep
  <1> h \in Threads /\ h \notin Pages /\ req \in [Threads -> Request]
    BY ConstantsAssumption DEF Threads, TypeInv, TypeOK
  <1>1. quote.policy = 0 /\ req[h].q.policy = 0 /\ ~req[h].keep
    BY NothingIssued DEF Lone, LoneStore
  <1>2. Idle.q.policy = 0 /\ ~Idle.keep
    BY DEF Idle, NewQuote
  <1>3. ASSUME NEW s \in Sessions, Webhook(h, s)
        PROVE  req'[h].q = quote /\ ~req'[h].keep
    BY <1>3, <1>2, IdleType DEF Webhook, Request
  <1>4. ASSUME ConfirmLookup(h)
        PROVE  req'[h].q = req[h].q /\ req'[h].keep = req[h].keep
    BY <1>4 DEF ConfirmLookup, Request
  <1> QED
    BY <1>1, <1>2, <1>3, <1>4, RequestMoves

\* A page that only reads learns what is stored.
LEMMA LoneReads ==
  ASSUME TypeInv, Lone, [Next]_vars, policies = <<>>, NEW w \in Pages,
         UNCHANGED <<quote, attempt, stripe, policies>>
  PROVE  LonePage(w)'
  <1> /\ req \in [Threads -> Request] /\ quote \in QuoteRow /\ LonePage(w) /\ LoneStore
      /\ attempt \in [Amounts -> AttemptStatus] /\ SessionsSound
      /\ w \in Threads /\ w \notin Hooks
    BY ConstantsAssumption DEF TypeInv, TypeOK, Lone, Threads
  <1>1. CASE req'[w] = req[w]
    BY <1>1 DEF LonePage
  <1>2. CASE req'[w] = Idle
    BY <1>2 DEF LonePage, Idle
  <1>3. ASSUME Begin(w) PROVE LonePage(w)'
    <2>1. req'[w].pc = "loaded" /\ req'[w].q = quote
      BY <1>3, IdleType DEF Begin, Request
    <2> QED
      BY <2>1 DEF LonePage
  <1>4. ASSUME CheckoutRead(w) PROVE LonePage(w)'
    <2>1. /\ req'[w].pc = "checkout" /\ req'[w].q = req[w].q
          /\ req'[w].amt = req[w].q.premium /\ req'[w].att = attempt[req[w].q.premium]
          /\ req[w].pc = "loaded" /\ req[w].q.premium # 0
          /\ req[w].q.status \in {"CUSTOMER_DATA", "CHECKOUT_PENDING", "PAID"}
      BY <1>4 DEF CheckoutRead, Request
    <2>2. req[w].q = quote
      BY <2>1 DEF LonePage
    <2>3. quote.opp # NoOpp
      BY <2>1, <2>2 DEF LoneStore, Buying, Browsing
    <2> QED
      BY <2>1, <2>2, <2>3 DEF LonePage
  <1>5. ASSUME NEW a \in Amounts, attempt[a] # "NONE", req'[w].pc = "paying",
               req'[w].amt = a, req'[w].att = attempt[a],
               req[w].pc # "idle" /\ req'[w].q = req[w].q
        PROVE  LonePage(w)'
    <2>1. Buying /\ a = quote.premium
      BY <1>5 DEF Started, LoneStore, Buying
    <2> QED
      BY <1>5, <2>1 DEF LonePage, Buying
  <1>6. ASSUME NEW s \in Sessions, ResultPage(w, s) PROVE LonePage(w)'
    <2>1. /\ stripe[s].amount \in Amounts /\ attempt[stripe[s].amount] # "NONE"
          /\ req'[w].pc = "paying" /\ req'[w].amt = stripe[s].amount
          /\ req'[w].att = attempt[stripe[s].amount]
          /\ req[w].pc # "idle" /\ req'[w].q = req[w].q
      BY <1>6 DEF ResultPage, Accepted, SessionsSound, Request
    <2>2. PICK a \in Amounts : a = stripe[s].amount
      BY <2>1
    <2> QED
      BY <1>5, <2>1, <2>2
  <1>7. ASSUME NEW a \in Amounts, ConfirmSandbox(w, a) PROVE LonePage(w)'
    <2>1. /\ attempt[a] # "NONE" /\ req'[w].pc = "paying" /\ req'[w].amt = a
          /\ req'[w].att = attempt[a] /\ req[w].pc # "idle" /\ req'[w].q = req[w].q
      BY <1>7 DEF ConfirmSandbox, Request
    <2> QED
      BY <1>5, <2>1
  <1>8. ASSUME ConfirmLookup(w) PROVE LonePage(w)'
    <2>1. req'[w].q = req[w].q /\ req'[w].pc = "issuing" /\ req[w].pc = "paying"
      BY <1>8 DEF ConfirmLookup, NeedsPolicy, Request
    <2> QED
      BY <2>1 DEF LonePage
  <1> QED
    BY <1>1, <1>2, <1>3, <1>4, <1>6, <1>7, <1>8, RequestMoves

\* The wizard before the first attempt.
LEMMA LoneBrowses ==
  ASSUME Reopens = FALSE, TypeInv, LoneStore, policies = <<>>, NEW w \in Pages,
         LonePage(w), req[w].pc # "idle", ~Started, policies' = <<>>,
         \/ \E t \in Trips : Calculate(w, t)
         \/ \E p \in Plans : SelectPlan(w, p)
         \/ SaveTravelers(w)
  PROVE  LoneStore'
  <1> /\ w \in Threads /\ req[w].q \in QuoteRow /\ quote \in QuoteRow
    BY DEF Threads, TypeInv, TypeOK, Request
  <1>1. Browsing /\ quote.policy = 0 /\ req[w].q = quote
    BY DEF LoneStore, LonePage
  <1>2. ~Started' /\ UNCHANGED stripe
    BY DEF Calculate, SelectPlan, SaveTravelers, Started
  <1>3. ASSUME quote'.policy = quote.policy,
               quote'.status \in {"QUOTED", "PLAN_SELECTED", "CUSTOMER_DATA"},
               quote'.status = "CUSTOMER_DATA" => quote'.opp # NoOpp
        PROVE  LoneStore'
    BY <1>1, <1>2, <1>3 DEF LoneStore, Browsing
  <1>4. ASSUME NEW t \in Trips, Calculate(w, t) PROVE LoneStore'
    <2> DEFINE q == req[w].q
               u == [q EXCEPT !.trip = t, !.plan = NoPlan, !.premium = 0,
                              !.status = "STARTED", !.quoted = NoTrip]
               c == [u EXCEPT !.quoted = t, !.status = "QUOTED"]
    <2>1. quote' = Merge(Merge(quote, q, u), u, c)
      BY <1>4 DEF Calculate
    <2>2. u.policy = q.policy /\ u.status = "STARTED"
          /\ c.policy = q.policy /\ c.status = "QUOTED"
      BY DEF QuoteRow
    <2> HIDE DEF q, u, c
    <2> DEFINE m == Merge(quote, q, u)
    <2>3. m.policy = quote.policy
      BY <2>2, MergeColumns
    <2> HIDE DEF m
    <2>4. quote' = Merge(m, u, c)
      BY <2>1 DEF m
    <2>5. quote'.policy = m.policy /\ quote'.status = "QUOTED"
      BY <2>2, <2>4, MergeColumns
    <2> QED
      BY <1>3, <2>3, <2>5
  <1>5. ASSUME NEW p \in Plans, SelectPlan(w, p) PROVE LoneStore'
    <2> DEFINE n == [req[w].q EXCEPT !.plan = p,
                       !.premium = Price[req[w].q.quoted][p], !.status = "PLAN_SELECTED"]
    <2>1. n.policy = req[w].q.policy /\ n.status = "PLAN_SELECTED"
      BY DEF QuoteRow
    <2>2. quote' = Merge(quote, req[w].q, n)
      BY <1>5 DEF SelectPlan
    <2> HIDE DEF n
    <2>3. quote'.policy = quote.policy /\ quote'.status = "PLAN_SELECTED"
      BY <1>1, <2>1, <2>2, MergeFresh
    <2> QED
      BY <1>3, <2>3
  <1>6. ASSUME SaveTravelers(w) PROVE LoneStore'
    <2>1. PICK o \in Opps :
            quote' = Merge(quote, req[w].q,
                           [req[w].q EXCEPT !.status = "CUSTOMER_DATA", !.opp = o])
      BY <1>6 DEF SaveTravelers
    <2> DEFINE n == [req[w].q EXCEPT !.status = "CUSTOMER_DATA", !.opp = o]
    <2>2. n.policy = req[w].q.policy /\ n.status = "CUSTOMER_DATA" /\ n.opp = o
      BY DEF QuoteRow
    <2>3. quote' = Merge(quote, req[w].q, n)
      BY <2>1
    <2> HIDE DEF n
    <2>4. quote'.policy = quote.policy /\ quote'.status = "CUSTOMER_DATA" /\ quote'.opp = o
      BY <1>1, <2>2, <2>3, MergeFresh
    <2> QED
      BY <1>3, <2>4, ConstantsAssumption
  <1> QED
    BY <1>4, <1>5, <1>6

\* The writes of checkout and of the result page.  Those that unset the
\* payment come from a request that has seen the attempt not succeeded.
LEMMA LoneBuys ==
  ASSUME TypeInv, LoneStore, policies = <<>>, NEW w \in Pages,
         LonePage(w), req[w].pc # "idle", [Next]_vars, policies' = <<>>,
         \/ Started /\ SaveTravelers(w)
         \/ CheckoutReuse(w) \/ CheckoutCreate(w)
         \/ \E s \in Sessions : ResultMismatch(w, s)
         \/ ConfirmFailed(w)
  PROVE  LoneStore'
  <1> /\ w \in Threads /\ req[w].q \in QuoteRow /\ quote \in QuoteRow
      /\ attempt \in [Amounts -> AttemptStatus] /\ SessionsSound /\ TypeOK
      /\ stripe \in [Sessions -> [amount : Amounts \cup {0}, state : SessionState]]
      /\ req[w].pc \in {"checkout", "paying"} => req[w].amt \in Amounts
    BY DEF Threads, TypeInv, TypeOK, Request, RequestsSound
  <1>1. quote.policy = 0 /\ req[w].q = quote
    BY DEF LoneStore, LonePage
  <1>2. ASSUME NEW a \in Amounts, a = quote.premium,
               quote'.policy = quote.policy, quote'.premium = quote.premium,
               quote'.opp = quote.opp, quote.premium # 0, quote.opp # NoOpp,
               \A b \in Amounts \ {a} : attempt'[b] = attempt[b],
               attempt'[a] # "NONE", attempt'[a] = "SUCCEEDED" => IsPaid(quote'),
               \A s \in Sessions : stripe'[s] = stripe[s] \/ stripe'[s].amount = a
        PROVE  LoneStore'
    <2>1. \A b \in Amounts \ {a} : attempt[b] = "NONE"
      BY <1>2 DEF LoneStore, Buying, Started
    <2>2. \A s \in Sessions : stripe[s].state # "NONE" => stripe[s].amount = a
      BY <1>2 DEF LoneStore, Buying, Browsing
    <2>3. Started'
      BY <1>2 DEF Started
    <2>4. Buying'
      BY <1>2, <2>1, <2>2 DEF Buying
    <2>5. \A b \in Amounts : attempt'[b] = "SUCCEEDED" => IsPaid(quote')
      BY <1>2, <2>1
    <2> QED
      BY <1>1, <1>2, <2>3, <2>4, <2>5 DEF LoneStore
  <1>3. ASSUME Started, SaveTravelers(w) PROVE LoneStore'
    <2>1. Buying /\ \A a \in Amounts : attempt[a] = "SUCCEEDED" => IsPaid(quote)
      BY <1>3 DEF LoneStore
    <2>2. /\ UNCHANGED <<attempt, stripe>>
          /\ quote.status \in {"PLAN_SELECTED", "CUSTOMER_DATA", "CHECKOUT_PENDING"}
          /\ quote' = Merge(quote, quote,
                            [quote EXCEPT !.status = "CUSTOMER_DATA", !.opp = quote.opp])
      BY <1>1, <1>3, <2>1 DEF SaveTravelers, Buying
    <2> DEFINE n == [quote EXCEPT !.status = "CUSTOMER_DATA", !.opp = quote.opp]
    <2>3. /\ n.policy = quote.policy /\ n.premium = quote.premium /\ n.opp = quote.opp
          /\ n.pay = quote.pay
      BY DEF QuoteRow
    <2>4. quote' = Merge(quote, quote, n)
      BY <2>2
    <2> HIDE DEF n
    <2>5. /\ quote'.policy = quote.policy /\ quote'.premium = quote.premium
          /\ quote'.opp = quote.opp /\ quote'.pay = quote.pay
      BY <2>3, <2>4, MergeFresh
    <2>6. IsPaid(quote) => IsPaid(quote')
      BY <2>2, <2>5 DEF IsPaid
    <2>7. Started' /\ Buying'
      BY <1>3, <2>1, <2>2, <2>5 DEF Started, Buying
    <2> QED
      BY <1>1, <2>1, <2>2, <2>5, <2>6, <2>7 DEF LoneStore
  <1>4. ASSUME CheckoutReuse(w) \/ CheckoutCreate(w) PROVE LoneStore'
    <2> DEFINE a == req[w].amt
               n == [quote EXCEPT !.status = "CHECKOUT_PENDING", !.pay = "PENDING"]
    <2>1. /\ quote' = Merge(quote, quote, n)
          /\ req[w].pc = "checkout"
      BY <1>1, <1>4 DEF CheckoutReuse, CheckoutCreate, AwaitPayment
    <2>2. /\ a \in Amounts /\ a = quote.premium /\ req[w].att = attempt[a]
          /\ quote.premium # 0 /\ quote.opp # NoOpp
      BY <2>1 DEF LonePage
    <2>3. n.policy = quote.policy /\ n.premium = quote.premium /\ n.opp = quote.opp
      BY DEF QuoteRow
    <2>4. \/ attempt[a] = "REDIRECTED" /\ UNCHANGED <<attempt, stripe>>
          \/ /\ attempt' = [attempt EXCEPT ![a] = "REDIRECTED"]
             /\ \/ UNCHANGED stripe
                \/ \E s \in Sessions :
                     stripe' = [stripe EXCEPT ![s] = [amount |-> a, state |-> "open"]]
      BY <1>4, <2>2 DEF CheckoutReuse, CheckoutCreate
    <2> HIDE DEF n, a
    <2>5. /\ quote'.policy = quote.policy /\ quote'.premium = quote.premium
          /\ quote'.opp = quote.opp
      BY <2>1, <2>3, MergeFresh
    <2>6. attempt'[a] = "REDIRECTED" /\ \A b \in Amounts \ {a} : attempt'[b] = attempt[b]
      BY <2>2, <2>4
    <2>7. \A s \in Sessions : stripe'[s] = stripe[s] \/ stripe'[s].amount = a
      BY <2>4
    <2> QED
      BY <1>2, <2>2, <2>5, <2>6, <2>7
  <1>5. ASSUME NEW s \in Sessions, ResultMismatch(w, s) PROVE LoneStore'
    <2>1. PICK a \in Amounts : a = stripe[s].amount
      BY <1>5 DEF ResultMismatch, Accepted, SessionsSound
    <2>2. /\ attempt[a] # "NONE" /\ attempt' = [attempt EXCEPT ![a] = "FAILED"]
          /\ UNCHANGED stripe
          /\ quote' = Merge(quote, quote, [quote EXCEPT !.pay = "FAILED"])
      BY <1>1, <1>5, <2>1 DEF ResultMismatch
    <2>3. Buying /\ a = quote.premium
      BY <2>2 DEF Started, LoneStore, Buying
    <2> DEFINE n == [quote EXCEPT !.pay = "FAILED"]
    <2>4. n.policy = quote.policy /\ n.premium = quote.premium /\ n.opp = quote.opp
      BY DEF QuoteRow
    <2>5. quote' = Merge(quote, quote, n)
      BY <2>2
    <2> HIDE DEF n
    <2>6. /\ quote'.policy = quote.policy /\ quote'.premium = quote.premium
          /\ quote'.opp = quote.opp
      BY <2>4, <2>5, MergeFresh
    <2>7. attempt'[a] = "FAILED" /\ \A b \in Amounts \ {a} : attempt'[b] = attempt[b]
      BY <2>2
    <2> QED
      BY <1>2, <2>2, <2>3, <2>6, <2>7 DEF Buying
  <1>6. ASSUME ConfirmFailed(w) PROVE LoneStore'
    <2> DEFINE a == req[w].amt
    <2>1. /\ a \in Amounts /\ a = quote.premium /\ req[w].att = attempt[a]
          /\ quote.premium # 0 /\ quote.opp # NoOpp /\ req[w].pc = "paying"
          /\ IsPaid(PaidQuote(w)) /\ UNCHANGED stripe
      BY <1>6 DEF ConfirmFailed, NeedsPolicy, LonePage
    <2>2. CASE ~req[w].keep
      BY <1>1, <1>6, <2>1, <2>2 DEF ConfirmFailed, LoneStore, Started, Buying, Browsing
    <2>3. CASE req[w].keep
      <3>1. PICK c \in Clients(PaidQuote(w)) :
              quote' = Merge(quote, quote, [PaidQuote(w) EXCEPT !.party = c])
        BY <1>1, <1>6, <2>3 DEF ConfirmFailed
      <3>2. attempt' = IF First(w) THEN [attempt EXCEPT ![a] = "SUCCEEDED"] ELSE attempt
        BY <1>6, <2>3 DEF ConfirmFailed, RecordPayment
      <3>3. attempt'[a] = "SUCCEEDED" /\ \A b \in Amounts \ {a} : attempt'[b] = attempt[b]
        BY <2>1, <3>2 DEF First
      <3> DEFINE n == [PaidQuote(w) EXCEPT !.party = c]
      <3>4. PaidQuote(w) \in QuoteRow /\ PaidQuote(w).premium = quote.premium
        BY <1>1, PaidType DEF PaidQuote, QuoteRow
      <3>5. /\ n.policy = quote.policy /\ n.premium = quote.premium /\ n.opp = quote.opp
            /\ n.status = PaidQuote(w).status /\ n.pay = PaidQuote(w).pay
        BY <1>1, <3>4, PaidKeeps DEF QuoteRow
      <3>6. quote' = Merge(quote, quote, n)
        BY <3>1
      <3> HIDE DEF n, a
      <3>7. /\ quote'.policy = quote.policy /\ quote'.premium = quote.premium
            /\ quote'.opp = quote.opp
            /\ quote'.status = PaidQuote(w).status /\ quote'.pay = PaidQuote(w).pay
        BY <3>5, <3>6, MergeFresh
      <3>8. IsPaid(quote')
        BY <2>1, <3>7 DEF IsPaid
      <3> QED
        BY <1>2, <2>1, <3>3, <3>7, <3>8
    <2> QED
      BY <2>2, <2>3
  <1> QED
    BY <1>3, <1>4, <1>5, <1>6

LEMMA LoneStep ==
  ASSUME Reopens = FALSE, OnePage, TypeInv, Lone, [Next]_vars
  PROVE  Lone'
  <1> SUFFICES ASSUME policies' = <<>>
               PROVE  LoneStore' /\ \A w \in Pages : LonePage(w)'
    BY LoneDelivery DEF Lone
  <1>1. policies = <<>> /\ LoneStore /\ \A w \in Pages : LonePage(w)
    BY NothingIssued DEF Lone
  <1>2. CASE UNCHANGED <<quote, attempt, stripe, policies>>
    <2>1. LoneStore'
      BY <1>1, <1>2 DEF LoneStore, Started, Buying, Browsing, IsPaid
    <2> QED
      BY <1>1, <1>2, <2>1, LoneReads
  <1>3. ASSUME NEW w \in Pages, req' = [req EXCEPT ![w] = Idle], req[w].pc # "idle",
               \/ \E t \in Trips : Calculate(w, t)
               \/ \E p \in Plans : SelectPlan(w, p)
               \/ SaveTravelers(w)
               \/ CheckoutReuse(w) \/ CheckoutCreate(w)
               \/ \E s \in Sessions : ResultMismatch(w, s)
               \/ ConfirmFailed(w)
        PROVE  LoneStore' /\ \A v \in Pages : LonePage(v)'
    <2>1. ASSUME NEW v \in Pages PROVE LonePage(v)'
      <3>1. v = w /\ v \in Threads /\ req \in [Threads -> Request]
        BY DEF OnePage, Threads, TypeInv, TypeOK
      <3>2. req'[v] = Idle
        BY <1>3, <3>1
      <3> QED
        BY <3>2 DEF LonePage, Idle
    <2>2. LonePage(w)
      BY <1>1
    <2>3. ASSUME \/ \E t \in Trips : Calculate(w, t)
                 \/ \E p \in Plans : SelectPlan(w, p)
          PROVE  ~Started
      BY <2>3 DEF Calculate, SelectPlan, NotAtCheckout, Started
    <2>4. LoneStore'
      BY <1>1, <1>3, <2>2, <2>3, LoneBrowses, LoneBuys
    <2> QED
      BY <2>1, <2>4
  <1>4. ASSUME NEW s \in Sessions, SessionMoves(s)
        PROVE  LoneStore' /\ \A w \in Pages : LonePage(w)'
    <2>1. /\ stripe[s].state # "NONE"
          /\ \E st \in SessionState : stripe' = [stripe EXCEPT ![s].state = st]
          /\ UNCHANGED <<quote, attempt, policies, req>>
      BY <1>4 DEF SessionMoves, CompleteSession, SettleSession, ExpireSession, SessionState
    <2>2. stripe \in [Sessions -> [amount : Amounts \cup {0}, state : SessionState]]
      BY DEF TypeInv, TypeOK
    <2>3. Started
      BY <1>1, <2>1 DEF LoneStore, Browsing
    <2>4. Started' /\ Buying'
      BY <1>1, <2>1, <2>2, <2>3 DEF Started, LoneStore, Buying
    <2>5. LoneStore'
      BY <1>1, <2>1, <2>3, <2>4 DEF LoneStore, IsPaid
    <2>6. \A w \in Pages : LonePage(w)'
      BY <1>1, <2>1 DEF LonePage
    <2> QED
      BY <2>5, <2>6
  <1> QED
    BY <1>2, <1>3, <1>4, LoneKinds

\* Every session was made together with its attempt.
SessionsKeyed == \A s \in Sessions : stripe[s].state # "NONE" => attempt[stripe[s].amount] # "NONE"

LEMMA SessionsKeyedStep == TypeInv /\ SessionsKeyed /\ [Next]_vars => SessionsKeyed'
  <1> SUFFICES ASSUME TypeInv, SessionsKeyed, [Next]_vars, NEW s \in Sessions,
                      stripe'[s].state # "NONE"
               PROVE  attempt'[stripe'[s].amount] # "NONE"
    BY DEF SessionsKeyed
  <1> /\ attempt \in [Amounts -> AttemptStatus] /\ SessionsSound
      /\ stripe \in [Sessions -> [amount : Amounts \cup {0}, state : SessionState]]
    BY DEF TypeInv, TypeOK
  <1>1. ASSUME NEW a \in Amounts, attempt[a] # "NONE" PROVE attempt'[a] # "NONE"
    <2>1. ASSUME NEW w \in Pages, CheckoutCreate(w) PROVE attempt'[a] # "NONE"
      BY <1>1, <2>1 DEF CheckoutCreate
    <2>2. ASSUME NEW w \in Pages, NEW t \in Sessions, ResultMismatch(w, t)
          PROVE  attempt'[a] # "NONE"
      BY <1>1, <2>2 DEF ResultMismatch
    <2>3. ASSUME NEW w \in Threads, MarksPaid(w) PROVE attempt'[a] # "NONE"
      BY <1>1, <2>3 DEF MarksPaid
    <2> QED
      BY <1>1, <2>1, <2>2, <2>3, StepKinds
  <1>2. CASE stripe[s].state # "NONE" /\ stripe'[s].amount = stripe[s].amount
    <2>1. PICK a \in Amounts : a = stripe[s].amount
      BY <1>2 DEF SessionsSound
    <2> QED
      BY <1>1, <1>2, <2>1 DEF SessionsKeyed
  <1>3. ASSUME NEW w \in Pages, CheckoutCreate(w), stripe'[s] # stripe[s]
        PROVE  attempt'[stripe'[s].amount] # "NONE"
    <2>1. PICK a \in Amounts : a = req[w].amt
      BY <1>3 DEF CheckoutCreate, TypeInv, RequestsSound, Threads
    <2>2. attempt' = [attempt EXCEPT ![a] = "REDIRECTED"]
      BY <1>3, <2>1 DEF CheckoutCreate
    <2>3. stripe'[s].amount = a
      BY <1>3, <2>1 DEF CheckoutCreate
    <2> QED
      BY <2>2, <2>3
  <1>4. ASSUME NEW t \in Sessions, SessionMoves(t)
        PROVE  stripe[s].state # "NONE" /\ stripe'[s].amount = stripe[s].amount
    BY <1>4 DEF SessionMoves, CompleteSession, SettleSession, ExpireSession
  <1>5. ASSUME NEW w \in Pages, NEW t \in Sessions, ResultMismatch(w, t)
        PROVE  UNCHANGED stripe
    BY <1>5 DEF ResultMismatch
  <1> QED
    BY <1>2, <1>3, <1>4, <1>5, StepKinds

\* "pagado -> cliente (Party) + poliza VIAJE": whoever has paid and has no
\* policy yet has an attempt, a quote at that amount with its opportunity, and
\* once the payment is recorded a quote that counts as paid.  The organization
\* has its carrier, or the customer asks for one page at a time; Stripe may
\* delay payments, report other totals and deliver as often as it likes.
THEOREM PaidStaysPayable ==
  ASSUME Reopens = FALSE, Outage = FALSE \/ OnePage
  PROVE  Spec => []Payable
  <1>1. OneSale \/ Lone => (policies = <<>> =>
          \A s \in Sessions : Accepted(s) =>
            /\ quote.premium = stripe[s].amount /\ quote.policy = 0 /\ quote.opp # NoOpp
            /\ \A a \in Amounts : attempt[a] = "SUCCEEDED" => IsPaid(quote))
    <2> SUFFICES ASSUME OneSale \/ Lone, policies = <<>>, NEW s \in Sessions, Accepted(s)
                 PROVE  /\ quote.premium = stripe[s].amount /\ quote.policy = 0
                        /\ quote.opp # NoOpp
                        /\ \A a \in Amounts : attempt[a] = "SUCCEEDED" => IsPaid(quote)
      OBVIOUS
    <2>1. stripe[s].state # "NONE"
      BY DEF Accepted
    <2>2. CASE OneSale
      BY <2>1, <2>2 DEF OneSale, InStore, Buying, Browsing, Unissued, Unsold
    <2>3. CASE Lone
      BY <2>1, <2>3 DEF Lone, LoneStore, Buying, Browsing
    <2> QED
      BY <2>2, <2>3
  <1>2. TypeInv /\ SessionsKeyed /\ (OneSale \/ Lone) => Payable
    <2> SUFFICES ASSUME TypeInv, SessionsKeyed, OneSale \/ Lone, policies = <<>>,
                        NEW s \in Sessions, Accepted(s)
                 PROVE  LET a == stripe[s].amount IN
                        /\ attempt[a] # "NONE"
                        /\ attempt[a] = "SUCCEEDED" => IsPaid(quote)
                        /\ quote.policy = 0 /\ quote.premium = a /\ quote.opp # NoOpp
      BY DEF Payable
    <2>1. stripe[s].state # "NONE"
      BY DEF Accepted
    <2>2. PICK a \in Amounts : a = stripe[s].amount
      BY <2>1 DEF TypeInv, SessionsSound
    <2> QED
      BY <1>1, <2>1, <2>2 DEF SessionsKeyed
  <1>3. Init => SessionsKeyed
    BY DEF Init, SessionsKeyed
  <1>4. CASE Outage = FALSE
    BY <1>2, <1>3, <1>4, SessionsKeyedStep, OneSaleHolds, InvariantTypes, PTL DEF Spec
  <1>5. CASE OnePage
    <2>1. TypeInv /\ Lone /\ [Next]_vars => Lone'
      BY <1>5, LoneStep
    <2> QED
      BY <1>2, <1>3, <2>1, InitLone, SessionsKeyedStep, InvariantTypes, PTL DEF Spec
  <1> QED
    BY <1>4, <1>5

\* confirm_from_stripe_session in the webhook: given a carrier, a delivery that
\* loads the quote while nothing is issued finds it paid and able to be issued.
DeliveriesIssue ==
  [][\A h \in Hooks, s \in Sessions :
       Webhook(h, s) /\ carrier /\ policies = <<>> =>
         (NeedsPolicy(h) /\ CanIssue(PaidQuote(h)))']_vars

THEOREM DeliveriesCanIssue ==
  ASSUME Reopens = FALSE, Outage = FALSE \/ OnePage
  PROVE  Spec => DeliveriesIssue
  <1>1. ASSUME TypeInv, TypeInv', Payable, NEW h \in Hooks, NEW s \in Sessions, Webhook(h, s),
               carrier, policies = <<>>
        PROVE  (NeedsPolicy(h) /\ CanIssue(PaidQuote(h)))'
    <2> /\ h \in Threads /\ req \in [Threads -> Request] /\ quote \in QuoteRow
        /\ req' \in [Threads -> Request]
      BY <1>1 DEF Threads, TypeInv, TypeOK
    <2>1. /\ attempt[stripe[s].amount] = "SUCCEEDED" => IsPaid(quote)
          /\ quote.policy = 0 /\ quote.premium = stripe[s].amount /\ quote.opp # NoOpp
          /\ stripe[s].amount # 0
      <3>1. stripe[s].amount \in Amounts
        BY <1>1 DEF Webhook, Accepted, TypeInv, SessionsSound
      <3> QED
        BY <1>1, <3>1, PriceType DEF Payable, Webhook, Amounts
    <2>2. /\ req'[h].pc = "paying" /\ req'[h].q = quote
          /\ req'[h].att = attempt[stripe[s].amount]
          /\ UNCHANGED <<carrier, policies>>
      BY <1>1, IdleType DEF Webhook, Request
    <2>3. IsPaid(PaidQuote(h)')
      BY <2>1, <2>2 DEF PaidQuote, First, IsPaid, QuoteRow
    <2>4. PaidQuote(h)'.premium = quote.premium
      BY <2>2 DEF PaidQuote, QuoteRow
    <2>5. NeedsPolicy(h)'
      BY <2>1, <2>2, <2>3 DEF NeedsPolicy, IsPaid
    <2>6. CanIssue(PaidQuote(h))'
      BY <1>1, <2>1, <2>2, <2>4 DEF CanIssue, SameNumber
    <2> QED
      BY <2>5, <2>6
  <1>2. TypeInv /\ TypeInv' /\ Payable /\ [Next]_vars
          => [\A h \in Hooks, s \in Sessions :
                Webhook(h, s) /\ carrier /\ policies = <<>> =>
                  (NeedsPolicy(h) /\ CanIssue(PaidQuote(h)))']_vars
    BY <1>1
  <1> QED
    BY <1>2, PaidStaysPayable, InvariantTypes, PTL DEF Spec, DeliveriesIssue
====
