------------------------------ MODULE Portfolio ------------------------------
(***************************************************************************)
(* The policies of the brokerage and what is derived from them: how they   *)
(* are registered (by hand, from a photograph, from a file, by the public  *)
(* channel), the commissions and renewals that materialize_portfolio makes *)
(* for them, the quotations, the payments of an imported file and the      *)
(* producer each policy belongs to.                                        *)
(*                                                                         *)
(* A request reads its rows and decides in one step and commits in a later *)
(* one; it may die between them.  An import that fails halfway is answered *)
(* with a redirect, which commits the rows it had written.                 *)
(***************************************************************************)
EXTENDS Integers, Sequences, FiniteSets

CONSTANTS
  Orgs,         \* organizations
  MotherOrg,    \* the one run_assisted_import looks up by its name
  Keys,         \* carrier, line and number of a policy
  Persons,      \* document numbers
  Producers,    \* producers the organization may register
  Rates,        \* commission rates, in percent
  Shares,       \* split rules: four percentages
  Threads,      \* requests in service at once
  MaxRequests,  \* bound: requests served
  MaxRows,      \* bound: rows of a file
  MaxDay,       \* bound: days
  None          \* no rate, no rule, no producer

ASSUME PortfolioAssumption ==
  /\ MotherOrg \in Orgs /\ None \notin Producers
  /\ Rates \subseteq Nat
  /\ Shares \subseteq {s \in [1 .. 4 -> 0 .. 100] : s[1] + s[2] + s[3] + s[4] = 100}
  /\ MaxRequests \in Nat /\ MaxRows \in Nat /\ MaxDay \in Nat \ {0}

VARIABLES
  policy,      \* policies, in the order they were created
  commission,  \* commissions of each policy
  renewal,     \* renewal_opportunities of each policy
  producer,    \* its PRIMARY rows of portfolio_assignments
  answers,     \* carrier_quote_requests: the normalized quotes of each
  person,      \* parties of each organization with a document number
  profile,     \* producer_profiles
  rule,        \* the commission rate of the line and the split rule
  file,        \* the staged upload
  capture,     \* a photograph is staged
  today,       \* the date
  req,         \* the request of each thread: its plan of writes
  served,      \* requests begun so far
  seen         \* history: what happened that a property excepts

vars == <<policy, commission, renewal, producer, answers, person, profile, rule, file,
          capture, today, req, served, seen>>

\* The statuses materialize_portfolio looks for, and the others.
Open == {"UPCOMING", "CONTACTED", "QUOTING"}
Closed == {"ACCEPTED", "RENEWED", "LOST"}

Day == 1 .. MaxDay
\* issued: its status is EMITIDO; the others only make a submission.
Row == [key : Keys, who : Persons, issued : BOOLEAN]
Rows == UNION {[1 .. n -> Row] : n \in 1 .. MaxRows}

\* Where a policy comes from; "half": a file that failed at a later row; "refused": a
\* photograph that was then refused as a document.
Origins == {"hand", "photo", "import", "online", "half", "refused"}

\* by: who asked for it; paid: times its only instalment was paid; links: rows of
\* party_roles that tie it to its referrer.
Policy == [org : Orgs, by : Orgs, key : Keys, from : Origins, paid : Nat, links : Nat]
\* parts: what the four parts of the split add up to, 0 without a split.
Commission == [amount : Nat, parts : Nat, split : BOOLEAN]
Renewal == [status : Open \cup Closed, next : Nat]
Primary == [who : Producers, from : Day, to : Day \cup {0}]

\* kind "": nothing to commit.
NoPlan == [kind |-> "", org |-> MotherOrg, by |-> MotherOrg, new |-> <<>>, from |-> "hand",
           people |-> {}, follow |-> FALSE, comm |-> {}, ren |-> {}, entry |-> <<>>,
           at |-> <<0, 0>>, was |-> "", status |-> "", done |-> FALSE, ask |-> 0,
           target |-> 0, who |-> None, open |-> 0, day |-> 1, paid |-> {}, link |-> {},
           profile |-> {}, rule |-> <<>>, consume |-> FALSE, taken |-> FALSE,
           marks |-> {}, stale |-> FALSE]

-----------------------------------------------------------------------------
(* Reading *)

All == DOMAIN policy
OnFile(o, k) == {p \in All : policy[p].org = o /\ policy[p].key = k}
Newest(S) == CHOOSE p \in S : \A q \in S : q <= p

\* Decimal.quantize rounds half to even.
Quantized(n, d) ==
  LET q == n \div d
      r == n % d
  IN  IF 2 * r > d \/ (2 * r = d /\ q % 2 = 1) THEN q + 1 ELSE q

Premium == 1005   \* cents

\* The four parts, each rounded on its own.
Split(amount, s) ==
  Quantized(amount * s[1], 100) + Quantized(amount * s[2], 100)
    + Quantized(amount * s[3], 100) + Quantized(amount * s[4], 100)

\* The commission of a policy under the rules of today, if the line has a rate.
Entry ==
  IF rule.rate = None THEN <<>>
  ELSE LET amount == Quantized(Premium * rule.rate, 100)
       IN  <<[amount |-> amount, split |-> rule.share # None,
              parts |-> IF rule.share = None THEN 0 ELSE Split(amount, rule.share)]>>

Uncommissioned(o) == {p \in All : policy[p].org = o /\ commission[p] = <<>>}

\* Variant: an opportunity that was accepted, or is being quoted, is not seen.
UnfollowedUpcoming(o, status) ==
  {p \in All : policy[p].org = o /\
     \A i \in DOMAIN renewal[p] : status[p][i] # "UPCOMING"}

\* The policies without an open renewal, given the statuses the request sees.
Unfollowed(o, status) ==
  {p \in All : policy[p].org = o /\ \A i \in DOMAIN renewal[p] : status[p][i] \notin Open}

Statuses == [p \in All |-> [i \in DOMAIN renewal[p] |-> renewal[p][i].status]]

-----------------------------------------------------------------------------
(* A request *)

Ready(r) == req[r].kind = "" /\ served < MaxRequests

Begin(r, q) ==
  /\ req' = [req EXCEPT ![r] = q]
  /\ served' = served + 1
  /\ UNCHANGED <<policy, commission, renewal, producer, answers, person, profile, rule,
                 file, capture, today, seen>>

\* materialize_portfolio, over the whole organization; the request sees the renewal it
\* has just written.
Materialize(q, o, status) ==
  [q EXCEPT !.follow = TRUE, !.entry = Entry,
            !.comm = IF Entry = <<>> THEN {} ELSE Uncommissioned(o),
            !.ren = Unfollowed(o, status)]

-----------------------------------------------------------------------------
(* Registering policies *)

\* complete_renewal: the renewal a new policy came from, in whatever status.
Completing(q, p, i) ==
  [q EXCEPT !.at = <<p, i>>, !.was = renewal[p][i].status, !.status = "RENEWED", !.done = TRUE]

\* poliza_nueva_post does not look for the number.
RegisterByHand(r) ==
  /\ Ready(r)
  /\ \E o \in Orgs, k \in Keys :
       LET q == [NoPlan EXCEPT !.kind = "policies", !.org = o, !.by = o,
                               !.new = <<k>>, !.from = "hand"]
       IN  \/ Begin(r, Materialize(q, o, Statuses))
           \/ \E p \in All : \E i \in DOMAIN renewal[p] :
                /\ policy[p].org = o
                /\ Begin(r, Materialize(Completing(q, p, i), o, [Statuses EXCEPT ![p][i] = "RENEWED"]))

\* Variant: the number is not looked up.
PhotoTaken(o, k) == FALSE

PhotoKnown(o, k) == OnFile(o, k) # {}

\* How the reading of a photograph goes: its date cannot be read, or save_party_pdf refuses
\* its type or its size (the capture takes two megabytes more than a document may have).
Readings == {"clear", "undated", "refused"}

\* The client is filed first; a number on file, or an unreadable date, ends it there.  The
\* document is saved between the registration of the policy and its materialization.
Photographed(o, k, w, reading) ==
  LET q == [NoPlan EXCEPT !.kind = "policies", !.org = o, !.by = o, !.from = "photo",
                          !.people = IF person[o][w] = 0 THEN {w} ELSE {}]
  IN  IF PhotoKnown(o, k) \/ reading = "undated" THEN q
      ELSE IF reading = "refused" THEN [q EXCEPT !.new = <<k>>, !.from = "refused"]
      ELSE Materialize([q EXCEPT !.new = <<k>>, !.taken = TRUE], o, Statuses)

\* captura_foto_post: the photograph is staged; when one click was asked for and the draft
\* is sure enough, commit_policy_from_draft follows at once, and what it raises becomes a
\* warning on the page, whose answer commits what was written.
Capture ==
  /\ served < MaxRequests /\ ~capture
  /\ capture' = TRUE
  /\ served' = served + 1
  /\ UNCHANGED <<policy, commission, renewal, producer, answers, person, profile, rule,
                 file, today, req, seen>>

OneClick(r) ==
  /\ Ready(r)
  /\ \E o \in Orgs, k \in Keys, w \in Persons, reading \in Readings :
       /\ person[o][w] <= 1
       /\ Begin(r, [Photographed(o, k, w, reading) EXCEPT !.taken = FALSE])

\* captura_foto_confirmar needs the staged photograph; only a new policy takes it away.
\* A date that cannot be read, or a document refused, fails the request as a whole.
ConfirmCapture(r) ==
  /\ Ready(r) /\ capture
  /\ \E o \in Orgs, k \in Keys, w \in Persons :
       /\ person[o][w] <= 1
       /\ Begin(r, Photographed(o, k, w, "clear"))

\* _create_policy: the public channel gives the policy its default producer, from
\* the day the cover starts, which may be yet to come; it materializes nothing.
IssueOnline(r) ==
  /\ Ready(r)
  /\ \E o \in Orgs, k \in Keys, u \in profile \cup {None}, d \in Day :
       /\ OnFile(o, k) = {} /\ d >= today
       /\ Begin(r, [NoPlan EXCEPT !.kind = "policies", !.org = o, !.by = o, !.from = "online",
                                  !.new = <<k>>, !.who = u, !.day = d])

-----------------------------------------------------------------------------
(* Importing files *)

\* preview_profile puts the file on disk under a token of its own.
Upload ==
  /\ served < MaxRequests /\ file = <<>>
  /\ \E rows \in Rows : file' = rows
  /\ served' = served + 1
  /\ UNCHANGED <<policy, commission, renewal, producer, answers, person, profile, rule,
                 capture, today, req, seen>>

\* A row fails when its person, or its number, is on file twice: one_or_none raises.
Fails(o, row) ==
  person[o][row.who] > 1 \/ (row.issued /\ Cardinality(OnFile(o, row.key)) > 1)

\* The rows before the first that fails.
Done(o) ==
  {i \in DOMAIN file : \A j \in 1 .. i : ~Fails(o, file[j])}

FreshRows(o) ==
  {i \in Done(o) : /\ file[i].issued /\ OnFile(o, file[i].key) = {}
                   /\ \A j \in 1 .. i - 1 : file[j].issued => file[j].key # file[i].key}
Nth(S, n) == CHOOSE i \in S : Cardinality({j \in S : j <= i}) = n
NewKeys(o) == [n \in 1 .. Cardinality(FreshRows(o)) |-> file[Nth(FreshRows(o), n)].key]

\* The persons of the rows reached; a row that fails on its number has filed its person.
NewPeople(o) ==
  {w \in Persons : person[o][w] = 0 /\
     \E i \in DOMAIN file : file[i].who = w /\ \A j \in 1 .. i - 1 : ~Fails(o, file[j])}

\* link_emission_roles: the newest policy of each number gets its referrer.  A second row
\* for the policy finds the link when a person was filed in between, which flushes it; else
\* it repeats the link, the unique key refuses both and nothing is committed (Die).
Linked(o) ==
  {p \in All : policy[p].links = 0 /\
     \E i \in DOMAIN file : OnFile(o, file[i].key) # {} /\ p = Newest(OnFile(o, file[i].key))}

\* import_emissions; when every row went through also link_emission_roles, the
\* materialization and the removal of the upload.
Emissions(by, o) ==
  LET q == [NoPlan EXCEPT !.kind = "policies", !.org = o, !.by = by, !.from = "import",
                          !.new = NewKeys(o), !.people = NewPeople(o)]
  IN  IF Done(o) # DOMAIN file THEN [q EXCEPT !.from = "half"]
      ELSE [Materialize(q, o, Statuses) EXCEPT !.consume = TRUE, !.link = Linked(by)]

ImportEmissions(r) ==
  /\ Ready(r) /\ file # <<>>
  /\ \E o \in Orgs : Begin(r, Emissions(o, o))

\* The mother file goes to the organization that run_assisted_import knows by name.
ImportMother(r) ==
  /\ Ready(r) /\ file # <<>>
  /\ \E o \in Orgs : Begin(r, Emissions(o, MotherOrg))

\* Each person of the file is filed unless found; one found twice fails the file.
Filing(o) ==
  [NoPlan EXCEPT !.kind = "policies", !.org = o, !.by = o, !.consume = TRUE,
     !.people = {w \in Persons : person[o][w] = 0 /\ \E i \in DOMAIN file : file[i].who = w}]

FoundOnce(o) == \A i \in DOMAIN file : person[o][file[i].who] <= 1

\* The profiles of clients and catalogues file persons only.
ImportClients(r) ==
  /\ Ready(r) /\ file # <<>>
  /\ \E o \in Orgs : FoundOnce(o) /\ Begin(r, Filing(o))

\* That of referrers ties them to their policies as well.
ImportRoles(r) ==
  /\ Ready(r) /\ file # <<>>
  /\ \E o \in Orgs : FoundOnce(o) /\ Begin(r, [Filing(o) EXCEPT !.link = Linked(o)])

\* The newest policy of the number, if its instalment is open in what the session loaded:
\* the payments of the rows before are not among the loaded allocations.
Payable(o, i) ==
  LET S == OnFile(o, file[i].key) IN S # {} /\ policy[Newest(S)].paid = 0

ImportPayments(r) ==
  /\ Ready(r) /\ file # <<>>
  /\ \E o \in Orgs :
       LET paid == {<<i, Newest(OnFile(o, file[i].key))>> : i \in {j \in DOMAIN file : Payable(o, j)}}
       IN  Begin(r, [NoPlan EXCEPT !.kind = "policies", !.org = o, !.by = o, !.consume = TRUE,
                       !.paid = paid,
                       !.marks = IF \E x, y \in paid : x # y /\ x[2] = y[2] THEN {"twice"} ELSE {}])

\* The profiles of commissions and renewals derive everything again.
Rematerialize(r) ==
  /\ Ready(r)
  /\ \E o \in Orgs :
       Begin(r, Materialize([NoPlan EXCEPT !.kind = "policies", !.org = o, !.by = o], o, Statuses))

-----------------------------------------------------------------------------
(* Renewals and quotations *)

\* Any status may be set by hand, on a renewal in any other.
SetStatus(r) ==
  /\ Ready(r)
  /\ \E p \in All : \E i \in DOMAIN renewal[p], s \in Open \cup Closed :
       Begin(r, [NoPlan EXCEPT !.kind = "renewal", !.at = <<p, i>>,
                   !.was = renewal[p][i].status, !.status = s,
                   !.marks = IF renewal[p][i].status \in Closed /\ s \in Open
                               THEN {"reopened"} ELSE {}])

\* misma-cia: the renewal is in contact again, whatever its status.
SameCarrier(r) ==
  /\ Ready(r)
  /\ \E p \in All : \E i \in DOMAIN renewal[p] :
       Begin(r, [NoPlan EXCEPT !.kind = "renewal", !.at = <<p, i>>,
                   !.was = renewal[p][i].status, !.status = "CONTACTED",
                   !.marks = IF renewal[p][i].status \in Closed THEN {"reopened"} ELSE {}])

\* Requoting with other carriers opens a quotation for the renewal, whatever its status.
Requote(r) ==
  /\ Ready(r)
  /\ \E p \in All : \E i \in DOMAIN renewal[p] :
       Begin(r, [NoPlan EXCEPT !.kind = "renewal", !.at = <<p, i>>,
                   !.was = renewal[p][i].status, !.status = "QUOTING", !.ask = Len(answers) + 1,
                   !.marks = IF renewal[p][i].status \in Closed THEN {"reopened"} ELSE {}])

NewQuote(r) ==
  /\ Ready(r)
  /\ Begin(r, [NoPlan EXCEPT !.kind = "quote", !.ask = Len(answers) + 1])

\* An answer is added to those the carrier request has.
AnswerQuote(r) ==
  /\ Ready(r)
  /\ \E a \in DOMAIN answers : Begin(r, [NoPlan EXCEPT !.kind = "quote", !.ask = a])

-----------------------------------------------------------------------------
(* Commission rules *)

\* save_all_line_rates: commissions on file keep theirs.
SaveRates(r) ==
  /\ Ready(r)
  /\ \E v \in Rates : Begin(r, [NoPlan EXCEPT !.kind = "rule", !.rule = <<"rate", v>>])

\* save_split_shares refuses shares that do not sum to one.
SaveSplit(r) ==
  /\ Ready(r)
  /\ \E s \in Shares : Begin(r, [NoPlan EXCEPT !.kind = "rule", !.rule = <<"share", s>>])

-----------------------------------------------------------------------------
(* Producers *)

CreateProducer(r) ==
  /\ Ready(r)
  /\ \E u \in Producers \ profile :
       Begin(r, [NoPlan EXCEPT !.kind = "profile", !.profile = {u}])

OpenRows(rows) == {i \in DOMAIN rows : rows[i].to = 0}

\* assign_policy_primary closes the open row today and opens a new one, unless the
\* producer has the policy already.
Reassigned(p, u) ==
  [NoPlan EXCEPT !.kind = "assign", !.target = p, !.who = u, !.day = today,
     !.open = IF OpenRows(producer[p]) = {} THEN 0 ELSE CHOOSE i \in OpenRows(producer[p]) : TRUE]

HasIt(u, p) == \E i \in OpenRows(producer[p]) : producer[p][i].who = u

\* The page of the policy, and that of the producer, which takes the number typed in.
ReassignPolicy(r) ==
  /\ Ready(r)
  /\ \E p \in All, u \in profile : ~HasIt(u, p) /\ Begin(r, Reassigned(p, u))

AssignToProducer(r) ==
  /\ Ready(r)
  /\ \E u \in profile, p \in All : ~HasIt(u, p) /\ Begin(r, Reassigned(p, u))

\* Variant: the new row is inserted whatever is open.
ReplacedAnyway(rows, q) ==
  LET closed == IF q.open = 0 THEN rows ELSE [rows EXCEPT ![q.open].to = q.day]
  IN  Append(closed, [who |-> q.who, from |-> q.day, to |-> 0])

\* Variant: the old row ends the day before.
ReplacedEarlier(rows, q) ==
  LET closed == IF q.open = 0 THEN rows
                ELSE [rows EXCEPT ![q.open].to = IF q.day = 1 THEN 1 ELSE q.day - 1]
  IN  IF OpenRows(closed) # {} THEN closed
      ELSE Append(closed, [who |-> q.who, from |-> q.day, to |-> 0])

\* The close is written first; the unique index refuses a second open row, and only the
\* insert, in a savepoint of its own, is undone.
Replaced(rows, q) ==
  LET closed == IF q.open = 0 THEN rows ELSE [rows EXCEPT ![q.open].to = q.day]
  IN  IF OpenRows(closed) # {} THEN closed
      ELSE Append(closed, [who |-> q.who, from |-> q.day, to |-> 0])

-----------------------------------------------------------------------------
(* Committing *)

\* Variant: the new policies of a request are not followed up.
InsertedBare(q) == FALSE

Followed(q) == q.follow

\* The renewal the request wrote: the columns that changed.
Written(row, q) ==
  [status |-> IF q.status = q.was THEN row.status ELSE q.status,
   next |-> IF q.done THEN Len(policy) + 1 ELSE row.next]

Commit(r) ==
  LET q == req[r]
      old == Len(policy)
      all == 1 .. old + Len(q.new)
  IN  /\ q.kind # ""
      /\ policy' = [p \in all |->
           IF p <= old
             THEN [policy[p] EXCEPT !.paid = @ + Cardinality({x \in q.paid : x[2] = p}),
                                    !.links = IF p \in q.link THEN @ + 1 ELSE @]
             ELSE [org |-> q.org, by |-> q.by, key |-> q.new[p - old], from |-> q.from, paid |-> 0,
                   links |-> IF q.from = "import" /\ q.org = q.by /\ q.follow THEN 1 ELSE 0]]
      /\ commission' = [p \in all |->
           IF p > old THEN (IF Followed(q) THEN q.entry ELSE <<>>)
           ELSE IF p \in q.comm THEN commission[p] \o q.entry ELSE commission[p]]
      /\ renewal' = [p \in all |->
           LET kept == IF p > old THEN <<>>
                       ELSE IF p = q.at[1] THEN [renewal[p] EXCEPT ![q.at[2]] = Written(@, q)]
                       ELSE renewal[p]
           IN  IF p \in q.ren \/ (p > old /\ Followed(q))
                 THEN Append(kept, [status |-> "UPCOMING", next |-> 0]) ELSE kept]
      /\ producer' = [p \in all |->
           IF p > old
             THEN (IF q.who = None THEN <<>> ELSE <<[who |-> q.who, from |-> q.day, to |-> 0]>>)
             ELSE IF p = q.target THEN Replaced(producer[p], q) ELSE producer[p]]
      /\ answers' = IF q.ask = 0 THEN answers
                    ELSE IF q.ask \in DOMAIN answers THEN [answers EXCEPT ![q.ask] = @ + 1]
                    ELSE Append(answers, 0)
      /\ person' = [person EXCEPT ![q.org] = [w \in Persons |-> IF w \in q.people THEN @[w] + 1 ELSE @[w]]]
      /\ profile' = profile \cup q.profile
      /\ rule' = IF q.rule = <<>> THEN rule ELSE [rule EXCEPT ![q.rule[1]] = q.rule[2]]
      /\ file' = IF q.consume THEN <<>> ELSE file
      /\ capture' = (capture /\ ~q.taken)
      /\ req' = [s \in Threads |->
           IF s = r THEN NoPlan ELSE [req[s] EXCEPT !.stale = (req[s].kind # "")]]
      /\ seen' = seen \cup q.marks \cup (IF q.stale THEN {"raced"} ELSE {})
      /\ UNCHANGED <<today, served>>

\* A request is lost before its commit, or fails as a whole; what it was staged with may be
\* gone by then.
Die(r) ==
  /\ req[r].kind # ""
  /\ req' = [req EXCEPT ![r] = NoPlan]
  /\ \/ UNCHANGED <<file, capture>>
     \/ /\ file' = IF req[r].consume THEN <<>> ELSE file
        /\ capture' = (capture /\ ~req[r].taken)
  /\ UNCHANGED <<policy, commission, renewal, producer, answers, person, profile, rule,
                 today, served, seen>>

Midnight ==
  /\ today < MaxDay
  /\ today' = today + 1
  /\ UNCHANGED <<policy, commission, renewal, producer, answers, person, profile, rule,
                 file, capture, req, served, seen>>

-----------------------------------------------------------------------------
(* An office that starts, or one where a number was registered by hand twice. *)

ByHand(k) == [org |-> MotherOrg, by |-> MotherOrg, key |-> k, from |-> "hand", paid |-> 0, links |-> 0]

Init ==
  /\ \/ policy = <<>>
     \/ \E k \in Keys : policy = <<ByHand(k), ByHand(k)>>
  /\ rule \in [rate : Rates, share : Shares] \cup {[rate |-> None, share |-> None]}
  /\ commission = [p \in All |-> Entry]
  /\ renewal = [p \in All |-> <<[status |-> "UPCOMING", next |-> 0]>>]
  /\ producer = [p \in All |-> <<>>]
  /\ answers = <<>>
  /\ person = [o \in Orgs |-> [w \in Persons |-> 0]]
  /\ profile \in {{}, Producers}
  /\ file = <<>> /\ capture = FALSE
  /\ today = 1
  /\ req = [r \in Threads |-> NoPlan]
  /\ served = 0
  /\ seen = {}

Next ==
  \/ \E r \in Threads :
       \/ RegisterByHand(r) \/ OneClick(r) \/ ConfirmCapture(r) \/ IssueOnline(r)
       \/ ImportEmissions(r) \/ ImportMother(r) \/ ImportClients(r) \/ ImportRoles(r)
       \/ ImportPayments(r) \/ Rematerialize(r)
       \/ SetStatus(r) \/ SameCarrier(r) \/ Requote(r) \/ NewQuote(r) \/ AnswerQuote(r)
       \/ SaveRates(r) \/ SaveSplit(r)
       \/ CreateProducer(r) \/ ReassignPolicy(r) \/ AssignToProducer(r)
       \/ Commit(r) \/ Die(r)
  \/ Upload \/ Capture
  \/ Midnight

Spec == Init /\ [][Next]_vars

-----------------------------------------------------------------------------
(* Properties *)

TypeOK ==
  /\ policy \in Seq(Policy)
  /\ commission \in Seq(Seq(Commission)) /\ renewal \in Seq(Seq(Renewal))
  /\ producer \in Seq(Seq(Primary)) /\ answers \in Seq(Nat)
  /\ \A p \in All : \A i \in DOMAIN renewal[p] : renewal[p][i].next <= Len(policy)
  /\ Len(policy) = Len(commission) /\ Len(policy) = Len(renewal) /\ Len(policy) = Len(producer)
  /\ person \in [Orgs -> [Persons -> Nat]] /\ profile \subseteq Producers
  /\ rule \in [rate : Rates \cup {None}, share : Shares \cup {None}]
  /\ file \in Rows \cup {<<>>} /\ capture \in BOOLEAN /\ today \in Day /\ served \in 0 .. MaxRequests
  /\ seen \subseteq {"twice", "reopened", "raced"}

\* However often the portfolio is imported and materialized, a policy has one commission,
\* one renewal under way, one payment of its instalment and one link to its referrer, unless
\* requests overlapped, a renewal was reopened by hand or a file paid a policy in two rows.
DerivedOnce ==
  "raced" \in seen \/
    \A p \in All :
      /\ Len(commission[p]) <= 1 /\ policy[p].links <= 1
      /\ "reopened" \in seen \/ Cardinality({i \in DOMAIN renewal[p] : renewal[p][i].status \in Open}) <= 1
      /\ "twice" \in seen \/ policy[p].paid <= 1

\* A photograph, a file or the public channel never registers a number that is on file.
NumberOnce ==
  "raced" \in seen \/
    \A p, q \in All :
      p < q /\ policy[p].org = policy[q].org /\ policy[p].key = policy[q].key =>
        policy[q].from = "hand"

\* Every policy is followed by a renewal from the commit that registers it, except those of
\* the public channel, those of a file that then failed and those of a photograph that was
\* then refused as a document.
EveryPolicyFollowed ==
  \A p \in All : renewal[p] = <<>> => policy[p].from \in {"online", "half", "refused"}

\* What a photograph registers is always followed: a document refused leaves it bare.
PhotosFollowed ==
  \A p \in All : renewal[p] = <<>> => policy[p].from \in {"online", "half"}

\* A policy that was given a producer has exactly one from then on, whatever overlaps.
AlwaysOneProducer ==
  \A p \in All : producer[p] # <<>> => Cardinality(OpenRows(producer[p])) = 1

\* The rows of a policy follow each other day by day; only a row that the public channel
\* dated ahead may end before it starts.
ProducerHistory ==
  "raced" \in seen \/
    \A p \in All : \A i \in 1 .. Len(producer[p]) - 1 :
      /\ producer[p][i].to = producer[p][i + 1].from
      /\ i > 1 \/ policy[p].from # "online" => producer[p][i].from <= producer[p][i].to

\* What the four parts of a split add up to is the commission to two cents.
SplitsAddUp ==
  \A p \in All : \A i \in DOMAIN commission[p] :
    commission[p][i].split =>
      commission[p][i].parts - commission[p][i].amount \in -2 .. 2

\* "org de sesion unicamente" (ADR-008_F7_F0_INSPECTION.md:173): what a user imports is
\* filed in the organization of the session.
ImportsStayHome == \A p \in All : policy[p].org = policy[p].by
=============================================================================
