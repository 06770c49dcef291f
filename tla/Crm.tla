--------------------------------- MODULE Crm ---------------------------------
(***************************************************************************)
(* The CRM of one organization: prospects, opportunities, activities and   *)
(* the customers they become (services/crm_service.py, crm_access.py),     *)
(* with the pages of web/crm_ui_routes.py and the API of                   *)
(* web/crm_routes.py.                                                      *)
(*                                                                         *)
(* A request reads its rows and decides in one step and commits in a later *)
(* one.  The pages answer a refusal with a redirect, so that what the      *)
(* service changed before it refused is committed; the API raises, and     *)
(* rolls back.                                                             *)
(***************************************************************************)
EXTENDS Integers, FiniteSets

CONSTANTS
  Users,          \* who works with the CRM
  Producers,      \* those of them who see their own portfolio only
  Executives,     \* those of them named as executive of a row
  Persons,        \* contact data by which a customer is recognised
  Threads,        \* requests in service at once
  MaxRequests,    \* bound: requests served
  MaxProspects,   \* bound: prospects
  MaxOpps,        \* bound: opportunities
  MaxCustomers,   \* bound: parties on file
  MaxActivities,  \* bound: activities
  None            \* no user, no person

ASSUME CrmAssumption ==
  /\ Producers \subseteq Users /\ Executives \subseteq Users
  /\ None \notin Users /\ None \notin Persons
  /\ MaxRequests \in Nat /\ MaxProspects \in Nat /\ MaxOpps \in Nat
  /\ MaxCustomers \in Nat /\ MaxActivities \in Nat

Prospects == 1 .. MaxProspects
Opps == 1 .. MaxOpps
Customers == 1 .. MaxCustomers
Activities == 1 .. MaxActivities

VARIABLES
  prospect,   \* crm_prospects
  opp,        \* crm_opportunities
  customer,   \* parties
  activity,   \* crm_activities
  portfolio,  \* the customers of each producer, those of his policies
  req,        \* the request of each thread: its plan of writes
  served,     \* requests begun so far
  raced       \* history: a plan was committed after another one

vars == <<prospect, opp, customer, activity, portfolio, req, served, raced>>

OpenStages == {"NEW", "QUOTING"}   \* and the others that are neither WON nor LOST
Stages == OpenStages \cup {"WON", "LOST"}

\* who: the contact data, None when it holds no document, mail or telephone.
Prospect == [status : {"NONE", "OPEN", "CONVERTED"}, who : Persons \cup {None},
             producer : Producers \cup {None}, executive : Executives \cup {None},
             customer : Customers \cup {0}]

\* won, lost: the stamps won_at and lost_at; reason: lost_reason_id; slipped, no column
\* but its history: a refused loss was committed and neither WON nor LOST stamped since.
Opp == [stage : {"NONE"} \cup Stages, prospect : Prospects \cup {0},
        customer : Customers \cup {0}, producer : Producers \cup {None},
        executive : Executives \cup {None}, won : BOOLEAN, lost : BOOLEAN, reason : BOOLEAN,
        slipped : BOOLEAN]

\* client: it has the CLIENT role; from: the prospect it was created from.
Customer == [exists : BOOLEAN, who : Persons \cup {None}, client : BOOLEAN,
             from : Prospects \cup {0}]
Activity == [status : {"NONE", "PENDING", "DONE"}, opp : Opps \cup {0},
             prospect : Prospects \cup {0}, assignee : Users \cup {None}]

NoProspect == [status |-> "NONE", who |-> None, producer |-> None, executive |-> None,
               customer |-> 0]
NoOpp == [stage |-> "NONE", prospect |-> 0, customer |-> 0, producer |-> None,
          executive |-> None, won |-> FALSE, lost |-> FALSE, reason |-> FALSE, slipped |-> FALSE]
NoCustomer == [exists |-> FALSE, who |-> None, client |-> FALSE, from |-> 0]
NoActivity == [status |-> "NONE", opp |-> 0, prospect |-> 0, assignee |-> None]

\* The rows a request writes (0: none), as it loaded and as it leaves them; stamps:
\* the timestamps it writes in any case.
Plan == [step : {"idle", "commit"}, o : Opps \cup {0}, p : Prospects \cup {0},
         c : Customers \cup {0}, a : Activities \cup {0},
         sawO : Opp, newO : Opp, sawP : Prospect, newP : Prospect,
         sawC : Customer, newC : Customer, sawA : Activity, newA : Activity,
         stamps : SUBSET {"won", "lost"}, stale : BOOLEAN]
NoPlan == [step |-> "idle", o |-> 0, p |-> 0, c |-> 0, a |-> 0,
           sawO |-> NoOpp, newO |-> NoOpp, sawP |-> NoProspect, newP |-> NoProspect,
           sawC |-> NoCustomer, newC |-> NoCustomer, sawA |-> NoActivity,
           newA |-> NoActivity, stamps |-> {}, stale |-> FALSE]

Init ==
  /\ prospect = [p \in Prospects |-> NoProspect]
  /\ opp = [o \in Opps |-> NoOpp]
  /\ customer = [c \in Customers |-> NoCustomer]
  /\ activity = [a \in Activities |-> NoActivity]
  /\ portfolio \in [Users -> {{}, {c \in Customers : c = 1}}]
  /\ \A u \in Users \ Producers : portfolio[u] = {}
  /\ req = [r \in Threads |-> NoPlan]
  /\ served = 0
  /\ raced = FALSE

Rows == <<prospect, opp, customer, activity>>

-----------------------------------------------------------------------------
(* Who sees what (crm_access) *)

OrgWide(u) == u \notin Producers

ProspectInScope(u, p) ==
  \/ OrgWide(u)
  \/ prospect[p].producer = u \/ prospect[p].executive = u

\* Variant: the prospect of an opportunity does not count.
OpportunityAssigned(u, o) ==
  \/ OrgWide(u)
  \/ opp[o].producer = u \/ opp[o].executive = u
  \/ opp[o].customer \in portfolio[u]

OpportunityInScope(u, o) ==
  \/ OrgWide(u)
  \/ opp[o].producer = u \/ opp[o].executive = u
  \/ opp[o].customer \in portfolio[u]
  \/ opp[o].prospect # 0 /\ ProspectInScope(u, opp[o].prospect)

ActivityInScope(u, a) ==
  \/ OrgWide(u)
  \/ activity[a].assignee = u
  \/ activity[a].opp # 0 /\ OpportunityInScope(u, activity[a].opp)
  \/ activity[a].prospect # 0 /\ ProspectInScope(u, activity[a].prospect)

\* The same rules once more, as the conditions of the queries behind the lists.
ListedProspects(u) ==
  {p \in Prospects : prospect[p].status # "NONE" /\
     (OrgWide(u) \/ prospect[p].producer = u \/ prospect[p].executive = u)}

ListedOpportunities(u) ==
  {o \in Opps : opp[o].stage # "NONE" /\
     \/ OrgWide(u)
     \/ opp[o].producer = u \/ opp[o].executive = u
     \/ opp[o].prospect # 0 /\ prospect[opp[o].prospect].producer = u
     \/ opp[o].customer \in portfolio[u]}

ListedActivities(u) ==
  {a \in Activities : activity[a].status # "NONE" /\
     \/ OrgWide(u)
     \/ activity[a].opp \in ListedOpportunities(u)
     \/ activity[a].prospect \in ListedProspects(u)
     \/ activity[a].assignee = u}

-----------------------------------------------------------------------------
(* A request: what it reads, what it will write *)

Ready(r) == req[r].step = "idle" /\ served < MaxRequests

Begin(r, q) ==
  /\ req' = [req EXCEPT ![r] =
       [q EXCEPT !.step = "commit",
          !.sawO = IF q.o = 0 THEN NoOpp ELSE opp[q.o],
          !.sawP = IF q.p = 0 THEN NoProspect ELSE prospect[q.p],
          !.sawC = IF q.c = 0 THEN NoCustomer ELSE customer[q.c],
          !.sawA = IF q.a = 0 THEN NoActivity ELSE activity[q.a]]]
  /\ served' = served + 1
  /\ UNCHANGED <<Rows, portfolio, raced>>

\* New rows get an identifier of their own.
Free(i, exists(_), taken(_)) ==
  /\ ~exists(i) /\ ~taken(i)
  /\ \A j \in 1 .. i - 1 : exists(j) \/ taken(j)
FreshProspect(p) ==
  Free(p, LAMBDA i : prospect[i].status # "NONE", LAMBDA i : \E r \in Threads : req[r].p = i)
FreshOpp(o) ==
  Free(o, LAMBDA i : opp[i].stage # "NONE", LAMBDA i : \E r \in Threads : req[r].o = i)
FreshCustomer(c) ==
  Free(c, LAMBDA i : customer[i].exists, LAMBDA i : \E r \in Threads : req[r].c = i)
FreshActivity(a) ==
  Free(a, LAMBDA i : activity[i].status # "NONE", LAMBDA i : \E r \in Threads : req[r].a = i)

\* The producer a new row goes to: the producer who makes it, or as given.
ProducerFor(u, given) == IF given = None /\ u \in Producers THEN u ELSE given

-----------------------------------------------------------------------------
(* Prospects and opportunities *)

NewProspect(u, w, given, x) ==
  [NoProspect EXCEPT !.status = "OPEN", !.who = w, !.producer = ProducerFor(u, given),
                     !.executive = x]

\* create_prospect asks for a name and a way to reach the person.
CreateProspect(r) ==
  /\ Ready(r)
  /\ \E u \in Users, p \in Prospects, w \in Persons, given \in Producers \cup {None},
        x \in Executives \cup {None} :
       /\ FreshProspect(p)
       /\ Begin(r, [NoPlan EXCEPT !.p = p, !.newP = NewProspect(u, w, given, x)])

Assigned(row, n, x) == [row EXCEPT !.producer = n, !.executive = x]

AssignProspect(r) ==
  /\ Ready(r)
  /\ \E u \in Users, p \in Prospects, n \in Producers \cup {None}, x \in Executives \cup {None} :
       /\ prospect[p].status # "NONE" /\ ProspectInScope(u, p)
       /\ Begin(r, [NoPlan EXCEPT !.p = p, !.newP = Assigned(prospect[p], n, x)])

NewOpp(p, c, n, stage) ==
  [NoOpp EXCEPT !.stage = stage, !.prospect = p, !.customer = c, !.producer = n]

\* create_opportunity, for a prospect or for a customer on file: the producer who makes
\* it takes a prospect nobody had.  The stage is written without its stamp.
CreateOpportunity(r) ==
  /\ Ready(r)
  /\ \E u \in Users, o \in Opps, given \in Producers \cup {None}, stage \in Stages :
       /\ FreshOpp(o)
       /\ LET n == ProducerFor(u, given)
          IN  \/ \E p \in Prospects :
                   /\ prospect[p].status # "NONE" /\ ProspectInScope(u, p)
                   /\ Begin(r, [NoPlan EXCEPT !.o = o, !.newO = NewOpp(p, 0, n, stage), !.p = p,
                                  !.newP = IF given = None /\ u \in Producers /\ prospect[p].producer = None
                                             THEN [prospect[p] EXCEPT !.producer = u]
                                             ELSE prospect[p]])
              \/ \E c \in Customers :
                   /\ customer[c].exists
                   /\ Begin(r, [NoPlan EXCEPT !.o = o, !.newO = NewOpp(0, c, n, stage)])

\* crm_quick_create: prospect and opportunity in one form; a stage that is not on file is
\* refused after the prospect was made.
QuickCreate(r) ==
  /\ Ready(r)
  /\ \E u \in Users, p \in Prospects, o \in Opps, w \in Persons \cup {None}, stage \in Stages,
        known \in BOOLEAN :
       /\ FreshProspect(p) /\ FreshOpp(o)
       /\ LET new == NewProspect(u, w, None, None)
          IN  Begin(r, [NoPlan EXCEPT !.p = p, !.newP = new,
                          !.o = IF known THEN o ELSE 0,
                          !.newO = IF known THEN NewOpp(p, 0, new.producer, stage) ELSE NoOpp])

AssignOpportunity(r) ==
  /\ Ready(r)
  /\ \E u \in Users, o \in Opps, n \in Producers \cup {None}, x \in Executives \cup {None} :
       /\ opp[o].stage # "NONE" /\ OpportunityInScope(u, o)
       /\ Begin(r, [NoPlan EXCEPT !.o = o, !.newO = Assigned(opp[o], n, x)])

-----------------------------------------------------------------------------
(* Stages *)

\* Variant: leaving LOST keeps its stamp.
StampedOpen(row, stage) ==
  [row EXCEPT !.stage = stage, !.won = IF row.stage = "WON" THEN FALSE ELSE @]

\* set_opportunity_stage, to an open stage: the stamps of the stage it leaves go.
Reopened(row, stage) ==
  [row EXCEPT !.stage = stage,
     !.won = IF row.stage = "WON" THEN FALSE ELSE @,
     !.lost = IF row.stage = "LOST" THEN FALSE ELSE @,
     !.reason = IF row.stage = "LOST" THEN FALSE ELSE @]

\* set_opportunity_stage, to WON and, with its reason, to LOST.
Won(row) == [row EXCEPT !.stage = "WON", !.won = TRUE, !.lost = FALSE, !.reason = FALSE,
                        !.slipped = FALSE]
Lost(row) == [row EXCEPT !.stage = "LOST", !.lost = TRUE, !.reason = TRUE, !.won = FALSE,
                         !.slipped = FALSE]

\* The row under its new stage, and the stamp written in any case.
Staged(row, stage) ==
  CASE stage = "WON" -> Won(row) [] stage = "LOST" -> Lost(row) [] OTHER -> Reopened(row, stage)
Stamped(stage) ==
  CASE stage = "WON" -> {"won"} [] stage = "LOST" -> {"lost"} [] OTHER -> {}

SetStage(r) ==
  /\ Ready(r)
  /\ \E u \in Users, o \in Opps, stage \in Stages :
       /\ opp[o].stage # "NONE" /\ OpportunityInScope(u, o)
       /\ Begin(r, [NoPlan EXCEPT !.o = o, !.newO = Staged(opp[o], stage),
                                  !.stamps = Stamped(stage)])

\* The page of the opportunity marks it LOST without a reason on file: the service has
\* written the stage by the time it refuses, and the page commits it.
RefusedLost(r) ==
  /\ Ready(r)
  /\ \E u \in Users, o \in Opps :
       /\ opp[o].stage \notin {"NONE", "LOST"} /\ OpportunityInScope(u, o)
       /\ Begin(r, [NoPlan EXCEPT !.o = o,
                      !.newO = [opp[o] EXCEPT !.stage = "LOST", !.slipped = TRUE]])

-----------------------------------------------------------------------------
(* Customers *)

\* find_customer_matches: those with the CLIENT role, if any has it.
Matches(w) ==
  LET same == {c \in Customers : customer[c].exists /\ customer[c].who = w}
      clients == {c \in same : customer[c].client}
  IN  IF w = None THEN {} ELSE IF clients # {} THEN clients ELSE same

CustomerFrom(p) ==
  [exists |-> TRUE, who |-> prospect[p].who, client |-> TRUE, from |-> p]

Opened(row) == IF row.stage \in {"WON", "LOST", "QUOTING"} THEN row ELSE Reopened(row, "QUOTING")

\* Variant: the prospect does not learn of its customer.
QuotedOnly(row, c) == row

\* ensure_party_for_opportunity writes the customer on the prospect too.
Quoted(row, c) == [row EXCEPT !.customer = c]

\* crm_opp_cotizar: a quotation needs a party; one is made of the prospect, without
\* looking for a match.
Quote(r) ==
  /\ Ready(r)
  /\ \E u \in Users, o \in Opps :
       /\ opp[o].stage # "NONE" /\ OpportunityInScope(u, o)
       /\ LET p == opp[o].prospect
          IN  \/ /\ opp[o].customer # 0
                 /\ Begin(r, [NoPlan EXCEPT !.o = o, !.newO = Opened(opp[o])])
              \/ /\ opp[o].customer = 0 /\ p # 0 /\ ProspectInScope(u, p)
                 /\ \/ /\ prospect[p].customer # 0
                       /\ Begin(r, [NoPlan EXCEPT !.o = o,
                                      !.newO = [Opened(opp[o]) EXCEPT !.customer = prospect[p].customer]])
                    \/ \E c \in Customers :
                         /\ prospect[p].customer = 0 /\ FreshCustomer(c)
                         /\ Begin(r, [NoPlan EXCEPT !.o = o, !.p = p, !.c = c,
                                        !.newO = [Opened(opp[o]) EXCEPT !.customer = c],
                                        !.newP = Quoted(prospect[p], c),
                                        !.newC = CustomerFrom(p)])

\* The customer a won opportunity is converted to: the one given, its own, that of its
\* prospect, the only match, or a new one.  Several matches are refused.
Target(o, c) ==
  LET p == opp[o].prospect
  IN  \/ /\ opp[o].customer # 0 /\ c = opp[o].customer
      \/ /\ opp[o].customer = 0 /\ p # 0 /\ prospect[p].customer # 0
         /\ c = prospect[p].customer
      \/ /\ opp[o].customer = 0 /\ p # 0 /\ prospect[p].customer = 0
         /\ \/ Matches(prospect[p].who) = {c}
            \/ Matches(prospect[p].who) = {} /\ FreshCustomer(c)

Convert(r) ==
  /\ Ready(r)
  /\ \E u \in Users, o \in Opps, c \in Customers, given \in BOOLEAN :
       /\ opp[o].stage = "WON" /\ OpportunityInScope(u, o)
       /\ IF given THEN customer[c].exists ELSE Target(o, c)
       /\ LET p == opp[o].prospect
          IN  Begin(r, [NoPlan EXCEPT !.o = o, !.p = p, !.c = c,
                          !.newO = [opp[o] EXCEPT !.customer = c],
                          !.newP = IF p = 0 THEN NoProspect
                                   ELSE [prospect[p] EXCEPT !.customer = c, !.status = "CONVERTED"],
                          !.newC = IF customer[c].exists THEN [customer[c] EXCEPT !.client = TRUE]
                                                         ELSE CustomerFrom(p)])

\* The rest of the office registers a party: a client, or a mere contact.
RegisterParty ==
  \E c \in Customers, w \in Persons, isClient \in BOOLEAN :
    /\ served < MaxRequests /\ FreshCustomer(c)
    /\ customer' = [customer EXCEPT ![c] =
                      [exists |-> TRUE, who |-> w, client |-> isClient, from |-> 0]]
    /\ served' = served + 1
    /\ UNCHANGED <<prospect, opp, activity, portfolio, req, raced>>

-----------------------------------------------------------------------------
(* Activities *)

NewActivity(o, p, x) == [status |-> "PENDING", opp |-> o, prospect |-> p, assignee |-> x]

CreateActivity(r) ==
  /\ Ready(r)
  /\ \E u \in Users, a \in Activities, o \in Opps \cup {0}, p \in Prospects \cup {0},
        x \in Users :
       /\ FreshActivity(a) /\ (o # 0 \/ p # 0)
       /\ o # 0 => opp[o].stage # "NONE" /\ OpportunityInScope(u, o)
       /\ p # 0 => prospect[p].status # "NONE" /\ ProspectInScope(u, p)
       /\ Begin(r, [NoPlan EXCEPT !.a = a, !.newA = NewActivity(o, p, x)])

CompleteActivity(r) ==
  /\ Ready(r)
  /\ \E u \in Users, a \in Activities :
       /\ activity[a].status # "NONE" /\ ActivityInScope(u, a)
       /\ Begin(r, [NoPlan EXCEPT !.a = a, !.newA = [activity[a] EXCEPT !.status = "DONE"]])

-----------------------------------------------------------------------------
(* Committing *)

\* The UPDATE of the ORM: the columns that differ from what was loaded, and the stamps.
Merge(stored, saw, new, stamps) ==
  [f \in DOMAIN stored |->
     IF new[f] = saw[f] /\ f \notin stamps THEN stored[f] ELSE new[f]]

Commit(r) ==
  /\ req[r].step = "commit"
  /\ LET q == req[r]
     IN  /\ opp' = [o \in Opps |-> IF o = q.o THEN Merge(opp[o], q.sawO, q.newO, q.stamps) ELSE opp[o]]
         /\ prospect' = [p \in Prospects |->
              IF p = q.p THEN Merge(prospect[p], q.sawP, q.newP, {}) ELSE prospect[p]]
         /\ customer' = [c \in Customers |->
              IF c = q.c THEN Merge(customer[c], q.sawC, q.newC, {}) ELSE customer[c]]
         /\ activity' = [a \in Activities |->
              IF a = q.a THEN Merge(activity[a], q.sawA, q.newA, {}) ELSE activity[a]]
         /\ raced' = (raced \/ q.stale)
  /\ req' = [s \in Threads |->
       IF s = r THEN NoPlan ELSE [req[s] EXCEPT !.stale = (req[s].step = "commit")]]
  /\ UNCHANGED <<portfolio, served>>

Next ==
  \/ \E r \in Threads :
       \/ CreateProspect(r) \/ AssignProspect(r)
       \/ CreateOpportunity(r) \/ QuickCreate(r) \/ AssignOpportunity(r)
       \/ SetStage(r) \/ RefusedLost(r)
       \/ Quote(r) \/ Convert(r)
       \/ CreateActivity(r) \/ CompleteActivity(r)
       \/ Commit(r)
  \/ RegisterParty

Spec == Init /\ [][Next]_vars

-----------------------------------------------------------------------------
(* Properties *)

TypeOK ==
  /\ prospect \in [Prospects -> Prospect] /\ opp \in [Opps -> Opp]
  /\ customer \in [Customers -> Customer] /\ activity \in [Activities -> Activity]
  /\ portfolio \in [Users -> SUBSET Customers]
  /\ req \in [Threads -> Plan]
  /\ served \in 0 .. MaxRequests /\ raced \in BOOLEAN

\* However a prospect reaches the customer file, by quotation, by conversion, through one
\* opportunity or another, it is entered once, unless two requests overlapped.
OneCustomerEach ==
  raced \/ \A c, d \in Customers : customer[c].from # 0 /\ customer[c].from = customer[d].from => c = d

\* No stamp outlives its stage: lost_at and the reason go together and only with LOST, and
\* won_at only with WON, in any order of winning, losing, reopening, quoting and
\* converting.  A refused loss is the only way won_at gets past WON; requests that
\* overlapped are excepted.
StampsFollowStage ==
  raced \/ \A o \in Opps :
             /\ opp[o].lost = opp[o].reason
             /\ opp[o].lost => opp[o].stage = "LOST"
             /\ opp[o].won => opp[o].stage = "WON" \/ opp[o].slipped

\* Whatever the lists of a user show, the user may open, although list and detail each
\* have the rules of scope written out.
ListedOpens ==
  \A u \in Users :
    /\ \A p \in ListedProspects(u) : ProspectInScope(u, p)
    /\ \A o \in ListedOpportunities(u) : OpportunityInScope(u, o)
    /\ \A a \in ListedActivities(u) : ActivityInScope(u, a)

\* "lost_reason_id requerido al marcar LOST" (crm_service.py:512): no opportunity is
\* marked lost without a reason.
LostHasReason ==
  [][\A o \in Opps : opp[o].stage \notin {"NONE", "LOST"} /\ opp'[o].stage = "LOST" =>
       opp'[o].reason]_vars

\* "reopen path clears terminal stamps when leaving LOST/WON" (crm_service.py:520): an
\* opportunity that is open again has neither stamp.
ReopeningClears ==
  [][\A o \in Opps : opp[o].stage \in {"WON", "LOST"} /\ opp'[o].stage \in OpenStages =>
       ~opp'[o].won /\ ~opp'[o].lost]_vars
=============================================================================
