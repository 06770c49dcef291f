------------------------------ MODULE CrmProofs ------------------------------
(***************************************************************************)
(* Theorems about Crm, for any users, persons, threads and bounds: types,  *)
(* that a prospect is entered once in the customer file, that the stamps   *)
(* of an opportunity tell its stage, and that what is listed opens.        *)
(***************************************************************************)
EXTENDS Crm, TLAPS

-----------------------------------------------------------------------------
(* Rows and plans *)

LEMMA RowFacts ==
  /\ NoProspect \in Prospect /\ NoOpp \in Opp /\ NoCustomer \in Customer /\ NoActivity \in Activity
  <1>1. NoProspect \in Prospect
    BY DEF NoProspect, Prospect
  <1>2. NoOpp \in Opp
    BY DEF NoOpp, Opp, Stages, OpenStages
  <1>3. NoCustomer \in Customer
    BY DEF NoCustomer, Customer
  <1>4. NoActivity \in Activity
    BY DEF NoActivity, Activity
  <1> QED
    BY <1>1, <1>2, <1>3, <1>4

LEMMA NoPlanFacts == NoPlan \in Plan /\ NoPlan.step = "idle" /\ NoPlan.c = 0
  BY RowFacts DEF NoPlan, Plan

LEMMA MergeOpp ==
  ASSUME NEW stored \in Opp, NEW saw \in Opp, NEW new \in Opp, NEW stamps
  PROVE  Merge(stored, saw, new, stamps) \in Opp
  BY DEF Merge, Opp

LEMMA MergeProspect ==
  ASSUME NEW stored \in Prospect, NEW saw \in Prospect, NEW new \in Prospect, NEW stamps
  PROVE  Merge(stored, saw, new, stamps) \in Prospect
  BY DEF Merge, Prospect

LEMMA MergeCustomer ==
  ASSUME NEW stored \in Customer, NEW saw \in Customer, NEW new \in Customer, NEW stamps
  PROVE  Merge(stored, saw, new, stamps) \in Customer
  BY DEF Merge, Customer

LEMMA MergeActivity ==
  ASSUME NEW stored \in Activity, NEW saw \in Activity, NEW new \in Activity, NEW stamps
  PROVE  Merge(stored, saw, new, stamps) \in Activity
  BY DEF Merge, Activity

\* A row that is as it was loaded is left as the request wants it.
LEMMA MergeOppUnseen ==
  ASSUME NEW stored \in Opp, NEW new \in Opp, NEW stamps
  PROVE  Merge(stored, stored, new, stamps) = new
  BY DEF Merge, Opp

LEMMA MergeProspectUnseen ==
  ASSUME NEW stored \in Prospect, NEW new \in Prospect, NEW stamps
  PROVE  Merge(stored, stored, new, stamps) = new
  BY DEF Merge, Prospect

LEMMA MergeCustomerUnseen ==
  ASSUME NEW stored \in Customer, NEW new \in Customer, NEW stamps
  PROVE  Merge(stored, stored, new, stamps) = new
  BY DEF Merge, Customer

LEMMA FreshCustomerFacts ==
  ASSUME NEW c, FreshCustomer(c)
  PROVE  ~customer[c].exists /\ \A r \in Threads : req[r].c # c
  BY DEF FreshCustomer, Free

LEMMA FreshProspectFacts ==
  ASSUME NEW p, FreshProspect(p)
  PROVE  prospect[p].status = "NONE"
  BY DEF FreshProspect, Free

-----------------------------------------------------------------------------
(* The inductive invariant *)

\* No stamp of an opportunity outlives its stage, a refused loss after a win excepted.
Stampy(row) ==
  /\ row.lost = row.reason
  /\ row.lost => row.stage = "LOST" /\ ~row.slipped /\ ~row.won
  /\ row.won => row.stage = "WON" \/ row.slipped

Known(c) == c # 0 => customer[c].exists

\* Customers that are referred to are on file, or are written with the reference.
Refs(q) ==
  /\ q.o # 0 => Known(q.newO.customer) \/ q.newO.customer = q.c
  /\ q.p # 0 => Known(q.newP.customer) \/ q.newP.customer = q.c
  /\ q.c # 0 => q.newC.exists

\* A customer that was on file when a plan loaded it still is.
StillThere(q) == q.c # 0 /\ q.sawC.exists => customer[q.c].exists

\* This holds however the requests race.
RefsOK ==
  /\ \A o \in Opps : Known(opp[o].customer)
  /\ \A p \in Prospects : Known(prospect[p].customer)
  /\ \A r \in Threads : req[r].step = "commit" => Refs(req[r]) /\ StillThere(req[r])

\* Opportunities are of prospects on file; a prospect in the customer file knows its customer.
WorldOK ==
  /\ \A o \in Opps :
       /\ Stampy(opp[o])
       /\ opp[o].prospect # 0 => prospect[opp[o].prospect].status # "NONE"
  /\ \A p \in Prospects : prospect[p].status = "NONE" => prospect[p].customer = 0
  /\ \A c \in Customers : customer[c].from # 0 => prospect[customer[c].from].customer # 0
  /\ \A c, d \in Customers : customer[c].from # 0 /\ customer[c].from = customer[d].from => c = d

\* The rows of a plan are still as it loaded them.
Fits(q) ==
  /\ q.o # 0 => q.sawO = opp[q.o]
  /\ q.p # 0 => q.sawP = prospect[q.p]
  /\ q.c # 0 => q.sawC = customer[q.c]

\* What a plan writes keeps WorldOK, as long as the rows are as it loaded them.
Sound(q) ==
  /\ q.o # 0 => /\ Stampy(q.newO)
                /\ q.newO.prospect # 0 =>
                     prospect[q.newO.prospect].status # "NONE" \/ q.newO.prospect = q.p
  /\ q.p # 0 => /\ q.newP.status # "NONE"
                /\ prospect[q.p].customer # 0 => q.newP.customer # 0
  /\ q.c # 0 => \/ q.newC.from = customer[q.c].from
                \/ /\ q.newC.from = q.p /\ q.p # 0 /\ prospect[q.p].customer = 0
                   /\ q.newP.customer # 0

\* Until a plan is committed after another one everything fits.
Orderly ==
  raced \/ /\ WorldOK
           /\ \A r \in Threads :
                req[r].step = "commit" /\ ~req[r].stale => Fits(req[r]) /\ Sound(req[r])

Inv == TypeOK /\ RefsOK /\ Orderly

LEMMA InitInv == Init => Inv
  <1> SUFFICES ASSUME Init PROVE Inv
    OBVIOUS
  <1>1. TypeOK
    <2>1. portfolio \in [Users -> SUBSET Customers]
      BY DEF Init
    <2>2. served \in 0 .. MaxRequests
      BY CrmAssumption DEF Init
    <2>3. /\ prospect \in [Prospects -> Prospect] /\ opp \in [Opps -> Opp]
          /\ customer \in [Customers -> Customer] /\ activity \in [Activities -> Activity]
          /\ req \in [Threads -> Plan] /\ raced \in BOOLEAN
      BY RowFacts, NoPlanFacts DEF Init
    <2> QED
      BY <2>1, <2>2, <2>3 DEF TypeOK
  <1>2. WorldOK
    BY DEF Init, WorldOK, Stampy, NoOpp, NoProspect, NoCustomer
  <1>3. \A r \in Threads : req[r].step # "commit"
    BY NoPlanFacts DEF Init
  <1>4. RefsOK
    BY <1>3 DEF RefsOK, Init, Known, NoOpp, NoProspect
  <1> QED
    BY <1>1, <1>2, <1>3, <1>4 DEF Inv, Orderly

-----------------------------------------------------------------------------
(* Requests that begin *)

\* The plan as it is kept with the rows it loaded.
Loaded(q) ==
  [q EXCEPT !.step = "commit",
     !.sawO = IF q.o = 0 THEN NoOpp ELSE opp[q.o],
     !.sawP = IF q.p = 0 THEN NoProspect ELSE prospect[q.p],
     !.sawC = IF q.c = 0 THEN NoCustomer ELSE customer[q.c],
     !.sawA = IF q.a = 0 THEN NoActivity ELSE activity[q.a]]

LEMMA LoadedFacts ==
  ASSUME TypeOK, NEW q \in Plan
  PROVE  /\ Loaded(q) \in Plan /\ Fits(Loaded(q))
         /\ (Sound(q) => Sound(Loaded(q))) /\ (Refs(q) => Refs(Loaded(q))) /\ StillThere(Loaded(q))
  <1> DEFINE m == Loaded(q)
  <1>1. /\ q.o \in Opps \cup {0} /\ q.p \in Prospects \cup {0} /\ q.c \in Customers \cup {0}
        /\ q.a \in Activities \cup {0}
    BY DEF Plan
  <1> DEFINE so == IF q.o = 0 THEN NoOpp ELSE opp[q.o]
             sp == IF q.p = 0 THEN NoProspect ELSE prospect[q.p]
             sc == IF q.c = 0 THEN NoCustomer ELSE customer[q.c]
             sa == IF q.a = 0 THEN NoActivity ELSE activity[q.a]
  <1>2. so \in Opp /\ sp \in Prospect /\ sc \in Customer /\ sa \in Activity
    BY <1>1, RowFacts DEF TypeOK
  <1>3. m = [q EXCEPT !.step = "commit", !.sawO = so, !.sawP = sp, !.sawC = sc, !.sawA = sa]
    BY DEF Loaded
  <1>4. (q.o # 0 => so = opp[q.o]) /\ (q.p # 0 => sp = prospect[q.p]) /\ (q.c # 0 => sc = customer[q.c])
    OBVIOUS
  <1> HIDE DEF m, so, sp, sc, sa
  <1>5. /\ m \in Plan /\ m.o = q.o /\ m.p = q.p /\ m.c = q.c /\ m.newO = q.newO /\ m.newP = q.newP
        /\ m.newC = q.newC /\ m.sawO = so /\ m.sawP = sp /\ m.sawC = sc
    BY <1>2, <1>3 DEF Plan
  <1>6. Fits(m)
    BY <1>4, <1>5 DEF Fits
  <1>7. (Sound(q) => Sound(m)) /\ (Refs(q) => Refs(m))
    BY <1>5 DEF Sound, Refs
  <1>8. StillThere(m)
    BY <1>6 DEF Fits, StillThere
  <1> QED
    BY <1>5, <1>6, <1>7, <1>8 DEF m

\* A request that begins keeps the invariant when its plan is sound.
LEMMA BeginInv ==
  ASSUME Inv, NEW r \in Threads, Ready(r), NEW q \in Plan, Refs(q),
         ~raced => Sound(q),
         req' = [req EXCEPT ![r] = Loaded(q)], served' = served + 1,
         UNCHANGED <<Rows, portfolio, raced>>
  PROVE  Inv'
  <1> DEFINE m == Loaded(q)
  <1>1. req' = [req EXCEPT ![r] = m] /\ served' = served + 1 /\ UNCHANGED <<Rows, portfolio, raced>>
    OBVIOUS
  <1>2. m \in Plan /\ Fits(m) /\ (Sound(q) => Sound(m)) /\ Refs(m) /\ StillThere(m)
    BY LoadedFacts DEF Inv
  <1> HIDE DEF m
  <1>3. req' \in [Threads -> Plan] /\ req'[r] = m /\ \A s \in Threads : s # r => req'[s] = req[s]
    BY <1>1, <1>2 DEF Inv, TypeOK
  <1>4. served' \in 0 .. MaxRequests
    <2>1. served \in 0 .. MaxRequests /\ served < MaxRequests
      BY DEF Inv, TypeOK, Ready
    <2> QED
      BY <1>1, <2>1, CrmAssumption
  <1>5. TypeOK'
    BY <1>1, <1>3, <1>4 DEF Inv, TypeOK, Rows
  <1>6. ASSUME ~raced PROVE Orderly'
    <2>1. WorldOK /\ \A s \in Threads :
            req[s].step = "commit" /\ ~req[s].stale => Fits(req[s]) /\ Sound(req[s])
      BY <1>6 DEF Inv, Orderly
    <2>2. WorldOK'
      BY <1>1, <2>1 DEF WorldOK, Rows
    <2>3. \A s \in Threads : req'[s].step = "commit" /\ ~req'[s].stale => Fits(req'[s]) /\ Sound(req'[s])
      BY <1>2, <1>3, <1>6, <2>1
    <2>4. \A s \in Threads :
            req'[s].step = "commit" /\ ~req'[s].stale => Fits(req[s])' /\ Sound(req[s])'
      BY <1>1, <2>3 DEF Fits, Sound, Rows
    <2> QED
      BY <2>2, <2>4 DEF Orderly
  <1>7. raced => Orderly'
    BY <1>1 DEF Orderly
  <1>8. RefsOK'
    <2>1. \A s \in Threads : req'[s].step = "commit" => Refs(req'[s]) /\ StillThere(req'[s])
      BY <1>2, <1>3 DEF Inv, RefsOK
    <2>2. \A s \in Threads : req'[s].step = "commit" => Refs(req[s])' /\ StillThere(req[s])'
      BY <1>1, <2>1 DEF Refs, StillThere, Known, Rows
    <2>3. (\A o \in Opps : Known(opp[o].customer)') /\ (\A p \in Prospects : Known(prospect[p].customer)')
      BY <1>1 DEF Inv, RefsOK, Known, Rows
    <2> QED
      BY <2>2, <2>3 DEF RefsOK
  <1> QED
    BY <1>5, <1>6, <1>7, <1>8 DEF Inv

\* What a request may rely on when it begins.
LEMMA OnFileFacts ==
  ASSUME Inv, ~raced
  PROVE  /\ \A o \in Opps : /\ Stampy(opp[o])
                            /\ opp[o].prospect # 0 => prospect[opp[o].prospect].status # "NONE"
         /\ \A p \in Prospects : prospect[p].status = "NONE" => prospect[p].customer = 0
  BY DEF Inv, Orderly, WorldOK

LEMMA KnownFacts ==
  ASSUME Inv
  PROVE  (\A o \in Opps : Known(opp[o].customer)) /\ (\A p \in Prospects : Known(prospect[p].customer))
  BY DEF Inv, RefsOK

LEMMA RowTypes ==
  ASSUME Inv
  PROVE  /\ \A o \in Opps : opp[o] \in Opp
         /\ \A p \in Prospects : prospect[p] \in Prospect /\ p # 0
         /\ \A c \in Customers : customer[c] \in Customer /\ c # 0
         /\ \A a \in Activities : activity[a] \in Activity
  BY DEF Inv, TypeOK, Prospects, Customers

LEMMA NewProspectFacts ==
  ASSUME NEW u \in Users, NEW w \in Persons \cup {None}, NEW given \in Producers \cup {None},
         NEW x \in Executives \cup {None}
  PROVE  /\ NewProspect(u, w, given, x) \in Prospect
         /\ NewProspect(u, w, given, x).status = "OPEN" /\ NewProspect(u, w, given, x).customer = 0
         /\ NewProspect(u, w, given, x).producer \in Producers \cup {None}
  BY DEF NewProspect, NoProspect, Prospect, ProducerFor

LEMMA CreateProspectInv ==
  ASSUME Inv, NEW r \in Threads, CreateProspect(r)
  PROVE  Inv'
  <1>1. PICK u \in Users, p \in Prospects, w \in Persons, given \in Producers \cup {None},
             x \in Executives \cup {None} :
          FreshProspect(p) /\ Begin(r, [NoPlan EXCEPT !.p = p, !.newP = NewProspect(u, w, given, x)])
    BY DEF CreateProspect
  <1> DEFINE new == NewProspect(u, w, given, x)
             q == [NoPlan EXCEPT !.p = p, !.newP = new]
  <1>2. req' = [req EXCEPT ![r] = Loaded(q)] /\ served' = served + 1
        /\ UNCHANGED <<Rows, portfolio, raced>>
    BY <1>1 DEF Begin, Loaded
  <1>3. new \in Prospect /\ new.status = "OPEN" /\ new.customer = 0
    BY NewProspectFacts
  <1> HIDE DEF new
  <1>4. q \in Plan
    BY <1>3, NoPlanFacts DEF Plan
  <1>5. q.o = 0 /\ q.p = p /\ q.c = 0 /\ q.newP = new
    BY DEF NoPlan
  <1> HIDE DEF q
  <1>6. Refs(q) /\ (~raced => Sound(q))
    <2>1. ~raced => prospect[p].customer = 0
      BY <1>1, FreshProspectFacts, OnFileFacts
    <2> QED
      BY <1>3, <1>5, <2>1 DEF Sound, Refs, Known
  <1>7. Ready(r)
    BY DEF CreateProspect
  <1> QED
    BY <1>2, <1>4, <1>6, <1>7, BeginInv

LEMMA AssignProspectInv ==
  ASSUME Inv, NEW r \in Threads, AssignProspect(r)
  PROVE  Inv'
  <1>1. PICK p \in Prospects, n \in Producers \cup {None}, x \in Executives \cup {None} :
          /\ prospect[p].status # "NONE"
          /\ Begin(r, [NoPlan EXCEPT !.p = p, !.newP = Assigned(prospect[p], n, x)])
    BY DEF AssignProspect
  <1> DEFINE new == Assigned(prospect[p], n, x)
             q == [NoPlan EXCEPT !.p = p, !.newP = new]
  <1>2. req' = [req EXCEPT ![r] = Loaded(q)] /\ served' = served + 1
        /\ UNCHANGED <<Rows, portfolio, raced>>
    BY <1>1 DEF Begin, Loaded
  <1>3. prospect[p] \in Prospect
    BY RowTypes
  <1>4. new \in Prospect /\ new.status = prospect[p].status /\ new.customer = prospect[p].customer
    BY <1>3 DEF Assigned, Prospect
  <1> HIDE DEF new
  <1>5. q \in Plan
    BY <1>4, NoPlanFacts DEF Plan
  <1>6. q.o = 0 /\ q.p = p /\ q.c = 0 /\ q.newP = new
    BY DEF NoPlan
  <1> HIDE DEF q
  <1>7. Refs(q) /\ (~raced => Sound(q))
    BY <1>1, <1>4, <1>6, OnFileFacts, KnownFacts DEF Sound, Refs, Known
  <1>8. Ready(r)
    BY DEF AssignProspect
  <1> QED
    BY <1>2, <1>5, <1>7, <1>8, BeginInv

LEMMA NewOppFacts ==
  ASSUME NEW p \in Prospects \cup {0}, NEW c \in Customers \cup {0}, NEW n \in Producers \cup {None},
         NEW stage \in Stages
  PROVE  /\ NewOpp(p, c, n, stage) \in Opp /\ Stampy(NewOpp(p, c, n, stage))
         /\ NewOpp(p, c, n, stage).prospect = p /\ NewOpp(p, c, n, stage).customer = c
  BY DEF NewOpp, NoOpp, Opp, Stampy

LEMMA CreateOpportunityInv ==
  ASSUME Inv, NEW r \in Threads, CreateOpportunity(r)
  PROVE  Inv'
  <1>1. PICK u \in Users, o \in Opps, given \in Producers \cup {None}, stage \in Stages :
          \/ \E p \in Prospects :
               /\ prospect[p].status # "NONE"
               /\ Begin(r, [NoPlan EXCEPT !.o = o, !.newO = NewOpp(p, 0, ProducerFor(u, given), stage), !.p = p,
                              !.newP = IF given = None /\ u \in Producers /\ prospect[p].producer = None
                                         THEN [prospect[p] EXCEPT !.producer = u]
                                         ELSE prospect[p]])
          \/ \E c \in Customers :
               /\ customer[c].exists
               /\ Begin(r, [NoPlan EXCEPT !.o = o, !.newO = NewOpp(0, c, ProducerFor(u, given), stage)])
    BY DEF CreateOpportunity
  <1>2. Ready(r) /\ ProducerFor(u, given) \in Producers \cup {None}
    BY DEF CreateOpportunity, ProducerFor
  <1>3. ASSUME NEW p \in Prospects, prospect[p].status # "NONE",
               Begin(r, [NoPlan EXCEPT !.o = o, !.newO = NewOpp(p, 0, ProducerFor(u, given), stage), !.p = p,
                              !.newP = IF given = None /\ u \in Producers /\ prospect[p].producer = None
                                         THEN [prospect[p] EXCEPT !.producer = u]
                                         ELSE prospect[p]])
        PROVE  Inv'
    <2> DEFINE new == NewOpp(p, 0, ProducerFor(u, given), stage)
               row == IF given = None /\ u \in Producers /\ prospect[p].producer = None
                        THEN [prospect[p] EXCEPT !.producer = u] ELSE prospect[p]
               q == [NoPlan EXCEPT !.o = o, !.newO = new, !.p = p, !.newP = row]
    <2>1. req' = [req EXCEPT ![r] = Loaded(q)] /\ served' = served + 1
          /\ UNCHANGED <<Rows, portfolio, raced>>
      BY <1>3 DEF Begin, Loaded
    <2>2. new \in Opp /\ Stampy(new) /\ new.prospect = p /\ new.customer = 0
      BY <1>2, NewOppFacts
    <2>3. prospect[p] \in Prospect
      BY RowTypes
    <2>4. row \in Prospect /\ row.status = prospect[p].status /\ row.customer = prospect[p].customer
      BY <2>3 DEF Prospect
    <2> HIDE DEF new, row
    <2>5. q \in Plan
      BY <2>2, <2>4, NoPlanFacts DEF Plan
    <2>6. q.o = o /\ q.p = p /\ q.c = 0 /\ q.newO = new /\ q.newP = row
      BY DEF NoPlan
    <2> HIDE DEF q
    <2>7. Refs(q) /\ (~raced => Sound(q))
      BY <1>3, <2>2, <2>4, <2>6, OnFileFacts, KnownFacts DEF Sound, Refs, Known
    <2> QED
      BY <1>2, <2>1, <2>5, <2>7, BeginInv
  <1>4. ASSUME NEW c \in Customers, customer[c].exists,
               Begin(r, [NoPlan EXCEPT !.o = o, !.newO = NewOpp(0, c, ProducerFor(u, given), stage)])
        PROVE  Inv'
    <2> DEFINE new == NewOpp(0, c, ProducerFor(u, given), stage)
               q == [NoPlan EXCEPT !.o = o, !.newO = new]
    <2>1. req' = [req EXCEPT ![r] = Loaded(q)] /\ served' = served + 1
          /\ UNCHANGED <<Rows, portfolio, raced>>
      BY <1>4 DEF Begin, Loaded
    <2>2. new \in Opp /\ Stampy(new) /\ new.prospect = 0 /\ new.customer = c
      <3>1. ProducerFor(u, given) \in Producers \cup {None}
        BY <1>2
      <3> QED
        BY <3>1 DEF NewOpp, NoOpp, Opp, Stampy
    <2> HIDE DEF new
    <2>3. q \in Plan
      BY <2>2, NoPlanFacts DEF Plan
    <2>4. q.o = o /\ q.p = 0 /\ q.c = 0 /\ q.newO = new
      BY DEF NoPlan
    <2> HIDE DEF q
    <2>5. Refs(q) /\ (~raced => Sound(q))
      BY <1>4, <2>2, <2>4 DEF Sound, Refs, Known
    <2> QED
      BY <1>2, <2>1, <2>3, <2>5, BeginInv
  <1> QED
    BY <1>1, <1>3, <1>4

LEMMA QuickCreateInv ==
  ASSUME Inv, NEW r \in Threads, QuickCreate(r)
  PROVE  Inv'
  <1>1. PICK u \in Users, p \in Prospects, o \in Opps, w \in Persons \cup {None}, stage \in Stages,
             known \in BOOLEAN :
          /\ FreshProspect(p)
          /\ Begin(r, [NoPlan EXCEPT !.p = p, !.newP = NewProspect(u, w, None, None),
                         !.o = IF known THEN o ELSE 0,
                         !.newO = IF known THEN NewOpp(p, 0, NewProspect(u, w, None, None).producer, stage)
                                  ELSE NoOpp])
    BY DEF QuickCreate
  <1> DEFINE new == NewProspect(u, w, None, None)
             i == IF known THEN o ELSE 0
             row == IF known THEN NewOpp(p, 0, new.producer, stage) ELSE NoOpp
             q == [NoPlan EXCEPT !.p = p, !.newP = new, !.o = i, !.newO = row]
  <1>2. req' = [req EXCEPT ![r] = Loaded(q)] /\ served' = served + 1
        /\ UNCHANGED <<Rows, portfolio, raced>>
    BY <1>1 DEF Begin, Loaded
  <1>3. /\ new \in Prospect /\ new.status = "OPEN" /\ new.customer = 0
        /\ new.producer \in Producers \cup {None}
    BY NewProspectFacts
  <1> HIDE DEF new
  <1>4. /\ row \in Opp /\ i \in Opps \cup {0}
        /\ i # 0 => Stampy(row) /\ row.prospect = p /\ row.customer = 0
    BY <1>3, NewOppFacts, RowFacts
  <1> HIDE DEF row, i
  <1>5. q \in Plan
    BY <1>3, <1>4, NoPlanFacts DEF Plan
  <1>6. q.o = i /\ q.p = p /\ q.c = 0 /\ q.newO = row /\ q.newP = new
    BY DEF NoPlan
  <1> HIDE DEF q
  <1>7. Refs(q) /\ (~raced => Sound(q))
    <2>1. ~raced => prospect[p].customer = 0
      BY <1>1, FreshProspectFacts, OnFileFacts
    <2> QED
      BY <1>3, <1>4, <1>6, <2>1 DEF Sound, Refs, Known
  <1>8. Ready(r)
    BY DEF QuickCreate
  <1> QED
    BY <1>2, <1>5, <1>7, <1>8, BeginInv

LEMMA AssignOpportunityInv ==
  ASSUME Inv, NEW r \in Threads, AssignOpportunity(r)
  PROVE  Inv'
  <1>1. PICK o \in Opps, n \in Producers \cup {None}, x \in Executives \cup {None} :
          Begin(r, [NoPlan EXCEPT !.o = o, !.newO = Assigned(opp[o], n, x)])
    BY DEF AssignOpportunity
  <1> DEFINE new == Assigned(opp[o], n, x)
             q == [NoPlan EXCEPT !.o = o, !.newO = new]
  <1>2. req' = [req EXCEPT ![r] = Loaded(q)] /\ served' = served + 1
        /\ UNCHANGED <<Rows, portfolio, raced>>
    BY <1>1 DEF Begin, Loaded
  <1>3. opp[o] \in Opp
    BY RowTypes
  <1>4. /\ new \in Opp /\ new.prospect = opp[o].prospect /\ new.customer = opp[o].customer
        /\ Stampy(opp[o]) => Stampy(new)
    BY <1>3 DEF Assigned, Opp, Stampy
  <1> HIDE DEF new
  <1>5. q \in Plan
    BY <1>4, NoPlanFacts DEF Plan
  <1>6. q.o = o /\ q.p = 0 /\ q.c = 0 /\ q.newO = new
    BY DEF NoPlan
  <1> HIDE DEF q
  <1>7. Refs(q) /\ (~raced => Sound(q))
    BY <1>4, <1>6, OnFileFacts, KnownFacts DEF Sound, Refs, Known
  <1>8. Ready(r)
    BY DEF AssignOpportunity
  <1> QED
    BY <1>2, <1>5, <1>7, <1>8, BeginInv

\* An opportunity under its new stage tells it by its stamps if it told the old one.
LEMMA StagedFacts ==
  ASSUME NEW row \in Opp, NEW stage \in Stages
  PROVE  /\ Staged(row, stage) \in Opp /\ (Stampy(row) => Stampy(Staged(row, stage)))
         /\ Staged(row, stage).prospect = row.prospect /\ Staged(row, stage).customer = row.customer
         /\ Stamped(stage) \in SUBSET {"won", "lost"}
  <1>1. CASE stage = "WON"
    <2>1. Staged(row, stage) = Won(row) /\ Stamped(stage) = {"won"}
      BY <1>1 DEF Staged, Stamped
    <2>2. /\ Won(row) \in Opp /\ Stampy(Won(row)) /\ Won(row).prospect = row.prospect
          /\ Won(row).customer = row.customer
      BY DEF Won, Opp, Stampy, Stages
    <2> QED
      BY <2>1, <2>2
  <1>2. CASE stage = "LOST"
    <2>1. Staged(row, stage) = Lost(row) /\ Stamped(stage) = {"lost"}
      BY <1>2 DEF Staged, Stamped
    <2>2. /\ Lost(row) \in Opp /\ Stampy(Lost(row)) /\ Lost(row).prospect = row.prospect
          /\ Lost(row).customer = row.customer
      BY DEF Lost, Opp, Stampy, Stages
    <2> QED
      BY <2>1, <2>2
  <1>3. CASE stage \notin {"WON", "LOST"}
    <2>1. Staged(row, stage) = Reopened(row, stage) /\ Stamped(stage) = {}
      BY <1>3 DEF Staged, Stamped
    <2>2. /\ Reopened(row, stage) \in Opp /\ (Stampy(row) => Stampy(Reopened(row, stage)))
          /\ Reopened(row, stage).prospect = row.prospect /\ Reopened(row, stage).customer = row.customer
      BY DEF Reopened, Opp, Stampy
    <2> QED
      BY <2>1, <2>2
  <1> QED
    BY <1>1, <1>2, <1>3

LEMMA SetStageInv ==
  ASSUME Inv, NEW r \in Threads, SetStage(r)
  PROVE  Inv'
  <1>1. PICK o \in Opps, stage \in Stages :
          Begin(r, [NoPlan EXCEPT !.o = o, !.newO = Staged(opp[o], stage), !.stamps = Stamped(stage)])
    BY DEF SetStage
  <1> DEFINE new == Staged(opp[o], stage)
             st == Stamped(stage)
             q == [NoPlan EXCEPT !.o = o, !.newO = new, !.stamps = st]
  <1>2. req' = [req EXCEPT ![r] = Loaded(q)] /\ served' = served + 1
        /\ UNCHANGED <<Rows, portfolio, raced>>
    BY <1>1 DEF Begin, Loaded
  <1>3. opp[o] \in Opp
    BY RowTypes
  <1>4. /\ new \in Opp /\ new.prospect = opp[o].prospect /\ new.customer = opp[o].customer
        /\ (Stampy(opp[o]) => Stampy(new)) /\ st \in SUBSET {"won", "lost"}
    BY <1>3, StagedFacts
  <1> HIDE DEF new, st
  <1>5. q \in Plan
    BY <1>4, NoPlanFacts DEF Plan
  <1>6. q.o = o /\ q.p = 0 /\ q.c = 0 /\ q.newO = new
    BY DEF NoPlan
  <1> HIDE DEF q
  <1>7. Refs(q) /\ (~raced => Sound(q))
    BY <1>4, <1>6, OnFileFacts, KnownFacts DEF Sound, Refs, Known
  <1>8. Ready(r)
    BY DEF SetStage
  <1> QED
    BY <1>2, <1>5, <1>7, <1>8, BeginInv

LEMMA RefusedLostInv ==
  ASSUME Inv, NEW r \in Threads, RefusedLost(r)
  PROVE  Inv'
  <1>1. PICK o \in Opps :
          /\ opp[o].stage # "LOST"
          /\ Begin(r, [NoPlan EXCEPT !.o = o,
                         !.newO = [opp[o] EXCEPT !.stage = "LOST", !.slipped = TRUE]])
    BY DEF RefusedLost
  <1> DEFINE new == [opp[o] EXCEPT !.stage = "LOST", !.slipped = TRUE]
             q == [NoPlan EXCEPT !.o = o, !.newO = new]
  <1>2. req' = [req EXCEPT ![r] = Loaded(q)] /\ served' = served + 1
        /\ UNCHANGED <<Rows, portfolio, raced>>
    BY <1>1 DEF Begin, Loaded
  <1>3. opp[o] \in Opp
    BY RowTypes
  <1>4. /\ new \in Opp /\ new.prospect = opp[o].prospect /\ new.customer = opp[o].customer
        /\ new.lost = opp[o].lost /\ new.reason = opp[o].reason /\ new.slipped
    BY <1>3 DEF Opp, Stages
  <1> HIDE DEF new
  <1>5. q \in Plan
    BY <1>4, NoPlanFacts DEF Plan
  <1>6. q.o = o /\ q.p = 0 /\ q.c = 0 /\ q.newO = new
    BY DEF NoPlan
  <1> HIDE DEF q
  <1>7. ~raced => Stampy(new)
    BY <1>1, <1>4, OnFileFacts DEF Stampy
  <1>8. Refs(q) /\ (~raced => Sound(q))
    BY <1>4, <1>6, <1>7, OnFileFacts, KnownFacts DEF Sound, Refs, Known
  <1>9. Ready(r)
    BY DEF RefusedLost
  <1> QED
    BY <1>2, <1>5, <1>8, <1>9, BeginInv

-----------------------------------------------------------------------------
(* Customers *)

LEMMA OpenedFacts ==
  ASSUME NEW row \in Opp, NEW c \in Customers
  PROVE  /\ Opened(row) \in Opp /\ (Stampy(row) => Stampy(Opened(row)))
         /\ Opened(row).prospect = row.prospect /\ Opened(row).customer = row.customer
         /\ [Opened(row) EXCEPT !.customer = c] \in Opp
         /\ [Opened(row) EXCEPT !.customer = c].prospect = row.prospect
         /\ [Opened(row) EXCEPT !.customer = c].customer = c
         /\ (Stampy(row) => Stampy([Opened(row) EXCEPT !.customer = c]))
  <1> DEFINE new == Opened(row)
  <1>1. /\ new \in Opp /\ (Stampy(row) => Stampy(new))
        /\ new.prospect = row.prospect /\ new.customer = row.customer
    BY DEF Opened, Reopened, Opp, Stampy, Stages, OpenStages
  <1> HIDE DEF new
  <1>2. /\ [new EXCEPT !.customer = c] \in Opp
        /\ [new EXCEPT !.customer = c].prospect = row.prospect
        /\ [new EXCEPT !.customer = c].customer = c
        /\ (Stampy(row) => Stampy([new EXCEPT !.customer = c]))
    BY <1>1 DEF Opp, Stampy
  <1> QED
    BY <1>1, <1>2 DEF new

LEMMA CustomerFromFacts ==
  ASSUME Inv, NEW p \in Prospects
  PROVE  CustomerFrom(p) \in Customer /\ CustomerFrom(p).exists /\ CustomerFrom(p).from = p
  <1>1. prospect[p].who \in Persons \cup {None}
    BY RowTypes DEF Prospect
  <1> QED
    BY <1>1 DEF CustomerFrom, Customer

LEMMA QuoteInv ==
  ASSUME Inv, NEW r \in Threads, Quote(r)
  PROVE  Inv'
  <1>1. PICK o \in Opps :
          /\ opp[o].stage # "NONE"
          /\ LET p == opp[o].prospect
             IN  \/ Begin(r, [NoPlan EXCEPT !.o = o, !.newO = Opened(opp[o])])
                 \/ /\ p # 0
                    /\ \/ /\ prospect[p].customer # 0
                          /\ Begin(r, [NoPlan EXCEPT !.o = o,
                                         !.newO = [Opened(opp[o]) EXCEPT !.customer = prospect[p].customer]])
                       \/ \E c \in Customers :
                            /\ prospect[p].customer = 0 /\ FreshCustomer(c)
                            /\ Begin(r, [NoPlan EXCEPT !.o = o, !.p = p, !.c = c,
                                           !.newO = [Opened(opp[o]) EXCEPT !.customer = c],
                                           !.newP = Quoted(prospect[p], c),
                                           !.newC = CustomerFrom(p)])
    BY DEF Quote
  <1>2. Ready(r) /\ opp[o] \in Opp
    BY RowTypes DEF Quote
  <1> DEFINE p == opp[o].prospect
  <1>3. p \in Prospects \cup {0} /\ (~raced => Stampy(opp[o]))
    BY <1>2, OnFileFacts DEF Opp
  <1>4. CASE Begin(r, [NoPlan EXCEPT !.o = o, !.newO = Opened(opp[o])])
    <2> DEFINE new == Opened(opp[o])
               q == [NoPlan EXCEPT !.o = o, !.newO = new]
    <2>1. req' = [req EXCEPT ![r] = Loaded(q)] /\ served' = served + 1
          /\ UNCHANGED <<Rows, portfolio, raced>>
      BY <1>4 DEF Begin, Loaded
    <2>2. /\ new \in Opp /\ new.prospect = opp[o].prospect /\ new.customer = opp[o].customer
          /\ (Stampy(opp[o]) => Stampy(new))
      BY <1>2 DEF Opened, Reopened, Opp, Stampy, Stages, OpenStages
    <2> HIDE DEF new
    <2>3. q \in Plan
      BY <2>2, NoPlanFacts DEF Plan
    <2>4. q.o = o /\ q.p = 0 /\ q.c = 0 /\ q.newO = new
      BY DEF NoPlan
    <2> HIDE DEF q
    <2>5. Refs(q) /\ (~raced => Sound(q))
      BY <2>2, <2>4, OnFileFacts, KnownFacts DEF Sound, Refs, Known
    <2> QED
      BY <1>2, <2>1, <2>3, <2>5, BeginInv
  <1>5. CASE /\ p # 0 /\ prospect[p].customer # 0
             /\ Begin(r, [NoPlan EXCEPT !.o = o,
                            !.newO = [Opened(opp[o]) EXCEPT !.customer = prospect[p].customer]])
    <2> DEFINE c == prospect[p].customer
               new == [Opened(opp[o]) EXCEPT !.customer = c]
               q == [NoPlan EXCEPT !.o = o, !.newO = new]
    <2>1. req' = [req EXCEPT ![r] = Loaded(q)] /\ served' = served + 1
          /\ UNCHANGED <<Rows, portfolio, raced>>
      BY <1>5 DEF Begin, Loaded
    <2>2. p \in Prospects
      BY <1>3, <1>5
    <2>3. c \in Customers /\ Known(c)
      <3>1. prospect[p].customer \in Customers \cup {0}
        BY <2>2, RowTypes DEF Prospect
      <3> QED
        BY <1>5, <2>2, <3>1, KnownFacts
    <2> HIDE DEF c
    <2>4. /\ new \in Opp /\ new.prospect = p /\ new.customer = c
          /\ (Stampy(opp[o]) => Stampy(new))
      BY <1>2, <2>3, OpenedFacts
    <2> HIDE DEF new
    <2>5. q \in Plan
      BY <2>4, NoPlanFacts DEF Plan
    <2>6. q.o = o /\ q.p = 0 /\ q.c = 0 /\ q.newO = new
      BY DEF NoPlan
    <2> HIDE DEF q
    <2>7. ~raced => (p # 0 => prospect[p].status # "NONE")
      BY OnFileFacts
    <2>8. Refs(q) /\ (~raced => Sound(q))
      BY <1>3, <2>3, <2>4, <2>6, <2>7, KnownFacts DEF Sound, Refs, Known
    <2> QED
      BY <1>2, <2>1, <2>5, <2>8, BeginInv
  <1>6. ASSUME NEW c \in Customers, p # 0, prospect[p].customer = 0, FreshCustomer(c),
               Begin(r, [NoPlan EXCEPT !.o = o, !.p = p, !.c = c,
                              !.newO = [Opened(opp[o]) EXCEPT !.customer = c],
                              !.newP = Quoted(prospect[p], c),
                              !.newC = CustomerFrom(p)])
        PROVE  Inv'
    <2> DEFINE new == [Opened(opp[o]) EXCEPT !.customer = c]
               row == Quoted(prospect[p], c)
               party == CustomerFrom(p)
               q == [NoPlan EXCEPT !.o = o, !.p = p, !.c = c, !.newO = new, !.newP = row, !.newC = party]
    <2>1. req' = [req EXCEPT ![r] = Loaded(q)] /\ served' = served + 1
          /\ UNCHANGED <<Rows, portfolio, raced>>
      BY <1>6 DEF Begin, Loaded
    <2>2. p \in Prospects
      BY <1>3, <1>6
    <2>3. /\ new \in Opp /\ new.prospect = p /\ new.customer = c
          /\ (Stampy(opp[o]) => Stampy(new))
      BY <1>2, OpenedFacts
    <2>4. row \in Prospect /\ row.status = prospect[p].status /\ row.customer = c
      <3>1. prospect[p] \in Prospect
        BY <2>2, RowTypes
      <3> QED
        BY <3>1 DEF Quoted, Prospect
    <2>5. party \in Customer /\ party.exists /\ party.from = p
      BY <2>2, CustomerFromFacts
    <2> HIDE DEF new, row, party
    <2>6. q \in Plan
      BY <2>2, <2>3, <2>4, <2>5, NoPlanFacts DEF Plan
    <2>7. q.o = o /\ q.p = p /\ q.c = c /\ q.newO = new /\ q.newP = row /\ q.newC = party
      BY DEF NoPlan
    <2> HIDE DEF q
    <2>8. ~raced => prospect[p].status # "NONE"
      BY <1>6, OnFileFacts
    <2>9. c # 0
      BY RowTypes
    <2>10. Refs(q) /\ (~raced => Sound(q))
      BY <1>3, <1>6, <2>3, <2>4, <2>5, <2>7, <2>8, <2>9, KnownFacts DEF Sound, Refs, Known
    <2> QED
      BY <1>2, <2>1, <2>6, <2>10, BeginInv
  <1> QED
    BY <1>1, <1>4, <1>5, <1>6

\* The customer an opportunity is converted to is on file, or comes of its prospect, which has none.
LEMMA TargetFacts ==
  ASSUME Inv, NEW o \in Opps, NEW c \in Customers, Target(o, c), ~customer[c].exists
  PROVE  opp[o].prospect \in Prospects /\ prospect[opp[o].prospect].customer = 0
  <1> DEFINE p == opp[o].prospect
  <1>1. p \in Prospects \cup {0}
    BY RowTypes DEF Opp
  <1>2. c # 0
    BY RowTypes
  <1>3. CASE c = opp[o].customer
    BY <1>2, <1>3, KnownFacts DEF Known
  <1>4. CASE p # 0 /\ c = prospect[p].customer
    BY <1>1, <1>2, <1>4, KnownFacts DEF Known
  <1>5. CASE p # 0 /\ prospect[p].customer = 0
    BY <1>1, <1>5
  <1> QED
    BY <1>3, <1>4, <1>5 DEF Target

LEMMA ConvertInv ==
  ASSUME Inv, NEW r \in Threads, Convert(r)
  PROVE  Inv'
  <1>1. PICK o \in Opps, c \in Customers :
          /\ opp[o].stage = "WON"
          /\ customer[c].exists \/ Target(o, c)
          /\ LET p == opp[o].prospect
             IN  Begin(r, [NoPlan EXCEPT !.o = o, !.p = p, !.c = c,
                             !.newO = [opp[o] EXCEPT !.customer = c],
                             !.newP = IF p = 0 THEN NoProspect
                                      ELSE [prospect[p] EXCEPT !.customer = c, !.status = "CONVERTED"],
                             !.newC = IF customer[c].exists THEN [customer[c] EXCEPT !.client = TRUE]
                                                            ELSE CustomerFrom(p)])
    BY DEF Convert
  <1> DEFINE p == opp[o].prospect
             new == [opp[o] EXCEPT !.customer = c]
             row == IF p = 0 THEN NoProspect
                    ELSE [prospect[p] EXCEPT !.customer = c, !.status = "CONVERTED"]
             party == IF customer[c].exists THEN [customer[c] EXCEPT !.client = TRUE] ELSE CustomerFrom(p)
             q == [NoPlan EXCEPT !.o = o, !.p = p, !.c = c, !.newO = new, !.newP = row, !.newC = party]
  <1>2. req' = [req EXCEPT ![r] = Loaded(q)] /\ served' = served + 1
        /\ UNCHANGED <<Rows, portfolio, raced>>
    BY <1>1 DEF Begin, Loaded
  <1>3. opp[o] \in Opp /\ customer[c] \in Customer /\ p \in Prospects \cup {0} /\ c # 0
    BY RowTypes DEF Opp
  <1>4. /\ new \in Opp /\ new.prospect = p /\ new.customer = c
        /\ Stampy(opp[o]) => Stampy(new)
    BY <1>3 DEF Opp, Stampy
  <1>5. row \in Prospect /\ (p # 0 => row.status = "CONVERTED" /\ row.customer = c)
    <2>1. CASE p = 0
      BY <2>1, RowFacts
    <2>2. CASE p # 0
      <3>1. prospect[p] \in Prospect
        BY <1>3, <2>2, RowTypes
      <3> QED
        BY <2>2, <3>1 DEF Prospect
    <2> QED
      BY <2>1, <2>2
  <1>6. /\ party \in Customer /\ party.exists
        /\ party.from = customer[c].from \/ (party.from = p /\ p # 0 /\ prospect[p].customer = 0)
    <2>1. CASE customer[c].exists
      BY <1>3, <2>1 DEF Customer
    <2>2. CASE ~customer[c].exists
      <3>1. p \in Prospects /\ prospect[p].customer = 0 /\ p # 0
        BY <1>1, <2>2, TargetFacts, RowTypes
      <3>2. CustomerFrom(p) \in Customer /\ CustomerFrom(p).exists /\ CustomerFrom(p).from = p
        BY <3>1, CustomerFromFacts
      <3> QED
        BY <2>2, <3>1, <3>2
    <2> QED
      BY <2>1, <2>2
  <1> HIDE DEF new, row, party
  <1>7. q \in Plan
    BY <1>3, <1>4, <1>5, <1>6, NoPlanFacts DEF Plan
  <1>8. q.o = o /\ q.p = p /\ q.c = c /\ q.newO = new /\ q.newP = row /\ q.newC = party
    BY DEF NoPlan
  <1> HIDE DEF q
  <1>9. Refs(q) /\ (~raced => Sound(q))
    BY <1>3, <1>4, <1>5, <1>6, <1>8, OnFileFacts DEF Sound, Refs
  <1>10. Ready(r)
    BY DEF Convert
  <1> QED
    BY <1>2, <1>7, <1>9, <1>10, BeginInv

-----------------------------------------------------------------------------
(* Activities and parties *)

LEMMA ActivityInv ==
  ASSUME Inv, NEW r \in Threads, CreateActivity(r) \/ CompleteActivity(r)
  PROVE  Inv'
  <1>1. PICK a \in Activities, new \in Activity : Begin(r, [NoPlan EXCEPT !.a = a, !.newA = new])
    <2>1. CASE CreateActivity(r)
      <3>1. PICK a \in Activities, o \in Opps \cup {0}, p \in Prospects \cup {0}, x \in Users :
              Begin(r, [NoPlan EXCEPT !.a = a, !.newA = NewActivity(o, p, x)])
        BY <2>1 DEF CreateActivity
      <3>2. NewActivity(o, p, x) \in Activity
        BY DEF NewActivity, Activity
      <3> QED
        BY <3>1, <3>2
    <2>2. CASE CompleteActivity(r)
      <3>1. PICK a \in Activities :
              Begin(r, [NoPlan EXCEPT !.a = a, !.newA = [activity[a] EXCEPT !.status = "DONE"]])
        BY <2>2 DEF CompleteActivity
      <3>2. [activity[a] EXCEPT !.status = "DONE"] \in Activity
        BY RowTypes DEF Activity
      <3>3. PICK new \in Activity : new = [activity[a] EXCEPT !.status = "DONE"]
        BY <3>2
      <3>4. Begin(r, [NoPlan EXCEPT !.a = a, !.newA = new])
        BY <3>1, <3>3 DEF Begin
      <3> QED
        BY <3>4
    <2> QED
      BY <2>1, <2>2
  <1> DEFINE q == [NoPlan EXCEPT !.a = a, !.newA = new]
  <1>2. req' = [req EXCEPT ![r] = Loaded(q)] /\ served' = served + 1
        /\ UNCHANGED <<Rows, portfolio, raced>>
    BY <1>1 DEF Begin, Loaded
  <1>3. q \in Plan
    BY NoPlanFacts DEF Plan
  <1>4. q.o = 0 /\ q.p = 0 /\ q.c = 0
    BY DEF NoPlan
  <1> HIDE DEF q
  <1>5. Refs(q) /\ Sound(q)
    BY <1>4 DEF Refs, Sound
  <1>6. Ready(r)
    BY DEF CreateActivity, CompleteActivity
  <1> QED
    BY <1>2, <1>3, <1>5, <1>6, BeginInv

LEMMA RegisterPartyInv ==
  ASSUME Inv, RegisterParty
  PROVE  Inv'
  <1>1. PICK c \in Customers, w \in Persons, isClient \in BOOLEAN :
          /\ served < MaxRequests /\ FreshCustomer(c)
          /\ customer' = [customer EXCEPT ![c] = [exists |-> TRUE, who |-> w, client |-> isClient, from |-> 0]]
          /\ served' = served + 1
          /\ UNCHANGED <<prospect, opp, activity, portfolio, req, raced>>
    BY DEF RegisterParty
  <1> DEFINE row == [exists |-> TRUE, who |-> w, client |-> isClient, from |-> 0]
  <1>2. row \in Customer /\ row.exists /\ row.from = 0
    BY DEF Customer
  <1> HIDE DEF row
  <1>3. customer \in [Customers -> Customer] /\ customer' = [customer EXCEPT ![c] = row]
    BY <1>1 DEF Inv, TypeOK, row
  <1>4. /\ customer' \in [Customers -> Customer] /\ customer'[c] = row
        /\ \A d \in Customers : d # c => customer'[d] = customer[d]
    BY <1>2, <1>3
  <1>5. served' \in 0 .. MaxRequests
    <2>1. served \in 0 .. MaxRequests
      BY DEF Inv, TypeOK
    <2> QED
      BY <1>1, <2>1, CrmAssumption
  <1>6. TypeOK'
    BY <1>1, <1>4, <1>5 DEF Inv, TypeOK
  <1>7. ~customer[c].exists /\ \A s \in Threads : req[s].c # c
    BY <1>1, FreshCustomerFacts
  <1>8. \A d \in Customers : customer[d].exists => customer'[d].exists
    BY <1>2, <1>4
  <1>9. \A s \in Threads : req[s] \in Plan
    BY DEF Inv, TypeOK
  <1>10. \A d \in Customers \cup {0} : Known(d) => Known(d)'
    BY <1>8 DEF Known
  <1>11. RefsOK'
    <2>1. \A o \in Opps : (opp[o].customer # 0 => customer'[opp[o].customer].exists)
      BY <1>8, KnownFacts, RowTypes DEF Known, Opp
    <2>2. \A p \in Prospects : (prospect[p].customer # 0 => customer'[prospect[p].customer].exists)
      BY <1>8, KnownFacts, RowTypes DEF Known, Prospect
    <2>3. ASSUME NEW s \in Threads, req[s].step = "commit"
          PROVE  Refs(req[s])' /\ StillThere(req[s])'
      <3> DEFINE q == req[s]
      <3>1. Refs(q) /\ StillThere(q)
        BY <2>3 DEF Inv, RefsOK
      <3>2. /\ q.newO.customer \in Customers \cup {0} /\ q.newP.customer \in Customers \cup {0}
            /\ q.c \in Customers \cup {0}
        BY <1>9 DEF Plan, Opp, Prospect
      <3>3. /\ q.o # 0 => (q.newO.customer # 0 => customer'[q.newO.customer].exists) \/ q.newO.customer = q.c
            /\ q.p # 0 => (q.newP.customer # 0 => customer'[q.newP.customer].exists) \/ q.newP.customer = q.c
            /\ q.c # 0 => q.newC.exists
            /\ q.c # 0 /\ q.sawC.exists => customer'[q.c].exists
        BY <1>8, <3>1, <3>2 DEF Refs, StillThere, Known
      <3>4. req'[s] = q
        BY <1>1
      <3> HIDE DEF q
      <3> QED
        BY <3>3, <3>4 DEF Refs, StillThere, Known
    <2> QED
      BY <1>1, <2>1, <2>2, <2>3 DEF RefsOK, Known
  <1>12. ASSUME ~raced PROVE Orderly'
    <2>1. WorldOK /\ \A s \in Threads :
            req[s].step = "commit" /\ ~req[s].stale => Fits(req[s]) /\ Sound(req[s])
      BY <1>12 DEF Inv, Orderly
    <2>2. WorldOK'
      <3>1. \A d \in Customers : customer'[d].from # 0 => d # c /\ customer'[d] = customer[d]
        BY <1>2, <1>4
      <3>2. \A d \in Customers : customer'[d].from # 0 => prospect[customer'[d].from].customer # 0
        BY <2>1, <3>1 DEF WorldOK
      <3>3. \A d, e \in Customers : customer'[d].from # 0 /\ customer'[d].from = customer'[e].from => d = e
        BY <2>1, <3>1 DEF WorldOK
      <3> QED
        BY <1>1, <2>1, <3>2, <3>3 DEF WorldOK
    <2>3. \A s \in Threads : req[s].c # 0 => customer'[req[s].c] = customer[req[s].c]
      BY <1>4, <1>7, <1>9 DEF Plan
    <2>4. \A s \in Threads : req[s].step = "commit" /\ ~req[s].stale => Fits(req[s])' /\ Sound(req[s])'
      BY <1>1, <2>1, <2>3 DEF Fits, Sound
    <2> QED
      BY <1>1, <2>2, <2>4 DEF Orderly
  <1>13. raced => Orderly'
    BY <1>1 DEF Orderly
  <1> QED
    BY <1>6, <1>11, <1>12, <1>13 DEF Inv

-----------------------------------------------------------------------------
(* Committing *)

\* The rows a commit leaves, and the plans of the others.
LEMMA CommitRows ==
  ASSUME Inv, NEW r \in Threads, Commit(r)
  PROVE  /\ \A o \in Opps : opp'[o] =
              IF o = req[r].o THEN Merge(opp[o], req[r].sawO, req[r].newO, req[r].stamps) ELSE opp[o]
         /\ \A p \in Prospects : prospect'[p] =
              IF p = req[r].p THEN Merge(prospect[p], req[r].sawP, req[r].newP, {}) ELSE prospect[p]
         /\ \A c \in Customers : customer'[c] =
              IF c = req[r].c THEN Merge(customer[c], req[r].sawC, req[r].newC, {}) ELSE customer[c]
         /\ raced' = (raced \/ req[r].stale)
         /\ req'[r] = NoPlan
         /\ \A s \in Threads : s # r => req'[s] = [req[s] EXCEPT !.stale = (req[s].step = "commit")]
  BY DEF Commit

\* A field of a merged row is the stored one or the new one.
LEMMA MergedCustomerOfOpp ==
  ASSUME NEW stored \in Opp, NEW saw, NEW new \in Opp, NEW stamps
  PROVE  Merge(stored, saw, new, stamps).customer \in {stored.customer, new.customer}
  BY DEF Merge, Opp

LEMMA MergedCustomerOfProspect ==
  ASSUME NEW stored \in Prospect, NEW saw, NEW new \in Prospect, NEW stamps
  PROVE  Merge(stored, saw, new, stamps).customer \in {stored.customer, new.customer}
  BY DEF Merge, Prospect

LEMMA MergedExists ==
  ASSUME NEW stored \in Customer, NEW saw \in Customer, NEW new \in Customer, NEW stamps,
         new.exists, saw.exists => stored.exists
  PROVE  Merge(stored, saw, new, stamps).exists
  BY DEF Merge, Customer

LEMMA CommitTypes ==
  ASSUME Inv, NEW r \in Threads, Commit(r)
  PROVE  TypeOK'
  <1>1. req[r] \in Plan
    BY DEF Inv, TypeOK
  <1> DEFINE q == req[r]
  <1>2. /\ q.sawO \in Opp /\ q.newO \in Opp /\ q.sawP \in Prospect /\ q.newP \in Prospect
        /\ q.sawC \in Customer /\ q.newC \in Customer /\ q.sawA \in Activity /\ q.newA \in Activity
        /\ q.stale \in BOOLEAN
    BY <1>1 DEF Plan
  <1>3. /\ opp' = [o \in Opps |-> IF o = q.o THEN Merge(opp[o], q.sawO, q.newO, q.stamps) ELSE opp[o]]
        /\ prospect' = [p \in Prospects |->
              IF p = q.p THEN Merge(prospect[p], q.sawP, q.newP, {}) ELSE prospect[p]]
        /\ customer' = [c \in Customers |->
              IF c = q.c THEN Merge(customer[c], q.sawC, q.newC, {}) ELSE customer[c]]
        /\ activity' = [a \in Activities |->
              IF a = q.a THEN Merge(activity[a], q.sawA, q.newA, {}) ELSE activity[a]]
        /\ raced' = (raced \/ q.stale)
    BY DEF Commit
  <1> HIDE DEF q
  <1>4. opp' \in [Opps -> Opp]
    BY <1>2, <1>3, RowTypes, MergeOpp
  <1>5. prospect' \in [Prospects -> Prospect]
    BY <1>2, <1>3, RowTypes, MergeProspect
  <1>6. customer' \in [Customers -> Customer]
    BY <1>2, <1>3, RowTypes, MergeCustomer
  <1>7. activity' \in [Activities -> Activity]
    BY <1>2, <1>3, RowTypes, MergeActivity
  <1>8. req' \in [Threads -> Plan]
    <2>1. ASSUME NEW s \in Threads PROVE [req[s] EXCEPT !.stale = (req[s].step = "commit")] \in Plan
      <3>1. PICK m \in Plan : m = req[s]
        BY DEF Inv, TypeOK
      <3>2. PICK old \in BOOLEAN : old = (m.step = "commit")
        OBVIOUS
      <3>3. [m EXCEPT !.stale = old] \in Plan
        BY DEF Plan
      <3> QED
        BY <3>1, <3>2, <3>3
    <2>2. req' = [s \in Threads |->
            IF s = r THEN NoPlan ELSE [req[s] EXCEPT !.stale = (req[s].step = "commit")]]
      BY DEF Commit
    <2> QED
      BY <2>1, <2>2, NoPlanFacts
  <1>9. raced' \in BOOLEAN
    BY <1>2, <1>3 DEF Inv, TypeOK
  <1>10. portfolio' \in [Users -> SUBSET Customers] /\ served' \in 0 .. MaxRequests
    BY DEF Commit, Inv, TypeOK
  <1> QED
    BY <1>4, <1>5, <1>6, <1>7, <1>8, <1>9, <1>10 DEF TypeOK

LEMMA CommitRefs ==
  ASSUME Inv, NEW r \in Threads, Commit(r)
  PROVE  RefsOK'
  <1> DEFINE q == req[r]
  <1>1. q \in Plan /\ q.step = "commit" /\ Refs(q) /\ StillThere(q)
    BY DEF Inv, TypeOK, RefsOK, Commit
  <1>2. /\ q.sawO \in Opp /\ q.newO \in Opp /\ q.sawP \in Prospect /\ q.newP \in Prospect
        /\ q.sawC \in Customer /\ q.newC \in Customer /\ q.c \in Customers \cup {0}
    BY <1>1 DEF Plan
  <1>3. /\ \A o \in Opps : opp'[o] =
             IF o = q.o THEN Merge(opp[o], q.sawO, q.newO, q.stamps) ELSE opp[o]
        /\ \A p \in Prospects : prospect'[p] =
             IF p = q.p THEN Merge(prospect[p], q.sawP, q.newP, {}) ELSE prospect[p]
        /\ \A c \in Customers : customer'[c] =
             IF c = q.c THEN Merge(customer[c], q.sawC, q.newC, {}) ELSE customer[c]
        /\ req'[r] = NoPlan
        /\ \A s \in Threads : s # r => req'[s] = [req[s] EXCEPT !.stale = (req[s].step = "commit")]
    BY CommitRows
  <1> HIDE DEF q
  <1>4. q.c # 0 => customer'[q.c].exists
    BY <1>1, <1>2, <1>3, RowTypes, MergedExists DEF Refs, StillThere
  <1>5. \A c \in Customers : customer[c].exists => customer'[c].exists
    <2> SUFFICES ASSUME NEW c \in Customers, customer[c].exists PROVE customer'[c].exists
      OBVIOUS
    <2>1. c # 0
      BY RowTypes
    <2> QED
      BY <1>3, <1>4, <2>1
  <1>6. \A o \in Opps : opp'[o].customer # 0 => customer'[opp'[o].customer].exists
    <2> SUFFICES ASSUME NEW o \in Opps, opp'[o].customer # 0 PROVE customer'[opp'[o].customer].exists
      OBVIOUS
    <2>1. opp[o] \in Opp /\ (opp[o].customer # 0 => customer[opp[o].customer].exists)
      BY RowTypes, KnownFacts DEF Known
    <2>2. opp[o].customer \in Customers \cup {0} /\ q.newO.customer \in Customers \cup {0}
      BY <1>2, <2>1 DEF Opp
    <2>3. CASE o # q.o
      BY <1>3, <1>5, <2>1, <2>2, <2>3
    <2>4. CASE o = q.o
      <3>1. o # 0
        BY DEF Opps
      <3>2. opp'[o].customer \in {opp[o].customer, q.newO.customer}
        BY <1>2, <1>3, <2>1, <2>4, MergedCustomerOfOpp
      <3>3. (q.newO.customer # 0 => customer[q.newO.customer].exists) \/ q.newO.customer = q.c
        BY <1>1, <2>4, <3>1 DEF Refs, Known
      <3> QED
        BY <1>4, <1>5, <2>1, <2>2, <3>2, <3>3
    <2> QED
      BY <2>3, <2>4
  <1>7. \A p \in Prospects : prospect'[p].customer # 0 => customer'[prospect'[p].customer].exists
    <2> SUFFICES ASSUME NEW p \in Prospects, prospect'[p].customer # 0
                 PROVE  customer'[prospect'[p].customer].exists
      OBVIOUS
    <2>1. prospect[p] \in Prospect /\ p # 0
          /\ (prospect[p].customer # 0 => customer[prospect[p].customer].exists)
      BY RowTypes, KnownFacts DEF Known
    <2>2. prospect[p].customer \in Customers \cup {0} /\ q.newP.customer \in Customers \cup {0}
      BY <1>2, <2>1 DEF Prospect
    <2>3. CASE p # q.p
      BY <1>3, <1>5, <2>1, <2>2, <2>3
    <2>4. CASE p = q.p
      <3>1. prospect'[p].customer \in {prospect[p].customer, q.newP.customer}
        BY <1>2, <1>3, <2>1, <2>4, MergedCustomerOfProspect
      <3>2. (q.newP.customer # 0 => customer[q.newP.customer].exists) \/ q.newP.customer = q.c
        BY <1>1, <2>1, <2>4 DEF Refs, Known
      <3> QED
        BY <1>4, <1>5, <2>1, <2>2, <3>1, <3>2
    <2> QED
      BY <2>3, <2>4
  <1>8. ASSUME NEW s \in Threads, req'[s].step = "commit"
        PROVE  Refs(req[s])' /\ StillThere(req[s])'
    <2>1. s # r
      BY <1>3, <1>8, NoPlanFacts
    <2> DEFINE m == req[s]
               n == req'[s]
    <2>2. n = [m EXCEPT !.stale = (m.step = "commit")] /\ m \in Plan
      BY <1>3, <2>1 DEF Inv, TypeOK
    <2>3. n.step = "commit"
      BY <1>8
    <2>4. m.step = "commit" => Refs(m) /\ StillThere(m)
      BY DEF Inv, RefsOK
    <2> HIDE DEF m, n
    <2>5. /\ n.o = m.o /\ n.p = m.p /\ n.c = m.c /\ n.newO = m.newO /\ n.newP = m.newP
          /\ n.newC = m.newC /\ n.sawC = m.sawC /\ n.step = m.step
      BY <2>2 DEF Plan
    <2>6. /\ m.newO.customer \in Customers \cup {0} /\ m.newP.customer \in Customers \cup {0}
          /\ m.c \in Customers \cup {0}
      BY <2>2 DEF Plan, Opp, Prospect
    <2>7. /\ n.o # 0 => (n.newO.customer # 0 => customer'[n.newO.customer].exists) \/ n.newO.customer = n.c
          /\ n.p # 0 => (n.newP.customer # 0 => customer'[n.newP.customer].exists) \/ n.newP.customer = n.c
          /\ n.c # 0 => n.newC.exists
          /\ n.c # 0 /\ n.sawC.exists => customer'[n.c].exists
      BY <1>5, <2>3, <2>4, <2>5, <2>6 DEF Refs, StillThere, Known
    <2> QED
      BY <2>7 DEF Refs, StillThere, Known, n
  <1> QED
    BY <1>6, <1>7, <1>8 DEF RefsOK, Known

\* The plan of a request nothing was committed after leaves the rows as it wants them.
LEMMA CommitOrder ==
  ASSUME Inv, NEW r \in Threads, Commit(r), ~raced'
  PROVE  WorldOK'
  <1> DEFINE q == req[r]
  <1>1. q \in Plan /\ q.step = "commit" /\ ~raced /\ ~q.stale
    BY CommitRows DEF Inv, TypeOK, Commit
  <1>2. WorldOK /\ Fits(q) /\ Sound(q)
    BY <1>1 DEF Inv, Orderly
  <1>3. q.newO \in Opp /\ q.newP \in Prospect /\ q.newC \in Customer
    BY <1>1 DEF Plan
  <1>4. /\ \A o \in Opps : opp'[o] =
             IF o = q.o THEN Merge(opp[o], q.sawO, q.newO, q.stamps) ELSE opp[o]
        /\ \A p \in Prospects : prospect'[p] =
             IF p = q.p THEN Merge(prospect[p], q.sawP, q.newP, {}) ELSE prospect[p]
        /\ \A c \in Customers : customer'[c] =
             IF c = q.c THEN Merge(customer[c], q.sawC, q.newC, {}) ELSE customer[c]
    BY CommitRows
  <1> HIDE DEF q
  <1>5. \A o \in Opps : o # 0 /\ opp'[o] = IF o = q.o THEN q.newO ELSE opp[o]
    BY <1>2, <1>3, <1>4, RowTypes, MergeOppUnseen DEF Fits, Opps
  <1>6. \A p \in Prospects : p # 0 /\ prospect'[p] = IF p = q.p THEN q.newP ELSE prospect[p]
    BY <1>2, <1>3, <1>4, RowTypes, MergeProspectUnseen DEF Fits
  <1>7. \A c \in Customers : c # 0 /\ customer'[c] = IF c = q.c THEN q.newC ELSE customer[c]
    BY <1>2, <1>3, <1>4, RowTypes, MergeCustomerUnseen DEF Fits
  <1>8. \A p \in Prospects : /\ prospect[p].status # "NONE" => prospect'[p].status # "NONE"
                             /\ prospect[p].customer # 0 => prospect'[p].customer # 0
    BY <1>2, <1>6 DEF Sound
  <1>9. \A o \in Opps : /\ Stampy(opp'[o])
                        /\ opp'[o].prospect # 0 => prospect'[opp'[o].prospect].status # "NONE"
    <2> SUFFICES ASSUME NEW o \in Opps
                 PROVE  /\ Stampy(opp'[o])
                        /\ opp'[o].prospect # 0 => prospect'[opp'[o].prospect].status # "NONE"
      OBVIOUS
    <2>1. opp[o].prospect \in Prospects \cup {0} /\ q.newO.prospect \in Prospects \cup {0}
      BY <1>3, RowTypes DEF Opp
    <2>2. CASE o # q.o
      BY <1>2, <1>5, <1>8, <2>1, <2>2 DEF WorldOK
    <2>3. CASE o = q.o
      <3>1. Stampy(q.newO)
        BY <1>2, <1>5, <2>3 DEF Sound
      <3>2. ASSUME q.newO.prospect # 0 PROVE prospect'[q.newO.prospect].status # "NONE"
        <4>1. q.newO.prospect \in Prospects
          BY <2>1, <3>2
        <4>2. prospect[q.newO.prospect].status # "NONE" \/ q.newO.prospect = q.p
          BY <1>2, <1>5, <2>3, <3>2 DEF Sound
        <4>3. q.p # 0 => q.newP.status # "NONE"
          BY <1>2 DEF Sound
        <4> QED
          BY <1>6, <1>8, <3>2, <4>1, <4>2, <4>3
      <3> QED
        BY <1>5, <2>3, <3>1, <3>2
    <2> QED
      BY <2>2, <2>3
  <1>10. \A p \in Prospects : prospect'[p].status = "NONE" => prospect'[p].customer = 0
    BY <1>2, <1>6 DEF WorldOK, Sound
  <1>11. \A c \in Customers : customer[c].from \in Prospects \cup {0}
    BY RowTypes DEF Customer
  <1>12. \A c \in Customers :
           \/ customer'[c].from = customer[c].from
           \/ /\ c = q.c /\ customer'[c].from = q.p /\ q.p # 0 /\ prospect[q.p].customer = 0
              /\ q.newP.customer # 0
    BY <1>2, <1>7 DEF Sound
  <1>13. q.newC.from \in Prospects \cup {0}
    BY <1>3 DEF Customer
  <1>14. \A c \in Customers : customer'[c].from # 0 => prospect'[customer'[c].from].customer # 0
    <2> SUFFICES ASSUME NEW c \in Customers, customer'[c].from # 0
                 PROVE  prospect'[customer'[c].from].customer # 0
      OBVIOUS
    <2>1. CASE customer'[c].from = customer[c].from
      BY <1>2, <1>8, <1>11, <2>1 DEF WorldOK
    <2>2. CASE c = q.c /\ customer'[c].from = q.p /\ q.newP.customer # 0
      <3>1. q.p \in Prospects
        BY <1>7, <1>13, <2>2
      <3> QED
        BY <1>6, <2>2, <3>1
    <2> QED
      BY <1>12, <2>1, <2>2
  <1>15. \A c, d \in Customers : customer'[c].from # 0 /\ customer'[c].from = customer'[d].from => c = d
    BY <1>2, <1>12 DEF WorldOK
  <1> QED
    BY <1>9, <1>10, <1>14, <1>15 DEF WorldOK, Stampy

LEMMA CommitInv ==
  ASSUME Inv, NEW r \in Threads, Commit(r)
  PROVE  Inv'
  <1>1. \A s \in Threads : ~(req'[s].step = "commit" /\ ~req'[s].stale)
    <2> SUFFICES ASSUME NEW s \in Threads PROVE ~(req'[s].step = "commit" /\ ~req'[s].stale)
      OBVIOUS
    <2>1. CASE s = r
      BY <2>1, CommitRows, NoPlanFacts
    <2>2. CASE s # r
      <3>1. req'[s] = [req[s] EXCEPT !.stale = (req[s].step = "commit")] /\ req[s] \in Plan
        BY <2>2, CommitRows DEF Inv, TypeOK
      <3> QED
        BY <3>1 DEF Plan
    <2> QED
      BY <2>1, <2>2
  <1>2. Orderly'
    BY <1>1, CommitOrder DEF Orderly
  <1> QED
    BY <1>2, CommitTypes, CommitRefs DEF Inv

-----------------------------------------------------------------------------
(* Every step, and the theorems *)

LEMMA StutterInv ==
  ASSUME Inv, UNCHANGED vars
  PROVE  Inv'
  BY DEF Inv, vars, TypeOK, RefsOK, Known, Refs, StillThere, Orderly, WorldOK, Fits, Sound

LEMMA StepInv == Inv /\ [Next]_vars => Inv'
  <1> SUFFICES ASSUME Inv, [Next]_vars PROVE Inv'
    OBVIOUS
  <1>1. ASSUME NEW r \in Threads, CreateProspect(r) \/ AssignProspect(r) \/ CreateOpportunity(r) \/ QuickCreate(r)
        PROVE  Inv'
    BY <1>1, CreateProspectInv, AssignProspectInv, CreateOpportunityInv, QuickCreateInv
  <1>2. ASSUME NEW r \in Threads, AssignOpportunity(r) \/ SetStage(r) \/ RefusedLost(r)
        PROVE  Inv'
    BY <1>2, AssignOpportunityInv, SetStageInv, RefusedLostInv
  <1>3. ASSUME NEW r \in Threads, Quote(r) \/ Convert(r) \/ CreateActivity(r) \/ CompleteActivity(r) \/ Commit(r)
        PROVE  Inv'
    BY <1>3, QuoteInv, ConvertInv, ActivityInv, CommitInv
  <1>4. CASE RegisterParty
    BY <1>4, RegisterPartyInv
  <1>5. CASE UNCHANGED vars
    BY <1>5, StutterInv
  <1> QED
    BY <1>1, <1>2, <1>3, <1>4, <1>5 DEF Next

LEMMA InvHolds == Spec => []Inv
  BY InitInv, StepInv, PTL DEF Spec

\* The rows and the plans of the requests are of their types.
THEOREM TypeCorrect == Spec => []TypeOK
  <1>1. Inv => TypeOK
    BY DEF Inv
  <1> QED
    BY <1>1, InvHolds, PTL

\* Quoted, won and converted through any of its opportunities, a prospect is entered once
\* in the customer file, unless a plan was committed after another one.
THEOREM OneCustomer == Spec => []OneCustomerEach
  <1>1. Inv => OneCustomerEach
    BY DEF Inv, Orderly, WorldOK, OneCustomerEach
  <1> QED
    BY <1>1, InvHolds, PTL

\* Under the same proviso neither stamp outlives its stage, but for a won_at that a refused
\* loss carried out of WON.
THEOREM StampsTell == Spec => []StampsFollowStage
  <1>1. Inv => StampsFollowStage
    BY DEF Inv, Orderly, WorldOK, Stampy, StampsFollowStage
  <1> QED
    BY <1>1, InvHolds, PTL

\* What is listed to a user, that user may open: however requests race.
THEOREM ListsAgree == Spec => []ListedOpens
  <1>1. 0 \notin Opps /\ 0 \notin Prospects
    BY DEF Opps, Prospects
  <1>2. ASSUME NEW u \in Users
        PROVE  \A p \in ListedProspects(u) : ProspectInScope(u, p)
    BY DEF ListedProspects, ProspectInScope
  <1>3. ASSUME NEW u \in Users
        PROVE  \A o \in ListedOpportunities(u) : OpportunityInScope(u, o)
    BY DEF ListedOpportunities, OpportunityInScope, ProspectInScope
  <1>4. ASSUME NEW u \in Users
        PROVE  \A a \in ListedActivities(u) : ActivityInScope(u, a)
    <2> SUFFICES ASSUME NEW a \in ListedActivities(u) PROVE ActivityInScope(u, a)
      OBVIOUS
    <2>1. /\ activity[a].opp \in ListedOpportunities(u) =>
               activity[a].opp # 0 /\ OpportunityInScope(u, activity[a].opp)
          /\ activity[a].prospect \in ListedProspects(u) =>
               activity[a].prospect # 0 /\ ProspectInScope(u, activity[a].prospect)
      BY <1>1, <1>2, <1>3, <1>4 DEF ListedOpportunities, ListedProspects
    <2> QED
      BY <2>1 DEF ListedActivities, ActivityInScope
  <1>5. ListedOpens
    BY <1>2, <1>3, <1>4 DEF ListedOpens
  <1> QED
    BY <1>5, PTL
=============================================================================
