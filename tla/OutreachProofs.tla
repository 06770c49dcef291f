---------------------------- MODULE OutreachProofs ----------------------------
(***************************************************************************)
(* Theorems about Outreach, for any customers, policies, ids, requests and *)
(* days: types, that what a phone was told is SYNCED is on file once, that *)
(* every document has its file, that the cooldown between statements is    *)
(* kept, and that what is listed opens.                                    *)
(***************************************************************************)
EXTENDS Outreach, SequenceTheorems, FiniteSetTheorems, TLAPS

-----------------------------------------------------------------------------
(* Types *)

Kinds == {"", "note", "doc", "office", "delete", "settings", "hand", "batch"}
Mail == [cust : Customers, auto : BOOLEAN, day : Day]

Request == [kind : Kinds, id : Ids \cup {None}, note : Seq(Note), doc : SUBSET Doc,
            drop : SUBSET Doc, told : BOOLEAN, deliveries : Seq(Delivery),
            todo : SUBSET Customers, sending : SUBSET Customers, day : Day, set : SUBSET Setting]

\* What a request of each kind will write.
Shape(q) ==
  /\ q.kind = "note" => /\ Len(q.note) = 1 /\ q.note[1].id = q.id /\ q.note[1].item \in Item
  /\ q.kind # "note" => \A i \in 1 .. Len(q.note) : q.note[i].id = None
  /\ q.kind = "doc" => q.doc # {} /\ q.id # None
  /\ q.doc # {} => q.kind \in {"doc", "office"} /\ \E d \in Doc : q.doc = {d} /\ d.id = q.id
  /\ q.kind = "" => q.deliveries = <<>>
  /\ q.kind # "delete" => q.drop = {}
  /\ q.kind = "office" => q.id = None
  /\ q.told => q.kind \in {"note", "doc"} /\ q.id # None
  /\ q.kind \notin {"hand", "batch"} => q.sending = {}

Types ==
  /\ holder \in [Policies -> Producers \cup {None}]
  /\ note \in Seq(Note) /\ doc \subseteq Doc /\ files \in Nat
  /\ disk \subseteq 1 .. files /\ \A d \in doc : d.stored \in 1 .. files
  /\ acked \in [{"note", "doc"} -> [Ids -> Item \cup {None}]]
  /\ owes \subseteq Customers /\ delivery \in Seq(Delivery) /\ mail \in Seq(Mail)
  /\ setting \in Setting /\ cache \subseteq Setting /\ (cache = {} \/ \E s \in Setting : cache = {s})
  /\ today \in Day /\ served \in 0 .. MaxRequests
  /\ req \in [Threads -> Request]
  /\ \A r \in Threads : Shape(req[r]) /\ \A d \in req[r].doc : d.stored \in 1 .. files

LEMMA NoPlanFacts ==
  /\ NoPlan \in Request /\ Shape(NoPlan) /\ NoPlan.kind = "" /\ NoPlan.doc = {} /\ NoPlan.drop = {}
  /\ NoPlan.deliveries = <<>> /\ ~NoPlan.told /\ NoPlan.note = <<>> /\ NoPlan.id = None
  /\ NoPlan.todo = {} /\ NoPlan.sending = {} /\ NoPlan.day \in Day /\ NoPlan.set = {}
  <1>1. /\ NoPlan.kind = "" /\ NoPlan.doc = {} /\ NoPlan.drop = {}
        /\ NoPlan.deliveries = <<>> /\ NoPlan.told = FALSE /\ NoPlan.note = <<>> /\ NoPlan.id = None
        /\ NoPlan.todo = {} /\ NoPlan.sending = {} /\ NoPlan.day = 1 /\ NoPlan.set = {}
    BY DEF NoPlan
  <1>2. 1 \in Day
    BY OutreachAssumption DEF Day
  <1>3. <<>> \in Seq(Note) /\ <<>> \in Seq(Delivery)
    OBVIOUS
  <1>4. NoPlan \in Request
    BY <1>2, <1>3 DEF NoPlan, Request, Kinds
  <1>5. NoPlan.note = <<>> /\ Len(<<>>) = 0 /\ \A i \in 1 .. 0 : FALSE
    <2>1. Len(<<>>) = 0
      BY EmptySeq
    <2>2. \A i \in 1 .. 0 : FALSE
      OBVIOUS
    <2> QED
      BY <1>1, <2>1, <2>2
  <1>6. Shape(NoPlan)
    BY <1>1, <1>5 DEF Shape
  <1> QED
    BY <1>1, <1>2, <1>4, <1>6

LEMMA AppendFacts ==
  ASSUME NEW S, NEW s \in Seq(S), NEW x \in S
  PROVE  /\ Append(s, x) \in Seq(S) /\ Len(Append(s, x)) = Len(s) + 1
         /\ Len(s) \in Nat /\ DOMAIN s = 1 .. Len(s) /\ DOMAIN Append(s, x) = 1 .. Len(s) + 1
         /\ \A i \in 1 .. Len(s) : Append(s, x)[i] = s[i]
         /\ Append(s, x)[Len(s) + 1] = x
         /\ Range(Append(s, x)) = Range(s) \cup {x}
  <1>1. /\ Append(s, x) \in Seq(S) /\ Len(Append(s, x)) = Len(s) + 1
        /\ Len(s) \in Nat /\ DOMAIN s = 1 .. Len(s) /\ DOMAIN Append(s, x) = 1 .. Len(s) + 1
        /\ \A i \in 1 .. Len(s) : Append(s, x)[i] = s[i]
        /\ Append(s, x)[Len(s) + 1] = x
    OBVIOUS
  <1>2. \A i : i \in 1 .. Len(s) + 1 <=> i \in 1 .. Len(s) \/ i = Len(s) + 1
    BY <1>1
  <1>3. Range(Append(s, x)) = Range(s) \cup {x}
    BY <1>1, <1>2, Zenon DEF Range
  <1> QED
    BY <1>1, <1>3

LEMMA ConfigType ==
  ASSUME Types
  PROVE  Config \in Setting
  BY DEF Types, Config

LEMMA ServedMore ==
  ASSUME Types, served < MaxRequests, served' = served + 1
  PROVE  served' \in 0 .. MaxRequests
  <1>1. served \in 0 .. MaxRequests
    BY DEF Types
  <1> QED
    BY <1>1, OutreachAssumption

\* A request that moves to q: what is left to show of the types.
LEMMA MovesTypes ==
  ASSUME Types, NEW r \in Threads, NEW q \in Request, Shape(q), req' = [req EXCEPT ![r] = q],
         files' \in Nat, files <= files', \A d \in q.doc : d.stored \in 1 .. files'
  PROVE  /\ req' \in [Threads -> Request] /\ req'[r] = q
         /\ \A s \in Threads : s # r => req'[s] = req[s]
         /\ \A s \in Threads : Shape(req'[s]) /\ \A d \in req'[s].doc : d.stored \in 1 .. files'
  <1>1. /\ req' \in [Threads -> Request] /\ req'[r] = q
        /\ \A s \in Threads : s # r => req'[s] = req[s]
    BY DEF Types
  <1>2. files \in Nat /\ \A i \in 1 .. files : i \in 1 .. files'
    BY DEF Types
  <1>3. ASSUME NEW s \in Threads
        PROVE  Shape(req'[s]) /\ \A d \in req'[s].doc : d.stored \in 1 .. files'
    BY <1>1, <1>2 DEF Types
  <1> QED
    BY <1>1, <1>3

LEMMA InitTypes == Init => Types
  <1> SUFFICES ASSUME Init PROVE Types
    OBVIOUS
  <1>1. /\ note = <<>> /\ note \in Seq(Note) /\ delivery \in Seq(Delivery) /\ mail \in Seq(Mail)
    BY DEF Init
  <1>2. 1 \in Day /\ 0 \in 0 .. MaxRequests
    BY OutreachAssumption DEF Day
  <1>3. setting \in Setting
    <2>1. [auto |-> FALSE, mail |-> FALSE] \in Setting /\ [auto |-> TRUE, mail |-> TRUE] \in Setting
      BY DEF Setting
    <2> QED
      BY <2>1 DEF Init
  <1>4. req \in [Threads -> Request] /\ \A r \in Threads : req[r] = NoPlan
    BY NoPlanFacts DEF Init
  <1>5. acked \in [{"note", "doc"} -> [Ids -> Item \cup {None}]]
    BY DEF Init
  <1> QED
    BY <1>1, <1>2, <1>3, <1>4, <1>5, NoPlanFacts DEF Init, Types

-----------------------------------------------------------------------------
(* The requests as they begin *)

ANote(i, item) == [NoPlan EXCEPT !.kind = "note", !.id = i, !.note = <<[id |-> i, item |-> item]>>]
ADoc(kind, i, item) ==
  [NoPlan EXCEPT !.kind = kind, !.id = i, !.doc = {[id |-> i, item |-> item, stored |-> Stored(item)]}]
ADeletion(d) == [NoPlan EXCEPT !.kind = "delete", !.drop = {d}]

LEMMA ANoteFacts ==
  ASSUME NEW i \in Ids \cup {None}, NEW item \in Item
  PROVE  LET q == ANote(i, item)
         IN  /\ q \in Request /\ Shape(q) /\ q.kind = "note" /\ q.id = i /\ q.doc = {} /\ q.drop = {}
             /\ q.deliveries = <<>> /\ q.told = FALSE /\ Payload(q) = item
  <1> DEFINE n == [id |-> i, item |-> item]
             q == ANote(i, item)
  <1>1. n \in Note /\ n.id = i /\ n.item = item
    BY DEF Note
  <1> HIDE DEF n
  <1>2. q = [NoPlan EXCEPT !.kind = "note", !.id = i, !.note = <<n>>]
    BY DEF ANote, n
  <1>3. <<n>> \in Seq(Note) /\ Len(<<n>>) = 1 /\ <<n>>[1] = n
    BY <1>1
  <1> DEFINE s == <<n>>
  <1> HIDE DEF s
  <1>4. q = [NoPlan EXCEPT !.kind = "note", !.id = i, !.note = s] /\ s \in Seq(Note)
    BY <1>2, <1>3 DEF s
  <1>5. /\ q \in Request /\ q.kind = "note" /\ q.id = i /\ q.doc = {} /\ q.drop = {}
        /\ q.deliveries = <<>> /\ q.told = FALSE /\ q.note = s /\ q.sending = {}
    BY <1>4, NoPlanFacts DEF Request, Kinds
  <1> HIDE DEF q
  <1>6. Shape(q)
    BY <1>1, <1>3, <1>5 DEF Shape, s
  <1>7. Payload(q) = item
    BY <1>1, <1>3, <1>5 DEF Payload, s
  <1> QED
    BY <1>5, <1>6, <1>7 DEF q

LEMMA ADocFacts ==
  ASSUME Types, NEW kind \in {"doc", "office"}, NEW i \in Ids \cup {None}, NEW item \in Item,
         kind = "doc" => i # None, kind = "office" => i = None
  PROVE  /\ ADoc(kind, i, item) \in Request /\ Shape(ADoc(kind, i, item))
         /\ \E d \in Doc : /\ ADoc(kind, i, item).doc = {d} /\ d.id = i /\ d.item = item
                           /\ d.stored = files + 1
  <1> DEFINE q == ADoc(kind, i, item)
             d == [id |-> i, item |-> item, stored |-> files + 1]
  <1>1. d \in Doc /\ d.id = i /\ d.item = item /\ d.stored = files + 1
    BY DEF Doc, Types
  <1> HIDE DEF d
  <1>2. q = [NoPlan EXCEPT !.kind = kind, !.id = i, !.doc = {d}]
    BY DEF ADoc, Stored, d
  <1>3. /\ q \in Request /\ q.kind = kind /\ q.id = i /\ q.doc = {d} /\ q.drop = {}
        /\ q.deliveries = <<>> /\ q.told = FALSE /\ q.note = <<>> /\ q.sending = {}
    <2>1. kind \in Kinds /\ {d} \in SUBSET Doc
      BY <1>1 DEF Kinds
    <2> QED
      BY <1>2, <2>1, NoPlanFacts DEF Request
  <1> HIDE DEF q
  <1>4. \A j \in 1 .. Len(<<>>) : FALSE
    BY EmptySeq
  <1>5. Shape(q)
    BY <1>1, <1>3, <1>4 DEF Shape
  <1>6. \E e \in Doc : q.doc = {e} /\ e.id = i /\ e.item = item /\ e.stored = files + 1
    BY <1>1, <1>3
  <1> QED
    BY <1>3, <1>5, <1>6 DEF q

LEMMA ADocFields ==
  ASSUME NEW kind \in {"doc", "office"}, NEW i \in Ids \cup {None}, NEW item \in Item
  PROVE  /\ ADoc(kind, i, item).kind = kind /\ ADoc(kind, i, item).id = i
         /\ ADoc(kind, i, item).drop = {} /\ ADoc(kind, i, item).deliveries = <<>>
         /\ ADoc(kind, i, item).told = FALSE
  BY NoPlanFacts DEF ADoc, Request

LEMMA ADocDoc ==
  ASSUME NEW kind, NEW i, NEW item
  PROVE  ADoc(kind, i, item).doc = {[id |-> i, item |-> item, stored |-> files + 1]}
  BY DEF ADoc, Stored, NoPlan

LEMMA PayloadOfDoc ==
  ASSUME NEW q, q.kind = "doc", NEW d, q.doc = {d}
  PROVE  Payload(q) = d.item
  <1>1. (CHOOSE e \in {d} : TRUE) = d
    OBVIOUS
  <1> QED
    BY <1>1 DEF Payload

LEMMA ADeletionFacts ==
  ASSUME NEW d \in Doc
  PROVE  LET q == ADeletion(d)
         IN  /\ q \in Request /\ Shape(q) /\ q.kind = "delete" /\ q.doc = {} /\ q.drop = {d}
             /\ q.deliveries = <<>> /\ q.told = FALSE /\ q.note = <<>>
  <1> DEFINE q == ADeletion(d)
  <1>1. /\ q \in Request /\ q.kind = "delete" /\ q.doc = {} /\ q.drop = {d}
        /\ q.deliveries = <<>> /\ q.told = FALSE /\ q.note = <<>> /\ q.sending = {}
    BY NoPlanFacts DEF Request, Kinds, ADeletion
  <1> HIDE DEF q
  <1>2. \A j \in 1 .. Len(<<>>) : FALSE
    BY EmptySeq
  <1>3. Shape(q)
    BY <1>1, <1>2 DEF Shape
  <1> QED
    BY <1>1, <1>3 DEF q

\* The row of a statement.
Statement(q, c, status) ==
  [cust |-> c, status |-> status, auto |-> q.kind = "batch", day |-> q.day]

LEMMA RecordedFacts ==
  ASSUME NEW q \in Request, Shape(q), q.kind \in {"hand", "batch"}, NEW c \in Customers,
         NEW status \in {"SENT", "SKIPPED", "FAILED"}
  PROVE  LET m == Recorded(q, c, status)
         IN  /\ m \in Request /\ Shape(m) /\ m.kind = q.kind /\ m.doc = {} /\ m.drop = {}
             /\ m.told = FALSE /\ m.day = q.day /\ m.sending = q.sending
             /\ Range(m.deliveries) = Range(q.deliveries) \cup {Statement(q, c, status)}
  <1> DEFINE row == Statement(q, c, status)
             said == [id |-> None, item |-> [cust |-> c, pol |-> None, text |-> "mailed"]]
             ds == Append(q.deliveries, row)
             ns == IF status = "SENT" THEN Append(q.note, said) ELSE q.note
             m == Recorded(q, c, status)
  <1>1. row \in Delivery
    BY DEF Statement, Delivery, Request
  <1>2. said \in Note /\ said.id = None
    BY DEF Note
  <1>3. /\ q.note \in Seq(Note) /\ q.deliveries \in Seq(Delivery) /\ q.doc = {} /\ q.drop = {}
        /\ q.told = FALSE /\ \A i \in 1 .. Len(q.note) : q.note[i].id = None
    <2>1. q.note \in Seq(Note) /\ q.deliveries \in Seq(Delivery) /\ q.told \in BOOLEAN
      BY DEF Request
    <2>2. q.kind \notin {"note", "doc", "office", "delete"}
      OBVIOUS
    <2>3. q.told = FALSE /\ q.drop = {} /\ \A i \in 1 .. Len(q.note) : q.note[i].id = None
      BY <2>1, <2>2 DEF Shape
    <2>4. q.doc = {}
      BY <2>2 DEF Shape
    <2> QED
      BY <2>1, <2>3, <2>4
  <1>4. m = [q EXCEPT !.deliveries = ds, !.note = ns]
    BY DEF Recorded, Statement
  <1> HIDE DEF row, said
  <1>5. ds \in Seq(Delivery) /\ Range(ds) = Range(q.deliveries) \cup {row}
    BY <1>1, <1>3, AppendFacts
  <1>6. ns \in Seq(Note) /\ \A i \in 1 .. Len(ns) : ns[i].id = None
    <2>1. CASE status = "SENT"
      <3>1. Append(q.note, said) \in Seq(Note) /\ Len(q.note) \in Nat
            /\ Len(Append(q.note, said)) = Len(q.note) + 1
            /\ Append(q.note, said)[Len(q.note) + 1] = said
            /\ \A i \in 1 .. Len(q.note) : Append(q.note, said)[i] = q.note[i]
        BY <1>2, <1>3, AppendFacts
      <3>2. \A i \in 1 .. Len(q.note) + 1 : i \in 1 .. Len(q.note) \/ i = Len(q.note) + 1
        BY <3>1
      <3> QED
        BY <1>2, <1>3, <2>1, <3>1, <3>2
    <2>2. CASE status # "SENT"
      BY <1>3, <2>2
    <2> QED
      BY <2>1, <2>2
  <1> HIDE DEF ds, ns
  <1>7. /\ m \in Request /\ m.kind = q.kind /\ m.doc = {} /\ m.drop = {} /\ m.told = FALSE
        /\ m.day = q.day /\ m.deliveries = ds /\ m.note = ns /\ m.sending = q.sending
    BY <1>3, <1>4, <1>5, <1>6 DEF Request
  <1> HIDE DEF m
  <1>8. Shape(m)
    BY <1>6, <1>7 DEF Shape
  <1> QED
    BY <1>5, <1>7, <1>8 DEF m, row

\* A request about statements or settings, as it begins.
Plain(q) ==
  /\ q \in Request /\ Shape(q) /\ q.kind \in {"settings", "hand", "batch"} /\ q.doc = {} /\ q.drop = {}
  /\ q.deliveries = <<>> /\ q.told = FALSE /\ q.day \in Day /\ q.sending = {}

LEMMA PlainFacts ==
  ASSUME NEW q \in Request, q.kind \in {"settings", "hand", "batch"}, q.doc = {}, q.drop = {},
         q.deliveries = <<>>, q.told = FALSE, q.note = <<>>, q.sending = {}
  PROVE  Plain(q)
  <1>1. \A j \in 1 .. Len(<<>>) : FALSE
    BY EmptySeq
  <1>2. Shape(q)
    BY <1>1 DEF Shape
  <1>3. q.day \in Day
    BY DEF Request
  <1> QED
    BY <1>2, <1>3 DEF Plain

LEMMA PlainSettings ==
  ASSUME NEW s \in Setting
  PROVE  Plain([NoPlan EXCEPT !.kind = "settings", !.set = {s}])
  <1> DEFINE q == [NoPlan EXCEPT !.kind = "settings", !.set = {s}]
  <1>1. /\ q \in Request /\ q.kind = "settings" /\ q.doc = {} /\ q.drop = {} /\ q.deliveries = <<>>
        /\ q.told = FALSE /\ q.note = <<>> /\ q.sending = {}
    BY NoPlanFacts DEF Request, Kinds
  <1> HIDE DEF q
  <1>2. Plain(q)
    BY <1>1, PlainFacts
  <1> QED
    BY <1>2 DEF q

LEMMA PlainHand ==
  ASSUME NEW day \in Day
  PROVE  /\ Plain([NoPlan EXCEPT !.kind = "hand", !.day = day])
         /\ [NoPlan EXCEPT !.kind = "hand", !.day = day].kind = "hand"
  <1> DEFINE q == [NoPlan EXCEPT !.kind = "hand", !.day = day]
  <1>1. /\ q \in Request /\ q.kind = "hand" /\ q.doc = {} /\ q.drop = {} /\ q.deliveries = <<>>
        /\ q.told = FALSE /\ q.note = <<>> /\ q.sending = {}
    BY NoPlanFacts DEF Request, Kinds
  <1> HIDE DEF q
  <1>2. Plain(q)
    BY <1>1, PlainFacts
  <1> QED
    BY <1>1, <1>2 DEF q

LEMMA PlainBatch ==
  ASSUME NEW todo \in SUBSET Customers, NEW day \in Day
  PROVE  /\ Plain([NoPlan EXCEPT !.kind = "batch", !.todo = todo, !.day = day])
         /\ [NoPlan EXCEPT !.kind = "batch", !.todo = todo, !.day = day].day = day
  <1> DEFINE q == [NoPlan EXCEPT !.kind = "batch", !.todo = todo, !.day = day]
  <1>1. /\ q \in Request /\ q.kind = "batch" /\ q.doc = {} /\ q.drop = {} /\ q.deliveries = <<>>
        /\ q.told = FALSE /\ q.note = <<>> /\ q.day = day /\ q.sending = {}
    BY NoPlanFacts DEF Request, Kinds
  <1> HIDE DEF q
  <1>2. Plain(q)
    BY <1>1, PlainFacts
  <1> QED
    BY <1>1, <1>2 DEF q

-----------------------------------------------------------------------------
(* Types are kept *)

Acks == [{"note", "doc"} -> [Ids -> Item \cup {None}]]

\* A step that leaves the tables alone: a request moves to q, or none does.
LEMMA QuietTypes ==
  ASSUME Types, Quiet, files' \in Nat, files <= files', disk' \subseteq 1 .. files',
         acked' \in Acks, mail' \in Seq(Mail),
         cache' \subseteq Setting, cache' = {} \/ \E s \in Setting : cache' = {s},
         served' \in 0 .. MaxRequests,
         req' = req \/ \E r \in Threads, q \in Request :
           Shape(q) /\ req' = [req EXCEPT ![r] = q] /\ \A d \in q.doc : d.stored \in 1 .. files'
  PROVE  Types'
  <1>1. \A i \in 1 .. files : i \in 1 .. files'
    BY DEF Types
  <1>2. /\ req' \in [Threads -> Request]
        /\ \A s \in Threads : Shape(req'[s]) /\ \A d \in req'[s].doc : d.stored \in 1 .. files'
    <2>1. CASE req' = req
      BY <1>1, <2>1 DEF Types
    <2>2. CASE \E r \in Threads, q \in Request :
                 Shape(q) /\ req' = [req EXCEPT ![r] = q] /\ \A d \in q.doc : d.stored \in 1 .. files'
      BY <2>2, MovesTypes
    <2> QED
      BY <2>1, <2>2
  <1> QED
    BY <1>1, <1>2 DEF Types, Quiet, Acks

\* The same when the files stay, or one is removed.
LEMMA QuietMoveTypes ==
  ASSUME Types, Quiet, NEW r \in Threads, NEW q \in Request, Shape(q), req' = [req EXCEPT ![r] = q],
         q.doc = {}, files' = files, disk' \subseteq disk, acked' = acked, mail' \in Seq(Mail),
         cache' \subseteq Setting, cache' = {} \/ \E s \in Setting : cache' = {s},
         served' \in 0 .. MaxRequests
  PROVE  Types'
  <1>1. /\ files' \in Nat /\ files <= files' /\ disk' \subseteq 1 .. files' /\ acked' \in Acks
        /\ \A d \in q.doc : d.stored \in 1 .. files'
    BY DEF Types, Acks
  <1>2. \E t \in Threads, m \in Request :
          Shape(m) /\ req' = [req EXCEPT ![t] = m] /\ \A d \in m.doc : d.stored \in 1 .. files'
    BY <1>1
  <1> QED
    BY <1>1, <1>2, QuietTypes

\* The bytes of an item on its way in; what was known to be SYNCED is confirmed again.
Repeated(kind) ==
  \E i \in Ids, item \in Item :
    /\ \/ kind = "note" /\ \E n \in Range(note) : n.id = i /\ n.item = item
       \/ kind = "doc" /\ \E d \in doc : d.id = i /\ d.item = item
    /\ acked' = [acked EXCEPT ![kind][i] = item]
    /\ Quiet /\ UNCHANGED <<disk, files, mail, cache, req, loose>>

LEMMA RangeType ==
  ASSUME NEW S, NEW s \in Seq(S)
  PROVE  /\ \A x \in Range(s) : x \in S
         /\ \A x \in Range(s) : \E i \in 1 .. Len(s) : x = s[i]
         /\ \A i \in 1 .. Len(s) : s[i] \in Range(s)
         /\ Len(s) \in Nat /\ DOMAIN s = 1 .. Len(s)
  <1>1. DOMAIN s = 1 .. Len(s) /\ \A i \in 1 .. Len(s) : s[i] \in S
    BY LenProperties, ElementOfSeq
  <1>2. Len(s) \in Nat
    BY LenProperties
  <1> QED
    BY <1>1, <1>2 DEF Range

LEMMA RepeatedTypes ==
  ASSUME Types, NEW kind \in {"note", "doc"}, Repeated(kind), served' \in 0 .. MaxRequests
  PROVE  Types'
  <1>1. PICK i \in Ids, item \in Item : acked' = [acked EXCEPT ![kind][i] = item]
    BY DEF Repeated
  <1>2. acked' \in Acks
    <2>1. acked \in Acks
      BY DEF Types, Acks
    <2> DEFINE row == [acked[kind] EXCEPT ![i] = item]
    <2>2. row \in [Ids -> Item \cup {None}]
      BY <2>1 DEF Acks
    <2>3. acked' = [acked EXCEPT ![kind] = row]
      BY <1>1
    <2> QED
      BY <2>1, <2>2, <2>3 DEF Acks
  <1>3. Quiet /\ UNCHANGED <<disk, files, mail, cache, req>>
    BY DEF Repeated
  <1> QED
    BY <1>2, <1>3, QuietTypes DEF Types

\* A phone sends an activity: it is on file, or will be written.
LEMMA CreateActivityCases ==
  ASSUME Types, NEW r \in Threads, CreateActivity(r)
  PROVE  /\ Types' /\ req[r].kind = ""
         /\ \/ Repeated("note")
            \/ \E i \in Ids \cup {None}, item \in Item :
                 /\ req' = [req EXCEPT ![r] = ANote(i, item)]
                 /\ Quiet /\ UNCHANGED <<disk, files, acked, mail, cache, loose>>
  <1>1. PICK u \in Users, i \in Ids \cup {None}, item \in Item :
          IF i # None /\ \E n \in Range(note) : n.id = i
            THEN \E n \in Range(note) : n.id = i /\ Replay("note", n, item)
            ELSE /\ Begin(r, ANote(i, item))
                 /\ Quiet
                 /\ UNCHANGED <<disk, files, acked, mail, cache, loose>>
    BY DEF CreateActivity, ANote
  <1>2. req[r].kind = "" /\ served < MaxRequests
    BY DEF CreateActivity, Ready
  <1>3. CASE i # None /\ \E n \in Range(note) : n.id = i
    <2>1. PICK n \in Range(note) : n.id = i /\ Replay("note", n, item)
      BY <1>1, <1>3
    <2>2. n.item = item /\ i \in Ids
      BY <1>3, <2>1 DEF Replay, Same
    <2>3. Repeated("note")
      BY <2>1, <2>2 DEF Replay, Repeated
    <2>4. served' \in 0 .. MaxRequests
      BY <1>2, <2>1, ServedMore DEF Replay
    <2> QED
      BY <1>2, <2>3, <2>4, RepeatedTypes
  <1>4. CASE ~(i # None /\ \E n \in Range(note) : n.id = i)
    <2> DEFINE q == ANote(i, item)
    <2>1. q \in Request /\ Shape(q) /\ q.doc = {}
      BY ANoteFacts
    <2>2. Begin(r, q) /\ Quiet /\ UNCHANGED <<disk, files, acked, mail, cache, loose>>
      BY <1>1, <1>4
    <2> HIDE DEF q
    <2>3. req' = [req EXCEPT ![r] = q] /\ served' \in 0 .. MaxRequests
      BY <1>2, <2>2, ServedMore DEF Begin
    <2>4. mail' \in Seq(Mail) /\ cache' \subseteq Setting /\ (cache' = {} \/ \E s \in Setting : cache' = {s})
      BY <2>2 DEF Types
    <2>5. Types'
      BY <2>1, <2>2, <2>3, <2>4, QuietMoveTypes
    <2> QED
      BY <1>2, <2>2, <2>3, <2>5 DEF q
  <1> QED
    BY <1>3, <1>4

\* The bytes of a new document are on disk, its row is not.
Arrives(r, kind, i, item) ==
  /\ req' = [req EXCEPT ![r] = ADoc(kind, i, item)]
  /\ disk' = disk \cup {files + 1} /\ files' = files + 1
  /\ Quiet /\ UNCHANGED <<acked, mail, cache, loose>>

LEMMA FilingTypes ==
  ASSUME Types, NEW r \in Threads, NEW kind \in {"doc", "office"}, NEW i \in Ids \cup {None},
         NEW item \in Item, kind = "doc" => i # None, kind = "office" => i = None,
         Ready(r), Filing(r, kind, i, item)
  PROVE  Types' /\ Arrives(r, kind, i, item)
  <1> DEFINE q == ADoc(kind, i, item)
  <1>1. /\ Begin(r, q) /\ disk' = disk \cup {files + 1} /\ files' = files + 1 /\ Quiet
        /\ UNCHANGED <<acked, mail, cache, loose>>
    BY DEF Filing, ADoc, Stored
  <1>2. q \in Request /\ Shape(q) /\ \E d \in Doc : q.doc = {d} /\ d.stored = files + 1
    BY ADocFacts
  <1> HIDE DEF q
  <1>3. req' = [req EXCEPT ![r] = q] /\ served' \in 0 .. MaxRequests
    BY <1>1, ServedMore DEF Begin, Ready
  <1>4. files \in Nat /\ files' \in Nat /\ files <= files' /\ files + 1 \in 1 .. files'
    BY <1>1 DEF Types
  <1>5. disk' \subseteq 1 .. files'
    <2>1. \A j \in 1 .. files : j \in 1 .. files'
      BY <1>4
    <2> QED
      BY <1>1, <1>4, <2>1 DEF Types
  <1>9. \A e \in q.doc : e.stored \in 1 .. files'
    BY <1>2, <1>4
  <1>6. \E t \in Threads, m \in Request :
          Shape(m) /\ req' = [req EXCEPT ![t] = m] /\ \A e \in m.doc : e.stored \in 1 .. files'
    BY <1>2, <1>3, <1>9
  <1>7. /\ acked' \in Acks /\ mail' \in Seq(Mail) /\ cache' \subseteq Setting
        /\ cache' = {} \/ \E s \in Setting : cache' = {s}
    BY <1>1 DEF Types, Acks
  <1>8. Types'
    BY <1>1, <1>3, <1>4, <1>5, <1>6, <1>7, QuietTypes
  <1> QED
    BY <1>1, <1>3, <1>8 DEF Arrives, q

LEMMA UploadDocumentCases ==
  ASSUME Types, NEW r \in Threads, UploadDocument(r)
  PROVE  /\ Types' /\ req[r].kind = ""
         /\ Repeated("doc") \/ \E i \in Ids, item \in Item : Arrives(r, "doc", i, item)
  <1>1. PICK u \in Users, i \in Ids, item \in Item :
          IF \E d \in doc : d.id = i
            THEN \E d \in doc : d.id = i /\ Replay("doc", d, item)
            ELSE Filing(r, "doc", i, item)
    BY DEF UploadDocument
  <1>2. Ready(r) /\ i # None
    BY OutreachAssumption DEF UploadDocument
  <1>3. CASE \E d \in doc : d.id = i
    <2>1. PICK d \in doc : d.id = i /\ Replay("doc", d, item)
      BY <1>1, <1>3
    <2>2. d.item = item
      BY <2>1 DEF Replay, Same
    <2>3. Repeated("doc")
      BY <2>1, <2>2 DEF Replay, Repeated
    <2>4. served' \in 0 .. MaxRequests
      BY <1>2, <2>1, ServedMore DEF Replay, Ready
    <2> QED
      BY <1>2, <2>3, <2>4, RepeatedTypes DEF Ready
  <1>4. CASE ~\E d \in doc : d.id = i
    BY <1>1, <1>2, <1>4, FilingTypes DEF Ready
  <1> QED
    BY <1>3, <1>4

LEMMA UploadAtOfficeCases ==
  ASSUME Types, NEW r \in Threads, UploadAtOffice(r)
  PROVE  /\ Types' /\ req[r].kind = ""
         /\ \E item \in Item : Arrives(r, "office", None, item)
  BY FilingTypes DEF UploadAtOffice, Ready

LEMMA DeleteDocumentCases ==
  ASSUME Types, NEW r \in Threads, DeleteDocument(r)
  PROVE  /\ Types' /\ req[r].kind = ""
         /\ \E d \in doc : /\ req' = [req EXCEPT ![r] = ADeletion(d)] /\ disk' = disk \ {d.stored}
                           /\ Quiet /\ UNCHANGED <<files, acked, mail, cache, loose>>
  <1>1. PICK d \in doc : Begin(r, ADeletion(d)) /\ disk' = disk \ {d.stored}
    BY DEF DeleteDocument, ADeletion
  <1>2. Ready(r) /\ Quiet /\ UNCHANGED <<files, acked, mail, cache, loose>>
    BY DEF DeleteDocument
  <1> DEFINE q == ADeletion(d)
  <1>3. q \in Request /\ Shape(q) /\ q.doc = {}
    BY ADeletionFacts DEF Types
  <1> HIDE DEF q
  <1>4. req' = [req EXCEPT ![r] = q] /\ served' \in 0 .. MaxRequests
    BY <1>1, <1>2, ServedMore DEF Begin, Ready, q
  <1>5. mail' \in Seq(Mail) /\ cache' \subseteq Setting /\ (cache' = {} \/ \E s \in Setting : cache' = {s})
    BY <1>2 DEF Types
  <1>6. Types'
    BY <1>1, <1>2, <1>3, <1>4, <1>5, QuietMoveTypes
  <1> QED
    BY <1>1, <1>2, <1>4, <1>6 DEF q, Ready

LEMMA AnswerTypes ==
  ASSUME Types, NEW r \in Threads, Answer(r)
  PROVE  /\ Types'
         /\ req[r] \in Request /\ Shape(req[r]) /\ req[r].kind \in {"note", "doc"}
         /\ req[r].id \in Ids /\ Payload(req[r]) \in Item
         /\ acked' = [acked EXCEPT ![req[r].kind][req[r].id] = Payload(req[r])]
  <1> DEFINE q == req[r]
             m == [q EXCEPT !.told = TRUE]
  <1>1. /\ q \in Request /\ Shape(q) /\ q.kind \in {"note", "doc"} /\ q.id # None
        /\ req' = [req EXCEPT ![r] = m] /\ acked' = [acked EXCEPT ![q.kind][q.id] = Payload(q)]
        /\ Quiet /\ UNCHANGED <<disk, files, mail, cache, served, loose>>
    BY DEF Answer, Types, Told
  <1>2. \A d \in q.doc : d.stored \in 1 .. files
    BY DEF Types
  <1> HIDE DEF q
  <1>3. q.id \in Ids
    BY <1>1 DEF Request
  <1>4. Payload(q) \in Item
    <2>1. CASE q.kind = "note"
      BY <1>1, <2>1 DEF Shape, Payload
    <2>2. CASE q.kind = "doc"
      <3>1. PICK d \in Doc : q.doc = {d}
        BY <1>1, <2>2 DEF Shape
      <3>2. Payload(q) = d.item
        BY <2>2, <3>1, PayloadOfDoc
      <3> QED
        BY <3>2 DEF Doc
    <2> QED
      BY <1>1, <2>1, <2>2
  <1>5. m \in Request /\ Shape(m) /\ m.doc = q.doc
    <2>1. /\ m \in Request /\ m.kind = q.kind /\ m.id = q.id /\ m.note = q.note /\ m.doc = q.doc
          /\ m.drop = q.drop /\ m.deliveries = q.deliveries /\ m.sending = q.sending
      BY <1>1 DEF Request
    <2> HIDE DEF m
    <2> QED
      BY <1>1, <2>1 DEF Shape
  <1> HIDE DEF m
  <1>6. acked' \in Acks
    <2> DEFINE row == [acked[q.kind] EXCEPT ![q.id] = Payload(q)]
    <2>1. acked \in Acks
      BY DEF Types, Acks
    <2>2. row \in [Ids -> Item \cup {None}]
      BY <1>1, <1>4, <2>1 DEF Acks
    <2>3. acked' = [acked EXCEPT ![q.kind] = row]
      BY <1>1
    <2> HIDE DEF row
    <2> QED
      BY <1>1, <2>1, <2>2, <2>3 DEF Acks
  <1>7. /\ files' \in Nat /\ files <= files' /\ disk' \subseteq 1 .. files' /\ mail' \in Seq(Mail)
        /\ cache' \subseteq Setting /\ (cache' = {} \/ \E s \in Setting : cache' = {s})
        /\ served' \in 0 .. MaxRequests
    BY <1>1 DEF Types
  <1>8. \E t \in Threads, n \in Request :
          Shape(n) /\ req' = [req EXCEPT ![t] = n] /\ \A d \in n.doc : d.stored \in 1 .. files'
    BY <1>1, <1>2, <1>5
  <1>9. Types'
    BY <1>1, <1>6, <1>7, <1>8, QuietTypes
  <1> QED
    BY <1>1, <1>3, <1>4, <1>9 DEF q

LEMMA CacheTypes ==
  ASSUME Types, LoadSettings \/ ExpireCache
  PROVE  Types' /\ req' = req /\ Quiet /\ UNCHANGED <<disk, files, acked, mail, loose>>
  <1>1. req' = req /\ Quiet /\ UNCHANGED <<disk, files, acked, mail, served, loose>>
    BY DEF LoadSettings, ExpireCache
  <1>2. cache' = {} \/ cache' = {Config}
    BY DEF LoadSettings, ExpireCache, Loaded
  <1>3. cache' \subseteq Setting /\ (cache' = {} \/ \E s \in Setting : cache' = {s})
    BY <1>2, ConfigType
  <1>4. /\ files' \in Nat /\ files <= files' /\ disk' \subseteq 1 .. files' /\ mail' \in Seq(Mail)
        /\ acked' \in Acks /\ served' \in 0 .. MaxRequests
    BY <1>1 DEF Types, Acks
  <1> QED
    BY <1>1, <1>3, <1>4, QuietTypes

\* A request about statements or settings begins: no file, no document, no answer.
LEMMA AnOfficeRequestTypes ==
  ASSUME Types, NEW r \in Threads, NEW q \in Request, Shape(q), q.doc = {}, Quiet,
         req' = [req EXCEPT ![r] = q], UNCHANGED <<disk, files, acked>>, mail' \in Seq(Mail),
         cache' \subseteq Setting, cache' = {} \/ \E s \in Setting : cache' = {s},
         served' \in 0 .. MaxRequests
  PROVE  Types'
  BY QuietMoveTypes

\* The setting a page reads is cached.
LEMMA LoadedTypes ==
  ASSUME Types, Loaded
  PROVE  cache' \subseteq Setting /\ (cache' = {} \/ \E s \in Setting : cache' = {s})
  BY ConfigType DEF Loaded

\* A request that is new, and says nothing yet.
Opened(r, q) == req[r].kind = "" /\ Plain(q) /\ req' = [req EXCEPT ![r] = q]

LEMMA SaveSettingsTypes ==
  ASSUME Types, NEW r \in Threads, SaveSettings(r)
  PROVE  /\ Types' /\ Quiet /\ UNCHANGED <<disk, files, acked, mail, loose>>
         /\ \E q \in Request : Opened(r, q)
  <1>1. PICK s \in Setting :
          /\ Begin(r, [NoPlan EXCEPT !.kind = "settings", !.set = {s}])
          /\ cache' = {} \/ cache' = cache
    BY DEF SaveSettings
  <1>2. Ready(r) /\ Quiet /\ UNCHANGED <<disk, files, acked, mail, loose>>
    BY DEF SaveSettings
  <1> DEFINE q == [NoPlan EXCEPT !.kind = "settings", !.set = {s}]
  <1>3. Plain(q)
    BY PlainSettings
  <1> HIDE DEF q
  <1>4. req' = [req EXCEPT ![r] = q]
    BY <1>1 DEF Begin, q
  <1>5. served' \in 0 .. MaxRequests
    BY <1>1, <1>2, ServedMore DEF Begin, Ready
  <1>6. mail' \in Seq(Mail) /\ cache' \subseteq Setting /\ (cache' = {} \/ \E t \in Setting : cache' = {t})
    BY <1>1, <1>2 DEF Types
  <1>7. q \in Request /\ Shape(q) /\ q.doc = {}
    BY <1>3 DEF Plain
  <1>8. Types'
    BY <1>2, <1>4, <1>5, <1>6, <1>7, AnOfficeRequestTypes
  <1> QED
    BY <1>2, <1>3, <1>4, <1>7, <1>8 DEF Ready, Opened

LEMMA StartBatchTypes ==
  ASSUME Types, NEW r \in Threads, StartBatch(r)
  PROVE  /\ Types' /\ Quiet /\ UNCHANGED <<disk, files, acked, mail, loose>>
         /\ \E q \in Request : Opened(r, q)
  <1> DEFINE q == [NoPlan EXCEPT !.kind = "batch", !.todo = Debtors, !.day = today]
  <1>1. Ready(r) /\ Begin(r, q) /\ Loaded /\ Quiet /\ UNCHANGED <<disk, files, acked, mail, loose>>
    BY DEF StartBatch
  <1>2. Debtors \in SUBSET Customers /\ today \in Day
    BY DEF Types, Debtors
  <1>3. Plain(q)
    BY <1>2, PlainBatch
  <1> HIDE DEF q
  <1>4. req' = [req EXCEPT ![r] = q]
    BY <1>1 DEF Begin
  <1>5. served' \in 0 .. MaxRequests
    BY <1>1, ServedMore DEF Begin, Ready
  <1>6. mail' \in Seq(Mail) /\ cache' \subseteq Setting /\ (cache' = {} \/ \E t \in Setting : cache' = {t})
    BY <1>1, LoadedTypes DEF Types
  <1>7. q \in Request /\ Shape(q) /\ q.doc = {}
    BY <1>3 DEF Plain
  <1>8. Types'
    BY <1>1, <1>4, <1>5, <1>6, <1>7, AnOfficeRequestTypes
  <1> QED
    BY <1>1, <1>3, <1>4, <1>7, <1>8 DEF Ready, Opened

\* A statement is under way while another request sends to the same customer.
Crowds(r, c) == \E s \in Threads \ {r} : c \in Mailed(req[s]) \cup req[s].sending

\* What a step may do about the statement of customer c: pass it over, record that it was not
\* sent, offer it to the mail server, or have it taken.
Passes(r, q) == req' = [req EXCEPT ![r] = q] /\ UNCHANGED <<mail, loose>>
Records(r, q, c, status) ==
  req' = [req EXCEPT ![r] = Recorded(q, c, status)] /\ UNCHANGED <<mail, loose>>
Offers(r, q, c) ==
  /\ req' = [req EXCEPT ![r] = [q EXCEPT !.sending = {c}]] /\ mail' = mail
  /\ loose' = IF Crowds(r, c) THEN loose \cup {c} ELSE loose
Takes(r, q, c) ==
  /\ req' = [req EXCEPT ![r] = Recorded(q, c, "SENT")] /\ loose' = loose
  /\ mail' = Append(mail, [cust |-> c, auto |-> q.kind = "batch", day |-> q.day])

\* The steps of batches and manual sends, one by one; q is the request without customer c.
Sends(r, q, c) ==
  /\ q \in Request /\ Shape(q) /\ q.kind \in {"hand", "batch"} /\ q.sending = {}
  /\ q.deliveries = req[r].deliveries /\ c \in Customers
  /\ req[r].doc = {} /\ req[r].drop = {} /\ req[r].told = FALSE
  /\ \/ Passes(r, q)
     \/ \E status \in {"SKIPPED", "FAILED"} : Records(r, q, c, status)
     \/ Offers(r, q, c) /\ (q.kind = "batch" => ~Cooling(q, c))
     \/ Takes(r, q, c) /\ c \in req[r].sending /\ q.kind = req[r].kind /\ q.day = req[r].day

LEMMA SendingShape ==
  ASSUME NEW q \in Request, Shape(q), q.kind \in {"hand", "batch"}, NEW c \in Customers
  PROVE  LET m == [q EXCEPT !.sending = {c}]
         IN  /\ m \in Request /\ Shape(m) /\ m.kind = q.kind /\ m.doc = {} /\ m.drop = {}
             /\ m.told = FALSE /\ m.day = q.day /\ m.sending = {c} /\ m.deliveries = q.deliveries
  <1> DEFINE m == [q EXCEPT !.sending = {c}]
  <1>1. /\ m \in Request /\ m.kind = q.kind /\ m.doc = q.doc /\ m.drop = q.drop /\ m.told = q.told
        /\ m.day = q.day /\ m.sending = {c} /\ m.deliveries = q.deliveries /\ m.id = q.id
        /\ m.note = q.note
    BY DEF Request
  <1> HIDE DEF m
  <1>2. q.doc = {} /\ q.drop = {}
    BY DEF Shape
  <1>3. q.told = FALSE
    <2>1. q.told \in BOOLEAN /\ ~q.told
      BY DEF Shape, Request
    <2> QED
      BY <2>1
  <1>4. Shape(m)
    BY <1>1 DEF Shape
  <1> QED
    BY <1>1, <1>2, <1>3, <1>4 DEF m

\* Whatever such a step does, the request moves on without files or answers.
LEMMA SendsMoves ==
  ASSUME Types, NEW r \in Threads, NEW q, NEW c, Sends(r, q, c)
  PROVE  /\ mail' \in Seq(Mail)
         /\ \E m \in Request : /\ Shape(m) /\ m.doc = {} /\ m.drop = {} /\ m.told = FALSE
                               /\ req' = [req EXCEPT ![r] = m]
  <1>1. /\ q \in Request /\ Shape(q) /\ q.kind \in {"hand", "batch"} /\ c \in Customers
        /\ mail \in Seq(Mail)
    BY DEF Sends, Types
  <1>2. q.doc = {} /\ q.drop = {} /\ q.told = FALSE
    <2>1. q.told \in BOOLEAN /\ ~q.told /\ q.doc = {} /\ q.drop = {}
      BY <1>1 DEF Shape, Request
    <2> QED
      BY <2>1
  <1>3. CASE Passes(r, q)
    BY <1>1, <1>2, <1>3 DEF Passes
  <1>4. ASSUME NEW status \in {"SENT", "SKIPPED", "FAILED"}
        PROVE  \E m \in Request : /\ Shape(m) /\ m.doc = {} /\ m.drop = {} /\ m.told = FALSE
                                  /\ m = Recorded(q, c, status)
    BY <1>1, RecordedFacts
  <1>5. CASE \E status \in {"SKIPPED", "FAILED"} : Records(r, q, c, status)
    BY <1>1, <1>4, <1>5 DEF Records
  <1>6. CASE Offers(r, q, c)
    <2> DEFINE m == [q EXCEPT !.sending = {c}]
    <2>1. m \in Request /\ Shape(m) /\ m.doc = {} /\ m.drop = {} /\ m.told = FALSE
      BY <1>1, SendingShape
    <2>2. req' = [req EXCEPT ![r] = m] /\ mail' = mail
      BY <1>6 DEF Offers
    <2> HIDE DEF m
    <2> QED
      BY <1>1, <2>1, <2>2
  <1>7. CASE Takes(r, q, c)
    <2> DEFINE x == [cust |-> c, auto |-> q.kind = "batch", day |-> q.day]
    <2>1. x \in Mail
      BY <1>1 DEF Mail, Request
    <2>2. req' = [req EXCEPT ![r] = Recorded(q, c, "SENT")] /\ mail' = Append(mail, x)
      BY <1>7 DEF Takes
    <2> HIDE DEF x
    <2>3. mail' \in Seq(Mail)
      BY <1>1, <2>1, <2>2, AppendFacts
    <2> QED
      BY <1>4, <2>2, <2>3
  <1> QED
    BY <1>3, <1>5, <1>6, <1>7 DEF Sends

LEMMA SendByHandCases ==
  ASSUME Types, NEW r \in Threads, SendByHand(r)
  PROVE  \E q, c : Sends(r, q, c)
  <1>1. PICK day \in Day : day = today
    BY DEF Types
  <1> DEFINE q == [NoPlan EXCEPT !.kind = "hand", !.day = day]
  <1>2. PICK c \in Customers :
          \/ Prepare(r, q, c)
          \/ req' = [req EXCEPT ![r] = Recorded(q, c, "SKIPPED")] /\ UNCHANGED loose
    BY <1>1 DEF SendByHand
  <1>3. req[r].kind = "" /\ mail' = mail
    BY DEF SendByHand, Ready
  <1>4. Plain(q) /\ q.kind = "hand"
    BY PlainHand
  <1> HIDE DEF q
  <1>5. req[r].doc = {} /\ req[r].drop = {} /\ req[r].told = FALSE /\ req[r].deliveries = <<>>
    <2>1. Shape(req[r]) /\ req[r] \in Request
      BY DEF Types
    <2>2. /\ req[r].doc = {} /\ req[r].drop = {} /\ ~req[r].told /\ req[r].deliveries = <<>>
          /\ req[r].told \in BOOLEAN
      BY <1>3, <2>1 DEF Shape, Request
    <2> QED
      BY <2>2
  <1>6. \/ \E status \in {"SKIPPED", "FAILED"} : Records(r, q, c, status)
        \/ Offers(r, q, c)
    BY <1>2, <1>3 DEF Prepare, Records, Offers, Crowds
  <1>7. Sends(r, q, c)
    BY <1>4, <1>5, <1>6 DEF Sends, Plain
  <1> QED
    BY <1>7

\* The batch goes on: a customer is passed over, or is offered a statement if nothing was sent
\* to it within the cooldown.
LEMMA SendNextCases ==
  ASSUME Types, NEW r \in Threads, SendNext(r)
  PROVE  \E q, c : Sends(r, q, c)
  <1>1. PICK c \in req[r].todo :
          LET q == [req[r] EXCEPT !.todo = @ \ {c}]
          IN  \/ req' = [req EXCEPT ![r] = q] /\ UNCHANGED loose
              \/ req' = [req EXCEPT ![r] = Recorded(q, c, "SKIPPED")] /\ UNCHANGED loose
              \/ ~Cooling(q, c) /\ Prepare(r, q, c)
    BY DEF SendNext
  <1>2. req[r].kind = "batch" /\ req[r].sending = {} /\ mail' = mail
    BY DEF SendNext
  <1> DEFINE q == [req[r] EXCEPT !.todo = @ \ {c}]
  <1>3. /\ q \in Request /\ q.kind = "batch" /\ q.doc = req[r].doc /\ q.drop = req[r].drop
        /\ q.told = req[r].told /\ q.deliveries = req[r].deliveries /\ q.id = req[r].id
        /\ q.note = req[r].note /\ c \in Customers /\ q.sending = {}
    BY <1>2 DEF Types, Request
  <1>4. \/ Passes(r, q)
        \/ \E status \in {"SKIPPED", "FAILED"} : Records(r, q, c, status)
        \/ Offers(r, q, c) /\ ~Cooling(q, c)
    BY <1>1, <1>2 DEF Prepare, Passes, Records, Offers, Crowds
  <1> HIDE DEF q
  <1>5. Shape(req[r]) /\ req[r] \in Request
    BY DEF Types
  <1>6. Shape(q)
    BY <1>2, <1>3, <1>5 DEF Shape
  <1>7. req[r].doc = {} /\ req[r].drop = {} /\ req[r].told = FALSE
    <2>1. req[r].doc = {} /\ req[r].drop = {} /\ ~req[r].told /\ req[r].told \in BOOLEAN
      BY <1>2, <1>5 DEF Shape, Request
    <2> QED
      BY <2>1
  <1>8. Sends(r, q, c)
    BY <1>3, <1>4, <1>6, <1>7 DEF Sends
  <1> QED
    BY <1>8

LEMMA HandOverCases ==
  ASSUME Types, NEW r \in Threads, HandOver(r)
  PROVE  \E q, c : Sends(r, q, c)
  <1>1. PICK c \in req[r].sending :
          LET q == [req[r] EXCEPT !.sending = {}]
          IN  \/ req' = [req EXCEPT ![r] = Recorded(q, c, "FAILED")] /\ UNCHANGED mail
              \/ /\ req' = [req EXCEPT ![r] = Recorded(q, c, "SENT")]
                 /\ mail' = Append(mail, [cust |-> c, auto |-> q.kind = "batch", day |-> q.day])
    BY DEF HandOver
  <1>2. loose' = loose
    BY DEF HandOver
  <1>3. Shape(req[r]) /\ req[r] \in Request
    BY DEF Types
  <1>4. req[r].kind \in {"hand", "batch"}
    BY <1>1, <1>3 DEF Shape
  <1> DEFINE q == [req[r] EXCEPT !.sending = {}]
  <1>5. /\ q \in Request /\ q.kind = req[r].kind /\ q.doc = req[r].doc /\ q.drop = req[r].drop
        /\ q.told = req[r].told /\ q.deliveries = req[r].deliveries /\ q.id = req[r].id
        /\ q.note = req[r].note /\ c \in Customers /\ q.sending = {} /\ q.day = req[r].day
    BY <1>1, <1>3 DEF Request
  <1>6. Records(r, q, c, "FAILED") \/ Takes(r, q, c)
    BY <1>1, <1>2 DEF Records, Takes
  <1> HIDE DEF q
  <1>7. Shape(q)
    BY <1>3, <1>4, <1>5 DEF Shape
  <1>8. req[r].doc = {} /\ req[r].drop = {} /\ req[r].told = FALSE
    <2>1. req[r].doc = {} /\ req[r].drop = {} /\ ~req[r].told /\ req[r].told \in BOOLEAN
      BY <1>3, <1>4 DEF Shape, Request
    <2> QED
      BY <2>1
  <1>9. Sends(r, q, c)
    BY <1>1, <1>4, <1>5, <1>6, <1>7, <1>8 DEF Sends
  <1> QED
    BY <1>9

\* The three steps together: they touch neither files nor answers.
LEMMA StatementTypes ==
  ASSUME Types, NEW r \in Threads, SendByHand(r) \/ SendNext(r) \/ HandOver(r)
  PROVE  /\ Types' /\ Quiet /\ UNCHANGED <<disk, files, acked>>
         /\ req[r].doc = {} /\ req[r].drop = {} /\ req[r].told = FALSE
         /\ \E m : /\ m.doc = {} /\ m.drop = {} /\ m.told = FALSE
                   /\ req' = [req EXCEPT ![r] = m]
         /\ \E q, c : Sends(r, q, c)
  <1>1. PICK q, c : Sends(r, q, c)
    BY SendByHandCases, SendNextCases, HandOverCases
  <1>2. PICK m \in Request : /\ Shape(m) /\ m.doc = {} /\ m.drop = {} /\ m.told = FALSE
                             /\ req' = [req EXCEPT ![r] = m]
    BY <1>1, SendsMoves
  <1>3. mail' \in Seq(Mail)
    BY <1>1, SendsMoves
  <1>4. Quiet /\ UNCHANGED <<disk, files, acked>>
    BY DEF SendByHand, SendNext, HandOver
  <1>5. cache' = cache \/ Loaded
    BY DEF SendByHand, SendNext, HandOver
  <1>6. cache' \subseteq Setting /\ (cache' = {} \/ \E t \in Setting : cache' = {t})
    BY <1>5, LoadedTypes DEF Types
  <1>7. served' \in 0 .. MaxRequests
    <2>1. CASE SendByHand(r)
      BY <2>1, ServedMore DEF SendByHand, Ready
    <2>2. CASE SendNext(r) \/ HandOver(r)
      BY <2>2 DEF SendNext, HandOver, Types
    <2> QED
      BY <2>1, <2>2
  <1>8. Types'
    BY <1>2, <1>3, <1>4, <1>6, <1>7, AnOfficeRequestTypes
  <1> QED
    BY <1>1, <1>2, <1>4, <1>8 DEF Sends

LEMMA ConcatFacts ==
  ASSUME NEW S, NEW s \in Seq(S), NEW t \in Seq(S)
  PROVE  /\ s \o t \in Seq(S) /\ Len(s \o t) = Len(s) + Len(t) /\ Range(s \o t) = Range(s) \cup Range(t)
         /\ \A i \in 1 .. Len(s) : (s \o t)[i] = s[i]
         /\ \A i \in 1 .. Len(t) : (s \o t)[Len(s) + i] = t[i]
  <1>1. /\ s \o t \in Seq(S) /\ Len(s \o t) = Len(s) + Len(t) /\ Len(s) \in Nat /\ Len(t) \in Nat
        /\ DOMAIN s = 1 .. Len(s) /\ DOMAIN t = 1 .. Len(t)
        /\ DOMAIN (s \o t) = 1 .. Len(s) + Len(t)
        /\ \A i \in 1 .. Len(s) + Len(t) : (s \o t)[i] = IF i <= Len(s) THEN s[i] ELSE t[i - Len(s)]
    BY ConcatProperties
  <1>2. \A i \in 1 .. Len(s) : i \in 1 .. Len(s) + Len(t) /\ (s \o t)[i] = s[i]
    BY <1>1
  <1>3. \A i \in 1 .. Len(t) : /\ Len(s) + i \in 1 .. Len(s) + Len(t)
                               /\ (s \o t)[Len(s) + i] = t[i]
    BY <1>1
  <1>4. \A i \in 1 .. Len(s) + Len(t) :
          \/ (i \in 1 .. Len(s) /\ (s \o t)[i] = s[i])
          \/ (i - Len(s) \in 1 .. Len(t) /\ (s \o t)[i] = t[i - Len(s)])
    BY <1>1
  <1> DEFINE u == s \o t
  <1> HIDE DEF u
  <1>5. /\ DOMAIN u = 1 .. Len(s) + Len(t)
        /\ \A i \in 1 .. Len(s) : i \in DOMAIN u /\ u[i] = s[i]
        /\ \A i \in 1 .. Len(t) : Len(s) + i \in DOMAIN u /\ u[Len(s) + i] = t[i]
        /\ \A i \in DOMAIN u : \/ (i \in 1 .. Len(s) /\ u[i] = s[i])
                              \/ (i - Len(s) \in 1 .. Len(t) /\ u[i] = t[i - Len(s)])
    BY <1>1, <1>2, <1>3, <1>4 DEF u
  <1>6. Range(u) = Range(s) \cup Range(t)
    <2>1. \A x \in Range(u) : x \in Range(s) \cup Range(t)
      BY <1>1, <1>5 DEF Range
    <2>2. \A x \in Range(s) : x \in Range(u)
      BY <1>1, <1>5 DEF Range
    <2>3. \A x \in Range(t) : x \in Range(u)
      BY <1>1, <1>5 DEF Range
    <2> QED
      BY <2>1, <2>2, <2>3
  <1> QED
    BY <1>1, <1>2, <1>3, <1>6 DEF u

\* A request ends.
LEMMA EndsTypes ==
  ASSUME Types, NEW r \in Threads, req' = [req EXCEPT ![r] = NoPlan], files' = files
  PROVE  /\ req' \in [Threads -> Request] /\ req'[r] = NoPlan
         /\ \A s \in Threads : s # r => req'[s] = req[s]
         /\ \A s \in Threads : Shape(req'[s]) /\ \A d \in req'[s].doc : d.stored \in 1 .. files'
  <1>1. files' \in Nat /\ files <= files' /\ \A d \in NoPlan.doc : d.stored \in 1 .. files'
    <2>1. files \in Nat /\ files' = files
      BY DEF Types
    <2>2. NoPlan.doc = {}
      BY NoPlanFacts
    <2>3. \A d \in NoPlan.doc : d.stored \in 1 .. files'
      BY <2>2, Zenon
    <2>4. files' \in Nat /\ files <= files'
      BY <2>1
    <2> QED
      BY <2>3, <2>4
  <1>2. NoPlan \in Request /\ Shape(NoPlan)
    BY NoPlanFacts
  <1> QED
    BY <1>1, <1>2, MovesTypes

\* The answer to a request that arrived.
AckOf(q) == acked' = [acked EXCEPT ![q.kind][q.id] = Payload(q)]

LEMMA AckTypes ==
  ASSUME Types, NEW q \in Request, Shape(q), q.kind \in {"note", "doc"}, q.id # None, AckOf(q)
  PROVE  acked' \in Acks /\ q.id \in Ids /\ Payload(q) \in Item
  <1>1. q.id \in Ids
    BY DEF Request
  <1>2. Payload(q) \in Item
    <2>1. CASE q.kind = "note"
      BY <2>1 DEF Shape, Payload
    <2>2. CASE q.kind = "doc"
      <3>1. PICK d \in Doc : q.doc = {d}
        BY <2>2 DEF Shape
      <3>2. Payload(q) = d.item
        BY <2>2, <3>1, PayloadOfDoc
      <3> QED
        BY <3>2 DEF Doc
    <2> QED
      BY <2>1, <2>2
  <1> DEFINE row == [acked[q.kind] EXCEPT ![q.id] = Payload(q)]
  <1>3. acked \in Acks
    BY DEF Types, Acks
  <1>4. row \in [Ids -> Item \cup {None}]
    BY <1>1, <1>2, <1>3 DEF Acks
  <1>5. acked' = [acked EXCEPT ![q.kind] = row]
    BY DEF AckOf
  <1> HIDE DEF row
  <1>6. acked' \in Acks
    BY <1>3, <1>4, <1>5 DEF Acks
  <1> QED
    BY <1>1, <1>2, <1>6

LEMMA CommitTypes ==
  ASSUME Types, NEW r \in Threads, Commit(r)
  PROVE  Types'
  <1> DEFINE q == req[r]
  <1>1. /\ note' = note \o q.note /\ doc' = (doc \ q.drop) \cup q.doc /\ delivery' = delivery \o q.deliveries
        /\ setting' = IF q.set = {} THEN setting ELSE CHOOSE s \in q.set : TRUE
        /\ req' = [req EXCEPT ![r] = NoPlan]
        /\ UNCHANGED <<holder, disk, files, owes, mail, cache, today, served>>
    BY DEF Commit
  <1>2. acked' = acked \/ (q.kind \in {"note", "doc"} /\ q.id # None /\ AckOf(q))
    BY DEF Commit, Told, AckOf
  <1>3. q \in Request /\ Shape(q) /\ \A d \in q.doc : d.stored \in 1 .. files
    BY DEF Types
  <1> HIDE DEF q
  <1>4. note' \in Seq(Note)
    BY <1>1, <1>3, ConcatFacts DEF Types, Request
  <1>5. delivery' \in Seq(Delivery)
    BY <1>1, <1>3, ConcatFacts DEF Types, Request
  <1>6. doc' \subseteq Doc /\ \A d \in doc' : d.stored \in 1 .. files
    BY <1>1, <1>3 DEF Types, Request
  <1>7. setting' \in Setting
    <2>1. q.set \subseteq Setting
      BY <1>3 DEF Request
    <2> QED
      BY <1>1, <2>1 DEF Types
  <1>8. acked' \in Acks
    BY <1>2, <1>3, AckTypes DEF Types, Acks
  <1>9. /\ req' \in [Threads -> Request]
        /\ \A s \in Threads : Shape(req'[s]) /\ \A d \in req'[s].doc : d.stored \in 1 .. files'
    BY <1>1, EndsTypes
  <1> QED
    BY <1>1, <1>4, <1>5, <1>6, <1>7, <1>8, <1>9 DEF Types, Acks

LEMMA DieTypes ==
  ASSUME Types, NEW r \in Threads, Die(r)
  PROVE  Types'
  <1>1. /\ req' = [req EXCEPT ![r] = NoPlan]
        /\ UNCHANGED <<holder, note, doc, disk, files, acked, owes, delivery, mail, setting, cache,
                       today, served>>
    BY DEF Die
  <1>2. /\ req' \in [Threads -> Request]
        /\ \A s \in Threads : Shape(req'[s]) /\ \A d \in req'[s].doc : d.stored \in 1 .. files'
    BY <1>1, EndsTypes
  <1> QED
    BY <1>1, <1>2 DEF Types

LEMMA WorldTypes ==
  ASSUME Types, Reassign \/ BalanceChanges \/ Midnight
  PROVE  Types'
  <1>1. CASE Reassign
    <2>1. holder' \in [Policies -> Producers \cup {None}]
      BY <1>1 DEF Reassign, Types
    <2>2. served' \in 0 .. MaxRequests
      BY <1>1, ServedMore DEF Reassign
    <2>3. UNCHANGED <<note, doc, disk, files, acked, owes, delivery, mail, setting, cache, today, req>>
      BY <1>1 DEF Reassign
    <2> QED
      BY <2>1, <2>2, <2>3 DEF Types
  <1>2. CASE BalanceChanges
    <2>1. owes' \subseteq Customers
      BY <1>2 DEF BalanceChanges, Types
    <2>2. served' \in 0 .. MaxRequests
      BY <1>2, ServedMore DEF BalanceChanges
    <2>3. UNCHANGED <<holder, note, doc, disk, files, acked, delivery, mail, setting, cache, today, req>>
      BY <1>2 DEF BalanceChanges
    <2> QED
      BY <2>1, <2>2, <2>3 DEF Types
  <1>3. CASE Midnight
    <2>1. today' \in Day
      BY <1>3, OutreachAssumption DEF Midnight, Types, Day
    <2>2. UNCHANGED <<holder, note, doc, disk, files, acked, owes, delivery, mail, setting, cache, served, req>>
      BY <1>3 DEF Midnight
    <2> QED
      BY <2>1, <2>2 DEF Types
  <1> QED
    BY <1>1, <1>2, <1>3

LEMMA StutterTypes ==
  ASSUME Types, UNCHANGED vars
  PROVE  Types'
  BY DEF Types, vars

LEMMA StepTypes == Types /\ [Next]_vars => Types'
  <1> SUFFICES ASSUME Types, [Next]_vars PROVE Types'
    OBVIOUS
  <1>1. CASE UNCHANGED vars
    BY <1>1, StutterTypes
  <1>2. CASE Reassign \/ BalanceChanges \/ Midnight
    BY <1>2, WorldTypes
  <1>3. CASE LoadSettings \/ ExpireCache
    BY <1>3, CacheTypes
  <1>4. ASSUME NEW r \in Threads,
               CreateActivity(r) \/ UploadDocument(r) \/ UploadAtOffice(r) \/ DeleteDocument(r)
        PROVE  Types'
    BY <1>4, CreateActivityCases, UploadDocumentCases, UploadAtOfficeCases, DeleteDocumentCases
  <1>5. ASSUME NEW r \in Threads,
               \/ Answer(r) \/ SendByHand(r) \/ StartBatch(r) \/ SendNext(r) \/ HandOver(r)
               \/ SaveSettings(r)
        PROVE  Types'
    BY <1>5, AnswerTypes, StatementTypes, StartBatchTypes, SaveSettingsTypes
  <1>6. ASSUME NEW r \in Threads, Commit(r) \/ Die(r)
        PROVE  Types'
    BY <1>6, CommitTypes, DieTypes
  <1> QED
    BY <1>1, <1>2, <1>3, <1>4, <1>5, <1>6 DEF Next

LEMMA TypesHold == Spec => []Types
  <1> QED
    BY InitTypes, StepTypes, PTL DEF Spec

\* Every table and request stays within its type, in every order of phones, office, batch,
\* deaths and days; at most one value of the settings is cached.
THEOREM TypeCorrect == Spec => []TypeOK
  <1>1. Types => TypeOK
    <2> SUFFICES ASSUME Types PROVE TypeOK
      OBVIOUS
    <2>1. Cardinality(cache) <= 1
      <3>1. cache = {} \/ \E s \in Setting : cache = {s}
        BY DEF Types
      <3>2. Cardinality({}) = 0
        BY FS_EmptySet
      <3>3. \A s : Cardinality({s}) = 1
        BY FS_Singleton
      <3> QED
        BY <3>1, <3>2, <3>3
    <2>2. \A k \in {"note", "doc"}, i \in Ids : acked[k][i] \in Item \cup {None}
      BY DEF Types
    <2>3. /\ holder \in [Policies -> Producers \cup {None}]
          /\ note \in Seq(Note) /\ doc \subseteq Doc
          /\ disk \subseteq 1 .. files /\ \A d \in doc : d.stored \in 1 .. files
          /\ owes \subseteq Customers /\ delivery \in Seq(Delivery)
          /\ setting \in Setting /\ cache \subseteq Setting
          /\ today \in Day /\ served \in 0 .. MaxRequests
      BY DEF Types
    <2>4. mail \in Seq([cust : Customers, auto : BOOLEAN, day : Day])
      BY DEF Types, Mail
    <2> QED
      BY <2>1, <2>2, <2>3, <2>4 DEF TypeOK
  <1> QED
    BY <1>1, TypesHold, PTL

-----------------------------------------------------------------------------
(* Files *)

\* No two rows share a file, on file or about to be; what is about to be filed is on disk.
FilesOK ==
  /\ \A d, e \in doc : d.stored = e.stored => d = e
  /\ \A r \in Threads : \A d \in req[r].doc :
       /\ d.stored \in disk
       /\ \A e \in doc : e.stored # d.stored
       /\ \A s \in Threads \ {r} : \A e \in req[s].doc : e.stored # d.stored
  /\ DocumentHasFile

\* A request that is not one: nothing to file, to drop or to answer for.
LEMMA IdleFacts ==
  ASSUME Types, NEW r \in Threads, req[r].kind = ""
  PROVE  req[r].doc = {} /\ req[r].drop = {} /\ ~req[r].told /\ req[r].deliveries = <<>>
  <1>1. Shape(req[r])
    BY DEF Types
  <1> QED
    BY <1>1 DEF Shape

LEMMA MovesThreads ==
  ASSUME Types, NEW r \in Threads, NEW q, req' = [req EXCEPT ![r] = q]
  PROVE  req'[r] = q /\ \A s \in Threads : s # r => req'[s] = req[s]
  BY DEF Types

LEMMA FilesFrame ==
  ASSUME FilesOK, UNCHANGED <<doc, disk, torn>>,
         \A s \in Threads : req'[s].doc = req[s].doc /\ req'[s].drop = req[s].drop
  PROVE  FilesOK'
  BY DEF FilesOK, DocumentHasFile

LEMMA FilesMove ==
  ASSUME Types, FilesOK, UNCHANGED <<doc, disk, torn>>, NEW r \in Threads, NEW q,
         req' = [req EXCEPT ![r] = q], q.doc = req[r].doc, q.drop = req[r].drop
  PROVE  FilesOK'
  <1>1. \A s \in Threads : req'[s].doc = req[s].doc /\ req'[s].drop = req[s].drop
    BY MovesThreads
  <1> QED
    BY <1>1, FilesFrame

LEMMA NextFile ==
  ASSUME Types
  PROVE  files + 1 \in Nat /\ \A j \in 1 .. files : j # files + 1
  <1>1. files \in Nat
    BY DEF Types
  <1> QED
    BY <1>1

LEMMA ArrivesFiles ==
  ASSUME Types, FilesOK, NEW r \in Threads, req[r].kind = "", NEW kind \in {"doc", "office"},
         NEW i \in Ids \cup {None}, NEW item \in Item, kind = "doc" => i # None,
         kind = "office" => i = None, Arrives(r, kind, i, item)
  PROVE  FilesOK'
  <1> DEFINE q == ADoc(kind, i, item)
  <1>1. PICK d \in Doc : q.doc = {d} /\ d.stored = files + 1
    <2> DEFINE f == [id |-> i, item |-> item, stored |-> files + 1]
    <2>1. q.doc = {f}
      BY ADocDoc
    <2>2. f \in Doc /\ f.stored = files + 1
      BY NextFile DEF Doc
    <2> HIDE DEF q, f
    <2> QED
      BY <2>1, <2>2
  <1>2. q.drop = {}
    BY ADocFields
  <1>3. req' = [req EXCEPT ![r] = q] /\ disk' = disk \cup {files + 1} /\ UNCHANGED <<doc, torn>>
    BY DEF Arrives, Quiet
  <1> HIDE DEF q
  <1>4. req'[r] = q /\ \A s \in Threads : s # r => req'[s] = req[s]
    BY <1>3, MovesThreads
  <1>5. req[r].doc = {} /\ req[r].drop = {}
    BY IdleFacts
  <1>6. /\ \A e \in doc : e.stored # files + 1
        /\ \A s \in Threads : \A e \in req[s].doc : e.stored # files + 1
    <2>1. \A j \in 1 .. files : j # files + 1
      BY NextFile
    <2>2. /\ \A e \in doc : e.stored \in 1 .. files
          /\ \A s \in Threads : \A e \in req[s].doc : e.stored \in 1 .. files
      BY DEF Types
    <2> QED
      BY <2>1, <2>2
  <1>7. DocumentHasFile'
    BY <1>2, <1>3, <1>4, <1>5 DEF FilesOK, DocumentHasFile
  <1>8. ASSUME NEW s \in Threads, NEW e \in req'[s].doc
        PROVE  /\ e.stored \in disk'
               /\ \A f \in doc' : f.stored # e.stored
               /\ \A t \in Threads \ {s} : \A f \in req'[t].doc : f.stored # e.stored
    <2>1. CASE s = r
      <3>1. e = d /\ e.stored = files + 1
        BY <1>1, <1>4, <2>1
      <3>2. \A t \in Threads \ {s} : req'[t] = req[t]
        BY <1>4, <2>1
      <3> QED
        BY <1>3, <1>6, <3>1, <3>2
    <2>2. CASE s # r
      <3>1. e \in req[s].doc
        BY <1>4, <2>2
      <3>2. e.stored \in disk' /\ \A f \in doc' : f.stored # e.stored
        BY <1>3, <3>1 DEF FilesOK
      <3>3. ASSUME NEW t \in Threads \ {s}, NEW f \in req'[t].doc PROVE f.stored # e.stored
        <4>1. CASE t = r
          BY <1>1, <1>4, <1>6, <3>1, <4>1
        <4>2. CASE t # r
          BY <1>4, <3>1, <4>2 DEF FilesOK
        <4> QED
          BY <4>1, <4>2
      <3> QED
        BY <3>2, <3>3
    <2> QED
      BY <2>1, <2>2
  <1> QED
    BY <1>3, <1>7, <1>8 DEF FilesOK

LEMMA DeletionFiles ==
  ASSUME Types, FilesOK, NEW r \in Threads, DeleteDocument(r)
  PROVE  FilesOK'
  <1>1. PICK d \in doc : /\ req' = [req EXCEPT ![r] = ADeletion(d)] /\ disk' = disk \ {d.stored}
                         /\ UNCHANGED <<doc, torn>>
    BY DeleteDocumentCases DEF Quiet
  <1> DEFINE q == ADeletion(d)
  <1>2. q.doc = {} /\ q.drop = {d}
    BY ADeletionFacts DEF Types
  <1> HIDE DEF q
  <1>3. req'[r] = q /\ \A s \in Threads : s # r => req'[s] = req[s]
    BY <1>1, MovesThreads DEF q
  <1>4. req[r].doc = {} /\ req[r].drop = {}
    BY DeleteDocumentCases, IdleFacts
  <1>5. DocumentHasFile'
    <2> SUFFICES ASSUME NEW e \in doc
                 PROVE  \/ e.stored \in disk' \/ e.stored \in torn
                        \/ \E s \in Threads : e \in req'[s].drop
      BY <1>1 DEF DocumentHasFile
    <2>1. CASE e = d
      BY <1>2, <1>3, <2>1
    <2>2. CASE e # d
      <3>1. e.stored # d.stored
        BY <2>2 DEF FilesOK
      <3>2. \/ e.stored \in disk \/ e.stored \in torn
            \/ \E s \in Threads : s # r /\ e \in req[s].drop
        BY <1>4 DEF FilesOK, DocumentHasFile
      <3> QED
        BY <1>1, <1>3, <3>1, <3>2
    <2> QED
      BY <2>1, <2>2
  <1>6. ASSUME NEW s \in Threads, NEW e \in req'[s].doc
        PROVE  /\ e.stored \in disk'
               /\ \A f \in doc' : f.stored # e.stored
               /\ \A t \in Threads \ {s} : \A f \in req'[t].doc : f.stored # e.stored
    <2>1. s # r /\ e \in req[s].doc
      BY <1>2, <1>3
    <2>2. e.stored \in disk /\ \A f \in doc : f.stored # e.stored
      BY <2>1 DEF FilesOK
    <2>3. \A t \in Threads \ {s} : \A f \in req'[t].doc : f \in req[t].doc
      BY <1>2, <1>3
    <2>4. \A t \in Threads \ {s} : \A f \in req[t].doc : f.stored # e.stored
      BY <2>1 DEF FilesOK
    <2> QED
      BY <1>1, <2>2, <2>3, <2>4
  <1>7. \A e, f \in doc' : e.stored = f.stored => e = f
    BY <1>1 DEF FilesOK
  <1> QED
    BY <1>5, <1>6, <1>7 DEF FilesOK

LEMMA CommitFiles ==
  ASSUME Types, FilesOK, NEW r \in Threads, Commit(r)
  PROVE  FilesOK'
  <1> DEFINE q == req[r]
  <1>1. /\ doc' = (doc \ q.drop) \cup q.doc /\ req' = [req EXCEPT ![r] = NoPlan]
        /\ UNCHANGED <<disk, torn>>
    BY DEF Commit
  <1>2. Shape(q)
    BY DEF Types
  <1>3. q.doc = {} \/ \E d \in Doc : q.doc = {d}
    BY <1>2 DEF Shape
  <1>4. q.doc # {} => q.drop = {}
    BY <1>2 DEF Shape
  <1>5. req'[r] = NoPlan /\ \A s \in Threads : s # r => req'[s] = req[s]
    BY <1>1, MovesThreads
  <1>6. NoPlan.doc = {} /\ NoPlan.drop = {}
    BY NoPlanFacts
  <1>7. \A d \in q.doc : d.stored \in disk /\ \A e \in doc : e.stored # d.stored
    BY DEF FilesOK
  <1>8. \A e, f \in doc' : e.stored = f.stored => e = f
    BY <1>1, <1>3, <1>7 DEF FilesOK
  <1>9. DocumentHasFile'
    <2> SUFFICES ASSUME NEW e \in doc'
                 PROVE  \/ e.stored \in disk \/ e.stored \in torn
                        \/ \E s \in Threads : e \in req'[s].drop
      BY <1>1 DEF DocumentHasFile
    <2>1. CASE e \in q.doc
      BY <1>7, <2>1
    <2>2. CASE e \in doc /\ e \notin q.drop
      BY <1>5, <2>2 DEF FilesOK, DocumentHasFile
    <2> QED
      BY <1>1, <2>1, <2>2
  <1>10. ASSUME NEW s \in Threads, NEW e \in req'[s].doc
         PROVE  /\ e.stored \in disk'
                /\ \A f \in doc' : f.stored # e.stored
                /\ \A t \in Threads \ {s} : \A f \in req'[t].doc : f.stored # e.stored
    <2>1. s # r /\ e \in req[s].doc
      BY <1>5, <1>6
    <2>2. e.stored \in disk /\ \A f \in doc : f.stored # e.stored
      BY <2>1 DEF FilesOK
    <2>3. \A f \in q.doc : f.stored # e.stored
      BY <2>1 DEF FilesOK
    <2>4. \A t \in Threads \ {s} : \A f \in req'[t].doc : f \in req[t].doc
      BY <1>5, <1>6
    <2>5. \A t \in Threads \ {s} : \A f \in req[t].doc : f.stored # e.stored
      BY <2>1 DEF FilesOK
    <2> QED
      BY <1>1, <2>2, <2>3, <2>4, <2>5
  <1> QED
    BY <1>8, <1>9, <1>10 DEF FilesOK

LEMMA DieFiles ==
  ASSUME Types, FilesOK, NEW r \in Threads, Die(r)
  PROVE  FilesOK'
  <1>1. /\ req' = [req EXCEPT ![r] = NoPlan] /\ UNCHANGED <<doc, disk>>
        /\ torn' = torn \cup {d.stored : d \in req[r].drop}
    BY DEF Die
  <1>2. req'[r] = NoPlan /\ \A s \in Threads : s # r => req'[s] = req[s]
    BY <1>1, MovesThreads
  <1>3. NoPlan.doc = {}
    BY NoPlanFacts
  <1>4. \A s \in Threads : \A d \in req'[s].doc : s # r /\ d \in req[s].doc
    BY <1>2, <1>3
  <1>5. DocumentHasFile'
    <2> SUFFICES ASSUME NEW e \in doc
                 PROVE  \/ e.stored \in disk \/ e.stored \in torn'
                        \/ \E s \in Threads : e \in req'[s].drop
      BY <1>1 DEF DocumentHasFile
    <2>1. \/ e.stored \in disk \/ e.stored \in torn \/ \E s \in Threads : e \in req[s].drop
      BY DEF FilesOK, DocumentHasFile
    <2>2. \A s \in Threads : e \in req[s].drop => e \in req[r].drop \/ e \in req'[s].drop
      BY <1>2
    <2>3. e \in req[r].drop => e.stored \in torn'
      BY <1>1
    <2>4. torn \subseteq torn'
      BY <1>1
    <2> QED
      BY <2>1, <2>2, <2>3, <2>4
  <1> QED
    BY <1>1, <1>4, <1>5 DEF FilesOK

\* The steps that neither file nor drop anything.
LEMMA OtherFiles ==
  ASSUME Types, FilesOK, NEW r \in Threads,
         \/ SendByHand(r) \/ StartBatch(r) \/ SendNext(r) \/ HandOver(r)
         \/ SaveSettings(r) \/ Answer(r)
  PROVE  FilesOK'
  <1>1. ASSUME StartBatch(r) \/ SaveSettings(r) PROVE FilesOK'
    <2>1. PICK q \in Request : Opened(r, q)
      BY <1>1, StartBatchTypes, SaveSettingsTypes
    <2>2. UNCHANGED <<doc, disk, torn>>
      BY <1>1, StartBatchTypes, SaveSettingsTypes DEF Quiet
    <2> QED
      BY <2>1, <2>2, IdleFacts, FilesMove DEF Opened, Plain
  <1>2. ASSUME SendByHand(r) \/ SendNext(r) \/ HandOver(r) PROVE FilesOK'
    <2>1. UNCHANGED <<doc, disk, torn>> /\ req[r].doc = {} /\ req[r].drop = {}
      BY <1>2, StatementTypes DEF Quiet
    <2>2. PICK m : m.doc = {} /\ m.drop = {} /\ req' = [req EXCEPT ![r] = m]
      BY <1>2, StatementTypes
    <2> QED
      BY <2>1, <2>2, FilesMove
  <1>3. ASSUME Answer(r) PROVE FilesOK'
    <2>1. req' = [req EXCEPT ![r] = [req[r] EXCEPT !.told = TRUE]] /\ UNCHANGED <<doc, disk, torn>>
      BY <1>3 DEF Answer, Quiet
    <2>2. req[r] \in Request
      BY DEF Types
    <2> DEFINE q == [req[r] EXCEPT !.told = TRUE]
    <2>3. q.doc = req[r].doc /\ q.drop = req[r].drop
      BY <2>2 DEF Request
    <2> HIDE DEF q
    <2>4. req' = [req EXCEPT ![r] = q]
      BY <2>1 DEF q
    <2> QED
      BY <2>1, <2>3, <2>4, FilesMove
  <1> QED
    BY <1>1, <1>2, <1>3

LEMMA FilesStep == Types /\ FilesOK /\ [Next]_vars => FilesOK'
  <1> SUFFICES ASSUME Types, FilesOK, [Next]_vars PROVE FilesOK'
    OBVIOUS
  <1>1. CASE req' = req /\ UNCHANGED <<doc, disk, torn>>
    BY <1>1, FilesFrame
  <1>2. CASE UNCHANGED vars
    BY <1>1, <1>2 DEF vars
  <1>3. CASE Reassign \/ BalanceChanges \/ Midnight \/ LoadSettings \/ ExpireCache
    BY <1>1, <1>3 DEF Reassign, BalanceChanges, Midnight, LoadSettings, ExpireCache, Quiet
  <1>4. ASSUME NEW r \in Threads, CreateActivity(r) PROVE FilesOK'
    <2>1. CASE Repeated("note")
      BY <1>1, <2>1 DEF Repeated, Quiet
    <2>2. ASSUME NEW i \in Ids \cup {None}, NEW item \in Item,
                 req' = [req EXCEPT ![r] = ANote(i, item)], UNCHANGED <<doc, disk, torn>>
          PROVE  FilesOK'
      <3> DEFINE q == ANote(i, item)
      <3>1. q.doc = {} /\ q.drop = {}
        BY ANoteFacts
      <3> HIDE DEF q
      <3>2. req' = [req EXCEPT ![r] = q]
        BY <2>2 DEF q
      <3>3. req[r].doc = {} /\ req[r].drop = {}
        BY <1>4, CreateActivityCases, IdleFacts
      <3> QED
        BY <2>2, <3>1, <3>2, <3>3, FilesMove
    <2> QED
      BY <1>4, <2>1, <2>2, CreateActivityCases DEF Quiet
  <1>5. ASSUME NEW r \in Threads, UploadDocument(r) PROVE FilesOK'
    <2>1. CASE Repeated("doc")
      BY <1>1, <2>1 DEF Repeated, Quiet
    <2>2. ASSUME NEW i \in Ids, NEW item \in Item, Arrives(r, "doc", i, item) PROVE FilesOK'
      <3>1. req[r].kind = "" /\ i # None
        BY <1>5, UploadDocumentCases, OutreachAssumption
      <3> QED
        BY <2>2, <3>1, ArrivesFiles
    <2> QED
      BY <1>5, <2>1, <2>2, UploadDocumentCases
  <1>6. ASSUME NEW r \in Threads, UploadAtOffice(r) PROVE FilesOK'
    <2>1. PICK item \in Item : Arrives(r, "office", None, item)
      BY <1>6, UploadAtOfficeCases
    <2>2. req[r].kind = ""
      BY <1>6, UploadAtOfficeCases
    <2> QED
      BY <2>1, <2>2, ArrivesFiles
  <1>7. ASSUME NEW r \in Threads, DeleteDocument(r) \/ Commit(r) \/ Die(r) PROVE FilesOK'
    BY <1>7, DeletionFiles, CommitFiles, DieFiles
  <1>8. ASSUME NEW r \in Threads,
               \/ SendByHand(r) \/ StartBatch(r) \/ SendNext(r) \/ HandOver(r)
               \/ SaveSettings(r) \/ Answer(r)
        PROVE  FilesOK'
    BY <1>8, OtherFiles
  <1> QED
    BY <1>2, <1>3, <1>4, <1>5, <1>6, <1>7, <1>8 DEF Next

LEMMA InitFiles == Init => FilesOK
  BY NoPlanFacts DEF Init, FilesOK, DocumentHasFile

\* Every document on file has its bytes on disk, whatever uploads and deletions overlap, but for
\* one whose deletion is under way or removed the file and never committed.
THEOREM FilesStay == Spec => []DocumentHasFile
  <1>1. FilesOK => DocumentHasFile
    BY DEF FilesOK
  <1>2. Spec => []FilesOK
    BY InitFiles, FilesStep, TypesHold, PTL DEF Spec
  <1> QED
    BY <1>1, <1>2, PTL

-----------------------------------------------------------------------------
(* Answers *)

\* A row of the kind with the id is on file, and says x.
OnFile(kind, i) ==
  \/ kind = "note" /\ \E n \in Range(note) : n.id = i
  \/ kind = "doc" /\ \E d \in doc : d.id = i
Says(kind, i, x) ==
  \/ kind = "note" /\ \E n \in Range(note) : n.id = i /\ n.item = x
  \/ kind = "doc" /\ \E d \in doc : d.id = i /\ d.item = x

TellsOf(r, kind, i) == req[r].told /\ req[r].kind = kind /\ req[r].id = i

\* Ids are unique among the activities and among the documents on file.
UniqueIds ==
  /\ \A j, k \in 1 .. Len(note) : note[j].id = note[k].id /\ note[j].id # None => j = k
  /\ \A d, e \in doc : d.id = e.id /\ d.id # None => d = e

\* A request that answered before its commit is the only one with its id.
AnswersStand ==
  \A r \in Threads : req[r].told =>
    /\ acked[req[r].kind][req[r].id] = Payload(req[r])
    /\ ~OnFile(req[r].kind, req[r].id)
    /\ \A s \in Threads \ {r} : ~TellsOf(s, req[r].kind, req[r].id)

\* What was answered is about to be filed, is on file or is lost.
AnswersKept ==
  \A kind \in {"note", "doc"}, i \in Ids :
    acked[kind][i] # None /\ <<kind, i>> \notin lost =>
      (\E r \in Threads : TellsOf(r, kind, i)) \/ Says(kind, i, acked[kind][i])

AcksOK == UniqueIds /\ AnswersStand /\ AnswersKept

LEMMA AcksFrame ==
  ASSUME Types, AcksOK, UNCHANGED <<note, doc, acked, lost>>, NEW r \in Threads, NEW q,
         req' = [req EXCEPT ![r] = q], ~req[r].told, ~q.told
  PROVE  AcksOK'
  <1>1. req'[r] = q /\ \A s \in Threads : s # r => req'[s] = req[s]
    BY MovesThreads
  <1>2. \A s \in Threads : req'[s].told <=> req[s].told
    BY <1>1
  <1>3. \A s \in Threads : req'[s].told => s # r /\ req'[s] = req[s]
    BY <1>1
  <1>4. \A s \in Threads : req[s].told => req'[s] = req[s]
    BY <1>1
  <1>5. \A kind, i : OnFile(kind, i)' <=> OnFile(kind, i)
    BY DEF OnFile
  <1>6. \A kind, i, x : Says(kind, i, x) => Says(kind, i, x)'
    BY DEF Says
  <1>7. \A s \in Threads : \A kind, i : TellsOf(s, kind, i)' <=> TellsOf(s, kind, i)
    BY <1>2, <1>3 DEF TellsOf
  <1>8. UniqueIds'
    BY DEF AcksOK, UniqueIds
  <1>9. AnswersStand'
    BY <1>3, <1>5, <1>7 DEF AcksOK, AnswersStand
  <1>10. AnswersKept'
    <2> SUFFICES ASSUME NEW kind \in {"note", "doc"}, NEW i \in Ids, acked[kind][i] # None,
                        <<kind, i>> \notin lost
                 PROVE  (\E s \in Threads : TellsOf(s, kind, i)') \/ Says(kind, i, acked[kind][i])'
      BY DEF AnswersKept
    <2>1. (\E s \in Threads : TellsOf(s, kind, i)) \/ Says(kind, i, acked[kind][i])
      BY DEF AcksOK, AnswersKept
    <2> QED
      BY <1>7, <2>1 DEF Says
  <1> QED
    BY <1>8, <1>9, <1>10 DEF AcksOK

LEMMA AcksSame ==
  ASSUME AcksOK, UNCHANGED <<note, doc, acked, lost, req>>
  PROVE  AcksOK'
  BY DEF AcksOK, UniqueIds, AnswersStand, AnswersKept, OnFile, Says, TellsOf, Payload

\* The keys of acked.
LEMMA AckKeys ==
  ASSUME Types, NEW kind \in {"note", "doc"}, NEW i \in Ids, NEW item,
         acked' = [acked EXCEPT ![kind][i] = item]
  PROVE  /\ acked'[kind][i] = item
         /\ \A k \in {"note", "doc"}, j \in Ids : <<k, j>> # <<kind, i>> => acked'[k][j] = acked[k][j]
  <1>1. acked \in Acks
    BY DEF Types, Acks
  <1> QED
    BY <1>1 DEF Acks

LEMMA ToldFacts ==
  ASSUME Types, NEW r \in Threads, req[r].told
  PROVE  req[r].kind \in {"note", "doc"} /\ req[r].id \in Ids
  <1>1. req[r] \in Request /\ Shape(req[r])
    BY DEF Types
  <1>2. req[r].id \in Ids \cup {None}
    BY <1>1 DEF Request
  <1> QED
    BY <1>1, <1>2 DEF Shape

LEMMA RepeatedAcks ==
  ASSUME Types, AcksOK, NEW kind \in {"note", "doc"}, Repeated(kind)
  PROVE  AcksOK'
  <1>1. PICK i \in Ids, item \in Item :
          /\ Says(kind, i, item) /\ acked' = [acked EXCEPT ![kind][i] = item]
          /\ UNCHANGED <<note, doc, lost, req>>
    BY DEF Repeated, Quiet, Says
  <1>2. OnFile(kind, i)
    BY <1>1 DEF Says, OnFile
  <1>3. /\ acked'[kind][i] = item
        /\ \A k \in {"note", "doc"}, j \in Ids : <<k, j>> # <<kind, i>> => acked'[k][j] = acked[k][j]
    BY <1>1, AckKeys
  <1>4. UniqueIds'
    BY <1>1 DEF AcksOK, UniqueIds
  <1>5. AnswersStand'
    <2> SUFFICES ASSUME NEW r \in Threads, req[r].told
                 PROVE  /\ acked'[req[r].kind][req[r].id] = Payload(req[r])
                        /\ ~OnFile(req[r].kind, req[r].id)
                        /\ \A s \in Threads \ {r} : ~TellsOf(s, req[r].kind, req[r].id)
      BY <1>1 DEF AnswersStand, OnFile, TellsOf
    <2>1. /\ acked[req[r].kind][req[r].id] = Payload(req[r])
          /\ ~OnFile(req[r].kind, req[r].id)
          /\ \A s \in Threads \ {r} : ~TellsOf(s, req[r].kind, req[r].id)
      BY DEF AcksOK, AnswersStand
    <2>2. req[r].kind \in {"note", "doc"} /\ req[r].id \in Ids
      BY ToldFacts
    <2>3. <<req[r].kind, req[r].id>> # <<kind, i>>
      BY <1>2, <2>1
    <2> QED
      BY <1>3, <2>1, <2>2, <2>3
  <1>6. AnswersKept'
    <2> SUFFICES ASSUME NEW k \in {"note", "doc"}, NEW j \in Ids, acked'[k][j] # None,
                        <<k, j>> \notin lost
                 PROVE  (\E s \in Threads : TellsOf(s, k, j)) \/ Says(k, j, acked'[k][j])
      BY <1>1 DEF AnswersKept, TellsOf, Says
    <2>1. CASE <<k, j>> = <<kind, i>>
      BY <1>1, <1>3, <2>1
    <2>2. CASE <<k, j>> # <<kind, i>>
      <3>1. acked'[k][j] = acked[k][j]
        BY <1>3, <2>2
      <3>2. (\E s \in Threads : TellsOf(s, k, j)) \/ Says(k, j, acked[k][j])
        BY <3>1 DEF AcksOK, AnswersKept
      <3> QED
        BY <3>1, <3>2
    <2> QED
      BY <2>1, <2>2
  <1> QED
    BY <1>4, <1>5, <1>6 DEF AcksOK

\* A request whose id nobody has: its rows are not on file and no other request answered for it.
LEMMA FreeId ==
  ASSUME NEW r \in Threads, ~Taken(r), req[r].id # None
  PROVE  ~OnFile(req[r].kind, req[r].id) /\ \A s \in Threads \ {r} : ~TellsOf(s, req[r].kind, req[r].id)
  BY DEF Taken, Flushed, OnFile, TellsOf

LEMMA AnswerAcks ==
  ASSUME Types, AcksOK, NEW r \in Threads, Answer(r)
  PROVE  AcksOK'
  <1> DEFINE q == req[r]
             m == [q EXCEPT !.told = TRUE]
  <1>1. /\ q \in Request /\ q.kind \in {"note", "doc"} /\ q.id \in Ids /\ Payload(q) \in Item
        /\ acked' = [acked EXCEPT ![q.kind][q.id] = Payload(q)]
    BY AnswerTypes
  <1>2. /\ req' = [req EXCEPT ![r] = m] /\ ~Taken(r) /\ q.id # None /\ ~q.told
        /\ UNCHANGED <<note, doc, lost>>
    BY DEF Answer, Quiet
  <1>3. m.kind = q.kind /\ m.id = q.id /\ m.told /\ m.note = q.note /\ m.doc = q.doc
    BY <1>1 DEF Request
  <1>4. ~OnFile(q.kind, q.id) /\ \A s \in Threads \ {r} : ~TellsOf(s, q.kind, q.id)
    BY <1>2, FreeId
  <1>5. Payload(m) = Payload(q)
    BY <1>3 DEF Payload
  <1> HIDE DEF m
  <1>6. req'[r] = m /\ \A s \in Threads : s # r => req'[s] = req[s]
    BY <1>2, MovesThreads
  <1>7. /\ acked'[q.kind][q.id] = Payload(q)
        /\ \A k \in {"note", "doc"}, j \in Ids : <<k, j>> # <<q.kind, q.id>> => acked'[k][j] = acked[k][j]
    BY <1>1, AckKeys
  <1>8. UniqueIds'
    BY <1>2 DEF AcksOK, UniqueIds
  <1>9. ASSUME NEW s \in Threads, s # r, req[s].told
        PROVE  /\ acked'[req[s].kind][req[s].id] = Payload(req[s])
               /\ ~OnFile(req[s].kind, req[s].id)
               /\ <<req[s].kind, req[s].id>> # <<q.kind, q.id>>
               /\ \A t \in Threads \ {s} : ~TellsOf(t, req[s].kind, req[s].id)
    <2>1. /\ acked[req[s].kind][req[s].id] = Payload(req[s])
          /\ ~OnFile(req[s].kind, req[s].id)
          /\ \A t \in Threads \ {s} : ~TellsOf(t, req[s].kind, req[s].id)
      BY <1>9 DEF AcksOK, AnswersStand
    <2>2. req[s].kind \in {"note", "doc"} /\ req[s].id \in Ids
      BY <1>9, ToldFacts
    <2>3. <<req[s].kind, req[s].id>> # <<q.kind, q.id>>
      BY <1>4, <1>9 DEF TellsOf
    <2> QED
      BY <1>7, <2>1, <2>2, <2>3
  <1>10. AnswersStand'
    <2> SUFFICES ASSUME NEW s \in Threads, req'[s].told
                 PROVE  /\ acked'[req'[s].kind][req'[s].id] = Payload(req'[s])
                        /\ ~OnFile(req'[s].kind, req'[s].id)
                        /\ \A t \in Threads \ {s} :
                             ~(req'[t].told /\ req'[t].kind = req'[s].kind /\ req'[t].id = req'[s].id)
      BY <1>2 DEF AnswersStand, OnFile, TellsOf, Payload
    <2>1. CASE s = r
      <3>1. req'[s].kind = q.kind /\ req'[s].id = q.id /\ Payload(req'[s]) = Payload(q)
        BY <1>3, <1>5, <1>6, <2>1
      <3>2. \A t \in Threads \ {s} : req'[t] = req[t] /\ ~TellsOf(t, q.kind, q.id)
        BY <1>4, <1>6, <2>1
      <3> QED
        BY <1>4, <1>7, <3>1, <3>2 DEF TellsOf
    <2>2. CASE s # r
      <3>1. req'[s] = req[s] /\ req[s].told
        BY <1>6, <2>2
      <3>2. \A t \in Threads \ {s} : t # r => req'[t] = req[t]
        BY <1>6
      <3> QED
        BY <1>3, <1>6, <1>9, <2>2, <3>1, <3>2 DEF TellsOf
    <2> QED
      BY <2>1, <2>2
  <1>11. AnswersKept'
    <2> SUFFICES ASSUME NEW k \in {"note", "doc"}, NEW j \in Ids, acked'[k][j] # None,
                        <<k, j>> \notin lost
                 PROVE  \/ \E s \in Threads : req'[s].told /\ req'[s].kind = k /\ req'[s].id = j
                        \/ Says(k, j, acked'[k][j])
      BY <1>2 DEF AnswersKept, TellsOf, Says
    <2>1. CASE <<k, j>> = <<q.kind, q.id>>
      BY <1>3, <1>6, <2>1
    <2>2. CASE <<k, j>> # <<q.kind, q.id>>
      <3>1. acked'[k][j] = acked[k][j]
        BY <1>7, <2>2
      <3>2. (\E s \in Threads : TellsOf(s, k, j)) \/ Says(k, j, acked[k][j])
        BY <3>1 DEF AcksOK, AnswersKept
      <3>3. \A s \in Threads : TellsOf(s, k, j) => s # r /\ req'[s] = req[s]
        BY <1>2, <1>6 DEF TellsOf
      <3> QED
        BY <3>1, <3>2, <3>3 DEF TellsOf
    <2> QED
      BY <2>1, <2>2
  <1> QED
    BY <1>8, <1>10, <1>11 DEF AcksOK

\* The payload of a request is what its row says.
LEMMA NotePayload ==
  ASSUME NEW q \in Request, Shape(q), q.kind = "note"
  PROVE  Len(q.note) = 1 /\ q.note[1].id = q.id /\ q.note[1].item = Payload(q)
  BY DEF Shape, Payload

LEMMA DocPayload ==
  ASSUME NEW q \in Request, Shape(q), q.kind = "doc"
  PROVE  \E d \in Doc : q.doc = {d} /\ d.id = q.id /\ d.item = Payload(q)
  <1>1. PICK d \in Doc : q.doc = {d} /\ d.id = q.id
    BY DEF Shape
  <1> QED
    BY <1>1, PayloadOfDoc

\* What a commit adds to the activities.
LEMMA CommitNotes ==
  ASSUME Types, NEW r \in Threads, note' = note \o req[r].note
  PROVE  /\ \A n \in Range(note') : \/ n \in Range(note) \/ n.id = None
                                   \/ (req[r].kind = "note" /\ n.id = req[r].id)
         /\ \A n \in Range(note) : n \in Range(note')
         /\ req[r].kind = "note" =>
              \E n \in Range(note') : n.id = req[r].id /\ n.item = Payload(req[r])
  <1> DEFINE q == req[r]
  <1>1. q \in Request /\ Shape(q)
    BY DEF Types
  <1>2. note \in Seq(Note) /\ q.note \in Seq(Note)
    BY <1>1 DEF Types, Request
  <1> HIDE DEF q
  <1>3. Range(note') = Range(note) \cup Range(q.note)
    BY <1>2, ConcatFacts DEF q
  <1>4. /\ \A x \in Range(q.note) : \E i \in 1 .. Len(q.note) : x = q.note[i]
        /\ \A i \in 1 .. Len(q.note) : q.note[i] \in Range(q.note)
    BY <1>2, RangeType
  <1>5. \A n \in Range(q.note) : n.id = None \/ (q.kind = "note" /\ n.id = q.id)
    <2>1. CASE q.kind = "note"
      <3>1. Len(q.note) = 1 /\ q.note[1].id = q.id
        BY <1>1, <2>1, NotePayload
      <3> QED
        BY <1>4, <2>1, <3>1
    <2>2. CASE q.kind # "note"
      BY <1>1, <1>4, <2>2 DEF Shape
    <2> QED
      BY <2>1, <2>2
  <1>6. q.kind = "note" => \E n \in Range(q.note) : n.id = q.id /\ n.item = Payload(q)
    <2> SUFFICES ASSUME q.kind = "note" PROVE \E n \in Range(q.note) : n.id = q.id /\ n.item = Payload(q)
      OBVIOUS
    <2>1. Len(q.note) = 1 /\ q.note[1].id = q.id /\ q.note[1].item = Payload(q)
      BY <1>1, NotePayload
    <2>2. 1 \in 1 .. Len(q.note)
      BY <2>1
    <2> QED
      BY <1>4, <2>1, <2>2
  <1> QED
    BY <1>3, <1>5, <1>6 DEF q

\* What a commit adds to the documents, and takes away.
LEMMA CommitDocs ==
  ASSUME Types, NEW r \in Threads, doc' = (doc \ req[r].drop) \cup req[r].doc,
         lost' = lost \cup {<<"doc", d.id>> : d \in req[r].drop}
  PROVE  /\ \A d \in doc' : \/ d \in doc \/ d.id = None
                           \/ (req[r].kind = "doc" /\ d.id = req[r].id /\ req[r].doc = {d})
         /\ \A d \in doc : d \in doc' \/ <<"doc", d.id>> \in lost'
         /\ req[r].kind = "doc" => \E d \in doc' : d.id = req[r].id /\ d.item = Payload(req[r])
  <1> DEFINE q == req[r]
  <1>1. q \in Request /\ Shape(q)
    BY DEF Types
  <1> HIDE DEF q
  <1>2. \A d \in q.doc : d.id = None \/ (q.kind = "doc" /\ d.id = q.id /\ q.doc = {d})
    <2>1. CASE q.doc = {}
      BY <2>1
    <2>2. CASE q.doc # {}
      <3>1. q.kind \in {"doc", "office"} /\ \E d \in Doc : q.doc = {d} /\ d.id = q.id
        BY <1>1, <2>2 DEF Shape
      <3>2. q.kind = "office" => q.id = None
        BY <1>1 DEF Shape
      <3> QED
        BY <3>1, <3>2
    <2> QED
      BY <2>1, <2>2
  <1>3. q.kind = "doc" => \E d \in q.doc : d.id = q.id /\ d.item = Payload(q)
    BY <1>1, DocPayload
  <1> QED
    BY <1>2, <1>3 DEF q

LEMMA CommitUnique ==
  ASSUME Types, AcksOK, NEW r \in Threads, note' = note \o req[r].note,
         doc' = (doc \ req[r].drop) \cup req[r].doc,
         req[r].kind \in {"note", "doc"} /\ req[r].id # None => ~OnFile(req[r].kind, req[r].id)
  PROVE  UniqueIds'
  <1> DEFINE q == req[r]
  <1>1. q \in Request /\ Shape(q)
    BY DEF Types
  <1>2. note \in Seq(Note) /\ q.note \in Seq(Note)
    BY <1>1 DEF Types, Request
  <1>3. UniqueIds
    BY DEF AcksOK
  <1> HIDE DEF q
  <1>4. /\ Len(note') = Len(note) + Len(q.note) /\ Len(note) \in Nat /\ Len(q.note) \in Nat
        /\ \A i \in 1 .. Len(note) : note'[i] = note[i]
        /\ \A i \in 1 .. Len(q.note) : note'[Len(note) + i] = q.note[i]
    BY <1>2, ConcatFacts, LenProperties DEF q
  <1>5. \A i \in 1 .. Len(note) : note[i] \in Range(note)
    BY <1>2, RangeType
  <1>6. \A j \in 1 .. Len(note') : j \in 1 .. Len(note) \/ \E i \in 1 .. Len(q.note) : j = Len(note) + i
    <2> SUFFICES ASSUME NEW j \in 1 .. Len(note'), j \notin 1 .. Len(note)
                 PROVE  \E i \in 1 .. Len(q.note) : j = Len(note) + i
      OBVIOUS
    <2>1. j - Len(note) \in 1 .. Len(q.note) /\ j = Len(note) + (j - Len(note))
      BY <1>4
    <2> QED
      BY <2>1
  \* A new activity with an id is the only one that is new, and its id is not on file.
  <1>7. ASSUME NEW i \in 1 .. Len(q.note), q.note[i].id # None
        PROVE  i = 1 /\ Len(q.note) = 1 /\ \A j \in 1 .. Len(note) : note[j].id # q.note[i].id
    <2>1. q.kind = "note"
      BY <1>1, <1>7 DEF Shape
    <2>2. Len(q.note) = 1 /\ q.note[1].id = q.id
      BY <1>1, <2>1, NotePayload
    <2>3. i = 1
      BY <2>2
    <2>4. ~OnFile("note", q.id)
      BY <1>7, <2>1, <2>2, <2>3 DEF q
    <2> QED
      BY <1>5, <2>2, <2>3, <2>4 DEF OnFile
  <1>8. ASSUME NEW j \in 1 .. Len(note'), NEW k \in 1 .. Len(note'), note'[j].id = note'[k].id,
               note'[j].id # None
        PROVE  j = k
    <2>1. CASE j \in 1 .. Len(note) /\ k \in 1 .. Len(note)
      BY <1>3, <1>4, <1>8, <2>1 DEF UniqueIds
    <2>2. CASE \E i \in 1 .. Len(q.note) : j = Len(note) + i
      <3>1. PICK i \in 1 .. Len(q.note) : j = Len(note) + i
        BY <2>2
      <3>2. note'[j] = q.note[i]
        BY <1>4, <3>1
      <3>3. i = 1 /\ Len(q.note) = 1 /\ \A l \in 1 .. Len(note) : note[l].id # q.note[i].id
        BY <1>7, <1>8, <3>2
      <3>4. k \notin 1 .. Len(note)
        BY <1>4, <1>8, <3>2, <3>3
      <3>5. PICK h \in 1 .. Len(q.note) : k = Len(note) + h
        BY <1>6, <3>4
      <3> QED
        BY <3>1, <3>3, <3>5
    <2>3. CASE \E i \in 1 .. Len(q.note) : k = Len(note) + i
      <3>1. PICK i \in 1 .. Len(q.note) : k = Len(note) + i
        BY <2>3
      <3>2. note'[k] = q.note[i]
        BY <1>4, <3>1
      <3>3. i = 1 /\ Len(q.note) = 1 /\ \A l \in 1 .. Len(note) : note[l].id # q.note[i].id
        BY <1>7, <1>8, <3>2
      <3>4. j \notin 1 .. Len(note)
        BY <1>4, <1>8, <3>2, <3>3
      <3>5. PICK h \in 1 .. Len(q.note) : j = Len(note) + h
        BY <1>6, <3>4
      <3> QED
        BY <3>1, <3>3, <3>5
    <2> QED
      BY <1>6, <2>1, <2>2, <2>3
  <1>9. ASSUME NEW d \in doc', NEW e \in doc', d.id = e.id, d.id # None PROVE d = e
    <2>1. \A f \in q.doc : f.id # None => q.kind = "doc" /\ f.id = q.id /\ q.doc = {f}
      <3>1. q.doc # {} => q.kind \in {"doc", "office"} /\ \E f \in Doc : q.doc = {f} /\ f.id = q.id
        BY <1>1 DEF Shape
      <3>2. q.kind = "office" => q.id = None
        BY <1>1 DEF Shape
      <3> QED
        BY <3>1, <3>2
    <2>2. \A f \in q.doc, g \in doc : f.id # None => g.id # f.id
      BY <2>1 DEF OnFile, q
    <2>3. \A f \in doc' : f \in doc \/ f \in q.doc
      BY DEF q
    <2> QED
      BY <1>3, <1>9, <2>1, <2>2, <2>3 DEF UniqueIds
  <1> QED
    BY <1>8, <1>9 DEF UniqueIds

LEMMA CommitAcks ==
  ASSUME Types, AcksOK, NEW r \in Threads, Commit(r)
  PROVE  AcksOK'
  <1> DEFINE q == req[r]
  <1>1. /\ note' = note \o q.note /\ doc' = (doc \ q.drop) \cup q.doc /\ (q.told \/ ~Taken(r))
        /\ lost' = lost \cup {<<"doc", d.id>> : d \in q.drop}
        /\ req' = [req EXCEPT ![r] = NoPlan]
    BY DEF Commit
  <1>2. \/ acked' = acked
        \/ /\ q.kind \in {"note", "doc"} /\ q.id # None
           /\ acked' = [acked EXCEPT ![q.kind][q.id] = Payload(q)]
    BY DEF Commit, Told
  <1>3. q \in Request /\ Shape(q)
    BY DEF Types
  <1>4. /\ \A n \in Range(note') : \/ n \in Range(note) \/ n.id = None
                                  \/ (q.kind = "note" /\ n.id = q.id)
        /\ \A n \in Range(note) : n \in Range(note')
        /\ q.kind = "note" => \E n \in Range(note') : n.id = q.id /\ n.item = Payload(q)
    BY <1>1, CommitNotes
  <1>5. /\ \A d \in doc' : \/ d \in doc \/ d.id = None
                          \/ (q.kind = "doc" /\ d.id = q.id /\ q.doc = {d})
        /\ \A d \in doc : d \in doc' \/ <<"doc", d.id>> \in lost'
        /\ q.kind = "doc" => \E d \in doc' : d.id = q.id /\ d.item = Payload(q)
    BY <1>1, CommitDocs
  <1>6. ASSUME q.kind \in {"note", "doc"}, q.id # None
        PROVE  /\ ~OnFile(q.kind, q.id)
               /\ \A s \in Threads \ {r} : ~TellsOf(s, q.kind, q.id)
    BY <1>1, <1>6, FreeId DEF AcksOK, AnswersStand
  <1>7. UniqueIds'
    BY <1>1, <1>6, CommitUnique
  <1>8. q.told => acked[q.kind][q.id] = Payload(q)
    BY DEF AcksOK, AnswersStand
  <1>9. q.kind \in {"note", "doc"} /\ q.id # None => q.id \in Ids
    BY <1>3 DEF Request
  <1>10. \A k \in {"note", "doc"}, j \in Ids :
           acked'[k][j] = acked[k][j] \/ (<<k, j>> = <<q.kind, q.id>> /\ acked'[k][j] = Payload(q))
    <2>1. CASE acked' = acked
      BY <2>1
    <2>2. CASE /\ q.kind \in {"note", "doc"} /\ q.id # None
               /\ acked' = [acked EXCEPT ![q.kind][q.id] = Payload(q)]
      <3>1. q.id \in Ids
        BY <1>9, <2>2
      <3> HIDE DEF q
      <3>2. /\ acked'[q.kind][q.id] = Payload(q)
            /\ \A k \in {"note", "doc"}, j \in Ids : <<k, j>> # <<q.kind, q.id>> => acked'[k][j] = acked[k][j]
        BY <2>2, <3>1, AckKeys
      <3> QED
        BY <3>2
    <2> QED
      BY <1>2, <2>1, <2>2
  <1>11. req'[r] = NoPlan /\ \A s \in Threads : s # r => req'[s] = req[s]
    BY <1>1, MovesThreads
  <1>12. ~NoPlan.told
    BY NoPlanFacts
  <1> HIDE DEF q
  <1>13. ASSUME NEW k \in {"note", "doc"}, NEW j \in Ids, ~OnFile(k, j), <<k, j>> # <<q.kind, q.id>>
         PROVE  /\ k = "note" => \A n \in Range(note') : n.id # j
                /\ k = "doc" => \A d \in doc' : d.id # j
    <2>1. j # None
      BY OutreachAssumption
    <2> QED
      BY <1>4, <1>5, <1>13, <2>1 DEF OnFile
  <1>14. AnswersStand'
    <2> SUFFICES ASSUME NEW s \in Threads, req'[s].told
                 PROVE  /\ acked'[req'[s].kind][req'[s].id] = Payload(req'[s])
                        /\ req'[s].kind = "note" => \A n \in Range(note') : n.id # req'[s].id
                        /\ req'[s].kind = "doc" => \A d \in doc' : d.id # req'[s].id
                        /\ \A t \in Threads \ {s} :
                             ~(req'[t].told /\ req'[t].kind = req'[s].kind /\ req'[t].id = req'[s].id)
      BY DEF AnswersStand, OnFile, TellsOf, Payload
    <2>1. s # r /\ req'[s] = req[s] /\ req[s].told
      BY <1>11, <1>12
    <2>2. /\ acked[req[s].kind][req[s].id] = Payload(req[s])
          /\ ~OnFile(req[s].kind, req[s].id)
          /\ \A t \in Threads \ {s} : ~TellsOf(t, req[s].kind, req[s].id)
      BY <2>1 DEF AcksOK, AnswersStand
    <2>3. req[s].kind \in {"note", "doc"} /\ req[s].id \in Ids
      BY <2>1, ToldFacts
    <2>4. <<req[s].kind, req[s].id>> # <<q.kind, q.id>>
      <3>1. req[s].id # None
        BY <2>3, OutreachAssumption
      <3> QED
        BY <1>6, <2>1, <2>3, <3>1 DEF TellsOf
    <2>5. acked'[req[s].kind][req[s].id] = Payload(req[s])
      BY <1>10, <2>2, <2>3, <2>4
    <2>6. /\ req[s].kind = "note" => \A n \in Range(note') : n.id # req[s].id
          /\ req[s].kind = "doc" => \A d \in doc' : d.id # req[s].id
      BY <1>13, <2>2, <2>3, <2>4
    <2>7. \A t \in Threads \ {s} :
            ~(req'[t].told /\ req'[t].kind = req[s].kind /\ req'[t].id = req[s].id)
      BY <1>11, <1>12, <2>2 DEF TellsOf
    <2> QED
      BY <2>1, <2>5, <2>6, <2>7
  <1>15. AnswersKept'
    <2> SUFFICES ASSUME NEW k \in {"note", "doc"}, NEW j \in Ids, acked'[k][j] # None,
                        <<k, j>> \notin lost'
                 PROVE  \/ \E s \in Threads : req'[s].told /\ req'[s].kind = k /\ req'[s].id = j
                        \/ k = "note" /\ \E n \in Range(note') : n.id = j /\ n.item = acked'[k][j]
                        \/ k = "doc" /\ \E d \in doc' : d.id = j /\ d.item = acked'[k][j]
      BY DEF AnswersKept, TellsOf, Says
    <2>1. <<k, j>> \notin lost /\ j # None
      BY <1>1, OutreachAssumption
    <2>2. acked[k][j] # None => (\E s \in Threads : TellsOf(s, k, j)) \/ Says(k, j, acked[k][j])
      BY <2>1 DEF AcksOK, AnswersKept
    <2>3. CASE <<k, j>> = <<q.kind, q.id>>
      <3>1. q.kind = k /\ q.id = j
        BY <2>3
      <3>2. acked'[k][j] = Payload(q)
        <4>1. CASE acked'[k][j] # acked[k][j]
          BY <1>10, <4>1
        <4>2. CASE acked'[k][j] = acked[k][j]
          <5>1. (\E s \in Threads : TellsOf(s, k, j)) \/ Says(k, j, acked[k][j])
            BY <2>2, <4>2
          <5>2. ~Says(k, j, acked[k][j])
            BY <1>6, <2>1, <3>1 DEF Says, OnFile
          <5>3. TellsOf(r, k, j)
            BY <1>6, <2>1, <3>1, <5>1, <5>2
          <5> QED
            BY <1>8, <3>1, <4>2, <5>3 DEF TellsOf, q
        <4> QED
          BY <4>1, <4>2
      <3> QED
        BY <1>4, <1>5, <3>1, <3>2
    <2>4. CASE <<k, j>> # <<q.kind, q.id>>
      <3>1. acked'[k][j] = acked[k][j]
        BY <1>10, <2>4
      <3>2. CASE \E s \in Threads : TellsOf(s, k, j)
        BY <1>11, <2>4, <3>2 DEF TellsOf, q
      <3>3. CASE Says(k, j, acked[k][j])
        BY <1>4, <1>5, <3>1, <3>3 DEF Says
      <3> QED
        BY <2>2, <3>1, <3>2, <3>3
    <2> QED
      BY <2>3, <2>4
  <1> QED
    BY <1>7, <1>14, <1>15 DEF AcksOK

LEMMA DieAcks ==
  ASSUME Types, AcksOK, NEW r \in Threads, Die(r)
  PROVE  AcksOK'
  <1>1. /\ req' = [req EXCEPT ![r] = NoPlan] /\ UNCHANGED <<note, doc, acked>>
        /\ lost' = IF req[r].told THEN lost \cup {<<req[r].kind, req[r].id>>} ELSE lost
    BY DEF Die
  <1>2. req'[r] = NoPlan /\ ~NoPlan.told /\ \A s \in Threads : s # r => req'[s] = req[s]
    BY <1>1, MovesThreads, NoPlanFacts
  <1>3. \A s \in Threads : req'[s].told => s # r /\ req'[s] = req[s]
    BY <1>2
  <1>4. UniqueIds'
    BY <1>1 DEF AcksOK, UniqueIds
  <1>5. AnswersStand'
    BY <1>1, <1>3 DEF AcksOK, AnswersStand, OnFile, TellsOf, Payload
  <1>6. AnswersKept'
    <2> SUFFICES ASSUME NEW k \in {"note", "doc"}, NEW j \in Ids, acked[k][j] # None,
                        <<k, j>> \notin lost'
                 PROVE  \/ \E s \in Threads : req'[s].told /\ req'[s].kind = k /\ req'[s].id = j
                        \/ Says(k, j, acked[k][j])
      BY <1>1 DEF AnswersKept, TellsOf, Says
    <2>1. <<k, j>> \notin lost /\ ~TellsOf(r, k, j)
      BY <1>1 DEF TellsOf
    <2>2. (\E s \in Threads : TellsOf(s, k, j)) \/ Says(k, j, acked[k][j])
      BY <2>1 DEF AcksOK, AnswersKept
    <2> QED
      BY <1>2, <2>1, <2>2 DEF TellsOf
  <1> QED
    BY <1>4, <1>5, <1>6 DEF AcksOK

\* The steps that neither answer nor file an answer.
LEMMA OtherAcks ==
  ASSUME Types, AcksOK, NEW r \in Threads,
         SendByHand(r) \/ StartBatch(r) \/ SendNext(r) \/ HandOver(r) \/ SaveSettings(r)
  PROVE  AcksOK'
  <1>1. ASSUME StartBatch(r) \/ SaveSettings(r) PROVE AcksOK'
    <2>1. PICK q \in Request : Opened(r, q)
      BY <1>1, StartBatchTypes, SaveSettingsTypes
    <2>2. UNCHANGED <<note, doc, acked, lost>>
      BY <1>1, StartBatchTypes, SaveSettingsTypes DEF Quiet
    <2> QED
      BY <2>1, <2>2, IdleFacts, AcksFrame DEF Opened, Plain
  <1>2. ASSUME SendByHand(r) \/ SendNext(r) \/ HandOver(r) PROVE AcksOK'
    <2>1. UNCHANGED <<note, doc, acked, lost>> /\ ~req[r].told
      BY <1>2, StatementTypes DEF Quiet
    <2>2. PICK m : ~m.told /\ req' = [req EXCEPT ![r] = m]
      BY <1>2, StatementTypes
    <2> QED
      BY <2>1, <2>2, AcksFrame
  <1> QED
    BY <1>1, <1>2

\* A request that will file a row begins.
LEMMA BeginAcks ==
  ASSUME Types, AcksOK, NEW r \in Threads, req[r].kind = "", NEW q, q.told = FALSE,
         req' = [req EXCEPT ![r] = q], UNCHANGED <<note, doc, acked, lost>>
  PROVE  AcksOK'
  BY IdleFacts, AcksFrame

LEMMA FilingAcks ==
  ASSUME Types, AcksOK, NEW r \in Threads,
         CreateActivity(r) \/ UploadDocument(r) \/ UploadAtOffice(r) \/ DeleteDocument(r)
  PROVE  AcksOK'
  <1>1. ASSUME CreateActivity(r) PROVE AcksOK'
    <2>1. ASSUME NEW i \in Ids \cup {None}, NEW item \in Item,
                 req' = [req EXCEPT ![r] = ANote(i, item)], UNCHANGED <<note, doc, acked, lost>>
          PROVE  AcksOK'
      <3> DEFINE q == ANote(i, item)
      <3>1. q.told = FALSE
        BY ANoteFacts
      <3> HIDE DEF q
      <3>2. req' = [req EXCEPT ![r] = q]
        BY <2>1 DEF q
      <3> QED
        BY <1>1, <2>1, <3>1, <3>2, CreateActivityCases, BeginAcks
    <2> QED
      BY <1>1, <2>1, CreateActivityCases, RepeatedAcks DEF Quiet
  <1>2. ASSUME NEW kind \in {"doc", "office"}, NEW i \in Ids \cup {None}, NEW item \in Item,
               Arrives(r, kind, i, item), req[r].kind = ""
        PROVE  AcksOK'
    <2> DEFINE q == ADoc(kind, i, item)
    <2>1. q.told = FALSE
      BY DEF ADoc, NoPlan
    <2>2. req' = [req EXCEPT ![r] = q] /\ UNCHANGED <<note, doc, acked, lost>>
      BY <1>2 DEF Arrives, Quiet
    <2> HIDE DEF q
    <2> QED
      BY <1>2, <2>1, <2>2, BeginAcks
  <1>3. ASSUME UploadDocument(r) PROVE AcksOK'
    <2>1. req[r].kind = "" /\ (Repeated("doc") \/ \E i \in Ids, item \in Item : Arrives(r, "doc", i, item))
      BY <1>3, UploadDocumentCases
    <2> QED
      BY <1>2, <2>1, RepeatedAcks
  <1>4. ASSUME UploadAtOffice(r) PROVE AcksOK'
    <2>1. req[r].kind = "" /\ \E item \in Item : Arrives(r, "office", None, item)
      BY <1>4, UploadAtOfficeCases
    <2> QED
      BY <1>2, <2>1
  <1>5. ASSUME DeleteDocument(r) PROVE AcksOK'
    <2>1. PICK d \in doc : req' = [req EXCEPT ![r] = ADeletion(d)]
      BY <1>5, DeleteDocumentCases
    <2> DEFINE q == ADeletion(d)
    <2>2. q.told = FALSE
      BY ADeletionFacts DEF Types
    <2> HIDE DEF q
    <2>3. req' = [req EXCEPT ![r] = q]
      BY <2>1 DEF q
    <2>4. req[r].kind = "" /\ UNCHANGED <<note, doc, acked, lost>>
      BY <1>5, DeleteDocumentCases DEF Quiet
    <2> QED
      BY <2>2, <2>3, <2>4, BeginAcks
  <1> QED
    BY <1>1, <1>3, <1>4, <1>5

LEMMA AcksStep == Types /\ AcksOK /\ [Next]_vars => AcksOK'
  <1> SUFFICES ASSUME Types, AcksOK, [Next]_vars PROVE AcksOK'
    OBVIOUS
  <1>1. CASE UNCHANGED <<note, doc, acked, lost, req>>
    BY <1>1, AcksSame
  <1>2. CASE UNCHANGED vars
    BY <1>1, <1>2 DEF vars
  <1>3. CASE Reassign \/ BalanceChanges \/ Midnight \/ LoadSettings \/ ExpireCache
    BY <1>1, <1>3 DEF Reassign, BalanceChanges, Midnight, LoadSettings, ExpireCache, Quiet
  <1>4. ASSUME NEW r \in Threads,
               CreateActivity(r) \/ UploadDocument(r) \/ UploadAtOffice(r) \/ DeleteDocument(r)
        PROVE  AcksOK'
    BY <1>4, FilingAcks
  <1>5. ASSUME NEW r \in Threads,
               SendByHand(r) \/ StartBatch(r) \/ SendNext(r) \/ HandOver(r) \/ SaveSettings(r)
        PROVE  AcksOK'
    BY <1>5, OtherAcks
  <1>6. ASSUME NEW r \in Threads, Answer(r) \/ Commit(r) \/ Die(r) PROVE AcksOK'
    BY <1>6, AnswerAcks, CommitAcks, DieAcks
  <1> QED
    BY <1>2, <1>3, <1>4, <1>5, <1>6 DEF Next

LEMMA InitAcks == Init => AcksOK
  <1> SUFFICES ASSUME Init PROVE AcksOK
    OBVIOUS
  <1>1. Len(note) = 0 /\ doc = {} /\ \A k \in {"note", "doc"}, i \in Ids : acked[k][i] = None
    BY EmptySeq DEF Init
  <1>2. \A r \in Threads : ~req[r].told
    BY NoPlanFacts DEF Init
  <1>3. UniqueIds
    BY <1>1 DEF UniqueIds
  <1>4. AnswersStand /\ AnswersKept
    BY <1>1, <1>2 DEF AnswersStand, AnswersKept
  <1> QED
    BY <1>3, <1>4 DEF AcksOK

LEMMA AcksStored == Types /\ AcksOK => SyncedIsStored
  <1> SUFFICES ASSUME Types, AcksOK, NEW i \in Ids
               PROVE  /\ acked["note"][i] # None /\ <<"note", i>> \notin lost =>
                           \/ \E r \in Threads : req[r].told /\ req[r].kind = "note" /\ req[r].id = i
                           \/ /\ \E n \in Range(note) : n.id = i /\ n.item = acked["note"][i]
                              /\ Cardinality({j \in DOMAIN note : note[j].id = i}) = 1
                      /\ acked["doc"][i] # None /\ <<"doc", i>> \notin lost =>
                           \/ \E r \in Threads : req[r].told /\ req[r].kind = "doc" /\ req[r].id = i
                           \/ \E d \in doc : /\ d.id = i /\ d.item = acked["doc"][i]
                                             /\ \A e \in doc : e.id = i => e = d
    BY DEF SyncedIsStored
  <1>1. i # None
    BY OutreachAssumption
  <1>2. note \in Seq(Note)
    BY DEF Types
  <1>3. DOMAIN note = 1 .. Len(note) /\ \A x \in Range(note) : \E j \in 1 .. Len(note) : x = note[j]
    BY <1>2, RangeType
  <1>4. ASSUME NEW n \in Range(note), n.id = i
        PROVE  Cardinality({j \in DOMAIN note : note[j].id = i}) = 1
    <2>1. PICK k \in 1 .. Len(note) : n = note[k]
      BY <1>3
    <2>2. \A j \in 1 .. Len(note) : note[j].id = i <=> j = k
      BY <1>1, <1>4, <2>1 DEF AcksOK, UniqueIds
    <2>3. {j \in DOMAIN note : note[j].id = i} = {k}
      BY <1>3, <2>2
    <2>4. Cardinality({k}) = 1
      BY FS_Singleton
    <2> QED
      BY <2>3, <2>4
  <1>5. \A d, e \in doc : d.id = i /\ e.id = i => e = d
    BY <1>1 DEF AcksOK, UniqueIds
  <1>6. \A kind \in {"note", "doc"} : acked[kind][i] # None /\ <<kind, i>> \notin lost =>
          (\E r \in Threads : TellsOf(r, kind, i)) \/ Says(kind, i, acked[kind][i])
    BY DEF AcksOK, AnswersKept
  <1> QED
    BY <1>4, <1>5, <1>6 DEF TellsOf, Says

\* What a phone was told is SYNCED is on file once and as sent, for any number of phones, ids and
\* requests at once, in every order of attempts, answers and commits.
THEOREM AnswersAreKept == Spec => []SyncedIsStored
  <1>1. Spec => []AcksOK
    BY InitAcks, AcksStep, TypesHold, PTL DEF Spec
  <1> QED
    BY <1>1, AcksStored, TypesHold, PTL

-----------------------------------------------------------------------------
(* Statements *)

\* A statement that went to c on a day is in the delivery table or in a request.
Booked(c, day) ==
  \/ \E d \in Range(delivery) : d.cust = c /\ d.status = "SENT" /\ d.day = day
  \/ \E s \in Threads : \E d \in Range(req[s].deliveries) : d.cust = c /\ d.status = "SENT" /\ d.day = day

\* A statement that is being sent to a customer who is not in loose: nobody else sends to that
\* customer, and a batch would still find nothing within the cooldown.
Alone(r, c) ==
  /\ ~Crowds(r, c)
  /\ req[r].kind = "batch" =>
       \A d \in Range(delivery) \cup Range(req[r].deliveries) :
         d.cust = c /\ d.status = "SENT" => ~(req[r].day - d.day < Cooldown)

MailsOK ==
  /\ MailedOnce
  /\ \A i \in DOMAIN mail : mail[i].cust \in loose \/ Booked(mail[i].cust, mail[i].day)
  /\ \A r \in Threads : \A c \in req[r].sending : c \in loose \/ Alone(r, c)

\* A request that sends alone still does after a step of another one that mails nothing new.
LEMMA AloneStays ==
  ASSUME NEW s \in Threads, NEW c, Alone(s, c), req'[s] = req[s],
         \A d \in Range(delivery') : d.cust = c /\ d.status = "SENT" => d \in Range(delivery),
         \A t \in Threads \ {s} : c \notin Mailed(req'[t]) \cup req'[t].sending
  PROVE  Alone(s, c)'
  <1>1. ~Crowds(s, c)'
    BY DEF Crowds, Mailed
  <1>2. ASSUME req[s].kind = "batch",
               NEW d \in Range(delivery') \cup Range(req[s].deliveries), d.cust = c, d.status = "SENT"
         PROVE  ~(req[s].day - d.day < Cooldown)
    BY <1>2 DEF Alone
  <1> QED
    BY <1>1, <1>2 DEF Alone

\* No mail goes out, no row is lost, and the request that moves sends nothing.
LEMMA MailsFrame ==
  ASSUME Types, MailsOK, UNCHANGED <<delivery, mail>>, loose \subseteq loose', NEW r \in Threads, NEW q,
         req' = [req EXCEPT ![r] = q], Range(req[r].deliveries) \subseteq Range(q.deliveries),
         Mailed(q) \subseteq Mailed(req[r]), q.sending = {}
  PROVE  MailsOK'
  <1>1. req'[r] = q /\ \A s \in Threads : s # r => req'[s] = req[s]
    BY MovesThreads
  <1>2. \A s \in Threads : Range(req[s].deliveries) \subseteq Range(req'[s].deliveries)
    BY <1>1
  <1>3. \A i \in DOMAIN mail : mail[i].cust \in loose' \/ Booked(mail[i].cust, mail[i].day)'
    BY <1>2 DEF MailsOK, Booked
  <1>4. MailedOnce'
    BY DEF MailsOK, MailedOnce
  <1>5. ASSUME NEW s \in Threads, NEW c \in req'[s].sending, c \notin loose'
        PROVE  Alone(s, c)'
    <2>1. s # r /\ req'[s] = req[s]
      BY <1>1, <1>5
    <2>2. Alone(s, c)
      BY <1>5, <2>1 DEF MailsOK
    <2>3. \A t \in Threads \ {s} : c \notin Mailed(req[t]) \cup req[t].sending
      BY <2>2 DEF Alone, Crowds
    <2>4. \A t \in Threads \ {s} : c \notin Mailed(req'[t]) \cup req'[t].sending
      BY <1>1, <2>3
    <2> QED
      BY <2>1, <2>2, <2>4, AloneStays
  <1> QED
    BY <1>3, <1>4, <1>5 DEF MailsOK

LEMMA MailsSame ==
  ASSUME MailsOK, UNCHANGED <<delivery, mail, loose, req>>
  PROVE  MailsOK'
  BY DEF MailsOK, MailedOnce, Booked, Alone, Crowds, Mailed, Cooling, SentTo

\* What a record adds to what a request has mailed.
LEMMA RecordedMails ==
  ASSUME NEW q \in Request, Shape(q), q.kind \in {"hand", "batch"}, NEW c \in Customers,
         NEW status \in {"SENT", "SKIPPED", "FAILED"}
  PROVE  /\ Range(q.deliveries) \subseteq Range(Recorded(q, c, status).deliveries)
         /\ status # "SENT" => Mailed(Recorded(q, c, status)) = Mailed(q)
         /\ Mailed(Recorded(q, c, status)) \subseteq Mailed(q) \cup {c}
  <1> DEFINE m == Recorded(q, c, status)
             row == Statement(q, c, status)
  <1>1. Range(m.deliveries) = Range(q.deliveries) \cup {row}
    BY RecordedFacts
  <1>2. row.cust = c /\ row.status = status
    BY DEF Statement
  <1> HIDE DEF m, row
  <1>3. /\ Range(q.deliveries) \subseteq Range(m.deliveries)
        /\ status # "SENT" => Mailed(m) = Mailed(q)
        /\ Mailed(m) \subseteq Mailed(q) \cup {c}
    BY <1>1, <1>2 DEF Mailed
  <1> QED
    BY <1>3 DEF m

\* The mail server takes a statement: if the customer is not in loose, whatever it was sent
\* before was sent the cooldown before.
LEMMA MailMore ==
  ASSUME Types, MailsOK, NEW r \in Threads, NEW q, NEW c, Sends(r, q, c), delivery' = delivery,
         Takes(r, q, c), c \in req[r].sending, q.kind = req[r].kind, q.day = req[r].day
  PROVE  MailsOK'
  <1> DEFINE m == Recorded(q, c, "SENT")
             row == Statement(q, c, "SENT")
             auto == q.kind = "batch"
             x == [cust |-> c, auto |-> auto, day |-> q.day]
  <1>1. /\ q \in Request /\ Shape(q) /\ q.kind \in {"hand", "batch"} /\ c \in Customers
        /\ q.deliveries = req[r].deliveries
    BY DEF Sends
  <1>2. /\ Range(m.deliveries) = Range(q.deliveries) \cup {row} /\ m.sending = {}
        /\ row.cust = c /\ row.status = "SENT" /\ row.day = q.day
    <2>1. Range(m.deliveries) = Range(q.deliveries) \cup {row} /\ m.sending = q.sending
      BY <1>1, RecordedFacts
    <2> QED
      BY <2>1 DEF Statement, Sends
  <1>3. x \in Mail /\ x.cust = c /\ x.auto = auto /\ x.day = q.day
    BY <1>1 DEF Mail, Request
  <1>4. req' = [req EXCEPT ![r] = m] /\ mail' = Append(mail, x) /\ loose' = loose
    BY DEF Takes
  <1>5. Mailed(m) \subseteq Mailed(q) \cup {c}
    BY <1>1, RecordedMails
  <1>6. Mailed(q) = Mailed(req[r])
    BY <1>1 DEF Mailed
  <1> HIDE DEF m, row, x
  <1>7. req'[r] = m /\ \A s \in Threads : s # r => req'[s] = req[s]
    BY <1>4, MovesThreads
  <1>8. /\ Len(mail) \in Nat /\ DOMAIN mail = 1 .. Len(mail) /\ DOMAIN mail' = 1 .. Len(mail) + 1
        /\ \A i \in 1 .. Len(mail) : mail'[i] = mail[i]
        /\ mail'[Len(mail) + 1] = x
    <2>1. mail \in Seq(Mail)
      BY DEF Types
    <2> QED
      BY <1>3, <1>4, <2>1, AppendFacts
  <1>9. \A e, d : Booked(e, d) => Booked(e, d)'
    <2>1. \A s \in Threads : Range(req[s].deliveries) \subseteq Range(req'[s].deliveries)
      BY <1>1, <1>2, <1>7
    <2> QED
      BY <2>1 DEF Booked
  <1>10. ASSUME NEW i \in 1 .. Len(mail) + 1, NEW e, NEW d, e = mail'[i].cust, d = mail'[i].day
         PROVE  e \in loose' \/ Booked(e, d)'
    <2>1. CASE i \in 1 .. Len(mail)
      <3>1. e = mail[i].cust /\ d = mail[i].day
        BY <1>8, <1>10, <2>1
      <3>2. mail[i].cust \in loose \/ Booked(mail[i].cust, mail[i].day)
        BY <1>8, <2>1 DEF MailsOK
      <3>3. e \in loose \/ Booked(e, d)
        BY <3>1, <3>2 DEF Booked
      <3> QED
        BY <1>4, <1>9, <3>3
    <2>2. CASE i = Len(mail) + 1
      <3>1. e = c /\ d = q.day
        BY <1>3, <1>8, <1>10, <2>2
      <3>2. row \in Range(req'[r].deliveries)
        BY <1>2, <1>7
      <3>3. Booked(e, d)'
        BY <1>2, <3>1, <3>2 DEF Booked
      <3> QED
        BY <3>3
    <2> QED
      BY <1>8, <2>1, <2>2
  <1>11. ASSUME NEW i \in 1 .. Len(mail), mail[i].cust = c, auto, c \notin loose
         PROVE  q.day - mail[i].day >= Cooldown
    <2>1. Booked(c, mail[i].day)
      BY <1>8, <1>11 DEF MailsOK
    <2>2. Alone(r, c)
      BY <1>11 DEF MailsOK
    <2>3. \A s \in Threads \ {r} : c \notin Mailed(req[s])
      BY <2>2 DEF Alone, Crowds
    <2>4. \A s \in Threads \ {r} : \A d \in Range(req[s].deliveries) : ~(d.cust = c /\ d.status = "SENT")
      BY <2>3 DEF Mailed
    <2>5. PICK d \in Range(delivery) \cup Range(req[r].deliveries) :
            d.cust = c /\ d.status = "SENT" /\ d.day = mail[i].day
      BY <2>1, <2>4 DEF Booked
    <2>6. req[r].kind = "batch"
      BY <1>11
    <2>7. ~(req[r].day - d.day < Cooldown)
      BY <2>2, <2>5, <2>6 DEF Alone
    <2>8. mail[i].day \in Int /\ q.day \in Int /\ Cooldown \in Int
      <3>1. mail[i] \in Mail
        BY ElementOfSeq DEF Types
      <3> QED
        BY <1>1, <3>1, OutreachAssumption DEF Mail, Day, Request
    <2> QED
      BY <2>5, <2>7, <2>8
  <1>12. ASSUME NEW j \in 1 .. Len(mail) + 1, NEW i \in 1 .. j - 1, mail'[j].auto,
                mail'[i].cust = mail'[j].cust, mail'[j].cust \notin loose'
         PROVE  mail'[j].day - mail'[i].day >= Cooldown
    <2>1. i \in 1 .. Len(mail)
      BY <1>8
    <2>2. mail'[i] = mail[i]
      BY <1>8, <2>1
    <2>3. CASE j \in 1 .. Len(mail)
      <3>1. mail'[j] = mail[j]
        BY <1>8, <2>3
      <3>2. mail[j].cust \notin loose
        BY <1>4, <1>12, <3>1
      <3> QED
        BY <1>8, <1>12, <2>2, <2>3, <3>1, <3>2 DEF MailsOK, MailedOnce
    <2>4. CASE j = Len(mail) + 1
      <3>1. mail'[j].cust = c /\ mail'[j].day = q.day /\ mail'[j].auto = auto
        BY <1>3, <1>8, <2>4
      <3>2. c \notin loose /\ mail[i].cust = c /\ auto
        BY <1>4, <1>12, <2>2, <3>1
      <3> QED
        BY <1>11, <2>1, <2>2, <3>1, <3>2
    <2> QED
      BY <1>8, <2>3, <2>4
  <1>13. MailedOnce'
    BY <1>8, <1>12 DEF MailedOnce
  <1>14. \A i \in DOMAIN mail' :
           \/ mail'[i].cust \in loose'
           \/ \E d \in Range(delivery') : d.cust = mail'[i].cust /\ d.status = "SENT" /\ d.day = mail'[i].day
           \/ \E s \in Threads : \E d \in Range(req'[s].deliveries) :
                d.cust = mail'[i].cust /\ d.status = "SENT" /\ d.day = mail'[i].day
    BY <1>8, <1>10 DEF Booked
  <1>15. ASSUME NEW s \in Threads, NEW e \in req'[s].sending, e \notin loose'
         PROVE  Alone(s, e)'
    <2>1. s # r /\ req'[s] = req[s]
      BY <1>2, <1>7
    <2>2. Alone(s, e)
      BY <1>4, <1>15, <2>1 DEF MailsOK
    <2>3. \A t \in Threads \ {s} : e \notin Mailed(req[t]) \cup req[t].sending
      BY <2>2 DEF Alone, Crowds
    <2>4. e # c /\ e \notin Mailed(req[r])
      BY <2>1, <2>3
    <2>5. \A t \in Threads \ {s} : e \notin Mailed(req'[t]) \cup req'[t].sending
      BY <1>2, <1>5, <1>6, <1>7, <2>3, <2>4
    <2> QED
      BY <2>1, <2>2, <2>5, AloneStays
  <1> QED
    BY <1>13, <1>14, <1>15 DEF MailsOK, Booked

\* A statement is offered to the mail server: whoever is sending to the same customer, or has
\* mailed it and not committed, makes the customer one of loose.
LEMMA OfferedMails ==
  ASSUME Types, MailsOK, NEW r \in Threads, NEW q, NEW c, Sends(r, q, c), delivery' = delivery,
         Offers(r, q, c), q.kind = "batch" => ~Cooling(q, c)
  PROVE  MailsOK'
  <1> DEFINE m == [q EXCEPT !.sending = {c}]
  <1>1. /\ q \in Request /\ Shape(q) /\ q.kind \in {"hand", "batch"} /\ c \in Customers
        /\ q.deliveries = req[r].deliveries
    BY DEF Sends
  <1>2. m.deliveries = q.deliveries /\ m.sending = {c} /\ m.kind = q.kind /\ m.day = q.day
    BY <1>1, SendingShape
  <1>3. req' = [req EXCEPT ![r] = m] /\ mail' = mail
    BY DEF Offers
  <1>4. loose' = IF Crowds(r, c) THEN loose \cup {c} ELSE loose
    BY DEF Offers
  <1> HIDE DEF m
  <1>5. req'[r] = m /\ \A s \in Threads : s # r => req'[s] = req[s]
    BY <1>3, MovesThreads
  <1>6. Mailed(m) = Mailed(req[r]) /\ Range(m.deliveries) = Range(req[r].deliveries)
    BY <1>1, <1>2 DEF Mailed
  <1>7. loose \subseteq loose' /\ (Crowds(r, c) => c \in loose')
    BY <1>4
  <1>8. \A i \in DOMAIN mail : mail[i].cust \in loose' \/ Booked(mail[i].cust, mail[i].day)'
    <2>1. \A s \in Threads : Range(req[s].deliveries) = Range(req'[s].deliveries)
      BY <1>5, <1>6
    <2> QED
      BY <1>3, <1>7, <2>1 DEF MailsOK, Booked
  <1>9. MailedOnce'
    BY <1>3, <1>7 DEF MailsOK, MailedOnce
  <1>10. ASSUME NEW s \in Threads, NEW e \in req'[s].sending, e \notin loose'
         PROVE  Alone(s, e)'
    <2>1. CASE s = r
      <3>1. e = c /\ ~Crowds(r, c)
        BY <1>2, <1>5, <1>7, <1>10, <2>1
      <3>2. \A t \in Threads \ {r} : c \notin Mailed(req[t]) \cup req[t].sending
        BY <3>1 DEF Crowds
      <3>3. ~Crowds(r, c)'
        BY <1>5, <3>2 DEF Crowds, Mailed
      <3>4. ASSUME m.kind = "batch",
                   NEW d \in Range(delivery') \cup Range(m.deliveries), d.cust = c, d.status = "SENT"
             PROVE  ~(m.day - d.day < Cooldown)
        <4>1. ~Cooling(q, c)
          BY <1>2, <3>4
        <4>2. d \in Range(delivery) \cup Range(q.deliveries)
          BY <1>2, <3>4
        <4> QED
          BY <1>2, <3>4, <4>1, <4>2 DEF Cooling, SentTo
      <3> QED
        BY <1>5, <2>1, <3>1, <3>3, <3>4 DEF Alone
    <2>2. CASE s # r
      <3>1. req'[s] = req[s] /\ e \in req[s].sending /\ e \notin loose
        BY <1>5, <1>7, <1>10, <2>2
      <3>2. Alone(s, e)
        BY <3>1 DEF MailsOK
      <3>3. \A t \in Threads \ {s} : e \notin Mailed(req[t]) \cup req[t].sending
        BY <3>2 DEF Alone, Crowds
      <3>4. e # c
        BY <1>7, <1>10, <2>2, <3>1 DEF Crowds
      <3>5. \A t \in Threads \ {s} : e \notin Mailed(req'[t]) \cup req'[t].sending
        BY <1>2, <1>5, <1>6, <3>3, <3>4
      <3> QED
        BY <3>1, <3>2, <3>5, AloneStays
    <2> QED
      BY <2>1, <2>2
  <1> QED
    BY <1>3, <1>8, <1>9, <1>10 DEF MailsOK

LEMMA SendsMails ==
  ASSUME Types, MailsOK, NEW r \in Threads, NEW q, NEW c, Sends(r, q, c), delivery' = delivery
  PROVE  MailsOK'
  <1>1. /\ q \in Request /\ Shape(q) /\ q.kind \in {"hand", "batch"} /\ c \in Customers
        /\ q.deliveries = req[r].deliveries /\ q.sending = {}
    BY DEF Sends
  <1>2. Mailed(q) = Mailed(req[r])
    BY <1>1 DEF Mailed
  <1>3. CASE Passes(r, q)
    BY <1>1, <1>2, <1>3, MailsFrame DEF Passes
  <1>4. ASSUME NEW status \in {"SKIPPED", "FAILED"}, Records(r, q, c, status)
        PROVE  MailsOK'
    <2> DEFINE m == Recorded(q, c, status)
    <2>1. Range(q.deliveries) \subseteq Range(m.deliveries) /\ Mailed(m) = Mailed(q)
      BY <1>1, RecordedMails
    <2>2. status \in {"SENT", "SKIPPED", "FAILED"}
      BY <1>4
    <2>3. m.sending = q.sending
      BY <1>1, <2>2, RecordedFacts
    <2> HIDE DEF m
    <2>4. req' = [req EXCEPT ![r] = m] /\ UNCHANGED <<mail, loose>>
      BY <1>4 DEF Records, m
    <2> QED
      BY <1>1, <1>2, <2>1, <2>3, <2>4, MailsFrame
  <1>5. CASE Offers(r, q, c) /\ (q.kind = "batch" => ~Cooling(q, c))
    BY <1>5, OfferedMails
  <1>6. CASE Takes(r, q, c) /\ c \in req[r].sending /\ q.kind = req[r].kind /\ q.day = req[r].day
    BY <1>6, MailMore
  <1> QED
    BY <1>3, <1>4, <1>5, <1>6 DEF Sends

LEMMA NothingMailed == Mailed(NoPlan) = {} /\ NoPlan.sending = {}
  <1>1. NoPlan.deliveries = <<>> /\ NoPlan.sending = {}
    BY NoPlanFacts
  <1>2. Range(<<>>) = {}
    BY DEF Range
  <1> QED
    BY <1>1, <1>2 DEF Mailed

LEMMA CommitMails ==
  ASSUME Types, MailsOK, NEW r \in Threads, Commit(r)
  PROVE  MailsOK'
  <1>1. /\ delivery' = delivery \o req[r].deliveries /\ UNCHANGED <<mail, loose>>
        /\ req' = [req EXCEPT ![r] = NoPlan]
    BY DEF Commit
  <1>2. delivery \in Seq(Delivery) /\ req[r].deliveries \in Seq(Delivery)
    BY DEF Types, Request
  <1>3. Range(delivery') = Range(delivery) \cup Range(req[r].deliveries)
    BY <1>1, <1>2, ConcatFacts
  <1>4. req'[r] = NoPlan /\ \A s \in Threads : s # r => req'[s] = req[s]
    BY <1>1, MovesThreads
  <1>5. \A i \in DOMAIN mail : mail[i].cust \in loose' \/ Booked(mail[i].cust, mail[i].day)'
    <2> SUFFICES ASSUME NEW i \in DOMAIN mail, mail[i].cust \notin loose
                 PROVE  Booked(mail[i].cust, mail[i].day)'
      BY <1>1
    <2>1. Booked(mail[i].cust, mail[i].day)
      BY DEF MailsOK
    <2> QED
      BY <1>1, <1>3, <1>4, <2>1 DEF Booked
  <1>6. MailedOnce'
    BY <1>1 DEF MailsOK, MailedOnce
  <1>7. Mailed(NoPlan) = {} /\ NoPlan.sending = {}
    BY NothingMailed
  <1>8. ASSUME NEW s \in Threads, NEW c \in req'[s].sending, c \notin loose'
        PROVE  Alone(s, c)'
    <2>1. s # r /\ req'[s] = req[s]
      BY <1>4, <1>7, <1>8
    <2>2. Alone(s, c)
      BY <1>1, <1>8, <2>1 DEF MailsOK
    <2>3. \A t \in Threads \ {s} : c \notin Mailed(req[t]) \cup req[t].sending
      BY <2>2 DEF Alone, Crowds
    <2>4. \A t \in Threads \ {s} : c \notin Mailed(req'[t]) \cup req'[t].sending
      BY <1>4, <1>7, <2>3
    <2>5. \A d \in Range(delivery') : d.cust = c /\ d.status = "SENT" => d \in Range(delivery)
      <3>1. c \notin Mailed(req[r])
        BY <2>1, <2>3
      <3> QED
        BY <1>3, <3>1 DEF Mailed
    <2> QED
      BY <2>1, <2>2, <2>4, <2>5, AloneStays
  <1> QED
    BY <1>1, <1>5, <1>6, <1>8 DEF MailsOK, Booked

LEMMA DieMails ==
  ASSUME Types, MailsOK, NEW r \in Threads, Die(r)
  PROVE  MailsOK'
  <1>1. /\ loose' = loose \cup Mailed(req[r]) /\ UNCHANGED <<delivery, mail>>
        /\ req' = [req EXCEPT ![r] = NoPlan]
    BY DEF Die
  <1>2. req'[r] = NoPlan /\ \A s \in Threads : s # r => req'[s] = req[s]
    BY <1>1, MovesThreads
  <1>3. ASSUME NEW i \in DOMAIN mail, mail[i].cust \notin loose'
        PROVE  Booked(mail[i].cust, mail[i].day)'
    <2>1. Booked(mail[i].cust, mail[i].day)
      BY <1>1, <1>3 DEF MailsOK
    <2>2. \A d \in Range(req[r].deliveries) : ~(d.cust = mail[i].cust /\ d.status = "SENT")
      BY <1>1, <1>3 DEF Mailed
    <2> QED
      BY <1>1, <1>2, <2>1, <2>2 DEF Booked
  <1>4. MailedOnce'
    BY <1>1 DEF MailsOK, MailedOnce
  <1>5. Mailed(NoPlan) = {} /\ NoPlan.sending = {}
    BY NothingMailed
  <1>6. ASSUME NEW s \in Threads, NEW c \in req'[s].sending, c \notin loose'
        PROVE  Alone(s, c)'
    <2>1. s # r /\ req'[s] = req[s]
      BY <1>2, <1>5, <1>6
    <2>2. Alone(s, c)
      BY <1>1, <1>6, <2>1 DEF MailsOK
    <2>3. \A t \in Threads \ {s} : c \notin Mailed(req[t]) \cup req[t].sending
      BY <2>2 DEF Alone, Crowds
    <2>4. \A t \in Threads \ {s} : c \notin Mailed(req'[t]) \cup req'[t].sending
      BY <1>2, <1>5, <2>3
    <2> QED
      BY <1>1, <2>1, <2>2, <2>4, AloneStays
  <1> QED
    BY <1>1, <1>3, <1>4, <1>6 DEF MailsOK

LEMMA StatementMails ==
  ASSUME Types, MailsOK, NEW r \in Threads, SendByHand(r) \/ SendNext(r) \/ HandOver(r)
  PROVE  MailsOK'
  <1>1. PICK q, c : Sends(r, q, c)
    BY StatementTypes
  <1>2. delivery' = delivery
    BY StatementTypes DEF Quiet
  <1> QED
    BY <1>1, <1>2, SendsMails

\* A request begins and has sent nothing, or answers.
LEMMA BeginMails ==
  ASSUME Types, MailsOK, UNCHANGED <<delivery, mail, loose>>, NEW r \in Threads, req[r].kind = "", NEW q,
         req' = [req EXCEPT ![r] = q], q.deliveries = <<>>, q.sending = {}
  PROVE  MailsOK'
  <1>1. req[r].deliveries = q.deliveries
    BY IdleFacts
  <1>2. Range(req[r].deliveries) \subseteq Range(q.deliveries) /\ Mailed(q) = Mailed(req[r])
    BY <1>1 DEF Mailed
  <1> QED
    BY <1>2, MailsFrame

LEMMA OtherMails ==
  ASSUME Types, MailsOK, NEW r \in Threads,
         \/ CreateActivity(r) \/ UploadDocument(r) \/ UploadAtOffice(r) \/ DeleteDocument(r)
         \/ Answer(r) \/ StartBatch(r) \/ SaveSettings(r)
  PROVE  MailsOK'
  <1>1. ASSUME StartBatch(r) \/ SaveSettings(r) PROVE MailsOK'
    <2>1. PICK q \in Request : Opened(r, q)
      BY <1>1, StartBatchTypes, SaveSettingsTypes
    <2>2. UNCHANGED <<delivery, mail, loose>>
      BY <1>1, StartBatchTypes, SaveSettingsTypes DEF Quiet
    <2> QED
      BY <2>1, <2>2, BeginMails DEF Opened, Plain
  <1>2. ASSUME Answer(r) PROVE MailsOK'
    <2> DEFINE q == [req[r] EXCEPT !.told = TRUE]
    <2>1. /\ req' = [req EXCEPT ![r] = q] /\ UNCHANGED <<delivery, mail, loose>>
          /\ req[r].kind \in {"note", "doc"}
      BY <1>2 DEF Answer, Quiet
    <2>2. req[r] \in Request /\ Shape(req[r])
      BY DEF Types
    <2>3. q.deliveries = req[r].deliveries /\ q.sending = req[r].sending
      BY <2>2 DEF Request
    <2>4. q.sending = {}
      BY <2>1, <2>2, <2>3 DEF Shape
    <2> HIDE DEF q
    <2>5. Mailed(q) = Mailed(req[r])
      BY <2>3 DEF Mailed
    <2> QED
      BY <2>1, <2>3, <2>4, <2>5, MailsFrame
  <1>3. ASSUME CreateActivity(r) PROVE MailsOK'
    <2>1. CASE Repeated("note")
      BY <2>1, MailsSame DEF Repeated, Quiet
    <2>2. ASSUME NEW i \in Ids \cup {None}, NEW item \in Item,
                 req' = [req EXCEPT ![r] = ANote(i, item)], UNCHANGED <<delivery, mail, loose>>
          PROVE  MailsOK'
      <3> DEFINE q == ANote(i, item)
      <3>1. q.deliveries = <<>> /\ q.sending = {}
        BY DEF ANote, NoPlan
      <3> HIDE DEF q
      <3>2. req' = [req EXCEPT ![r] = q]
        BY <2>2 DEF q
      <3> QED
        BY <1>3, <2>2, <3>1, <3>2, CreateActivityCases, BeginMails
    <2> QED
      BY <1>3, <2>1, <2>2, CreateActivityCases DEF Quiet
  <1>4. ASSUME NEW kind \in {"doc", "office"}, NEW i \in Ids \cup {None}, NEW item \in Item,
               Arrives(r, kind, i, item), req[r].kind = ""
        PROVE  MailsOK'
    <2> DEFINE q == ADoc(kind, i, item)
    <2>1. q.deliveries = <<>> /\ q.sending = {}
      BY DEF ADoc, NoPlan
    <2>2. req' = [req EXCEPT ![r] = q] /\ UNCHANGED <<delivery, mail, loose>>
      BY <1>4 DEF Arrives, Quiet
    <2> HIDE DEF q
    <2> QED
      BY <1>4, <2>1, <2>2, BeginMails
  <1>5. ASSUME UploadDocument(r) PROVE MailsOK'
    <2>1. req[r].kind = "" /\ (Repeated("doc") \/ \E i \in Ids, item \in Item : Arrives(r, "doc", i, item))
      BY <1>5, UploadDocumentCases
    <2>2. Repeated("doc") => MailsOK'
      BY MailsSame DEF Repeated, Quiet
    <2> QED
      BY <1>4, <2>1, <2>2
  <1>6. ASSUME UploadAtOffice(r) PROVE MailsOK'
    <2>1. req[r].kind = "" /\ \E item \in Item : Arrives(r, "office", None, item)
      BY <1>6, UploadAtOfficeCases
    <2> QED
      BY <1>4, <2>1
  <1>7. ASSUME DeleteDocument(r) PROVE MailsOK'
    <2>1. PICK d \in doc : req' = [req EXCEPT ![r] = ADeletion(d)] /\ UNCHANGED <<delivery, mail, loose>>
      BY <1>7, DeleteDocumentCases DEF Quiet
    <2> DEFINE q == ADeletion(d)
    <2>2. q.deliveries = <<>> /\ q.sending = {}
      BY DEF ADeletion, NoPlan
    <2> HIDE DEF q
    <2>3. req' = [req EXCEPT ![r] = q]
      BY <2>1 DEF q
    <2> QED
      BY <1>7, <2>1, <2>2, <2>3, DeleteDocumentCases, BeginMails
  <1> QED
    BY <1>1, <1>2, <1>3, <1>5, <1>6, <1>7

LEMMA MailsStep == Types /\ MailsOK /\ [Next]_vars => MailsOK'
  <1> SUFFICES ASSUME Types, MailsOK, [Next]_vars PROVE MailsOK'
    OBVIOUS
  <1>1. CASE UNCHANGED <<delivery, mail, loose, req>>
    BY <1>1, MailsSame
  <1>2. CASE UNCHANGED vars
    BY <1>1, <1>2 DEF vars
  <1>3. CASE Reassign \/ BalanceChanges \/ Midnight \/ LoadSettings \/ ExpireCache
    BY <1>1, <1>3 DEF Reassign, BalanceChanges, Midnight, LoadSettings, ExpireCache, Quiet
  <1>4. ASSUME NEW r \in Threads,
               \/ CreateActivity(r) \/ UploadDocument(r) \/ UploadAtOffice(r) \/ DeleteDocument(r)
               \/ Answer(r) \/ StartBatch(r) \/ SaveSettings(r)
        PROVE  MailsOK'
    BY <1>4, OtherMails
  <1>5. ASSUME NEW r \in Threads, SendByHand(r) \/ SendNext(r) \/ HandOver(r) PROVE MailsOK'
    BY <1>5, StatementMails
  <1>6. ASSUME NEW r \in Threads, Commit(r) \/ Die(r) PROVE MailsOK'
    BY <1>6, CommitMails, DieMails
  <1> QED
    BY <1>2, <1>3, <1>4, <1>5, <1>6 DEF Next

LEMMA InitMails == Init => MailsOK
  <1> SUFFICES ASSUME Init PROVE MailsOK
    OBVIOUS
  <1>1. DOMAIN mail = {}
    BY EmptySeq DEF Init
  <1>2. \A r \in Threads : req[r].sending = {}
    BY NoPlanFacts DEF Init
  <1> QED
    BY <1>1, <1>2 DEF MailsOK, MailedOnce

\* The cooldown between statements holds for every cooldown and any number of customers, batches
\* and days, but for customers mailed by a request that died, or to whom two requests were
\* sending at once.
THEOREM CooldownIsKept == Spec => []MailedOnce
  <1>1. MailsOK => MailedOnce
    BY DEF MailsOK
  <1>2. Spec => []MailsOK
    BY InitMails, MailsStep, TypesHold, PTL DEF Spec
  <1> QED
    BY <1>1, <1>2, PTL

-----------------------------------------------------------------------------
(* Lists and details *)

\* A list of customers selects by the rule by which a customer opens.
LEMMA CustomersAgree ==
  ASSUME NEW u \in Users, NEW hits \in SUBSET Customers
  PROVE  LET open == {c \in Customers : CustomerOpens(u, c)}
             listed == CustomersListed(u, hits)
         IN  /\ listed \subseteq open \cap hits /\ \A c \in listed : Customer360(u, c)
             /\ \A c \in (open \cap hits) \ listed :
                  \/ Cardinality(Newer(c, open)) >= FetchLimit
                  \/ Cardinality(Newer(c, open \cap hits)) >= PageLimit
  <1> DEFINE open == {c \in Customers : CustomerOpens(u, c)}
             scope == {c \in Customers : u = Office \/ c \in Clientele(u)}
             listed == CustomersListed(u, hits)
  <1>1. scope = open
    BY DEF CustomerOpens
  <1>2. \A c : c \in Clientele(u) => {p \in Portfolio(u) : Client[p] = c} # {}
    BY DEF Clientele
  <1>3. Found(u, hits) = Fetched(u) \cap hits /\ Fetched(u) \subseteq scope
    BY <1>2 DEF Found, Fetched
  <1>4. \A c \in scope : Cardinality(Newer(c, scope)) < FetchLimit => c \in Fetched(u)
    BY DEF Fetched
  <1> HIDE DEF scope
  <1>5. /\ listed \subseteq Found(u, hits)
        /\ \A c \in Found(u, hits) : Cardinality(Newer(c, Found(u, hits))) < PageLimit => c \in listed
    BY DEF CustomersListed
  <1>6. listed \subseteq open \cap hits
    BY <1>1, <1>3, <1>5
  <1>7. \A c \in listed : Customer360(u, c)
    <2>1. \A p \in Portfolio(u) : p \in Policies
      BY DEF Portfolio
    <2> QED
      BY <1>2, <1>6, <2>1 DEF Customer360, CustomerOpens
  <1> HIDE DEF open, listed
  <1>8. ASSUME NEW c \in (open \cap hits) \ listed, ~(Cardinality(Newer(c, open)) >= FetchLimit)
        PROVE  Cardinality(Newer(c, open \cap hits)) >= PageLimit
    <2>1. IsFiniteSet(Newer(c, open)) /\ IsFiniteSet(Newer(c, open \cap hits))
      <3>1. IsFiniteSet(Customers) /\ open \subseteq Customers
        BY OutreachAssumption DEF open
      <3>2. Newer(c, open) \subseteq Customers /\ Newer(c, open \cap hits) \subseteq Customers
        BY <3>1 DEF Newer
      <3> QED
        BY <3>1, <3>2, FS_Subset
    <2>2. Cardinality(Newer(c, open)) \in Nat /\ FetchLimit \in Nat
      BY <2>1, FS_CardinalityType, OutreachAssumption
    <2>3. c \in Found(u, hits)
      BY <1>1, <1>3, <1>4, <1>8, <2>2
    <2>4. ~(Cardinality(Newer(c, Found(u, hits))) < PageLimit)
      BY <1>5, <1>8, <2>3
    <2>5. Newer(c, Found(u, hits)) \subseteq Newer(c, open \cap hits)
      BY <1>1, <1>3 DEF Newer
    <2>6. /\ Cardinality(Newer(c, Found(u, hits))) <= Cardinality(Newer(c, open \cap hits))
          /\ Cardinality(Newer(c, Found(u, hits))) \in Nat /\ Cardinality(Newer(c, open \cap hits)) \in Nat
      BY <2>1, <2>5, FS_Subset, FS_CardinalityType
    <2> QED
      BY <2>4, <2>6, OutreachAssumption
  <1>9. \A c \in (open \cap hits) \ listed :
          \/ Cardinality(Newer(c, open)) >= FetchLimit
          \/ Cardinality(Newer(c, open \cap hits)) >= PageLimit
    BY <1>8
  <1> QED
    BY <1>6, <1>7, <1>9 DEF open, listed

\* So does the list of activities.
LEMMA NotesAgree ==
  ASSUME Types, NEW u \in Users, NEW limit \in 1 .. NoteLimit
  PROVE  LET opening == {j \in DOMAIN note : NoteOpens(u, note[j])}
             listed == NotesListed(u, limit)
         IN  /\ listed \subseteq opening
             /\ \A j \in opening \ listed : Cardinality({k \in opening : k > j}) >= limit
  <1> DEFINE opening == {j \in DOMAIN note : NoteOpens(u, note[j])}
             selected == {j \in DOMAIN note : NoteSelected(u, note[j])}
             listed == NotesListed(u, limit)
  <1>1. note \in Seq(Note) /\ DOMAIN note = 1 .. Len(note) /\ Len(note) \in Nat
    BY DEF Types
  <1>2. selected = opening
    <2>1. ASSUME NEW j \in DOMAIN note PROVE NoteSelected(u, note[j]) <=> NoteOpens(u, note[j])
      <3>1. note[j] \in Note
        BY <1>1, ElementOfSeq
      <3> QED
        BY <3>1 DEF NoteSelected, NoteOpens, CustomerOpens, PolicyOpens, Note, Item
    <2> QED
      BY <2>1
  <1>3. listed = {j \in selected : Cardinality({k \in selected : k > j}) < limit}
    BY DEF NotesListed
  <1>4. selected \subseteq 1 .. Len(note)
    BY <1>1
  <1> HIDE DEF opening, selected, listed
  <1>5. ASSUME NEW j \in opening \ listed
        PROVE  Cardinality({k \in opening : k > j}) >= limit
    <2>1. IsFiniteSet(1 .. Len(note))
      BY <1>1, FS_Interval
    <2>2. {k \in opening : k > j} \subseteq 1 .. Len(note)
      BY <1>2, <1>4
    <2>3. IsFiniteSet({k \in opening : k > j})
      BY <2>1, <2>2, FS_Subset
    <2>4. Cardinality({k \in opening : k > j}) \in Nat
      BY <2>3, FS_CardinalityType
    <2>5. ~(Cardinality({k \in opening : k > j}) < limit)
      BY <1>2, <1>3
    <2> QED
      BY <2>4, <2>5, OutreachAssumption
  <1> QED
    BY <1>2, <1>3, <1>5 DEF opening, listed

LEMMA ListsOpen == Types => ListedOpens
  BY CustomersAgree, NotesAgree, Zenon DEF ListedOpens

\* What is listed opens, and what opens is listed or cut off by a limit behind as many newer
\* ones, for any producers, any limits, any search and whoever holds the policies now.
THEOREM ListsAgree == Spec => []ListedOpens
  <1> QED
    BY ListsOpen, TypesHold, PTL
=============================================================================
