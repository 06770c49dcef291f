------------------------------- MODULE Outreach -------------------------------
(***************************************************************************)
(* The file of a customer: the activities and documents that producers     *)
(* send from their phones, retrying until they are told SYNCED, the files  *)
(* kept on disk, and the account statements that are mailed by hand and by *)
(* the daily batch, under settings that every process caches.              *)
(*                                                                         *)
(* A request reads and decides in one step and commits in a later one; its *)
(* answer leaves before or after the commit, as the installed FastAPI ends *)
(* the session of a request, and it may die at any point.  What it did to  *)
(* the disk or handed to the mail server stays.                            *)
(***************************************************************************)
EXTENDS Integers, Sequences, FiniteSets, Functions

CONSTANTS
  Customers,    \* parties
  Policies,     \* policies
  Client,       \* the customer of each policy
  Producers,    \* users who see their own portfolio only
  Office,       \* a user who sees the organization
  Ids,          \* client_activity_id, client_upload_id
  Contents,     \* what an activity or a document says
  Threads,      \* requests in service at once
  Cooldown,     \* days between automatic statements
  Rank,         \* the customers from the newest on, as the lists order them
  FetchLimit,   \* customers a list reads (500)
  PageLimit,    \* customers a list answers (100)
  NoteLimit,    \* the most activities a phone may ask for (100)
  MaxRequests,  \* bound: requests served
  MaxDay,       \* bound: days
  None          \* no id, no policy, no producer

ASSUME OutreachAssumption ==
  /\ Client \in [Policies -> Customers]
  /\ IsFiniteSet(Customers)
  /\ Rank \in [Customers -> Nat] /\ \A c, d \in Customers : Rank[c] = Rank[d] => c = d
  /\ FetchLimit \in Nat /\ PageLimit \in Nat /\ NoteLimit \in Nat
  /\ Office \notin Producers /\ None \notin Ids \cup Policies \cup Producers
  /\ Cooldown \in Nat \ {0} /\ MaxRequests \in Nat /\ MaxDay \in Nat \ {0}

VARIABLES
  holder,      \* the producer whose open PRIMARY row each policy has
  note,        \* interactions
  doc,         \* documents
  disk,        \* names of stored files
  files,       \* files stored so far: the names given out
  acked,       \* what the phones were told is SYNCED, by id
  owes,        \* customers with an overdue balance
  delivery,    \* statement_deliveries
  mail,        \* statements the mail server took, in order
  setting,     \* the settings of mail and automatic statements
  cache,       \* what the process has cached of them
  today,       \* the date
  req,         \* the request of each thread
  served,      \* requests begun so far
  lost,        \* history: ids told SYNCED before a commit that never came, or deleted since
  torn,        \* history: files removed by a deletion that never committed
  loose        \* history: customers mailed by a request that died, or to whom two were sending at once

vars == <<holder, note, doc, disk, files, acked, owes, delivery, mail, setting, cache, today,
          req, served, lost, torn, loose>>

Users == Producers \cup {Office}
Day == 1 .. MaxDay

\* What is sent: text stands for kind and contents.
Item == [cust : Customers, pol : Policies \cup {None}, text : Contents]
\* Activities and the notes of statements mailed, which have neither id nor policy.
Note == [id : Ids \cup {None}, item : Item \cup {[cust |-> c, pol |-> None, text |-> "mailed"] : c \in Customers}]
Doc == [id : Ids \cup {None}, item : Item, stored : Nat]
Delivery == [cust : Customers, status : {"SENT", "SKIPPED", "FAILED"}, auto : BOOLEAN, day : Day]
Setting == [auto : BOOLEAN, mail : BOOLEAN]

NoPlan == [kind |-> "", id |-> None, note |-> <<>>, doc |-> {}, drop |-> {}, told |-> FALSE,
           deliveries |-> <<>>, todo |-> {}, sending |-> {}, day |-> 1, set |-> {}]

-----------------------------------------------------------------------------
(* AccessContext: what a user sees *)

\* active_primary_policy_ids, visible_portfolio_client_party_ids
Portfolio(u) == {p \in Policies : holder[p] = u}
Clientele(u) == {Client[p] : p \in Portfolio(u)}

\* require_policy_in_scope, require_party_in_scope
PolicyOpens(u, p) == u = Office \/ p \in Portfolio(u)
CustomerOpens(u, c) == u = Office \/ c \in Clientele(u)

\* The list of customers: the newest in scope are read, those among them that match the
\* search and have one policy in scope at least are found, the newest of these are answered.
Newer(c, S) == {d \in S : Rank[d] < Rank[c]}
Fetched(u) ==
  LET scope == {c \in Customers : u = Office \/ c \in Clientele(u)}
  IN  {c \in scope : Cardinality(Newer(c, scope)) < FetchLimit}
Found(u, hits) ==
  {c \in Fetched(u) \cap hits : u = Office \/ {p \in Portfolio(u) : Client[p] = c} # {}}
CustomersListed(u, hits) ==
  LET found == Found(u, hits) IN {c \in found : Cardinality(Newer(c, found)) < PageLimit}

\* The 360 view filters the policies of the customer by the allowlist.
Customer360(u, c) ==
  CustomerOpens(u, c) /\ (u = Office \/ {p \in Policies : Client[p] = c} \cap Portfolio(u) # {})

\* Variant: the list asks for the customer only.
NoteSelectedWide(u, n) == u = Office \/ n.item.cust \in Clientele(u)

\* list_activities: what is in scope, of that the newest, as many as the phone asks for.
NoteSelected(u, n) ==
  u = Office \/ (n.item.cust \in Clientele(u) /\ n.item.pol \in Portfolio(u) \cup {None})
NotesListed(u, limit) ==
  LET selected == {j \in DOMAIN note : NoteSelected(u, note[j])}
  IN  {j \in selected : Cardinality({k \in selected : k > j}) < limit}

\* get_activity
NoteOpens(u, n) ==
  CustomerOpens(u, n.item.cust) /\ (n.item.pol # None => PolicyOpens(u, n.item.pol))

\* _require_customer_context
InContext(u, item) ==
  /\ CustomerOpens(u, item.cust)
  /\ item.pol # None => PolicyOpens(u, item.pol) /\ Client[item.pol] = item.cust

-----------------------------------------------------------------------------
(* A request *)

Ready(r) == req[r].kind = "" /\ served < MaxRequests

Begin(r, q) ==
  /\ req' = [req EXCEPT ![r] = q]
  /\ served' = served + 1

Quiet == UNCHANGED <<holder, note, doc, owes, delivery, setting, today, lost, torn>>

\* Another producer gets the policy (producer_portfolio).
Reassign ==
  /\ served < MaxRequests
  /\ \E p \in Policies, u \in Producers \cup {None} :
       u # holder[p] /\ holder' = [holder EXCEPT ![p] = u]
  /\ served' = served + 1
  /\ UNCHANGED <<note, doc, disk, files, acked, owes, delivery, mail, setting, cache, today,
                 req, lost, torn, loose>>

-----------------------------------------------------------------------------
(* Activities and documents from the phone *)

\* Variant: the replay compares where the activity belongs, not what it says.
SameContext(row, item) == row.item.cust = item.cust /\ row.item.pol = item.pol

Same(row, item) == row.item = item

\* The answer to an id on file: SYNCED when the payload is the same, a conflict otherwise.
Replay(kind, row, item) ==
  /\ Same(row, item)
  /\ acked' = [acked EXCEPT ![kind][row.id] = item]
  /\ served' = served + 1
  /\ Quiet
  /\ UNCHANGED <<disk, files, mail, cache, req, loose>>

CreateActivity(r) ==
  /\ Ready(r)
  /\ \E u \in Users, i \in Ids \cup {None}, item \in Item :
       /\ InContext(u, item)
       /\ IF i # None /\ \E n \in Range(note) : n.id = i
            THEN \E n \in Range(note) : n.id = i /\ Replay("note", n, item)
            ELSE /\ Begin(r, [NoPlan EXCEPT !.kind = "note", !.id = i,
                                            !.note = <<[id |-> i, item |-> item]>>])
                 /\ Quiet
                 /\ UNCHANGED <<disk, files, acked, mail, cache, loose>>

\* Variant: a file is stored under the name it came with.
StoredByName(item) == 1

\* save_party_pdf gives every file a name of its own.
Stored(item) == files + 1

\* The bytes are written before the row is.
Filing(r, kind, i, item) ==
  /\ Begin(r, [NoPlan EXCEPT !.kind = kind, !.id = i,
                             !.doc = {[id |-> i, item |-> item, stored |-> Stored(item)]}])
  /\ disk' = disk \cup {Stored(item)} /\ files' = files + 1
  /\ Quiet
  /\ UNCHANGED <<acked, mail, cache, loose>>

UploadDocument(r) ==
  /\ Ready(r)
  /\ \E u \in Users, i \in Ids, item \in Item :
       /\ InContext(u, item)
       /\ IF \E d \in doc : d.id = i
            THEN \E d \in doc : d.id = i /\ Replay("doc", d, item)
            ELSE Filing(r, "doc", i, item)

\* cliente_documento_upload: from the office, without id.
UploadAtOffice(r) ==
  /\ Ready(r)
  /\ \E item \in Item : item.pol = None /\ Filing(r, "office", None, item)

\* documento_eliminar: the file is removed before the commit.
DeleteDocument(r) ==
  /\ Ready(r)
  /\ \E d \in doc :
       /\ Begin(r, [NoPlan EXCEPT !.kind = "delete", !.drop = {d}])
       /\ disk' = disk \ {d.stored}
  /\ Quiet
  /\ UNCHANGED <<files, acked, mail, cache, loose>>

\* Another request has flushed a row with the same id, or committed it.
Flushed(r, s) == s # r /\ req[s].kind = req[r].kind /\ req[s].id = req[r].id /\ req[s].told

Taken(r) ==
  /\ req[r].id # None
  /\ \/ \E s \in Threads : Flushed(r, s)
     \/ req[r].kind = "note" /\ \E n \in Range(note) : n.id = req[r].id
     \/ req[r].kind = "doc" /\ \E d \in doc : d.id = req[r].id

Payload(q) == IF q.kind = "note" THEN q.note[1].item ELSE (CHOOSE d \in q.doc : TRUE).item

Told(q) == [acked EXCEPT ![q.kind][q.id] = Payload(q)]

\* The answer leaves as soon as the rows are flushed.
Answer(r) ==
  /\ req[r].kind \in {"note", "doc"} /\ req[r].id # None
  /\ ~req[r].told /\ ~Taken(r)
  /\ req' = [req EXCEPT ![r].told = TRUE]
  /\ acked' = Told(req[r])
  /\ Quiet
  /\ UNCHANGED <<disk, files, mail, cache, served, loose>>

-----------------------------------------------------------------------------
(* Settings *)

\* _load_map: what is cached, or what is committed, which is cached from then on.
Config == IF cache = {} THEN setting ELSE CHOOSE s \in cache : TRUE
Loaded == cache' = {Config}

\* Any page that reads a setting; fifteen seconds later the cache is void.  While nothing
\* changes the settings a cache that is loaded and one that is void read the same.
Changing == \E r \in Threads : req[r].kind = "settings"

LoadSettings ==
  /\ cache = {} /\ Changing /\ Loaded
  /\ Quiet
  /\ UNCHANGED <<disk, files, acked, mail, req, served, loose>>

ExpireCache ==
  /\ cache # {} /\ (Changing \/ cache # {setting}) /\ cache' = {}
  /\ Quiet
  /\ UNCHANGED <<disk, files, acked, mail, req, served, loose>>

\* mantenimiento_post voids the cache before it commits; a number that is refused leaves the
\* settings read before it changed, and the cache as it was.
SaveSettings(r) ==
  /\ Ready(r)
  /\ \E s \in Setting \ {setting} :
       /\ Begin(r, [NoPlan EXCEPT !.kind = "settings", !.set = {s}])
       /\ \/ cache' = {}
          \/ cache' = cache
  /\ Quiet
  /\ UNCHANGED <<disk, files, acked, mail, loose>>

-----------------------------------------------------------------------------
(* Statements *)

\* Payments come in and instalments fall due (Collections).
BalanceChanges ==
  /\ served < MaxRequests
  /\ \E c \in Customers : owes' = IF c \in owes THEN owes \ {c} ELSE owes \cup {c}
  /\ served' = served + 1
  /\ UNCHANGED <<holder, note, doc, disk, files, acked, delivery, mail, setting, cache, today,
                 req, lost, torn, loose>>

\* build_morosity_analysis: who has a balance overdue, and build_account_statement: whether
\* one of them still has.
Debtors == owes
StillOwes(c) == c \in Debtors

\* Variant: the statements sent by hand do not count.
SentToAuto(q, c) == {d \in Range(delivery) \cup Range(q.deliveries) :
                       d.cust = c /\ d.status = "SENT" /\ d.auto}

\* _last_successful_send: the rows committed and those of the request itself.
SentTo(q, c) == {d \in Range(delivery) \cup Range(q.deliveries) : d.cust = c /\ d.status = "SENT"}

Cooling(q, c) == \E d \in SentTo(q, c) : q.day - d.day < Cooldown

\* The customers to whom a request has mailed a statement it has not committed yet.
Mailed(q) == {d.cust : d \in {e \in Range(q.deliveries) : e.status = "SENT"}}

\* The row of a statement that was to be sent, dated by the transaction.
Recorded(q, c, status) ==
  LET row == [cust |-> c, status |-> status, auto |-> q.kind = "batch", day |-> q.day]
      said == [id |-> None, item |-> [cust |-> c, pol |-> None, text |-> "mailed"]]
  IN  [q EXCEPT !.deliveries = Append(@, row),
                !.note = IF status = "SENT" THEN Append(@, said) ELSE @]

\* send_account_statement: with mail off the row says so at once; otherwise the message is
\* made and offered to the mail server, which other requests do not wait for.
Prepare(r, q, c) ==
  \/ /\ ~Config.mail
     /\ req' = [req EXCEPT ![r] = Recorded(q, c, "FAILED")]
     /\ UNCHANGED loose
  \/ /\ Config.mail
     /\ req' = [req EXCEPT ![r] = [q EXCEPT !.sending = {c}]]
     /\ loose' = IF \E s \in Threads \ {r} : c \in Mailed(req[s]) \cup req[s].sending
                   THEN loose \cup {c} ELSE loose

\* The server takes the message or refuses it, and the row is written.
HandOver(r) ==
  /\ \E c \in req[r].sending :
       LET q == [req[r] EXCEPT !.sending = {}]
       IN  \/ /\ req' = [req EXCEPT ![r] = Recorded(q, c, "FAILED")]
              /\ UNCHANGED mail
           \/ /\ req' = [req EXCEPT ![r] = Recorded(q, c, "SENT")]
              /\ mail' = Append(mail, [cust |-> c, auto |-> q.kind = "batch", day |-> q.day])
  /\ Quiet
  /\ UNCHANGED <<disk, files, acked, cache, served, loose>>

\* cliente_estado_cuenta_enviar asks neither for a balance nor for the cooldown; without any
\* address the row says SKIPPED.
SendByHand(r) ==
  /\ Ready(r)
  /\ \E c \in Customers :
       LET q == [NoPlan EXCEPT !.kind = "hand", !.day = today]
       IN  \/ Prepare(r, q, c) /\ Loaded
          \/ /\ req' = [req EXCEPT ![r] = Recorded(q, c, "SKIPPED")]
             /\ UNCHANGED <<loose, cache>>
  /\ served' = served + 1
  /\ Quiet
  /\ UNCHANGED <<disk, files, acked, mail>>

\* run_auto_statement_send: the customers of the morosity analysis, the settings it found and
\* the time are kept for the whole batch.
StartBatch(r) ==
  /\ Ready(r)
  /\ Config.auto /\ Loaded
  /\ Begin(r, [NoPlan EXCEPT !.kind = "batch", !.todo = Debtors, !.day = today])
  /\ Quiet
  /\ UNCHANGED <<disk, files, acked, mail, loose>>

\* The next customer: the balance is read again, then the cooldown; one without address is
\* recorded.
SendNext(r) ==
  /\ req[r].kind = "batch" /\ req[r].sending = {}
  /\ \E c \in req[r].todo :
       LET q == [req[r] EXCEPT !.todo = @ \ {c}]
       IN  \/ /\ ~StillOwes(c) \/ Cooling(q, c)
              /\ req' = [req EXCEPT ![r] = q]
              /\ UNCHANGED <<loose, cache>>
           \/ /\ StillOwes(c)
              /\ req' = [req EXCEPT ![r] = Recorded(q, c, "SKIPPED")]
              /\ UNCHANGED <<loose, cache>>
           \/ StillOwes(c) /\ ~Cooling(q, c) /\ Prepare(r, q, c) /\ Loaded
  /\ Quiet
  /\ UNCHANGED <<disk, files, acked, mail, served>>

-----------------------------------------------------------------------------
(* Committing *)

\* The answer is sent now, or it gets lost and the phone sends again.
Commit(r) ==
  LET q == req[r]
  IN  /\ q.kind # "" /\ q.todo = {} /\ q.sending = {} /\ (q.told \/ ~Taken(r))
      /\ q.drop \subseteq doc
      /\ note' = note \o q.note
      /\ doc' = (doc \ q.drop) \cup q.doc
      /\ lost' = lost \cup {<<"doc", d.id>> : d \in q.drop}
      /\ delivery' = delivery \o q.deliveries
      /\ setting' = IF q.set = {} THEN setting ELSE CHOOSE s \in q.set : TRUE
      /\ \/ UNCHANGED acked
         \/ q.kind \in {"note", "doc"} /\ q.id # None /\ ~q.told /\ acked' = Told(q)
      /\ req' = [req EXCEPT ![r] = NoPlan]
      /\ UNCHANGED <<holder, disk, files, owes, mail, cache, today, served, torn, loose>>

\* What is lost with a request: its rows, not its files nor its mails.
Die(r) ==
  LET q == req[r]
  IN  /\ q.kind # ""
      /\ req' = [req EXCEPT ![r] = NoPlan]
      /\ lost' = IF q.told THEN lost \cup {<<q.kind, q.id>>} ELSE lost
      /\ torn' = torn \cup {d.stored : d \in q.drop}
      /\ loose' = loose \cup Mailed(q)
      /\ UNCHANGED <<holder, note, doc, disk, files, acked, owes, delivery, mail, setting, cache,
                     today, served>>

Midnight ==
  /\ today < MaxDay /\ today' = today + 1
  /\ UNCHANGED <<holder, note, doc, disk, files, acked, owes, delivery, mail, setting, cache,
                 req, served, lost, torn, loose>>

-----------------------------------------------------------------------------

Init ==
  /\ holder \in [Policies -> Producers \cup {None}]
  /\ note = <<>> /\ doc = {} /\ disk = {} /\ files = 0
  /\ acked = [k \in {"note", "doc"} |-> [i \in Ids |-> None]]
  /\ owes \in {{}, Customers}
  /\ delivery = <<>> /\ mail = <<>>
  /\ setting \in {[auto |-> FALSE, mail |-> FALSE], [auto |-> TRUE, mail |-> TRUE]}
  /\ cache = {}
  /\ today = 1
  /\ req = [r \in Threads |-> NoPlan]
  /\ served = 0
  /\ lost = {} /\ torn = {} /\ loose = {}

Next ==
  \/ \E r \in Threads :
       \/ CreateActivity(r) \/ UploadDocument(r) \/ UploadAtOffice(r) \/ DeleteDocument(r)
       \/ Answer(r)
       \/ SendByHand(r) \/ StartBatch(r) \/ SendNext(r) \/ HandOver(r)
       \/ SaveSettings(r)
       \/ Commit(r) \/ Die(r)
  \/ Reassign \/ BalanceChanges
  \/ LoadSettings \/ ExpireCache
  \/ Midnight

Spec == Init /\ [][Next]_vars

-----------------------------------------------------------------------------
(* Properties *)

TypeOK ==
  /\ holder \in [Policies -> Producers \cup {None}]
  /\ note \in Seq(Note) /\ doc \subseteq Doc
  /\ disk \subseteq 1 .. files /\ \A d \in doc : d.stored \in 1 .. files
  /\ \A k \in {"note", "doc"}, i \in Ids : acked[k][i] \in Item \cup {None}
  /\ owes \subseteq Customers /\ delivery \in Seq(Delivery)
  /\ mail \in Seq([cust : Customers, auto : BOOLEAN, day : Day])
  /\ setting \in Setting /\ cache \subseteq Setting /\ Cardinality(cache) <= 1
  /\ today \in Day /\ served \in 0 .. MaxRequests

\* "Solo marcar SYNCED con ACK persistido" (LOCAL-f5a-after-backend.md:33): what a phone was
\* told is SYNCED is on file once, as the phone sent it, however often it was sent and however
\* the attempts overlap, unless the server died between the answer and the commit or somebody
\* deleted the document.
SyncedIsStored ==
  \A i \in Ids :
    /\ acked["note"][i] # None /\ <<"note", i>> \notin lost =>
         \/ \E r \in Threads : req[r].told /\ req[r].kind = "note" /\ req[r].id = i
         \/ /\ \E n \in Range(note) : n.id = i /\ n.item = acked["note"][i]
            /\ Cardinality({j \in DOMAIN note : note[j].id = i}) = 1
    /\ acked["doc"][i] # None /\ <<"doc", i>> \notin lost =>
         \/ \E r \in Threads : req[r].told /\ req[r].kind = "doc" /\ req[r].id = i
         \/ \E d \in doc : /\ d.id = i /\ d.item = acked["doc"][i]
                           /\ \A e \in doc : e.id = i => e = d

\* Every document on file opens: its bytes are on disk, whatever was uploaded and deleted
\* around it, except while its own deletion is under way or after one that never committed.
DocumentHasFile ==
  \A d \in doc :
    \/ d.stored \in disk \/ d.stored \in torn
    \/ \E r \in Threads : d \in req[r].drop

\* No customer gets an automatic statement within the cooldown of another statement, through
\* whatever batches and manual sends: the exceptions are a customer mailed by a request that
\* died before its commit, and one to whom two requests were sending at once.
MailedOnce ==
  \A j \in DOMAIN mail : \A i \in 1 .. j - 1 :
    mail[j].auto /\ mail[i].cust = mail[j].cust =>
      mail[j].day - mail[i].day >= Cooldown \/ mail[j].cust \in loose

\* What a producer finds in a list opens in detail, and what opens is in the list unless the
\* limits of the list cut it off behind as many newer ones: customers, their 360 view and
\* activities, whoever holds the policies now (ADR-008).
ListedOpens ==
  \A u \in Users :
    LET open == {c \in Customers : CustomerOpens(u, c)}
        opening == {j \in DOMAIN note : NoteOpens(u, note[j])}
    IN  /\ \A hits \in SUBSET Customers :
             LET listed == CustomersListed(u, hits)
             IN  /\ listed \subseteq open \cap hits /\ \A c \in listed : Customer360(u, c)
                 /\ \A c \in (open \cap hits) \ listed :
                      \/ Cardinality(Newer(c, open)) >= FetchLimit
                      \/ Cardinality(Newer(c, open \cap hits)) >= PageLimit
        /\ \A limit \in 1 .. NoteLimit :
             LET listed == NotesListed(u, limit)
             IN  /\ listed \subseteq opening
                 /\ \A j \in opening \ listed : Cardinality({k \in opening : k > j}) >= limit

\* "Send statements to clients with overdue balance, respecting cooldown and mail config."
\* (statement_delivery.py:275): MailedOnce without its exceptions.
CooldownKept ==
  \A j \in DOMAIN mail : \A i \in 1 .. j - 1 :
    mail[j].auto /\ mail[i].cust = mail[j].cust => mail[j].day - mail[i].day >= Cooldown

\* A search for one customer finds it, if it opens for who searches.
SearchFinds ==
  \A u \in Users, c \in Customers : CustomerOpens(u, c) => CustomersListed(u, {c}) = {c}
=============================================================================
