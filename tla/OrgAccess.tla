------------------------------ MODULE OrgAccess ------------------------------
(***************************************************************************)
(* Who may work in one brokerage: its memberships, the invitations that    *)
(* create them and the seats they take (services/org_access_admin.py,      *)
(* services/seats.py), the other writers of a membership                   *)
(* (services/tenant.py, web/routes.py) and the refresh tokens of the       *)
(* mobile API bound to the organization (web/mobile/).                     *)
(*                                                                         *)
(* A handler runs on a thread as one transaction at READ COMMITTED: its    *)
(* action reads the rows and decides, and leaves a plan of what it will    *)
(* write; Commit writes it, each row column by column as the ORM does, or  *)
(* the schema's unique constraints make it roll back.                      *)
(***************************************************************************)
EXTENDS Integers, FiniteSets

CONSTANTS
  Persons,       \* people, each with one e-mail and the subject made from it
  Founder,       \* who registered the organization
  Pilots,        \* those with credentials in AUTH_USERS
  Platform,      \* platform administrators
  SoleOrg,       \* whether this is the only active organization
  Offered,       \* roles given on the collaborator screens
  SeatLimits,    \* limits the subscription may set, by bucket
  MaxInvites,    \* bound: invitations ever issued
  MaxTokens,     \* bound: refresh tokens ever issued
  MaxRequests,   \* bound: requests served
  Threads        \* threads that serve the requests

NoLimit == -1
Buckets == {"internal", "producer"}
Assignable == {"OWNER", "ADMIN", "BROKER", "PRODUCER", "COLLECTIONS"}

ASSUME AccessAssumption ==
  /\ IsFiniteSet(Persons) /\ Founder \in Persons
  /\ Pilots \subseteq Persons /\ Platform \subseteq Persons
  /\ SoleOrg \in BOOLEAN
  /\ Offered \subseteq Assignable
  /\ SeatLimits \subseteq [Buckets -> Nat \cup {NoLimit}]
  /\ MaxInvites \in Nat /\ MaxTokens \in Nat /\ MaxRequests \in Nat

Invites == 1 .. MaxInvites
Tokens == 1 .. MaxTokens
Roles == Assignable \cup {"PLATFORM"}
Keys == Persons \X {1, 2}      \* the rows of org_memberships, two at most a person

VARIABLES
  member,     \* org_memberships
  invite,     \* org_invitations
  account,    \* people with a BrokerAccount
  limit,      \* seat limits of the subscription, as resolve_seat_limits gives them
  token,      \* mobile_refresh_tokens bound to the organization
  req,        \* the request of each thread
  served,     \* requests begun so far
  raced       \* history: some request has committed on a stale read

vars == <<member, invite, account, limit, token, req, served, raced>>

\* linked: the subject is that of the person's account, no longer "pending:<email>".
Row == [linked : BOOLEAN, role : Roles,
        status : {"NONE", "INVITED", "ACTIVE", "INACTIVE", "REVOKED"}]
Invitation == [status : {"NONE", "PENDING", "ACCEPTED", "REVOKED", "EXPIRED"},
               key : Keys, late : BOOLEAN]
Token == [who : Persons, state : {"none", "live", "revoked"}]
Operations == {"invite", "resend", "accept", "refuse", "expire", "role", "deactivate",
               "activate", "revoke", "grant", "bind", "enter", "token"}

\* What a handler will write: the row at key, from saw to new (key <<p, 0>> inserts
\* it); the invitations it revokes, takes and issues; the account it opens; the
\* tokens it revokes and issues.  stale: history, another request has committed
\* since the read.
Plan == [op : Operations \cup {"idle"}, key : Persons \X {0, 1, 2}, saw : Row, new : Row,
         kills : SUBSET Invites, takes : SUBSET Invites, issues : SUBSET Invites,
         opens : BOOLEAN, spends : SUBSET Tokens, mints : SUBSET Tokens, stale : BOOLEAN]

NoRow == [linked |-> FALSE, role |-> "BROKER", status |-> "NONE"]
Nothing(op, p) ==
  [op |-> op, key |-> <<p, 0>>, saw |-> NoRow, new |-> NoRow, kills |-> {}, takes |-> {},
   issues |-> {}, opens |-> FALSE, spends |-> {}, mints |-> {}, stale |-> FALSE]
Idle == Nothing("idle", Founder)

-----------------------------------------------------------------------------
(* Rows and seats *)

Exists(m) == m.status # "NONE"

\* Rows of a person under one of the two subjects; the schema allows one of each.
Under(p, linked) == {k \in Keys : k[1] = p /\ Exists(member[k]) /\ member[k].linked = linked}

\* _membership_holds_seat: ACTIVE and INVITED.
Holds(m) == m.status \in {"INVITED", "ACTIVE"}

Bucket(role) == CASE role = "PRODUCER" -> "producer"
                  [] role = "PLATFORM" -> "platform"
                  [] OTHER -> "internal"

Seated(db, b) == {k \in Keys : Holds(db[k]) /\ Bucket(db[k].role) = b}
Used(db, b) == Cardinality(Seated(db, b))

\* A platform administrator takes no seat.
Room(b) == b \in Buckets => limit[b] = NoLimit \/ Used(member, b) < limit[b]

\* Variant: whoever holds any seat may change bucket.
CanActivateHolder(role, m) == ~Holds(m) => Room(Bucket(role))

\* assert_can_activate_role: a seat already held in the bucket is not taken again.
CanActivate(role, m) ==
  (Holds(m) => Bucket(m.role) # Bucket(role)) => Room(Bucket(role))

Owners(db) == {k \in Keys : db[k].status = "ACTIVE" /\ db[k].role = "OWNER"}

\* Variant: the count is not compared with one.
SomeOwner(k) == k \in Owners(member) => Owners(member) # {}

\* count_active_owners: an active owner is let go only when it is not the last.
SpareOwner(k) == k \in Owners(member) => Cardinality(Owners(member)) > 1

PendingOf(k) == {i \in Invites : invite[i].status = "PENDING" /\ invite[i].key = k}
LiveTokens(p) == {t \in Tokens : token[t].who = p /\ token[t].state = "live"}

Member(p) == \E k \in Under(p, TRUE) : member[k].status = "ACTIVE"

\* register_broker: the account, the organization, its OWNER and the subscription.
Init ==
  /\ member = [k \in Keys |-> IF k = <<Founder, 1>>
                                THEN [linked |-> TRUE, role |-> "OWNER", status |-> "ACTIVE"]
                                ELSE NoRow]
  /\ invite = [i \in Invites |-> [status |-> "NONE", key |-> <<Founder, 1>>, late |-> FALSE]]
  /\ account = {Founder}
  /\ limit \in SeatLimits
  /\ token = [t \in Tokens |-> [who |-> Founder, state |-> "none"]]
  /\ req = [r \in Threads |-> Idle]
  /\ served = 0
  /\ raced = FALSE

-----------------------------------------------------------------------------
(* Requests: what each handler reads and decides.  One that is refused writes nothing, *)
(* unless its action says otherwise.                                                   *)

Begin(r, plan) ==
  /\ req[r].op = "idle" /\ served < MaxRequests
  /\ req' = [req EXCEPT ![r] = plan]
  /\ served' = served + 1
  /\ UNCHANGED <<member, invite, account, limit, token, raced>>

FreshInvites == {i \in Invites : invite[i].status = "NONE"
                                 /\ \A r \in Threads : i \notin req[r].issues}
FreshTokens == {t \in Tokens : token[t].state = "none"
                               /\ \A r \in Threads : t \notin req[r].mints}

\* The row of p under that subject, if there is one, becomes new; else new is inserted.
Upsert(op, p, linked, new) ==
  IF Under(p, linked) = {}
    THEN [Nothing(op, p) EXCEPT !.new = new]
    ELSE LET k == CHOOSE k \in Under(p, linked) : TRUE
         IN  [Nothing(op, p) EXCEPT !.key = k, !.saw = member[k], !.new = new]

Change(op, k, new) ==
  [Nothing(op, k[1]) EXCEPT !.key = k, !.saw = member[k], !.new = new]

\* invite_collaborator: refused when the pending row, or the row of the person's
\* account, holds a seat; a pending row that was revoked is used again.
InviteCollaborator(r) ==
  \E p \in Persons, role \in Offered :
    /\ FreshInvites # {}
    /\ \A k \in Under(p, FALSE) : ~Holds(member[k])
    /\ p \in account => \A k \in Under(p, TRUE) : ~Holds(member[k])
    /\ CanActivate(role, NoRow)
    /\ LET plan == Upsert("invite", p, FALSE,
                          [linked |-> FALSE, role |-> role, status |-> "INVITED"])
       IN  Begin(r, [plan EXCEPT !.kills = PendingOf(plan.key),
                                 !.issues = {CHOOSE i \in FreshInvites : TRUE}])

\* resend_invitation
ResendInvitation(r) ==
  \E k \in Keys :
    /\ FreshInvites # {}
    /\ member[k].status = "INVITED"
    /\ Begin(r, [Change("resend", k, member[k]) EXCEPT
                   !.kills = PendingOf(k),
                   !.issues = {CHOOSE i \in FreshInvites : TRUE}])

\* accept_invitation past its date: the handler answers with the error page and the
\* session commits EXPIRED.
AcceptLate(r) ==
  \E i \in Invites :
    /\ invite[i].status = "PENDING" /\ invite[i].late
    /\ Begin(r, [Nothing("expire", invite[i].key[1]) EXCEPT !.takes = {i}])

\* accept_invitation goes on unless another row has the account's subject.
Acceptable(k) == Under(k[1], TRUE) \subseteq {k} /\ CanActivate(member[k].role, member[k])

\* Variant: the row keeps the pending subject.
AcceptStatusOnly(r) ==
  \E i \in Invites :
    LET k == invite[i].key IN
    /\ invite[i].status = "PENDING" /\ ~invite[i].late
    /\ Acceptable(k)
    /\ Begin(r, [Change("accept", k, [member[k] EXCEPT !.status = "ACTIVE"])
                   EXCEPT !.takes = {i}, !.opens = k[1] \notin account])

\* accept_invitation: the row gets the subject of the account, made if there is none.
AcceptInvitation(r) ==
  \E i \in Invites :
    LET k == invite[i].key IN
    /\ invite[i].status = "PENDING" /\ ~invite[i].late
    /\ Acceptable(k)
    /\ Begin(r, [Change("accept", k, [member[k] EXCEPT !.linked = TRUE, !.status = "ACTIVE"])
                   EXCEPT !.takes = {i}, !.opens = k[1] \notin account])

\* accept_invitation refused late: the account it has made is committed with the
\* error page.
AcceptRefused(r) ==
  \E i \in Invites :
    LET k == invite[i].key IN
    /\ invite[i].status = "PENDING" /\ ~invite[i].late
    /\ ~Acceptable(k)
    /\ k[1] \notin account
    /\ Begin(r, [Nothing("refuse", k[1]) EXCEPT !.opens = TRUE])

\* change_member_role: the seat is checked only when the row holds one.
ChangeRole(r) ==
  \E k \in Keys, role \in Offered :
    /\ Exists(member[k])
    /\ role # "OWNER" => SpareOwner(k)
    /\ Holds(member[k]) => CanActivate(role, member[k])
    /\ Begin(r, Change("role", k, [member[k] EXCEPT !.role = role]))

\* Variant: the tokens stay.
DeactivateRowOnly(r) ==
  \E k \in Keys :
    /\ member[k].status = "ACTIVE"
    /\ SpareOwner(k)
    /\ Begin(r, Change("deactivate", k, [member[k] EXCEPT !.status = "INACTIVE"]))

\* deactivate_member: also the tokens of the subject.
Deactivate(r) ==
  \E k \in Keys :
    /\ member[k].status = "ACTIVE"
    /\ SpareOwner(k)
    /\ Begin(r, [Change("deactivate", k, [member[k] EXCEPT !.status = "INACTIVE"]) EXCEPT
                   !.spends = LiveTokens(k[1])])

\* activate_member
Activate(r) ==
  \E k \in Keys :
    /\ member[k].status \in {"ACTIVE", "INACTIVE"}
    /\ member[k].linked
    /\ CanActivate(member[k].role, member[k])
    /\ Begin(r, Change("activate", k, [member[k] EXCEPT !.status = "ACTIVE"]))

\* Variant: the invitation stays open.
RevokeRowOnly(r) ==
  \E k \in Keys :
    /\ Exists(member[k])
    /\ SpareOwner(k)
    /\ Begin(r, [Change("revoke", k, [member[k] EXCEPT !.status = "REVOKED"]) EXCEPT
                   !.spends = IF member[k].linked THEN LiveTokens(k[1]) ELSE {}])

\* revoke_member: also the open invitations and, of a linked row, the tokens.
Revoke(r) ==
  \E k \in Keys :
    /\ Exists(member[k])
    /\ SpareOwner(k)
    /\ Begin(r, [Change("revoke", k, [member[k] EXCEPT !.status = "REVOKED"]) EXCEPT
                   !.kills = PendingOf(k),
                   !.spends = IF member[k].linked THEN LiveTokens(k[1]) ELSE {}])

\* grant_producer_system_access, activate_membership: the row of the account becomes
\* an active PRODUCER, whatever it was.
GrantProducer(r) ==
  \E p \in account :
    LET plan == Upsert("grant", p, TRUE,
                       [linked |-> TRUE, role |-> "PRODUCER", status |-> "ACTIVE"])
    IN  CanActivate("PRODUCER", plan.saw) /\ Begin(r, plan)

\* login_post: with one organization, a subject with no active membership is given
\* one; ensure_membership asks for no seat.
BindAtLogin(r) ==
  \E p \in (Pilots \cup account) \ Platform :
    /\ SoleOrg
    /\ ~Member(p)
    /\ Begin(r, Upsert("bind", p, TRUE,
                       [linked |-> TRUE, role |-> "BROKER", status |-> "ACTIVE"]))

\* orgs_seleccionar_post, for a platform administrator
EnterAsPlatform(r) ==
  \E p \in Platform \cap (Pilots \cup account) :
    Begin(r, Upsert("enter", p, TRUE,
                    [linked |-> TRUE, role |-> "PLATFORM", status |-> "ACTIVE"]))

\* mobile_login and select_organization: a token for whom the organization is open.
SignIn(r) ==
  \E p \in Pilots \cup account :
    /\ FreshTokens # {}
    /\ Member(p) \/ p \in Platform
    /\ Begin(r, [Nothing("token", p) EXCEPT !.mints = {CHOOSE t \in FreshTokens : TRUE}])

\* rotate_refresh_token: the membership is not looked at.
RefreshToken(r) ==
  \E t \in Tokens :
    /\ FreshTokens # {}
    /\ token[t].state = "live"
    /\ Begin(r, [Nothing("token", token[t].who) EXCEPT
                   !.spends = {t}, !.mints = {CHOOSE n \in FreshTokens : TRUE}])

\* revoke_refresh_token
SignOut(r) ==
  \E t \in Tokens :
    /\ token[t].state = "live"
    /\ Begin(r, [Nothing("token", token[t].who) EXCEPT !.spends = {t}])

-----------------------------------------------------------------------------
(* The end of a request *)

\* Only the columns that differ from what was loaded are in the UPDATE.
Merge(cur, saw, new) ==
  [linked |-> IF new.linked = saw.linked THEN cur.linked ELSE new.linked,
   role |-> IF new.role = saw.role THEN cur.role ELSE new.role,
   status |-> IF new.status = saw.status THEN cur.status ELSE new.status]

Inserts(q) == q.key[2] = 0 /\ q.new # NoRow
Target(q) == IF Inserts(q) THEN <<q.key[1], IF Exists(member[<<q.key[1], 1>>]) THEN 2 ELSE 1>>
                           ELSE q.key
Written(q) == IF Inserts(q) THEN q.new ELSE Merge(member[q.key], q.saw, q.new)

\* uq_org_membership_subject_org, when a subject is written
Taken(q) == /\ Inserts(q) \/ q.new.linked # q.saw.linked
            /\ Under(q.key[1], q.new.linked) \ {q.key} # {}

\* The account's e-mail is unique too.
Conflict(q) == Taken(q) \/ (q.opens /\ q.key[1] \in account)

InvitesAfter(q) ==
  [i \in Invites |->
     IF i \in q.issues THEN [status |-> "PENDING", key |-> Target(q), late |-> FALSE]
     ELSE IF i \in q.kills THEN [invite[i] EXCEPT !.status = "REVOKED"]
     ELSE IF i \in q.takes
       THEN [invite[i] EXCEPT !.status = IF q.op = "expire" THEN "EXPIRED" ELSE "ACCEPTED"]
     ELSE invite[i]]

TokensAfter(q) ==
  [t \in Tokens |-> IF t \in q.mints THEN [who |-> q.key[1], state |-> "live"]
                    ELSE IF t \in q.spends THEN [token[t] EXCEPT !.state = "revoked"]
                    ELSE token[t]]

Commit(r) ==
  LET q == req[r] IN
  /\ q.op # "idle" /\ ~Conflict(q)
  /\ member' = IF Inserts(q) \/ q.key[2] # 0
                 THEN [member EXCEPT ![Target(q)] = Written(q)] ELSE member
  /\ invite' = InvitesAfter(q)
  /\ account' = IF q.opens THEN account \cup {q.key[1]} ELSE account
  /\ token' = TokensAfter(q)
  /\ req' = [s \in Threads |-> IF s = r THEN Idle
                               ELSE IF req[s].op = "idle" THEN req[s]
                               ELSE [req[s] EXCEPT !.stale = TRUE]]
  /\ raced' = (raced \/ q.stale)
  /\ UNCHANGED <<limit, served>>

\* get_session: IntegrityError
RollBack(r) ==
  /\ req[r].op # "idle" /\ Conflict(req[r])
  /\ req' = [req EXCEPT ![r] = Idle]
  /\ UNCHANGED <<member, invite, account, limit, token, served, raced>>

\* A payment or a change of plan sets the limits (persist_en1_seat_limits, or the
\* catalogue of the plan).
SetLimits ==
  /\ limit' \in SeatLimits \ {limit}
  /\ req' = [s \in Threads |-> IF req[s].op = "idle" THEN req[s]
                               ELSE [req[s] EXCEPT !.stale = TRUE]]
  /\ UNCHANGED <<member, invite, account, token, served, raced>>

\* The seven days of an invitation go by.
Lapse ==
  \E i \in Invites :
    /\ invite[i].status = "PENDING" /\ ~invite[i].late
    /\ invite' = [invite EXCEPT ![i].late = TRUE]
    /\ UNCHANGED <<member, account, limit, token, req, served, raced>>

Next ==
  \/ \E r \in Threads :
       \/ InviteCollaborator(r) \/ ResendInvitation(r)
       \/ AcceptLate(r) \/ AcceptInvitation(r) \/ AcceptRefused(r)
       \/ ChangeRole(r) \/ Deactivate(r) \/ Activate(r) \/ Revoke(r)
       \/ GrantProducer(r) \/ BindAtLogin(r) \/ EnterAsPlatform(r)
       \/ SignIn(r) \/ RefreshToken(r) \/ SignOut(r)
       \/ Commit(r) \/ RollBack(r)
  \/ SetLimits
  \/ Lapse

Spec == Init /\ [][Next]_vars

-----------------------------------------------------------------------------
(* Properties *)

\* The rows have the shape of the schema, and a person has at most one membership
\* under the pending subject and one under the account's
\* (uq_org_membership_subject_org).
TypeOK ==
  /\ member \in [Keys -> Row]
  /\ invite \in [Invites -> Invitation]
  /\ account \subseteq Persons
  /\ limit \in SeatLimits
  /\ token \in [Tokens -> Token]
  /\ req \in [Threads -> Plan]
  /\ served \in 0 .. MaxRequests
  /\ raced \in BOOLEAN
  /\ \A j, k \in Keys : Exists(member[j]) /\ Exists(member[k]) /\ j[1] = k[1]
                          /\ member[j].linked = member[k].linked => j = k

\* Whoever is ACTIVE has a subject to log in with, however the requests overlap: the
\* pending row and the account's row are never mixed up (accept_invitation).
ActiveIsLinked == \A k \in Keys : member[k].status = "ACTIVE" => member[k].linked

\* As long as no request committed on a stale read, an open invitation is the only one
\* of a row that still waits for it: no revoked, accepted or deactivated collaborator
\* is left with a token that works (resend_invitation, accept_invitation,
\* revoke_member).
InvitesAwaitTheirRow ==
  ~raced => \A i \in Invites : invite[i].status = "PENDING" =>
    /\ member[invite[i].key].status = "INVITED" /\ ~member[invite[i].key].linked
    /\ PendingOf(invite[i].key) = {i}

\* As long as no request committed on a stale read, only active members hold a refresh
\* token bound to the organization (revoke_subject_refresh_tokens).
TokensFollowAccess ==
  ~raced => \A p \in Persons \ Platform : LiveTokens(p) # {} => Member(p)

Ends(r) == req[r].op # "idle" /\ req'[r].op = "idle"

\* Seats are never oversold, also when the limits shrink: a step that takes a seat
\* beyond the limit is the binding at login, which asks for none, or was decided on a
\* stale read (assert_can_activate_role and its callers).
SeatsHeld ==
  [][\A b \in Buckets :
       Used(member', b) > Used(member, b) /\ limit[b] # NoLimit /\ Used(member', b) > limit[b]
         => \E r \in Threads : Ends(r) /\ (req[r].stale \/ req[r].op = "bind")]_vars

\* The organization loses its last active OWNER only when a producer is granted access
\* or a platform administrator enters, which do not look, or on a stale read
\* (change_member_role, deactivate_member, revoke_member).
OwnerKept ==
  [][Owners(member) # {} /\ Owners(member') = {}
       => \E r \in Threads : Ends(r) /\ (req[r].stale \/ req[r].op \in {"grant", "enter"})]_vars

\* As long as no request commits on a stale read, a collaborator put out comes back by
\* an act of the administrators or of a login: never by an invitation of before
\* (accept_invitation does not look at the status of the row).
OldInvitationsStayShut ==
  [][\A k \in Keys :
       member[k].status \in {"INACTIVE", "REVOKED"} /\ member'[k].status = "ACTIVE" /\ ~raced'
         => \E r \in Threads :
              Ends(r) /\ req[r].op \in {"activate", "grant", "bind", "enter"}]_vars

\* Stated by the contract of the collaborators, and contradicted by GrantProducer: the
\* organization always has an active OWNER (docs/ADR-008_F7_COLLABORATORS_RBAC_CONTRACT.md).
AlwaysAnOwner == Owners(member) # {}
=============================================================================
