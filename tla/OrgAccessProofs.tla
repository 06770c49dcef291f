-------------------------- MODULE OrgAccessProofs ---------------------------
(***************************************************************************)
(* Theorems about OrgAccess, for any number of people, threads,            *)
(* invitations, tokens and requests, and any limits of the seats: the type *)
(* invariant, what holds however the requests overlap, what holds until    *)
(* one commits on a stale read, and the three properties of its steps.     *)
(***************************************************************************)
EXTENDS OrgAccess, FiniteSetTheorems, TLAPS

-----------------------------------------------------------------------------
(* Keys, rows and seats *)

LEMMA KeyParts ==
  /\ \A p \in Persons : <<p, 1>> \in Keys /\ <<p, 2>> \in Keys
  /\ \A k \in Keys : k[1] \in Persons /\ k[2] \in {1, 2} /\ k = <<k[1], k[2]>>
  /\ \A k \in Persons \X {0, 1, 2} : k[1] \in Persons /\ (k[2] # 0 => k \in Keys)
  /\ \A k \in Keys : k \in Persons \X {0, 1, 2}
  BY DEF Keys

LEMMA NoRowType == NoRow \in Row /\ Idle \in Plan /\ \A p \in Persons, op \in Operations : Nothing(op, p) \in Plan
  BY AccessAssumption DEF NoRow, Idle, Nothing, Plan, Row, Roles, Assignable, Operations

LEMMA SeatsFinite ==
  ASSUME NEW db, NEW b
  PROVE  /\ IsFiniteSet(Seated(db, b)) /\ Used(db, b) \in Nat
         /\ IsFiniteSet(Owners(db)) /\ Cardinality(Owners(db)) \in Nat
  <1>1. IsFiniteSet({1, 2})
    <2>1. {1, 2} = 1 .. 2
      OBVIOUS
    <2>2. IsFiniteSet(1 .. 2)
      BY FS_Interval, 1 \in Int, 2 \in Int
    <2> QED
      BY <2>1, <2>2
  <1>2. IsFiniteSet(Keys)
    BY <1>1, AccessAssumption, FS_Product DEF Keys
  <1>3. IsFiniteSet(Seated(db, b)) /\ IsFiniteSet(Owners(db))
    BY <1>2, FS_Subset DEF Seated, Owners
  <1> QED
    BY <1>3, FS_CardinalityType DEF Used

\* A set that gains at most one element grows by at most one.
LEMMA OneMore ==
  ASSUME NEW S, NEW T, NEW x, IsFiniteSet(S), IsFiniteSet(T), T \subseteq S \cup {x}
  PROVE  /\ Cardinality(T) <= Cardinality(S) + 1
         /\ Cardinality(T) > Cardinality(S) => x \in T /\ x \notin S
  <1>1. IsFiniteSet(S \cup {x}) /\ Cardinality(S) \in Nat /\ Cardinality(T) \in Nat
    BY FS_AddElement, FS_CardinalityType
  <1>2. Cardinality(S \cup {x}) = IF x \in S THEN Cardinality(S) ELSE Cardinality(S) + 1
    BY FS_AddElement
  <1>3. Cardinality(T) <= Cardinality(S \cup {x})
    BY <1>1, FS_Subset
  <1>4. ASSUME x \notin T \/ x \in S
        PROVE  Cardinality(T) <= Cardinality(S)
    <2>1. T \subseteq S
      BY <1>4
    <2> QED
      BY <2>1, FS_Subset
  <1> QED
    BY <1>1, <1>2, <1>3, <1>4

\* Where there is more than one there is another.
LEMMA Another ==
  ASSUME NEW S, NEW x, IsFiniteSet(S), Cardinality(S) > 1
  PROVE  S \ {x} # {}
  <1>1. /\ IsFiniteSet(S \ {x}) /\ Cardinality(S) \in Nat
        /\ Cardinality(S \ {x}) = IF x \in S THEN Cardinality(S) - 1 ELSE Cardinality(S)
    BY FS_RemoveElement, FS_CardinalityType
  <1> QED
    BY <1>1, FS_EmptySet

\* An UPDATE of some columns gives a row, which keeps a subject once it is linked.
LEMMA MergeType ==
  ASSUME NEW cur \in Row, NEW saw \in Row, NEW new \in Row
  PROVE  /\ Merge(cur, saw, new) \in Row
         /\ cur = saw => Merge(cur, saw, new) = new
  BY DEF Merge, Row

-----------------------------------------------------------------------------
(* The inductive invariant: what is true of the rows, and of a plan that has not *)
(* been written yet                                                              *)

Sits(m, b) == Holds(m) /\ Bucket(m.role) = b
IsOwner(m) == m.status = "ACTIVE" /\ m.role = "OWNER"
Waits(m) == m.status = "INVITED" /\ ~m.linked

\* Of any plan, however old what it read is.
Linking(q) ==
  /\ q.key[2] # 0 => Exists(member[q.key]) /\ Exists(q.new)
  /\ q.key[2] = 0 => q.saw = NoRow
  /\ q.new # NoRow => Exists(q.new)
  /\ q.issues # {} => q.key[2] # 0 \/ q.new # NoRow
  /\ q.key[2] # 0 /\ q.saw.linked => member[q.key].linked
  /\ q.saw.linked => q.new.linked
  /\ q.new.status = "ACTIVE" => q.new.linked

\* Of a plan whose reads are still current: it finds the row as it was, takes a seat
\* only where there is one, and lets an owner go only when there is another.
Checked(q) ==
  /\ q.key[2] # 0 => q.saw = member[q.key]
  /\ \A b \in Buckets : Sits(q.new, b) /\ ~Sits(q.saw, b)
       => q.op = "bind" \/ limit[b] = NoLimit \/ Used(member, b) < limit[b]
  /\ IsOwner(q.saw) /\ ~IsOwner(q.new)
       => q.op \in {"grant", "enter"} \/ Cardinality(Owners(member)) > 1

\* Of the same plan, when no request before it was stale: it settles the open
\* invitations of a row that stops waiting, and the tokens of a member put out.
Tidy(q) ==
  /\ q.key[2] # 0 => Waits(q.new) \/ PendingOf(q.key) \subseteq q.kills \cup q.takes
  /\ q.issues # {} => Waits(q.new) /\ (\E i \in Invites : q.issues = {i})
  /\ q.issues # {} /\ q.key[2] # 0 => PendingOf(q.key) \subseteq q.kills
  /\ q.new.status = "INVITED" => ~q.new.linked
  /\ q.mints # {} => /\ Member(q.key[1]) \/ q.key[1] \in Platform
                     /\ q.key[2] = 0 /\ q.new = NoRow
  /\ q.saw.status = "ACTIVE" /\ q.new.status # "ACTIVE"
       => LiveTokens(q.key[1]) \subseteq q.spends
  /\ q.saw.status \in {"INACTIVE", "REVOKED"} /\ q.new.status = "ACTIVE"
       => q.op \in {"activate", "grant", "bind", "enter"}

Current(q) == q.op # "idle" /\ ~q.stale => Checked(q) /\ (~raced => Tidy(q))

InvitesHaveRows ==
  \A i \in Invites : invite[i].status = "PENDING" => Exists(member[invite[i].key])
InvitedIsPending ==
  ~raced => \A k \in Keys : member[k].status = "INVITED" => ~member[k].linked

IInv ==
  /\ TypeOK /\ ActiveIsLinked /\ InvitesAwaitTheirRow /\ TokensFollowAccess
  /\ InvitesHaveRows /\ InvitedIsPending
  /\ \A r \in Threads : Linking(req[r]) /\ Current(req[r])

LEMMA SameState ==
  ASSUME UNCHANGED <<member, invite, limit, token, raced>>
  PROVE  \A q : (Linking(q)' <=> Linking(q)) /\ (Current(q)' <=> Current(q))
  <1>1. \A q : Linking(q)' <=> Linking(q)
    BY DEF Linking
  <1>2. \A q : Checked(q)' <=> Checked(q)
    BY DEF Checked
  <1>3. \A q : Tidy(q)' <=> Tidy(q)
    BY DEF Tidy, PendingOf, Member, Under, LiveTokens
  <1> QED
    BY <1>1, <1>2, <1>3 DEF Current

\* A request that has read and decided leaves the invariant, if its plan is sound.
LEMMA BeginKeeps ==
  ASSUME IInv, NEW r \in Threads, req[r].op = "idle", served < MaxRequests,
         req' = [req EXCEPT ![r] = req'[r]], served' = served + 1,
         UNCHANGED <<member, invite, account, limit, token, raced>>,
         req'[r] \in Plan, Linking(req'[r]), Checked(req'[r]), ~raced => Tidy(req'[r])
  PROVE  IInv'
  <1>1. TypeOK'
    <2>1. req' \in [Threads -> Plan]
      BY DEF IInv, TypeOK
    <2>2. served' \in 0 .. MaxRequests
      BY AccessAssumption DEF IInv, TypeOK
    <2> QED
      BY <2>1, <2>2 DEF IInv, TypeOK, Exists
  <1>2. /\ ActiveIsLinked' /\ InvitesAwaitTheirRow' /\ TokensFollowAccess'
        /\ InvitesHaveRows' /\ InvitedIsPending'
    BY DEF IInv, ActiveIsLinked, InvitesAwaitTheirRow, TokensFollowAccess, InvitesHaveRows,
           InvitedIsPending, PendingOf, LiveTokens, Member, Under, Exists
  <1>3. ASSUME NEW s \in Threads
        PROVE  Linking(req[s])' /\ Current(req[s])'
    <2>1. Linking(req'[s]) /\ Current(req'[s])
      <3>1. CASE s = r
        BY <3>1 DEF Current
      <3>2. CASE s # r
        <4>1. req'[s] = req[s]
          BY <3>2 DEF IInv, TypeOK
        <4> QED
          BY <4>1 DEF IInv
      <3> QED
        BY <3>1, <3>2
    <2> QED
      BY <2>1, SameState
  <1> QED
    BY <1>1, <1>2, <1>3 DEF IInv

-----------------------------------------------------------------------------
(* What each handler leaves to be written is sound.  A plan changes a row that *)
(* exists, inserts one, or writes no row.                                      *)

LEMMA SoundChange ==
  ASSUME IInv, NEW r \in Threads, NEW q \in Plan, Begin(r, q),
         q.key \in Keys, q.saw = member[q.key], q.mints = {},
         Exists(q.saw), Exists(q.new),
         q.saw.linked => q.new.linked,
         q.new.status = "ACTIVE" => q.new.linked,
         q.op = "bind" \/ CanActivate(q.new.role, q.saw) \/ ~Holds(q.new)
           \/ \A b \in Buckets : Sits(q.new, b) => Sits(q.saw, b),
         q.op \in {"grant", "enter"} \/ SpareOwner(q.key) \/ (IsOwner(q.saw) => IsOwner(q.new)),
         ~raced =>
           /\ Waits(q.new) \/ PendingOf(q.key) \subseteq q.kills \cup q.takes
           /\ q.issues # {} => /\ Waits(q.new) /\ (\E i \in Invites : q.issues = {i})
                               /\ PendingOf(q.key) \subseteq q.kills
           /\ q.new.status = "INVITED" => ~q.new.linked
           /\ q.saw.status = "ACTIVE" /\ q.new.status # "ACTIVE"
                => LiveTokens(q.key[1]) \subseteq q.spends
           /\ q.saw.status \in {"INACTIVE", "REVOKED"} /\ q.new.status = "ACTIVE"
                => q.op \in {"activate", "grant", "bind", "enter"}
  PROVE  IInv'
  <1>1. q.key[2] # 0
    BY KeyParts
  <1>2. Linking(q)
    BY <1>1 DEF Linking
  <1>3. Checked(q)
    <2>1. ASSUME NEW b \in Buckets, Sits(q.new, b), ~Sits(q.saw, b)
          PROVE  q.op = "bind" \/ limit[b] = NoLimit \/ Used(member, b) < limit[b]
      BY <2>1 DEF Sits, CanActivate, Room
    <2>2. IsOwner(q.saw) /\ ~IsOwner(q.new)
            => q.op \in {"grant", "enter"} \/ Cardinality(Owners(member)) > 1
      BY DEF IsOwner, SpareOwner, Owners
    <2> QED
      BY <2>1, <2>2 DEF Checked
  <1>4. ~raced => Tidy(q)
    BY <1>1 DEF Tidy
  <1>5. req'[r] = q
    BY DEF Begin, IInv, TypeOK
  <1> QED
    BY <1>2, <1>3, <1>4, <1>5, BeginKeeps DEF Begin

LEMMA SoundInsert ==
  ASSUME IInv, NEW r \in Threads, NEW q \in Plan, Begin(r, q),
         q.key[2] = 0, q.saw = NoRow, q.mints = {},
         Exists(q.new),
         q.new.status = "ACTIVE" => q.new.linked,
         q.op = "bind" \/ CanActivate(q.new.role, NoRow),
         q.issues # {} => Waits(q.new) /\ (\E i \in Invites : q.issues = {i}),
         q.new.status = "INVITED" => ~q.new.linked
  PROVE  IInv'
  <1>1. NoRow.status = "NONE" /\ ~NoRow.linked /\ q.new # NoRow
    BY DEF NoRow, Exists
  <1>2. Linking(q)
    BY <1>1 DEF Linking
  <1>3. Checked(q)
    <2>1. ASSUME NEW b \in Buckets, Sits(q.new, b)
          PROVE  q.op = "bind" \/ limit[b] = NoLimit \/ Used(member, b) < limit[b]
      BY <1>1, <2>1 DEF Sits, CanActivate, Room, Holds
    <2>2. ~IsOwner(NoRow)
      BY <1>1 DEF IsOwner
    <2> QED
      BY <2>1, <2>2 DEF Checked
  <1>4. Tidy(q)
    BY <1>1 DEF Tidy
  <1>5. req'[r] = q
    BY DEF Begin, IInv, TypeOK
  <1> QED
    BY <1>2, <1>3, <1>4, <1>5, BeginKeeps DEF Begin

LEMMA SoundOther ==
  ASSUME IInv, NEW r \in Threads, NEW q \in Plan, Begin(r, q),
         q.key[2] = 0, q.saw = NoRow, q.new = NoRow, q.issues = {},
         ~raced /\ q.mints # {} => Member(q.key[1]) \/ q.key[1] \in Platform
  PROVE  IInv'
  <1>1. NoRow.status = "NONE" /\ ~NoRow.linked
    BY DEF NoRow
  <1>2. Linking(q) /\ Checked(q)
    BY <1>1 DEF Linking, Checked, Sits, Holds, IsOwner
  <1>3. ~raced => Tidy(q)
    BY <1>1 DEF Tidy
  <1>4. req'[r] = q
    BY DEF Begin, IInv, TypeOK
  <1> QED
    BY <1>2, <1>3, <1>4, BeginKeeps DEF Begin

\* The plans of the handlers that put a row under a subject: a change or an insertion.
Puts(plan, op, p, linked, new) ==
  /\ plan \in Plan /\ plan.op = op /\ plan.new = new /\ plan.mints = {}
  /\ plan.kills = {} /\ plan.takes = {} /\ plan.issues = {} /\ plan.key[1] = p
  /\ \/ plan.key = <<p, 0>> /\ plan.saw = NoRow
     \/ plan.key \in Under(p, linked) /\ plan.key \in Keys /\ plan.saw = member[plan.key]

LEMMA UpsertPuts ==
  ASSUME IInv, NEW op \in Operations, NEW p \in Persons, NEW new \in Row
  PROVE  /\ Puts(Upsert(op, p, TRUE, new), op, p, TRUE, new)
         /\ Puts(Upsert(op, p, FALSE, new), op, p, FALSE, new)
  <1>1. ASSUME NEW linked
        PROVE  Puts(Upsert(op, p, linked, new), op, p, linked, new)
    <2>1. CASE Under(p, linked) = {}
      BY <2>1, NoRowType, KeyParts DEF Upsert, Nothing, Plan, Puts
    <2>2. CASE Under(p, linked) # {}
      <3> DEFINE k == CHOOSE k \in Under(p, linked) : TRUE
      <3>1. /\ k \in Under(p, linked) /\ k \in Keys /\ k[1] = p
        BY <2>2 DEF Under
      <3>2. k \in Persons \X {0, 1, 2} /\ member[k] \in Row
        BY <3>1, KeyParts DEF IInv, TypeOK
      <3>3. Upsert(op, p, linked, new)
              = [op |-> op, key |-> k, saw |-> member[k], new |-> new, kills |-> {},
                 takes |-> {}, issues |-> {}, opens |-> FALSE, spends |-> {},
                 mints |-> {}, stale |-> FALSE]
        BY <2>2 DEF Upsert, Nothing
      <3> HIDE DEF k
      <3> QED
        BY <3>1, <3>2, <3>3 DEF Plan, Puts
    <2> QED
      BY <2>1, <2>2
  <1> QED
    BY <1>1, Zenon

\* An open invitation is of a row that waits for it, and of no other.
LEMMA Awaited ==
  ASSUME IInv, ~raced, NEW k \in Keys
  PROVE  /\ ~Waits(member[k]) => PendingOf(k) = {}
         /\ \A i \in PendingOf(k) : PendingOf(k) = {i}
  BY DEF IInv, InvitesAwaitTheirRow, PendingOf, Waits

LEMMA InviteKeeps ==
  ASSUME IInv, NEW r \in Threads, InviteCollaborator(r)
  PROVE  IInv'
  <1>1. PICK p \in Persons, role \in Offered :
          /\ FreshInvites # {}
          /\ \A k \in Under(p, FALSE) : ~Holds(member[k])
          /\ CanActivate(role, NoRow)
          /\ LET plan == Upsert("invite", p, FALSE,
                                [linked |-> FALSE, role |-> role, status |-> "INVITED"])
             IN  Begin(r, [plan EXCEPT !.kills = PendingOf(plan.key),
                                       !.issues = {CHOOSE i \in FreshInvites : TRUE}])
    BY DEF InviteCollaborator
  <1> DEFINE new == [linked |-> FALSE, role |-> role, status |-> "INVITED"]
             plan == Upsert("invite", p, FALSE, new)
             i == CHOOSE i \in FreshInvites : TRUE
             q == [plan EXCEPT !.kills = PendingOf(plan.key), !.issues = {i}]
  <1>2. i \in Invites
    BY <1>1 DEF FreshInvites
  <1>3. /\ new \in Row /\ Exists(new) /\ Waits(new) /\ new.role = role
        /\ new.status = "INVITED" /\ ~new.linked
    BY AccessAssumption DEF Row, Roles, Exists, Waits
  <1>4. Begin(r, q)
    BY <1>1
  <1>5. Puts(plan, "invite", p, FALSE, new)
    <2>1. "invite" \in Operations
      BY DEF Operations
    <2> HIDE DEF new
    <2>2. new \in Row
      BY <1>3
    <2> QED
      BY <2>1, <2>2, UpsertPuts
  <1> HIDE DEF i, new, plan
  <1>6. PendingOf(plan.key) \in SUBSET Invites /\ {i} \in SUBSET Invites
    BY <1>2 DEF PendingOf
  <1>7. /\ q \in Plan /\ q.op = "invite" /\ q.key = plan.key /\ q.saw = plan.saw
        /\ q.new = new /\ q.mints = {} /\ q.issues = {i} /\ q.kills = PendingOf(plan.key)
    BY <1>5, <1>6 DEF Plan, Puts
  <1> HIDE DEF q
  <1>8. CASE plan.key = <<p, 0>> /\ plan.saw = NoRow
    BY <1>1, <1>2, <1>3, <1>4, <1>7, <1>8, SoundInsert
  <1>9. CASE /\ plan.key \in Under(p, FALSE) /\ plan.key \in Keys
             /\ plan.saw = member[plan.key]
    <2>1. /\ Exists(q.saw) /\ ~q.saw.linked /\ ~Holds(q.saw)
      BY <1>1, <1>7, <1>9 DEF Under
    <2>2. CanActivate(q.new.role, q.saw)
      BY <1>1, <1>3, <1>7, <2>1 DEF CanActivate, Holds, NoRow
    <2>3. q.saw.status # "ACTIVE"
      BY <2>1 DEF Holds
    <2> QED
      BY <1>2, <1>3, <1>4, <1>7, <1>9, <2>1, <2>2, <2>3, SoundChange DEF IsOwner
  <1> QED
    BY <1>5, <1>8, <1>9 DEF Puts

LEMMA ResendKeeps ==
  ASSUME IInv, NEW r \in Threads, ResendInvitation(r)
  PROVE  IInv'
  <1> DEFINE i == CHOOSE i \in FreshInvites : TRUE
  <1>1. PICK k \in Keys :
          /\ FreshInvites # {}
          /\ member[k].status = "INVITED"
          /\ Begin(r, [Change("resend", k, member[k]) EXCEPT
                         !.kills = PendingOf(k), !.issues = {i}])
    BY DEF ResendInvitation
  <1> DEFINE q == [Change("resend", k, member[k]) EXCEPT !.kills = PendingOf(k), !.issues = {i}]
  <1>2. i \in Invites
    BY <1>1 DEF FreshInvites
  <1> HIDE DEF i
  <1>3. /\ q \in Plan /\ q.op = "resend" /\ q.key = k /\ q.saw = member[k]
        /\ q.new = member[k] /\ q.mints = {} /\ q.issues = {i} /\ q.kills = PendingOf(k)
    BY <1>2, KeyParts DEF Change, Nothing, Plan, Operations, PendingOf, IInv, TypeOK
  <1>4. Begin(r, q)
    BY <1>1
  <1> HIDE DEF q
  <1>5. Exists(member[k]) /\ (~raced => Waits(member[k]))
    BY <1>1 DEF Exists, Waits, IInv, InvitedIsPending
  <1> QED
    BY <1>1, <1>2, <1>3, <1>4, <1>5, SoundChange DEF Waits

LEMMA AcceptLateKeeps ==
  ASSUME IInv, NEW r \in Threads, AcceptLate(r)
  PROVE  IInv'
  <1>1. PICK i \in Invites :
          Begin(r, [Nothing("expire", invite[i].key[1]) EXCEPT !.takes = {i}])
    BY DEF AcceptLate
  <1> DEFINE p == invite[i].key[1]
             q == [Nothing("expire", p) EXCEPT !.takes = {i}]
  <1>2. p \in Persons
    BY KeyParts DEF IInv, TypeOK, Invitation
  <1> HIDE DEF p
  <1>3. /\ q \in Plan /\ q.key[2] = 0 /\ q.saw = NoRow /\ q.new = NoRow /\ q.issues = {}
        /\ q.mints = {}
    <2>1. NoRow \in Row
      BY NoRowType
    <2> QED
      BY <1>2, <2>1 DEF Nothing, Plan, Operations
  <1>4. Begin(r, q)
    BY <1>1 DEF p
  <1> HIDE DEF q
  <1> QED
    BY <1>3, <1>4, SoundOther

LEMMA AcceptKeeps ==
  ASSUME IInv, NEW r \in Threads, AcceptInvitation(r)
  PROVE  IInv'
  <1>1. PICK i \in Invites :
          LET k == invite[i].key IN
          /\ invite[i].status = "PENDING"
          /\ Acceptable(k)
          /\ Begin(r, [Change("accept", k, [member[k] EXCEPT !.linked = TRUE, !.status = "ACTIVE"])
                         EXCEPT !.takes = {i}, !.opens = k[1] \notin account])
    BY DEF AcceptInvitation
  <1> DEFINE k == invite[i].key
             new == [member[k] EXCEPT !.linked = TRUE, !.status = "ACTIVE"]
             q == [Change("accept", k, new) EXCEPT !.takes = {i}, !.opens = k[1] \notin account]
  <1>2. k \in Keys /\ Exists(member[k]) /\ i \in PendingOf(k)
    BY <1>1 DEF IInv, TypeOK, Invitation, InvitesHaveRows, PendingOf
  <1>3. Begin(r, q) /\ CanActivate(member[k].role, member[k])
    BY <1>1 DEF Acceptable
  <1> HIDE DEF k
  <1>4. /\ new \in Row /\ new.linked /\ new.status = "ACTIVE" /\ new.role = member[k].role
        /\ Exists(new)
    BY <1>2 DEF IInv, TypeOK, Row, Exists
  <1> HIDE DEF new
  <1>5. /\ q \in Plan /\ q.op = "accept" /\ q.key = k /\ q.saw = member[k]
        /\ q.new = new /\ q.mints = {} /\ q.issues = {} /\ q.takes = {i}
    BY <1>2, <1>4, KeyParts DEF Change, Nothing, Plan, Operations, IInv, TypeOK
  <1> HIDE DEF q
  <1>6. ~raced => Waits(member[k]) /\ PendingOf(k) = {i}
    BY <1>2, Awaited
  <1> QED
    BY <1>2, <1>3, <1>4, <1>5, <1>6, SoundChange DEF Waits, IsOwner

LEMMA AcceptRefusedKeeps ==
  ASSUME IInv, NEW r \in Threads, AcceptRefused(r)
  PROVE  IInv'
  <1>1. PICK i \in Invites :
          Begin(r, [Nothing("refuse", invite[i].key[1]) EXCEPT !.opens = TRUE])
    BY DEF AcceptRefused
  <1> DEFINE p == invite[i].key[1]
             q == [Nothing("refuse", p) EXCEPT !.opens = TRUE]
  <1>2. p \in Persons
    BY KeyParts DEF IInv, TypeOK, Invitation
  <1> HIDE DEF p
  <1>3. /\ q \in Plan /\ q.key[2] = 0 /\ q.saw = NoRow /\ q.new = NoRow /\ q.issues = {}
        /\ q.mints = {}
    <2>1. NoRow \in Row
      BY NoRowType
    <2> QED
      BY <1>2, <2>1 DEF Nothing, Plan, Operations
  <1>4. Begin(r, q)
    BY <1>1 DEF p
  <1> HIDE DEF q
  <1> QED
    BY <1>3, <1>4, SoundOther

LEMMA ChangeRoleKeeps ==
  ASSUME IInv, NEW r \in Threads, ChangeRole(r)
  PROVE  IInv'
  <1>1. PICK k \in Keys, role \in Offered :
          /\ Exists(member[k])
          /\ role # "OWNER" => SpareOwner(k)
          /\ Holds(member[k]) => CanActivate(role, member[k])
          /\ Begin(r, Change("role", k, [member[k] EXCEPT !.role = role]))
    BY DEF ChangeRole
  <1> DEFINE new == [member[k] EXCEPT !.role = role]
             q == Change("role", k, new)
  <1>2. /\ new \in Row /\ new.linked = member[k].linked /\ new.status = member[k].status
        /\ new.role = role /\ (Holds(new) <=> Holds(member[k])) /\ Exists(new)
    BY <1>1, AccessAssumption DEF IInv, TypeOK, Row, Roles, Exists, Holds
  <1>3. Begin(r, q)
    BY <1>1
  <1> HIDE DEF new
  <1>4. /\ q \in Plan /\ q.op = "role" /\ q.key = k /\ q.saw = member[k]
        /\ q.new = new /\ q.mints = {} /\ q.issues = {}
    BY <1>2, KeyParts DEF Change, Nothing, Plan, Operations, IInv, TypeOK
  <1> HIDE DEF q
  <1>5. member[k].status = "ACTIVE" => member[k].linked
    BY DEF IInv, ActiveIsLinked
  <1>6. ~raced => /\ Waits(new) \/ PendingOf(k) = {}
                  /\ new.status = "INVITED" => ~new.linked
    BY <1>2, Awaited DEF Waits, IInv, InvitedIsPending
  <1> QED
    BY <1>1, <1>2, <1>3, <1>4, <1>5, <1>6, SoundChange DEF IsOwner

LEMMA DeactivateKeeps ==
  ASSUME IInv, NEW r \in Threads, Deactivate(r)
  PROVE  IInv'
  <1>1. PICK k \in Keys :
          /\ member[k].status = "ACTIVE"
          /\ SpareOwner(k)
          /\ Begin(r, [Change("deactivate", k, [member[k] EXCEPT !.status = "INACTIVE"]) EXCEPT
                         !.spends = LiveTokens(k[1])])
    BY DEF Deactivate
  <1> DEFINE new == [member[k] EXCEPT !.status = "INACTIVE"]
             q == [Change("deactivate", k, new) EXCEPT !.spends = LiveTokens(k[1])]
  <1>2. /\ new \in Row /\ new.linked = member[k].linked /\ new.status = "INACTIVE"
        /\ Exists(new) /\ ~Holds(new) /\ Exists(member[k])
    BY <1>1 DEF IInv, TypeOK, Row, Exists, Holds
  <1>3. Begin(r, q)
    BY <1>1
  <1> HIDE DEF new
  <1>4. /\ q \in Plan /\ q.op = "deactivate" /\ q.key = k /\ q.saw = member[k]
        /\ q.new = new /\ q.mints = {} /\ q.issues = {} /\ q.spends = LiveTokens(k[1])
    BY <1>2, KeyParts DEF Change, Nothing, Plan, Operations, LiveTokens, IInv, TypeOK
  <1> HIDE DEF q
  <1>5. ~raced => PendingOf(k) = {}
    BY <1>1, Awaited DEF Waits
  <1> QED
    BY <1>1, <1>2, <1>3, <1>4, <1>5, SoundChange

LEMMA ActivateKeeps ==
  ASSUME IInv, NEW r \in Threads, Activate(r)
  PROVE  IInv'
  <1>1. PICK k \in Keys :
          /\ member[k].status \in {"ACTIVE", "INACTIVE"}
          /\ member[k].linked
          /\ CanActivate(member[k].role, member[k])
          /\ Begin(r, Change("activate", k, [member[k] EXCEPT !.status = "ACTIVE"]))
    BY DEF Activate
  <1> DEFINE new == [member[k] EXCEPT !.status = "ACTIVE"]
             q == Change("activate", k, new)
  <1>2. /\ new \in Row /\ new.linked /\ new.status = "ACTIVE" /\ new.role = member[k].role
        /\ Exists(new) /\ Exists(member[k])
    BY <1>1 DEF IInv, TypeOK, Row, Exists
  <1>3. Begin(r, q)
    BY <1>1
  <1> HIDE DEF new
  <1>4. /\ q \in Plan /\ q.op = "activate" /\ q.key = k /\ q.saw = member[k]
        /\ q.new = new /\ q.mints = {} /\ q.issues = {}
    BY <1>2, KeyParts DEF Change, Nothing, Plan, Operations, IInv, TypeOK
  <1> HIDE DEF q
  <1>5. ~raced => PendingOf(k) = {}
    BY <1>1, Awaited DEF Waits
  <1> QED
    BY <1>1, <1>2, <1>3, <1>4, <1>5, SoundChange DEF IsOwner

LEMMA RevokeKeeps ==
  ASSUME IInv, NEW r \in Threads, Revoke(r)
  PROVE  IInv'
  <1>1. PICK k \in Keys :
          /\ Exists(member[k])
          /\ SpareOwner(k)
          /\ Begin(r, [Change("revoke", k, [member[k] EXCEPT !.status = "REVOKED"]) EXCEPT
                         !.kills = PendingOf(k),
                         !.spends = IF member[k].linked THEN LiveTokens(k[1]) ELSE {}])
    BY DEF Revoke
  <1> DEFINE new == [member[k] EXCEPT !.status = "REVOKED"]
             spends == IF member[k].linked THEN LiveTokens(k[1]) ELSE {}
             q == [Change("revoke", k, new) EXCEPT !.kills = PendingOf(k), !.spends = spends]
  <1>2. /\ new \in Row /\ new.linked = member[k].linked /\ new.status = "REVOKED"
        /\ Exists(new) /\ ~Holds(new)
    BY <1>1 DEF IInv, TypeOK, Row, Exists, Holds
  <1>3. Begin(r, q)
    BY <1>1
  <1>4. /\ spends \in SUBSET Tokens
        /\ member[k].status = "ACTIVE" => spends = LiveTokens(k[1])
    BY DEF LiveTokens, IInv, ActiveIsLinked
  <1> HIDE DEF new, spends
  <1>5. /\ q \in Plan /\ q.op = "revoke" /\ q.key = k /\ q.saw = member[k] /\ q.new = new
        /\ q.mints = {} /\ q.issues = {} /\ q.spends = spends /\ q.kills = PendingOf(k)
    BY <1>2, <1>4, KeyParts DEF Change, Nothing, Plan, Operations, PendingOf, IInv, TypeOK
  <1> HIDE DEF q
  <1> QED
    BY <1>1, <1>2, <1>3, <1>4, <1>5, SoundChange

\* The three handlers that put the row of the account without an invitation.
LEMMA AccountRowKeeps ==
  ASSUME IInv, NEW r \in Threads, NEW p \in Persons, NEW op \in {"grant", "bind", "enter"},
         NEW role \in Roles, NEW q,
         q = Upsert(op, p, TRUE, [linked |-> TRUE, role |-> role, status |-> "ACTIVE"]),
         Begin(r, q),
         IF op = "bind" THEN ~Member(p) ELSE CanActivate(role, q.saw)
  PROVE  IInv'
  <1> DEFINE new == [linked |-> TRUE, role |-> role, status |-> "ACTIVE"]
  <1>1. /\ new \in Row /\ Exists(new) /\ new.role = role /\ new.status = "ACTIVE"
        /\ new.linked
    BY DEF Row, Exists
  <1>2. q = Upsert(op, p, TRUE, new)
    OBVIOUS
  <1> HIDE DEF new
  <1>3. Puts(q, op, p, TRUE, new)
    <2>1. op \in Operations
      BY DEF Operations
    <2> QED
      BY <1>1, <1>2, <2>1, UpsertPuts
  <1>4. CASE q.key = <<p, 0>> /\ q.saw = NoRow
    <2>1. op = "bind" \/ CanActivate(q.new.role, NoRow)
      BY <1>1, <1>3, <1>4 DEF Puts
    <2>2. /\ q \in Plan /\ q.key[2] = 0 /\ q.saw = NoRow /\ q.mints = {} /\ q.issues = {}
          /\ Exists(q.new) /\ q.new.linked /\ q.new.status = "ACTIVE"
      <3>1. q \in Plan /\ q.new = new /\ q.mints = {} /\ q.issues = {}
        BY <1>3 DEF Puts
      <3>2. q.key[2] = 0
        <4>1. <<p, 0>>[2] = 0
          OBVIOUS
        <4> QED
          BY ONLY <1>4, <4>1
      <3> QED
        BY <1>1, <1>4, <3>1, <3>2
    <2>3. q.op = "bind" \/ CanActivate(q.new.role, NoRow)
      BY <2>1, <1>3 DEF Puts
    <2>4. Begin(r, q)
      OBVIOUS
    <2> QED
      BY <2>2, <2>3, <2>4, SoundInsert
  <1>5. CASE q.key \in Under(p, TRUE) /\ q.key \in Keys /\ q.saw = member[q.key]
    <2>1. Exists(q.saw) /\ q.saw.linked
      BY <1>5 DEF Under
    <2>2. ~raced => PendingOf(q.key) = {}
      BY <1>5, <2>1, Awaited DEF Waits
    <2>3. op = "bind" => ~IsOwner(q.saw)
      BY <1>5 DEF Member, IsOwner
    <2> QED
      BY <1>1, <1>3, <1>5, <2>1, <2>2, <2>3, SoundChange DEF Puts
  <1> QED
    BY <1>3, <1>4, <1>5 DEF Puts

LEMMA AccountRowsKeep ==
  ASSUME IInv, NEW r \in Threads, GrantProducer(r) \/ BindAtLogin(r) \/ EnterAsPlatform(r)
  PROVE  IInv'
  <1>1. Pilots \cup account \subseteq Persons
    BY AccessAssumption DEF IInv, TypeOK
  <1>2. CASE GrantProducer(r)
    <2>1. PICK p \in account :
            LET plan == Upsert("grant", p, TRUE,
                               [linked |-> TRUE, role |-> "PRODUCER", status |-> "ACTIVE"])
            IN  CanActivate("PRODUCER", plan.saw) /\ Begin(r, plan)
      BY <1>2 DEF GrantProducer
    <2>2. "PRODUCER" \in Roles /\ "grant" \in {"grant", "bind", "enter"} /\ p \in Persons
      BY <1>1 DEF Roles, Assignable
    <2> QED
      BY <2>1, <2>2, AccountRowKeeps
  <1>3. CASE BindAtLogin(r)
    <2>1. PICK p \in (Pilots \cup account) \ Platform :
            /\ ~Member(p)
            /\ Begin(r, Upsert("bind", p, TRUE,
                               [linked |-> TRUE, role |-> "BROKER", status |-> "ACTIVE"]))
      BY <1>3 DEF BindAtLogin
    <2>2. "BROKER" \in Roles /\ "bind" \in {"grant", "bind", "enter"} /\ p \in Persons
      BY <1>1 DEF Roles, Assignable
    <2> QED
      BY <2>1, <2>2, AccountRowKeeps
  <1>4. CASE EnterAsPlatform(r)
    <2>1. PICK p \in Platform \cap (Pilots \cup account) :
            Begin(r, Upsert("enter", p, TRUE,
                            [linked |-> TRUE, role |-> "PLATFORM", status |-> "ACTIVE"]))
      BY <1>4 DEF EnterAsPlatform
    <2>2. "PLATFORM" \in Roles /\ "enter" \in {"grant", "bind", "enter"} /\ p \in Persons
      BY <1>1 DEF Roles
    <2>3. \A m : CanActivate("PLATFORM", m)
      BY DEF CanActivate, Room, Bucket, Buckets
    <2> QED
      BY <2>1, <2>2, <2>3, AccountRowKeeps
  <1> QED
    BY <1>2, <1>3, <1>4

LEMMA TokensKeep ==
  ASSUME IInv, NEW r \in Threads, SignIn(r) \/ RefreshToken(r) \/ SignOut(r)
  PROVE  IInv'
  <1> DEFINE n == CHOOSE t \in FreshTokens : TRUE
  <1>1. FreshTokens # {} => n \in Tokens
    BY DEF FreshTokens
  <1>2. NoRow \in Row
    BY NoRowType
  <1>3. CASE SignIn(r)
    <2>1. PICK p \in Pilots \cup account :
            /\ FreshTokens # {}
            /\ Member(p) \/ p \in Platform
            /\ Begin(r, [Nothing("token", p) EXCEPT !.mints = {n}])
      BY <1>3 DEF SignIn
    <2> DEFINE q == [Nothing("token", p) EXCEPT !.mints = {n}]
    <2>2. Begin(r, q)
      BY <2>1
    <2>3. p \in Persons /\ n \in Tokens
      BY <1>1, <2>1, AccessAssumption DEF IInv, TypeOK
    <2> HIDE DEF n
    <2>4. /\ q \in Plan /\ q.key[2] = 0 /\ q.saw = NoRow /\ q.new = NoRow
          /\ q.issues = {} /\ q.key[1] = p
      BY <1>2, <2>3 DEF Nothing, Plan, Operations
    <2> HIDE DEF q
    <2> QED
      BY <2>1, <2>2, <2>4, SoundOther
  <1>4. CASE RefreshToken(r)
    <2>1. PICK t \in Tokens :
            /\ FreshTokens # {}
            /\ token[t].state = "live"
            /\ Begin(r, [Nothing("token", token[t].who) EXCEPT !.spends = {t}, !.mints = {n}])
      BY <1>4 DEF RefreshToken
    <2> DEFINE p == token[t].who
               q == [Nothing("token", p) EXCEPT !.spends = {t}, !.mints = {n}]
    <2>2. Begin(r, q)
      BY <2>1
    <2>3. p \in Persons /\ n \in Tokens
      BY <1>1, <2>1 DEF IInv, TypeOK, Token
    <2>4. ~raced => Member(p) \/ p \in Platform
      BY <2>1, <2>3 DEF IInv, TokensFollowAccess, LiveTokens
    <2> HIDE DEF n, p
    <2>5. /\ q \in Plan /\ q.key[2] = 0 /\ q.saw = NoRow /\ q.new = NoRow
          /\ q.issues = {} /\ q.key[1] = p
      BY <1>2, <2>3 DEF Nothing, Plan, Operations
    <2> HIDE DEF q
    <2> QED
      BY <2>2, <2>4, <2>5, SoundOther
  <1>5. CASE SignOut(r)
    <2>1. PICK t \in Tokens : Begin(r, [Nothing("token", token[t].who) EXCEPT !.spends = {t}])
      BY <1>5 DEF SignOut
    <2> DEFINE p == token[t].who
               q == [Nothing("token", p) EXCEPT !.spends = {t}]
    <2>2. Begin(r, q)
      BY <2>1
    <2>3. p \in Persons
      BY DEF IInv, TypeOK, Token
    <2> HIDE DEF p
    <2>4. /\ q \in Plan /\ q.key[2] = 0 /\ q.saw = NoRow /\ q.new = NoRow
          /\ q.issues = {} /\ q.mints = {}
      BY <1>2, <2>3 DEF Nothing, Plan, Operations
    <2> HIDE DEF q
    <2> QED
      BY <2>2, <2>4, SoundOther
  <1> QED
    BY <1>3, <1>4, <1>5

LEMMA InitKeeps == Init => IInv
  <1> SUFFICES ASSUME Init
               PROVE  IInv
    OBVIOUS
  <1>1. <<Founder, 1>> \in Keys /\ Idle \in Plan /\ NoRow \in Row
    BY AccessAssumption, KeyParts, NoRowType
  <1>2. /\ \A k \in Keys : member[k] = IF k = <<Founder, 1>>
                                        THEN [linked |-> TRUE, role |-> "OWNER", status |-> "ACTIVE"]
                                        ELSE NoRow
        /\ \A k \in Keys : member[k] \in Row
    BY <1>1 DEF Init, Row, Roles, Assignable
  <1>3. TypeOK
    <2>1. invite \in [Invites -> Invitation] /\ token \in [Tokens -> Token]
      BY <1>1, AccessAssumption DEF Init, Invitation, Token
    <2>2. account \subseteq Persons /\ limit \in SeatLimits /\ served \in 0 .. MaxRequests
      BY AccessAssumption DEF Init
    <2>3. member \in [Keys -> Row] /\ req \in [Threads -> Plan] /\ raced \in BOOLEAN
      BY <1>1, <1>2 DEF Init
    <2>4. \A j \in Keys : Exists(member[j]) => j = <<Founder, 1>>
      BY <1>2 DEF Exists, NoRow
    <2> QED
      BY <2>1, <2>2, <2>3, <2>4 DEF TypeOK
  <1>4. /\ \A i \in Invites : invite[i].status = "NONE"
        /\ \A t \in Tokens : token[t].state = "none"
    BY DEF Init
  <1>5. ActiveIsLinked /\ InvitedIsPending
    BY <1>2 DEF ActiveIsLinked, InvitedIsPending, NoRow
  <1>6. InvitesAwaitTheirRow /\ InvitesHaveRows /\ TokensFollowAccess
    BY <1>4 DEF InvitesAwaitTheirRow, InvitesHaveRows, TokensFollowAccess, LiveTokens
  <1>7. ASSUME NEW r \in Threads
        PROVE  Linking(req[r]) /\ Current(req[r])
    BY DEF Init, Idle, Nothing, NoRow, Linking, Current
  <1> QED
    BY <1>3, <1>5, <1>6, <1>7 DEF IInv

-----------------------------------------------------------------------------
(* The end of a request *)

\* What a commit of q writes at row x: a row w that follows from what was there, and
\* is what the handler decided when nothing came between.
PutsRow(q, x, w) ==
  /\ x[1] = q.key[1] /\ Target(q) = x
  /\ Exists(w)
  /\ Exists(member[x]) /\ member[x].linked => w.linked
  /\ w.status = "ACTIVE" => w.linked
  /\ \A j \in Keys \ {x} : j[1] = x[1] /\ Exists(member[j]) => member[j].linked # w.linked
  /\ Exists(member[x]) => q.key = x
  /\ ~Exists(member[x]) => q.key[2] = 0
  /\ ~q.stale => /\ w = q.new
                 /\ Exists(member[x]) => q.saw = member[x]
                 /\ ~Exists(member[x]) => q.saw = NoRow

LEMMA CommitWrites ==
  ASSUME IInv, NEW r \in Threads, Commit(r)
  PROVE  \/ /\ member' = member /\ req[r].key[2] = 0 /\ req[r].new = NoRow
            /\ req[r].issues = {}
         \/ \E x \in Keys, w \in Row :
              PutsRow(req[r], x, w) /\ member' = [member EXCEPT ![x] = w]
  <1> DEFINE q == req[r]
  <1>1. /\ q \in Plan /\ q.op # "idle" /\ ~Conflict(q)
        /\ member' = IF Inserts(q) \/ q.key[2] # 0
                       THEN [member EXCEPT ![Target(q)] = Written(q)] ELSE member
        /\ Linking(q) /\ Current(q)
    BY DEF Commit, IInv, TypeOK
  <1> HIDE DEF q
  <1>2. CASE ~Inserts(q) /\ q.key[2] = 0
    <2>1. member' = member /\ q.new = NoRow
      BY <1>1, <1>2 DEF Inserts
    <2> QED
      BY <1>1, <1>2, <2>1 DEF q, Linking
  <1>3. CASE q.key[2] # 0
    <2> DEFINE x == q.key
               w == Merge(member[x], q.saw, q.new)
    <2>1. /\ x \in Keys /\ Target(q) = x /\ Written(q) = w /\ ~Inserts(q)
          /\ q.saw \in Row /\ q.new \in Row
      BY <1>1, <1>3, KeyParts DEF Plan, Target, Written, Inserts
    <2>2. /\ member[x] \in Row /\ Exists(member[x]) /\ Exists(q.new)
          /\ q.saw.linked => member[x].linked /\ q.new.linked
          /\ q.new.status = "ACTIVE" => q.new.linked
          /\ member[x].status = "ACTIVE" => member[x].linked
      BY <1>1, <1>3, <2>1 DEF IInv, TypeOK, Linking, ActiveIsLinked
    <2>3. w \in Row
      BY <2>1, <2>2, MergeType
    <2>4. Exists(w) /\ (member[x].linked => w.linked) /\ (w.status = "ACTIVE" => w.linked)
      BY <2>1, <2>2 DEF Merge, Exists, Row
    <2>5. ASSUME NEW j \in Keys, j # x, j[1] = x[1], Exists(member[j])
          PROVE  member[j].linked # w.linked
      <3>1. CASE q.new.linked = q.saw.linked
        <4>1. w.linked = member[x].linked
          BY <3>1 DEF Merge
        <4> QED
          BY <2>1, <2>2, <2>5, <4>1 DEF IInv, TypeOK
      <3>2. CASE q.new.linked # q.saw.linked
        <4>1. w.linked = q.new.linked
          BY <3>2 DEF Merge
        <4>2. Under(x[1], q.new.linked) \ {x} = {}
          BY <1>1, <3>2 DEF Conflict, Taken
        <4> QED
          BY <2>5, <4>1, <4>2 DEF Under
      <3> QED
        BY <3>1, <3>2
    <2>6. ~q.stale => w = q.new /\ q.saw = member[x]
      <3>1. ~q.stale => q.saw = member[x]
        BY <1>1, <1>3 DEF Current, Checked
      <3> QED
        BY <2>1, <2>2, <3>1, MergeType
    <2>7. member' = [member EXCEPT ![x] = w]
      BY <1>1, <1>3, <2>1
    <2> HIDE DEF w
    <2>8. PutsRow(q, x, w)
      BY <2>1, <2>2, <2>4, <2>5, <2>6 DEF PutsRow
    <2> QED
      BY <2>1, <2>3, <2>7, <2>8 DEF q
  <1>4. CASE Inserts(q)
    <2> DEFINE p == q.key[1]
               x == IF Exists(member[<<p, 1>>]) THEN <<p, 2>> ELSE <<p, 1>>
               w == q.new
    <2>1. /\ Target(q) = x /\ Written(q) = w /\ q.key[2] = 0 /\ q.saw = NoRow
          /\ w \in Row /\ Exists(w) /\ (w.status = "ACTIVE" => w.linked)
      BY <1>1, <1>4 DEF Plan, Target, Written, Inserts, Linking
    <2>2. /\ p \in Persons /\ <<p, 1>> \in Keys /\ <<p, 2>> \in Keys
          /\ q.key \notin Keys
      BY <1>1, <2>1, KeyParts DEF Plan
    <2>3. x \in Keys /\ x[1] = p
      BY <2>2
    <2>4. ASSUME NEW j \in Keys, j[1] = p, Exists(member[j])
          PROVE  member[j].linked # w.linked
      <3>1. Under(p, w.linked) \ {q.key} = {}
        BY <1>1, <1>4 DEF Conflict, Taken
      <3> QED
        BY <2>2, <2>4, <3>1 DEF Under
    <2>5. ~Exists(member[x])
      <3>1. /\ member[<<p, 1>>].linked \in BOOLEAN /\ member[<<p, 2>>].linked \in BOOLEAN
            /\ w.linked \in BOOLEAN
        BY <2>1, <2>2 DEF IInv, TypeOK, Row
      <3>2. SUFFICES ASSUME Exists(member[<<p, 1>>]), Exists(member[<<p, 2>>])
                     PROVE  FALSE
        OBVIOUS
      <3>3. <<p, 1>>[1] = p /\ <<p, 2>>[1] = p /\ <<p, 1>> # <<p, 2>>
        OBVIOUS
      <3>4. member[<<p, 1>>].linked = member[<<p, 2>>].linked
        BY <2>2, <2>4, <3>1, <3>2, <3>3
      <3> QED
        BY <2>2, <3>2, <3>3, <3>4 DEF IInv, TypeOK
    <2>6. member' = [member EXCEPT ![x] = w]
      BY <1>1, <1>4, <2>1
    <2> HIDE DEF w, x
    <2>7. PutsRow(q, x, w)
      BY <2>1, <2>3, <2>4, <2>5 DEF PutsRow, w
    <2> QED
      BY <2>1, <2>3, <2>6, <2>7 DEF q
  <1> QED
    BY <1>2, <1>3, <1>4

\* A write keeps the shape of the rows, and what links them to subjects.
LEMMA RowsKept ==
  ASSUME IInv, NEW r \in Threads, Commit(r)
  PROVE  /\ member' \in [Keys -> Row] /\ ActiveIsLinked'
         /\ \A k \in Keys : Exists(member[k]) =>
              Exists(member'[k]) /\ (member[k].linked => member'[k].linked)
         /\ \A j, k \in Keys :
              Exists(member'[j]) /\ Exists(member'[k]) /\ j[1] = k[1]
                /\ member'[j].linked = member'[k].linked => j = k
  <1>1. CASE member' = member
    BY <1>1 DEF IInv, TypeOK, ActiveIsLinked
  <1>2. ASSUME NEW x \in Keys, NEW w \in Row, PutsRow(req[r], x, w),
               member' = [member EXCEPT ![x] = w]
        PROVE  /\ member' \in [Keys -> Row] /\ ActiveIsLinked'
               /\ \A k \in Keys : Exists(member[k]) =>
                    Exists(member'[k]) /\ (member[k].linked => member'[k].linked)
               /\ \A j, k \in Keys :
                    Exists(member'[j]) /\ Exists(member'[k]) /\ j[1] = k[1]
                      /\ member'[j].linked = member'[k].linked => j = k
    <2>1. member \in [Keys -> Row]
      BY DEF IInv, TypeOK
    <2>2. \A k \in Keys : member'[k] = IF k = x THEN w ELSE member[k]
      BY <1>2, <2>1
    <2>3. member' \in [Keys -> Row]
      BY <1>2, <2>1
    <2>4. ActiveIsLinked'
      BY <1>2, <2>2 DEF IInv, ActiveIsLinked, PutsRow
    <2>5. \A k \in Keys : Exists(member[k]) =>
            Exists(member'[k]) /\ (member[k].linked => member'[k].linked)
      BY <1>2, <2>2 DEF PutsRow
    <2>6. ASSUME NEW j \in Keys, NEW k \in Keys, Exists(member'[j]), Exists(member'[k]),
                 j[1] = k[1], member'[j].linked = member'[k].linked
          PROVE  j = k
      <3>1. \A a \in Keys \ {x} : a[1] = x[1] /\ Exists(member[a]) => member[a].linked # w.linked
        BY <1>2 DEF PutsRow
      <3>2. CASE j = x \/ k = x
        BY <2>2, <2>6, <3>1, <3>2
      <3>3. CASE j # x /\ k # x
        BY <2>2, <2>6, <3>3 DEF IInv, TypeOK
      <3> QED
        BY <3>2, <3>3
    <2> QED
      BY <2>3, <2>4, <2>5, <2>6
  <1> QED
    BY <1>1, <1>2, CommitWrites

LEMMA CommitTypes ==
  ASSUME IInv, NEW r \in Threads, Commit(r)
  PROVE  TypeOK'
  <1> DEFINE q == req[r]
  <1>1. q \in Plan /\ q.op # "idle" /\ q.key[1] \in Persons
    BY KeyParts DEF Commit, IInv, TypeOK, Plan
  <1>2. q.issues # {} => Target(q) \in Keys
    BY CommitWrites DEF PutsRow
  <1> HIDE DEF q
  <1>3. /\ invite' = InvitesAfter(q) /\ token' = TokensAfter(q)
        /\ account' = IF q.opens THEN account \cup {q.key[1]} ELSE account
        /\ req' = [s \in Threads |-> IF s = r THEN Idle
                                     ELSE IF req[s].op = "idle" THEN req[s]
                                     ELSE [req[s] EXCEPT !.stale = TRUE]]
        /\ raced' = (raced \/ q.stale) /\ limit' = limit /\ served' = served
    BY DEF Commit, q
  <1>4. invite' \in [Invites -> Invitation]
    <2> SUFFICES ASSUME NEW i \in Invites
                 PROVE  InvitesAfter(q)[i] \in Invitation
      BY <1>3 DEF InvitesAfter
    <2>1. invite[i] \in Invitation
      BY DEF IInv, TypeOK
    <2> QED
      BY <1>2, <2>1 DEF InvitesAfter, Invitation
  <1>5. token' \in [Tokens -> Token]
    <2> SUFFICES ASSUME NEW t \in Tokens
                 PROVE  TokensAfter(q)[t] \in Token
      BY <1>3 DEF TokensAfter
    <2>1. token[t] \in Token
      BY DEF IInv, TypeOK
    <2> QED
      BY <1>1, <2>1 DEF TokensAfter, Token
  <1>6. req' \in [Threads -> Plan]
    <2>1. ASSUME NEW s \in Threads
          PROVE  [req[s] EXCEPT !.stale = TRUE] \in Plan /\ req[s] \in Plan
      <3>1. req[s] \in Plan
        BY DEF IInv, TypeOK
      <3>2. \A p \in Plan : [p EXCEPT !.stale = TRUE] \in Plan
        BY DEF Plan
      <3> QED
        BY <3>1, <3>2
    <2> QED
      BY <1>3, <2>1, NoRowType
  <1>7. account' \subseteq Persons /\ raced' \in BOOLEAN
    BY <1>1, <1>3 DEF IInv, TypeOK, Plan
  <1> QED
    BY <1>3, <1>4, <1>5, <1>6, <1>7, RowsKept DEF IInv, TypeOK

\* The open invitations after a commit: those it issues, and those of before it has not
\* revoked or taken.
LEMMA OpenAfter ==
  ASSUME IInv, NEW r \in Threads, Commit(r), NEW i \in Invites, invite'[i].status = "PENDING"
  PROVE  \/ i \in req[r].issues /\ invite'[i].key = Target(req[r])
         \/ /\ i \notin req[r].issues \cup req[r].kills \cup req[r].takes
            /\ invite'[i] = invite[i]
  <1>1. invite' = InvitesAfter(req[r]) /\ invite[i] \in Invitation
    BY DEF Commit, IInv, TypeOK
  <1> QED
    BY <1>1 DEF InvitesAfter, Invitation

\* An open invitation still awaits its row, and no other is open for it.
LEMMA CommitInvites ==
  ASSUME IInv, NEW r \in Threads, Commit(r)
  PROVE  InvitesHaveRows' /\ InvitesAwaitTheirRow'
  <1> DEFINE q == req[r]
             Open(k) == {j \in Invites : invite'[j].status = "PENDING" /\ invite'[j].key = k}
  <1>1. /\ Linking(q) /\ Current(q) /\ q.op # "idle" /\ raced' = (raced \/ q.stale)
        /\ q \in Plan
    BY DEF Commit, IInv, TypeOK
  <1> HIDE DEF q
  <1>2. ASSUME NEW i \in Invites, invite'[i].status = "PENDING"
        PROVE  \/ i \in q.issues /\ invite'[i].key = Target(q)
               \/ /\ i \notin q.issues \cup q.kills \cup q.takes
                  /\ invite'[i] = invite[i] /\ invite[i].key \in Keys
                  /\ i \in PendingOf(invite[i].key) /\ Exists(member[invite[i].key])
    BY <1>2, OpenAfter DEF q, PendingOf, IInv, TypeOK, Invitation, InvitesHaveRows
  <1>3. CASE member' = member /\ q.issues = {} /\ q.key[2] = 0
    <2>1. InvitesHaveRows'
      BY <1>2, <1>3 DEF InvitesHaveRows, Exists
    <2>2. ASSUME ~raced, NEW i \in Invites, invite'[i].status = "PENDING"
          PROVE  /\ member[invite'[i].key].status = "INVITED" /\ ~member[invite'[i].key].linked
                 /\ Open(invite'[i].key) = {i}
      <3>1. \A j \in Invites : invite'[j].status = "PENDING"
              => invite'[j] = invite[j] /\ invite[j].status = "PENDING"
        BY <1>2, <1>3 DEF PendingOf
      <3> QED
        BY <2>2, <3>1 DEF PendingOf, IInv, InvitesAwaitTheirRow
    <2> QED
      BY <1>1, <1>3, <2>1, <2>2 DEF InvitesAwaitTheirRow, PendingOf
  <1>4. ASSUME NEW x \in Keys, NEW w \in Row, PutsRow(q, x, w),
               member' = [member EXCEPT ![x] = w]
        PROVE  InvitesHaveRows' /\ InvitesAwaitTheirRow'
    <2>1. Target(q) = x /\ Exists(w) /\ \A k \in Keys : member'[k] = IF k = x THEN w ELSE member[k]
      BY <1>4 DEF PutsRow, IInv, TypeOK
    <2>2. InvitesHaveRows'
      BY <1>2, <2>1 DEF InvitesHaveRows, Exists
    <2>3. ASSUME ~raced', NEW i \in Invites, invite'[i].status = "PENDING"
          PROVE  /\ member'[invite'[i].key].status = "INVITED" /\ ~member'[invite'[i].key].linked
                 /\ Open(invite'[i].key) = {i}
      <3>1. ~raced /\ ~q.stale /\ Tidy(q)
        BY <1>1, <2>3 DEF Current, IInv, TypeOK, Plan
      <3>2. /\ w = q.new
            /\ Exists(member[x]) => q.key = x /\ q.key[2] # 0
        BY <1>4, <3>1, KeyParts DEF PutsRow
      <3>3. ASSUME NEW j \in Invites, invite'[j].status = "PENDING", j \notin q.issues,
                   invite'[j].key = x
            PROVE  Waits(w) /\ PendingOf(x) = {j} /\ q.issues = {}
        <4>1. /\ j \in PendingOf(x) /\ q.key = x /\ q.key[2] # 0
              /\ j \notin q.kills \cup q.takes
          BY <1>2, <3>2, <3>3
        <4>2. Waits(q.new) /\ (q.issues # {} => PendingOf(x) \subseteq q.kills)
          BY <3>1, <4>1 DEF Tidy
        <4> QED
          BY <3>1, <3>2, <4>1, <4>2, Awaited
      <3>4. CASE i \in q.issues
        <4>1. Waits(w) /\ q.issues = {i} /\ invite'[i].key = x
          BY <1>2, <2>1, <2>3, <3>1, <3>2, <3>4 DEF Tidy
        <4>2. Open(x) = {i}
          BY <2>3, <3>3, <3>4, <4>1
        <4> QED
          BY <2>1, <4>1, <4>2 DEF Waits
      <3>5. CASE i \notin q.issues /\ invite'[i].key = x
        <4>1. Waits(w) /\ PendingOf(x) = {i} /\ q.issues = {}
          BY <2>3, <3>3, <3>5
        <4>2. Open(x) = {i}
          <5>1. ASSUME NEW j \in Invites, invite'[j].status = "PENDING", invite'[j].key = x
                PROVE  j = i
            BY <3>3, <4>1, <5>1
          <5> QED
            BY <2>3, <3>5, <5>1
        <4> QED
          BY <2>1, <3>5, <4>1, <4>2 DEF Waits
      <3>6. CASE i \notin q.issues /\ invite'[i].key # x
        <4> DEFINE k == invite[i].key
        <4>1. invite'[i] = invite[i] /\ k \in Keys /\ k # x /\ i \in PendingOf(k)
          BY <1>2, <2>3, <3>6
        <4> HIDE DEF k
        <4>2. member[k].status = "INVITED" /\ ~member[k].linked /\ PendingOf(k) = {i}
          BY <3>1, <4>1, Awaited DEF Waits
        <4>3. Open(k) = {i}
          <5>1. ASSUME NEW j \in Invites, invite'[j].status = "PENDING", invite'[j].key = k
                PROVE  j = i
            BY <1>2, <2>1, <4>1, <4>2, <5>1
          <5> QED
            BY <2>3, <4>1, <5>1 DEF k
        <4> QED
          BY <2>1, <4>1, <4>2, <4>3 DEF k
      <3> QED
        BY <3>4, <3>5, <3>6
    <2> QED
      BY <2>2, <2>3 DEF InvitesAwaitTheirRow, PendingOf
  <1> QED
    BY <1>3, <1>4, CommitWrites DEF q

\* Whoever has a token that works is still a member.
LEMMA CommitTokens ==
  ASSUME IInv, NEW r \in Threads, Commit(r)
  PROVE  TokensFollowAccess' /\ InvitedIsPending'
  <1> DEFINE q == req[r]
             Live(p) == {t \in Tokens : token'[t].who = p /\ token'[t].state = "live"}
  <1>1. /\ Current(q) /\ q.op # "idle" /\ raced' = (raced \/ q.stale) /\ q \in Plan
        /\ token' = TokensAfter(q)
    BY DEF Commit, IInv, TypeOK
  <1> HIDE DEF q
  <1>2. ASSUME ~raced'
        PROVE  ~raced /\ ~q.stale /\ Tidy(q)
    BY <1>1, <1>2 DEF Current, IInv, TypeOK, Plan
  <1>3. ASSUME NEW p \in Persons, Live(p) # {}
        PROVE  (q.mints # {} /\ p = q.key[1]) \/ ~(LiveTokens(p) \subseteq q.spends)
    <2>1. PICK t \in Tokens : token'[t].who = p /\ token'[t].state = "live"
      BY <1>3
    <2>2. CASE t \in q.mints
      BY <1>1, <2>1, <2>2 DEF TokensAfter
    <2>3. CASE t \notin q.mints
      <3>1. t \notin q.spends /\ token'[t] = token[t]
        <4>1. token[t] \in Token
          BY DEF IInv, TypeOK
        <4> QED
          BY <1>1, <2>1, <2>3, <4>1 DEF TokensAfter, Token
      <3> QED
        BY <2>1, <3>1 DEF LiveTokens
    <2> QED
      BY <2>2, <2>3
  <1>4. ASSUME ~raced', NEW p \in Persons \ Platform, Live(p) # {}
        PROVE  \E k \in Keys : /\ k[1] = p /\ member[k].linked /\ member[k].status = "ACTIVE"
                               /\ q.key = k => q.new = NoRow \/ q.saw.status # "ACTIVE"
                                               \/ q.new.status = "ACTIVE"
    <2>1. Member(p)
      <3>1. CASE q.mints # {} /\ p = q.key[1]
        BY <1>2, <1>4, <3>1 DEF Tidy
      <3>2. CASE ~(LiveTokens(p) \subseteq q.spends)
        BY <1>2, <1>4, <3>2 DEF IInv, TokensFollowAccess
      <3> QED
        BY <1>3, <1>4, <3>1, <3>2
    <2>2. PICK k \in Keys : k[1] = p /\ member[k].linked /\ member[k].status = "ACTIVE"
      BY <2>1 DEF Member, Under
    <2>3. q.key = k => q.new = NoRow \/ q.saw.status # "ACTIVE" \/ q.new.status = "ACTIVE"
      BY <1>2, <1>3, <1>4, <2>2 DEF Tidy
    <2> QED
      BY <2>2, <2>3
  <1>5. CASE member' = member
    <2>1. ASSUME ~raced', NEW p \in Persons \ Platform, Live(p) # {}
          PROVE  \E k \in Keys : /\ k[1] = p /\ Exists(member'[k]) /\ member'[k].linked = TRUE
                                 /\ member'[k].status = "ACTIVE"
      BY <1>4, <1>5, <2>1 DEF Exists
    <2>2. TokensFollowAccess'
      BY <2>1 DEF TokensFollowAccess, LiveTokens, Member, Under, Exists
    <2>3. InvitedIsPending'
      BY <1>2, <1>5 DEF IInv, InvitedIsPending
    <2> QED
      BY <2>2, <2>3
  <1>6. ASSUME NEW x \in Keys, NEW w \in Row, PutsRow(q, x, w),
               member' = [member EXCEPT ![x] = w]
        PROVE  TokensFollowAccess' /\ InvitedIsPending'
    <2>1. \A k \in Keys : member'[k] = IF k = x THEN w ELSE member[k]
      BY <1>6 DEF IInv, TypeOK
    <2>2. ~raced' => /\ w = q.new /\ Exists(w) /\ w # NoRow
                     /\ Exists(member[x]) => q.key = x /\ q.saw = member[x]
      BY <1>2, <1>6 DEF PutsRow, Exists, NoRow
    <2>3. ASSUME ~raced', NEW p \in Persons \ Platform, Live(p) # {}
          PROVE  \E k \in Keys : /\ k[1] = p /\ Exists(member'[k]) /\ member'[k].linked = TRUE
                                 /\ member'[k].status = "ACTIVE"
      <3>1. PICK k \in Keys :
              /\ k[1] = p /\ member[k].linked /\ member[k].status = "ACTIVE"
              /\ q.key = k => q.new = NoRow \/ q.saw.status # "ACTIVE" \/ q.new.status = "ACTIVE"
        BY <1>4, <2>3
      <3>2. /\ Exists(member[k]) => Exists(member'[k])
            /\ Exists(member[k]) /\ member[k].linked => member'[k].linked
            /\ member' \in [Keys -> Row]
        BY RowsKept
      <3>3. member'[k].status = "ACTIVE"
        BY <2>1, <2>2, <2>3, <3>1 DEF Exists
      <3> QED
        BY <3>1, <3>2, <3>3 DEF Exists, Row
    <2>4. ASSUME ~raced', NEW k \in Keys, member'[k].status = "INVITED"
          PROVE  ~member'[k].linked
      BY <1>2, <2>1, <2>2, <2>4 DEF Tidy, IInv, InvitedIsPending
    <2> QED
      BY <2>3, <2>4 DEF TokensFollowAccess, LiveTokens, Member, Under, Exists, InvitedIsPending
  <1> QED
    BY <1>5, <1>6, CommitWrites DEF q

\* The plans of the other threads keep what does not depend on the age of their reads.
LEMMA LinkingKept ==
  ASSUME NEW q, Linking(q), NEW s, s = q \/ s = [q EXCEPT !.stale = TRUE], q \in Plan,
         \A k \in Keys : Exists(member[k]) =>
           Exists(member'[k]) /\ (member[k].linked => member'[k].linked)
  PROVE  Linking(s)'
  <1>1. /\ s.key = q.key /\ s.saw = q.saw /\ s.new = q.new /\ s.issues = q.issues
    BY DEF Plan
  <1>2. q.key[2] # 0 => q.key \in Keys
    BY KeyParts DEF Plan
  <1> QED
    BY <1>1, <1>2 DEF Linking, Exists

LEMMA CommitKeeps ==
  ASSUME IInv, NEW r \in Threads, Commit(r)
  PROVE  IInv'
  <1>1. req' = [s \in Threads |-> IF s = r THEN Idle
                                  ELSE IF req[s].op = "idle" THEN req[s]
                                  ELSE [req[s] EXCEPT !.stale = TRUE]]
    BY DEF Commit
  <1>2. ASSUME NEW s \in Threads
        PROVE  Linking(req[s])' /\ Current(req[s])'
    <2>1. req[s] \in Plan /\ Linking(req[s])
      BY DEF IInv, TypeOK
    <2>2. CASE s = r
      BY <1>1, <2>2 DEF Idle, Nothing, NoRow, Linking, Current
    <2>3. CASE s # r
      <3>1. req'[s] = req[s] \/ req'[s] = [req[s] EXCEPT !.stale = TRUE]
        BY <1>1, <2>3
      <3>2. req'[s].op = "idle" \/ req'[s].stale
        <4>1. req[s].op # "idle" => req'[s] = [req[s] EXCEPT !.stale = TRUE]
          BY <1>1, <2>3
        <4>2. \A p \in Plan : [p EXCEPT !.stale = TRUE].stale
          BY DEF Plan
        <4> QED
          BY <1>1, <2>1, <2>3, <4>1, <4>2
      <3>3. \A k \in Keys : Exists(member[k]) =>
              Exists(member'[k]) /\ (member[k].linked => member'[k].linked)
        BY RowsKept
      <3>4. ASSUME NEW q, q = req'[s]
            PROVE  Linking(q)'
        BY <2>1, <3>1, <3>3, <3>4, LinkingKept
      <3> QED
        BY <3>2, <3>4 DEF Linking, Current
    <2> QED
      BY <2>2, <2>3
  <1> QED
    BY <1>2, CommitTypes, RowsKept, CommitInvites, CommitTokens DEF IInv

LEMMA RollBackKeeps ==
  ASSUME IInv, NEW r \in Threads, RollBack(r)
  PROVE  IInv'
  <1>1. UNCHANGED <<member, invite, account, limit, token, served, raced>>
        /\ req' = [req EXCEPT ![r] = Idle]
    BY DEF RollBack
  <1>2. req' \in [Threads -> Plan]
    BY <1>1, NoRowType DEF IInv, TypeOK
  <1>3. TypeOK'
    BY <1>1, <1>2 DEF IInv, TypeOK, Exists
  <1>4. /\ ActiveIsLinked' /\ InvitesAwaitTheirRow' /\ TokensFollowAccess'
        /\ InvitesHaveRows' /\ InvitedIsPending'
    BY <1>1 DEF IInv, ActiveIsLinked, InvitesAwaitTheirRow, TokensFollowAccess, InvitesHaveRows,
                InvitedIsPending, PendingOf, LiveTokens, Member, Under, Exists
  <1>5. ASSUME NEW s \in Threads
        PROVE  Linking(req[s])' /\ Current(req[s])'
    <2>1. CASE s = r
      BY <1>1, <2>1 DEF Idle, Nothing, NoRow, Linking, Current, IInv, TypeOK
    <2>2. CASE s # r
      <3>1. req'[s] = req[s]
        BY <1>1, <2>2 DEF IInv, TypeOK
      <3>2. Linking(req'[s]) /\ Current(req'[s])
        BY <3>1 DEF IInv
      <3> QED
        BY <1>1, <3>2, SameState
    <2> QED
      BY <2>1, <2>2
  <1> QED
    BY <1>3, <1>4, <1>5 DEF IInv

LEMMA SetLimitsKeeps ==
  ASSUME IInv, SetLimits
  PROVE  IInv'
  <1>1. /\ UNCHANGED <<member, invite, account, token, served, raced>> /\ limit' \in SeatLimits
        /\ req' = [s \in Threads |-> IF req[s].op = "idle" THEN req[s]
                                     ELSE [req[s] EXCEPT !.stale = TRUE]]
    BY DEF SetLimits
  <1>2. \A p \in Plan : [p EXCEPT !.stale = TRUE] \in Plan /\ [p EXCEPT !.stale = TRUE].stale
    BY DEF Plan
  <1>3. req' \in [Threads -> Plan]
    BY <1>1, <1>2 DEF IInv, TypeOK
  <1>4. TypeOK'
    BY <1>1, <1>3 DEF IInv, TypeOK, Exists
  <1>5. /\ ActiveIsLinked' /\ InvitesAwaitTheirRow' /\ TokensFollowAccess'
        /\ InvitesHaveRows' /\ InvitedIsPending'
    BY <1>1 DEF IInv, ActiveIsLinked, InvitesAwaitTheirRow, TokensFollowAccess, InvitesHaveRows,
                InvitedIsPending, PendingOf, LiveTokens, Member, Under, Exists
  <1>6. ASSUME NEW s \in Threads
        PROVE  Linking(req[s])' /\ Current(req[s])'
    <2>1. req[s] \in Plan /\ Linking(req[s])
      BY DEF IInv, TypeOK
    <2>2. req'[s] = req[s] \/ req'[s] = [req[s] EXCEPT !.stale = TRUE]
      BY <1>1
    <2>3. req'[s].op = "idle" \/ req'[s].stale
      BY <1>1, <1>2, <2>1
    <2>4. ASSUME NEW q, q = req'[s]
          PROVE  Linking(q)'
      BY <1>1, <2>1, <2>2, <2>4, LinkingKept
    <2> QED
      BY <2>3, <2>4 DEF Linking, Current
  <1> QED
    BY <1>4, <1>5, <1>6 DEF IInv

LEMMA LapseKeeps ==
  ASSUME IInv, Lapse
  PROVE  IInv'
  <1>1. PICK i \in Invites : invite' = [invite EXCEPT ![i].late = TRUE]
    BY DEF Lapse
  <1>2. UNCHANGED <<member, account, limit, token, req, served, raced>>
    BY DEF Lapse
  <1>3. /\ invite' \in [Invites -> Invitation]
        /\ \A j \in Invites : invite'[j].status = invite[j].status /\ invite'[j].key = invite[j].key
    BY <1>1 DEF IInv, TypeOK, Invitation
  <1>4. \A k : PendingOf(k)' = PendingOf(k)
    BY <1>3 DEF PendingOf
  <1>5. TypeOK'
    BY <1>2, <1>3 DEF IInv, TypeOK, Exists
  <1>6. /\ ActiveIsLinked' /\ TokensFollowAccess' /\ InvitedIsPending'
    BY <1>2 DEF IInv, ActiveIsLinked, TokensFollowAccess, InvitedIsPending, LiveTokens, Member,
                Under, Exists
  <1>7. InvitesHaveRows' /\ InvitesAwaitTheirRow'
    BY <1>2, <1>3 DEF IInv, InvitesHaveRows, InvitesAwaitTheirRow, PendingOf, Exists
  <1>8. ASSUME NEW s \in Threads
        PROVE  Linking(req[s])' /\ Current(req[s])'
    <2>1. \A q : (Linking(q)' <=> Linking(q)) /\ (Checked(q)' <=> Checked(q))
      BY <1>2 DEF Linking, Checked
    <2>2. \A q : Tidy(q)' <=> Tidy(q)
      BY <1>2, <1>4 DEF Tidy, Member, Under, LiveTokens
    <2> QED
      BY <1>2, <2>1, <2>2 DEF IInv, Current
  <1> QED
    BY <1>5, <1>6, <1>7, <1>8 DEF IInv

-----------------------------------------------------------------------------
(* The theorems *)

LEMMA NextKeeps == IInv /\ [Next]_vars => IInv'
  <1> SUFFICES ASSUME IInv, [Next]_vars
               PROVE  IInv'
    OBVIOUS
  <1>1. CASE UNCHANGED vars
    <2>1. UNCHANGED <<member, invite, account, limit, token, req, served, raced>>
      BY <1>1 DEF vars
    <2>2. TypeOK' /\ ActiveIsLinked' /\ InvitesAwaitTheirRow' /\ TokensFollowAccess'
          /\ InvitesHaveRows' /\ InvitedIsPending'
      BY <2>1 DEF IInv, TypeOK, ActiveIsLinked, InvitesAwaitTheirRow, TokensFollowAccess,
                  InvitesHaveRows, InvitedIsPending, PendingOf, LiveTokens, Member, Under, Exists
    <2>3. ASSUME NEW s \in Threads
          PROVE  Linking(req[s])' /\ Current(req[s])'
      BY <2>1, SameState DEF IInv
    <2> QED
      BY <2>2, <2>3 DEF IInv
  <1>2. ASSUME NEW r \in Threads,
               \/ InviteCollaborator(r) \/ ResendInvitation(r)
               \/ AcceptLate(r) \/ AcceptInvitation(r) \/ AcceptRefused(r)
               \/ ChangeRole(r) \/ Deactivate(r) \/ Activate(r) \/ Revoke(r)
        PROVE  IInv'
    BY <1>2, InviteKeeps, ResendKeeps, AcceptLateKeeps, AcceptKeeps, AcceptRefusedKeeps,
       ChangeRoleKeeps, DeactivateKeeps, ActivateKeeps, RevokeKeeps
  <1>3. ASSUME NEW r \in Threads,
               \/ GrantProducer(r) \/ BindAtLogin(r) \/ EnterAsPlatform(r)
               \/ SignIn(r) \/ RefreshToken(r) \/ SignOut(r)
        PROVE  IInv'
    BY <1>3, AccountRowsKeep, TokensKeep
  <1>4. ASSUME NEW r \in Threads, Commit(r) \/ RollBack(r)
        PROVE  IInv'
    BY <1>4, CommitKeeps, RollBackKeeps
  <1>5. CASE SetLimits \/ Lapse
    BY <1>5, SetLimitsKeeps, LapseKeeps
  <1> QED
    BY <1>1, <1>2, <1>3, <1>4, <1>5 DEF Next

LEMMA Invariance == Spec => []IInv
  <1>1. Init => IInv
    BY InitKeeps
  <1>2. IInv /\ [Next]_vars => IInv'
    BY NextKeeps
  <1> QED
    BY <1>1, <1>2, PTL DEF Spec

\* The rows keep the shape of the schema, also when two requests insert the membership of
\* one person.
THEOREM TypeCorrect == Spec => []TypeOK
  <1>1. IInv => TypeOK
    BY DEF IInv
  <1> QED
    BY <1>1, Invariance, PTL

\* However the requests overlap, an ACTIVE membership has the subject of an account.
THEOREM ActiveCanLogIn == Spec => []ActiveIsLinked
  <1>1. IInv => ActiveIsLinked
    BY DEF IInv
  <1> QED
    BY <1>1, Invariance, PTL

\* Until a request commits on a stale read, an open invitation is the only one of a row
\* that waits for it.
THEOREM OpenInvitations == Spec => []InvitesAwaitTheirRow
  <1>1. IInv => InvitesAwaitTheirRow
    BY DEF IInv
  <1> QED
    BY <1>1, Invariance, PTL

\* Until a request commits on a stale read, only members hold refresh tokens.
THEOREM TokensOfMembers == Spec => []TokensFollowAccess
  <1>1. IInv => TokensFollowAccess
    BY DEF IInv
  <1> QED
    BY <1>1, Invariance, PTL

\* Only a commit writes the memberships.
LEMMA OnlyCommitsWrite ==
  ASSUME [Next]_vars
  PROVE  member' = member \/ \E r \in Threads : Commit(r)
  <1>1. ASSUME NEW r \in Threads,
               \/ InviteCollaborator(r) \/ ResendInvitation(r)
               \/ AcceptLate(r) \/ AcceptInvitation(r) \/ AcceptRefused(r)
        PROVE  member' = member
    BY <1>1 DEF InviteCollaborator, ResendInvitation, AcceptLate, AcceptInvitation, AcceptRefused,
                Begin
  <1>2. ASSUME NEW r \in Threads,
               \/ ChangeRole(r) \/ Deactivate(r) \/ Activate(r) \/ Revoke(r)
        PROVE  member' = member
    BY <1>2 DEF ChangeRole, Deactivate, Activate, Revoke, Begin
  <1>3. ASSUME NEW r \in Threads,
               \/ GrantProducer(r) \/ BindAtLogin(r) \/ EnterAsPlatform(r)
               \/ SignIn(r) \/ RefreshToken(r) \/ SignOut(r) \/ RollBack(r)
        PROVE  member' = member
    BY <1>3 DEF GrantProducer, BindAtLogin, EnterAsPlatform, SignIn, RefreshToken, SignOut,
                RollBack, Begin
  <1>4. CASE SetLimits \/ Lapse \/ UNCHANGED vars
    BY <1>4 DEF SetLimits, Lapse, vars
  <1> QED
    BY <1>1, <1>2, <1>3, <1>4 DEF Next

\* A commit decided on current reads writes what was checked.
LEMMA CurrentWrites ==
  ASSUME IInv, NEW r \in Threads, Commit(r), ~req[r].stale, member' # member
  PROVE  \E x \in Keys, w \in Row :
           /\ member' = [member EXCEPT ![x] = w] /\ w = req[r].new /\ Checked(req[r])
           /\ IF Exists(member[x]) THEN req[r].saw = member[x] ELSE req[r].saw = NoRow
           /\ ~raced => Tidy(req[r])
  <1>1. PICK x \in Keys, w \in Row :
          PutsRow(req[r], x, w) /\ member' = [member EXCEPT ![x] = w]
    BY CommitWrites
  <1>2. Checked(req[r]) /\ (~raced => Tidy(req[r]))
    BY DEF IInv, Current, Commit
  <1>3. /\ w = req[r].new
        /\ Exists(member[x]) => req[r].saw = member[x]
        /\ ~Exists(member[x]) => req[r].saw = NoRow
    BY <1>1 DEF PutsRow
  <1> QED
    BY <1>1, <1>2, <1>3

LEMMA CommitEnds ==
  ASSUME IInv, NEW r \in Threads, Commit(r)
  PROVE  Ends(r)
  BY DEF Commit, Ends, Idle, Nothing, IInv, TypeOK

\* Seats are never oversold, but by the binding at login or on a stale read.
THEOREM SeatsAreHeld == Spec => SeatsHeld
  <1> DEFINE A == \A b \in Buckets :
                    Used(member', b) > Used(member, b) /\ limit[b] # NoLimit
                      /\ Used(member', b) > limit[b]
                      => \E r \in Threads : Ends(r) /\ (req[r].stale \/ req[r].op = "bind")
  <1>1. ASSUME IInv, [Next]_vars
        PROVE  A
    <2>1. SUFFICES ASSUME NEW b \in Buckets, Used(member', b) > Used(member, b),
                          limit[b] # NoLimit, Used(member', b) > limit[b]
                   PROVE  \E r \in Threads : Ends(r) /\ (req[r].stale \/ req[r].op = "bind")
      OBVIOUS
    <2>2. Used(member, b) \in Nat /\ Used(member', b) \in Nat /\ limit[b] \in Nat
      <3>1. limit[b] \in Nat \cup {NoLimit}
        BY AccessAssumption, <1>1 DEF IInv, TypeOK
      <3> QED
        BY <2>1, <3>1, SeatsFinite
    <2>3. member' # member
      BY <2>1, <2>2
    <2>4. PICK r \in Threads : Commit(r)
      BY <1>1, <2>3, OnlyCommitsWrite
    <2>5. CASE ~req[r].stale
      <3>1. PICK x \in Keys, w \in Row :
              /\ member' = [member EXCEPT ![x] = w] /\ w = req[r].new /\ Checked(req[r])
              /\ IF Exists(member[x]) THEN req[r].saw = member[x] ELSE req[r].saw = NoRow
        BY <1>1, <2>3, <2>4, <2>5, CurrentWrites
      <3>2. \A k \in Keys : member'[k] = IF k = x THEN w ELSE member[k]
        BY <1>1, <3>1 DEF IInv, TypeOK
      <3>3. Seated(member', b) \subseteq Seated(member, b) \cup {x}
        BY <3>2 DEF Seated
      <3>4. /\ Used(member', b) <= Used(member, b) + 1
            /\ x \in Seated(member', b) /\ x \notin Seated(member, b)
        BY <2>1, <3>3, SeatsFinite, OneMore DEF Used
      <3>5. Sits(req[r].new, b) /\ ~Sits(req[r].saw, b)
        BY <3>1, <3>2, <3>4 DEF Seated, Sits, NoRow, Holds
      <3>6. req[r].op = "bind" \/ Used(member, b) < limit[b]
        BY <2>1, <3>1, <3>5 DEF Checked
      <3> QED
        BY <1>1, <2>1, <2>2, <2>4, <3>4, <3>6, CommitEnds
    <2> QED
      BY <1>1, <2>4, <2>5, CommitEnds
  <1>2. IInv /\ [Next]_vars => [A]_vars
    BY <1>1
  <1> QED
    BY <1>2, Invariance, PTL DEF Spec, SeatsHeld

\* The last active OWNER is let go only by the two paths that do not look, or on a stale
\* read.
THEOREM OwnerIsKept == Spec => OwnerKept
  <1> DEFINE A == Owners(member) # {} /\ Owners(member') = {}
                    => \E r \in Threads :
                         Ends(r) /\ (req[r].stale \/ req[r].op \in {"grant", "enter"})
  <1>1. ASSUME IInv, [Next]_vars
        PROVE  A
    <2>1. SUFFICES ASSUME Owners(member) # {}, Owners(member') = {}
                   PROVE  \E r \in Threads :
                            Ends(r) /\ (req[r].stale \/ req[r].op \in {"grant", "enter"})
      OBVIOUS
    <2>2. member' # member
      BY <2>1
    <2>3. PICK r \in Threads : Commit(r)
      BY <1>1, <2>2, OnlyCommitsWrite
    <2>4. CASE ~req[r].stale
      <3>1. PICK x \in Keys, w \in Row :
              /\ member' = [member EXCEPT ![x] = w] /\ w = req[r].new /\ Checked(req[r])
              /\ IF Exists(member[x]) THEN req[r].saw = member[x] ELSE req[r].saw = NoRow
        BY <1>1, <2>2, <2>3, <2>4, CurrentWrites
      <3>2. \A k \in Keys : member'[k] = IF k = x THEN w ELSE member[k]
        BY <1>1, <3>1 DEF IInv, TypeOK
      <3>3. Owners(member) \subseteq {x} /\ x \in Owners(member)
        BY <2>1, <3>2 DEF Owners
      <3>4. IsOwner(req[r].saw) /\ ~IsOwner(req[r].new)
        BY <2>1, <3>1, <3>2, <3>3 DEF IsOwner, Owners, Exists
      <3>5. req[r].op \in {"grant", "enter"} \/ Cardinality(Owners(member)) > 1
        BY <3>1, <3>4 DEF Checked
      <3>6. Owners(member) \ {x} = {}
        BY <3>3
      <3> QED
        BY <1>1, <2>3, <3>5, <3>6, SeatsFinite, Another, CommitEnds
    <2> QED
      BY <1>1, <2>3, <2>4, CommitEnds
  <1>2. IInv /\ [Next]_vars => [A]_vars
    BY <1>1
  <1> QED
    BY <1>2, Invariance, PTL DEF Spec, OwnerKept

\* Until a request commits on a stale read, an invitation of before lets nobody back in.
THEOREM OldInvitationsAreShut == Spec => OldInvitationsStayShut
  <1> DEFINE A == \A k \in Keys :
                    member[k].status \in {"INACTIVE", "REVOKED"} /\ member'[k].status = "ACTIVE"
                      /\ ~raced'
                      => \E r \in Threads :
                           Ends(r) /\ req[r].op \in {"activate", "grant", "bind", "enter"}
  <1>1. ASSUME IInv, [Next]_vars
        PROVE  A
    <2>1. SUFFICES ASSUME NEW k \in Keys, member[k].status \in {"INACTIVE", "REVOKED"},
                          member'[k].status = "ACTIVE", ~raced'
                   PROVE  \E r \in Threads :
                            Ends(r) /\ req[r].op \in {"activate", "grant", "bind", "enter"}
      OBVIOUS
    <2>2. member' # member
      BY <2>1
    <2>3. PICK r \in Threads : Commit(r)
      BY <1>1, <2>2, OnlyCommitsWrite
    <2>4. ~req[r].stale /\ ~raced
      <3>1. req[r] \in Plan /\ raced \in BOOLEAN /\ raced' = (raced \/ req[r].stale)
        BY <1>1, <2>3 DEF IInv, TypeOK, Commit
      <3> QED
        BY <2>1, <3>1 DEF Plan
    <2>5. PICK x \in Keys, w \in Row :
            /\ member' = [member EXCEPT ![x] = w] /\ w = req[r].new
            /\ IF Exists(member[x]) THEN req[r].saw = member[x] ELSE req[r].saw = NoRow
            /\ Tidy(req[r])
      BY <1>1, <2>2, <2>3, <2>4, CurrentWrites
    <2>6. k = x /\ w.status = "ACTIVE"
      BY <1>1, <2>1, <2>5 DEF IInv, TypeOK
    <2>7. req[r].op \in {"activate", "grant", "bind", "enter"}
      BY <2>1, <2>5, <2>6 DEF Tidy, Exists
    <2> QED
      BY <1>1, <2>3, <2>7, CommitEnds
  <1>2. IInv /\ [Next]_vars => [A]_vars
    BY <1>1
  <1> QED
    BY <1>2, Invariance, PTL DEF Spec, OldInvitationsStayShut
=============================================================================
