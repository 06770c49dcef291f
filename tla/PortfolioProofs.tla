--------------------------- MODULE PortfolioProofs ---------------------------
(***************************************************************************)
(* Theorems about Portfolio, for any number of organizations, policies,    *)
(* producers, requests and days and any commission rules: the type         *)
(* invariant, that a policy never has two producers nor loses the one it   *)
(* has, that every registered policy is followed by a renewal, that the    *)
(* four parts of a split add up to the commission; and, until a request    *)
(* that was overtaken commits, that nothing is derived twice, no number    *)
(* looked up is registered twice, and the producers of a policy follow     *)
(* each other.                                                             *)
(***************************************************************************)
EXTENDS Portfolio, SequenceTheorems, FiniteSetTheorems, WellFoundedInduction, TLAPS

-----------------------------------------------------------------------------
(* Sequences written as functions *)

LEMMA SeqFromFunction ==
  ASSUME NEW S, NEW n \in Nat, NEW f \in [1 .. n -> S]
  PROVE  f \in Seq(S) /\ Len(f) = n
  <1>1. f \in Seq(S)
    BY SeqDef
  <1>2. DOMAIN f = 1 .. n /\ DOMAIN f = 1 .. Len(f) /\ Len(f) \in Nat
    BY <1>1, LenProperties
  <1> QED
    BY <1>1, <1>2

LEMMA AppendFacts ==
  ASSUME NEW S, NEW s \in Seq(S), NEW x \in S
  PROVE  /\ Append(s, x) \in Seq(S) /\ Len(Append(s, x)) = Len(s) + 1
         /\ Len(s) \in Nat /\ DOMAIN s = 1 .. Len(s) /\ DOMAIN Append(s, x) = 1 .. Len(s) + 1
         /\ \A i \in 1 .. Len(s) : Append(s, x)[i] = s[i]
         /\ Append(s, x)[Len(s) + 1] = x
         /\ Append(s, x) # <<>>
  OBVIOUS

-----------------------------------------------------------------------------
(* The rows of a file that are picked, in their order *)

LEMMA LeastOf ==
  ASSUME NEW T \in SUBSET Nat, T # {}
  PROVE  \E m \in T : \A k \in T : m <= k
  <1> DEFINE R == OpToRel(<, Nat)
  <1>1. PICK m \in T : \A k \in T : <<k, m>> \notin R
    BY NatLessThanWellFounded, WFMin
  <1>2. \A k \in T : ~(k < m)
    BY <1>1 DEF OpToRel
  <1> QED
    BY <1>2

LEMMA GreatestOf ==
  ASSUME NEW n \in Nat, NEW T \in SUBSET (1 .. n), T # {}
  PROVE  \E m \in T : \A k \in T : k <= m
  <1> DEFINE U == {j \in Nat : n - j \in T}
  <1>1. U # {}
    <2>1. PICK x \in T : TRUE
      OBVIOUS
    <2>2. n - x \in Nat /\ n - (n - x) = x
      OBVIOUS
    <2> QED
      BY <2>1, <2>2
  <1>2. PICK j \in U : \A k \in U : j <= k
    BY <1>1, LeastOf
  <1>3. \A k \in T : n - k \in U
    <2> TAKE k \in T
    <2> n - k \in Nat /\ n - (n - k) = k
      OBVIOUS
    <2> QED
      OBVIOUS
  <1>4. \A k \in T : k <= n - j
    BY <1>2, <1>3
  <1> QED
    BY <1>2, <1>4

LEMMA NewestIn ==
  ASSUME NEW n \in Nat, NEW T \in SUBSET (1 .. n), T # {}
  PROVE  Newest(T) \in T
  BY GreatestOf DEF Newest

Upto(S, m) == {j \in S : j <= m}

LEMMA UptoFacts ==
  ASSUME NEW n \in Nat, NEW S \in SUBSET (1 .. n)
  PROVE  /\ IsFiniteSet(S) /\ Cardinality(S) \in Nat
         /\ \A m \in Nat : IsFiniteSet(Upto(S, m)) /\ Cardinality(Upto(S, m)) \in Nat
         /\ Upto(S, n) = S /\ Cardinality(Upto(S, 0)) = 0
         /\ \A m \in Nat \ {0} : Upto(S, m) = IF m \in S THEN Upto(S, m - 1) \cup {m} ELSE Upto(S, m - 1)
  <1>1. IsFiniteSet(1 .. n)
    BY FS_Interval, 1 \in Int, n \in Int
  <1>2. IsFiniteSet(S) /\ Cardinality(S) \in Nat
    BY <1>1, FS_Subset, FS_CardinalityType
  <1>3. ASSUME NEW m \in Nat
        PROVE  IsFiniteSet(Upto(S, m)) /\ Cardinality(Upto(S, m)) \in Nat
    <2>1. Upto(S, m) \in SUBSET S
      BY DEF Upto
    <2> QED
      BY <1>2, <2>1, FS_Subset, FS_CardinalityType
  <1>4. Upto(S, n) = S /\ Upto(S, 0) = {}
    <2>1. \A j \in S : j <= n /\ ~(j <= 0)
      OBVIOUS
    <2>2. {j \in S : j <= n} = S /\ {j \in S : j <= 0} = {}
      BY <2>1, Zenon
    <2> QED
      BY <2>2 DEF Upto
  <1>5. Cardinality(Upto(S, 0)) = 0
    BY <1>4, FS_EmptySet
  <1>6. ASSUME NEW m \in Nat \ {0}
        PROVE  Upto(S, m) = IF m \in S THEN Upto(S, m - 1) \cup {m} ELSE Upto(S, m - 1)
    <2>1. \A j \in S : j <= m <=> j <= m - 1 \/ j = m
      OBVIOUS
    <2> QED
      BY <2>1 DEF Upto
  <1> QED
    BY <1>2, <1>3, <1>4, <1>5, <1>6

LEMMA NthIn ==
  ASSUME NEW n \in Nat, NEW S \in SUBSET (1 .. n), NEW k \in 1 .. Cardinality(S)
  PROVE  Nth(S, k) \in S /\ Cardinality(Upto(S, Nth(S, k))) = k
  <1> DEFINE T == {m \in Nat : Cardinality(Upto(S, m)) >= k}
  <1>1. n \in T
    BY UptoFacts
  <1>2. PICK m \in T : \A i \in T : m <= i
    BY <1>1, LeastOf
  <1> DEFINE c == Cardinality(Upto(S, m))
             d == Cardinality(Upto(S, m - 1))
  <1>3. k \in Nat /\ k # 0
    BY UptoFacts
  <1>4. m \in Nat \ {0} /\ c \in Nat /\ c >= k
    <2>1. m \in Nat /\ c >= k
      BY <1>2
    <2>2. c \in Nat
      BY <2>1, UptoFacts
    <2>3. Cardinality(Upto(S, 0)) = 0
      BY UptoFacts
    <2> QED
      BY <1>3, <2>1, <2>2, <2>3
  <1>5. m - 1 \in Nat /\ d \in Nat /\ IsFiniteSet(Upto(S, m - 1))
    <2>1. m - 1 \in Nat
      BY <1>4
    <2> QED
      BY <2>1, UptoFacts
  <1>6. ~(d >= k)
    BY <1>2, <1>5
  <1>7. Upto(S, m) = IF m \in S THEN Upto(S, m - 1) \cup {m} ELSE Upto(S, m - 1)
    BY <1>4, UptoFacts
  <1>8. m \in S
    BY <1>4, <1>6, <1>7
  <1>9. c <= d + 1
    BY <1>5, <1>7, <1>8, FS_AddElement
  <1> HIDE DEF c, d, T
  <1>10. c = k
    BY <1>3, <1>4, <1>5, <1>6, <1>9
  <1> QED
    BY <1>8, <1>10 DEF Nth, Upto, c

-----------------------------------------------------------------------------
(* Rounding *)

LEMMA QuantizedNear ==
  ASSUME NEW n \in Nat
  PROVE  /\ Quantized(n, 100) \in Nat
         /\ 100 * Quantized(n, 100) <= n + 50 /\ n <= 100 * Quantized(n, 100) + 50
  <1> DEFINE q == n \div 100
             r == n % 100
             z == Quantized(n, 100)
  <1>1. q \in Nat /\ r \in 0 .. 99 /\ n = 100 * q + r
    OBVIOUS
  <1>2. z = IF 2 * r > 100 \/ (2 * r = 100 /\ q % 2 = 1) THEN q + 1 ELSE q
    BY DEF Quantized
  <1> HIDE DEF q, r, z
  <1>3. CASE 2 * r > 100 \/ (2 * r = 100 /\ q % 2 = 1)
    <2>1. z = q + 1
      BY <1>2, <1>3
    <2>2. z \in Nat /\ 100 * z <= n + 50 /\ n <= 100 * z + 50
      BY <1>1, <1>3, <2>1
    <2> QED
      BY <2>2 DEF z
  <1>4. CASE ~(2 * r > 100 \/ (2 * r = 100 /\ q % 2 = 1))
    <2>1. z = q
      BY <1>2, <1>4
    <2>2. z \in Nat /\ 100 * z <= n + 50 /\ n <= 100 * z + 50
      BY <1>1, <1>4, <2>1
    <2> QED
      BY <2>2 DEF z
  <1> QED
    BY <1>3, <1>4

\* Each part is within half a cent of its share, so the four are within two cents.
LEMMA SplitNear ==
  ASSUME NEW amount \in Nat, NEW s \in Shares
  PROVE  Split(amount, s) \in Nat /\ Split(amount, s) - amount \in -2 .. 2
  <1>1. /\ s[1] \in Nat /\ s[2] \in Nat /\ s[3] \in Nat /\ s[4] \in Nat
        /\ s[1] + s[2] + s[3] + s[4] = 100
    BY PortfolioAssumption
  <1> DEFINE a1 == amount * s[1]
             a2 == amount * s[2]
             a3 == amount * s[3]
             a4 == amount * s[4]
  <1>2. a1 \in Nat /\ a2 \in Nat /\ a3 \in Nat /\ a4 \in Nat
    BY <1>1
  <1>3. a1 + a2 + a3 + a4 = amount * (s[1] + s[2] + s[3] + s[4])
    BY <1>1
  <1>4. a1 + a2 + a3 + a4 = 100 * amount
    BY <1>1, <1>3
  <1> HIDE DEF a1, a2, a3, a4
  <1> DEFINE q1 == Quantized(a1, 100)
             q2 == Quantized(a2, 100)
             q3 == Quantized(a3, 100)
             q4 == Quantized(a4, 100)
  <1>5. /\ q1 \in Nat /\ 100 * q1 <= a1 + 50 /\ a1 <= 100 * q1 + 50
        /\ q2 \in Nat /\ 100 * q2 <= a2 + 50 /\ a2 <= 100 * q2 + 50
        /\ q3 \in Nat /\ 100 * q3 <= a3 + 50 /\ a3 <= 100 * q3 + 50
        /\ q4 \in Nat /\ 100 * q4 <= a4 + 50 /\ a4 <= 100 * q4 + 50
    BY <1>2, QuantizedNear
  <1>6. Split(amount, s) = q1 + q2 + q3 + q4
    BY DEF Split, a1, a2, a3, a4
  <1> HIDE DEF q1, q2, q3, q4
  <1> QED
    BY <1>2, <1>4, <1>5, <1>6

-----------------------------------------------------------------------------
(* The inductive invariant *)

AnyStatus == Open \cup Closed
Kinds == {"", "policies", "renewal", "quote", "rule", "profile", "assign"}
Marks == {"twice", "reopened", "raced"}
BareOrigins == {"online", "half", "refused"}

RuleChange == {<<>>} \cup ({"rate"} \X Rates) \cup ({"share"} \X Shares)
Payments == {s \in SUBSET (Nat \X Nat) : IsFiniteSet(s)}

Plan == [kind : Kinds, org : Orgs, by : Orgs, new : Seq(Keys), from : Origins,
         people : SUBSET Persons, follow : BOOLEAN, comm : SUBSET Nat, ren : SUBSET Nat,
         entry : Seq(Commission), at : Nat \X Nat, was : AnyStatus \cup {""},
         status : AnyStatus \cup {""}, done : BOOLEAN, ask : Nat, target : Nat,
         who : Producers \cup {None}, open : Nat, day : Day,
         paid : Payments, link : SUBSET Nat,
         profile : SUBSET Producers,
         rule : RuleChange,
         consume : BOOLEAN, taken : BOOLEAN, marks : SUBSET Marks, stale : BOOLEAN]

AddsUp(c) == c.split => c.parts - c.amount \in -2 .. 2

\* A plan completes a renewal only with a new policy, and gives a policy to somebody.
Apt(q) ==
  /\ q.done => q.new # <<>>
  /\ q.target # 0 => q.who \in Producers
  /\ q.at # <<0, 0>> /\ q.status # q.was => q.status \in AnyStatus
  /\ \A i \in DOMAIN q.entry : AddsUp(q.entry[i])

\* It follows up what it registers, unless it is one the property excepts.
Sound(q) ==
  Apt(q) /\ (q.new # <<>> /\ ~q.follow => q.from \in BareOrigins)

IInv ==
  /\ TypeOK /\ AlwaysOneProducer /\ EveryPolicyFollowed /\ SplitsAddUp
  /\ req \in [Threads -> Plan] /\ \A r \in Threads : Sound(req[r])

LEMMA NoPlanSound == NoPlan \in Plan /\ Sound(NoPlan)
  <1>1. IsFiniteSet({})
    BY FS_EmptySet
  <1>2. <<>> \in Seq(Keys) /\ <<>> \in Seq(Commission)
    BY EmptySeq
  <1>3. 1 \in Day
    BY PortfolioAssumption DEF Day
  <1>4. {} \in Payments /\ <<>> \in RuleChange /\ <<0, 0>> \in Nat \X Nat
    BY <1>1 DEF Payments, RuleChange
  <1>5. /\ "hand" \in Origins /\ "" \in Kinds /\ "" \in AnyStatus \cup {""} /\ None \in Producers \cup {None}
        /\ MotherOrg \in Orgs
    BY PortfolioAssumption DEF Origins, Kinds
  <1>6. NoPlan \in Plan
    BY <1>2, <1>3, <1>4, <1>5 DEF NoPlan, Plan
  <1>7. Sound(NoPlan)
    BY <1>1, <1>2 DEF NoPlan, Sound, Apt
  <1> QED
    BY <1>6, <1>7

-----------------------------------------------------------------------------
(* Beginning a request *)

LEMMA EntryFacts ==
  ASSUME rule \in [rate : Rates \cup {None}, share : Shares \cup {None}]
  PROVE  Entry \in Seq(Commission) /\ \A i \in DOMAIN Entry : AddsUp(Entry[i])
  <1>1. CASE rule.rate = None
    BY <1>1, EmptySeq DEF Entry
  <1>2. CASE rule.rate # None
    <2> DEFINE amount == Quantized(Premium * rule.rate, 100)
               c == [amount |-> amount, split |-> rule.share # None,
                     parts |-> IF rule.share = None THEN 0 ELSE Split(amount, rule.share)]
    <2>1. rule.rate \in Nat /\ rule.share \in Shares \cup {None}
      BY <1>2, PortfolioAssumption
    <2>2. Premium * rule.rate \in Nat
      BY <2>1 DEF Premium
    <2>3. amount \in Nat
      BY <2>2, QuantizedNear
    <2> HIDE DEF amount
    <2>4. rule.share # None =>
            Split(amount, rule.share) \in Nat /\ Split(amount, rule.share) - amount \in -2 .. 2
      BY <2>1, <2>3, SplitNear
    <2>5. c \in Commission /\ AddsUp(c)
      BY <2>3, <2>4 DEF Commission, AddsUp
    <2>6. Entry = <<c>>
      BY <1>2 DEF Entry, amount
    <2> HIDE DEF c
    <2> QED
      BY <2>5, <2>6
  <1> QED
    BY <1>1, <1>2

\* What a request materializes is followed up.
LEMMA MaterializeSound ==
  ASSUME TypeOK, NEW q \in Plan, NEW o, NEW status, Apt(q)
  PROVE  Materialize(q, o, status) \in Plan /\ Sound(Materialize(q, o, status))
  <1> DEFINE comm == IF Entry = <<>> THEN {} ELSE Uncommissioned(o)
             ren == Unfollowed(o, status)
             m == [q EXCEPT !.follow = TRUE, !.entry = Entry, !.comm = comm, !.ren = ren]
  <1>1. All \subseteq Nat /\ rule \in [rate : Rates \cup {None}, share : Shares \cup {None}]
    BY DEF All, TypeOK
  <1>2. comm \in SUBSET Nat /\ ren \in SUBSET Nat
    BY <1>1 DEF Uncommissioned, Unfollowed
  <1>3. Materialize(q, o, status) = m
    BY DEF Materialize
  <1> HIDE DEF comm, ren
  <1>4. m \in Plan
    BY <1>1, <1>2, EntryFacts DEF Plan
  <1>5. /\ m.follow = TRUE /\ m.entry = Entry /\ m.new = q.new /\ m.done = q.done /\ m.target = q.target
        /\ m.who = q.who /\ m.at = q.at /\ m.status = q.status /\ m.was = q.was
    BY DEF Plan
  <1> HIDE DEF m
  <1>6. Sound(m)
    BY <1>1, <1>5, EntryFacts DEF Sound, Apt
  <1> QED
    BY <1>3, <1>4, <1>6

\* A request that has read and decided leaves the invariant, if its plan is sound.
LEMMA BeginKeeps ==
  ASSUME IInv, NEW r \in Threads, NEW q \in Plan, Sound(q), Ready(r), Begin(r, q)
  PROVE  IInv'
  <1>1. req' = [req EXCEPT ![r] = q] /\ req' \in [Threads -> Plan]
    BY DEF Begin, IInv
  <1>2. \A s \in Threads : Sound(req'[s])
    BY <1>1 DEF IInv
  <1>3. served' \in 0 .. MaxRequests
    <2>1. served \in 0 .. MaxRequests
      BY DEF IInv, TypeOK
    <2>2. served < MaxRequests /\ served' = served + 1
      BY DEF Ready, Begin
    <2> QED
      BY <2>1, <2>2, PortfolioAssumption
  <1>4. TypeOK'
    BY <1>3 DEF IInv, TypeOK, Begin, All
  <1>5. AlwaysOneProducer' /\ EveryPolicyFollowed' /\ SplitsAddUp'
    BY DEF IInv, Begin, AlwaysOneProducer, EveryPolicyFollowed, SplitsAddUp, All, OpenRows
  <1>6. (\A s \in Threads : Sound(req[s]))'
    BY <1>2 DEF Sound, Apt, AddsUp
  <1> QED
    BY <1>1, <1>4, <1>5, <1>6 DEF IInv

-----------------------------------------------------------------------------
(* Every request that begins has a sound plan *)

\* What the rows a request reads are.
LEMMA Reads ==
  ASSUME IInv
  PROVE  /\ All = 1 .. Len(policy) /\ Len(policy) \in Nat /\ All \subseteq Nat
         /\ profile \subseteq Producers /\ today \in Day
         /\ \A p \in All : \A i \in DOMAIN renewal[p] :
              i \in Nat /\ p \in Nat /\ i # 0 /\ renewal[p][i] \in Renewal
                /\ renewal[p][i].status \in AnyStatus
         /\ \A p \in All : p # 0 /\ producer[p] \in Seq(Primary)
         /\ Len(answers) \in Nat /\ DOMAIN answers = 1 .. Len(answers)
         /\ \A o \in Orgs, w \in Persons : person[o][w] \in Nat
  <1>1. /\ policy \in Seq(Policy) /\ renewal \in Seq(Seq(Renewal)) /\ Len(renewal) = Len(policy)
        /\ producer \in Seq(Seq(Primary)) /\ Len(producer) = Len(policy) /\ answers \in Seq(Nat)
    BY DEF IInv, TypeOK
  <1>2. All = 1 .. Len(policy) /\ Len(policy) \in Nat
    BY <1>1 DEF All
  <1>3. \A p \in All : renewal[p] \in Seq(Renewal) /\ producer[p] \in Seq(Primary)
    BY <1>1, <1>2
  <1>4. \A p \in All : \A i \in DOMAIN renewal[p] : i \in Nat /\ i # 0 /\ renewal[p][i] \in Renewal
    BY <1>3
  <1>5. \A x \in Renewal : x.status \in AnyStatus
    BY DEF Renewal, AnyStatus
  <1>6. profile \subseteq Producers /\ today \in Day /\ \A o \in Orgs, w \in Persons : person[o][w] \in Nat
    BY DEF IInv, TypeOK
  <1> QED
    BY <1>1, <1>2, <1>3, <1>4, <1>5, <1>6

LEMMA RegisterByHandKeeps ==
  ASSUME IInv, NEW r \in Threads, RegisterByHand(r)
  PROVE  IInv'
  <1>1. Ready(r)
    BY DEF RegisterByHand
  <1>2. PICK o \in Orgs, k \in Keys :
          LET q == [NoPlan EXCEPT !.kind = "policies", !.org = o, !.by = o,
                                  !.new = <<k>>, !.from = "hand"]
          IN  \/ Begin(r, Materialize(q, o, Statuses))
              \/ \E p \in All : \E i \in DOMAIN renewal[p] :
                   /\ policy[p].org = o
                   /\ Begin(r, Materialize(Completing(q, p, i), o,
                                           [Statuses EXCEPT ![p][i] = "RENEWED"]))
    BY DEF RegisterByHand
  <1> DEFINE q == [NoPlan EXCEPT !.kind = "policies", !.org = o, !.by = o,
                                 !.new = <<k>>, !.from = "hand"]
  <1>3. <<k>> \in Seq(Keys) /\ <<k>> # <<>>
    OBVIOUS
  <1>4. q \in Plan
    BY <1>3, NoPlanSound DEF Plan, Kinds, Origins
  <1>5. Apt(q)
    BY NoPlanSound DEF Sound, Apt, Plan
  <1> HIDE DEF q
  <1>6. CASE Begin(r, Materialize(q, o, Statuses))
    BY <1>1, <1>4, <1>5, <1>6, MaterializeSound, BeginKeeps DEF IInv
  <1>7. ASSUME NEW p \in All, NEW i \in DOMAIN renewal[p],
               Begin(r, Materialize(Completing(q, p, i), o, [Statuses EXCEPT ![p][i] = "RENEWED"]))
        PROVE  IInv'
    <2>1. Completing(q, p, i) \in Plan
      BY <1>4, Reads DEF Completing, Plan, AnyStatus, Closed
    <2>2. Apt(Completing(q, p, i))
      <3>1. q.new # <<>> /\ q.target = 0
        BY <1>3 DEF q, NoPlan
      <3> DEFINE c == Completing(q, p, i)
      <3>2. /\ c.new = q.new /\ c.target = q.target /\ c.entry = q.entry /\ c.status = "RENEWED"
        BY <1>4 DEF Completing, Plan
      <3>3. "RENEWED" \in AnyStatus
        BY DEF AnyStatus, Closed
      <3> HIDE DEF c
      <3>4. Apt(c)
        BY <1>5, <3>1, <3>2, <3>3 DEF Apt
      <3> QED
        BY <3>4 DEF c
    <2> QED
      BY <1>1, <1>7, <2>1, <2>2, MaterializeSound, BeginKeeps DEF IInv
  <1> QED
    BY <1>2, <1>6, <1>7 DEF q

LEMMA PhotographedSound ==
  ASSUME IInv, NEW o \in Orgs, NEW k \in Keys, NEW w \in Persons, NEW reading \in Readings
  PROVE  Photographed(o, k, w, reading) \in Plan /\ Sound(Photographed(o, k, w, reading))
  <1> DEFINE people == IF person[o][w] = 0 THEN {w} ELSE {}
             q == [NoPlan EXCEPT !.kind = "policies", !.org = o, !.by = o, !.from = "photo",
                                 !.people = people]
             b == [q EXCEPT !.new = <<k>>, !.from = "refused"]
             n == [q EXCEPT !.new = <<k>>, !.taken = TRUE]
  <1>1. people \in SUBSET Persons /\ <<k>> \in Seq(Keys)
    OBVIOUS
  <1>2. Photographed(o, k, w, reading) =
          IF PhotoKnown(o, k) \/ reading = "undated" THEN q
          ELSE IF reading = "refused" THEN b ELSE Materialize(n, o, Statuses)
    BY DEF Photographed
  <1> HIDE DEF people
  <1>3. q \in Plan /\ n \in Plan /\ b \in Plan
    <2>1. {"photo", "refused"} \subseteq Origins
      BY DEF Origins
    <2>2. q \in Plan
      BY <1>1, <2>1, NoPlanSound DEF Plan, Kinds
    <2>3. n \in Plan
      BY <1>1, <2>1, NoPlanSound DEF Plan, Kinds
    <2>4. b \in Plan
      BY <1>1, <2>1, NoPlanSound DEF Plan, Kinds
    <2> QED
      BY <2>2, <2>3, <2>4
  <1>4. Sound(q) /\ Apt(n) /\ Sound(b)
    BY NoPlanSound DEF Sound, Apt, NoPlan, Plan, BareOrigins
  <1> HIDE DEF q, n, b
  <1> QED
    BY <1>2, <1>3, <1>4, MaterializeSound DEF IInv

LEMMA PhotoKeeps ==
  ASSUME IInv, NEW r \in Threads, OneClick(r) \/ ConfirmCapture(r)
  PROVE  IInv'
  <1>1. Ready(r)
    BY DEF OneClick, ConfirmCapture
  <1>2. CASE OneClick(r)
    <2>1. PICK o \in Orgs, k \in Keys, w \in Persons, reading \in Readings :
            Begin(r, [Photographed(o, k, w, reading) EXCEPT !.taken = FALSE])
      BY <1>2 DEF OneClick
    <2> DEFINE q == Photographed(o, k, w, reading)
               t == [q EXCEPT !.taken = FALSE]
    <2>2. q \in Plan /\ Sound(q)
      BY PhotographedSound
    <2> HIDE DEF q
    <2>3. t \in Plan
      BY <2>2 DEF Plan
    <2>4. Sound(t)
      BY <2>2 DEF Plan, Sound, Apt
    <2> QED
      BY <1>1, <2>1, <2>3, <2>4, BeginKeeps DEF q
  <1>3. CASE ConfirmCapture(r)
    <2>1. "clear" \in Readings
      BY DEF Readings
    <2> QED
      BY <1>1, <1>3, <2>1, PhotographedSound, BeginKeeps DEF ConfirmCapture
  <1> QED
    BY <1>2, <1>3

LEMMA IssueOnlineKeeps ==
  ASSUME IInv, NEW r \in Threads, IssueOnline(r)
  PROVE  IInv'
  <1>1. PICK o \in Orgs, k \in Keys, u \in profile \cup {None}, d \in Day :
          Begin(r, [NoPlan EXCEPT !.kind = "policies", !.org = o, !.by = o, !.from = "online",
                                  !.new = <<k>>, !.who = u, !.day = d])
    BY DEF IssueOnline
  <1> DEFINE q == [NoPlan EXCEPT !.kind = "policies", !.org = o, !.by = o, !.from = "online",
                                 !.new = <<k>>, !.who = u, !.day = d]
  <1>2. u \in Producers \cup {None} /\ <<k>> \in Seq(Keys)
    BY Reads
  <1>3. q \in Plan
    BY <1>2, NoPlanSound DEF Plan, Kinds, Origins
  <1>4. Sound(q)
    BY NoPlanSound DEF Sound, Apt, NoPlan, Plan, BareOrigins
  <1> HIDE DEF q
  <1>5. Ready(r)
    BY DEF IssueOnline
  <1> QED
    BY <1>1, <1>3, <1>4, <1>5, BeginKeeps DEF q

-----------------------------------------------------------------------------
(* Imports *)

LEMMA FileFacts ==
  ASSUME IInv, NEW o \in Orgs
  PROVE  \E n \in Nat :
           /\ DOMAIN file = 1 .. n /\ \A i \in DOMAIN file : file[i] \in Row
           /\ FreshRows(o) \in SUBSET (1 .. n)
  <1>1. file \in Rows \cup {<<>>}
    BY DEF IInv, TypeOK
  <1>2. CASE file \in Rows
    <2>1. PICK n \in 1 .. MaxRows : file \in [1 .. n -> Row]
      BY <1>2 DEF Rows
    <2>2. n \in Nat
      BY <2>1
    <2> QED
      BY <2>1, <2>2 DEF FreshRows, Done
  <1>3. CASE file = <<>>
    <2>1. DOMAIN file = 1 .. 0
      BY <1>3
    <2> QED
      BY <2>1 DEF FreshRows, Done
  <1> QED
    BY <1>1, <1>2, <1>3

LEMMA NewKeysType ==
  ASSUME IInv, NEW o \in Orgs
  PROVE  NewKeys(o) \in Seq(Keys)
  <1>1. PICK n \in Nat : /\ DOMAIN file = 1 .. n /\ \A i \in DOMAIN file : file[i] \in Row
                         /\ FreshRows(o) \in SUBSET (1 .. n)
    BY FileFacts
  <1> DEFINE F == FreshRows(o)
             c == Cardinality(F)
  <1>2. c \in Nat
    BY <1>1, UptoFacts
  <1>3. ASSUME NEW k \in 1 .. c
        PROVE  file[Nth(F, k)].key \in Keys
    <2>1. Nth(F, k) \in F
      BY <1>1, NthIn
    <2> QED
      BY <1>1, <2>1 DEF Row
  <1>4. NewKeys(o) = [k \in 1 .. c |-> file[Nth(F, k)].key]
    BY DEF NewKeys
  <1> HIDE DEF F, c
  <1>5. NewKeys(o) \in [1 .. c -> Keys]
    BY <1>3, <1>4
  <1> QED
    BY <1>2, <1>5, SeqFromFunction

LEMMA EmissionsSound ==
  ASSUME IInv, NEW by \in Orgs, NEW o \in Orgs
  PROVE  Emissions(by, o) \in Plan /\ Sound(Emissions(by, o))
  <1> DEFINE keys == NewKeys(o)
             people == NewPeople(o)
             link == Linked(by)
             q == [NoPlan EXCEPT !.kind = "policies", !.org = o, !.by = by, !.from = "import",
                                 !.new = keys, !.people = people]
             h == [q EXCEPT !.from = "half"]
             m == Materialize(q, o, Statuses)
             w == [m EXCEPT !.consume = TRUE, !.link = link]
  <1>1. keys \in Seq(Keys) /\ people \in SUBSET Persons /\ link \in SUBSET Nat
    BY NewKeysType, Reads DEF NewPeople, Linked
  <1>2. Emissions(by, o) = IF Done(o) # DOMAIN file THEN h ELSE w
    BY DEF Emissions
  <1> HIDE DEF keys, people, link
  <1>3. q \in Plan
    BY <1>1, NoPlanSound DEF Plan, Kinds, Origins
  <1>4. Apt(q)
    BY NoPlanSound DEF Sound, Apt, NoPlan, Plan
  <1> HIDE DEF q
  <1>5. h \in Plan /\ Sound(h)
    BY <1>3, <1>4 DEF Plan, Origins, BareOrigins, Sound, Apt
  <1>6. m \in Plan /\ Sound(m)
    BY <1>3, <1>4, MaterializeSound DEF IInv
  <1> HIDE DEF m
  <1>7. w \in Plan /\ Sound(w)
    BY <1>1, <1>6 DEF Plan, Sound, Apt
  <1> HIDE DEF h, w
  <1> QED
    BY <1>2, <1>5, <1>7

LEMMA FilingSound ==
  ASSUME IInv, NEW o \in Orgs
  PROVE  Filing(o) \in Plan /\ Sound(Filing(o))
  <1> DEFINE people == {w \in Persons : person[o][w] = 0 /\ \E i \in DOMAIN file : file[i].who = w}
             q == [NoPlan EXCEPT !.kind = "policies", !.org = o, !.by = o, !.consume = TRUE,
                                 !.people = people]
  <1>1. people \in SUBSET Persons /\ Filing(o) = q
    BY DEF Filing
  <1> HIDE DEF people
  <1>2. q \in Plan
    BY <1>1, NoPlanSound DEF Plan, Kinds
  <1>3. Sound(q)
    BY NoPlanSound DEF Sound, Apt, NoPlan, Plan
  <1> HIDE DEF q
  <1> QED
    BY <1>1, <1>2, <1>3

LEMMA ImportsKeep ==
  ASSUME IInv, NEW r \in Threads,
         ImportEmissions(r) \/ ImportMother(r) \/ ImportClients(r) \/ ImportRoles(r)
  PROVE  IInv'
  <1>1. CASE ImportEmissions(r)
    BY <1>1, EmissionsSound, BeginKeeps DEF ImportEmissions
  <1>2. CASE ImportMother(r)
    BY <1>2, EmissionsSound, BeginKeeps, PortfolioAssumption DEF ImportMother
  <1>3. CASE ImportClients(r)
    BY <1>3, FilingSound, BeginKeeps DEF ImportClients
  <1>4. CASE ImportRoles(r)
    <2>1. PICK o \in Orgs : Begin(r, [Filing(o) EXCEPT !.link = Linked(o)])
      BY <1>4 DEF ImportRoles
    <2> DEFINE f == Filing(o)
               l == Linked(o)
               q == [f EXCEPT !.link = l]
    <2>2. f \in Plan /\ Sound(f) /\ l \in SUBSET Nat
      BY FilingSound, Reads DEF Linked
    <2> HIDE DEF f, l
    <2>3. q \in Plan /\ Sound(q)
      BY <2>2 DEF Plan, Sound, Apt
    <2>4. Ready(r)
      BY <1>4 DEF ImportRoles
    <2> QED
      BY <2>1, <2>3, <2>4, BeginKeeps DEF f, l
  <1> QED
    BY <1>1, <1>2, <1>3, <1>4

LEMMA ImportPaymentsKeeps ==
  ASSUME IInv, NEW r \in Threads, ImportPayments(r)
  PROVE  IInv'
  <1>1. PICK o \in Orgs :
          LET paid == {<<i, Newest(OnFile(o, file[i].key))>> : i \in {j \in DOMAIN file : Payable(o, j)}}
          IN  Begin(r, [NoPlan EXCEPT !.kind = "policies", !.org = o, !.by = o, !.consume = TRUE,
                          !.paid = paid,
                          !.marks = IF \E x, y \in paid : x # y /\ x[2] = y[2] THEN {"twice"} ELSE {}])
    BY DEF ImportPayments
  <1> DEFINE paid == {<<i, Newest(OnFile(o, file[i].key))>> : i \in {j \in DOMAIN file : Payable(o, j)}}
             marks == IF \E x, y \in paid : x # y /\ x[2] = y[2] THEN {"twice"} ELSE {}
             q == [NoPlan EXCEPT !.kind = "policies", !.org = o, !.by = o, !.consume = TRUE,
                                 !.paid = paid, !.marks = marks]
  <1>2. Begin(r, q)
    BY <1>1
  <1>3. PICK n \in Nat : DOMAIN file = 1 .. n
    BY FileFacts
  <1>4. ASSUME NEW i \in DOMAIN file, Payable(o, i)
        PROVE  Newest(OnFile(o, file[i].key)) \in 1 .. Len(policy)
    <2>1. OnFile(o, file[i].key) \in SUBSET (1 .. Len(policy)) /\ OnFile(o, file[i].key) # {}
      BY <1>4, Reads DEF OnFile, Payable
    <2> QED
      BY <2>1, NewestIn, Reads
  <1>5. paid \in SUBSET ((1 .. n) \X (1 .. Len(policy)))
    BY <1>3, <1>4
  <1>6. IsFiniteSet((1 .. n) \X (1 .. Len(policy)))
    BY FS_Interval, FS_Product, Reads, 1 \in Int, n \in Int, Len(policy) \in Int
  <1>7. paid \in Payments
    <2>1. IsFiniteSet(paid)
      BY <1>5, <1>6, FS_Subset
    <2>2. paid \in SUBSET (Nat \X Nat)
      BY <1>5
    <2> QED
      BY <2>1, <2>2 DEF Payments
  <1>8. marks \in SUBSET Marks
    BY DEF Marks
  <1> HIDE DEF paid, marks
  <1>9. q \in Plan
    BY <1>7, <1>8, NoPlanSound DEF Plan, Kinds
  <1>10. Sound(q)
    BY NoPlanSound DEF Sound, Apt, NoPlan, Plan
  <1>11. Ready(r)
    BY DEF ImportPayments
  <1> HIDE DEF q
  <1> QED
    BY <1>2, <1>9, <1>10, <1>11, BeginKeeps

-----------------------------------------------------------------------------
(* Renewals, quotations, rules and producers *)

LEMMA RematerializeKeeps ==
  ASSUME IInv, NEW r \in Threads, Rematerialize(r)
  PROVE  IInv'
  <1>1. PICK o \in Orgs :
          Begin(r, Materialize([NoPlan EXCEPT !.kind = "policies", !.org = o, !.by = o], o, Statuses))
    BY DEF Rematerialize
  <1> DEFINE q == [NoPlan EXCEPT !.kind = "policies", !.org = o, !.by = o]
  <1>2. q \in Plan
    BY NoPlanSound DEF Plan, Kinds
  <1>3. Apt(q)
    BY NoPlanSound DEF Sound, Apt, Plan
  <1>4. Ready(r)
    BY DEF Rematerialize
  <1> HIDE DEF q
  <1> QED
    BY <1>1, <1>2, <1>3, <1>4, MaterializeSound, BeginKeeps DEF IInv, q

\* A plan that writes one renewal.
LEMMA RenewalPlan ==
  ASSUME NEW q \in Plan, q.status \in AnyStatus,
         q.new = NoPlan.new, q.done = NoPlan.done, q.target = NoPlan.target, q.entry = NoPlan.entry
  PROVE  Sound(q)
  <1>1. NoPlan.new = <<>> /\ NoPlan.done = FALSE /\ NoPlan.target = 0
    BY DEF NoPlan
  <1> QED
    BY <1>1, NoPlanSound DEF Sound, Apt

LEMMA RenewalsKeep ==
  ASSUME IInv, NEW r \in Threads, SetStatus(r) \/ SameCarrier(r) \/ Requote(r)
  PROVE  IInv'
  <1>0. Ready(r)
    BY DEF SetStatus, SameCarrier, Requote
  <1>1. CASE SetStatus(r)
    <2>0. PICK p \in All : \E i \in DOMAIN renewal[p], st \in Open \cup Closed :
            Begin(r, [NoPlan EXCEPT !.kind = "renewal", !.at = <<p, i>>,
                        !.was = renewal[p][i].status, !.status = st,
                        !.marks = IF renewal[p][i].status \in Closed /\ st \in Open
                                    THEN {"reopened"} ELSE {}])
      BY <1>1 DEF SetStatus
    <2>1. PICK i \in DOMAIN renewal[p], st \in Open \cup Closed :
            Begin(r, [NoPlan EXCEPT !.kind = "renewal", !.at = <<p, i>>,
                        !.was = renewal[p][i].status, !.status = st,
                        !.marks = IF renewal[p][i].status \in Closed /\ st \in Open
                                    THEN {"reopened"} ELSE {}])
      BY <2>0
    <2> DEFINE marks == IF renewal[p][i].status \in Closed /\ st \in Open THEN {"reopened"} ELSE {}
               q == [NoPlan EXCEPT !.kind = "renewal", !.at = <<p, i>>, !.was = renewal[p][i].status,
                                   !.status = st, !.marks = marks]
    <2>2. marks \in SUBSET Marks /\ st \in AnyStatus
      BY DEF Marks, AnyStatus
    <2> HIDE DEF marks
    <2>3. <<p, i>> \in Nat \X Nat /\ renewal[p][i].status \in AnyStatus
      BY Reads
    <2>4. q \in Plan
      BY <2>2, <2>3, NoPlanSound DEF Plan, Kinds
    <2>5. /\ q.new = NoPlan.new /\ q.done = NoPlan.done /\ q.target = NoPlan.target
          /\ q.entry = NoPlan.entry /\ q.status \in AnyStatus
      BY <2>2 DEF NoPlan
    <2> HIDE DEF q
    <2>6. Sound(q)
      BY <2>4, <2>5, RenewalPlan
    <2> QED
      BY <1>0, <2>1, <2>4, <2>6, BeginKeeps DEF q, marks
  <1>2. CASE SameCarrier(r)
    <2>0. PICK p \in All : \E i \in DOMAIN renewal[p] :
            Begin(r, [NoPlan EXCEPT !.kind = "renewal", !.at = <<p, i>>,
                        !.was = renewal[p][i].status, !.status = "CONTACTED",
                        !.marks = IF renewal[p][i].status \in Closed THEN {"reopened"} ELSE {}])
      BY <1>2 DEF SameCarrier
    <2>1. PICK i \in DOMAIN renewal[p] :
            Begin(r, [NoPlan EXCEPT !.kind = "renewal", !.at = <<p, i>>,
                        !.was = renewal[p][i].status, !.status = "CONTACTED",
                        !.marks = IF renewal[p][i].status \in Closed THEN {"reopened"} ELSE {}])
      BY <2>0
    <2> DEFINE marks == IF renewal[p][i].status \in Closed THEN {"reopened"} ELSE {}
               q == [NoPlan EXCEPT !.kind = "renewal", !.at = <<p, i>>, !.was = renewal[p][i].status,
                                   !.status = "CONTACTED", !.marks = marks]
    <2>2. marks \in SUBSET Marks /\ "CONTACTED" \in AnyStatus
      BY DEF Marks, AnyStatus, Open
    <2> HIDE DEF marks
    <2>3. <<p, i>> \in Nat \X Nat /\ renewal[p][i].status \in AnyStatus
      BY Reads
    <2>4. q \in Plan
      BY <2>2, <2>3, NoPlanSound DEF Plan, Kinds
    <2>5. /\ q.new = NoPlan.new /\ q.done = NoPlan.done /\ q.target = NoPlan.target
          /\ q.entry = NoPlan.entry /\ q.status \in AnyStatus
      BY <2>2 DEF NoPlan
    <2> HIDE DEF q
    <2>6. Sound(q)
      BY <2>4, <2>5, RenewalPlan
    <2> QED
      BY <1>0, <2>1, <2>4, <2>6, BeginKeeps DEF q, marks
  <1>3. CASE Requote(r)
    <2>0. PICK p \in All : \E i \in DOMAIN renewal[p] :
            Begin(r, [NoPlan EXCEPT !.kind = "renewal", !.at = <<p, i>>,
                        !.was = renewal[p][i].status, !.status = "QUOTING", !.ask = Len(answers) + 1,
                        !.marks = IF renewal[p][i].status \in Closed THEN {"reopened"} ELSE {}])
      BY <1>3 DEF Requote
    <2>1. PICK i \in DOMAIN renewal[p] :
            Begin(r, [NoPlan EXCEPT !.kind = "renewal", !.at = <<p, i>>,
                        !.was = renewal[p][i].status, !.status = "QUOTING", !.ask = Len(answers) + 1,
                        !.marks = IF renewal[p][i].status \in Closed THEN {"reopened"} ELSE {}])
      BY <2>0
    <2> DEFINE marks == IF renewal[p][i].status \in Closed THEN {"reopened"} ELSE {}
               a == Len(answers) + 1
               q == [NoPlan EXCEPT !.kind = "renewal", !.at = <<p, i>>, !.was = renewal[p][i].status,
                                   !.status = "QUOTING", !.ask = a, !.marks = marks]
    <2>2. marks \in SUBSET Marks /\ "QUOTING" \in AnyStatus /\ a \in Nat
      BY Reads DEF Marks, AnyStatus, Open
    <2>3. Begin(r, q)
      BY <2>1
    <2> HIDE DEF marks, a
    <2>4. <<p, i>> \in Nat \X Nat /\ renewal[p][i].status \in AnyStatus
      BY Reads
    <2>5. q \in Plan
      BY <2>2, <2>4, NoPlanSound DEF Plan, Kinds
    <2>6. /\ q.new = NoPlan.new /\ q.done = NoPlan.done /\ q.target = NoPlan.target
          /\ q.entry = NoPlan.entry /\ q.status \in AnyStatus
      BY <2>2 DEF NoPlan
    <2> HIDE DEF q
    <2>7. Sound(q)
      BY <2>5, <2>6, RenewalPlan
    <2> QED
      BY <1>0, <2>3, <2>5, <2>7, BeginKeeps
  <1> QED
    BY <1>1, <1>2, <1>3

\* A plan that touches neither policies nor renewals.
LEMMA PlainPlan ==
  ASSUME IInv, NEW r \in Threads, Ready(r), NEW q \in Plan, Begin(r, q),
         q.new = NoPlan.new, q.done = NoPlan.done, q.at = NoPlan.at, q.entry = NoPlan.entry,
         q.target # 0 => q.who \in Producers
  PROVE  IInv'
  <1>1. NoPlan.new = <<>> /\ NoPlan.done = FALSE /\ NoPlan.at = <<0, 0>>
    BY DEF NoPlan
  <1>2. Sound(q)
    BY <1>1, NoPlanSound DEF Sound, Apt
  <1> QED
    BY <1>2, BeginKeeps

LEMMA QuotesKeep ==
  ASSUME IInv, NEW r \in Threads, NewQuote(r) \/ AnswerQuote(r)
  PROVE  IInv'
  <1>0. Len(answers) + 1 \in Nat /\ DOMAIN answers \subseteq Nat
    BY Reads
  <1>1. PICK a \in Nat : Begin(r, [NoPlan EXCEPT !.kind = "quote", !.ask = a])
    <2>1. CASE NewQuote(r)
      BY <1>0, <2>1, Zenon DEF NewQuote
    <2>2. CASE AnswerQuote(r)
      BY <1>0, <2>2, Zenon DEF AnswerQuote
    <2> QED
      BY <2>1, <2>2
  <1> DEFINE q == [NoPlan EXCEPT !.kind = "quote", !.ask = a]
  <1>2. q \in Plan
    BY NoPlanSound DEF Plan, Kinds
  <1>3. /\ q.new = NoPlan.new /\ q.done = NoPlan.done /\ q.at = NoPlan.at /\ q.entry = NoPlan.entry
        /\ q.target = 0
    BY DEF NoPlan
  <1>4. Ready(r)
    BY DEF NewQuote, AnswerQuote
  <1> HIDE DEF q
  <1> QED
    BY <1>1, <1>2, <1>3, <1>4, PlainPlan DEF q

LEMMA RulesKeep ==
  ASSUME IInv, NEW r \in Threads, SaveRates(r) \/ SaveSplit(r)
  PROVE  IInv'
  <1>1. PICK c \in RuleChange : Begin(r, [NoPlan EXCEPT !.kind = "rule", !.rule = c])
    BY DEF SaveRates, SaveSplit, RuleChange
  <1> DEFINE q == [NoPlan EXCEPT !.kind = "rule", !.rule = c]
  <1>2. q \in Plan
    BY NoPlanSound DEF Plan, Kinds
  <1>3. /\ q.new = NoPlan.new /\ q.done = NoPlan.done /\ q.at = NoPlan.at /\ q.entry = NoPlan.entry
        /\ q.target = 0
    BY DEF NoPlan
  <1>4. Ready(r)
    BY DEF SaveRates, SaveSplit
  <1> HIDE DEF q
  <1> QED
    BY <1>1, <1>2, <1>3, <1>4, PlainPlan DEF q

LEMMA ProducersKeep ==
  ASSUME IInv, NEW r \in Threads, CreateProducer(r) \/ ReassignPolicy(r) \/ AssignToProducer(r)
  PROVE  IInv'
  <1>1. Ready(r)
    BY DEF CreateProducer, ReassignPolicy, AssignToProducer
  <1>2. CASE CreateProducer(r)
    <2>1. PICK u \in Producers : Begin(r, [NoPlan EXCEPT !.kind = "profile", !.profile = {u}])
      BY <1>2 DEF CreateProducer
    <2> DEFINE q == [NoPlan EXCEPT !.kind = "profile", !.profile = {u}]
    <2>2. q \in Plan
      BY NoPlanSound DEF Plan, Kinds
    <2>3. /\ q.new = NoPlan.new /\ q.done = NoPlan.done /\ q.at = NoPlan.at /\ q.entry = NoPlan.entry
          /\ q.target = 0
      BY DEF NoPlan
    <2> HIDE DEF q
    <2> QED
      BY <1>1, <2>1, <2>2, <2>3, PlainPlan DEF q
  <1>3. CASE ReassignPolicy(r) \/ AssignToProducer(r)
    <2>1. PICK p \in All, u \in profile : Begin(r, Reassigned(p, u))
      BY <1>3 DEF ReassignPolicy, AssignToProducer
    <2> DEFINE open == IF OpenRows(producer[p]) = {} THEN 0 ELSE CHOOSE i \in OpenRows(producer[p]) : TRUE
               q == [NoPlan EXCEPT !.kind = "assign", !.target = p, !.who = u, !.day = today, !.open = open]
    <2>2. open \in Nat
      <3>1. producer[p] \in Seq(Primary)
        BY Reads
      <3>2. OpenRows(producer[p]) \subseteq Nat
        BY <3>1 DEF OpenRows
      <3> QED
        BY <3>2
    <2>3. u \in Producers /\ today \in Day /\ p \in Nat
      BY Reads
    <2>4. Begin(r, q)
      BY <2>1 DEF Reassigned
    <2> HIDE DEF open
    <2>5. q \in Plan
      BY <2>2, <2>3, NoPlanSound DEF Plan, Kinds
    <2>6. /\ q.new = NoPlan.new /\ q.done = NoPlan.done /\ q.at = NoPlan.at /\ q.entry = NoPlan.entry
          /\ q.who = u
      BY DEF NoPlan
    <2> HIDE DEF q
    <2> QED
      BY <1>1, <2>3, <2>4, <2>5, <2>6, PlainPlan
  <1> QED
    BY <1>2, <1>3

-----------------------------------------------------------------------------
(* Committing *)

\* The sizes a commit moves between.
LEMMA CommitSizes ==
  ASSUME IInv, NEW r \in Threads
  PROVE  /\ req[r] \in Plan /\ Sound(req[r])
         /\ Len(policy) \in Nat /\ Len(req[r].new) \in Nat /\ Len(policy) + Len(req[r].new) \in Nat
         /\ policy \in [1 .. Len(policy) -> Policy]
         /\ commission \in [1 .. Len(policy) -> Seq(Commission)]
         /\ renewal \in [1 .. Len(policy) -> Seq(Renewal)]
         /\ producer \in [1 .. Len(policy) -> Seq(Primary)]
         /\ All = 1 .. Len(policy)
  <1>1. req[r] \in Plan /\ Sound(req[r])
    BY DEF IInv
  <1>2. /\ policy \in Seq(Policy) /\ commission \in Seq(Seq(Commission))
        /\ renewal \in Seq(Seq(Renewal)) /\ producer \in Seq(Seq(Primary))
        /\ Len(policy) = Len(commission) /\ Len(policy) = Len(renewal) /\ Len(policy) = Len(producer)
    BY DEF IInv, TypeOK
  <1>3. req[r].new \in Seq(Keys)
    BY <1>1 DEF Plan
  <1>4. Len(policy) \in Nat /\ policy \in [1 .. Len(policy) -> Policy] /\ All = 1 .. Len(policy)
    BY <1>2, LenProperties DEF All
  <1>5. commission \in [1 .. Len(policy) -> Seq(Commission)]
    BY <1>2, LenProperties
  <1>6. renewal \in [1 .. Len(policy) -> Seq(Renewal)]
    BY <1>2, LenProperties
  <1>7. producer \in [1 .. Len(policy) -> Seq(Primary)]
    BY <1>2, LenProperties
  <1>8. Len(req[r].new) \in Nat
    BY <1>3
  <1> QED
    BY <1>1, <1>4, <1>5, <1>6, <1>7, <1>8

LEMMA CommitPolicies ==
  ASSUME IInv, NEW r \in Threads, Commit(r)
  PROVE  /\ policy' \in Seq(Policy) /\ Len(policy') = Len(policy) + Len(req[r].new)
         /\ \A p \in 1 .. Len(policy) : policy'[p].from = policy[p].from
         /\ \A p \in 1 .. Len(policy) + Len(req[r].new) : p > Len(policy) => policy'[p].from = req[r].from
  <1> DEFINE q == req[r]
             old == Len(policy)
             n == old + Len(q.new)
  <1>1. policy' = [p \in 1 .. n |->
           IF p <= old
             THEN [policy[p] EXCEPT !.paid = @ + Cardinality({x \in q.paid : x[2] = p}),
                                    !.links = IF p \in q.link THEN @ + 1 ELSE @]
             ELSE [org |-> q.org, by |-> q.by, key |-> q.new[p - old], from |-> q.from, paid |-> 0,
                   links |-> IF q.from = "import" /\ q.org = q.by /\ q.follow THEN 1 ELSE 0]]
    BY DEF Commit
  <1>2. /\ q \in Plan /\ old \in Nat /\ n \in Nat /\ Len(q.new) \in Nat
        /\ policy \in [1 .. old -> Policy]
    BY CommitSizes
  <1>3. \A p \in Nat : Cardinality({x \in q.paid : x[2] = p}) \in Nat
    <2>1. IsFiniteSet(q.paid)
      BY <1>2 DEF Plan, Payments
    <2> QED
      BY <2>1, FS_Subset, FS_CardinalityType
  <1> HIDE DEF q, old, n
  <1>4. ASSUME NEW p \in 1 .. n, p <= old
        PROVE  policy'[p] \in Policy /\ policy'[p].from = policy[p].from
    <2>1. policy[p] \in Policy /\ p \in Nat /\ p \in 1 .. old
      BY <1>2, <1>4
    <2> DEFINE c == Cardinality({x \in q.paid : x[2] = p})
    <2>2. c \in Nat
      BY <1>3, <2>1
    <2> DEFINE l == IF p \in q.link THEN policy[p].links + 1 ELSE policy[p].links
               d == policy[p].paid + c
    <2>3. policy'[p] = [policy[p] EXCEPT !.paid = d, !.links = l]
      BY <1>1, <1>4
    <2>4. d \in Nat /\ l \in Nat
      BY <2>1, <2>2 DEF Policy
    <2> HIDE DEF c, d, l
    <2> QED
      BY <2>1, <2>3, <2>4 DEF Policy
  <1>5. ASSUME NEW p \in 1 .. n, ~(p <= old)
        PROVE  policy'[p] \in Policy /\ policy'[p].from = q.from
    <2>1. p - old \in 1 .. Len(q.new)
      BY <1>2, <1>5 DEF n
    <2>2. q.new \in Seq(Keys)
      BY <1>2 DEF Plan
    <2>3. q.new[p - old] \in Keys
      BY <2>1, <2>2, ElementOfSeq
    <2> QED
      BY <1>1, <1>2, <1>5, <2>3 DEF Policy, Plan, Origins
  <1>6. policy' \in [1 .. n -> Policy]
    BY <1>1, <1>4, <1>5
  <1>7. policy' \in Seq(Policy) /\ Len(policy') = n
    BY <1>2, <1>6, SeqFromFunction
  <1>8. \A p \in 1 .. old : p \in 1 .. n /\ p <= old
    BY <1>2 DEF n
  <1>9. \A p \in 1 .. n : p > old => ~(p <= old)
    BY <1>2
  <1> QED
    BY <1>4, <1>5, <1>7, <1>8, <1>9 DEF q, old, n

LEMMA CommitCommissions ==
  ASSUME IInv, NEW r \in Threads, Commit(r)
  PROVE  /\ commission' \in Seq(Seq(Commission)) /\ Len(commission') = Len(policy) + Len(req[r].new)
         /\ \A p \in 1 .. Len(policy) + Len(req[r].new) : \A i \in DOMAIN commission'[p] :
              AddsUp(commission'[p][i])
  <1> DEFINE q == req[r]
             old == Len(policy)
             n == old + Len(q.new)
  <1>1. commission' = [p \in 1 .. n |->
           IF p > old THEN (IF Followed(q) THEN q.entry ELSE <<>>)
           ELSE IF p \in q.comm THEN commission[p] \o q.entry ELSE commission[p]]
    BY DEF Commit
  <1>2. /\ old \in Nat /\ n \in Nat
        /\ commission \in [1 .. old -> Seq(Commission)] /\ All = 1 .. old
    BY CommitSizes
  <1>3. q.entry \in Seq(Commission) /\ \A i \in DOMAIN q.entry : AddsUp(q.entry[i])
    BY CommitSizes DEF Plan, Sound, Apt
  <1>4. \A p \in 1 .. old : \A i \in DOMAIN commission[p] : AddsUp(commission[p][i])
    BY <1>2 DEF IInv, SplitsAddUp, AddsUp
  <1> HIDE DEF q, old, n
  <1>5. ASSUME NEW p \in 1 .. n
        PROVE  /\ commission'[p] \in Seq(Commission)
               /\ \A i \in DOMAIN commission'[p] : AddsUp(commission'[p][i])
    <2>1. CASE p > old
      <3>1. commission'[p] = q.entry \/ commission'[p] = <<>>
        BY <1>1, <2>1
      <3>2. DOMAIN <<>> = {} /\ <<>> \in Seq(Commission)
        BY EmptySeq
      <3> QED
        BY <1>3, <3>1, <3>2
    <2>2. CASE ~(p > old)
      <3>1. p \in 1 .. old
        BY <1>2, <2>2
      <3> DEFINE c == commission[p]
                 e == q.entry
      <3>2. commission'[p] = c \o e \/ commission'[p] = c
        BY <1>1, <2>2
      <3>3. /\ c \in Seq(Commission) /\ e \in Seq(Commission)
            /\ \A i \in DOMAIN c : AddsUp(c[i])
            /\ \A i \in DOMAIN e : AddsUp(e[i])
        BY <1>2, <1>3, <1>4, <3>1
      <3> HIDE DEF c, e
      <3>4. c \o e \in Seq(Commission) /\ \A i \in DOMAIN (c \o e) : AddsUp((c \o e)[i])
        <4>1. /\ c \o e \in Seq(Commission) /\ Len(c \o e) = Len(c) + Len(e)
              /\ Len(c) \in Nat /\ Len(e) \in Nat
          BY <3>3
        <4>2. DOMAIN c = 1 .. Len(c) /\ DOMAIN e = 1 .. Len(e) /\ DOMAIN (c \o e) = 1 .. Len(c) + Len(e)
          BY <3>3, <4>1, LenProperties
        <4>3. ASSUME NEW i \in 1 .. Len(c) + Len(e)
              PROVE  AddsUp((c \o e)[i])
          <5>1. CASE i <= Len(c)
            <6>1. (c \o e)[i] = c[i] /\ i \in DOMAIN c
              BY <3>3, <4>1, <4>2, <5>1
            <6> QED
              BY <6>1, <3>3
          <5>2. CASE ~(i <= Len(c))
            <6>1. (c \o e)[i] = e[i - Len(c)] /\ i - Len(c) \in DOMAIN e
              BY <3>3, <4>1, <4>2, <5>2
            <6> QED
              BY <6>1, <3>3
          <5> QED
            BY <5>1, <5>2
        <4> QED
          BY <4>1, <4>2, <4>3
      <3> QED
        BY <3>2, <3>3, <3>4
    <2> QED
      BY <2>1, <2>2
  <1>6. commission' \in [1 .. n -> Seq(Commission)]
    BY <1>1, <1>5
  <1>7. commission' \in Seq(Seq(Commission)) /\ Len(commission') = n
    BY <1>2, <1>6, SeqFromFunction
  <1> QED
    BY <1>5, <1>7 DEF n, old, q

LEMMA WrittenType ==
  ASSUME NEW row \in Renewal, NEW q \in Plan, q.status # q.was => q.status \in AnyStatus,
         Len(policy) \in Nat
  PROVE  /\ Written(row, q) \in Renewal
         /\ Written(row, q).next = IF q.done THEN Len(policy) + 1 ELSE row.next
  BY DEF Written, Renewal, AnyStatus

LEMMA CommitRenewals ==
  ASSUME IInv, NEW r \in Threads, Commit(r)
  PROVE  /\ renewal' \in Seq(Seq(Renewal)) /\ Len(renewal') = Len(policy) + Len(req[r].new)
         /\ \A p \in 1 .. Len(policy) + Len(req[r].new) :
              /\ \A i \in DOMAIN renewal'[p] : renewal'[p][i].next <= Len(policy) + Len(req[r].new)
              /\ renewal'[p] = <<>> => IF p > Len(policy) THEN ~req[r].follow ELSE renewal[p] = <<>>
  <1> DEFINE q == req[r]
             old == Len(policy)
             n == old + Len(q.new)
             new == [status |-> "UPCOMING", next |-> 0]
             Kept(p) == IF p > old THEN <<>>
                        ELSE IF p = q.at[1] THEN [renewal[p] EXCEPT ![q.at[2]] = Written(@, q)]
                        ELSE renewal[p]
  <1>1. renewal' = [p \in 1 .. n |->
           LET kept == IF p > old THEN <<>>
                       ELSE IF p = q.at[1] THEN [renewal[p] EXCEPT ![q.at[2]] = Written(@, q)]
                       ELSE renewal[p]
           IN  IF p \in q.ren \/ (p > old /\ Followed(q))
                 THEN Append(kept, [status |-> "UPCOMING", next |-> 0]) ELSE kept]
    BY DEF Commit
  <1>2. /\ q \in Plan /\ old \in Nat /\ n \in Nat /\ Len(q.new) \in Nat /\ old <= n
        /\ renewal \in [1 .. old -> Seq(Renewal)] /\ All = 1 .. old
    BY CommitSizes
  <1>3. /\ q.at # <<0, 0>> /\ q.status # q.was => q.status \in AnyStatus
        /\ q.done => q.new # <<>>
    BY CommitSizes DEF Sound, Apt
  <1>4. q.done => old + 1 <= n
    <2>1. q.new \in Seq(Keys)
      BY <1>2 DEF Plan
    <2>2. q.new # <<>> => Len(q.new) # 0
      BY <2>1
    <2> QED
      BY <1>2, <1>3, <2>2
  <1>5. \A p \in 1 .. old : \A i \in DOMAIN renewal[p] : renewal[p][i].next <= old
    BY <1>2 DEF IInv, TypeOK
  <1>6. new \in Renewal /\ new.next = 0
    BY DEF Renewal, Open
  <1> HIDE DEF q, old, n, new
  <1>7. ASSUME NEW p \in 1 .. n
        PROVE  /\ Kept(p) \in Seq(Renewal)
               /\ \A i \in DOMAIN Kept(p) : Kept(p)[i].next <= n
               /\ p <= old /\ Kept(p) = <<>> => renewal[p] = <<>>
    <2>1. CASE p > old
      <3>1. Kept(p) = <<>> /\ DOMAIN <<>> = {}
        BY <2>1
      <3> QED
        BY <1>2, <2>1, <3>1, EmptySeq
    <2>2. CASE ~(p > old)
      <3>1. p \in 1 .. old /\ p # 0
        BY <1>2, <2>2
      <3> DEFINE s == renewal[p]
                 k == q.at[2]
      <3>2. s \in Seq(Renewal) /\ \A i \in DOMAIN s : s[i].next <= n
        <4>1. s \in Seq(Renewal)
          BY <1>2, <3>1
        <4>2. \A i \in DOMAIN s : s[i].next <= old
          BY <1>5, <3>1
        <4> HIDE DEF s
        <4>3. \A i \in DOMAIN s : s[i] \in Renewal
          BY <4>1
        <4>4. \A x \in Renewal : x.next \in Nat
          BY DEF Renewal
        <4> QED
          BY <1>2, <4>1, <4>2, <4>3, <4>4
      <3>3. CASE p # q.at[1]
        BY <2>2, <3>2, <3>3
      <3>4. CASE p = q.at[1] /\ k \in DOMAIN s
        <4>1. q.at # <<0, 0>>
          BY <3>1, <3>4
        <4> DEFINE w == Written(s[k], q)
        <4>2. w \in Renewal /\ w.next <= n
          <5>1. s[k] \in Renewal /\ s[k].next <= n
            BY <3>2, <3>4
          <5> QED
            BY <1>2, <1>3, <1>4, <4>1, <5>1, WrittenType DEF old
        <4>3. Kept(p) = [s EXCEPT ![k] = w]
          BY <2>2, <3>4
        <4> HIDE DEF w, s, k
        <4>4. s \in [1 .. Len(s) -> Renewal] /\ DOMAIN s = 1 .. Len(s) /\ Len(s) \in Nat
          BY <3>2, LenProperties
        <4>5. [s EXCEPT ![k] = w] \in [1 .. Len(s) -> Renewal]
          BY <4>2, <4>4
        <4>6. [s EXCEPT ![k] = w] \in Seq(Renewal) /\ Len([s EXCEPT ![k] = w]) = Len(s)
          BY <4>4, <4>5, SeqFromFunction
        <4>7. \A i \in 1 .. Len(s) : [s EXCEPT ![k] = w][i] = IF i = k THEN w ELSE s[i]
          BY <4>4
        <4>8. \A i \in DOMAIN [s EXCEPT ![k] = w] : [s EXCEPT ![k] = w][i].next <= n
          BY <3>2, <4>2, <4>4, <4>7
        <4>9. [s EXCEPT ![k] = w] # <<>>
          BY <3>4, <4>4, <4>6 DEF s, k
        <4> QED
          BY <4>3, <4>6, <4>8, <4>9
      <3>5. CASE p = q.at[1] /\ k \notin DOMAIN s
        <4>1. Kept(p) = [s EXCEPT ![k] = Written(@, q)]
          BY <2>2, <3>5
        <4> DEFINE w == Written(s[k], q)
        <4>2. [s EXCEPT ![k] = Written(@, q)] = [i \in DOMAIN s |-> IF i = k THEN w ELSE s[i]]
          OBVIOUS
        <4> HIDE DEF w, k
        <4>3. [i \in DOMAIN s |-> IF i = k THEN w ELSE s[i]] = [i \in DOMAIN s |-> s[i]]
          BY <3>5
        <4>4. [i \in DOMAIN s |-> s[i]] = s
          BY <3>2
        <4>5. Kept(p) = s
          BY <4>1, <4>2, <4>3, <4>4 DEF k
        <4> QED
          BY <3>2, <4>5
      <3> QED
        BY <3>3, <3>4, <3>5
    <2> QED
      BY <2>1, <2>2
  <1>8. \A p \in 1 .. n : renewal'[p] = IF p \in q.ren \/ (p > old /\ Followed(q))
                                        THEN Append(Kept(p), new) ELSE Kept(p)
    BY <1>1 DEF new
  <1>9. ASSUME NEW p \in 1 .. n
        PROVE  /\ renewal'[p] \in Seq(Renewal)
               /\ \A i \in DOMAIN renewal'[p] : renewal'[p][i].next <= n
               /\ renewal'[p] = <<>> => IF p > old THEN ~q.follow ELSE renewal[p] = <<>>
    <2> DEFINE s == Kept(p)
    <2>1. s \in Seq(Renewal) /\ \A i \in DOMAIN s : s[i].next <= n
      BY <1>7
    <2>2. renewal'[p] = s \/ renewal'[p] = Append(s, new)
      BY <1>8
    <2>3. p <= old /\ renewal'[p] = <<>> => renewal[p] = <<>>
      <3>1. p <= old /\ s = <<>> => renewal[p] = <<>>
        BY <1>7
      <3> HIDE DEF s
      <3>2. Append(s, new) # <<>>
        BY <1>6, <2>1, AppendFacts
      <3> QED
        BY <2>2, <3>1, <3>2
    <2>4. p > old /\ renewal'[p] = <<>> => ~q.follow
      <3>1. p > old /\ q.follow => renewal'[p] = Append(s, new)
        BY <1>8 DEF Followed
      <3> HIDE DEF s
      <3>2. Append(s, new) # <<>>
        BY <1>6, <2>1, AppendFacts
      <3> QED
        BY <3>1, <3>2
    <2> HIDE DEF s
    <2>5. Append(s, new) \in Seq(Renewal) /\ \A i \in DOMAIN Append(s, new) : Append(s, new)[i].next <= n
      <3>1. /\ Append(s, new) \in Seq(Renewal) /\ DOMAIN s = 1 .. Len(s) /\ Len(s) \in Nat
            /\ DOMAIN Append(s, new) = 1 .. Len(s) + 1
            /\ \A i \in 1 .. Len(s) : Append(s, new)[i] = s[i]
            /\ Append(s, new)[Len(s) + 1] = new
        BY <1>6, <2>1, AppendFacts
      <3>2. \A i \in 1 .. Len(s) + 1 : i \in 1 .. Len(s) \/ i = Len(s) + 1
        BY <3>1
      <3>3. 0 <= n
        BY <1>2
      <3> QED
        BY <1>6, <2>1, <3>1, <3>2, <3>3
    <2>6. renewal'[p] \in Seq(Renewal) /\ \A i \in DOMAIN renewal'[p] : renewal'[p][i].next <= n
      <3>1. CASE renewal'[p] = s
        BY <2>1, <3>1
      <3>2. CASE renewal'[p] = Append(s, new)
        BY <2>5, <3>2
      <3> QED
        BY <2>2, <3>1, <3>2
    <2>7. p > old \/ p <= old
      BY <1>2
    <2> QED
      BY <2>3, <2>4, <2>6, <2>7
  <1>10. renewal' \in [1 .. n -> Seq(Renewal)]
    BY <1>1, <1>9
  <1>11. renewal' \in Seq(Seq(Renewal)) /\ Len(renewal') = n
    BY <1>2, <1>10, SeqFromFunction
  <1> QED
    BY <1>9, <1>11 DEF n, old, q

\* A history with no row, or with one that is open.
Settled(rows) == rows = <<>> \/ \E i : OpenRows(rows) = {i}

LEMMA SettledIsOne ==
  ASSUME NEW rows \in Seq(Primary)
  PROVE  Settled(rows) <=> (rows # <<>> => Cardinality(OpenRows(rows)) = 1)
  <1>1. DOMAIN rows = 1 .. Len(rows) /\ Len(rows) \in Nat
    OBVIOUS
  <1>2. IsFiniteSet(OpenRows(rows))
    <2>1. OpenRows(rows) \in SUBSET (1 .. Len(rows))
      BY <1>1 DEF OpenRows
    <2>2. IsFiniteSet(1 .. Len(rows))
      BY FS_Interval, 1 \in Int, Len(rows) \in Int
    <2> QED
      BY <2>1, <2>2, FS_Subset
  <1> QED
    BY <1>2, FS_Singleton DEF Settled

LEMMA ReplacedSettled ==
  ASSUME NEW rows \in Seq(Primary), Settled(rows), NEW q \in Plan, q.who \in Producers
  PROVE  Replaced(rows, q) \in Seq(Primary) /\ Settled(Replaced(rows, q))
  <1> DEFINE closed == IF q.open = 0 THEN rows ELSE [rows EXCEPT ![q.open].to = q.day]
             new == [who |-> q.who, from |-> q.day, to |-> 0]
  <1>1. rows \in [1 .. Len(rows) -> Primary] /\ Len(rows) \in Nat /\ DOMAIN rows = 1 .. Len(rows)
    BY LenProperties
  <1>2. q.day \in Day /\ q.day # 0
    <2>1. q.day \in Day
      BY DEF Plan
    <2>2. \A d \in Day : d # 0
      BY PortfolioAssumption DEF Day
    <2> QED
      BY <2>1, <2>2
  <1>3. new \in Primary /\ new.to = 0
    BY <1>2 DEF Primary
  <1>4. closed \in [1 .. Len(rows) -> Primary] /\ OpenRows(closed) \subseteq OpenRows(rows)
    <2>1. CASE q.open = 0
      BY <1>1, <2>1
    <2>2. CASE q.open # 0
      <3> DEFINE w(i) == IF i = q.open THEN [rows[i] EXCEPT !.to = q.day] ELSE rows[i]
      <3>1. closed = [i \in 1 .. Len(rows) |-> w(i)]
        BY <1>1, <2>2
      <3>2. \A i \in 1 .. Len(rows) : w(i) \in Primary /\ (w(i).to = 0 => rows[i].to = 0)
        BY <1>1, <1>2 DEF Primary
      <3> HIDE DEF w, closed
      <3>3. closed \in [1 .. Len(rows) -> Primary]
        BY <3>1, <3>2
      <3>4. \A i \in 1 .. Len(rows) : closed[i].to = 0 => rows[i].to = 0
        BY <3>1, <3>2
      <3> QED
        BY <1>1, <3>3, <3>4 DEF OpenRows
    <2> QED
      BY <2>1, <2>2
  <1>5. closed \in Seq(Primary) /\ Len(closed) = Len(rows)
    BY <1>1, <1>4, SeqFromFunction
  <1>6. Replaced(rows, q) = IF OpenRows(closed) # {} THEN closed ELSE Append(closed, new)
    BY DEF Replaced
  <1> HIDE DEF closed, new
  <1>7. CASE OpenRows(closed) # {}
    <2>1. OpenRows(rows) # {}
      BY <1>4, <1>7
    <2>2. rows # <<>>
      BY <2>1 DEF OpenRows
    <2>3. PICK i : OpenRows(rows) = {i}
      BY <2>2 DEF Settled
    <2>4. OpenRows(closed) = {i}
      BY <1>4, <1>7, <2>3
    <2> QED
      BY <1>5, <1>6, <1>7, <2>4 DEF Settled
  <1>8. CASE OpenRows(closed) = {}
    <2> DEFINE s == Append(closed, new)
               n == Len(closed)
    <2>1. /\ s \in Seq(Primary) /\ n \in Nat /\ DOMAIN closed = 1 .. n /\ DOMAIN s = 1 .. n + 1
          /\ \A i \in 1 .. n : s[i] = closed[i]
          /\ s[n + 1] = new
      BY <1>3, <1>5, AppendFacts
    <2>2. \A i \in 1 .. n : closed[i].to # 0
      BY <1>8, <2>1 DEF OpenRows
    <2> HIDE DEF s, n
    <2>3. \A i \in 1 .. n + 1 : s[i].to = 0 <=> i = n + 1
      <3>1. \A i \in 1 .. n + 1 : i \in 1 .. n \/ i = n + 1
        BY <2>1
      <3>2. n + 1 \notin 1 .. n /\ n + 1 \in 1 .. n + 1
        BY <2>1
      <3> QED
        BY <1>3, <2>1, <2>2, <3>1, <3>2
    <2>4. OpenRows(s) = {n + 1}
      <3>1. n + 1 \in 1 .. n + 1
        BY <2>1
      <3> QED
        BY <2>1, <2>3, <3>1 DEF OpenRows
    <2> QED
      BY <1>6, <1>8, <2>1, <2>4 DEF Settled, s
  <1> QED
    BY <1>7, <1>8

LEMMA CommitProducers ==
  ASSUME IInv, NEW r \in Threads, Commit(r)
  PROVE  /\ producer' \in Seq(Seq(Primary)) /\ Len(producer') = Len(policy) + Len(req[r].new)
         /\ \A p \in 1 .. Len(policy) + Len(req[r].new) : Settled(producer'[p])
  <1> DEFINE q == req[r]
             old == Len(policy)
             n == old + Len(q.new)
  <1>1. producer' = [p \in 1 .. n |->
           IF p > old
             THEN (IF q.who = None THEN <<>> ELSE <<[who |-> q.who, from |-> q.day, to |-> 0]>>)
             ELSE IF p = q.target THEN Replaced(producer[p], q) ELSE producer[p]]
    BY DEF Commit
  <1>2. /\ q \in Plan /\ old \in Nat /\ n \in Nat
        /\ producer \in [1 .. old -> Seq(Primary)] /\ All = 1 .. old
    BY CommitSizes
  <1>3. q.target # 0 => q.who \in Producers
    BY CommitSizes DEF Sound, Apt
  <1>4. \A p \in 1 .. old : Settled(producer[p])
    BY <1>2, SettledIsOne DEF IInv, AlwaysOneProducer
  <1> HIDE DEF q, old, n
  <1>5. ASSUME NEW p \in 1 .. n
        PROVE  producer'[p] \in Seq(Primary) /\ Settled(producer'[p])
    <2>1. CASE p > old /\ q.who = None
      <3>1. producer'[p] = <<>>
        BY <1>1, <2>1
      <3> QED
        BY <3>1, EmptySeq DEF Settled
    <2>2. CASE p > old /\ q.who # None
      <3> DEFINE row == [who |-> q.who, from |-> q.day, to |-> 0]
      <3>1. producer'[p] = <<row>>
        BY <1>1, <2>2
      <3>2. row \in Primary /\ row.to = 0
        BY <1>2, <2>2 DEF Plan, Primary
      <3> HIDE DEF row
      <3>3. <<row>> \in Seq(Primary) /\ OpenRows(<<row>>) = {1}
        BY <3>2 DEF OpenRows
      <3> QED
        BY <3>1, <3>3 DEF Settled
    <2>3. CASE ~(p > old)
      <3>1. p \in 1 .. old /\ p # 0
        BY <1>2, <2>3
      <3>2. producer[p] \in Seq(Primary) /\ Settled(producer[p])
        BY <1>2, <1>4, <3>1
      <3>3. producer'[p] = IF p = q.target THEN Replaced(producer[p], q) ELSE producer[p]
        BY <1>1, <2>3
      <3> QED
        BY <1>2, <1>3, <3>1, <3>2, <3>3, ReplacedSettled
    <2> QED
      BY <2>1, <2>2, <2>3
  <1>6. producer' \in [1 .. n -> Seq(Primary)]
    BY <1>1, <1>5
  <1>7. producer' \in Seq(Seq(Primary)) /\ Len(producer') = n
    BY <1>2, <1>6, SeqFromFunction
  <1> QED
    BY <1>5, <1>7 DEF n, old, q

LEMMA CommitRest ==
  ASSUME IInv, NEW r \in Threads, Commit(r)
  PROVE  /\ answers' \in Seq(Nat) /\ person' \in [Orgs -> [Persons -> Nat]]
         /\ profile' \subseteq Producers /\ rule' \in [rate : Rates \cup {None}, share : Shares \cup {None}]
         /\ file' \in Rows \cup {<<>>} /\ capture' \in BOOLEAN /\ today' \in Day /\ served' \in 0 .. MaxRequests
         /\ seen' \subseteq Marks /\ req[r].marks \subseteq seen'  /\ seen \subseteq seen'
         /\ req' \in [Threads -> Plan] /\ \A s \in Threads : Sound(req'[s])
  <1> DEFINE q == req[r]
  <1>1. q \in Plan
    BY CommitSizes
  <1>2. TypeOK
    BY DEF IInv
  <1>3. answers' \in Seq(Nat)
    <2>1. answers' = IF q.ask = 0 THEN answers
                     ELSE IF q.ask \in DOMAIN answers THEN [answers EXCEPT ![q.ask] = @ + 1]
                     ELSE Append(answers, 0)
      BY DEF Commit
    <2>2. answers \in Seq(Nat)
      BY <1>2 DEF TypeOK
    <2> HIDE DEF q
    <2> QED
      BY <2>1, <2>2
  <1>4. person' \in [Orgs -> [Persons -> Nat]]
    <2>1. person' = [person EXCEPT ![q.org] = [w \in Persons |-> IF w \in q.people THEN @[w] + 1 ELSE @[w]]]
      BY DEF Commit
    <2>2. person \in [Orgs -> [Persons -> Nat]] /\ q.org \in Orgs
      BY <1>1, <1>2 DEF TypeOK, Plan
    <2> HIDE DEF q
    <2> QED
      BY <2>1, <2>2
  <1>5. profile' \subseteq Producers
    BY <1>1, <1>2 DEF TypeOK, Commit, Plan
  <1>6. rule' \in [rate : Rates \cup {None}, share : Shares \cup {None}]
    <2>1. rule' = IF q.rule = <<>> THEN rule ELSE [rule EXCEPT ![q.rule[1]] = q.rule[2]]
      BY DEF Commit
    <2>2. rule \in [rate : Rates \cup {None}, share : Shares \cup {None}]
      BY <1>2 DEF TypeOK
    <2>3. q.rule \in RuleChange
      BY <1>1 DEF Plan
    <2> HIDE DEF q
    <2>4. CASE q.rule \in {"rate"} \X Rates
      BY <2>1, <2>2, <2>4
    <2>5. CASE q.rule \in {"share"} \X Shares
      BY <2>1, <2>2, <2>5
    <2>6. CASE q.rule = <<>>
      BY <2>1, <2>2, <2>6
    <2> QED
      BY <2>3, <2>4, <2>5, <2>6 DEF RuleChange
  <1>7. file' \in Rows \cup {<<>>} /\ capture' \in BOOLEAN
    BY <1>2 DEF TypeOK, Commit
  <1>8. today' \in Day /\ served' \in 0 .. MaxRequests
    BY <1>2 DEF TypeOK, Commit
  <1>9. seen' \subseteq Marks /\ req[r].marks \subseteq seen'  /\ seen \subseteq seen'
    <2>1. seen' = seen \cup q.marks \cup (IF q.stale THEN {"raced"} ELSE {})
      BY DEF Commit
    <2>2. seen \subseteq Marks /\ q.marks \subseteq Marks
      BY <1>1, <1>2 DEF TypeOK, Plan, Marks
    <2>3. "raced" \in Marks
      BY DEF Marks
    <2> QED
      BY <2>1, <2>2, <2>3
  <1>10. req' \in [Threads -> Plan] /\ \A s \in Threads : Sound(req'[s])
    <2>1. req' = [s \in Threads |->
                    IF s = r THEN NoPlan ELSE [req[s] EXCEPT !.stale = (req[s].kind # "")]]
      BY DEF Commit
    <2>2. ASSUME NEW s \in Threads
          PROVE  req'[s] \in Plan /\ Sound(req'[s])
      <3>1. CASE s = r
        BY <2>1, <3>1, NoPlanSound
      <3>2. CASE s # r
        <4> DEFINE o == req[s]
                   b == (o.kind # "")
                   t == [o EXCEPT !.stale = b]
        <4>1. o \in Plan /\ Sound(o) /\ b \in BOOLEAN
          BY DEF IInv
        <4>2. req'[s] = t
          BY <2>1, <3>2
        <4> HIDE DEF o, b
        <4>3. t \in Plan /\ Sound(t)
          BY <4>1 DEF Plan, Sound, Apt
        <4> QED
          BY <4>2, <4>3
      <3> QED
        BY <3>1, <3>2
    <2>3. req' \in [Threads -> Plan]
      BY <2>1, <2>2
    <2> QED
      BY <2>2, <2>3
  <1> QED
    BY <1>3, <1>4, <1>5, <1>6, <1>7, <1>8, <1>9, <1>10

LEMMA CommitKeeps ==
  ASSUME IInv, NEW r \in Threads, Commit(r)
  PROVE  IInv'
  <1> DEFINE n == Len(policy) + Len(req[r].new)
  <1>1. n \in Nat /\ Len(policy) \in Nat /\ Len(policy) <= n /\ policy \in Seq(Policy) /\ All = 1 .. Len(policy)
    BY CommitSizes DEF IInv, TypeOK
  <1>2. All' = 1 .. n /\ Len(policy') = n
    BY CommitPolicies DEF All
  <1>3. TypeOK'
    <2>1. seen' \subseteq {"twice", "reopened", "raced"}
      BY CommitRest DEF Marks
    <2>2. \A p \in All' : \A i \in DOMAIN renewal'[p] : renewal'[p][i].next <= Len(policy')
      BY <1>2, CommitRenewals
    <2> QED
      BY <1>2, <2>1, <2>2, CommitPolicies, CommitCommissions, CommitRenewals, CommitProducers, CommitRest
         DEF TypeOK
  <1>4. AlwaysOneProducer'
    <2>1. ASSUME NEW p \in All'
          PROVE  producer'[p] # <<>> => Cardinality(OpenRows(producer'[p])) = 1
      <3>1. Settled(producer'[p]) /\ producer'[p] \in Seq(Primary)
        BY <1>2, CommitProducers
      <3> QED
        BY <3>1, SettledIsOne
    <2> QED
      BY <2>1 DEF AlwaysOneProducer, OpenRows
  <1>5. EveryPolicyFollowed'
    <2>1. ASSUME NEW p \in All', renewal'[p] = <<>>
          PROVE  policy'[p].from \in BareOrigins
      <3>1. p \in 1 .. n
        BY <1>2
      <3>2. IF p > Len(policy) THEN ~req[r].follow ELSE renewal[p] = <<>>
        BY <2>1, <3>1, CommitRenewals
      <3>3. CASE p > Len(policy)
        <4>1. req[r].new \in Seq(Keys)
          BY CommitSizes DEF Plan
        <4>2. Len(req[r].new) # 0
          BY <1>1, <3>1, <3>3
        <4>3. req[r].new # <<>>
          BY <4>1, <4>2
        <4>4. req[r].from \in BareOrigins
          BY <3>2, <3>3, <4>3, CommitSizes DEF Sound
        <4> QED
          BY <3>1, <3>3, <4>4, CommitPolicies, CommitRest
      <3>4. CASE ~(p > Len(policy))
        <4>1. p \in 1 .. Len(policy)
          BY <1>1, <3>1, <3>4
        <4>2. policy[p].from \in BareOrigins
          BY <1>1, <3>2, <3>4, <4>1 DEF IInv, EveryPolicyFollowed, BareOrigins
        <4> QED
          BY <4>1, <4>2, CommitPolicies, CommitRest
      <3> QED
        BY <3>3, <3>4
    <2> QED
      BY <2>1 DEF EveryPolicyFollowed, BareOrigins
  <1>6. SplitsAddUp'
    BY <1>2, CommitCommissions DEF SplitsAddUp, AddsUp
  <1>7. (\A s \in Threads : Sound(req[s]))'
    BY CommitRest DEF Sound, Apt, AddsUp
  <1> QED
    BY <1>3, <1>4, <1>5, <1>6, <1>7, CommitRest DEF IInv

-----------------------------------------------------------------------------
(* The other steps *)

\* A step that commits nothing leaves what the properties speak of as it was.
LEMMA NothingCommitted ==
  ASSUME IInv, UNCHANGED <<policy, commission, renewal, producer, answers, person, profile, rule, seen>>,
         file' \in Rows \cup {<<>>}, capture' \in BOOLEAN, today' \in Day, served' \in 0 .. MaxRequests,
         req' \in [Threads -> Plan], \A r \in Threads : Sound(req'[r])
  PROVE  IInv'
  <1>1. All' = All
    BY DEF All
  <1>2. TypeOK'
    BY <1>1 DEF IInv, TypeOK
  <1>3. AlwaysOneProducer'
    BY <1>1 DEF IInv, AlwaysOneProducer, OpenRows
  <1>4. EveryPolicyFollowed'
    BY <1>1 DEF IInv, EveryPolicyFollowed
  <1>5. SplitsAddUp'
    BY <1>1 DEF IInv, SplitsAddUp
  <1>6. (\A r \in Threads : Sound(req[r]))'
    BY DEF Sound, Apt, AddsUp
  <1> QED
    BY <1>2, <1>3, <1>4, <1>5, <1>6 DEF IInv

LEMMA DieKeeps ==
  ASSUME IInv, NEW r \in Threads, Die(r)
  PROVE  IInv'
  <1>1. req' = [req EXCEPT ![r] = NoPlan]
    BY DEF Die
  <1>2. req' \in [Threads -> Plan] /\ \A s \in Threads : Sound(req'[s])
    BY <1>1, NoPlanSound DEF IInv
  <1>3. file' \in Rows \cup {<<>>} /\ capture' \in BOOLEAN
    BY DEF IInv, TypeOK, Die
  <1>4. today' \in Day /\ served' \in 0 .. MaxRequests
    BY DEF IInv, TypeOK, Die
  <1>5. UNCHANGED <<policy, commission, renewal, producer, answers, person, profile, rule, seen>>
    BY DEF Die
  <1> QED
    BY <1>2, <1>3, <1>4, <1>5, NothingCommitted

LEMMA StagingKeeps ==
  ASSUME IInv, Upload \/ Capture \/ Midnight \/ UNCHANGED vars
  PROVE  IInv'
  <1>1. UNCHANGED <<policy, commission, renewal, producer, answers, person, profile, rule, seen>> /\ req' = req
    BY DEF Upload, Capture, Midnight, vars
  <1>2. file' \in Rows \cup {<<>>} /\ capture' \in BOOLEAN
    BY DEF IInv, TypeOK, Upload, Capture, Midnight, vars
  <1>3. today' \in Day
    BY PortfolioAssumption DEF IInv, TypeOK, Upload, Capture, Midnight, vars, Day
  <1>4. served' \in 0 .. MaxRequests
    BY PortfolioAssumption DEF IInv, TypeOK, Upload, Capture, Midnight, vars
  <1>5. req' \in [Threads -> Plan] /\ \A s \in Threads : Sound(req'[s])
    BY <1>1 DEF IInv
  <1> QED
    BY <1>1, <1>2, <1>3, <1>4, <1>5, NothingCommitted

-----------------------------------------------------------------------------
(* The start *)

LEMMA InitIInv == Init => IInv
  <1> SUFFICES ASSUME Init PROVE IInv
    OBVIOUS
  <1>1. policy \in Seq(Policy) /\ \A p \in All : policy[p].from = "hand"
    <2>1. CASE policy = <<>>
      BY <2>1, EmptySeq DEF All
    <2>2. CASE \E k \in Keys : policy = <<ByHand(k), ByHand(k)>>
      <3>1. PICK k \in Keys : policy = <<ByHand(k), ByHand(k)>>
        BY <2>2
      <3> DEFINE b == ByHand(k)
      <3>2. b \in Policy /\ b.from = "hand"
        BY PortfolioAssumption DEF ByHand, Policy, Origins
      <3> HIDE DEF b
      <3>3. policy = <<b, b>>
        BY <3>1 DEF b
      <3> QED
        BY <3>2, <3>3 DEF All
    <2> QED
      BY <2>1, <2>2 DEF Init
  <1>2. All = 1 .. Len(policy) /\ Len(policy) \in Nat
    BY <1>1, LenProperties DEF All
  <1> DEFINE n == Len(policy)
             first == [status |-> "UPCOMING", next |-> 0]
  <1>3. rule \in [rate : Rates \cup {None}, share : Shares \cup {None}]
    BY DEF Init
  <1>4. Entry \in Seq(Commission) /\ \A i \in DOMAIN Entry : AddsUp(Entry[i])
    BY <1>3, EntryFacts
  <1>5. commission = [p \in 1 .. n |-> Entry] /\ renewal = [p \in 1 .. n |-> <<first>>]
        /\ producer = [p \in 1 .. n |-> <<>>]
    BY <1>2 DEF Init
  <1> HIDE DEF n
  <1>6. first \in Renewal /\ first.next = 0
    BY DEF Renewal, Open
  <1> HIDE DEF first
  <1>7. <<first>> \in Seq(Renewal) /\ DOMAIN <<first>> = {1} /\ <<first>>[1] = first /\ <<first>> # <<>>
    BY <1>6
  <1>8. commission \in Seq(Seq(Commission)) /\ Len(commission) = n
    BY <1>2, <1>4, <1>5, SeqFromFunction DEF n
  <1>9. renewal \in Seq(Seq(Renewal)) /\ Len(renewal) = n
    BY <1>2, <1>5, <1>7, SeqFromFunction DEF n
  <1>10. producer \in Seq(Seq(Primary)) /\ Len(producer) = n
    <2>1. <<>> \in Seq(Primary)
      BY EmptySeq
    <2> QED
      BY <1>2, <1>5, <2>1, SeqFromFunction DEF n
  <1>11. \A p \in All : \A i \in DOMAIN renewal[p] : renewal[p][i].next <= n
    BY <1>2, <1>5, <1>6, <1>7 DEF n
  <1>12. answers \in Seq(Nat) /\ person \in [Orgs -> [Persons -> Nat]] /\ profile \subseteq Producers
    <2>1. answers \in Seq(Nat)
      BY EmptySeq DEF Init
    <2>2. person \in [Orgs -> [Persons -> Nat]]
      BY DEF Init
    <2>3. profile \subseteq Producers
      BY DEF Init
    <2> QED
      BY <2>1, <2>2, <2>3
  <1>13. file \in Rows \cup {<<>>} /\ capture \in BOOLEAN /\ today \in Day /\ served \in 0 .. MaxRequests
         /\ seen = {}
    <2>1. file = <<>> /\ capture = FALSE /\ today = 1 /\ served = 0 /\ seen = {}
      BY DEF Init
    <2>2. 1 \in Day /\ 0 \in 0 .. MaxRequests
      BY PortfolioAssumption DEF Day
    <2> QED
      BY <2>1, <2>2
  <1>14. TypeOK
    BY <1>1, <1>3, <1>8, <1>9, <1>10, <1>11, <1>12, <1>13 DEF TypeOK, n
  <1>15. AlwaysOneProducer
    BY <1>2, <1>5 DEF AlwaysOneProducer, n
  <1>16. EveryPolicyFollowed
    BY <1>2, <1>5, <1>7 DEF EveryPolicyFollowed, n
  <1>17. SplitsAddUp
    <2>1. \A p \in All : commission[p] = Entry
      BY <1>2, <1>5 DEF n
    <2> QED
      BY <1>4, <2>1 DEF SplitsAddUp, AddsUp
  <1>18. req \in [Threads -> Plan] /\ \A r \in Threads : Sound(req[r])
    BY NoPlanSound DEF Init
  <1> QED
    BY <1>14, <1>15, <1>16, <1>17, <1>18 DEF IInv

-----------------------------------------------------------------------------
(* The theorems *)

LEMMA StepIInv == IInv /\ [Next]_vars => IInv'
  <1> SUFFICES ASSUME IInv, [Next]_vars PROVE IInv'
    OBVIOUS
  <1>1. CASE Upload \/ Capture \/ Midnight \/ UNCHANGED vars
    BY <1>1, StagingKeeps
  <1>2. ASSUME NEW r \in Threads, RegisterByHand(r) PROVE IInv'
    BY <1>2, RegisterByHandKeeps
  <1>3. ASSUME NEW r \in Threads, OneClick(r) \/ ConfirmCapture(r) PROVE IInv'
    BY <1>3, PhotoKeeps
  <1>4. ASSUME NEW r \in Threads, IssueOnline(r) PROVE IInv'
    BY <1>4, IssueOnlineKeeps
  <1>5. ASSUME NEW r \in Threads,
               ImportEmissions(r) \/ ImportMother(r) \/ ImportClients(r) \/ ImportRoles(r) PROVE IInv'
    BY <1>5, ImportsKeep
  <1>6. ASSUME NEW r \in Threads, ImportPayments(r) PROVE IInv'
    BY <1>6, ImportPaymentsKeeps
  <1>7. ASSUME NEW r \in Threads, Rematerialize(r) PROVE IInv'
    BY <1>7, RematerializeKeeps
  <1>8. ASSUME NEW r \in Threads, SetStatus(r) \/ SameCarrier(r) \/ Requote(r) PROVE IInv'
    BY <1>8, RenewalsKeep
  <1>9. ASSUME NEW r \in Threads, NewQuote(r) \/ AnswerQuote(r) PROVE IInv'
    BY <1>9, QuotesKeep
  <1>10. ASSUME NEW r \in Threads, SaveRates(r) \/ SaveSplit(r) PROVE IInv'
    BY <1>10, RulesKeep
  <1>11. ASSUME NEW r \in Threads, CreateProducer(r) \/ ReassignPolicy(r) \/ AssignToProducer(r) PROVE IInv'
    BY <1>11, ProducersKeep
  <1>12. ASSUME NEW r \in Threads, Commit(r) PROVE IInv'
    BY <1>12, CommitKeeps
  <1>13. ASSUME NEW r \in Threads, Die(r) PROVE IInv'
    BY <1>13, DieKeeps
  <1> QED
    BY <1>1, <1>2, <1>3, <1>4, <1>5, <1>6, <1>7, <1>8, <1>9, <1>10, <1>11, <1>12, <1>13 DEF Next

LEMMA AlwaysIInv == Spec => []IInv
  BY InitIInv, StepIInv, PTL DEF Spec

\* Policies, commissions, renewals and producers stay parallel and of their types; a
\* completed renewal points at a policy that exists.
THEOREM PortfolioTypeCorrect == Spec => []TypeOK
  <1>1. IInv => TypeOK
    BY DEF IInv
  <1> QED
    BY <1>1, AlwaysIInv, PTL

\* A policy that was given a producer has exactly one from then on, however many
\* reassignments overlap: the second writer's insert meets the unique index
\* (producer_portfolio.assign_policy_primary).
THEOREM OneProducer == Spec => []AlwaysOneProducer
  <1>1. IInv => AlwaysOneProducer
    BY DEF IInv
  <1> QED
    BY <1>1, AlwaysIInv, PTL

\* No policy registered by hand, or by a photograph or a file that went through, is left
\* without a renewal, whatever else is materialized, fails or dies meanwhile
\* (materialize_portfolio.materialize_portfolio, policy_photo_commit.commit_policy_from_draft).
THEOREM PoliciesFollowed == Spec => []EveryPolicyFollowed
  <1>1. IInv => EveryPolicyFollowed
    BY DEF IInv
  <1> QED
    BY <1>1, AlwaysIInv, PTL

\* The four parts of every commission, each rounded half to even, add up to the commission
\* to two cents, for any rates and any four shares that sum to one
\* (materialize_portfolio._ensure_commission).
THEOREM SplitWithinTwoCents == Spec => []SplitsAddUp
  <1>1. IInv => SplitsAddUp
    BY DEF IInv
  <1> QED
    BY <1>1, AlwaysIInv, PTL

-----------------------------------------------------------------------------
(* Requests that are not overtaken *)

\* What a request that has not been overtaken plans fits the rows as they are.
\* It registers a number by photograph, by file or online only if it is not on file.
Registers(q) ==
  /\ q.from = "hand" \/ \A n \in DOMAIN q.new : OnFile(q.org, q.new[n]) = {}
  /\ q.from = "hand" \/ \A m, n \in DOMAIN q.new : q.new[m] = q.new[n] => m = n
  /\ q.new # <<>> /\ q.who # None => q.from = "online"

\* It derives one commission, and one link, of a policy that has none.
Derives(q) ==
  /\ Len(q.entry) <= 1 /\ \A p \in q.comm : commission[p] = <<>>
  /\ \A p \in q.link : policy[p].links = 0

\* It pays a policy that is not paid, and once, or its file is marked.
Pays(q) ==
  /\ \A x \in q.paid : policy[x[2]].paid = 0
  /\ "twice" \in q.marks \/ \A x, y \in q.paid : x[2] = y[2] => x = y

\* It knows the renewal it writes, opens a closed one only by hand, and follows up the
\* policies it leaves without an open renewal.
Follows(q) ==
  /\ q.at # <<0, 0>> =>
       /\ q.at[1] \in All /\ q.at[2] \in DOMAIN renewal[q.at[1]]
       /\ q.was = renewal[q.at[1]][q.at[2]].status
       /\ q.status \in Open => q.was \in Open \/ "reopened" \in q.marks
  /\ \A p \in q.ren : \A i \in DOMAIN renewal[p] :
       IF q.at = <<p, i>> THEN q.status \notin Open ELSE renewal[p][i].status \notin Open

\* It closes the last row of the policy, on a day that is not before the row starts.
Assigns(q) ==
  q.target # 0 =>
    /\ q.target \in All /\ q.open = Len(producer[q.target]) /\ q.day <= today
    /\ q.open > 1 \/ (q.open = 1 /\ policy[q.target].from # "online") =>
         producer[q.target][q.open].from <= q.day

Fresh(q) == Registers(q) /\ Derives(q) /\ Pays(q) /\ Follows(q) /\ Assigns(q)

PlansFresh == \A r \in Threads : req[r].kind # "" /\ ~req[r].stale => Fresh(req[r])

CommissionOnce == \A p \in All : Len(commission[p]) <= 1

LinkOnce == \A p \in All : policy[p].links <= 1

PaidOnce == "twice" \in seen \/ \A p \in All : policy[p].paid <= 1

OpenOnce ==
  "reopened" \in seen \/
    \A p \in All : \A i, j \in DOMAIN renewal[p] :
      renewal[p][i].status \in Open /\ renewal[p][j].status \in Open => i = j

NumbersDiffer ==
  \A p, q \in All :
    p < q /\ policy[p].org = policy[q].org /\ policy[p].key = policy[q].key =>
      policy[q].from = "hand"

\* The rows of a policy are joined and none starts after today, but for the first row of
\* one the public channel dated ahead.
Joined(rows, from, day) ==
  \A i \in 1 .. Len(rows) :
    /\ i < Len(rows) => rows[i].to = rows[i + 1].from
    /\ i > 1 \/ from # "online" =>
         rows[i].from <= day /\ (i < Len(rows) => rows[i].from <= rows[i].to)

AllJoined == \A p \in All : Joined(producer[p], policy[p].from, today)

\* Until a request is overtaken.
Calm ==
  "raced" \in seen \/
    (/\ CommissionOnce /\ LinkOnce /\ PaidOnce /\ OpenOnce /\ NumbersDiffer /\ AllJoined
     /\ PlansFresh)

LEMMA DayType == \A d \in Day : d \in Nat /\ d # 0
  BY PortfolioAssumption DEF Day

LEMMA LessThrough ==
  ASSUME NEW a \in Nat, NEW b \in Nat, NEW c \in Nat, a <= b, b <= c
  PROVE  a <= c
  OBVIOUS

LEMMA PrimaryRow ==
  ASSUME NEW rows \in Seq(Primary), NEW i \in 1 .. Len(rows)
  PROVE  /\ rows[i] \in Primary /\ rows[i].from \in Nat /\ rows[i].from # 0 /\ rows[i].to \in Nat
  <1>1. rows[i] \in Primary
    BY ElementOfSeq
  <1>2. \A d \in Day : d \in Nat /\ d # 0
    BY DayType
  <1>3. rows[i].from \in Day /\ rows[i].to \in Day \cup {0}
    BY <1>1 DEF Primary
  <1> QED
    BY <1>1, <1>2, <1>3

LEMMA JoinedLater ==
  ASSUME NEW rows \in Seq(Primary), NEW from, NEW d \in Nat, NEW e \in Nat, d <= e,
         Joined(rows, from, d)
  PROVE  Joined(rows, from, e)
  <1> SUFFICES ASSUME NEW i \in 1 .. Len(rows)
               PROVE  /\ i < Len(rows) => rows[i].to = rows[i + 1].from
                      /\ i > 1 \/ from # "online" =>
                           rows[i].from <= e /\ (i < Len(rows) => rows[i].from <= rows[i].to)
    BY DEF Joined
  <1>1. /\ i < Len(rows) => rows[i].to = rows[i + 1].from
        /\ i > 1 \/ from # "online" =>
             rows[i].from <= d /\ (i < Len(rows) => rows[i].from <= rows[i].to)
    BY DEF Joined
  <1>2. rows[i].from \in Nat
    BY PrimaryRow
  <1> QED
    BY <1>1, <1>2

\* A step that commits nothing leaves the plans that fit the rows, and adds none
\* that does not.
LEMMA CalmStays ==
  ASSUME IInv, Calm, UNCHANGED <<policy, commission, renewal, producer, seen>>,
         today' \in Day, today <= today',
         req' \in [Threads -> Plan],
         \A r \in Threads : req'[r] = req[r] \/ req'[r].kind = "" \/ "raced" \in seen
                            \/ Fresh(req'[r])
  PROVE  Calm'
  <1>1. CASE "raced" \in seen
    BY <1>1 DEF Calm
  <1>2. CASE "raced" \notin seen
    <2>1. today \in Nat /\ today' \in Nat /\ Day \subseteq Nat
      <3>1. Day \subseteq Nat
        BY DayType
      <3>2. today \in Day
        BY Reads
      <3> QED
        BY <3>1, <3>2
    <2>2. All' = All
      BY DEF All
    <2>3. /\ CommissionOnce /\ LinkOnce /\ PaidOnce /\ OpenOnce /\ NumbersDiffer /\ AllJoined
          /\ PlansFresh
      BY <1>2 DEF Calm
    <2>4. CommissionOnce' /\ LinkOnce' /\ PaidOnce'
      BY <2>2, <2>3 DEF CommissionOnce, LinkOnce, PaidOnce
    <2>5. OpenOnce' /\ NumbersDiffer'
      BY <2>2, <2>3 DEF OpenOnce, NumbersDiffer
    <2>6. AllJoined'
      <3>1. ASSUME NEW p \in All
            PROVE  Joined(producer[p], policy[p].from, today')
        <4>1. Joined(producer[p], policy[p].from, today)
          BY <2>3 DEF AllJoined
        <4>2. producer[p] \in Seq(Primary)
          BY Reads
        <4> QED
          BY <2>1, <4>1, <4>2, JoinedLater
      <3> QED
        BY <2>2, <3>1 DEF AllJoined, Joined
    <2>7. ASSUME NEW q \in Plan, Fresh(q)
          PROVE  Fresh(q)'
      <3>1. Registers(q)' /\ Derives(q)' /\ Pays(q)' /\ Follows(q)'
        BY <2>2, <2>7 DEF Fresh, Registers, Derives, Pays, Follows, OnFile
      <3>2. q.day \in Nat
        BY <2>1, <2>7 DEF Plan
      <3>3. Assigns(q)
        BY <2>7 DEF Fresh
      <3>4. q.day <= today => q.day <= today'
        BY <2>1, <3>2, LessThrough
      <3>5. Assigns(q)'
        BY <2>2, <3>3, <3>4 DEF Assigns
      <3> QED
        BY <3>1, <3>5 DEF Fresh
    <2>8. PlansFresh'
      <3> SUFFICES ASSUME NEW r \in Threads
                   PROVE  (req[r].kind # "" /\ ~req[r].stale => Fresh(req[r]))'
        BY DEF PlansFresh
      <3>1. req'[r].kind # "" /\ ~req'[r].stale => Fresh(req'[r])
        BY <1>2, <2>3 DEF PlansFresh
      <3>2. PICK q \in Plan : q = req'[r]
        OBVIOUS
      <3>3. q.kind # "" /\ ~q.stale => Fresh(q)
        BY <3>1, <3>2
      <3>4. q.kind # "" /\ ~q.stale => Fresh(q)'
        BY <2>7, <3>3
      <3> QED
        BY <3>2, <3>4 DEF Fresh, Registers, Derives, Pays, Follows, Assigns, OnFile
    <2> QED
      BY <2>3, <2>4, <2>5, <2>6, <2>8 DEF Calm
  <1> QED
    BY <1>1, <1>2

\* A request that begins with a plan that fits the rows.
LEMMA BeginCalm ==
  ASSUME IInv, IInv', Calm, NEW r \in Threads, NEW q, Begin(r, q), "raced" \in seen \/ Fresh(q)
  PROVE  Calm'
  <1>1. UNCHANGED <<policy, commission, renewal, producer, seen>> /\ today' = today
    BY DEF Begin
  <1>2. today' \in Day /\ today <= today'
    <2>1. today \in Day
      BY Reads
    <2> QED
      BY <1>1, <2>1, DayType
  <1>3. req' \in [Threads -> Plan]
    BY DEF IInv
  <1>4. req' = [req EXCEPT ![r] = q] /\ req \in [Threads -> Plan]
    BY DEF Begin, IInv
  <1>5. \A s \in Threads : req'[s] = req[s] \/ req'[s] = q
    BY <1>4
  <1> QED
    BY <1>1, <1>2, <1>3, <1>5, CalmStays

LEMMA FreshWithout ==
  ASSUME NEW q
  PROVE  /\ q.new = <<>> => Registers(q)
         /\ q.entry = <<>> /\ q.comm = {} /\ q.link = {} => Derives(q)
         /\ q.paid = {} => Pays(q)
         /\ q.at = <<0, 0>> /\ q.ren = {} => Follows(q)
         /\ q.target = 0 => Assigns(q)
  <1>1. DOMAIN <<>> = {} /\ Len(<<>>) = 0 /\ Len(<<>>) <= 1
    OBVIOUS
  <1>2. q.new = <<>> => Registers(q)
    BY <1>1 DEF Registers
  <1>3. q.entry = <<>> /\ q.comm = {} /\ q.link = {} => Derives(q)
    BY <1>1 DEF Derives
  <1>4. q.paid = {} => Pays(q)
    BY DEF Pays
  <1>5. q.at = <<0, 0>> /\ q.ren = {} => Follows(q)
    BY DEF Follows
  <1>6. q.target = 0 => Assigns(q)
    BY DEF Assigns
  <1> QED
    BY <1>2, <1>3, <1>4, <1>5, <1>6

\* What materialize_portfolio derives is missing, in what the request sees.
LEMMA MaterializeFresh ==
  ASSUME NEW q \in Plan, NEW o, NEW status,
         Registers(q), Pays(q), Follows(q), Assigns(q), q.link = {},
         \A p \in All : \A i \in DOMAIN renewal[p] :
           status[p][i] = IF q.at = <<p, i>> THEN q.status ELSE renewal[p][i].status
  PROVE  Fresh(Materialize(q, o, status))
  <1> DEFINE comm == IF Entry = <<>> THEN {} ELSE Uncommissioned(o)
             ren == Unfollowed(o, status)
             m == [q EXCEPT !.follow = TRUE, !.entry = Entry, !.comm = comm, !.ren = ren]
  <1>1. \A p \in comm : commission[p] = <<>>
    BY DEF Uncommissioned
  <1>2. \A p \in ren : \A i \in DOMAIN renewal[p] :
          IF q.at = <<p, i>> THEN q.status \notin Open ELSE renewal[p][i].status \notin Open
    BY DEF Unfollowed
  <1>3. Len(Entry) <= 1
    BY DEF Entry
  <1>4. Materialize(q, o, status) = m
    BY DEF Materialize
  <1> HIDE DEF comm, ren
  <1>5. /\ m.entry = Entry /\ m.comm = comm /\ m.ren = ren /\ m.link = {}
        /\ m.new = q.new /\ m.from = q.from /\ m.who = q.who /\ m.org = q.org
        /\ m.paid = q.paid /\ m.marks = q.marks /\ m.at = q.at /\ m.was = q.was
        /\ m.status = q.status /\ m.target = q.target /\ m.open = q.open /\ m.day = q.day
    BY DEF Plan
  <1> HIDE DEF m
  <1>6. Registers(m) /\ Pays(m) /\ Assigns(m)
    BY <1>5 DEF Registers, Pays, Assigns
  <1>7. Derives(m)
    BY <1>1, <1>3, <1>5 DEF Derives
  <1>8. Follows(m)
    BY <1>2, <1>5 DEF Follows
  <1> QED
    BY <1>4, <1>6, <1>7, <1>8 DEF Fresh

\* The statuses on file are what a request that writes no renewal sees.
LEMMA StatusesSeen ==
  ASSUME NEW q, q.at = <<0, 0>>, IInv
  PROVE  \A p \in All : \A i \in DOMAIN renewal[p] :
           Statuses[p][i] = IF q.at = <<p, i>> THEN q.status ELSE renewal[p][i].status
  <1>1. \A p \in All : p # 0
    BY Reads
  <1> QED
    BY <1>1 DEF Statuses

LEMMA RegisterByHandCalm ==
  ASSUME IInv, IInv', Calm, NEW r \in Threads, RegisterByHand(r)
  PROVE  Calm'
  <1>1. PICK o \in Orgs, k \in Keys :
          LET q == [NoPlan EXCEPT !.kind = "policies", !.org = o, !.by = o,
                                  !.new = <<k>>, !.from = "hand"]
          IN  \/ Begin(r, Materialize(q, o, Statuses))
              \/ \E p \in All : \E i \in DOMAIN renewal[p] :
                   /\ policy[p].org = o
                   /\ Begin(r, Materialize(Completing(q, p, i), o,
                                           [Statuses EXCEPT ![p][i] = "RENEWED"]))
    BY DEF RegisterByHand
  <1> DEFINE q == [NoPlan EXCEPT !.kind = "policies", !.org = o, !.by = o,
                                 !.new = <<k>>, !.from = "hand"]
  <1>2. <<k>> \in Seq(Keys)
    OBVIOUS
  <1>3. q \in Plan
    BY <1>2, NoPlanSound DEF Plan, Kinds, Origins
  <1>4. /\ q.from = "hand" /\ q.who = None /\ q.link = {} /\ q.paid = {} /\ q.at = <<0, 0>>
        /\ q.ren = {} /\ q.target = 0
    BY DEF NoPlan
  <1> HIDE DEF q
  <1>5. Registers(q) /\ Pays(q) /\ Follows(q) /\ Assigns(q)
    BY <1>4, FreshWithout DEF Registers
  <1>6. CASE Begin(r, Materialize(q, o, Statuses))
    <2>1. Fresh(Materialize(q, o, Statuses))
      BY <1>3, <1>4, <1>5, StatusesSeen, MaterializeFresh
    <2> QED
      BY <1>6, <2>1, BeginCalm
  <1>7. ASSUME NEW p \in All, NEW i \in DOMAIN renewal[p],
               Begin(r, Materialize(Completing(q, p, i), o, [Statuses EXCEPT ![p][i] = "RENEWED"]))
        PROVE  Calm'
    <2> DEFINE c == Completing(q, p, i)
               status == [Statuses EXCEPT ![p][i] = "RENEWED"]
    <2>1. c \in Plan
      BY <1>3, Reads DEF Completing, Plan, AnyStatus, Closed
    <2>2. /\ c.at = <<p, i>> /\ c.was = renewal[p][i].status /\ c.status = "RENEWED"
          /\ c.new = q.new /\ c.from = q.from /\ c.org = q.org /\ c.who = q.who
          /\ c.paid = q.paid /\ c.link = q.link /\ c.target = q.target /\ c.ren = q.ren
      BY <1>3 DEF Completing, Plan
    <2>3. "RENEWED" \notin Open
      BY DEF Open
    <2>4. \A x \in All : \A j \in DOMAIN renewal[x] :
            status[x][j] = IF <<p, i>> = <<x, j>> THEN "RENEWED" ELSE renewal[x][j].status
      BY DEF Statuses
    <2> HIDE DEF c, status
    <2>5. Registers(c) /\ Pays(c) /\ Assigns(c)
      BY <1>4, <2>2, FreshWithout DEF Registers
    <2>6. Follows(c)
      BY <1>4, <2>2, <2>3 DEF Follows
    <2>7. Fresh(Materialize(c, o, status))
      BY <1>4, <2>1, <2>2, <2>4, <2>5, <2>6, MaterializeFresh
    <2> QED
      BY <1>7, <2>7, BeginCalm DEF c, status
  <1> QED
    BY <1>1, <1>6, <1>7 DEF q

\* A photograph registers a number only after looking it up.
LEMMA PhotographedFresh ==
  ASSUME IInv, NEW o \in Orgs, NEW k \in Keys, NEW w \in Persons, NEW reading \in Readings
  PROVE  Fresh(Photographed(o, k, w, reading))
  <1> DEFINE people == IF person[o][w] = 0 THEN {w} ELSE {}
             q == [NoPlan EXCEPT !.kind = "policies", !.org = o, !.by = o, !.from = "photo",
                                 !.people = people]
             b == [q EXCEPT !.new = <<k>>, !.from = "refused"]
             n == [q EXCEPT !.new = <<k>>, !.taken = TRUE]
  <1>1. people \in SUBSET Persons /\ <<k>> \in Seq(Keys)
    OBVIOUS
  <1>2. Photographed(o, k, w, reading) =
          IF PhotoKnown(o, k) \/ reading = "undated" THEN q
          ELSE IF reading = "refused" THEN b ELSE Materialize(n, o, Statuses)
    BY DEF Photographed
  <1> HIDE DEF people
  <1>3. n \in Plan
    BY <1>1, NoPlanSound DEF Plan, Kinds, Origins
  <1>4. /\ q.new = <<>> /\ q.entry = <<>> /\ q.comm = {} /\ q.link = {} /\ q.paid = {}
        /\ q.at = <<0, 0>> /\ q.ren = {} /\ q.target = 0
    BY DEF NoPlan
  <1>5. /\ n.new = <<k>> /\ n.org = o /\ n.who = None /\ n.link = {} /\ n.paid = {}
        /\ n.at = <<0, 0>> /\ n.ren = {} /\ n.target = 0
    BY DEF NoPlan
  <1>10. /\ b.new = <<k>> /\ b.org = o /\ b.who = None /\ b.entry = <<>> /\ b.comm = {} /\ b.link = {}
         /\ b.paid = {} /\ b.at = <<0, 0>> /\ b.ren = {} /\ b.target = 0
    BY DEF NoPlan
  <1> HIDE DEF q, n, b
  <1>6. Fresh(q)
    BY <1>4, FreshWithout DEF Fresh
  <1>11. ~PhotoKnown(o, k) => Fresh(b)
    <2>1. DOMAIN <<k>> = {1} /\ <<k>>[1] = k
      OBVIOUS
    <2>2. ~PhotoKnown(o, k) => Registers(b)
      BY <1>10, <2>1 DEF PhotoKnown, Registers
    <2> QED
      BY <1>10, <2>2, FreshWithout DEF Fresh
  <1>7. ~PhotoKnown(o, k) => Registers(n)
    <2>1. DOMAIN <<k>> = {1} /\ <<k>>[1] = k
      OBVIOUS
    <2> QED
      BY <1>5, <2>1 DEF PhotoKnown, Registers
  <1>8. Pays(n) /\ Follows(n) /\ Assigns(n)
    BY <1>5, FreshWithout
  <1>9. ~PhotoKnown(o, k) => Fresh(Materialize(n, o, Statuses))
    BY <1>3, <1>5, <1>7, <1>8, StatusesSeen, MaterializeFresh
  <1> QED
    BY <1>2, <1>6, <1>9, <1>11

LEMMA PhotoCalm ==
  ASSUME IInv, IInv', Calm, NEW r \in Threads, OneClick(r) \/ ConfirmCapture(r)
  PROVE  Calm'
  <1>1. CASE OneClick(r)
    <2>1. PICK o \in Orgs, k \in Keys, w \in Persons, reading \in Readings :
            Begin(r, [Photographed(o, k, w, reading) EXCEPT !.taken = FALSE])
      BY <1>1 DEF OneClick
    <2> DEFINE q == Photographed(o, k, w, reading)
               t == [q EXCEPT !.taken = FALSE]
    <2>2. q \in Plan /\ Fresh(q)
      BY PhotographedSound, PhotographedFresh
    <2> HIDE DEF q
    <2>3. /\ t.new = q.new /\ t.from = q.from /\ t.who = q.who /\ t.org = q.org
          /\ t.entry = q.entry /\ t.comm = q.comm /\ t.link = q.link
          /\ t.paid = q.paid /\ t.marks = q.marks /\ t.at = q.at /\ t.was = q.was
          /\ t.status = q.status /\ t.ren = q.ren /\ t.target = q.target /\ t.open = q.open /\ t.day = q.day
      BY <2>2 DEF Plan
    <2> HIDE DEF t
    <2>4. Fresh(t)
      BY <2>2, <2>3 DEF Fresh, Registers, Derives, Pays, Follows, Assigns
    <2> QED
      BY <2>1, <2>4, BeginCalm DEF q, t
  <1>2. CASE ConfirmCapture(r)
    <2>1. PICK o \in Orgs, k \in Keys, w \in Persons : Begin(r, Photographed(o, k, w, "clear"))
      BY <1>2 DEF ConfirmCapture
    <2>2. "clear" \in Readings
      BY DEF Readings
    <2>3. Fresh(Photographed(o, k, w, "clear"))
      BY <2>2, PhotographedFresh
    <2> QED
      BY <2>1, <2>3, BeginCalm
  <1> QED
    BY <1>1, <1>2

LEMMA IssueOnlineCalm ==
  ASSUME IInv, IInv', Calm, NEW r \in Threads, IssueOnline(r)
  PROVE  Calm'
  <1>1. PICK o \in Orgs, k \in Keys, u \in profile \cup {None}, d \in Day :
          /\ OnFile(o, k) = {}
          /\ Begin(r, [NoPlan EXCEPT !.kind = "policies", !.org = o, !.by = o, !.from = "online",
                                     !.new = <<k>>, !.who = u, !.day = d])
    BY DEF IssueOnline
  <1> DEFINE q == [NoPlan EXCEPT !.kind = "policies", !.org = o, !.by = o, !.from = "online",
                                 !.new = <<k>>, !.who = u, !.day = d]
  <1>2. /\ q.new = <<k>> /\ q.org = o /\ q.from = "online" /\ q.entry = <<>> /\ q.comm = {}
        /\ q.link = {} /\ q.paid = {} /\ q.at = <<0, 0>> /\ q.ren = {} /\ q.target = 0
    BY DEF NoPlan
  <1> HIDE DEF q
  <1>3. Registers(q)
    <2>1. DOMAIN <<k>> = {1} /\ <<k>>[1] = k
      OBVIOUS
    <2> QED
      BY <1>1, <1>2, <2>1 DEF Registers
  <1>4. Fresh(q)
    BY <1>2, <1>3, FreshWithout DEF Fresh
  <1> QED
    BY <1>1, <1>4, BeginCalm DEF q

\* The rows of a file whose number is new are of different numbers.
LEMMA NewKeysFresh ==
  ASSUME IInv, NEW o \in Orgs
  PROVE  /\ \A n \in DOMAIN NewKeys(o) : OnFile(o, NewKeys(o)[n]) = {}
         /\ \A m, n \in DOMAIN NewKeys(o) : NewKeys(o)[m] = NewKeys(o)[n] => m = n
  <1>1. PICK n \in Nat : DOMAIN file = 1 .. n /\ FreshRows(o) \in SUBSET (1 .. n)
    BY FileFacts
  <1> DEFINE F == FreshRows(o)
             c == Cardinality(F)
  <1>2. DOMAIN NewKeys(o) = 1 .. c /\ \A k \in 1 .. c : NewKeys(o)[k] = file[Nth(F, k)].key
    BY DEF NewKeys
  <1>3. \A k \in 1 .. c : Nth(F, k) \in F /\ Cardinality(Upto(F, Nth(F, k))) = k
    BY <1>1, NthIn
  <1>4. \A i \in F : /\ i \in 1 .. n /\ file[i].issued /\ OnFile(o, file[i].key) = {}
                     /\ \A j \in 1 .. i - 1 : file[j].issued => file[j].key # file[i].key
    BY <1>1 DEF FreshRows
  <1>5. ASSUME NEW i \in F, NEW j \in F, file[i].key = file[j].key
        PROVE  i = j
    <2>1. i \in 1 .. n /\ j \in 1 .. n
      BY <1>4
    <2>2. ~(i < j)
      <3>1. i < j => i \in 1 .. j - 1
        BY <2>1
      <3> QED
        BY <1>4, <1>5, <3>1
    <2>3. ~(j < i)
      <3>1. j < i => j \in 1 .. i - 1
        BY <2>1
      <3> QED
        BY <1>4, <1>5, <3>1
    <2> QED
      BY <2>1, <2>2, <2>3
  <1> HIDE DEF F, c
  <1>6. \A k \in 1 .. c : OnFile(o, NewKeys(o)[k]) = {}
    BY <1>2, <1>3, <1>4
  <1>7. \A k, l \in 1 .. c : NewKeys(o)[k] = NewKeys(o)[l] => k = l
    <2> TAKE k, l \in 1 .. c
    <2> HAVE NewKeys(o)[k] = NewKeys(o)[l]
    <2>1. Nth(F, k) = Nth(F, l)
      BY <1>2, <1>3, <1>5
    <2> QED
      BY <1>3, <2>1
  <1> QED
    BY <1>2, <1>6, <1>7

\* Links given to policies that have none.
LEMMA LinkedFresh ==
  ASSUME NEW q \in Plan, Fresh(q), NEW link, NEW consume, \A p \in link : policy[p].links = 0
  PROVE  Fresh([q EXCEPT !.consume = consume, !.link = link])
  <1> DEFINE t == [q EXCEPT !.consume = consume, !.link = link]
  <1>1. /\ t.new = q.new /\ t.from = q.from /\ t.who = q.who /\ t.org = q.org
        /\ t.entry = q.entry /\ t.comm = q.comm /\ t.link = link
        /\ t.paid = q.paid /\ t.marks = q.marks /\ t.at = q.at /\ t.was = q.was
        /\ t.status = q.status /\ t.ren = q.ren /\ t.target = q.target /\ t.open = q.open /\ t.day = q.day
    BY DEF Plan
  <1> HIDE DEF t
  <1>2. Fresh(t)
    BY <1>1 DEF Fresh, Registers, Derives, Pays, Follows, Assigns
  <1> QED
    BY <1>2 DEF t

LEMMA EmissionsFresh ==
  ASSUME IInv, NEW by \in Orgs, NEW o \in Orgs
  PROVE  Fresh(Emissions(by, o))
  <1> DEFINE keys == NewKeys(o)
             people == NewPeople(o)
             link == Linked(by)
             q == [NoPlan EXCEPT !.kind = "policies", !.org = o, !.by = by, !.from = "import",
                                 !.new = keys, !.people = people]
             h == [q EXCEPT !.from = "half"]
             m == Materialize(q, o, Statuses)
             w == [m EXCEPT !.consume = TRUE, !.link = link]
  <1>1. keys \in Seq(Keys) /\ people \in SUBSET Persons /\ \A p \in link : policy[p].links = 0
    BY NewKeysType DEF NewPeople, Linked
  <1>2. Emissions(by, o) = IF Done(o) # DOMAIN file THEN h ELSE w
    BY DEF Emissions
  <1>3. /\ \A n \in DOMAIN keys : OnFile(o, keys[n]) = {}
        /\ \A k, n \in DOMAIN keys : keys[k] = keys[n] => k = n
    BY NewKeysFresh
  <1> HIDE DEF keys, people, link
  <1>4. q \in Plan
    BY <1>1, NoPlanSound DEF Plan, Kinds, Origins
  <1>5. Apt(q)
    BY NoPlanSound DEF Sound, Apt, NoPlan, Plan
  <1>6. /\ q.new = keys /\ q.org = o /\ q.who = None /\ q.entry = <<>> /\ q.comm = {} /\ q.link = {}
        /\ q.paid = {} /\ q.at = <<0, 0>> /\ q.ren = {} /\ q.target = 0
    BY DEF NoPlan
  <1>7. /\ h.new = keys /\ h.org = o /\ h.who = None /\ h.entry = <<>> /\ h.comm = {} /\ h.link = {}
        /\ h.paid = {} /\ h.at = <<0, 0>> /\ h.ren = {} /\ h.target = 0
    BY DEF NoPlan
  <1> HIDE DEF q, h
  <1>8. Registers(q) /\ Registers(h)
    BY <1>3, <1>6, <1>7 DEF Registers
  <1>9. Fresh(h)
    BY <1>7, <1>8, FreshWithout DEF Fresh
  <1>10. Pays(q) /\ Follows(q) /\ Assigns(q)
    BY <1>6, FreshWithout
  <1>11. Fresh(m)
    BY <1>4, <1>6, <1>8, <1>10, StatusesSeen, MaterializeFresh
  <1>12. m \in Plan
    BY <1>4, <1>5, MaterializeSound DEF IInv
  <1> HIDE DEF m
  <1>13. Fresh(w)
    BY <1>1, <1>11, <1>12, LinkedFresh
  <1> HIDE DEF w
  <1> QED
    BY <1>2, <1>9, <1>13

LEMMA FilingFresh ==
  ASSUME NEW o \in Orgs
  PROVE  Fresh(Filing(o))
  <1> DEFINE q == Filing(o)
  <1>1. /\ q.new = <<>> /\ q.entry = <<>> /\ q.comm = {} /\ q.link = {}
        /\ q.paid = {} /\ q.at = <<0, 0>> /\ q.ren = {} /\ q.target = 0
    BY DEF Filing, NoPlan
  <1> HIDE DEF q
  <1>2. Fresh(q)
    BY <1>1, FreshWithout DEF Fresh
  <1> QED
    BY <1>2 DEF q

LEMMA ImportsCalm ==
  ASSUME IInv, IInv', Calm, NEW r \in Threads,
         ImportEmissions(r) \/ ImportMother(r) \/ ImportClients(r) \/ ImportRoles(r)
  PROVE  Calm'
  <1>1. CASE ImportEmissions(r)
    <2>1. PICK o \in Orgs : Begin(r, Emissions(o, o))
      BY <1>1 DEF ImportEmissions
    <2> QED
      BY <2>1, EmissionsFresh, BeginCalm
  <1>2. CASE ImportMother(r)
    <2>1. PICK o \in Orgs : Begin(r, Emissions(o, MotherOrg))
      BY <1>2 DEF ImportMother
    <2>2. MotherOrg \in Orgs
      BY PortfolioAssumption
    <2>3. Fresh(Emissions(o, MotherOrg))
      BY <2>2, EmissionsFresh
    <2> QED
      BY <2>1, <2>3, BeginCalm
  <1>3. CASE ImportClients(r)
    <2>1. PICK o \in Orgs : Begin(r, Filing(o))
      BY <1>3 DEF ImportClients
    <2> QED
      BY <2>1, FilingFresh, BeginCalm
  <1>4. CASE ImportRoles(r)
    <2>1. PICK o \in Orgs : Begin(r, [Filing(o) EXCEPT !.link = Linked(o)])
      BY <1>4 DEF ImportRoles
    <2> DEFINE f == Filing(o)
               l == Linked(o)
               q == [f EXCEPT !.consume = f.consume, !.link = l]
    <2>2. f \in Plan /\ Fresh(f) /\ \A p \in l : policy[p].links = 0
      BY FilingSound, FilingFresh DEF Linked
    <2> HIDE DEF f, l
    <2>3. Fresh(q)
      BY <2>2, LinkedFresh
    <2>4. [f EXCEPT !.link = l] = q
      BY <2>2 DEF Plan
    <2> QED
      BY <2>1, <2>3, <2>4, BeginCalm DEF f, l
  <1> QED
    BY <1>1, <1>2, <1>3, <1>4

\* An imported payment is for a policy whose instalment is open.
LEMMA ImportPaymentsCalm ==
  ASSUME IInv, IInv', Calm, NEW r \in Threads, ImportPayments(r)
  PROVE  Calm'
  <1>1. PICK o \in Orgs :
          LET paid == {<<i, Newest(OnFile(o, file[i].key))>> : i \in {j \in DOMAIN file : Payable(o, j)}}
          IN  Begin(r, [NoPlan EXCEPT !.kind = "policies", !.org = o, !.by = o, !.consume = TRUE,
                          !.paid = paid,
                          !.marks = IF \E x, y \in paid : x # y /\ x[2] = y[2] THEN {"twice"} ELSE {}])
    BY DEF ImportPayments
  <1> DEFINE paid == {<<i, Newest(OnFile(o, file[i].key))>> : i \in {j \in DOMAIN file : Payable(o, j)}}
             marks == IF \E x, y \in paid : x # y /\ x[2] = y[2] THEN {"twice"} ELSE {}
             q == [NoPlan EXCEPT !.kind = "policies", !.org = o, !.by = o, !.consume = TRUE,
                                 !.paid = paid, !.marks = marks]
  <1>2. Begin(r, q)
    BY <1>1
  <1>3. \A x \in paid : policy[x[2]].paid = 0
    BY DEF Payable
  <1>4. "twice" \in marks \/ \A x, y \in paid : x[2] = y[2] => x = y
    OBVIOUS
  <1> HIDE DEF paid, marks
  <1>5. /\ q.new = <<>> /\ q.entry = <<>> /\ q.comm = {} /\ q.link = {}
        /\ q.paid = paid /\ q.marks = marks /\ q.at = <<0, 0>> /\ q.ren = {} /\ q.target = 0
    BY DEF NoPlan
  <1> HIDE DEF q
  <1>6. Pays(q)
    BY <1>3, <1>4, <1>5 DEF Pays
  <1>7. Fresh(q)
    BY <1>5, <1>6, FreshWithout DEF Fresh
  <1> QED
    BY <1>2, <1>7, BeginCalm

LEMMA RematerializeCalm ==
  ASSUME IInv, IInv', Calm, NEW r \in Threads, Rematerialize(r)
  PROVE  Calm'
  <1>1. PICK o \in Orgs :
          Begin(r, Materialize([NoPlan EXCEPT !.kind = "policies", !.org = o, !.by = o], o, Statuses))
    BY DEF Rematerialize
  <1> DEFINE q == [NoPlan EXCEPT !.kind = "policies", !.org = o, !.by = o]
  <1>2. q \in Plan
    BY NoPlanSound DEF Plan, Kinds
  <1>3. /\ q.new = <<>> /\ q.link = {} /\ q.paid = {} /\ q.at = <<0, 0>> /\ q.ren = {} /\ q.target = 0
    BY DEF NoPlan
  <1> HIDE DEF q
  <1>4. Registers(q) /\ Pays(q) /\ Follows(q) /\ Assigns(q)
    BY <1>3, FreshWithout
  <1>5. Fresh(Materialize(q, o, Statuses))
    BY <1>2, <1>3, <1>4, StatusesSeen, MaterializeFresh
  <1> QED
    BY <1>1, <1>5, BeginCalm DEF q

\* A renewal written by hand: closed ones are opened with a mark.
LEMMA RenewalFresh ==
  ASSUME IInv, NEW q, NEW p \in All, NEW i \in DOMAIN renewal[p],
         q.new = <<>>, q.entry = <<>>, q.comm = {}, q.link = {}, q.paid = {}, q.ren = {}, q.target = 0,
         q.at = <<p, i>>, q.was = renewal[p][i].status,
         renewal[p][i].status \in Closed /\ q.status \in Open => "reopened" \in q.marks
  PROVE  Fresh(q)
  <1>1. renewal[p][i].status \in Open \cup Closed
    BY Reads DEF AnyStatus
  <1>2. Follows(q)
    BY <1>1 DEF Follows
  <1> QED
    BY <1>2, FreshWithout DEF Fresh

LEMMA RenewalsCalm ==
  ASSUME IInv, IInv', Calm, NEW r \in Threads, SetStatus(r) \/ SameCarrier(r) \/ Requote(r)
  PROVE  Calm'
  <1>1. CASE SetStatus(r)
    <2>1. PICK p \in All : \E i \in DOMAIN renewal[p], st \in Open \cup Closed :
            Begin(r, [NoPlan EXCEPT !.kind = "renewal", !.at = <<p, i>>,
                        !.was = renewal[p][i].status, !.status = st,
                        !.marks = IF renewal[p][i].status \in Closed /\ st \in Open
                                    THEN {"reopened"} ELSE {}])
      BY <1>1 DEF SetStatus
    <2>2. PICK i \in DOMAIN renewal[p], st \in Open \cup Closed :
            Begin(r, [NoPlan EXCEPT !.kind = "renewal", !.at = <<p, i>>,
                        !.was = renewal[p][i].status, !.status = st,
                        !.marks = IF renewal[p][i].status \in Closed /\ st \in Open
                                    THEN {"reopened"} ELSE {}])
      BY <2>1
    <2> DEFINE q == [NoPlan EXCEPT !.kind = "renewal", !.at = <<p, i>>,
                        !.was = renewal[p][i].status, !.status = st,
                        !.marks = IF renewal[p][i].status \in Closed /\ st \in Open
                                    THEN {"reopened"} ELSE {}]
    <2>3. /\ q.new = <<>> /\ q.entry = <<>> /\ q.comm = {} /\ q.link = {} /\ q.paid = {} /\ q.ren = {}
          /\ q.target = 0 /\ q.at = <<p, i>> /\ q.was = renewal[p][i].status /\ q.status = st
          /\ renewal[p][i].status \in Closed /\ st \in Open => "reopened" \in q.marks
      BY DEF NoPlan
    <2> HIDE DEF q
    <2>4. Fresh(q)
      BY <2>3, RenewalFresh
    <2> QED
      BY <2>2, <2>4, BeginCalm DEF q
  <1>2. CASE SameCarrier(r)
    <2>1. PICK p \in All : \E i \in DOMAIN renewal[p] :
            Begin(r, [NoPlan EXCEPT !.kind = "renewal", !.at = <<p, i>>,
                        !.was = renewal[p][i].status, !.status = "CONTACTED",
                        !.marks = IF renewal[p][i].status \in Closed THEN {"reopened"} ELSE {}])
      BY <1>2 DEF SameCarrier
    <2>2. PICK i \in DOMAIN renewal[p] :
            Begin(r, [NoPlan EXCEPT !.kind = "renewal", !.at = <<p, i>>,
                        !.was = renewal[p][i].status, !.status = "CONTACTED",
                        !.marks = IF renewal[p][i].status \in Closed THEN {"reopened"} ELSE {}])
      BY <2>1
    <2> DEFINE q == [NoPlan EXCEPT !.kind = "renewal", !.at = <<p, i>>,
                        !.was = renewal[p][i].status, !.status = "CONTACTED",
                        !.marks = IF renewal[p][i].status \in Closed THEN {"reopened"} ELSE {}]
    <2>3. /\ q.new = <<>> /\ q.entry = <<>> /\ q.comm = {} /\ q.link = {} /\ q.paid = {} /\ q.ren = {}
          /\ q.target = 0 /\ q.at = <<p, i>> /\ q.was = renewal[p][i].status
          /\ renewal[p][i].status \in Closed => "reopened" \in q.marks
      BY DEF NoPlan
    <2> HIDE DEF q
    <2>4. Fresh(q)
      BY <2>3, RenewalFresh
    <2> QED
      BY <2>2, <2>4, BeginCalm DEF q
  <1>3. CASE Requote(r)
    <2>1. PICK p \in All : \E i \in DOMAIN renewal[p] :
            Begin(r, [NoPlan EXCEPT !.kind = "renewal", !.at = <<p, i>>,
                        !.was = renewal[p][i].status, !.status = "QUOTING", !.ask = Len(answers) + 1,
                        !.marks = IF renewal[p][i].status \in Closed THEN {"reopened"} ELSE {}])
      BY <1>3 DEF Requote
    <2>2. PICK i \in DOMAIN renewal[p] :
            Begin(r, [NoPlan EXCEPT !.kind = "renewal", !.at = <<p, i>>,
                        !.was = renewal[p][i].status, !.status = "QUOTING", !.ask = Len(answers) + 1,
                        !.marks = IF renewal[p][i].status \in Closed THEN {"reopened"} ELSE {}])
      BY <2>1
    <2> DEFINE q == [NoPlan EXCEPT !.kind = "renewal", !.at = <<p, i>>,
                        !.was = renewal[p][i].status, !.status = "QUOTING", !.ask = Len(answers) + 1,
                        !.marks = IF renewal[p][i].status \in Closed THEN {"reopened"} ELSE {}]
    <2>3. /\ q.new = <<>> /\ q.entry = <<>> /\ q.comm = {} /\ q.link = {} /\ q.paid = {} /\ q.ren = {}
          /\ q.target = 0 /\ q.at = <<p, i>> /\ q.was = renewal[p][i].status
          /\ renewal[p][i].status \in Closed => "reopened" \in q.marks
      BY DEF NoPlan
    <2> HIDE DEF q
    <2>4. Fresh(q)
      BY <2>3, RenewalFresh
    <2> QED
      BY <2>2, <2>4, BeginCalm DEF q
  <1> QED
    BY <1>1, <1>2, <1>3

\* A plan that touches no policy, renewal or producer of one.
LEMMA PlainFresh ==
  ASSUME NEW q, q.new = <<>>, q.entry = <<>>, q.comm = {}, q.link = {}, q.paid = {},
         q.at = <<0, 0>>, q.ren = {}, q.target = 0
  PROVE  Fresh(q)
  BY FreshWithout DEF Fresh

LEMMA QuotesCalm ==
  ASSUME IInv, IInv', Calm, NEW r \in Threads, NewQuote(r) \/ AnswerQuote(r)
  PROVE  Calm'
  <1>1. PICK a : Begin(r, [NoPlan EXCEPT !.kind = "quote", !.ask = a])
    <2>1. CASE NewQuote(r)
      BY <2>1, Zenon DEF NewQuote
    <2>2. CASE AnswerQuote(r)
      BY <2>2, Zenon DEF AnswerQuote
    <2> QED
      BY <2>1, <2>2
  <1> DEFINE q == [NoPlan EXCEPT !.kind = "quote", !.ask = a]
  <1>2. /\ q.new = <<>> /\ q.entry = <<>> /\ q.comm = {} /\ q.link = {} /\ q.paid = {}
        /\ q.at = <<0, 0>> /\ q.ren = {} /\ q.target = 0
    BY DEF NoPlan
  <1> HIDE DEF q
  <1> QED
    BY <1>1, <1>2, PlainFresh, BeginCalm DEF q

LEMMA RulesCalm ==
  ASSUME IInv, IInv', Calm, NEW r \in Threads, SaveRates(r) \/ SaveSplit(r) \/ CreateProducer(r)
  PROVE  Calm'
  <1>1. CASE SaveRates(r) \/ SaveSplit(r)
    <2>1. PICK c : Begin(r, [NoPlan EXCEPT !.kind = "rule", !.rule = c])
      BY <1>1 DEF SaveRates, SaveSplit
    <2> DEFINE q == [NoPlan EXCEPT !.kind = "rule", !.rule = c]
    <2>2. /\ q.new = <<>> /\ q.entry = <<>> /\ q.comm = {} /\ q.link = {} /\ q.paid = {}
          /\ q.at = <<0, 0>> /\ q.ren = {} /\ q.target = 0
      BY DEF NoPlan
    <2> HIDE DEF q
    <2> QED
      BY <2>1, <2>2, PlainFresh, BeginCalm DEF q
  <1>2. CASE CreateProducer(r)
    <2>1. PICK u : Begin(r, [NoPlan EXCEPT !.kind = "profile", !.profile = {u}])
      BY <1>2 DEF CreateProducer
    <2> DEFINE q == [NoPlan EXCEPT !.kind = "profile", !.profile = {u}]
    <2>2. /\ q.new = <<>> /\ q.entry = <<>> /\ q.comm = {} /\ q.link = {} /\ q.paid = {}
          /\ q.at = <<0, 0>> /\ q.ren = {} /\ q.target = 0
      BY DEF NoPlan
    <2> HIDE DEF q
    <2> QED
      BY <2>1, <2>2, PlainFresh, BeginCalm DEF q
  <1> QED
    BY <1>1, <1>2

\* The open row of a joined history is its last.
LEMMA OpenIsLast ==
  ASSUME NEW rows \in Seq(Primary), Settled(rows), NEW from, NEW day, Joined(rows, from, day)
  PROVE  (IF OpenRows(rows) = {} THEN 0 ELSE CHOOSE i \in OpenRows(rows) : TRUE) = Len(rows)
  <1>1. Len(rows) \in Nat /\ DOMAIN rows = 1 .. Len(rows)
    OBVIOUS
  <1>2. CASE rows = <<>>
    BY <1>2 DEF OpenRows
  <1>3. CASE rows # <<>>
    <2>1. PICK i : OpenRows(rows) = {i}
      BY <1>3 DEF Settled
    <2>2. i \in 1 .. Len(rows) /\ rows[i].to = 0
      BY <1>1, <2>1 DEF OpenRows
    <2>3. ~(i < Len(rows))
      <3> SUFFICES ASSUME i < Len(rows) PROVE FALSE
        OBVIOUS
      <3>1. i + 1 \in 1 .. Len(rows)
        BY <1>1, <2>2
      <3>2. rows[i].to = rows[i + 1].from
        BY <2>2 DEF Joined
      <3> QED
        BY <2>2, <3>1, <3>2, PrimaryRow
    <2>4. i = Len(rows)
      BY <1>1, <2>2, <2>3
    <2> QED
      BY <2>1, <2>4
  <1> QED
    BY <1>2, <1>3

LEMMA UptoLast ==
  ASSUME NEW n \in Nat
  PROVE  /\ \A i \in 1 .. n + 1 : i = n + 1 \/ (i = n /\ i \in 1 .. n) \/ i < n
         /\ \A i \in 1 .. n + 1 : i < n => i \in 1 .. n /\ i # n
         /\ \A i \in 1 .. n : i # n => i < n /\ i + 1 \in 1 .. n
         /\ n > 1 \/ n = 1 => n \in 1 .. n
  OBVIOUS

LEMMA AssignCalm ==
  ASSUME IInv, IInv', Calm, NEW r \in Threads, ReassignPolicy(r) \/ AssignToProducer(r)
  PROVE  Calm'
  <1>1. PICK p \in All, u \in profile : Begin(r, Reassigned(p, u))
    BY DEF ReassignPolicy, AssignToProducer
  <1> DEFINE open == IF OpenRows(producer[p]) = {} THEN 0 ELSE CHOOSE i \in OpenRows(producer[p]) : TRUE
             q == [NoPlan EXCEPT !.kind = "assign", !.target = p, !.who = u, !.day = today, !.open = open]
  <1>2. Begin(r, q)
    BY <1>1 DEF Reassigned
  <1>3. CASE "raced" \in seen
    BY <1>2, <1>3, BeginCalm
  <1>4. CASE "raced" \notin seen
    <2>1. Joined(producer[p], policy[p].from, today)
      BY <1>4 DEF Calm, AllJoined
    <2>2. producer[p] \in Seq(Primary) /\ today \in Nat
      BY Reads, DayType
    <2>3. Settled(producer[p])
      BY <2>2, SettledIsOne DEF IInv, AlwaysOneProducer
    <2>4. open = Len(producer[p])
      BY <2>1, <2>2, <2>3, OpenIsLast
    <2>5. /\ q.new = <<>> /\ q.entry = <<>> /\ q.comm = {} /\ q.link = {} /\ q.paid = {}
          /\ q.at = <<0, 0>> /\ q.ren = {} /\ q.target = p /\ q.day = today /\ q.open = open
      BY DEF NoPlan
    <2> HIDE DEF q, open
    <2>6. open > 1 \/ (open = 1 /\ policy[p].from # "online") =>
            producer[p][open].from <= today
      <3>1. Len(producer[p]) \in Nat
        BY <2>2
      <3>2. open > 1 \/ open = 1 => open \in 1 .. Len(producer[p])
        BY <2>4, <3>1, UptoLast
      <3> QED
        BY <2>1, <2>4, <3>2 DEF Joined
    <2>7. Assigns(q)
      BY <2>2, <2>4, <2>5, <2>6 DEF Assigns
    <2>8. Fresh(q)
      BY <2>5, <2>7, FreshWithout DEF Fresh
    <2> QED
      BY <1>2, <2>8, BeginCalm
  <1> QED
    BY <1>3, <1>4

\* The row that is closed and the row that is opened are joined.
LEMMA ReplacedJoined ==
  ASSUME NEW rows \in Seq(Primary), NEW from, NEW day \in Nat, Joined(rows, from, day),
         NEW q \in Plan, q.who \in Producers, q.open = Len(rows), q.day <= day,
         q.open > 1 \/ (q.open = 1 /\ from # "online") => rows[q.open].from <= q.day
  PROVE  Joined(Replaced(rows, q), from, day)
  <1> DEFINE n == Len(rows)
             closed == IF q.open = 0 THEN rows ELSE [rows EXCEPT ![q.open].to = q.day]
             new == [who |-> q.who, from |-> q.day, to |-> 0]
             s == Append(closed, new)
  <1>1. n \in Nat /\ DOMAIN rows = 1 .. n /\ rows \in [1 .. n -> Primary]
    BY LenProperties
  <1>2. q.day \in Nat /\ q.day # 0 /\ q.day \in Day
    <2>1. q.day \in Day
      BY DEF Plan
    <2> QED
      BY <2>1, DayType
  <1>3. new \in Primary /\ new.to = 0 /\ new.from = q.day
    BY <1>2 DEF Primary
  <1>4. /\ closed \in [1 .. n -> Primary]
        /\ \A i \in 1 .. n : /\ closed[i].from = rows[i].from
                             /\ closed[i].to = IF i = n THEN q.day ELSE rows[i].to
    <2>1. CASE n = 0
      BY <1>1, <2>1
    <2>2. CASE n # 0
      <3> DEFINE w(i) == IF i = n THEN [rows[i] EXCEPT !.to = q.day] ELSE rows[i]
      <3>1. closed = [i \in 1 .. n |-> w(i)]
        BY <1>1, <2>2
      <3>2. \A i \in 1 .. n : rows[i] \in Primary
        BY <1>1
      <3>3. \A i \in 1 .. n : /\ w(i) \in Primary /\ w(i).from = rows[i].from
                              /\ w(i).to = IF i = n THEN q.day ELSE rows[i].to
        BY <1>2, <3>2 DEF Primary
      <3> HIDE DEF w, closed
      <3> QED
        BY <3>1, <3>3
    <2> QED
      BY <2>1, <2>2
  <1>5. closed \in Seq(Primary) /\ Len(closed) = n
    BY <1>1, <1>4, SeqFromFunction
  <1>6. Replaced(rows, q) = IF OpenRows(closed) # {} THEN closed ELSE s
    BY DEF Replaced
  <1> HIDE DEF closed, new
  <1>7. OpenRows(closed) = {}
    <2>1. ASSUME NEW i \in 1 .. n
          PROVE  closed[i].to # 0
      <3>1. CASE i = n
        BY <1>2, <1>4, <3>1
      <3>2. CASE i # n
        <4>1. i < n /\ i + 1 \in 1 .. n
          BY <1>1, <3>2, UptoLast
        <4>2. rows[i].to = rows[i + 1].from
          BY <4>1 DEF Joined
        <4>3. rows[i + 1].from # 0
          BY <4>1, PrimaryRow
        <4> QED
          BY <1>4, <3>2, <4>2, <4>3
      <3> QED
        BY <3>1, <3>2
    <2>2. DOMAIN closed = 1 .. n
      BY <1>4
    <2> QED
      BY <2>1, <2>2 DEF OpenRows
  <1>8. /\ Len(s) = n + 1 /\ \A i \in 1 .. n : s[i] = closed[i]
        /\ s[n + 1] = new
    BY <1>3, <1>5, AppendFacts
  <1> HIDE DEF s
  <1>9. Joined(s, from, day)
    <2> SUFFICES ASSUME NEW i \in 1 .. n + 1
                 PROVE  /\ i < n + 1 => s[i].to = s[i + 1].from
                        /\ i > 1 \/ from # "online" =>
                             s[i].from <= day /\ (i < n + 1 => s[i].from <= s[i].to)
      BY <1>8 DEF Joined
    <2>1. CASE i = n + 1
      BY <1>1, <1>3, <1>8, <2>1
    <2>2. CASE i = n
      <3>1. n \in 1 .. n /\ n + 1 = i + 1 /\ n >= 1
        BY <1>1, <2>2
      <3>2. s[i].from = rows[n].from /\ s[i].to = q.day /\ s[i + 1].from = q.day
        BY <1>3, <1>4, <1>8, <2>2, <3>1
      <3>3. i > 1 \/ from # "online" => rows[n].from <= q.day /\ rows[n].from <= day
        <4>1. i > 1 \/ from # "online" => rows[n].from <= day
          BY <2>2, <3>1 DEF Joined
        <4>2. i > 1 \/ i = 1
          BY <1>1, <2>2
        <4> QED
          BY <2>2, <4>1, <4>2
      <3> QED
        BY <3>2, <3>3
    <2>3. CASE i < n
      <3>1. i \in 1 .. n /\ i + 1 \in 1 .. n /\ i # n
        BY <1>1, <2>3, UptoLast
      <3>2. s[i].from = rows[i].from /\ s[i].to = rows[i].to /\ s[i + 1].from = rows[i + 1].from
        BY <1>4, <1>8, <3>1
      <3> QED
        BY <2>3, <3>1, <3>2 DEF Joined
    <2>4. i = n + 1 \/ i = n \/ i < n
      BY <1>1, UptoLast
    <2> QED
      BY <2>1, <2>2, <2>3, <2>4
  <1> QED
    BY <1>6, <1>7, <1>9

\* What a commit leaves in the rows of policies.
LEMMA CommitPolicyRows ==
  ASSUME IInv, NEW r \in Threads, Commit(r)
  PROVE  /\ \A p \in 1 .. Len(policy) :
              /\ policy'[p].org = policy[p].org /\ policy'[p].key = policy[p].key
              /\ policy'[p].from = policy[p].from
              /\ policy'[p].paid = policy[p].paid + Cardinality({x \in req[r].paid : x[2] = p})
              /\ policy'[p].links = IF p \in req[r].link THEN policy[p].links + 1 ELSE policy[p].links
         /\ \A p \in 1 .. Len(policy) + Len(req[r].new) : p > Len(policy) =>
              /\ policy'[p].org = req[r].org /\ policy'[p].key = req[r].new[p - Len(policy)]
              /\ policy'[p].from = req[r].from /\ policy'[p].paid = 0 /\ policy'[p].links <= 1
  <1> DEFINE q == req[r]
             old == Len(policy)
             n == old + Len(q.new)
             paid(p) == policy[p].paid + Cardinality({x \in q.paid : x[2] = p})
             links(p) == IF p \in q.link THEN policy[p].links + 1 ELSE policy[p].links
  <1>1. policy' = [p \in 1 .. n |->
           IF p <= old
             THEN [policy[p] EXCEPT !.paid = paid(p), !.links = links(p)]
             ELSE [org |-> q.org, by |-> q.by, key |-> q.new[p - old], from |-> q.from, paid |-> 0,
                   links |-> IF q.from = "import" /\ q.org = q.by /\ q.follow THEN 1 ELSE 0]]
    BY DEF Commit
  <1>2. old \in Nat /\ n \in Nat /\ Len(q.new) \in Nat /\ policy \in [1 .. old -> Policy]
    BY CommitSizes
  <1>3. \A p \in 1 .. old : p \in 1 .. n /\ p <= old /\ policy[p] \in Policy
    BY <1>2
  <1>4. \A p \in 1 .. n : p > old => ~(p <= old)
    BY <1>2
  <1> HIDE DEF q, old, n, paid, links
  <1>5. \A p \in 1 .. old :
          /\ policy'[p].org = policy[p].org /\ policy'[p].key = policy[p].key
          /\ policy'[p].from = policy[p].from
          /\ policy'[p].paid = paid(p) /\ policy'[p].links = links(p)
    BY <1>1, <1>3 DEF Policy
  <1>6. \A p \in 1 .. n : p > old =>
              /\ policy'[p].org = q.org /\ policy'[p].key = q.new[p - old]
              /\ policy'[p].from = q.from /\ policy'[p].paid = 0 /\ policy'[p].links <= 1
    <2> TAKE p \in 1 .. n
    <2> HAVE p > old
    <2> DEFINE one == IF q.from = "import" /\ q.org = q.by /\ q.follow THEN 1 ELSE 0
    <2>1. policy'[p] = [org |-> q.org, by |-> q.by, key |-> q.new[p - old], from |-> q.from,
                        paid |-> 0, links |-> one]
      BY <1>1, <1>4
    <2>2. one <= 1
      OBVIOUS
    <2> HIDE DEF one
    <2> QED
      BY <2>1, <2>2
  <1> QED
    BY <1>5, <1>6 DEF q, old, n, paid, links

\* The numbers on file after a commit: those it registers by photograph, by file or
\* online were not there before, and differ.
LEMMA CommitNumbers ==
  ASSUME IInv, NEW r \in Threads, Commit(r), NumbersDiffer, Fresh(req[r])
  PROVE  NumbersDiffer'
  <1> DEFINE q == req[r]
             old == Len(policy)
             n == old + Len(q.new)
  <1>1. /\ old \in Nat /\ n \in Nat /\ Len(q.new) \in Nat /\ All = 1 .. old
        /\ q.new \in Seq(Keys)
    BY CommitSizes DEF Plan
  <1>2. All' = 1 .. n
    BY CommitPolicies DEF All
  <1>3. /\ \A p \in 1 .. old :
             /\ policy'[p].org = policy[p].org /\ policy'[p].key = policy[p].key
             /\ policy'[p].from = policy[p].from
        /\ \A p \in 1 .. n : p > old =>
             /\ policy'[p].org = q.org /\ policy'[p].key = q.new[p - old] /\ policy'[p].from = q.from
    BY CommitPolicyRows
  <1>4. DOMAIN q.new = 1 .. Len(q.new)
    BY <1>1
  <1>5. /\ q.from = "hand" \/ \A m \in DOMAIN q.new : OnFile(q.org, q.new[m]) = {}
        /\ q.from = "hand" \/ \A m, k \in DOMAIN q.new : q.new[m] = q.new[k] => m = k
    BY DEF Fresh, Registers
  <1> HIDE DEF q, old, n
  <1> SUFFICES ASSUME NEW a \in 1 .. n, NEW b \in 1 .. n, a < b,
                      policy'[a].org = policy'[b].org, policy'[a].key = policy'[b].key
               PROVE  policy'[b].from = "hand"
    BY <1>2 DEF NumbersDiffer
  <1>6. CASE b <= old
    <2>1. a \in 1 .. old /\ b \in 1 .. old
      BY <1>1, <1>6
    <2> QED
      BY <1>1, <1>3, <2>1 DEF NumbersDiffer
  <1>7. CASE a <= old /\ ~(b <= old)
    <2>1. a \in 1 .. old /\ b > old /\ b - old \in DOMAIN q.new
      BY <1>1, <1>4, <1>7 DEF n
    <2>2. policy[a].org = q.org /\ policy[a].key = q.new[b - old] /\ policy'[b].from = q.from
      BY <1>3, <2>1
    <2>3. a \in OnFile(q.org, q.new[b - old])
      BY <1>1, <2>1, <2>2 DEF OnFile
    <2> QED
      BY <1>5, <2>1, <2>2, <2>3
  <1>8. CASE ~(a <= old)
    <2>1. /\ a > old /\ b > old /\ a - old \in DOMAIN q.new /\ b - old \in DOMAIN q.new
          /\ a - old # b - old
      BY <1>1, <1>4, <1>8 DEF n
    <2>2. q.new[a - old] = q.new[b - old] /\ policy'[b].from = q.from
      BY <1>3, <2>1
    <2> QED
      BY <1>5, <2>1, <2>2
  <1> QED
    BY <1>6, <1>7, <1>8

\* A policy has one payment and one link after a commit if it had none before.
LEMMA CommitPaid ==
  ASSUME IInv, NEW r \in Threads, Commit(r), LinkOnce, PaidOnce, Fresh(req[r])
  PROVE  LinkOnce' /\ PaidOnce'
  <1> DEFINE q == req[r]
             old == Len(policy)
             n == old + Len(q.new)
             Of(p) == {x \in q.paid : x[2] = p}
  <1>1. /\ old \in Nat /\ n \in Nat /\ All = 1 .. old /\ q \in Plan
        /\ policy \in [1 .. old -> Policy]
    BY CommitSizes
  <1>2. All' = 1 .. n
    BY CommitPolicies DEF All
  <1>3. /\ \A p \in 1 .. old :
             /\ policy'[p].paid = policy[p].paid + Cardinality(Of(p))
             /\ policy'[p].links = IF p \in q.link THEN policy[p].links + 1 ELSE policy[p].links
        /\ \A p \in 1 .. n : p > old => policy'[p].paid = 0 /\ policy'[p].links <= 1
    BY CommitPolicyRows
  <1>4. /\ \A p \in q.link : policy[p].links = 0
        /\ \A x \in q.paid : policy[x[2]].paid = 0
        /\ "twice" \in q.marks \/ \A x, y \in q.paid : x[2] = y[2] => x = y
    BY DEF Fresh, Derives, Pays
  <1>5. "twice" \notin seen' => "twice" \notin seen /\ "twice" \notin q.marks
    BY CommitRest
  <1>6. \A p \in 1 .. n : p \in 1 .. old \/ p > old
    BY <1>1
  <1> HIDE DEF q, old, n
  <1>7. LinkOnce'
    <2> SUFFICES ASSUME NEW p \in 1 .. n
                 PROVE  policy'[p].links <= 1
      BY <1>2 DEF LinkOnce
    <2>1. CASE p \in 1 .. old
      <3>1. policy[p].links <= 1
        BY <1>1, <2>1 DEF LinkOnce
      <3>2. CASE p \in q.link
        <4>1. policy'[p].links = 0 + 1
          BY <1>3, <1>4, <2>1, <3>2
        <4> QED
          BY <4>1
      <3>3. CASE p \notin q.link
        <4>1. policy'[p].links = policy[p].links
          BY <1>3, <2>1, <3>3
        <4> QED
          BY <3>1, <4>1
      <3> QED
        BY <3>2, <3>3
    <2> QED
      BY <1>3, <1>6, <2>1
  <1>8. PaidOnce'
    <2> SUFFICES ASSUME "twice" \notin seen', NEW p \in 1 .. n
                 PROVE  policy'[p].paid <= 1
      BY <1>2 DEF PaidOnce
    <2>1. CASE p > old
      BY <1>3, <2>1
    <2>2. CASE p \in 1 .. old
      <3>1. policy[p].paid <= 1 /\ policy[p].paid \in Nat
        <4>1. policy[p] \in Policy
          BY <1>1, <2>2
        <4>2. policy[p].paid <= 1
          BY <1>1, <1>5, <2>2 DEF PaidOnce
        <4> QED
          BY <4>1, <4>2 DEF Policy
      <3>2. \A x, y \in Of(p) : x = y
        BY <1>4, <1>5
      <3>3. Of(p) # {} => policy[p].paid = 0
        BY <1>4
      <3> HIDE DEF Of
      <3>4. Of(p) = {} \/ \E x : Of(p) = {x}
        BY <3>2
      <3>5. Cardinality({}) = 0 /\ \A x : Cardinality({x}) = 1
        BY FS_EmptySet, FS_Singleton
      <3>6. CASE Of(p) = {}
        <4>1. policy'[p].paid = policy[p].paid + 0
          BY <1>3, <2>2, <3>5, <3>6
        <4> QED
          BY <3>1, <4>1
      <3>7. CASE Of(p) # {}
        <4>1. Cardinality(Of(p)) = 1
          BY <3>4, <3>5, <3>7
        <4>2. policy'[p].paid = 0 + 1
          BY <1>3, <2>2, <3>3, <3>7, <4>1
        <4> QED
          BY <4>2
      <3> QED
        BY <3>6, <3>7
    <2> QED
      BY <1>6, <2>1, <2>2
  <1> QED
    BY <1>7, <1>8

\* A policy has one commission after a commit if it had none before.
LEMMA CommitCommissionOnce ==
  ASSUME IInv, NEW r \in Threads, Commit(r), CommissionOnce, Fresh(req[r])
  PROVE  CommissionOnce'
  <1> DEFINE q == req[r]
             old == Len(policy)
             n == old + Len(q.new)
  <1>1. old \in Nat /\ n \in Nat /\ All = 1 .. old
    BY CommitSizes
  <1>2. All' = 1 .. n
    BY CommitPolicies DEF All
  <1>3. commission' = [p \in 1 .. n |->
           IF p > old THEN (IF Followed(q) THEN q.entry ELSE <<>>)
           ELSE IF p \in q.comm THEN commission[p] \o q.entry ELSE commission[p]]
    BY DEF Commit
  <1>4. Len(q.entry) <= 1 /\ \A p \in q.comm : commission[p] = <<>>
    BY DEF Fresh, Derives
  <1>5. q.entry \in Seq(Commission)
    BY CommitSizes DEF Plan
  <1> HIDE DEF q, old, n
  <1> SUFFICES ASSUME NEW p \in 1 .. n
               PROVE  Len(commission'[p]) <= 1
    BY <1>2 DEF CommissionOnce
  <1>6. <<>> \o q.entry = q.entry /\ Len(<<>>) <= 1
    BY <1>5
  <1>7. CASE p > old
    BY <1>3, <1>4, <1>6, <1>7
  <1>8. CASE ~(p > old)
    <2>1. p \in 1 .. old
      BY <1>1, <1>8
    <2>2. Len(commission[p]) <= 1
      BY <1>1, <2>1 DEF CommissionOnce
    <2>3. commission'[p] = IF p \in q.comm THEN commission[p] \o q.entry ELSE commission[p]
      BY <1>3, <1>8
    <2> QED
      BY <1>4, <1>6, <2>2, <2>3
  <1> QED
    BY <1>7, <1>8

\* The renewals a policy has after a commit: the one that was written has the status
\* written, and the ones before a new one are not open.
LEMMA CommitRenewalRows ==
  ASSUME IInv, NEW r \in Threads, Commit(r), Follows(req[r]), NEW p \in 1 .. Len(policy)
  PROVE  \E kept \in Seq(Renewal) :
           /\ DOMAIN kept = DOMAIN renewal[p]
           /\ \A i \in DOMAIN renewal[p] :
                kept[i].status = IF req[r].at = <<p, i>> THEN req[r].status ELSE renewal[p][i].status
           /\ renewal'[p] = IF p \in req[r].ren THEN Append(kept, [status |-> "UPCOMING", next |-> 0])
                            ELSE kept
  <1> DEFINE q == req[r]
             old == Len(policy)
             n == old + Len(q.new)
             new == [status |-> "UPCOMING", next |-> 0]
             k == q.at[2]
             s == renewal[p]
             w == Written(s[k], q)
             kept == IF p = q.at[1] THEN [s EXCEPT ![k] = Written(@, q)] ELSE s
  <1>1. renewal' = [x \in 1 .. n |->
           LET before == IF x > old THEN <<>>
                         ELSE IF x = q.at[1] THEN [renewal[x] EXCEPT ![q.at[2]] = Written(@, q)]
                         ELSE renewal[x]
           IN  IF x \in q.ren \/ (x > old /\ Followed(q))
                 THEN Append(before, [status |-> "UPCOMING", next |-> 0]) ELSE before]
    BY DEF Commit
  <1>2. /\ q \in Plan /\ old \in Nat /\ n \in Nat /\ Len(q.new) \in Nat
        /\ renewal \in [1 .. old -> Seq(Renewal)] /\ All = 1 .. old
    BY CommitSizes
  <1>3. p \in 1 .. n /\ ~(p > old) /\ p # 0
    BY <1>2
  <1>4. renewal'[p] = IF p \in q.ren THEN Append(kept, new) ELSE kept
    BY <1>1, <1>3
  <1>5. s \in Seq(Renewal) /\ DOMAIN s = 1 .. Len(s) /\ Len(s) \in Nat /\ s \in [1 .. Len(s) -> Renewal]
    <2>1. s \in Seq(Renewal)
      BY <1>2
    <2> HIDE DEF s
    <2> QED
      BY <2>1, LenProperties
  <1>6. q.at \in Nat \X Nat
    BY <1>2 DEF Plan
  <1>7. CASE p # q.at[1]
    <2>1. kept = s /\ \A i \in DOMAIN s : q.at # <<p, i>>
      BY <1>7
    <2> HIDE DEF kept, new
    <2> QED
      BY <1>4, <1>5, <2>1 DEF new
  <1>8. CASE p = q.at[1]
    <2>1. q.at = <<p, k>> /\ q.at # <<0, 0>>
      BY <1>3, <1>6, <1>8
    <2>2. k \in DOMAIN s /\ q.was = s[k].status
      BY <1>8, <2>1 DEF Follows
    <2>3. q.status # q.was => q.status \in AnyStatus
      BY <2>1, CommitSizes DEF Sound, Apt
    <2>4. s[k] \in Renewal
      BY <1>5, <2>2
    <2>5. w \in Renewal /\ w.status = q.status
      <3>1. w \in Renewal
        BY <1>2, <2>3, <2>4, WrittenType
      <3>2. w.status = IF q.status = q.was THEN s[k].status ELSE q.status
        BY DEF Written
      <3> QED
        BY <2>2, <3>1, <3>2
    <2>6. kept = [s EXCEPT ![k] = w]
      BY <1>8
    <2>7. \A i : q.at = <<p, i>> <=> i = k
      BY <2>1
    <2> HIDE DEF w, s, k, q, kept, new
    <2>8. kept \in [1 .. Len(s) -> Renewal] /\ \A i \in 1 .. Len(s) : kept[i] = IF i = k THEN w ELSE s[i]
      BY <1>5, <2>5, <2>6
    <2>9. kept \in Seq(Renewal) /\ DOMAIN kept = DOMAIN s
      BY <1>5, <2>8, SeqFromFunction
    <2>10. \A i \in DOMAIN s : kept[i].status = IF q.at = <<p, i>> THEN q.status ELSE s[i].status
      BY <1>5, <2>5, <2>7, <2>8
    <2> QED
      BY <1>4, <2>9, <2>10 DEF s, q, new
  <1> QED
    BY <1>7, <1>8

\* A policy has one renewal under way after a commit if it had one before.
LEMMA CommitOpenOnce ==
  ASSUME IInv, NEW r \in Threads, Commit(r), OpenOnce, Fresh(req[r])
  PROVE  OpenOnce'
  <1> DEFINE q == req[r]
             old == Len(policy)
             n == old + Len(q.new)
             new == [status |-> "UPCOMING", next |-> 0]
  <1>1. old \in Nat /\ n \in Nat /\ Len(q.new) \in Nat /\ All = 1 .. old
    BY CommitSizes
  <1>2. All' = 1 .. n
    BY CommitPolicies DEF All
  <1>3. Follows(q)
    BY DEF Fresh
  <1>4. new \in Renewal
    BY DEF Renewal, Open
  <1>5. "reopened" \notin seen' => "reopened" \notin seen /\ "reopened" \notin q.marks
    BY CommitRest
  <1> SUFFICES ASSUME "reopened" \notin seen', NEW p \in 1 .. n,
                      NEW i \in DOMAIN renewal'[p], NEW j \in DOMAIN renewal'[p],
                      renewal'[p][i].status \in Open, renewal'[p][j].status \in Open
               PROVE  i = j
    BY <1>2 DEF OpenOnce
  <1>6. CASE p > old
    <2>1. renewal'[p] = IF p \in q.ren \/ (p > old /\ Followed(q)) THEN Append(<<>>, new) ELSE <<>>
      BY <1>6 DEF Commit
    <2> HIDE DEF new
    <2>2. DOMAIN Append(<<>>, new) = {1} /\ DOMAIN <<>> = {}
      BY <1>4
    <2> QED
      BY <2>1, <2>2
  <1>7. CASE ~(p > old)
    <2>1. p \in 1 .. old
      BY <1>1, <1>7
    <2>2. PICK kept \in Seq(Renewal) :
             /\ DOMAIN kept = DOMAIN renewal[p]
             /\ \A m \in DOMAIN renewal[p] :
                  kept[m].status = IF q.at = <<p, m>> THEN q.status ELSE renewal[p][m].status
             /\ renewal'[p] = IF p \in q.ren THEN Append(kept, new) ELSE kept
      BY <1>3, <2>1, CommitRenewalRows
    <2>3. CASE p \in q.ren
      <3>1. \A m \in DOMAIN kept : kept[m].status \notin Open
        BY <1>3, <2>2, <2>3 DEF Follows
      <3>2. /\ DOMAIN kept = 1 .. Len(kept) /\ Len(kept) \in Nat
            /\ DOMAIN renewal'[p] = 1 .. Len(kept) + 1
            /\ \A m \in 1 .. Len(kept) : renewal'[p][m] = kept[m]
        BY <1>4, <2>2, <2>3, AppendFacts
      <3>3. \A m \in 1 .. Len(kept) + 1 : m \in 1 .. Len(kept) \/ m = Len(kept) + 1
        BY <3>2
      <3> QED
        BY <3>1, <3>2, <3>3
    <2>4. CASE p \notin q.ren
      <3>1. \A m \in DOMAIN renewal[p] : kept[m].status \in Open => renewal[p][m].status \in Open
        <4> SUFFICES ASSUME NEW m \in DOMAIN renewal[p], kept[m].status \in Open
                     PROVE  renewal[p][m].status \in Open
          OBVIOUS
        <4>1. CASE q.at = <<p, m>>
          <5>1. q.at # <<0, 0>> /\ q.at[1] = p /\ q.at[2] = m
            BY <2>1, <4>1
          <5>2. q.status \in Open
            BY <2>2, <4>1
          <5>3. q.was = renewal[p][m].status /\ q.was \in Open
            BY <1>3, <1>5, <5>1, <5>2 DEF Follows
          <5> QED
            BY <5>3
        <4>2. CASE q.at # <<p, m>>
          BY <2>2, <4>2
        <4> QED
          BY <4>1, <4>2
      <3>2. renewal'[p] = kept
        BY <2>2, <2>4
      <3>3. i \in DOMAIN renewal[p] /\ j \in DOMAIN renewal[p]
        BY <2>2, <3>2
      <3>4. renewal[p][i].status \in Open /\ renewal[p][j].status \in Open
        BY <3>1, <3>2, <3>3
      <3> QED
        BY <1>1, <1>5, <2>1, <3>3, <3>4 DEF OpenOnce
    <2> QED
      BY <2>3, <2>4
  <1> QED
    BY <1>6, <1>7

\* The histories are joined after a commit if they were before.
LEMMA CommitJoined ==
  ASSUME IInv, NEW r \in Threads, Commit(r), AllJoined, Fresh(req[r])
  PROVE  AllJoined'
  <1> DEFINE q == req[r]
             old == Len(policy)
             n == old + Len(q.new)
             row == [who |-> q.who, from |-> q.day, to |-> 0]
  <1>1. /\ q \in Plan /\ Sound(q)
        /\ old \in Nat /\ n \in Nat /\ Len(q.new) \in Nat /\ All = 1 .. old
        /\ producer \in [1 .. old -> Seq(Primary)]
    BY CommitSizes
  <1>2. All' = 1 .. n
    BY CommitPolicies DEF All
  <1>3. producer' = [p \in 1 .. n |->
           IF p > old
             THEN (IF q.who = None THEN <<>> ELSE <<row>>)
             ELSE IF p = q.target THEN Replaced(producer[p], q) ELSE producer[p]]
    BY DEF Commit
  <1>4. /\ \A p \in 1 .. old : policy'[p].from = policy[p].from
        /\ \A p \in 1 .. n : p > old => policy'[p].from = q.from
    BY CommitPolicyRows
  <1>5. today' = today /\ today \in Nat
    BY Reads, DayType DEF Commit
  <1>6. Registers(q) /\ Assigns(q)
    BY DEF Fresh
  <1>7. q.target # 0 => q.who \in Producers
    BY <1>1 DEF Sound, Apt
  <1>8. q.new \in Seq(Keys)
    BY <1>1 DEF Plan
  <1> HIDE DEF q, old, n, row
  <1>9. ASSUME NEW p \in 1 .. n
        PROVE  Joined(producer'[p], policy'[p].from, today)
    <2>1. CASE p > old /\ q.who = None
      <3>1. producer'[p] = <<>> /\ Len(<<>>) = 0
        BY <1>3, <2>1
      <3>2. 1 .. 0 = {}
        OBVIOUS
      <3> QED
        BY <3>1, <3>2 DEF Joined
    <2>2. CASE p > old /\ q.who # None
      <3>1. producer'[p] = <<row>> /\ Len(<<row>>) = 1
        BY <1>3, <2>2
      <3>2. q.new # <<>>
        <4>1. Len(q.new) # 0
          BY <1>1, <2>2 DEF n
        <4> QED
          BY <4>1, <1>8
      <3>3. policy'[p].from = "online"
        BY <1>4, <1>6, <2>2, <3>2 DEF Registers
      <3>4. \A i \in 1 .. 1 : ~(i < 1) /\ ~(i > 1)
        OBVIOUS
      <3> QED
        BY <3>1, <3>3, <3>4 DEF Joined
    <2>3. CASE ~(p > old)
      <3>1. p \in 1 .. old /\ p # 0
        BY <1>1, <2>3
      <3>2. producer[p] \in Seq(Primary) /\ Joined(producer[p], policy[p].from, today)
        BY <1>1, <3>1 DEF AllJoined
      <3>3. producer'[p] = IF p = q.target THEN Replaced(producer[p], q) ELSE producer[p]
        BY <1>3, <2>3
      <3>4. policy'[p].from = policy[p].from
        BY <1>4, <3>1
      <3>5. CASE p = q.target
        <4>1. /\ q.open = Len(producer[p]) /\ q.day <= today
              /\ q.open > 1 \/ (q.open = 1 /\ policy[p].from # "online") =>
                   producer[p][q.open].from <= q.day
          BY <1>6, <3>1, <3>5 DEF Assigns
        <4>2. Joined(Replaced(producer[p], q), policy[p].from, today)
          BY <1>1, <1>5, <1>7, <3>1, <3>2, <3>5, <4>1, ReplacedJoined
        <4> QED
          BY <3>3, <3>4, <3>5, <4>2
      <3>6. CASE p # q.target
        BY <3>2, <3>3, <3>4, <3>6
      <3> QED
        BY <3>5, <3>6
    <2> QED
      BY <2>1, <2>2, <2>3
  <1> QED
    BY <1>2, <1>5, <1>9 DEF AllJoined, Joined

\* A commit overtakes every other request that has begun.
LEMMA CommitCalm ==
  ASSUME IInv, IInv', Calm, NEW r \in Threads, Commit(r)
  PROVE  Calm'
  <1>1. seen' = seen \cup req[r].marks \cup (IF req[r].stale THEN {"raced"} ELSE {})
    BY DEF Commit
  <1>2. CASE "raced" \in seen
    BY <1>1, <1>2 DEF Calm
  <1>3. CASE req[r].stale
    BY <1>1, <1>3 DEF Calm
  <1>4. CASE "raced" \notin seen /\ ~req[r].stale
    <2>1. /\ CommissionOnce /\ LinkOnce /\ PaidOnce /\ OpenOnce /\ NumbersDiffer /\ AllJoined
          /\ PlansFresh
      BY <1>4 DEF Calm
    <2>2. req[r].kind # ""
      BY DEF Commit
    <2>3. Fresh(req[r])
      BY <1>4, <2>1, <2>2 DEF PlansFresh
    <2>4. CommissionOnce' /\ LinkOnce' /\ PaidOnce'
      BY <2>1, <2>3, CommitCommissionOnce, CommitPaid
    <2>5. OpenOnce' /\ NumbersDiffer' /\ AllJoined'
      BY <2>1, <2>3, CommitOpenOnce, CommitNumbers, CommitJoined
    <2>6. PlansFresh'
      <3>1. req' = [s \in Threads |->
              IF s = r THEN NoPlan ELSE [req[s] EXCEPT !.stale = (req[s].kind # "")]]
        BY DEF Commit
      <3>2. ASSUME NEW s \in Threads
            PROVE  req'[s].kind = "" \/ req'[s].stale
        <4>1. CASE s = r
          BY <3>1, <4>1 DEF NoPlan
        <4>2. CASE s # r
          <5> DEFINE q == req[s]
          <5>1. q \in Plan
            BY CommitSizes
          <5>2. req'[s] = [q EXCEPT !.stale = (q.kind # "")]
            BY <3>1, <4>2
          <5> HIDE DEF q
          <5>3. req'[s].kind = q.kind /\ req'[s].stale = (q.kind # "")
            BY <5>1, <5>2 DEF Plan
          <5> QED
            BY <5>3
        <4> QED
          BY <4>1, <4>2
      <3> QED
        BY <3>2 DEF PlansFresh
    <2> QED
      BY <2>4, <2>5, <2>6 DEF Calm
  <1> QED
    BY <1>2, <1>3, <1>4

\* A request lost, a file or a photograph staged, and midnight.
LEMMA StagingCalm ==
  ASSUME IInv, IInv', Calm,
         (\E r \in Threads : Die(r)) \/ Upload \/ Capture \/ Midnight \/ UNCHANGED vars
  PROVE  Calm'
  <1>1. UNCHANGED <<policy, commission, renewal, producer, seen>>
    BY DEF Die, Upload, Capture, Midnight, vars
  <1>2. today \in Day /\ today' \in Day /\ today \in Nat
    <2>1. today' \in Day
      BY DEF IInv, TypeOK
    <2> QED
      BY <2>1, Reads, DayType
  <1>3. today' = today \/ today' = today + 1
    BY DEF Die, Upload, Capture, Midnight, vars
  <1>4. today <= today'
    BY <1>2, <1>3
  <1>5. req' \in [Threads -> Plan]
    BY DEF IInv
  <1>6. \A s \in Threads : req'[s] = req[s] \/ req'[s].kind = ""
    <2>1. CASE \E r \in Threads : Die(r)
      <3>1. PICK r \in Threads : req' = [req EXCEPT ![r] = NoPlan]
        BY <2>1 DEF Die
      <3>2. NoPlan.kind = "" /\ req \in [Threads -> Plan]
        BY DEF NoPlan, IInv
      <3> QED
        BY <3>1, <3>2
    <2>2. CASE Upload \/ Capture \/ Midnight \/ UNCHANGED vars
      BY <2>2 DEF Upload, Capture, Midnight, vars
    <2> QED
      BY <2>1, <2>2
  <1> QED
    BY <1>1, <1>2, <1>4, <1>5, <1>6, CalmStays

LEMMA InitCalm == Init => Calm
  <1> SUFFICES ASSUME Init PROVE Calm
    OBVIOUS
  <1>1. IInv
    BY InitIInv
  <1>2. \A p \in All : commission[p] = Entry /\ producer[p] = <<>>
                       /\ renewal[p] = <<[status |-> "UPCOMING", next |-> 0]>>
    BY DEF Init
  <1>3. \A p \in All : policy[p].from = "hand" /\ policy[p].links = 0 /\ policy[p].paid = 0
    <2>1. CASE policy = <<>>
      BY <2>1 DEF All
    <2>2. CASE \E k \in Keys : policy = <<ByHand(k), ByHand(k)>>
      <3>1. PICK k \in Keys : policy = <<ByHand(k), ByHand(k)>>
        BY <2>2
      <3> DEFINE b == ByHand(k)
      <3>2. b.from = "hand" /\ b.links = 0 /\ b.paid = 0
        BY DEF ByHand
      <3> HIDE DEF b
      <3>3. policy = <<b, b>>
        BY <3>1 DEF b
      <3> QED
        BY <3>2, <3>3 DEF All
    <2> QED
      BY <2>1, <2>2 DEF Init
  <1>4. CommissionOnce
    <2>1. Len(Entry) <= 1
      BY DEF Entry
    <2> QED
      BY <1>2, <2>1 DEF CommissionOnce
  <1>5. LinkOnce /\ PaidOnce
    BY <1>3 DEF LinkOnce, PaidOnce
  <1>6. OpenOnce
    <2> DEFINE first == [status |-> "UPCOMING", next |-> 0]
    <2>1. \A p \in All : renewal[p] = <<first>>
      BY <1>2
    <2> HIDE DEF first
    <2>2. DOMAIN <<first>> = {1}
      OBVIOUS
    <2> QED
      BY <2>1, <2>2 DEF OpenOnce
  <1>7. NumbersDiffer
    BY <1>3 DEF NumbersDiffer
  <1>8. AllJoined
    <2>1. Len(<<>>) = 0 /\ 1 .. 0 = {}
      OBVIOUS
    <2> QED
      BY <1>2, <2>1 DEF AllJoined, Joined
  <1>9. PlansFresh
    <2>1. \A r \in Threads : req[r].kind = ""
      BY DEF Init, NoPlan
    <2> QED
      BY <2>1 DEF PlansFresh
  <1> QED
    BY <1>4, <1>5, <1>6, <1>7, <1>8, <1>9 DEF Calm

LEMMA StepCalm == IInv /\ Calm /\ [Next]_vars => Calm'
  <1> SUFFICES ASSUME IInv, Calm, [Next]_vars PROVE Calm'
    OBVIOUS
  <1>0. IInv'
    BY StepIInv
  <1>1. CASE (\E r \in Threads : Die(r)) \/ Upload \/ Capture \/ Midnight \/ UNCHANGED vars
    BY <1>0, <1>1, StagingCalm
  <1>2. ASSUME NEW r \in Threads, RegisterByHand(r) PROVE Calm'
    BY <1>0, <1>2, RegisterByHandCalm
  <1>3. ASSUME NEW r \in Threads, OneClick(r) \/ ConfirmCapture(r) PROVE Calm'
    BY <1>0, <1>3, PhotoCalm
  <1>4. ASSUME NEW r \in Threads, IssueOnline(r) PROVE Calm'
    BY <1>0, <1>4, IssueOnlineCalm
  <1>5. ASSUME NEW r \in Threads,
               ImportEmissions(r) \/ ImportMother(r) \/ ImportClients(r) \/ ImportRoles(r) PROVE Calm'
    BY <1>0, <1>5, ImportsCalm
  <1>6. ASSUME NEW r \in Threads, ImportPayments(r) PROVE Calm'
    BY <1>0, <1>6, ImportPaymentsCalm
  <1>7. ASSUME NEW r \in Threads, Rematerialize(r) PROVE Calm'
    BY <1>0, <1>7, RematerializeCalm
  <1>8. ASSUME NEW r \in Threads, SetStatus(r) \/ SameCarrier(r) \/ Requote(r) PROVE Calm'
    BY <1>0, <1>8, RenewalsCalm
  <1>9. ASSUME NEW r \in Threads, NewQuote(r) \/ AnswerQuote(r) PROVE Calm'
    BY <1>0, <1>9, QuotesCalm
  <1>10. ASSUME NEW r \in Threads, SaveRates(r) \/ SaveSplit(r) \/ CreateProducer(r) PROVE Calm'
    BY <1>0, <1>10, RulesCalm
  <1>11. ASSUME NEW r \in Threads, ReassignPolicy(r) \/ AssignToProducer(r) PROVE Calm'
    BY <1>0, <1>11, AssignCalm
  <1>12. ASSUME NEW r \in Threads, Commit(r) PROVE Calm'
    BY <1>0, <1>12, CommitCalm
  <1> QED
    BY <1>1, <1>2, <1>3, <1>4, <1>5, <1>6, <1>7, <1>8, <1>9, <1>10, <1>11, <1>12 DEF Next

LEMMA AlwaysCalm == Spec => [](IInv /\ Calm)
  <1>1. Init => IInv /\ Calm
    BY InitIInv, InitCalm
  <1>2. IInv /\ Calm /\ [Next]_vars => (IInv /\ Calm)'
    BY StepIInv, StepCalm
  <1> QED
    BY <1>1, <1>2, PTL DEF Spec

\* However often the portfolio is imported, paid and materialized, and whatever dies
\* between, a policy has one commission, one renewal under way, one payment and one link:
\* what a request has seen to be missing is still missing at its commit, unless another
\* commit came between (materialize_portfolio.materialize_portfolio,
\* excel_import.link_emission_roles, excel_import.import_payment_rows).
THEOREM DerivedOnlyOnce == Spec => []DerivedOnce
  <1>1. IInv /\ Calm => DerivedOnce
    <2> SUFFICES ASSUME IInv, Calm, "raced" \notin seen, NEW p \in All
                 PROVE  /\ Len(commission[p]) <= 1 /\ policy[p].links <= 1
                        /\ "reopened" \in seen \/
                             Cardinality({i \in DOMAIN renewal[p] : renewal[p][i].status \in Open}) <= 1
                        /\ "twice" \in seen \/ policy[p].paid <= 1
      BY DEF DerivedOnce
    <2>1. CommissionOnce /\ LinkOnce /\ PaidOnce /\ OpenOnce
      BY DEF Calm
    <2> DEFINE S == {i \in DOMAIN renewal[p] : renewal[p][i].status \in Open}
    <2>2. "reopened" \notin seen => Cardinality(S) <= 1
      <3> SUFFICES ASSUME "reopened" \notin seen PROVE Cardinality(S) <= 1
        OBVIOUS
      <3>1. \A i, j \in S : i = j
        BY <2>1 DEF OpenOnce
      <3> HIDE DEF S
      <3>2. S = {} \/ \E i : S = {i}
        BY <3>1
      <3>3. Cardinality({}) = 0 /\ \A i : Cardinality({i}) = 1
        BY FS_EmptySet, FS_Singleton
      <3>4. Cardinality(S) = 0 \/ Cardinality(S) = 1
        BY <3>2, <3>3
      <3> QED
        BY <3>4
    <2> QED
      BY <2>1, <2>2 DEF CommissionOnce, LinkOnce, PaidOnce
  <1> QED
    BY <1>1, AlwaysCalm, PTL

\* A number on file twice was entered by hand the second time: a photograph, a file and the
\* public channel look the number up, and only a request that was overtaken has looked too
\* early (policy_photo_commit.commit_policy_from_draft, excel_import.import_emissions,
\* public_channel_issuance._create_policy).
THEOREM NumbersOnFileOnce == Spec => []NumberOnce
  <1>1. Calm => NumberOnce
    BY DEF Calm, NumbersDiffer, NumberOnce
  <1> QED
    BY <1>1, AlwaysCalm, PTL

\* The history of a policy's producers has no gap and no overlap, and no row ends before it
\* starts but the first of a policy sold online ahead of its cover: the row a reassignment
\* closes is the last, on a day the calendar has reached
\* (producer_portfolio.assign_policy_primary).
THEOREM HistoryJoined == Spec => []ProducerHistory
  <1>1. IInv /\ Calm => ProducerHistory
    <2> SUFFICES ASSUME IInv, Calm, "raced" \notin seen,
                        NEW p \in All, NEW i \in 1 .. Len(producer[p]) - 1
                 PROVE  /\ producer[p][i].to = producer[p][i + 1].from
                        /\ i > 1 \/ policy[p].from # "online" =>
                             producer[p][i].from <= producer[p][i].to
      BY DEF ProducerHistory
    <2>1. Joined(producer[p], policy[p].from, today)
      BY DEF Calm, AllJoined
    <2>2. Len(producer[p]) \in Nat
      <3>1. producer[p] \in Seq(Primary)
        BY Reads
      <3> QED
        BY <3>1
    <2>3. i \in 1 .. Len(producer[p]) /\ i < Len(producer[p])
      BY <2>2
    <2> QED
      BY <2>1, <2>3 DEF Joined
  <1> QED
    BY <1>1, AlwaysCalm, PTL
=============================================================================
