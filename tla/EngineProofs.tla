---------------------------- MODULE EngineProofs ----------------------------
(***************************************************************************)
(* Theorems about Engine, for any configurations, payloads and instants:   *)
(* limits of rules, rewards, unlocks, and the rows that must agree.        *)
(***************************************************************************)
EXTENDS Engine, FiniteSetTheorems, NaturalsInduction, TLAPS

FiringsOn(r, d) == {f \in firings[r] : DayOf(f[2]) = d}

\* The part of TypeOK that the rule state needs.
RuleTypes ==
  /\ config \in Configs
  /\ n \in Nat
  /\ lastFired \in [Rules -> Instants \union {Never}]
  /\ fires \in [Rules -> [Days -> Nat]]
  /\ firings \in [Rules -> SUBSET (Nat \X Instants)]
  /\ \A r \in Rules : \A f \in firings[r] : f[1] < n

\* fire_counts counts the firings of the day, up to the cap.
Counted ==
  \A r \in Rules : \A d \in Days :
    /\ IsFiniteSet(FiringsOn(r, d))
    /\ Cardinality(FiringsOn(r, d)) = fires[r][d]
    /\ config.rules[r].cap > 0 => fires[r][d] <= config.rules[r].cap

\* last_fired is not older than any firing of a rule with a cooldown: an older
\* event is within the cooldown, too.
Newest ==
  \A r \in Rules :
    config.rules[r].cooldown > 0 =>
      \A f \in firings[r] : lastFired[r] # Never /\ f[2] <= lastFired[r]

Spaced ==
  \A r \in Rules : \A f, g \in firings[r] :
    f # g /\ f[2] <= g[2] => g[2] - f[2] >= config.rules[r].cooldown

\* What a step does to the rule state: a rule either keeps its state, or its
\* cooldown and cap allow it to fire.
Fires(r, at) ==
  /\ ~CooldownActive(r, at)
  /\ ~FrequencyCapped(r, at)
  /\ lastFired'[r] = at
  /\ fires'[r] = [fires[r] EXCEPT ![DayOf(at)] = @ + 1]
  /\ firings'[r] = firings[r] \union {<<n, at>>}

Keeps(r) ==
  /\ lastFired'[r] = lastFired[r]
  /\ fires'[r] = fires[r]
  /\ firings'[r] = firings[r]

LEMMA RuleStep ==
  ASSUME RuleTypes, NEW type, NEW at \in Instants, NEW payload,
         Process(type, at, payload)
  PROVE  /\ config' = config /\ n' = n + 1
         /\ \A r \in Rules : Keeps(r) \/ Fires(r, at)
         /\ lastFired' \in [Rules -> Instants \union {Never}]
         /\ fires' \in [Rules -> [Days -> Nat]]
         /\ firings' \in [Rules -> SUBSET (Nat \X Instants)]
<1> DEFINE fired == Fired(type, at, payload)
<1>1. config' = config /\ n' = n + 1 /\ RecordFires(fired, at)
  BY DEF Process
<1>2. \A r \in fired : ~CooldownActive(r, at) /\ ~FrequencyCapped(r, at)
  BY DEF Fired
<1> HIDE DEF fired
<1>3. DayOf(at) \in Days /\ n \in Nat
  BY DEF Days, RuleTypes
<1>4. ASSUME NEW r \in Rules
      PROVE  Keeps(r) \/ Fires(r, at)
  BY <1>1, <1>2, <1>4 DEF RecordFires, Keeps, Fires
<1>5. lastFired' \in [Rules -> Instants \union {Never}]
  BY <1>1 DEF RecordFires, RuleTypes
<1>6. fires' \in [Rules -> [Days -> Nat]]
  BY <1>1, <1>3 DEF RecordFires, RuleTypes
<1>7. firings' \in [Rules -> SUBSET (Nat \X Instants)]
  BY <1>1, <1>3 DEF RecordFires, RuleTypes
<1> QED
  BY <1>1, <1>4, <1>5, <1>6, <1>7

\* The rules of a configuration have limits.
LEMMA LimitsAreNatural ==
  ASSUME config \in Configs
  PROVE  \A r \in Rules : config.rules[r].cooldown \in Nat /\ config.rules[r].cap \in Nat
BY ConfigsAssumption DEF EngineConfig, RuleDef, Rules

\* Rule state keeps its types whatever the event is.
LEMMA RuleTypesHold == Spec => []RuleTypes
<1>1. Init => RuleTypes
  BY EngineAssumption DEF Init, RuleTypes
<1>2. RuleTypes /\ [Next]_vars => RuleTypes'
  <2> SUFFICES ASSUME RuleTypes, [Next]_vars
               PROVE  RuleTypes'
    OBVIOUS
  <2>1. ASSUME NEW type \in Types, NEW at \in Instants, NEW payload \in Payloads,
               Process(type, at, payload)
        PROVE  RuleTypes'
    <3>1. /\ config' = config /\ n' = n + 1
          /\ \A r \in Rules : Keeps(r) \/ Fires(r, at)
          /\ lastFired' \in [Rules -> Instants \union {Never}]
          /\ fires' \in [Rules -> [Days -> Nat]]
          /\ firings' \in [Rules -> SUBSET (Nat \X Instants)]
      BY <2>1, RuleStep
    <3>2. Rules' = Rules /\ Days' = Days /\ n \in Nat
      BY <3>1 DEF Rules, Days, RuleTypes
    <3>3. ASSUME NEW r \in Rules, NEW f \in firings'[r]
          PROVE  f[1] < n'
      <4>1. \A g \in firings[r] : g \in Nat \X Instants /\ g[1] < n
        BY DEF RuleTypes
      <4>2. f \in firings[r] \/ f = <<n, at>>
        BY <3>1, <3>3 DEF Keeps, Fires
      <4> QED
        BY <3>1, <3>2, <4>1, <4>2
    <3>4. config' \in Configs /\ n' \in Nat
      BY <3>1, <3>2 DEF RuleTypes
    <3> QED
      BY <3>1, <3>2, <3>3, <3>4 DEF RuleTypes
  <2>2. CASE UNCHANGED vars
    BY <2>2 DEF vars, ruleState, RuleTypes, Rules
  <2> QED
    BY <2>1, <2>2 DEF Next
<1> QED
  BY <1>1, <1>2, PTL DEF Spec

\* fire_counts is the number of firings of the day and stays within the cap.
LEMMA CountedStep ==
  ASSUME RuleTypes, Counted, NEW type, NEW at \in Instants, NEW payload,
         Process(type, at, payload)
  PROVE  Counted'
<1>1. Rules' = Rules /\ config' = config
  BY RuleStep DEF Rules
<1> SUFFICES ASSUME NEW r \in Rules, NEW d \in Days
             PROVE  /\ IsFiniteSet(FiringsOn(r, d)')
                    /\ Cardinality(FiringsOn(r, d)') = fires'[r][d]
                    /\ config.rules[r].cap > 0 =>
                         fires'[r][d] <= config.rules[r].cap
  BY <1>1 DEF Counted, Days
<1>2. /\ IsFiniteSet(FiringsOn(r, d))
      /\ Cardinality(FiringsOn(r, d)) = fires[r][d]
      /\ config.rules[r].cap > 0 => fires[r][d] <= config.rules[r].cap
  BY DEF Counted
<1>3. CASE Keeps(r) \/ (Fires(r, at) /\ DayOf(at) # d)
  <2>1. FiringsOn(r, d)' = FiringsOn(r, d) /\ fires'[r][d] = fires[r][d]
    BY <1>3 DEF FiringsOn, Keeps, Fires, RuleTypes
  <2> QED
    BY <1>2, <2>1
<1>4. CASE Fires(r, at) /\ DayOf(at) = d
  <2>1. FiringsOn(r, d)' = FiringsOn(r, d) \union {<<n, at>>}
    BY <1>4 DEF FiringsOn, Fires
  <2>2. <<n, at>> \notin FiringsOn(r, d)
    BY DEF FiringsOn, RuleTypes
  <2>3. fires'[r][d] = fires[r][d] + 1 /\ fires[r][d] \in Nat
    BY <1>4 DEF Fires, RuleTypes
  <2>4. config.rules[r].cap \in Nat
    BY LimitsAreNatural DEF RuleTypes
  <2>5. config.rules[r].cap > 0 => fires[r][d] < config.rules[r].cap
    BY <1>4, <2>3, <2>4 DEF Fires, FrequencyCapped
  <2> QED
    BY <1>2, <2>1, <2>2, <2>3, <2>4, <2>5, FS_AddElement
<1> QED
  BY <1>3, <1>4, RuleStep

\* A rule with a cooldown fires no earlier than its cooldown after the newest of
\* its firings, hence after all of them.
LEMMA SpacedStep ==
  ASSUME RuleTypes, Newest, Spaced, NEW type, NEW at \in Instants, NEW payload,
         Process(type, at, payload)
  PROVE  Newest' /\ Spaced'
<1>1. Rules' = Rules /\ config' = config
  BY RuleStep DEF Rules
<1> SUFFICES ASSUME NEW r \in Rules
             PROVE  /\ config.rules[r].cooldown > 0 =>
                         \A f \in firings'[r] :
                           lastFired'[r] # Never /\ f[2] <= lastFired'[r]
                    /\ \A f, g \in firings'[r] : f # g /\ f[2] <= g[2] =>
                         g[2] - f[2] >= config.rules[r].cooldown
  BY <1>1 DEF Newest, Spaced
<1>2. config.rules[r].cooldown \in Nat /\ at \in Nat /\ at # Never
  BY EngineAssumption, LimitsAreNatural DEF RuleTypes, Never
<1>3. \A f \in firings[r] : f[2] \in Nat
  <2>1. firings[r] \subseteq Nat \X Instants
    BY DEF RuleTypes
  <2>2. Instants \subseteq Nat
    BY EngineAssumption
  <2> QED
    BY <2>1, <2>2
<1>4. CASE Keeps(r)
  BY <1>4 DEF Keeps, Newest, Spaced
<1>5. CASE Fires(r, at)
  <2>1. lastFired'[r] = at /\ firings'[r] = firings[r] \union {<<n, at>>}
    BY <1>5 DEF Fires
  <2>2. ASSUME config.rules[r].cooldown > 0, NEW f \in firings[r]
        PROVE  at - f[2] >= config.rules[r].cooldown
    <3>1. /\ lastFired[r] # Never /\ f[2] <= lastFired[r]
          /\ lastFired[r] \in Nat
      BY <2>2, EngineAssumption DEF Newest, RuleTypes
    <3>2. ~(at - lastFired[r] < config.rules[r].cooldown)
      BY <1>5, <2>2, <3>1 DEF Fires, CooldownActive
    <3> QED
      BY <1>2, <1>3, <3>1, <3>2
  <2>3. config.rules[r].cooldown > 0 => \A f \in firings'[r] : f[2] <= at
    BY <1>2, <1>3, <2>1, <2>2
  <2>4. ASSUME NEW f \in firings'[r], NEW g \in firings'[r], f # g, f[2] <= g[2]
        PROVE  g[2] - f[2] >= config.rules[r].cooldown
    <3>1. CASE f \in firings[r] /\ g \in firings[r]
      BY <2>4, <3>1 DEF Spaced
    <3>2. CASE f \in firings[r] /\ g = <<n, at>>
      BY <1>2, <1>3, <2>2, <2>4, <3>2
    <3>3. CASE f = <<n, at>> /\ g \in firings[r]
      BY <1>2, <1>3, <2>2, <2>4, <3>3
    <3> QED
      BY <2>1, <2>4, <3>1, <3>2, <3>3
  <2> QED
    BY <1>2, <2>1, <2>3, <2>4
<1> QED
  BY <1>4, <1>5, RuleStep

\* Cooldowns and caps hold for every configuration and every order of events
\* (cooldown_active, frequency_capped and record_fire).
THEOREM LimitsHold == Spec => []FiringsLimited
<1>1. Init => Counted /\ Newest /\ Spaced
  <2> SUFFICES ASSUME Init
               PROVE  Counted /\ Newest /\ Spaced
    OBVIOUS
  <2>1. \A r \in Rules : firings[r] = {}
    BY DEF Init
  <2>2. ASSUME NEW r \in Rules, NEW d \in Days
        PROVE  FiringsOn(r, d) = {} /\ fires[r][d] = 0
    BY <2>1 DEF Init, FiringsOn
  <2>3. \A r \in Rules : config.rules[r].cap \in Nat
    BY LimitsAreNatural DEF Init
  <2>4. Counted
    BY <2>2, <2>3, FS_EmptySet DEF Counted
  <2>5. Newest /\ Spaced
    BY <2>1 DEF Newest, Spaced
  <2> QED
    BY <2>4, <2>5
<1>2. RuleTypes /\ Counted /\ Newest /\ Spaced /\ [Next]_vars
        => Counted' /\ Newest' /\ Spaced'
  <2> SUFFICES ASSUME RuleTypes, Counted, Newest, Spaced, [Next]_vars
               PROVE  Counted' /\ Newest' /\ Spaced'
    OBVIOUS
  <2>1. ASSUME NEW type \in Types, NEW at \in Instants, NEW payload \in Payloads,
               Process(type, at, payload)
        PROVE  Counted' /\ Newest' /\ Spaced'
    BY <2>1, CountedStep, SpacedStep
  <2>2. CASE UNCHANGED vars
    BY <2>2 DEF vars, ruleState, Counted, Newest, Spaced, Rules, Days, FiringsOn
  <2> QED
    BY <2>1, <2>2 DEF Next
<1>3. Counted /\ Spaced => FiringsLimited
  BY DEF Counted, Spaced, FiringsLimited, FiringsOn
<1> QED
  BY <1>1, <1>2, <1>3, RuleTypesHold, PTL DEF Spec
-----------------------------------------------------------------------------
(* Induction over data.                                                    *)

\* Induction with a set instead of a predicate.
LEMMA InductionOnNat ==
  ASSUME NEW S, 0 \in S, \A m \in Nat : m \in S => m + 1 \in S
  PROVE  Nat \subseteq S
<1> DEFINE R == OpToRel(<, Nat)
           T == Nat \ S
<1>1. SUFFICES ASSUME T # {}
               PROVE  FALSE
  OBVIOUS
<1>2. IsWellFoundedOn(R, Nat)
  BY NatLessThanWellFounded DEF OpToRel
<1>3. \A x, y \in Nat : <<y, x>> \in R <=> y < x
  BY DEF OpToRel
<1>4. T \subseteq Nat
  OBVIOUS
<1> HIDE DEF R, T
<1>5. PICK x \in T : \A y \in T : ~(<<y, x>> \in R)
  BY <1>1, <1>2, <1>4, WFMin
<1>6. x \in Nat /\ x \notin S /\ x # 0
  BY <1>5 DEF T
<1>7. x - 1 \in Nat /\ x - 1 < x /\ (x - 1) + 1 = x
  BY <1>6
<1>8. x - 1 \in S
  BY <1>3, <1>5, <1>6, <1>7 DEF T
<1> QED
  BY <1>6, <1>7, <1>8

LEMMA MaxOfPrefix ==
  ASSUME NEW m \in Nat, m > 0
  PROVE  /\ Max(1 .. m) = m /\ 1 .. m # {} /\ (1 .. m) \ {m} = 1 .. m - 1
<1>1. m \in 1 .. m /\ \A y \in 1 .. m : m >= y
  OBVIOUS
<1>2. \A x \in 1 .. m : (\A y \in 1 .. m : x >= y) => x = m
  OBVIOUS
<1> QED
  BY <1>1, <1>2 DEF Max

LEMMA MaxOfFinite ==
  ASSUME NEW m \in Nat, NEW s \in SUBSET (1 .. m), s # {}
  PROVE  Max(s) \in s
<1> DEFINE T == {k \in Nat : \A d \in SUBSET (1 .. k) :
                               d # {} => \E x \in d : \A y \in d : x >= y}
<1>1. 0 \in T
  <2>1. 1 .. 0 = {}
    OBVIOUS
  <2> QED
    BY <2>1
<1>2. ASSUME NEW k \in Nat, k \in T
      PROVE  k + 1 \in T
  <2> SUFFICES ASSUME NEW d \in SUBSET (1 .. k + 1), d # {}
               PROVE  \E x \in d : \A y \in d : x >= y
    OBVIOUS
  <2>1. CASE k + 1 \in d
    <3>1. \A y \in d : k + 1 >= y
      OBVIOUS
    <3> QED
      BY <2>1, <3>1
  <2>2. CASE k + 1 \notin d
    <3>1. d \in SUBSET (1 .. k)
      BY <2>2
    <3> QED
      BY <1>2, <3>1
  <2> QED
    BY <2>1, <2>2
<1> HIDE DEF T
<1>3. Nat \subseteq T
  BY <1>1, <1>2, InductionOnNat
<1>4. \E x \in s : \A y \in s : x >= y
  BY <1>3 DEF T
<1> QED
  BY <1>4 DEF Max

\* The function that FoldLeft computes with, the steps being in a table.
IsFold(g, base, next, m) ==
  \A s \in SUBSET (1 .. m) :
    g[s] = IF s = {} THEN base ELSE next[<<g[s \ {Max(s)}], Max(s)>>]

Foldable(base, next, S, m) ==
  \E g \in [SUBSET (1 .. m) -> S] : IsFold(g, base, next, m)

\* A fold over a sequence of m elements exists, and its values have one type.
LEMMA FoldExists ==
  ASSUME NEW S, NEW m \in Nat, NEW base \in S, NEW next \in [S \X (1 .. m) -> S]
  PROVE  Foldable(base, next, S, m)
<1> DEFINE T == {k \in Nat : k <= m => Foldable(base, next, S, k)}
<1>1. 0 \in T
  <2> DEFINE g == [s \in SUBSET (1 .. 0) |-> base]
  <2>1. g \in [SUBSET (1 .. 0) -> S] /\ IsFold(g, base, next, 0)
    BY DEF IsFold
  <2> QED
    BY <2>1 DEF Foldable
<1>2. ASSUME NEW k \in Nat, k + 1 <= m,
             NEW g \in [SUBSET (1 .. k) -> S], IsFold(g, base, next, k)
      PROVE  Foldable(base, next, S, k + 1)
  <2> DEFINE Step(h, s) == IF s = {} THEN base ELSE next[<<h[s \ {Max(s)}], Max(s)>>]
             h == [s \in SUBSET (1 .. k + 1) |-> Step(g, s)]
  <2>1. 1 .. k + 1 = (1 .. k) \union {k + 1} /\ k + 1 \in 1 .. m
    BY <1>2
  <2>2. \A s \in SUBSET (1 .. k) : h[s] = g[s]
    BY <1>2, <2>1 DEF IsFold
  <2>3. \A s \in SUBSET (1 .. k + 1) : k + 1 \in s => Max(s) = k + 1
    <3> SUFFICES ASSUME NEW s \in SUBSET (1 .. k + 1), k + 1 \in s
                 PROVE  Max(s) = k + 1
      OBVIOUS
    <3>1. \A x \in s : (\A y \in s : x >= y) => x = k + 1
      OBVIOUS
    <3>2. \A y \in s : k + 1 >= y
      OBVIOUS
    <3> QED
      BY <3>1, <3>2 DEF Max
  <2>4. \A s \in SUBSET (1 .. k + 1) : s \ {Max(s)} \in SUBSET (1 .. k)
    BY <2>1, <2>3
  <2>5. ASSUME NEW s \in SUBSET (1 .. k + 1)
        PROVE  h[s] \in S
    <3>1. CASE k + 1 \in s
      <4>1. g[s \ {Max(s)}] \in S /\ Max(s) \in 1 .. m
        BY <2>1, <2>3, <2>4, <3>1
      <4> QED
        BY <4>1
    <3>2. CASE k + 1 \notin s
      BY <2>1, <2>2, <3>2
    <3> QED
      BY <3>1, <3>2
  <2>6. \A s \in SUBSET (1 .. k + 1) : h[s] = Step(h, s)
    BY <2>2, <2>4
  <2>7. h \in [SUBSET (1 .. k + 1) -> S]
    BY <2>5
  <2>8. IsFold(h, base, next, k + 1)
    BY <2>6 DEF IsFold
  <2> QED
    BY <2>7, <2>8 DEF Foldable
<1>3. \A k \in Nat : k \in T => k + 1 \in T
  <2>1. \A k \in Nat : k + 1 <= m /\ Foldable(base, next, S, k)
          => Foldable(base, next, S, k + 1)
    BY <1>2 DEF Foldable
  <2> QED
    BY <2>1
<1>4. Nat \subseteq T
  <2> HIDE DEF T
  <2> QED
    BY <1>1, <1>3, InductionOnNat
<1> QED
  BY <1>4
-----------------------------------------------------------------------------
(* Sequences of sequences.                                                 *)

\* The function that FlattenSeq computes with.
IsFlat(f, seqs, m) ==
  \A i \in 1 .. m : f[i] = IF i = 1 THEN seqs[i] ELSE f[i - 1] \o seqs[i]

LEMMA FlatExists ==
  ASSUME NEW seqs, NEW m \in Nat
  PROVE  \E f : DOMAIN f = 1 .. m /\ f = [i \in 1 .. m |-> f[i]] /\ IsFlat(f, seqs, m)
<1> DEFINE Flat(f, k) == DOMAIN f = 1 .. k /\ f = [i \in 1 .. k |-> f[i]] /\ IsFlat(f, seqs, k)
           T == {k \in Nat : \E f : Flat(f, k)}
<1>1. 0 \in T
  <2> DEFINE f == [i \in 1 .. 0 |-> {}]
  <2>1. Flat(f, 0)
    BY DEF IsFlat
  <2> QED
    BY <2>1
<1>2. ASSUME NEW k \in Nat, k \in T
      PROVE  k + 1 \in T
  <2>1. PICK f : Flat(f, k)
    BY <1>2
  <2> DEFINE Step(h, i) == IF i = 1 THEN seqs[i] ELSE h[i - 1] \o seqs[i]
             h == [i \in 1 .. k + 1 |-> Step(f, i)]
  <2>2. \A i \in 1 .. k : i \in 1 .. k + 1
    OBVIOUS
  <2>3. \A i \in 1 .. k : h[i] = f[i]
    BY <2>1, <2>2 DEF IsFlat
  <2>4. \A i \in 1 .. k + 1 : i # 1 => i - 1 \in 1 .. k
    OBVIOUS
  <2>5. \A i \in 1 .. k + 1 : h[i] = Step(h, i)
    BY <2>3, <2>4
  <2>6. Flat(h, k + 1)
    BY <2>5 DEF IsFlat
  <2> QED
    BY <2>6
<1> HIDE DEF T
<1>3. Nat \subseteq T
  BY <1>1, <1>2, InductionOnNat
<1> QED
  BY <1>3 DEF T

\* No two commands of a sequence, or of two of the sequences, have one key.
Distinct(s) == \A k, l \in DOMAIN s : k # l => s[k].key # s[l].key
Apart(s, t) == \A k \in DOMAIN s, l \in DOMAIN t : s[k].key # t[l].key
Separate(seqs) ==
  \A i \in DOMAIN seqs :
    Distinct(seqs[i]) /\ \A j \in DOMAIN seqs : i # j => Apart(seqs[i], seqs[j])

LEMMA Joined ==
  ASSUME NEW E, NEW s \in Seq(E), NEW t \in Seq(E)
  PROVE  /\ s \o t \in Seq(E)
         /\ Distinct(s) /\ Distinct(t) /\ Apart(s, t) => Distinct(s \o t)
         /\ \A u : Apart(s, u) /\ Apart(t, u) => Apart(s \o t, u)
<1>1. /\ s \o t \in Seq(E) /\ Len(s) \in Nat /\ Len(t) \in Nat
      /\ DOMAIN s = 1 .. Len(s) /\ DOMAIN t = 1 .. Len(t)
      /\ DOMAIN (s \o t) = 1 .. Len(s) + Len(t)
      /\ \A k \in DOMAIN s : (s \o t)[k] = s[k]
      /\ \A k \in DOMAIN (s \o t) \ DOMAIN s :
           k - Len(s) \in DOMAIN t /\ (s \o t)[k] = t[k - Len(s)]
  OBVIOUS
<1> DEFINE st == s \o t
<1> HIDE DEF st
<1>2. ASSUME Distinct(s), Distinct(t), Apart(s, t)
      PROVE  Distinct(st)
  <2> SUFFICES ASSUME NEW k \in DOMAIN st, NEW l \in DOMAIN st, k # l
               PROVE  st[k].key # st[l].key
    BY DEF Distinct
  <2>1. CASE k \in DOMAIN s /\ l \in DOMAIN s
    BY <1>1, <1>2, <2>1 DEF Distinct, st
  <2>2. CASE k \in DOMAIN s /\ l \notin DOMAIN s
    BY <1>1, <1>2, <2>2 DEF Apart, st
  <2>3. CASE k \notin DOMAIN s /\ l \in DOMAIN s
    BY <1>1, <1>2, <2>3 DEF Apart, st
  <2>4. CASE k \notin DOMAIN s /\ l \notin DOMAIN s
    <3>1. k - Len(s) # l - Len(s)
      BY <1>1 DEF st
    <3> QED
      BY <1>1, <1>2, <2>4, <3>1 DEF Distinct, st
  <2> QED
    BY <2>1, <2>2, <2>3, <2>4
<1>3. ASSUME NEW u, Apart(s, u), Apart(t, u)
      PROVE  Apart(st, u)
  BY <1>1, <1>3 DEF Apart, st
<1> QED
  BY <1>1, <1>2, <1>3 DEF st

\* What the first i sequences make together.
Gathered(s, seqs, i, E) ==
  /\ s \in Seq(E)
  /\ Separate(seqs) =>
       Distinct(s) /\ \A j \in DOMAIN seqs : j > i => Apart(s, seqs[j])

LEMMA Flattened ==
  ASSUME NEW E, NEW seqs \in Seq(Seq(E))
  PROVE  /\ FlattenSeq(seqs) \in Seq(E)
         /\ Separate(seqs) => Distinct(FlattenSeq(seqs))
<1> DEFINE m == Len(seqs)
<1>1. m \in Nat /\ DOMAIN seqs = 1 .. m /\ \A i \in 1 .. m : seqs[i] \in Seq(E)
  OBVIOUS
<1>2. CASE m = 0
  <2>1. FlattenSeq(seqs) = seqs
    BY <1>2 DEF FlattenSeq
  <2>2. seqs \in Seq(E) /\ DOMAIN seqs = {}
    BY <1>2
  <2> QED
    BY <2>1, <2>2 DEF Distinct, Apart
<1>3. CASE m # 0
  <2> DEFINE Flat(f) == f = [i \in 1 .. Len(seqs) |->
                               IF i = 1 THEN seqs[i] ELSE f[i - 1] \o seqs[i]]
  <2>1. \E f : Flat(f)
    <3>1. PICK f : /\ DOMAIN f = 1 .. m /\ f = [i \in 1 .. m |-> f[i]]
                   /\ IsFlat(f, seqs, m)
      BY <1>1, FlatExists
    <3>2. Flat(f)
      BY <3>1 DEF IsFlat
    <3> QED
      BY <3>2
  <2>2. PICK f : Flat(f) /\ FlattenSeq(seqs) = f[m]
    BY <1>3, <2>1 DEF FlattenSeq
  <2>3. f[1] = seqs[1]
    <3>1. 1 \in 1 .. Len(seqs)
      BY <1>3
    <3> QED
      BY <2>2, <3>1
  <2>4. \A i \in 1 .. m : i # 1 => f[i] = f[i - 1] \o seqs[i]
    BY <2>2
  <2> DEFINE T == {k \in Nat : k + 1 <= m => Gathered(f[k + 1], seqs, k + 1, E)}
  <2> HIDE DEF m
  <2>5. 0 \in T
    <3>1. 1 \in 1 .. m
      BY <1>1, <1>3
    <3>2. f[1] \in Seq(E)
      BY <1>1, <2>3, <3>1
    <3>3. Separate(seqs) => Distinct(f[1]) /\ \A j \in DOMAIN seqs : j > 1 => Apart(f[1], seqs[j])
      BY <1>1, <2>3, <3>1 DEF Separate
    <3>4. Gathered(f[1], seqs, 1, E)
      BY <1>1, <2>3, <3>1, <3>2, <3>3 DEF Gathered
    <3> QED
      BY <3>4
  <2>6. ASSUME NEW i \in Nat, i + 1 \in 1 .. m, i \in 1 .. m, Gathered(f[i], seqs, i, E)
        PROVE  Gathered(f[i + 1], seqs, i + 1, E)
    <3>0. i + 1 \in DOMAIN seqs /\ i + 1 # 1 /\ (i + 1) - 1 = i
      BY <1>1, <2>6
    <3>1. f[i + 1] = f[i] \o seqs[i + 1]
      BY <2>4, <2>6, <3>0
    <3>2. seqs[i + 1] \in Seq(E) /\ f[i] \in Seq(E)
      BY <1>1, <2>6 DEF Gathered
    <3>3. f[i + 1] \in Seq(E)
      BY <3>1, <3>2, Joined
    <3>4. ASSUME Separate(seqs)
          PROVE  /\ Distinct(f[i + 1])
                 /\ \A j \in DOMAIN seqs : j > i + 1 => Apart(f[i + 1], seqs[j])
      <4>0. \A j \in DOMAIN seqs : j > i + 1 => j > i /\ i + 1 # j
        BY <1>1
      <4>1. Distinct(seqs[i + 1]) /\ \A j \in DOMAIN seqs : j > i + 1 => Apart(seqs[i + 1], seqs[j])
        BY <3>0, <3>4, <4>0 DEF Separate
      <4>2. /\ Distinct(f[i]) /\ Apart(f[i], seqs[i + 1])
            /\ \A j \in DOMAIN seqs : j > i + 1 => Apart(f[i], seqs[j])
        <5>1. i + 1 > i
          BY <2>6
        <5> QED
          BY <2>6, <3>0, <3>4, <4>0, <5>1 DEF Gathered
      <4> QED
        BY <3>1, <3>2, <4>1, <4>2, Joined
    <3> QED
      BY <3>3, <3>4 DEF Gathered
  <2>7. ASSUME NEW k \in Nat, k \in T
        PROVE  k + 1 \in T
    <3>0. SUFFICES ASSUME (k + 1) + 1 <= m
                   PROVE  Gathered(f[(k + 1) + 1], seqs, (k + 1) + 1, E)
      OBVIOUS
    <3>1. k + 1 \in Nat /\ k + 1 \in 1 .. m /\ (k + 1) + 1 \in 1 .. m
      BY <1>1, <3>0
    <3>2. Gathered(f[k + 1], seqs, k + 1, E)
      BY <1>1, <2>7, <3>1
    <3> QED
      BY <2>6, <3>1, <3>2
  <2>8. Nat \subseteq T
    <3> HIDE DEF T
    <3> QED
      BY <2>5, <2>7, InductionOnNat
  <2>9. m - 1 \in Nat /\ (m - 1) + 1 = m /\ m <= m
    BY <1>1, <1>3
  <2>10. Gathered(f[m], seqs, m, E)
    BY <2>8, <2>9
  <2> QED
    BY <1>1, <2>2, <2>10 DEF Gathered, m
<1> QED
  BY <1>2, <1>3
-----------------------------------------------------------------------------
(* The commands of an event.                                               *)

\* The commands that a list of actions or of workflow steps can make, and those
\* that the lists of all definitions of a kind can make.
Acts(list) == {i \in DOMAIN list : list[i].kind \notin {"delay", "condition"}}
CommandsOf(list, source) == {Command(list[i], source, i) : i \in Acts(list)}
Issued(kind, lists) == UNION {CommandsOf(lists[d], <<kind, d>>) : d \in DOMAIN lists}

RuleLists == [r \in Rules |-> config.rules[r].actions]
ChallengeLists == [c \in Challenges |-> config.challenges[c].rewards]
WorkflowLists == [w \in Workflows |-> config.workflows[w].steps]
BadgeLists == [b \in Badges |-> config.badges[b].rewards]

Decidable == Issued("rule", RuleLists) \union Issued("challenge", ChallengeLists) \union
             Issued("workflow", WorkflowLists)
Rewarding == Issued("achievement", BadgeLists)

\* What a projection needs to know of a command.
Effective(x) ==
  /\ x.amount \in Int
  /\ x.kind = "award_xp" => x.target \in Tracks
  /\ x.kind = "update_leaderboard" => x.target \in Boards
  /\ x.kind = "set_variable" => x.value \in Values

LEMMA ListsAreLists ==
  ASSUME config \in Configs
  PROVE  /\ \A r \in Rules : IsList(config.rules[r].actions) /\
              \A i \in DOMAIN config.rules[r].actions : ActionDef(config.rules[r].actions[i])
         /\ \A c \in Challenges : IsList(config.challenges[c].rewards) /\
              \A i \in DOMAIN config.challenges[c].rewards :
                ChallengeReward(config.challenges[c].rewards[i])
         /\ \A w \in Workflows : IsList(config.workflows[w].steps) /\
              \A i \in DOMAIN config.workflows[w].steps :
                WorkflowStepDef(config.workflows[w].steps[i])
         /\ \A b \in Badges : IsList(config.badges[b].rewards) /\
              \A i \in DOMAIN config.badges[b].rewards :
                ChallengeReward(config.badges[b].rewards[i])
         /\ IsList(config.rules) /\ IsList(config.challenges)
         /\ IsList(config.workflows) /\ IsList(config.badges)
<1>1. EngineConfig(config)
  BY ConfigsAssumption
<1>2. \A r \in Rules : RuleDef(config.rules[r])
  BY <1>1 DEF EngineConfig, Rules
<1>3. \A c \in Challenges : ChallengeSpec(config.challenges[c])
  BY <1>1 DEF EngineConfig, Challenges
<1>4. \A w \in Workflows : WorkflowDef(config.workflows[w])
  BY <1>1 DEF EngineConfig, Workflows
<1>5. \A b \in Badges : AchievementSpec(config.badges[b])
  BY <1>1 DEF EngineConfig, Badges
<1> QED
  BY <1>1, <1>2, <1>3, <1>4, <1>5
  DEF EngineConfig, RuleDef, ChallengeSpec, WorkflowDef, AchievementSpec

LEMMA ListDomain ==
  ASSUME NEW s, IsList(s)
  PROVE  Len(s) \in Nat /\ DOMAIN s = 1 .. Len(s)
BY DEF IsList

LEMMA Expanded ==
  ASSUME NEW list, IsList(list), NEW source, Acts(list) = DOMAIN list
  PROVE  /\ Expand(list, source) \in Seq(CommandsOf(list, source))
         /\ Distinct(Expand(list, source))
<1> DEFINE s == Expand(list, source)
<1>1. Len(list) \in Nat /\ DOMAIN list = 1 .. Len(list)
  BY ListDomain
<1>2. s = [i \in 1 .. Len(list) |-> Command(list[i], source, i)]
  BY <1>1 DEF Expand
<1>3. \A i \in 1 .. Len(list) : Command(list[i], source, i) \in CommandsOf(list, source)
  BY <1>1 DEF CommandsOf
<1>4. s \in Seq(CommandsOf(list, source))
  BY <1>1, <1>2, <1>3
<1>5. Distinct(s)
  BY <1>2 DEF Distinct, Command
<1> QED
  BY <1>4, <1>5

LEMMA Collected ==
  ASSUME NEW kind, NEW lists, NEW m \in Nat, DOMAIN lists = 1 .. m,
         NEW seqs, seqs = [d \in 1 .. m |-> seqs[d]],
         \A d \in 1 .. m : /\ seqs[d] \in Seq(CommandsOf(lists[d], <<kind, d>>))
                           /\ Distinct(seqs[d])
  PROVE  FlattenSeq(seqs) \in Seq(Issued(kind, lists)) /\ Distinct(FlattenSeq(seqs))
<1> DEFINE E == Issued(kind, lists)
<1>1. \A d \in 1 .. m : CommandsOf(lists[d], <<kind, d>>) \subseteq E
  BY DEF Issued
<1>2. \A d \in 1 .. m : seqs[d] \in Seq(E)
  <2> SUFFICES ASSUME NEW d \in 1 .. m
               PROVE  seqs[d] \in Seq(E)
    OBVIOUS
  <2>1. seqs[d] \in Seq(CommandsOf(lists[d], <<kind, d>>))
    OBVIOUS
  <2> HIDE DEF E
  <2> QED
    BY <1>1, <2>1
<1> HIDE DEF E
<1>3. seqs \in Seq(Seq(E)) /\ DOMAIN seqs = 1 .. m
  BY <1>2
<1>4. \A d \in 1 .. m : \A k \in DOMAIN seqs[d] : seqs[d][k].key[1] = <<kind, d>>
  <2> SUFFICES ASSUME NEW d \in 1 .. m, NEW k \in DOMAIN seqs[d]
               PROVE  seqs[d][k].key[1] = <<kind, d>>
    OBVIOUS
  <2>1. seqs[d][k] \in CommandsOf(lists[d], <<kind, d>>)
    OBVIOUS
  <2> QED
    BY <2>1 DEF CommandsOf, Command
<1>5. Separate(seqs)
  <2> SUFFICES ASSUME NEW i \in 1 .. m, NEW j \in 1 .. m, i # j
               PROVE  Apart(seqs[i], seqs[j])
    BY <1>3 DEF Separate
  <2> SUFFICES ASSUME NEW k \in DOMAIN seqs[i], NEW l \in DOMAIN seqs[j]
               PROVE  seqs[i][k].key # seqs[j][l].key
    BY DEF Apart
  <2>1. seqs[i][k].key[1] = <<kind, i>> /\ seqs[j][l].key[1] = <<kind, j>>
    BY <1>4
  <2>2. <<kind, i>> # <<kind, j>>
    OBVIOUS
  <2> QED
    BY <2>1, <2>2
<1> QED
  BY <1>3, <1>5, Flattened DEF E

\* Lists of actions only, and the commands of those that are chosen.
ActionLists(lists, m) ==
  /\ DOMAIN lists = 1 .. m
  /\ \A d \in 1 .. m : IsList(lists[d]) /\ Acts(lists[d]) = DOMAIN lists[d]
Expansion(kind, lists, m, ids) ==
  [d \in 1 .. m |-> IF d \in ids THEN Expand(lists[d], <<kind, d>>) ELSE <<>>]
CommandList(s, kind, lists) == s \in Seq(Issued(kind, lists)) /\ Distinct(s)

LEMMA Listed ==
  ASSUME NEW kind, NEW m \in Nat, NEW lists, ActionLists(lists, m), NEW ids
  PROVE  CommandList(FlattenSeq(Expansion(kind, lists, m, ids)), kind, lists)
<1> DEFINE seqs == Expansion(kind, lists, m, ids)
<1>1. seqs = [d \in 1 .. m |-> seqs[d]]
  BY DEF Expansion
<1>2. ASSUME NEW d \in 1 .. m
      PROVE  /\ seqs[d] \in Seq(CommandsOf(lists[d], <<kind, d>>))
             /\ Distinct(seqs[d])
  <2>1. CASE d \in ids
    <3>1. seqs[d] = Expand(lists[d], <<kind, d>>)
      BY <2>1 DEF Expansion
    <3> QED
      BY <3>1, Expanded DEF ActionLists
  <2>2. CASE d \notin ids
    BY <2>2 DEF Distinct, Expansion
  <2> QED
    BY <2>1, <2>2
<1>3. DOMAIN lists = 1 .. m
  BY DEF ActionLists
<1> HIDE DEF seqs
<1>4. FlattenSeq(seqs) \in Seq(Issued(kind, lists)) /\ Distinct(FlattenSeq(seqs))
  BY <1>1, <1>2, <1>3, Collected
<1> QED
  BY <1>4 DEF seqs, CommandList

LEMMA RuleCommands ==
  ASSUME config \in Configs, NEW ids
  PROVE  LET s == InOrder(config.rules, ids,
                          LAMBDA r : Expand(config.rules[r].actions, <<"rule", r>>))
         IN  s \in Seq(Issued("rule", RuleLists)) /\ Distinct(s)
<1>1. PICK m \in Nat : DOMAIN config.rules = 1 .. m
  BY ListsAreLists, ListDomain
<1>2. DOMAIN RuleLists = 1 .. m /\ \A r \in 1 .. m : RuleLists[r] = config.rules[r].actions
  BY <1>1 DEF RuleLists, Rules
<1>3. \A r \in 1 .. m : IsList(RuleLists[r]) /\ Acts(RuleLists[r]) = DOMAIN RuleLists[r]
  BY <1>1, <1>2, ListsAreLists DEF Rules, Acts, ActionDef
<1>4. InOrder(config.rules, ids,
              LAMBDA r : Expand(config.rules[r].actions, <<"rule", r>>)) = FlattenSeq(Expansion("rule", RuleLists, m, ids))
  BY <1>1, <1>2 DEF InOrder, Expansion
<1>5. CommandList(FlattenSeq(Expansion("rule", RuleLists, m, ids)), "rule", RuleLists)
  BY <1>2, <1>3, Listed DEF ActionLists
<1> QED
  BY <1>4, <1>5 DEF CommandList

LEMMA ChallengeCommands ==
  ASSUME config \in Configs, NEW ids
  PROVE  LET s == InOrder(config.challenges, ids,
                          LAMBDA c : Expand(config.challenges[c].rewards, <<"challenge", c>>))
         IN  s \in Seq(Issued("challenge", ChallengeLists)) /\ Distinct(s)
<1>1. PICK m \in Nat : DOMAIN config.challenges = 1 .. m
  BY ListsAreLists, ListDomain
<1>2. /\ DOMAIN ChallengeLists = 1 .. m
      /\ \A c \in 1 .. m : ChallengeLists[c] = config.challenges[c].rewards
  BY <1>1 DEF ChallengeLists, Challenges
<1>3. \A c \in 1 .. m :
        IsList(ChallengeLists[c]) /\ Acts(ChallengeLists[c]) = DOMAIN ChallengeLists[c]
  BY <1>1, <1>2, ListsAreLists DEF Challenges, Acts, ChallengeReward
<1>4. InOrder(config.challenges, ids,
              LAMBDA c : Expand(config.challenges[c].rewards, <<"challenge", c>>))
        = FlattenSeq(Expansion("challenge", ChallengeLists, m, ids))
  BY <1>1, <1>2 DEF InOrder, Expansion
<1>5. CommandList(FlattenSeq(Expansion("challenge", ChallengeLists, m, ids)), "challenge", ChallengeLists)
  BY <1>2, <1>3, Listed DEF ActionLists
<1> QED
  BY <1>4, <1>5 DEF CommandList

LEMMA BadgeCommands ==
  ASSUME config \in Configs, NEW ids
  PROVE  BadgeRewards(ids) \in Seq(Rewarding) /\ Distinct(BadgeRewards(ids))
<1>1. PICK m \in Nat : DOMAIN config.badges = 1 .. m
  BY ListsAreLists, ListDomain
<1>2. DOMAIN BadgeLists = 1 .. m /\ \A b \in 1 .. m : BadgeLists[b] = config.badges[b].rewards
  BY <1>1 DEF BadgeLists, Badges
<1>3. \A b \in 1 .. m : IsList(BadgeLists[b]) /\ Acts(BadgeLists[b]) = DOMAIN BadgeLists[b]
  BY <1>1, <1>2, ListsAreLists DEF Badges, Acts, ChallengeReward
<1>4. InOrder(config.badges, ids,
              LAMBDA b : Expand(config.badges[b].rewards, <<"achievement", b>>))
        = FlattenSeq(Expansion("achievement", BadgeLists, m, ids))
  BY <1>1, <1>2 DEF InOrder, Expansion
<1>5. CommandList(FlattenSeq(Expansion("achievement", BadgeLists, m, ids)), "achievement", BadgeLists)
  BY <1>2, <1>3, Listed DEF ActionLists
<1> QED
  BY <1>4, <1>5 DEF CommandList, BadgeRewards, Rewarding

LEMMA StepCommands ==
  ASSUME config \in Configs, NEW w \in Workflows, NEW payload
  PROVE  /\ WorkflowCommands(w, payload) \in
              Seq(CommandsOf(WorkflowLists[w], <<"workflow", w>>))
         /\ Distinct(WorkflowCommands(w, payload))
<1> DEFINE steps == config.workflows[w].steps
           acting == {i \in Reached(steps, payload) : steps[i].kind # "condition"}
           E == CommandsOf(steps, <<"workflow", w>>)
           seqs == [i \in DOMAIN steps |->
                      IF i \in acting THEN <<Command(steps[i], <<"workflow", w>>, i)>> ELSE <<>>]
<1>1. PICK m \in Nat : DOMAIN steps = 1 .. m
  BY ListsAreLists, ListDomain
<1>2. acting \subseteq Acts(steps)
  <2> SUFFICES ASSUME NEW i \in acting
               PROVE  i \in Acts(steps)
    OBVIOUS
  <2>1. i \in DOMAIN steps /\ steps[i].kind # "condition" /\ i \in 1 .. i
    BY <1>1 DEF Reached
  <2>2. steps[i].kind # "delay"
    BY <2>1 DEF Reached
  <2> QED
    BY <2>1, <2>2 DEF Acts
<1>3. WorkflowLists[w] = steps
  BY DEF WorkflowLists
<1>4. WorkflowCommands(w, payload) = FlattenSeq(seqs)
  BY DEF WorkflowCommands, InOrder
<1> HIDE DEF steps, acting
<1>5. \A i \in 1 .. m : \/ seqs[i] = <<>>
                        \/ i \in Acts(steps) /\ seqs[i] = <<Command(steps[i], <<"workflow", w>>, i)>>
  BY <1>1, <1>2
<1>6. \A i \in Acts(steps) : Command(steps[i], <<"workflow", w>>, i) \in E
  BY DEF CommandsOf
<1>7. DOMAIN seqs = 1 .. m /\ seqs = [i \in 1 .. m |-> seqs[i]]
  BY <1>1
<1> HIDE DEF seqs, E
<1>8. ASSUME NEW i \in 1 .. m
      PROVE  seqs[i] \in Seq(E)
  <2>1. CASE seqs[i] = <<>>
    BY <2>1
  <2>2. CASE i \in Acts(steps) /\ seqs[i] = <<Command(steps[i], <<"workflow", w>>, i)>>
    <3>1. PICK x \in E : seqs[i] = <<x>>
      BY <1>6, <2>2
    <3> QED
      BY <3>1
  <2> QED
    BY <1>5, <2>1, <2>2
<1>9. seqs \in Seq(Seq(E))
  BY <1>7, <1>8
<1>10. \A i \in 1 .. m : \A k \in DOMAIN seqs[i] : k = 1 /\ seqs[i][k].key[3] = i
  <2> SUFFICES ASSUME NEW i \in 1 .. m, NEW k \in DOMAIN seqs[i]
               PROVE  k = 1 /\ seqs[i][k].key[3] = i
    OBVIOUS
  <2>1. PICK x : x.key[3] = i /\ seqs[i] \in {<<>>, <<x>>}
    <3>1. Command(steps[i], <<"workflow", w>>, i).key[3] = i
      BY DEF Command
    <3>2. seqs[i] \in {<<>>, <<Command(steps[i], <<"workflow", w>>, i)>>}
      BY <1>5
    <3> QED
      BY <3>1, <3>2
  <2> QED
    BY <2>1
<1>11. Separate(seqs)
  BY <1>7, <1>10 DEF Separate, Apart, Distinct
<1> QED
  BY <1>3, <1>4, <1>9, <1>11, Flattened DEF E

FlowList(type, payload) ==
  InOrder(config.workflows, {w \in Workflows : Observes(config.workflows[w], type)},
          LAMBDA w : WorkflowCommands(w, payload))

LEMMA FlowCommands ==
  ASSUME config \in Configs, NEW type, NEW payload
  PROVE  /\ FlowList(type, payload) \in Seq(Issued("workflow", WorkflowLists))
         /\ Distinct(FlowList(type, payload))
<1> DEFINE ids == {w \in Workflows : Observes(config.workflows[w], type)}
           seqs == [w \in DOMAIN config.workflows |->
                      IF w \in ids THEN WorkflowCommands(w, payload) ELSE <<>>]
<1>1. PICK m \in Nat : DOMAIN config.workflows = 1 .. m
  BY ListsAreLists, ListDomain
<1>2. DOMAIN WorkflowLists = 1 .. m /\ \A w \in 1 .. m : w \in Workflows
  BY <1>1 DEF WorkflowLists, Workflows
<1>3. ASSUME NEW w \in 1 .. m
      PROVE  /\ seqs[w] \in Seq(CommandsOf(WorkflowLists[w], <<"workflow", w>>))
             /\ Distinct(seqs[w])
  <2>1. CASE w \in ids
    <3>1. seqs[w] = WorkflowCommands(w, payload)
      BY <1>1, <2>1
    <3> QED
      BY <1>2, <3>1, StepCommands
  <2>2. CASE w \notin ids
    <3>1. seqs[w] = <<>>
      BY <1>1, <2>2
    <3> HIDE DEF seqs
    <3> QED
      BY <3>1 DEF Distinct
  <2> QED
    BY <2>1, <2>2
<1>4. seqs = [w \in 1 .. m |-> seqs[w]]
  BY <1>1
<1>5. FlowList(type, payload) = FlattenSeq(seqs)
  BY DEF FlowList, InOrder
<1> HIDE DEF seqs
<1>6. /\ FlattenSeq(seqs) \in Seq(Issued("workflow", WorkflowLists))
      /\ Distinct(FlattenSeq(seqs))
  BY <1>2, <1>3, <1>4, Collected
<1> QED
  BY <1>5, <1>6

LEMMA IssuedFrom ==
  ASSUME NEW kind, NEW lists, NEW x \in Issued(kind, lists)
  PROVE  /\ x.key[1][1] = kind /\ x.key[2] = n
         /\ \E d \in DOMAIN lists : \E i \in DOMAIN lists[d] :
              /\ lists[d][i].kind \notin {"delay", "condition"}
              /\ x.kind = lists[d][i].kind /\ x.target = lists[d][i].target
              /\ x.amount = lists[d][i].amount /\ x.value = lists[d][i].value
<1>1. PICK d \in DOMAIN lists : x \in CommandsOf(lists[d], <<kind, d>>)
  BY DEF Issued
<1>2. PICK i \in Acts(lists[d]) : x = Command(lists[d][i], <<kind, d>>, i)
  BY <1>1 DEF CommandsOf
<1>3. i \in DOMAIN lists[d] /\ lists[d][i].kind \notin {"delay", "condition"}
  BY <1>2 DEF Acts
<1> QED
  BY <1>1, <1>2, <1>3 DEF Command

\* Commands have typed effects; of those that update boards, Updated knows; and
\* rewards are XP and currency.
LEMMA DecidableEffects ==
  ASSUME config \in Configs, NEW x \in Decidable
  PROVE  /\ Effective(x) /\ x.key[1][1] # "achievement" /\ x.key[2] = n
         /\ x.kind = "update_leaderboard" => Updated(x.target)
<1>1. CASE x \in Issued("rule", RuleLists)
  <2>1. x.key[1][1] = "rule" /\ x.key[2] = n
    BY <1>1, IssuedFrom
  <2>2. PICK r \in DOMAIN RuleLists : \E i \in DOMAIN RuleLists[r] :
          /\ x.kind = RuleLists[r][i].kind /\ x.target = RuleLists[r][i].target
          /\ x.amount = RuleLists[r][i].amount /\ x.value = RuleLists[r][i].value
    BY <1>1, IssuedFrom
  <2>3. r \in Rules /\ RuleLists[r] = config.rules[r].actions
    BY DEF RuleLists
  <2>4. PICK a : /\ \E i \in DOMAIN config.rules[r].actions : a = config.rules[r].actions[i]
                 /\ x.kind = a.kind /\ x.target = a.target /\ x.amount = a.amount
                 /\ x.value = a.value
    BY <2>2, <2>3
  <2>5. ActionDef(a)
    BY <2>3, <2>4, ListsAreLists
  <2>6. Effective(x)
    BY <2>4, <2>5 DEF Effective, ActionDef
  <2>7. x.kind = "update_leaderboard" => Updated(x.target)
    BY <2>3, <2>4 DEF Updated, Updates
  <2> QED
    BY <2>1, <2>6, <2>7
<1>2. CASE x \in Issued("challenge", ChallengeLists)
  <2>1. x.key[1][1] = "challenge" /\ x.key[2] = n
    BY <1>2, IssuedFrom
  <2>2. PICK c \in DOMAIN ChallengeLists : \E i \in DOMAIN ChallengeLists[c] :
          /\ x.kind = ChallengeLists[c][i].kind /\ x.target = ChallengeLists[c][i].target
          /\ x.amount = ChallengeLists[c][i].amount /\ x.value = ChallengeLists[c][i].value
    BY <1>2, IssuedFrom
  <2>3. c \in Challenges /\ ChallengeLists[c] = config.challenges[c].rewards
    BY DEF ChallengeLists
  <2>4. PICK a : /\ \E i \in DOMAIN config.challenges[c].rewards :
                      a = config.challenges[c].rewards[i]
                 /\ x.kind = a.kind /\ x.target = a.target /\ x.amount = a.amount
                 /\ x.value = a.value
    BY <2>2, <2>3
  <2>5. ChallengeReward(a)
    BY <2>3, <2>4, ListsAreLists
  <2> QED
    BY <2>1, <2>4, <2>5 DEF Effective, ActionDef, ChallengeReward
<1>3. CASE x \in Issued("workflow", WorkflowLists)
  <2>1. x.key[1][1] = "workflow" /\ x.key[2] = n
    BY <1>3, IssuedFrom
  <2>2. PICK w \in DOMAIN WorkflowLists : \E i \in DOMAIN WorkflowLists[w] :
          /\ WorkflowLists[w][i].kind \notin {"delay", "condition"}
          /\ x.kind = WorkflowLists[w][i].kind /\ x.target = WorkflowLists[w][i].target
          /\ x.amount = WorkflowLists[w][i].amount /\ x.value = WorkflowLists[w][i].value
    BY <1>3, IssuedFrom
  <2>3. w \in Workflows /\ WorkflowLists[w] = config.workflows[w].steps
    BY DEF WorkflowLists
  <2>4. PICK a : /\ \E i \in DOMAIN config.workflows[w].steps : a = config.workflows[w].steps[i]
                 /\ a.kind \notin {"delay", "condition"}
                 /\ x.kind = a.kind /\ x.target = a.target /\ x.amount = a.amount
                 /\ x.value = a.value
    BY <2>2, <2>3
  <2>5. WorkflowStepDef(a)
    BY <2>3, <2>4, ListsAreLists
  <2>6. Effective(x)
    BY <2>4, <2>5 DEF Effective, ActionDef, WorkflowStepDef
  <2>7. x.kind = "update_leaderboard" => Updated(x.target)
    BY <2>3, <2>4 DEF Updated, Updates
  <2> QED
    BY <2>1, <2>6, <2>7
<1> QED
  BY <1>1, <1>2, <1>3 DEF Decidable

LEMMA RewardingEffects ==
  ASSUME config \in Configs, NEW x \in Rewarding
  PROVE  /\ Effective(x) /\ x.key[1][1] = "achievement" /\ x.key[2] = n
         /\ x.kind \in {"award_xp", "add_currency"}
<1>1. x.key[1][1] = "achievement" /\ x.key[2] = n
  BY IssuedFrom DEF Rewarding
<1>2. PICK b \in DOMAIN BadgeLists : \E i \in DOMAIN BadgeLists[b] :
        /\ x.kind = BadgeLists[b][i].kind /\ x.target = BadgeLists[b][i].target
        /\ x.amount = BadgeLists[b][i].amount /\ x.value = BadgeLists[b][i].value
  BY IssuedFrom DEF Rewarding
<1>3. b \in Badges /\ BadgeLists[b] = config.badges[b].rewards
  BY DEF BadgeLists
<1>4. PICK a : /\ \E i \in DOMAIN config.badges[b].rewards : a = config.badges[b].rewards[i]
               /\ x.kind = a.kind /\ x.target = a.target /\ x.amount = a.amount
                 /\ x.value = a.value
  BY <1>2, <1>3
<1>5. ChallengeReward(a)
  BY <1>3, <1>4, ListsAreLists
<1> QED
  BY <1>1, <1>4, <1>5 DEF Effective, ActionDef, ChallengeReward

LEMMA OfTwoKinds ==
  ASSUME NEW S, NEW T, NEW s \in Seq(S), NEW t \in Seq(T), Distinct(s), Distinct(t),
         \A x \in S, y \in T : x.key # y.key
  PROVE  s \o t \in Seq(S \union T) /\ Distinct(s \o t)
<1>1. s \in Seq(S \union T) /\ t \in Seq(S \union T)
  OBVIOUS
<1>2. Apart(s, t)
  BY DEF Apart
<1> QED
  BY <1>1, <1>2, Joined

LEMMA Decides ==
  ASSUME config \in Configs, NEW type, NEW payload, NEW fired
  PROVE  /\ Decided(type, payload, fired) \in Seq(Decidable)
         /\ Distinct(Decided(type, payload, fired))
<1> DEFINE R == Issued("rule", RuleLists)
           C == Issued("challenge", ChallengeLists)
           W == Issued("workflow", WorkflowLists)
           r == InOrder(config.rules, fired,
                        LAMBDA d : Expand(config.rules[d].actions, <<"rule", d>>))
           c == InOrder(config.challenges, Completed(type),
                        LAMBDA d : Expand(config.challenges[d].rewards, <<"challenge", d>>))
           w == FlowList(type, payload)
<1>0. Decided(type, payload, fired) = r \o c \o w
  BY DEF Decided, FlowList
<1>1. /\ r \in Seq(R) /\ Distinct(r)
      /\ c \in Seq(C) /\ Distinct(c)
      /\ w \in Seq(W) /\ Distinct(w)
  <2>1. r \in Seq(R) /\ Distinct(r)
    BY RuleCommands
  <2>2. c \in Seq(C) /\ Distinct(c)
    BY ChallengeCommands
  <2>3. w \in Seq(W) /\ Distinct(w)
    BY FlowCommands
  <2> QED
    BY <2>1, <2>2, <2>3
<1>2. /\ \A x \in R : x.key[1][1] = "rule"
      /\ \A x \in C : x.key[1][1] = "challenge"
      /\ \A x \in W : x.key[1][1] = "workflow"
  BY IssuedFrom
<1> HIDE DEF R, C, W, r, c, w
<1>3. \A x \in R, y \in C : x.key # y.key
  BY <1>2
<1>4. r \o c \in Seq(R \union C) /\ Distinct(r \o c)
  BY <1>1, <1>3, OfTwoKinds
<1>5. \A x \in R \union C, y \in W : x.key # y.key
  BY <1>2
<1>6. (r \o c) \o w \in Seq((R \union C) \union W) /\ Distinct((r \o c) \o w)
  BY <1>1, <1>4, <1>5, OfTwoKinds
<1>7. Decidable = (R \union C) \union W
  BY DEF Decidable, R, C, W
<1> QED
  BY <1>0, <1>6, <1>7
-----------------------------------------------------------------------------
(* Projections.                                                            *)

\* The states that an actor with the unlocked badges u can be in.
State(u) ==
  [xp : [Tracks -> Nat], level : [Tracks -> Nat],
   challenge : [Challenges -> Instance],
   unlocked : {u}, score : [Boards -> Int], variable : [Variables -> Values \union {Null}]]

LevelsAgree(s) == \A t \in Leveled : s.level[t] = s.xp[t] \div XpPerLevel
Shows(s, b) ==
  /\ config.boards[b] \in Tracks => s.score[b] = s.xp[config.boards[b]]
  /\ config.boards[b] = Star => \E t \in Tracks : s.score[b] = s.xp[t]

Awards(x, t) == x.kind = "award_xp" /\ x.target = t
Ranks(x, b) == x.kind = "update_leaderboard" /\ x.target = b
Restarts(x, c) == x.kind = "start_challenge" /\ x.target = c

\* What a command may do to a state, and what it must leave.
Moves(s, x, t) ==
  /\ \A c \in Challenges : ~Restarts(x, c) /\ s.challenge[c].done => t.challenge[c].done
  /\ x.kind \notin {"progress_challenge", "start_challenge"} => t.challenge = s.challenge
  /\ x.kind # "set_variable" => t.variable = s.variable
  /\ \A tr \in Tracks : ~Awards(x, tr) => t.xp[tr] = s.xp[tr] /\ t.level[tr] = s.level[tr]
  /\ LevelsAgree(s) => LevelsAgree(t)
  /\ \A b \in Boards : ~Ranks(x, b) /\ Shows(s, b) => Shows(t, b)

LEMMA Floor ==
  ASSUME NEW v \in Int
  PROVE  Max({0, v}) \in Nat
<1>1. \E x \in {0, v} : \A y \in {0, v} : x >= y
  <2>1. CASE v >= 0
    BY <2>1
  <2>2. CASE v < 0
    BY <2>2
  <2> QED
    BY <2>1, <2>2
<1>2. Max({0, v}) \in {0, v} /\ Max({0, v}) >= 0
  BY <1>1 DEF Max
<1> QED
  BY <1>2

LEMMA LevelIsNatural ==
  ASSUME NEW v \in Nat
  PROVE  v \div XpPerLevel \in Nat
<1>1. XpPerLevel \in Nat \ {0}
  BY EngineAssumption
<1> QED
  BY <1>1

LEMMA AwardMoves ==
  ASSUME NEW u, NEW s \in State(u), NEW x, x.kind = "award_xp", Effective(x),
         NEW t, t = AwardXp(s, x.target, x.amount)
  PROVE  t \in State(u) /\ Moves(s, x, t)
<1>1. x.target \in Tracks /\ x.amount \in Int
  BY DEF Effective
<1>2. PICK track \in Tracks : track = x.target
  BY <1>1
<1>3. PICK total : total = Max({0, s.xp[track] + x.amount})
  OBVIOUS
<1>4. s.xp[track] \in Nat /\ s.xp[track] + x.amount \in Int
  BY <1>1 DEF State
<1>5. total \in Nat /\ total \div XpPerLevel \in Nat
  BY <1>3, <1>4, Floor, LevelIsNatural
<1>6. /\ t.xp = [s.xp EXCEPT ![track] = total]
      /\ t.level = [s.level EXCEPT ![track] = IF track \in Leveled THEN total \div XpPerLevel
                                              ELSE @]
      /\ t.score = [b \in Boards |-> IF config.boards[b] \in {track, Star} THEN total
                                     ELSE s.score[b]]
      /\ t.challenge = s.challenge /\ t.unlocked = s.unlocked
      /\ t.variable = s.variable
      /\ t = [xp |-> t.xp, level |-> t.level, challenge |-> t.challenge,
              unlocked |-> t.unlocked, score |-> t.score, variable |-> t.variable]
  BY <1>2, <1>3 DEF AwardXp, State
<1>7. /\ s.xp \in [Tracks -> Nat] /\ s.level \in [Tracks -> Nat]
      /\ s.challenge \in [Challenges -> Instance]
      /\ s.unlocked = u /\ s.score \in [Boards -> Int]
      /\ s.variable \in [Variables -> Values \union {Null}]
  BY DEF State
<1>8. t \in State(u)
  <2>1. t.xp \in [Tracks -> Nat] /\ t.level \in [Tracks -> Nat] /\ t.score \in [Boards -> Int]
    BY <1>5, <1>6, <1>7
  <2> QED
    BY <1>6, <1>7, <2>1 DEF State
<1>9. \A tr \in Tracks : ~Awards(x, tr) => t.xp[tr] = s.xp[tr] /\ t.level[tr] = s.level[tr]
  BY <1>2, <1>6, <1>7 DEF Awards
<1>10. ASSUME LevelsAgree(s)
       PROVE  LevelsAgree(t)
  <2> SUFFICES ASSUME NEW l \in Leveled
               PROVE  t.level[l] = t.xp[l] \div XpPerLevel
    BY DEF LevelsAgree
  <2>1. l \in Tracks
    BY EngineAssumption
  <2>2. CASE l = track
    BY <1>6, <1>7, <2>1, <2>2
  <2>3. CASE l # track
    <3>1. t.level[l] = s.level[l] /\ t.xp[l] = s.xp[l]
      BY <1>6, <1>7, <2>1, <2>3
    <3> QED
      BY <1>10, <3>1 DEF LevelsAgree
  <2> QED
    BY <2>2, <2>3
<1>11. ASSUME NEW b \in Boards, Shows(s, b)
       PROVE  Shows(t, b)
  <2>1. Star \notin Tracks
    BY EngineAssumption
  <2>2. CASE config.boards[b] \in {track, Star}
    <3>1. t.score[b] = total /\ t.xp[track] = total
      BY <1>6, <1>7, <2>2
    <3> QED
      BY <2>1, <2>2, <3>1 DEF Shows
  <2>3. CASE config.boards[b] \notin {track, Star}
    <3>1. t.score[b] = s.score[b]
      BY <1>6, <2>3
    <3>2. config.boards[b] \in Tracks => t.xp[config.boards[b]] = s.xp[config.boards[b]]
      BY <1>6, <1>7, <2>3
    <3> QED
      BY <1>11, <2>3, <3>1, <3>2 DEF Shows
  <2> QED
    BY <2>2, <2>3
<1> QED
  BY <1>6, <1>8, <1>9, <1>10, <1>11 DEF Moves

LEMMA ProjectMoves ==
  ASSUME config \in Configs, NEW u, NEW s \in State(u), NEW x, Effective(x)
  PROVE  Project(s, x) \in State(u) /\ Moves(s, x, Project(s, x))
<1>1. /\ s.xp \in [Tracks -> Nat] /\ s.level \in [Tracks -> Nat]
      /\ s.challenge \in [Challenges -> Instance]
      /\ s.unlocked = u /\ s.score \in [Boards -> Int]
      /\ s.variable \in [Variables -> Values \union {Null}]
  BY DEF State
<1>2. CASE x.kind = "award_xp"
  <2>1. Project(s, x) = AwardXp(s, x.target, x.amount)
    BY <1>2 DEF Project
  <2> QED
    BY <1>2, <2>1, AwardMoves
<1>3. CASE x.kind = "update_leaderboard"
  <2> DEFINE t == Project(s, x)
  <2>1. t = [s EXCEPT !.score[x.target] = @ + x.amount]
    BY <1>3 DEF Project
  <2>2. x.target \in Boards /\ x.amount \in Int
    BY <1>3 DEF Effective
  <2>3. /\ t.xp = s.xp /\ t.level = s.level /\ t.challenge = s.challenge
        /\ t.score = [s.score EXCEPT ![x.target] = @ + x.amount]
        /\ t.variable = s.variable /\ t \in State(u)
    BY <2>1, <2>2 DEF State
  <2> HIDE DEF t
  <2>4. LevelsAgree(s) => LevelsAgree(t)
    BY <2>3 DEF LevelsAgree
  <2>5. \A b \in Boards : ~Ranks(x, b) /\ Shows(s, b) => Shows(t, b)
    <3> SUFFICES ASSUME NEW b \in Boards, ~Ranks(x, b), Shows(s, b)
                 PROVE  Shows(t, b)
      OBVIOUS
    <3>1. t.score[b] = s.score[b]
      BY <1>1, <1>3, <2>3 DEF Ranks
    <3> QED
      BY <2>3, <3>1 DEF Shows
  <2> QED
    BY <1>3, <2>3, <2>4, <2>5 DEF Moves, t
<1>4. CASE x.kind = "progress_challenge"
  <2> DEFINE t == Project(s, x)
             p == Progress(s.challenge[x.target], config.challenges[x.target].target, x.amount)
  <2>1. t = [s EXCEPT !.challenge[x.target] = p]
    BY <1>4 DEF Project
  <2>2. x.target \in Challenges => /\ p \in Instance
                                   /\ s.challenge[x.target].done => p.done
    <3> SUFFICES ASSUME NEW c \in Challenges, c = x.target
                 PROVE  /\ p \in Instance
                        /\ s.challenge[c].done => p.done
      OBVIOUS
    <3>1. config.challenges[c].target \in Int
      BY ConfigsAssumption DEF EngineConfig, ChallengeSpec, Challenges
    <3>2. x.amount \in Int /\ s.challenge[c] \in Instance
      BY <1>1 DEF Effective
    <3> QED
      BY <3>1, <3>2 DEF Progress, Instance
  <2> HIDE DEF p
  <2>3. /\ t.xp = s.xp /\ t.level = s.level /\ t.score = s.score
        /\ t.challenge = [s.challenge EXCEPT ![x.target] = p]
        /\ t.unlocked = s.unlocked /\ t.variable = s.variable
        /\ t = [xp |-> t.xp, level |-> t.level, challenge |-> t.challenge,
                unlocked |-> t.unlocked, score |-> t.score, variable |-> t.variable]
    BY <2>1 DEF State
  <2> HIDE DEF t
  <2>4. t.challenge \in [Challenges -> Instance]
    BY <1>1, <2>2, <2>3
  <2>5. t \in State(u)
    BY <1>1, <2>3, <2>4 DEF State
  <2>6. \A c \in Challenges : s.challenge[c].done => t.challenge[c].done
    BY <1>1, <2>2, <2>3
  <2>7. /\ LevelsAgree(s) => LevelsAgree(t)
        /\ \A b \in Boards : Shows(s, b) => Shows(t, b)
    BY <2>3 DEF LevelsAgree, Shows
  <2> QED
    BY <1>4, <2>3, <2>5, <2>6, <2>7 DEF Moves, t
<1>5. CASE x.kind = "start_challenge"
  <2> DEFINE t == Project(s, x)
             p == Restarted(s.challenge[x.target])
  <2>1. t = [s EXCEPT !.challenge[x.target] = p]
    BY <1>5 DEF Project
  <2>2. x.target \in Challenges => p \in Instance
    BY <1>1 DEF Restarted, Instance
  <2> HIDE DEF p
  <2>3. /\ t.xp = s.xp /\ t.level = s.level /\ t.score = s.score
        /\ t.challenge = [s.challenge EXCEPT ![x.target] = p]
        /\ t.unlocked = s.unlocked /\ t.variable = s.variable
        /\ t = [xp |-> t.xp, level |-> t.level, challenge |-> t.challenge,
                unlocked |-> t.unlocked, score |-> t.score, variable |-> t.variable]
    BY <2>1 DEF State
  <2> HIDE DEF t
  <2>4. t.challenge \in [Challenges -> Instance]
    BY <1>1, <2>2, <2>3
  <2>5. t \in State(u)
    BY <1>1, <2>3, <2>4 DEF State
  <2>6. \A c \in Challenges : ~Restarts(x, c) => t.challenge[c] = s.challenge[c]
    BY <1>1, <1>5, <2>3 DEF Restarts
  <2>7. /\ LevelsAgree(s) => LevelsAgree(t)
        /\ \A b \in Boards : Shows(s, b) => Shows(t, b)
    BY <2>3 DEF LevelsAgree, Shows
  <2> QED
    BY <1>5, <2>3, <2>5, <2>6, <2>7 DEF Moves, t
<1>6. CASE x.kind = "set_variable"
  <2> DEFINE t == Project(s, x)
  <2>1. t = [s EXCEPT !.variable[x.target] = x.value]
    BY <1>6 DEF Project
  <2>2. x.value \in Values
    BY <1>6 DEF Effective
  <2>3. /\ t.xp = s.xp /\ t.level = s.level /\ t.score = s.score
        /\ t.challenge = s.challenge /\ t.unlocked = s.unlocked
        /\ t.variable = [s.variable EXCEPT ![x.target] = x.value]
        /\ t = [xp |-> t.xp, level |-> t.level, challenge |-> t.challenge,
                unlocked |-> t.unlocked, score |-> t.score, variable |-> t.variable]
    BY <2>1 DEF State
  <2> HIDE DEF t
  <2>4. t \in State(u)
    BY <1>1, <2>2, <2>3 DEF State
  <2>5. /\ LevelsAgree(s) => LevelsAgree(t)
        /\ \A b \in Boards : Shows(s, b) => Shows(t, b)
    BY <2>3 DEF LevelsAgree, Shows
  <2> QED
    BY <1>6, <2>3, <2>4, <2>5 DEF Moves, t
<1>7. CASE x.kind \notin {"award_xp", "update_leaderboard", "progress_challenge",
                         "start_challenge", "set_variable"}
  <2>1. Project(s, x) = s
    BY <1>7 DEF Project
  <2> QED
    BY <2>1 DEF Moves
<1> QED
  BY <1>2, <1>3, <1>4, <1>5, <1>6, <1>7

\* The states after each of the commands.
ProjectRun(r, s, cmds) ==
  /\ r[0] = s
  /\ \A k \in 1 .. Len(cmds) : r[k] = Project(r[k - 1], cmds[k])

LEMMA ProjectedIsRun ==
  ASSUME config \in Configs, NEW u, NEW s \in State(u), NEW E, NEW cmds \in Seq(E),
         \A x \in E : Effective(x)
  PROVE  \E r : ProjectRun(r, s, cmds) /\ Projected(s, cmds) = r[Len(cmds)]
<1>1. Len(cmds) \in Nat /\ DOMAIN cmds = 1 .. Len(cmds)
  OBVIOUS
<1> DEFINE next == [p \in State(u) \X (1 .. Len(cmds)) |-> Project(p[1], cmds[p[2]])]
           Fold(g) == g = [d \in SUBSET DOMAIN cmds |->
                             IF d = {} THEN s
                             ELSE Project(g[d \ {Max(d)}], cmds[Max(d)])]
<1>2. \A k \in 1 .. Len(cmds) : Effective(cmds[k])
  <2>1. \A k \in 1 .. Len(cmds) : cmds[k] \in E
    OBVIOUS
  <2> QED
    BY <2>1
<1>3. next \in [State(u) \X (1 .. Len(cmds)) -> State(u)]
  <2>1. \A t \in State(u) : \A k \in 1 .. Len(cmds) : Project(t, cmds[k]) \in State(u)
    BY <1>2, ProjectMoves
  <2> QED
    BY <2>1
<1>4. PICK g \in [SUBSET (1 .. Len(cmds)) -> State(u)] : IsFold(g, s, next, Len(cmds))
  <2> HIDE DEF next
  <2>1. Foldable(s, next, State(u), Len(cmds))
    BY <1>1, <1>3, FoldExists
  <2> QED
    BY <2>1 DEF Foldable
<1>5. Fold(g)
  <2>1. ASSUME NEW d \in SUBSET (1 .. Len(cmds)), d # {}
        PROVE  g[d] = Project(g[d \ {Max(d)}], cmds[Max(d)])
    <3>2. Max(d) \in d
      BY <1>1, <2>1, MaxOfFinite
    <3>3. /\ g[d] = next[<<g[d \ {Max(d)}], Max(d)>>]
          /\ g[d \ {Max(d)}] \in State(u) /\ Max(d) \in 1 .. Len(cmds)
      BY <1>4, <2>1, <3>2 DEF IsFold
    <3> QED
      BY <3>3
  <2>2. g[{}] = s
    BY <1>4 DEF IsFold
  <2> QED
    BY <1>1, <2>1, <2>2
<1>6. PICK f : Fold(f) /\ Projected(s, cmds) = f[DOMAIN cmds]
  BY <1>5 DEF Projected, FoldLeft, MapThenFoldSet
<1> DEFINE r == [k \in 0 .. Len(cmds) |-> f[1 .. k]]
<1>7. r[0] = s
  BY <1>1, <1>6
<1>8. ASSUME NEW k \in 1 .. Len(cmds)
      PROVE  r[k] = Project(r[k - 1], cmds[k])
  <2>1. 1 .. k \in SUBSET (1 .. Len(cmds)) /\ k - 1 \in 0 .. Len(cmds) /\ k \in Nat /\ k > 0
    BY <1>1
  <2>2. Max(1 .. k) = k /\ 1 .. k # {} /\ (1 .. k) \ {k} = 1 .. k - 1
    BY <2>1, MaxOfPrefix
  <2>3. f[1 .. k] = Project(f[(1 .. k) \ {Max(1 .. k)}], cmds[Max(1 .. k)])
    BY <1>1, <1>6, <2>1, <2>2
  <2>4. r[k] = f[1 .. k] /\ r[k - 1] = f[1 .. k - 1]
    BY <1>1, <2>1
  <2> HIDE DEF r
  <2> QED
    BY <2>2, <2>3, <2>4
<1> HIDE DEF r
<1>9. ProjectRun(r, s, cmds)
  BY <1>7, <1>8 DEF ProjectRun
<1>10. r[Len(cmds)] = f[DOMAIN cmds]
  BY <1>1 DEF r
<1> QED
  BY <1>6, <1>9, <1>10

\* What a list of commands may do to a state, and what it must leave.
MovesAll(s, cmds, t) ==
  /\ \A c \in Challenges :
       (\A k \in DOMAIN cmds : ~Restarts(cmds[k], c)) /\ s.challenge[c].done =>
         t.challenge[c].done
  /\ (\A k \in DOMAIN cmds : cmds[k].kind \notin {"progress_challenge", "start_challenge"}) =>
       t.challenge = s.challenge
  /\ (\A k \in DOMAIN cmds : cmds[k].kind # "set_variable") => t.variable = s.variable
  /\ \A tr \in Tracks :
       (\A k \in DOMAIN cmds : ~Awards(cmds[k], tr)) =>
         t.xp[tr] = s.xp[tr] /\ t.level[tr] = s.level[tr]
  /\ LevelsAgree(s) => LevelsAgree(t)
  /\ \A b \in Boards :
       (\A k \in DOMAIN cmds : ~Ranks(cmds[k], b)) /\ Shows(s, b) => Shows(t, b)

LEMMA ProjectedMoves ==
  ASSUME config \in Configs, NEW u, NEW s \in State(u), NEW E, NEW cmds \in Seq(E),
         \A x \in E : Effective(x)
  PROVE  Projected(s, cmds) \in State(u) /\ MovesAll(s, cmds, Projected(s, cmds))
<1>1. Len(cmds) \in Nat /\ DOMAIN cmds = 1 .. Len(cmds)
  OBVIOUS
<1>2. PICK r : ProjectRun(r, s, cmds) /\ Projected(s, cmds) = r[Len(cmds)]
  BY ProjectedIsRun
<1> DEFINE T == {k \in Nat : k <= Len(cmds) => r[k] \in State(u) /\ MovesAll(s, cmds, r[k])}
<1>3. 0 \in T
  <2>1. r[0] = s
    BY <1>2 DEF ProjectRun
  <2>2. MovesAll(s, cmds, s)
    BY DEF MovesAll
  <2> QED
    BY <2>1, <2>2
<1>4. ASSUME NEW k \in Nat, k \in T
      PROVE  k + 1 \in T
  <2>0. SUFFICES ASSUME k + 1 <= Len(cmds)
                 PROVE  r[k + 1] \in State(u) /\ MovesAll(s, cmds, r[k + 1])
    OBVIOUS
  <2>1. r[k] \in State(u) /\ MovesAll(s, cmds, r[k])
    BY <1>1, <1>4, <2>0
  <2>2. k + 1 \in DOMAIN cmds /\ (k + 1) - 1 = k
    BY <1>1, <2>0
  <2>3. PICK x : x = cmds[k + 1] /\ Effective(x)
    <3>1. cmds[k + 1] \in E
      BY <2>2
    <3> QED
      BY <3>1
  <2>4. r[k + 1] = Project(r[k], x)
    BY <1>1, <1>2, <2>2, <2>3 DEF ProjectRun
  <2>5. r[k + 1] \in State(u) /\ Moves(r[k], x, r[k + 1])
    BY <2>1, <2>3, <2>4, ProjectMoves
  <2>6. MovesAll(s, cmds, r[k + 1])
    BY <2>1, <2>2, <2>3, <2>5 DEF MovesAll, Moves
  <2> QED
    BY <2>5, <2>6
<1>5. Nat \subseteq T
  <2> HIDE DEF T
  <2> QED
    BY <1>3, <1>4, InductionOnNat
<1> QED
  BY <1>1, <1>2, <1>5
-----------------------------------------------------------------------------
(* The steps.                                                              *)

\* What the proofs need of the state: the rows have the types of a state, and a
\* challenge that a command completed stays completed.
Ready ==
  /\ config \in Configs
  /\ rows \in State(rows.unlocked)
  /\ paid \in [Badges -> Nat]
  /\ won \in [Challenges -> Nat]
  /\ \A c \in Challenges : <<"challenge", c>> \in pushed => rows.challenge[c].done

Start(type) == [rows EXCEPT !.challenge = Progressed(type)]
With(s, unlocking) == [s EXCEPT !.unlocked = @ \union unlocking]

\* The decision, the state after it, the badges it unlocks, and their rewards.
Outcome(type, payload, decision, projected, unlocking, rewards, final) ==
  /\ decision \in Seq(Decidable) /\ rewards \in Seq(Rewarding)
  /\ decision \o rewards \in Seq(Decidable \union Rewarding)
  /\ Distinct(decision \o rewards)
  /\ projected \in State(rows.unlocked)
  /\ MovesAll(Start(type), decision, projected)
  /\ unlocking = Unlocks(projected, payload)
  /\ final \in State(rows.unlocked \union unlocking)
  /\ MovesAll(With(projected, unlocking), rewards, final)

Pushed(restarted, unlocked, type, final) ==
  (pushed \ {<<"challenge", c>> : c \in restarted}) \union
  {<<"badge", b>> : b \in unlocked} \union
  {<<"challenge", c>> : c \in {c \in Challenges :
     final.challenge[c].done /\ (~Progressed(type)[c].done \/ c \in restarted)}}

Becomes(type, decision, unlocking, rewards, final) ==
  /\ config' = config /\ n' = n + 1
  /\ rows' = Persist(final, decision \o rewards)
  /\ ledger' = InsertEntries(decision \o rewards)
  /\ decided' = decided + Amounts(decision \o rewards)
  /\ paid' = [b \in Badges |-> IF b \in unlocking THEN paid[b] + 1 ELSE paid[b]]
  /\ won' = [c \in Challenges |->
               IF c \in StartedByCommand(decision \o rewards) THEN 0
               ELSE IF c \in Completed(type) THEN won[c] + 1 ELSE won[c]]
  /\ pushed' = Pushed(StartedByCommand(decision \o rewards),
                      UnlockedByCommand(decision \o rewards), type, final)
  /\ shifted' = Shifts(unlocking \union UnlockedByCommand(decision \o rewards), rewards)

LEMMA StartTyped ==
  ASSUME Ready, NEW type
  PROVE  /\ Start(type) \in State(rows.unlocked)
         /\ \A c \in Challenges : rows.challenge[c].done => Progressed(type)[c].done
<1>1. /\ rows.xp \in [Tracks -> Nat] /\ rows.level \in [Tracks -> Nat]
      /\ rows.challenge \in [Challenges -> Instance]
      /\ rows.score \in [Boards -> Int] /\ rows \in State(rows.unlocked)
      /\ rows.variable \in [Variables -> Values \union {Null}]
  BY DEF Ready, State
<1>2. ASSUME NEW c \in Challenges
      PROVE  /\ Progressed(type)[c] \in Instance
             /\ rows.challenge[c].done => Progressed(type)[c].done
  <2>1. config.challenges[c].target \in Int
    BY ConfigsAssumption DEF Ready, EngineConfig, ChallengeSpec, Challenges
  <2>2. rows.challenge[c] \in Instance
    BY <1>1
  <2>3. Progressed(type)[c] \in {rows.challenge[c],
                                 Progress(rows.challenge[c], config.challenges[c].target, 1)}
    BY DEF Progressed
  <2>4. PICK p, t : p = rows.challenge[c] /\ t = config.challenges[c].target
    OBVIOUS
  <2>5. /\ Progress(p, t, 1) \in Instance
        /\ p.done => Progress(p, t, 1).done
    BY <2>1, <2>2, <2>4 DEF Progress, Instance
  <2> QED
    BY <2>2, <2>3, <2>4, <2>5
<1>3. Progressed(type) = [c \in Challenges |-> Progressed(type)[c]]
  BY DEF Progressed
<1>4. Progressed(type) \in [Challenges -> Instance]
  BY <1>2, <1>3
<1>5. Start(type) \in State(rows.unlocked)
  BY <1>1, <1>4 DEF Start, State
<1> QED
  BY <1>2, <1>5

LEMMA Outcomes ==
  ASSUME Ready, NEW type, NEW at, NEW payload, Process(type, at, payload)
  PROVE  \E decision, projected, unlocking, rewards, final :
           /\ Outcome(type, payload, decision, projected, unlocking, rewards, final)
           /\ Becomes(type, decision, unlocking, rewards, final)
<1> DEFINE decision == Decided(type, payload, Fired(type, at, payload))
           projected == Projected(Start(type), decision)
           unlocking == Unlocks(projected, payload)
           rewards == BadgeRewards(unlocking)
           final == Projected(With(projected, unlocking), rewards)
<1>0. config \in Configs
  BY DEF Ready
<1>1. Becomes(type, decision, unlocking, rewards, final)
  BY DEF Process, Becomes, Start, With, Pushed
<1>2. decision \in Seq(Decidable) /\ Distinct(decision)
  BY <1>0, Decides
<1> HIDE DEF decision
<1>3. projected \in State(rows.unlocked) /\ MovesAll(Start(type), decision, projected)
  BY <1>0, <1>2, StartTyped, ProjectedMoves, DecidableEffects
<1> HIDE DEF projected
<1>5. rewards \in Seq(Rewarding) /\ Distinct(rewards)
  BY <1>0, BadgeCommands
<1> HIDE DEF unlocking
<1> HIDE DEF rewards
<1>6. \A x \in Decidable, y \in Rewarding : x.key # y.key
  BY <1>0, DecidableEffects, RewardingEffects
<1>7. decision \o rewards \in Seq(Decidable \union Rewarding) /\ Distinct(decision \o rewards)
  BY <1>2, <1>5, <1>6, OfTwoKinds
<1>8. With(projected, unlocking) \in State(rows.unlocked \union unlocking)
  BY <1>3 DEF With, State
<1>9. /\ final \in State(rows.unlocked \union unlocking)
      /\ MovesAll(With(projected, unlocking), rewards, final)
  BY <1>0, <1>5, <1>8, ProjectedMoves, RewardingEffects
<1>10. unlocking = Unlocks(projected, payload)
  BY DEF unlocking
<1> HIDE DEF final
<1>11. Outcome(type, payload, decision, projected, unlocking, rewards, final)
  BY <1>2, <1>3, <1>5, <1>7, <1>9, <1>10 DEF Outcome
<1> QED
  BY <1>1, <1>11

LEMMA Persisted ==
  ASSUME Ready, NEW type, NEW payload, NEW decision, NEW projected, NEW unlocking,
         NEW rewards, NEW final,
         Outcome(type, payload, decision, projected, unlocking, rewards, final),
         Becomes(type, decision, unlocking, rewards, final)
  PROVE  /\ rows'.xp = final.xp /\ rows'.level = final.level
         /\ rows'.challenge = final.challenge /\ rows'.score = final.score
         /\ rows'.variable = final.variable
         /\ rows'.unlocked = rows.unlocked \union unlocking \union
                             UnlockedByCommand(decision \o rewards)
         /\ rows' \in State(rows'.unlocked)
         /\ projected.unlocked = rows.unlocked
<1>1. final \in State(rows.unlocked \union unlocking) /\ projected.unlocked = rows.unlocked
  BY DEF Outcome, State
<1>2. rows' = [final EXCEPT !.unlocked = @ \union rows.unlocked \union
                                         UnlockedByCommand(decision \o rewards)]
  BY DEF Becomes, Persist
<1> QED
  BY <1>1, <1>2 DEF State

\* A challenge that no command of the event starts again stays completed, and a
\* command's completion is one that the event did not make.
LEMMA StaysCompleted ==
  ASSUME Ready, NEW type, NEW payload, NEW decision, NEW projected, NEW unlocking,
         NEW rewards, NEW final,
         Outcome(type, payload, decision, projected, unlocking, rewards, final),
         NEW c \in Challenges, c \notin StartedByCommand(decision \o rewards)
  PROVE  /\ rows.challenge[c].done => Progressed(type)[c].done
         /\ Progressed(type)[c].done => final.challenge[c].done
<1>1. decision \in Seq(Decidable) /\ rewards \in Seq(Rewarding)
  BY DEF Outcome
<1>2. \A k \in DOMAIN decision : ~Restarts(decision[k], c)
  <2> SUFFICES ASSUME NEW k \in DOMAIN decision, Restarts(decision[k], c)
               PROVE  FALSE
    OBVIOUS
  <2>1. k \in DOMAIN (decision \o rewards) /\ (decision \o rewards)[k] = decision[k]
    BY <1>1
  <2> QED
    BY <2>1 DEF Restarts, StartedByCommand
<1>3. \A k \in DOMAIN rewards : ~Restarts(rewards[k], c)
  <2> SUFFICES ASSUME NEW k \in DOMAIN rewards
               PROVE  rewards[k].kind # "start_challenge"
    BY DEF Restarts
  <2>1. rewards[k] \in Rewarding
    BY <1>1
  <2> QED
    BY <2>1, RewardingEffects DEF Ready
<1>4. Start(type).challenge = Progressed(type)
  BY DEF Ready, Start, State
<1>5. With(projected, unlocking).challenge = projected.challenge
  BY DEF Outcome, With, State
<1>6. rows.challenge[c].done => Progressed(type)[c].done
  BY StartTyped
<1>7. Progressed(type)[c].done => projected.challenge[c].done
  BY <1>2, <1>4 DEF Outcome, MovesAll
<1>8. projected.challenge[c].done => final.challenge[c].done
  BY <1>3, <1>5 DEF Outcome, MovesAll
<1> QED
  BY <1>6, <1>7, <1>8

\* Challenges stay completed until they are started, and the rows keep their types.
LEMMA ReadyStep ==
  ASSUME Ready, NEW type, NEW at, NEW payload, Process(type, at, payload)
  PROVE  Ready'
<1>1. PICK decision, projected, unlocking, rewards, final :
        /\ Outcome(type, payload, decision, projected, unlocking, rewards, final)
        /\ Becomes(type, decision, unlocking, rewards, final)
  BY Outcomes
<1>2. /\ rows' \in State(rows'.unlocked) /\ rows'.challenge = final.challenge
  BY <1>1, Persisted
<1>3. config' = config /\ Badges' = Badges /\ Challenges' = Challenges
  BY <1>1 DEF Becomes, Badges, Challenges
<1>4. (rows \in State(rows.unlocked))'
  BY <1>2, <1>3 DEF State
<1>5. paid' \in [Badges -> Nat] /\ won' \in [Challenges -> Nat]
  BY <1>1 DEF Becomes, Ready
<1>6. \A c \in Challenges :
        c \notin StartedByCommand(decision \o rewards) /\ rows.challenge[c].done =>
          final.challenge[c].done
  BY <1>1, StaysCompleted
<1>7. ASSUME NEW c \in Challenges, <<"challenge", c>> \in pushed'
      PROVE  rows'.challenge[c].done
  <2>1. \/ <<"challenge", c>> \in pushed /\ c \notin StartedByCommand(decision \o rewards)
        \/ final.challenge[c].done
    BY <1>1, <1>7 DEF Becomes, Pushed
  <2>2. <<"challenge", c>> \in pushed => rows.challenge[c].done
    BY DEF Ready
  <2> QED
    BY <1>2, <1>6, <2>1, <2>2
<1> QED
  BY <1>2, <1>3, <1>4, <1>5, <1>7 DEF Ready

LEMMA ReadyHolds == Spec => []Ready
<1>1. ASSUME Init
      PROVE  Ready
  <2>1. /\ rows = [xp |-> [t \in Tracks |-> 0], level |-> [t \in Tracks |-> 0],
                   challenge |-> [c \in Challenges |-> Untouched], unlocked |-> {},
                   score |-> [b \in Boards |-> 0],
                   variable |-> [k \in Variables |-> Null]]
        /\ Untouched \in Instance
    BY <1>1 DEF Init, Untouched, Instance
  <2>2. rows \in State(rows.unlocked)
    BY <2>1 DEF State
  <2>3. /\ config \in Configs /\ pushed = {}
        /\ paid \in [Badges -> Nat] /\ won \in [Challenges -> Nat]
    BY <1>1 DEF Init
  <2> QED
    BY <2>2, <2>3 DEF Ready
<1>2. Ready /\ [Next]_vars => Ready'
  <2> SUFFICES ASSUME Ready, [Next]_vars
               PROVE  Ready'
    OBVIOUS
  <2>1. ASSUME NEW type \in Types, NEW at \in Instants, NEW payload \in Payloads,
               Process(type, at, payload)
        PROVE  Ready'
    BY <2>1, ReadyStep
  <2>2. CASE UNCHANGED vars
    BY <2>2 DEF vars, Ready, State, Challenges, Badges
  <2> QED
    BY <2>1, <2>2 DEF Next
<1> QED
  BY <1>1, <1>2, PTL DEF Spec

\* A badge is issued its rewards when the engine unlocks it, a challenge when an
\* event completes it.
LEMMA PaidStep ==
  ASSUME Ready, RewardsPaidOnce, NEW type, NEW at, NEW payload, Process(type, at, payload)
  PROVE  RewardsPaidOnce'
<1>1. PICK decision, projected, unlocking, rewards, final :
        /\ Outcome(type, payload, decision, projected, unlocking, rewards, final)
        /\ Becomes(type, decision, unlocking, rewards, final)
  BY Outcomes
<1>2. PICK cmds : cmds = decision \o rewards
  OBVIOUS
<1>3. /\ config' = config /\ Badges' = Badges /\ Challenges' = Challenges
      /\ rows'.challenge = final.challenge
      /\ rows'.unlocked = rows.unlocked \union unlocking \union UnlockedByCommand(cmds)
      /\ projected.unlocked = rows.unlocked
  <2>1. config' = config
    BY <1>1 DEF Becomes
  <2>2. Badges' = Badges /\ Challenges' = Challenges
    BY <2>1 DEF Badges, Challenges
  <2> QED
    BY <1>1, <1>2, <2>1, <2>2, Persisted
<1>4. /\ paid' = [b \in Badges |-> IF b \in unlocking THEN paid[b] + 1 ELSE paid[b]]
      /\ won' = [c \in Challenges |->
                   IF c \in StartedByCommand(cmds) THEN 0
                   ELSE IF c \in Completed(type) THEN won[c] + 1 ELSE won[c]]
      /\ pushed' = Pushed(StartedByCommand(cmds), UnlockedByCommand(cmds), type, final)
  BY <1>1, <1>2 DEF Becomes
<1>5. ASSUME NEW b \in Badges, ~config.badges[b].repeatable
      PROVE  \/ paid'[b] = IF b \in rows'.unlocked THEN 1 ELSE 0
             \/ <<"badge", b>> \in pushed' /\ paid'[b] = 0
  <2>1. \/ paid[b] = IF b \in rows.unlocked THEN 1 ELSE 0
        \/ <<"badge", b>> \in pushed /\ paid[b] = 0
    BY <1>5 DEF RewardsPaidOnce
  <2>0. /\ <<"badge", b>> \in pushed => <<"badge", b>> \in pushed'
        /\ b \in UnlockedByCommand(cmds) => <<"badge", b>> \in pushed'
    BY <1>4 DEF Pushed
  <2>2. CASE b \in unlocking
    <3>1. b \notin rows.unlocked
      BY <1>1, <1>3, <1>5, <2>2 DEF Outcome, Unlocks
    <3> QED
      BY <1>3, <1>4, <2>0, <2>1, <2>2, <3>1
  <2>3. CASE b \notin unlocking
    <3>1. paid'[b] = paid[b]
      BY <1>4, <2>3
    <3>2. CASE b \in rows.unlocked
      BY <1>3, <1>4, <2>0, <2>1, <3>1, <3>2
    <3>3. CASE b \notin rows.unlocked /\ b \in UnlockedByCommand(cmds)
      BY <1>4, <2>0, <2>1, <3>1, <3>3
    <3>4. CASE b \notin rows.unlocked /\ b \notin UnlockedByCommand(cmds)
      BY <1>3, <1>4, <2>0, <2>1, <2>3, <3>1, <3>4
    <3> QED
      BY <3>2, <3>3, <3>4
  <2> QED
    BY <2>2, <2>3
<1>6. ASSUME NEW c \in Challenges
      PROVE  won'[c] = IF rows'.challenge[c].done /\ <<"challenge", c>> \notin pushed'
                       THEN 1 ELSE 0
  <2>1. <<"challenge", c>> \in pushed' <=>
          \/ <<"challenge", c>> \in pushed /\ c \notin StartedByCommand(cmds)
          \/ /\ final.challenge[c].done
             /\ (~Progressed(type)[c].done \/ c \in StartedByCommand(cmds))
    BY <1>4 DEF Pushed
  <2>2. CASE c \in StartedByCommand(cmds)
    BY <1>3, <1>4, <2>1, <2>2
  <2>3. CASE c \notin StartedByCommand(cmds)
    <3>1. /\ rows.challenge[c].done => Progressed(type)[c].done
          /\ Progressed(type)[c].done => final.challenge[c].done
      BY <1>1, <1>2, <2>3, StaysCompleted
    <3>2. /\ won[c] = IF rows.challenge[c].done /\ <<"challenge", c>> \notin pushed
                      THEN 1 ELSE 0
          /\ <<"challenge", c>> \in pushed => rows.challenge[c].done
      BY DEF RewardsPaidOnce, Ready
    <3>3. won'[c] = IF Progressed(type)[c].done /\ ~rows.challenge[c].done
                    THEN won[c] + 1 ELSE won[c]
      BY <1>4, <2>3 DEF Completed
    <3> QED
      BY <1>3, <2>1, <2>3, <3>1, <3>2, <3>3
  <2> QED
    BY <2>2, <2>3
<1> QED
  BY <1>3, <1>5, <1>6 DEF RewardsPaidOnce

\* The rewards of achievements and challenges are issued once, or once more after
\* each start_challenge command, and not at all if a command was the cause
\* (evaluate, process_event and apply_projection).
THEOREM RewardsIssuedOnce == Spec => []RewardsPaidOnce
<1>1. Init => RewardsPaidOnce
  <2> SUFFICES ASSUME Init
               PROVE  RewardsPaidOnce
    OBVIOUS
  <2>1. \A b \in Badges : paid[b] = 0 /\ b \notin rows.unlocked
    BY DEF Init
  <2>2. \A c \in Challenges : won[c] = 0 /\ ~rows.challenge[c].done
    BY DEF Init, Untouched
  <2> QED
    BY <2>1, <2>2 DEF RewardsPaidOnce
<1>2. Ready /\ RewardsPaidOnce /\ [Next]_vars => RewardsPaidOnce'
  <2> SUFFICES ASSUME Ready, RewardsPaidOnce, [Next]_vars
               PROVE  RewardsPaidOnce'
    OBVIOUS
  <2>1. ASSUME NEW type \in Types, NEW at \in Instants, NEW payload \in Payloads,
               Process(type, at, payload)
        PROVE  RewardsPaidOnce'
    BY <2>1, PaidStep
  <2>2. CASE UNCHANGED vars
    BY <2>2 DEF vars, RewardsPaidOnce, Badges, Challenges
  <2> QED
    BY <2>1, <2>2 DEF Next
<1> QED
  BY <1>1, <1>2, ReadyHolds, PTL DEF Spec
-----------------------------------------------------------------------------
\* What the unlocks of an event do not change reads the same after it as when the
\* conditions of the achievements were evaluated.
LEMMA SameField ==
  ASSUME Ready, NEW type, NEW payload, NEW decision, NEW projected, NEW unlocking,
         NEW rewards, NEW final,
         Outcome(type, payload, decision, projected, unlocking, rewards, final),
         Becomes(type, decision, unlocking, rewards, final),
         NEW leaf, Comparison(leaf), leaf.field \notin shifted' \union {<<"payload">>}
  PROVE  Field(leaf.field, rows', Null) = Field(leaf.field, projected, payload)
<1>1. /\ rows'.xp = final.xp /\ rows'.level = final.level /\ rows'.challenge = final.challenge
      /\ rows'.variable = final.variable
      /\ rows'.unlocked = rows.unlocked \union unlocking \union
                          UnlockedByCommand(decision \o rewards)
      /\ projected.unlocked = rows.unlocked
  BY Persisted
<1>2. PICK kind, row : /\ leaf.field = <<kind, row>>
                       /\ kind \in {"level", "xp", "completed", "unlocked", "variable"}
  BY DEF Comparison
<1>3. /\ With(projected, unlocking).xp = projected.xp
      /\ With(projected, unlocking).level = projected.level
      /\ With(projected, unlocking).challenge = projected.challenge
      /\ With(projected, unlocking).variable = projected.variable
  BY DEF Outcome, With, State
<1>4. config \in Configs /\ \A k \in DOMAIN rewards : rewards[k] \in Rewarding
  BY DEF Ready, Outcome
<1>5. shifted' = Shifts(unlocking \union UnlockedByCommand(decision \o rewards), rewards)
  BY DEF Becomes
<1>6. CASE kind \in {"level", "xp"}
  <2>1. CASE row \notin Leveled
    BY <1>2, <1>6, <2>1 DEF Field
  <2>2. CASE row \in Leveled
    <3>1. row \in Tracks
      BY <2>2, EngineAssumption
    <3>2. \A k \in DOMAIN rewards : ~Awards(rewards[k], row)
      BY <1>2, <1>5, <1>6 DEF Shifts, Awards
    <3>3. final.xp[row] = projected.xp[row] /\ final.level[row] = projected.level[row]
      BY <1>3, <3>1, <3>2 DEF Outcome, MovesAll
    <3> QED
      BY <1>1, <1>2, <1>6, <3>3 DEF Field
  <2> QED
    BY <2>1, <2>2
<1>7. CASE kind = "completed"
  <2>1. \A k \in DOMAIN rewards :
          rewards[k].kind \notin {"progress_challenge", "start_challenge"}
    BY <1>4, RewardingEffects
  <2>2. final.challenge = projected.challenge
    BY <1>3, <2>1 DEF Outcome, MovesAll
  <2> QED
    BY <1>1, <1>2, <1>7, <2>2 DEF Field
<1>8. CASE kind = "unlocked"
  <2>1. row \notin unlocking \union UnlockedByCommand(decision \o rewards)
    BY <1>2, <1>5, <1>8 DEF Shifts
  <2>2. row \in rows'.unlocked <=> row \in projected.unlocked
    BY <1>1, <2>1
  <2> QED
    BY <1>2, <1>8, <2>2 DEF Field, Bool
<1>9. CASE kind = "variable"
  <2>1. \A k \in DOMAIN rewards : rewards[k].kind # "set_variable"
    BY <1>4, RewardingEffects
  <2>2. final.variable = projected.variable
    BY <1>3, <2>1 DEF Outcome, MovesAll
  <2> QED
    BY <1>1, <1>2, <1>9, <2>2 DEF Field
<1> QED
  BY <1>2, <1>6, <1>7, <1>8, <1>9

LEMMA UnlockStep ==
  ASSUME Ready, NEW type, NEW at, NEW payload, Process(type, at, payload)
  PROVE  BadgesOnTime'
<1>1. PICK decision, projected, unlocking, rewards, final :
        /\ Outcome(type, payload, decision, projected, unlocking, rewards, final)
        /\ Becomes(type, decision, unlocking, rewards, final)
  BY Outcomes
<1>2. config' = config /\ Badges' = Badges /\ config \in Configs
  BY <1>1 DEF Becomes, Badges, Ready
<1> SUFFICES ASSUME NEW b \in Badges, b \notin rows'.unlocked,
                    Matches(config.badges[b].cond, rows', Null),
                    \A leaf \in config.badges[b].cond.of :
                      leaf.field \notin shifted' \union {<<"payload">>}
             PROVE  FALSE
  BY <1>2 DEF BadgesOnTime
<1>3. PICK cond : cond = config.badges[b].cond /\ Condition(cond)
  BY <1>2, ConfigsAssumption DEF EngineConfig, AchievementSpec, Badges
<1>4. \A leaf \in cond.of :
        Field(leaf.field, rows', Null) = Field(leaf.field, projected, payload)
  BY <1>1, <1>3, SameField DEF Condition
<1>5. \A leaf \in cond.of : Holds(leaf, rows', Null) <=> Holds(leaf, projected, payload)
  BY <1>4 DEF Holds
<1>6. Matches(cond, projected, payload)
  BY <1>3, <1>5 DEF Matches, Condition
<1>7. /\ rows'.unlocked = rows.unlocked \union unlocking \union
                          UnlockedByCommand(decision \o rewards)
      /\ projected.unlocked = rows.unlocked
  BY <1>1, Persisted
<1>8. b \in unlocking
  BY <1>1, <1>3, <1>6, <1>7 DEF Outcome, Unlocks
<1> QED
  BY <1>7, <1>8

\* A badge whose condition holds is unlocked by the event that makes it hold,
\* unless the unlocks of that event made it hold (process_event, evaluate).
THEOREM BadgesUnlockOnTime == Spec => []BadgesOnTime
<1>1. Init => BadgesOnTime
  BY DEF Init, BadgesOnTime
<1>2. Ready /\ BadgesOnTime /\ [Next]_vars => BadgesOnTime'
  <2> SUFFICES ASSUME Ready, BadgesOnTime, [Next]_vars
               PROVE  BadgesOnTime'
    OBVIOUS
  <2>1. ASSUME NEW type \in Types, NEW at \in Instants, NEW payload \in Payloads,
               Process(type, at, payload)
        PROVE  BadgesOnTime'
    BY <2>1, UnlockStep
  <2>2. CASE UNCHANGED vars
    <3>1. /\ config' = config /\ rows' = rows /\ n' = n /\ shifted' = shifted
          /\ Badges' = Badges
      BY <2>2 DEF vars, Badges
    <3>2. \A c, s : Matches(c, s, Null)' <=> Matches(c, s, Null)
      BY DEF Matches, Holds, Field
    <3> QED
      BY <3>1, <3>2 DEF BadgesOnTime
  <2> QED
    BY <2>1, <2>2 DEF Next
<1> QED
  BY <1>1, <1>2, ReadyHolds, PTL DEF Spec
-----------------------------------------------------------------------------
\* Boards that no command updates show the XP they rank.
BoardsShow == \A b \in {x \in Boards : ~Updated(x)} : Shows(rows, b)

LEMMA AgreeStep ==
  ASSUME Ready, LevelsAgree(rows), BoardsShow,
         NEW type, NEW at, NEW payload, Process(type, at, payload)
  PROVE  LevelsAgree(rows') /\ BoardsShow'
<1>1. PICK decision, projected, unlocking, rewards, final :
        /\ Outcome(type, payload, decision, projected, unlocking, rewards, final)
        /\ Becomes(type, decision, unlocking, rewards, final)
  BY Outcomes
<1>2. config' = config /\ config \in Configs
  BY <1>1 DEF Becomes, Ready
<1>3. rows'.xp = final.xp /\ rows'.level = final.level /\ rows'.score = final.score
  BY <1>1, Persisted
<1>4. /\ Start(type).xp = rows.xp /\ Start(type).level = rows.level
      /\ Start(type).score = rows.score
  BY DEF Ready, Start, State
<1>5. /\ With(projected, unlocking).xp = projected.xp
      /\ With(projected, unlocking).level = projected.level
      /\ With(projected, unlocking).score = projected.score
  BY <1>1 DEF Outcome, With, State
<1>6. LevelsAgree(rows')
  <2>1. LevelsAgree(Start(type))
    BY <1>4 DEF LevelsAgree
  <2>2. LevelsAgree(projected)
    BY <1>1, <2>1 DEF Outcome, MovesAll
  <2>3. LevelsAgree(With(projected, unlocking))
    BY <1>5, <2>2 DEF LevelsAgree
  <2>4. LevelsAgree(final)
    BY <1>1, <2>3 DEF Outcome, MovesAll
  <2> QED
    BY <1>3, <2>4 DEF LevelsAgree
<1>7. \A b : Updated(b)' <=> Updated(b)
  BY <1>2 DEF Updated, Rules, Workflows, Updates
<1>8. ASSUME NEW b \in Boards, ~Updated(b)
      PROVE  Shows(rows', b)
  <2>1. \A k \in DOMAIN decision : ~Ranks(decision[k], b)
    <3>1. \A k \in DOMAIN decision : decision[k] \in Decidable
      BY <1>1 DEF Outcome
    <3> QED
      BY <1>2, <1>8, <3>1, DecidableEffects DEF Ranks
  <2>2. \A k \in DOMAIN rewards : ~Ranks(rewards[k], b)
    <3>1. \A k \in DOMAIN rewards : rewards[k] \in Rewarding
      BY <1>1 DEF Outcome
    <3> QED
      BY <1>2, <3>1, RewardingEffects DEF Ranks
  <2>3. Shows(Start(type), b)
    BY <1>4, <1>8 DEF BoardsShow, Shows
  <2>4. Shows(projected, b)
    BY <1>1, <2>1, <2>3 DEF Outcome, MovesAll
  <2>5. Shows(With(projected, unlocking), b)
    BY <1>5, <2>4 DEF Shows
  <2>6. Shows(final, b)
    BY <1>1, <2>2, <2>5 DEF Outcome, MovesAll
  <2> QED
    BY <1>3, <2>6 DEF Shows
<1>9. BoardsShow'
  <2>1. \A b \in Boards : ~Updated(b) => Shows(rows', b)
    BY <1>8
  <2> QED
    BY <1>2, <1>7, <2>1 DEF BoardsShow, Shows
<1> QED
  BY <1>6, <1>9
-----------------------------------------------------------------------------
(* Sums.                                                                   *)

\* The element that FoldFunction takes first.
Pick(s) == CHOOSE x \in s : TRUE

\* The function that FoldFunction folds with, on the subsets of U.
IsSum(g, f, U) ==
  g = [s \in SUBSET U |-> IF s = {} THEN 0 ELSE f[Pick(s)] + g[s \ {Pick(s)}]]

LEMMA SumExists ==
  ASSUME NEW f, NEW U, IsFiniteSet(U), \A i \in U : f[i] \in Int
  PROVE  \E g \in [SUBSET U -> Int] : IsSum(g, f, U)
<1> DEFINE Part(h, s) == IF s = {} THEN 0 ELSE f[Pick(s)] + h[s \ {Pick(s)}]
           Upto(m) == {s \in SUBSET U : Cardinality(s) <= m}
           S == {m \in Nat : \E h \in [Upto(m) -> Int] : \A s \in Upto(m) : h[s] = Part(h, s)}
<1>1. \A s \in SUBSET U : /\ IsFiniteSet(s) /\ Cardinality(s) \in Nat
                          /\ Cardinality(s) <= Cardinality(U)
                          /\ Cardinality(s) = 0 <=> s = {}
  BY FS_Subset, FS_CardinalityType, FS_EmptySet
<1>2. \A s \in SUBSET U : s # {} => /\ Pick(s) \in s
                                    /\ s \ {Pick(s)} \in SUBSET U
                                    /\ Cardinality(s \ {Pick(s)}) = Cardinality(s) - 1
  BY <1>1, FS_RemoveElement DEF Pick
<1>3. 0 \in S
  <2> DEFINE h == [s \in Upto(0) |-> 0]
  <2>1. \A s \in Upto(0) : s = {}
    BY <1>1
  <2>2. h \in [Upto(0) -> Int] /\ \A s \in Upto(0) : h[s] = Part(h, s)
    BY <2>1
  <2>3. QED
    BY <2>2
<1>4. ASSUME NEW m \in Nat, m \in S PROVE m + 1 \in S
  <2>1. PICK h \in [Upto(m) -> Int] : \A s \in Upto(m) : h[s] = Part(h, s)
    BY <1>4
  <2> DEFINE k == [s \in Upto(m + 1) |-> Part(h, s)]
  <2>2. Upto(m) \subseteq Upto(m + 1)
    BY <1>1
  <2>3. \A s \in Upto(m + 1) : s # {} => s \ {Pick(s)} \in Upto(m)
    BY <1>1, <1>2
  <2>4. \A s \in Upto(m) : k[s] = h[s]
    BY <2>1, <2>2
  <2>5. \A s \in Upto(m + 1) : Part(h, s) \in Int
    BY <1>2, <2>3
  <2>6. k \in [Upto(m + 1) -> Int]
    BY <2>5
  <2>7. \A s \in Upto(m + 1) : k[s] = Part(k, s)
    BY <2>3, <2>4
  <2> HIDE DEF k, Part, Upto
  <2>8. QED
    BY <2>6, <2>7
<1>5. Cardinality(U) \in S
  <2>1. Nat \subseteq S
    <3> HIDE DEF S
    <3>1. QED
      BY <1>3, <1>4, InductionOnNat
  <2>2. QED
    BY <2>1, FS_CardinalityType
<1>6. PICK h \in [Upto(Cardinality(U)) -> Int] :
        \A s \in Upto(Cardinality(U)) : h[s] = Part(h, s)
  BY <1>5
<1>7. Upto(Cardinality(U)) = SUBSET U
  BY <1>1
<1>8. QED
  BY <1>6, <1>7 DEF IsSum

\* A sum that does not depend on the order in which elements are taken.
AnyOrder(g, f, U) ==
  \A s \in SUBSET U : \A x \in s : g[s] = f[x] + g[s \ {x}]

\* A sum of numbers is a number.
LEMMA SumTyped ==
  ASSUME NEW f, NEW U, IsFiniteSet(U), \A i \in U : f[i] \in Int,
         NEW g, IsSum(g, f, U)
  PROVE  g[{}] = 0 /\ \A s \in SUBSET U : g[s] \in Int
<1> DEFINE S == {m \in Nat : \A s \in SUBSET U : Cardinality(s) = m => g[s] \in Int}
<1>1. \A s \in SUBSET U : /\ IsFiniteSet(s) /\ Cardinality(s) \in Nat
                          /\ Cardinality(s) = 0 <=> s = {}
  BY FS_Subset, FS_CardinalityType, FS_EmptySet
<1>2. \A s \in SUBSET U : \A x \in s :
        s \ {x} \in SUBSET U /\ Cardinality(s \ {x}) = Cardinality(s) - 1
  BY <1>1, FS_RemoveElement
<1>3. /\ g[{}] = 0
      /\ \A s \in SUBSET U : s # {} =>
           \E x \in s : g[s] = f[x] + g[s \ {x}]
  BY DEF IsSum, Pick
<1>4. 0 \in S
  <2>1. \A s \in SUBSET U : Cardinality(s) = 0 => g[s] = 0
    BY <1>1, <1>3
  <2>2. QED
    BY <2>1
<1>5. ASSUME NEW m \in Nat, m \in S PROVE m + 1 \in S
  <2>1. SUFFICES ASSUME NEW s \in SUBSET U, Cardinality(s) = m + 1 PROVE g[s] \in Int
    OBVIOUS
  <2>2. s # {}
    BY <1>1, <2>1
  <2>3. PICK y \in s : g[s] = f[y] + g[s \ {y}]
    BY <1>3, <2>2
  <2>4. g[s \ {y}] \in Int /\ f[y] \in Int
    BY <1>2, <1>5, <2>1
  <2>5. QED
    BY <2>3, <2>4
<1>6. Nat \subseteq S
  <2> HIDE DEF S
  <2>1. QED
    BY <1>4, <1>5, InductionOnNat
<1>7. QED
  BY <1>1, <1>3, <1>6

LEMMA SumAnyOrder ==
  ASSUME NEW f, NEW U, IsFiniteSet(U), \A i \in U : f[i] \in Int,
         NEW g, IsSum(g, f, U)
  PROVE  AnyOrder(g, f, U)
<1> DEFINE S == {m \in Nat : \A s \in SUBSET U :
                   Cardinality(s) = m => \A x \in s : g[s] = f[x] + g[s \ {x}]}
<1>1. \A s \in SUBSET U : /\ IsFiniteSet(s) /\ Cardinality(s) \in Nat
                          /\ Cardinality(s) = 0 <=> s = {}
  BY FS_Subset, FS_CardinalityType, FS_EmptySet
<1>2. \A s \in SUBSET U : \A x \in s :
        s \ {x} \in SUBSET U /\ Cardinality(s \ {x}) = Cardinality(s) - 1
  BY <1>1, FS_RemoveElement
<1>3. \A s \in SUBSET U : s # {} => \E x \in s : g[s] = f[x] + g[s \ {x}]
  BY DEF IsSum, Pick
<1>4. 0 \in S
  BY <1>1
<1>5. ASSUME NEW m \in Nat, m \in S PROVE m + 1 \in S
  <2>1. SUFFICES ASSUME NEW s \in SUBSET U, Cardinality(s) = m + 1,
                        NEW x \in s
                 PROVE  g[s] = f[x] + g[s \ {x}]
    OBVIOUS
  <2>2. PICK y \in s : g[s] = f[y] + g[s \ {y}]
    BY <1>3, <2>1
  <2>3. CASE y # x
    <3> DEFINE rest == g[(s \ {y}) \ {x}]
    <3>1. (s \ {x}) \ {y} = (s \ {y}) \ {x} /\ x \in s \ {y} /\ y \in s \ {x}
      BY <2>3
    <3>2. /\ s \ {x} \in SUBSET U /\ Cardinality(s \ {x}) = m
          /\ s \ {y} \in SUBSET U /\ Cardinality(s \ {y}) = m
          /\ (s \ {y}) \ {x} \in SUBSET U
      BY <1>2, <2>1
    <3>3. g[s \ {y}] = f[x] + rest /\ g[s \ {x}] = f[y] + rest
      <4>1. g[s \ {y}] = f[x] + g[(s \ {y}) \ {x}]
        BY <1>5, <3>1, <3>2
      <4>2. g[s \ {x}] = f[y] + g[(s \ {x}) \ {y}]
        BY <1>5, <3>1, <3>2
      <4> QED
        BY <3>1, <4>1, <4>2
    <3>4. rest \in Int /\ f[x] \in Int /\ f[y] \in Int
      BY <3>2, SumTyped
    <3> HIDE DEF rest
    <3>5. QED
      BY <2>2, <3>3, <3>4
  <2>4. QED
    BY <2>2, <2>3
<1>6. Nat \subseteq S
  <2> HIDE DEF S
  <2>1. QED
    BY <1>4, <1>5, InductionOnNat
<1>7. QED
  BY <1>1, <1>6 DEF AnyOrder

SumOf(f) == FoldFunction(+, 0, f)

\* A ledger: finitely many keys, with amounts.
Book(f) == IsFiniteSet(DOMAIN f) /\ f \in [DOMAIN f -> Int]

LEMMA SumIsSum ==
  ASSUME NEW f, Book(f)
  PROVE  \E g : IsSum(g, f, DOMAIN f) /\ SumOf(f) = g[DOMAIN f]
<1>1. \E g : IsSum(g, f, DOMAIN f)
  BY SumExists DEF Book
<1> QED
  BY <1>1 DEF SumOf, FoldFunction, FoldFunctionOnSet, MapThenFoldSet, IsSum, Pick

Extended(f, k, a) == [x \in DOMAIN f \union {k} |-> IF x \in DOMAIN f THEN f[x] ELSE a]
Grown(f, k, a, h) ==
  /\ Book(h) /\ DOMAIN h = DOMAIN f \union {k}
  /\ SumOf(f) \in Int /\ SumOf(h) = SumOf(f) + a

\* An amount under a new key adds to the sum.
LEMMA SumGrows ==
  ASSUME NEW f, Book(f), NEW k, k \notin DOMAIN f, NEW a \in Int,
         NEW h, h = Extended(f, k, a)
  PROVE  Grown(f, k, a, h)
<1>1. /\ DOMAIN h = DOMAIN f \union {k} /\ h[k] = a
      /\ \A x \in DOMAIN f : h[x] = f[x]
      /\ h = [x \in DOMAIN f \union {k} |-> h[x]]
  BY DEF Extended
<1>2. Book(h)
  <2>1. IsFiniteSet(DOMAIN h)
    BY <1>1, FS_AddElement DEF Book
  <2> QED
    BY <1>1, <2>1 DEF Book
<1>3. PICK gf : IsSum(gf, f, DOMAIN f) /\ SumOf(f) = gf[DOMAIN f]
  BY SumIsSum
<1>4. PICK gh : IsSum(gh, h, DOMAIN h) /\ SumOf(h) = gh[DOMAIN h]
  BY <1>2, SumIsSum
<1>5. /\ gf[{}] = 0 /\ \A s \in SUBSET DOMAIN f : gf[s] \in Int
      /\ AnyOrder(gf, f, DOMAIN f)
  BY <1>3, SumTyped, SumAnyOrder DEF Book
<1>6. /\ gh[{}] = 0 /\ \A s \in SUBSET DOMAIN h : gh[s] \in Int
      /\ AnyOrder(gh, h, DOMAIN h)
  BY <1>2, <1>4, SumTyped, SumAnyOrder DEF Book
<1> DEFINE T == {m \in Nat : \A s \in SUBSET DOMAIN f : Cardinality(s) = m => gh[s] = gf[s]}
<1>7. \A s \in SUBSET DOMAIN f : /\ IsFiniteSet(s) /\ Cardinality(s) \in Nat
                                 /\ Cardinality(s) = 0 <=> s = {}
  BY FS_Subset, FS_CardinalityType, FS_EmptySet DEF Book
<1>8. 0 \in T
  BY <1>5, <1>6, <1>7
<1>9. ASSUME NEW m \in Nat, m \in T
      PROVE  m + 1 \in T
  <2> SUFFICES ASSUME NEW s \in SUBSET DOMAIN f, Cardinality(s) = m + 1
               PROVE  gh[s] = gf[s]
    OBVIOUS
  <2>1. PICK x \in s : TRUE
    BY <1>7
  <2>2. s \ {x} \in SUBSET DOMAIN f /\ Cardinality(s \ {x}) = m
    <3>1. IsFiniteSet(s) /\ Cardinality(s) = m + 1
      BY <1>7
    <3>2. Cardinality(s \ {x}) = Cardinality(s) - 1
      BY ONLY <2>1, <3>1, FS_RemoveElement
    <3> QED
      BY ONLY <3>1, <3>2, s \in SUBSET DOMAIN f, m \in Nat
  <2>3. gh[s \ {x}] = gf[s \ {x}]
    BY <1>9, <2>2
  <2>4. x \in DOMAIN f /\ s \in SUBSET DOMAIN h
    BY <1>1, <2>1
  <2>5. gf[s] = f[x] + gf[s \ {x}]
    BY <1>5, <2>1 DEF AnyOrder
  <2>6. gh[s] = h[x] + gh[s \ {x}]
    BY <1>6, <2>1, <2>4 DEF AnyOrder
  <2>7. h[x] = f[x]
    BY <1>1, <2>4
  <2> QED
    BY <2>3, <2>5, <2>6, <2>7
<1>10. gh[DOMAIN f] = gf[DOMAIN f]
  <2>1. Nat \subseteq T
    <3> HIDE DEF T
    <3> QED
      BY <1>8, <1>9, InductionOnNat
  <2> QED
    BY <1>7, <2>1
<1>11. gh[DOMAIN h] = h[k] + gh[DOMAIN f]
  <2>1. k \in DOMAIN h /\ DOMAIN h \ {k} = DOMAIN f
    BY <1>1
  <2>2. \A s \in SUBSET DOMAIN h : \A x \in s : gh[s] = h[x] + gh[s \ {x}]
    BY <1>6, Zenon DEF AnyOrder
  <2>3. DOMAIN h \in SUBSET DOMAIN h
    OBVIOUS
  <2>4. gh[DOMAIN h] = h[k] + gh[DOMAIN h \ {k}]
    BY <2>1, <2>2, <2>3
  <2> QED
    BY <2>1, <2>4
<1>12. gf[DOMAIN f] \in Int
  BY <1>5
<1> QED
  BY <1>1, <1>2, <1>3, <1>4, <1>10, <1>11, <1>12 DEF Grown
-----------------------------------------------------------------------------
(* The ledger.                                                             *)

\* The reported amounts, and the ledger, after each of the commands.
AmountRun(r, cmds) ==
  r[0] = 0 /\ \A k \in 1 .. Len(cmds) : r[k] = AddAmount(r[k - 1], cmds[k])
InsertRun(r, cmds) ==
  r[0] = ledger /\ \A k \in 1 .. Len(cmds) : r[k] = InsertEntry(r[k - 1], cmds[k])

LEMMA AmountsIsRun ==
  ASSUME NEW E, NEW cmds \in Seq(E), \A x \in E : Effective(x)
  PROVE  \E r : AmountRun(r, cmds) /\ Amounts(cmds) = r[Len(cmds)]
<1>1. Len(cmds) \in Nat /\ DOMAIN cmds = 1 .. Len(cmds)
  OBVIOUS
<1> DEFINE next == [p \in Int \X (1 .. Len(cmds)) |-> AddAmount(p[1], cmds[p[2]])]
           Fold(g) == g = [d \in SUBSET DOMAIN cmds |->
                             IF d = {} THEN 0
                             ELSE AddAmount(g[d \ {Max(d)}], cmds[Max(d)])]
<1>2. \A k \in 1 .. Len(cmds) : Effective(cmds[k])
  <2>1. \A k \in 1 .. Len(cmds) : cmds[k] \in E
    OBVIOUS
  <2> QED
    BY <2>1
<1>3. next \in [Int \X (1 .. Len(cmds)) -> Int]
  <2>1. \A t \in Int : \A k \in 1 .. Len(cmds) : AddAmount(t, cmds[k]) \in Int
    BY <1>2 DEF AddAmount, Effective
  <2> QED
    BY <2>1
<1>4. PICK g \in [SUBSET (1 .. Len(cmds)) -> Int] : IsFold(g, 0, next, Len(cmds))
  <2> HIDE DEF next
  <2>0. 0 \in Int
    OBVIOUS
  <2>1. Foldable(0, next, Int, Len(cmds))
    BY <1>1, <1>3, <2>0, FoldExists
  <2> QED
    BY <2>1 DEF Foldable
<1>5. Fold(g)
  <2>1. ASSUME NEW d \in SUBSET (1 .. Len(cmds)), d # {}
        PROVE  g[d] = AddAmount(g[d \ {Max(d)}], cmds[Max(d)])
    <3>2. Max(d) \in d
      BY <1>1, <2>1, MaxOfFinite
    <3>3. /\ g[d] = next[<<g[d \ {Max(d)}], Max(d)>>]
          /\ g[d \ {Max(d)}] \in Int /\ Max(d) \in 1 .. Len(cmds)
      BY <1>4, <2>1, <3>2 DEF IsFold
    <3> QED
      BY <3>3
  <2>2. g[{}] = 0
    BY <1>4 DEF IsFold
  <2> QED
    BY <1>1, <2>1, <2>2
<1>6. PICK f : Fold(f) /\ Amounts(cmds) = f[DOMAIN cmds]
  BY <1>5 DEF Amounts, FoldLeft, MapThenFoldSet
<1> DEFINE r == [k \in 0 .. Len(cmds) |-> f[1 .. k]]
<1>7. r[0] = 0
  BY <1>1, <1>6
<1>8. ASSUME NEW k \in 1 .. Len(cmds)
      PROVE  r[k] = AddAmount(r[k - 1], cmds[k])
  <2>1. 1 .. k \in SUBSET (1 .. Len(cmds)) /\ k - 1 \in 0 .. Len(cmds) /\ k \in Nat /\ k > 0
    BY <1>1
  <2>2. Max(1 .. k) = k /\ 1 .. k # {} /\ (1 .. k) \ {k} = 1 .. k - 1
    BY <2>1, MaxOfPrefix
  <2>3. f[1 .. k] = AddAmount(f[(1 .. k) \ {Max(1 .. k)}], cmds[Max(1 .. k)])
    BY <1>1, <1>6, <2>1, <2>2
  <2>4. r[k] = f[1 .. k] /\ r[k - 1] = f[1 .. k - 1]
    BY <1>1, <2>1
  <2> HIDE DEF r
  <2> QED
    BY <2>2, <2>3, <2>4
<1> HIDE DEF r
<1>9. AmountRun(r, cmds)
  BY <1>7, <1>8 DEF AmountRun
<1>10. r[Len(cmds)] = f[DOMAIN cmds]
  BY <1>1 DEF r
<1> QED
  BY <1>6, <1>9, <1>10

LEMMA InsertsIsRun ==
  ASSUME Book(ledger), NEW E, NEW cmds \in Seq(E), \A x \in E : Effective(x)
  PROVE  \E r : InsertRun(r, cmds) /\ InsertEntries(cmds) = r[Len(cmds)]
<1>1. Len(cmds) \in Nat /\ DOMAIN cmds = 1 .. Len(cmds)
  OBVIOUS
<1> DEFINE B == UNION {[D -> Int] : D \in SUBSET (DOMAIN ledger \union
                                               {cmds[k].key : k \in DOMAIN cmds})}
           next == [p \in B \X (1 .. Len(cmds)) |-> InsertEntry(p[1], cmds[p[2]])]
           Fold(g) == g = [d \in SUBSET DOMAIN cmds |->
                             IF d = {} THEN ledger
                             ELSE InsertEntry(g[d \ {Max(d)}], cmds[Max(d)])]
<1>2. \A k \in 1 .. Len(cmds) : Effective(cmds[k])
  <2>1. \A k \in 1 .. Len(cmds) : cmds[k] \in E
    OBVIOUS
  <2> QED
    BY <2>1
<1>3. next \in [B \X (1 .. Len(cmds)) -> B]
  <2>1. ASSUME NEW t \in B, NEW k \in 1 .. Len(cmds)
        PROVE  InsertEntry(t, cmds[k]) \in B
    <3>1. PICK D \in SUBSET (DOMAIN ledger \union {cmds[j].key : j \in DOMAIN cmds}) :
            t \in [D -> Int]
      BY <2>1
    <3>2. PICK x : x = cmds[k] /\ Effective(x) /\
                   x.key \in {cmds[j].key : j \in DOMAIN cmds}
      BY <1>1, <1>2, <2>1
    <3>3. InsertEntry(t, x) \in [D -> Int] \/ InsertEntry(t, x) \in [D \union {x.key} -> Int]
      BY <3>1, <3>2 DEF InsertEntry, Effective
    <3> QED
      BY <3>1, <3>2, <3>3
  <2>2. \A t \in B : \A k \in 1 .. Len(cmds) : InsertEntry(t, cmds[k]) \in B
    BY <2>1
  <2> HIDE DEF B
  <2> QED
    BY <2>2
<1>4. PICK g \in [SUBSET (1 .. Len(cmds)) -> B] : IsFold(g, ledger, next, Len(cmds))
  <2>0. ledger \in B
    BY DEF Book
  <2> HIDE DEF next, B
  <2>1. Foldable(ledger, next, B, Len(cmds))
    BY <1>1, <1>3, <2>0, FoldExists
  <2> QED
    BY <2>1 DEF Foldable
<1> HIDE DEF B
<1>5. Fold(g)
  <2>1. ASSUME NEW d \in SUBSET (1 .. Len(cmds)), d # {}
        PROVE  g[d] = InsertEntry(g[d \ {Max(d)}], cmds[Max(d)])
    <3>2. Max(d) \in d
      BY <1>1, <2>1, MaxOfFinite
    <3>3. /\ g[d] = next[<<g[d \ {Max(d)}], Max(d)>>]
          /\ g[d \ {Max(d)}] \in B /\ Max(d) \in 1 .. Len(cmds)
      BY <1>4, <2>1, <3>2 DEF IsFold
    <3> QED
      BY <3>3
  <2>2. g[{}] = ledger
    BY <1>4 DEF IsFold
  <2> QED
    BY <1>1, <2>1, <2>2
<1>6. PICK f : Fold(f) /\ InsertEntries(cmds) = f[DOMAIN cmds]
  BY <1>5 DEF InsertEntries, FoldLeft, MapThenFoldSet
<1> DEFINE r == [k \in 0 .. Len(cmds) |-> f[1 .. k]]
<1>7. r[0] = ledger
  BY <1>1, <1>6
<1>8. ASSUME NEW k \in 1 .. Len(cmds)
      PROVE  r[k] = InsertEntry(r[k - 1], cmds[k])
  <2>1. 1 .. k \in SUBSET (1 .. Len(cmds)) /\ k - 1 \in 0 .. Len(cmds) /\ k \in Nat /\ k > 0
    BY <1>1
  <2>2. Max(1 .. k) = k /\ 1 .. k # {} /\ (1 .. k) \ {k} = 1 .. k - 1
    BY <2>1, MaxOfPrefix
  <2>3. f[1 .. k] = InsertEntry(f[(1 .. k) \ {Max(1 .. k)}], cmds[Max(1 .. k)])
    BY <1>1, <1>6, <2>1, <2>2
  <2>4. r[k] = f[1 .. k] /\ r[k - 1] = f[1 .. k - 1]
    BY <1>1, <2>1
  <2> HIDE DEF r
  <2> QED
    BY <2>2, <2>3, <2>4
<1> HIDE DEF r
<1>9. InsertRun(r, cmds)
  BY <1>7, <1>8 DEF InsertRun
<1>10. r[Len(cmds)] = f[DOMAIN cmds]
  BY <1>1 DEF r
<1> QED
  BY <1>6, <1>9, <1>10

\* The ledger holds what the outcomes reported, under keys of earlier events.
Booked ==
  /\ Book(ledger) /\ decided \in Int /\ n \in Nat
  /\ \A k \in DOMAIN ledger : k[2] \in Nat /\ k[2] < n
  /\ SumOf(ledger) = decided

\* After k commands: the keys are old ones or of these commands.
Entered(book, cmds, k, amount) ==
  /\ Book(book) /\ amount \in Int
  /\ DOMAIN book \subseteq DOMAIN ledger \union {cmds[l].key : l \in 1 .. k}
  /\ SumOf(book) = SumOf(ledger) + amount

LEMMA EntersOne ==
  ASSUME Booked, NEW E, NEW cmds \in Seq(E), Distinct(cmds),
         \A x \in E : Effective(x) /\ x.key[2] = n,
         NEW k \in 0 .. Len(cmds) - 1, NEW book, NEW amount, Entered(book, cmds, k, amount)
  PROVE  Entered(InsertEntry(book, cmds[k + 1]), cmds, k + 1, AddAmount(amount, cmds[k + 1]))
<1>1. /\ Len(cmds) \in Nat /\ DOMAIN cmds = 1 .. Len(cmds) /\ k + 1 \in DOMAIN cmds
      /\ \A l \in DOMAIN cmds : cmds[l] \in E
  OBVIOUS
<1>2. PICK x : x = cmds[k + 1] /\ Effective(x) /\ x.key[2] = n
  BY <1>1
<1>3. {cmds[l].key : l \in 1 .. k + 1} = {cmds[l].key : l \in 1 .. k} \union {x.key}
  <2>1. 1 .. k + 1 = (1 .. k) \union {k + 1}
    OBVIOUS
  <2> QED
    BY <1>2, <2>1
<1>4. x.key \notin DOMAIN book
  <2>1. x.key \notin DOMAIN ledger
    BY <1>2 DEF Booked
  <2>2. \A l \in 1 .. k : l \in DOMAIN cmds /\ l # k + 1
    BY <1>1
  <2>3. \A l \in 1 .. k : cmds[l].key # x.key
    BY <1>1, <1>2, <2>2 DEF Distinct
  <2> QED
    BY <2>1, <2>3 DEF Entered
<1>5. SumOf(ledger) \in Int
  BY DEF Booked
<1>6. CASE x.kind = "add_currency"
  <2>1. InsertEntry(book, x) = [y \in DOMAIN book \union {x.key} |->
                                  IF y \in DOMAIN book THEN book[y] ELSE x.amount]
    BY <1>6 DEF InsertEntry
  <2>2. AddAmount(amount, x) = amount + x.amount /\ x.amount \in Int
    BY <1>2, <1>6 DEF AddAmount, Effective
  <2>3. /\ Book(InsertEntry(book, x)) /\ DOMAIN InsertEntry(book, x) = DOMAIN book \union {x.key}
        /\ SumOf(InsertEntry(book, x)) = SumOf(book) + x.amount
    <3>1. PICK h : h = InsertEntry(book, x)
      OBVIOUS
    <3>2. Book(book) /\ x.amount \in Int
      BY <2>2 DEF Entered
    <3>4. h = Extended(book, x.key, x.amount)
      BY <2>1, <3>1 DEF Extended
    <3>3. Grown(book, x.key, x.amount, h)
      BY <1>4, <3>2, <3>4, SumGrows
    <3> QED
      BY <3>1, <3>3 DEF Grown
  <2>4. SumOf(InsertEntry(book, x)) = SumOf(ledger) + AddAmount(amount, x)
    BY <1>5, <2>2, <2>3 DEF Entered
  <2> QED
    BY <1>2, <1>3, <2>2, <2>3, <2>4 DEF Entered
<1>7. CASE x.kind # "add_currency"
  <2>1. InsertEntry(book, x) = book /\ AddAmount(amount, x) = amount
    BY <1>7 DEF InsertEntry, AddAmount
  <2> QED
    BY <1>2, <1>3, <2>1 DEF Entered
<1> QED
  BY <1>6, <1>7

LEMMA EntersAll ==
  ASSUME Booked, NEW E, NEW cmds \in Seq(E), Distinct(cmds),
         \A x \in E : Effective(x) /\ x.key[2] = n
  PROVE  Entered(InsertEntries(cmds), cmds, Len(cmds), Amounts(cmds))
<1>1. Len(cmds) \in Nat
  OBVIOUS
<1>2. PICK a : AmountRun(a, cmds) /\ Amounts(cmds) = a[Len(cmds)]
  BY AmountsIsRun
<1>3. PICK b : InsertRun(b, cmds) /\ InsertEntries(cmds) = b[Len(cmds)]
  BY InsertsIsRun DEF Booked
<1> DEFINE T == {k \in Nat : k <= Len(cmds) => Entered(b[k], cmds, k, a[k])}
<1>4. 0 \in T
  <2>1. b[0] = ledger /\ a[0] = 0
    BY <1>2, <1>3 DEF AmountRun, InsertRun
  <2>2. Entered(ledger, cmds, 0, 0)
    BY DEF Booked, Entered
  <2> QED
    BY <2>1, <2>2
<1>5. ASSUME NEW k \in Nat, k \in T
      PROVE  k + 1 \in T
  <2>0. SUFFICES ASSUME k + 1 <= Len(cmds)
                 PROVE  Entered(b[k + 1], cmds, k + 1, a[k + 1])
    OBVIOUS
  <2>1. k \in 0 .. Len(cmds) - 1 /\ k + 1 \in 1 .. Len(cmds) /\ (k + 1) - 1 = k
    BY <1>1, <2>0
  <2>2. Entered(b[k], cmds, k, a[k])
    BY <1>1, <1>5, <2>1
  <2>3. b[k + 1] = InsertEntry(b[k], cmds[k + 1]) /\ a[k + 1] = AddAmount(a[k], cmds[k + 1])
    BY <1>2, <1>3, <2>1 DEF AmountRun, InsertRun
  <2> QED
    BY <2>1, <2>2, <2>3, EntersOne
<1>6. Nat \subseteq T
  <2> HIDE DEF T
  <2> QED
    BY <1>4, <1>5, InductionOnNat
<1> QED
  BY <1>1, <1>2, <1>3, <1>6

LEMMA BookedStep ==
  ASSUME Ready, Booked, NEW type, NEW at, NEW payload, Process(type, at, payload)
  PROVE  Booked'
<1>1. PICK decision, projected, unlocking, rewards, final :
        /\ Outcome(type, payload, decision, projected, unlocking, rewards, final)
        /\ Becomes(type, decision, unlocking, rewards, final)
  BY Outcomes
<1>2. PICK cmds : cmds = decision \o rewards
  OBVIOUS
<1>3. cmds \in Seq(Decidable \union Rewarding) /\ Distinct(cmds)
  BY <1>1, <1>2 DEF Outcome
<1>4. \A x \in Decidable \union Rewarding : Effective(x) /\ x.key[2] = n
  BY DecidableEffects, RewardingEffects DEF Ready
<1>5. Entered(InsertEntries(cmds), cmds, Len(cmds), Amounts(cmds))
  BY <1>3, <1>4, EntersAll
<1>6. \A l \in 1 .. Len(cmds) : cmds[l].key[2] = n
  <2>1. \A l \in 1 .. Len(cmds) : cmds[l] \in Decidable \union Rewarding
    BY <1>3
  <2> QED
    BY <1>4, <2>1
<1>7. /\ n' = n + 1 /\ ledger' = InsertEntries(cmds)
      /\ decided' = decided + Amounts(cmds)
  BY <1>1, <1>2 DEF Becomes
<1>8. \A k \in DOMAIN ledger' : k[2] \in Nat /\ k[2] < n'
  <2> SUFFICES ASSUME NEW k \in DOMAIN ledger'
               PROVE  k[2] \in Nat /\ k[2] < n'
    OBVIOUS
  <2>1. k \in DOMAIN ledger \/ \E l \in 1 .. Len(cmds) : k = cmds[l].key
    BY <1>5, <1>7 DEF Entered
  <2>2. n \in Nat /\ n < n'
    BY <1>7 DEF Booked
  <2>3. CASE \E l \in 1 .. Len(cmds) : k = cmds[l].key
    BY <1>6, <2>2, <2>3
  <2>4. CASE k \in DOMAIN ledger
    <3>1. k[2] \in Nat /\ k[2] < n
      BY <2>4 DEF Booked
    <3> QED
      BY <1>7, <2>2, <3>1
  <2> QED
    BY <2>1, <2>3, <2>4
<1>9. SumOf(ledger') = decided' /\ decided' \in Int
  BY <1>5, <1>7 DEF Entered, Booked
<1>10. Book(ledger') /\ n' \in Nat
  BY <1>5, <1>7 DEF Entered, Booked
<1>11. SumOf(ledger)' = SumOf(ledger') /\ Book(ledger)' = Book(ledger')
  BY DEF SumOf, Book, FoldFunction, FoldFunctionOnSet, MapThenFoldSet
<1> QED
  BY <1>8, <1>9, <1>10, <1>11 DEF Booked

LEMMA BookedHolds == Spec => []Booked
<1>1. ASSUME Init
      PROVE  Booked
  <2>1. ledger = <<>> /\ decided = 0 /\ n = 0 /\ DOMAIN ledger = {}
    BY <1>1 DEF Init
  <2>2. Book(ledger)
    BY <2>1, FS_EmptySet DEF Book
  <2>3. SumOf(ledger) = 0
    <3>1. PICK g : IsSum(g, ledger, DOMAIN ledger) /\ SumOf(ledger) = g[DOMAIN ledger]
      BY <2>2, SumIsSum
    <3> QED
      BY <2>1, <3>1 DEF IsSum
  <2> QED
    BY <2>1, <2>2, <2>3 DEF Booked
<1>2. Ready /\ Booked /\ [Next]_vars => Booked'
  <2> SUFFICES ASSUME Ready, Booked, [Next]_vars
               PROVE  Booked'
    OBVIOUS
  <2>1. ASSUME NEW type \in Types, NEW at \in Instants, NEW payload \in Payloads,
               Process(type, at, payload)
        PROVE  Booked'
    BY <2>1, BookedStep
  <2>2. CASE UNCHANGED vars
    <3>1. ledger' = ledger /\ decided' = decided /\ n' = n
      BY <2>2 DEF vars
    <3>2. SumOf(ledger)' = SumOf(ledger)
      BY <3>1 DEF SumOf, FoldFunction, FoldFunctionOnSet, MapThenFoldSet
    <3> QED
      BY <3>1, <3>2 DEF Booked, Book
  <2> QED
    BY <2>1, <2>2 DEF Next
<1> QED
  BY <1>1, <1>2, ReadyHolds, PTL DEF Spec

\* The ledger adds up to what the outcomes reported, levels belong to the totals,
\* and boards show the XP they rank (applyCommand, persistState, apply_xp).
THEOREM StoredRowsAgree == Spec => []RowsAgree
<1>1. Init => LevelsAgree(rows) /\ BoardsShow
  <2> SUFFICES ASSUME Init
               PROVE  LevelsAgree(rows) /\ BoardsShow
    OBVIOUS
  <2>1. /\ \A t \in Tracks : rows.xp[t] = 0 /\ rows.level[t] = 0
        /\ \A b \in Boards : rows.score[b] = 0
    BY DEF Init
  <2>2. LevelsAgree(rows)
    BY <2>1, EngineAssumption DEF LevelsAgree
  <2>3. BoardsShow
    BY <2>1, EngineAssumption DEF BoardsShow, Shows
  <2> QED
    BY <2>2, <2>3
<1>2. /\ Ready /\ LevelsAgree(rows) /\ BoardsShow /\ [Next]_vars
      => LevelsAgree(rows)' /\ BoardsShow'
  <2> SUFFICES ASSUME Ready, LevelsAgree(rows), BoardsShow, [Next]_vars
               PROVE  LevelsAgree(rows)' /\ BoardsShow'
    OBVIOUS
  <2>1. ASSUME NEW type \in Types, NEW at \in Instants, NEW payload \in Payloads,
               Process(type, at, payload)
        PROVE  LevelsAgree(rows)' /\ BoardsShow'
    <3>1. LevelsAgree(rows') /\ BoardsShow'
      BY <2>1, AgreeStep
    <3> QED
      BY <3>1 DEF LevelsAgree
  <2>2. CASE UNCHANGED vars
    BY <2>2 DEF vars, LevelsAgree, BoardsShow, Shows, Updated, Rules, Workflows, Updates
  <2> QED
    BY <2>1, <2>2 DEF Next
<1>3. LevelsAgree(rows) /\ BoardsShow /\ Booked => RowsAgree
  BY DEF LevelsAgree, BoardsShow, Shows, Booked, SumOf, RowsAgree
<1> QED
  BY <1>1, <1>2, <1>3, ReadyHolds, BookedHolds, PTL DEF Spec
-----------------------------------------------------------------------------
\* Rows, rule state and ledger keep their types whatever the events are.
THEOREM TypesHold == Spec => []TypeOK
<1>1. Init => n \in 0 .. MaxEvents
  BY EngineAssumption DEF Init
<1>2. RuleTypes /\ n \in 0 .. MaxEvents /\ [Next]_vars => (n \in 0 .. MaxEvents)'
  <2> SUFFICES ASSUME n \in 0 .. MaxEvents, [Next]_vars
               PROVE  n' \in 0 .. MaxEvents
    OBVIOUS
  <2>1. ASSUME NEW type \in Types, NEW at \in Instants, NEW payload \in Payloads,
               Process(type, at, payload)
        PROVE  n' \in 0 .. MaxEvents
    <3>1. n < MaxEvents /\ n' = n + 1
      BY <2>1 DEF Process
    <3> QED
      BY <3>1, EngineAssumption
  <2>2. CASE UNCHANGED vars
    BY <2>2 DEF vars
  <2> QED
    BY <2>1, <2>2 DEF Next
<1>3. RuleTypes /\ Ready /\ Booked /\ n \in 0 .. MaxEvents => TypeOK
  <2> SUFFICES ASSUME RuleTypes, Ready, Booked, n \in 0 .. MaxEvents
               PROVE  TypeOK
    OBVIOUS
  <2>1. /\ rows.xp \in [Tracks -> Nat] /\ rows.level \in [Tracks -> Nat]
        /\ rows.challenge \in [Challenges -> Instance]
        /\ rows.score \in [Boards -> Int]
        /\ rows.variable \in [Variables -> Values \union {Null}]
    BY DEF Ready, State
  <2>2. \A k \in DOMAIN ledger : ledger[k] \in Int
    BY DEF Booked, Book
  <2> QED
    BY <2>1, <2>2 DEF RuleTypes, TypeOK
<1> QED
  BY <1>1, <1>2, <1>3, RuleTypesHold, ReadyHolds, BookedHolds, PTL DEF Spec
=============================================================================
