---------------------------- MODULE AccountProofs ----------------------------
(***************************************************************************)
(* Theorems about what a player owns: the ledger kernel, for every set of  *)
(* wallets, currencies, amounts and policies and for batches of every      *)
(* length, and what moves when one user is merged into another, for every  *)
(* set of users, identities, tracks and calls and for every number of      *)
(* calls that run at a time.                                               *)
(***************************************************************************)
EXTENDS Ledger, Merge, FunctionTheorems, FiniteSetTheorems, WellFoundedInduction, TLAPS
-----------------------------------------------------------------------------
(* Sums.                                                                   *)

LEMMA InductionOnNat ==
  ASSUME NEW S, 0 \in S, \A n \in Nat : n \in S => n + 1 \in S
  PROVE  Nat \subseteq S
<1> DEFINE R == OpToRel(<, Nat)
           T == Nat \ S
<1>1. SUFFICES ASSUME T # {} PROVE FALSE
  OBVIOUS
<1>2. IsWellFoundedOn(R, Nat)
  BY NatLessThanWellFounded DEF OpToRel
<1>3. T \subseteq Nat
  OBVIOUS
<1>4. \A x, y \in Nat : <<y, x>> \in R <=> y < x
  BY DEF OpToRel
<1> HIDE DEF R, T
<1>5. PICK x \in T : \A y \in T : ~(<<y, x>> \in R)
  BY <1>1, <1>2, <1>3, WFMin
<1>6. /\ x \in Nat /\ x \notin S
      /\ x # 0
  BY <1>5 DEF T
<1>7. x - 1 \in Nat /\ x - 1 < x /\ (x - 1) + 1 = x
  BY <1>6
<1>8. x - 1 \in S
  BY <1>4, <1>5, <1>6, <1>7 DEF T
<1>9. QED
  BY <1>6, <1>7, <1>8

\* The element that a fold takes first.
Pick(s) == CHOOSE x \in s : TRUE

\* The function that SumFunction folds with, on the subsets of U.
IsSum(g, f, U) ==
  g = [s \in SUBSET U |-> IF s = {} THEN 0 ELSE f[Pick(s)] + g[s \ {Pick(s)}]]

LEMMA SumFunctionIsSum ==
  ASSUME NEW f, \E g : IsSum(g, f, DOMAIN f)
  PROVE  \E g : IsSum(g, f, DOMAIN f) /\ SumFunction(f) = g[DOMAIN f]
BY DEF SumFunction, SumFunctionOnSet, FoldFunctionOnSet, MapThenFoldSet, IsSum, Pick

LEMMA SumExists ==
  ASSUME NEW f, NEW U, IsFiniteSet(U), \A i \in U : f[i] \in Int
  PROVE  \E g \in [SUBSET U -> Int] : IsSum(g, f, U)
<1> DEFINE Part(h, s) == IF s = {} THEN 0 ELSE f[Pick(s)] + h[s \ {Pick(s)}]
           Upto(n) == {s \in SUBSET U : Cardinality(s) <= n}
           S == {n \in Nat : \E h \in [Upto(n) -> Int] : \A s \in Upto(n) : h[s] = Part(h, s)}
<1>1. \A s \in SUBSET U : /\ IsFiniteSet(s) /\ Cardinality(s) \in Nat
                          /\ Cardinality(s) <= Cardinality(U)
                          /\ Cardinality(s) = 0 <=> s = {}
  BY FS_Subset, FS_CardinalityType, FS_EmptySet
<1>2. \A s \in SUBSET U : s # {} => /\ Pick(s) \in s
                                    /\ s \ {Pick(s)} \in SUBSET U
                                    /\ Cardinality(s \ {Pick(s)}) = Cardinality(s) - 1
  BY <1>1, FS_RemoveElement DEF Pick
<1>3. 0 \in S
  <2> DEFINE h == [s \in Upto(0) |-> 0]
  <2>1. \A s \in Upto(0) : s = {}
    BY <1>1
  <2>2. h \in [Upto(0) -> Int] /\ \A s \in Upto(0) : h[s] = Part(h, s)
    BY <2>1
  <2>3. QED
    BY <2>2
<1>4. ASSUME NEW n \in Nat, n \in S PROVE n + 1 \in S
  <2>1. PICK h \in [Upto(n) -> Int] : \A s \in Upto(n) : h[s] = Part(h, s)
    BY <1>4
  <2> DEFINE k == [s \in Upto(n + 1) |-> Part(h, s)]
  <2>2. Upto(n) \subseteq Upto(n + 1)
    BY <1>1
  <2>3. \A s \in Upto(n + 1) : s # {} => s \ {Pick(s)} \in Upto(n)
    BY <1>1, <1>2
  <2>4. \A s \in Upto(n) : k[s] = h[s]
    BY <2>1, <2>2
  <2>5. \A s \in Upto(n + 1) : Part(h, s) \in Int
    BY <1>2, <2>3
  <2>6. k \in [Upto(n + 1) -> Int]
    BY <2>5
  <2>7. \A s \in Upto(n + 1) : k[s] = Part(k, s)
    BY <2>3, <2>4
  <2> HIDE DEF k, Part, Upto
  <2>8. QED
    BY <2>6, <2>7
<1>5. Cardinality(U) \in S
  <2>1. Nat \subseteq S
    <3> HIDE DEF S
    <3>1. QED
      BY <1>3, <1>4, InductionOnNat
  <2>2. QED
    BY <2>1, FS_CardinalityType
<1>6. PICK h \in [Upto(Cardinality(U)) -> Int] :
        \A s \in Upto(Cardinality(U)) : h[s] = Part(h, s)
  BY <1>5
<1>7. Upto(Cardinality(U)) = SUBSET U
  BY <1>1
<1>8. QED
  BY <1>6, <1>7 DEF IsSum

\* A sum that does not depend on the order in which elements are taken.
AnyOrder(g, f, U) ==
  \A s \in SUBSET U : \A x \in s : g[s] = f[x] + g[s \ {x}]

\* A sum of numbers is a number.
LEMMA SumTyped ==
  ASSUME NEW f, NEW U, IsFiniteSet(U), \A i \in U : f[i] \in Int,
         NEW g, IsSum(g, f, U)
  PROVE  g[{}] = 0 /\ \A s \in SUBSET U : g[s] \in Int
<1> DEFINE S == {n \in Nat : \A s \in SUBSET U : Cardinality(s) = n => g[s] \in Int}
<1>1. \A s \in SUBSET U : /\ IsFiniteSet(s) /\ Cardinality(s) \in Nat
                          /\ Cardinality(s) = 0 <=> s = {}
  BY FS_Subset, FS_CardinalityType, FS_EmptySet
<1>2. \A s \in SUBSET U : \A x \in s :
        s \ {x} \in SUBSET U /\ Cardinality(s \ {x}) = Cardinality(s) - 1
  BY <1>1, FS_RemoveElement
<1>3. /\ g[{}] = 0
      /\ \A s \in SUBSET U : s # {} =>
           \E x \in s : g[s] = f[x] + g[s \ {x}]
  BY DEF IsSum, Pick
<1>4. 0 \in S
  <2>1. \A s \in SUBSET U : Cardinality(s) = 0 => g[s] = 0
    BY <1>1, <1>3
  <2>2. QED
    BY <2>1
<1>5. ASSUME NEW n \in Nat, n \in S PROVE n + 1 \in S
  <2>1. SUFFICES ASSUME NEW s \in SUBSET U, Cardinality(s) = n + 1 PROVE g[s] \in Int
    OBVIOUS
  <2>2. s # {}
    BY <1>1, <2>1
  <2>3. PICK y \in s : g[s] = f[y] + g[s \ {y}]
    BY <1>3, <2>2
  <2>4. g[s \ {y}] \in Int /\ f[y] \in Int
    BY <1>2, <1>5, <2>1
  <2>5. QED
    BY <2>3, <2>4
<1>6. Nat \subseteq S
  <2> HIDE DEF S
  <2>1. QED
    BY <1>4, <1>5, InductionOnNat
<1>7. QED
  BY <1>1, <1>3, <1>6

LEMMA SumAnyOrder ==
  ASSUME NEW f, NEW U, IsFiniteSet(U), \A i \in U : f[i] \in Int,
         NEW g, IsSum(g, f, U)
  PROVE  AnyOrder(g, f, U)
<1> DEFINE S == {n \in Nat : \A s \in SUBSET U :
                   Cardinality(s) = n => \A x \in s : g[s] = f[x] + g[s \ {x}]}
<1>1. \A s \in SUBSET U : /\ IsFiniteSet(s) /\ Cardinality(s) \in Nat
                          /\ Cardinality(s) = 0 <=> s = {}
  BY FS_Subset, FS_CardinalityType, FS_EmptySet
<1>2. \A s \in SUBSET U : \A x \in s :
        s \ {x} \in SUBSET U /\ Cardinality(s \ {x}) = Cardinality(s) - 1
  BY <1>1, FS_RemoveElement
<1>3. \A s \in SUBSET U : s # {} => \E x \in s : g[s] = f[x] + g[s \ {x}]
  BY DEF IsSum, Pick
<1>4. 0 \in S
  BY <1>1
<1>5. ASSUME NEW n \in Nat, n \in S PROVE n + 1 \in S
  <2>1. SUFFICES ASSUME NEW s \in SUBSET U, Cardinality(s) = n + 1,
                        NEW x \in s
                 PROVE  g[s] = f[x] + g[s \ {x}]
    OBVIOUS
  <2>2. PICK y \in s : g[s] = f[y] + g[s \ {y}]
    BY <1>3, <2>1
  <2>3. CASE y # x
    <3> DEFINE rest == g[(s \ {y}) \ {x}]
    <3>1. (s \ {x}) \ {y} = (s \ {y}) \ {x} /\ x \in s \ {y} /\ y \in s \ {x}
      BY <2>3
    <3>2. /\ s \ {x} \in SUBSET U /\ Cardinality(s \ {x}) = n
          /\ s \ {y} \in SUBSET U /\ Cardinality(s \ {y}) = n
          /\ (s \ {y}) \ {x} \in SUBSET U
      BY <1>2, <2>1
    <3>3. g[s \ {y}] = f[x] + rest /\ g[s \ {x}] = f[y] + rest
      <4>1. \A r \in SUBSET U : Cardinality(r) = n => \A z \in r : g[r] = f[z] + g[r \ {z}]
        BY <1>5
      <4>2. g[s \ {y}] = f[x] + g[(s \ {y}) \ {x}]
        BY <3>1, <3>2, <4>1
      <4>3. g[s \ {x}] = f[y] + g[(s \ {x}) \ {y}]
        BY <3>1, <3>2, <4>1
      <4>4. QED
        BY <3>1, <4>2, <4>3
    <3>4. rest \in Int /\ f[x] \in Int /\ f[y] \in Int
      BY <3>2, SumTyped
    <3> HIDE DEF rest
    <3>5. QED
      BY <2>2, <3>3, <3>4
  <2>4. QED
    BY <2>2, <2>3
<1>6. Nat \subseteq S
  <2> HIDE DEF S
  <2>1. QED
    BY <1>4, <1>5, InductionOnNat
<1>7. QED
  BY <1>1, <1>6 DEF AnyOrder

\* What a sum over a finite set is built from.
LEMMA SumSteps ==
  ASSUME NEW D, IsFiniteSet(D), NEW f \in [D -> Int]
  PROVE  \E g \in [SUBSET D -> Int] :
           /\ g[{}] = 0
           /\ \A s \in SUBSET D : \A x \in s : g[s] = f[x] + g[s \ {x}]
           /\ SumFunction(f) = g[D]
<1>1. DOMAIN f = D /\ \A i \in D : f[i] \in Int
  OBVIOUS
<1>2. PICK g : IsSum(g, f, D) /\ SumFunction(f) = g[D]
  BY <1>1, SumExists, SumFunctionIsSum
<1>3. g[{}] = 0 /\ \A s \in SUBSET D : g[s] \in Int
  BY <1>1, <1>2, SumTyped
<1>4. g \in [SUBSET D -> Int]
  BY <1>2, <1>3 DEF IsSum
<1>5. AnyOrder(g, f, D)
  BY <1>1, <1>2, SumAnyOrder
<1>6. QED
  BY <1>2, <1>3, <1>4, <1>5 DEF AnyOrder

\* What holds of the empty set and is kept by adding an element holds of a finite set.
LEMMA InductionOnSubsets ==
  ASSUME NEW D, IsFiniteSet(D), NEW P, {} \in P,
         \A s \in SUBSET D : \A x \in s : s \ {x} \in P => s \in P
  PROVE  D \in P
<1> DEFINE S == {n \in Nat : \A s \in SUBSET D : Cardinality(s) = n => s \in P}
<1>1. \A s \in SUBSET D : /\ IsFiniteSet(s) /\ Cardinality(s) \in Nat
                          /\ Cardinality(s) = 0 <=> s = {}
  BY FS_Subset, FS_CardinalityType, FS_EmptySet
<1>2. \A s \in SUBSET D : \A x \in s :
        s \ {x} \in SUBSET D /\ Cardinality(s \ {x}) = Cardinality(s) - 1
  BY <1>1, FS_RemoveElement
<1>3. 0 \in S
  BY <1>1
<1>4. ASSUME NEW n \in Nat, n \in S PROVE n + 1 \in S
  <2>1. SUFFICES ASSUME NEW s \in SUBSET D, Cardinality(s) = n + 1 PROVE s \in P
    OBVIOUS
  <2>2. PICK x \in s : TRUE
    BY <1>1, <2>1
  <2>3. s \ {x} \in P
    BY <1>2, <1>4, <2>1
  <2>4. QED
    BY <2>3
<1>5. Nat \subseteq S
  <2> HIDE DEF S
  <2>1. QED
    BY <1>3, <1>4, InductionOnNat
<1>6. QED
  BY <1>1, <1>5

\* A sum of natural numbers is one.
LEMMA SumInNat ==
  ASSUME NEW D, IsFiniteSet(D), NEW f \in [D -> Nat]
  PROVE  SumFunction(f) \in Nat
<1>1. f \in [D -> Int]
  OBVIOUS
<1>2. PICK g \in [SUBSET D -> Int] :
        /\ g[{}] = 0
        /\ \A s \in SUBSET D : \A x \in s : g[s] = f[x] + g[s \ {x}]
        /\ SumFunction(f) = g[D]
  BY <1>1, SumSteps
<1> DEFINE P == {s \in SUBSET D : g[s] \in Nat}
<1>3. {} \in P
  BY <1>2
<1>4. \A s \in SUBSET D : \A x \in s : s \ {x} \in P => s \in P
  <2>1. SUFFICES ASSUME NEW s \in SUBSET D, NEW x \in s, g[s \ {x}] \in Nat
                 PROVE  g[s] \in Nat
    OBVIOUS
  <2>2. g[s] = f[x] + g[s \ {x}] /\ f[x] \in Nat
    BY <1>2, <2>1
  <2>3. QED
    BY <2>1, <2>2
<1>5. D \in P
  <2> HIDE DEF P
  <2>1. QED
    BY <1>3, <1>4, InductionOnSubsets
<1>6. QED
  BY <1>2, <1>5

\* Sums are added up term by term.
LEMMA SumOfSums ==
  ASSUME NEW D, IsFiniteSet(D), NEW f \in [D -> Int], NEW h \in [D -> Int],
         NEW k \in [D -> Int], \A x \in D : k[x] = f[x] + h[x]
  PROVE  SumFunction(k) = SumFunction(f) + SumFunction(h)
<1>1. PICK g1 \in [SUBSET D -> Int] :
        /\ g1[{}] = 0
        /\ \A s \in SUBSET D : \A x \in s : g1[s] = f[x] + g1[s \ {x}]
        /\ SumFunction(f) = g1[D]
  BY SumSteps
<1>2. PICK g2 \in [SUBSET D -> Int] :
        /\ g2[{}] = 0
        /\ \A s \in SUBSET D : \A x \in s : g2[s] = h[x] + g2[s \ {x}]
        /\ SumFunction(h) = g2[D]
  BY SumSteps
<1>3. PICK g3 \in [SUBSET D -> Int] :
        /\ g3[{}] = 0
        /\ \A s \in SUBSET D : \A x \in s : g3[s] = k[x] + g3[s \ {x}]
        /\ SumFunction(k) = g3[D]
  BY SumSteps
<1> DEFINE P == {s \in SUBSET D : g3[s] = g1[s] + g2[s]}
<1>4. {} \in P
  BY <1>1, <1>2, <1>3
<1>5. \A s \in SUBSET D : \A x \in s : s \ {x} \in P => s \in P
  <2>1. SUFFICES ASSUME NEW s \in SUBSET D, NEW x \in s,
                        g3[s \ {x}] = g1[s \ {x}] + g2[s \ {x}]
                 PROVE  g3[s] = g1[s] + g2[s]
    OBVIOUS
  <2>2. /\ g1[s] = f[x] + g1[s \ {x}]
        /\ g2[s] = h[x] + g2[s \ {x}]
        /\ g3[s] = (f[x] + h[x]) + g3[s \ {x}]
    BY <1>1, <1>2, <1>3, <2>1
  <2>3. /\ f[x] \in Int /\ h[x] \in Int
        /\ g1[s \ {x}] \in Int /\ g2[s \ {x}] \in Int
    BY <2>1
  <2>4. QED
    BY <2>1, <2>2, <2>3
<1>6. D \in P
  <2> HIDE DEF P
  <2>1. QED
    BY <1>4, <1>5, InductionOnSubsets
<1>7. QED
  BY <1>1, <1>2, <1>3, <1>6

\* A sum of which at most one term is not zero.
LEMMA SumOfOne ==
  ASSUME NEW D, IsFiniteSet(D), NEW f \in [D -> Int], NEW y \in D,
         \A x \in D : x # y => f[x] = 0
  PROVE  SumFunction(f) = f[y]
<1>1. PICK g \in [SUBSET D -> Int] :
        /\ g[{}] = 0
        /\ \A s \in SUBSET D : \A x \in s : g[s] = f[x] + g[s \ {x}]
        /\ SumFunction(f) = g[D]
  BY SumSteps
<1> DEFINE P == {s \in SUBSET D : g[s] = IF y \in s THEN f[y] ELSE 0}
<1>2. {} \in P
  BY <1>1
<1>3. \A s \in SUBSET D : \A x \in s : s \ {x} \in P => s \in P
  <2>1. SUFFICES ASSUME NEW s \in SUBSET D, NEW x \in s,
                        g[s \ {x}] = IF y \in s \ {x} THEN f[y] ELSE 0
                 PROVE  g[s] = IF y \in s THEN f[y] ELSE 0
    OBVIOUS
  <2>2. g[s] = f[x] + g[s \ {x}] /\ f[x] \in Int /\ f[y] \in Int
    BY <1>1, <2>1
  <2>3. CASE x = y
    BY <2>1, <2>2, <2>3
  <2>4. CASE x # y
    <3>1. f[x] = 0
      BY <2>1, <2>4
    <3>2. QED
      BY <2>1, <2>2, <2>4, <3>1
  <2>5. QED
    BY <2>3, <2>4
<1>4. D \in P
  <2> HIDE DEF P
  <2>1. QED
    BY <1>2, <1>3, InductionOnSubsets
<1>5. QED
  BY <1>1, <1>4

\* A sum of zeros.
LEMMA SumOfNone ==
  ASSUME NEW D, IsFiniteSet(D), NEW f \in [D -> Int], \A x \in D : f[x] = 0
  PROVE  SumFunction(f) = 0
<1>1. CASE D = {}
  <2>1. PICK g \in [SUBSET D -> Int] :
          /\ g[{}] = 0
          /\ \A s \in SUBSET D : \A x \in s : g[s] = f[x] + g[s \ {x}]
          /\ SumFunction(f) = g[D]
    BY SumSteps
  <2>2. QED
    BY <1>1, <2>1
<1>2. CASE D # {}
  <2>1. PICK y \in D : TRUE
    BY <1>2
  <2>2. SumFunction(f) = f[y]
    BY SumOfOne
  <2>3. QED
    BY <2>2
<1>3. QED
  BY <1>1, <1>2
-----------------------------------------------------------------------------
(* The ledger kernel.                                                      *)

\* The index remembers exactly the keys of the entries.
SeenIsKeys == seen = KeysOf(entries)

\* A reversal points at an entry appended before it.
ReversesEarlier == \A i \in DOMAIN entries : entries[i].reverses < i

IInv == TypeOK /\ SeenIsKeys /\ ReversesEarlier /\ ReversedAtMostOnce

\* What appending a batch does to positions and keys.
LEMMA Appended ==
  ASSUME NEW es \in Seq(Entry), NEW batch \in Seq(Entry)
  PROVE  /\ es \o batch \in Seq(Entry)
         /\ DOMAIN (es \o batch) = 1 .. Len(es) + Len(batch)
         /\ \A i \in DOMAIN es : (es \o batch)[i] = es[i]
         /\ \A i \in DOMAIN (es \o batch) \ DOMAIN es :
              /\ i - Len(es) \in DOMAIN batch
              /\ (es \o batch)[i] = batch[i - Len(es)]
         /\ KeysOf(es \o batch) = KeysOf(es) \union KeysOf(batch)
<1>1. /\ es \o batch \in Seq(Entry)
      /\ DOMAIN (es \o batch) = 1 .. Len(es) + Len(batch)
      /\ \A i \in DOMAIN es : (es \o batch)[i] = es[i]
  OBVIOUS
<1>2. \A i \in DOMAIN (es \o batch) \ DOMAIN es :
         /\ i - Len(es) \in DOMAIN batch
         /\ (es \o batch)[i] = batch[i - Len(es)]
  OBVIOUS
<1>3. \A j \in DOMAIN batch : /\ j + Len(es) \in DOMAIN (es \o batch)
                              /\ (es \o batch)[j + Len(es)] = batch[j]
  OBVIOUS
<1>4. DOMAIN es \subseteq DOMAIN (es \o batch)
  OBVIOUS
<1>5. KeysOf(es \o batch) \subseteq KeysOf(es) \union KeysOf(batch)
  <2>1. SUFFICES ASSUME NEW i \in DOMAIN (es \o batch)
                 PROVE  (es \o batch)[i].key \in KeysOf(es) \union KeysOf(batch)
    BY DEF KeysOf
  <2>2. CASE i \in DOMAIN es
    <3>1. (es \o batch)[i].key = es[i].key
      BY <1>1, <2>2
    <3>2. es[i].key \in KeysOf(es)
      BY <2>2, Zenon DEF KeysOf
    <3>3. QED
      BY <3>1, <3>2
  <2>3. CASE i \notin DOMAIN es
    <3>1. PICK j \in DOMAIN batch : (es \o batch)[i] = batch[j]
      BY <1>2, <2>3
    <3>2. batch[j].key \in KeysOf(batch)
      BY <3>1, Zenon DEF KeysOf
    <3>3. QED
      BY <3>1, <3>2
  <2>4. QED
    BY <2>2, <2>3
<1>6. KeysOf(es) \subseteq KeysOf(es \o batch)
  <2>1. SUFFICES ASSUME NEW i \in DOMAIN es
                 PROVE  es[i].key \in KeysOf(es \o batch)
    BY DEF KeysOf
  <2>2. (es \o batch)[i].key \in KeysOf(es \o batch)
    BY <1>4, Zenon DEF KeysOf
  <2>3. QED
    BY <1>1, <2>2
<1>7. KeysOf(batch) \subseteq KeysOf(es \o batch)
  <2>1. SUFFICES ASSUME NEW j \in DOMAIN batch
                 PROVE  batch[j].key \in KeysOf(es \o batch)
    BY DEF KeysOf
  <2>2. PICK i \in DOMAIN (es \o batch) : (es \o batch)[i] = batch[j]
    BY <1>3
  <2>3. (es \o batch)[i].key \in KeysOf(es \o batch)
    BY <2>2, Zenon DEF KeysOf
  <2>4. QED
    BY <2>2, <2>3
<1>8. QED
  BY <1>1, <1>2, <1>5, <1>6, <1>7

\* The answers of pass 2 are errors.
LEMMA NetErrorsType ==
  ASSUME NEW batch
  PROVE  NetErrors(batch) \subseteq Errors
<1>1. SUFFICES ASSUME NEW x \in NetErrors(batch)
               PROVE  x \in Errors
  OBVIOUS
<1>2. PICK p \in Touched(batch) :
        x \in IF p[2] \notin Defined THEN {"unknown"}
              ELSE IF Final(batch, p[1], p[2]) < 0 /\ p[2] \notin AllowNegative
                   THEN {"negative"}
              ELSE IF Cap[p[2]] > 0 /\ Final(batch, p[1], p[2]) > Cap[p[2]]
                   THEN {"cap"}
              ELSE {}
  BY <1>1 DEF NetErrors
<1>3. QED
  BY <1>2 DEF Errors

\* A call of apply keeps the types and the index, and appends the batch or
\* nothing; it appends no key that was applied before.
LEMMA ApplyBatchEffect ==
  ASSUME TypeOK, SeenIsKeys, NEW batch \in Seq(Entry), ApplyBatch(batch)
  PROVE  /\ TypeOK'
         /\ SeenIsKeys'
         /\ \/ entries' = entries
            \/ /\ entries' = entries \o batch
               /\ KeysOf(batch) \cap KeysOf(entries) = {}
<1>1. CASE Replayed(batch)
  BY <1>1 DEF ApplyBatch, TypeOK, SeenIsKeys, Errors
<1>2. CASE ~Replayed(batch) /\ NetErrors(batch) # {}
  BY <1>2, NetErrorsType DEF ApplyBatch, TypeOK, SeenIsKeys
<1>3. CASE ~Replayed(batch) /\ NetErrors(batch) = {}
  <2>1. /\ answer' = "ok"
        /\ entries' = entries \o batch
        /\ seen' = seen \union KeysOf(batch)
    BY <1>3 DEF ApplyBatch, AppendBatch
  <2>2. KeysOf(batch) \subseteq Keys
    <3>1. SUFFICES ASSUME NEW i \in DOMAIN batch
                   PROVE  batch[i].key \in Keys
      BY DEF KeysOf
    <3>2. batch[i] \in Entry
      OBVIOUS
    <3>3. QED
      BY <3>2 DEF Entry
  <2>3. KeysOf(batch) \cap KeysOf(entries) = {}
    BY <1>3 DEF Replayed, SeenIsKeys
  <2>4. entries \in Seq(Entry)
    BY DEF TypeOK
  <2>5. /\ entries' \in Seq(Entry)
        /\ KeysOf(entries') = KeysOf(entries) \union KeysOf(batch)
    BY <2>1, <2>4, Appended
  <2>6. TypeOK'
    BY <2>1, <2>2, <2>5 DEF TypeOK
  <2>7. SeenIsKeys'
    BY <2>1, <2>5 DEF SeenIsKeys
  <2>8. QED
    BY <2>1, <2>3, <2>6, <2>7
<1>4. QED
  BY <1>1, <1>2, <1>3

\* A caller's batch is a sequence of entries that reverse nothing.
LEMMA RequestedType ==
  ASSUME NEW n \in Nat, NEW batch \in [1 .. n -> Requested]
  PROVE  /\ batch \in Seq(Entry)
         /\ \A i \in DOMAIN batch : batch[i].reverses = 0
<1>1. Requested \subseteq Entry
  <2>1. [kind : {"caller"}, of : References] \subseteq Keys
    BY DEF Keys
  <2>2. Amounts \subseteq Int /\ {0} \subseteq Nat
    BY LedgerAssumption
  <2> HIDE DEF Keys
  <2>3. QED
    BY <2>1, <2>2 DEF Requested, Entry
<1>2. batch \in Seq(Requested)
  OBVIOUS
<1>3. QED
  BY <1>1, <1>2 DEF Requested

\* A compensating entry and its original.
LEMMA CompensationType ==
  ASSUME TypeOK, NEW id \in DOMAIN entries
  PROVE  /\ Compensation(id) \in Entry
         /\ Compensation(id).wallet = entries[id].wallet
         /\ Compensation(id).currency = entries[id].currency
         /\ Compensation(id).amount = -entries[id].amount
         /\ Compensation(id).reverses = id
<1>1. /\ entries[id] \in Entry
      /\ id \in Nat
  BY DEF TypeOK
<1>2. [kind |-> "reversal", of |-> id] \in Keys
  BY <1>1 DEF Keys
<1> DEFINE e == entries[id]
           c == Compensation(id)
<1>3. c = [wallet |-> e.wallet, currency |-> e.currency, amount |-> -e.amount,
           key |-> [kind |-> "reversal", of |-> id], reverses |-> id]
  <2>1. e = [wallet |-> e.wallet, currency |-> e.currency, amount |-> e.amount,
             key |-> e.key, reverses |-> e.reverses]
    BY <1>1 DEF Entry
  <2>2. c = [e EXCEPT !.amount = -e.amount,
                      !.key = [kind |-> "reversal", of |-> id],
                      !.reverses = id]
    BY DEF Compensation
  <2> HIDE DEF e, c
  <2>3. QED
    BY <2>1, <2>2
<1>4. e.wallet \in Wallets /\ e.currency \in Currencies /\ -e.amount \in Int
  BY <1>1 DEF Entry
<1> HIDE DEF c, e
<1>5. c \in Entry
  BY <1>1, <1>2, <1>3, <1>4 DEF Entry
<1>6. QED
  BY <1>3, <1>5 DEF c, e

\* Appending entries that reverse nothing keeps the pairing of reversals.
LEMMA PlainBatchKeepsPairs ==
  ASSUME TypeOK, ReversesEarlier, ReversedAtMostOnce,
         NEW batch \in Seq(Entry),
         \A i \in DOMAIN batch : batch[i].reverses = 0,
         entries' = entries \o batch
  PROVE  ReversesEarlier' /\ ReversedAtMostOnce'
<1>1. /\ entries \in Seq(Entry)
      /\ \A i \in DOMAIN entries : i \in DOMAIN entries' /\ entries'[i] = entries[i]
  BY DEF TypeOK
<1>2. \A i \in DOMAIN entries' \ DOMAIN entries : entries'[i].reverses = 0
  BY <1>1, Appended
<1>3. \A i \in DOMAIN entries' : i \in Nat \ {0}
  BY <1>1
<1>4. ReversesEarlier'
  BY <1>1, <1>2, <1>3 DEF ReversesEarlier
<1>5. ASSUME NEW i \in DOMAIN entries', NEW j \in DOMAIN entries',
             entries'[i].reverses # 0, entries'[i].reverses = entries'[j].reverses
      PROVE  i = j
  BY <1>1, <1>2, <1>5 DEF ReversedAtMostOnce
<1>6. ASSUME NEW i \in DOMAIN entries', NEW j \in DOMAIN entries',
             entries'[i].reverses = j
      PROVE  /\ j < i
             /\ entries'[i].wallet = entries'[j].wallet
             /\ entries'[i].currency = entries'[j].currency
             /\ entries'[i].amount = -entries'[j].amount
  <2>1. i \in DOMAIN entries /\ entries[i].reverses = j
    BY <1>1, <1>2, <1>3, <1>6
  <2>2. j < i
    BY <2>1 DEF ReversesEarlier
  <2>3. j \in DOMAIN entries
    BY <1>1, <1>3, <2>1, <2>2
  <2>4. QED
    BY <1>1, <2>1, <2>2, <2>3 DEF ReversedAtMostOnce
<1>7. QED
  BY <1>4, <1>5, <1>6 DEF ReversedAtMostOnce

\* Appending the compensation of an entry not reversed before keeps it too.
LEMMA CompensationKeepsPairs ==
  ASSUME TypeOK, ReversesEarlier, ReversedAtMostOnce,
         NEW id \in DOMAIN entries, ~Reversed(id),
         entries' = entries \o <<Compensation(id)>>
  PROVE  ReversesEarlier' /\ ReversedAtMostOnce'
<1> DEFINE n == Len(entries) + 1
<1>1. /\ entries \in Seq(Entry)
      /\ Compensation(id) \in Entry
  BY CompensationType DEF TypeOK
<1>2. /\ DOMAIN entries = 1 .. Len(entries)
      /\ DOMAIN entries' = 1 .. n
      /\ \A i \in DOMAIN entries : entries'[i] = entries[i]
      /\ entries'[n] = Compensation(id)
  BY <1>1
<1>3. /\ entries'[n].reverses = id
      /\ entries'[n].wallet = entries'[id].wallet
      /\ entries'[n].currency = entries'[id].currency
      /\ entries'[n].amount = -entries'[id].amount
      /\ id \in 1 .. n - 1
  BY <1>2, CompensationType
<1>4. \A i \in DOMAIN entries : entries[i].reverses # id
  BY DEF Reversed
<1>5. \A i \in DOMAIN entries' : i \in DOMAIN entries \/ i = n
  BY <1>1, <1>2
<1>6. Len(entries) \in Nat
  BY <1>1
<1> HIDE DEF n
<1>7. ReversesEarlier'
  BY <1>2, <1>3, <1>5 DEF ReversesEarlier
<1>8. ASSUME NEW i \in DOMAIN entries', NEW j \in DOMAIN entries',
             entries'[i].reverses # 0, entries'[i].reverses = entries'[j].reverses
      PROVE  i = j
  <2>1. CASE i = n \/ j = n
    BY <1>2, <1>3, <1>4, <1>5, <1>8, <2>1
  <2>2. CASE i # n /\ j # n
    BY <1>2, <1>5, <1>8, <2>2 DEF ReversedAtMostOnce
  <2>3. QED
    BY <2>1, <2>2
<1>9. ASSUME NEW i \in DOMAIN entries', NEW j \in DOMAIN entries',
             entries'[i].reverses = j
      PROVE  /\ j < i
             /\ entries'[i].wallet = entries'[j].wallet
             /\ entries'[i].currency = entries'[j].currency
             /\ entries'[i].amount = -entries'[j].amount
  <2>1. CASE i = n
    BY <1>3, <1>9, <2>1
  <2>2. CASE i # n
    <3>1. i \in DOMAIN entries /\ entries[i].reverses = j
      BY <1>2, <1>5, <1>9, <2>2
    <3>2. j < i
      BY <3>1 DEF ReversesEarlier
    <3>3. j \in DOMAIN entries
      BY <1>2, <1>6, <3>1, <3>2
    <3>4. QED
      BY <1>2, <3>1, <3>2, <3>3 DEF ReversedAtMostOnce
  <2>3. QED
    BY <2>1, <2>2
<1>10. QED
  BY <1>7, <1>8, <1>9 DEF ReversedAtMostOnce

\* What a step does: nothing to the entries, or an append of fresh keys.
LEMMA StepEffect ==
  ASSUME IInv, Next
  PROVE  /\ IInv'
         /\ \/ entries' = entries
            \/ \E batch \in Seq(Entry) :
                 /\ entries' = entries \o batch
                 /\ KeysOf(batch) \cap KeysOf(entries) = {}
<1> USE DEF IInv
<1>1. CASE Apply
  <2>1. PICK n \in 1 .. MaxBatch :
          \E b \in [1 .. n -> Requested] : ApplyBatch(b)
    BY <1>1 DEF Apply
  <2>2. PICK batch \in [1 .. n -> Requested] : ApplyBatch(batch)
    BY <2>1
  <2>3. n \in Nat
    BY <2>1, LedgerAssumption
  <2>4. /\ batch \in Seq(Entry)
        /\ \A i \in DOMAIN batch : batch[i].reverses = 0
    BY <2>3, RequestedType
  <2>5. /\ TypeOK'
        /\ SeenIsKeys'
        /\ \/ entries' = entries
           \/ /\ entries' = entries \o batch
              /\ KeysOf(batch) \cap KeysOf(entries) = {}
    BY <2>2, <2>4, ApplyBatchEffect
  <2>6. ReversesEarlier' /\ ReversedAtMostOnce'
    <3>1. CASE entries' = entries
      BY <3>1 DEF ReversesEarlier, ReversedAtMostOnce
    <3>2. CASE entries' = entries \o batch
      BY <2>4, <3>2, PlainBatchKeepsPairs
    <3>3. QED
      BY <2>5, <3>1, <3>2
  <2>7. QED
    BY <2>4, <2>5, <2>6
<1>2. CASE ReverseEntry
  <2>1. PICK id \in 1 .. MaxEntries :
          \/ /\ answer' \in {"missing", "reversed"}
             /\ UNCHANGED <<entries, seen>>
          \/ /\ id \in DOMAIN entries
             /\ ~Reversed(id)
             /\ ApplyBatch(<<Compensation(id)>>)
    BY <1>2 DEF ReverseEntry
  <2>2. CASE answer' \in {"missing", "reversed"} /\ UNCHANGED <<entries, seen>>
    BY <2>2 DEF TypeOK, Errors, SeenIsKeys, KeysOf, ReversesEarlier,
                ReversedAtMostOnce
  <2>3. CASE /\ id \in DOMAIN entries
             /\ ~Reversed(id)
             /\ ApplyBatch(<<Compensation(id)>>)
    <3> DEFINE batch == <<Compensation(id)>>
    <3>1. batch \in Seq(Entry)
      BY <2>3, CompensationType
    <3>2. /\ TypeOK'
          /\ SeenIsKeys'
          /\ \/ entries' = entries
             \/ /\ entries' = entries \o batch
                /\ KeysOf(batch) \cap KeysOf(entries) = {}
      BY <2>3, <3>1, ApplyBatchEffect
    <3>3. ReversesEarlier' /\ ReversedAtMostOnce'
      <4>1. CASE entries' = entries
        BY <4>1 DEF ReversesEarlier, ReversedAtMostOnce
      <4>2. CASE entries' = entries \o batch
        BY <2>3, <4>2, CompensationKeepsPairs
      <4>3. QED
        BY <3>2, <4>1, <4>2
    <3>4. QED
      BY <3>1, <3>2, <3>3
  <2>4. QED
    BY <2>1, <2>2, <2>3
<1>3. QED
  BY <1>1, <1>2 DEF Next

\* The invariant holds always: the index is the set of applied keys, and
\* reversals are paired with originals.
THEOREM InvariantHolds == Spec => []IInv
<1>1. Init => IInv
  BY DEF Init, IInv, TypeOK, SeenIsKeys, KeysOf, ReversesEarlier,
         ReversedAtMostOnce, Entry
<1>2. IInv /\ [Next]_vars => IInv'
  <2>1. ASSUME IInv, UNCHANGED vars
        PROVE  IInv'
    BY <2>1 DEF vars, IInv, TypeOK, SeenIsKeys, KeysOf, ReversesEarlier,
                ReversedAtMostOnce
  <2>2. QED
    BY <2>1, StepEffect
<1>3. QED
  BY <1>1, <1>2, PTL DEF Spec

\* An entry is compensated at most once, with the opposite amount, for every
\* sequence of batches and reversals (Ledger::reverse).
THEOREM ReversalsPaired == Spec => []ReversedAtMostOnce
<1>1. IInv => ReversedAtMostOnce
  BY DEF IInv
<1>2. QED
  BY <1>1, InvariantHolds, PTL

\* No key that was applied is applied again by a later call (Ledger::apply).
THEOREM ReplaysRejected == Spec => NoReplayAcrossBatches
<1> DEFINE Fresh == \A i \in DOMAIN entries' \ DOMAIN entries :
                      entries'[i].key \notin KeysOf(entries)
<1>1. ASSUME IInv, Next
      PROVE  Fresh
  <2>1. CASE entries' = entries
    BY <2>1
  <2>2. CASE \E batch \in Seq(Entry) :
                 /\ entries' = entries \o batch
                 /\ KeysOf(batch) \cap KeysOf(entries) = {}
    <3>1. PICK batch \in Seq(Entry) :
                 /\ entries' = entries \o batch
                 /\ KeysOf(batch) \cap KeysOf(entries) = {}
      BY <2>2
    <3>2. SUFFICES ASSUME NEW i \in DOMAIN entries' \ DOMAIN entries
                   PROVE  entries'[i].key \notin KeysOf(entries)
      OBVIOUS
    <3>3. PICK j \in DOMAIN batch : entries'[i] = batch[j]
      BY <1>1, <3>1, Appended DEF IInv, TypeOK
    <3>4. batch[j].key \in KeysOf(batch)
      BY <3>3, Zenon DEF KeysOf
    <3>5. QED
      BY <3>1, <3>3, <3>4
  <2>3. QED
    BY <1>1, <2>1, <2>2, StepEffect
<1>2. UNCHANGED vars => Fresh
  BY DEF vars
<1>3. IInv /\ [Next]_vars => [Fresh]_vars
  BY <1>1, <1>2
<1>4. QED
  BY <1>3, InvariantHolds, PTL DEF Spec, NoReplayAcrossBatches
-----------------------------------------------------------------------------
(* Sums.                                                                   *)

\* Induction, on a set of numbers: the rule of NaturalsInduction takes an operator.

\* The entries that a balance adds up.
Of(es, w, c) == {i \in DOMAIN es : es[i].wallet = w /\ es[i].currency = c}

AmountsOf(es, w, c) == [i \in Of(es, w, c) |-> es[i].amount]

LEMMA BalanceIsSum ==
  ASSUME NEW es, NEW w, NEW c, \E g : IsSum(g, AmountsOf(es, w, c), Of(es, w, c))
  PROVE  \E g : /\ IsSum(g, AmountsOf(es, w, c), Of(es, w, c))
               /\ Balance(es, w, c) = g[Of(es, w, c)]
<1> DEFINE U == Of(es, w, c)
           f == AmountsOf(es, w, c)
           Adds(g) == g = [s \in SUBSET Of(es, w, c) |->
                             IF s = {} THEN 0 ELSE es[Pick(s)].amount + g[s \ {Pick(s)}]]
<1>1. \A g : IsSum(g, f, U) <=> Adds(g)
  <2>1. \A s \in SUBSET U : s # {} => Pick(s) \in U /\ f[Pick(s)] = es[Pick(s)].amount
    BY DEF Pick, AmountsOf
  <2> HIDE DEF f
  <2>2. QED
    BY <2>1 DEF IsSum
<1>2. \E g : Adds(g)
  BY <1>1
<1>3. \E g : Adds(g) /\ Balance(es, w, c) = g[Of(es, w, c)]
  BY <1>2 DEF Balance, MapThenSumSet, MapThenFoldSet, Of, Pick
<1>4. QED
  BY <1>1, <1>3

\* The contribution of an entry.
Part(e, w, c) == IF e.wallet = w /\ e.currency = c THEN e.amount ELSE 0

\* What adding up the entries from the first to the last gives after each.
Run(r, es, w, c) ==
  /\ r \in [0 .. Len(es) -> Int]
  /\ r[0] = 0
  /\ \A n \in 1 .. Len(es) : r[n] = r[n - 1] + Part(es[n], w, c)

\* A balance is what a run over the entries, from the first to the last, adds up.
LEMMA BalanceIsRun ==
  ASSUME NEW es \in Seq(Entry), NEW w, NEW c
  PROVE  \E r : Run(r, es, w, c) /\ Balance(es, w, c) = r[Len(es)]
<1> DEFINE U == Of(es, w, c)
           f == AmountsOf(es, w, c)
           Upto(n) == {i \in U : i <= n}
<1>1. /\ Len(es) \in Nat
      /\ DOMAIN es = 1 .. Len(es)
      /\ \A i \in 1 .. Len(es) : es[i] \in Entry
  OBVIOUS
<1>2. /\ U \subseteq 1 .. Len(es)
      /\ \A i \in 1 .. Len(es) : i \in U <=> es[i].wallet = w /\ es[i].currency = c
  BY <1>1 DEF Of
<1>3. \A i \in U : es[i].amount \in Int /\ f[i] = es[i].amount
  BY <1>1, <1>2 DEF Entry, AmountsOf
<1>4. IsFiniteSet(U)
  <2>1. IsFiniteSet(1 .. Len(es))
    BY <1>1, FS_Interval
  <2>2. QED
    BY <1>2, <2>1, FS_Subset
<1>5. PICK g : IsSum(g, f, U) /\ Balance(es, w, c) = g[U]
  BY <1>3, <1>4, SumExists, BalanceIsSum
<1> HIDE DEF U, f
<1>6. /\ g[{}] = 0
      /\ \A s \in SUBSET U : g[s] \in Int
      /\ \A s \in SUBSET U : \A x \in s : g[s] = es[x].amount + g[s \ {x}]
  <2>1. g[{}] = 0 /\ \A s \in SUBSET U : g[s] \in Int
    BY <1>3, <1>4, <1>5, SumTyped
  <2>2. AnyOrder(g, f, U)
    BY <1>3, <1>4, <1>5, SumAnyOrder
  <2>3. QED
    BY <1>3, <2>1, <2>2 DEF AnyOrder
<1> DEFINE r == [n \in 0 .. Len(es) |-> g[Upto(n)]]
<1>7. r \in [0 .. Len(es) -> Int]
  BY <1>6
<1>8. \A i \in U : i \in Int /\ 1 <= i /\ i <= Len(es)
  BY <1>1, <1>2
<1>9. Upto(0) = {} /\ Upto(Len(es)) = U
  BY <1>8
<1>10. ASSUME NEW n \in 1 .. Len(es)
      PROVE  r[n] = r[n - 1] + Part(es[n], w, c)
  <2>1. n \in 0 .. Len(es) /\ n - 1 \in 0 .. Len(es)
    BY <1>1
  <2>2. CASE n \in U
    <3>1. n \in Upto(n) /\ Upto(n) \ {n} = Upto(n - 1) /\ Upto(n) \in SUBSET U
      <4>1. \A i \in U : i <= n /\ i # n <=> i <= n - 1
        BY <1>8, <2>1
      <4>2. n <= n
        BY <1>8, <2>2
      <4>3. QED
        BY <2>2, <4>1, <4>2
    <3>2. g[Upto(n)] = es[n].amount + g[Upto(n - 1)]
      BY <1>6, <3>1
    <3>3. Part(es[n], w, c) = es[n].amount /\ es[n].amount \in Int
      BY <1>2, <1>3, <2>2 DEF Part
    <3>4. g[Upto(n - 1)] \in Int
      BY <1>6
    <3> HIDE DEF Upto
    <3>5. QED
      BY <2>1, <3>2, <3>3, <3>4
  <2>3. CASE n \notin U
    <3>1. Upto(n) = Upto(n - 1)
      BY <1>8, <2>3
    <3>2. Part(es[n], w, c) = 0
      BY <1>2, <2>3 DEF Part
    <3>3. g[Upto(n - 1)] \in Int
      BY <1>6
    <3> HIDE DEF Upto
    <3>4. QED
      BY <2>1, <3>1, <3>2, <3>3
  <2>4. QED
    BY <2>2, <2>3
<1>11. r[0] = 0 /\ r[Len(es)] = Balance(es, w, c)
  <2>1. 0 \in 0 .. Len(es) /\ Len(es) \in 0 .. Len(es)
    BY <1>1
  <2> HIDE DEF Upto
  <2>2. QED
    BY <1>5, <1>6, <1>9, <2>1
<1> HIDE DEF r
<1>12. QED
  BY <1>7, <1>10, <1>11 DEF Run

\* The balance after a batch: what was there and what the batch adds.
LEMMA BalanceAppended ==
  ASSUME NEW es \in Seq(Entry), NEW batch \in Seq(Entry), NEW w, NEW c
  PROVE  /\ Balance(es, w, c) \in Int /\ Balance(batch, w, c) \in Int
         /\ Balance(es \o batch, w, c) = Balance(es, w, c) + Balance(batch, w, c)
<1> DEFINE all == es \o batch
           m == Len(es)
           k == Len(batch)
<1>1. /\ all \in Seq(Entry) /\ Len(all) = m + k /\ m \in Nat /\ k \in Nat
      /\ \A i \in 1 .. m : all[i] = es[i]
      /\ \A i \in 1 .. k : all[m + i] = batch[i]
  OBVIOUS
<1> HIDE DEF all, m, k
<1>2. PICK r : Run(r, es, w, c) /\ Balance(es, w, c) = r[m]
  BY BalanceIsRun DEF m
<1>3. PICK q : Run(q, batch, w, c) /\ Balance(batch, w, c) = q[k]
  BY BalanceIsRun DEF k
<1>4. PICK a : Run(a, all, w, c) /\ Balance(all, w, c) = a[Len(all)]
  BY <1>1, BalanceIsRun
<1>5. /\ r \in [0 .. m -> Int] /\ r[0] = 0
      /\ \A n \in 1 .. m : r[n] = r[n - 1] + Part(es[n], w, c)
      /\ q \in [0 .. k -> Int] /\ q[0] = 0
      /\ \A n \in 1 .. k : q[n] = q[n - 1] + Part(batch[n], w, c)
  BY <1>2, <1>3 DEF Run, m, k
<1>6. /\ a[0] = 0
       /\ \A n \in 1 .. m + k : a[n] = a[n - 1] + Part(all[n], w, c)
  BY <1>1, <1>4 DEF Run
<1> DEFINE S == {n \in Nat : n <= m => a[n] = r[n]}
           T == {n \in Nat : n <= k => a[m + n] = r[m] + q[n]}
<1>7. Nat \subseteq S
  <2>1. 0 \in S
    BY <1>5, <1>6
  <2>2. ASSUME NEW n \in Nat, n \in S PROVE n + 1 \in S
    <3>1. SUFFICES ASSUME n + 1 <= m PROVE a[n + 1] = r[n + 1]
      OBVIOUS
    <3>2. n + 1 \in 1 .. m /\ n + 1 \in 1 .. m + k /\ (n + 1) - 1 = n /\ n <= m
      BY <1>1, <3>1
    <3>3. a[n + 1] = a[n] + Part(all[n + 1], w, c) /\ r[n + 1] = r[n] + Part(es[n + 1], w, c)
      BY <1>5, <1>6, <3>2
    <3>4. QED
      BY <1>1, <2>2, <3>2, <3>3
  <2> HIDE DEF S
  <2>3. QED
    BY <2>1, <2>2, InductionOnNat
<1>8. Nat \subseteq T
  <2>1. 0 \in T
    BY <1>1, <1>5, <1>7
  <2>2. ASSUME NEW n \in Nat, n \in T PROVE n + 1 \in T
    <3>1. SUFFICES ASSUME n + 1 <= k PROVE a[m + (n + 1)] = r[m] + q[n + 1]
      OBVIOUS
    <3>2. /\ n + 1 \in 1 .. k /\ (n + 1) - 1 = n /\ n <= k
          /\ m + (n + 1) \in 1 .. m + k /\ (m + (n + 1)) - 1 = m + n
      BY <1>1, <3>1
    <3>3. /\ a[m + (n + 1)] = a[m + n] + Part(all[m + (n + 1)], w, c)
          /\ q[n + 1] = q[n] + Part(batch[n + 1], w, c)
      BY <1>5, <1>6, <3>2
    <3>4. all[m + (n + 1)] = batch[n + 1]
      BY <1>1, <3>2
    <3>5. a[m + n] = r[m] + q[n]
      BY <2>2, <3>2
    <3>6. r[m] \in Int /\ q[n] \in Int /\ Part(batch[n + 1], w, c) \in Int
      <4>1. batch[n + 1] \in Entry
        BY <3>2 DEF k
      <4>2. QED
        <5>1. r[m] \in Int /\ q[n] \in Int
          BY <1>1, <1>5, <3>2
        <5>2. batch[n + 1].amount \in Int
          BY <4>1 DEF Entry
        <5>3. QED
          BY <5>1, <5>2 DEF Part
    <3>7. QED
      BY <3>3, <3>4, <3>5, <3>6
  <2> HIDE DEF T
  <2>3. QED
    BY <2>1, <2>2, InductionOnNat
<1>9. a[m + k] = r[m] + q[k]
  BY <1>1, <1>8
<1>10. QED
  BY <1>1, <1>2, <1>3, <1>4, <1>9, <1>5 DEF all

LEMMA UntouchedBalance ==
  ASSUME NEW batch \in Seq(Entry), NEW w, NEW c, <<w, c>> \notin Touched(batch)
  PROVE  Balance(batch, w, c) = 0
<1>1. Of(batch, w, c) = {}
  BY DEF Touched, Of
<1>2. IsFiniteSet({})
  BY FS_EmptySet
<1>3. PICK g : IsSum(g, AmountsOf(batch, w, c), {}) /\ Balance(batch, w, c) = g[{}]
  <2>1. \E g : IsSum(g, AmountsOf(batch, w, c), {})
    BY <1>2, SumExists
  <2>2. QED
    BY <1>1, <2>1, BalanceIsSum
<1>4. QED
  BY <1>2, <1>3, SumTyped
-----------------------------------------------------------------------------
(* The policies.                                                           *)

\* The batch is refused as a whole if it would break the policy of any wallet it
\* touches; the others keep their balances.
LEMMA ApplyBatchWithinPolicy ==
  ASSUME TypeOK, WithinPolicy, NEW batch \in Seq(Entry), ApplyBatch(batch)
  PROVE  WithinPolicy'
<1>1. CASE entries' = entries
  BY <1>1 DEF WithinPolicy
<1>2. CASE entries' # entries
  <2>1. NetErrors(batch) = {} /\ entries' = entries \o batch
    BY <1>2 DEF ApplyBatch, AppendBatch
  <2>2. SUFFICES ASSUME NEW w \in Wallets, NEW c \in Defined
                 PROVE  LET b == Balance(entries \o batch, w, c) IN
                        /\ b < 0 => c \in AllowNegative
                        /\ Cap[c] > 0 => b <= Cap[c]
    BY <2>1 DEF WithinPolicy
  <2> DEFINE old == Balance(entries, w, c)
             more == Balance(batch, w, c)
             both == Balance(entries \o batch, w, c)
  <2>3. /\ old \in Int /\ more \in Int
        /\ both = old + more
    BY BalanceAppended DEF TypeOK
  <2>4. Cap[c] \in Nat
    BY LedgerAssumption
  <2>5. CASE <<w, c>> \in Touched(batch)
    <3>1. Final(batch, w, c) = both
      BY <2>3 DEF Final
    <3> HIDE DEF both
    <3>2. (IF both < 0 /\ c \notin AllowNegative THEN {"negative"}
           ELSE IF Cap[c] > 0 /\ both > Cap[c] THEN {"cap"} ELSE {}) \subseteq NetErrors(batch)
      BY <2>5, <3>1 DEF NetErrors
    <3>3. /\ ~(both < 0 /\ c \notin AllowNegative)
          /\ ~(Cap[c] > 0 /\ both > Cap[c])
      BY <2>1, <3>2
    <3>4. both \in Int
      BY <2>3
    <3>5. QED
      BY <2>4, <3>3, <3>4 DEF both
  <2>6. CASE <<w, c>> \notin Touched(batch)
    <3>1. both = old
      BY <2>3, <2>6, UntouchedBalance
    <3>2. QED
      BY <3>1 DEF WithinPolicy
  <2>7. QED
    BY <2>5, <2>6
<1>3. QED
  BY <1>1, <1>2

\* No accepted batch or reversal overdraws a wallet or takes it above its cap,
\* for every policy, amounts and batches of every length (Ledger::apply).
THEOREM PolicyKept == Spec => []WithinPolicy
<1>1. Init => WithinPolicy
  <2>1. SUFFICES ASSUME Init, NEW w \in Wallets, NEW c \in Defined
                 PROVE  Balance(entries, w, c) = 0 /\ Cap[c] \in Nat
    BY DEF WithinPolicy
  <2>2. entries \in Seq(Entry) /\ entries = <<>>
    BY <2>1 DEF Init
  <2>3. <<w, c>> \notin Touched(entries)
    BY <2>2 DEF Touched
  <2>4. QED
    BY <2>2, <2>3, UntouchedBalance, LedgerAssumption
<1>2. ASSUME IInv, WithinPolicy, [Next]_vars PROVE WithinPolicy'
  <2>1. CASE UNCHANGED entries
    BY <1>2, <2>1 DEF WithinPolicy
  <2>2. CASE Apply
    <3>1. PICK n \in 1 .. MaxBatch : \E b \in [1 .. n -> Requested] : ApplyBatch(b)
      BY <2>2 DEF Apply
    <3>2. PICK batch \in [1 .. n -> Requested] : ApplyBatch(batch)
      BY <3>1
    <3>3. batch \in Seq(Entry)
      BY <3>1, RequestedType, LedgerAssumption
    <3>4. QED
      BY <1>2, <3>2, <3>3, ApplyBatchWithinPolicy DEF IInv
  <2>3. CASE ReverseEntry /\ entries' # entries
    <3>1. PICK id \in DOMAIN entries : ApplyBatch(<<Compensation(id)>>)
      BY <2>3 DEF ReverseEntry
    <3>2. <<Compensation(id)>> \in Seq(Entry)
      BY <1>2, CompensationType DEF IInv
    <3>3. QED
      BY <1>2, <3>1, <3>2, ApplyBatchWithinPolicy DEF IInv
  <2>4. QED
    BY <1>2, <2>1, <2>2, <2>3 DEF Next, vars
<1>3. QED
  BY <1>1, <1>2, InvariantHolds, PTL DEF Spec
-----------------------------------------------------------------------------
(* The statements that are left.                                           *)

MergeOps ==
  <<"validate", "validate", "repoint", "select", "upsert", "delete", "select", "upsert",
    "delete", "reown", "reown", "reown", "reown", "reown", "select", "upsert", "delete",
    "repoint", "select", "upsert", "delete", "archive", "commit">>
MergeTables ==
  <<"source", "target", "identities", "xp_tracks", "xp_tracks", "xp_tracks", "rule_state",
    "rule_state", "rule_state", "challenge_progress", "streak_state", "achievement_unlocks",
    "inventory_items", "user_variables", "wallets", "wallets", "wallets", "ledger_entries",
    "leaderboard_entries", "leaderboard_entries", "leaderboard_entries", "users", "users">>
LinkOps == <<"validate", "lookup", "link", "commit">>
LinkTables == <<"user", "identities", "identities", "users">>

\* The number of the next statement of a merge or a link.
MergeAt(t) == 24 - Len(todo[t])
LinkAt(t) == 5 - Len(todo[t])

MergeFollows(t) ==
  MergeAt(t) \in 1 .. 23 /\ todo[t] = SubSeq(MergeAnonymous, MergeAt(t), 23)
LinkFollows(t) ==
  LinkAt(t) \in 1 .. 4 /\ todo[t] = SubSeq(LinkIdentity, LinkAt(t), 4)

Moved == {"xp_tracks", "rule_state", "wallets", "leaderboard_entries"}
StateTables == Moved \union SimpleTables
OwnerTables == {"identities", "ledger_entries"}

\* The first and the last statement of a merge that write rows of a table.
FirstAt(table) ==
  CASE table = "identities" -> 3
    [] table = "xp_tracks" -> 5
    [] table = "rule_state" -> 8
    [] table = "challenge_progress" -> 10
    [] table = "streak_state" -> 11
    [] table = "achievement_unlocks" -> 12
    [] table = "inventory_items" -> 13
    [] table = "user_variables" -> 14
    [] table = "wallets" -> 16
    [] table = "ledger_entries" -> 18
    [] table = "leaderboard_entries" -> 20
    [] OTHER -> 22
LastAt(table) == IF table \in Moved THEN FirstAt(table) + 1 ELSE FirstAt(table)

\* A row, with its value, that a merge may have written before its statement p.
MergeOwns(t, p, row, value) ==
  \/ row[1] \in OwnerTables /\ FirstAt(row[1]) < p /\ value = Target(t)
  \/ row[1] \in StateTables /\ row[2] = Target(t) /\ FirstAt(row[1]) < p /\ value # None
  \/ row[1] \in StateTables /\ row[2] = Source(t) /\ LastAt(row[1]) < p /\ value = None
  \/ row = UserRow(Source(t)) /\ 22 < p /\ value = Target(t)

MergeShape(t) ==
  /\ MergeFollows(t)
  /\ \A row \in DOMAIN own[t] : MergeOwns(t, MergeAt(t), row, own[t][row])
  /\ \A table \in Moved :
       MergeAt(t) = FirstAt(table)
         => \A row \in DOMAIN read[t] :
              row \in RowsOf(table, Target(t)) /\ read[t][row] \in Values(row)

LinkShape(t) ==
  /\ LinkFollows(t)
  /\ \A row \in DOMAIN own[t] :
       LinkAt(t) = 4 /\ row = IdentityRow(Call[t].identity) /\ own[t][row] = Actor(t)

\* The part of an event that a statement belongs to: the commands come first, then
\* the rows that persistState writes, table after table.
Phase(s) ==
  CASE s.op \in {"ensure", "entry", "sum", "grant", "raise"} -> 1
    [] s.op = "write" /\ s.of[1] = "wallets" -> 1
    [] s.op = "write" /\ s.of[1] = "xp_tracks" -> 2
    [] s.op = "write" /\ s.of[1] = "rule_state" -> 3
    [] s.op = "write" /\ s.of[1] = "challenge_progress" -> 4
    [] s.op = "write" /\ s.of[1] = "streak_state" -> 5
    [] s.op = "keep" -> 6
    [] s.op = "write" /\ s.of[1] = "leaderboard_entries" -> 7
    [] s.op = "write" /\ s.of[1] = "user_variables" -> 8
    [] OTHER -> 9

\* The tables of the rows that persistState writes.
Persisted == StateOfActor \union {"rule_state"}

\* Those whose rows no command takes.
Late == {"rule_state"} \union Touchable

\* The statements of an award.
Earned(t) ==
  {Statement("ensure", XPRow(t)), Statement("entry", EntryRow(t)),
   Statement("sum", WalletRow(t)), Statement("write", WalletRow(t))}

EventStatement(t, s) ==
  \/ s \in CommandStatements(t)
  \/ /\ s.of \in DOMAIN read[t] /\ s = Persist(s.of)
     /\ s.of[1] \in Persisted /\ s.of[2] = Actor(t)
  \/ s = Statement("commit", "users")

Loaded(t) == todo[t] # <<Statement("load", "users")>>

\* Different statements, in the order of their phases.
InOrder(s) ==
  \A i, j \in DOMAIN s : i < j => s[i] # s[j] /\ Phase(s[i]) <= Phase(s[j])

Elements(s) == {s[i] : i \in DOMAIN s}
Still(t, s) == s \in Elements(todo[t])

EventFollows(t) ==
  /\ todo[t] \in Seq(Elements(todo[t]))
  /\ Len(todo[t]) > 0
  /\ todo[t][Len(todo[t])] = Statement("commit", "users")
  /\ \A s \in Elements(todo[t]) : EventStatement(t, s)
  /\ InOrder(todo[t]) /\ Together(todo[t])

\* A row, with its value, that an event may have written before a statement of phase n.
EventOwns(t, n, row, value) ==
  /\ \/ row = EntryRow(t) /\ value = Actor(t)
     \/ row[1] \in StateTables /\ row[2] = Actor(t) /\ value # None
  /\ row[1] \in Late => 3 < n

EventShape(t) ==
  \/ ~Loaded(t) /\ DOMAIN own[t] = {}
  \/ /\ EventFollows(t)
     /\ \A row \in DOMAIN own[t] : EventOwns(t, Phase(Head(todo[t])), row, own[t][row])
     /\ \A row \in DOMAIN read[t] : row \in Row /\ read[t][row] \in Values(row)
     /\ Call[t].xp > 0 => \/ Still(t, Statement("sum", WalletRow(t)))
                          \/ WalletRow(t) \in DOMAIN read[t]
     /\ Still(t, Statement("write", RuleRow(t))) \/ RuleRow(t) \in DOMAIN own[t]

Shape(t) ==
  CASE Kind(t) = "merge" -> MergeShape(t)
    [] Kind(t) = "link" -> LinkShape(t)
    [] OTHER -> EventShape(t)

Shapes ==
  /\ MergeTypeOK
  /\ DOMAIN own = Calls /\ DOMAIN todo = Calls /\ DOMAIN read = Calls
  /\ \A t \in Calls : DOMAIN own[t] \subseteq Row
  /\ \A t \in Calls \ Open : DOMAIN own[t] = {}
  /\ \A t \in Open : Shape(t)
-----------------------------------------------------------------------------
(* Calls and rows.                                                         *)

LEMMA CallKinds ==
  ASSUME NEW t \in Calls
  PROVE  /\ Kind(t) = "merge" => /\ Source(t) \in Users /\ Target(t) \in Users
                                 /\ Source(t) # Target(t)
         /\ Kind(t) = "event" => /\ Actor(t) \in Users /\ Call[t].track \in Tracks
                                 /\ Call[t].xp \in Nat /\ Call[t].points \in Nat
                                 /\ Call[t].unlocks \subseteq StateKeys
                                 /\ Call[t].items \subseteq StateKeys
                                 /\ Call[t].touched \subseteq Touchable \X StateKeys
                                 /\ t \in Events
         /\ Kind(t) = "link" => Actor(t) \in Users /\ Call[t].identity \in Identities
         /\ Kind(t) \in {"merge", "event", "link"}
<1>1. \/ /\ Kind(t) = "merge"
         /\ Call[t] \in [kind : {"merge"}, source : Users, target : Users]
         /\ Source(t) # Target(t)
      \/ Call[t] \in [kind : {"event"}, user : Users, track : Tracks, xp : Nat,
                      points : Nat, items : SUBSET StateKeys, unlocks : SUBSET StateKeys,
                      touched : SUBSET (Touchable \X StateKeys)]
      \/ Call[t] \in [kind : {"link"}, user : Users, identity : Identities]
  BY MergeAssumption
<1> DEFINE T == SUBSET (Touchable \X StateKeys)
<1> HIDE DEF T
<1>2. \/ /\ Kind(t) = "merge"
         /\ Call[t] \in [kind : {"merge"}, source : Users, target : Users]
         /\ Source(t) # Target(t)
      \/ Call[t] \in [kind : {"event"}, user : Users, track : Tracks, xp : Nat,
                      points : Nat, items : SUBSET StateKeys, unlocks : SUBSET StateKeys,
                      touched : T]
      \/ Call[t] \in [kind : {"link"}, user : Users, identity : Identities]
  BY <1>1 DEF T
<1>3. /\ Kind(t) = "merge" => /\ Source(t) \in Users /\ Target(t) \in Users
                              /\ Source(t) # Target(t)
      /\ Kind(t) = "event" => /\ Actor(t) \in Users /\ Call[t].track \in Tracks
                              /\ Call[t].xp \in Nat /\ Call[t].points \in Nat
                              /\ Call[t].unlocks \subseteq StateKeys
                              /\ Call[t].items \subseteq StateKeys
                              /\ Call[t].touched \in T
      /\ Kind(t) = "link" => Actor(t) \in Users /\ Call[t].identity \in Identities
      /\ Kind(t) \in {"merge", "event", "link"}
  BY <1>2 DEF Kind, Source, Target, Actor
<1>4. QED
  BY <1>3 DEF T, Events

LEMMA RowsAreRows ==
  /\ \A table \in StateTables, u \in Users : RowsOf(table, u) \subseteq Row
  /\ \A u \in Users : UserRow(u) \in Row
  /\ \A i \in Identities : IdentityRow(i) \in Row
  /\ \A t \in Events : EntryRow(t) \in Row
<1>1. \A table \in UserTables \union {"xp_tracks"}, u \in Users : RowsOf(table, u) \subseteq Row
  BY DEF Row
<1>2. \A u \in Users : UserRow(u) \in Row
  <2>1. SUFFICES ASSUME NEW u \in Users PROVE UserRow(u) \in Row
    OBVIOUS
  <2>2. UserRow(u) \in RowsOf("users", u)
    BY DEF UserRow, RowsOf, SimpleTables
  <2>3. QED
    BY <1>1, <2>2 DEF UserTables
<1>3. \A i \in Identities : IdentityRow(i) \in Row
  BY DEF Row
<1>4. \A t \in Events : EntryRow(t) \in Row
  BY DEF Row
<1>5. StateTables \subseteq UserTables \union {"xp_tracks"}
  BY DEF StateTables, Moved, UserTables
<1>6. QED
  BY <1>1, <1>2, <1>3, <1>4, <1>5

LEMMA RowNames ==
  /\ \A table, u : \A row \in RowsOf(table, u) : row[1] = table /\ row[2] = u
  /\ \A u : UserRow(u)[1] = "users" /\ UserRow(u)[2] = u
  /\ \A i : IdentityRow(i)[1] = "identities" /\ IdentityRow(i)[2] = i
  /\ \A t : EntryRow(t)[1] = "ledger_entries" /\ EntryRow(t)[2] = t
BY DEF RowsOf, UserRow, IdentityRow, EntryRow

LEMMA RowKinds ==
  ASSUME NEW row \in Row
  PROVE  \/ row[1] \in StateTables /\ row[2] \in Users /\ row \in RowsOf(row[1], row[2])
         \/ \E u \in Users : row = UserRow(u)
         \/ \E i \in Identities : row = IdentityRow(i)
         \/ \E t \in Events : row = EntryRow(t)
<1>1. CASE \E i \in Identities : row = IdentityRow(i)
  BY <1>1
<1>2. CASE \E t \in Events : row = EntryRow(t)
  BY <1>2
<1>3. CASE \E table \in UserTables \union {"xp_tracks"}, u \in Users : row \in RowsOf(table, u)
  <2>1. PICK table \in UserTables \union {"xp_tracks"}, u \in Users : row \in RowsOf(table, u)
    BY <1>3
  <2>2. row[1] = table /\ row[2] = u
    BY <2>1, RowNames
  <2>3. CASE table = "users"
    <3>1. row = UserRow(u)
      BY <2>1, <2>3 DEF RowsOf, UserRow, SimpleTables
    <3>2. QED
      BY <3>1
  <2>4. CASE table # "users"
    BY <2>1, <2>2, <2>4 DEF UserTables, StateTables, Moved, SimpleTables
  <2>5. QED
    BY <2>3, <2>4
<1>4. \/ \E table \in UserTables \union {"xp_tracks"}, u \in Users : row \in RowsOf(table, u)
      \/ \E i \in Identities : row = IdentityRow(i)
      \/ \E t \in Events : row = EntryRow(t)
  BY DEF Row
<1>5. QED
  BY <1>1, <1>2, <1>3, <1>4

LEMMA ValueKinds ==
  /\ \A row : None \notin Values(row)
  /\ \A row : row[1] = "leaderboard_entries" => Values(row) = Score
  /\ \A row : row[1] \in OwnerTables \union {"users"} => Values(row) = Users
  /\ \A row : row[1] \in StateTables \ {"leaderboard_entries"} => Values(row) = Nat
BY MergeAssumption DEF Values, OwnerTables, StateTables, Moved, SimpleTables

LEMMA Renamed ==
  ASSUME NEW t \in Calls, NEW table, NEW u, NEW row \in RowsOf(table, u)
  PROVE  OfTarget(t, row) \in RowsOf(table, Target(t))
<1>1. /\ [<<table, u>> EXCEPT ![2] = Target(t)] = <<table, Target(t)>>
      /\ \A k : [<<table, u, k>> EXCEPT ![2] = Target(t)] = <<table, Target(t), k>>
  OBVIOUS
<1>2. QED
  BY <1>1 DEF RowsOf, OfTarget

LEMMA Overlaid ==
  ASSUME NEW f, NEW g
  PROVE  /\ DOMAIN Overlay(f, g) = DOMAIN f \union DOMAIN g
         /\ \A row \in DOMAIN f : Overlay(f, g)[row] = f[row]
         /\ \A row \in DOMAIN g \ DOMAIN f : Overlay(f, g)[row] = g[row]
BY DEF Overlay

\* The first statement of a list, and the ones after it.
LEMMA Following ==
  ASSUME NEW S, NEW program \in Seq(S), NEW p \in 1 .. Len(program)
  PROVE  LET rest == SubSeq(program, p, Len(program)) IN
         /\ Len(rest) = Len(program) + 1 - p
         /\ Head(rest) = program[p]
         /\ Tail(rest) = SubSeq(program, p + 1, Len(program))
         /\ Len(SubSeq(program, p + 1, Len(program))) = Len(program) - p
<1>1. LET rest == SubSeq(program, p, Len(program)) IN
      Len(rest) = Len(program) + 1 - p /\ Head(rest) = program[p]
  OBVIOUS
<1>2. Tail(SubSeq(program, p, Len(program))) = SubSeq(program, p + 1, Len(program))
  OBVIOUS
<1>3. Len(SubSeq(program, p + 1, Len(program))) = Len(program) - p
  OBVIOUS
<1>4. QED
  BY <1>1, <1>2, <1>3

LEMMA Programs ==
  /\ MergeAnonymous \in Seq({MergeAnonymous[i] : i \in 1 .. 23}) /\ Len(MergeAnonymous) = 23
  /\ \A i \in 1 .. 23 : MergeAnonymous[i] = Statement(MergeOps[i], MergeTables[i])
  /\ LinkIdentity \in Seq({LinkIdentity[i] : i \in 1 .. 4}) /\ Len(LinkIdentity) = 4
  /\ \A i \in 1 .. 4 : LinkIdentity[i] = Statement(LinkOps[i], LinkTables[i])
<1>1. /\ MergeAnonymous \in Seq({MergeAnonymous[i] : i \in 1 .. 23})
      /\ Len(MergeAnonymous) = 23
  BY DEF MergeAnonymous
<1>2. \A i \in 1 .. 23 : MergeAnonymous[i] = Statement(MergeOps[i], MergeTables[i])
  BY DEF MergeAnonymous, Delete, MergeOps, MergeTables
<1>3. LinkIdentity \in Seq({LinkIdentity[i] : i \in 1 .. 4}) /\ Len(LinkIdentity) = 4
  BY DEF LinkIdentity
<1>4. \A i \in 1 .. 4 : LinkIdentity[i] = Statement(LinkOps[i], LinkTables[i])
  BY DEF LinkIdentity, LinkOps, LinkTables
<1>5. QED
  BY <1>1, <1>2, <1>3, <1>4

\* The next statement of a merge or a link, and the list without it.
LEMMA MergeNextStatement ==
  ASSUME NEW t, MergeFollows(t)
  PROVE  /\ Head(todo[t]) = Statement(MergeOps[MergeAt(t)], MergeTables[MergeAt(t)])
         /\ Tail(todo[t]) = SubSeq(MergeAnonymous, MergeAt(t) + 1, 23)
         /\ Len(Tail(todo[t])) = 23 - MergeAt(t)
<1> DEFINE S == {MergeAnonymous[i] : i \in 1 .. 23}
<1>0. /\ MergeAnonymous \in Seq(S) /\ Len(MergeAnonymous) = 23
      /\ MergeAt(t) \in 1 .. Len(MergeAnonymous)
  BY Programs DEF MergeFollows
<1> HIDE DEF S
<1>1. Head(todo[t]) = MergeAnonymous[MergeAt(t)]
  <2>1. Head(SubSeq(MergeAnonymous, MergeAt(t), Len(MergeAnonymous)))
          = MergeAnonymous[MergeAt(t)]
    BY <1>0, Following
  <2>2. QED
    BY <2>1, Programs DEF MergeFollows
<1>2. Tail(SubSeq(MergeAnonymous, MergeAt(t), Len(MergeAnonymous)))
        = SubSeq(MergeAnonymous, MergeAt(t) + 1, Len(MergeAnonymous))
  BY <1>0, Following
<1>3. Tail(todo[t]) = SubSeq(MergeAnonymous, MergeAt(t) + 1, 23)
  BY <1>2, Programs DEF MergeFollows
<1>4. Len(SubSeq(MergeAnonymous, MergeAt(t) + 1, Len(MergeAnonymous)))
        = Len(MergeAnonymous) - MergeAt(t)
  BY <1>0, Following
<1>5. QED
  BY <1>1, <1>3, <1>4, Programs DEF MergeFollows

LEMMA LinkNextStatement ==
  ASSUME NEW t, LinkFollows(t)
  PROVE  /\ Head(todo[t]) = Statement(LinkOps[LinkAt(t)], LinkTables[LinkAt(t)])
         /\ Tail(todo[t]) = SubSeq(LinkIdentity, LinkAt(t) + 1, 4)
         /\ Len(Tail(todo[t])) = 4 - LinkAt(t)
<1>1. Head(todo[t]) = LinkIdentity[LinkAt(t)]
  BY Programs, Following DEF LinkFollows
<1>2. Tail(SubSeq(LinkIdentity, LinkAt(t), Len(LinkIdentity)))
        = SubSeq(LinkIdentity, LinkAt(t) + 1, Len(LinkIdentity))
  BY Programs, Following DEF LinkFollows
<1>3. Tail(todo[t]) = SubSeq(LinkIdentity, LinkAt(t) + 1, 4)
  BY <1>2, Programs DEF LinkFollows
<1>4. Len(SubSeq(LinkIdentity, LinkAt(t) + 1, Len(LinkIdentity)))
        = Len(LinkIdentity) - LinkAt(t)
  BY Programs, Following DEF LinkFollows
<1>5. QED
  BY <1>1, <1>3, <1>4, Programs DEF LinkFollows
-----------------------------------------------------------------------------
(* What a step does.                                                       *)

Domains == DOMAIN own = Calls /\ DOMAIN todo = Calls /\ DOMAIN read = Calls

\* Nothing that belongs to another call changes.
Others(t) ==
  /\ Domains'
  /\ status' \in [Calls -> {"waiting", "running", "done"}]
  /\ \A x \in Calls \ {t} :
       /\ own'[x] = own[x] /\ todo'[x] = todo[x] /\ read'[x] = read[x]
       /\ status'[x] = status[x]

Begins(t) ==
  /\ status[t] = "waiting" /\ status'[t] = "running"
  /\ own'[t] = own[t] /\ todo'[t] = Program(t) /\ read'[t] = read[t]
  /\ tangled' = tangled \union UNION {UsersOf(t) \union UsersOf(x) :
                                        x \in {y \in Open : Clash(t, y) \/ Clash(y, t)}}
  /\ UNCHANGED <<db, due>>

\* Call t goes on to its next statement.
Continues(t) ==
  /\ t \in Open /\ status'[t] = "running"
  /\ UNCHANGED <<db, due, tangled>>

Checks(t) ==
  /\ Continues(t)
  /\ own'[t] = own[t] /\ todo'[t] = Tail(todo[t]) /\ read'[t] = read[t]
  /\ \/ Head(todo[t]).op = "validate" /\ db[UserRow(Validated(t))] = None
     \/ Head(todo[t]).op = "lookup"

Loads(t) ==
  /\ Continues(t)
  /\ Head(todo[t]).op = "load"
  /\ own'[t] = own[t] /\ read'[t] = Outcome(t)
  /\ \E commands \in Commands(t), rows \in PersistState(t) :
       todo'[t] = ApplyOutcome(t, commands, rows)

Selects(t) ==
  /\ Continues(t)
  /\ Head(todo[t]).op = "select"
  /\ own'[t] = own[t] /\ todo'[t] = Tail(todo[t])
  /\ read'[t] =
       [row \in {OfTarget(t, r) : r \in Present(t, RowsOf(Head(todo[t]).of, Source(t)))} |->
          Seen(t, [row EXCEPT ![2] = Source(t)])]

Sums(t) ==
  /\ Continues(t)
  /\ Head(todo[t]).op = "sum"
  /\ own'[t] = own[t] /\ todo'[t] = Tail(todo[t])
  /\ read'[t] =
       Overlay([row \in {Head(todo[t]).of} |-> LedgerSum(View(t), Actor(t))], read[t])

WriteOps ==
  {"upsert", "delete", "repoint", "reown", "archive", "ensure", "keep", "entry", "grant",
   "raise", "write", "link"}

Writes(t) ==
  /\ Continues(t)
  /\ Head(todo[t]).op \in WriteOps /\ Free(t) /\ ~Violates(t)
  /\ own'[t] = Overlay(Effect(t), own[t])
  /\ todo'[t] = Tail(todo[t]) /\ read'[t] = read[t]

Leaves(t) ==
  /\ t \in Open /\ status'[t] \in {"waiting", "done"}
  /\ own'[t] = <<>> /\ todo'[t] = <<>> /\ read'[t] = <<>>

Ends(t) == Leaves(t) /\ UNCHANGED <<db, due, tangled>>

Commits(t) ==
  /\ Leaves(t)
  /\ Head(todo[t]).op = "commit"
  /\ status'[t] = "done"
  /\ db' = Overlay(own[t], db)
  /\ due' = IF Kind(t) = "link" THEN due ELSE Credited(t)
  /\ tangled' = IF Kind(t) = "merge" /\ Source(t) \in tangled
                THEN tangled \union {Target(t)} ELSE tangled

LEMMA FailIsEnd ==
  ASSUME Domains, MergeTypeOK, NEW t \in Open, Fail(t)
  PROVE  Others(t) /\ Ends(t)
BY DEF Domains, MergeTypeOK, Open, Fail, End, Others, Ends, Leaves

LEMMA Steps ==
  ASSUME Domains, MergeTypeOK, MergeNext
  PROVE  \E t \in Calls :
           /\ Others(t)
           /\ \/ Begins(t) \/ Checks(t) \/ Loads(t) \/ Selects(t) \/ Sums(t) \/ Writes(t)
              \/ Ends(t) \/ Commits(t)
<1>1. ASSUME NEW t \in Calls, Begin(t) PROVE Others(t) /\ Begins(t)
  BY <1>1 DEF Domains, MergeTypeOK, Begin, Others, Begins
<1>2. ASSUME NEW t \in Open, Advance(t) \/ Deadlock(t) \/ Lose(t)
      PROVE  /\ Others(t)
             /\ \/ Checks(t) \/ Loads(t) \/ Selects(t) \/ Sums(t) \/ Writes(t)
                \/ Ends(t) \/ Commits(t)
  <2>1. CASE Deadlock(t) \/ Lose(t)
    BY <2>1, FailIsEnd DEF Deadlock, Lose
  <2>2. CASE Validate(t)
    <3>1. CASE Fail(t)
      BY <3>1, FailIsEnd
    <3>2. CASE ~Fail(t)
      BY <1>2, <2>2, <3>2
         DEF Domains, MergeTypeOK, Open, Validate, Doing, GoOn, Others, Checks, Continues
    <3>3. QED
      BY <3>1, <3>2
  <2>3. CASE Lookup(t)
    <3>1. CASE Fail(t)
      BY <3>1, FailIsEnd
    <3>2. CASE End(t, "done") /\ UNCHANGED <<db, due, tangled>>
      BY <1>2, <3>2 DEF Domains, MergeTypeOK, Open, End, Others, Ends, Leaves
    <3>3. CASE GoOn(t) /\ UNCHANGED <<db, own, status, read, due, tangled>>
      BY <1>2, <2>3, <3>3
         DEF Domains, MergeTypeOK, Open, Lookup, Doing, GoOn, Others, Checks, Continues
    <3>4. QED
      BY <2>3, <3>1, <3>2, <3>3 DEF Lookup
  <2>4. CASE Load(t)
    BY <1>2, <2>4 DEF Domains, MergeTypeOK, Open, Load, Doing, Others, Loads, Continues
  <2>5. CASE Select(t)
    BY <1>2, <2>5
       DEF Domains, MergeTypeOK, Open, Select, Doing, GoOn, Others, Selects, Continues
  <2>6. CASE Sum(t)
    BY <1>2, <2>6 DEF Domains, MergeTypeOK, Open, Sum, Doing, GoOn, Others, Sums, Continues
  <2>7. CASE Write(t)
    <3>1. CASE Violates(t)
      BY <2>7, <3>1, FailIsEnd DEF Write
    <3>2. CASE ~Violates(t)
      BY <1>2, <2>7, <3>2
         DEF Domains, MergeTypeOK, Open, Write, WriteOps, Doing, GoOn, Others, Writes, Continues
    <3>3. QED
      BY <3>1, <3>2
  <2>8. CASE Commit(t)
    BY <1>2, <2>8
       DEF Domains, MergeTypeOK, Open, Commit, Doing, End, Others, Commits, Leaves
  <2>9. QED
    BY <1>2, <2>1, <2>2, <2>3, <2>4, <2>5, <2>6, <2>7, <2>8 DEF Advance
<1>3. QED
  BY <1>1, <1>2 DEF MergeNext, Open
-----------------------------------------------------------------------------
(* Shapes.                                                                 *)

LEMMA MergeStatements ==
  ASSUME NEW p \in 1 .. 23
  PROVE  LET op == MergeOps[p]
             table == MergeTables[p]
         IN  /\ op \in {"validate", "repoint", "select", "upsert", "delete", "reown", "archive",
                        "commit"}
             /\ op = "validate" => \/ p = 1 /\ table = "source"
                                   \/ p = 2 /\ table = "target"
             /\ op = "select" => table \in Moved /\ FirstAt(table) = p + 1
             /\ op = "upsert" => table \in Moved /\ FirstAt(table) = p
             /\ op = "delete" => table \in Moved /\ LastAt(table) = p
             /\ op = "repoint" => table \in OwnerTables /\ FirstAt(table) = p
             /\ op = "reown" => table \in SimpleTables /\ FirstAt(table) = p
             /\ op = "archive" <=> p = 22
             /\ op = "commit" <=> p = 23
             /\ p = 3 => op = "repoint" /\ table = "identities"
             /\ p = 1 => op = "validate" /\ table = "source"
             /\ p = 2 => op = "validate" /\ table = "target"
<1>1. /\ MergeOps[p] \in {"validate", "repoint", "select", "upsert", "delete", "reown",
                           "archive", "commit"}
      /\ MergeOps[p] = "archive" <=> p = 22
      /\ MergeOps[p] = "commit" <=> p = 23
      /\ MergeOps[p] = "validate" <=> p \in {1, 2}
      /\ MergeOps[p] = "select" <=> p \in {4, 7, 15, 19}
      /\ MergeOps[p] = "upsert" <=> p \in {5, 8, 16, 20}
      /\ MergeOps[p] = "delete" <=> p \in {6, 9, 17, 21}
      /\ MergeOps[p] = "repoint" <=> p \in {3, 18}
      /\ MergeOps[p] = "reown" <=> p \in {10, 11, 12, 13, 14}
  BY DEF MergeOps
<1>2. /\ p = 1 => MergeTables[p] = "source"
      /\ p = 2 => MergeTables[p] = "target"
      /\ p = 3 => MergeTables[p] = "identities"
      /\ p \in {4, 5, 6} => MergeTables[p] = "xp_tracks"
      /\ p \in {7, 8, 9} => MergeTables[p] = "rule_state"
      /\ p = 10 => MergeTables[p] = "challenge_progress"
      /\ p = 11 => MergeTables[p] = "streak_state"
      /\ p = 12 => MergeTables[p] = "achievement_unlocks"
      /\ p = 13 => MergeTables[p] = "inventory_items"
      /\ p = 14 => MergeTables[p] = "user_variables"
      /\ p \in {15, 16, 17} => MergeTables[p] = "wallets"
      /\ p = 18 => MergeTables[p] = "ledger_entries"
      /\ p \in {19, 20, 21} => MergeTables[p] = "leaderboard_entries"
  BY DEF MergeTables
<1>3. /\ FirstAt("identities") = 3 /\ FirstAt("ledger_entries") = 18
      /\ FirstAt("xp_tracks") = 5 /\ LastAt("xp_tracks") = 6
      /\ FirstAt("rule_state") = 8 /\ LastAt("rule_state") = 9
      /\ FirstAt("wallets") = 16 /\ LastAt("wallets") = 17
      /\ FirstAt("leaderboard_entries") = 20 /\ LastAt("leaderboard_entries") = 21
      /\ FirstAt("challenge_progress") = 10 /\ FirstAt("streak_state") = 11
      /\ FirstAt("achievement_unlocks") = 12 /\ FirstAt("inventory_items") = 13
      /\ FirstAt("user_variables") = 14
  BY DEF Moved, FirstAt, LastAt
<1>4. MergeOps[p] = "select" =>
        MergeTables[p] \in Moved /\ FirstAt(MergeTables[p]) = p + 1
  BY <1>1, <1>2, <1>3 DEF Moved
<1>5. MergeOps[p] = "upsert" =>
        MergeTables[p] \in Moved /\ FirstAt(MergeTables[p]) = p
  BY <1>1, <1>2, <1>3 DEF Moved
<1>6. MergeOps[p] = "delete" =>
        MergeTables[p] \in Moved /\ LastAt(MergeTables[p]) = p
  BY <1>1, <1>2, <1>3 DEF Moved
<1>7. MergeOps[p] = "repoint" =>
        MergeTables[p] \in OwnerTables /\ FirstAt(MergeTables[p]) = p
  BY <1>1, <1>2, <1>3 DEF OwnerTables
<1>8. MergeOps[p] = "validate" => \/ p = 1 /\ MergeTables[p] = "source"
                                  \/ p = 2 /\ MergeTables[p] = "target"
  BY <1>1, <1>2
<1>9. MergeOps[p] = "reown" =>
        MergeTables[p] \in SimpleTables /\ FirstAt(MergeTables[p]) = p
  BY <1>1, <1>2, <1>3 DEF SimpleTables
<1>10. QED
  BY <1>1, <1>2, <1>4, <1>5, <1>6, <1>7, <1>8, <1>9

LEMMA LinkStatements ==
  ASSUME NEW p \in 1 .. 4
  PROVE  LET op == LinkOps[p] IN
         /\ op \in {"validate", "lookup", "link", "commit"}
         /\ op = "validate" <=> p = 1
         /\ op = "link" <=> p = 3
         /\ op = "commit" <=> p = 4
         /\ p = 1 => LinkTables[p] = "user"
BY DEF LinkOps, LinkTables

LEMMA SeenTyped ==
  ASSUME Shapes, NEW t \in Calls, NEW row \in Row
  PROVE  Seen(t, row) \in Values(row) \union {None}
BY DEF Shapes, MergeTypeOK, Seen

LEMMA MergeHead ==
  ASSUME Shapes, NEW t \in Open, Kind(t) = "merge"
  PROVE  /\ MergeShape(t) /\ MergeAt(t) \in 1 .. 23
         /\ Head(todo[t]).op = MergeOps[MergeAt(t)]
         /\ Head(todo[t]).of = MergeTables[MergeAt(t)]
         /\ Tail(todo[t]) = SubSeq(MergeAnonymous, MergeAt(t) + 1, 23)
         /\ Len(Tail(todo[t])) = 23 - MergeAt(t)
<1>1. MergeShape(t) /\ MergeFollows(t)
  BY DEF Shapes, Shape, MergeShape
<1>2. Head(todo[t]) = Statement(MergeOps[MergeAt(t)], MergeTables[MergeAt(t)])
  BY <1>1, MergeNextStatement
<1>3. /\ Head(todo[t]).op = MergeOps[MergeAt(t)]
      /\ Head(todo[t]).of = MergeTables[MergeAt(t)]
  BY <1>2 DEF Statement
<1>4. MergeAt(t) \in 1 .. 23
  BY <1>1 DEF MergeFollows
<1>5. /\ Tail(todo[t]) = SubSeq(MergeAnonymous, MergeAt(t) + 1, 23)
      /\ Len(Tail(todo[t])) = 23 - MergeAt(t)
  BY <1>1, MergeNextStatement
<1>6. QED
  BY <1>1, <1>3, <1>4, <1>5

LEMMA LinkHead ==
  ASSUME Shapes, NEW t \in Open, Kind(t) = "link"
  PROVE  /\ LinkShape(t) /\ LinkAt(t) \in 1 .. 4
         /\ Head(todo[t]).op = LinkOps[LinkAt(t)]
         /\ Head(todo[t]).of = LinkTables[LinkAt(t)]
         /\ Tail(todo[t]) = SubSeq(LinkIdentity, LinkAt(t) + 1, 4)
         /\ Len(Tail(todo[t])) = 4 - LinkAt(t)
<1>1. LinkShape(t) /\ LinkFollows(t)
  BY DEF Shapes, Shape, LinkShape
<1>2. Head(todo[t]) = Statement(LinkOps[LinkAt(t)], LinkTables[LinkAt(t)])
  BY <1>1, LinkNextStatement
<1>3. /\ Head(todo[t]).op = LinkOps[LinkAt(t)]
      /\ Head(todo[t]).of = LinkTables[LinkAt(t)]
  BY <1>2 DEF Statement
<1>4. LinkAt(t) \in 1 .. 4
  BY <1>1 DEF LinkFollows
<1>5. /\ Tail(todo[t]) = SubSeq(LinkIdentity, LinkAt(t) + 1, 4)
      /\ Len(Tail(todo[t])) = 4 - LinkAt(t)
  BY <1>1, LinkNextStatement
<1>6. QED
  BY <1>1, <1>3, <1>4, <1>5

\* What is merged has the type of what there was.
LEMMA MergedTyped ==
  ASSUME NEW row, row[1] \in Moved, NEW a \in Values(row), NEW b \in Values(row)
  PROVE  Merged(row[1], a, b) \in Values(row)
<1>1. CASE row[1] = "leaderboard_entries"
  <2>1. a \in Score /\ b \in Score /\ Values(row) = Score
    BY <1>1, ValueKinds
  <2>2. QED
    BY <1>1, <2>1 DEF Merged, Score
<1>2. CASE row[1] # "leaderboard_entries"
  <2>1. a \in Nat /\ b \in Nat /\ Values(row) = Nat
    BY <1>2, ValueKinds DEF StateTables, Moved, SimpleTables
  <2>2. QED
    BY <1>2, <2>1 DEF Merged, Moved
<1>3. QED
  BY <1>1, <1>2

\* The rows that a merge writes.
LEMMA MergeEffect ==
  ASSUME Shapes, NEW t \in Open, Kind(t) = "merge", Head(todo[t]).op \in WriteOps,
         NEW row \in DOMAIN Effect(t)
  PROVE  /\ row \in Row
         /\ Effect(t)[row] \in Values(row) \union {None}
         /\ MergeOwns(t, MergeAt(t) + 1, row, Effect(t)[row])
<1> DEFINE p == MergeAt(t)
           op == Head(todo[t]).op
           table == Head(todo[t]).of
<1>1. /\ MergeShape(t) /\ p \in 1 .. 23
      /\ op = MergeOps[p] /\ table = MergeTables[p]
  BY MergeHead
<1>2. t \in Calls /\ Source(t) \in Users /\ Target(t) \in Users /\ Source(t) # Target(t)
  BY CallKinds DEF Open
<1>3. CASE op = "upsert"
  <2>1. table \in Moved /\ FirstAt(table) = p
    BY <1>1, <1>3, MergeStatements
  <2>2. Effect(t) = Upserted(t)
    BY <1>3 DEF Effect
  <2>3. row \in DOMAIN read[t]
    BY <2>2 DEF Upserted
  <2>4. row \in RowsOf(table, Target(t)) /\ read[t][row] \in Values(row)
    BY <1>1, <2>1, <2>3 DEF MergeShape
  <2>5. row \in Row /\ row[1] = table /\ row[2] = Target(t)
    BY <1>2, <2>1, <2>4, RowsAreRows, RowNames DEF StateTables
  <2>6. Seen(t, row) \in Values(row) \union {None}
    BY <1>2, <2>5, SeenTyped
  <2>7. Effect(t)[row] \in Values(row)
    BY <2>1, <2>2, <2>3, <2>4, <2>5, <2>6, MergedTyped DEF Upserted
  <2>8. QED
    BY <1>1, <2>1, <2>5, <2>7, ValueKinds DEF MergeOwns, StateTables
<1>4. CASE op = "delete"
  <2>1. table \in Moved /\ LastAt(table) = p
    BY <1>1, <1>4, MergeStatements
  <2>2. row \in RowsOf(table, Source(t)) /\ Effect(t)[row] = None
    BY <1>4 DEF Effect, Deleted, Present
  <2>3. row \in Row /\ row[1] = table /\ row[2] = Source(t)
    BY <1>2, <2>1, <2>2, RowsAreRows, RowNames DEF StateTables
  <2>4. QED
    BY <1>1, <2>1, <2>2, <2>3 DEF MergeOwns, StateTables
<1>5. CASE op = "repoint"
  <2>1. table \in OwnerTables /\ FirstAt(table) = p
    BY <1>1, <1>5, MergeStatements
  <2>2. row \in Row /\ row[1] = table /\ Effect(t)[row] = Target(t)
    BY <1>5 DEF Effect, Repointed
  <2>3. QED
    BY <1>1, <1>2, <2>1, <2>2, ValueKinds DEF MergeOwns
<1>6. CASE op = "reown"
  <2>1. /\ table \in SimpleTables /\ table \in StateTables
        /\ FirstAt(table) = p /\ LastAt(table) = p
    <3>1. table \in SimpleTables /\ FirstAt(table) = p
      BY <1>1, <1>6, MergeStatements
    <3>2. QED
      BY <3>1 DEF LastAt, StateTables, SimpleTables, Moved
  <2> DEFINE from == Present(t, RowsOf(table, Source(t)))
             to == {OfTarget(t, r) : r \in from}
  <2>2. Effect(t) = Overlay([r \in from |-> None], [r \in to |-> 1])
    BY <1>6 DEF Effect, Reowned
  <2>3. \/ row \in from /\ Effect(t)[row] = None
        \/ row \in to /\ Effect(t)[row] = 1
    BY <2>2 DEF Overlay
  <2>4. CASE row \in from /\ Effect(t)[row] = None
    <3>1. row \in RowsOf(table, Source(t))
      BY <2>4 DEF Present
    <3>2. row \in Row /\ row[1] = table /\ row[2] = Source(t)
      BY <1>2, <2>1, <3>1, RowsAreRows, RowNames DEF StateTables
    <3>3. QED
      BY <1>1, <2>1, <2>4, <3>2 DEF MergeOwns
  <2>5. CASE row \in to /\ Effect(t)[row] = 1
    <3>1. row \in RowsOf(table, Target(t))
      BY <1>2, <2>5, Renamed DEF Present
    <3>2. row \in Row /\ row[1] = table /\ row[2] = Target(t)
      BY <1>2, <2>1, <3>1, RowsAreRows, RowNames DEF StateTables
    <3>3. Values(row) = Nat /\ None # 1
      BY <2>1, <3>2, ValueKinds, MergeAssumption DEF SimpleTables
    <3>4. QED
      BY <1>1, <2>1, <2>5, <3>2, <3>3 DEF MergeOwns
  <2>6. QED
    BY <2>3, <2>4, <2>5
<1>7. CASE op = "archive"
  <2>1. p = 22
    BY <1>1, <1>7, MergeStatements
  <2>2. row = UserRow(Source(t)) /\ Effect(t)[row] = Target(t)
    BY <1>7 DEF Effect
  <2>3. row \in Row /\ Values(row) = Users
    BY <1>2, <2>2, RowsAreRows, RowNames, ValueKinds
  <2>4. QED
    BY <1>2, <2>1, <2>2, <2>3 DEF MergeOwns
<1>8. QED
  BY <1>1, <1>3, <1>4, <1>5, <1>6, <1>7, MergeStatements DEF WriteOps
-----------------------------------------------------------------------------
(* The statements of an event.                                             *)

\* The rows of an event's actor.
LEMMA ActorRows ==
  ASSUME NEW t \in Calls, Kind(t) = "event"
  PROVE  /\ t \in Events /\ Actor(t) \in Users /\ Call[t].track \in Tracks
         /\ XPRow(t) \in Row /\ XPRow(t)[1] = "xp_tracks" /\ XPRow(t)[2] = Actor(t)
         /\ EntryRow(t) \in Row /\ EntryRow(t)[1] = "ledger_entries"
         /\ WalletRow(t) \in Row /\ WalletRow(t)[1] = "wallets" /\ WalletRow(t)[2] = Actor(t)
         /\ BoardRow(t) \in Row /\ BoardRow(t)[1] = "leaderboard_entries"
         /\ BoardRow(t)[2] = Actor(t)
         /\ RuleRow(t) \in Row /\ RuleRow(t)[1] = "rule_state" /\ RuleRow(t)[2] = Actor(t)
<1>1. t \in Events /\ Actor(t) \in Users /\ Call[t].track \in Tracks
  BY CallKinds
<1>2. /\ XPRow(t) \in RowsOf("xp_tracks", Actor(t))
      /\ WalletRow(t) \in RowsOf("wallets", Actor(t))
      /\ BoardRow(t) \in RowsOf("leaderboard_entries", Actor(t))
      /\ RuleRow(t) \in RowsOf("rule_state", Actor(t))
  BY <1>1 DEF XPRow, WalletRow, BoardRow, RuleRow, RowsOf, SimpleTables
<1>3. QED
  BY <1>1, <1>2, RowsAreRows, RowNames DEF StateTables, Moved

LEMMA ActorKeys ==
  ASSUME NEW t \in Calls, Kind(t) = "event"
  PROVE  /\ \A row \in Unlocked(t) : row \in RowsOf("achievement_unlocks", Actor(t))
         /\ \A row \in Granted(t) : row \in RowsOf("inventory_items", Actor(t))
         /\ \A row \in TouchedRows(t) :
              row[1] \in Touchable /\ row \in RowsOf(row[1], Actor(t))
         /\ \A row \in Unlocked(t) \union Granted(t) :
              /\ row \in Row /\ row[2] = Actor(t)
              /\ row[1] \in {"achievement_unlocks", "inventory_items"}
         /\ IsFiniteSet(Unlocked(t)) /\ IsFiniteSet(Granted(t))
<1>1. /\ Actor(t) \in Users /\ Call[t].unlocks \subseteq StateKeys /\ Call[t].items \subseteq StateKeys
      /\ Call[t].touched \subseteq Touchable \X StateKeys
  BY CallKinds
<1>2. \A table \in SimpleTables : RowsOf(table, Actor(t)) = {<<table, Actor(t), k>> : k \in StateKeys}
  BY DEF RowsOf, SimpleTables
<1>3. /\ "achievement_unlocks" \in SimpleTables /\ "inventory_items" \in SimpleTables
      /\ Touchable \subseteq SimpleTables /\ SimpleTables \subseteq StateTables
  BY DEF SimpleTables, Touchable, StateTables
<1>4. /\ \A row \in Unlocked(t) : row \in RowsOf("achievement_unlocks", Actor(t))
      /\ \A row \in Granted(t) : row \in RowsOf("inventory_items", Actor(t))
  BY <1>1, <1>2, <1>3 DEF Unlocked, Granted
<1>5. ASSUME NEW row \in TouchedRows(t)
      PROVE  row[1] \in Touchable /\ row \in RowsOf(row[1], Actor(t))
  <2>1. PICK p \in Call[t].touched : row = <<p[1], Actor(t), p[2]>>
    BY DEF TouchedRows
  <2>2. p[1] \in Touchable /\ p[2] \in StateKeys
    BY <1>1
  <2>3. row[1] = p[1]
    BY <2>1
  <2>4. QED
    BY <1>2, <1>3, <2>1, <2>2, <2>3
<1>6. \A row \in Unlocked(t) \union Granted(t) :
        /\ row \in Row /\ row[2] = Actor(t)
        /\ row[1] \in {"achievement_unlocks", "inventory_items"}
  BY <1>1, <1>3, <1>4, RowsAreRows, RowNames
<1>7. IsFiniteSet(Unlocked(t)) /\ IsFiniteSet(Granted(t))
  <2> DEFINE f == [k \in Call[t].unlocks |-> <<"achievement_unlocks", Actor(t), k>>]
             g == [k \in Call[t].items |-> <<"inventory_items", Actor(t), k>>]
  <2>1. f \in Surjection(Call[t].unlocks, Unlocked(t))
    BY DEF Surjection, Unlocked
  <2>2. g \in Surjection(Call[t].items, Granted(t))
    BY DEF Surjection, Granted
  <2>3. IsFiniteSet(Call[t].unlocks) /\ IsFiniteSet(Call[t].items)
    BY <1>1, MergeAssumption, FS_Subset
  <2> HIDE DEF f, g
  <2>4. QED
    BY <2>1, <2>2, <2>3, FS_Surjection
<1>8. QED
  BY <1>4, <1>5, <1>6, <1>7

LEMMA PhasesOf ==
  /\ \A row : /\ Phase(Statement("ensure", row)) = 1
              /\ Phase(Statement("entry", row)) = 1
              /\ Phase(Statement("sum", row)) = 1
              /\ Phase(Statement("grant", row)) = 1
              /\ Phase(Statement("raise", row)) = 1
              /\ Phase(Statement("keep", row)) = 6
  /\ \A row : row[1] = "wallets" => Phase(Statement("write", row)) = 1
  /\ \A row : row[1] = "xp_tracks" => Phase(Statement("write", row)) = 2
  /\ \A row : row[1] = "rule_state" => Phase(Statement("write", row)) = 3
  /\ \A row : row[1] = "challenge_progress" => Phase(Statement("write", row)) = 4
  /\ \A row : row[1] = "streak_state" => Phase(Statement("write", row)) = 5
  /\ \A row : row[1] = "leaderboard_entries" => Phase(Statement("write", row)) = 7
  /\ \A row : row[1] = "user_variables" => Phase(Statement("write", row)) = 8
  /\ Phase(Statement("commit", "users")) = 9
  /\ \A s : Phase(s) \in 1 .. 9
BY DEF Phase, Statement

\* The rows that persistState writes, by their tables.
LEMMA PhasesOfTables ==
  ASSUME NEW row, row[1] \in Persisted
  PROVE  /\ Phase(Persist(row)) =
              CASE row[1] = "xp_tracks" -> 2
                [] row[1] = "rule_state" -> 3
                [] row[1] = "challenge_progress" -> 4
                [] row[1] = "streak_state" -> 5
                [] row[1] = "achievement_unlocks" -> 6
                [] row[1] = "leaderboard_entries" -> 7
                [] OTHER -> 8
         /\ Phase(Persist(row)) \in 2 .. 8
         /\ row[1] = "rule_state" => Persist(row) = Statement("write", row)
         /\ Persist(row).of = row /\ Persist(row).op \in {"write", "keep"}
         /\ Persist(row).op = "keep" <=> row[1] = "achievement_unlocks"
<1>1. row[1] \in {"xp_tracks", "rule_state", "challenge_progress", "streak_state",
                 "achievement_unlocks", "leaderboard_entries", "user_variables"}
  BY DEF Persisted, StateOfActor
<1>2. CASE row[1] = "achievement_unlocks"
  <2>1. Persist(row) = Statement("keep", row)
    BY <1>2 DEF Persist
  <2>2. QED
    BY <1>2, <2>1, PhasesOf DEF Statement
<1>3. CASE row[1] # "achievement_unlocks"
  <2>1. Persist(row) = Statement("write", row)
    BY <1>3 DEF Persist
  <2>2. QED
    BY <1>1, <1>3, <2>1, PhasesOf DEF Statement
<1>4. QED
  BY <1>2, <1>3

\* The statements of the commands.
LEMMA CommandForms ==
  ASSUME NEW t, NEW s \in CommandStatements(t)
  PROVE  /\ \/ Call[t].xp > 0 /\ s \in Earned(t)
            \/ \E row \in Unlocked(t) : s = Statement("ensure", row)
            \/ \E row \in Granted(t) : s = Statement("grant", row)
            \/ Call[t].points > 0 /\ s = Statement("raise", BoardRow(t))
         /\ Phase(s) = 1
<1>1. \/ Call[t].xp > 0 /\ s \in Earned(t)
      \/ \E row \in Unlocked(t) : s = Statement("ensure", row)
      \/ \E row \in Granted(t) : s = Statement("grant", row)
      \/ Call[t].points > 0 /\ s = Statement("raise", BoardRow(t))
  BY DEF CommandStatements, Earned
<1>2. WalletRow(t)[1] = "wallets"
  BY DEF WalletRow
<1>3. QED
  BY <1>1, <1>2, PhasesOf DEF Earned

\* A list of different things that are ordered by their rank.
OrderedBy(s, rank) ==
  \A i, j \in DOMAIN s : i < j => s[i] # s[j] /\ rank[s[i]] <= rank[s[j]]

LEMMA Joined ==
  ASSUME NEW S, NEW a \in Seq(S), NEW b \in Seq(S)
  PROVE  /\ a \o b \in Seq(S)
         /\ Len(a \o b) = Len(a) + Len(b)
         /\ \A i \in 1 .. Len(a) : (a \o b)[i] = a[i]
         /\ \A i \in 1 .. Len(a) + Len(b) : i > Len(a) => (a \o b)[i] = b[i - Len(a)]
OBVIOUS

LEMMA JoinedElements ==
  ASSUME NEW S, NEW a \in Seq(S), NEW b \in Seq(S)
  PROVE  Elements(a \o b) = Elements(a) \union Elements(b)
<1>1. /\ a \o b \in Seq(S)
      /\ Len(a \o b) = Len(a) + Len(b)
      /\ \A i \in 1 .. Len(a) : (a \o b)[i] = a[i]
      /\ \A i \in 1 .. Len(a) + Len(b) : i > Len(a) => (a \o b)[i] = b[i - Len(a)]
  BY Joined, Zenon
<1>2. /\ DOMAIN a = 1 .. Len(a) /\ DOMAIN b = 1 .. Len(b) /\ Len(a) \in Nat /\ Len(b) \in Nat
      /\ DOMAIN (a \o b) = 1 .. Len(a) + Len(b)
  BY <1>1
<1> DEFINE c == a \o b
<1> HIDE DEF c
<1>3. ASSUME NEW i \in DOMAIN c PROVE c[i] \in Elements(a) \union Elements(b)
  <2>1. CASE i <= Len(a)
    <3>1. i \in DOMAIN a /\ c[i] = a[i]
      BY <1>1, <1>2, <1>3, <2>1 DEF c
    <3>2. QED
      BY <3>1 DEF Elements
  <2>2. CASE i > Len(a)
    <3>1. i - Len(a) \in DOMAIN b /\ c[i] = b[i - Len(a)]
      BY <1>1, <1>2, <1>3, <2>2 DEF c
    <3>2. QED
      BY <3>1 DEF Elements
  <2>3. QED
    BY <1>2, <1>3, <2>1, <2>2 DEF c
<1>4. ASSUME NEW i \in DOMAIN a PROVE a[i] \in Elements(c)
  <2>1. i \in DOMAIN c /\ c[i] = a[i]
    BY <1>1, <1>2, <1>4 DEF c
  <2>2. QED
    BY <2>1 DEF Elements
<1>5. ASSUME NEW i \in DOMAIN b PROVE b[i] \in Elements(c)
  <2>1. /\ i + Len(a) \in 1 .. Len(a) + Len(b) /\ i + Len(a) > Len(a)
        /\ (i + Len(a)) - Len(a) = i
    BY <1>2, <1>5
  <2>2. i + Len(a) \in DOMAIN c /\ c[i + Len(a)] = b[i]
    BY <1>1, <1>2, <2>1 DEF c
  <2>3. QED
    BY <2>2 DEF Elements
<1>6. Elements(c) = Elements(a) \union Elements(b)
  <2>1. Elements(c) \subseteq Elements(a) \union Elements(b)
    BY <1>3 DEF Elements
  <2>2. Elements(a) \subseteq Elements(c)
    BY <1>4 DEF Elements
  <2>3. Elements(b) \subseteq Elements(c)
    BY <1>5 DEF Elements
  <2>4. QED
    BY <2>1, <2>2, <2>3
<1>7. QED
  BY <1>6 DEF c

LEMMA JoinedInOrder ==
  ASSUME NEW S, NEW a \in Seq(S), NEW b \in Seq(S), NEW rank \in [S -> Nat],
         OrderedBy(a, rank), OrderedBy(b, rank),
         \A x \in Elements(a), y \in Elements(b) : rank[x] < rank[y]
  PROVE  OrderedBy(a \o b, rank)
<1>1. /\ a \o b \in Seq(S)
      /\ Len(a \o b) = Len(a) + Len(b)
      /\ \A i \in 1 .. Len(a) : (a \o b)[i] = a[i]
      /\ \A i \in 1 .. Len(a) + Len(b) : i > Len(a) => (a \o b)[i] = b[i - Len(a)]
  BY Joined, Zenon
<1>2. /\ DOMAIN a = 1 .. Len(a) /\ DOMAIN b = 1 .. Len(b) /\ Len(a) \in Nat /\ Len(b) \in Nat
      /\ DOMAIN (a \o b) = 1 .. Len(a) + Len(b)
  BY <1>1
<1> DEFINE c == a \o b
<1> HIDE DEF c
<1>3. SUFFICES \A i, j \in DOMAIN c : i < j => c[i] # c[j] /\ rank[c[i]] <= rank[c[j]]
  BY Zenon DEF OrderedBy, c
<1> SUFFICES ASSUME NEW i \in DOMAIN c, NEW j \in DOMAIN c, i < j
             PROVE  c[i] # c[j] /\ rank[c[i]] <= rank[c[j]]
  OBVIOUS
<1>4. i \in 1 .. Len(a) + Len(b) /\ j \in 1 .. Len(a) + Len(b)
  BY <1>2, <1>3 DEF c
<1>5. CASE j <= Len(a)
  <2>1. i \in DOMAIN a /\ j \in DOMAIN a /\ c[i] = a[i] /\ c[j] = a[j]
    BY <1>1, <1>2, <1>3, <1>4, <1>5 DEF c
  <2>2. QED
    BY <1>3, <2>1 DEF OrderedBy
<1>6. CASE i > Len(a)
  <2>1. /\ i - Len(a) \in DOMAIN b /\ j - Len(a) \in DOMAIN b /\ i - Len(a) < j - Len(a)
        /\ c[i] = b[i - Len(a)] /\ c[j] = b[j - Len(a)]
    BY <1>1, <1>2, <1>3, <1>4, <1>6 DEF c
  <2>2. QED
    BY <2>1 DEF OrderedBy
<1>7. CASE i <= Len(a) /\ j > Len(a)
  <2>1. i \in DOMAIN a /\ j - Len(a) \in DOMAIN b /\ c[i] = a[i] /\ c[j] = b[j - Len(a)]
    BY <1>1, <1>2, <1>3, <1>4, <1>7 DEF c
  <2>2. c[i] \in Elements(a) /\ c[j] \in Elements(b) /\ c[i] \in S /\ c[j] \in S
    BY <2>1 DEF Elements
  <2>3. rank[c[i]] < rank[c[j]] /\ rank[c[i]] \in Nat /\ rank[c[j]] \in Nat
    BY <2>2
  <2> DEFINE m == rank[c[i]]
             n == rank[c[j]]
  <2>4. m # n /\ m <= n
    <3>1. m < n /\ m \in Nat /\ n \in Nat
      BY <2>3
    <3> HIDE DEF m, n
    <3>2. QED
      BY <3>1
  <2>5. QED
    BY <2>4
<1>8. QED
  BY <1>2, <1>4, <1>5, <1>6, <1>7

\* What SetToSeqs promises.
LEMMA InSomeOrder ==
  ASSUME NEW S, IsFiniteSet(S), NEW order \in SetToSeqs(S)
  PROVE  /\ order \in Seq(S) /\ Elements(order) = S
         /\ \A i, j \in DOMAIN order : i # j => order[i] # order[j]
<1> DEFINE D == 1 .. Cardinality(S)
<1>1. /\ order \in [D -> S]
      /\ \A i, j \in D : i # j => order[i] # order[j]
  BY DEF SetToSeqs
<1>2. Cardinality(S) \in Nat
  BY FS_CardinalityType
<1>3. IsFiniteSet(D) /\ Cardinality(D) = Cardinality(S)
  BY <1>2, FS_Interval
<1>4. order \in Injection(D, S)
  BY <1>1 DEF Injection, IsInjective
<1>5. order \in Surjection(D, S)
  BY <1>3, <1>4, FS_Injection
<1>6. \A x \in S : \E i \in D : order[i] = x
  BY <1>5 DEF Surjection
<1>7. order \in Seq(S)
  BY <1>1, <1>2
<1>8. Elements(order) = S
  BY <1>1, <1>6 DEF Elements
<1>9. QED
  BY <1>1, <1>7, <1>8

\* The rows of a user in a table.
LEMMA FewRows ==
  ASSUME NEW table \in Persisted, NEW u
  PROVE  IsFiniteSet(RowsOf(table, u))
<1> DEFINE T == RowsOf(table, u)
<1>1. CASE table = "xp_tracks"
  <2> DEFINE f == [k \in Tracks |-> <<table, u, k>>]
  <2>1. T = {<<table, u, k>> : k \in Tracks}
    BY <1>1 DEF RowsOf, SimpleTables
  <2> HIDE DEF T
  <2>2. f \in Surjection(Tracks, T)
    BY <2>1 DEF Surjection
  <2> HIDE DEF f
  <2>3. IsFiniteSet(T)
    BY <2>2, MergeAssumption, FS_Surjection
  <2>4. QED
    BY <2>3 DEF T
<1>2. CASE table \in SimpleTables
  <2> DEFINE f == [k \in StateKeys |-> <<table, u, k>>]
  <2>1. T = {<<table, u, k>> : k \in StateKeys}
    BY <1>2 DEF RowsOf, SimpleTables
  <2> HIDE DEF T
  <2>2. f \in Surjection(StateKeys, T)
    BY <2>1 DEF Surjection
  <2> HIDE DEF f
  <2>3. IsFiniteSet(T)
    BY <2>2, MergeAssumption, FS_Surjection
  <2>4. QED
    BY <2>3 DEF T
<1>3. CASE table # "xp_tracks" /\ table \notin SimpleTables
  <2>1. T = {<<table, u>>}
    BY <1>3 DEF RowsOf
  <2>2. QED
    BY <2>1, FS_Singleton
<1>4. QED
  BY <1>1, <1>2, <1>3

\* The rows that the engine returns.
LEMMA ProjectedRows ==
  ASSUME NEW t \in Calls, Kind(t) = "event"
  PROVE  \A row \in Projected(t) :
           /\ row \in Row /\ row[1] \in Persisted /\ row[2] = Actor(t)
           /\ row \in RowsOf(row[1], Actor(t))
<1>1. Actor(t) \in Users /\ Persisted \subseteq StateTables
  BY CallKinds
  DEF Persisted, StateOfActor, StateTables, Moved, SimpleTables
<1>2. SUFFICES ASSUME NEW row \in Projected(t)
               PROVE  row[1] \in Persisted /\ row \in RowsOf(row[1], Actor(t))
  BY <1>1, RowsAreRows, RowNames
<1> DEFINE u == Actor(t)
<1>3. \/ \E table \in StateOfActor : row \in RowsOf(table, u)
      \/ row \in {RuleRow(t), XPRow(t), BoardRow(t)}
      \/ row \in Unlocked(t) \/ row \in TouchedRows(t)
  <2>1. \/ row \in Present(t, UNION {RowsOf(table, u) : table \in StateOfActor})
        \/ row \in {RuleRow(t), XPRow(t), BoardRow(t)}
        \/ row \in Unlocked(t) \/ row \in TouchedRows(t)
    BY DEF Projected
  <2>2. QED
    BY <2>1 DEF Present
<1>4. CASE \E table \in StateOfActor : row \in RowsOf(table, u)
  BY <1>4, RowNames DEF Persisted
<1>5. CASE row \in {RuleRow(t), XPRow(t), BoardRow(t)}
  <2>1. /\ RuleRow(t) \in RowsOf("rule_state", u) /\ XPRow(t) \in RowsOf("xp_tracks", u)
        /\ BoardRow(t) \in RowsOf("leaderboard_entries", u)
    BY CallKinds DEF XPRow, RuleRow, BoardRow, RowsOf, SimpleTables
  <2>2. QED
    BY <1>5, <2>1, RowNames DEF Persisted, StateOfActor
<1>6. CASE row \in Unlocked(t)
  <2>1. row \in RowsOf("achievement_unlocks", u)
    BY <1>6, ActorKeys
  <2>2. QED
    BY <2>1, RowNames DEF Persisted, StateOfActor
<1>7. CASE row \in TouchedRows(t)
  <2>1. row[1] \in Touchable /\ row \in RowsOf(row[1], u)
    BY <1>7, ActorKeys
  <2>2. QED
    BY <2>1 DEF Persisted, StateOfActor, Touchable
<1>8. QED
  BY <1>3, <1>4, <1>5, <1>6, <1>7

\* A list of the rows E, in the order of their phases.
PhaseOfRow == [row \in Row |-> Phase(Persist(row))]
Listed(s, E) == s \in Seq(Row) /\ Elements(s) = E /\ OrderedBy(s, PhaseOfRow)

LEMMA ThenListed ==
  ASSUME NEW A, NEW B, NEW E \in SUBSET Row, NEW F \in SUBSET Row,
         \A a \in A : Listed(a, E), \A b \in B : Listed(b, F),
         \A x \in E, y \in F : PhaseOfRow[x] < PhaseOfRow[y]
  PROVE  \A c \in Then(A, B) : Listed(c, E \union F)
<1> SUFFICES ASSUME NEW c \in Then(A, B) PROVE Listed(c, E \union F)
  OBVIOUS
<1>1. PICK a \in A, b \in B : c = a \o b
  BY DEF Then
<1>2. Listed(a, E) /\ Listed(b, F)
  BY <1>1
<1>3. /\ a \in Seq(Row) /\ Elements(a) = E /\ OrderedBy(a, PhaseOfRow)
      /\ b \in Seq(Row) /\ Elements(b) = F /\ OrderedBy(b, PhaseOfRow)
  BY <1>2 DEF Listed
<1>4. PhaseOfRow \in [Row -> Nat]
  BY PhasesOf DEF PhaseOfRow
<1>5. a \o b \in Seq(Row) /\ Elements(a \o b) = E \union F
  BY <1>3, JoinedElements
<1>6. OrderedBy(a \o b, PhaseOfRow)
  BY <1>3, <1>4, JoinedInOrder
<1>7. QED
  BY <1>1, <1>5, <1>6 DEF Listed

\* The rows of a table that the engine returned.
Only(t, table) == {row \in Projected(t) : row[1] = table}

LEMMA ReturnedRows ==
  ASSUME NEW t \in Calls, Kind(t) = "event", NEW table \in Persisted
  PROVE  /\ \A rows \in Returned(t, table) : Listed(rows, Only(t, table))
         /\ Only(t, table) \in SUBSET Row
         /\ \A row \in Only(t, table) : PhaseOfRow[row] =
              CASE table = "xp_tracks" -> 2
                [] table = "rule_state" -> 3
                [] table = "challenge_progress" -> 4
                [] table = "streak_state" -> 5
                [] table = "achievement_unlocks" -> 6
                [] table = "leaderboard_entries" -> 7
                [] OTHER -> 8
<1> DEFINE S == Only(t, table)
           n == CASE table = "xp_tracks" -> 2
                  [] table = "rule_state" -> 3
                  [] table = "challenge_progress" -> 4
                  [] table = "streak_state" -> 5
                  [] table = "achievement_unlocks" -> 6
                  [] table = "leaderboard_entries" -> 7
                  [] OTHER -> 8
<1>1. \A row \in S : row \in Row /\ row[1] = table /\ row \in RowsOf(table, Actor(t))
  BY ProjectedRows DEF Only
<1>2. IsFiniteSet(S)
  <2>1. S \in SUBSET RowsOf(table, Actor(t))
    BY <1>1
  <2> HIDE DEF S
  <2>2. QED
    BY <2>1, FewRows, FS_Subset
<1>3. \A row \in S : PhaseOfRow[row] = n
  BY <1>1, PhasesOfTables DEF PhaseOfRow
<1>4. ASSUME NEW rows \in Returned(t, table) PROVE Listed(rows, S)
  <2>1. rows \in SetToSeqs(S)
    BY DEF Returned, Only
  <2> HIDE DEF S, n
  <2>2. /\ rows \in Seq(S) /\ Elements(rows) = S
        /\ \A i, j \in DOMAIN rows : i # j => rows[i] # rows[j]
    BY <1>2, <2>1, InSomeOrder
  <2>3. S \subseteq Row
    BY <1>1
  <2>4. rows \in Seq(Row)
    BY <2>2, <2>3
  <2>5. \A i \in DOMAIN rows : rows[i] \in S /\ i \in Int
    BY <2>2
  <2>6. \A i \in DOMAIN rows : PhaseOfRow[rows[i]] = n
    BY <1>3, <2>5
  <2>7. n \in Nat
    BY DEF n
  <2>8. OrderedBy(rows, PhaseOfRow)
    <3>1. SUFFICES ASSUME NEW i \in DOMAIN rows, NEW j \in DOMAIN rows, i < j
                   PROVE  rows[i] # rows[j] /\ PhaseOfRow[rows[i]] <= PhaseOfRow[rows[j]]
      BY DEF OrderedBy
    <3>2. i # j
      BY <2>5, <3>1
    <3>3. PhaseOfRow[rows[i]] <= PhaseOfRow[rows[j]]
      BY <2>6, <2>7
    <3>4. QED
      BY <2>2, <3>2, <3>3
  <2>9. QED
    BY <2>2, <2>4, <2>8 DEF Listed
<1>5. QED
  BY <1>1, <1>3, <1>4

\* persistState writes the rows in the order of their tables.
LEMMA PersistedRows ==
  ASSUME NEW t \in Calls, Kind(t) = "event", NEW rows \in PersistState(t)
  PROVE  Listed(rows, Projected(t))
<1> DEFINE O(table) == Only(t, table)
           In(table) == Returned(t, table)
           E6 == O("leaderboard_entries") \union O("user_variables")
           E5 == O("achievement_unlocks") \union E6
           E4 == O("streak_state") \union E5
           E3 == O("challenge_progress") \union E4
           E2 == O("rule_state") \union E3
           E1 == O("xp_tracks") \union E2
           L6 == Then(In("leaderboard_entries"), In("user_variables"))
           L5 == Then(In("achievement_unlocks"), L6)
           L4 == Then(In("streak_state"), L5)
           L3 == Then(In("challenge_progress"), L4)
           L2 == Then(In("rule_state"), L3)
           L1 == Then(In("xp_tracks"), L2)
<1>1. \A table \in Persisted : /\ \A r \in In(table) : Listed(r, O(table))
                               /\ O(table) \in SUBSET Row
  BY ReturnedRows
<1>2. {"xp_tracks", "rule_state", "challenge_progress", "streak_state",
       "achievement_unlocks", "leaderboard_entries", "user_variables"} = Persisted
  BY DEF Persisted, StateOfActor
<1>3. /\ \A row \in O("xp_tracks") : PhaseOfRow[row] = 2
      /\ \A row \in O("rule_state") : PhaseOfRow[row] = 3
      /\ \A row \in O("challenge_progress") : PhaseOfRow[row] = 4
      /\ \A row \in O("streak_state") : PhaseOfRow[row] = 5
      /\ \A row \in O("achievement_unlocks") : PhaseOfRow[row] = 6
      /\ \A row \in O("leaderboard_entries") : PhaseOfRow[row] = 7
      /\ \A row \in O("user_variables") : PhaseOfRow[row] = 8
  BY <1>2, ReturnedRows
<1>4. rows \in L1
  BY DEF PersistState
<1>5. E1 = Projected(t)
  <2>1. \A row \in Projected(t) : row[1] \in Persisted
    BY ProjectedRows
  <2>2. QED
    BY <1>2, <2>1 DEF Only
<1>6. /\ "xp_tracks" \in Persisted /\ "rule_state" \in Persisted
      /\ "challenge_progress" \in Persisted /\ "streak_state" \in Persisted
      /\ "achievement_unlocks" \in Persisted /\ "leaderboard_entries" \in Persisted
      /\ "user_variables" \in Persisted
  BY <1>2
<1> HIDE DEF O, In, E1, E2, E3, E4, E5, E6, L1, L2, L3, L4, L5, L6
<1>7. \A r \in L6 : Listed(r, E6)
  <2>1. \A x \in O("leaderboard_entries"), y \in O("user_variables") :
          PhaseOfRow[x] < PhaseOfRow[y]
    BY <1>3
  <2>2. QED
    BY <1>1, <1>6, <2>1, ThenListed DEF L6, E6
<1>8. /\ E6 \in SUBSET Row /\ \A y \in E6 : PhaseOfRow[y] \in {7, 8}
  BY <1>1, <1>3, <1>6 DEF E6
<1>9. \A r \in L5 : Listed(r, E5)
  <2>1. \A x \in O("achievement_unlocks"), y \in E6 : PhaseOfRow[x] < PhaseOfRow[y]
    BY <1>3, <1>8
  <2>2. QED
    BY <1>1, <1>6, <1>7, <1>8, <2>1, ThenListed DEF L5, E5
<1>10. /\ E5 \in SUBSET Row /\ \A y \in E5 : PhaseOfRow[y] \in {6, 7, 8}
  BY <1>1, <1>3, <1>6, <1>8 DEF E5
<1>11. \A r \in L4 : Listed(r, E4)
  <2>1. \A x \in O("streak_state"), y \in E5 : PhaseOfRow[x] < PhaseOfRow[y]
    BY <1>3, <1>10
  <2>2. QED
    BY <1>1, <1>6, <1>9, <1>10, <2>1, ThenListed DEF L4, E4
<1>12. /\ E4 \in SUBSET Row /\ \A y \in E4 : PhaseOfRow[y] \in {5, 6, 7, 8}
  BY <1>1, <1>3, <1>6, <1>10 DEF E4
<1>13. \A r \in L3 : Listed(r, E3)
  <2>1. \A x \in O("challenge_progress"), y \in E4 : PhaseOfRow[x] < PhaseOfRow[y]
    BY <1>3, <1>12
  <2>2. QED
    BY <1>1, <1>6, <1>11, <1>12, <2>1, ThenListed DEF L3, E3
<1>14. /\ E3 \in SUBSET Row /\ \A y \in E3 : PhaseOfRow[y] \in {4, 5, 6, 7, 8}
  BY <1>1, <1>3, <1>6, <1>12 DEF E3
<1>15. \A r \in L2 : Listed(r, E2)
  <2>1. \A x \in O("rule_state"), y \in E3 : PhaseOfRow[x] < PhaseOfRow[y]
    BY <1>3, <1>14
  <2>2. QED
    BY <1>1, <1>6, <1>13, <1>14, <2>1, ThenListed DEF L2, E2
<1>16. /\ E2 \in SUBSET Row /\ \A y \in E2 : PhaseOfRow[y] \in {3, 4, 5, 6, 7, 8}
  BY <1>1, <1>3, <1>6, <1>14 DEF E2
<1>17. \A r \in L1 : Listed(r, E1)
  <2>1. \A x \in O("xp_tracks"), y \in E2 : PhaseOfRow[x] < PhaseOfRow[y]
    BY <1>3, <1>16
  <2>2. QED
    BY <1>1, <1>6, <1>15, <1>16, <2>1, ThenListed DEF L1, E1
<1>18. QED
  BY <1>4, <1>5, <1>17

Things == Row \union {"users"}
Ops == {"ensure", "entry", "sum", "write", "grant", "raise", "keep", "commit"}
Statements == [op : Ops, of : Things]

LEMMA StatementTyped ==
  /\ \A row \in Row, op \in Ops : Statement(op, row) \in Statements
  /\ \A row \in Row : Persist(row) \in Statements
  /\ Statement("commit", "users") \in Statements
<1>1. \A x \in Things, op \in Ops : Statement(op, x) \in Statements
  BY DEF Statement, Statements
<1>2. \A row \in Row, op \in Ops : Statement(op, row) \in Statements
  BY <1>1 DEF Things
<1>3. \A row \in Row : Persist(row) \in Statements
  BY <1>2 DEF Persist, Ops
<1>4. "users" \in Things /\ "commit" \in Ops
  BY DEF Things, Ops
<1>5. QED
  BY <1>1, <1>2, <1>3, <1>4

\* The writes of the rows, in the order of their phases.
LEMMA Mapped ==
  ASSUME NEW E, NEW rows, Listed(rows, E)
  PROVE  LET q == [i \in DOMAIN rows |-> Persist(rows[i])] IN
         /\ q \in Seq(Statements)
         /\ Elements(q) = {Persist(row) : row \in E}
         /\ InOrder(q)
<1> DEFINE S == Statements
           q == [i \in DOMAIN rows |-> Persist(rows[i])]
<1>1. rows \in Seq(Row) /\ Elements(rows) = E /\ OrderedBy(rows, PhaseOfRow)
  BY DEF Listed
<1>2. /\ DOMAIN rows = 1 .. Len(rows) /\ Len(rows) \in Nat
      /\ \A i \in DOMAIN rows : rows[i] \in Row
  BY <1>1
<1>3. /\ DOMAIN q = DOMAIN rows
      /\ \A i \in DOMAIN rows : q[i] = Persist(rows[i]) /\ q[i] \in S
  <2>1. \A row \in Row : Persist(row) \in S
    BY StatementTyped
  <2> HIDE DEF S
  <2>2. QED
    BY <1>2, <2>1
<1>4. q \in Seq(S)
  <2> HIDE DEF S
  <2>1. q \in [1 .. Len(rows) -> S]
    BY <1>2, <1>3
  <2>2. QED
    BY <1>2, <2>1
<1>5. Elements(q) = {Persist(row) : row \in E}
  BY <1>1, <1>3 DEF Elements
<1>6. InOrder(q)
  <2>1. SUFFICES ASSUME NEW i \in DOMAIN rows, NEW j \in DOMAIN rows, i < j
                 PROVE  q[i] # q[j] /\ Phase(q[i]) <= Phase(q[j])
    BY <1>3 DEF InOrder
  <2>2. Phase(q[i]) = PhaseOfRow[rows[i]] /\ Phase(q[j]) = PhaseOfRow[rows[j]]
    BY <1>2, <1>3 DEF PhaseOfRow
  <2>3. q[i] = q[j] => rows[i] = rows[j]
    <3>1. \A row : Persist(row).of = row
      BY DEF Persist, Statement
    <3>2. QED
      BY <1>3, <3>1
  <2>4. rows[i] # rows[j] /\ PhaseOfRow[rows[i]] <= PhaseOfRow[rows[j]]
    BY <1>1, <2>1 DEF OrderedBy
  <2>5. QED
    BY <2>2, <2>3, <2>4
<1>7. QED
  BY <1>4, <1>5, <1>6

\* The commands, in some order.
LEMMA CommandsListed ==
  ASSUME NEW t \in Calls, Kind(t) = "event", NEW commands \in Commands(t)
  PROVE  /\ commands \in Seq(Statements) /\ Elements(commands) = CommandStatements(t)
         /\ InOrder(commands) /\ Together(commands)
<1> DEFINE S == CommandStatements(t)
<1>1. /\ XPRow(t) \in Row /\ EntryRow(t) \in Row /\ WalletRow(t) \in Row
      /\ BoardRow(t) \in Row
      /\ \A row \in Unlocked(t) \union Granted(t) : row \in Row
      /\ IsFiniteSet(Unlocked(t)) /\ IsFiniteSet(Granted(t))
  BY ActorRows, ActorKeys
<1>2. S \subseteq Statements
  <2>1. SUFFICES ASSUME NEW s \in S PROVE s \in Statements
    OBVIOUS
  <2>2. \A row \in Row : /\ Statement("ensure", row) \in Statements
                         /\ Statement("entry", row) \in Statements
                         /\ Statement("sum", row) \in Statements
                         /\ Statement("write", row) \in Statements
                         /\ Statement("grant", row) \in Statements
                         /\ Statement("raise", row) \in Statements
    BY StatementTyped DEF Ops
  <2>3. \/ s \in Earned(t)
        \/ \E row \in Unlocked(t) : s = Statement("ensure", row)
        \/ \E row \in Granted(t) : s = Statement("grant", row)
        \/ s = Statement("raise", BoardRow(t))
    BY CommandForms
  <2>4. QED
    BY <1>1, <2>2, <2>3 DEF Earned
<1>3. IsFiniteSet(S)
  <2> DEFINE X == Unlocked(t) \union (IF Call[t].xp > 0 THEN {XPRow(t)} ELSE {})
             f == [row \in X |-> Statement("ensure", row)]
             g == [row \in Granted(t) |-> Statement("grant", row)]
             F == {Statement("ensure", row) : row \in X}
             G == {Statement("grant", row) : row \in Granted(t)}
             A == IF Call[t].xp > 0
                  THEN {Statement("entry", EntryRow(t)), Statement("sum", WalletRow(t)),
                        Statement("write", WalletRow(t))} ELSE {}
             B == IF Call[t].points > 0 THEN {Statement("raise", BoardRow(t))} ELSE {}
  <2>1. \A a, b, c : IsFiniteSet({}) /\ IsFiniteSet({a}) /\ IsFiniteSet({a, b, c})
    <3>1. SUFFICES ASSUME NEW a, NEW b, NEW c PROVE IsFiniteSet({a, b, c})
      BY FS_EmptySet, FS_Singleton
    <3>2. IsFiniteSet({a}) /\ IsFiniteSet({b}) /\ IsFiniteSet({c})
      BY FS_Singleton
    <3>3. IsFiniteSet({a} \union {b})
      BY <3>2, FS_Union
    <3>4. IsFiniteSet(({a} \union {b}) \union {c})
      BY <3>2, <3>3, FS_Union
    <3>5. ({a} \union {b}) \union {c} = {a, b, c}
      OBVIOUS
    <3>6. QED
      BY <3>4, <3>5
  <2>2. IsFiniteSet(X)
    <3>1. IsFiniteSet(IF Call[t].xp > 0 THEN {XPRow(t)} ELSE {})
      BY <2>1
    <3>2. QED
      BY <1>1, <3>1, FS_Union
  <2>3. IsFiniteSet(A) /\ IsFiniteSet(B)
    BY <2>1
  <2> HIDE DEF X
  <2>4. f \in Surjection(X, F) /\ g \in Surjection(Granted(t), G)
    BY DEF Surjection
  <2> HIDE DEF f, g, F, G, A, B
  <2>5. IsFiniteSet(F) /\ IsFiniteSet(G)
    BY <1>1, <2>2, <2>4, FS_Surjection
  <2>6. IsFiniteSet(((F \union A) \union G) \union B)
    <3>1. IsFiniteSet(F \union A)
      BY <2>3, <2>5, FS_Union
    <3>2. IsFiniteSet((F \union A) \union G)
      BY <2>5, <3>1, FS_Union
    <3>3. QED
      BY <2>3, <3>2, FS_Union
  <2>7. S = ((F \union A) \union G) \union B
    BY DEF CommandStatements, X, F, G, A, B
  <2>8. QED
    BY <2>6, <2>7
<1>4. commands \in SetToSeqs(S) /\ Together(commands)
  BY DEF Commands
<1>5. \A s \in S : Phase(s) = 1
  BY CommandForms
<1> HIDE DEF S
<1>6. /\ commands \in Seq(S) /\ Elements(commands) = S
      /\ \A i, j \in DOMAIN commands : i # j => commands[i] # commands[j]
  BY <1>3, <1>4, InSomeOrder
<1>7. commands \in Seq(Statements)
  BY <1>2, <1>6
<1>8. InOrder(commands)
  <2>1. \A i \in DOMAIN commands : commands[i] \in S /\ i \in Int
    BY <1>6
  <2>2. \A i \in DOMAIN commands : Phase(commands[i]) = 1
    BY <1>5, <2>1
  <2>3. QED
    BY <1>6, <2>1, <2>2 DEF InOrder
<1>9. QED
  BY <1>4, <1>6, <1>7, <1>8 DEF S

\* One list of statements after another.
LEMMA StatementsJoined ==
  ASSUME NEW a \in Seq(Statements), NEW b \in Seq(Statements), InOrder(a), InOrder(b),
         \A x \in Elements(a), y \in Elements(b) : Phase(x) < Phase(y),
         Together(a), \A y \in Elements(b) : y.op \notin {"entry", "sum"}
  PROVE  /\ a \o b \in Seq(Statements) /\ Elements(a \o b) = Elements(a) \union Elements(b)
         /\ InOrder(a \o b) /\ Together(a \o b)
<1> DEFINE S == Statements
           phase == [s \in S |-> Phase(s)]
<1>1. phase \in [S -> Nat] /\ \A s \in S : phase[s] = Phase(s)
  BY PhasesOf
<1> HIDE DEF S
<1>2. a \in Seq(S) /\ b \in Seq(S)
  BY DEF S
<1> HIDE DEF phase
<1>3. ASSUME NEW q \in Seq(S) PROVE InOrder(q) <=> OrderedBy(q, phase)
  <2>1. \A i \in DOMAIN q : phase[q[i]] = Phase(q[i])
    BY <1>1
  <2>2. QED
    BY <2>1 DEF InOrder, OrderedBy
<1>4. a \o b \in Seq(S) /\ Elements(a \o b) = Elements(a) \union Elements(b)
  BY <1>2, JoinedElements
<1>5. InOrder(a \o b)
  <2>1. \A x \in Elements(a), y \in Elements(b) : x \in S /\ y \in S
    BY <1>2 DEF Elements
  <2>2. \A x \in Elements(a), y \in Elements(b) : phase[x] < phase[y]
    BY <1>1, <2>1
  <2>3. OrderedBy(a, phase) /\ OrderedBy(b, phase)
    BY <1>2, <1>3
  <2>4. OrderedBy(a \o b, phase)
    BY <1>1, <1>2, <2>2, <2>3, JoinedInOrder
  <2>5. QED
    BY <1>3, <1>4, <2>4
<1>6. Together(a \o b)
  <2>1. /\ Len(a \o b) = Len(a) + Len(b)
        /\ \A i \in 1 .. Len(a) : (a \o b)[i] = a[i]
        /\ \A i \in 1 .. Len(a) + Len(b) : i > Len(a) => (a \o b)[i] = b[i - Len(a)]
    BY <1>2, Joined, Zenon
  <2>2. /\ DOMAIN a = 1 .. Len(a) /\ DOMAIN b = 1 .. Len(b)
        /\ Len(a) \in Nat /\ Len(b) \in Nat
        /\ DOMAIN (a \o b) = 1 .. Len(a) + Len(b)
    BY <1>2, <1>4, <2>1
  <2> DEFINE c == a \o b
  <2> HIDE DEF c
  <2>3. SUFFICES ASSUME NEW i \in DOMAIN c
                 PROVE  /\ c[i].op = "entry" => i + 1 \in DOMAIN c /\ c[i + 1].op = "sum"
                        /\ c[i].op = "sum" => /\ i + 1 \in DOMAIN c
                                              /\ c[i + 1] = Statement("write", c[i].of)
    BY DEF Together, c
  <2>4. CASE i > Len(a)
    <3>1. i - Len(a) \in DOMAIN b /\ c[i] = b[i - Len(a)]
      BY <2>1, <2>2, <2>3, <2>4 DEF c
    <3>2. c[i].op \notin {"entry", "sum"}
      BY <3>1 DEF Elements
    <3>3. QED
      BY <3>2
  <2>5. CASE i <= Len(a)
    <3>1. /\ i \in DOMAIN a /\ c[i] = a[i]
          /\ \A j \in DOMAIN a : j \in DOMAIN c /\ c[j] = a[j]
      BY <2>1, <2>2, <2>3, <2>5 DEF c
    <3>2. /\ a[i].op = "entry" => i + 1 \in DOMAIN a /\ a[i + 1].op = "sum"
          /\ a[i].op = "sum" => /\ i + 1 \in DOMAIN a
                                /\ a[i + 1] = Statement("write", a[i].of)
      BY <3>1 DEF Together
    <3>3. QED
      BY <3>1, <3>2
  <2>6. QED
    BY <2>2, <2>3, <2>4, <2>5 DEF c
<1>7. QED
  BY <1>4, <1>5, <1>6 DEF S

\* The statements of an event, once it has loaded its state.
LEMMA LoadedStatements ==
  ASSUME NEW t \in Calls, Kind(t) = "event", NEW commands \in Commands(t),
         NEW rows \in PersistState(t)
  PROVE  LET q == ApplyOutcome(t, commands, rows) IN
         /\ q \in Seq(Statements) /\ Len(q) > 0
         /\ q[Len(q)] = Statement("commit", "users")
         /\ Elements(q) = (CommandStatements(t) \union {Persist(row) : row \in Projected(t)})
                            \union {Statement("commit", "users")}
         /\ InOrder(q) /\ Together(q)
<1> DEFINE w == [i \in DOMAIN rows |-> Persist(rows[i])]
           k == Statement("commit", "users")
           c == <<k>>
           E1 == CommandStatements(t)
           E2 == {Persist(row) : row \in Projected(t)}
           cw == commands \o w
           q == cw \o c
<1>1. /\ commands \in Seq(Statements) /\ Elements(commands) = E1
      /\ InOrder(commands) /\ Together(commands)
  BY CommandsListed
<1>2. w \in Seq(Statements) /\ Elements(w) = E2 /\ InOrder(w)
  <2>1. Listed(rows, Projected(t))
    BY PersistedRows
  <2>2. QED
    BY <2>1, Mapped
<1>3. \A y \in E2 : Phase(y) \in 2 .. 8 /\ y.op \notin {"entry", "sum"}
  BY ProjectedRows, PhasesOfTables
<1>4. \A x \in E1 : Phase(x) = 1
  BY CommandForms
<1>5. /\ k \in Statements /\ Phase(k) = 9 /\ k.op = "commit"
  BY StatementTyped, PhasesOf DEF Statement
<1>6. ApplyOutcome(t, commands, rows) = q
  BY DEF ApplyOutcome
<1>7. /\ c \in Seq(Statements) /\ Elements(c) = {k} /\ InOrder(c)
      /\ Len(c) = 1 /\ c[1] = k
  <2> DEFINE S == Statements
  <2>1. k \in S
    BY <1>5
  <2> HIDE DEF S, k
  <2>2. c \in Seq(S) /\ DOMAIN c = {1} /\ c[1] = k /\ Len(c) = 1
    BY <2>1
  <2>3. QED
    BY <2>2 DEF Elements, InOrder, S
<1> HIDE DEF w, k, c, E1, E2, cw, q
<1>8. /\ cw \in Seq(Statements) /\ Elements(cw) = E1 \union E2
      /\ InOrder(cw) /\ Together(cw)
  <2>1. \A x \in E1, y \in E2 : Phase(x) < Phase(y)
    BY <1>3, <1>4
  <2>2. QED
    BY <1>1, <1>2, <1>3, <2>1, StatementsJoined DEF cw
<1>9. /\ q \in Seq(Statements) /\ Elements(q) = (E1 \union E2) \union {k}
      /\ InOrder(q) /\ Together(q)
  <2>1. \A x \in E1 \union E2, y \in {k} : Phase(x) < Phase(y)
    BY <1>3, <1>4, <1>5
  <2>2. \A y \in Elements(c) : y.op \notin {"entry", "sum"}
    BY <1>5, <1>7
  <2>3. QED
    BY <1>7, <1>8, <2>1, <2>2, StatementsJoined DEF q
<1>10. Len(q) > 0 /\ q[Len(q)] = k
  <2> DEFINE S == Statements
  <2>1. cw \in Seq(S) /\ c \in Seq(S)
    BY <1>7, <1>8
  <2> HIDE DEF S
  <2>2. Len(cw) \in Nat /\ Len(c) = 1 /\ c[1] = k
    BY <1>7, <2>1
  <2>3. /\ Len(cw \o c) = Len(cw) + Len(c)
        /\ \A i \in 1 .. Len(cw) + Len(c) :
             i > Len(cw) => (cw \o c)[i] = c[i - Len(cw)]
    BY <2>1, Joined, Zenon
  <2>4. Len(q) = Len(cw) + 1 /\ q[Len(cw) + 1] = c[(Len(cw) + 1) - Len(cw)]
    BY <2>2, <2>3 DEF q
  <2>5. QED
    BY <2>2, <2>4
<1>11. QED
  BY <1>6, <1>9, <1>10 DEF E1, E2, k

LEMMA HeadAndTail ==
  ASSUME NEW S, NEW q \in Seq(S), Len(q) > 0
  PROVE  /\ Head(q) = q[1] /\ Tail(q) \in Seq(S) /\ Len(Tail(q)) = Len(q) - 1
         /\ \A i \in 1 .. Len(q) - 1 : Tail(q)[i] = q[i + 1]
         /\ Head(q) \in Elements(q) /\ Elements(q) = {Head(q)} \union Elements(Tail(q))
<1>1. /\ Head(q) = q[1] /\ Tail(q) \in Seq(S) /\ Len(Tail(q)) = Len(q) - 1
      /\ \A i \in 1 .. Len(q) - 1 : Tail(q)[i] = q[i + 1]
  OBVIOUS
<1>2. Len(q) \in Nat /\ DOMAIN q = 1 .. Len(q) /\ DOMAIN Tail(q) = 1 .. Len(q) - 1
  BY <1>1
<1>3. 1 \in DOMAIN q /\ \A i \in 1 .. Len(q) - 1 : i + 1 \in DOMAIN q
  BY <1>2
<1>4. \A i \in DOMAIN q : i = 1 \/ (i - 1 \in DOMAIN Tail(q) /\ Tail(q)[i - 1] = q[i])
  <2>1. \A i \in DOMAIN q : i = 1 \/ (i - 1 \in 1 .. Len(q) - 1 /\ (i - 1) + 1 = i)
    BY <1>2
  <2>2. QED
    BY <1>1, <1>2, <2>1
<1>5. ASSUME NEW i \in DOMAIN q PROVE q[i] \in {Head(q)} \union Elements(Tail(q))
  <2>1. CASE i = 1
    BY <1>1, <2>1
  <2>2. CASE i # 1
    <3>1. i - 1 \in DOMAIN Tail(q) /\ Tail(q)[i - 1] = q[i]
      BY <1>4, <2>2
    <3>2. QED
      BY <3>1 DEF Elements
  <2>3. QED
    BY <2>1, <2>2
<1>6. Head(q) \in Elements(q) /\ Elements(Tail(q)) \subseteq Elements(q)
  BY <1>1, <1>2, <1>3 DEF Elements
<1>7. Elements(q) \subseteq {Head(q)} \union Elements(Tail(q))
  BY <1>5 DEF Elements
<1>8. QED
  BY <1>1, <1>6, <1>7

LEMMA OrderOfTail ==
  ASSUME NEW S, NEW q \in Seq(S), Len(q) > 0, InOrder(q), Together(q)
  PROVE  /\ InOrder(Tail(q)) /\ Together(Tail(q))
         /\ \A s \in Elements(Tail(q)) : s # Head(q) /\ Phase(Head(q)) <= Phase(s)
         /\ Head(q).op = "sum" => \A s \in Elements(q) : s.op = "entry" =>
              \E r \in Elements(Tail(q)) : r.op = "sum"
         /\ \A r \in Elements(q) : r.op = "sum" => Head(q) # Statement("write", r.of)
<1>1. /\ Head(q) = q[1] /\ Tail(q) \in Seq(S) /\ Len(Tail(q)) = Len(q) - 1
      /\ \A i \in 1 .. Len(q) - 1 : Tail(q)[i] = q[i + 1]
  BY HeadAndTail
<1>2. /\ DOMAIN Tail(q) = 1 .. Len(q) - 1 /\ Len(q) \in Nat /\ DOMAIN q = 1 .. Len(q)
      /\ 1 \in DOMAIN q
  BY <1>1
<1> DEFINE r == Tail(q)
           h == Head(q)
<1> HIDE DEF r, h
<1>3. /\ h = q[1] /\ DOMAIN r = 1 .. Len(q) - 1
      /\ \A i \in DOMAIN r : i \in Int /\ i + 1 \in DOMAIN q /\ r[i] = q[i + 1] /\ 1 < i + 1
      /\ \A i \in DOMAIN q : 1 < i => i - 1 \in DOMAIN r /\ r[i - 1] = q[i]
  <2>1. /\ h = q[1] /\ DOMAIN r = 1 .. Len(q) - 1
        /\ \A i \in DOMAIN r : i \in Int /\ i + 1 \in DOMAIN q /\ r[i] = q[i + 1] /\ 1 < i + 1
    BY <1>1, <1>2 DEF r, h
  <2>2. ASSUME NEW i \in DOMAIN q, 1 < i PROVE i - 1 \in DOMAIN r /\ r[i - 1] = q[i]
    <3>1. i - 1 \in DOMAIN r /\ (i - 1) + 1 = i
      BY <1>2, <2>1, <2>2
    <3>2. QED
      BY <2>1, <3>1
  <2>3. QED
    BY <2>1, <2>2
<1>4. InOrder(r)
  <2>1. SUFFICES ASSUME NEW i \in DOMAIN r, NEW j \in DOMAIN r, i < j
                 PROVE  r[i] # r[j] /\ Phase(r[i]) <= Phase(r[j])
    BY DEF InOrder
  <2>2. i + 1 < j + 1
    BY <1>3, <2>1
  <2>3. QED
    BY <1>3, <2>2 DEF InOrder
<1>5. \A s \in Elements(r) : s # h /\ Phase(h) <= Phase(s)
  BY <1>2, <1>3 DEF Elements, InOrder
<1>6. \A i \in DOMAIN q : i \in Int /\ 1 <= i /\ 1 < i + 1
  BY <1>2
<1>7. Together(r)
  <2>1. SUFFICES ASSUME NEW i \in DOMAIN r
                 PROVE  /\ r[i].op = "entry" => i + 1 \in DOMAIN r /\ r[i + 1].op = "sum"
                        /\ r[i].op = "sum" => /\ i + 1 \in DOMAIN r
                                              /\ r[i + 1] = Statement("write", r[i].of)
    BY DEF Together
  <2>2. i + 1 \in DOMAIN q /\ r[i] = q[i + 1]
    BY <1>3
  <2>3. /\ q[i + 1].op = "entry" => (i + 1) + 1 \in DOMAIN q /\ q[(i + 1) + 1].op = "sum"
        /\ q[i + 1].op = "sum" => /\ (i + 1) + 1 \in DOMAIN q
                                  /\ q[(i + 1) + 1] = Statement("write", q[i + 1].of)
    BY <2>2 DEF Together
  <2>4. (i + 1) + 1 \in DOMAIN q => i + 1 \in DOMAIN r /\ r[i + 1] = q[(i + 1) + 1]
    <3>1. ASSUME (i + 1) + 1 \in DOMAIN q PROVE i + 1 \in DOMAIN r
      BY <1>2, <1>3, <3>1
    <3>2. QED
      BY <1>3, <3>1
  <2>5. QED
    BY <2>2, <2>3, <2>4
<1>8. ASSUME NEW s \in Elements(q), s.op = "entry" PROVE \E x \in Elements(r) : x.op = "sum"
  <2>1. PICK i \in DOMAIN q : s = q[i]
    BY DEF Elements
  <2>2. i + 1 \in DOMAIN q /\ q[i + 1].op = "sum"
    BY <1>8, <2>1 DEF Together
  <2>3. (i + 1) - 1 \in DOMAIN r /\ r[(i + 1) - 1] = q[i + 1]
    BY <1>3, <1>6, <2>2
  <2>4. r[(i + 1) - 1] \in Elements(r)
    BY <2>3 DEF Elements
  <2>5. QED
    BY <2>2, <2>3, <2>4
<1>9. ASSUME NEW s \in Elements(q), s.op = "sum" PROVE h # Statement("write", s.of)
  <2>1. PICK i \in DOMAIN q : s = q[i]
    BY DEF Elements
  <2>2. i + 1 \in DOMAIN q /\ q[i + 1] = Statement("write", s.of)
    BY <1>9, <2>1 DEF Together
  <2>3. q[1] # q[i + 1]
    BY <1>2, <1>6, <2>2 DEF InOrder
  <2>4. QED
    BY <1>3, <2>2, <2>3
<1>10. QED
  BY <1>4, <1>5, <1>7, <1>8, <1>9 DEF r, h

\* The forms of an event's statements.
LEMMA StatementForms ==
  ASSUME NEW t \in Calls, Kind(t) = "event", NEW s, EventStatement(t, s),
         \A row \in DOMAIN read[t] : row \in Row
  PROVE  /\ s.op \in Ops /\ (s.op = "commit" <=> s = Statement("commit", "users"))
         /\ Phase(s) = 9 <=> s.op = "commit"
         /\ s.op = "sum" => s = Statement("sum", WalletRow(t)) /\ Call[t].xp > 0
         /\ s.op # "commit" => s.of \in Row
         /\ Phase(s) = 3 => s = Statement("write", RuleRow(t))
         /\ s = Statement(s.op, s.of)
         /\ \/ Call[t].xp > 0 /\ s \in Earned(t)
            \/ s.op = "ensure" /\ s.of \in Unlocked(t)
            \/ s.op = "grant" /\ s.of \in Granted(t)
            \/ s.op = "raise" /\ s.of = BoardRow(t) /\ Call[t].points > 0
            \/ /\ s.op = "keep" /\ s.of \in DOMAIN read[t]
               /\ s.of[1] = "achievement_unlocks" /\ s.of[2] = Actor(t)
            \/ /\ s.op = "write" /\ s.of \in DOMAIN read[t] /\ s.of[2] = Actor(t)
               /\ s.of[1] \in Persisted \ {"achievement_unlocks"}
            \/ s.op = "commit"
<1>1. /\ XPRow(t) \in Row /\ EntryRow(t) \in Row /\ WalletRow(t) \in Row /\ BoardRow(t) \in Row
      /\ WalletRow(t)[1] = "wallets"
  BY ActorRows
<1>2. CASE Call[t].xp > 0 /\ s \in Earned(t)
  BY <1>1, <1>2, PhasesOf DEF Earned, Statement, Ops
<1>3. CASE \E row \in Unlocked(t) : s = Statement("ensure", row)
  <2>1. PICK row \in Unlocked(t) : s = Statement("ensure", row)
    BY <1>3
  <2>2. s.op = "ensure" /\ s.of = row /\ Phase(s) = 1
    BY <2>1, PhasesOf DEF Statement
  <2>3. row \in Row
    BY ActorKeys
  <2>4. QED
    BY <2>1, <2>2, <2>3 DEF Ops, Statement
<1>4. CASE \E row \in Granted(t) : s = Statement("grant", row)
  <2>1. PICK row \in Granted(t) : s = Statement("grant", row)
    BY <1>4
  <2>2. s.op = "grant" /\ s.of = row /\ Phase(s) = 1
    BY <2>1, PhasesOf DEF Statement
  <2>3. row \in Row
    BY ActorKeys
  <2>4. QED
    BY <2>1, <2>2, <2>3 DEF Ops, Statement
<1>5. CASE Call[t].points > 0 /\ s = Statement("raise", BoardRow(t))
  BY <1>1, <1>5, PhasesOf DEF Statement, Ops
<1>6. CASE /\ s.of \in DOMAIN read[t] /\ s = Persist(s.of)
           /\ s.of[1] \in Persisted /\ s.of[2] = Actor(t)
  <2> DEFINE row == s.of
  <2>1. row \in Row
    BY <1>6
  <2>2. /\ Phase(s) \in 2 .. 8 /\ s.op \in {"write", "keep"}
        /\ s.op = "keep" <=> row[1] = "achievement_unlocks"
        /\ Phase(s) = 3 => row[1] = "rule_state" /\ s = Statement("write", row)
    BY <1>6, PhasesOfTables DEF Persisted, StateOfActor
  <2>3. row[1] = "rule_state" => row = RuleRow(t)
    <3>1. SUFFICES ASSUME row[1] = "rule_state" PROVE row = RuleRow(t)
      OBVIOUS
    <3>2. row \in RowsOf("rule_state", Actor(t))
      <4>1. "rule_state" \notin {"users", "identities", "ledger_entries"}
        OBVIOUS
      <4>2. QED
        BY <1>6, <2>1, <3>1, <4>1, RowKinds, RowNames
    <3>3. QED
      BY <3>2 DEF RowsOf, SimpleTables, RuleRow
  <2>4. s = Statement(s.op, s.of)
    BY <1>6 DEF Persist, Statement
  <2> HIDE DEF row
  <2>5. QED
    BY <1>6, <2>1, <2>2, <2>3, <2>4 DEF Ops, Statement, row
<1>7. CASE s = Statement("commit", "users")
  BY <1>7, PhasesOf DEF Statement, Ops
<1>8. \/ Call[t].xp > 0 /\ s \in Earned(t)
      \/ \E row \in Unlocked(t) : s = Statement("ensure", row)
      \/ \E row \in Granted(t) : s = Statement("grant", row)
      \/ Call[t].points > 0 /\ s = Statement("raise", BoardRow(t))
      \/ /\ s.of \in DOMAIN read[t] /\ s = Persist(s.of)
         /\ s.of[1] \in Persisted /\ s.of[2] = Actor(t)
      \/ s = Statement("commit", "users")
  BY CommandForms DEF EventStatement
<1>9. QED
  BY <1>2, <1>3, <1>4, <1>5, <1>6, <1>7, <1>8

\* The statements of an event: the next one, and those after it.
LEMMA EventHead ==
  ASSUME Shapes, NEW t \in Open, Kind(t) = "event", Loaded(t)
  PROVE  LET s == Head(todo[t])
             rest == Tail(todo[t])
         IN  /\ EventFollows(t)
             /\ \A row \in DOMAIN own[t] : EventOwns(t, Phase(s), row, own[t][row])
             /\ \A row \in DOMAIN read[t] : row \in Row /\ read[t][row] \in Values(row)
             /\ Call[t].xp > 0 => \/ Still(t, Statement("sum", WalletRow(t)))
                                  \/ WalletRow(t) \in DOMAIN read[t]
             /\ Still(t, Statement("write", RuleRow(t))) \/ RuleRow(t) \in DOMAIN own[t]
             /\ EventStatement(t, s)
             /\ s.op \in Ops /\ (s.op = "commit" <=> s = Statement("commit", "users"))
             /\ Elements(todo[t]) = {s} \union Elements(rest)
             /\ \A r \in Elements(rest) : r # s /\ Phase(s) <= Phase(r)
             /\ s.op = "sum" => ~Still(t, Statement("entry", EntryRow(t)))
             /\ s = Statement("write", WalletRow(t)) =>
                  ~Still(t, Statement("sum", WalletRow(t)))
             /\ s.op # "commit" =>
                  /\ rest \in Seq(Elements(rest)) /\ Len(rest) > 0
                  /\ rest[Len(rest)] = Statement("commit", "users")
                  /\ InOrder(rest) /\ Together(rest) /\ Head(rest) \in Elements(rest)
<1> DEFINE q == todo[t]
           s == Head(q)
           rest == Tail(q)
<1>1. /\ EventFollows(t)
      /\ \A row \in DOMAIN own[t] : EventOwns(t, Phase(s), row, own[t][row])
      /\ \A row \in DOMAIN read[t] : row \in Row /\ read[t][row] \in Values(row)
      /\ Call[t].xp > 0 => \/ Still(t, Statement("sum", WalletRow(t)))
                           \/ WalletRow(t) \in DOMAIN read[t]
      /\ Still(t, Statement("write", RuleRow(t))) \/ RuleRow(t) \in DOMAIN own[t]
  BY DEF Shapes, Shape, EventShape
<1>2. /\ q \in Seq(Elements(q)) /\ Len(q) > 0 /\ q[Len(q)] = Statement("commit", "users")
      /\ \A r \in Elements(q) : EventStatement(t, r)
      /\ InOrder(q) /\ Together(q)
  BY <1>1 DEF EventFollows
<1>0. t \in Calls
  BY DEF Open
<1> HIDE DEF q
<1>3. /\ s = q[1] /\ rest \in Seq(Elements(q)) /\ Len(rest) = Len(q) - 1
      /\ \A i \in 1 .. Len(q) - 1 : rest[i] = q[i + 1]
      /\ s \in Elements(q) /\ Elements(q) = {s} \union Elements(rest)
  BY <1>2, HeadAndTail
<1>4. /\ InOrder(rest) /\ Together(rest)
      /\ \A r \in Elements(rest) : r # s /\ Phase(s) <= Phase(r)
      /\ s.op = "sum" => \A x \in Elements(q) : x.op = "entry" =>
              \E r \in Elements(rest) : r.op = "sum"
      /\ \A r \in Elements(q) : r.op = "sum" => s # Statement("write", r.of)
  BY <1>2, OrderOfTail
<1>5. EventStatement(t, s)
  BY <1>2, <1>3
<1>6. s.op \in Ops /\ (s.op = "commit" <=> s = Statement("commit", "users"))
  BY <1>0, <1>1, <1>5, StatementForms
<1>7. ASSUME s.op # "commit"
      PROVE  /\ Len(rest) > 0 /\ rest[Len(rest)] = Statement("commit", "users")
             /\ rest \in Seq(Elements(rest)) /\ Head(rest) \in Elements(rest)
  <2>1. Len(q) # 1
    BY <1>2, <1>3, <1>6, <1>7
  <2>2. Len(q) \in Nat
    BY <1>2
  <2>3. Len(q) - 1 \in 1 .. Len(q) - 1 /\ (Len(q) - 1) + 1 = Len(q)
    <3> DEFINE n == Len(q)
    <3>1. n \in Nat /\ n > 0 /\ n # 1
      BY <1>2, <2>1, <2>2
    <3> HIDE DEF n
    <3>2. n - 1 \in 1 .. n - 1 /\ (n - 1) + 1 = n
      BY <3>1
    <3>3. QED
      BY <3>2 DEF n
  <2>4. Len(rest) > 0 /\ rest[Len(rest)] = Statement("commit", "users")
    BY <1>2, <1>3, <2>3
  <2> HIDE DEF rest
  <2>5. rest \in Seq(Elements(rest))
    <3>1. /\ DOMAIN rest = 1 .. Len(rest) /\ Len(rest) \in Nat
          /\ rest = [i \in DOMAIN rest |-> rest[i]]
      BY <1>3
    <3>2. \A i \in DOMAIN rest : rest[i] \in Elements(rest)
      BY DEF Elements
    <3> DEFINE E == Elements(rest)
    <3> HIDE DEF E
    <3>3. rest \in [1 .. Len(rest) -> E]
      BY <3>1, <3>2 DEF E
    <3>4. rest \in Seq(E)
      BY <3>1, <3>3
    <3>5. QED
      BY <3>4 DEF E
  <2>6. Head(rest) = rest[1] /\ 1 \in DOMAIN rest
    BY <2>4, <2>5
  <2>7. QED
    BY <2>4, <2>5, <2>6 DEF Elements
<1>8. s.op = "sum" => ~Still(t, Statement("entry", EntryRow(t)))
  <2>1. SUFFICES ASSUME s.op = "sum", Statement("entry", EntryRow(t)) \in Elements(q)
                 PROVE  FALSE
    BY DEF Still, q
  <2>2. PICK r \in Elements(rest) : r.op = "sum"
    BY <1>4, <2>1 DEF Statement
  <2>3. r \in Elements(q) /\ r # s
    BY <1>3, <1>4, <2>2
  <2>4. EventStatement(t, r)
    BY <1>2, <2>3
  <2> HIDE DEF s, rest
  <2>5. r = Statement("sum", WalletRow(t)) /\ s = Statement("sum", WalletRow(t))
    BY <1>0, <1>1, <1>5, <2>1, <2>2, <2>4, StatementForms
  <2>6. QED
    BY <2>3, <2>5
<1>9. s = Statement("write", WalletRow(t)) => ~Still(t, Statement("sum", WalletRow(t)))
  BY <1>4 DEF Still, Statement, q
<1>10. QED
  BY <1>1, <1>3, <1>4, <1>5, <1>6, <1>7, <1>8, <1>9 DEF q

LEMMA NowTyped == Now \in Nat
<1>1. IsFiniteSet(Events)
  BY MergeAssumption, FS_Subset DEF Events
<1>2. IsFiniteSet({t \in Events : status[t] = "done"})
  BY <1>1, FS_Subset
<1>3. QED
  BY <1>2, FS_CardinalityType DEF Now

LEMMA RaisedTyped ==
  ASSUME NEW t \in Calls, Kind(t) = "event", NEW old \in Score \union {None}
  PROVE  /\ Raised(t, old) \in Score
         /\ Raised(t, old).score = (IF old = None THEN 0 ELSE old.score) + Call[t].points
<1>1. Call[t].points \in Nat /\ Now \in Nat
  BY CallKinds, NowTyped
<1>2. old # None => old \in Score /\ old.score \in Nat
  BY DEF Score
<1>3. QED
  BY <1>1, <1>2 DEF Raised, Score

\* The row that an event's next statement writes.
LEMMA EventEffect ==
  ASSUME Shapes, NEW t \in Open, Kind(t) = "event", Loaded(t),
         Head(todo[t]).op \in WriteOps, NEW row \in DOMAIN Effect(t)
  PROVE  /\ row = Head(todo[t]).of /\ row \in Row
         /\ Effect(t)[row] \in Values(row)
         /\ Head(todo[t]).op \in {"ensure", "keep"}
              => Seen(t, row) = None /\ Effect(t)[row] = 0
         /\ \A r \in Elements(Tail(todo[t])) : EventOwns(t, Phase(r), row, Effect(t)[row])
<1> DEFINE s == Head(todo[t])
           rest == Tail(todo[t])
           value == Effect(t)[row]
<1>1. /\ EventFollows(t) /\ EventStatement(t, s) /\ s.op \in Ops
      /\ \A r \in DOMAIN read[t] : r \in Row /\ read[t][r] \in Values(r)
      /\ Call[t].xp > 0 => \/ Still(t, Statement("sum", WalletRow(t)))
                           \/ WalletRow(t) \in DOMAIN read[t]
      /\ Elements(todo[t]) = {s} \union Elements(rest)
      /\ \A r \in Elements(rest) : r # s /\ Phase(s) <= Phase(r)
      /\ s = Statement("write", WalletRow(t)) => ~Still(t, Statement("sum", WalletRow(t)))
  BY EventHead
<1>2. t \in Calls
  BY DEF Open
<1>3. /\ t \in Events /\ Actor(t) \in Users
      /\ XPRow(t) \in Row /\ XPRow(t)[1] = "xp_tracks" /\ XPRow(t)[2] = Actor(t)
      /\ EntryRow(t) \in Row /\ EntryRow(t)[1] = "ledger_entries"
      /\ WalletRow(t) \in Row /\ WalletRow(t)[1] = "wallets" /\ WalletRow(t)[2] = Actor(t)
      /\ BoardRow(t) \in Row /\ BoardRow(t)[1] = "leaderboard_entries"
      /\ BoardRow(t)[2] = Actor(t)
  BY <1>2, ActorRows
<1>4. \A r \in Unlocked(t) \union Granted(t) :
        /\ r \in Row /\ r[2] = Actor(t)
        /\ r[1] \in {"achievement_unlocks", "inventory_items"}
  BY <1>2, ActorKeys
<1>5. /\ s.op # "commit" => s.of \in Row
      /\ s = Statement(s.op, s.of)
      /\ \/ Call[t].xp > 0 /\ s \in Earned(t)
         \/ s.op = "ensure" /\ s.of \in Unlocked(t)
         \/ s.op = "grant" /\ s.of \in Granted(t)
         \/ s.op = "raise" /\ s.of = BoardRow(t) /\ Call[t].points > 0
         \/ /\ s.op = "keep" /\ s.of \in DOMAIN read[t]
            /\ s.of[1] = "achievement_unlocks" /\ s.of[2] = Actor(t)
         \/ /\ s.op = "write" /\ s.of \in DOMAIN read[t] /\ s.of[2] = Actor(t)
            /\ s.of[1] \in Persisted \ {"achievement_unlocks"}
         \/ s.op = "commit"
  BY <1>1, <1>2, StatementForms
<1>6. s.op \in {"ensure", "keep", "entry", "grant", "raise", "write"}
  BY <1>1 DEF Ops, WriteOps
<1>7. row = s.of /\ row \in Row
  BY <1>5, <1>6 DEF Effect
<1>8. /\ None \notin Values(row)
      /\ row[1] = "leaderboard_entries" => Values(row) = Score
      /\ row[1] = "ledger_entries" => Values(row) = Users
      /\ row[1] \in StateTables \ {"leaderboard_entries"} => Values(row) = Nat
  BY ValueKinds DEF OwnerTables
<1>9. row[1] \in Late => s.op = "write"
  <2>1. CASE s \in Earned(t)
    BY <1>3, <1>7, <2>1 DEF Earned, Late, Touchable, Statement
  <2>2. CASE s \notin Earned(t)
    BY <1>3, <1>4, <1>5, <1>6, <1>7, <2>2 DEF Late, Touchable
  <2>3. QED
    BY <2>1, <2>2
<1>10. ASSUME row[1] \in Late, NEW r \in Elements(rest)
       PROVE  3 < Phase(r)
  <2>1. s = Statement("write", row)
    BY <1>5, <1>7, <1>9, <1>10
  <2>2. Phase(s) \in {3, 4, 5, 8} /\ Phase(r) \in 1 .. 9 /\ Phase(s) <= Phase(r) /\ r # s
    BY <1>1, <1>10, <2>1, PhasesOf DEF Late, Touchable
  <2>3. EventStatement(t, r)
    BY <1>1, <1>10 DEF EventFollows
  <2>4. Phase(r) = 3 => r = Statement("write", RuleRow(t))
    BY <1>1, <1>2, <2>3, StatementForms
  <2>5. Phase(s) = 3 => s = Statement("write", RuleRow(t))
    BY <1>1, <1>2, StatementForms
  <2>6. ~(Phase(s) = 3 /\ Phase(r) = 3)
    BY <2>2, <2>4, <2>5
  <2> HIDE DEF s
  <2>7. QED
    BY <2>2, <2>6
<1>11. /\ value \in Values(row)
       /\ s.op \in {"ensure", "keep"} => Seen(t, row) = None /\ value = 0
       /\ \/ row = EntryRow(t) /\ value = Actor(t)
          \/ row[1] \in StateTables /\ row[2] = Actor(t) /\ value # None
  <2>1. CASE s.op \in {"ensure", "keep"}
    <3>1. value = 0 /\ Seen(t, row) = None
      BY <1>7, <2>1 DEF Effect, Present
    <3>2. row[1] \in {"xp_tracks", "achievement_unlocks"} /\ row[2] = Actor(t)
      <4>1. CASE s \in Earned(t)
        BY <1>3, <1>7, <2>1, <4>1 DEF Earned, Statement
      <4>2. CASE s.op = "ensure" /\ s.of \in Unlocked(t)
        <5>1. row \in RowsOf("achievement_unlocks", Actor(t))
          BY <1>2, <1>7, <4>2, ActorKeys
        <5>2. QED
          BY <5>1, RowNames
      <4>3. CASE s.op = "keep" /\ s.of[1] = "achievement_unlocks" /\ s.of[2] = Actor(t)
        BY <1>7, <4>3
      <4>4. QED
        BY <1>5, <2>1, <4>1, <4>2, <4>3
    <3>3. row[1] \in StateTables \ {"leaderboard_entries"}
      BY <3>2 DEF StateTables, Moved, SimpleTables
    <3>4. QED
      BY <1>8, <2>1, <3>1, <3>2, <3>3
  <2>2. CASE s.op = "entry"
    <3>1. value = Actor(t)
      BY <1>7, <2>2 DEF Effect
    <3>2. row = EntryRow(t)
      BY <1>5, <1>7, <2>2 DEF Earned, Statement
    <3>3. QED
      BY <1>3, <1>8, <2>2, <3>1, <3>2
  <2>3. CASE s.op = "grant"
    <3>1. value = 1
      BY <1>7, <2>3 DEF Effect
    <3>2. row \in RowsOf("inventory_items", Actor(t))
      <4>1. row \in Granted(t)
        BY <1>5, <1>7, <2>3 DEF Earned, Statement
      <4>2. QED
        BY <1>2, <4>1, ActorKeys
    <3>3. row[1] = "inventory_items" /\ row[2] = Actor(t)
      BY <3>2, RowNames
    <3>4. row[1] \in StateTables \ {"leaderboard_entries"}
      BY <3>3 DEF StateTables, Moved, SimpleTables
    <3>5. QED
      BY <1>8, <2>3, <3>1, <3>3, <3>4
  <2>4. CASE s.op = "raise"
    <3>1. value = Raised(t, Seen(t, row))
      BY <1>7, <2>4 DEF Effect
    <3>2. row = BoardRow(t)
      BY <1>5, <1>7, <2>4 DEF Earned, Statement
    <3>3. Seen(t, row) \in Score \union {None}
      BY <1>2, <1>3, <1>8, <3>2, SeenTyped
    <3>4. value \in Score
      BY <1>2, <3>1, <3>3, RaisedTyped
    <3>5. row[1] \in StateTables
      BY <1>3, <3>2 DEF StateTables, Moved
    <3>6. QED
      BY <1>3, <1>8, <2>4, <3>2, <3>4, <3>5
  <2>5. CASE s.op = "write"
    <3>1. value = read[t][row]
      BY <1>7, <2>5 DEF Effect
    <3>2. /\ row[1] \in (Persisted \ {"achievement_unlocks"}) \union {"wallets"}
          /\ row[2] = Actor(t) /\ row \in DOMAIN read[t]
      <4>1. CASE Call[t].xp > 0 /\ s \in Earned(t)
        <5>1. s = Statement("write", WalletRow(t)) /\ row = WalletRow(t)
          BY <1>7, <2>5, <4>1 DEF Earned, Statement
        <5>2. WalletRow(t) \in DOMAIN read[t]
          BY <1>1, <4>1, <5>1
        <5>3. QED
          BY <1>3, <5>1, <5>2
      <4>2. CASE /\ s.op = "write" /\ s.of \in DOMAIN read[t] /\ s.of[2] = Actor(t)
                 /\ s.of[1] \in Persisted \ {"achievement_unlocks"}
        BY <1>7, <4>2
      <4>3. QED
        BY <1>5, <2>5, <4>1, <4>2
    <3>3. value \in Values(row)
      BY <1>1, <3>1, <3>2
    <3>4. row[1] \in StateTables
      BY <3>2 DEF Persisted, StateOfActor, StateTables, Moved, SimpleTables
    <3>5. QED
      BY <1>8, <2>5, <3>2, <3>3, <3>4
  <2>6. QED
    BY <1>6, <2>1, <2>2, <2>3, <2>4, <2>5
<1>12. QED
  BY <1>7, <1>10, <1>11 DEF EventOwns

\* The row that a link writes.
LEMMA LinkEffect ==
  ASSUME Shapes, NEW t \in Open, Kind(t) = "link", Head(todo[t]).op \in WriteOps,
         NEW row \in DOMAIN Effect(t)
  PROVE  /\ LinkAt(t) = 3 /\ row = IdentityRow(Call[t].identity)
         /\ row \in Row /\ Effect(t)[row] = Actor(t) /\ Effect(t)[row] \in Values(row)
<1>1. LinkAt(t) \in 1 .. 4 /\ Head(todo[t]).op = LinkOps[LinkAt(t)]
  BY LinkHead
<1>2. LinkAt(t) = 3 /\ Head(todo[t]).op = "link"
  BY <1>1, LinkStatements DEF WriteOps
<1>3. Actor(t) \in Users /\ Call[t].identity \in Identities
  BY CallKinds DEF Open
<1>4. row = IdentityRow(Call[t].identity) /\ Effect(t)[row] = Actor(t)
  BY <1>2 DEF Effect
<1>5. row \in Row /\ Values(row) = Users
  BY <1>3, <1>4, RowsAreRows, RowNames, ValueKinds DEF OwnerTables
<1>6. QED
  BY <1>2, <1>3, <1>4, <1>5

LEMMA NotLoaded ==
  ASSUME Shapes, NEW t \in Open, Kind(t) = "event", ~Loaded(t)
  PROVE  DOMAIN own[t] = {} /\ Head(todo[t]).op = "load"
<1>1. todo[t] = <<Statement("load", "users")>>
  BY DEF Loaded
<1>2. Head(todo[t]) = Statement("load", "users")
  BY <1>1
<1>3. Head(todo[t]).op = "load" /\ Statement("load", "users") # Statement("commit", "users")
  BY <1>2 DEF Statement
<1>4. CASE EventFollows(t)
  <2> DEFINE s == Statement("load", "users")
  <2> HIDE DEF s
  <2>1. todo[t] = <<s>>
    BY <1>1 DEF s
  <2>2. todo[t][Len(todo[t])] = s
    BY <2>1
  <2>3. QED
    BY <1>3, <1>4, <2>2 DEF EventFollows, s
<1>5. CASE DOMAIN own[t] = {}
  BY <1>3, <1>5
<1>6. QED
  BY <1>4, <1>5 DEF Shapes, Shape, EventShape

LEMMA LedgerSumTyped ==
  ASSUME NEW rows, NEW u
  PROVE  LedgerSum(rows, u) \in Nat
<1>1. IsFiniteSet(Events)
  BY MergeAssumption, FS_Subset DEF Events
<1> DEFINE f == [t \in Events |-> IF rows[EntryRow(t)] = u THEN Call[t].xp ELSE 0]
<1>2. \A t \in Events : Call[t].xp \in Nat
  BY CallKinds DEF Events
<1>3. f \in [Events -> Nat]
  BY <1>2
<1>4. SumFunction(f) \in Nat
  <2> HIDE DEF f
  <2>1. QED
    BY <1>1, <1>3, SumInNat
<1>5. QED
  BY <1>4 DEF LedgerSum

LEMMA OutcomeTyped ==
  ASSUME Shapes, NEW t \in Open, Kind(t) = "event", ~Loaded(t), NEW row \in Projected(t)
  PROVE  row \in Row /\ Outcome(t)[row] \in Values(row)
<1>1. t \in Calls
  BY DEF Open
<1>2. row \in Row /\ row[1] \in Persisted
  BY <1>1, ProjectedRows
<1>3. db[row] \in Values(row) \union {None}
  BY <1>2 DEF Shapes, MergeTypeOK
<1>4. Call[t].xp \in Nat /\ XPRow(t)[1] = "xp_tracks"
  BY <1>1, CallKinds DEF XPRow
<1> DEFINE value == Outcome(t)[row]
<1>5. CASE row = XPRow(t)
  <2>1. value = Number(db, row) + Call[t].xp
    BY <1>4, <1>5 DEF Outcome, SimpleTables
  <2>2. Values(row) = Nat
    BY <1>4, <1>5, ValueKinds DEF StateTables, Moved, SimpleTables
  <2>3. QED
    BY <1>2, <1>3, <1>4, <2>1, <2>2 DEF Number
<1>6. CASE row[1] = "rule_state"
  <2>1. value = Number(db, row) + 1
    BY <1>4, <1>6 DEF Outcome, SimpleTables
  <2>2. Values(row) = Nat
    BY <1>6, ValueKinds DEF StateTables, Moved, SimpleTables
  <2>3. QED
    BY <1>2, <1>3, <2>1, <2>2 DEF Number
<1>7. CASE row[1] \in SimpleTables
  <2>1. value = 1
    BY <1>4, <1>7 DEF Outcome, SimpleTables
  <2>2. Values(row) = Nat
    BY <1>7, ValueKinds DEF StateTables, SimpleTables
  <2>3. QED
    BY <1>2, <2>1, <2>2
<1>8. CASE row[1] = "leaderboard_entries"
  <2>1. value = Raised(t, db[row])
    BY <1>4, <1>8 DEF Outcome, SimpleTables
  <2>2. Values(row) = Score
    BY <1>8, ValueKinds
  <2>3. QED
    BY <1>1, <1>2, <1>3, <2>1, <2>2, RaisedTyped
<1>9. CASE row[1] = "xp_tracks" /\ row # XPRow(t)
  <2>1. value = db[row]
    BY <1>9 DEF Outcome, SimpleTables
  <2>2. Seen(t, row) # None
    <3>1. RuleRow(t)[1] = "rule_state" /\ BoardRow(t)[1] = "leaderboard_entries"
      BY <1>1, ActorRows
    <3>2. row \notin Unlocked(t) /\ row \notin TouchedRows(t)
      BY <1>1, <1>9, ActorKeys DEF Touchable
    <3>3. QED
      BY <1>9, <3>1, <3>2 DEF Projected, Present
  <2>3. Seen(t, row) = db[row]
    BY NotLoaded DEF Seen
  <2>4. QED
    BY <1>2, <1>3, <2>1, <2>2, <2>3
<1>10. QED
  BY <1>2, <1>5, <1>6, <1>7, <1>8, <1>9 DEF Persisted, StateOfActor, SimpleTables

LEMMA CreditedTyped ==
  ASSUME Shapes, NEW t \in Calls, Kind(t) # "link"
  PROVE  Credited(t) \in [Users -> Due]
<1>1. due \in [Users -> Due]
  BY DEF Shapes, MergeTypeOK
<1>2. CASE Kind(t) = "event"
  <2>1. Actor(t) \in Users /\ Call[t].xp \in Nat /\ Call[t].points \in Nat
    BY <1>2, CallKinds
  <2>2. QED
    BY <1>1, <1>2, <2>1 DEF Credited, Due
<1>3. CASE Kind(t) = "merge"
  <2>1. Source(t) \in Users /\ Target(t) \in Users /\ Source(t) # Target(t)
    BY <1>3, CallKinds
  <2>2. due[Source(t)] \in Due /\ due[Target(t)] \in Due
    BY <1>1, <2>1
  <2>3. QED
    BY <1>1, <1>3, <2>1, <2>2 DEF Credited, Due
<1>4. QED
  BY <1>2, <1>3, CallKinds

\* What the shape of a call is about is its own.
LEMMA ShapeKept ==
  ASSUME NEW x, own'[x] = own[x], todo'[x] = todo[x], read'[x] = read[x], Shape(x)
  PROVE  Shape(x)'
<1>1. CASE Kind(x) = "merge"
  BY <1>1 DEF Shape, MergeShape, MergeFollows, MergeAt
<1>2. CASE Kind(x) = "link"
  BY <1>2 DEF Shape, LinkShape, LinkFollows, LinkAt
<1>3. CASE Kind(x) \notin {"merge", "link"}
  <2>1. EventShape(x)
    BY <1>3 DEF Shape
  <2>2. EventFollows(x) => EventFollows(x)'
    <3>1. (CommandStatements(x) = CommandStatements(x))'
      OBVIOUS
    <3>2. QED
      BY DEF EventFollows, EventStatement
  <2>3. EventShape(x)'
    BY <2>1, <2>2 DEF EventShape, Loaded, Still
  <2>4. QED
    BY <1>3, <2>3 DEF Shape
<1>4. QED
  BY <1>1, <1>2, <1>3

LEMMA MergeKeepsShape ==
  ASSUME Shapes, NEW t \in Open, Kind(t) = "merge",
         Checks(t) \/ Loads(t) \/ Selects(t) \/ Sums(t) \/ Writes(t)
  PROVE  /\ Shape(t)' /\ MergeAt(t)' = MergeAt(t) + 1 /\ MergeAt(t) \in 1 .. 22
         /\ Checks(t) \/ Selects(t) \/ Writes(t)
<1> DEFINE p == MergeAt(t)
<1>1. /\ MergeShape(t) /\ p \in 1 .. 23
      /\ Head(todo[t]).op = MergeOps[p] /\ Head(todo[t]).of = MergeTables[p]
      /\ Tail(todo[t]) = SubSeq(MergeAnonymous, p + 1, 23)
      /\ Len(Tail(todo[t])) = 23 - p
  BY MergeHead
<1>2. Checks(t) \/ Selects(t) \/ Writes(t)
  BY <1>1, MergeStatements DEF Loads, Sums
<1>3. p # 23
  BY <1>1, <1>2, MergeStatements DEF Checks, Selects, Writes, WriteOps
<1>4. todo'[t] = Tail(todo[t])
  BY <1>2 DEF Checks, Selects, Writes
<1>5. MergeAt(t)' = p + 1
  BY <1>1, <1>4 DEF MergeAt
<1>6. MergeFollows(t)'
  <2>1. p + 1 \in 1 .. 23
    <3> HIDE DEF p
    <3>1. QED
      BY <1>1, <1>3
  <2>2. MergeAt(t)' \in 1 .. 23 /\ todo'[t] = SubSeq(MergeAnonymous, MergeAt(t)', 23)
    BY <1>1, <1>4, <1>5, <2>1
  <2>3. QED
    BY <2>2 DEF MergeFollows
<1>7. \A row \in DOMAIN own[t] : MergeOwns(t, p + 1, row, own[t][row])
  <2>1. SUFFICES ASSUME NEW row \in DOMAIN own[t] PROVE MergeOwns(t, p + 1, row, own[t][row])
    OBVIOUS
  <2>2. MergeOwns(t, p, row, own[t][row])
    BY <1>1 DEF MergeShape
  <2>3. \A table : FirstAt(table) \in Nat /\ LastAt(table) \in Nat
    BY DEF FirstAt, LastAt
  <2>4. QED
    <3>1. /\ \A table : FirstAt(table) < p => FirstAt(table) < p + 1
          /\ \A table : LastAt(table) < p => LastAt(table) < p + 1
          /\ 22 < p => 22 < p + 1
      <4>1. p \in 1 .. 23
        BY <1>1
      <4> HIDE DEF p
      <4>2. QED
        BY <2>3, <4>1
    <3>2. QED
      BY <2>2, <3>1 DEF MergeOwns
<1>8. \A row \in DOMAIN own'[t] : MergeOwns(t, p + 1, row, own'[t][row])
  <2>1. CASE own'[t] = own[t]
    BY <1>7, <2>1
  <2>2. CASE Writes(t)
    <3>1. own'[t] = Overlay(Effect(t), own[t])
      BY <2>2 DEF Writes
    <3>2. \A row \in DOMAIN Effect(t) : MergeOwns(t, p + 1, row, Effect(t)[row])
      BY <2>2, MergeEffect DEF Writes
    <3>3. QED
      BY <1>7, <3>1, <3>2 DEF Overlay
  <2>3. QED
    BY <1>2, <2>1, <2>2 DEF Checks, Selects
<1>9. ASSUME NEW table \in Moved, p + 1 = FirstAt(table), NEW row \in DOMAIN read'[t]
      PROVE  row \in RowsOf(table, Target(t)) /\ read'[t][row] \in Values(row)
  <2>1. Head(todo[t]).op = "select" /\ Head(todo[t]).of = table
    <3>1. \/ p = 4 /\ table = "xp_tracks"
          \/ p = 7 /\ table = "rule_state"
          \/ p = 15 /\ table = "wallets"
          \/ p = 19 /\ table = "leaderboard_entries"
      <4>1. /\ FirstAt("xp_tracks") = 5 /\ FirstAt("rule_state") = 8
            /\ FirstAt("wallets") = 16 /\ FirstAt("leaderboard_entries") = 20
        BY DEF FirstAt
      <4>2. \/ table = "xp_tracks" /\ p + 1 = 5
            \/ table = "rule_state" /\ p + 1 = 8
            \/ table = "wallets" /\ p + 1 = 16
            \/ table = "leaderboard_entries" /\ p + 1 = 20
        BY <1>9, <4>1 DEF Moved
      <4>3. p \in 1 .. 23
        BY <1>1
      <4> HIDE DEF p
      <4>4. QED
        BY <4>2, <4>3
    <3>2. MergeOps[p] = "select" /\ MergeTables[p] = table
      BY <3>1 DEF MergeOps, MergeTables
    <3>3. QED
      BY <1>1, <3>2
  <2>2. Selects(t)
    BY <1>2, <2>1 DEF Checks, Writes, WriteOps
  <2> DEFINE found == Present(t, RowsOf(table, Source(t)))
             rows == {OfTarget(t, r) : r \in found}
  <2>3. read'[t] = [r \in rows |-> Seen(t, [r EXCEPT ![2] = Source(t)])]
    BY <2>1, <2>2 DEF Selects
  <2>4. PICK r \in found : row = OfTarget(t, r)
    BY <1>9, <2>3
  <2>5. r \in RowsOf(table, Source(t)) /\ Seen(t, r) # None
    BY <2>4 DEF Present
  <2>6. t \in Calls /\ Source(t) \in Users /\ Target(t) \in Users
    BY CallKinds DEF Open
  <2>7. row \in RowsOf(table, Target(t))
    BY <2>4, <2>5, <2>6, Renamed
  <2>8. [row EXCEPT ![2] = Source(t)] = r
    <3>1. /\ \A a, b : [[<<table, a>> EXCEPT ![2] = b] EXCEPT ![2] = a] = <<table, a>>
          /\ \A a, b, k : [[<<table, a, k>> EXCEPT ![2] = b] EXCEPT ![2] = a] = <<table, a, k>>
      OBVIOUS
    <3>2. CASE table = "xp_tracks"
      <4>1. PICK k \in Tracks : r = <<table, Source(t), k>>
        BY <2>5, <3>2 DEF RowsOf, SimpleTables
      <4>2. QED
        BY <2>4, <3>1, <4>1 DEF OfTarget
    <3>3. CASE table # "xp_tracks"
      <4>1. r = <<table, Source(t)>>
        BY <1>9, <2>5, <3>3 DEF RowsOf, Moved, SimpleTables
      <4>2. QED
        BY <2>4, <3>1, <4>1 DEF OfTarget
    <3>4. QED
      BY <3>2, <3>3
  <2>9. read'[t][row] = Seen(t, r)
    BY <1>9, <2>3, <2>8
  <2>10. r \in Row /\ r[1] = table /\ row[1] = table
    BY <2>5, <2>6, <2>7, RowsAreRows, RowNames DEF StateTables
  <2>11. Seen(t, r) \in Values(r)
    BY <2>5, <2>6, <2>10, SeenTyped
  <2>12. Values(r) = Values(row)
    BY <2>10, ValueKinds DEF StateTables
  <2>13. QED
    BY <2>7, <2>9, <2>11, <2>12
<1>10. MergeShape(t)'
  <2>1. \A row \in DOMAIN own'[t] : MergeOwns(t, MergeAt(t)', row, own'[t][row])
    BY <1>5, <1>8
  <2>2. \A table \in Moved : MergeAt(t)' = FirstAt(table)
          => \A row \in DOMAIN read'[t] :
               row \in RowsOf(table, Target(t)) /\ read'[t][row] \in Values(row)
    BY <1>5, <1>9
  <2>3. QED
    BY <1>6, <2>1, <2>2 DEF MergeShape
<1>11. QED
  BY <1>1, <1>2, <1>3, <1>5, <1>10 DEF Shape

LEMMA LinkKeepsShape ==
  ASSUME Shapes, NEW t \in Open, Kind(t) = "link",
         Checks(t) \/ Loads(t) \/ Selects(t) \/ Sums(t) \/ Writes(t)
  PROVE  /\ Shape(t)' /\ LinkAt(t)' = LinkAt(t) + 1 /\ LinkAt(t) \in 1 .. 3
         /\ Checks(t) \/ Writes(t)
<1> DEFINE p == LinkAt(t)
<1>1. /\ LinkShape(t) /\ p \in 1 .. 4
      /\ Head(todo[t]).op = LinkOps[p]
      /\ Tail(todo[t]) = SubSeq(LinkIdentity, p + 1, 4)
      /\ Len(Tail(todo[t])) = 4 - p
  BY LinkHead
<1>2. Checks(t) \/ Writes(t)
  BY <1>1, LinkStatements DEF Loads, Sums, Selects
<1>3. p # 4
  BY <1>1, <1>2, LinkStatements DEF Checks, Writes, WriteOps
<1>4. todo'[t] = Tail(todo[t])
  BY <1>2 DEF Checks, Writes
<1>5. LinkAt(t)' = p + 1
  BY <1>1, <1>4 DEF LinkAt
<1>6. LinkFollows(t)'
  BY <1>1, <1>3, <1>4, <1>5 DEF LinkFollows
<1>7. DOMAIN own[t] = {}
  BY <1>1, <1>3 DEF LinkShape
<1>8. \A row \in DOMAIN own'[t] :
        p + 1 = 4 /\ row = IdentityRow(Call[t].identity) /\ own'[t][row] = Actor(t)
  <2>1. CASE own'[t] = own[t]
    BY <1>7, <2>1
  <2>2. CASE Writes(t)
    <3>1. own'[t] = Overlay(Effect(t), own[t])
      BY <2>2 DEF Writes
    <3>2. \A row \in DOMAIN Effect(t) :
            /\ p = 3 /\ row = IdentityRow(Call[t].identity)
            /\ Effect(t)[row] = Actor(t)
      BY <2>2, LinkEffect DEF Writes
    <3>3. QED
      BY <1>7, <3>1, <3>2 DEF Overlay
  <2>3. QED
    BY <1>2, <2>1, <2>2 DEF Checks
<1>9. LinkShape(t)'
  <2>1. \A row \in DOMAIN own'[t] :
          /\ LinkAt(t)' = 4 /\ row = IdentityRow(Call[t].identity)
          /\ own'[t][row] = Actor(t)
    BY <1>5, <1>8
  <2>2. QED
    BY <1>6, <2>1 DEF LinkShape
<1>10. QED
  BY <1>1, <1>2, <1>3, <1>5, <1>9 DEF Shape

LEMMA EventKeepsShape ==
  ASSUME Shapes, NEW t \in Open, Kind(t) = "event",
         Checks(t) \/ Loads(t) \/ Selects(t) \/ Sums(t) \/ Writes(t)
  PROVE  /\ Shape(t)' /\ Loaded(t)'
         /\ \/ Loads(t) /\ ~Loaded(t)
            \/ Loaded(t) /\ (Sums(t) \/ Writes(t))
<1>1. t \in Calls /\ Actor(t) \in Users
  BY CallKinds DEF Open
<1>2. CASE ~Loaded(t)
  <2>1. DOMAIN own[t] = {} /\ Head(todo[t]).op = "load"
    BY <1>2, NotLoaded
  <2>2. Loads(t)
    BY <2>1 DEF Checks, Selects, Sums, Writes, WriteOps
  <2>3. PICK commands \in Commands(t), rows \in PersistState(t) :
          todo'[t] = ApplyOutcome(t, commands, rows)
    BY <2>2 DEF Loads
  <2> DEFINE q == todo'[t]
  <2>4. /\ q \in Seq(Statements) /\ Len(q) > 0
        /\ q[Len(q)] = Statement("commit", "users")
        /\ InOrder(q) /\ Together(q)
    BY <1>1, <2>3, LoadedStatements
  <2>5. Elements(q) = (CommandStatements(t) \union {Persist(row) : row \in Projected(t)})
                         \union {Statement("commit", "users")}
    BY <1>1, <2>3, LoadedStatements
  <2>6. read'[t] = Outcome(t) /\ DOMAIN read'[t] = Projected(t)
    BY <2>2 DEF Loads, Outcome
  <2>7. \A row \in DOMAIN read'[t] : row \in Row /\ read'[t][row] \in Values(row)
    BY <1>2, <2>6, OutcomeTyped
  <2>8. \A s \in Elements(q) : EventStatement(t, s)'
    <3>1. SUFFICES ASSUME NEW s \in Elements(q) PROVE EventStatement(t, s)'
      OBVIOUS
    <3>2. CASE \E row \in Projected(t) : s = Persist(row)
      <4>1. PICK row \in Projected(t) : s = Persist(row)
        BY <3>2
      <4>2. row[1] \in Persisted /\ row[2] = Actor(t)
        BY <1>1, ProjectedRows
      <4>3. s.of = row
        BY <4>1, <4>2, PhasesOfTables
      <4>4. QED
        BY <2>6, <4>1, <4>2, <4>3 DEF EventStatement
    <3>3. QED
      BY <2>5, <3>1, <3>2 DEF EventStatement
  <2>9. q \in Seq(Elements(q))
    <3> HIDE DEF q
    <3>1. DOMAIN q = 1 .. Len(q) /\ Len(q) \in Nat /\ q = [i \in DOMAIN q |-> q[i]]
      BY <2>4
    <3>2. \A i \in DOMAIN q : q[i] \in Elements(q)
      BY DEF Elements
    <3> DEFINE E == Elements(q)
    <3> HIDE DEF E
    <3>3. q \in [1 .. Len(q) -> E]
      BY <3>1, <3>2 DEF E
    <3>4. q \in Seq(E)
      BY <3>1, <3>3
    <3>5. QED
      BY <3>4 DEF E
  <2>10. EventFollows(t)'
    BY <2>4, <2>8, <2>9 DEF EventFollows
  <2>11. DOMAIN own'[t] = {}
    BY <2>1, <2>2 DEF Loads
  <2>12. Call[t].xp > 0 => Still(t, Statement("sum", WalletRow(t)))'
    <3>1. Call[t].xp > 0 => Statement("sum", WalletRow(t)) \in Elements(q)
      BY <2>5 DEF CommandStatements
    <3>2. QED
      BY <3>1 DEF Still
  <2>13. Still(t, Statement("write", RuleRow(t)))'
    <3>1. RuleRow(t) \in Projected(t)
      BY DEF Projected
    <3>2. Persist(RuleRow(t)) = Statement("write", RuleRow(t))
      BY <1>1, ActorRows DEF Persist
    <3>3. Statement("write", RuleRow(t)) \in Elements(q)
      BY <2>5, <3>1, <3>2
    <3>4. QED
      BY <3>3 DEF Still
  <2>14. EventShape(t)'
    BY <2>7, <2>10, <2>11, <2>12, <2>13 DEF EventShape
  <2>15. Loaded(t)'
    <3> DEFINE s == Statement("load", "users")
    <3>1. s # Statement("commit", "users")
      BY DEF Statement
    <3> HIDE DEF s, q
    <3>2. q # <<s>>
      BY <2>4, <3>1
    <3>3. QED
      BY <3>2 DEF Loaded, s, q
  <2>16. QED
    BY <1>2, <2>2, <2>14, <2>15 DEF Shape
<1>3. CASE Loaded(t)
  <2> DEFINE s == Head(todo[t])
             rest == Tail(todo[t])
  <2>1. s.op \in Ops
    BY <1>3, EventHead
  <2>2. Sums(t) \/ Writes(t)
    BY <2>1 DEF Ops, Checks, Loads, Selects
  <2>3. todo'[t] = rest /\ s.op # "commit"
    BY <2>2 DEF Sums, Writes, WriteOps
  <2>4. /\ EventFollows(t)
        /\ \A r \in DOMAIN own[t] : EventOwns(t, Phase(s), r, own[t][r])
        /\ \A r \in DOMAIN read[t] : r \in Row /\ read[t][r] \in Values(r)
        /\ EventStatement(t, s)
        /\ Elements(todo[t]) = {s} \union Elements(rest)
        /\ \A r \in Elements(rest) : Phase(s) <= Phase(r)
    BY <1>3, EventHead
  <2>5. Call[t].xp > 0 => \/ Still(t, Statement("sum", WalletRow(t)))
                          \/ WalletRow(t) \in DOMAIN read[t]
    BY <1>3, EventHead
  <2>6. /\ rest \in Seq(Elements(rest)) /\ Len(rest) > 0
        /\ rest[Len(rest)] = Statement("commit", "users")
        /\ InOrder(rest) /\ Together(rest) /\ Head(rest) \in Elements(rest)
    BY <1>3, <2>3, EventHead
  <2>7. /\ DOMAIN read[t] \subseteq DOMAIN read'[t]
        /\ \A r \in DOMAIN read'[t] : r \in Row /\ read'[t][r] \in Values(r)
        /\ Sums(t) => WalletRow(t) \in DOMAIN read'[t] /\ s = Statement("sum", WalletRow(t))
    <3>1. CASE Writes(t)
      BY <2>4, <3>1 DEF Writes, Sums, WriteOps
    <3>2. CASE Sums(t)
      <4>1. s = Statement("sum", WalletRow(t)) /\ s.of = WalletRow(t)
        <5>1. s.op = "sum"
          BY <3>2 DEF Sums
        <5>2. s = Statement("sum", WalletRow(t))
          BY <1>1, <2>4, <5>1, StatementForms
        <5>3. QED
          BY <5>2 DEF Statement
      <4>2. read'[t] = Overlay([row \in {WalletRow(t)} |-> LedgerSum(View(t), Actor(t))], read[t])
        BY <3>2, <4>1 DEF Sums
      <4>3. LedgerSum(View(t), Actor(t)) \in Nat
        BY LedgerSumTyped
      <4>4. WalletRow(t) \in Row /\ Values(WalletRow(t)) = Nat
        BY <1>1, ActorRows, ValueKinds DEF StateTables, Moved, SimpleTables
      <4>5. QED
        BY <2>4, <4>1, <4>2, <4>3, <4>4 DEF Overlay
    <3>3. QED
      BY <2>2, <3>1, <3>2
  <2>8. \A r \in Elements(rest) : EventStatement(t, r)'
    <3>1. \A r \in Elements(rest) : EventStatement(t, r)
      BY <2>4 DEF EventFollows
    <3>2. QED
      BY <2>7, <3>1 DEF EventStatement
  <2>9. EventFollows(t)'
    BY <2>3, <2>6, <2>8 DEF EventFollows
  <2>10. \A r \in DOMAIN own'[t] : EventOwns(t, Phase(Head(rest)), r, own'[t][r])
    <3>1. \A r \in DOMAIN own[t] : EventOwns(t, Phase(Head(rest)), r, own[t][r])
      <4>1. /\ Phase(s) \in 1 .. 9 /\ Phase(Head(rest)) \in 1 .. 9
            /\ Phase(s) <= Phase(Head(rest))
        BY <2>4, <2>6, PhasesOf
      <4> HIDE DEF s, rest
      <4>2. 3 < Phase(s) => 3 < Phase(Head(rest))
        BY <4>1
      <4>3. QED
        BY <2>4, <4>2 DEF EventOwns
    <3>2. CASE Sums(t)
      BY <3>1, <3>2 DEF Sums
    <3>3. CASE Writes(t)
      <4>1. own'[t] = Overlay(Effect(t), own[t])
        BY <3>3 DEF Writes
      <4>2. \A r \in DOMAIN Effect(t) : EventOwns(t, Phase(Head(rest)), r, Effect(t)[r])
        BY <1>3, <2>6, <3>3, EventEffect DEF Writes
      <4>3. QED
        BY <3>1, <4>1, <4>2 DEF Overlay
    <3>4. QED
      BY <2>2, <3>2, <3>3
  <2>11. Call[t].xp > 0 => \/ Still(t, Statement("sum", WalletRow(t)))'
                           \/ WalletRow(t) \in DOMAIN read'[t]
    <3>1. CASE Sums(t)
      BY <2>7, <3>1
    <3>2. CASE Writes(t)
      <4>1. s # Statement("sum", WalletRow(t))
        BY <3>2 DEF Writes, WriteOps, Statement
      <4>2. Elements(todo[t]) = {s} \union Elements(todo'[t])
        BY <2>3, <2>4
      <4>3. QED
        BY <2>5, <2>7, <4>1, <4>2 DEF Still
    <3>3. QED
      BY <2>2, <3>1, <3>2
  <2>12. \/ Still(t, Statement("write", RuleRow(t)))'
         \/ RuleRow(t) \in DOMAIN own'[t]
    <3>1. \/ Still(t, Statement("write", RuleRow(t)))
          \/ RuleRow(t) \in DOMAIN own[t]
      BY <1>3, EventHead
    <3>2. DOMAIN own[t] \subseteq DOMAIN own'[t]
      BY <2>2 DEF Sums, Writes, Overlay
    <3>3. CASE s = Statement("write", RuleRow(t))
      <4>1. s.op = "write" /\ s.of = RuleRow(t)
        BY <3>3 DEF Statement
      <4>2. Writes(t)
        BY <2>2, <4>1 DEF Sums
      <4>3. RuleRow(t) \in DOMAIN Effect(t)
        BY <4>1 DEF Effect
      <4>4. QED
        BY <4>2, <4>3 DEF Writes, Overlay
    <3>4. CASE s # Statement("write", RuleRow(t))
      <4>1. Elements(todo[t]) = {s} \union Elements(todo'[t])
        BY <2>3, <2>4
      <4>2. QED
        BY <3>1, <3>2, <3>4, <4>1 DEF Still
    <3>5. QED
      BY <3>3, <3>4
  <2>13. EventShape(t)'
    BY <2>3, <2>7, <2>9, <2>10, <2>11, <2>12 DEF EventShape
  <2>14. Loaded(t)'
    <3> DEFINE c == Statement("load", "users")
    <3>1. c # Statement("commit", "users")
      BY DEF Statement
    <3>2. rest # <<c>>
      <4> HIDE DEF c, rest
      <4>1. QED
        BY <2>6, <3>1
    <3>3. QED
      BY <2>3, <3>2 DEF Loaded
  <2>15. QED
    BY <1>3, <2>2, <2>13, <2>14 DEF Shape
<1>4. QED
  BY <1>2, <1>3

LEMMA BeginShape ==
  ASSUME Shapes, NEW t \in Calls, Begins(t)
  PROVE  Shape(t)'
<1>1. DOMAIN own'[t] = {} /\ todo'[t] = Program(t)
  BY DEF Begins, Shapes, Open
<1>2. CASE Kind(t) = "merge"
  <2>1. todo'[t] = MergeAnonymous
    BY <1>1, <1>2 DEF Program
  <2>2. MergeAnonymous = SubSeq(MergeAnonymous, 1, 23) /\ Len(MergeAnonymous) = 23
    <3>1. \A S : \A q \in Seq(S) : q = SubSeq(q, 1, Len(q))
      OBVIOUS
    <3>2. QED
      BY <3>1, Programs
  <2>3. MergeAt(t)' = 1
    BY <2>1, <2>2 DEF MergeAt
  <2>4. MergeFollows(t)'
    BY <2>1, <2>2, <2>3 DEF MergeFollows
  <2>5. \A table \in Moved : FirstAt(table) # 1
    BY DEF FirstAt, Moved
  <2>6. MergeShape(t)'
    BY <1>1, <2>3, <2>4, <2>5 DEF MergeShape
  <2>7. QED
    BY <1>2, <2>6 DEF Shape
<1>3. CASE Kind(t) = "link"
  <2>1. todo'[t] = LinkIdentity
    BY <1>1, <1>3 DEF Program
  <2>2. LinkIdentity = SubSeq(LinkIdentity, 1, 4) /\ Len(LinkIdentity) = 4
    <3>1. \A S : \A q \in Seq(S) : q = SubSeq(q, 1, Len(q))
      OBVIOUS
    <3>2. QED
      BY <3>1, Programs
  <2>3. LinkAt(t)' = 1
    BY <2>1, <2>2 DEF LinkAt
  <2>4. LinkFollows(t)'
    BY <2>1, <2>2, <2>3 DEF LinkFollows
  <2>5. LinkShape(t)'
    BY <1>1, <2>4 DEF LinkShape
  <2>6. QED
    BY <1>3, <2>5 DEF Shape
<1>4. CASE Kind(t) = "event"
  <2>1. todo'[t] = <<Statement("load", "users")>>
    BY <1>1, <1>4 DEF Program
  <2>2. EventShape(t)'
    BY <1>1, <2>1 DEF EventShape, Loaded
  <2>3. QED
    BY <1>4, <2>2 DEF Shape
<1>5. QED
  BY <1>2, <1>3, <1>4, CallKinds

\* What a call writes is rows, with values of their types.
LEMMA EffectTyped ==
  ASSUME Shapes, NEW t \in Open, Writes(t), NEW row \in DOMAIN Effect(t)
  PROVE  row \in Row /\ Effect(t)[row] \in Values(row) \union {None}
<1>1. t \in Calls /\ Head(todo[t]).op \in WriteOps
  BY DEF Open, Writes
<1>2. CASE Kind(t) = "merge"
  BY <1>1, <1>2, MergeEffect
<1>3. CASE Kind(t) = "link"
  BY <1>1, <1>3, LinkEffect
<1>4. CASE Kind(t) = "event"
  <2>1. Loaded(t)
    BY <1>1, <1>4, NotLoaded DEF WriteOps
  <2>2. QED
    BY <1>1, <1>4, <2>1, EventEffect
<1>5. QED
  BY <1>1, <1>2, <1>3, <1>4, CallKinds

LEMMA ShapesStep ==
  ASSUME Shapes, MergeNext
  PROVE  Shapes'
<1>1. MergeTypeOK /\ Domains
  BY DEF Shapes, Domains
<1>2. PICK t \in Calls :
        /\ Others(t)
        /\ \/ Begins(t) \/ Checks(t) \/ Loads(t) \/ Selects(t) \/ Sums(t) \/ Writes(t)
           \/ Ends(t) \/ Commits(t)
  BY <1>1, Steps
<1>3. Domains' /\ status' \in [Calls -> {"waiting", "running", "done"}]
  BY <1>2 DEF Others
<1>4. ASSUME NEW x \in Calls \ {t}
      PROVE  /\ own'[x] = own[x]
             /\ x \in Open' <=> x \in Open
             /\ x \in Open => Shape(x)'
  <2>1. /\ own'[x] = own[x] /\ todo'[x] = todo[x] /\ read'[x] = read[x]
        /\ status'[x] = status[x]
    BY <1>2 DEF Others
  <2>2. x \in Open' <=> x \in Open
    BY <2>1 DEF Open
  <2>3. x \in Open => Shape(x)
    BY DEF Shapes
  <2>4. QED
    BY <2>1, <2>2, <2>3, ShapeKept
<1>5. CASE Begins(t)
  <2>1. Shape(t)'
    BY <1>5, BeginShape
  <2>2. own'[t] = own[t] /\ db' = db /\ due' = due
    BY <1>5 DEF Begins
  <2>3. tangled' \subseteq Users
    <3>1. \A x \in Calls : UsersOf(x) \subseteq Users
      BY CallKinds DEF UsersOf
    <3>2. tangled' = tangled \union UNION {UsersOf(t) \union UsersOf(x) :
                                            x \in {y \in Open : Clash(t, y) \/ Clash(y, t)}}
      BY <1>5 DEF Begins
    <3>3. tangled \subseteq Users
      BY <1>1 DEF MergeTypeOK
    <3>4. QED
      BY <3>1, <3>2, <3>3 DEF Open
  <2>4. MergeTypeOK'
    <3>1. \A x \in Calls : own'[x] = own[x]
      BY <1>4, <2>2
    <3>2. QED
      BY <1>1, <1>3, <2>2, <2>3, <3>1 DEF MergeTypeOK
  <2>5. \A x \in Calls : DOMAIN own'[x] \subseteq Row
    BY <1>4, <2>2 DEF Shapes
  <2>6. \A x \in Calls \ Open' : DOMAIN own'[x] = {}
    <3>1. t \in Open'
      BY <1>5 DEF Begins, Open
    <3>2. QED
      BY <1>4, <3>1 DEF Shapes
  <2>7. \A x \in Open' : Shape(x)'
    BY <1>4, <2>1 DEF Open
  <2>8. QED
    BY <1>3, <2>4, <2>5, <2>6, <2>7 DEF Shapes, Domains
<1>6. CASE Checks(t) \/ Loads(t) \/ Selects(t) \/ Sums(t) \/ Writes(t)
  <2>1. t \in Open /\ status'[t] = "running" /\ UNCHANGED <<db, due, tangled>>
    BY <1>6 DEF Checks, Loads, Selects, Sums, Writes, Continues
  <2>2. Shape(t)'
    BY <1>6, <2>1, CallKinds, MergeKeepsShape, LinkKeepsShape, EventKeepsShape
  <2>3. \A row \in DOMAIN own'[t] :
          row \in Row /\ own'[t][row] \in Values(row) \union {None}
    <3>1. \A row \in DOMAIN own[t] :
            row \in Row /\ own[t][row] \in Values(row) \union {None}
      BY DEF Shapes, MergeTypeOK
    <3>2. CASE Writes(t)
      <4>1. own'[t] = Overlay(Effect(t), own[t])
        BY <3>2 DEF Writes
      <4>2. \A row \in DOMAIN Effect(t) :
              row \in Row /\ Effect(t)[row] \in Values(row) \union {None}
        BY <2>1, <3>2, EffectTyped
      <4>3. QED
        BY <3>1, <4>1, <4>2 DEF Overlay
    <3>3. QED
      BY <1>6, <3>1, <3>2 DEF Checks, Loads, Selects, Sums
  <2>4. MergeTypeOK'
    <3>1. ASSUME NEW x \in Calls, NEW row \in DOMAIN own'[x]
          PROVE  own'[x][row] \in Values(row) \union {None}
      BY <1>1, <1>4, <2>3, <3>1 DEF MergeTypeOK
    <3>2. QED
      BY <1>1, <1>3, <2>1, <3>1 DEF MergeTypeOK
  <2>5. \A x \in Calls : DOMAIN own'[x] \subseteq Row
    BY <1>4, <2>3 DEF Shapes
  <2>6. \A x \in Calls \ Open' : DOMAIN own'[x] = {}
    <3>1. t \in Open'
      BY <2>1 DEF Open
    <3>2. QED
      BY <1>4, <3>1 DEF Shapes
  <2>7. \A x \in Open' : Shape(x)'
    BY <1>4, <2>2 DEF Open
  <2>8. QED
    BY <1>3, <2>4, <2>5, <2>6, <2>7 DEF Shapes, Domains
<1>7. CASE Ends(t) \/ Commits(t)
  <2>1. Leaves(t) /\ t \in Open
    BY <1>7 DEF Ends, Commits, Leaves
  <2>2. own'[t] = <<>> /\ t \notin Open'
    BY <2>1 DEF Leaves, Open
  <2>3. /\ DOMAIN db' = Row
        /\ \A row \in Row : db'[row] \in Values(row) \union {None}
    <3>1. CASE db' = db
      BY <1>1, <3>1 DEF MergeTypeOK
    <3>2. CASE db' = Overlay(own[t], db)
      <4>1. \A row \in DOMAIN own[t] :
              row \in Row /\ own[t][row] \in Values(row) \union {None}
        BY DEF Shapes, MergeTypeOK
      <4>2. QED
        BY <1>1, <3>2, <4>1 DEF MergeTypeOK, Overlay
    <3>3. QED
      BY <1>7, <3>1, <3>2 DEF Ends, Commits
  <2>4. due' \in [Users -> Due]
    BY <1>1, <1>7, CreditedTyped DEF Ends, Commits, MergeTypeOK
  <2>5. tangled' \subseteq Users
    BY <1>1, <1>7, CallKinds DEF Ends, Commits, MergeTypeOK
  <2>6. MergeTypeOK'
    <3>1. ASSUME NEW x \in Calls, NEW row \in DOMAIN own'[x]
          PROVE  own'[x][row] \in Values(row) \union {None}
      BY <1>1, <1>4, <2>2, <3>1 DEF MergeTypeOK
    <3>2. QED
      BY <1>3, <2>3, <2>4, <2>5, <3>1 DEF MergeTypeOK
  <2>7. \A x \in Calls : DOMAIN own'[x] \subseteq Row
    BY <1>4, <2>2 DEF Shapes
  <2>8. \A x \in Calls \ Open' : DOMAIN own'[x] = {}
    BY <1>4, <2>2 DEF Shapes
  <2>9. \A x \in Open' : Shape(x)'
    BY <1>4, <2>2 DEF Open
  <2>10. QED
    BY <1>3, <2>6, <2>7, <2>8, <2>9 DEF Shapes, Domains
<1>8. QED
  BY <1>2, <1>5, <1>6, <1>7

LEMMA StartShapes ==
  ASSUME MergeInit
  PROVE  Shapes
<1>1. DOMAIN Start = Row /\ \A row \in Row : Start[row] \in Values(row) \union {None}
  BY MergeAssumption
<1>2. \A u \in Users : BoardOf(Start, u).score \in Nat
  <2>1. SUFFICES ASSUME NEW u \in Users PROVE BoardOf(Start, u).score \in Nat
    OBVIOUS
  <2> DEFINE row == <<"leaderboard_entries", u>>
  <2>2. row \in RowsOf("leaderboard_entries", u) /\ row[1] = "leaderboard_entries"
    BY DEF RowsOf, SimpleTables
  <2>3. row \in Row
    BY <2>2, RowsAreRows DEF StateTables, Moved, SimpleTables
  <2>4. Start[row] \in Score \union {None}
    BY <1>1, <2>2, <2>3, ValueKinds
  <2>5. QED
    BY <2>4 DEF BoardOf, Score
<1>3. due \in [Users -> Due]
  BY <1>2, LedgerSumTyped DEF MergeInit, Due
<1>4. MergeTypeOK
  BY <1>1, <1>3 DEF MergeInit, MergeTypeOK
<1>5. QED
  BY <1>4 DEF MergeInit, Shapes, Open

LEMMA ShapesHold == MergeSpec => []Shapes
<1>1. MergeInit => Shapes
  BY StartShapes
<1>2. Shapes /\ [MergeNext]_mergeVars => Shapes'
  <2>1. CASE MergeNext
    BY <2>1, ShapesStep
  <2>2. CASE UNCHANGED mergeVars
    <3>1. ASSUME Shapes, UNCHANGED mergeVars, NEW x, Shape(x) PROVE Shape(x)'
      BY <3>1, ShapeKept DEF mergeVars
    <3>2. QED
      BY <2>2, <3>1 DEF Shapes, MergeTypeOK, mergeVars, Open
  <2>3. QED
    BY <2>1, <2>2
<1>3. QED
  BY <1>1, <1>2, PTL DEF MergeSpec

\* Every row, committed or not, has a value of its type, in every state.
THEOREM MergeTypes == MergeSpec => []MergeTypeOK
<1>1. Shapes => MergeTypeOK
  BY DEF Shapes
<1>2. QED
  BY <1>1, ShapesHold, PTL

-----------------------------------------------------------------------------
(* Whose rows.                                                             *)

\* The rows that the next statement of a merge writes are of one table, and those
\* that it has written are of tables that it has come to.
LEMMA MergeWrites ==
  ASSUME Shapes, NEW t \in Open, Kind(t) = "merge", NEW row \in DOMAIN Effect(t)
  PROVE  /\ row[1] = Head(todo[t]).of
         /\ FirstAt(row[1]) <= MergeAt(t) /\ MergeAt(t) <= LastAt(row[1])
         /\ LastAt(row[1]) = MergeAt(t) /\ row[1] \in Moved => row[2] = Source(t)
<1> DEFINE p == MergeAt(t)
           op == Head(todo[t]).op
           table == Head(todo[t]).of
<1>1. MergeShape(t) /\ p \in 1 .. 23 /\ op = MergeOps[p] /\ table = MergeTables[p]
  BY MergeHead
<1>2. t \in Calls /\ Source(t) \in Users /\ Target(t) \in Users
  BY CallKinds DEF Open
<1>3. \A x : LastAt(x) = IF x \in Moved THEN FirstAt(x) + 1 ELSE FirstAt(x)
  BY DEF LastAt
<1>4. \A x : FirstAt(x) \in Nat
  BY DEF FirstAt
<1>5. CASE op = "upsert"
  <2>1. table \in Moved /\ FirstAt(table) = p
    BY <1>1, <1>5, MergeStatements
  <2>2. row \in DOMAIN read[t]
    BY <1>5 DEF Effect, Upserted
  <2>3. row[1] = table
    BY <1>1, <2>1, <2>2, RowNames DEF MergeShape
  <2>4. p \in Nat /\ LastAt(table) = p + 1
    BY <1>1, <1>3, <2>1
  <2>5. QED
    BY <2>1, <2>3, <2>4
<1>6. CASE op = "delete"
  <2>1. table \in Moved /\ LastAt(table) = p
    BY <1>1, <1>6, MergeStatements
  <2>2. row \in RowsOf(table, Source(t))
    BY <1>6 DEF Effect, Deleted, Present
  <2>3. row[1] = table /\ row[2] = Source(t)
    BY <2>2, RowNames
  <2>4. QED
    BY <1>3, <1>4, <2>1, <2>3
<1>7. CASE op = "repoint"
  <2>1. table \in OwnerTables /\ FirstAt(table) = p
    BY <1>1, <1>7, MergeStatements
  <2>2. row[1] = table
    BY <1>7 DEF Effect, Repointed
  <2>3. table \notin Moved
    BY <2>1 DEF OwnerTables, Moved
  <2>4. QED
    BY <1>3, <1>4, <2>1, <2>2, <2>3
<1>8. CASE op = "reown"
  <2>1. table \in SimpleTables /\ FirstAt(table) = p
    BY <1>1, <1>8, MergeStatements
  <2>2. \E u : row \in RowsOf(table, u)
    BY <1>2, <1>8, Renamed DEF Effect, Reowned, Overlay, Present
  <2>3. row[1] = table
    BY <2>2, RowNames
  <2>4. table \notin Moved
    BY <2>1 DEF SimpleTables, Moved
  <2>5. QED
    BY <1>3, <1>4, <2>1, <2>3, <2>4
<1>9. CASE op = "archive"
  <2>1. p = 22 /\ table = "users"
    BY <1>1, <1>9, MergeStatements DEF MergeTables
  <2>2. row[1] = "users"
    BY <1>9, RowNames DEF Effect
  <2>3. FirstAt("users") = 22 /\ "users" \notin Moved
    BY DEF FirstAt, Moved
  <2>4. QED
    BY <1>3, <2>1, <2>2, <2>3
<1>10. CASE op \in {"validate", "select", "commit"}
  BY <1>10 DEF Effect
<1>11. QED
  BY <1>1, <1>5, <1>6, <1>7, <1>8, <1>9, <1>10, MergeStatements

LEMMA MergeHasCome ==
  ASSUME Shapes, NEW x \in Open, Kind(x) = "merge", NEW row \in DOMAIN own[x]
  PROVE  /\ FirstAt(row[1]) < MergeAt(x)
         /\ row[1] \in Moved /\ MergeAt(x) <= LastAt(row[1]) => row[2] = Target(x)
<1>1. MergeAt(x) \in 1 .. 23 /\ MergeOwns(x, MergeAt(x), row, own[x][row])
  BY MergeHead DEF MergeShape
<1>2. \A table : /\ FirstAt(table) \in Nat /\ LastAt(table) \in Nat
                 /\ FirstAt(table) <= LastAt(table)
  BY DEF FirstAt, LastAt
<1>3. FirstAt("users") = 22 /\ UserRow(Source(x))[1] = "users" /\ "users" \notin Moved
  BY RowNames DEF FirstAt, Moved
<1>4. Moved \intersect OwnerTables = {}
  BY DEF Moved, OwnerTables
<1> DEFINE p == MergeAt(x)
<1>5. p \in Nat
  BY <1>1
<1> HIDE DEF p
<1>6. MergeOwns(x, p, row, own[x][row])
  BY <1>1 DEF p
<1>7. FirstAt(row[1]) < p
  BY <1>2, <1>3, <1>5, <1>6 DEF MergeOwns
<1>8. ASSUME row[1] \in Moved, p <= LastAt(row[1]) PROVE row[2] = Target(x)
  BY <1>2, <1>3, <1>4, <1>5, <1>6, <1>8 DEF MergeOwns
<1>9. QED
  BY <1>7, <1>8 DEF p

\* No two calls have written the same row.
Exclusive ==
  \A t, x \in Calls : t # x => DOMAIN own[t] \intersect DOMAIN own[x] = {}

\* Who may write an identity, an entry or a user, and what was there before.
EntriesOfDone == \A t \in Events : db[EntryRow(t)] # None => status[t] = "done"
OwnedBefore ==
  \A t \in Open : \A row \in DOMAIN own[t] :
    /\ Kind(t) = "merge" /\ row[1] \in OwnerTables => db[row] = Source(t)
    /\ Kind(t) = "link" => db[row] = None
Archived ==
  \A t \in Open :
    Kind(t) = "merge" /\ 22 < MergeAt(t) => UserRow(Source(t)) \in DOMAIN own[t]

Lawful == Exclusive /\ EntriesOfDone /\ OwnedBefore /\ Archived

\* A step of call t.
StepOf(t) ==
  /\ Others(t)
  /\ \/ Begins(t) \/ Checks(t) \/ Loads(t) \/ Selects(t) \/ Sums(t) \/ Writes(t)
     \/ Ends(t) \/ Commits(t)

LEMMA OneSteps ==
  ASSUME Shapes, MergeNext
  PROVE  \E t \in Calls : StepOf(t)
BY Steps DEF Shapes, Domains, StepOf

LEMMA OthersStay ==
  ASSUME NEW t \in Calls, Others(t), NEW x \in Calls \ {t}
  PROVE  /\ own'[x] = own[x] /\ todo'[x] = todo[x] /\ read'[x] = read[x]
         /\ status'[x] = status[x]
         /\ x \in Open' <=> x \in Open
         /\ MergeAt(x)' = MergeAt(x) /\ LinkAt(x)' = LinkAt(x)
BY DEF Others, Open, MergeAt, LinkAt

LEMMA OwnedKinds ==
  ASSUME Shapes, NEW x \in Open, NEW row \in DOMAIN own[x]
  PROVE  /\ row \in Row
         /\ row[1] = "users" =>
              /\ Kind(x) = "merge" /\ row = UserRow(Source(x)) /\ 22 < MergeAt(x)
              /\ own[x][row] = Target(x)
         /\ row[1] = "identities" =>
              \/ Kind(x) = "merge" /\ 3 < MergeAt(x) /\ own[x][row] = Target(x)
              \/ /\ Kind(x) = "link" /\ row = IdentityRow(Call[x].identity)
                 /\ own[x][row] = Actor(x)
         /\ row[1] = "ledger_entries" =>
              \/ Kind(x) = "merge" /\ 18 < MergeAt(x) /\ own[x][row] = Target(x)
              \/ Kind(x) = "event" /\ row = EntryRow(x) /\ own[x][row] = Actor(x)
         /\ row[1] \in StateTables =>
              \/ /\ Kind(x) = "merge"
                 /\ \/ row[2] = Target(x) /\ own[x][row] # None
                    \/ row[2] = Source(x) /\ own[x][row] = None
              \/ Kind(x) = "event" /\ row[2] = Actor(x) /\ own[x][row] # None
<1>1. x \in Calls /\ row \in Row
  BY DEF Open, Shapes
<1>2. /\ FirstAt("identities") = 3 /\ FirstAt("ledger_entries") = 18
      /\ OwnerTables = {"identities", "ledger_entries"}
      /\ "users" \notin StateTables /\ "identities" \notin StateTables
      /\ "ledger_entries" \notin StateTables
  BY DEF FirstAt, OwnerTables, StateTables, Moved, SimpleTables
<1>3. UserRow(Source(x))[1] = "users" /\ EntryRow(x)[1] = "ledger_entries"
      /\ IdentityRow(Call[x].identity)[1] = "identities"
  BY RowNames
<1>4. CASE Kind(x) = "merge"
  <2>1. MergeOwns(x, MergeAt(x), row, own[x][row])
    BY <1>4, MergeHead DEF MergeShape
  <2>2. QED
    BY <1>1, <1>2, <1>3, <1>4, <2>1 DEF MergeOwns
<1>5. CASE Kind(x) = "link"
  <2>1. row = IdentityRow(Call[x].identity) /\ own[x][row] = Actor(x)
    BY <1>5, LinkHead DEF LinkShape
  <2>2. QED
    BY <1>1, <1>2, <1>3, <1>5, <2>1
<1>6. CASE Kind(x) = "event"
  <2>1. Loaded(x)
    BY <1>6, NotLoaded
  <2>2. EventOwns(x, Phase(Head(todo[x])), row, own[x][row])
    BY <1>6, <2>1, EventHead
  <2>3. QED
    BY <1>1, <1>2, <1>3, <1>6, <2>2 DEF EventOwns
<1>7. QED
  BY <1>1, <1>4, <1>5, <1>6, CallKinds

\* A row changes when a call that has written it commits.
LEMMA RowsChange ==
  ASSUME Shapes, NEW t \in Calls, StepOf(t), NEW row \in Row
  PROVE  \/ db'[row] = db[row]
         \/ /\ Commits(t) /\ t \in Open /\ row \in DOMAIN own[t]
            /\ db'[row] = own[t][row]
<1>1. CASE Commits(t)
  <2>1. db' = Overlay(own[t], db) /\ t \in Open
    BY <1>1 DEF Commits, Leaves
  <2>2. DOMAIN db = Row
    BY DEF Shapes, MergeTypeOK
  <2>3. CASE row \in DOMAIN own[t]
    <3>1. db'[row] = own[t][row]
      BY <2>1, <2>3, Overlaid
    <3>2. QED
      BY <1>1, <2>1, <2>3, <3>1
  <2>4. CASE row \notin DOMAIN own[t]
    <3>1. db'[row] = db[row]
      BY <2>1, <2>2, <2>4 DEF Overlay
    <3>2. QED
      BY <3>1
  <2>5. QED
    BY <2>3, <2>4
<1>2. CASE ~Commits(t)
  BY <1>2 DEF StepOf, Begins, Checks, Loads, Selects, Sums, Writes, Continues, Ends
<1>3. QED
  BY <1>1, <1>2

LEMMA AtCommit ==
  ASSUME Shapes, NEW t \in Open, Commits(t)
  PROVE  /\ Kind(t) = "merge" => MergeAt(t) = 23
         /\ Kind(t) = "link" => LinkAt(t) = 4
         /\ t \notin Open'
<1>1. Head(todo[t]).op = "commit" /\ status'[t] = "done"
  BY DEF Commits
<1>2. Kind(t) = "merge" => MergeAt(t) = 23
  <2>1. SUFFICES ASSUME Kind(t) = "merge" PROVE MergeAt(t) = 23
    OBVIOUS
  <2>2. MergeAt(t) \in 1 .. 23 /\ MergeOps[MergeAt(t)] = "commit"
    BY <1>1, <2>1, MergeHead
  <2>3. QED
    BY <2>2, MergeStatements
<1>3. Kind(t) = "link" => LinkAt(t) = 4
  BY <1>1, LinkHead, LinkStatements
<1>4. QED
  BY <1>1, <1>2, <1>3 DEF Open

LEMMA ExclusiveStep ==
  ASSUME Shapes, Exclusive, NEW t \in Calls, StepOf(t)
  PROVE  Exclusive'
<1>1. Others(t)
  BY DEF StepOf
<1>2. ASSUME NEW y \in Calls \ {t}, NEW row \in DOMAIN own'[t], row \in DOMAIN own[y]
      PROVE  FALSE
  <2>1. row \notin DOMAIN own[t]
    BY <1>2 DEF Exclusive
  <2>2. Writes(t)
    BY <1>2, <2>1 DEF StepOf, Begins, Checks, Loads, Selects, Sums, Ends, Commits, Leaves
  <2>3. row \in DOMAIN Effect(t)
    BY <1>2, <2>1, <2>2 DEF Writes, Overlay
  <2>4. y \in Open /\ t \in Open
    BY <1>2, <2>2 DEF Shapes, Writes, Continues
  <2>5. ~Waits(t, y)
    BY <2>2, <2>4 DEF Writes, Free
  <2>6. row \in Wanted(t)
    BY <2>3 DEF Wanted
  <2>7. QED
    BY <1>2, <2>4, <2>5, <2>6 DEF Waits, Open
<1>3. \A y \in Calls \ {t} : own'[y] = own[y]
  BY <1>1, OthersStay
<1>4. SUFFICES ASSUME NEW x \in Calls, NEW y \in Calls, x # y,
                      NEW row \in DOMAIN own'[x], row \in DOMAIN own'[y]
               PROVE  FALSE
  BY DEF Exclusive
<1>5. CASE x = t
  BY <1>2, <1>3, <1>4, <1>5
<1>6. CASE y = t
  BY <1>2, <1>3, <1>4, <1>6
<1>7. CASE x # t /\ y # t
  BY <1>3, <1>4, <1>7 DEF Exclusive
<1>8. QED
  BY <1>5, <1>6, <1>7

LEMMA LawfulStep ==
  ASSUME Shapes, Lawful, NEW t \in Calls, StepOf(t)
  PROVE  Lawful'
<1>1. Others(t) /\ Exclusive /\ EntriesOfDone /\ OwnedBefore /\ Archived
  BY DEF StepOf, Lawful
<1>2. Exclusive'
  BY <1>1, ExclusiveStep
<1>3. \A x \in Calls \ {t} : /\ own'[x] = own[x] /\ status'[x] = status[x]
                             /\ x \in Open' <=> x \in Open
                             /\ MergeAt(x)' = MergeAt(x)
  BY <1>1, OthersStay
<1>4. EntriesOfDone'
  <2>1. SUFFICES ASSUME NEW x \in Events, db'[EntryRow(x)] # None PROVE status'[x] = "done"
    BY DEF EntriesOfDone
  <2>2. /\ x \in Calls /\ Kind(x) = "event" /\ EntryRow(x) \in Row
        /\ EntryRow(x)[1] = "ledger_entries"
    BY RowsAreRows, RowNames DEF Events
  <2>3. CASE db[EntryRow(x)] # None
    <3>1. status[x] = "done"
      BY <1>1, <2>3 DEF EntriesOfDone
    <3>2. x # t
      BY <3>1
         DEF StepOf, Begins, Checks, Loads, Selects, Sums, Writes, Continues, Ends, Commits,
                  Leaves, Open
    <3>3. QED
      BY <1>3, <2>2, <3>1, <3>2
  <2>4. CASE db[EntryRow(x)] = None
    <3>1. Commits(t) /\ t \in Open /\ EntryRow(x) \in DOMAIN own[t]
      BY <2>1, <2>2, <2>4, RowsChange
    <3>2. Kind(t) # "merge"
      <4>1. Kind(t) = "merge" => db[EntryRow(x)] = Source(t)
        BY <1>1, <2>2, <3>1 DEF OwnedBefore, OwnerTables
      <4>2. Kind(t) = "merge" => Source(t) # None
        BY <3>1, CallKinds, MergeAssumption DEF Open
      <4>3. QED
        BY <2>4, <4>1, <4>2
    <3>3. EntryRow(x) = EntryRow(t)
      BY <2>2, <3>1, <3>2, OwnedKinds
    <3>4. x = t
      BY <3>3 DEF EntryRow
    <3>5. QED
      BY <3>1, <3>4 DEF Commits
  <2>5. QED
    BY <2>3, <2>4
<1>5. OwnedBefore'
  <2>1. SUFFICES ASSUME NEW x \in Open', NEW row \in DOMAIN own'[x]
                 PROVE  /\ Kind(x) = "merge" /\ row[1] \in OwnerTables => db'[row] = Source(x)
                        /\ Kind(x) = "link" => db'[row] = None
    BY DEF OwnedBefore
  <2>2. x \in Calls
    BY DEF Open
  <2>3. ASSUME x \in Open, row \in DOMAIN own[x], row \in Row
        PROVE  /\ Kind(x) = "merge" /\ row[1] \in OwnerTables => db'[row] = Source(x)
               /\ Kind(x) = "link" => db'[row] = None
    <3>1. CASE db'[row] = db[row]
      BY <1>1, <2>3, <3>1 DEF OwnedBefore
    <3>2. CASE db'[row] # db[row]
      <4>1. Commits(t) /\ t \in Open /\ row \in DOMAIN own[t]
        BY <2>3, <3>2, RowsChange
      <4>2. t = x
        BY <1>1, <2>2, <2>3, <4>1 DEF Exclusive
      <4>3. t \notin Open'
        BY <4>1, AtCommit
      <4>4. QED
        BY <2>1, <4>2, <4>3
    <3>3. QED
      BY <3>1, <3>2
  <2>4. CASE x # t
    <3>1. x \in Open /\ row \in DOMAIN own[x]
      BY <1>3, <2>1, <2>2, <2>4
    <3>2. row \in Row
      BY <3>1, OwnedKinds
    <3>3. QED
      BY <2>3, <3>1, <3>2
  <2>5. CASE x = t
    <3>1. CASE row \in DOMAIN own[t]
      <4>1. x \in Open /\ row \in Row
        BY <2>2, <2>5, <3>1 DEF Shapes
      <4>2. QED
        BY <2>3, <2>5, <3>1, <4>1
    <3>2. CASE row \notin DOMAIN own[t]
      <4>1. Writes(t)
        BY <2>1, <2>5, <3>2
           DEF StepOf, Begins, Checks, Loads, Selects, Sums, Ends, Commits, Leaves
      <4>2. /\ row \in DOMAIN Effect(t) /\ t \in Open /\ db' = db
            /\ Head(todo[t]).op \in WriteOps /\ ~Violates(t)
        BY <2>1, <2>5, <3>2, <4>1 DEF Writes, Continues, Overlay
      <4>3. Seen(t, row) = db[row]
        BY <3>2 DEF Seen
      <4>4. CASE Kind(t) = "merge"
        <5>1. ASSUME row[1] \in OwnerTables PROVE db[row] = Source(t)
          <6> DEFINE table == Head(todo[t]).of
          <6>1. /\ table \in OwnerTables /\ FirstAt(table) <= MergeAt(t)
                /\ MergeAt(t) <= LastAt(table)
            BY <4>2, <4>4, <5>1, MergeWrites
          <6>2. MergeAt(t) \in {3, 18}
            <7>1. /\ FirstAt("identities") = 3 /\ LastAt("identities") = 3
                  /\ FirstAt("ledger_entries") = 18 /\ LastAt("ledger_entries") = 18
              BY DEF FirstAt, LastAt, Moved
            <7>2. MergeAt(t) \in 1 .. 23
              BY <4>2, <4>4, MergeHead
            <7>3. QED
              BY <6>1, <7>1, <7>2 DEF OwnerTables
          <6>3. Head(todo[t]).op = "repoint"
            <7>1. MergeOps[3] = "repoint" /\ MergeOps[18] = "repoint"
              BY DEF MergeOps
            <7>2. Head(todo[t]).op = MergeOps[MergeAt(t)]
              BY <4>2, <4>4, MergeHead
            <7>3. QED
              BY <6>2, <7>1, <7>2
          <6>4. QED
            BY <4>2, <4>3, <6>3 DEF Effect, Repointed
        <5>2. QED
          BY <2>5, <4>2, <4>4, <5>1
      <4>5. CASE Kind(t) = "link"
        <5>1. Effect(t)[row] = Actor(t) /\ LinkAt(t) = 3
          BY <4>2, <4>5, LinkEffect
        <5>2. Head(todo[t]).op = "link"
          BY <4>2, <4>5, <5>1, LinkHead, LinkStatements
        <5>3. Actor(t) # None
          BY <4>5, CallKinds, MergeAssumption
        <5>4. QED
          BY <2>5, <4>2, <4>3, <4>5, <5>1, <5>2, <5>3 DEF Violates
      <4>6. QED
        BY <2>5, <4>4, <4>5
    <3>3. QED
      BY <3>1, <3>2
  <2>6. QED
    BY <2>4, <2>5
<1>6. Archived'
  <2>1. SUFFICES ASSUME NEW x \in Open', Kind(x) = "merge", 22 < MergeAt(x)'
                 PROVE  UserRow(Source(x)) \in DOMAIN own'[x]
    BY DEF Archived
  <2>2. x \in Calls
    BY DEF Open
  <2>3. CASE x # t
    BY <1>1, <1>3, <2>1, <2>2, <2>3 DEF Archived
  <2>4. CASE x = t
    <3>1. CASE Begins(t)
      <4>1. todo'[t] = MergeAnonymous
        BY <2>1, <2>4, <3>1 DEF Begins, Program
      <4>2. MergeAt(t)' = 1
        BY <4>1, Programs DEF MergeAt
      <4>3. QED
        BY <2>1, <2>4, <4>2
    <3>2. CASE Checks(t) \/ Loads(t) \/ Selects(t) \/ Sums(t) \/ Writes(t)
      <4>1. t \in Open
        BY <3>2 DEF Checks, Loads, Selects, Sums, Writes, Continues
      <4>2. /\ MergeAt(t)' = MergeAt(t) + 1 /\ MergeAt(t) \in 1 .. 22
            /\ Checks(t) \/ Selects(t) \/ Writes(t)
        BY <2>1, <2>4, <3>2, <4>1, MergeKeepsShape
      <4>3. MergeAt(t) = 22
        BY <2>1, <2>4, <4>2
      <4>4. Head(todo[t]).op = "archive"
        <5>1. MergeOps[22] = "archive"
          BY DEF MergeOps
        <5>2. Head(todo[t]).op = MergeOps[MergeAt(t)]
          BY <2>1, <2>4, <4>1, MergeHead
        <5>3. QED
          BY <4>3, <5>1, <5>2
      <4>5. Writes(t)
        BY <4>2, <4>4 DEF Checks, Selects
      <4>6. UserRow(Source(t)) \in DOMAIN Effect(t)
        BY <4>4 DEF Effect
      <4>7. QED
        BY <2>4, <4>5, <4>6 DEF Writes, Overlay
    <3>3. CASE Ends(t) \/ Commits(t)
      BY <2>1, <2>4, <3>3 DEF Ends, Commits, Leaves, Open
    <3>4. QED
      BY <3>1, <3>2, <3>3 DEF StepOf
  <2>5. QED
    BY <2>3, <2>4
<1>7. QED
  BY <1>2, <1>4, <1>5, <1>6 DEF Lawful

-----------------------------------------------------------------------------
(* Calls that overlap.                                                     *)

Meets(t, x) ==
  CASE Kind(t) = "merge" /\ Kind(x) = "merge" ->
         Source(t) \in UsersOf(x) /\ Call[t] # Call[x]
    [] Kind(t) = "merge" /\ Kind(x) = "event" -> Actor(x) \in UsersOf(t)
    [] Kind(t) = "merge" /\ Kind(x) = "link" -> Actor(x) = Source(t)
    [] Kind(t) = "event" /\ Kind(x) = "event" -> Actor(t) = Actor(x)
    [] OTHER -> FALSE

\* Two merges of a user into the same target.
Twins(t, x) == t # x /\ Kind(t) = "merge" /\ Kind(x) = "merge" /\ Call[t] = Call[x]

\* The users of calls that overlap are tangled, but those of twins of which one has
\* the other wait for an identity, or read what the other has left.
MetAreTangled ==
  \A t, x \in Open :
    /\ t # x /\ Meets(t, x) => UsersOf(t) \union UsersOf(x) \subseteq tangled
    /\ Twins(t, x) => \/ UsersOf(t) \subseteq tangled
                      \/ IdentitiesOf(Source(t)) # {}
                      \/ db[UserRow(Source(t))] # None

LEMMA TangledGrows ==
  ASSUME NEW t \in Calls, StepOf(t)
  PROVE  tangled \subseteq tangled'
BY DEF StepOf, Begins, Checks, Loads, Selects, Sums, Writes, Continues, Ends, Commits

\* Only the commit of a merge merges a user, its source, and it has done so.
LEMMA UsersChange ==
  ASSUME Shapes, Lawful, NEW t \in Calls, StepOf(t)
  PROVE  \/ \A u \in Users : db'[UserRow(u)] = db[UserRow(u)]
         \/ /\ Commits(t) /\ t \in Open /\ Kind(t) = "merge"
            /\ db'[UserRow(Source(t))] = Target(t)
            /\ \A u \in Users \ {Source(t)} : db'[UserRow(u)] = db[UserRow(u)]
<1>1. \A u \in Users : UserRow(u) \in Row /\ UserRow(u)[1] = "users" /\ UserRow(u)[2] = u
  BY RowsAreRows, RowNames
<1>2. \A u \in Users :
        \/ db'[UserRow(u)] = db[UserRow(u)]
        \/ /\ Commits(t) /\ t \in Open /\ UserRow(u) \in DOMAIN own[t]
           /\ db'[UserRow(u)] = own[t][UserRow(u)]
  BY <1>1, RowsChange
<1>3. ASSUME NEW u \in Users, db'[UserRow(u)] # db[UserRow(u)]
      PROVE  /\ Commits(t) /\ t \in Open /\ Kind(t) = "merge" /\ u = Source(t)
             /\ db'[UserRow(u)] = Target(t)
  <2>1. /\ Commits(t) /\ t \in Open /\ UserRow(u) \in DOMAIN own[t]
        /\ db'[UserRow(u)] = own[t][UserRow(u)]
    BY <1>2, <1>3
  <2>2. /\ Kind(t) = "merge" /\ UserRow(u) = UserRow(Source(t))
        /\ own[t][UserRow(u)] = Target(t)
    BY <1>1, <2>1, OwnedKinds
  <2>3. u = Source(t)
    BY <2>2 DEF UserRow
  <2>4. QED
    BY <2>1, <2>2, <2>3
<1>4. QED
  BY <1>3

LEMMA MergedAtCommit ==
  ASSUME Shapes, Lawful, NEW t \in Open, Kind(t) = "merge", StepOf(t), Commits(t)
  PROVE  /\ db'[UserRow(Source(t))] = Target(t)
         /\ Target(t) # None
<1>1. t \in Calls /\ Source(t) \in Users /\ Target(t) \in Users
  BY CallKinds DEF Open
<1>2. UserRow(Source(t)) \in DOMAIN own[t]
  BY AtCommit DEF Lawful, Archived
<1>3. own[t][UserRow(Source(t))] = Target(t)
  BY <1>2, OwnedKinds, RowNames
<1>4. db' = Overlay(own[t], db)
  BY DEF Commits
<1>5. db'[UserRow(Source(t))] = own[t][UserRow(Source(t))]
  BY <1>2, <1>4, Overlaid
<1>6. QED
  BY <1>1, <1>3, <1>5, MergeAssumption

LEMMA MergedForGood ==
  ASSUME Shapes, Lawful, NEW t \in Calls, StepOf(t), NEW u \in Users, db[UserRow(u)] # None
  PROVE  db'[UserRow(u)] # None
<1>1. CASE db'[UserRow(u)] = db[UserRow(u)]
  BY <1>1
<1>2. CASE db'[UserRow(u)] # db[UserRow(u)]
  <2>1. /\ Kind(t) = "merge" /\ t \in Open
        /\ db'[UserRow(Source(t))] = Target(t) /\ u = Source(t)
    BY <1>2, UsersChange
  <2>2. Target(t) # None
    BY <2>1, CallKinds, MergeAssumption
  <2>3. QED
    BY <2>1, <2>2
<1>3. QED
  BY <1>1, <1>2

\* What may happen to an identity.
LEMMA IdentityChanges ==
  ASSUME Shapes, Lawful, NEW t \in Calls, StepOf(t), NEW i \in Identities,
         db'[IdentityRow(i)] # db[IdentityRow(i)]
  PROVE  /\ Commits(t) /\ t \in Open /\ IdentityRow(i) \in DOMAIN own[t]
         /\ \/ /\ Kind(t) = "merge" /\ db[IdentityRow(i)] = Source(t)
               /\ db'[IdentityRow(i)] = Target(t)
            \/ /\ Kind(t) = "link" /\ db[IdentityRow(i)] = None
               /\ db'[IdentityRow(i)] = Actor(t)
<1>1. IdentityRow(i) \in Row /\ IdentityRow(i)[1] = "identities"
  BY RowsAreRows, RowNames
<1>2. /\ Commits(t) /\ t \in Open /\ IdentityRow(i) \in DOMAIN own[t]
      /\ db'[IdentityRow(i)] = own[t][IdentityRow(i)]
  BY <1>1, RowsChange
<1>3. \/ Kind(t) = "merge" /\ own[t][IdentityRow(i)] = Target(t)
      \/ Kind(t) = "link" /\ own[t][IdentityRow(i)] = Actor(t)
  BY <1>1, <1>2, OwnedKinds
<1>4. /\ Kind(t) = "merge" => db[IdentityRow(i)] = Source(t)
      /\ Kind(t) = "link" => db[IdentityRow(i)] = None
  BY <1>1, <1>2 DEF Lawful, OwnedBefore, OwnerTables
<1>5. QED
  BY <1>2, <1>3, <1>4

LEMMA MetStep ==
  ASSUME Shapes, Lawful, MetAreTangled, NEW t \in Calls, StepOf(t)
  PROVE  MetAreTangled'
<1>1. Others(t) /\ tangled \subseteq tangled'
  BY TangledGrows DEF StepOf
<1>2. ASSUME NEW x \in Open', x \notin Open
      PROVE  /\ x = t /\ Begins(t) /\ db' = db
             /\ \A y \in Open : Clash(t, y) \/ Clash(y, t)
                  => UsersOf(t) \union UsersOf(y) \subseteq tangled'
  <2>1. x \in Calls
    BY DEF Open
  <2>2. x = t
    BY <1>1, <1>2, <2>1, OthersStay
  <2>3. Begins(t)
    BY <1>2, <2>2
       DEF StepOf, Checks, Loads, Selects, Sums, Writes, Continues, Ends, Commits, Leaves
  <2>4. QED
    BY <2>2, <2>3 DEF Begins
<1>3. ASSUME NEW x \in Open', NEW y \in Open', x # y, Meets(x, y)
      PROVE  UsersOf(x) \union UsersOf(y) \subseteq tangled'
  <2>1. Clash(x, y)
    BY <1>3 DEF Meets, Clash
  <2>2. CASE x \in Open /\ y \in Open
    BY <1>1, <1>3, <2>2 DEF MetAreTangled
  <2>3. CASE x \notin Open
    <3>1. y \in Open
      BY <1>2, <1>3, <2>3
    <3>2. QED
      BY <1>2, <2>1, <2>3, <3>1
  <2>4. CASE y \notin Open
    <3>1. x \in Open
      BY <1>2, <1>3, <2>4
    <3>2. QED
      BY <1>2, <2>1, <2>4, <3>1
  <2>5. QED
    BY <2>2, <2>3, <2>4
<1>4. ASSUME NEW x \in Open', NEW y \in Open', Twins(x, y)
      PROVE  \/ UsersOf(x) \subseteq tangled'
             \/ IdentitiesOf(Source(x))' # {}
             \/ db'[UserRow(Source(x))] # None
  <2> DEFINE s == Source(x)
  <2>1. x \in Calls /\ y \in Calls /\ s \in Users
    BY <1>4, CallKinds DEF Open, Twins
  <2>2. UsersOf(x) = UsersOf(y) /\ Source(y) = s /\ s \in UsersOf(x)
    BY <1>4 DEF Twins, UsersOf, Source, Target
  <2>3. CASE x \in Open /\ y \in Open
    <3>1. CASE UsersOf(x) \subseteq tangled
      BY <1>1, <3>1
    <3>2. CASE db[UserRow(s)] # None
      BY <2>1, <3>2, MergedForGood
    <3>3. CASE IdentitiesOf(s) # {}
      <4>1. PICK i \in Identities : db[IdentityRow(i)] = s
        BY <3>3 DEF IdentitiesOf
      <4>2. CASE db'[IdentityRow(i)] = s
        BY <4>2 DEF IdentitiesOf
      <4>3. CASE db'[IdentityRow(i)] # s
        <5>1. /\ Commits(t) /\ t \in Open
              /\ \/ Kind(t) = "merge" /\ s = Source(t)
                 \/ s = None
          BY <4>1, <4>3, IdentityChanges
        <5>2. s # None
          BY <2>1, MergeAssumption
        <5>3. db'[UserRow(s)] # None
          BY <5>1, <5>2, MergedAtCommit
        <5>4. QED
          BY <5>3
      <4>4. QED
        BY <4>2, <4>3
    <3>4. QED
      BY <1>4, <2>3, <3>1, <3>2, <3>3 DEF MetAreTangled
  <2>4. CASE x \notin Open
    <3>1. y \in Open /\ y # x
      BY <1>2, <1>4, <2>4 DEF Twins
    <3>2. Clash(x, y) \/ IdentitiesOf(s) # {}
      BY <1>4, <2>2 DEF Twins, Clash
    <3>3. QED
      BY <1>2, <2>4, <3>1, <3>2 DEF IdentitiesOf
  <2>5. CASE y \notin Open
    <3>1. x \in Open /\ y # x
      BY <1>2, <1>4, <2>5 DEF Twins
    <3>2. Clash(x, y) \/ IdentitiesOf(s) # {}
      BY <1>4, <2>2 DEF Twins, Clash
    <3>3. QED
      BY <1>2, <2>5, <3>1, <3>2 DEF IdentitiesOf
  <2>6. QED
    BY <2>3, <2>4, <2>5
<1>5. QED
  BY <1>3, <1>4 DEF MetAreTangled, Twins

-----------------------------------------------------------------------------
(* Whom merged_into leads to.                                              *)

\* Following merged_into from a user stays among tangled users.
Chained(v) == \E users \in SUBSET tangled : v \in users /\ Closed(users)

\* Whoever is followed, the line ends at a user that is not merged, or is chained.
LineEnds ==
  \A users \in SUBSET Users :
    users # {} /\ Closed(users)
      => \E v \in users : db[UserRow(v)] = None \/ Chained(v)

\* What a call has validated stays so, but for users that are tangled.
Validity ==
  \A t \in Open :
    /\ Kind(t) = "merge" /\ 2 < MergeAt(t)
         => db[UserRow(Target(t))] = None \/ Chained(Target(t))
    /\ Kind(t) = "link" /\ 1 < LinkAt(t)
         => db[UserRow(Actor(t))] = None \/ Actor(t) \in tangled

\* A merge has written every identity of its source.
Claims ==
  \A t \in Open :
    Kind(t) = "merge" /\ 3 < MergeAt(t) /\ Source(t) \notin tangled
      => \A i \in Identities :
           db[IdentityRow(i)] = Source(t) => IdentityRow(i) \in DOMAIN own[t]

Orphaned ==
  \A u \in Users \ tangled : db[UserRow(u)] # None => IdentitiesOf(u) = {}

Lines == MetAreTangled /\ LineEnds /\ Validity /\ Claims /\ Orphaned

LEMMA AtBegin ==
  ASSUME NEW t \in Calls, Begins(t)
  PROVE  /\ Kind(t) = "merge" => MergeAt(t)' = 1
         /\ Kind(t) = "link" => LinkAt(t)' = 1
<1>1. CASE Kind(t) = "merge"
  <2>1. todo'[t] = MergeAnonymous
    BY <1>1 DEF Begins, Program
  <2>2. QED
    BY <1>1, <2>1, Programs DEF MergeAt
<1>2. CASE Kind(t) = "link"
  <2>1. todo'[t] = LinkIdentity
    BY <1>2 DEF Begins, Program
  <2>2. QED
    BY <1>2, <2>1, Programs DEF LinkAt
<1>3. QED
  BY <1>1, <1>2

LEMMA ChainedInTangled ==
  ASSUME NEW v, Chained(v)
  PROVE  v \in tangled
BY DEF Chained

\* The merge of s into g.
LEMMA ChainedAtMerge ==
  ASSUME Shapes, Lawful, Lines, NEW t \in Open, Kind(t) = "merge", StepOf(t), Commits(t)
  PROVE  /\ Source(t) \in tangled => Target(t) \in tangled'
         /\ db[UserRow(Target(t))] = None \/ Chained(Target(t))
         /\ db'[UserRow(Source(t))] = Target(t)
         /\ \A u \in Users \ {Source(t)} : db'[UserRow(u)] = db[UserRow(u)]
         /\ Source(t) \in Users /\ Target(t) \in Users /\ Source(t) # Target(t)
<1>1. /\ t \in Calls /\ Source(t) \in Users /\ Target(t) \in Users /\ Source(t) # Target(t)
  BY CallKinds DEF Open
<1>2. MergeAt(t) = 23
  BY AtCommit
<1>3. db[UserRow(Target(t))] = None \/ Chained(Target(t))
  BY <1>2 DEF Lines, Validity
<1>4. db'[UserRow(Source(t))] = Target(t)
  BY MergedAtCommit
<1>5. \A u \in Users \ {Source(t)} : db'[UserRow(u)] = db[UserRow(u)]
  BY <1>1, UsersChange
<1>6. Source(t) \in tangled => Target(t) \in tangled'
  BY DEF Commits
<1>7. QED
  BY <1>1, <1>3, <1>4, <1>5, <1>6

LEMMA ChainedStays ==
  ASSUME Shapes, Lawful, Lines, NEW t \in Calls, StepOf(t), NEW v \in Users, Chained(v)
  PROVE  Chained(v)'
<1>1. PICK C \in SUBSET tangled : v \in C /\ Closed(C)
  BY DEF Chained
<1>2. tangled \subseteq tangled' /\ tangled \subseteq Users
  BY TangledGrows DEF Shapes, MergeTypeOK
<1>3. CASE \A u \in Users : db'[UserRow(u)] = db[UserRow(u)]
  <2>1. Closed(C)'
    BY <1>1, <1>2, <1>3 DEF Closed
  <2>2. QED
    BY <1>1, <1>2, <2>1 DEF Chained
<1>4. CASE Commits(t) /\ t \in Open /\ Kind(t) = "merge"
  <2> DEFINE s == Source(t)
             g == Target(t)
  <2>1. /\ s \in tangled => g \in tangled'
        /\ db[UserRow(g)] = None \/ Chained(g)
        /\ db'[UserRow(s)] = g
        /\ \A u \in Users \ {s} : db'[UserRow(u)] = db[UserRow(u)]
        /\ s \in Users /\ g \in Users /\ s # g
    BY <1>4, ChainedAtMerge
  <2>2. CASE s \notin C
    <3>1. Closed(C)'
      BY <1>1, <1>2, <2>1, <2>2 DEF Closed
    <3>2. QED
      BY <1>1, <1>2, <3>1 DEF Chained
  <2>3. CASE s \in C /\ db[UserRow(g)] = None
    <3> DEFINE D == C \union {g}
    <3>1. D \in SUBSET tangled'
      BY <1>1, <1>2, <2>1, <2>3
    <3>2. ASSUME NEW u \in D, db'[UserRow(u)] # None PROVE db'[UserRow(u)] \in D
      <4>1. u # g
        BY <2>1, <2>3, <3>2
      <4>2. CASE u = s
        BY <2>1, <4>2
      <4>3. CASE u # s
        BY <1>1, <1>2, <2>1, <3>2, <4>1, <4>3 DEF Closed
      <4>4. QED
        BY <4>2, <4>3
    <3> HIDE DEF D
    <3>3. Closed(D)'
      BY <3>2 DEF Closed
    <3>4. v \in D
      BY <1>1 DEF D
    <3>5. QED
      BY <3>1, <3>3, <3>4 DEF Chained
  <2>4. CASE s \in C /\ Chained(g)
    <3>1. PICK E \in SUBSET tangled : g \in E /\ Closed(E)
      BY <2>4 DEF Chained
    <3> DEFINE D == C \union E
    <3>2. D \in SUBSET tangled'
      BY <1>1, <1>2, <3>1
    <3>3. ASSUME NEW u \in D, db'[UserRow(u)] # None PROVE db'[UserRow(u)] \in D
      <4>1. CASE u = s
        BY <2>1, <3>1, <4>1
      <4>2. CASE u # s
        BY <1>1, <1>2, <2>1, <3>1, <3>3, <4>2 DEF Closed
      <4>3. QED
        BY <4>1, <4>2
    <3> HIDE DEF D
    <3>4. Closed(D)'
      BY <3>3 DEF Closed
    <3>5. v \in D
      BY <1>1 DEF D
    <3>6. QED
      BY <3>2, <3>4, <3>5 DEF Chained
  <2>5. QED
    BY <2>1, <2>2, <2>3, <2>4
<1>5. QED
  BY <1>3, <1>4, UsersChange

LEMMA LineEndsStep ==
  ASSUME Shapes, Lawful, Lines, NEW t \in Calls, StepOf(t)
  PROVE  LineEnds'
<1>1. SUFFICES ASSUME NEW A \in SUBSET Users, A # {}, Closed(A)'
               PROVE  \E v \in A : db'[UserRow(v)] = None \/ Chained(v)'
  BY DEF LineEnds
<1>2. \A v \in Users : Chained(v) => Chained(v)'
  BY ChainedStays
<1>3. ASSUME \A u \in A : db'[UserRow(u)] = db[UserRow(u)]
      PROVE  \E v \in A : db'[UserRow(v)] = None \/ Chained(v)'
  <2>1. Closed(A)
    BY <1>1, <1>3 DEF Closed
  <2>2. PICK v \in A : db[UserRow(v)] = None \/ Chained(v)
    BY <1>1, <2>1 DEF Lines, LineEnds
  <2>3. QED
    BY <1>2, <1>3, <2>2
<1>4. CASE \A u \in Users : db'[UserRow(u)] = db[UserRow(u)]
  BY <1>3, <1>4
<1>5. CASE Commits(t) /\ t \in Open /\ Kind(t) = "merge"
  <2> DEFINE s == Source(t)
             g == Target(t)
  <2>1. /\ db[UserRow(g)] = None \/ Chained(g)
        /\ db'[UserRow(s)] = g
        /\ \A u \in Users \ {s} : db'[UserRow(u)] = db[UserRow(u)]
        /\ s \in Users /\ g \in Users /\ s # g
    BY <1>5, ChainedAtMerge
  <2>2. CASE s \notin A
    BY <1>1, <1>3, <2>1, <2>2
  <2>3. CASE s \in A
    <3>1. g # None
      BY <2>1, MergeAssumption
    <3>2. g \in A
      BY <1>1, <2>1, <2>3, <3>1 DEF Closed
    <3>3. db'[UserRow(g)] = None \/ Chained(g)'
      BY <1>2, <2>1
    <3>4. QED
      BY <3>2, <3>3
  <2>4. QED
    BY <2>2, <2>3
<1>6. QED
  BY <1>4, <1>5, UsersChange

LEMMA ValidityStep ==
  ASSUME Shapes, Lawful, Lines, NEW t \in Calls, StepOf(t)
  PROVE  Validity'
<1>1. Others(t) /\ tangled \subseteq tangled'
  BY TangledGrows DEF StepOf
<1>2. SUFFICES ASSUME NEW x \in Open'
               PROVE  /\ Kind(x) = "merge" /\ 2 < MergeAt(x)'
                           => db'[UserRow(Target(x))] = None \/ Chained(Target(x))'
                      /\ Kind(x) = "link" /\ 1 < LinkAt(x)'
                           => db'[UserRow(Actor(x))] = None \/ Actor(x) \in tangled'
  BY DEF Validity
<1>3. x \in Calls
  BY DEF Open
<1>4. CASE x # t
  <2>1. x \in Open /\ MergeAt(x)' = MergeAt(x) /\ LinkAt(x)' = LinkAt(x)
    BY <1>1, <1>2, <1>3, <1>4, OthersStay
  <2>2. ASSUME NEW u \in Users, db[UserRow(u)] = None, db'[UserRow(u)] # None
        PROVE  /\ Commits(t) /\ t \in Open /\ Kind(t) = "merge" /\ u = Source(t)
    BY <2>2, UsersChange
  <2>3. CASE Kind(x) = "merge" /\ 2 < MergeAt(x)
    <3>1. Target(x) \in Users /\ Source(x) \in Users /\ Source(x) # Target(x)
      BY <1>3, <2>3, CallKinds
    <3>2. CASE db'[UserRow(Target(x))] = None
      BY <2>3, <3>2
    <3>3. CASE Chained(Target(x))
      BY <2>3, <3>1, <3>3, ChainedStays
    <3>4. CASE db[UserRow(Target(x))] = None /\ db'[UserRow(Target(x))] # None
      <4>1. Commits(t) /\ t \in Open /\ Kind(t) = "merge" /\ Source(t) = Target(x)
        BY <2>2, <3>1, <3>4
      <4>2. Meets(t, x)
        <5>1. Source(t) \in UsersOf(x)
          BY <2>3, <4>1 DEF UsersOf
        <5>2. Call[t] # Call[x]
          BY <3>1, <4>1 DEF Source
        <5>3. QED
          BY <2>3, <4>1, <5>1, <5>2 DEF Meets
      <4>3. Source(t) \in tangled /\ Target(t) \in tangled
        BY <1>4, <2>1, <4>1, <4>2 DEF Lines, MetAreTangled, UsersOf
      <4>4. /\ db[UserRow(Target(t))] = None \/ Chained(Target(t))
            /\ db'[UserRow(Source(t))] = Target(t)
            /\ \A u \in Users \ {Source(t)} : db'[UserRow(u)] = db[UserRow(u)]
            /\ Source(t) \in Users /\ Target(t) \in Users /\ Source(t) # Target(t)
        BY <4>1, ChainedAtMerge
      <4>5. \E D \in SUBSET tangled' : Target(t) \in D /\ Closed(D)'
        <5>1. CASE Chained(Target(t))
          <6>1. Chained(Target(t))'
            BY <4>4, <5>1, ChainedStays
          <6>2. QED
            BY <6>1 DEF Chained
        <5>2. CASE db[UserRow(Target(t))] = None
          <6>1. Closed({Target(t)})'
            BY <4>4, <5>2 DEF Closed
          <6>2. {Target(t)} \in SUBSET tangled'
            BY <1>1, <4>3
          <6>3. QED
            BY <6>1, <6>2
        <5>3. QED
          BY <4>4, <5>1, <5>2
      <4>6. PICK D \in SUBSET tangled' : Target(t) \in D /\ Closed(D)'
        BY <4>5
      <4> DEFINE E == D \union {Source(t)}
      <4>7. E \in SUBSET tangled' /\ Target(x) \in E
        BY <1>1, <4>1, <4>3, <4>6
      <4>8. \A u \in E : db'[UserRow(u)] # None => db'[UserRow(u)] \in E
        BY <4>4, <4>6 DEF Closed
      <4> HIDE DEF E
      <4>9. Closed(E)'
        BY <4>8 DEF Closed
      <4>10. QED
        BY <2>3, <4>7, <4>9 DEF Chained
    <3>5. QED
      BY <2>1, <2>3, <3>2, <3>3, <3>4 DEF Lines, Validity
  <2>4. CASE Kind(x) = "link" /\ 1 < LinkAt(x)
    <3>1. Actor(x) \in Users
      BY <1>3, <2>4, CallKinds
    <3>2. CASE db'[UserRow(Actor(x))] = None \/ Actor(x) \in tangled
      BY <1>1, <2>4, <3>2
    <3>3. CASE db[UserRow(Actor(x))] = None /\ db'[UserRow(Actor(x))] # None
      <4>1. Commits(t) /\ t \in Open /\ Kind(t) = "merge" /\ Source(t) = Actor(x)
        BY <2>2, <3>1, <3>3
      <4>2. Meets(t, x)
        BY <2>4, <4>1 DEF Meets
      <4>3. Actor(x) \in tangled
        BY <1>4, <2>1, <2>4, <4>1, <4>2 DEF Lines, MetAreTangled, UsersOf
      <4>4. QED
        BY <1>1, <2>4, <4>3
    <3>4. QED
      BY <2>1, <2>4, <3>2, <3>3 DEF Lines, Validity
  <2>5. QED
    BY <2>1, <2>3, <2>4
<1>5. CASE x = t
  <2>1. CASE Begins(t)
    <3>1. /\ Kind(t) = "merge" => MergeAt(t)' = 1
          /\ Kind(t) = "link" => LinkAt(t)' = 1
      BY <2>1, AtBegin
    <3>2. QED
      BY <1>5, <3>1
  <2>2. CASE Checks(t) \/ Loads(t) \/ Selects(t) \/ Sums(t) \/ Writes(t)
    <3>1. t \in Open /\ db' = db
      BY <2>2 DEF Checks, Loads, Selects, Sums, Writes, Continues
    <3>2. CASE Kind(t) = "merge" /\ 2 < MergeAt(t)'
      <4>1. /\ MergeAt(t)' = MergeAt(t) + 1 /\ MergeAt(t) \in 1 .. 22
            /\ Checks(t) \/ Selects(t) \/ Writes(t)
        BY <2>2, <3>1, <3>2, MergeKeepsShape
      <4>2. Target(t) \in Users
        BY <3>2, CallKinds
      <4>3. CASE 2 < MergeAt(t)
        BY <1>5, <3>1, <3>2, <4>2, <4>3, ChainedStays DEF Lines, Validity
      <4>4. CASE MergeAt(t) = 2
        <5>1. MergeOps[2] = "validate" /\ MergeTables[2] = "target"
          BY DEF MergeOps, MergeTables
        <5>2. Head(todo[t]).op = "validate" /\ Head(todo[t]).of = "target"
          BY <3>1, <3>2, <4>4, <5>1, MergeHead
        <5>3. db[UserRow(Target(t))] = None
          BY <4>1, <5>2 DEF Checks, Selects, Writes, WriteOps, Validated
        <5>4. QED
          BY <1>5, <3>1, <3>2, <5>3
      <4>5. QED
        BY <3>2, <4>1, <4>3, <4>4
    <3>3. CASE Kind(t) = "link" /\ 1 < LinkAt(t)'
      <4>1. LinkAt(t)' = LinkAt(t) + 1 /\ LinkAt(t) \in 1 .. 3 /\ (Checks(t) \/ Writes(t))
        BY <2>2, <3>1, <3>3, LinkKeepsShape
      <4>2. CASE 1 < LinkAt(t)
        BY <1>1, <1>5, <3>1, <3>3, <4>2 DEF Lines, Validity
      <4>3. CASE LinkAt(t) = 1
        <5>1. Head(todo[t]).op = "validate" /\ Head(todo[t]).of = "user"
          BY <3>1, <3>3, <4>3, LinkHead, LinkStatements
        <5>2. db[UserRow(Actor(t))] = None
          BY <4>1, <5>1 DEF Checks, Writes, WriteOps, Validated
        <5>3. QED
          BY <1>5, <3>1, <3>3, <5>2
      <4>4. QED
        BY <3>3, <4>1, <4>2, <4>3
    <3>4. QED
      BY <1>5, <3>2, <3>3
  <2>3. CASE Ends(t) \/ Commits(t)
    BY <1>2, <1>5, <2>3 DEF Ends, Commits, Leaves, Open
  <2>4. QED
    BY <2>1, <2>2, <2>3 DEF StepOf
<1>6. QED
  BY <1>4, <1>5

LEMMA ClaimsStep ==
  ASSUME Shapes, Lawful, Lines, NEW t \in Calls, StepOf(t)
  PROVE  Claims'
<1>1. Others(t) /\ tangled \subseteq tangled'
  BY TangledGrows DEF StepOf
<1>2. SUFFICES ASSUME NEW x \in Open', Kind(x) = "merge", 3 < MergeAt(x)',
                      Source(x) \notin tangled', NEW i \in Identities,
                      db'[IdentityRow(i)] = Source(x)
               PROVE  IdentityRow(i) \in DOMAIN own'[x]
  BY DEF Claims
<1>3. x \in Calls /\ Source(x) \in Users /\ Source(x) \notin tangled
  BY <1>1, <1>2, CallKinds DEF Open
<1>4. CASE x # t
  <2>1. x \in Open /\ MergeAt(x)' = MergeAt(x) /\ own'[x] = own[x]
    BY <1>1, <1>2, <1>3, <1>4, OthersStay
  <2>2. CASE db[IdentityRow(i)] = Source(x)
    BY <1>2, <1>3, <2>1, <2>2 DEF Lines, Claims
  <2>3. CASE db[IdentityRow(i)] # Source(x)
    <3>1. /\ t \in Open
          /\ \/ Kind(t) = "merge" /\ Source(x) = Target(t)
             \/ Kind(t) = "link" /\ Source(x) = Actor(t)
      BY <1>2, <2>3, IdentityChanges
    <3>2. Meets(x, t)
      <4>1. CASE Kind(t) = "merge"
        <5>1. Source(t) # Target(t) /\ Source(x) \in UsersOf(t)
          BY <3>1, <4>1, CallKinds DEF UsersOf
        <5>2. Call[x] # Call[t]
          BY <3>1, <4>1, <5>1 DEF Source
        <5>3. QED
          BY <1>2, <4>1, <5>1, <5>2 DEF Meets
      <4>2. CASE Kind(t) = "link"
        BY <1>2, <3>1, <4>2 DEF Meets
      <4>3. QED
        BY <3>1, <4>1, <4>2
    <3>3. Source(x) \in tangled
      BY <1>2, <1>4, <2>1, <3>1, <3>2 DEF Lines, MetAreTangled, UsersOf
    <3>4. QED
      BY <1>3, <3>3
  <2>4. QED
    BY <2>2, <2>3
<1>5. CASE x = t
  <2>1. CASE Begins(t)
    <3>1. MergeAt(t)' = 1
      BY <1>2, <1>5, <2>1, AtBegin
    <3>2. QED
      BY <1>2, <1>5, <3>1
  <2>2. CASE Checks(t) \/ Loads(t) \/ Selects(t) \/ Sums(t) \/ Writes(t)
    <3>1. t \in Open /\ db' = db
      BY <2>2 DEF Checks, Loads, Selects, Sums, Writes, Continues
    <3>2. /\ MergeAt(t)' = MergeAt(t) + 1 /\ MergeAt(t) \in 1 .. 22
          /\ Checks(t) \/ Selects(t) \/ Writes(t)
      BY <1>2, <1>5, <2>2, <3>1, MergeKeepsShape
    <3>3. DOMAIN own[t] \subseteq DOMAIN own'[t]
      BY <3>2 DEF Checks, Selects, Writes, Overlay
    <3>4. CASE 3 < MergeAt(t)
      BY <1>2, <1>3, <1>5, <3>1, <3>3, <3>4 DEF Lines, Claims
    <3>5. CASE MergeAt(t) = 3
      <4>1. Head(todo[t]).op = "repoint" /\ Head(todo[t]).of = "identities"
        <5>1. MergeOps[3] = "repoint" /\ MergeTables[3] = "identities"
          BY DEF MergeOps, MergeTables
        <5>2. QED
          BY <1>2, <1>5, <3>1, <3>5, <5>1, MergeHead
      <4>2. Writes(t)
        BY <3>2, <4>1 DEF Checks, Selects
      <4>3. CASE IdentityRow(i) \in DOMAIN own[t]
        BY <1>5, <3>3, <4>3
      <4>4. CASE IdentityRow(i) \notin DOMAIN own[t]
        <5>1. Seen(t, IdentityRow(i)) = Source(t)
          BY <1>2, <1>5, <3>1, <4>4 DEF Seen
        <5>2. IdentityRow(i) \in Row /\ IdentityRow(i)[1] = "identities"
          BY RowsAreRows, RowNames
        <5>3. IdentityRow(i) \in DOMAIN Effect(t)
          BY <4>1, <5>1, <5>2 DEF Effect, Repointed
        <5>4. QED
          BY <1>5, <4>2, <5>3 DEF Writes, Overlay
      <4>5. QED
        BY <4>3, <4>4
    <3>6. QED
      BY <1>2, <1>5, <3>2, <3>4, <3>5
  <2>3. CASE Ends(t) \/ Commits(t)
    BY <1>2, <1>5, <2>3 DEF Ends, Commits, Leaves, Open
  <2>4. QED
    BY <2>1, <2>2, <2>3 DEF StepOf
<1>6. QED
  BY <1>4, <1>5

LEMMA OrphanedStep ==
  ASSUME Shapes, Lawful, Lines, NEW t \in Calls, StepOf(t)
  PROVE  Orphaned'
<1>1. tangled \subseteq tangled'
  BY TangledGrows
<1>2. SUFFICES ASSUME NEW u \in Users, u \notin tangled', db'[UserRow(u)] # None,
                      NEW i \in Identities, db'[IdentityRow(i)] = u
               PROVE  FALSE
  BY DEF Orphaned, IdentitiesOf
<1>3. u \notin tangled /\ u # None
  BY <1>1, <1>2, MergeAssumption
<1>4. CASE db[UserRow(u)] # None
  <2>1. db[IdentityRow(i)] # u
    BY <1>2, <1>3, <1>4 DEF Lines, Orphaned, IdentitiesOf
  <2>2. /\ t \in Open /\ Commits(t)
        /\ \/ Kind(t) = "merge" /\ u = Target(t)
           \/ Kind(t) = "link" /\ u = Actor(t)
    BY <1>2, <2>1, IdentityChanges
  <2>3. CASE Kind(t) = "merge"
    <3>1. db[UserRow(u)] = None \/ Chained(u)
      BY <2>2, <2>3, AtCommit DEF Lines, Validity
    <3>2. QED
      BY <1>3, <1>4, <3>1, ChainedInTangled
  <2>4. CASE Kind(t) = "link"
    BY <1>3, <1>4, <2>2, <2>4, AtCommit DEF Lines, Validity
  <2>5. QED
    BY <2>2, <2>3, <2>4
<1>5. CASE db[UserRow(u)] = None
  <2>1. Commits(t) /\ t \in Open /\ Kind(t) = "merge" /\ u = Source(t)
    BY <1>2, <1>5, UsersChange
  <2>2. Source(t) # Target(t) /\ MergeAt(t) = 23
    BY <2>1, CallKinds, AtCommit
  <2>3. CASE db[IdentityRow(i)] = u
    <3>1. IdentityRow(i) \in DOMAIN own[t]
      BY <1>3, <2>1, <2>2, <2>3 DEF Lines, Claims
    <3>2. IdentityRow(i) \in Row /\ IdentityRow(i)[1] = "identities"
      BY RowsAreRows, RowNames
    <3>3. own[t][IdentityRow(i)] = Target(t)
      BY <2>1, <3>1, <3>2, OwnedKinds
    <3>4. db'[IdentityRow(i)] = Target(t)
      BY <2>1, <3>1, <3>3 DEF Commits, Overlay
    <3>5. QED
      BY <1>2, <2>1, <2>2, <3>4
  <2>4. CASE db[IdentityRow(i)] # u
    <3>1. db'[IdentityRow(i)] = Target(t)
      BY <1>2, <2>1, <2>4, IdentityChanges
    <3>2. QED
      BY <1>2, <2>1, <2>2, <3>1
  <2>5. QED
    BY <2>3, <2>4
<1>6. QED
  BY <1>4, <1>5

Sound == Shapes /\ Lawful /\ Lines

LEMMA SoundStart ==
  ASSUME MergeInit
  PROVE  Sound
<1>1. Shapes
  BY StartShapes
<1>2. Open = {} /\ \A t \in Calls : own[t] = <<>>
  BY DEF MergeInit, Open
<1>3. Lawful
  <2>1. EntriesOfDone
    BY DEF MergeInit, EntriesOfDone, Applied, Events
  <2>2. Exclusive
    BY <1>2 DEF Exclusive
  <2>3. QED
    BY <1>2, <2>1, <2>2 DEF Lawful, OwnedBefore, Archived
<1>4. \A u \in Users : db[UserRow(u)] = None
  BY StartAssumption DEF MergeInit
<1>5. Lines
  BY <1>2, <1>4 DEF Lines, MetAreTangled, LineEnds, Validity, Claims, Orphaned
<1>6. QED
  BY <1>1, <1>3, <1>5 DEF Sound

LEMMA SoundStep ==
  ASSUME Sound, NEW t \in Calls, StepOf(t), Shapes'
  PROVE  Sound'
<1>1. Shapes /\ Lawful /\ Lines /\ MetAreTangled
  BY DEF Sound, Lines
<1>2. Lawful'
  BY <1>1, LawfulStep
<1>3. MetAreTangled'
  BY <1>1, MetStep
<1>4. LineEnds' /\ Validity' /\ Claims' /\ Orphaned'
  BY <1>1, LineEndsStep, ValidityStep, ClaimsStep, OrphanedStep
<1>5. QED
  BY <1>2, <1>3, <1>4 DEF Sound, Lines

LEMMA SoundStutter ==
  ASSUME Sound, UNCHANGED mergeVars
  PROVE  Sound'
<1>1. ASSUME NEW x, Shape(x) PROVE Shape(x)'
  BY <1>1, ShapeKept DEF mergeVars
<1>2. Shapes'
  BY <1>1 DEF Sound, Shapes, MergeTypeOK, mergeVars, Open
<1>3. Open' = Open /\ \A x : MergeAt(x)' = MergeAt(x) /\ LinkAt(x)' = LinkAt(x)
  BY DEF mergeVars, Open, MergeAt, LinkAt
<1>4. Lawful'
  BY <1>3 DEF Sound, Lawful, Exclusive, EntriesOfDone, OwnedBefore, Archived, mergeVars
<1>5. \A s : Closed(s)' = Closed(s)
  BY DEF Closed, mergeVars
<1>6. \A v : Chained(v)' = Chained(v)
  BY <1>5 DEF Chained, mergeVars
<1>7. \A u : IdentitiesOf(u)' = IdentitiesOf(u)
  BY DEF IdentitiesOf, mergeVars
<1>8. MetAreTangled' /\ Claims' /\ Orphaned'
  BY <1>3, <1>7 DEF Sound, Lines, MetAreTangled, Claims, Orphaned, mergeVars
<1>9. LineEnds' /\ Validity'
  BY <1>3, <1>5, <1>6 DEF Sound, Lines, LineEnds, Validity, mergeVars
<1>10. QED
  BY <1>2, <1>4, <1>8, <1>9 DEF Sound, Lines

LEMMA SoundHolds == MergeSpec => []Sound
<1>1. MergeInit => Sound
  BY SoundStart
<1>2. Sound /\ [MergeNext]_mergeVars => Sound'
  <2>1. SUFFICES ASSUME Sound, MergeNext PROVE Sound'
    BY SoundStutter
  <2>2. Shapes
    BY <2>1 DEF Sound
  <2>3. Shapes' /\ \E t \in Calls : StepOf(t)
    BY <2>1, <2>2, ShapesStep, OneSteps
  <2>4. QED
    BY <2>1, <2>3, SoundStep
<1>3. QED
  BY <1>1, <1>2, PTL DEF MergeSpec

\* A user that has been merged has no identity, and following merged_into from it
\* ends at a user that is not merged, but where calls have overlapped badly.
THEOREM IdentitiesHaveAnHeir == MergeSpec => []IdentitiesReachHeir
<1>1. Sound => IdentitiesReachHeir
  <2>1. SUFFICES ASSUME Sound, NEW u \in Users \ tangled, db[UserRow(u)] # None
                 PROVE  /\ IdentitiesOf(u) = {}
                        /\ \E v \in Line(u) :
                             db[UserRow(v)] = None \/ Line(v) \subseteq tangled
    BY DEF IdentitiesReachHeir
  <2>2. IdentitiesOf(u) = {}
    BY <2>1 DEF Sound, Lines, Orphaned
  <2>3. tangled \subseteq Users /\ \A v \in Users : db[UserRow(v)] \in Users \union {None}
    <3>1. \A v \in Users : UserRow(v) \in Row /\ UserRow(v)[1] = "users"
      BY RowsAreRows, RowNames
    <3>2. QED
      BY <2>1, <3>1, ValueKinds DEF Sound, Shapes, MergeTypeOK
  <2>4. u \in Line(u) /\ Line(u) \in SUBSET Users
    BY <2>1 DEF Line
  <2>5. Closed(Line(u))
    <3>1. SUFFICES ASSUME NEW v \in Line(u), db[UserRow(v)] # None,
                          NEW A \in SUBSET Users, u \in A, Closed(A)
                   PROVE  db[UserRow(v)] \in A
      BY <2>3, <2>4 DEF Closed, Line
    <3>2. v \in A
      BY <3>1 DEF Line
    <3>3. QED
      BY <3>1, <3>2 DEF Closed
  <2>6. PICK v \in Line(u) : db[UserRow(v)] = None \/ Chained(v)
    BY <2>1, <2>4, <2>5 DEF Sound, Lines, LineEnds
  <2>7. Chained(v) => Line(v) \subseteq tangled
    BY <2>3 DEF Chained, Line
  <2>8. QED
    BY <2>2, <2>6, <2>7
<1>2. QED
  BY <1>1, SoundHolds, PTL

-----------------------------------------------------------------------------
(* Locks.                                                                  *)

\* The statements of a merge on different tables do not overlap.
LEMMA TablesApart ==
  ASSUME NEW a, NEW b, NEW p \in 1 .. 22, NEW q \in 1 .. 22,
         FirstAt(a) <= p, p <= LastAt(a), FirstAt(b) <= q, q <= LastAt(b),
         FirstAt(a) < q, FirstAt(b) < p
  PROVE  a \in Moved /\ p = LastAt(a) /\ b = a /\ q = LastAt(b)
<1>1. /\ FirstAt("xp_tracks") = 5 /\ LastAt("xp_tracks") = 6
      /\ FirstAt("rule_state") = 8 /\ LastAt("rule_state") = 9
      /\ FirstAt("wallets") = 16 /\ LastAt("wallets") = 17
      /\ FirstAt("leaderboard_entries") = 20 /\ LastAt("leaderboard_entries") = 21
  BY DEF Moved, FirstAt, LastAt
<1>2. \A x : \/ x \in Moved
             \/ x \notin Moved /\ FirstAt(x) \in {3, 10, 11, 12, 13, 14, 18, 22} /\ LastAt(x) = FirstAt(x)
  BY DEF Moved, FirstAt, LastAt
<1>3. CASE a \in Moved /\ b \in Moved
  BY <1>1, <1>3 DEF Moved
<1>4. CASE a \in Moved /\ b \notin Moved
  <2>1. FirstAt(b) \in {3, 10, 11, 12, 13, 14, 18, 22} /\ q = FirstAt(b)
    BY <1>2, <1>4
  <2>2. QED
    BY <1>1, <1>4, <2>1 DEF Moved
<1>5. CASE a \notin Moved /\ b \in Moved
  <2>1. FirstAt(a) \in {3, 10, 11, 12, 13, 14, 18, 22} /\ p = FirstAt(a)
    BY <1>2, <1>5
  <2>2. QED
    BY <1>1, <1>5, <2>1 DEF Moved
<1>6. CASE a \notin Moved /\ b \notin Moved
  <2>1. /\ FirstAt(a) \in {3, 10, 11, 12, 13, 14, 18, 22} /\ p = FirstAt(a)
        /\ FirstAt(b) \in {3, 10, 11, 12, 13, 14, 18, 22} /\ q = FirstAt(b)
    BY <1>2, <1>6
  <2>2. QED
    BY <2>1
<1>7. QED
  BY <1>3, <1>4, <1>5, <1>6

LEMMA MergesInOrder ==
  ASSUME Shapes, NEW t \in Open, NEW x \in Open, Kind(t) = "merge", Kind(x) = "merge",
         Waits(t, x), Waits(x, t)
  PROVE  Source(t) = Target(x) /\ Head(todo[t]).of = Head(todo[x]).of
<1>1. /\ MergeAt(t) \in 1 .. 23 /\ Head(todo[t]).op = MergeOps[MergeAt(t)]
      /\ MergeAt(x) \in 1 .. 23 /\ Head(todo[x]).op = MergeOps[MergeAt(x)]
  BY MergeHead
<1>2. /\ Head(todo[t]).op \notin {"ensure", "keep"}
      /\ Head(todo[x]).op \notin {"ensure", "keep"}
  BY <1>1, MergeStatements
<1>3. PICK r \in DOMAIN Effect(t) : r \in DOMAIN own[x]
  BY <1>2 DEF Waits, Wanted
<1>4. PICK w \in DOMAIN Effect(x) : w \in DOMAIN own[t]
  BY <1>2 DEF Waits, Wanted
<1> DEFINE p == MergeAt(t)
           q == MergeAt(x)
<1>5. /\ r[1] = Head(todo[t]).of /\ w[1] = Head(todo[x]).of
      /\ FirstAt(r[1]) <= p /\ p <= LastAt(r[1])
      /\ LastAt(r[1]) = p /\ r[1] \in Moved => r[2] = Source(t)
      /\ FirstAt(w[1]) <= q /\ q <= LastAt(w[1])
  BY MergeWrites
<1>6. /\ FirstAt(r[1]) < q
      /\ r[1] \in Moved /\ q <= LastAt(r[1]) => r[2] = Target(x)
      /\ FirstAt(w[1]) < p
  BY <1>3, <1>4, MergeHasCome
<1>7. p # 23 /\ q # 23
  <2>1. \A y : Head(todo[y]).op = "commit" => Effect(y) = <<>>
    BY DEF Effect
  <2>2. DOMAIN Effect(t) # {} /\ DOMAIN Effect(x) # {}
    BY <1>3, <1>4
  <2>3. Head(todo[t]).op # "commit" /\ Head(todo[x]).op # "commit"
    BY <2>1, <2>2
  <2>4. QED
    BY <1>1, <2>3, MergeStatements
<1>8. p \in 1 .. 22 /\ q \in 1 .. 22
  <2>1. p \in 1 .. 23 /\ q \in 1 .. 23
    BY <1>1
  <2> HIDE DEF p, q
  <2>2. QED
    BY <1>7, <2>1
<1> HIDE DEF p, q
<1>9. /\ r[1] \in Moved /\ p = LastAt(r[1]) /\ w[1] = r[1] /\ q = LastAt(w[1])
  BY <1>5, <1>6, <1>8, TablesApart
<1>10. QED
  BY <1>5, <1>6, <1>9

\* The row that an event waits for is the one that its statement names.
LEMMA EventWants ==
  ASSUME Shapes, NEW t \in Open, Kind(t) = "event", NEW row \in Wanted(t)
  PROVE  LET s == Head(todo[t]) IN
         /\ Loaded(t) /\ s.of = row
         /\ \/ row = EntryRow(t)
            \/ /\ row[2] = Actor(t)
               /\ \/ row[1] \in Commanded
                  \/ row[1] = "rule_state" /\ Phase(s) = 3
                  \/ row[1] \in Touchable /\ 3 < Phase(s)
         /\ 3 < Phase(s) => row[1] \in Touchable \union AfterRules
<1> DEFINE s == Head(todo[t])
<1>1. Loaded(t)
  BY NotLoaded DEF Wanted, Effect
<1>2. t \in Calls
  BY DEF Open
<1>3. /\ XPRow(t)[1] = "xp_tracks" /\ XPRow(t)[2] = Actor(t)
      /\ WalletRow(t)[1] = "wallets" /\ WalletRow(t)[2] = Actor(t)
      /\ BoardRow(t)[1] = "leaderboard_entries" /\ BoardRow(t)[2] = Actor(t)
  BY <1>2, ActorRows
<1>4. \A r \in Unlocked(t) \union Granted(t) :
        r[2] = Actor(t) /\ r[1] \in {"achievement_unlocks", "inventory_items"}
  BY <1>2, ActorKeys
<1>5. EventStatement(t, s) /\ s.op \in Ops /\ \A r \in DOMAIN read[t] : r \in Row
  BY <1>1, EventHead
<1>6. /\ \/ Call[t].xp > 0 /\ s \in Earned(t)
         \/ s.op = "ensure" /\ s.of \in Unlocked(t)
         \/ s.op = "grant" /\ s.of \in Granted(t)
         \/ s.op = "raise" /\ s.of = BoardRow(t) /\ Call[t].points > 0
         \/ /\ s.op = "keep" /\ s.of \in DOMAIN read[t]
            /\ s.of[1] = "achievement_unlocks" /\ s.of[2] = Actor(t)
         \/ /\ s.op = "write" /\ s.of \in DOMAIN read[t] /\ s.of[2] = Actor(t)
            /\ s.of[1] \in Persisted \ {"achievement_unlocks"}
         \/ s.op = "commit"
      /\ s = Statement(s.op, s.of)
  BY <1>2, <1>5, StatementForms
<1>7. s.op \notin {"sum", "commit"} /\ s.of = row
  BY <1>5 DEF Wanted, Effect, Ops
<1>8. CASE s \in Earned(t)
  <2>1. \/ s = Statement("ensure", XPRow(t)) /\ row = XPRow(t)
        \/ s = Statement("entry", EntryRow(t)) /\ row = EntryRow(t)
        \/ s = Statement("write", WalletRow(t)) /\ row = WalletRow(t)
    BY <1>7, <1>8 DEF Earned, Statement
  <2>2. Phase(s) = 1
    BY <1>3, <2>1, PhasesOf
  <2>3. QED
    BY <1>1, <1>3, <1>7, <2>1, <2>2 DEF Commanded
<1>9. CASE s.op \in {"ensure", "grant"} /\ s.of \in Unlocked(t) \union Granted(t)
  <2>1. Phase(s) = 1
    BY <1>6, <1>9, PhasesOf
  <2>2. QED
    BY <1>1, <1>4, <1>7, <1>9, <2>1 DEF Commanded
<1>10. CASE s.op = "raise" /\ s.of = BoardRow(t)
  BY <1>1, <1>3, <1>7, <1>10 DEF Commanded, AfterRules
<1>11. CASE s.op = "keep" /\ s.of[1] = "achievement_unlocks" /\ s.of[2] = Actor(t)
  BY <1>1, <1>7, <1>11 DEF Commanded, AfterRules
<1>12. CASE s.op = "write" /\ s.of[2] = Actor(t) /\ s.of[1] \in Persisted \ {"achievement_unlocks"}
  <2>1. /\ row[1] = "xp_tracks" => Phase(s) = 2
        /\ row[1] = "rule_state" => Phase(s) = 3
        /\ row[1] \in Touchable => Phase(s) \in {4, 5, 8}
        /\ row[1] = "leaderboard_entries" => Phase(s) = 7
    BY <1>6, <1>7, <1>12, PhasesOf DEF Touchable
  <2>2. row[1] \in {"xp_tracks", "rule_state", "leaderboard_entries"} \union Touchable
    BY <1>7, <1>12 DEF Persisted, StateOfActor, Touchable
  <2>3. QED
    BY <1>1, <1>7, <1>12, <2>1, <2>2 DEF Commanded, AfterRules
<1>13. QED
  BY <1>6, <1>7, <1>8, <1>9, <1>10, <1>11, <1>12

\* If an event waits for a row that no command takes, then the other event is beyond
\* the rule state, which it has written, and this one has not come to it: it waits
\* for the rule state, and the other one at a board or an achievement.
LEMMA LateWaits ==
  ASSUME Sound, NEW t \in Open, NEW x \in Open, Kind(t) = "event", Kind(x) = "event", t # x,
         Actor(t) = Actor(x),
         NEW r \in Wanted(t), r \in DOMAIN own[x], NEW w \in Wanted(x), w \in DOMAIN own[t],
         r[1] \in Late
  PROVE  r[1] = "rule_state" /\ w[1] \in AfterRules
<1> DEFINE a == Phase(Head(todo[t]))
           b == Phase(Head(todo[x]))
<1>1. Shapes /\ Exclusive /\ t \in Calls /\ x \in Calls
  BY DEF Sound, Lawful, Open
<1>2. /\ Loaded(t)
      /\ \/ r = EntryRow(t)
         \/ r[1] \in Commanded
         \/ r[1] = "rule_state" /\ a = 3
         \/ r[1] \in Touchable /\ 3 < a
  BY <1>1, EventWants
<1>3. Loaded(x) /\ (3 < b => w[1] \in Touchable \union AfterRules)
  BY <1>1, EventWants
<1>4. /\ EventOwns(x, b, r, own[x][r])
      /\ Still(x, Statement("write", RuleRow(x))) \/ RuleRow(x) \in DOMAIN own[x]
      /\ \A s : Still(x, s) => b <= Phase(s)
  <2>1. /\ \A row \in DOMAIN own[x] : EventOwns(x, b, row, own[x][row])
        /\ Still(x, Statement("write", RuleRow(x))) \/ RuleRow(x) \in DOMAIN own[x]
        /\ Elements(todo[x]) = {Head(todo[x])} \union Elements(Tail(todo[x]))
        /\ \A s \in Elements(Tail(todo[x])) : b <= Phase(s)
    BY <1>1, <1>3, EventHead
  <2>2. b <= b
    BY PhasesOf
  <2>3. QED
    BY <2>1, <2>2 DEF Still
<1>5. 3 < b
  BY <1>4 DEF EventOwns
<1>6. Phase(Statement("write", RuleRow(x))) = 3 /\ RuleRow(t)[1] = "rule_state"
  BY <1>1, ActorRows, PhasesOf
<1>7. b \in 1 .. 9 /\ a \in 1 .. 9
  BY PhasesOf
<1>8. ~Still(x, Statement("write", RuleRow(x)))
  <2>1. ~(b <= 3)
    <3> HIDE DEF b
    <3>1. QED
      BY <1>5, <1>7
  <2>2. QED
    BY <1>4, <1>6, <2>1
<1>9. RuleRow(t) \in DOMAIN own[x]
  BY <1>4, <1>8 DEF RuleRow
<1>10. RuleRow(t) \notin DOMAIN own[t]
  BY <1>1, <1>9 DEF Exclusive
<1>11. /\ \A row \in DOMAIN own[t] : EventOwns(t, a, row, own[t][row])
       /\ Still(t, Statement("write", RuleRow(t)))
       /\ \A s : Still(t, s) => a <= Phase(s)
  <2>1. /\ \A row \in DOMAIN own[t] : EventOwns(t, a, row, own[t][row])
        /\ Still(t, Statement("write", RuleRow(t))) \/ RuleRow(t) \in DOMAIN own[t]
        /\ Elements(todo[t]) = {Head(todo[t])} \union Elements(Tail(todo[t]))
        /\ \A s \in Elements(Tail(todo[t])) : a <= Phase(s)
    BY <1>1, <1>2, EventHead
  <2>2. a <= a
    BY PhasesOf
  <2>3. QED
    BY <1>10, <2>1, <2>2 DEF Still
<1>12. a <= 3
  <2>1. Phase(Statement("write", RuleRow(t))) = 3
    BY <1>6, PhasesOf
  <2>2. QED
    BY <1>11, <2>1
<1>13. ~(3 < a)
  <2> HIDE DEF a
  <2>1. QED
    BY <1>7, <1>12
<1>14. w[1] \notin Touchable
  BY <1>11, <1>13 DEF EventOwns, Late
<1>15. r[1] # "ledger_entries" /\ r[1] \notin Commanded
  BY DEF Late, Touchable, Commanded
<1>16. QED
  BY <1>2, <1>3, <1>5, <1>6, <1>13, <1>14, <1>15, RowNames

LEMMA EventsInOrder ==
  ASSUME Sound, NEW t \in Open, NEW x \in Open, Kind(t) = "event", Kind(x) = "event",
         Waits(t, x), Waits(x, t)
  PROVE  LET a == Head(todo[t]).of
             b == Head(todo[x]).of
         IN \/ {a[1], b[1]} \subseteq Commanded
            \/ "rule_state" \in {a[1], b[1]} /\ {a[1], b[1]} \intersect AfterRules # {}
<1>1. PICK r \in Wanted(t) : r \in DOMAIN own[x]
  BY DEF Waits
<1>2. PICK w \in Wanted(x) : w \in DOMAIN own[t]
  BY DEF Waits
<1>3. Shapes /\ t # x /\ t \in Calls /\ x \in Calls
  BY DEF Sound, Waits, Open
<1>4. /\ Loaded(t) /\ Head(todo[t]).of = r
      /\ \/ r = EntryRow(t)
         \/ r[2] = Actor(t) /\ r[1] \in Commanded \union Late
  BY <1>3, EventWants DEF Late
<1>5. /\ Loaded(x) /\ Head(todo[x]).of = w
      /\ \/ w = EntryRow(x)
         \/ w[2] = Actor(x) /\ w[1] \in Commanded \union Late
  BY <1>3, EventWants DEF Late
<1>6. /\ (r[1] \in StateTables /\ r[2] = Actor(x)) \/ r = EntryRow(x)
      /\ (w[1] \in StateTables /\ w[2] = Actor(t)) \/ w = EntryRow(t)
  BY <1>1, <1>2, <1>3, <1>4, <1>5, EventHead DEF EventOwns
<1>7. /\ EntryRow(t) # EntryRow(x) /\ EntryRow(t)[1] = "ledger_entries"
      /\ EntryRow(x)[1] = "ledger_entries" /\ "ledger_entries" \notin StateTables
  BY <1>3, RowNames DEF EntryRow, StateTables, Moved, SimpleTables
<1>8. r # EntryRow(t) /\ r # EntryRow(x) /\ w # EntryRow(x)
  <2>1. "ledger_entries" \notin Commanded \union Late
    BY DEF Commanded, Late, Touchable
  <2>2. QED
    BY <1>4, <1>6, <1>7, <2>1
<1>9. /\ r[1] \in Commanded \union Late /\ r[2] = Actor(t) /\ r[2] = Actor(x)
      /\ w[1] \in Commanded \union Late
  BY <1>4, <1>5, <1>6, <1>8
<1>10. Actor(t) = Actor(x)
  BY <1>9
<1>11. CASE r[1] \in Late
  <2>1. r[1] = "rule_state" /\ w[1] \in AfterRules
    BY <1>1, <1>2, <1>3, <1>10, <1>11, LateWaits
  <2>2. QED
    BY <1>4, <1>5, <2>1
<1>12. CASE w[1] \in Late
  <2>1. w[1] = "rule_state" /\ r[1] \in AfterRules
    BY <1>1, <1>2, <1>3, <1>10, <1>12, LateWaits
  <2>2. QED
    BY <1>4, <1>5, <2>1
<1>13. CASE r[1] \in Commanded /\ w[1] \in Commanded
  BY <1>4, <1>5, <1>13
<1>14. QED
  BY <1>9, <1>11, <1>12, <1>13

\* Of two calls that wait for each other, merges merge the same two users into each
\* other, and events wait for rows that commands take, or one of them for the rule
\* state.
THEOREM LocksAreInOrder == MergeSpec => []LocksInOrder
<1>1. Sound => LocksInOrder
  <2>1. SUFFICES ASSUME Sound, NEW t \in Open, NEW x \in Open, Waits(t, x), Waits(x, t)
                 PROVE  LET a == Head(todo[t]).of
                            b == Head(todo[x]).of
                        IN \/ Kind(t) # Kind(x)
                           \/ Kind(t) = "merge" /\ a = b /\ Source(t) = Target(x)
                           \/ Kind(t) = "event" /\ {a[1], b[1]} \subseteq Commanded
                           \/ /\ Kind(t) = "event" /\ "rule_state" \in {a[1], b[1]}
                              /\ {a[1], b[1]} \intersect AfterRules # {}
    BY DEF LocksInOrder
  <2>2. Shapes
    BY <2>1 DEF Sound
  <2>3. CASE Kind(t) = "merge" /\ Kind(x) = "merge"
    BY <2>1, <2>2, <2>3, MergesInOrder
  <2>4. CASE Kind(t) = "event" /\ Kind(x) = "event"
    BY <2>1, <2>4, EventsInOrder
  <2>5. CASE Kind(t) = "link" /\ Kind(x) = "link"
    <3>1. /\ LinkShape(x) /\ LinkAt(t) \in 1 .. 4 /\ Head(todo[t]).op = LinkOps[LinkAt(t)]
          /\ LinkShape(t)
      BY <2>1, <2>2, <2>5, LinkHead
    <3>2. PICK row \in Wanted(x) : row \in DOMAIN own[t]
      BY <2>1 DEF Waits
    <3>3. Head(todo[t]).op = "commit"
      BY <3>1, <3>2, LinkStatements DEF LinkShape
    <3>4. PICK other \in Wanted(t) : TRUE
      BY <2>1 DEF Waits
    <3>5. Effect(t) = <<>>
      BY <3>3 DEF Effect
    <3>6. DOMAIN Effect(t) = {}
      BY <3>5
    <3>7. QED
      BY <3>3, <3>4, <3>6 DEF Wanted
  <2>6. Kind(t) \in {"merge", "event", "link"} /\ Kind(x) \in {"merge", "event", "link"}
    BY <2>1, CallKinds DEF Open
  <2>7. QED
    BY <2>3, <2>4, <2>5, <2>6
<1>2. QED
  BY <1>1, SoundHolds, PTL

-----------------------------------------------------------------------------
(* What a merge takes along.                                               *)

Counted == {"xp_tracks", "wallets", "leaderboard_entries"}

\* A user has nothing left that counts.
Emptied(u) ==
  /\ \A table \in Counted : \A row \in RowsOf(table, u) : db[row] = None
  /\ \A x \in Events : db[EntryRow(x)] # u

Unmerged(t) ==
  1 < MergeAt(t) => db[UserRow(Source(t))] = None \/ Emptied(Source(t))

\* Between the SELECT and the write of a table: the rows of the source are read.
Found(t, table) ==
  MergeAt(t) = FirstAt(table) =>
    /\ \A row \in DOMAIN read[t] :
         \E old \in RowsOf(table, Source(t)) : db[old] # None /\ row = OfTarget(t, old)
    /\ \A old \in RowsOf(table, Source(t)) :
         db[old] # None => /\ OfTarget(t, old) \in DOMAIN read[t]
                           /\ read[t][OfTarget(t, old)] = db[old]

\* After the write: the target's rows are those of both.
Copied(t, table) ==
  FirstAt(table) < MergeAt(t) =>
    \A old \in RowsOf(table, Source(t)) :
      LET new == OfTarget(t, old) IN
      /\ db[old] = None => new \notin DOMAIN own[t]
      /\ db[old] # None =>
           /\ new \in DOMAIN own[t]
           /\ own[t][new] = IF db[new] = None THEN db[old] ELSE Merged(table, db[new], db[old])

\* After the DELETE: the source's rows are gone.
Cleared(t, table) ==
  LastAt(table) < MergeAt(t) =>
    \A old \in RowsOf(table, Source(t)) : db[old] # None => old \in DOMAIN own[t]

Repaid(t) ==
  18 < MergeAt(t) =>
    \A x \in Events : db[EntryRow(x)] = Source(t) => EntryRow(x) \in DOMAIN own[t]

Moves(t) ==
  /\ Unmerged(t) /\ Repaid(t)
  /\ \A table \in Counted : Found(t, table) /\ Copied(t, table) /\ Cleared(t, table)

\* Of two merges of a user into the same target, one has come first.
Alone ==
  \A t, x \in Open :
    Twins(t, x) /\ 3 < MergeAt(t) /\ 3 < MergeAt(x) /\ Source(t) \notin tangled
      => Emptied(Source(t))

Moving ==
  \A t \in Open : Kind(t) = "merge" /\ Source(t) \notin tangled => Moves(t)

\* The statements that write the tables that count.
LEMMA Places ==
  /\ \A table : /\ FirstAt(table) \in 3 .. 22 /\ LastAt(table) \in 3 .. 22
                /\ FirstAt(table) <= LastAt(table)
  /\ \A table \in Counted : 3 < FirstAt(table) /\ LastAt(table) = FirstAt(table) + 1
<1>1. \A table : FirstAt(table) \in 3 .. 22
  BY DEF FirstAt
<1>2. \A table \in Moved : FirstAt(table) \in 3 .. 20
  BY DEF FirstAt, Moved
<1>3. \A table \in Counted : table \in Moved /\ 3 < FirstAt(table)
  BY DEF FirstAt, Counted, Moved
<1>4. QED
  BY <1>1, <1>2, <1>3 DEF LastAt

LEMMA CountedRows ==
  ASSUME NEW table \in Counted, NEW u \in Users, NEW row \in RowsOf(table, u)
  PROVE  /\ table \in StateTables /\ table \in Moved
         /\ row \in Row /\ row[1] = table /\ row[2] = u
         /\ row[1] \in StateTables
<1>1. table \in StateTables /\ table \in Moved
  BY DEF Counted, StateTables, Moved, SimpleTables
<1>2. QED
  BY <1>1, RowsAreRows, RowNames

\* The rows of a merge's source change under it only when a twin commits.
LEMMA SourceKept ==
  ASSUME Shapes, Lawful, Lines, NEW t \in Open, Kind(t) = "merge", Source(t) \notin tangled,
         NEW x \in Calls \ {t}, StepOf(x)
  PROVE  /\ \A table \in Counted : \A row \in RowsOf(table, Source(t)) :
              \/ db'[row] = db[row]
              \/ Commits(x) /\ x \in Open /\ Twins(t, x) /\ db'[row] = None
         /\ \A y \in Events : db'[EntryRow(y)] = Source(t) => db[EntryRow(y)] = Source(t)
         /\ \/ db'[UserRow(Source(t))] = db[UserRow(Source(t))]
            \/ Commits(x) /\ x \in Open /\ Twins(t, x)
         /\ \A row \in DOMAIN own[t] : db'[row] = db[row]
<1> DEFINE s == Source(t)
<1>1. t \in Calls /\ s \in Users
  BY CallKinds DEF Open
<1>2. ~Meets(t, x) \/ x \notin Open
  BY <1>1 DEF Lines, MetAreTangled, UsersOf
<1>3. ASSUME x \in Open, Kind(x) = "merge", s \in UsersOf(x)
      PROVE  Twins(t, x) /\ s = Source(x) /\ s # Target(x)
  <2>1. Call[t] = Call[x]
    BY <1>2, <1>3 DEF Meets
  <2>2. s = Source(x) /\ Source(x) # Target(x)
    BY <1>3, <2>1, CallKinds DEF Source
  <2>3. QED
    BY <1>3, <2>1, <2>2 DEF Twins
<1>4. ASSUME x \in Open, Kind(x) = "event" PROVE Actor(x) # s
  BY <1>2, <1>4 DEF Meets, UsersOf
<1>5. ASSUME NEW table \in Counted, NEW row \in RowsOf(table, s), db'[row] # db[row]
      PROVE  Commits(x) /\ x \in Open /\ Twins(t, x) /\ db'[row] = None
  <2>1. row \in Row /\ row[1] \in StateTables /\ row[2] = s
    BY <1>1, CountedRows
  <2>2. Commits(x) /\ x \in Open /\ row \in DOMAIN own[x] /\ db'[row] = own[x][row]
    BY <1>5, <2>1, RowsChange
  <2>3. /\ Kind(x) = "merge"
        /\ \/ s = Target(x) /\ own[x][row] # None
           \/ s = Source(x) /\ own[x][row] = None
    BY <1>4, <2>1, <2>2, OwnedKinds
  <2>4. s \in UsersOf(x)
    BY <2>3 DEF UsersOf
  <2>5. QED
    BY <1>3, <2>2, <2>3, <2>4
<1>6. ASSUME NEW y \in Events, db'[EntryRow(y)] = s, db[EntryRow(y)] # s PROVE FALSE
  <2>1. EntryRow(y) \in Row /\ EntryRow(y)[1] = "ledger_entries"
    BY RowsAreRows, RowNames
  <2>2. Commits(x) /\ x \in Open /\ EntryRow(y) \in DOMAIN own[x] /\ s = own[x][EntryRow(y)]
    BY <1>6, <2>1, RowsChange
  <2>3. Kind(x) = "merge" /\ s = Target(x)
    BY <1>4, <2>1, <2>2, OwnedKinds
  <2>4. QED
    BY <1>3, <2>2, <2>3 DEF UsersOf
<1>7. \/ db'[UserRow(s)] = db[UserRow(s)]
      \/ Commits(x) /\ x \in Open /\ Twins(t, x)
  <2>1. ASSUME db'[UserRow(s)] # db[UserRow(s)]
        PROVE  Commits(x) /\ x \in Open /\ Kind(x) = "merge" /\ s = Source(x)
    BY <1>1, <2>1, UsersChange
  <2>2. QED
    BY <1>3, <2>1 DEF UsersOf
<1>8. ASSUME NEW row \in DOMAIN own[t] PROVE db'[row] = db[row]
  <2>1. row \in Row
    BY OwnedKinds
  <2>2. row \notin DOMAIN own[x]
    BY <1>1 DEF Lawful, Exclusive
  <2>3. QED
    BY <2>1, <2>2, RowsChange
<1>9. QED
  BY <1>5, <1>6, <1>7, <1>8

LEMMA EmptiedStays ==
  ASSUME Shapes, Lawful, Lines, NEW t \in Open, Kind(t) = "merge", Source(t) \notin tangled,
         NEW x \in Calls \ {t}, StepOf(x), Emptied(Source(t))
  PROVE  Emptied(Source(t))'
<1>1. /\ \A table \in Counted : \A row \in RowsOf(table, Source(t)) :
           db'[row] = db[row] \/ db'[row] = None
      /\ \A y \in Events : db'[EntryRow(y)] = Source(t) => db[EntryRow(y)] = Source(t)
  BY SourceKept
<1>2. QED
  BY <1>1 DEF Emptied

LEMMA EmptiedAtCommit ==
  ASSUME Shapes, Lawful, Lines, NEW t \in Open, Kind(t) = "merge",
         StepOf(t), Commits(t), Moves(t)
  PROVE  Emptied(Source(t))'
<1> DEFINE s == Source(t)
<1>1. t \in Calls /\ s \in Users /\ Target(t) # s /\ MergeAt(t) = 23
  BY CallKinds, AtCommit DEF Open
<1>2. \A table : LastAt(table) < 23
  BY Places
<1>3. ASSUME NEW table \in Counted, NEW row \in RowsOf(table, s) PROVE db'[row] = None
  <2>1. row \in Row /\ row[1] \in StateTables /\ row[2] = s
    BY <1>1, CountedRows
  <2>2. row \in DOMAIN own[t] => own[t][row] = None
    BY <1>1, <2>1, OwnedKinds
  <2>3. db[row] # None => row \in DOMAIN own[t]
    BY <1>1, <1>2, <1>3 DEF Moves, Cleared
  <2>4. db' = Overlay(own[t], db) /\ DOMAIN db = Row
    BY DEF Commits, Shapes, MergeTypeOK
  <2>5. QED
    BY <2>1, <2>2, <2>3, <2>4 DEF Overlay
<1>4. ASSUME NEW x \in Events PROVE db'[EntryRow(x)] # s
  <2>1. EntryRow(x) \in Row /\ EntryRow(x)[1] = "ledger_entries"
    BY RowsAreRows, RowNames
  <2>2. EntryRow(x) \in DOMAIN own[t] => own[t][EntryRow(x)] = Target(t)
    BY <2>1, OwnedKinds
  <2>3. db[EntryRow(x)] = s => EntryRow(x) \in DOMAIN own[t]
    BY <1>1 DEF Moves, Repaid
  <2>4. db' = Overlay(own[t], db) /\ DOMAIN db = Row
    BY DEF Commits, Shapes, MergeTypeOK
  <2>5. QED
    BY <1>1, <2>1, <2>2, <2>3, <2>4 DEF Overlay
<1>5. QED
  BY <1>3, <1>4 DEF Emptied

\* The steps of others leave a merge what it has read and written.
LEMMA MovesStay ==
  ASSUME Shapes, Lawful, Lines, Moving, Alone, NEW t \in Open, Kind(t) = "merge",
         Source(t) \notin tangled, NEW x \in Calls \ {t}, StepOf(x)
  PROVE  Moves(t)'
<1> DEFINE s == Source(t)
           p == MergeAt(t)
<1>1. /\ t \in Calls /\ s \in Users /\ Target(t) \in Users /\ s # Target(t)
      /\ p \in 1 .. 23 /\ Moves(t)
  BY CallKinds, MergeHead DEF Open, Moving
<1>2. /\ \A table \in Counted : \A row \in RowsOf(table, s) :
           \/ db'[row] = db[row]
           \/ Commits(x) /\ x \in Open /\ Twins(t, x) /\ db'[row] = None
      /\ \A y \in Events : db'[EntryRow(y)] = s => db[EntryRow(y)] = s
      /\ \/ db'[UserRow(s)] = db[UserRow(s)]
         \/ Commits(x) /\ x \in Open /\ Twins(t, x)
      /\ \A row \in DOMAIN own[t] : db'[row] = db[row]
  BY SourceKept
<1>3. own'[t] = own[t] /\ read'[t] = read[t] /\ MergeAt(t)' = p
  BY <1>1, OthersStay DEF StepOf
<1>4. Unmerged(t)'
  <2>1. SUFFICES ASSUME 1 < p PROVE db'[UserRow(s)] = None \/ Emptied(s)'
    BY <1>3 DEF Unmerged
  <2>2. CASE Emptied(s)
    BY <2>2, EmptiedStays
  <2>3. CASE Commits(x) /\ x \in Open /\ Twins(t, x)
    <3>1. Kind(x) = "merge" /\ Source(x) = s
      BY <2>3 DEF Twins, Source
    <3>2. Moves(x)
      BY <2>3, <3>1 DEF Moving
    <3>3. QED
      BY <2>3, <3>1, <3>2, EmptiedAtCommit
  <2>4. CASE db[UserRow(s)] = None /\ db'[UserRow(s)] = db[UserRow(s)]
    BY <2>4
  <2>5. QED
    BY <1>1, <1>2, <2>1, <2>2, <2>3, <2>4 DEF Moves, Unmerged
<1>5. ASSUME 3 < p
      PROVE  \A table \in Counted : \A row \in RowsOf(table, s) : db'[row] = db[row]
  <2>1. SUFFICES ASSUME Commits(x), x \in Open, Twins(t, x),
                        NEW table \in Counted, NEW row \in RowsOf(table, s), db'[row] = None
                 PROVE  db[row] = None
    BY <1>2
  <2>2. Kind(x) = "merge"
    BY <2>1 DEF Twins
  <2>3. 3 < MergeAt(x)
    BY <2>1, <2>2, AtCommit
  <2>4. Emptied(s)
    BY <1>5, <2>1, <2>3 DEF Alone
  <2>5. QED
    BY <2>4 DEF Emptied
<1>6. Repaid(t)'
  BY <1>1, <1>2, <1>3 DEF Moves, Repaid
<1>7. ASSUME NEW table \in Counted
      PROVE  Found(t, table)' /\ Copied(t, table)' /\ Cleared(t, table)'
  <2>1. /\ FirstAt(table) \in Nat /\ LastAt(table) \in Nat /\ p \in Nat
        /\ 3 < FirstAt(table) /\ 3 < LastAt(table)
    BY <1>1, Places
  <2> HIDE DEF p
  <2>2. Found(t, table)'
    <3>1. p = FirstAt(table) => Found(t, table) /\ 3 < p
      BY <1>1, <2>1 DEF Moves
    <3>2. QED
      BY <1>3, <1>5, <3>1 DEF Found, p
  <2>3. Cleared(t, table)'
    <3>1. SUFFICES ASSUME LastAt(table) < p, NEW old \in RowsOf(table, s), db'[old] # None
                   PROVE  old \in DOMAIN own[t]
      BY <1>3 DEF Cleared
    <3>2. 3 < p
      BY <2>1, <3>1
    <3>3. db[old] # None
      BY <1>5, <3>1, <3>2
    <3>4. QED
      BY <1>1, <3>1, <3>3 DEF Moves, Cleared, p
  <2>4. Copied(t, table)'
    <3>1. SUFFICES ASSUME FirstAt(table) < p, NEW old \in RowsOf(table, s)
                   PROVE  LET new == OfTarget(t, old) IN
                          /\ db'[old] = None => new \notin DOMAIN own[t]
                          /\ db'[old] # None =>
                               /\ new \in DOMAIN own[t]
                               /\ own[t][new] = IF db'[new] = None THEN db'[old]
                                                ELSE Merged(table, db'[new], db'[old])
      BY <1>3 DEF Copied
    <3>2. db'[old] = db[old]
      <4>1. 3 < p
        BY <2>1, <3>1
      <4>2. QED
        BY <1>5, <3>1, <4>1
    <3> DEFINE new == OfTarget(t, old)
    <3>3. /\ db[old] = None => new \notin DOMAIN own[t]
          /\ db[old] # None =>
               /\ new \in DOMAIN own[t]
               /\ own[t][new] = IF db[new] = None THEN db[old]
                                ELSE Merged(table, db[new], db[old])
      BY <1>1, <3>1 DEF Moves, Copied, p
    <3>4. new \in DOMAIN own[t] => db'[new] = db[new]
      BY <1>2
    <3> HIDE DEF new
    <3>5. /\ db'[old] = None => new \notin DOMAIN own[t]
          /\ db'[old] # None =>
               /\ new \in DOMAIN own[t]
               /\ own[t][new] = IF db'[new] = None THEN db'[old]
                                ELSE Merged(table, db'[new], db'[old])
      BY <3>2, <3>3, <3>4
    <3>6. QED
      BY <3>5 DEF new
  <2>5. QED
    BY <2>2, <2>3, <2>4
<1>8. QED
  BY <1>4, <1>6, <1>7 DEF Moves

LEMMA CountedStatements ==
  /\ \A table \in Counted :
       /\ FirstAt(table) \in 5 .. 20
       /\ MergeOps[FirstAt(table) - 1] = "select" /\ MergeTables[FirstAt(table) - 1] = table
       /\ MergeOps[FirstAt(table)] = "upsert" /\ MergeTables[FirstAt(table)] = table
       /\ MergeOps[FirstAt(table) + 1] = "delete" /\ MergeTables[FirstAt(table) + 1] = table
  /\ MergeOps[18] = "repoint" /\ MergeTables[18] = "ledger_entries"
<1>1. /\ FirstAt("xp_tracks") = 5 /\ FirstAt("wallets") = 16
      /\ FirstAt("leaderboard_entries") = 20
  BY DEF FirstAt
<1>2. /\ MergeOps[4] = "select" /\ MergeOps[5] = "upsert" /\ MergeOps[6] = "delete"
      /\ MergeOps[15] = "select" /\ MergeOps[16] = "upsert" /\ MergeOps[17] = "delete"
      /\ MergeOps[19] = "select" /\ MergeOps[20] = "upsert" /\ MergeOps[21] = "delete"
      /\ MergeOps[18] = "repoint"
  BY DEF MergeOps
<1>3. /\ MergeTables[4] = "xp_tracks" /\ MergeTables[5] = "xp_tracks"
      /\ MergeTables[6] = "xp_tracks" /\ MergeTables[15] = "wallets"
      /\ MergeTables[16] = "wallets" /\ MergeTables[17] = "wallets"
      /\ MergeTables[19] = "leaderboard_entries" /\ MergeTables[20] = "leaderboard_entries"
      /\ MergeTables[21] = "leaderboard_entries" /\ MergeTables[18] = "ledger_entries"
  BY DEF MergeTables
<1>4. 5 - 1 = 4 /\ 5 + 1 = 6 /\ 16 - 1 = 15 /\ 16 + 1 = 17 /\ 20 - 1 = 19 /\ 20 + 1 = 21
  OBVIOUS
<1>5. QED
  BY <1>1, <1>2, <1>3, <1>4 DEF Counted

\* A row under the target's name stands for one row of the source.
LEMMA NamedBack ==
  ASSUME NEW t \in Calls, NEW table, NEW u, NEW old \in RowsOf(table, u)
  PROVE  [OfTarget(t, old) EXCEPT ![2] = u] = old
<1>1. /\ [[<<table, u>> EXCEPT ![2] = Target(t)] EXCEPT ![2] = u] = <<table, u>>
      /\ \A k : [[<<table, u, k>> EXCEPT ![2] = Target(t)] EXCEPT ![2] = u] = <<table, u, k>>
  OBVIOUS
<1>2. QED
  BY <1>1 DEF RowsOf, OfTarget

\* A merge owns no row of a table before it has come to the table.
LEMMA NotYetOwned ==
  ASSUME Shapes, NEW t \in Open, Kind(t) = "merge", NEW table \in Counted, NEW u,
         NEW row \in RowsOf(table, u)
  PROVE  /\ MergeAt(t) <= FirstAt(table) => row \notin DOMAIN own[t]
         /\ MergeAt(t) <= LastAt(table) /\ u # Target(t) => row \notin DOMAIN own[t]
<1>1. row[1] = table /\ row[2] = u /\ table \in Moved
  BY CountedRows, RowNames DEF Counted, Moved
<1>2. FirstAt(table) \in Nat /\ LastAt(table) \in Nat /\ MergeAt(t) \in Nat
  <2>1. MergeAt(t) \in 1 .. 23
    BY MergeHead
  <2>2. FirstAt(table) \in 3 .. 22 /\ LastAt(table) \in 3 .. 22
    BY Places
  <2> HIDE DEF MergeAt
  <2>3. QED
    BY <2>1, <2>2
<1>3. row \in DOMAIN own[t] => /\ FirstAt(table) < MergeAt(t)
                               /\ MergeAt(t) <= LastAt(table) => u = Target(t)
  BY <1>1, MergeHasCome
<1>4. QED
  BY <1>2, <1>3

LEMMA SelectFinds ==
  ASSUME Shapes, NEW t \in Open, Kind(t) = "merge", Selects(t), NEW table \in Counted,
         MergeAt(t) + 1 = FirstAt(table), MergeAt(t)' = MergeAt(t) + 1
  PROVE  Found(t, table)'
<1> DEFINE s == Source(t)
<1>1. t \in Calls /\ s \in Users /\ MergeAt(t) \in 1 .. 23 /\ FirstAt(table) \in Nat
  <2>1. t \in Calls /\ s \in Users
    BY CallKinds DEF Open
  <2>2. MergeAt(t) \in 1 .. 23
    BY MergeHead
  <2>3. FirstAt(table) \in Nat
    BY Places
  <2>4. QED
    BY <2>1, <2>2, <2>3
<1>2. MergeAt(t) = FirstAt(table) - 1 /\ MergeAt(t) <= FirstAt(table)
  BY <1>1
<1>3. Head(todo[t]).of = table
  BY <1>2, MergeHead, CountedStatements
<1>4. \A old \in RowsOf(table, s) : Seen(t, old) = db[old]
  BY <1>2, NotYetOwned DEF Seen
<1>5. read'[t] = [row \in {OfTarget(t, r) : r \in Present(t, RowsOf(table, s))} |->
                    Seen(t, [row EXCEPT ![2] = s])]
  BY <1>3 DEF Selects
<1>6. Present(t, RowsOf(table, s)) = {old \in RowsOf(table, s) : db[old] # None}
  BY <1>4 DEF Present
<1>7. \A row \in DOMAIN read'[t] :
        \E old \in RowsOf(table, s) : db[old] # None /\ row = OfTarget(t, old)
  BY <1>5, <1>6
<1>8. ASSUME NEW old \in RowsOf(table, s), db[old] # None
      PROVE  OfTarget(t, old) \in DOMAIN read'[t] /\ read'[t][OfTarget(t, old)] = db[old]
  <2>1. OfTarget(t, old) \in DOMAIN read'[t]
    BY <1>5, <1>6, <1>8
  <2>2. [OfTarget(t, old) EXCEPT ![2] = s] = old
    BY <1>1, NamedBack
  <2>3. QED
    BY <1>4, <1>5, <2>1, <2>2
<1>9. db' = db
  BY DEF Selects, Continues
<1>10. QED
  BY <1>7, <1>8, <1>9 DEF Found

LEMMA UpsertCopies ==
  ASSUME Shapes, NEW t \in Open, Kind(t) = "merge", Writes(t), NEW table \in Counted,
         MergeAt(t) = FirstAt(table), Found(t, table)
  PROVE  Copied(t, table)'
<1> DEFINE s == Source(t)
<1>1. t \in Calls /\ s \in Users /\ Target(t) \in Users /\ MergeAt(t) <= FirstAt(table)
  BY CallKinds, Places DEF Open
<1>2. Head(todo[t]).of = table /\ Head(todo[t]).op = "upsert"
  BY MergeHead, CountedStatements
<1>3. Effect(t) = Upserted(t)
  BY <1>2 DEF Effect
<1>4. own'[t] = Overlay(Upserted(t), own[t]) /\ db' = db
  BY <1>3 DEF Writes, Continues
<1>5. ASSUME NEW old \in RowsOf(table, s)
      PROVE  LET new == OfTarget(t, old) IN
             /\ db[old] = None => new \notin DOMAIN own'[t]
             /\ db[old] # None =>
                  /\ new \in DOMAIN own'[t]
                  /\ own'[t][new] = IF db[new] = None THEN db[old]
                                    ELSE Merged(table, db[new], db[old])
  <2> DEFINE new == OfTarget(t, old)
  <2>1. new \in RowsOf(table, Target(t))
    BY <1>1, Renamed
  <2>2. new \notin DOMAIN own[t] /\ new[1] = table
    BY <1>1, <2>1, NotYetOwned, RowNames
  <2>3. Seen(t, new) = db[new]
    BY <2>2 DEF Seen
  <2>4. ASSUME new \in DOMAIN read[t] PROVE db[old] # None
    <3>1. PICK r \in RowsOf(table, s) : db[r] # None /\ new = OfTarget(t, r)
      BY <2>4 DEF Found
    <3>2. [new EXCEPT ![2] = s] = old /\ [new EXCEPT ![2] = s] = r
      BY <1>1, <3>1, NamedBack
    <3>3. QED
      BY <3>1, <3>2
  <2>5. db[old] # None => new \in DOMAIN read[t] /\ read[t][new] = db[old]
    BY DEF Found
  <2> HIDE DEF new
  <2>6. DOMAIN Upserted(t) = DOMAIN read[t]
    BY DEF Upserted
  <2>7. new \in DOMAIN read[t] => Upserted(t)[new] = IF db[new] = None THEN read[t][new]
                                                    ELSE Merged(table, db[new], read[t][new])
    BY <2>2, <2>3 DEF Upserted
  <2>8. new \in DOMAIN own'[t] <=> new \in DOMAIN read[t]
    BY <1>4, <2>2, <2>6 DEF Overlay
  <2>9. new \in DOMAIN read[t] => own'[t][new] = Upserted(t)[new]
    BY <1>4, <2>6 DEF Overlay
  <2>10. /\ db[old] = None => new \notin DOMAIN own'[t]
         /\ db[old] # None =>
              /\ new \in DOMAIN own'[t]
              /\ own'[t][new] = IF db[new] = None THEN db[old]
                                ELSE Merged(table, db[new], db[old])
    BY <2>4, <2>5, <2>7, <2>8, <2>9
  <2>11. QED
    BY <2>10 DEF new
<1>6. QED
  BY <1>4, <1>5 DEF Copied

\* What a merge writes after it has copied a table leaves the copies.
LEMMA CopiesStay ==
  ASSUME Shapes, NEW t \in Open, Kind(t) = "merge", Writes(t), NEW table \in Counted,
         FirstAt(table) < MergeAt(t), NEW row \in RowsOf(table, Target(t))
  PROVE  /\ row \in DOMAIN own'[t] <=> row \in DOMAIN own[t]
         /\ row \in DOMAIN own[t] => own'[t][row] = own[t][row]
<1>1. /\ row[1] = table /\ row[2] = Target(t) /\ table \in Moved
      /\ Source(t) # Target(t)
  BY RowNames, CallKinds DEF Open, Counted, Moved
<1>2. /\ FirstAt(table) \in Nat /\ LastAt(table) = FirstAt(table) + 1
      /\ MergeAt(t) \in 1 .. 23
  <2>1. MergeAt(t) \in 1 .. 23
    BY MergeHead
  <2>2. FirstAt(table) \in 3 .. 22 /\ LastAt(table) = FirstAt(table) + 1
    BY Places
  <2>3. QED
    BY <2>1, <2>2
<1>3. row \notin DOMAIN Effect(t)
  BY <1>1, <1>2, MergeWrites
<1>4. own'[t] = Overlay(Effect(t), own[t])
  BY DEF Writes
<1>5. QED
  BY <1>3, <1>4 DEF Overlay

LEMMA DeleteClears ==
  ASSUME Shapes, NEW t \in Open, Kind(t) = "merge", Writes(t), NEW table \in Counted,
         MergeAt(t) = LastAt(table)
  PROVE  Cleared(t, table)'
<1> DEFINE s == Source(t)
<1>1. /\ t \in Calls /\ s \in Users /\ s # Target(t) /\ MergeAt(t) <= LastAt(table)
      /\ LastAt(table) = FirstAt(table) + 1
  BY CallKinds, Places DEF Open
<1>2. Head(todo[t]).of = table /\ Head(todo[t]).op = "delete"
  BY <1>1, MergeHead, CountedStatements
<1>3. Effect(t) = Deleted(t, table)
  BY <1>2 DEF Effect
<1>4. own'[t] = Overlay(Deleted(t, table), own[t]) /\ db' = db
  BY <1>3 DEF Writes, Continues
<1>5. ASSUME NEW old \in RowsOf(table, s), db[old] # None PROVE old \in DOMAIN own'[t]
  <2>1. Seen(t, old) = db[old]
    BY <1>1, NotYetOwned DEF Seen
  <2>2. old \in DOMAIN Deleted(t, table)
    BY <1>5, <2>1 DEF Deleted, Present
  <2>3. QED
    BY <1>4, <2>2 DEF Overlay
<1>6. QED
  BY <1>4, <1>5 DEF Cleared

LEMMA RepointRepays ==
  ASSUME Shapes, NEW t \in Open, Kind(t) = "merge", Writes(t), MergeAt(t) = 18
  PROVE  Repaid(t)'
<1>1. Head(todo[t]).of = "ledger_entries" /\ Head(todo[t]).op = "repoint"
  BY MergeHead, CountedStatements
<1>2. Effect(t) = Repointed(t, "ledger_entries")
  BY <1>1 DEF Effect
<1>3. own'[t] = Overlay(Repointed(t, "ledger_entries"), own[t]) /\ db' = db
  BY <1>2 DEF Writes, Continues
<1>4. ASSUME NEW x \in Events, db[EntryRow(x)] = Source(t)
      PROVE  EntryRow(x) \in DOMAIN own'[t]
  <2>1. EntryRow(x) \in Row /\ EntryRow(x)[1] = "ledger_entries"
    BY RowsAreRows, RowNames
  <2>2. EntryRow(x) \notin DOMAIN own[t] => EntryRow(x) \in DOMAIN Repointed(t, "ledger_entries")
    BY <1>4, <2>1 DEF Repointed, Seen
  <2>3. QED
    BY <1>3, <2>2 DEF Overlay
<1>5. QED
  BY <1>3, <1>4 DEF Repaid

\* A merge's own steps keep account of what it has read and written.
LEMMA MovesOwn ==
  ASSUME Shapes, Lawful, NEW t \in Calls, Kind(t) = "merge", StepOf(t), t \in Open',
         t \in Open => Moves(t)
  PROVE  Moves(t)'
<1> DEFINE s == Source(t)
           p == MergeAt(t)
<1>1. CASE Begins(t)
  <2>1. MergeAt(t)' = 1
    BY <1>1, AtBegin
  <2>2. \A table \in Counted : ~(1 = FirstAt(table)) /\ ~(FirstAt(table) < 1) /\ ~(LastAt(table) < 1)
    BY Places
  <2>3. QED
    BY <2>1, <2>2 DEF Moves, Unmerged, Repaid, Found, Copied, Cleared
<1>2. CASE t \in Open /\ (Checks(t) \/ Loads(t) \/ Selects(t) \/ Sums(t) \/ Writes(t))
  <2>1. /\ p' = p + 1 /\ p \in 1 .. 22
        /\ Checks(t) \/ Selects(t) \/ Writes(t)
        /\ Moves(t)
    BY <1>2, MergeKeepsShape
  <2>2. /\ db' = db /\ DOMAIN own[t] \subseteq DOMAIN own'[t]
        /\ own'[t] = own[t] \/ Writes(t)
    <3>1. CASE Checks(t) \/ Selects(t)
      BY <3>1 DEF Checks, Selects, Continues
    <3>2. CASE Writes(t)
      BY <3>2 DEF Writes, Continues, Overlay
    <3>3. QED
      BY <2>1, <3>1, <3>2
  <2>3. Head(todo[t]).op = MergeOps[p] /\ Head(todo[t]).of = MergeTables[p]
    BY <1>2, MergeHead
  <2>4. Unmerged(t)'
    <3>1. SUFFICES db'[UserRow(s)] = None \/ Emptied(s)'
      BY DEF Unmerged
    <3>2. CASE p = 1
      <4>1. MergeOps[1] = "validate" /\ MergeTables[1] = "source"
        BY DEF MergeOps, MergeTables
      <4>2. Head(todo[t]).op = "validate" /\ Head(todo[t]).of = "source"
        BY <2>3, <3>2, <4>1
      <4>3. Checks(t)
        BY <2>1, <4>2 DEF Selects, Writes, WriteOps
      <4>4. db[UserRow(s)] = None
        BY <4>2, <4>3 DEF Checks, Validated
      <4>5. QED
        BY <2>2, <4>4
    <3>3. CASE p # 1
      <4>1. 1 < p
        BY <2>1, <3>3
      <4>2. db[UserRow(s)] = None \/ Emptied(s)
        BY <2>1, <4>1 DEF Moves, Unmerged
      <4>3. QED
        BY <2>2, <4>2 DEF Emptied
    <3>4. QED
      BY <3>2, <3>3
  <2>5. Repaid(t)'
    <3>1. CASE p = 18
      <4>1. Writes(t)
        <5>1. Head(todo[t]).op = "repoint"
          BY <2>3, <3>1, CountedStatements
        <5>2. QED
          BY <2>1, <5>1 DEF Checks, Selects
      <4>2. QED
        BY <1>2, <3>1, <4>1, RepointRepays
    <3>2. CASE p # 18
      <4>1. 18 < p' => 18 < p
        BY <2>1, <3>2
      <4>2. QED
        BY <2>1, <2>2, <4>1 DEF Moves, Repaid
    <3>3. QED
      BY <3>1, <3>2
  <2>6. ASSUME NEW table \in Counted
        PROVE  Found(t, table)' /\ Copied(t, table)' /\ Cleared(t, table)'
    <3>1. /\ FirstAt(table) \in 5 .. 20 /\ LastAt(table) = FirstAt(table) + 1
          /\ Found(t, table) /\ Copied(t, table) /\ Cleared(t, table)
      BY <2>1, Places, CountedStatements DEF Moves
    <3>2. Found(t, table)'
      <4>1. CASE p + 1 = FirstAt(table)
        <5>1. p = FirstAt(table) - 1
          BY <2>1, <3>1, <4>1
        <5>2. Head(todo[t]).op = "select"
          BY <2>3, <5>1, CountedStatements
        <5>3. Selects(t)
          BY <2>1, <5>2 DEF Checks, Writes, WriteOps
        <5>4. QED
          BY <1>2, <2>1, <4>1, <5>3, SelectFinds
      <4>2. CASE p + 1 # FirstAt(table)
        BY <2>1, <4>2 DEF Found
      <4>3. QED
        BY <4>1, <4>2
    <3>3. Copied(t, table)'
      <4>1. CASE p = FirstAt(table)
        <5>1. Head(todo[t]).op = "upsert"
          BY <2>3, <4>1, CountedStatements
        <5>2. Writes(t)
          BY <2>1, <5>1 DEF Checks, Selects
        <5>3. QED
          BY <1>2, <3>1, <4>1, <5>2, UpsertCopies
      <4>2. CASE FirstAt(table) < p
        <5>1. ASSUME NEW old \in RowsOf(table, s)
              PROVE  LET new == OfTarget(t, old) IN
                     /\ new \in DOMAIN own'[t] <=> new \in DOMAIN own[t]
                     /\ new \in DOMAIN own[t] => own'[t][new] = own[t][new]
          <6>1. OfTarget(t, old) \in RowsOf(table, Target(t))
            BY Renamed
          <6>2. CASE Writes(t)
            BY <1>2, <4>2, <6>1, <6>2, CopiesStay
          <6>3. CASE own'[t] = own[t]
            BY <6>3
          <6>4. QED
            BY <2>2, <6>2, <6>3
        <5>2. ASSUME NEW old \in RowsOf(table, s)
              PROVE  LET new == OfTarget(t, old) IN
                     /\ db[old] = None => new \notin DOMAIN own[t]
                     /\ db[old] # None =>
                          /\ new \in DOMAIN own[t]
                          /\ own[t][new] = IF db[new] = None THEN db[old]
                                           ELSE Merged(table, db[new], db[old])
          BY <3>1, <4>2 DEF Copied
        <5>3. ASSUME NEW old \in RowsOf(table, s)
              PROVE  LET new == OfTarget(t, old) IN
                     /\ db[old] = None => new \notin DOMAIN own'[t]
                     /\ db[old] # None =>
                          /\ new \in DOMAIN own'[t]
                          /\ own'[t][new] = IF db[new] = None THEN db[old]
                                            ELSE Merged(table, db[new], db[old])
          BY <5>1, <5>2
        <5>4. QED
          BY <2>2, <5>3 DEF Copied
      <4>3. CASE p < FirstAt(table)
        <5>1. ~(FirstAt(table) < p')
          BY <2>1, <3>1, <4>3
        <5>2. QED
          BY <5>1 DEF Copied
      <4>4. QED
        BY <2>1, <3>1, <4>1, <4>2, <4>3
    <3>4. Cleared(t, table)'
      <4>1. CASE p = LastAt(table)
        <5>1. Head(todo[t]).op = "delete"
          BY <2>3, <3>1, <4>1, CountedStatements
        <5>2. Writes(t)
          BY <2>1, <5>1 DEF Checks, Selects
        <5>3. QED
          BY <1>2, <4>1, <5>2, DeleteClears
      <4>2. CASE p # LastAt(table)
        <5>1. LastAt(table) < p' => LastAt(table) < p
          BY <2>1, <3>1, <4>2
        <5>2. QED
          BY <2>2, <3>1, <5>1 DEF Cleared
      <4>3. QED
        BY <4>1, <4>2
    <3>5. QED
      BY <3>2, <3>3, <3>4
  <2>7. QED
    BY <2>4, <2>5, <2>6 DEF Moves
<1>3. CASE Leaves(t)
  BY <1>3 DEF Leaves, Open
<1>4. QED
  BY <1>1, <1>2, <1>3
  DEF StepOf, Ends, Commits, Checks, Loads, Selects, Sums, Writes, Continues

LEMMA MovingStep ==
  ASSUME Shapes, Lawful, Lines, Moving, Alone, NEW x \in Calls, StepOf(x)
  PROVE  Moving'
<1>1. SUFFICES ASSUME NEW t \in Open', Kind(t) = "merge", Source(t) \notin tangled'
               PROVE  Moves(t)'
  BY DEF Moving
<1>2. t \in Calls /\ Source(t) \notin tangled
  BY <1>1, TangledGrows DEF Open
<1>3. CASE t = x
  <2>1. t \in Open => Moves(t)
    BY <1>1, <1>2 DEF Moving
  <2>2. QED
    BY <1>1, <1>2, <1>3, <2>1, MovesOwn
<1>4. CASE t # x
  <2>1. t \in Open
    BY <1>1, <1>2, <1>4, OthersStay DEF StepOf
  <2>2. QED
    BY <1>1, <1>2, <1>4, <2>1, MovesStay
<1>5. QED
  BY <1>3, <1>4

\* Of two merges of a user into the same target, the second one waits at the user's
\* identities for the first, and if there are none, one had been there when it began.
LEMMA SecondFindsNothing ==
  ASSUME Shapes, Lawful, Lines, Moving, Alone, NEW t \in Open, NEW x \in Open, Twins(t, x),
         Source(t) \notin tangled, StepOf(t), t \in Open', 3 < MergeAt(t)', 3 < MergeAt(x)
  PROVE  Emptied(Source(t)) /\ db' = db
<1> DEFINE s == Source(t)
           p == MergeAt(t)
<1>1. /\ t \in Calls /\ x \in Calls /\ t # x /\ Kind(t) = "merge" /\ Kind(x) = "merge"
      /\ Source(x) = s
  BY DEF Twins, Open, Source
<1>2. Checks(t) \/ Loads(t) \/ Selects(t) \/ Sums(t) \/ Writes(t)
  BY DEF StepOf, Begins, Ends, Commits, Leaves, Open
<1>3. /\ p' = p + 1 /\ p \in 1 .. 22
      /\ Checks(t) \/ Selects(t) \/ Writes(t)
  BY <1>1, <1>2, MergeKeepsShape
<1>4. db' = db
  BY <1>3 DEF Checks, Selects, Writes, Continues
<1>5. CASE 3 < p
  BY <1>1, <1>4, <1>5 DEF Alone
<1>6. CASE p = 3
  <2>1. Head(todo[t]).op = "repoint" /\ Head(todo[t]).of = "identities"
    <3>1. MergeOps[3] = "repoint" /\ MergeTables[3] = "identities"
      BY DEF MergeOps, MergeTables
    <3>2. QED
      BY <1>1, <1>6, <3>1, MergeHead
  <2>2. Free(t)
    BY <1>3, <2>1 DEF Checks, Selects, Writes
  <2>3. ASSUME NEW i \in Identities, db[IdentityRow(i)] = s PROVE FALSE
    <3>1. IdentityRow(i) \in DOMAIN own[x]
      BY <1>1, <2>3 DEF Lines, Claims
    <3>2. IdentityRow(i) \notin DOMAIN own[t]
      BY <1>1, <3>1 DEF Lawful, Exclusive
    <3>3. IdentityRow(i) \in Row /\ IdentityRow(i)[1] = "identities"
      BY RowsAreRows, RowNames
    <3>4. IdentityRow(i) \in DOMAIN Repointed(t, "identities")
      BY <2>3, <3>2, <3>3 DEF Repointed, Seen
    <3>5. IdentityRow(i) \in Wanted(t)
      BY <2>1, <3>4 DEF Wanted, Effect
    <3>6. Waits(t, x)
      BY <1>1, <3>1, <3>5 DEF Waits, Open
    <3>7. QED
      BY <2>2, <3>6 DEF Free
  <2>4. IdentitiesOf(s) = {}
    BY <2>3 DEF IdentitiesOf
  <2>5. ~(UsersOf(t) \subseteq tangled)
    BY <1>1 DEF UsersOf
  <2>6. db[UserRow(s)] # None
    BY <2>4, <2>5 DEF Lines, MetAreTangled
  <2>7. Moves(t)
    BY <1>1 DEF Moving
  <2>8. QED
    BY <1>4, <1>6, <2>6, <2>7 DEF Moves, Unmerged
<1>7. QED
  BY <1>3, <1>5, <1>6

LEMMA AloneStep ==
  ASSUME Shapes, Lawful, Lines, Moving, Alone, NEW c \in Calls, StepOf(c)
  PROVE  Alone'
<1>1. SUFFICES ASSUME NEW t \in Open', NEW x \in Open', Twins(t, x),
                      3 < MergeAt(t)', 3 < MergeAt(x)', Source(t) \notin tangled'
               PROVE  Emptied(Source(t))'
  BY DEF Alone, Twins
<1>2. /\ t \in Calls /\ x \in Calls /\ Source(t) \notin tangled /\ Source(x) = Source(t)
      /\ Kind(t) = "merge" /\ Kind(x) = "merge" /\ t # x /\ Twins(x, t)
  BY <1>1, TangledGrows DEF Open, Twins, Source
<1>3. ASSUME NEW y \in Calls, y # c
      PROVE  (y \in Open' <=> y \in Open) /\ MergeAt(y)' = MergeAt(y)
  BY <1>3, OthersStay DEF StepOf
<1>4. ASSUME NEW y \in Calls, y = c, Kind(y) = "merge", y \in Open', 3 < MergeAt(y)'
      PROVE  y \in Open
  <2>1. CASE Begins(y)
    BY <1>4, <2>1, AtBegin
  <2>2. CASE ~Begins(y)
    BY <1>4, <2>2
       DEF StepOf, Checks, Loads, Selects, Sums, Writes, Continues, Ends, Commits, Leaves
  <2>3. QED
    BY <2>1, <2>2
<1>5. CASE c = t
  <2>1. Emptied(Source(t)) /\ db' = db
    BY <1>1, <1>2, <1>3, <1>4, <1>5, SecondFindsNothing
  <2>2. QED
    BY <2>1 DEF Emptied
<1>6. CASE c = x
  <2>1. Emptied(Source(x)) /\ db' = db
    BY <1>1, <1>2, <1>3, <1>4, <1>6, SecondFindsNothing
  <2>2. QED
    BY <1>2, <2>1 DEF Emptied
<1>7. CASE c # t /\ c # x
  <2>1. t \in Open /\ x \in Open /\ Emptied(Source(t))
    BY <1>1, <1>2, <1>3, <1>7 DEF Alone
  <2>2. QED
    BY <1>2, <1>7, <2>1, EmptiedStays
<1>8. QED
  BY <1>5, <1>6, <1>7

-----------------------------------------------------------------------------
(* What an event adds.                                                     *)

Gained(t, row) == IF row = XPRow(t) THEN Call[t].xp ELSE 0

ScoreIn(value) == IF value = None THEN 0 ELSE value.score

\* The tracks of the actor, as the event has read or written them.
Tracked(t) ==
  \A row \in RowsOf("xp_tracks", Actor(t)) :
    LET new == Number(db, row) + Gained(t, row) IN
    /\ row \in DOMAIN read[t] => read[t][row] = new
    /\ row \in DOMAIN own[t] => own[t][row] = new \/ Still(t, Statement("write", row))
    /\ Gained(t, row) > 0 => row \in DOMAIN own[t] \/ Still(t, Statement("write", row))

Boarded(t) ==
  LET row == BoardRow(t)
      new == ScoreIn(db[row]) + Call[t].points
  IN  /\ row \in DOMAIN read[t] => read[t][row].score = new
      /\ row \in DOMAIN own[t] =>
           own[t][row].score = new /\ ~Still(t, Statement("raise", row))
      /\ Call[t].points > 0 => row \in DOMAIN own[t] \/ Still(t, Statement("raise", row))

Paid(t) ==
  LET row == WalletRow(t)
      new == due[Actor(t)].coins + Call[t].xp
  IN  /\ Call[t].xp > 0 =>
           /\ EntryRow(t) \in DOMAIN own[t] \/ Still(t, Statement("entry", EntryRow(t)))
           /\ \/ row \in DOMAIN read[t] /\ read[t][row] = new
              \/ Still(t, Statement("sum", row))
           /\ \/ row \in DOMAIN own[t] /\ own[t][row] = new
              \/ Still(t, Statement("write", row))
      /\ ~(Call[t].xp > 0) => EntryRow(t) \notin DOMAIN own[t] /\ row \notin DOMAIN own[t]

Earns(t) == Tracked(t) /\ Boarded(t) /\ Paid(t)

Earning ==
  \A t \in Open :
    Kind(t) = "event" /\ Actor(t) \notin tangled /\ Loaded(t) => Earns(t)

\* While an event is under way, nobody else writes rows of its actor.
LEMMA ActorKept ==
  ASSUME Shapes, Lawful, Lines, NEW t \in Open, Kind(t) = "event", Actor(t) \notin tangled,
         NEW x \in Calls \ {t}, StepOf(x)
  PROVE  /\ \A row \in Row : row[1] \in StateTables /\ row[2] = Actor(t) => db'[row] = db[row]
         /\ due'[Actor(t)] = due[Actor(t)]
<1> DEFINE u == Actor(t)
<1>1. t \in Calls /\ u \in Users
  BY CallKinds DEF Open
<1>2. x \in Open => u \notin UsersOf(x) \/ Kind(x) = "link"
  <2>1. SUFFICES ASSUME x \in Open, Kind(x) # "link", u \in UsersOf(x) PROVE FALSE
    OBVIOUS
  <2>2. Meets(x, t)
    <3>1. CASE Kind(x) = "merge"
      BY <2>1, <3>1 DEF Meets
    <3>2. CASE Kind(x) = "event"
      BY <2>1, <3>2 DEF Meets, UsersOf
    <3>3. QED
      BY <2>1, <3>1, <3>2, CallKinds
  <2>3. u \in tangled
    BY <2>1, <2>2 DEF Lines, MetAreTangled, UsersOf
  <2>4. QED
    BY <2>3
<1>3. ASSUME NEW row \in Row, row[1] \in StateTables, row[2] = u, db'[row] # db[row]
      PROVE  FALSE
  <2>1. x \in Open /\ row \in DOMAIN own[x]
    BY <1>3, RowsChange
  <2>2. u \in UsersOf(x) /\ Kind(x) # "link"
    BY <1>3, <2>1, OwnedKinds DEF UsersOf
  <2>3. QED
    BY <1>2, <2>1, <2>2
<1>4. due'[u] = due[u]
  <2>1. CASE Commits(x) /\ Kind(x) # "link"
    <3>1. x \in Open /\ due' = Credited(x) /\ u \notin UsersOf(x)
      BY <1>2, <2>1 DEF Commits, Leaves
    <3>2. due \in [Users -> Due]
      BY DEF Shapes, MergeTypeOK
    <3>3. CASE Kind(x) = "event"
      BY <1>1, <3>1, <3>2, <3>3 DEF Credited, UsersOf
    <3>4. CASE Kind(x) = "merge"
      <4>1. u # Source(x) /\ u # Target(x)
        BY <3>1, <3>4 DEF UsersOf
      <4>2. QED
        BY <1>1, <3>1, <3>2, <3>4, <4>1 DEF Credited
    <3>5. QED
      BY <2>1, <3>3, <3>4, CallKinds
  <2>2. CASE ~(Commits(x) /\ Kind(x) # "link")
    BY <2>2
    DEF StepOf, Begins, Checks, Loads, Selects, Sums, Writes, Continues, Ends, Commits
  <2>3. QED
    BY <2>1, <2>2
<1>5. QED
  BY <1>3, <1>4

LEMMA EarnsStay ==
  ASSUME Shapes, Lawful, Lines, NEW t \in Open, Kind(t) = "event", Actor(t) \notin tangled,
         Earns(t), NEW x \in Calls \ {t}, StepOf(x)
  PROVE  Earns(t)'
<1>1. /\ t \in Calls /\ Actor(t) \in Users
      /\ own'[t] = own[t] /\ read'[t] = read[t] /\ todo'[t] = todo[t]
  BY OthersStay, CallKinds DEF StepOf, Open
<1>2. /\ \A row \in Row : row[1] \in StateTables /\ row[2] = Actor(t) => db'[row] = db[row]
      /\ due'[Actor(t)] = due[Actor(t)]
  BY ActorKept
<1>3. \A row \in RowsOf("xp_tracks", Actor(t)) : db'[row] = db[row]
  <2>1. \A row \in RowsOf("xp_tracks", Actor(t)) :
          row \in Row /\ row[1] = "xp_tracks" /\ row[2] = Actor(t)
    BY <1>1, RowsAreRows, RowNames DEF StateTables, Moved, SimpleTables
  <2>2. QED
    BY <1>2, <2>1 DEF StateTables, Moved, SimpleTables
<1>4. db'[BoardRow(t)] = db[BoardRow(t)]
  <2>1. /\ BoardRow(t) \in Row /\ BoardRow(t)[1] = "leaderboard_entries"
        /\ BoardRow(t)[2] = Actor(t)
    BY <1>1, ActorRows
  <2>2. QED
    BY <1>2, <2>1 DEF StateTables, Moved, SimpleTables
<1>5. \A s : Still(t, s)' <=> Still(t, s)
  BY <1>1 DEF Still, Elements
<1>6. Tracked(t)'
  BY <1>1, <1>3, <1>5 DEF Earns, Tracked, Number, Gained
<1>7. Boarded(t)'
  BY <1>1, <1>4, <1>5 DEF Earns, Boarded, ScoreIn, BoardRow
<1>8. Paid(t)'
  BY <1>1, <1>2, <1>5 DEF Earns, Paid, WalletRow
<1>9. QED
  BY <1>6, <1>7, <1>8 DEF Earns

\* The statement that is next is not there any more after it.
LEMMA EventGoesOn ==
  ASSUME Shapes, NEW t \in Open, Kind(t) = "event", Loaded(t), todo'[t] = Tail(todo[t])
  PROVE  LET s == Head(todo[t]) IN
         /\ Still(t, s)
         /\ \A r : Still(t, r)' <=> Still(t, r) /\ r # s
         /\ \A r : Still(t, r) => Phase(s) <= Phase(r)
<1> DEFINE s == Head(todo[t])
           rest == Tail(todo[t])
<1>1. Elements(todo[t]) = {s} \union Elements(rest)
  BY EventHead
<1>2. \A r \in Elements(rest) : r # s /\ Phase(s) <= Phase(r)
  BY EventHead
<1>3. Phase(s) \in 1 .. 9
  BY PhasesOf
<1>4. Phase(s) <= Phase(s)
  BY <1>3
<1>5. \A r : Still(t, r)' <=> r \in Elements(rest)
  BY DEF Still, Elements
<1> HIDE DEF s, rest
<1>6. /\ Still(t, s)
      /\ \A r : Still(t, r)' <=> Still(t, r) /\ r # s
      /\ \A r : Still(t, r) => Phase(s) <= Phase(r)
  BY <1>1, <1>2, <1>4, <1>5 DEF Still
<1>7. QED
  BY <1>6 DEF s

LEMMA EarnsAtLoad ==
  ASSUME Shapes, NEW t \in Open, Kind(t) = "event", ~Loaded(t), Loads(t)
  PROVE  Earns(t)'
<1> DEFINE u == Actor(t)
<1>1. /\ t \in Calls /\ u \in Users /\ Call[t].track \in Tracks
      /\ Call[t].xp \in Nat /\ Call[t].points \in Nat
  BY CallKinds DEF Open
<1>2. DOMAIN own[t] = {}
  BY NotLoaded
<1>3. own'[t] = own[t] /\ read'[t] = Outcome(t) /\ db' = db
  BY DEF Loads, Continues
<1>4. PICK commands \in Commands(t), rows \in PersistState(t) :
        todo'[t] = ApplyOutcome(t, commands, rows)
  BY DEF Loads
<1>5. Elements(todo'[t]) = (CommandStatements(t) \union {Persist(row) : row \in Projected(t)})
                             \union {Statement("commit", "users")}
  BY <1>1, <1>4, LoadedStatements
<1>6. \A s \in CommandStatements(t) \union {Persist(row) : row \in Projected(t)} : Still(t, s)'
  BY <1>5 DEF Still, Elements
<1>7. DOMAIN read'[t] = Projected(t)
      /\ \A row \in Projected(t) : read'[t][row] = Outcome(t)[row]
  BY <1>3 DEF Outcome
<1>8. XPRow(t) \in RowsOf("xp_tracks", u)
  BY <1>1 DEF XPRow, RowsOf, SimpleTables
<1>9. Tracked(t)'
  <2>1. SUFFICES ASSUME NEW row \in RowsOf("xp_tracks", u)
                 PROVE  LET new == Number(db, row) + Gained(t, row) IN
                        /\ row \in Projected(t) => Outcome(t)[row] = new
                        /\ Gained(t, row) > 0 => Still(t, Statement("write", row))'
    BY <1>2, <1>3, <1>7 DEF Tracked, Number, Gained
  <2>2. row[1] = "xp_tracks" /\ row \in Row
    BY <1>1, RowNames, RowsAreRows DEF StateTables, Moved
  <2>3. db[row] \in Nat \union {None}
    BY <2>2, ValueKinds DEF Shapes, MergeTypeOK, StateTables, Moved
  <2>4. CASE row = XPRow(t)
    <3>1. row \in Projected(t) => Outcome(t)[row] = Number(db, row) + Call[t].xp
      BY <2>2, <2>4 DEF Outcome, SimpleTables
    <3>2. Call[t].xp > 0 => row \in Projected(t)
      BY <2>4 DEF Projected
    <3>3. Call[t].xp > 0 => Still(t, Statement("write", row))'
      BY <1>6, <2>2, <3>2 DEF Persist
    <3>4. QED
      BY <2>4, <3>1, <3>3 DEF Gained
  <2>5. CASE row # XPRow(t)
    <3>1. ASSUME row \in Projected(t) PROVE Outcome(t)[row] = db[row] /\ db[row] # None
      <4>1. Outcome(t)[row] = db[row]
        BY <2>2, <2>5, <3>1 DEF Outcome, SimpleTables
      <4>2. /\ row # RuleRow(t) /\ row # BoardRow(t)
            /\ row \notin Unlocked(t) /\ row \notin TouchedRows(t)
        BY <1>1, <2>2, ActorRows, ActorKeys DEF Touchable
      <4>3. Seen(t, row) # None
        BY <2>5, <3>1, <4>2 DEF Projected, Present
      <4>4. QED
        BY <1>2, <4>1, <4>3 DEF Seen
    <3>2. QED
      BY <2>3, <2>5, <3>1 DEF Gained, Number
  <2>6. QED
    BY <2>4, <2>5
<1>10. Boarded(t)'
  <2> DEFINE row == BoardRow(t)
  <2>1. row \in Row /\ row[1] = "leaderboard_entries" /\ row # XPRow(t)
    BY <1>1, ActorRows
  <2>2. db[row] \in Score \union {None}
    BY <2>1, ValueKinds DEF Shapes, MergeTypeOK
  <2>3. row \in Projected(t) => Outcome(t)[row] = Raised(t, db[row])
    BY <2>1 DEF Outcome, SimpleTables
  <2>4. Raised(t, db[row]).score = ScoreIn(db[row]) + Call[t].points
    BY <1>1, <2>2, RaisedTyped DEF ScoreIn
  <2>5. Call[t].points > 0 => Still(t, Statement("raise", row))'
    BY <1>6 DEF CommandStatements
  <2> HIDE DEF row
  <2>6. /\ row \in DOMAIN read'[t] => read'[t][row].score = ScoreIn(db[row]) + Call[t].points
        /\ row \notin DOMAIN own'[t]
    BY <1>2, <1>3, <1>7, <2>3, <2>4
  <2>7. QED
    BY <1>3, <2>5, <2>6 DEF Boarded, ScoreIn, row, BoardRow
<1>11. Paid(t)'
  <2>1. Call[t].xp > 0 => /\ Still(t, Statement("entry", EntryRow(t)))'
                          /\ Still(t, Statement("sum", WalletRow(t)))'
                          /\ Still(t, Statement("write", WalletRow(t)))'
    BY <1>6 DEF CommandStatements
  <2>2. QED
    BY <1>2, <1>3, <2>1 DEF Paid
<1>12. QED
  BY <1>9, <1>10, <1>11 DEF Earns

\* The ledger of a user who has had one entry more.
LEMMA LedgerSumWith ==
  ASSUME NEW t \in Events, NEW u \in Users, NEW old, NEW new,
         old[EntryRow(t)] # u, new[EntryRow(t)] = u,
         \A x \in Events \ {t} : new[EntryRow(x)] = u <=> old[EntryRow(x)] = u
  PROVE  LedgerSum(new, u) = LedgerSum(old, u) + Call[t].xp
<1> DEFINE f == [x \in Events |-> IF old[EntryRow(x)] = u THEN Call[x].xp ELSE 0]
           h == [x \in Events |-> IF x = t THEN Call[t].xp ELSE 0]
           k == [x \in Events |-> IF new[EntryRow(x)] = u THEN Call[x].xp ELSE 0]
<1>1. IsFiniteSet(Events)
  BY MergeAssumption, FS_Subset DEF Events
<1>2. \A x \in Events : Call[x].xp \in Nat
  BY CallKinds DEF Events
<1>3. f \in [Events -> Int] /\ h \in [Events -> Int] /\ k \in [Events -> Int]
  BY <1>2
<1>4. \A x \in Events : k[x] = f[x] + h[x]
  BY <1>2
<1>5. h[t] = Call[t].xp /\ \A x \in Events : x # t => h[x] = 0
  OBVIOUS
<1>6. LedgerSum(old, u) = SumFunction(f) /\ LedgerSum(new, u) = SumFunction(k)
  BY DEF LedgerSum
<1> HIDE DEF f, h, k
<1>7. SumFunction(k) = SumFunction(f) + SumFunction(h)
  BY <1>1, <1>3, <1>4, SumOfSums
<1>8. SumFunction(h) = Call[t].xp
  BY <1>1, <1>3, <1>5, SumOfOne
<1>9. QED
  BY <1>6, <1>7, <1>8

LEMMA LedgerSumSame ==
  ASSUME NEW u, NEW old, NEW new,
         \A x \in Events : new[EntryRow(x)] = u <=> old[EntryRow(x)] = u
  PROVE  LedgerSum(new, u) = LedgerSum(old, u)
<1>1. [x \in Events |-> IF old[EntryRow(x)] = u THEN Call[x].xp ELSE 0]
        = [x \in Events |-> IF new[EntryRow(x)] = u THEN Call[x].xp ELSE 0]
  OBVIOUS
<1>2. QED
  BY <1>1 DEF LedgerSum

\* The ledger of a user who got another one's entries.
LEMMA LedgerSumBoth ==
  ASSUME NEW u, NEW s, NEW old, NEW new, u # s,
         \A x \in Events : new[EntryRow(x)] = u <=> old[EntryRow(x)] \in {u, s}
  PROVE  LedgerSum(new, u) = LedgerSum(old, u) + LedgerSum(old, s)
<1> DEFINE f == [x \in Events |-> IF old[EntryRow(x)] = u THEN Call[x].xp ELSE 0]
           h == [x \in Events |-> IF old[EntryRow(x)] = s THEN Call[x].xp ELSE 0]
           k == [x \in Events |-> IF new[EntryRow(x)] = u THEN Call[x].xp ELSE 0]
<1>1. IsFiniteSet(Events)
  BY MergeAssumption, FS_Subset DEF Events
<1>2. \A x \in Events : Call[x].xp \in Nat
  BY CallKinds DEF Events
<1>3. f \in [Events -> Int] /\ h \in [Events -> Int] /\ k \in [Events -> Int]
  BY <1>2
<1>4. \A x \in Events : k[x] = f[x] + h[x]
  BY <1>2
<1>5. /\ LedgerSum(old, u) = SumFunction(f) /\ LedgerSum(old, s) = SumFunction(h)
      /\ LedgerSum(new, u) = SumFunction(k)
  BY DEF LedgerSum
<1> HIDE DEF f, h, k
<1>6. SumFunction(k) = SumFunction(f) + SumFunction(h)
  BY <1>1, <1>3, <1>4, SumOfSums
<1>7. QED
  BY <1>5, <1>6

\* What an event that has booked its entry reads as the sum of the entries.
LEMMA SumSeen ==
  ASSUME Shapes, Lawful, NEW t \in Open, Kind(t) = "event", Loaded(t),
         EntryRow(t) \in DOMAIN own[t]
  PROVE  LedgerSum(View(t), Actor(t)) = LedgerSum(db, Actor(t)) + Call[t].xp
<1>1. t \in Events /\ Actor(t) \in Users /\ DOMAIN db = Row
  BY CallKinds DEF Open, Shapes, MergeTypeOK
<1>2. own[t][EntryRow(t)] = Actor(t)
  <2>1. EntryRow(t)[1] = "ledger_entries"
    BY RowNames
  <2>2. QED
    BY <2>1, OwnedKinds
<1>3. View(t)[EntryRow(t)] = Actor(t)
  BY <1>2 DEF View, Overlay
<1>4. db[EntryRow(t)] # Actor(t)
  <2>1. status[t] # "done"
    BY DEF Open
  <2>2. db[EntryRow(t)] = None
    BY <1>1, <2>1 DEF Lawful, EntriesOfDone
  <2>3. None \notin Users
    BY MergeAssumption
  <2>4. QED
    BY <1>1, <2>2, <2>3
<1>5. ASSUME NEW x \in Events \ {t} PROVE View(t)[EntryRow(x)] = db[EntryRow(x)]
  <2>1. /\ EntryRow(x) \in Row /\ EntryRow(x)[1] = "ledger_entries"
        /\ EntryRow(x) # EntryRow(t)
    BY RowsAreRows, RowNames
  <2>2. EntryRow(x) \notin DOMAIN own[t]
    BY <2>1, OwnedKinds
  <2>3. QED
    BY <1>1, <2>1, <2>2 DEF View, Overlay
<1> DEFINE view == View(t)
<1>6. /\ view[EntryRow(t)] = Actor(t)
      /\ \A x \in Events \ {t} : view[EntryRow(x)] = Actor(t) <=> db[EntryRow(x)] = Actor(t)
  BY <1>3, <1>5
<1> HIDE DEF view
<1>7. LedgerSum(view, Actor(t)) = LedgerSum(db, Actor(t)) + Call[t].xp
  BY <1>1, <1>4, <1>6, LedgerSumWith
<1>8. QED
  BY <1>7 DEF view

LEMMA EarnsAtSum ==
  ASSUME Shapes, Lawful, NEW t \in Open, Kind(t) = "event", Loaded(t), Sums(t), Earns(t),
         LedgerSum(db, Actor(t)) = due[Actor(t)].coins
  PROVE  Earns(t)'
<1> DEFINE s == Head(todo[t])
           u == Actor(t)
<1>1. t \in Calls /\ u \in Users /\ Call[t].xp \in Nat /\ WalletRow(t)[1] = "wallets"
  BY CallKinds, ActorRows DEF Open
<1>2. s.op = "sum" /\ own'[t] = own[t] /\ db' = db /\ due' = due
  BY DEF Sums, Continues
<1>3. /\ EventStatement(t, s) /\ \A row \in DOMAIN read[t] : row \in Row
      /\ s.op = "sum" => ~Still(t, Statement("entry", EntryRow(t)))
  BY EventHead
<1>4. Call[t].xp > 0 /\ s = Statement("sum", WalletRow(t)) /\ s.of = WalletRow(t)
  <2>1. Call[t].xp > 0 /\ s = Statement("sum", WalletRow(t))
    <3> HIDE DEF s
    <3>1. QED
      BY <1>1, <1>2, <1>3, StatementForms
  <2>2. QED
    BY <2>1 DEF Statement
<1>5. read'[t] = Overlay([row \in {WalletRow(t)} |-> LedgerSum(View(t), u)], read[t])
  BY <1>4 DEF Sums
<1>6. \A r : Still(t, r)' <=> Still(t, r) /\ r # s
  BY EventGoesOn DEF Sums
<1>7. \A row : row # WalletRow(t) => /\ row \in DOMAIN read'[t] <=> row \in DOMAIN read[t]
                                     /\ row \in DOMAIN read[t] => read'[t][row] = read[t][row]
  BY <1>5 DEF Overlay
<1>8. \A row : Statement("write", row) # s /\ Statement("entry", row) # s
               /\ Statement("raise", row) # s
  BY <1>4 DEF Statement
<1>9. Tracked(t)'
  <2>1. \A row \in RowsOf("xp_tracks", u) : row # WalletRow(t)
    BY <1>1, RowNames
  <2>2. QED
    BY <1>2, <1>6, <1>7, <1>8, <2>1 DEF Earns, Tracked, Number, Gained
<1>10. Boarded(t)'
  <2>1. BoardRow(t) # WalletRow(t)
    BY <1>1, ActorRows
  <2>2. QED
    BY <1>2, <1>6, <1>7, <1>8, <2>1 DEF Earns, Boarded, ScoreIn, BoardRow
<1>11. Paid(t)'
  <2>1. EntryRow(t) \in DOMAIN own[t]
    BY <1>2, <1>3, <1>4 DEF Earns, Paid
  <2>2. LedgerSum(View(t), u) = due[u].coins + Call[t].xp
    BY <2>1, SumSeen
  <2>3. /\ WalletRow(t) \in DOMAIN read'[t]
        /\ read'[t][WalletRow(t)] = due[u].coins + Call[t].xp
    BY <1>5, <2>2 DEF Overlay
  <2>4. \/ /\ WalletRow(t) \in DOMAIN own[t]
           /\ own[t][WalletRow(t)] = due[u].coins + Call[t].xp
        \/ Still(t, Statement("write", WalletRow(t)))'
    BY <1>4, <1>6, <1>8 DEF Earns, Paid
  <2>5. QED
    BY <1>2, <1>4, <2>1, <2>3, <2>4 DEF Paid, WalletRow
<1>12. QED
  BY <1>9, <1>10, <1>11 DEF Earns

\* The rows that the statements of an event are about.
LEMMA EventWritesOne ==
  ASSUME Shapes, NEW t \in Open, Kind(t) = "event", Loaded(t), Writes(t)
  PROVE  LET s == Head(todo[t])
             row == s.of
         IN  /\ \A r : r # row => /\ r \in DOMAIN own'[t] <=> r \in DOMAIN own[t]
                                  /\ r \in DOMAIN own[t] => own'[t][r] = own[t][r]
             /\ DOMAIN own[t] \subseteq DOMAIN own'[t]
             /\ IF s.op \in {"ensure", "keep"}
                THEN row \in DOMAIN own[t] => own'[t][row] = own[t][row]
                ELSE row \in DOMAIN own'[t] /\ own'[t][row] = Effect(t)[row]
             /\ \/ s.op = "ensure" /\ row = XPRow(t) /\ Call[t].xp > 0
                \/ s.op = "entry" /\ row = EntryRow(t) /\ Call[t].xp > 0
                \/ s.op = "write" /\ row = WalletRow(t) /\ Call[t].xp > 0
                \/ s.op = "raise" /\ row = BoardRow(t)
                \/ row[1] \in {"achievement_unlocks", "inventory_items"}
                \/ s.op = "write" /\ row \in DOMAIN read[t] /\ row[1] \in Persisted
             /\ s = Statement(s.op, row)
             /\ s.op = "write" => Effect(t)[row] = read[t][row]
             /\ s.op = "raise" => Effect(t)[row] = Raised(t, Seen(t, row))
<1> DEFINE s == Head(todo[t])
           row == s.of
<1>1. /\ EventStatement(t, s) /\ s.op \in WriteOps /\ s.op \in Ops
      /\ \A r \in DOMAIN read[t] : r \in Row
      /\ \A r \in DOMAIN own[t] : own[t][r] # None
  <2>1. /\ EventStatement(t, s) /\ s.op \in WriteOps /\ s.op \in Ops
        /\ \A r \in DOMAIN read[t] : r \in Row
        /\ \A r \in DOMAIN own[t] : EventOwns(t, Phase(s), r, own[t][r])
    BY EventHead DEF Writes
  <2>2. Actor(t) # None
    BY CallKinds, MergeAssumption DEF Open
  <2>3. QED
    BY <2>1, <2>2 DEF EventOwns
<1>2. own'[t] = Overlay(Effect(t), own[t])
  BY DEF Writes
<1>3. t \in Calls
  BY DEF Open
<1>4. \A r \in DOMAIN Effect(t) :
        r = row /\ (s.op \in {"ensure", "keep"} => Seen(t, r) = None)
  BY <1>1, EventEffect
<1>5. /\ \/ s.op = "ensure" /\ row = XPRow(t) /\ Call[t].xp > 0
         \/ s.op = "entry" /\ row = EntryRow(t) /\ Call[t].xp > 0
         \/ s.op = "write" /\ row = WalletRow(t) /\ Call[t].xp > 0
         \/ s.op = "raise" /\ row = BoardRow(t)
         \/ row[1] \in {"achievement_unlocks", "inventory_items"}
         \/ s.op = "write" /\ row \in DOMAIN read[t] /\ row[1] \in Persisted
      /\ s = Statement(s.op, row)
  <2> HIDE DEF s
  <2>1. /\ s = Statement(s.op, row)
        /\ \/ Call[t].xp > 0 /\ s \in Earned(t)
           \/ s.op = "ensure" /\ row \in Unlocked(t)
           \/ s.op = "grant" /\ row \in Granted(t)
           \/ s.op = "raise" /\ row = BoardRow(t) /\ Call[t].points > 0
           \/ s.op = "keep" /\ row[1] = "achievement_unlocks"
           \/ /\ s.op = "write" /\ row \in DOMAIN read[t]
              /\ row[1] \in Persisted \ {"achievement_unlocks"}
           \/ s.op = "commit"
    BY <1>1, <1>3, StatementForms
  <2>2. CASE Call[t].xp > 0 /\ s \in Earned(t)
    BY <1>1, <2>1, <2>2 DEF Earned, Statement, WriteOps
  <2>3. CASE row \in Unlocked(t) \union Granted(t)
    BY <1>3, <2>1, <2>3, ActorKeys
  <2>4. QED
    BY <1>1, <2>1, <2>2, <2>3 DEF WriteOps
<1>6. /\ s.op \notin {"ensure", "keep"} => DOMAIN Effect(t) = {row}
      /\ s.op = "write" => Effect(t)[row] = read[t][row]
      /\ s.op = "raise" => Effect(t)[row] = Raised(t, Seen(t, row))
  <2>1. CASE s.op = "entry"
    BY <2>1 DEF Effect
  <2>2. CASE s.op = "write"
    BY <2>2 DEF Effect
  <2>3. CASE s.op = "raise"
    BY <2>3 DEF Effect
  <2>4. CASE s.op = "grant"
    BY <2>4 DEF Effect
  <2>5. s.op \in {"ensure", "keep", "entry", "write", "raise", "grant"}
    BY <1>1 DEF Ops, WriteOps
  <2>6. QED
    BY <2>1, <2>2, <2>3, <2>4, <2>5
<1>7. s.op \in {"ensure", "keep"} /\ row \in DOMAIN own[t] => row \notin DOMAIN Effect(t)
  BY <1>1, <1>4 DEF Seen
<1> DEFINE effect == Effect(t)
<1> HIDE DEF s, row, effect
<1>8. /\ \A r : r # row => /\ r \in DOMAIN own'[t] <=> r \in DOMAIN own[t]
                           /\ r \in DOMAIN own[t] => own'[t][r] = own[t][r]
      /\ DOMAIN own[t] \subseteq DOMAIN own'[t]
      /\ IF s.op \in {"ensure", "keep"}
         THEN row \in DOMAIN own[t] => own'[t][row] = own[t][row]
         ELSE row \in DOMAIN own'[t] /\ own'[t][row] = effect[row]
  <2>1. /\ own'[t] = Overlay(effect, own[t])
        /\ \A r \in DOMAIN effect : r = row
        /\ s.op \notin {"ensure", "keep"} => DOMAIN effect = {row}
        /\ s.op \in {"ensure", "keep"} /\ row \in DOMAIN own[t] => row \notin DOMAIN effect
    BY <1>2, <1>4, <1>6, <1>7 DEF effect
  <2>2. QED
    BY <2>1 DEF Overlay
<1>9. QED
  BY <1>5, <1>6, <1>8 DEF s, row, effect

LEMMA EarnsAtWrite ==
  ASSUME Shapes, NEW t \in Open, Kind(t) = "event", Loaded(t), Writes(t), Earns(t)
  PROVE  Earns(t)'
<1> DEFINE s == Head(todo[t])
           u == Actor(t)
           x == Call[t].xp
           read0 == read[t]
           was == own[t]
           is == own'[t]
<1>1. /\ t \in Calls /\ u \in Users /\ x \in Nat
      /\ XPRow(t)[1] = "xp_tracks" /\ WalletRow(t)[1] = "wallets"
      /\ EntryRow(t)[1] = "ledger_entries" /\ BoardRow(t)[1] = "leaderboard_entries"
  BY CallKinds, ActorRows DEF Open
<1>2. /\ \A r : r # s.of => /\ r \in DOMAIN is <=> r \in DOMAIN was
                            /\ r \in DOMAIN was => is[r] = was[r]
      /\ DOMAIN was \subseteq DOMAIN is
      /\ IF s.op \in {"ensure", "keep"}
         THEN s.of \in DOMAIN was => is[s.of] = was[s.of]
         ELSE s.of \in DOMAIN is /\ is[s.of] = Effect(t)[s.of]
      /\ \/ s.op = "ensure" /\ s.of = XPRow(t) /\ x > 0
         \/ s.op = "entry" /\ s.of = EntryRow(t) /\ x > 0
         \/ s.op = "write" /\ s.of = WalletRow(t) /\ x > 0
         \/ s.op = "raise" /\ s.of = BoardRow(t)
         \/ s.of[1] \in {"achievement_unlocks", "inventory_items"}
         \/ s.op = "write" /\ s.of \in DOMAIN read0 /\ s.of[1] \in Persisted
      /\ s = Statement(s.op, s.of)
      /\ s.op = "write" => Effect(t)[s.of] = read0[s.of]
      /\ s.op = "raise" => Effect(t)[s.of] = Raised(t, Seen(t, s.of))
  BY EventWritesOne
<1>3. /\ \A r : Still(t, r)' <=> Still(t, r) /\ r # s
      /\ \A r : Still(t, r) => Phase(s) <= Phase(r)
      /\ Still(t, s)
  BY EventGoesOn DEF Writes
<1>4. read'[t] = read0 /\ db' = db /\ due' = due
  BY DEF Writes, Continues
<1>5. s = Statement("write", WalletRow(t)) => ~Still(t, Statement("sum", WalletRow(t)))
  BY EventHead
<1>6. \A op, of : /\ Statement(op, of).op = op /\ Statement(op, of).of = of
  BY DEF Statement
<1>7. "wallets" \notin Persisted /\ "ledger_entries" \notin Persisted
  BY DEF Persisted, StateOfActor
<1>8. Tracked(t) /\ Boarded(t) /\ Paid(t)
  BY DEF Earns
<1> HIDE DEF s, u, x, read0, was, is
<1>9. Tracked(t)'
  <2>1. SUFFICES ASSUME NEW row \in RowsOf("xp_tracks", u)
                 PROVE  LET new == Number(db, row) + Gained(t, row) IN
                        /\ row \in DOMAIN read0 => read0[row] = new
                        /\ row \in DOMAIN is => is[row] = new \/ Still(t, Statement("write", row))'
                        /\ Gained(t, row) > 0 =>
                             row \in DOMAIN is \/ Still(t, Statement("write", row))'
    BY <1>4 DEF Tracked, Number, Gained, u, read0, is
  <2> DEFINE new == Number(db, row) + Gained(t, row)
  <2>2. /\ row \in DOMAIN read0 => read0[row] = new
        /\ row \in DOMAIN was => was[row] = new \/ Still(t, Statement("write", row))
        /\ Gained(t, row) > 0 => row \in DOMAIN was \/ Still(t, Statement("write", row))
    BY <1>8 DEF Tracked, u, read0, was
  <2>3. row[1] = "xp_tracks"
    BY RowNames
  <2> HIDE DEF new
  <2>4. CASE row # s.of
    <3>1. Statement("write", row) # s
      BY <1>6, <2>4
    <3>2. QED
      BY <1>2, <1>3, <2>2, <2>4, <3>1 DEF new
  <2>5. CASE row = s.of /\ s.op = "ensure"
    <3>1. row = XPRow(t) /\ x > 0 /\ Gained(t, row) > 0
      BY <1>2, <2>3, <2>5 DEF Gained, x
    <3>2. Still(t, Statement("write", row))' <=> Still(t, Statement("write", row))
      BY <1>3, <1>6, <2>5
    <3>3. row \in DOMAIN was => row \in DOMAIN is /\ is[row] = was[row]
      BY <1>2, <2>5
    <3>4. row \notin DOMAIN was => Still(t, Statement("write", row))'
      BY <2>2, <3>1, <3>2
    <3>5. QED
      BY <2>2, <3>2, <3>3, <3>4 DEF new
  <2>6. CASE row = s.of /\ s.op # "ensure"
    <3>1. s.op = "write" /\ row \in DOMAIN read0
      BY <1>1, <1>2, <2>3, <2>6
    <3>2. row \in DOMAIN is /\ is[row] = new
      BY <1>2, <2>2, <2>6, <3>1
    <3>3. QED
      BY <2>2, <3>2 DEF new
  <2>7. QED
    BY <2>4, <2>5, <2>6
<1>10. Boarded(t)'
  <2> DEFINE row == BoardRow(t)
             new == ScoreIn(db[row]) + Call[t].points
  <2>1. SUFFICES /\ row \in DOMAIN read0 => read0[row].score = new
                 /\ row \in DOMAIN is =>
                      is[row].score = new /\ ~Still(t, Statement("raise", row))'
                 /\ Call[t].points > 0 =>
                      row \in DOMAIN is \/ Still(t, Statement("raise", row))'
    BY <1>4 DEF Boarded, ScoreIn, BoardRow, read0, is
  <2>2. /\ row \in DOMAIN read0 => read0[row].score = new
        /\ row \in DOMAIN was =>
             was[row].score = new /\ ~Still(t, Statement("raise", row))
        /\ Call[t].points > 0 => row \in DOMAIN was \/ Still(t, Statement("raise", row))
    BY <1>8 DEF Boarded, read0, was
  <2>3. row[1] = "leaderboard_entries"
    BY <1>1
  <2>4. CASE row # s.of
    <3> HIDE DEF row, new
    <3>1. Statement("raise", row) # s
      BY <1>6, <2>4
    <3>2. QED
      BY <1>2, <1>3, <2>2, <2>4, <3>1
  <2>5. CASE row = s.of /\ s.op = "raise"
    <3>1. s = Statement("raise", row)
      BY <1>2, <2>5
    <3>2. row \notin DOMAIN was
      BY <1>3, <2>2, <3>1
    <3>3. Seen(t, row) = db[row]
      BY <3>2 DEF Seen, was
    <3>4. db[row] \in Score \union {None}
      <4>1. row \in Row
        BY <1>1, ActorRows
      <4>2. QED
        BY <2>3, <4>1, ValueKinds DEF Shapes, MergeTypeOK
    <3>5. Raised(t, db[row]).score = new
      BY <1>1, <3>4, RaisedTyped DEF ScoreIn
    <3> HIDE DEF row, new
    <3>6. row \in DOMAIN is /\ is[row].score = new
      BY <1>2, <2>5, <3>3, <3>5
    <3>7. ~Still(t, Statement("raise", row))'
      BY <1>3, <3>1
    <3>8. QED
      BY <2>2, <3>6, <3>7
  <2>6. CASE row = s.of /\ s.op # "raise"
    <3>1. s.op = "write" /\ row \in DOMAIN read0
      BY <1>1, <1>2, <2>3, <2>6
    <3>2. Phase(s) = 7 /\ Phase(Statement("raise", row)) = 1
      BY <1>2, <2>3, <2>6, <3>1, PhasesOf
    <3>3. ~Still(t, Statement("raise", row))'
      BY <1>3, <3>2
    <3> HIDE DEF row, new
    <3>4. row \in DOMAIN is /\ is[row].score = new
      BY <1>2, <2>2, <2>6, <3>1
    <3>5. QED
      BY <2>2, <3>3, <3>4
  <2>7. QED
    BY <2>4, <2>5, <2>6
<1>11. Paid(t)'
  <2> DEFINE row == WalletRow(t)
             entry == EntryRow(t)
             new == due[u].coins + x
  <2>1. SUFFICES /\ x > 0 =>
                      /\ entry \in DOMAIN is \/ Still(t, Statement("entry", entry))'
                      /\ \/ row \in DOMAIN read0 /\ read0[row] = new
                         \/ Still(t, Statement("sum", row))'
                      /\ \/ row \in DOMAIN is /\ is[row] = new
                         \/ Still(t, Statement("write", row))'
                 /\ ~(x > 0) => entry \notin DOMAIN is /\ row \notin DOMAIN is
    BY <1>4 DEF Paid, WalletRow, read0, is, u, x
  <2>2. /\ x > 0 =>
             /\ entry \in DOMAIN was \/ Still(t, Statement("entry", entry))
             /\ \/ row \in DOMAIN read0 /\ read0[row] = new
                \/ Still(t, Statement("sum", row))
             /\ \/ row \in DOMAIN was /\ was[row] = new
                \/ Still(t, Statement("write", row))
        /\ ~(x > 0) => entry \notin DOMAIN was /\ row \notin DOMAIN was
    BY <1>8 DEF Paid, read0, was, u, x
  <2>3. row[1] = "wallets" /\ entry[1] = "ledger_entries"
    BY <1>1
  <2>4. entry = s.of => s.op = "entry" /\ x > 0
    BY <1>1, <1>2, <1>7, <2>3
  <2>5. row = s.of => s.op = "write" /\ x > 0
    BY <1>1, <1>2, <1>7, <2>3
  <2> HIDE DEF row, entry, new
  <2>6. entry \in DOMAIN was \/ Still(t, Statement("entry", entry))
          => entry \in DOMAIN is \/ Still(t, Statement("entry", entry))'
    <3>1. CASE entry = s.of
      BY <1>2, <2>4, <3>1
    <3>2. CASE entry # s.of
      BY <1>2, <1>3, <1>6, <3>2
    <3>3. QED
      BY <3>1, <3>2
  <2>7. Still(t, Statement("sum", row)) => Still(t, Statement("sum", row))'
    BY <1>3, <1>6, <2>5
  <2>8. ASSUME x > 0
        PROVE  \/ row \in DOMAIN is /\ is[row] = new
               \/ Still(t, Statement("write", row))'
    <3>1. CASE row # s.of
      BY <1>2, <1>3, <1>6, <2>2, <2>8, <3>1
    <3>2. CASE row = s.of
      <4>1. s.op = "write" /\ s = Statement("write", row)
        BY <1>2, <2>5, <3>2
      <4>2. ~Still(t, Statement("sum", row))
        BY <1>5, <4>1 DEF row
      <4>3. read0[row] = new
        BY <2>2, <2>8, <4>2
      <4>4. QED
        BY <1>2, <3>2, <4>1, <4>3
    <3>3. QED
      BY <3>1, <3>2
  <2>9. ~(x > 0) => entry \notin DOMAIN is /\ row \notin DOMAIN is
    BY <1>2, <2>2, <2>4, <2>5
  <2>10. QED
    BY <2>2, <2>6, <2>7, <2>8, <2>9
<1>12. QED
  BY <1>9, <1>10, <1>11 DEF Earns

LEMMA EarningStep ==
  ASSUME Shapes, Lawful, Lines, Earning, NothingLostOrDoubled, NEW x \in Calls, StepOf(x)
  PROVE  Earning'
<1>1. SUFFICES ASSUME NEW t \in Open', Kind(t) = "event", Actor(t) \notin tangled', Loaded(t)'
               PROVE  Earns(t)'
  BY DEF Earning
<1>2. t \in Calls /\ Actor(t) \in Users /\ Actor(t) \notin tangled
  BY <1>1, TangledGrows, CallKinds DEF Open
<1>3. CASE t = x
  <2>1. CASE Begins(t)
    <3>1. todo'[t] = <<Statement("load", "users")>>
      BY <1>1, <2>1 DEF Begins, Program
    <3>2. QED
      BY <1>1, <3>1 DEF Loaded
  <2>2. CASE Leaves(t)
    BY <1>1, <2>2 DEF Leaves, Open
  <2>3. CASE Checks(t) \/ Loads(t) \/ Selects(t) \/ Sums(t) \/ Writes(t)
    <3>1. t \in Open
      BY <2>3 DEF Checks, Loads, Selects, Sums, Writes, Continues
    <3>2. CASE Loads(t) /\ ~Loaded(t)
      BY <1>1, <3>1, <3>2, EarnsAtLoad
    <3>3. CASE Loaded(t) /\ Sums(t)
      <4>1. Earns(t)
        BY <1>1, <1>2, <3>1, <3>3 DEF Earning
      <4>2. LedgerSum(db, Actor(t)) = due[Actor(t)].coins
        BY <1>2 DEF NothingLostOrDoubled
      <4>3. QED
        BY <1>1, <3>1, <3>3, <4>1, <4>2, EarnsAtSum
    <3>4. CASE Loaded(t) /\ Writes(t)
      <4>1. Earns(t)
        BY <1>1, <1>2, <3>1, <3>4 DEF Earning
      <4>2. QED
        BY <1>1, <3>1, <3>4, <4>1, EarnsAtWrite
    <3>5. QED
      BY <1>1, <2>3, <3>1, <3>2, <3>3, <3>4, EventKeepsShape
  <2>4. QED
    BY <1>3, <2>1, <2>2, <2>3 DEF StepOf, Ends, Commits
<1>4. CASE t # x
  <2>1. t \in Open /\ todo'[t] = todo[t]
    BY <1>2, <1>4, <1>1, OthersStay DEF StepOf
  <2>2. Earns(t)
    BY <1>1, <1>2, <2>1 DEF Earning, Loaded
  <2>3. QED
    BY <1>1, <1>2, <1>4, <2>1, <2>2, EarnsStay
<1>5. QED
  BY <1>3, <1>4
-----------------------------------------------------------------------------
(* What a user has.                                                        *)

\* What a user is owed is what it has.
Balanced(u) ==
  /\ XP(db, u) = due[u].coins
  /\ Coins(db, u) = due[u].coins
  /\ LedgerSum(db, u) = due[u].coins
  /\ BoardOf(db, u).score = due[u].points

TrackRow(u, k) == <<"xp_tracks", u, k>>

LEMMA UserRows ==
  ASSUME NEW u \in Users
  PROVE  /\ \A k \in Tracks : /\ TrackRow(u, k) \in RowsOf("xp_tracks", u)
                               /\ TrackRow(u, k) \in Row
                               /\ TrackRow(u, k)[1] = "xp_tracks" /\ TrackRow(u, k)[2] = u
         /\ \A row \in RowsOf("xp_tracks", u) : \E k \in Tracks : row = TrackRow(u, k)
         /\ <<"wallets", u>> \in RowsOf("wallets", u) /\ <<"wallets", u>> \in Row
         /\ <<"leaderboard_entries", u>> \in RowsOf("leaderboard_entries", u)
         /\ <<"leaderboard_entries", u>> \in Row
<1>1. /\ \A k \in Tracks : TrackRow(u, k) \in RowsOf("xp_tracks", u)
      /\ \A row \in RowsOf("xp_tracks", u) : \E k \in Tracks : row = TrackRow(u, k)
      /\ <<"wallets", u>> \in RowsOf("wallets", u)
      /\ <<"leaderboard_entries", u>> \in RowsOf("leaderboard_entries", u)
  BY DEF RowsOf, TrackRow, SimpleTables
<1>2. QED
  BY <1>1, RowsAreRows, RowNames DEF StateTables, Moved, SimpleTables

\* Whose rows do not change has what it had.
LEMMA HasAsBefore ==
  ASSUME Shapes, NEW u \in Users, Balanced(u), due'[u] = due[u],
         \A row \in Row : row[1] \in StateTables /\ row[2] = u => db'[row] = db[row],
         \A x \in Events : db'[EntryRow(x)] = u <=> db[EntryRow(x)] = u
  PROVE  Balanced(u)'
<1>1. \A table \in StateTables : \A row \in RowsOf(table, u) : db'[row] = db[row]
  BY RowsAreRows, RowNames
<1>2. XP(db', u) = XP(db, u)
  <2>1. \A k \in Tracks : db'[<<"xp_tracks", u, k>>] = db[<<"xp_tracks", u, k>>]
    BY <1>1, UserRows DEF TrackRow, StateTables, Moved, SimpleTables
  <2>2. [k \in Tracks |-> Number(db', <<"xp_tracks", u, k>>)]
          = [k \in Tracks |-> Number(db, <<"xp_tracks", u, k>>)]
    BY <2>1 DEF Number
  <2>3. QED
    BY <2>2 DEF XP
<1>3. Coins(db', u) = Coins(db, u) /\ BoardOf(db', u) = BoardOf(db, u)
  BY <1>1, UserRows DEF Coins, Number, BoardOf, StateTables, Moved, SimpleTables
<1>4. LedgerSum(db', u) = LedgerSum(db, u)
  <2>1. PICK old : old = db
    OBVIOUS
  <2>2. PICK new : new = db'
    OBVIOUS
  <2>3. LedgerSum(new, u) = LedgerSum(old, u)
    BY <2>1, <2>2, LedgerSumSame
  <2>4. QED
    BY <2>1, <2>2, <2>3
<1>5. QED
  BY <1>2, <1>3, <1>4 DEF Balanced

\* The XP of a user whose tracks are added to.
LEMMA XPWith ==
  ASSUME NEW rows, NEW more, NEW new, NEW u, NEW s,
         \A k \in Tracks : /\ Number(rows, TrackRow(u, k)) \in Nat
                            /\ Number(more, TrackRow(s, k)) \in Nat
                            /\ Number(new, TrackRow(u, k))
                                 = Number(rows, TrackRow(u, k)) + Number(more, TrackRow(s, k))
  PROVE  XP(new, u) = XP(rows, u) + XP(more, s)
<1> DEFINE f == [k \in Tracks |-> Number(rows, TrackRow(u, k))]
           h == [k \in Tracks |-> Number(more, TrackRow(s, k))]
           sum == [k \in Tracks |-> Number(new, TrackRow(u, k))]
<1>1. IsFiniteSet(Tracks)
  BY MergeAssumption
<1>2. f \in [Tracks -> Int] /\ h \in [Tracks -> Int] /\ sum \in [Tracks -> Int]
  OBVIOUS
<1>3. \A k \in Tracks : sum[k] = f[k] + h[k]
  OBVIOUS
<1>4. /\ XP(new, u) = SumFunction(sum) /\ XP(rows, u) = SumFunction(f)
      /\ XP(more, s) = SumFunction(h)
  BY DEF XP, TrackRow
<1> HIDE DEF f, h, sum
<1>5. SumFunction(sum) = SumFunction(f) + SumFunction(h)
  BY <1>1, <1>2, <1>3, SumOfSums
<1>6. QED
  BY <1>4, <1>5

\* The XP of a user of whose tracks one is added to.
LEMMA XPWithOne ==
  ASSUME NEW rows, NEW new, NEW u, NEW y \in Tracks, NEW n \in Nat,
         \A k \in Tracks : /\ Number(rows, TrackRow(u, k)) \in Nat
                            /\ Number(new, TrackRow(u, k))
                                 = Number(rows, TrackRow(u, k)) + IF k = y THEN n ELSE 0
  PROVE  XP(new, u) = XP(rows, u) + n
<1> DEFINE f == [k \in Tracks |-> Number(rows, TrackRow(u, k))]
           h == [k \in Tracks |-> IF k = y THEN n ELSE 0]
           sum == [k \in Tracks |-> Number(new, TrackRow(u, k))]
<1>1. IsFiniteSet(Tracks)
  BY MergeAssumption
<1>2. f \in [Tracks -> Int] /\ h \in [Tracks -> Int] /\ sum \in [Tracks -> Int]
  OBVIOUS
<1>3. \A k \in Tracks : sum[k] = f[k] + h[k]
  OBVIOUS
<1>4. XP(new, u) = SumFunction(sum) /\ XP(rows, u) = SumFunction(f)
  BY DEF XP, TrackRow
<1>5. h[y] = n /\ \A k \in Tracks : k # y => h[k] = 0
  OBVIOUS
<1> HIDE DEF f, h, sum
<1>6. SumFunction(sum) = SumFunction(f) + SumFunction(h)
  BY <1>1, <1>2, <1>3, SumOfSums
<1>7. SumFunction(h) = n
  BY <1>1, <1>2, <1>5, SumOfOne
<1>8. QED
  BY <1>4, <1>6, <1>7

\* An emptied user has nothing.
LEMMA EmptiedHasNothing ==
  ASSUME NEW rows, NEW u \in Users,
         \A table \in Counted : \A row \in RowsOf(table, u) : rows[row] = None,
         \A x \in Events : rows[EntryRow(x)] # u
  PROVE  /\ XP(rows, u) = 0 /\ Coins(rows, u) = 0 /\ LedgerSum(rows, u) = 0
         /\ BoardOf(rows, u).score = 0
<1>1. XP(rows, u) = 0
  <2> DEFINE f == [k \in Tracks |-> Number(rows, <<"xp_tracks", u, k>>)]
  <2>1. \A k \in Tracks : rows[<<"xp_tracks", u, k>>] = None
    BY UserRows DEF Counted, TrackRow
  <2>2. f \in [Tracks -> Int] /\ \A k \in Tracks : f[k] = 0
    BY <2>1 DEF Number
  <2>3. XP(rows, u) = SumFunction(f)
    BY DEF XP
  <2> HIDE DEF f
  <2>4. QED
    BY <2>2, <2>3, SumOfNone, MergeAssumption
<1>2. Coins(rows, u) = 0 /\ BoardOf(rows, u).score = 0
  BY UserRows DEF Counted, Coins, Number, BoardOf
<1>3. LedgerSum(rows, u) = 0
  <2> DEFINE f == [x \in Events |-> IF rows[EntryRow(x)] = u THEN Call[x].xp ELSE 0]
  <2>1. f \in [Events -> Int] /\ \A x \in Events : f[x] = 0
    OBVIOUS
  <2>2. IsFiniteSet(Events)
    BY MergeAssumption, FS_Subset DEF Events
  <2>3. LedgerSum(rows, u) = SumFunction(f)
    BY DEF LedgerSum
  <2> HIDE DEF f
  <2>4. QED
    BY <2>1, <2>2, <2>3, SumOfNone
<1>4. QED
  BY <1>1, <1>2, <1>3

\* What a track, a wallet and a board entry may hold.
LEMMA Held ==
  ASSUME Shapes, NEW u \in Users
  PROVE  /\ \A k \in Tracks : db[TrackRow(u, k)] \in Nat \union {None}
         /\ db[<<"wallets", u>>] \in Nat \union {None}
         /\ db[<<"leaderboard_entries", u>>] \in Score \union {None}
         /\ XP(db, u) \in Int /\ Coins(db, u) \in Nat /\ BoardOf(db, u) \in Score
         /\ due[u] \in Due
<1>1. \A row \in Row : db[row] \in Values(row) \union {None}
  BY DEF Shapes, MergeTypeOK
<1>2. /\ \A k \in Tracks : db[TrackRow(u, k)] \in Nat \union {None}
      /\ db[<<"wallets", u>>] \in Nat \union {None}
      /\ db[<<"leaderboard_entries", u>>] \in Score \union {None}
  BY <1>1, UserRows, ValueKinds DEF StateTables, Moved, SimpleTables
<1>3. XP(db, u) \in Int
  <2> DEFINE f == [k \in Tracks |-> Number(db, <<"xp_tracks", u, k>>)]
  <2>1. f \in [Tracks -> Nat]
    BY <1>2 DEF Number, TrackRow
  <2>2. XP(db, u) = SumFunction(f)
    BY DEF XP
  <2> HIDE DEF f
  <2>3. SumFunction(f) \in Nat
    BY <2>1, SumInNat, MergeAssumption
  <2>4. QED
    BY <2>2, <2>3
<1>4. Coins(db, u) \in Nat /\ BoardOf(db, u) \in Score
  BY <1>2 DEF Coins, Number, BoardOf, Score
<1>5. due[u] \in Due
  BY DEF Shapes, MergeTypeOK
<1>6. QED
  BY <1>2, <1>3, <1>4, <1>5

\* Nothing is left to do for an event that commits.
LEMMA EventIsOver ==
  ASSUME Shapes, NEW t \in Open, Kind(t) = "event", Commits(t)
  PROVE  Loaded(t) /\ \A row, op : op # "commit" => ~Still(t, Statement(op, row))
<1>1. Loaded(t)
  BY NotLoaded DEF Commits
<1> DEFINE s == Head(todo[t])
           rest == Tail(todo[t])
<1>2. /\ s = Statement("commit", "users") /\ EventFollows(t)
      /\ Elements(todo[t]) = {s} \union Elements(rest)
      /\ \A r \in Elements(rest) : r # s /\ Phase(s) <= Phase(r)
      /\ \A row \in DOMAIN read[t] : row \in Row
  BY <1>1, EventHead DEF Commits
<1> HIDE DEF s, rest
<1>3. ASSUME NEW r \in Elements(rest) PROVE FALSE
  <2>1. EventStatement(t, r) /\ t \in Calls
    BY <1>2, <1>3 DEF EventFollows, Open
  <2>2. Phase(s) = 9 /\ Phase(r) \in 1 .. 9
    BY <1>2, PhasesOf
  <2>3. Phase(r) = 9
    BY <1>2, <1>3, <2>2
  <2>4. r = Statement("commit", "users")
    BY <1>2, <2>1, <2>3, StatementForms
  <2>5. QED
    BY <1>2, <1>3, <2>4
<1>4. \A row, op : Still(t, Statement(op, row)) => op = "commit"
  BY <1>2, <1>3 DEF Still, Statement
<1>5. QED
  BY <1>1, <1>4

\* The actor of an event that commits has what the event adds.
LEMMA EventCredits ==
  ASSUME Shapes, Lawful, NEW t \in Open, Kind(t) = "event", StepOf(t), Commits(t), Earns(t),
         Balanced(Actor(t))
  PROVE  Balanced(Actor(t))'
<1> DEFINE u == Actor(t)
           x == Call[t].xp
<1>1. /\ t \in Calls /\ t \in Events /\ u \in Users /\ Call[t].track \in Tracks
      /\ x \in Nat /\ Call[t].points \in Nat
  BY CallKinds DEF Open
<1>2. /\ db' = Overlay(own[t], db) /\ DOMAIN db = Row
      /\ due \in [Users -> Due] /\ due' = Credited(t)
  BY DEF Commits, Shapes, MergeTypeOK
<1>3. /\ due'[u].coins = due[u].coins + x
      /\ due'[u].points = due[u].points + Call[t].points
  BY <1>1, <1>2 DEF Credited
<1>4. \A row, op : op # "commit" => ~Still(t, Statement(op, row))
  BY EventIsOver
<1>5. \A row \in Row : db'[row] = IF row \in DOMAIN own[t] THEN own[t][row] ELSE db[row]
  BY <1>2 DEF Overlay
<1>6. XP(db', u) = XP(db, u) + x
  <2>1. ASSUME NEW k \in Tracks
        PROVE  /\ Number(db, TrackRow(u, k)) \in Nat
               /\ Number(db', TrackRow(u, k))
                    = Number(db, TrackRow(u, k)) + IF k = Call[t].track THEN x ELSE 0
    <3> DEFINE row == TrackRow(u, k)
    <3>1. row \in Row /\ row \in RowsOf("xp_tracks", u) /\ db[row] \in Nat \union {None}
      BY <1>1, UserRows, Held
    <3>2. Number(db, row) \in Nat
      BY <3>1 DEF Number
    <3>3. Gained(t, row) = IF k = Call[t].track THEN x ELSE 0
      BY DEF Gained, XPRow, TrackRow
    <3> HIDE DEF row
    <3>4. /\ row \in DOMAIN own[t] => own[t][row] = Number(db, row) + Gained(t, row)
          /\ Gained(t, row) > 0 => row \in DOMAIN own[t]
      BY <1>4, <3>1 DEF Earns, Tracked
    <3>5. Gained(t, row) \in Nat
      BY <1>1, <3>3
    <3>6. CASE row \in DOMAIN own[t]
      <4>1. db'[row] = Number(db, row) + Gained(t, row) /\ db'[row] \in Nat
        BY <1>5, <3>1, <3>2, <3>4, <3>5, <3>6
      <4>2. db'[row] # None
        BY <4>1, MergeAssumption
      <4>3. QED
        BY <3>2, <3>3, <4>1, <4>2 DEF Number, row
    <3>7. CASE row \notin DOMAIN own[t]
      <4>1. db'[row] = db[row] /\ Gained(t, row) = 0
        BY <1>5, <3>1, <3>4, <3>5, <3>7
      <4>2. Number(db', row) = Number(db, row)
        BY <4>1 DEF Number
      <4>3. QED
        BY <3>2, <3>3, <4>1, <4>2 DEF row
    <3>8. QED
      BY <3>6, <3>7
  <2>2. PICK old : old = db
    OBVIOUS
  <2>3. PICK new : new = db'
    OBVIOUS
  <2>4. PICK a : a = u
    OBVIOUS
  <2>5. PICK y \in Tracks : y = Call[t].track
    BY <1>1
  <2>6. PICK n \in Nat : n = x
    BY <1>1
  <2>7. \A k \in Tracks : /\ Number(old, TrackRow(a, k)) \in Nat
                          /\ Number(new, TrackRow(a, k))
                               = Number(old, TrackRow(a, k)) + IF k = y THEN n ELSE 0
    BY <2>1, <2>2, <2>3, <2>4, <2>5, <2>6
  <2>8. XP(new, a) = XP(old, a) + n
    BY <2>7, XPWithOne
  <2>9. QED
    BY <2>2, <2>3, <2>4, <2>6, <2>8
<1>7. Coins(db', u) = due[u].coins + x
  <2>1. WalletRow(t) \in Row /\ WalletRow(t) = <<"wallets", u>>
    BY <1>1, ActorRows DEF WalletRow
  <2>2. due[u].coins \in Nat
    BY <1>1, <1>2 DEF Due
  <2>3. CASE x > 0
    <3>1. db'[WalletRow(t)] = due[u].coins + x
      BY <1>4, <1>5, <2>1, <2>3 DEF Earns, Paid
    <3>2. db'[WalletRow(t)] # None
      BY <1>1, <2>2, <3>1, MergeAssumption
    <3>3. QED
      BY <2>1, <3>1, <3>2 DEF Coins, Number
  <2>4. CASE ~(x > 0)
    <3>1. x = 0
      BY <1>1, <2>4
    <3>2. db'[WalletRow(t)] = db[WalletRow(t)]
      BY <1>5, <2>1, <2>4 DEF Earns, Paid
    <3>3. Coins(db', u) = Coins(db, u)
      BY <2>1, <3>2 DEF Coins, Number
    <3>4. QED
      BY <2>2, <3>1, <3>3 DEF Balanced
  <2>5. QED
    BY <2>3, <2>4
<1>8. LedgerSum(db', u) = LedgerSum(db, u) + x
  <2>1. ASSUME NEW y \in Events \ {t} PROVE db'[EntryRow(y)] = db[EntryRow(y)]
    <3>1. /\ EntryRow(y) \in Row /\ EntryRow(y)[1] = "ledger_entries"
          /\ EntryRow(y) # EntryRow(t)
      BY RowsAreRows, RowNames
    <3>2. EntryRow(y) \notin DOMAIN own[t]
      BY <3>1, OwnedKinds
    <3>3. QED
      BY <1>5, <3>1, <3>2
  <2>2. EntryRow(t) \in Row /\ EntryRow(t)[1] = "ledger_entries"
    BY <1>1, ActorRows
  <2>3. EntryRow(t) \in DOMAIN own[t] => own[t][EntryRow(t)] = u
    BY <2>2, OwnedKinds
  <2>4. db[EntryRow(t)] # u
    <3>1. status[t] # "done"
      BY DEF Open
    <3>2. db[EntryRow(t)] = None
      BY <1>1, <3>1 DEF Lawful, EntriesOfDone
    <3>3. None \notin Users
      BY MergeAssumption
    <3>4. QED
      BY <1>1, <3>2, <3>3
  <2>5. PICK old : old = db
    OBVIOUS
  <2>6. PICK new : new = db'
    OBVIOUS
  <2>7. PICK a : a = u
    OBVIOUS
  <2>8. \A y \in Events \ {t} : new[EntryRow(y)] = a <=> old[EntryRow(y)] = a
    BY <2>1, <2>5, <2>6
  <2>9. CASE x > 0
    <3>1. EntryRow(t) \in DOMAIN own[t]
      BY <1>4, <2>9 DEF Earns, Paid
    <3>2. new[EntryRow(t)] = a /\ old[EntryRow(t)] # a /\ a \in Users
      BY <1>1, <1>5, <2>2, <2>3, <2>4, <2>5, <2>6, <2>7, <3>1
    <3>3. LedgerSum(new, a) = LedgerSum(old, a) + Call[t].xp
      BY <1>1, <2>8, <3>2, LedgerSumWith
    <3>4. QED
      BY <2>5, <2>6, <2>7, <3>3
  <2>10. CASE ~(x > 0)
    <3>1. EntryRow(t) \notin DOMAIN own[t]
      BY <2>10 DEF Earns, Paid
    <3>2. new[EntryRow(t)] = old[EntryRow(t)]
      BY <1>5, <2>2, <2>5, <2>6, <3>1
    <3>3. \A y \in Events : new[EntryRow(y)] = a <=> old[EntryRow(y)] = a
      BY <2>8, <3>2
    <3>4. LedgerSum(new, a) = LedgerSum(old, a)
      BY <3>3, LedgerSumSame
    <3>5. x = 0 /\ LedgerSum(old, a) \in Nat
      BY <1>1, <2>10, LedgerSumTyped
    <3>6. QED
      BY <2>5, <2>6, <2>7, <3>4, <3>5
  <2>11. QED
    BY <2>9, <2>10
<1>9. BoardOf(db', u).score = BoardOf(db, u).score + Call[t].points
  <2>1. BoardRow(t) \in Row /\ BoardRow(t) = <<"leaderboard_entries", u>>
    BY <1>1, ActorRows DEF BoardRow
  <2>2. BoardOf(db, u).score = ScoreIn(db[BoardRow(t)]) /\ BoardOf(db, u).score \in Nat
    <3>1. BoardOf(db, u) \in Score
      BY <1>1, Held
    <3>2. QED
      BY <2>1, <3>1 DEF BoardOf, ScoreIn, Score
  <2>3. BoardOf(db', u).score = ScoreIn(db'[BoardRow(t)])
    BY <2>1 DEF BoardOf, ScoreIn
  <2>4. CASE BoardRow(t) \in DOMAIN own[t]
    <3>1. own[t][BoardRow(t)] # None
      <4>1. BoardRow(t)[1] \in StateTables /\ BoardRow(t)[2] = u
        BY <1>1, ActorRows DEF StateTables, Moved, SimpleTables
      <4>2. QED
        BY <2>4, <4>1, OwnedKinds
    <3>2. own[t][BoardRow(t)].score = ScoreIn(db[BoardRow(t)]) + Call[t].points
      BY <2>4 DEF Earns, Boarded
    <3>3. ScoreIn(db'[BoardRow(t)]) = ScoreIn(db[BoardRow(t)]) + Call[t].points
      BY <1>5, <2>1, <2>4, <3>1, <3>2 DEF ScoreIn
    <3>4. QED
      BY <2>2, <2>3, <3>3
  <2>5. CASE BoardRow(t) \notin DOMAIN own[t]
    <3>1. ~(Call[t].points > 0)
      BY <1>4, <2>5 DEF Earns, Boarded
    <3>2. db'[BoardRow(t)] = db[BoardRow(t)]
      BY <1>5, <2>1, <2>5
    <3>3. QED
      BY <1>1, <2>2, <2>3, <3>1, <3>2
  <2>6. QED
    BY <2>4, <2>5
<1>10. QED
  BY <1>3, <1>6, <1>7, <1>8, <1>9 DEF Balanced

\* The source of a merge that commits has nothing left, and is owed nothing.
LEMMA MergeEmpties ==
  ASSUME Shapes, Lawful, Lines, NEW t \in Open, Kind(t) = "merge",
         StepOf(t), Commits(t), Moves(t)
  PROVE  Balanced(Source(t))'
<1>1. Source(t) \in Users /\ Target(t) # Source(t)
  BY CallKinds DEF Open
<1>2. Emptied(Source(t))'
  BY EmptiedAtCommit
<1>3. /\ XP(db', Source(t)) = 0 /\ Coins(db', Source(t)) = 0
      /\ LedgerSum(db', Source(t)) = 0 /\ BoardOf(db', Source(t)).score = 0
  <2>1. PICK rows : rows = db'
    OBVIOUS
  <2>2. /\ \A table \in Counted : \A row \in RowsOf(table, Source(t)) : rows[row] = None
        /\ \A x \in Events : rows[EntryRow(x)] # Source(t)
    BY <1>2, <2>1 DEF Emptied
  <2>3. /\ XP(rows, Source(t)) = 0 /\ Coins(rows, Source(t)) = 0
        /\ LedgerSum(rows, Source(t)) = 0 /\ BoardOf(rows, Source(t)).score = 0
    BY <1>1, <2>2, EmptiedHasNothing
  <2>4. QED
    BY <2>1, <2>3
<1>4. due'[Source(t)] = [coins |-> 0, points |-> 0]
  <2>1. due \in [Users -> Due] /\ due' = Credited(t)
    BY DEF Commits, Shapes, MergeTypeOK
  <2>2. QED
    BY <1>1, <2>1 DEF Credited
<1>5. QED
  BY <1>3, <1>4 DEF Balanced

\* The target of a merge that commits has what both had.
LEMMA MergeCredits ==
  ASSUME Shapes, Lawful, NEW t \in Open, Kind(t) = "merge", StepOf(t), Commits(t), Moves(t),
         Balanced(Source(t)), Balanced(Target(t))
  PROVE  Balanced(Target(t))'
<1> DEFINE s == Source(t)
           u == Target(t)
<1>1. /\ t \in Calls /\ s \in Users /\ u \in Users /\ s # u /\ MergeAt(t) = 23
  BY CallKinds, AtCommit DEF Open
<1>2. /\ db' = Overlay(own[t], db) /\ DOMAIN db = Row
      /\ due \in [Users -> Due] /\ due' = Credited(t)
  BY DEF Commits, Shapes, MergeTypeOK
<1>3. /\ due'[u].coins = due[u].coins + due[s].coins
      /\ due'[u].points = IF due[u].points > due[s].points THEN due[u].points
                          ELSE due[s].points
  <2>1. [due EXCEPT ![s] = [coins |-> 0, points |-> 0]][u] = due[u]
    BY <1>1, <1>2
  <2>2. due'[u] = [coins |-> due[u].coins + due[s].coins,
                   points |-> IF due[u].points > due[s].points THEN due[u].points
                              ELSE due[s].points]
    BY <1>1, <1>2 DEF Credited
  <2>3. QED
    BY <2>2
<1>4. \A row \in Row : db'[row] = IF row \in DOMAIN own[t] THEN own[t][row] ELSE db[row]
  BY <1>2 DEF Overlay
<1>5. ASSUME NEW table \in Counted, NEW old \in RowsOf(table, s)
      PROVE  LET new == OfTarget(t, old) IN
             db'[new] = IF db[old] = None THEN db[new]
                        ELSE IF db[new] = None THEN db[old] ELSE Merged(table, db[new], db[old])
  <2> DEFINE new == OfTarget(t, old)
  <2>1. new \in RowsOf(table, u)
    BY <1>1, Renamed
  <2>2. new \in Row
    BY <1>1, <2>1, CountedRows
  <2>3. FirstAt(table) < 23
    BY Places
  <2>4. /\ db[old] = None => new \notin DOMAIN own[t]
        /\ db[old] # None =>
             /\ new \in DOMAIN own[t]
             /\ own[t][new] = IF db[new] = None THEN db[old]
                              ELSE Merged(table, db[new], db[old])
    BY <1>1, <2>3 DEF Moves, Copied
  <2> HIDE DEF new
  <2>5. db'[new] = IF db[old] = None THEN db[new]
                   ELSE IF db[new] = None THEN db[old] ELSE Merged(table, db[new], db[old])
    BY <1>4, <2>2, <2>4
  <2>6. QED
    BY <2>5 DEF new
<1>6. /\ due[u].coins \in Nat /\ due[s].coins \in Nat
      /\ due[u].points \in Nat /\ due[s].points \in Nat
  BY <1>1, <1>2 DEF Due
<1>7. XP(db', u) = XP(db, u) + XP(db, s)
  <2>1. ASSUME NEW k \in Tracks
        PROVE  /\ Number(db, TrackRow(u, k)) \in Nat /\ Number(db, TrackRow(s, k)) \in Nat
               /\ Number(db', TrackRow(u, k))
                    = Number(db, TrackRow(u, k)) + Number(db, TrackRow(s, k))
    <3>1. /\ TrackRow(s, k) \in RowsOf("xp_tracks", s)
          /\ OfTarget(t, TrackRow(s, k)) = TrackRow(u, k)
      <4>1. [<<"xp_tracks", s, k>> EXCEPT ![2] = u] = <<"xp_tracks", u, k>>
        OBVIOUS
      <4>2. QED
        BY <1>1, <4>1, UserRows DEF TrackRow, OfTarget
    <3>2. /\ db[TrackRow(u, k)] \in Nat \union {None}
          /\ db[TrackRow(s, k)] \in Nat \union {None}
      BY <1>1, Held
    <3>3. \A a, b : Merged("xp_tracks", a, b) = a + b
      BY DEF Merged
    <3>4. db'[TrackRow(u, k)] =
            IF db[TrackRow(s, k)] = None THEN db[TrackRow(u, k)]
            ELSE IF db[TrackRow(u, k)] = None THEN db[TrackRow(s, k)]
            ELSE db[TrackRow(u, k)] + db[TrackRow(s, k)]
      BY <1>5, <3>1, <3>3 DEF Counted
    <3>5. PICK a, b : a = db[TrackRow(u, k)] /\ b = db[TrackRow(s, k)]
      OBVIOUS
    <3>6. a \in Nat /\ b \in Nat => a + b \in Nat /\ a + b # None
      BY MergeAssumption
    <3>7. QED
      BY <3>2, <3>4, <3>5, <3>6 DEF Number
  <2>2. PICK old : old = db
    OBVIOUS
  <2>3. PICK new : new = db'
    OBVIOUS
  <2>4. PICK a, b : a = u /\ b = s
    OBVIOUS
  <2>5. \A k \in Tracks : /\ Number(old, TrackRow(a, k)) \in Nat
                          /\ Number(old, TrackRow(b, k)) \in Nat
                          /\ Number(new, TrackRow(a, k))
                               = Number(old, TrackRow(a, k)) + Number(old, TrackRow(b, k))
    BY <2>1, <2>2, <2>3, <2>4
  <2>6. XP(new, a) = XP(old, a) + XP(old, b)
    BY <2>5, XPWith
  <2>7. QED
    BY <2>2, <2>3, <2>4, <2>6
<1>8. Coins(db', u) = Coins(db, u) + Coins(db, s)
  <2>1. /\ <<"wallets", s>> \in RowsOf("wallets", s)
        /\ OfTarget(t, <<"wallets", s>>) = <<"wallets", u>>
    <3>1. [<<"wallets", s>> EXCEPT ![2] = u] = <<"wallets", u>>
      OBVIOUS
    <3>2. QED
      BY <1>1, <3>1, UserRows DEF OfTarget
  <2>2. /\ db[<<"wallets", u>>] \in Nat \union {None}
        /\ db[<<"wallets", s>>] \in Nat \union {None}
    BY <1>1, Held
  <2>3. \A a, b : Merged("wallets", a, b) = a + b
    BY DEF Merged
  <2>4. db'[<<"wallets", u>>] =
          IF db[<<"wallets", s>>] = None THEN db[<<"wallets", u>>]
          ELSE IF db[<<"wallets", u>>] = None THEN db[<<"wallets", s>>]
          ELSE db[<<"wallets", u>>] + db[<<"wallets", s>>]
    BY <1>5, <2>1, <2>3 DEF Counted
  <2>5. PICK a, b : a = db[<<"wallets", u>>] /\ b = db[<<"wallets", s>>]
    OBVIOUS
  <2>6. a \in Nat /\ b \in Nat => a + b \in Nat /\ a + b # None
    BY MergeAssumption
  <2>7. QED
    BY <2>2, <2>4, <2>5, <2>6 DEF Coins, Number
<1>9. LedgerSum(db', u) = LedgerSum(db, u) + LedgerSum(db, s)
  <2>1. ASSUME NEW x \in Events PROVE db'[EntryRow(x)] = u <=> db[EntryRow(x)] \in {u, s}
    <3>1. EntryRow(x) \in Row /\ EntryRow(x)[1] = "ledger_entries"
      BY RowsAreRows, RowNames
    <3>2. EntryRow(x) \in DOMAIN own[t] =>
            own[t][EntryRow(x)] = u /\ db[EntryRow(x)] = s
      BY <3>1, OwnedKinds DEF Lawful, OwnedBefore, OwnerTables
    <3>3. db[EntryRow(x)] = s => EntryRow(x) \in DOMAIN own[t]
      BY <1>1 DEF Moves, Repaid
    <3>4. QED
      BY <1>4, <3>1, <3>2, <3>3
  <2>2. PICK old : old = db
    OBVIOUS
  <2>3. PICK new : new = db'
    OBVIOUS
  <2>4. PICK a, b : a = u /\ b = s
    OBVIOUS
  <2>5. a # b /\ \A x \in Events : new[EntryRow(x)] = a <=> old[EntryRow(x)] \in {a, b}
    BY <1>1, <2>1, <2>2, <2>3, <2>4
  <2>6. LedgerSum(new, a) = LedgerSum(old, a) + LedgerSum(old, b)
    BY <2>5, LedgerSumBoth
  <2>7. QED
    BY <2>2, <2>3, <2>4, <2>6
<1>10. BoardOf(db', u).score =
         IF BoardOf(db, u).score > BoardOf(db, s).score THEN BoardOf(db, u).score
         ELSE BoardOf(db, s).score
  <2> DEFINE mine == <<"leaderboard_entries", u>>
             its == <<"leaderboard_entries", s>>
  <2>1. its \in RowsOf("leaderboard_entries", s) /\ OfTarget(t, its) = mine
    <3>1. [<<"leaderboard_entries", s>> EXCEPT ![2] = u] = <<"leaderboard_entries", u>>
      OBVIOUS
    <3>2. QED
      BY <1>1, <3>1, UserRows DEF OfTarget
  <2>2. db[mine] \in Score \union {None} /\ db[its] \in Score \union {None}
    BY <1>1, Held
  <2> HIDE DEF mine, its
  <2>3. db'[mine] = IF db[its] = None THEN db[mine]
                    ELSE IF db[mine] = None THEN db[its]
                    ELSE Merged("leaderboard_entries", db[mine], db[its])
    BY <1>5, <2>1 DEF Counted
  <2>4. ASSUME NEW a \in Score, NEW b \in Score
        PROVE  /\ Merged("leaderboard_entries", a, b) \in Score
               /\ Merged("leaderboard_entries", a, b).score
                    = IF a.score > b.score THEN a.score ELSE b.score
               /\ a.score \in Nat
    BY DEF Merged, Score
  <2>5. \A rows, v : BoardOf(rows, v).score = ScoreIn(rows[<<"leaderboard_entries", v>>])
    BY DEF BoardOf, ScoreIn
  <2>6. /\ BoardOf(db, u).score = ScoreIn(db[mine]) /\ BoardOf(db, s).score = ScoreIn(db[its])
        /\ BoardOf(db', u).score = ScoreIn(db'[mine])
    BY <2>5 DEF mine, its
  <2>7. None \notin Score
    BY MergeAssumption
  <2>8. ScoreIn(db'[mine]) = IF ScoreIn(db[mine]) > ScoreIn(db[its]) THEN ScoreIn(db[mine])
                             ELSE ScoreIn(db[its])
    <3>1. CASE db[its] = None /\ db[mine] = None
      BY <2>3, <3>1 DEF ScoreIn
    <3>2. CASE db[its] = None /\ db[mine] # None
      BY <2>2, <2>3, <2>4, <3>2 DEF ScoreIn
    <3>3. CASE db[its] # None /\ db[mine] = None
      BY <2>2, <2>3, <2>4, <3>3 DEF ScoreIn
    <3>4. CASE db[its] # None /\ db[mine] # None
      BY <2>2, <2>3, <2>4, <2>7, <3>4 DEF ScoreIn
    <3>5. QED
      BY <3>1, <3>2, <3>3, <3>4
  <2>9. QED
    BY <2>6, <2>8
<1>11. QED
  BY <1>3, <1>7, <1>8, <1>9, <1>10 DEF Balanced

\* A call takes nothing from those that it is not about.
LEMMA BystandersHave ==
  ASSUME Shapes, Lawful, NEW t \in Open, StepOf(t), Commits(t),
         NEW u \in Users, Kind(t) # "link" => u \notin UsersOf(t), Balanced(u)
  PROVE  Balanced(u)'
<1>1. t \in Calls /\ Kind(t) \in {"merge", "event", "link"}
  BY CallKinds DEF Open
<1>2. /\ Kind(t) = "merge" => u # Source(t) /\ u # Target(t)
      /\ Kind(t) = "event" => u # Actor(t)
  BY DEF UsersOf
<1>3. due'[u] = due[u]
  <2>1. due \in [Users -> Due] /\ due' = IF Kind(t) = "link" THEN due ELSE Credited(t)
    BY DEF Commits, Shapes, MergeTypeOK
  <2>2. QED
    BY <1>1, <1>2, <2>1 DEF Credited
<1>4. ASSUME NEW row \in Row, row[1] \in StateTables, row[2] = u, db'[row] # db[row]
      PROVE  FALSE
  <2>1. row \in DOMAIN own[t]
    BY <1>1, <1>4, RowsChange
  <2>2. \/ Kind(t) = "merge" /\ (row[2] = Target(t) \/ row[2] = Source(t))
        \/ Kind(t) = "event" /\ row[2] = Actor(t)
    BY <1>4, <2>1, OwnedKinds
  <2>3. QED
    BY <1>2, <1>4, <2>2
<1>5. ASSUME NEW x \in Events PROVE db'[EntryRow(x)] = u <=> db[EntryRow(x)] = u
  <2>1. EntryRow(x) \in Row /\ EntryRow(x)[1] = "ledger_entries"
    BY RowsAreRows, RowNames
  <2>2. SUFFICES ASSUME db'[EntryRow(x)] # db[EntryRow(x)]
                 PROVE  db'[EntryRow(x)] # u /\ db[EntryRow(x)] # u
    OBVIOUS
  <2>3. EntryRow(x) \in DOMAIN own[t] /\ db'[EntryRow(x)] = own[t][EntryRow(x)]
    BY <1>1, <2>1, <2>2, RowsChange
  <2>4. \/ Kind(t) = "merge" /\ own[t][EntryRow(x)] = Target(t)
        \/ Kind(t) = "event" /\ EntryRow(x) = EntryRow(t) /\ own[t][EntryRow(x)] = Actor(t)
    BY <2>1, <2>3, OwnedKinds
  <2>5. CASE Kind(t) = "merge"
    <3>1. db[EntryRow(x)] = Source(t)
      BY <2>1, <2>3, <2>5 DEF Lawful, OwnedBefore, OwnerTables
    <3>2. QED
      BY <1>2, <2>3, <2>4, <2>5, <3>1
  <2>6. CASE Kind(t) = "event"
    <3>1. x = t
      BY <2>4, <2>6 DEF EntryRow
    <3>2. status[x] # "done"
      BY <3>1 DEF Open
    <3>3. db[EntryRow(x)] = None
      BY <3>2 DEF Lawful, EntriesOfDone
    <3>4. None # u
      BY MergeAssumption
    <3>5. QED
      BY <1>2, <2>3, <2>4, <2>6, <3>3, <3>4
  <2>7. QED
    BY <2>4, <2>5, <2>6
<1>6. QED
  BY <1>3, <1>4, <1>5, HasAsBefore

LEMMA BalancedStep ==
  ASSUME Shapes, Lawful, Lines, Moving, Earning, NothingLostOrDoubled,
         NEW t \in Calls, StepOf(t)
  PROVE  NothingLostOrDoubled'
<1>1. SUFFICES ASSUME NEW u \in Users, u \notin tangled' PROVE Balanced(u)'
  BY DEF NothingLostOrDoubled, Balanced
<1>2. u \notin tangled
  BY <1>1, TangledGrows
<1>3. \A v \in Users \ tangled : Balanced(v)
  BY DEF NothingLostOrDoubled, Balanced
<1>4. Balanced(u)
  BY <1>2, <1>3
<1>5. CASE ~Commits(t)
  <2>1. db' = db /\ due' = due
    BY <1>5 DEF StepOf, Begins, Checks, Loads, Selects, Sums, Writes, Continues, Ends
  <2>2. QED
    BY <1>4, <2>1, HasAsBefore
<1>6. CASE Commits(t)
  <2>1. t \in Open
    BY <1>6 DEF Commits, Leaves
  <2>2. CASE Kind(t) = "link" \/ u \notin UsersOf(t)
    BY <1>4, <1>6, <2>1, <2>2, BystandersHave
  <2>3. CASE Kind(t) = "event" /\ u = Actor(t)
    <3>1. Loaded(t)
      BY <1>6, <2>1, <2>3, EventIsOver
    <3>2. Earns(t)
      BY <1>2, <2>1, <2>3, <3>1 DEF Earning
    <3>3. QED
      BY <1>4, <1>6, <2>1, <2>3, <3>2, EventCredits
  <2>4. CASE Kind(t) = "merge" /\ u \in UsersOf(t)
    <3>1. tangled' = IF Source(t) \in tangled THEN tangled \union {Target(t)} ELSE tangled
      BY <1>6, <2>4 DEF Commits
    <3>2. u \in {Source(t), Target(t)}
      BY <2>4 DEF UsersOf
    <3>3. Source(t) \notin tangled /\ Source(t) \in Users
      BY <1>1, <1>2, <2>4, <3>1, <3>2, CallKinds
    <3>4. Moves(t)
      BY <2>1, <2>4, <3>3 DEF Moving
    <3>5. CASE u = Source(t)
      BY <1>6, <2>1, <2>4, <3>4, <3>5, MergeEmpties
    <3>6. CASE u = Target(t)
      BY <1>3, <1>4, <1>6, <2>1, <2>4, <3>3, <3>4, <3>6, MergeCredits
    <3>7. QED
      BY <3>2, <3>5, <3>6
  <2>5. QED
    BY <2>2, <2>3, <2>4, CallKinds DEF UsersOf
<1>7. QED
  BY <1>5, <1>6

Preserving == Sound /\ Moving /\ Alone /\ Earning /\ NothingLostOrDoubled

LEMMA PreservingStart ==
  ASSUME MergeInit
  PROVE  Preserving
<1>1. Sound
  BY SoundStart
<1>2. Open = {}
  BY DEF MergeInit, Open
<1>3. Moving /\ Alone /\ Earning
  BY <1>2 DEF Moving, Alone, Earning
<1>4. NothingLostOrDoubled
  <2>1. SUFFICES ASSUME NEW u \in Users
                 PROVE  /\ XP(Start, u) = due[u].coins /\ Coins(Start, u) = due[u].coins
                        /\ LedgerSum(Start, u) = due[u].coins
                        /\ BoardOf(Start, u).score = due[u].points
    BY DEF NothingLostOrDoubled, MergeInit
  <2>2. due[u] = [coins |-> LedgerSum(Start, u), points |-> BoardOf(Start, u).score]
    BY DEF MergeInit
  <2>3. QED
    BY <2>2, StartAssumption
<1>5. QED
  BY <1>1, <1>3, <1>4 DEF Preserving

LEMMA PreservingStep ==
  ASSUME Preserving, NEW t \in Calls, StepOf(t), Shapes'
  PROVE  Preserving'
<1>1. /\ Sound /\ Shapes /\ Lawful /\ Lines /\ Moving /\ Alone /\ Earning
      /\ NothingLostOrDoubled
  BY DEF Preserving, Sound
<1>2. Sound'
  BY <1>1, SoundStep
<1>3. Moving' /\ Alone'
  BY <1>1, MovingStep, AloneStep
<1>4. Earning'
  BY <1>1, EarningStep
<1>5. NothingLostOrDoubled'
  BY <1>1, BalancedStep
<1>6. QED
  BY <1>2, <1>3, <1>4, <1>5 DEF Preserving

LEMMA PreservingStutter ==
  ASSUME Preserving, UNCHANGED mergeVars
  PROVE  Preserving'
<1>1. Sound'
  BY SoundStutter DEF Preserving
<1>2. Open' = Open /\ \A x : MergeAt(x)' = MergeAt(x)
  BY DEF mergeVars, Open, MergeAt
<1>3. \A u : Emptied(u)' = Emptied(u)
  BY DEF Emptied, mergeVars
<1>4. \A t : Moves(t)' = Moves(t)
  BY <1>2, <1>3 DEF Moves, Unmerged, Repaid, Found, Copied, Cleared, mergeVars
<1>5. \A t : Earns(t)' = Earns(t)
  BY DEF Earns, Tracked, Boarded, Paid, Still, mergeVars
<1>6. Moving' /\ Alone'
  BY <1>2, <1>3, <1>4 DEF Preserving, Moving, Alone, mergeVars
<1>7. Earning'
  BY <1>2, <1>5 DEF Preserving, Earning, Loaded, mergeVars
<1>8. NothingLostOrDoubled'
  BY DEF Preserving, NothingLostOrDoubled, mergeVars
<1>9. QED
  BY <1>1, <1>6, <1>7, <1>8 DEF Preserving

\* MergeAnonymous moves all that a user has earned, and moves it once: but where
\* calls have overlapped badly, the tracks, the wallet, the ledger and the board of
\* a user add up to what its events, and the users merged into it, have earned.
THEOREM NothingIsLostOrDoubled == MergeSpec => []NothingLostOrDoubled
<1>1. MergeInit => Preserving
  BY PreservingStart
<1>2. Preserving /\ [MergeNext]_mergeVars => Preserving'
  <2>1. SUFFICES ASSUME Preserving, MergeNext PROVE Preserving'
    BY PreservingStutter
  <2>2. Shapes
    BY <2>1 DEF Preserving, Sound
  <2>3. Shapes' /\ \E t \in Calls : StepOf(t)
    BY <2>1, <2>2, ShapesStep, OneSteps
  <2>4. QED
    BY <2>1, <2>3, PreservingStep
<1>3. Preserving => NothingLostOrDoubled
  BY DEF Preserving
<1>4. QED
  BY <1>1, <1>2, <1>3, PTL DEF MergeSpec
-----------------------------------------------------------------------------
(* Places on a board.                                                      *)

Standing == [user : Nat, score : Nat, at : Nat]

\* The standings of different users, finitely many.
IsBoard(board) ==
  /\ IsFiniteSet(board) /\ board \subseteq Standing
  /\ \A e, f \in board : e.user = f.user => e = f

Outdoes(e, f) == LexLess(PlaceKey(e, Newest), PlaceKey(f, Newest))
Ties(e, f) == PlaceKey(e, Newest) = PlaceKey(f, Newest)
Beats(e, f) == LexLess(SortKey(e, Newest), SortKey(f, Newest))

Ahead(board, e) == {x \in board : Beats(x, e)}

LEMMA ThreeInOrder ==
  ASSUME NEW a, NEW b, NEW c
  PROVE  <<a, b>> \o <<c>> = <<a, b, c>>
<1> DEFINE s == <<a, b>> \o <<c>>
           t == <<a, b, c>>
<1>1. DOMAIN s = 1 .. 3 /\ s[1] = a /\ s[2] = b /\ s[3] = c
  OBVIOUS
<1>2. DOMAIN t = 1 .. 3 /\ t[1] = a /\ t[2] = b /\ t[3] = c
  OBVIOUS
<1>3. 1 .. 3 = {1, 2, 3}
  OBVIOUS
<1>4. s = [i \in 1 .. 3 |-> s[i]] /\ t = [i \in 1 .. 3 |-> t[i]]
  BY <1>1, <1>2
<1> HIDE DEF s, t
<1>5. s = t
  BY <1>1, <1>2, <1>3, <1>4
<1>6. QED
  BY <1>5 DEF s, t

\* The keys of two entries compare as the entries do: by score, time and user.
LEMMA KeyOrder ==
  ASSUME NEW e \in Standing, NEW f \in Standing
  PROVE  /\ Outdoes(e, f) <=> e.score > f.score \/ (e.score = f.score /\ e.at < f.at)
         /\ Ties(e, f) <=> e.score = f.score /\ e.at = f.at
         /\ Beats(e, f) <=> Outdoes(e, f) \/ (Ties(e, f) /\ e.user < f.user)
<1>1. \A x \in Standing : x.user \in Nat /\ x.score \in Nat /\ x.at \in Nat
  BY DEF Standing
<1>2. \A x \in Standing : /\ PlaceKey(x, Newest) = <<-x.score, x.at>>
                          /\ SortKey(x, Newest) = <<-x.score, x.at, x.user>>
  <2>1. SUFFICES ASSUME NEW x \in Standing
                 PROVE  /\ PlaceKey(x, Newest) = <<-x.score, x.at>>
                        /\ SortKey(x, Newest) = <<-x.score, x.at, x.user>>
    OBVIOUS
  <2>2. PlaceKey(x, Newest) = <<-x.score, x.at>>
    BY DEF PlaceKey, Newest
  <2>3. <<-x.score, x.at>> \o <<x.user>> = <<-x.score, x.at, x.user>>
    BY ThreeInOrder
  <2>4. QED
    BY <2>2, <2>3 DEF SortKey
<1>3. Outdoes(e, f) <=> -e.score < -f.score \/ (-e.score = -f.score /\ e.at < f.at)
  <2>1. DOMAIN <<-e.score, e.at>> = {1, 2}
    OBVIOUS
  <2>2. /\ <<-e.score, e.at>>[1] = -e.score /\ <<-e.score, e.at>>[2] = e.at
        /\ <<-f.score, f.at>>[1] = -f.score /\ <<-f.score, f.at>>[2] = f.at
    OBVIOUS
  <2>3. 1 .. 1 - 1 = {} /\ 1 .. 2 - 1 = {1}
    OBVIOUS
  <2>4. QED
    BY <1>2, <2>1, <2>2, <2>3 DEF Outdoes, LexLess
<1>4. Ties(e, f) <=> -e.score = -f.score /\ e.at = f.at
  BY <1>2 DEF Ties
<1>5. Beats(e, f) <=> \/ -e.score < -f.score
                      \/ -e.score = -f.score /\ e.at < f.at
                      \/ -e.score = -f.score /\ e.at = f.at /\ e.user < f.user
  <2>1. DOMAIN <<-e.score, e.at, e.user>> = {1, 2, 3}
    OBVIOUS
  <2>2. /\ <<-e.score, e.at, e.user>>[1] = -e.score
        /\ <<-e.score, e.at, e.user>>[2] = e.at
        /\ <<-e.score, e.at, e.user>>[3] = e.user
        /\ <<-f.score, f.at, f.user>>[1] = -f.score
        /\ <<-f.score, f.at, f.user>>[2] = f.at
        /\ <<-f.score, f.at, f.user>>[3] = f.user
    OBVIOUS
  <2>3. 1 .. 1 - 1 = {} /\ 1 .. 2 - 1 = {1} /\ 1 .. 3 - 1 = {1, 2}
    OBVIOUS
  <2>4. QED
    BY <1>2, <2>1, <2>2, <2>3 DEF Beats, LexLess
<1>6. QED
  BY <1>1, <1>3, <1>4, <1>5

\* Beats is a strict total order of the entries of a board.
LEMMA BeatsOrders ==
  ASSUME NEW board, IsBoard(board)
  PROVE  \A e, f, g \in board :
           /\ ~Beats(e, e)
           /\ e # f => Beats(e, f) \/ Beats(f, e)
           /\ Beats(e, f) => ~Beats(f, e)
           /\ Beats(e, f) /\ Beats(f, g) => Beats(e, g)
<1>1. SUFFICES ASSUME NEW e \in board, NEW f \in board, NEW g \in board
               PROVE  /\ ~Beats(e, e)
                      /\ e # f => Beats(e, f) \/ Beats(f, e)
                      /\ Beats(e, f) => ~Beats(f, e)
                      /\ Beats(e, f) /\ Beats(f, g) => Beats(e, g)
  OBVIOUS
<1>2. /\ e \in Standing /\ f \in Standing /\ g \in Standing
      /\ e # f => e.user # f.user
  BY <1>1 DEF IsBoard
<1>3. \A x \in {e, f, g} : x.user \in Nat /\ x.score \in Nat /\ x.at \in Nat
  BY <1>2 DEF Standing
<1>4. \A x, y \in {e, f, g} :
        Beats(x, y) <=> \/ x.score > y.score
                        \/ x.score = y.score /\ x.at < y.at
                        \/ x.score = y.score /\ x.at = y.at /\ x.user < y.user
  BY <1>2, KeyOrder
<1>5. QED
  BY <1>2, <1>3, <1>4

\* A list of all entries, each before those it beats.
InPlaces(list, board) ==
  /\ list \in SetToSeqs(board)
  /\ \A i, j \in DOMAIN list : i < j => Beats(list[i], list[j])

\* The list exists: put each entry where the entries ahead of it leave room.
LEMMA SortedList ==
  ASSUME NEW board, IsBoard(board)
  PROVE  InPlaces(Sorted(board, Newest), board)
<1> DEFINE n == Cardinality(board)
           place == [e \in board |-> 1 + Cardinality(Ahead(board, e))]
<1>1. /\ n \in Nat /\ IsFiniteSet(board)
      /\ IsFiniteSet(1 .. n) /\ Cardinality(1 .. n) = n
  BY FS_CardinalityType, FS_Interval DEF IsBoard
<1>2. \A e \in board : /\ Ahead(board, e) \subseteq board
                       /\ IsFiniteSet(Ahead(board, e))
                       /\ Cardinality(Ahead(board, e)) \in 0 .. n - 1
  <2>1. SUFFICES ASSUME NEW e \in board
                 PROVE  /\ Ahead(board, e) \subseteq board
                        /\ IsFiniteSet(Ahead(board, e))
                        /\ Cardinality(Ahead(board, e)) \in 0 .. n - 1
    OBVIOUS
  <2>2. Ahead(board, e) \in SUBSET board /\ Ahead(board, e) # board
    BY BeatsOrders DEF Ahead
  <2>3. QED
    BY <1>1, <2>2, FS_Subset, FS_CardinalityType
<1>3. \A e, f \in board : Beats(e, f) => place[e] < place[f]
  <2>1. SUFFICES ASSUME NEW e \in board, NEW f \in board, Beats(e, f)
                 PROVE  place[e] < place[f]
    OBVIOUS
  <2>2. /\ Ahead(board, e) \in SUBSET Ahead(board, f)
        /\ Ahead(board, e) # Ahead(board, f)
    BY <2>1, BeatsOrders DEF Ahead
  <2>3. Cardinality(Ahead(board, e)) < Cardinality(Ahead(board, f))
    BY <1>2, <2>2, FS_Subset
  <2>4. QED
    BY <1>2, <2>3
<1>4. place \in [board -> 1 .. n] /\ IsInjective(place)
  <2>1. \A e \in board : place[e] \in 1 .. n
    BY <1>1, <1>2
  <2>2. \A e, f \in board : e # f => place[e] # place[f]
    BY <1>1, <1>3, <2>1, BeatsOrders
  <2>3. QED
    BY <2>1, <2>2 DEF IsInjective
<1> HIDE DEF place
<1>5. \A i \in 1 .. n : \E e \in board : place[e] = i
  <2>1. place \in Injection(board, 1 .. n)
    BY <1>4 DEF Injection
  <2>2. place \in Surjection(board, 1 .. n)
    BY <1>1, <2>1, FS_Injection
  <2>3. QED
    BY <2>2 DEF Surjection
<1> DEFINE list == [i \in 1 .. n |-> CHOOSE e \in board : place[e] = i]
<1>6. \A i \in 1 .. n : list[i] \in board /\ place[list[i]] = i
  BY <1>5
<1>7. InPlaces(list, board)
  <2>1. list \in [1 .. n -> board]
    BY <1>6
  <2>2. \A i, j \in 1 .. n : i # j => list[i] # list[j]
    BY <1>6
  <2>3. list \in SetToSeqs(board)
    BY <2>1, <2>2 DEF SetToSeqs
  <2>4. \A i, j \in 1 .. n : i < j => Beats(list[i], list[j])
    <3>1. SUFFICES ASSUME NEW i \in 1 .. n, NEW j \in 1 .. n, i < j,
                          ~Beats(list[i], list[j])
                   PROVE  FALSE
      OBVIOUS
    <3>2. list[i] # list[j] /\ list[i] \in board /\ list[j] \in board
      BY <1>6, <2>2, <3>1
    <3>3. place[list[j]] < place[list[i]]
      BY <1>3, <3>1, <3>2, BeatsOrders
    <3>4. QED
      BY <1>1, <1>6, <3>1, <3>3
  <2>5. QED
    BY <2>1, <2>3, <2>4 DEF InPlaces
<1> HIDE DEF list
<1>8. \E s \in SetToSeqs(board) :
        \A i, j \in DOMAIN s :
          i < j => LexLess(SortKey(s[i], Newest), SortKey(s[j], Newest))
  BY <1>7 DEF InPlaces, Beats
<1>9. QED
  BY <1>8 DEF InPlaces, Sorted, Beats

\* An entry's position in the list is one more than the entries that beat it.
LEMMA PlaceInList ==
  ASSUME NEW board, IsBoard(board), NEW list, InPlaces(list, board)
  PROVE  LET n == Cardinality(board) IN
         /\ n \in Nat
         /\ list \in Seq(board) /\ Len(list) = n /\ DOMAIN list = 1 .. n
         /\ \A i \in 1 .. n : list[i] \in board
         /\ \A e \in board : \E i \in 1 .. n : list[i] = e
         /\ \A i, j \in 1 .. n : list[i] = list[j] => i = j
         /\ \A i \in 1 .. n : /\ \A j \in 1 .. n : Beats(list[j], list[i]) <=> j < i
                              /\ Cardinality(Ahead(board, list[i])) = i - 1
<1> DEFINE n == Cardinality(board)
<1>1. n \in Nat /\ IsFiniteSet(board) /\ IsFiniteSet(1 .. n) /\ Cardinality(1 .. n) = n
  BY FS_CardinalityType, FS_Interval DEF IsBoard
<1>2. list \in [1 .. n -> board] /\ \A i, j \in 1 .. n : list[i] = list[j] => i = j
  BY DEF InPlaces, SetToSeqs
<1>3. list \in Seq(board) /\ Len(list) = n /\ DOMAIN list = 1 .. n
  BY <1>1, <1>2
<1>4. \A e \in board : \E i \in 1 .. n : list[i] = e
  <2>1. list \in Injection(1 .. n, board)
    BY <1>2 DEF Injection, IsInjective
  <2>2. list \in Surjection(1 .. n, board)
    BY <1>1, <2>1, FS_Injection
  <2>3. QED
    BY <2>2 DEF Surjection
<1>5. ASSUME NEW i \in 1 .. n
      PROVE  /\ \A j \in 1 .. n : Beats(list[j], list[i]) <=> j < i
             /\ Cardinality(Ahead(board, list[i])) = i - 1
  <2> DEFINE A == Ahead(board, list[i])
             m == i - 1
             g == [j \in 1 .. m |-> list[j]]
  <2>1. m \in Nat /\ 1 .. m \subseteq 1 .. n /\ \A j \in 1 .. n : j \in 1 .. m <=> j < i
    BY <1>1
  <2>2. \A j \in 1 .. n : Beats(list[j], list[i]) <=> j < i
    <3>1. SUFFICES ASSUME NEW j \in 1 .. n
                   PROVE  Beats(list[j], list[i]) <=> j < i
      OBVIOUS
    <3>2. list[i] \in board /\ list[j] \in board
      BY <1>2
    <3>3. /\ j < i => Beats(list[j], list[i])
          /\ i < j => Beats(list[i], list[j])
      BY <1>2 DEF InPlaces
    <3>4. j < i \/ i < j \/ i = j
      BY <1>1
    <3>5. QED
      BY <1>1, <3>2, <3>3, <3>4, BeatsOrders
  <2>3. A = {list[j] : j \in 1 .. m}
    BY <1>2, <1>4, <2>1, <2>2 DEF Ahead
  <2>4. g \in Bijection(1 .. m, A)
    <3> HIDE DEF A, m
    <3>1. g \in [1 .. m -> A]
      BY <2>3
    <3>2. \A j, k \in DOMAIN g : g[j] = g[k] => j = k
      BY <1>2, <2>1
    <3>3. \A a \in A : \E j \in 1 .. m : g[j] = a
      BY <2>3
    <3>4. QED
      BY <3>1, <3>2, <3>3 DEF Bijection, Injection, Surjection, IsInjective
  <2>5. Cardinality(A) = m
    BY <2>1, <2>4, FS_CountingElements DEF ExistsBijection
  <2>6. QED
    BY <2>2, <2>5
<1>6. QED
  BY <1>1, <1>2, <1>3, <1>4, <1>5

\* The walk of the crate over the list: an entry that ties with the one before
\* it shares its rank.
Shared(list, i) == i > 1 /\ Ties(list[i], list[i - 1])
IsRank(rank, list) ==
  rank = [i \in 1 .. Len(list) |-> IF Shared(list, i) THEN rank[i - 1] ELSE i]

\* Ranks is the walk, if there is a function that satisfies its recursion.
LEMMA RanksAreWalked ==
  ASSUME NEW board, \E rank : IsRank(rank, Sorted(board, Newest))
  PROVE  LET list == Sorted(board, Newest) IN
         \E rank : /\ IsRank(rank, list)
                   /\ Ranks(board, Newest) =
                        [i \in 1 .. Len(list) |-> [entry |-> list[i], rank |-> rank[i]]]
BY DEF Ranks, IsRank, Shared, Ties

Better(board, e) == {x \in board : Outdoes(x, e)}

\* The rank that the walk gives is one more than the entries that are better.
LEMMA RankIsPlace ==
  ASSUME NEW board, IsBoard(board), NEW list, InPlaces(list, board),
         NEW i \in 1 .. Cardinality(board)
  PROVE  /\ Shared(list, i) => Better(board, list[i]) = Better(board, list[i - 1])
         /\ ~Shared(list, i) => Cardinality(Better(board, list[i])) = i - 1
<1> DEFINE n == Cardinality(board)
<1>1. /\ n \in Nat /\ i \in Nat /\ 1 <= i /\ i <= n
      /\ \A j \in 1 .. n : list[j] \in board /\ list[j] \in Standing
      /\ board \subseteq Standing
      /\ DOMAIN list = 1 .. n
  BY PlaceInList DEF IsBoard
<1>2. CASE Shared(list, i)
  <2>1. i - 1 \in 1 .. n
    BY <1>1, <1>2 DEF Shared
  <2>2. \A x \in board : Outdoes(x, list[i]) <=> Outdoes(x, list[i - 1])
    <3>1. Ties(list[i], list[i - 1])
      BY <1>2 DEF Shared
    <3>2. QED
      BY <3>1 DEF Outdoes, Ties
  <2>3. QED
    BY <1>2, <2>2 DEF Better
<1>3. CASE ~Shared(list, i)
  <2>1. \A x \in board : Outdoes(x, list[i]) <=> Beats(x, list[i])
    <3>1. SUFFICES ASSUME NEW x \in board, Beats(x, list[i]), ~Outdoes(x, list[i])
                   PROVE  FALSE
      BY <1>1, KeyOrder
    <3>2. list[i] \in board /\ x \in Standing /\ list[i] \in Standing
      BY <1>1
    <3>3. Ties(x, list[i]) /\ x.user < list[i].user
      BY <3>1, <3>2, KeyOrder
    <3>4. /\ \E j \in 1 .. n : list[j] = x
          /\ \A j \in 1 .. n : Beats(list[j], list[i]) => j < i
      BY <1>1, PlaceInList
    <3>5. PICK j \in 1 .. i - 1 : x = list[j]
      BY <1>1, <3>1, <3>4
    <3>6. i > 1 /\ i - 1 \in 1 .. n /\ j \in 1 .. n /\ j <= i - 1
      BY <1>1, <3>5
    <3> DEFINE y == list[i - 1]
    <3>7. y \in board /\ y \in Standing
      BY <1>1, <3>6
    <3>8. y = x \/ Beats(x, y)
      <4>1. j = i - 1 \/ j < i - 1
        BY <1>1, <3>6
      <4>2. QED
        BY <1>1, <3>5, <3>6, <4>1 DEF InPlaces
    <3>9. Beats(y, list[i])
      <4>1. i - 1 < i
        BY <1>1
      <4>2. QED
        BY <1>1, <3>6, <4>1 DEF InPlaces
    <3> HIDE DEF y
    <3>10. /\ x.score \in Nat /\ x.at \in Nat /\ x.user \in Nat
           /\ y.score \in Nat /\ y.at \in Nat /\ y.user \in Nat
           /\ list[i].score \in Nat /\ list[i].at \in Nat /\ list[i].user \in Nat
      BY <3>2, <3>7 DEF Standing
    <3>11. Ties(list[i], y)
      <4>1. /\ y.score >= list[i].score
            /\ y.score = list[i].score => y.at <= list[i].at
        BY <3>2, <3>7, <3>9, <3>10, KeyOrder
      <4>2. x.score = list[i].score /\ x.at = list[i].at
        BY <3>2, <3>3, KeyOrder
      <4>3. /\ x.score >= y.score
            /\ x.score = y.score => x.at <= y.at
        BY <3>2, <3>7, <3>8, <3>10, KeyOrder
      <4>4. y.score = list[i].score /\ y.at = list[i].at
        BY <3>10, <4>1, <4>2, <4>3
      <4>5. QED
        BY <3>2, <3>7, <4>4, KeyOrder
    <3>12. QED
      BY <1>3, <3>6, <3>11 DEF Shared, y
  <2>2. Better(board, list[i]) = Ahead(board, list[i])
    BY <2>1 DEF Better, Ahead
  <2>3. QED
    BY <1>3, <2>2, PlaceInList
<1>4. QED
  BY <1>2, <1>3

\* For every board, the crate's place of an entry is one more than the entries that
\* are better, and the place on a page counts those that tie with a smaller id, too.
LEMMA PlacesOfBoard ==
  ASSUME NEW board, IsBoard(board)
  PROVE  LET page == Page(board, "highest", Cardinality(board)) IN
         /\ \A i \in DOMAIN page : page[i].rank = i
         /\ \A e \in board :
              /\ PositionOf(board, Newest, e) = 1 + Cardinality(Better(board, e))
              /\ RankExpr(board, e) =
                   PositionOf(board, Newest, e)
                     + Cardinality({f \in board : Ties(f, e) /\ f.user < e.user})
<1> DEFINE n == Cardinality(board)
           list == Sorted(board, Newest)
           page == Page(board, "highest", n)
<1>1. InPlaces(list, board)
  BY SortedList
<1> HIDE DEF list
<1>2. /\ n \in Nat /\ Len(list) = n /\ DOMAIN list = 1 .. n
      /\ \A i \in 1 .. n : list[i] \in board
      /\ \A e \in board : \E i \in 1 .. n : list[i] = e
      /\ \A i, j \in 1 .. n : list[i] = list[j] => i = j
      /\ \A i \in 1 .. n : Cardinality(Ahead(board, list[i])) = i - 1
  BY <1>1, PlaceInList
<1>3. \A e \in board : /\ IsFiniteSet(Ahead(board, e)) /\ IsFiniteSet(Better(board, e))
                       /\ Cardinality(Ahead(board, e)) \in Nat
                       /\ Cardinality(Better(board, e)) \in Nat
  BY FS_Subset, FS_CardinalityType DEF IsBoard, Ahead, Better
<1>4. \A e \in board : RankExpr(board, e) = 1 + Cardinality(Ahead(board, e))
  BY DEF RankExpr, Ahead, Beats
<1>5. ASSUME NEW i \in DOMAIN page
      PROVE  page[i].rank = i
  <2>1. page = [k \in 1 .. n |-> [entry |-> list[k], rank |-> RankExpr(board, list[k])]]
    BY <1>2 DEF Page, Newest, list
  <2> HIDE DEF page
  <2>2. i \in 1 .. n /\ page[i].rank = RankExpr(board, list[i])
    <3>1. DOMAIN page = 1 .. n
      BY <2>1
    <3>2. page[i] = [entry |-> list[i], rank |-> RankExpr(board, list[i])]
      BY <1>5, <2>1, <3>1
    <3>3. QED
      BY <1>5, <3>1, <3>2
  <2>3. list[i] \in board /\ Cardinality(Ahead(board, list[i])) = i - 1 /\ i \in Int
    BY <1>2, <2>2
  <2>4. QED
    BY <1>4, <2>2, <2>3
<1> DEFINE At(i) == 1 + Cardinality(Better(board, list[i]))
<1>6. \A i \in 1 .. n : /\ At(i) \in Nat
                        /\ Shared(list, i) => i - 1 \in 1 .. n /\ At(i) = At(i - 1)
                        /\ ~Shared(list, i) => At(i) = i
  <2>1. SUFFICES ASSUME NEW i \in 1 .. n
                 PROVE  /\ At(i) \in Nat
                        /\ Shared(list, i) => i - 1 \in 1 .. n /\ At(i) = At(i - 1)
                        /\ ~Shared(list, i) => At(i) = i
    OBVIOUS
  <2>2. At(i) \in Nat
    BY <1>2, <1>3
  <2>3. /\ Shared(list, i) => Better(board, list[i]) = Better(board, list[i - 1])
        /\ ~Shared(list, i) => Cardinality(Better(board, list[i])) = i - 1
    BY <1>1, RankIsPlace
  <2>4. Shared(list, i) => i - 1 \in 1 .. n
    BY <1>2 DEF Shared
  <2>5. i \in Int
    BY <1>2
  <2>6. QED
    BY <2>2, <2>3, <2>4, <2>5
<1> HIDE DEF At
<1>7. \E rank : IsRank(rank, list)
  <2> DEFINE rank == [i \in 1 .. n |-> At(i)]
  <2>1. \A i \in 1 .. n : rank[i] = IF Shared(list, i) THEN rank[i - 1] ELSE i
    BY <1>6
  <2>2. rank = [i \in 1 .. n |-> IF Shared(list, i) THEN rank[i - 1] ELSE i]
    BY <2>1
  <2>3. IsRank(rank, list)
    BY <1>2, <2>2 DEF IsRank
  <2>4. QED
    BY <2>3
<1>8. PICK rank : /\ IsRank(rank, list)
                  /\ Ranks(board, Newest) =
                       [i \in 1 .. n |-> [entry |-> list[i], rank |-> rank[i]]]
  BY <1>2, <1>7, RanksAreWalked DEF list
<1>9. \A i \in 1 .. n : rank[i] = At(i)
  <2> DEFINE S == {k \in Nat : k \in 1 .. n => rank[k] = At(k)}
  <2>1. \A i \in 1 .. n : rank[i] = IF Shared(list, i) THEN rank[i - 1] ELSE i
    BY <1>2, <1>8 DEF IsRank
  <2>2. 0 \in S
    OBVIOUS
  <2>3. \A k \in Nat : k \in S => k + 1 \in S
    <3>1. SUFFICES ASSUME NEW k \in Nat, k \in S, k + 1 \in 1 .. n
                   PROVE  rank[k + 1] = At(k + 1)
      OBVIOUS
    <3>2. (k + 1) - 1 = k
      OBVIOUS
    <3>3. CASE Shared(list, k + 1)
      BY <1>6, <2>1, <3>1, <3>2, <3>3
    <3>4. CASE ~Shared(list, k + 1)
      BY <1>6, <2>1, <3>1, <3>4
    <3>5. QED
      BY <3>3, <3>4
  <2> HIDE DEF S
  <2>4. Nat \subseteq S
    BY <2>2, <2>3, InductionOnNat
  <2>5. QED
    BY <1>2, <2>4 DEF S
<1>10. ASSUME NEW e \in board
       PROVE  PositionOf(board, Newest, e) = 1 + Cardinality(Better(board, e))
  <2> DEFINE ranks == Ranks(board, Newest)
             k == CHOOSE i \in DOMAIN ranks : ranks[i].entry = e
  <2>1. /\ DOMAIN ranks = 1 .. n
        /\ \A i \in 1 .. n : ranks[i].entry = list[i] /\ ranks[i].rank = rank[i]
    BY <1>8
  <2>2. PositionOf(board, Newest, e) = ranks[k].rank
    BY DEF PositionOf
  <2> HIDE DEF ranks
  <2>3. k \in 1 .. n /\ list[k] = e
    BY <1>2, <2>1
  <2>4. QED
    BY <1>9, <2>1, <2>2, <2>3 DEF At
<1>11. ASSUME NEW e \in board
       PROVE  RankExpr(board, e) =
                PositionOf(board, Newest, e)
                  + Cardinality({f \in board : Ties(f, e) /\ f.user < e.user})
  <2> DEFINE T == {f \in board : Ties(f, e) /\ f.user < e.user}
             A == Ahead(board, e)
             B == Better(board, e)
  <2>1. \A f \in board : /\ Beats(f, e) <=> Outdoes(f, e) \/ (Ties(f, e) /\ f.user < e.user)
                         /\ ~(Outdoes(f, e) /\ Ties(f, e))
    <3>1. SUFFICES ASSUME NEW f \in board
                   PROVE  /\ Beats(f, e) <=> Outdoes(f, e) \/ (Ties(f, e) /\ f.user < e.user)
                          /\ ~(Outdoes(f, e) /\ Ties(f, e))
      OBVIOUS
    <3>2. e \in Standing /\ f \in Standing
      BY DEF IsBoard
    <3>3. e.score \in Nat /\ f.score \in Nat /\ e.at \in Nat /\ f.at \in Nat
      BY <3>2 DEF Standing
    <3>4. QED
      BY <3>2, <3>3, KeyOrder
  <2>2. A = B \union T /\ B \intersect T = {}
    BY <2>1 DEF Ahead, Better
  <2>3. IsFiniteSet(B) /\ IsFiniteSet(T) /\ Cardinality(B) \in Nat /\ Cardinality(T) \in Nat
    BY FS_Subset, FS_CardinalityType DEF IsBoard, Better
  <2> HIDE DEF T, A, B
  <2>4. Cardinality(A) = Cardinality(B) + Cardinality(T)
    <3>1. Cardinality(B \union T) = Cardinality(B) + Cardinality(T) - Cardinality(B \intersect T)
      BY <2>3, FS_Union
    <3>2. Cardinality(B \intersect T) = 0
      BY <2>2, FS_EmptySet
    <3>3. QED
      BY <2>2, <2>3, <3>1, <3>2
  <2>5. RankExpr(board, e) = 1 + Cardinality(A)
    BY <1>4 DEF A
  <2>6. PositionOf(board, Newest, e) = 1 + Cardinality(B)
    BY <1>10 DEF B
  <2>7. RankExpr(board, e) = PositionOf(board, Newest, e) + Cardinality(T)
    BY <2>3, <2>4, <2>5, <2>6
  <2>8. QED
    BY <2>7 DEF T
<1>12. QED
  BY <1>5, <1>10, <1>11

\* What events and merges leave is such a board.
LEMMA BoardIsBoard ==
  ASSUME MergeTypeOK
  PROVE  IsBoard(Board)
<1> DEFINE U == {v \in Users : db[<<"leaderboard_entries", v>>] # None}
           StandingOf(u) == [user |-> u, score |-> BoardOf(db, u).score, at |-> BoardOf(db, u).at]
           f == [u \in U |-> StandingOf(u)]
<1>1. IsFiniteSet(U) /\ Users \subseteq Nat
  BY MergeAssumption, FS_Subset
<1>2. Board = {StandingOf(u) : u \in U}
  BY DEF Board
<1>3. \A u \in U : StandingOf(u) \in Standing /\ StandingOf(u).user = u
  <2>1. SUFFICES ASSUME NEW u \in U
                 PROVE  StandingOf(u) \in Standing /\ StandingOf(u).user = u
    OBVIOUS
  <2>2. BoardOf(db, u) \in Score
    <3>1. u \in Users /\ <<"leaderboard_entries", u>> \in Row
      BY <2>1, UserRows DEF StateTables
    <3>2. QED
      BY <2>1, <3>1 DEF BoardOf, MergeTypeOK, Values
  <2>3. BoardOf(db, u).score \in Nat /\ BoardOf(db, u).at \in Nat /\ u \in Nat
    BY <1>1, <2>1, <2>2 DEF Score
  <2>4. QED
    BY <2>3 DEF Standing
<1> HIDE DEF U, StandingOf
<1>4. IsFiniteSet(Board)
  <2>1. f \in Surjection(U, Board)
    BY <1>2 DEF Surjection
  <2>2. QED
    BY <1>1, <2>1, FS_Surjection
<1>5. \A e, g \in Board : e.user = g.user => e = g
  BY <1>2, <1>3
<1>6. QED
  BY <1>2, <1>3, <1>4, <1>5 DEF IsBoard

\* A page lists places 1, 2, 3, ..., and the places of the SQL are those of the
\* crate and the ties before, on every board (GetLeaderboard, rank, position_of).
THEOREM PlacesAreAgreed == MergeSpec => []PlacesAgree
<1>1. MergeTypeOK => PlacesAgree
  BY BoardIsBoard, PlacesOfBoard DEF PlacesAgree, Better, Outdoes, Ties
<1>2. QED
  BY <1>1, MergeTypes, PTL
=============================================================================
