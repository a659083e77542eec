----------------------------- MODULE WalletProofs -----------------------------
(***************************************************************************)
(* What holds of a wallet for any number of calls, entries and             *)
(* connections: a reference is applied once (OneEntryPerKey), the commands *)
(* of an event are applied all or none (AllEntriesOrNone), and a call that *)
(* met no other one leaves the ledger's sum (LoneWriterHeals).             *)
(*                                                                         *)
(* The first two are not inductive, because rows reach the ledger from     *)
(* open transactions.  The invariant says of those rows what the           *)
(* properties say of the ledger: no two of them, nor one and a committed   *)
(* one, have the same key, and the commands before a call's next one are   *)
(* there.  The last one needs, too, what a call knows between its          *)
(* statements (Judged).                                                    *)
(***************************************************************************)
EXTENDS Wallet, FiniteSetTheorems, WellFoundedInduction, TLAPS

\* The part of TypeOK that does not speak of sums.
Typed ==
  /\ ledger \subseteq Rows
  /\ pc \in [Txns -> Steps]
  /\ next \in [Txns -> Nat \ {0}]
  /\ \A t \in Txns : /\ next[t] \in DOMAIN Entries[t]
                     /\ pc[t] = "waiting" => next[t] = 1
  /\ own \in [Txns -> SUBSET Rows]
  /\ \A t \in Txns : \A r \in own[t] : r.tx = t

\* An uncommitted row has a key of its own.
OwnKeys ==
  /\ \A t \in Txns : \A r \in own[t], s \in ledger \union own[t] : r.key = s.key => r = s
  /\ \A t, x \in Txns : \A r \in own[t], s \in own[x] : r.key = s.key => t = x

\* The commands of an open call that have run, the one it works on included
\* once its row is inserted.
Applied(t) ==
  {i \in DOMAIN Entries[t] :
     \/ i < next[t]
     \/ i = next[t] /\ pc[t] \in {"select", "upsert", "commit"}}

AppliedAreThere ==
  \A t \in Open :
    /\ \A i \in Applied(t) : Entries[t][i].key \in KeysOf(ledger \union own[t])
    /\ pc[t] = "commit" => next[t] = Len(Entries[t])

IInv ==
  /\ Typed
  /\ OwnKeys
  /\ OneEntryPerKey
  /\ AppliedAreThere
  /\ AllEntriesOrNone

LEMMA Initially ==
  Init => IInv
<1>1. SUFFICES ASSUME Init PROVE IInv
  OBVIOUS
<1>2. \A t \in Txns : 1 \in DOMAIN Entries[t]
  BY WalletAssumption
<1>3. Typed
  BY <1>1, <1>2 DEF Init, Typed, Steps
<1>4. OwnKeys /\ OneEntryPerKey /\ AllEntriesOrNone
  BY <1>1 DEF Init, OwnKeys, OneEntryPerKey, AllEntriesOrNone
<1>5. AppliedAreThere
  BY <1>1 DEF Init, AppliedAreThere, Open, Running
<1>6. QED
  BY <1>3, <1>4, <1>5 DEF IInv

\* What the properties say stays true while no row is inserted or committed: a
\* call's rows stay as they are or, when it is closed, go.
LEMMA RowsKept ==
  ASSUME IInv, ledger' = ledger, \A t \in Txns : own'[t] = own[t] \/ own'[t] = {}
  PROVE  OwnKeys' /\ OneEntryPerKey' /\ AllEntriesOrNone'
BY DEF IInv, OwnKeys, OneEntryPerKey, AllEntriesOrNone, KeysOf

\* A call that ends without committing.
LEMMA ClosedKeeps ==
  ASSUME IInv, NEW t \in Txns, NEW how \in {"done", "duplicate", "refused", "lost"}, Close(t, how),
         ledger' = ledger, next' = next
  PROVE  IInv'
<1>1. Typed'
  BY DEF IInv, Typed, Close, Steps
<1>2. \A x \in Txns : own'[x] = own[x] \/ own'[x] = {}
  BY DEF IInv, Typed, Close
<1>3. AppliedAreThere'
  <2>1. SUFFICES ASSUME NEW x \in Open'
                 PROVE  /\ x \in Open /\ pc'[x] = pc[x] /\ own'[x] = own[x]
    BY DEF IInv, AppliedAreThere, Applied, KeysOf
  <2>2. x # t
    BY DEF IInv, Typed, Close, Open, Running
  <2>3. QED
    BY <2>2 DEF IInv, Typed, Close, Open
<1>4. QED
  BY <1>1, <1>2, <1>3, RowsKept DEF IInv

\* A call that goes on to its next command, or to its commit.
LEMMA GoneOnKeeps ==
  ASSUME IInv, NEW t \in Open, GoOn(t), ledger' = ledger, own' = own,
         Entry(t).key \in KeysOf(ledger \union own[t])
  PROVE  IInv'
<1>1. /\ t \in Txns
      /\ next[t] \in DOMAIN Entries[t]
      /\ Entries[t] \in Seq([key : Keys, amount : Int])
  BY WalletAssumption DEF IInv, Typed, Open
<1>2. Typed'
  <2>1. /\ pc \in [Txns -> Steps] /\ next \in [Txns -> Nat \ {0}]
        /\ \A x \in Txns : next[x] \in DOMAIN Entries[x]
    BY DEF IInv, Typed
  <2>2. DOMAIN Entries[t] = 1 .. Len(Entries[t]) /\ Len(Entries[t]) \in Nat
    BY <1>1
  <2>3. CASE next[t] < Len(Entries[t])
    <3>1. next' = [next EXCEPT ![t] = @ + 1] /\ pc' = [pc EXCEPT ![t] = "insert"]
      BY <2>3 DEF GoOn
    <3>2. next[t] + 1 \in DOMAIN Entries[t] /\ next[t] + 1 \in Nat \ {0}
      BY <1>1, <2>1, <2>2, <2>3
    <3>3. QED
      BY <1>1, <2>1, <3>1, <3>2 DEF IInv, Typed, Steps, Running
  <2>4. CASE ~(next[t] < Len(Entries[t]))
    BY <1>1, <2>1, <2>4 DEF IInv, Typed, GoOn, Steps, Running
  <2>5. QED
    BY <2>3, <2>4
<1>3. AppliedAreThere'
  <2>1. SUFFICES ASSUME NEW x \in Open'
                 PROVE  /\ \A i \in Applied(x)' :
                             Entries[x][i].key \in KeysOf(ledger \union own[x])
                        /\ pc'[x] = "commit" => next'[x] = Len(Entries[x])
    BY DEF AppliedAreThere, KeysOf
  <2>2. CASE x = t
    <3>1. \A i \in Applied(t)' : i \in Applied(t) \/ i = next[t]
      BY <1>1 DEF IInv, Typed, GoOn, Applied
    <3>2. pc'[t] = "commit" => next'[t] = Len(Entries[t])
      BY <1>1 DEF IInv, Typed, GoOn
    <3>3. QED
      BY <2>2, <3>1, <3>2 DEF IInv, AppliedAreThere, Entry
  <2>3. CASE x # t
    <3>1. x \in Open /\ pc'[x] = pc[x] /\ next'[x] = next[x]
      BY <2>3 DEF IInv, Typed, GoOn, Open
    <3>2. QED
      BY <3>1 DEF IInv, AppliedAreThere, Applied
  <2>4. QED
    BY <2>2, <2>3
<1>4. QED
  BY <1>2, <1>3, RowsKept DEF IInv

\* An open call that moves to a step for which nothing more has to be there.
LEMMA MovedKeeps ==
  ASSUME IInv, NEW t \in Txns, t \in Open, NEW step \in {"upsert", "report"},
         pc' = [pc EXCEPT ![t] = step], step = "report" \/ pc[t] = "select",
         ledger' = ledger, own' = own, next' = next
  PROVE  IInv'
<1>1. Typed'
  BY DEF IInv, Typed, Steps, Running
<1>2. AppliedAreThere'
  <2>1. SUFFICES ASSUME NEW x \in Open'
                 PROVE  /\ x \in Open
                        /\ Applied(x)' \subseteq Applied(x)
                        /\ pc'[x] = "commit" => pc[x] = "commit"
    BY DEF IInv, AppliedAreThere, KeysOf
  <2>2. QED
    BY DEF IInv, Typed, Open, Applied
<1>3. QED
  BY <1>1, <1>2, RowsKept DEF IInv

LEMMA BeginKeeps ==
  ASSUME IInv, NEW t \in Txns, Begin(t)
  PROVE  IInv'
<1>1. Typed'
  BY DEF IInv, Typed, Begin, Steps, Running
<1>2. AppliedAreThere'
  <2>1. SUFFICES ASSUME NEW x \in Open'
                 PROVE  /\ \A i \in Applied(x)' :
                             Entries[x][i].key \in KeysOf(ledger \union own[x])
                        /\ pc'[x] # "commit" \/ next[x] = Len(Entries[x])
    BY DEF AppliedAreThere, KeysOf, Begin
  <2>2. CASE x = t
    <3>1. pc'[t] = "insert" /\ next'[t] = 1
      BY DEF IInv, Typed, Begin
    <3>2. \A i \in DOMAIN Entries[t] : ~(i < 1)
      BY WalletAssumption
    <3>3. Applied(t)' = {}
      BY <3>1, <3>2 DEF Applied
    <3>4. QED
      BY <2>2, <3>1, <3>3
  <2>3. CASE x # t
    <3>1. x \in Open /\ pc'[x] = pc[x] /\ next' = next
      BY <2>3 DEF IInv, Typed, Begin, Open
    <3>2. QED
      BY <3>1 DEF IInv, AppliedAreThere, Applied
  <2>4. QED
    BY <2>2, <2>3
<1>3. QED
  BY <1>1, <1>2, RowsKept DEF IInv, Begin

LEMMA InsertKeeps ==
  ASSUME IInv, NEW t \in Txns, InsertEntry(t)
  PROVE  IInv'
<1>1. /\ pc[t] = "insert" /\ t \in Open
      /\ next[t] \in DOMAIN Entries[t] /\ ledger' = ledger
  BY DEF IInv, Typed, InsertEntry, Open, Running
<1>2. CASE Entry(t).key \notin Taken(t)
  <2> DEFINE row == [tx |-> t, key |-> Entry(t).key, amount |-> Entry(t).amount]
  <2>1. /\ own' = [own EXCEPT ![t] = @ \union {row}]
        /\ next' = next
        /\ pc' \in {[pc EXCEPT ![t] = "upsert"], [pc EXCEPT ![t] = "select"]}
    BY <1>2 DEF InsertEntry
  <2>2. row \in Rows
    BY <1>1, WalletAssumption DEF Entry, Rows, Keys, Amounts
  <2>3. /\ \A r \in ledger \union own[t] : r.key # row.key
        /\ \A x \in Txns \ {t} : \A r \in own[x] : r.key # row.key
    BY <1>2 DEF Taken, KeysOf, InsertEntry
  <2>4. /\ own'[t] = own[t] \union {row}
        /\ \A x \in Txns \ {t} : own'[x] = own[x]
    BY <2>1 DEF IInv, Typed
  <2>5. Typed'
    BY <1>1, <2>1, <2>2 DEF IInv, Typed, Steps, Running
  <2>6. OwnKeys'
    BY <1>1, <2>3, <2>4 DEF IInv, OwnKeys
  <2>7. AppliedAreThere'
    <3>1. SUFFICES ASSUME NEW x \in Open'
                   PROVE  /\ \A i \in Applied(x)' :
                               Entries[x][i].key \in KeysOf(ledger \union own[x])'
                          /\ pc'[x] = "commit" => next[x] = Len(Entries[x])
      BY <2>1 DEF AppliedAreThere
    <3>2. CASE x = t
      <4>1. \A i \in Applied(t)' : i \in Applied(t) \/ i = next[t]
        BY <2>1 DEF Applied
      <4>2. row \in own'[t] /\ row.key = Entries[t][next[t]].key
        BY <2>4 DEF Entry
      <4>3. \A k \in KeysOf(ledger \union own[t]) : k \in KeysOf(ledger \union own[t])'
        BY <1>1, <2>4 DEF KeysOf
      <4>4. pc'[t] # "commit"
        BY <2>1 DEF IInv, Typed
      <4>5. QED
        BY <1>1, <3>2, <4>1, <4>2, <4>3, <4>4 DEF IInv, AppliedAreThere, KeysOf
    <3>3. CASE x # t
      BY <1>1, <2>1, <2>4, <3>3 DEF IInv, Typed, AppliedAreThere, Applied, Open, KeysOf
    <3>4. QED
      BY <3>2, <3>3
  <2>8. OneEntryPerKey' /\ AllEntriesOrNone'
    BY <1>1 DEF IInv, OneEntryPerKey, AllEntriesOrNone, KeysOf
  <2>9. QED
    BY <2>5, <2>6, <2>7, <2>8 DEF IInv
<1>3. CASE Entry(t).key \in Taken(t)
  <2>1. CASE Kind[t] = "command"
    <3>1. GoOn(t) /\ own' = own
      BY <1>3, <2>1 DEF InsertEntry
    <3>2. QED
      BY <1>1, <1>3, <3>1, GoneOnKeeps DEF Taken
  <2>2. CASE Kind[t] = "purchase"
    <3>1. Close(t, "duplicate") /\ next' = next
      BY <1>3, <2>2 DEF InsertEntry
    <3>2. QED
      BY <1>1, <3>1, ClosedKeeps
  <2>3. CASE Kind[t] \notin {"command", "purchase"}
    <3>1. pc' = [pc EXCEPT ![t] = "report"] /\ own' = own /\ next' = next
      BY <1>3, <2>3 DEF InsertEntry
    <3>2. QED
      BY <1>1, <3>1, MovedKeeps
  <2>4. QED
    BY <2>1, <2>2, <2>3
<1>4. QED
  BY <1>2, <1>3

LEMMA SelectKeeps ==
  ASSUME IInv, NEW t \in Txns, SelectSum(t)
  PROVE  IInv'
<1>1. pc[t] = "select" /\ t \in Open /\ ledger' = ledger
  BY DEF SelectSum, Open, Running
<1>2. CASE Refused(t, Balance(ledger \union own[t]))
  <2>1. Close(t, "refused") /\ next' = next
    BY <1>2 DEF SelectSum, Refuse
  <2>2. QED
    BY <1>1, <2>1, ClosedKeeps
<1>3. CASE ~Refused(t, Balance(ledger \union own[t]))
  <2>1. pc' = [pc EXCEPT ![t] = "upsert"] /\ own' = own /\ next' = next
    BY <1>3 DEF SelectSum
  <2>2. QED
    BY <1>1, <2>1, MovedKeeps
<1>4. QED
  BY <1>2, <1>3

LEMMA UpsertKeeps ==
  ASSUME IInv, NEW t \in Txns, UpsertWallet(t)
  PROVE  IInv'
<1>1. pc[t] = "upsert" /\ t \in Open
  BY DEF UpsertWallet, Open, Running
<1>2. next[t] \in Applied(t)
  BY <1>1 DEF IInv, Typed, Applied
<1>3. Entry(t).key \in KeysOf(ledger \union own[t])
  BY <1>1, <1>2 DEF IInv, AppliedAreThere, Entry
<1>4. GoOn(t) /\ ledger' = ledger /\ own' = own
  BY DEF UpsertWallet
<1>5. QED
  BY <1>1, <1>3, <1>4, GoneOnKeeps

LEMMA CommitKeeps ==
  ASSUME IInv, NEW t \in Txns, Commit(t)
  PROVE  IInv'
<1>1. /\ pc[t] = "commit" /\ t \in Open
      /\ ledger' = ledger \union own[t]
      /\ next' = next
      /\ pc' = [pc EXCEPT ![t] = "done"]
      /\ own' = [own EXCEPT ![t] = {}]
  BY DEF Commit, Close, Open, Running
<1>2. /\ own'[t] = {} /\ pc'[t] = "done"
      /\ \A x \in Txns \ {t} : own'[x] = own[x] /\ pc'[x] = pc[x]
  BY <1>1 DEF IInv, Typed
<1>3. Typed'
  BY <1>1, <1>2 DEF IInv, Typed, Steps
<1>4. OneEntryPerKey'
  BY <1>1 DEF IInv, OwnKeys, OneEntryPerKey
<1>5. OwnKeys'
  BY <1>1, <1>2 DEF IInv, OwnKeys
<1>6. AllEntriesOrNone'
  <2>1. SUFFICES ASSUME NEW r \in ledger', NEW i \in DOMAIN Entries[r.tx]
                 PROVE  Entries[r.tx][i].key \in KeysOf(ledger')
    BY DEF AllEntriesOrNone, KeysOf
  <2>2. CASE r \in ledger
    BY <1>1, <2>2 DEF IInv, AllEntriesOrNone, KeysOf
  <2>3. CASE r \in own[t]
    <3>1. r.tx = t
      BY <2>3 DEF IInv, Typed
    <3>2. DOMAIN Entries[t] = 1 .. Len(Entries[t]) /\ Len(Entries[t]) \in Nat
      BY WalletAssumption
    <3>3. i \in Applied(t)
      <4>1. next[t] = Len(Entries[t])
        BY <1>1 DEF IInv, AppliedAreThere
      <4>2. QED
        BY <1>1, <3>1, <3>2, <4>1 DEF Applied
    <3>4. QED
      BY <1>1, <3>1, <3>3 DEF IInv, AppliedAreThere
  <2>4. QED
    BY <1>1, <2>2, <2>3
<1>7. AppliedAreThere'
  <2>1. SUFFICES ASSUME NEW x \in Open'
                 PROVE  /\ x \in Open \ {t} /\ x \in Txns
                        /\ Applied(x)' = Applied(x)
                        /\ KeysOf(ledger \union own[x]) \subseteq KeysOf(ledger \union own[x])'
    BY <1>1, <1>2 DEF IInv, AppliedAreThere
  <2>2. x \in Txns /\ x # t
    BY <1>2 DEF Open, Running
  <2>3. QED
    BY <1>1, <1>2, <2>2 DEF Open, Applied, KeysOf
<1>8. QED
  BY <1>3, <1>4, <1>5, <1>6, <1>7 DEF IInv

LEMMA StepKeeps ==
  ASSUME IInv, [Next]_vars
  PROVE  IInv'
<1>1. ASSUME NEW t \in Txns, Begin(t) PROVE IInv'
  BY <1>1, BeginKeeps
<1>2. ASSUME NEW t \in Txns, Advance(t) PROVE IInv'
  <2>1. CASE Report(t)
    BY <2>1, ClosedKeeps DEF Report
  <2>2. QED
    BY <1>2, <2>1, InsertKeeps, SelectKeeps, UpsertKeeps, CommitKeeps DEF Advance
<1>3. ASSUME NEW t \in Txns, Lose(t) PROVE IInv'
  BY <1>3, ClosedKeeps DEF Lose
<1>4. CASE UNCHANGED vars
  BY <1>4 DEF vars, IInv, Typed, OwnKeys, OneEntryPerKey, AppliedAreThere, Applied,
              AllEntriesOrNone, KeysOf, Open
<1>5. QED
  BY <1>1, <1>2, <1>3, <1>4 DEF Next

LEMMA InvariantHolds ==
  Spec => []IInv
BY Initially, StepKeeps, PTL DEF Spec

\* A reference is applied once, however many calls carry it and however they
\* interleave, fail and are retried (the unique constraint of ledger_entries).
THEOREM ReferencesOnce ==
  Spec => []OneEntryPerKey
BY InvariantHolds, PTL DEF IInv

\* The currency commands of an event are applied all or none, whatever other
\* calls do and wherever the call is lost or refused (applyOutcome's rollback).
THEOREM EventsWhole ==
  Spec => []AllEntriesOrNone
BY InvariantHolds, PTL DEF IInv
-----------------------------------------------------------------------------
(* Sums.                                                                   *)

\* Induction, on a set of numbers: the rule of NaturalsInduction takes an operator.
LEMMA InductionOnNat ==
  ASSUME NEW S, 0 \in S, \A n \in Nat : n \in S => n + 1 \in S
  PROVE  Nat \subseteq S
<1> DEFINE R == OpToRel(<, Nat)
           T == Nat \ S
<1>1. SUFFICES ASSUME T # {} PROVE FALSE
  OBVIOUS
<1>2. IsWellFoundedOn(R, Nat)
  BY NatLessThanWellFounded DEF OpToRel
<1>3. T \subseteq Nat
  OBVIOUS
<1>4. \A x, y \in Nat : <<y, x>> \in R <=> y < x
  BY DEF OpToRel
<1> HIDE DEF R, T
<1>5. PICK x \in T : \A y \in T : ~(<<y, x>> \in R)
  BY <1>1, <1>2, <1>3, WFMin
<1>6. x \in Nat /\ x \notin S /\ x # 0
  BY <1>5 DEF T
<1>7. x - 1 \in Nat /\ x - 1 < x /\ (x - 1) + 1 = x
  BY <1>6
<1>8. x - 1 \in S
  BY <1>4, <1>5, <1>6, <1>7 DEF T
<1>9. QED
  BY <1>6, <1>7, <1>8

\* The row that a sum takes first.
Pick(s) == CHOOSE r \in s : TRUE

\* The function that Balance folds with, on the subsets of U.
IsSum(g, U) ==
  g = [s \in SUBSET U |-> IF s = {} THEN 0 ELSE Pick(s).amount + g[s \ {Pick(s)}]]

LEMMA SumExists ==
  ASSUME NEW U, IsFiniteSet(U), \A r \in U : r.amount \in Int
  PROVE  \E g \in [SUBSET U -> Int] : IsSum(g, U)
<1> DEFINE Part(h, s) == IF s = {} THEN 0 ELSE Pick(s).amount + h[s \ {Pick(s)}]
           Upto(n) == {s \in SUBSET U : Cardinality(s) <= n}
           S == {n \in Nat : \E h \in [Upto(n) -> Int] : \A s \in Upto(n) : h[s] = Part(h, s)}
<1>1. \A s \in SUBSET U : /\ IsFiniteSet(s) /\ Cardinality(s) \in Nat
                          /\ Cardinality(s) <= Cardinality(U)
                          /\ Cardinality(s) = 0 <=> s = {}
  BY FS_Subset, FS_CardinalityType, FS_EmptySet
<1>2. \A s \in SUBSET U : s # {} => /\ Pick(s) \in s
                                    /\ s \ {Pick(s)} \in SUBSET U
                                    /\ Cardinality(s \ {Pick(s)}) = Cardinality(s) - 1
  BY <1>1, FS_RemoveElement DEF Pick
<1>3. 0 \in S
  <2> DEFINE h == [s \in Upto(0) |-> 0]
  <2>1. \A s \in Upto(0) : s = {}
    BY <1>1
  <2>2. h \in [Upto(0) -> Int] /\ \A s \in Upto(0) : h[s] = Part(h, s)
    BY <2>1
  <2>3. QED
    BY <2>2
<1>4. ASSUME NEW n \in Nat, n \in S PROVE n + 1 \in S
  <2>1. PICK h \in [Upto(n) -> Int] : \A s \in Upto(n) : h[s] = Part(h, s)
    BY <1>4
  <2> DEFINE k == [s \in Upto(n + 1) |-> Part(h, s)]
  <2>2. Upto(n) \subseteq Upto(n + 1)
    BY <1>1
  <2>3. \A s \in Upto(n + 1) : s # {} => s \ {Pick(s)} \in Upto(n)
    BY <1>1, <1>2
  <2>4. \A s \in Upto(n) : k[s] = h[s]
    BY <2>1, <2>2
  <2>5. \A s \in Upto(n + 1) : Part(h, s) \in Int
    BY <1>2, <2>3
  <2>6. k \in [Upto(n + 1) -> Int]
    BY <2>5
  <2>7. \A s \in Upto(n + 1) : k[s] = Part(k, s)
    BY <2>3, <2>4
  <2> HIDE DEF k, Part, Upto
  <2>8. QED
    BY <2>6, <2>7
<1>5. Cardinality(U) \in S
  <2>1. Nat \subseteq S
    <3> HIDE DEF S
    <3>1. QED
      BY <1>3, <1>4, InductionOnNat
  <2>2. QED
    BY <2>1, FS_CardinalityType
<1>6. PICK h \in [Upto(Cardinality(U)) -> Int] :
        \A s \in Upto(Cardinality(U)) : h[s] = Part(h, s)
  BY <1>5
<1>7. Upto(Cardinality(U)) = SUBSET U
  BY <1>1
<1>8. QED
  BY <1>6, <1>7 DEF IsSum

\* A balance is a number.
LEMMA BalanceTyped ==
  ASSUME NEW U, IsFiniteSet(U), \A r \in U : r.amount \in Int
  PROVE  Balance(U) \in Int
<1>1. \E g : IsSum(g, U)
  BY SumExists
<1>2. PICK g : IsSum(g, U) /\ Balance(U) = g[U]
  BY <1>1 DEF Balance, MapThenSumSet, MapThenFoldSet, IsSum, Pick
<1> DEFINE S == {n \in Nat : \A s \in SUBSET U : Cardinality(s) = n => g[s] \in Int}
<1>3. \A s \in SUBSET U : /\ IsFiniteSet(s) /\ Cardinality(s) \in Nat
                          /\ Cardinality(s) = 0 <=> s = {}
  BY FS_Subset, FS_CardinalityType, FS_EmptySet
<1>4. \A s \in SUBSET U : \A x \in s :
        s \ {x} \in SUBSET U /\ Cardinality(s \ {x}) = Cardinality(s) - 1
  BY <1>3, FS_RemoveElement
<1>5. /\ g[{}] = 0
      /\ \A s \in SUBSET U : s # {} => \E x \in s : g[s] = x.amount + g[s \ {x}]
  BY <1>2 DEF IsSum, Pick
<1>6. 0 \in S
  <2>1. \A s \in SUBSET U : Cardinality(s) = 0 => g[s] = 0
    BY <1>3, <1>5
  <2>2. QED
    BY <2>1
<1>7. ASSUME NEW n \in Nat, n \in S PROVE n + 1 \in S
  <2>1. SUFFICES ASSUME NEW s \in SUBSET U, Cardinality(s) = n + 1 PROVE g[s] \in Int
    OBVIOUS
  <2>2. s # {}
    BY <1>3, <2>1
  <2>3. PICK y \in s : g[s] = y.amount + g[s \ {y}]
    BY <1>5, <2>2
  <2>4. g[s \ {y}] \in Int /\ y.amount \in Int
    BY <1>4, <1>7, <2>1
  <2>5. QED
    BY <2>3, <2>4
<1>8. Nat \subseteq S
  <2> HIDE DEF S
  <2>1. QED
    BY <1>6, <1>7, InductionOnNat
<1>9. QED
  BY <1>2, <1>3, <1>8
-----------------------------------------------------------------------------
(* A writer with no other one.                                             *)

\* The commands that have been judged, or skipped as already applied.
Past(t) ==
  {i \in DOMAIN Entries[t] : i < next[t] \/ (i = next[t] /\ pc[t] \in {"upsert", "commit"})}

\* The rows of a call are those of commands that have run, and go when it ends.
OwnRows ==
  \A t \in Txns :
    \A r \in own[t] : /\ t \in Open
                      /\ \E i \in Applied(t) : Entries[t][i].key = r.key

\* A call that has met no other one is the only open one.
Alone == \A t \in Open \ overlapped : \A x \in Open : x = t

Allowed(t) == ~Refused(t, Balance(ledger \union own[t]))

\* What a call with no other one knows is what the tables hold: the sum it read,
\* until it is written, and the balance it wrote, until its next row.
Judged(t) ==
  /\ pc[t] = "upsert" =>
       sum[t] = Balance(ledger \union own[t]) /\ Allowed(t)
  /\ pc[t] \in {"insert", "commit"} /\ own[t] # {} =>
       /\ walletLock = t
       /\ written[t] = Balance(ledger \union own[t])
       /\ Allowed(t)
  /\ Kind[t] = "command" =>
       \A n \in Past(t) :
         Entries[t][n].key \in KeysOf(own[t]) => WithinPolicy(Balance(LedgerAfter(t, n)))

Finite == IsFiniteSet(ledger) /\ \A t \in Txns : IsFiniteSet(own[t])

LInv ==
  /\ TypeOK
  /\ Finite
  /\ OwnRows
  /\ Alone
  /\ \A t \in Open \ overlapped : Kind[t] # "purchase" => Judged(t)

LEMMA EntryOfSequence ==
  ASSUME NEW S, NEW s \in Seq(S), NEW i \in DOMAIN s
  PROVE  s[i] \in S
OBVIOUS

LEMMA AmountsAreNumbers ==
  \A a \in Amounts : a \in Int
<1>1. ASSUME NEW x \in Txns, NEW i \in DOMAIN Entries[x]
      PROVE  Entries[x][i].amount \in Int
  <2>1. Entries[x] \in Seq([key : Keys, amount : Int])
    BY WalletAssumption
  <2>2. Entries[x][i] \in [key : Keys, amount : Int]
    BY <1>1, <2>1, EntryOfSequence
  <2>3. QED
    BY <2>2
<1>2. QED
  BY <1>1 DEF Amounts

\* The amounts are numbers, so every balance is one.
LEMMA BalancesAreNumbers ==
  ASSUME IInv, Finite, NEW t \in Txns
  PROVE  Balance(ledger \union own[t]) \in Int
<1>1. IsFiniteSet(ledger \union own[t])
  BY FS_Union DEF Finite
<1>2. \A r \in ledger \union own[t] : r.amount \in Int
  BY AmountsAreNumbers DEF IInv, Typed, Rows
<1>3. QED
  BY <1>1, <1>2, BalanceTyped

LEMMA LoneInitially ==
  Init => LInv
BY FS_EmptySet DEF Init, LInv, TypeOK, Steps, Finite, OwnRows, Alone, Open, Running

LEMMA FiniteKept ==
  ASSUME IInv, Finite, [Next]_vars
  PROVE  Finite'
<1>1. SUFFICES ASSUME NEW t \in Txns, Begin(t) \/ Advance(t) \/ Lose(t)
               PROVE  Finite'
  BY DEF Finite, Next, vars
<1>2. IsFiniteSet(ledger \union own[t])
  BY FS_Union DEF Finite
<1>3. \A r : IsFiniteSet(own[t] \union {r})
  BY FS_Singleton, FS_Union DEF Finite
<1>4. own \in [Txns -> SUBSET Rows]
  BY DEF IInv, Typed
<1>5. CASE own' = own \/ own' = [own EXCEPT ![t] = {}]
  <2>1. ledger' = ledger \/ ledger' = ledger \union own[t]
    BY <1>1 DEF Begin, Advance, InsertEntry, Report, SelectSum, UpsertWallet, Commit, Lose
  <2>2. \A x \in Txns : IsFiniteSet(own'[x])
    BY <1>4, <1>5, FS_EmptySet DEF Finite
  <2>3. QED
    BY <1>2, <2>1, <2>2 DEF Finite
<1>6. CASE ~(own' = own \/ own' = [own EXCEPT ![t] = {}])
  <2>1. InsertEntry(t) /\ Entry(t).key \notin Taken(t)
    BY <1>1, <1>6 DEF Begin, Advance, InsertEntry, Report, SelectSum, Refuse, UpsertWallet,
                      Commit, Lose, Close
  <2>2. PICK r : own' = [own EXCEPT ![t] = @ \union {r}]
    BY <2>1 DEF InsertEntry
  <2>3. ledger' = ledger
    BY <2>1 DEF InsertEntry
  <2>4. \A x \in Txns : own'[x] = own[x] \/ (x = t /\ own'[x] = own[t] \union {r})
    BY <1>4, <2>2
  <2>5. QED
    BY <1>3, <2>3, <2>4 DEF Finite
<1>7. QED
  BY <1>5, <1>6

LEMMA TypeKept ==
  ASSUME IInv, IInv', Finite, TypeOK, [Next]_vars
  PROVE  TypeOK'
<1>1. /\ ledger' \subseteq Rows
      /\ pc' \in [Txns -> Steps]
      /\ next' \in [Txns -> Nat \ {0}]
      /\ own' \in [Txns -> SUBSET Rows]
  BY DEF IInv, Typed
<1>2. SUFFICES ASSUME NEW t \in Txns, Begin(t) \/ Advance(t) \/ Lose(t)
               PROVE  /\ wallet' \in Int /\ walletLock' \in Txns \union {NoTxn}
                      /\ sum' \in [Txns -> Int] /\ written' \in [Txns -> Int]
                      /\ overlapped' \subseteq Txns
  BY <1>1 DEF TypeOK, Next, vars
<1>3. /\ wallet \in Int /\ walletLock \in Txns \union {NoTxn}
      /\ sum \in [Txns -> Int] /\ written \in [Txns -> Int]
      /\ overlapped \subseteq Txns
  BY DEF TypeOK
<1>4. CASE Begin(t)
  BY <1>3, <1>4 DEF Begin, Open
<1>5. CASE InsertEntry(t)
  BY <1>3, <1>5 DEF InsertEntry, Close
<1>6. CASE Report(t)
  <2>1. Balance(ledger) \in Int
    BY AmountsAreNumbers, BalanceTyped DEF IInv, Typed, Rows, Finite
  <2>2. QED
    BY <1>3, <1>6, <2>1 DEF Report, Close
<1>7. CASE SelectSum(t)
  <2>1. Balance(ledger \union own[t]) \in Int
    BY BalancesAreNumbers
  <2>2. QED
    BY <1>3, <1>7, <2>1 DEF SelectSum, Refuse, Close
<1>8. CASE UpsertWallet(t)
  <2>1. next[t] \in DOMAIN Entries[t] /\ Entries[t] \in Seq([key : Keys, amount : Int])
    BY WalletAssumption DEF IInv, Typed
  <2>2. Entry(t) \in [key : Keys, amount : Int]
    BY <2>1, EntryOfSequence DEF Entry
  <2>3. NewBalance(t) \in Int
    BY <1>3, <2>2 DEF NewBalance
  <2>4. QED
    BY <1>3, <1>8, <2>3 DEF UpsertWallet
<1>9. CASE Commit(t) \/ Lose(t)
  BY <1>3, <1>9 DEF Commit, Lose, Close
<1>10. QED
  BY <1>2, <1>4, <1>5, <1>6, <1>7, <1>8, <1>9 DEF Advance

\* A step is taken by one call; the others stay as they are.
LEMMA OthersStay ==
  ASSUME IInv, NEW t \in Txns, Begin(t) \/ Advance(t) \/ Lose(t)
  PROVE  \A x \in Txns \ {t} : pc'[x] = pc[x] /\ own'[x] = own[x] /\ next'[x] = next[x]
<1>1. /\ pc \in [Txns -> Steps]
      /\ own \in [Txns -> SUBSET Rows]
      /\ next \in [Txns -> Nat \ {0}]
  BY DEF IInv, Typed
<1>2. CASE Begin(t)
  BY <1>1, <1>2 DEF Begin
<1>3. CASE InsertEntry(t)
  BY <1>1, <1>3 DEF InsertEntry, GoOn, Close
<1>4. CASE Report(t) \/ Commit(t) \/ Lose(t)
  BY <1>1, <1>4 DEF Report, Commit, Lose, Close
<1>5. CASE SelectSum(t)
  BY <1>1, <1>5 DEF SelectSum, Refuse, Close
<1>6. CASE UpsertWallet(t)
  BY <1>1, <1>6 DEF UpsertWallet, GoOn
<1>7. QED
  BY <1>2, <1>3, <1>4, <1>5, <1>6 DEF Advance

LEMMA AloneKept ==
  ASSUME IInv, Alone, [Next]_vars
  PROVE  Alone'
<1>1. CASE UNCHANGED vars
  BY <1>1 DEF vars, Alone, Open
<1>2. ASSUME NEW t \in Txns, Begin(t)
      PROVE  Alone'
  <2>1. Open' \subseteq Open \union {t}
    BY <1>2, OthersStay DEF Open
  <2>2. overlapped' = IF Open = {} THEN overlapped ELSE overlapped \union Open \union {t}
    BY <1>2 DEF Begin
  <2>3. QED
    BY <2>1, <2>2 DEF Alone
<1>3. ASSUME NEW t \in Txns, Advance(t) \/ Lose(t)
      PROVE  Alone'
  <2>1. t \in Open
    BY <1>3 DEF Advance, Lose, InsertEntry, Report, SelectSum, UpsertWallet, Commit, Open,
                Running
  <2>2. Open' \subseteq Open
    BY <1>3, <2>1, OthersStay DEF Open
  <2>3. overlapped' = overlapped
    BY <1>3 DEF Advance, Lose, InsertEntry, Report, SelectSum, UpsertWallet, Commit
  <2>4. QED
    BY <2>2, <2>3 DEF Alone
<1>4. QED
  BY <1>1, <1>2, <1>3 DEF Next

\* After a command, the ones up to it have run.
LEMMA GoneOn ==
  ASSUME IInv, NEW t \in Open, GoOn(t)
  PROVE  /\ pc'[t] \in {"insert", "commit"}
         /\ \A i \in DOMAIN Entries[t] :
              /\ i \in Past(t)' <=> i <= next[t]
              /\ i \in Applied(t)' <=> i <= next[t]
<1>1. /\ t \in Txns /\ next[t] \in Nat
      /\ pc \in [Txns -> Steps] /\ next \in [Txns -> Nat \ {0}]
      /\ \A i \in DOMAIN Entries[t] : i \in Nat
  BY WalletAssumption DEF IInv, Typed, Open
<1>2. CASE next[t] < Len(Entries[t])
  <2>1. pc'[t] = "insert" /\ next'[t] = next[t] + 1
    BY <1>1, <1>2 DEF GoOn
  <2>2. \A i \in DOMAIN Entries[t] : i < next[t] + 1 <=> i <= next[t]
    BY <1>1
  <2>3. QED
    BY <2>1, <2>2 DEF Past, Applied
<1>3. CASE ~(next[t] < Len(Entries[t]))
  <2>1. pc'[t] = "commit" /\ next'[t] = next[t]
    BY <1>1, <1>3 DEF GoOn
  <2>2. \A i \in DOMAIN Entries[t] : i < next[t] \/ i = next[t] <=> i <= next[t]
    BY <1>1
  <2>3. QED
    BY <2>1, <2>2 DEF Past, Applied
<1>4. QED
  BY <1>2, <1>3

LEMMA OwnRowsKept ==
  ASSUME IInv, OwnRows, [Next]_vars
  PROVE  OwnRows'
<1>1. CASE UNCHANGED vars
  BY <1>1 DEF vars, OwnRows, Open, Applied
<1>2. SUFFICES ASSUME NEW t \in Txns, Begin(t) \/ Advance(t) \/ Lose(t), NEW r \in own'[t]
               PROVE  t \in Open' /\ \E i \in Applied(t)' : Entries[t][i].key = r.key
  <2>1. SUFFICES ASSUME NEW t \in Txns, Begin(t) \/ Advance(t) \/ Lose(t)
                 PROVE  OwnRows'
    BY <1>1 DEF Next
  <2>2. \A x \in Txns \ {t} : \A s \in own'[x] :
          x \in Open' /\ \E i \in Applied(x)' : Entries[x][i].key = s.key
    BY <2>1, OthersStay DEF OwnRows, Open, Applied
  <2>3. QED
    BY <1>2, <2>1, <2>2 DEF OwnRows
<1>3. /\ pc \in [Txns -> Steps]
      /\ own \in [Txns -> SUBSET Rows]
      /\ next[t] \in DOMAIN Entries[t]
      /\ \A i \in DOMAIN Entries[t] : i \in Nat
  BY WalletAssumption DEF IInv, Typed
<1>4. own'[t] # {}
  OBVIOUS
<1>5. ~Report(t) /\ ~Commit(t) /\ ~Lose(t)
  BY <1>3, <1>4 DEF Report, Commit, Lose, Close
<1>6. CASE Begin(t)
  BY <1>3, <1>6 DEF Begin, OwnRows, Open, Running
<1>7. CASE InsertEntry(t) /\ Entry(t).key \notin Taken(t)
  <2>1. /\ t \in Open'
        /\ pc'[t] \in {"select", "upsert"} /\ next' = next
    BY <1>3, <1>7 DEF InsertEntry, Open, Running
  <2>2. r \in own[t] \/ r.key = Entries[t][next[t]].key
    BY <1>3, <1>7 DEF InsertEntry, Entry
  <2>3. \A i \in DOMAIN Entries[t] : i \in Applied(t) \/ i = next[t] => i \in Applied(t)'
    BY <1>3, <2>1 DEF Applied
  <2>4. QED
    BY <1>3, <2>1, <2>2, <2>3 DEF OwnRows, Applied
<1>8. CASE (InsertEntry(t) \/ UpsertWallet(t)) /\ GoOn(t) /\ own' = own
  <2>1. t \in Open
    BY <1>8 DEF InsertEntry, UpsertWallet, Open, Running
  <2>2. t \in Open'
    BY <2>1, <1>8, GoneOn DEF Open, Running
  <2>3. \A i \in Applied(t) : i <= next[t]
    BY <1>3 DEF Applied
  <2>4. \A i \in Applied(t) : i \in Applied(t)'
    BY <1>8, <2>1, <2>3, GoneOn DEF Applied
  <2>5. QED
    BY <1>8, <2>2, <2>4 DEF OwnRows
<1>9. CASE /\ own' = own /\ next' = next
           /\ \/ pc[t] = "insert" /\ pc' = [pc EXCEPT ![t] = "report"]
              \/ pc[t] = "select" /\ pc' = [pc EXCEPT ![t] = "upsert"]
  <2>1. t \in Open /\ t \in Open'
    BY <1>3, <1>9 DEF Open, Running
  <2>2. pc[t] = "insert" \/ pc'[t] = "upsert"
    BY <1>3, <1>9
  <2>3. \A i \in Applied(t) : i \in Applied(t)'
    BY <1>9, <2>2 DEF Applied
  <2>4. QED
    BY <1>9, <2>1, <2>3 DEF OwnRows
<1>10. CASE InsertEntry(t) /\ Entry(t).key \in Taken(t)
  BY <1>3, <1>4, <1>8, <1>9, <1>10 DEF InsertEntry, Close
<1>11. CASE SelectSum(t)
  BY <1>3, <1>4, <1>9, <1>11 DEF SelectSum, Refuse, Close
<1>12. CASE UpsertWallet(t)
  BY <1>8, <1>12 DEF UpsertWallet
<1>13. QED
  BY <1>2, <1>5, <1>6, <1>7, <1>10, <1>11, <1>12 DEF Advance

\* Up to the command a call works on, its rows are all it has.
LEMMA WholeLedger ==
  ASSUME IInv, OwnRows, NEW t \in Txns
  PROVE  LedgerAfter(t, next[t]) = ledger \union own[t]
<1>1. /\ next[t] \in Nat
      /\ \A i \in DOMAIN Entries[t] : i \in Nat /\ 1 <= i
  BY WalletAssumption DEF IInv, Typed
<1>2. \A i \in Applied(t) : i \in 1 .. next[t]
  BY <1>1 DEF Applied
<1>3. QED
  BY <1>2 DEF OwnRows, LedgerAfter

LEMMA AllowedIsWithinPolicy ==
  ASSUME IInv, Finite, NEW t \in Txns, Kind[t] = "command", Allowed(t)
  PROVE  WithinPolicy(Balance(ledger \union own[t]))
<1> DEFINE b == Balance(ledger \union own[t])
<1>1. b \in Int /\ Cap \in Nat
  BY BalancesAreNumbers, WalletAssumption
<1>2. ~(b < 0 /\ ~AllowNegative) /\ ~(Cap > 0 /\ b > Cap)
  BY DEF Allowed, Refused
<1> HIDE DEF b
<1>3. WithinPolicy(b)
  BY <1>1, <1>2 DEF WithinPolicy
<1>4. QED
  BY <1>3 DEF b

\* What each step of such a call that leaves it open makes of what it knows.
LEMMA BeginJudged ==
  ASSUME IInv, OwnRows, NEW t \in Txns, Begin(t)
  PROVE  Judged(t)'
<1>1. own'[t] = {} /\ pc'[t] = "insert"
  BY DEF IInv, Typed, Begin, OwnRows, Open, Running
<1>2. KeysOf(own[t])' = {}
  BY <1>1 DEF KeysOf
<1>3. QED
  BY <1>1, <1>2 DEF Judged

LEMMA InsertJudged ==
  ASSUME IInv, OwnRows, Finite, NEW t \in Txns, Judged(t), Kind[t] # "purchase",
         InsertEntry(t)
  PROVE  Judged(t)'
<1>1. /\ pc[t] = "insert" /\ t \in Open
      /\ ledger' = ledger /\ sum' = sum /\ written' = written
      /\ pc \in [Txns -> Steps] /\ own \in [Txns -> SUBSET Rows]
      /\ next[t] \in DOMAIN Entries[t]
      /\ \A i \in DOMAIN Entries[t] : i \in Nat
      /\ DOMAIN Entries[t] = 1 .. Len(Entries[t]) /\ Len(Entries[t]) \in Nat
  BY WalletAssumption DEF InsertEntry, IInv, Typed, Open, Running
<1>2. \A i \in DOMAIN Entries[t] : i \in Past(t) <=> i < next[t]
  BY <1>1 DEF Past
<1>3. CASE Entry(t).key \notin Taken(t)
  <2>1. PICK r : r.key = Entry(t).key /\ own' = [own EXCEPT ![t] = @ \union {r}]
    BY <1>3 DEF InsertEntry
  <2>2. pc'[t] = "select" /\ next' = next /\ own'[t] = own[t] \union {r}
    BY <1>1, <1>3, <2>1 DEF InsertEntry
  <2>3. \A i \in DOMAIN Entries[t] : i \in Past(t)' <=> i < next[t]
    BY <1>1, <2>2 DEF Past
  <2>4. \A i \in DOMAIN Entries[t] : i < next[t] => Entries[t][i].key # r.key
    BY <1>1, <1>3, <2>1 DEF IInv, AppliedAreThere, Applied, Taken
  <2>5. ASSUME NEW n \in Past(t)', Entries[t][n].key \in KeysOf(own[t])',
               Kind[t] = "command"
        PROVE  WithinPolicy(Balance(LedgerAfter(t, n)))'
    <3>1. n \in DOMAIN Entries[t] /\ n < next[t] /\ n \in Past(t)
      BY <1>2, <2>3 DEF Past
    <3>2. Entries[t][n].key \in KeysOf(own[t])
      BY <2>2, <2>4, <2>5, <3>1 DEF KeysOf
    <3>3. \A i \in 1 .. n : Entries[t][i].key # r.key
      BY <1>1, <2>4, <3>1
    <3>4. LedgerAfter(t, n)' = LedgerAfter(t, n)
      BY <1>1, <2>2, <3>3 DEF LedgerAfter
    <3>5. WithinPolicy(Balance(LedgerAfter(t, n)))
      BY <2>5, <3>1, <3>2 DEF Judged
    <3>6. QED
      BY <3>4, <3>5 DEF WithinPolicy
  <2>6. QED
    BY <2>2, <2>5 DEF Judged
<1>4. CASE Entry(t).key \in Taken(t) /\ Kind[t] # "command"
  <2>1. pc'[t] = "report"
    BY <1>1, <1>4 DEF InsertEntry
  <2>2. QED
    BY <1>4, <2>1 DEF Judged
<1>5. CASE Entry(t).key \in Taken(t) /\ Kind[t] = "command"
  <2>1. GoOn(t) /\ own' = own /\ walletLock' = walletLock
    BY <1>5 DEF InsertEntry
  <2>2. /\ pc'[t] \in {"insert", "commit"}
        /\ \A i \in DOMAIN Entries[t] : i \in Past(t)' <=> i <= next[t]
    BY <1>1, <2>1, GoneOn
  <2>3. ASSUME NEW n \in Past(t)', Entries[t][n].key \in KeysOf(own[t])
        PROVE  WithinPolicy(Balance(LedgerAfter(t, n)))
    <3>1. n \in DOMAIN Entries[t] /\ (n < next[t] \/ n = next[t])
      BY <1>1, <2>2 DEF Past
    <3>2. CASE n < next[t]
      BY <1>2, <1>5, <2>3, <3>1, <3>2 DEF Judged
    <3>3. CASE n = next[t]
      <4>1. own[t] # {}
        BY <2>3 DEF KeysOf
      <4>2. Allowed(t)
        BY <1>1, <4>1 DEF Judged
      <4>3. QED
        BY <1>5, <3>3, <4>2, WholeLedger, AllowedIsWithinPolicy
    <3>4. QED
      BY <3>1, <3>2, <3>3
  <2>4. Allowed(t)' = Allowed(t) /\ KeysOf(own[t])' = KeysOf(own[t])
    BY <1>1, <2>1 DEF Allowed, Refused, KeysOf
  <2>5. \A n \in Past(t)' :
          WithinPolicy(Balance(LedgerAfter(t, n)))' = WithinPolicy(Balance(LedgerAfter(t, n)))
    BY <1>1, <2>1 DEF WithinPolicy, LedgerAfter
  <2>6. Balance(ledger \union own[t])' = Balance(ledger \union own[t])
    BY <1>1, <2>1
  <2>7. QED
    BY <1>1, <2>1, <2>2, <2>3, <2>4, <2>5, <2>6 DEF Judged
<1>6. QED
  BY <1>3, <1>4, <1>5

LEMMA SelectJudged ==
  ASSUME IInv, OwnRows, Finite, TypeOK, NEW t \in Txns, Judged(t),
         SelectSum(t), t \in Open'
  PROVE  Judged(t)'
<1>1. /\ pc[t] = "select" /\ ledger' = ledger
      /\ pc \in [Txns -> Steps]
      /\ sum \in [Txns -> Int]
  BY DEF TypeOK, SelectSum
<1> DEFINE balance == Balance(ledger \union own[t])
<1>2. ~Refused(t, balance)
  BY <1>1 DEF SelectSum, Refuse, Close, Open, Running
<1>3. /\ sum' = [sum EXCEPT ![t] = balance]
      /\ pc' = [pc EXCEPT ![t] = "upsert"]
      /\ own' = own /\ next' = next
  BY <1>2 DEF SelectSum
<1>4. balance' = balance
  BY <1>1, <1>3
<1>5. Allowed(t)'
  BY <1>2, <1>4 DEF Allowed, Refused
<1>6. \A n \in Past(t)' : n \in Past(t) \/ n = next[t]
  BY <1>3 DEF Past
<1>7. ASSUME Kind[t] = "command", NEW n \in Past(t)', Entries[t][n].key \in KeysOf(own[t])
      PROVE  WithinPolicy(Balance(LedgerAfter(t, n)))
  <2>1. CASE n \in Past(t)
    BY <1>7, <2>1 DEF Judged
  <2>2. CASE n = next[t]
    <3>1. Allowed(t)
      BY <1>2 DEF Allowed
    <3>2. QED
      BY <1>7, <2>2, <3>1, WholeLedger, AllowedIsWithinPolicy
  <2>3. QED
    BY <1>6, <1>7, <2>1, <2>2
<1>8. \A n \in Past(t)' :
        WithinPolicy(Balance(LedgerAfter(t, n)))' = WithinPolicy(Balance(LedgerAfter(t, n)))
  BY <1>1, <1>3 DEF WithinPolicy, LedgerAfter
<1>9. sum'[t] = balance' /\ pc'[t] = "upsert" /\ KeysOf(own[t])' = KeysOf(own[t])
  BY <1>1, <1>3, <1>4
<1>10. QED
  BY <1>5, <1>7, <1>8, <1>9 DEF Judged

LEMMA UpsertJudged ==
  ASSUME IInv, TypeOK, NEW t \in Txns, Judged(t), Kind[t] # "purchase", UpsertWallet(t)
  PROVE  Judged(t)'
<1>1. /\ pc[t] = "upsert" /\ t \in Open
      /\ GoOn(t) /\ ledger' = ledger /\ own' = own /\ walletLock' = t
      /\ \A i \in DOMAIN Entries[t] : i \in Nat
  BY WalletAssumption DEF UpsertWallet, Open, Running
<1>2. /\ pc'[t] \in {"insert", "commit"}
      /\ \A i \in DOMAIN Entries[t] : i \in Past(t)' <=> i <= next[t]
  BY <1>1, GoneOn
<1>3. \A n \in Past(t)' : n \in Past(t)
  <2>1. next[t] \in Nat
    BY DEF TypeOK
  <2>2. QED
    BY <1>1, <1>2, <2>1 DEF Past
<1>4. written'[t] = sum[t]
  BY DEF TypeOK, UpsertWallet, NewBalance
<1>5. sum[t] = Balance(ledger \union own[t]) /\ Allowed(t)
  BY <1>1 DEF Judged
<1>6. Balance(ledger \union own[t])' = Balance(ledger \union own[t])
  BY <1>1
<1>7. Allowed(t)' = Allowed(t) /\ KeysOf(own[t])' = KeysOf(own[t])
  BY <1>1 DEF Allowed, Refused
<1>8. \A n \in Past(t)' :
        WithinPolicy(Balance(LedgerAfter(t, n)))' = WithinPolicy(Balance(LedgerAfter(t, n)))
  BY <1>1 DEF WithinPolicy, LedgerAfter
<1>9. QED
  BY <1>1, <1>2, <1>3, <1>4, <1>5, <1>6, <1>7, <1>8 DEF Judged

\* A step of another call leaves a lone one no longer alone, or cannot happen.
LEMMA JudgedKept ==
  ASSUME IInv, LInv, [Next]_vars
  PROVE  \A t \in (Open \ overlapped)' : Kind[t] # "purchase" => Judged(t)'
<1>1. CASE UNCHANGED vars
  <2>1. \A t \in Txns : /\ Past(t)' = Past(t) /\ Allowed(t)' = Allowed(t)
                        /\ KeysOf(own[t])' = KeysOf(own[t])
    BY <1>1 DEF vars, Past, Allowed, Refused, KeysOf
  <2>2. \A t \in Txns : Balance(ledger \union own[t])' = Balance(ledger \union own[t])
    BY <1>1 DEF vars
  <2>3. \A t \in Txns, n \in Nat :
          WithinPolicy(Balance(LedgerAfter(t, n)))' = WithinPolicy(Balance(LedgerAfter(t, n)))
    BY <1>1 DEF vars, WithinPolicy, LedgerAfter
  <2>4. \A t \in Txns : \A n \in Past(t) : n \in Nat
    BY WalletAssumption DEF Past
  <2>5. SUFFICES ASSUME NEW t \in Txns, Judged(t) PROVE Judged(t)'
    BY <1>1 DEF vars, LInv, Open
  <2>6. QED
    BY <1>1, <2>1, <2>2, <2>3, <2>4, <2>5 DEF vars, Judged
<1>2. ASSUME NEW x \in Txns, Begin(x) \/ Advance(x) \/ Lose(x),
             NEW t \in (Open \ overlapped)', Kind[t] # "purchase"
      PROVE  Judged(t)'
  <2>1. t \in Txns /\ pc \in [Txns -> Steps]
    BY DEF Open, IInv, Typed
  <2>2. CASE Begin(x)
    <3>1. t = x
      <4>1. overlapped' = IF Open = {} THEN overlapped ELSE overlapped \union Open \union {x}
        BY <2>2 DEF Begin
      <4>2. t # x => t \in Open
        BY <2>1, <2>2 DEF Begin, Open
      <4>3. QED
        BY <1>2, <4>1, <4>2
    <3>2. QED
      BY <2>2, <3>1, BeginJudged DEF LInv
  <2>3. CASE Advance(x) \/ Lose(x)
    <3>1. x \in Open /\ overlapped' = overlapped
      BY <2>3 DEF Advance, Lose, InsertEntry, Report, SelectSum, UpsertWallet, Commit, Open,
                  Running
    <3>2. t \in Open
      BY <1>2, <2>1, <3>1, OthersStay DEF Open
    <3>3. t = x
      BY <1>2, <3>1, <3>2 DEF LInv, Alone
    <3>4. ~Report(x) /\ ~Commit(x) /\ ~Lose(x)
      BY <1>2, <2>1, <3>3 DEF Report, Commit, Lose, Close, Open, Running
    <3>5. Judged(t)
      BY <1>2, <3>1, <3>2 DEF LInv
    <3>6. CASE InsertEntry(x)
      BY <1>2, <3>3, <3>5, <3>6, InsertJudged DEF LInv
    <3>7. CASE SelectSum(x)
      BY <1>2, <3>3, <3>5, <3>7, SelectJudged DEF LInv
    <3>8. CASE UpsertWallet(x)
      BY <1>2, <3>3, <3>5, <3>8, UpsertJudged DEF LInv
    <3>9. QED
      BY <2>3, <3>4, <3>6, <3>7, <3>8 DEF Advance
  <2>4. QED
    BY <1>2, <2>2, <2>3
<1>3. QED
  BY <1>1, <1>2 DEF Next

LEMMA LoneInvariantHolds ==
  Spec => []LInv
<1>1. IInv /\ IInv' /\ LInv /\ [Next]_vars => LInv'
  <2>1. SUFFICES ASSUME IInv, IInv', LInv, [Next]_vars PROVE LInv'
    OBVIOUS
  <2>2. TypeOK' /\ Finite'
    BY <2>1, TypeKept, FiniteKept DEF LInv
  <2>3. OwnRows' /\ Alone'
    BY <2>1, OwnRowsKept, AloneKept DEF LInv
  <2>4. QED
    BY <2>1, <2>2, <2>3, JudgedKept DEF LInv
<1>2. QED
  BY <1>1, LoneInitially, InvariantHolds, PTL DEF Spec

\* What the commit of a call with no other one leaves.
Heals(t) ==
  Commit(t) /\ own[t] # {} /\ Kind[t] # "purchase"
    => /\ wallet' = Balance(ledger')
       /\ Kind[t] = "adjust" => wallet' >= 0 \/ t \in Permitted
       /\ Kind[t] = "command" =>
            \A n \in DOMAIN Entries[t] :
              Entries[t][n].key \in KeysOf(own[t])
                => WithinPolicy(Balance(LedgerAfter(t, n)))

LEMMA LoneCommit ==
  ASSUME IInv, LInv, NEW t \in Txns \ overlapped
  PROVE  Heals(t)
<1>1. SUFFICES ASSUME Commit(t), own[t] # {}, Kind[t] # "purchase"
               PROVE  /\ wallet' = Balance(ledger')
                      /\ Kind[t] = "adjust" => wallet' >= 0 \/ t \in Permitted
                      /\ Kind[t] = "command" =>
                           \A n \in DOMAIN Entries[t] :
                             Entries[t][n].key \in KeysOf(own[t])
                               => WithinPolicy(Balance(LedgerAfter(t, n)))
  BY DEF Heals
<1>2. pc[t] = "commit" /\ t \in Open \ overlapped
  BY <1>1 DEF Commit, Open, Running
<1>3. Judged(t)
  BY <1>1, <1>2 DEF LInv
<1>4. walletLock = t /\ written[t] = Balance(ledger \union own[t]) /\ Allowed(t)
  BY <1>1, <1>2, <1>3 DEF Judged
<1>5. wallet' = Balance(ledger \union own[t]) /\ ledger' = ledger \union own[t]
  BY <1>1, <1>4 DEF Commit
<1>6. Balance(ledger \union own[t]) \in Int
  BY BalancesAreNumbers DEF LInv
<1>7. ASSUME Kind[t] = "adjust"
      PROVE  wallet' >= 0 \/ t \in Permitted
  <2>1. ~(wallet' < 0 /\ t \notin Permitted)
    BY <1>4, <1>5, <1>7 DEF Allowed, Refused
  <2>2. QED
    BY <1>5, <1>6, <2>1
<1>8. \A n \in DOMAIN Entries[t] : n \in Past(t)
  <2>1. next[t] = Len(Entries[t])
    BY <1>2 DEF IInv, AppliedAreThere
  <2>2. DOMAIN Entries[t] = 1 .. Len(Entries[t]) /\ Len(Entries[t]) \in Nat
    BY WalletAssumption
  <2>3. QED
    BY <1>2, <2>1, <2>2 DEF Past
<1>9. QED
  <2>1. wallet' = Balance(ledger')
    BY <1>5
  <2>2. Kind[t] = "command" =>
          \A n \in DOMAIN Entries[t] :
            Entries[t][n].key \in KeysOf(own[t]) => WithinPolicy(Balance(LedgerAfter(t, n)))
    BY <1>3, <1>8 DEF Judged
  <2>3. QED
    BY <1>7, <2>1, <2>2

\* Every row, sum and balance of the wallet has its type; the sums are numbers
\* because the amounts are and no call adds up infinitely many rows.
THEOREM WalletTypes ==
  Spec => []TypeOK
BY LoneInvariantHolds, PTL DEF LInv

\* A command or a server-to-server call that met no other writer leaves the
\* wallet at the ledger's sum, whatever earlier overlaps had left there, and
\* commits only what its checks allow (applyLedger, AdjustWallet).
THEOREM LoneWriterRepairs ==
  Spec => LoneWriterHeals
<1>1. IInv /\ LInv /\ [Next]_vars => [\A t \in Txns \ overlapped : Heals(t)]_vars
  BY LoneCommit
<1>2. Spec => [][\A t \in Txns \ overlapped : Heals(t)]_vars
  BY <1>1, InvariantHolds, LoneInvariantHolds, PTL DEF Spec
<1>3. QED
  BY <1>2 DEF LoneWriterHeals, Heals
===============================================================================
