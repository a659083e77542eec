----------------------------- MODULE SdkProofs -----------------------------
(***************************************************************************)
(* Theorems about Sdk, for any number of events, any limits and any        *)
(* network: what the server stores, what callers are told, and that no     *)
(* event is forgotten.                                                     *)
(***************************************************************************)
EXTENDS Sdk, WellFoundedInduction, TLAPS

\* Induction with a set instead of a predicate.
LEMMA InductionOnNat ==
  ASSUME NEW S, 0 \in S, \A n \in Nat : n \in S => n + 1 \in S
  PROVE  Nat \subseteq S
<1> DEFINE R == OpToRel(<, Nat)
           T == Nat \ S
<1>1. SUFFICES ASSUME T # {}
               PROVE  FALSE
  OBVIOUS
<1>2. IsWellFoundedOn(R, Nat)
  BY NatLessThanWellFounded DEF OpToRel
<1>3. \A x, y \in Nat : <<y, x>> \in R <=> y < x
  BY DEF OpToRel
<1>4. T \subseteq Nat
  OBVIOUS
<1> HIDE DEF R, T
<1>5. PICK x \in T : \A y \in T : ~(<<y, x>> \in R)
  BY <1>1, <1>2, <1>4, WFMin
<1>6. x \in Nat /\ x \notin S /\ x # 0
  BY <1>5 DEF T
<1>7. x - 1 \in Nat /\ x - 1 < x /\ (x - 1) + 1 = x
  BY <1>6
<1>8. x - 1 \in S
  BY <1>3, <1>5, <1>6, <1>7 DEF T
<1> QED
  BY <1>6, <1>7, <1>8
-----------------------------------------------------------------------------
\* The function that FoldLeft computes with, on the subsets of U.
IsFold(g, rows, batch, U) ==
  g = [s \in SUBSET U |-> IF s = {} THEN rows
                          ELSE Insert(g[s \ {Max(s)}], batch[Max(s)])]

\* The rows after each event of the batch.
Run(r, rows, batch) ==
  /\ r[0] = rows
  /\ \A k \in 1 .. Len(batch) : r[k] = Insert(r[k - 1], batch[k])

LEMMA FoldExists ==
  ASSUME NEW rows, NEW batch, NEW n \in Nat
  PROVE  \E g : IsFold(g, rows, batch, 1 .. n)
<1> DEFINE S == {m \in Nat : \E g : IsFold(g, rows, batch, 1 .. m)}
<1>1. 0 \in S
  <2> DEFINE g == [s \in SUBSET (1 .. 0) |-> rows]
  <2>1. IsFold(g, rows, batch, 1 .. 0)
    BY DEF IsFold
  <2> QED
    BY <2>1
<1>2. ASSUME NEW m \in Nat, m \in S
      PROVE  m + 1 \in S
  <2>1. PICK g : IsFold(g, rows, batch, 1 .. m)
    BY <1>2
  <2> DEFINE Step(h, s) == IF s = {} THEN rows ELSE Insert(h[s \ {Max(s)}], batch[Max(s)])
             k == [s \in SUBSET (1 .. m + 1) |-> Step(g, s)]
  <2>0. 1 .. m + 1 = (1 .. m) \union {m + 1}
    OBVIOUS
  <2>2. \A s \in SUBSET (1 .. m) : g[s] = Step(g, s) /\ k[s] = g[s]
    <3>1. \A s \in SUBSET (1 .. m) : g[s] = Step(g, s)
      BY <2>1 DEF IsFold
    <3>2. \A s \in SUBSET (1 .. m) : k[s] = Step(g, s)
      BY <2>0
    <3> QED
      BY <3>1, <3>2
  <2>3. \A s \in SUBSET (1 .. m + 1) : s \ {Max(s)} \in SUBSET (1 .. m)
    <3> SUFFICES ASSUME NEW s \in SUBSET (1 .. m + 1), m + 1 \in s
                 PROVE  Max(s) = m + 1
      BY <2>0
    <3>1. \A x \in s : (\A y \in s : x >= y) => x = m + 1
      OBVIOUS
    <3>2. \A y \in s : m + 1 >= y
      OBVIOUS
    <3> QED
      BY <3>1, <3>2 DEF Max
  <2>4. \A s \in SUBSET (1 .. m + 1) : k[s] = Step(k, s)
    <3> SUFFICES ASSUME NEW s \in SUBSET (1 .. m + 1)
                 PROVE  Step(g, s) = Step(k, s)
      OBVIOUS
    <3>1. k[s \ {Max(s)}] = g[s \ {Max(s)}]
      BY <2>2, <2>3
    <3> QED
      BY <3>1
  <2>5. k = [s \in SUBSET (1 .. m + 1) |-> Step(k, s)]
    BY <2>4
  <2> HIDE DEF k
  <2>6. IsFold(k, rows, batch, 1 .. m + 1)
    BY <2>5 DEF IsFold
  <2> QED
    BY <2>6
<1> HIDE DEF S
<1>3. Nat \subseteq S
  BY <1>1, <1>2, InductionOnNat
<1> QED
  BY <1>3 DEF S

LEMMA FoldIsRun ==
  ASSUME NEW rows, NEW batch \in Seq(Event)
  PROVE  \E r : Run(r, rows, batch) /\ FoldLeft(Insert, rows, batch) = r[Len(batch)]
<1>1. Len(batch) \in Nat /\ DOMAIN batch = 1 .. Len(batch)
  OBVIOUS
<1>2. \E g : IsFold(g, rows, batch, DOMAIN batch)
  BY <1>1, FoldExists
<1>3. PICK g : /\ IsFold(g, rows, batch, DOMAIN batch)
               /\ FoldLeft(Insert, rows, batch) = g[DOMAIN batch]
  BY <1>2 DEF FoldLeft, MapThenFoldSet, IsFold
<1> DEFINE r == [k \in 0 .. Len(batch) |-> g[1 .. k]]
<1>4. r[0] = rows
  BY <1>1, <1>3 DEF IsFold
<1>5. ASSUME NEW k \in 1 .. Len(batch)
      PROVE  r[k] = Insert(r[k - 1], batch[k])
  <2>1. /\ 1 .. k \in SUBSET (1 .. Len(batch)) /\ 1 .. k # {}
        /\ (1 .. k) \ {k} = 1 .. k - 1 /\ k - 1 \in 0 .. Len(batch)
    BY <1>1
  <2>2. Max(1 .. k) = k
    <3>1. k \in 1 .. k /\ \A y \in 1 .. k : k >= y
      BY <1>1
    <3>2. \A x \in 1 .. k : (\A y \in 1 .. k : x >= y) => x = k
      BY <1>1
    <3> QED
      BY <3>1, <3>2 DEF Max
  <2>3. g[1 .. k] = Insert(g[(1 .. k) \ {Max(1 .. k)}], batch[Max(1 .. k)])
    BY <1>1, <1>3, <2>1 DEF IsFold
  <2> QED
    BY <2>1, <2>2, <2>3
<1> HIDE DEF r
<1>6. Run(r, rows, batch)
  BY <1>4, <1>5 DEF Run
<1>7. r[Len(batch)] = g[DOMAIN batch]
  BY <1>1 DEF r
<1> QED
  BY <1>3, <1>6, <1>7
-----------------------------------------------------------------------------
Increasing(batch) == \A k, l \in DOMAIN batch : k < l => batch[k] < batch[l]
Distinct(rows) == \A i, j \in DOMAIN rows : i # j => rows[i] # rows[j]

\* What the first k events of a batch make of the rows: the new ones come after
\* the old ones, once each, and in the order of the batch.
Inserts(rows, batch, k, after) ==
  /\ after \in Seq(Event)
  /\ Len(rows) <= Len(after)
  /\ \A i \in 1 .. Len(rows) : after[i] = rows[i]
  /\ \A l \in 1 .. k : Contains(after, batch[l])
  /\ \A i \in Len(rows) + 1 .. Len(after) :
       ~Contains(rows, after[i]) /\ \E l \in 1 .. k : after[i] = batch[l]
  /\ Distinct(rows) => Distinct(after)
  /\ Increasing(batch) =>
       \A i, j \in Len(rows) + 1 .. Len(after) : i < j => after[i] < after[j]

LEMMA InsertsOne ==
  ASSUME NEW rows \in Seq(Event), NEW batch \in Seq(Event), NEW k \in 0 .. Len(batch) - 1,
         NEW before, Inserts(rows, batch, k, before)
  PROVE  Inserts(rows, batch, k + 1, Insert(before, batch[k + 1]))
<1> DEFINE e == batch[k + 1]
           after == Insert(before, e)
           old == Len(rows)
           m == Len(before)
<1>1. /\ k + 1 \in DOMAIN batch /\ e \in Event /\ before \in Seq(Event)
      /\ old \in Nat /\ m \in Nat /\ old <= m /\ k \in Nat /\ Len(batch) \in Nat
      /\ DOMAIN batch = 1 .. Len(batch)
      /\ \A i \in 1 .. m : before[i] \in Event
  BY DEF Inserts
<1>2. 1 .. k + 1 = (1 .. k) \union {k + 1} /\ Event \subseteq Int
  BY <1>1, SdkAssumption DEF Event
<1>3. CASE Contains(before, e)
  <2>1. after = before
    BY <1>3 DEF Insert
  <2> HIDE DEF after
  <2>2. \A l \in 1 .. k + 1 : Contains(before, batch[l])
    BY <1>2, <1>3 DEF Inserts
  <2>3. \A i \in old + 1 .. m :
          ~Contains(rows, before[i]) /\ \E l \in 1 .. k + 1 : before[i] = batch[l]
    BY <1>2 DEF Inserts
  <2> QED
    BY <2>1, <2>2, <2>3 DEF Inserts, after
<1>4. CASE ~Contains(before, e)
  <2>1. /\ after = Append(before, e) /\ after \in Seq(Event) /\ Len(after) = m + 1
        /\ DOMAIN after = 1 .. m + 1 /\ after[m + 1] = e
        /\ \A i \in 1 .. m : after[i] = before[i]
    BY <1>1, <1>4 DEF Insert
  <2>2. 1 .. m + 1 = (1 .. m) \union {m + 1}
    <3>1. m \in Nat
      BY <1>1
    <3> QED
      BY ONLY <3>1
  <2> HIDE DEF after, e
  <2>3. \A i \in 1 .. m : before[i] # e
    BY <1>4 DEF Contains
  <2>4. \A i \in 1 .. old : after[i] = rows[i]
    BY <1>1, <2>1 DEF Inserts
  <2>5. \A l \in 1 .. k + 1 : Contains(after, batch[l])
    <3>1. Contains(after, e)
      BY <1>1, <2>1 DEF Contains
    <3>2. \A l \in 1 .. k : Contains(after, batch[l])
      BY <1>1, <2>1, <2>2 DEF Inserts, Contains
    <3> QED
      BY <1>2, <3>1, <3>2 DEF e
  <2>6. ~Contains(rows, e)
    <3>1. \A i \in 1 .. old : rows[i] = before[i] /\ i \in 1 .. m
      BY <1>1 DEF Inserts
    <3> QED
      BY <2>3, <3>1 DEF Contains
  <2>7. \A i \in old + 1 .. m + 1 :
          ~Contains(rows, after[i]) /\ \E l \in 1 .. k + 1 : after[i] = batch[l]
    <3> SUFFICES ASSUME NEW i \in old + 1 .. m + 1
                 PROVE  ~Contains(rows, after[i]) /\ \E l \in 1 .. k + 1 : after[i] = batch[l]
      OBVIOUS
    <3>1. CASE i = m + 1
      BY <1>2, <2>1, <2>6, <3>1 DEF e
    <3>2. CASE i # m + 1
      <4>1. i \in old + 1 .. m /\ i \in 1 .. m
        BY <1>1, <3>2
      <4> QED
        BY <1>2, <2>1, <4>1 DEF Inserts
    <3> QED
      BY <3>1, <3>2
  <2>8. Distinct(rows) => Distinct(after)
    <3>1. DOMAIN before = 1 .. m
      BY <1>1
    <3> QED
      BY <2>1, <2>2, <2>3, <3>1 DEF Inserts, Distinct
  <2>9. ASSUME Increasing(batch), NEW i \in old + 1 .. m + 1, NEW j \in old + 1 .. m + 1, i < j
        PROVE  after[i] < after[j]
    <3>1. i \in old + 1 .. m /\ i \in 1 .. m
      BY <1>1, <2>9
    <3>2. CASE j = m + 1
      <4>1. PICK l \in 1 .. k : before[i] = batch[l]
        BY <3>1 DEF Inserts
      <4>2. l \in DOMAIN batch /\ l < k + 1
        BY <1>1, <4>1
      <4> QED
        BY <1>1, <2>1, <2>9, <3>1, <3>2, <4>1, <4>2 DEF Increasing, e
    <3>3. CASE j # m + 1
      <4>1. j \in old + 1 .. m /\ j \in 1 .. m
        BY <1>1, <3>3
      <4> QED
        BY <2>1, <2>9, <3>1, <4>1 DEF Inserts
    <3> QED
      BY <3>2, <3>3
  <2>10. old <= Len(after)
    BY <1>1, <2>1
  <2> QED
    BY <2>1, <2>4, <2>5, <2>7, <2>8, <2>9, <2>10 DEF Inserts, e, after
<1> QED
  BY <1>3, <1>4

LEMMA InsertsBatch ==
  ASSUME NEW rows \in Seq(Event), NEW batch \in Seq(Event)
  PROVE  Inserts(rows, batch, Len(batch), FoldLeft(Insert, rows, batch))
<1>1. PICK r : Run(r, rows, batch) /\ FoldLeft(Insert, rows, batch) = r[Len(batch)]
  BY FoldIsRun
<1> DEFINE S == {k \in Nat : k <= Len(batch) => Inserts(rows, batch, k, r[k])}
<1>2. 0 \in S
  <2>1. r[0] = rows /\ Len(rows) \in Nat
    BY <1>1 DEF Run
  <2>2. Inserts(rows, batch, 0, rows)
    BY <2>1 DEF Inserts
  <2> QED
    BY <2>1, <2>2
<1>3. ASSUME NEW k \in Nat, k \in S
      PROVE  k + 1 \in S
  <2> SUFFICES ASSUME k + 1 <= Len(batch)
               PROVE  Inserts(rows, batch, k + 1, r[k + 1])
    OBVIOUS
  <2>1. k \in 0 .. Len(batch) - 1 /\ k + 1 \in 1 .. Len(batch) /\ (k + 1) - 1 = k
    BY <1>3
  <2>2. Inserts(rows, batch, k, r[k])
    BY <1>3, <2>1
  <2>3. r[k + 1] = Insert(r[k], batch[k + 1])
    BY <1>1, <2>1 DEF Run
  <2> QED
    BY <2>1, <2>2, <2>3, InsertsOne
<1>4. Nat \subseteq S
  <2> HIDE DEF S
  <2> QED
    BY <1>2, <1>3, InductionOnNat
<1> QED
  BY <1>1, <1>4
-----------------------------------------------------------------------------
\* An answer that accepts a batch reports on each of its events, and all of them
\* are stored.
Results ==
  \A p \in replies : p.code = 200 =>
    /\ p.results \in [DOMAIN p.request.batch -> {"inserted", "duplicate"}]
    /\ \A i \in DOMAIN p.request.batch : Stored(p.request.batch[i])

Base == TypeOK /\ Results

\* A flush of q: a request with the first events of q, and a queue with the rest.
Sent(q, r) ==
  /\ r \in Request /\ r.batch # <<>> /\ Len(r.batch) <= Len(q)
  /\ awaited' = awaited \union {r} /\ wire' \subseteq wire \union {r}
  /\ \A i \in 1 .. Len(r.batch) : r.batch[i] = q[i]
  /\ queue' \in Seq(Event) /\ Len(queue') = Len(q) - Len(r.batch)
  /\ \A i \in 1 .. Len(queue') : queue'[i] = q[Len(r.batch) + i]

LEMMA FlushSends ==
  ASSUME NEW q \in Seq(Event), q # <<>>, FlushFrom(q)
  PROVE  \E r : Sent(q, r)
<1> DEFINE taken == Taken(q)
           rest == SubSeq(q, Len(taken) + 1, Len(q))
<1>1. /\ Len(q) \in Nat /\ Len(q) >= 1 /\ ServerCap \in Nat /\ ServerCap >= 1
      /\ DOMAIN q = 1 .. Len(q)
  BY SdkAssumption
<1>2. (taken = SubSeq(q, 1, ServerCap) /\ Len(q) > ServerCap) \/ taken = q
  BY DEF Taken
<1>3. /\ taken \in Seq(Event) /\ Len(taken) \in 1 .. Len(q)
      /\ \A i \in 1 .. Len(taken) : taken[i] = q[i]
  <2>1. CASE taken = q
    BY <1>1, <2>1
  <2>2. CASE taken = SubSeq(q, 1, ServerCap) /\ Len(q) > ServerCap
    BY <1>1, <2>2
  <2> QED
    BY <1>2, <2>1, <2>2
<1>4. Send(taken) /\ queue' = rest
  BY DEF FlushFrom
<1> HIDE DEF taken
<1>5. /\ rest \in Seq(Event) /\ Len(rest) = Len(q) - Len(taken)
      /\ \A i \in 1 .. Len(rest) : rest[i] = q[Len(taken) + i]
  BY <1>1, <1>3
<1>6. PICK n \in Unused :
        LET r == [n |-> n, batch |-> taken] IN
        awaited' = awaited \union {r} /\ wire' \in {wire \union {r}, wire}
  BY <1>4 DEF Send
<1> DEFINE r == [n |-> n, batch |-> taken]
<1>7. /\ awaited' = awaited \union {r} /\ wire' \subseteq wire \union {r}
      /\ r \in Request /\ r.batch = taken /\ taken # <<>>
  BY <1>3, <1>6, SdkAssumption DEF Request, Unused
<1> HIDE DEF rest, r
<1>8. Sent(q, r)
  BY <1>1, <1>3, <1>4, <1>5, <1>7 DEF Sent
<1> QED
  BY <1>8

\* A step of the buffer: q is the queue with the event that is tracked, if one is,
\* and it is flushed or kept.
Buffers(q) ==
  /\ \/ tracked' = tracked /\ q = queue
     \/ tracked < Events /\ tracked' = tracked + 1 /\ q = Append(queue, tracked + 1)
  /\ \/ Ready(q) /\ \E r : Sent(q, r)
     \/ queue' = q /\ UNCHANGED <<awaited, wire>>
  /\ UNCHANGED <<sdk, payload, replies, stored, told, faults>>

LEMMA TrackOrFlush ==
  ASSUME TypeOK, Track \/ Flush
  PROVE  \E q \in Seq(Event) : Buffers(q)
<1>1. queue \in Seq(Event) /\ tracked \in 0 .. Events
  BY DEF TypeOK
<1>2. CASE Flush
  <2>1. Ready(queue) /\ FlushFrom(queue) /\ queue # <<>>
        /\ UNCHANGED <<sdk, payload, tracked, replies, stored, told, faults>>
    BY <1>2 DEF Flush, Ready
  <2>2. \E r : Sent(queue, r)
    BY <1>1, <2>1, FlushSends
  <2> QED
    BY <1>1, <2>1, <2>2 DEF Buffers
<1>3. CASE Track
  <2> DEFINE q == Append(queue, tracked + 1)
  <2>1. tracked < Events /\ tracked + 1 \in Event
    BY <1>1, <1>3, SdkAssumption DEF Track, Event
  <2>2. q \in Seq(Event) /\ q # <<>>
    BY <1>1, <2>1
  <2>3. /\ tracked' = tracked + 1
        /\ UNCHANGED <<sdk, payload, replies, stored, told, faults>>
        /\ \/ Ready(q) /\ FlushFrom(q)
           \/ queue' = q /\ UNCHANGED <<awaited, wire>>
    BY <1>3 DEF Track
  <2> HIDE DEF q
  <2>4. FlushFrom(q) => \E r : Sent(q, r)
    BY <1>1, <2>2, FlushSends
  <2>5. Buffers(q)
    BY <2>1, <2>3, <2>4 DEF Buffers, q
  <2> QED
    BY <2>2, <2>5
<1> QED
  BY <1>2, <1>3

\* The index of the result that Accepted reads for an event.
PositionsOf(batch, e) == {i \in 1 .. Len(batch) : batch[i] = e}
ResultOf(batch, e) == IF PositionsOf(batch, e) # {} THEN Min(PositionsOf(batch, e)) ELSE 0

LEMMA PositionFound ==
  ASSUME NEW batch \in Seq(Event), NEW e, Contains(batch, e)
  PROVE  ResultOf(batch, e) \in DOMAIN batch
<1> DEFINE I == PositionsOf(batch, e)
           R == OpToRel(<, Nat)
<1>1. I # {} /\ I \subseteq Nat /\ I \subseteq DOMAIN batch
  BY DEF Contains, PositionsOf
<1>2. IsWellFoundedOn(R, Nat)
  BY NatLessThanWellFounded DEF OpToRel
<1>3. \A x, y \in Nat : y < x => <<y, x>> \in R
  BY DEF OpToRel
<1> HIDE DEF I, R
<1>4. PICK x \in I : \A y \in I : ~(<<y, x>> \in R)
  BY <1>1, <1>2, WFMin
<1>5. ASSUME NEW y \in I
      PROVE  x <= y
  <2>1. x \in Nat /\ y \in Nat
    BY <1>1
  <2>2. ~(y < x)
    BY <1>3, <1>4, <2>1
  <2> QED
    BY <2>1, <2>2
<1>6. Min(I) \in I
  BY <1>5 DEF Min
<1> QED
  BY <1>1, <1>6 DEF I, ResultOf
-----------------------------------------------------------------------------
\* What becomes of a batch whose request is over: it returns to the queue, or it
\* is done with.
Returns(batch) ==
  /\ queue' \in Seq(Event) /\ told' \in [Event -> Told]
  /\ \A e \in Event : ~Contains(batch, e) => told'[e] = told[e]
  /\ \/ queue' = batch \o queue /\ told' = told
     \/ /\ queue' = queue
        /\ \A e \in Event : Contains(batch, e) =>
             \/ Stored(e) /\ told'[e] \in {"inserted", "duplicate"}
             \/ sdk = "web" /\ told'[e] = "rejected"
             \/ sdk = "ios" /\ told'[e] = "failed"
             \/ sdk = "android"
             \/ ~Reporting /\ told'[e] = told[e]

\* A request of the client is over.
Ends(r) ==
  /\ r \in awaited /\ awaited' = awaited \ {r}
  /\ wire' \subseteq wire /\ replies' \subseteq replies
  /\ Returns(r.batch)
  /\ UNCHANGED <<sdk, payload, tracked, stored>> /\ faults' \in Nat

\* The server handles a request; a batch that it accepts is inserted.
Serves(r) ==
  /\ r \in wire /\ wire' = wire \ {r}
  /\ UNCHANGED <<sdk, payload, tracked, queue, awaited, told>> /\ faults' \in Nat
  /\ \/ stored' = stored
     \/ Inserts(stored, r.batch, Len(r.batch), stored')
  /\ \A p \in replies' \ replies :
       /\ p.request = r /\ p.code \in {200, 400, 413, 422, 500}
       /\ p.code = 200 =>
            /\ p.results \in [DOMAIN r.batch -> {"inserted", "duplicate"}]
            /\ Inserts(stored, r.batch, Len(r.batch), stored')

\* A message of a request that nobody answers gets lost.
Fades ==
  /\ wire' \subseteq wire /\ replies' \subseteq replies
  /\ UNCHANGED <<sdk, payload, tracked, queue, awaited, stored, told>> /\ faults' \in Nat

LEMMA GiveUpReturns ==
  ASSUME Base, NEW batch \in Seq(Event), GiveUp(batch) \/ Requeue(batch) \/ Refused(batch)
  PROVE  Returns(batch)
<1> DEFINE Tells(m) == [e \in Event |-> IF Contains(batch, e) THEN m ELSE told[e]]
<1>1. queue \in Seq(Event) /\ told \in [Event -> Told]
  BY DEF Base, TypeOK
<1>2. batch \o queue \in Seq(Event)
  BY <1>1
<1>3. \A m \in Told :
        /\ Tells(m) \in [Event -> Told]
        /\ \A e \in Event : Tells(m)[e] = IF Contains(batch, e) THEN m ELSE told[e]
  BY <1>1
<1>4. \/ queue' = batch \o queue /\ told' = told
      \/ queue' = queue /\ told' = told /\ ~Reporting
      \/ queue' = queue /\ sdk = "android" /\ \E m \in {"inserted", "failed"} : told' = Tells(m)
      \/ queue' = queue /\ sdk = "web" /\ told' = Tells("rejected")
      \/ queue' = queue /\ sdk = "ios" /\ told' = Tells("failed")
  <2>1. CASE sdk = "web"
    BY <2>1 DEF GiveUp, Requeue, Refused, Tell
  <2>2. CASE sdk = "ios"
    BY <2>2 DEF GiveUp, Requeue, Refused, Tell
  <2>3. CASE sdk = "android"
    BY <2>3 DEF GiveUp, Requeue, Refused, Tell
  <2>4. CASE sdk \notin {"web", "ios", "android"}
    BY <2>4 DEF GiveUp, Requeue, Refused, Reporting
  <2> QED
    BY <2>1, <2>2, <2>3, <2>4
<1> HIDE DEF Tells
<1>5. CASE queue' = batch \o queue /\ told' = told
  BY <1>1, <1>2, <1>5 DEF Returns
<1>6. CASE queue' = queue /\ told' = told /\ ~Reporting
  BY <1>1, <1>6 DEF Returns
<1>7. CASE queue' = queue /\ sdk = "android" /\ \E m \in {"inserted", "failed"} : told' = Tells(m)
  BY <1>1, <1>3, <1>7 DEF Returns, Told
<1>8. CASE queue' = queue /\ sdk = "web" /\ told' = Tells("rejected")
  BY <1>1, <1>3, <1>8 DEF Returns, Told
<1>9. CASE queue' = queue /\ sdk = "ios" /\ told' = Tells("failed")
  BY <1>1, <1>3, <1>9 DEF Returns, Told
<1> QED
  BY <1>4, <1>5, <1>6, <1>7, <1>8, <1>9

LEMMA ReceiveEnds ==
  ASSUME Base, NEW p \in replies, Receive(p)
  PROVE  Ends(p.request)
<1> DEFINE batch == p.request.batch
<1>1. /\ p.request \in awaited /\ awaited' = awaited \ {p.request} /\ batch \in Seq(Event)
      /\ replies' \subseteq replies /\ wire' = wire /\ UNCHANGED <<sdk, payload, tracked, stored>>
      /\ faults' \in Nat /\ p.code \in {200, 400, 413, 422, 500}
  BY DEF Receive, Base, TypeOK, Request
<1>2. CASE p.code = 200
  <2>1. /\ p.results \in [DOMAIN batch -> {"inserted", "duplicate"}]
        /\ \A i \in DOMAIN batch : Stored(batch[i])
    BY <1>2 DEF Base, Results
  <2>2. told \in [Event -> Told] /\ queue \in Seq(Event)
    BY DEF Base, TypeOK
  <2>3. /\ queue' = queue
        /\ told' = [e \in Event |->
                     IF sdk # "unreal" /\ Contains(batch, e)
                     THEN p.results[ResultOf(batch, e)] ELSE told[e]]
    <3>1. Accepted(p)
      BY <1>2 DEF Receive
    <3> QED
      BY <3>1 DEF Accepted, SelectInSeq, ResultOf, PositionsOf
  <2>4. ASSUME NEW e \in Event, Contains(batch, e)
        PROVE  p.results[ResultOf(batch, e)] \in {"inserted", "duplicate"} /\ Stored(e)
    <3>1. ResultOf(batch, e) \in DOMAIN batch
      BY <1>1, <2>4, PositionFound
    <3>2. \E i \in DOMAIN batch : batch[i] = e
      BY <1>1, <2>4 DEF Contains
    <3> QED
      BY <2>1, <3>1, <3>2
  <2> HIDE DEF batch
  <2>5. /\ \A e \in Event : ~Contains(batch, e) => told'[e] = told[e]
        /\ \A e \in Event : Contains(batch, e) =>
             \/ Stored(e) /\ told'[e] \in {"inserted", "duplicate"}
             \/ ~Reporting /\ told'[e] = told[e]
    BY <2>3, <2>4 DEF Reporting
  <2>6. told' \in [Event -> Told]
    <3>1. ASSUME NEW e \in Event
          PROVE  told'[e] \in Told
      <4>1. CASE Contains(batch, e)
        BY <2>2, <2>5, <4>1 DEF Told
      <4>2. CASE ~Contains(batch, e)
        BY <2>2, <2>5, <4>2
      <4> QED
        BY <4>1, <4>2
    <3> QED
      BY <2>3, <3>1
  <2>7. Returns(batch)
    <3>1. queue' = queue /\ queue' \in Seq(Event)
      BY <2>2, <2>3
    <3> QED
      BY <2>5, <2>6, <3>1 DEF Returns
  <2> QED
    BY <1>1, <2>7 DEF Ends, batch
<1>3. CASE p.code # 200
  <2>1. Requeue(batch) \/ Refused(batch)
    BY <1>1, <1>3 DEF Receive
  <2> QED
    BY <1>1, <2>1, GiveUpReturns DEF Ends
<1> QED
  BY <1>2, <1>3

LEMMA NetworkEnds ==
  ASSUME Base, NEW r \in awaited, NetworkFails(r) \/ EncodeFails(r)
  PROVE  Ends(r) \/ Fades
<1>1. r.batch \in Seq(Event) /\ faults \in Nat
  BY DEF Base, TypeOK, Request
<1>2. CASE EncodeFails(r)
  BY <1>1, <1>2, GiveUpReturns DEF EncodeFails, Ends
<1>3. CASE NetworkFails(r) /\ Hears
  BY <1>1, <1>3, GiveUpReturns DEF NetworkFails, Ends
<1>4. CASE NetworkFails(r) /\ ~Hears
  BY <1>1, <1>4 DEF NetworkFails, Fades
<1> QED
  BY <1>2, <1>3, <1>4

LEMMA HandleServes ==
  ASSUME Base, NEW r \in wire, Handle(r) \/ HandleFails(r)
  PROVE  Serves(r)
<1> DEFINE results == [i \in DOMAIN r.batch |->
                         IF Contains(stored, r.batch[i]) THEN "duplicate" ELSE "inserted"]
<1>1. stored \in Seq(Event) /\ r.batch \in Seq(Event) /\ faults \in Nat
  BY DEF Base, TypeOK, Request
<1>2. /\ UNCHANGED <<sdk, payload, tracked, queue, awaited, told>> /\ faults' \in Nat
      /\ \/ stored' = stored /\ \E code \in {400, 413, 422, 500} : Answer(r, code, <<>>)
         \/ stored' = FoldLeft(Insert, stored, r.batch) /\ Answer(r, 200, results)
  BY <1>1 DEF Handle, HandleFails, Verdict
<1>3. results \in [DOMAIN r.batch -> {"inserted", "duplicate"}]
  OBVIOUS
<1> HIDE DEF results
<1>4. CASE stored' = FoldLeft(Insert, stored, r.batch) /\ Answer(r, 200, results)
  <2>1. Inserts(stored, r.batch, Len(r.batch), stored')
    BY <1>1, <1>4, InsertsBatch
  <2>2. /\ wire' = wire \ {r}
        /\ \A p \in replies' \ replies : p = [request |-> r, code |-> 200, results |-> results]
    BY <1>4 DEF Answer
  <2> QED
    BY <1>2, <1>3, <2>1, <2>2 DEF Serves
<1>5. CASE stored' = stored /\ \E code \in {400, 413, 422, 500} : Answer(r, code, <<>>)
  <2>1. PICK code \in {400, 413, 422, 500} : Answer(r, code, <<>>)
    BY <1>5
  <2>2. /\ wire' = wire \ {r}
        /\ \A p \in replies' \ replies : p = [request |-> r, code |-> code, results |-> <<>>]
    BY <2>1 DEF Answer
  <2> QED
    BY <1>2, <1>5, <2>1, <2>2 DEF Serves
<1> QED
  BY <1>2, <1>4, <1>5

\* Every step fills or flushes the buffer, ends a request, serves one or loses it.
LEMMA Steps ==
  ASSUME Base, Next
  PROVE  \/ \E q \in Seq(Event) : Buffers(q)
         \/ \E r \in awaited : Ends(r)
         \/ \E r \in wire : Serves(r)
         \/ Fades
<1>1. CASE Track \/ Flush
  BY <1>1, TrackOrFlush DEF Base
<1>2. ASSUME NEW p \in replies, Receive(p)
      PROVE  \E r \in awaited : Ends(r)
  BY <1>2, ReceiveEnds DEF Receive
<1>3. ASSUME NEW r \in awaited, NetworkFails(r) \/ EncodeFails(r)
      PROVE  Ends(r) \/ Fades
  BY <1>3, NetworkEnds
<1>4. ASSUME NEW r \in wire, Handle(r) \/ HandleFails(r)
      PROVE  Serves(r)
  BY <1>4, HandleServes
<1> QED
  BY <1>1, <1>2, <1>3, <1>4 DEF Next, Exchange

\* What is stored stays stored, and an accepted batch is stored.
LEMMA StoredGrows ==
  ASSUME NEW rows \in Seq(Event), NEW batch \in Seq(Event), NEW after,
         Inserts(rows, batch, Len(batch), after)
  PROVE  /\ \A e : Contains(rows, e) => Contains(after, e)
         /\ \A e : Contains(batch, e) => Contains(after, e)
         /\ \A e : Contains(after, e) => Contains(rows, e) \/ Contains(batch, e)
<1>1. /\ Len(rows) \in Nat /\ Len(after) \in Nat /\ Len(rows) <= Len(after)
      /\ 1 .. Len(rows) \subseteq 1 .. Len(after)
  BY DEF Inserts
<1>2. \A e : Contains(rows, e) => Contains(after, e)
  BY <1>1 DEF Inserts, Contains
<1>3. \A e : Contains(batch, e) => Contains(after, e)
  BY DEF Inserts, Contains
<1>4. ASSUME NEW e, Contains(after, e)
      PROVE  Contains(rows, e) \/ Contains(batch, e)
  <2>1. PICK i \in 1 .. Len(after) : after[i] = e
    BY <1>4 DEF Contains
  <2>2. CASE i \in 1 .. Len(rows)
    BY <2>1, <2>2 DEF Inserts, Contains
  <2>3. CASE i \notin 1 .. Len(rows)
    <3>1. i \in Len(rows) + 1 .. Len(after)
      BY <1>1, <2>1, <2>3
    <3>2. \E l \in 1 .. Len(batch) : after[i] = batch[l]
      BY <3>1 DEF Inserts
    <3> QED
      BY <2>1, <3>2 DEF Contains
  <2> QED
    BY <2>2, <2>3
<1> QED
  BY <1>2, <1>3, <1>4

\* Each kind of step keeps the types and what answers say.
LEMMA BuffersBase ==
  ASSUME Base, NEW q \in Seq(Event), Buffers(q)
  PROVE  Base'
<1>1. /\ UNCHANGED <<sdk, payload, replies, stored, told, faults>> /\ TypeOK /\ Results
      /\ tracked' \in 0 .. Events
  BY SdkAssumption DEF Buffers, Base, TypeOK
<1>2. Results'
  BY <1>1 DEF Results, Stored
<1>3. CASE queue' = q /\ UNCHANGED <<awaited, wire>>
  BY <1>1, <1>2, <1>3 DEF Base, TypeOK
<1>4. ASSUME NEW r, Sent(q, r)
      PROVE  Base'
  <2>1. /\ awaited' = awaited \union {r} /\ wire' \subseteq wire \union {r}
        /\ r \in Request /\ r.batch # <<>> /\ queue' \in Seq(Event)
    BY <1>4 DEF Sent
  <2> QED
    BY <1>1, <1>2, <2>1 DEF Base, TypeOK
<1> QED
  BY <1>3, <1>4 DEF Buffers

LEMMA EndsBase ==
  ASSUME Base, NEW r, Ends(r)
  PROVE  Base'
<1>1. /\ awaited' \subseteq awaited /\ wire' \subseteq wire /\ replies' \subseteq replies
      /\ UNCHANGED <<sdk, payload, tracked, stored>> /\ faults' \in Nat
      /\ queue' \in Seq(Event) /\ told' \in [Event -> Told]
  BY DEF Ends, Returns
<1>2. Results'
  BY <1>1 DEF Base, Results, Stored
<1>3. TypeOK'
  BY <1>1 DEF Base, TypeOK
<1> QED
  BY <1>2, <1>3 DEF Base

LEMMA ServesBase ==
  ASSUME Base, NEW r, Serves(r)
  PROVE  Base' /\ \A e \in Event : Stored(e) => Stored(e)'
<1>1. /\ UNCHANGED <<sdk, payload, tracked, queue, awaited, told>> /\ faults' \in Nat
      /\ r \in wire /\ wire' \subseteq wire
      /\ stored' = stored \/ Inserts(stored, r.batch, Len(r.batch), stored')
  BY DEF Serves
<1>2. r \in Request /\ r.batch \in Seq(Event) /\ stored \in Seq(Event) /\ TypeOK /\ Results
  BY <1>1 DEF Base, TypeOK, Request
<1>3. stored' \in Seq(Event)
  BY <1>1, <1>2 DEF Inserts
<1>4. \A e : Contains(stored, e) => Contains(stored', e)
  BY <1>1, <1>2, StoredGrows
<1>5. \A p \in replies' \ replies :
        /\ p.request = r /\ p.code \in {200, 400, 413, 422, 500}
        /\ p.code = 200 =>
             /\ p.results \in [DOMAIN r.batch -> {"inserted", "duplicate"}]
             /\ \A e : Contains(r.batch, e) => Contains(stored', e)
  BY <1>2, StoredGrows DEF Serves
<1>6. \A p \in replies' : p.request \in Request /\ p.code \in {200, 400, 413, 422, 500}
  BY <1>2, <1>5 DEF TypeOK
<1>7. TypeOK'
  BY <1>1, <1>2, <1>3, <1>6 DEF TypeOK
<1>8. ASSUME NEW p \in replies', p.code = 200
      PROVE  /\ p.results \in [DOMAIN p.request.batch -> {"inserted", "duplicate"}]
             /\ \A i \in DOMAIN p.request.batch : Contains(stored', p.request.batch[i])
  <2>1. CASE p \in replies
    BY <1>2, <1>4, <1>8, <2>1 DEF Results, Stored
  <2>2. CASE p \notin replies
    <3>1. /\ p.request = r /\ p.results \in [DOMAIN r.batch -> {"inserted", "duplicate"}]
          /\ \A e : Contains(r.batch, e) => Contains(stored', e)
      BY <1>5, <1>8, <2>2
    <3>2. \A i \in DOMAIN r.batch : Contains(r.batch, r.batch[i])
      BY <1>2 DEF Contains
    <3> QED
      BY <3>1, <3>2
  <2> QED
    BY <2>1, <2>2
<1>9. Results'
  BY <1>8 DEF Results, Stored
<1> QED
  BY <1>4, <1>7, <1>9 DEF Base, Stored

LEMMA FadesBase ==
  ASSUME Base, Fades
  PROVE  Base'
<1>1. TypeOK' /\ Results'
  BY DEF Fades, Base, TypeOK, Results, Stored
<1> QED
  BY <1>1 DEF Base
-----------------------------------------------------------------------------
LEMMA ContainsBoth ==
  ASSUME NEW s \in Seq(Event), NEW t \in Seq(Event)
  PROVE  \A e : Contains(s \o t, e) <=> Contains(s, e) \/ Contains(t, e)
<1> SUFFICES ASSUME NEW e
             PROVE  Contains(s \o t, e) <=> Contains(s, e) \/ Contains(t, e)
  OBVIOUS
<1>1. /\ Len(s) \in Nat /\ Len(t) \in Nat /\ Len(s \o t) = Len(s) + Len(t)
      /\ \A i \in 1 .. Len(s) : (s \o t)[i] = s[i]
      /\ \A i \in 1 .. Len(t) : (s \o t)[Len(s) + i] = t[i]
  OBVIOUS
<1>2. ASSUME Contains(s, e)
      PROVE  Contains(s \o t, e)
  BY <1>1, <1>2 DEF Contains
<1>3. ASSUME NEW i \in 1 .. Len(t), t[i] = e
      PROVE  Contains(s \o t, e)
  <2>1. Len(s) + i \in 1 .. Len(s \o t)
    BY <1>1
  <2> QED
    BY <1>1, <1>3, <2>1 DEF Contains
<1>4. ASSUME NEW i \in 1 .. Len(s \o t), (s \o t)[i] = e
      PROVE  Contains(s, e) \/ Contains(t, e)
  <2>1. CASE i <= Len(s)
    BY <1>1, <1>4, <2>1 DEF Contains
  <2>2. CASE i > Len(s)
    <3>1. i - Len(s) \in 1 .. Len(t) /\ Len(s) + (i - Len(s)) = i
      BY <1>1, <2>2
    <3> QED
      BY <1>1, <1>4, <3>1 DEF Contains
  <2> QED
    BY <1>1, <2>1, <2>2
<1> QED
  BY <1>2, <1>3, <1>4 DEF Contains

\* Events that the client has not settled.
Pending(e) == InQueue(e) \/ InFlight(e)

LEMMA SentKeeps ==
  ASSUME NEW q \in Seq(Event), NEW r, Sent(q, r)
  PROVE  \A e : Contains(q, e) <=> Contains(r.batch, e) \/ Contains(queue', e)
<1> SUFFICES ASSUME NEW e
             PROVE  Contains(q, e) <=> Contains(r.batch, e) \/ Contains(queue', e)
  OBVIOUS
<1> DEFINE m == Len(r.batch)
<1>1. /\ Len(q) \in Nat /\ m \in Nat /\ m <= Len(q) /\ Len(queue') = Len(q) - m
      /\ Len(queue') \in Nat
  BY DEF Sent, Request
<1>2. /\ \A i \in 1 .. m : r.batch[i] = q[i] /\ i \in 1 .. Len(q)
      /\ \A i \in 1 .. Len(queue') : queue'[i] = q[m + i] /\ m + i \in 1 .. Len(q)
  BY <1>1 DEF Sent
<1>3. ASSUME NEW i \in 1 .. Len(q), q[i] = e
      PROVE  Contains(r.batch, e) \/ Contains(queue', e)
  <2>1. CASE i <= m
    BY <1>1, <1>2, <1>3, <2>1 DEF Contains
  <2>2. CASE i > m
    <3>1. i - m \in 1 .. Len(queue') /\ m + (i - m) = i
      BY <1>1, <2>2
    <3> QED
      BY <1>2, <1>3, <3>1 DEF Contains
  <2> QED
    BY <1>1, <2>1, <2>2
<1> QED
  BY <1>2, <1>3 DEF Contains

\* What is pending after a step of the buffer: the same, and the event tracked.
LEMMA BuffersKeep ==
  ASSUME Base, NEW q \in Seq(Event), Buffers(q)
  PROVE  \A e : Pending(e)' <=> Pending(e) \/ (tracked' # tracked /\ e = tracked + 1)
<1> SUFFICES ASSUME NEW e
             PROVE  Pending(e)' <=> Pending(e) \/ (tracked' # tracked /\ e = tracked + 1)
  OBVIOUS
<1>1. queue \in Seq(Event) /\ tracked \in Nat
  BY SdkAssumption DEF Base, TypeOK
<1>2. Contains(q, e) <=> InQueue(e) \/ (tracked' # tracked /\ e = tracked + 1)
  <2>1. CASE tracked' = tracked /\ q = queue
    BY <2>1 DEF InQueue
  <2>2. CASE tracked < Events /\ tracked' = tracked + 1 /\ q = Append(queue, tracked + 1)
    <3>1. /\ Len(queue) \in Nat /\ Len(q) = Len(queue) + 1 /\ q[Len(q)] = tracked + 1
          /\ \A i \in 1 .. Len(queue) : q[i] = queue[i]
          /\ 1 .. Len(q) = (1 .. Len(queue)) \union {Len(q)}
      BY <1>1, <2>2
    <3>2. tracked' # tracked
      BY <1>1, <2>2
    <3> QED
      BY <3>1, <3>2 DEF Contains, InQueue
  <2> QED
    BY <2>1, <2>2 DEF Buffers
<1>3. CASE queue' = q /\ UNCHANGED <<awaited, wire>>
  BY <1>2, <1>3 DEF Pending, InQueue, InFlight
<1>4. ASSUME NEW r, Sent(q, r)
      PROVE  Pending(e)' <=> Pending(e) \/ (tracked' # tracked /\ e = tracked + 1)
  <2>1. awaited' = awaited \union {r}
    BY <1>4 DEF Sent
  <2>2. Contains(q, e) <=> Contains(r.batch, e) \/ Contains(queue', e)
    BY <1>4, SentKeeps
  <2> QED
    BY <1>2, <2>1, <2>2 DEF Pending, InQueue, InFlight
<1> QED
  BY <1>3, <1>4 DEF Buffers

\* When a request is over, its events are pending again, or they are stored, or
\* their callers know.
LEMMA EndsKnown ==
  ASSUME Base, NEW r, Ends(r), NEW e \in Event
  PROVE  /\ Pending(e)' => Pending(e)
         /\ Pending(e) => \/ Pending(e)'
                          \/ Stored(e)
                          \/ sdk = "web" /\ told'[e] = "rejected"
                          \/ sdk = "ios" /\ told'[e] = "failed"
                          \/ ~Reporting
         /\ ~Pending(e) => told'[e] = told[e]
         /\ told'[e] \in {told[e], "rejected", "failed"} \/ Stored(e) \/ sdk = "android"
<1>1. /\ r \in awaited /\ awaited' = awaited \ {r} /\ Returns(r.batch)
      /\ r.batch \in Seq(Event) /\ queue \in Seq(Event)
  BY DEF Ends, Base, TypeOK, Request
<1>2. Contains(r.batch, e) => InFlight(e)
  BY <1>1 DEF InFlight
<1>3. InFlight(e) => Contains(r.batch, e) \/ InFlight(e)'
  BY <1>1 DEF InFlight
<1>4. InFlight(e)' => InFlight(e)
  BY <1>1 DEF InFlight
<1>5. ~Contains(r.batch, e) => told'[e] = told[e]
  BY <1>1 DEF Returns
<1>6. CASE queue' = r.batch \o queue /\ told' = told
  <2>1. InQueue(e)' <=> Contains(r.batch, e) \/ InQueue(e)
    BY <1>1, <1>6, ContainsBoth DEF InQueue
  <2> QED
    BY <1>2, <1>3, <1>4, <1>6, <2>1 DEF Pending
<1>7. CASE /\ queue' = queue
           /\ Contains(r.batch, e) =>
                \/ Stored(e) /\ told'[e] \in {"inserted", "duplicate"}
                \/ sdk = "web" /\ told'[e] = "rejected"
                \/ sdk = "ios" /\ told'[e] = "failed"
                \/ sdk = "android"
                \/ ~Reporting /\ told'[e] = told[e]
  <2>1. InQueue(e)' <=> InQueue(e)
    BY <1>7 DEF InQueue
  <2> QED
    BY <1>2, <1>3, <1>4, <1>5, <1>7, <2>1 DEF Pending, Reporting
<1> QED
  BY <1>1, <1>6, <1>7 DEF Returns
-----------------------------------------------------------------------------
\* What holds of every SDK.
EveryInv ==
  /\ Base
  /\ NothingForgotten
  /\ ToldTruthfully
  /\ Distinct(stored)

LEMMA EveryStep ==
  ASSUME EveryInv, Next
  PROVE  EveryInv'
<1>1. Base /\ NothingForgotten /\ ToldTruthfully /\ Distinct(stored)
  BY DEF EveryInv
<1>2. /\ tracked \in 0 .. Events /\ Events \in Nat /\ Event = 1 .. Events
      /\ stored \in Seq(Event)
  BY <1>1, SdkAssumption DEF Base, TypeOK, Event
<1>3. ASSUME NEW q \in Seq(Event), Buffers(q)
      PROVE  EveryInv'
  <2>1. Base'
    BY <1>1, <1>3, BuffersBase
  <2>2. /\ \A e : Pending(e)' <=> Pending(e) \/ (tracked' # tracked /\ e = tracked + 1)
        /\ UNCHANGED <<sdk, payload, replies, stored, told, faults>>
        /\ tracked' \in {tracked, tracked + 1}
    BY <1>1, <1>3, BuffersKeep DEF Buffers
  <2>3. NothingForgotten'
    <3> SUFFICES ASSUME Reporting, NEW e \in 1 .. tracked'
                 PROVE  Pending(e)' \/ Settled(e)
      BY <2>2 DEF NothingForgotten, Reporting, Pending, Settled, Stored
    <3>1. e \in 1 .. tracked \/ (tracked' # tracked /\ e = tracked + 1)
      BY <1>2, <2>2
    <3>2. e \in 1 .. tracked => Pending(e) \/ Settled(e)
      BY <1>1 DEF NothingForgotten, Pending
    <3> QED
      BY <2>2, <3>1, <3>2
  <2>4. ToldTruthfully' /\ Distinct(stored)'
    BY <1>1, <2>2 DEF ToldTruthfully, Distinct, Stored
  <2> QED
    BY <2>1, <2>3, <2>4 DEF EveryInv
<1>4. ASSUME NEW r, Ends(r)
      PROVE  EveryInv'
  <2>1. Base'
    BY <1>1, <1>4, EndsBase
  <2>2. UNCHANGED <<sdk, payload, tracked, stored>>
    BY <1>4 DEF Ends
  <2>3. NothingForgotten'
    <3> SUFFICES ASSUME Reporting, NEW e \in 1 .. tracked
                 PROVE  Pending(e)' \/ Stored(e) \/ told'[e] # "pending"
      BY <2>2 DEF NothingForgotten, Reporting, Pending, Settled, Stored
    <3>1. e \in Event
      BY <1>2
    <3>2. Pending(e) \/ Settled(e)
      BY <1>1 DEF NothingForgotten, Pending
    <3> QED
      BY <1>1, <1>4, <3>1, <3>2, EndsKnown DEF Settled
  <2>4. ToldTruthfully'
    <3> SUFFICES ASSUME sdk # "android", NEW e \in Event, told'[e] \in {"inserted", "duplicate"}
                 PROVE  Stored(e)
      BY <2>2 DEF ToldTruthfully, Stored
    <3>1. told'[e] \in {told[e], "rejected", "failed"} \/ Stored(e)
      BY <1>1, <1>4, EndsKnown
    <3> QED
      BY <1>1, <3>1 DEF ToldTruthfully
  <2>5. Distinct(stored)'
    BY <1>1, <2>2 DEF Distinct
  <2> QED
    BY <2>1, <2>3, <2>4, <2>5 DEF EveryInv
<1>5. ASSUME NEW r, Serves(r)
      PROVE  EveryInv'
  <2>1. Base' /\ \A e \in Event : Stored(e) => Stored(e)'
    BY <1>1, <1>5, ServesBase
  <2>2. /\ UNCHANGED <<sdk, payload, tracked, queue, awaited, told>>
        /\ stored' = stored \/ Inserts(stored, r.batch, Len(r.batch), stored')
    BY <1>5 DEF Serves
  <2>3. NothingForgotten'
    <3> SUFFICES ASSUME Reporting, NEW e \in 1 .. tracked
                 PROVE  Pending(e) \/ Stored(e)' \/ told[e] # "pending"
      BY <2>2 DEF NothingForgotten, Reporting, Pending, Settled, InQueue, InFlight
    <3> QED
      BY <1>1, <1>2, <2>1 DEF NothingForgotten, Pending, Settled
  <2>4. ToldTruthfully'
    BY <1>1, <2>1, <2>2 DEF ToldTruthfully
  <2>5. Distinct(stored)'
    <3>1. Distinct(stored')
      BY <1>1, <2>2 DEF Inserts
    <3> QED
      BY <3>1 DEF Distinct
  <2> QED
    BY <2>1, <2>3, <2>4, <2>5 DEF EveryInv
<1>6. ASSUME Fades
      PROVE  EveryInv'
  <2>1. Base'
    BY <1>1, <1>6, FadesBase
  <2>2. NothingForgotten' /\ ToldTruthfully' /\ Distinct(stored)'
    BY <1>1, <1>6 DEF Fades, NothingForgotten, Reporting, InQueue, InFlight, Settled,
       Stored, ToldTruthfully, Distinct
  <2> QED
    BY <2>1, <2>2 DEF EveryInv
<1> QED
  BY <1>1, <1>3, <1>4, <1>5, <1>6, Steps

LEMMA EveryInit ==
  ASSUME Init
  PROVE  EveryInv
<1>1. TypeOK
  <2>1. /\ queue = <<>> /\ stored = <<>> /\ awaited = {} /\ wire = {} /\ replies = {}
        /\ tracked = 0 /\ faults = 0 /\ sdk \in Sdks /\ payload \in Payloads
        /\ told = [e \in Event |-> "pending"]
    BY DEF Init
  <2>2. told \in [Event -> Told] /\ 0 \in 0 .. Events
    BY <2>1, SdkAssumption DEF Told
  <2> QED
    BY <2>1, <2>2 DEF TypeOK
<1>2. Base
  BY <1>1 DEF Base, Results, Init
<1>3. NothingForgotten /\ ToldTruthfully /\ Distinct(stored)
  BY DEF Init, NothingForgotten, ToldTruthfully, Distinct
<1> QED
  BY <1>2, <1>3 DEF EveryInv

LEMMA EveryInvHolds == Spec => []EveryInv
<1>1. EveryInv /\ [Next]_vars => EveryInv'
  <2>1. ASSUME EveryInv, UNCHANGED vars
        PROVE  EveryInv'
    BY <2>1 DEF vars, EveryInv, Base, TypeOK, Results, NothingForgotten, ToldTruthfully,
       Distinct, InQueue, InFlight, Settled, Stored, Reporting
  <2> QED
    BY <2>1, EveryStep
<1> QED
  BY <1>1, EveryInit, PTL DEF Spec

\* With a reporting SDK no tracked event vanishes (flush and its callbacks),
\* whatever the network does.
THEOREM NoneForgotten == Spec => []NothingForgotten
<1>1. EveryInv => NothingForgotten
  BY DEF EveryInv
<1> QED
  BY <1>1, EveryInvHolds, PTL

\* What is reported as inserted or duplicate is stored (the ingest results of the
\* web SDK), for every SDK but the Android one.
THEOREM CallersToldTruth == Spec => []ToldTruthfully
<1>1. EveryInv => ToldTruthfully
  BY DEF EveryInv
<1> QED
  BY <1>1, EveryInvHolds, PTL
-----------------------------------------------------------------------------
(***************************************************************************)
(* The order of the web SDK's events.                                      *)
(***************************************************************************)
\* The queue ends with the last event tracked, and the batch in flight, of which
\* there is one at most, ends before the queue begins.
QueueLast ==
  \A i \in 1 .. Len(queue) : queue[i] = tracked - Len(queue) + i
FlightBefore ==
  /\ \A r, s \in awaited : r = s
  /\ \A r \in awaited : \A i \in 1 .. Len(r.batch) :
       r.batch[i] = tracked - Len(queue) - Len(r.batch) + i

\* Requests that the server has not handled, given up or not, hold a run of events,
\* and what was tracked before them is settled.
Behind(r) ==
  /\ \A i \in 1 .. Len(r.batch) : r.batch[i] = r.batch[1] + i - 1 /\ r.batch[i] <= tracked
  /\ \A d \in 1 .. tracked : d < r.batch[1] => ~Pending(d)
WireRuns == \A r \in wire : Behind(r)

SettledKnown ==
  \A e \in 1 .. tracked : ~Pending(e) => Stored(e) \/ told[e] = "rejected"
ToldSettled ==
  \A e \in Event : told[e] # "pending" => e <= tracked /\ ~Pending(e)

\* No event is stored before one that is pending and not stored.
StoredDense ==
  \A e \in Event : Stored(e) =>
    e <= tracked /\ \A d \in 1 .. e : ~Pending(d) \/ Stored(d)

InOrder ==
  \A i, j \in DOMAIN stored :
    i < j /\ told[stored[j]] # "rejected" => stored[i] < stored[j]

Web ==
  sdk = "web" =>
    /\ QueueLast
    /\ FlightBefore
    /\ WireRuns
    /\ SettledKnown
    /\ ToldSettled
    /\ StoredDense
    /\ InOrder

\* A run of l numbers that ends with t, cut after the first m.
CutOf(t, l, q, m, back, front, rest) ==
  /\ t \in Nat /\ l \in Nat /\ m \in Nat /\ back \in Nat
  /\ m >= 1 /\ m <= l /\ back = l - m
  /\ \A i \in 1 .. l : q[i] = t - l + i
  /\ \A i \in 1 .. m : front[i] = q[i]
  /\ \A i \in 1 .. back : rest[i] = q[m + i]

Cut(t, m, back, front, rest) ==
  /\ \A i \in 1 .. m : front[i] = t - back - m + i
  /\ \A i \in 1 .. back : rest[i] = t - back + i
  /\ \A i \in 1 .. m : front[i] = front[1] + i - 1 /\ front[i] <= t
  /\ \A d \in Nat : d < front[1] =>
       (\A i \in 1 .. m : front[i] # d) /\ (\A i \in 1 .. back : rest[i] # d)

LEMMA CutRun ==
  ASSUME NEW t, NEW l, NEW q, NEW m, NEW back, NEW front, NEW rest,
         CutOf(t, l, q, m, back, front, rest)
  PROVE  Cut(t, m, back, front, rest)
<1>1. t \in Nat /\ l \in Nat /\ m \in Nat /\ back \in Nat /\ m >= 1 /\ m <= l /\ back = l - m
  BY DEF CutOf
<1>2. \A i \in 1 .. m : front[i] = t - l + i
  <2>1. \A i \in 1 .. m : i \in 1 .. l
    BY <1>1
  <2> QED
    BY <2>1 DEF CutOf
<1>3. \A i \in 1 .. back : rest[i] = t - l + (m + i)
  <2>1. \A i \in 1 .. back : m + i \in 1 .. l
    BY <1>1
  <2> QED
    BY <2>1 DEF CutOf
<1>4. \A i \in 1 .. m : front[i] = t - back - m + i
  BY <1>1, <1>2
<1>5. \A i \in 1 .. back : rest[i] = t - back + i
  BY <1>1, <1>3
<1>6. front[1] = t - l + 1
  BY <1>1, <1>2
<1>7. \A i \in 1 .. m : front[i] = front[1] + i - 1 /\ front[i] <= t
  BY <1>1, <1>2, <1>6
<1>8. ASSUME NEW d \in Nat, d < front[1]
      PROVE  (\A i \in 1 .. m : front[i] # d) /\ (\A i \in 1 .. back : rest[i] # d)
  BY <1>1, <1>2, <1>3, <1>6, <1>8
<1> QED
  BY <1>4, <1>5, <1>7, <1>8 DEF Cut

LEMMA WebBuffers ==
  ASSUME EveryInv, Web, NEW q \in Seq(Event), Buffers(q)
  PROVE  Web'
<1> SUFFICES ASSUME sdk = "web"
             PROVE  /\ QueueLast' /\ FlightBefore' /\ WireRuns' /\ SettledKnown'
                    /\ ToldSettled' /\ StoredDense' /\ InOrder'
  BY DEF Buffers, Web
<1>1. /\ QueueLast /\ FlightBefore /\ WireRuns /\ SettledKnown /\ ToldSettled
      /\ StoredDense /\ InOrder /\ Base
  BY DEF Web, EveryInv
<1>2. /\ tracked \in Nat /\ tracked <= Events /\ Events \in Nat /\ Event = 1 .. Events
      /\ queue \in Seq(Event) /\ stored \in Seq(Event) /\ Len(queue) \in Nat /\ Len(q) \in Nat
      /\ \A r \in awaited \union wire : r.batch \in Seq(Event) /\ r.batch # <<>>
  BY <1>1, SdkAssumption DEF Base, TypeOK, Event, Request
<1>3. /\ \A e : Pending(e)' <=> Pending(e) \/ (tracked' # tracked /\ e = tracked + 1)
      /\ UNCHANGED <<sdk, payload, replies, stored, told, faults>>
      /\ tracked' \in {tracked, tracked + 1}
  BY <1>1, BuffersKeep DEF Buffers
<1>4. /\ tracked' - Len(q) = tracked - Len(queue)
      /\ \A i \in 1 .. Len(q) : q[i] = tracked' - Len(q) + i
  <2>1. CASE tracked' = tracked /\ q = queue
    BY <1>1, <2>1 DEF QueueLast
  <2>2. CASE tracked' = tracked + 1 /\ q = Append(queue, tracked + 1)
    <3>1. /\ Len(q) = Len(queue) + 1 /\ q[Len(q)] = tracked + 1
          /\ \A i \in 1 .. Len(queue) : q[i] = queue[i]
          /\ 1 .. Len(q) = (1 .. Len(queue)) \union {Len(q)}
      BY <1>2, <2>2
    <3>2. \A i \in 1 .. Len(queue) : q[i] = tracked' - Len(q) + i
      BY <1>1, <1>2, <2>2, <3>1 DEF QueueLast
    <3>3. q[Len(q)] = tracked' - Len(q) + Len(q)
      BY <1>2, <2>2, <3>1
    <3>4. tracked' - Len(q) = tracked - Len(queue)
      BY <1>2, <2>2, <3>1
    <3> QED
      BY <3>1, <3>2, <3>3, <3>4
  <2> QED
    BY <2>1, <2>2 DEF Buffers
<1>5. ASSUME NEW r \in wire
      PROVE  Behind(r)'
  <2>1. Behind(r) /\ r.batch \in Seq(Event) /\ r.batch # <<>>
    BY <1>1, <1>2 DEF WireRuns
  <2>2. 1 \in 1 .. Len(r.batch) /\ r.batch[1] \in Nat /\ r.batch[1] <= tracked
    BY <1>2, <2>1 DEF Behind
  <2>3. \A i \in 1 .. Len(r.batch) : r.batch[i] \in Nat
    BY <1>2, <2>1
  <2>4. \A i \in 1 .. Len(r.batch) : r.batch[i] = r.batch[1] + i - 1 /\ r.batch[i] <= tracked'
    <3>1. \A i \in 1 .. Len(r.batch) :
            r.batch[i] = r.batch[1] + i - 1 /\ r.batch[i] <= tracked
      BY <2>1 DEF Behind
    <3>2. tracked \in Nat /\ tracked' \in Nat /\ tracked <= tracked'
      BY <1>2, <1>3
    <3>3. ASSUME NEW i \in 1 .. Len(r.batch)
          PROVE  r.batch[i] <= tracked'
      <4>1. r.batch[i] \in Nat /\ r.batch[i] <= tracked
        BY <2>3, <3>1
      <4> QED
        BY ONLY <3>2, <4>1
    <3> QED
      BY <3>1, <3>3
  <2>5. ASSUME NEW d \in 1 .. tracked', d < r.batch[1]
        PROVE  ~Pending(d)'
    <3>1. d \in 1 .. tracked /\ d # tracked + 1
      BY <1>2, <1>3, <2>2, <2>5
    <3>2. ~Pending(d)
      BY <2>1, <2>5, <3>1 DEF Behind
    <3> QED
      BY <1>3, <3>1, <3>2
  <2> QED
    BY <2>4, <2>5 DEF Behind
<1>6. QueueLast' /\ FlightBefore' /\ WireRuns'
  <2>1. CASE queue' = q /\ UNCHANGED <<awaited, wire>>
    <3>1. QueueLast'
      BY <1>4, <2>1 DEF QueueLast
    <3>2. FlightBefore'
      BY <1>1, <1>4, <2>1 DEF FlightBefore
    <3>3. WireRuns'
      BY <1>5, <2>1 DEF WireRuns
    <3> QED
      BY <3>1, <3>2, <3>3
  <2>2. ASSUME Ready(q), NEW r, Sent(q, r)
        PROVE  QueueLast' /\ FlightBefore' /\ WireRuns'
    <3> DEFINE m == Len(r.batch)
               back == Len(queue')
    <3>1. /\ awaited' = {r} /\ wire' \subseteq wire \union {r} /\ r.batch \in Seq(Event)
          /\ m \in Nat /\ m >= 1 /\ m <= Len(q) /\ back = Len(q) - m /\ back \in Nat
          /\ queue' \in Seq(Event)
          /\ \A i \in 1 .. m : r.batch[i] = q[i]
          /\ \A i \in 1 .. back : queue'[i] = q[m + i]
      <4>1. awaited = {}
        BY <2>2 DEF Ready
      <4>2. r.batch \in Seq(Event) /\ r.batch # <<>> /\ queue' \in Seq(Event)
        BY <2>2 DEF Sent, Request
      <4>3. m \in Nat /\ m >= 1 /\ back \in Nat
        BY <4>2
      <4> QED
        BY <2>2, <4>1, <4>2, <4>3 DEF Sent
    <3> HIDE DEF m, back
    <3>2. tracked' \in Nat
      BY <1>2, <1>3
    <3>3. Cut(tracked', m, back, r.batch, queue')
      <4>1. CutOf(tracked', Len(q), q, m, back, r.batch, queue')
        BY <1>2, <1>4, <3>1, <3>2 DEF CutOf
      <4> QED
        BY <4>1, CutRun
    <3>4. QueueLast' /\ FlightBefore'
      BY <3>1, <3>3 DEF QueueLast, FlightBefore, Cut, m, back
    <3>5. \A i \in 1 .. m : r.batch[i] = r.batch[1] + i - 1 /\ r.batch[i] <= tracked'
      BY <3>3 DEF Cut
    <3>6. ASSUME NEW d \in 1 .. tracked', d < r.batch[1]
          PROVE  ~Pending(d)'
      <4>1. (\A i \in 1 .. m : r.batch[i] # d) /\ (\A i \in 1 .. back : queue'[i] # d)
        BY <3>2, <3>3, <3>6 DEF Cut
      <4> QED
        BY <3>1, <4>1 DEF Pending, InQueue, InFlight, Contains, m, back
    <3>7. Behind(r)'
      BY <3>5, <3>6 DEF Behind, m
    <3>8. WireRuns'
      BY <1>5, <3>1, <3>7 DEF WireRuns
    <3> QED
      BY <3>4, <3>8
  <2> QED
    BY <2>1, <2>2 DEF Buffers
<1>7. SettledKnown'
  <2> SUFFICES ASSUME NEW e \in 1 .. tracked', ~Pending(e)'
               PROVE  Stored(e) \/ told[e] = "rejected"
    BY <1>3 DEF SettledKnown, Stored
  <2>1. e \in 1 .. tracked /\ ~Pending(e)
    BY <1>2, <1>3
  <2> QED
    BY <1>1, <2>1 DEF SettledKnown
<1>8. ToldSettled'
  <2> SUFFICES ASSUME NEW e \in Event, told[e] # "pending"
               PROVE  e <= tracked' /\ ~Pending(e)'
    BY <1>3 DEF ToldSettled
  <2>1. e <= tracked /\ ~Pending(e)
    BY <1>1 DEF ToldSettled
  <2> QED
    BY <1>2, <1>3, <2>1
<1>9. StoredDense'
  <2> SUFFICES ASSUME NEW e \in Event, Stored(e)
               PROVE  e <= tracked' /\ \A d \in 1 .. e : ~Pending(d)' \/ Stored(d)
    BY <1>3 DEF StoredDense, Stored
  <2>1. e <= tracked /\ \A d \in 1 .. e : ~Pending(d) \/ Stored(d)
    BY <1>1 DEF StoredDense
  <2>2. \A d \in 1 .. e : d # tracked + 1
    BY <1>2, <2>1
  <2>3. e <= tracked'
    BY <1>2, <1>3, <2>1
  <2> QED
    BY <1>3, <2>1, <2>2, <2>3
<1>10. InOrder'
  BY <1>1, <1>3 DEF InOrder
<1> QED
  BY <1>6, <1>7, <1>8, <1>9, <1>10

LEMMA WebEnds ==
  ASSUME EveryInv, Web, NEW r, Ends(r)
  PROVE  Web'
<1> SUFFICES ASSUME sdk = "web"
             PROVE  /\ QueueLast' /\ FlightBefore' /\ WireRuns' /\ SettledKnown'
                    /\ ToldSettled' /\ StoredDense' /\ InOrder'
  BY DEF Ends, Web
<1>1. /\ QueueLast /\ FlightBefore /\ WireRuns /\ SettledKnown /\ ToldSettled
      /\ StoredDense /\ InOrder /\ Base
  BY DEF Web, EveryInv
<1>2. /\ r \in awaited /\ awaited' = {} /\ wire' \subseteq wire
      /\ UNCHANGED <<sdk, payload, tracked, stored>> /\ Returns(r.batch)
  <2>1. r \in awaited /\ awaited' = awaited \ {r}
    BY DEF Ends
  <2>2. awaited' = {}
    BY <1>1, <2>1 DEF FlightBefore
  <2> QED
    BY <2>1, <2>2 DEF Ends
<1>3. /\ tracked \in Nat /\ Events \in Nat /\ Event = 1 .. Events
      /\ queue \in Seq(Event) /\ Len(queue) \in Nat
      /\ r.batch \in Seq(Event) /\ Len(r.batch) \in Nat
  BY <1>1, <1>2, SdkAssumption DEF Base, TypeOK, Event, Request
<1>4. stored \in Seq(Event)
  BY <1>1 DEF Base, TypeOK
<1>5. \A i \in 1 .. Len(r.batch) : r.batch[i] = tracked - Len(queue) - Len(r.batch) + i
  BY <1>1, <1>2 DEF FlightBefore
<1>6. \A e \in Event : Pending(e)' => Pending(e)
  BY <1>1, EndsKnown
<1>7. FlightBefore'
  BY <1>2 DEF FlightBefore
<1>8. QueueLast'
  <2>1. CASE queue' = queue
    BY <1>1, <1>2, <2>1 DEF QueueLast
  <2>2. CASE queue' = r.batch \o queue
    <3> DEFINE m == Len(r.batch)
               l == Len(queue)
    <3>1. /\ Len(queue') = m + l
          /\ \A i \in 1 .. m : queue'[i] = r.batch[i]
          /\ \A i \in m + 1 .. m + l : queue'[i] = queue[i - m]
      BY <1>3, <2>2
    <3>2. /\ tracked \in Nat /\ m \in Nat /\ l \in Nat
          /\ \A i \in 1 .. m : r.batch[i] = tracked - l - m + i
          /\ \A i \in 1 .. l : queue[i] = tracked - l + i
      BY <1>1, <1>3, <1>5 DEF QueueLast
    <3> HIDE DEF m, l
    <3>3. \A i \in 1 .. m : queue'[i] = tracked - (m + l) + i
      BY <3>1, <3>2
    <3>4. ASSUME NEW i \in m + 1 .. m + l
          PROVE  queue'[i] = tracked - (m + l) + i
      <4>1. i - m \in 1 .. l /\ i \in Int
        BY <3>2
      <4>2. queue[i - m] = tracked - l + (i - m)
        BY <3>2, <4>1
      <4> QED
        BY <3>1, <3>2, <4>1, <4>2
    <3>5. \A i \in 1 .. m + l : i \in 1 .. m \/ i \in m + 1 .. m + l
      BY <3>2
    <3> QED
      BY <1>2, <3>1, <3>3, <3>4, <3>5 DEF QueueLast
  <2> QED
    BY <1>2, <2>1, <2>2 DEF Returns
<1>9. WireRuns'
  <2> SUFFICES ASSUME NEW s \in wire
               PROVE  Behind(s)'
    BY <1>2 DEF WireRuns
  <2>1. Behind(s)
    BY <1>1 DEF WireRuns
  <2>2. \A d \in 1 .. tracked : d \in Event
    BY <1>1, SdkAssumption DEF Base, TypeOK, Event
  <2> QED
    BY <1>2, <1>6, <2>1, <2>2 DEF Behind
<1>10. SettledKnown'
  <2> SUFFICES ASSUME NEW e \in 1 .. tracked, ~Pending(e)'
               PROVE  Stored(e) \/ told'[e] = "rejected"
    BY <1>2 DEF SettledKnown, Stored
  <2>1. e \in Event
    BY <1>1, SdkAssumption DEF Base, TypeOK, Event
  <2>2. Pending(e) => Stored(e) \/ told'[e] = "rejected"
    BY <1>1, <2>1, EndsKnown DEF Reporting
  <2>3. ~Pending(e) => told'[e] = told[e] /\ (Stored(e) \/ told[e] = "rejected")
    BY <1>1, <2>1, EndsKnown DEF SettledKnown
  <2> QED
    BY <2>2, <2>3
<1>11. ToldSettled'
  <2> SUFFICES ASSUME NEW e \in Event, told'[e] # "pending"
               PROVE  e <= tracked /\ ~Pending(e)'
    BY <1>2 DEF ToldSettled
  <2>1. CASE told'[e] = told[e]
    BY <1>1, <1>6, <2>1 DEF ToldSettled
  <2>2. CASE told'[e] # told[e]
    <3>1. Contains(r.batch, e) /\ queue' = queue
      BY <1>2, <2>2 DEF Returns
    <3>2. PICK i \in 1 .. Len(r.batch) : r.batch[i] = e
      BY <3>1 DEF Contains
    <3>3. e = tracked - Len(queue) - Len(r.batch) + i
      BY <1>5, <3>2
    <3>4. e <= tracked - Len(queue)
      BY <1>3, <3>3
    <3>5. \A k \in 1 .. Len(queue) : queue[k] # e
      BY <1>1, <1>3, <3>4 DEF QueueLast
    <3>6. ~Pending(e)'
      BY <1>2, <3>1, <3>5 DEF Pending, InQueue, InFlight, Contains
    <3> QED
      BY <1>3, <3>4, <3>6
  <2> QED
    BY <2>1, <2>2
<1>12. StoredDense'
  <2> SUFFICES ASSUME NEW e \in Event, Stored(e)
               PROVE  e <= tracked /\ \A d \in 1 .. e : ~Pending(d)' \/ Stored(d)
    BY <1>2 DEF StoredDense, Stored
  <2>1. e <= tracked /\ \A d \in 1 .. e : ~Pending(d) \/ Stored(d)
    BY <1>1 DEF StoredDense
  <2>2. \A d \in 1 .. e : d \in Event
    BY <1>3
  <2> QED
    BY <1>6, <2>1, <2>2
<1>13. InOrder'
  <2> SUFFICES ASSUME NEW i \in DOMAIN stored, NEW j \in DOMAIN stored, i < j,
                      told'[stored[j]] # "rejected"
               PROVE  stored[i] < stored[j]
    BY <1>2 DEF InOrder
  <2>1. stored[j] \in Event
    BY <1>4
  <2>2. told[stored[j]] = "rejected" => told'[stored[j]] = "rejected"
    BY <1>1, <2>1, EndsKnown DEF ToldSettled
  <2> QED
    BY <1>1, <2>2 DEF InOrder
<1> QED
  BY <1>7, <1>8, <1>9, <1>10, <1>11, <1>12, <1>13

LEMMA WebServes ==
  ASSUME EveryInv, Web, NEW r, Serves(r)
  PROVE  Web'
<1> SUFFICES ASSUME sdk = "web"
             PROVE  /\ QueueLast' /\ FlightBefore' /\ WireRuns' /\ SettledKnown'
                    /\ ToldSettled' /\ StoredDense' /\ InOrder'
  BY DEF Serves, Web
<1>1. /\ QueueLast /\ FlightBefore /\ WireRuns /\ SettledKnown /\ ToldSettled
      /\ StoredDense /\ InOrder /\ Base
  BY DEF Web, EveryInv
<1>2. /\ r \in wire /\ wire' \subseteq wire
      /\ UNCHANGED <<sdk, payload, tracked, queue, awaited, told>>
      /\ stored' = stored \/ Inserts(stored, r.batch, Len(r.batch), stored')
  BY DEF Serves
<1>3. /\ tracked \in Nat /\ tracked <= Events /\ Events \in Nat /\ Event = 1 .. Events
      /\ stored \in Seq(Event)
      /\ r.batch \in Seq(Event) /\ r.batch # <<>> /\ Behind(r)
  BY <1>1, <1>2, SdkAssumption DEF Base, TypeOK, Event, Request, WireRuns
<1>4. /\ \A e \in Event : Stored(e) => Stored(e)'
      /\ \A e : Pending(e)' <=> Pending(e)
  BY <1>1, <1>2, ServesBase DEF Pending, InQueue, InFlight
<1>5. QueueLast' /\ FlightBefore' /\ WireRuns'
  BY <1>1, <1>2, <1>4 DEF QueueLast, FlightBefore, WireRuns, Behind
<1>6. SettledKnown'
  BY <1>1, <1>2, <1>3, <1>4 DEF SettledKnown
<1>7. ToldSettled'
  BY <1>1, <1>2, <1>4 DEF ToldSettled
<1>8. CASE stored' = stored
  <2>1. StoredDense' /\ InOrder'
    BY <1>1, <1>2, <1>4, <1>8 DEF StoredDense, InOrder, Stored
  <2> QED
    BY <1>5, <1>6, <1>7, <2>1
<1>9. CASE Inserts(stored, r.batch, Len(r.batch), stored')
  <2>1. \A i \in 1 .. Len(r.batch) :
          /\ r.batch[i] = r.batch[1] + i - 1 /\ r.batch[i] <= tracked
          /\ r.batch[i] \in Nat
    <3>1. \A i \in 1 .. Len(r.batch) : r.batch[i] \in Nat
      BY <1>3
    <3> QED
      BY <1>3, <3>1 DEF Behind
  <2>2. 1 \in 1 .. Len(r.batch) /\ r.batch[1] \in Nat /\ Len(r.batch) \in Nat
    BY <1>3
  <2>3. /\ \A e : Contains(stored', e) => Contains(stored, e) \/ Contains(r.batch, e)
        /\ \A e : Contains(r.batch, e) => Contains(stored', e)
    BY <1>3, <1>9, StoredGrows
  <2>4. ASSUME NEW e \in Event, Contains(r.batch, e)
        PROVE  e <= tracked /\ \A d \in 1 .. e : ~Pending(d) \/ Contains(stored', d)
    <3>1. PICK i \in 1 .. Len(r.batch) : r.batch[i] = e
      BY <2>4 DEF Contains
    <3>2. e <= tracked /\ e \in Nat /\ e = r.batch[1] + i - 1
      BY <2>1, <3>1
    <3>3. ASSUME NEW d \in 1 .. e, d < r.batch[1]
          PROVE  ~Pending(d)
      <4>1. d \in 1 .. tracked
        BY <1>3, <3>2
      <4> QED
        BY <1>3, <3>3, <4>1 DEF Behind
    <3>4. ASSUME NEW d \in 1 .. e, ~(d < r.batch[1])
          PROVE  Contains(stored', d)
      <4> DEFINE k == d - r.batch[1] + 1
      <4>1. k \in 1 .. Len(r.batch) /\ r.batch[1] + k - 1 = d
        <5>1. /\ d \in Nat /\ d <= e /\ e = r.batch[1] + i - 1 /\ r.batch[1] <= d
              /\ i <= Len(r.batch) /\ i \in Nat
              /\ r.batch[1] \in Nat /\ Len(r.batch) \in Nat
          BY <2>2, <3>1, <3>2, <3>4
        <5> QED
          BY ONLY <5>1
      <4>2. r.batch[k] = d
        BY <2>1, <4>1
      <4> QED
        BY <2>3, <4>1, <4>2 DEF Contains
    <3> QED
      BY <3>2, <3>3, <3>4
  <2>5. StoredDense'
    <3> SUFFICES ASSUME NEW e \in Event, Contains(stored', e)
                 PROVE  e <= tracked /\ \A d \in 1 .. e : ~Pending(d) \/ Contains(stored', d)
      BY <1>2, <1>4 DEF StoredDense, Stored
    <3>1. \A d \in 1 .. e : d \in Event
      BY <1>3
    <3>2. CASE Contains(stored, e)
      BY <1>1, <1>4, <3>1, <3>2 DEF StoredDense, Stored
    <3>3. CASE Contains(r.batch, e)
      BY <2>4, <3>3
    <3> QED
      BY <2>3, <3>2, <3>3
  <2>6. InOrder'
    <3> DEFINE m == Len(stored)
    <3>1. stored' \in Seq(Event) /\ m \in Nat /\ Len(stored') \in Nat /\ m <= Len(stored')
      BY <1>3, <1>9 DEF Inserts
    <3>2. \A i \in 1 .. m : stored'[i] = stored[i] /\ i \in DOMAIN stored
      BY <1>3, <1>9 DEF Inserts
    <3> SUFFICES ASSUME NEW i \in 1 .. Len(stored'), NEW j \in 1 .. Len(stored'), i < j,
                        told[stored'[j]] # "rejected"
                 PROVE  stored'[i] < stored'[j]
      BY <1>2, <3>1 DEF InOrder
    <3>3. stored'[i] \in Event /\ stored'[j] \in Event
      BY <3>1
    <3>4. CASE j \in 1 .. m
      <4>1. i \in 1 .. m
        BY <3>1, <3>4
      <4> QED
        BY <1>1, <3>2, <3>4, <4>1 DEF InOrder
    <3>5. CASE i \in m + 1 .. Len(stored')
      <4>1. j \in m + 1 .. Len(stored')
        BY <3>1, <3>5
      <4>2. Increasing(r.batch)
        <5>1. DOMAIN r.batch = 1 .. Len(r.batch)
          BY <1>3
        <5>2. ASSUME NEW k \in 1 .. Len(r.batch), NEW l \in 1 .. Len(r.batch), k < l
              PROVE  r.batch[k] < r.batch[l]
          <6>1. r.batch[k] = r.batch[1] + k - 1 /\ r.batch[l] = r.batch[1] + l - 1
            BY <2>1
          <6> QED
            BY <2>2, <5>2, <6>1
        <5> QED
          BY <5>1, <5>2 DEF Increasing
      <4> QED
        BY <1>9, <3>5, <4>1, <4>2 DEF Inserts
    <3>6. CASE i \in 1 .. m /\ j \in m + 1 .. Len(stored')
      <4> DEFINE e == stored'[i]
                 x == stored'[j]
      <4>1. Stored(e) /\ ~Stored(x) /\ Contains(r.batch, x)
        <5>1. Contains(stored, e)
          BY <3>2, <3>6 DEF Contains
        <5>2. ~Contains(stored, x) /\ \E l \in 1 .. Len(r.batch) : x = r.batch[l]
          BY <1>9, <3>6 DEF Inserts
        <5> QED
          BY <5>1, <5>2 DEF Stored, Contains
      <4>2. x \in 1 .. tracked /\ e \in Nat
        BY <1>3, <2>4, <3>3, <4>1
      <4>3. Pending(x)
        BY <1>1, <4>1, <4>2 DEF SettledKnown
      <4>4. ~(x \in 1 .. e)
        BY <1>1, <3>3, <4>1, <4>3 DEF StoredDense
      <4> QED
        BY <4>2, <4>4
    <3> QED
      BY <3>1, <3>4, <3>5, <3>6
  <2> QED
    BY <1>5, <1>6, <1>7, <2>5, <2>6
<1> QED
  BY <1>2, <1>8, <1>9

LEMMA WebFades ==
  ASSUME EveryInv, Web, Fades
  PROVE  Web'
<1> SUFFICES ASSUME sdk = "web"
             PROVE  /\ QueueLast' /\ FlightBefore' /\ WireRuns' /\ SettledKnown'
                    /\ ToldSettled' /\ StoredDense' /\ InOrder'
  BY DEF Fades, Web
<1>1. /\ QueueLast /\ FlightBefore /\ WireRuns /\ SettledKnown /\ ToldSettled
      /\ StoredDense /\ InOrder
  BY DEF Web
<1>2. /\ wire' \subseteq wire
      /\ UNCHANGED <<sdk, tracked, queue, awaited, stored, told>>
  BY DEF Fades
<1>3. QueueLast' /\ FlightBefore' /\ InOrder'
  BY <1>1, <1>2 DEF QueueLast, FlightBefore, InOrder
<1>4. WireRuns'
  BY <1>1, <1>2 DEF WireRuns, Behind, Pending, InQueue, InFlight
<1>5. SettledKnown' /\ ToldSettled'
  BY <1>1, <1>2 DEF SettledKnown, ToldSettled, Pending, InQueue, InFlight, Stored
<1>6. StoredDense'
  BY <1>1, <1>2 DEF StoredDense, Pending, InQueue, InFlight, Stored
<1> QED
  BY <1>3, <1>4, <1>5, <1>6

\* The server stores every event once, and those of the web SDK in the order in
\* which they were tracked (IngestBatch against flush and its retries), but for
\* those that it has reported as rejected.
THEOREM StoredInOrder == Spec => []StoredOnceInOrder
<1>1. Init => Web
  <2> SUFFICES ASSUME Init
               PROVE  Web
    OBVIOUS
  <2>1. /\ queue = <<>> /\ stored = <<>> /\ awaited = {} /\ wire = {} /\ tracked = 0
        /\ \A e \in Event : told[e] = "pending"
    BY DEF Init
  <2>2. QueueLast /\ FlightBefore /\ WireRuns /\ InOrder
    BY <2>1 DEF QueueLast, FlightBefore, WireRuns, InOrder
  <2>3. SettledKnown /\ ToldSettled /\ StoredDense
    BY <2>1 DEF SettledKnown, ToldSettled, StoredDense, Stored, Contains
  <2> QED
    BY <2>2, <2>3 DEF Web
<1>2. EveryInv /\ Web /\ [Next]_vars => Web'
  <2> SUFFICES ASSUME EveryInv, Web, [Next]_vars
               PROVE  Web'
    OBVIOUS
  <2>1. CASE Next
    BY <2>1, Steps, WebBuffers, WebEnds, WebServes, WebFades DEF EveryInv
  <2>2. CASE UNCHANGED vars
    BY <2>2 DEF vars, Web, QueueLast, FlightBefore, WireRuns, Behind, SettledKnown,
       ToldSettled, StoredDense, InOrder, Pending, InQueue, InFlight, Stored
  <2> QED
    BY <2>1, <2>2
<1>3. EveryInv /\ Web => StoredOnceInOrder
  BY DEF EveryInv, Web, Distinct, InOrder, StoredOnceInOrder
<1> QED
  BY <1>1, <1>2, <1>3, EveryInvHolds, PTL DEF Spec
=============================================================================
