----------------------------- MODULE GatewayProofs -----------------------------
(***************************************************************************)
(* What holds of the stored events for any number of requests, however     *)
(* large: an event sent again is stored once (ReplaysStoredOnce), a        *)
(* request is stored as a whole, with its actors (BatchAtomic), and its    *)
(* answer is true (AnswersTruthful).                                       *)
(*                                                                         *)
(* Rows reach the table from open requests, so the invariant speaks of     *)
(* their rows too: none of them clashes with another row, committed or     *)
(* not, the events before the one a request works on are stored, and the   *)
(* actor of a row is known but for the row inserted last.                  *)
(***************************************************************************)
EXTENDS Gateway, TLAPS

\* The part of TypeOK about the request's place and its rows.
Typed ==
  /\ rows \subseteq Rows
  /\ pc \in [Calls -> {"waiting", "event", "actor", "commit", "answered", "failed"}]
  /\ at \in [Calls -> Nat]
  /\ own \in [Calls -> SUBSET Rows]
  /\ DOMAIN ownUsers = Calls
  /\ \A c \in Calls : /\ at[c] \in DOMAIN Batch[c]
                      /\ pc[c] = "waiting" => at[c] = 1 /\ own[c] = {}
                      /\ pc[c] = "commit" => at[c] = Len(Batch[c])
                      /\ \A r \in own[c] : r.tx = c

\* The unique constraints hold of the table, and of a request's rows with the
\* table and with the rows of every other request.
NoClash ==
  /\ \A r, s \in rows : Clash(r, s) => r = s
  /\ \A c \in Calls : \A r \in own[c], s \in Visible(c) : Clash(r, s) => r = s
  /\ \A c, d \in Calls : \A r \in own[c], s \in own[d] : Clash(r, s) => c = d

\* The events of an open request whose INSERT has run.
Inserted(c) ==
  {i \in DOMAIN Batch[c] : \/ i < at[c]
                           \/ i = at[c] /\ pc[c] \in {"actor", "commit"}}

InsertedAreThere ==
  \A c \in Open : \A i \in Inserted(c) : \E r \in Visible(c) : Clash(r, Row(c, i))

ActorsAreThere ==
  \A c \in Open : \A r \in own[c] :
    \/ r.event.actor \in users \union ownUsers[c]
    \/ pc[c] = "actor" /\ r = Current(c)

IInv ==
  /\ Typed
  /\ NoClash
  /\ InsertedAreThere
  /\ ActorsAreThere
  /\ BatchAtomic

LEMMA BatchShape ==
  ASSUME NEW c \in Calls
  PROVE  /\ Len(Batch[c]) \in Nat /\ Len(Batch[c]) > 0
         /\ DOMAIN Batch[c] = 1 .. Len(Batch[c])
BY GatewayAssumption

LEMMA RowShape ==
  ASSUME NEW r \in Rows
  PROVE  r = Row(r.tx, r.pos)
BY DEF Rows, Row, Positions

LEMMA CurrentIsRow ==
  ASSUME Typed, NEW c \in Calls
  PROVE  Current(c) \in Rows /\ Current(c).tx = c
<1>1. <<c, at[c]>> \in Positions
  BY DEF Typed, Positions
<1>2. QED
  BY <1>1 DEF Current, Rows, Row

LEMMA Initially ==
  Init => IInv
<1>1. SUFFICES ASSUME Init PROVE IInv
  OBVIOUS
<1>2. \A c \in Calls : 1 \in DOMAIN Batch[c]
  BY BatchShape
<1>3. Typed
  BY <1>1, <1>2 DEF Init, Typed
<1>4. NoClash /\ BatchAtomic
  BY <1>1 DEF Init, NoClash, BatchAtomic, Visible
<1>5. InsertedAreThere /\ ActorsAreThere
  BY <1>1 DEF Init, InsertedAreThere, ActorsAreThere, Open
<1>6. QED
  BY <1>3, <1>4, <1>5 DEF IInv

\* A request that ends without committing.
LEMMA ClosedKeeps ==
  ASSUME IInv, NEW c \in Calls, Close(c, "failed"), UNCHANGED <<rows, users, at>>
  PROVE  IInv'
<1>1. /\ own'[c] = {} /\ pc'[c] = "failed"
      /\ \A d \in Calls \ {c} : own'[d] = own[d] /\ pc'[d] = pc[d] /\ ownUsers'[d] = ownUsers[d]
  BY DEF IInv, Typed, Close
<1>2. Typed'
  BY <1>1 DEF IInv, Typed, Close
<1>3. NoClash'
  BY <1>1 DEF IInv, NoClash, Visible, Clash
<1>4. \A d \in Open' : d \in Open \ {c}
  BY <1>1 DEF Open
<1>5. InsertedAreThere'
  BY <1>1, <1>4 DEF IInv, InsertedAreThere, Inserted, Visible, Clash, Open
<1>6. ActorsAreThere'
  BY <1>1, <1>4 DEF IInv, ActorsAreThere, Current, Open
<1>7. BatchAtomic'
  BY DEF IInv, BatchAtomic, Clash
<1>8. QED
  BY <1>2, <1>3, <1>5, <1>6, <1>7 DEF IInv

\* A request that goes on to its next event, or to its commit: the event it
\* leaves is stored, and the actors of its rows are known.
LEMMA GoneOnKeeps ==
  ASSUME IInv, NEW c \in Open, GoOn(c), UNCHANGED <<rows, users, own>>,
         DOMAIN ownUsers' = Calls,
         \A d \in Calls \ {c} : ownUsers'[d] = ownUsers[d],
         \E r \in Visible(c) : Clash(r, Current(c)),
         \A r \in own[c] : r.event.actor \in users \union ownUsers'[c]
  PROVE  IInv'
<1>1. c \in Calls
  BY DEF Open
<1>2. /\ at'[c] \in DOMAIN Batch[c]
      /\ pc'[c] \in {"event", "commit"}
      /\ pc'[c] = "commit" => at'[c] = Len(Batch[c])
      /\ \A i \in Inserted(c)' : i \in Inserted(c) \/ i = at[c]
      /\ at' \in [Calls -> Nat]
      /\ \A d \in Calls \ {c} : at'[d] = at[d] /\ pc'[d] = pc[d]
  <2>1. at[c] \in 1 .. Len(Batch[c]) /\ at[c] \in Nat /\ Len(Batch[c]) \in Nat
    BY <1>1, BatchShape DEF IInv, Typed
  <2>2. CASE at[c] < Len(Batch[c])
    BY <1>1, <2>1, <2>2, BatchShape DEF IInv, Typed, GoOn, Inserted
  <2>3. CASE ~(at[c] < Len(Batch[c]))
    BY <1>1, <2>1, <2>3, BatchShape DEF IInv, Typed, GoOn, Inserted
  <2>4. QED
    BY <2>2, <2>3
<1>3. Typed'
  <2>1. pc' \in [Calls -> {"waiting", "event", "actor", "commit", "answered", "failed"}]
    BY <1>1 DEF IInv, Typed, GoOn
  <2>2. QED
    BY <1>2, <2>1 DEF IInv, Typed
<1>4. NoClash' /\ BatchAtomic'
  BY DEF IInv, NoClash, BatchAtomic, Visible, Clash
<1>5. InsertedAreThere'
  BY <1>2 DEF IInv, InsertedAreThere, Inserted, Visible, Clash, Open, Current
<1>6. ActorsAreThere'
  BY <1>2 DEF IInv, ActorsAreThere, Current, Open
<1>7. QED
  BY <1>3, <1>4, <1>5, <1>6 DEF IInv

LEMMA BeginKeeps ==
  ASSUME IInv, NEW c \in Calls, Begin(c)
  PROVE  IInv'
<1>1. /\ pc[c] = "waiting" /\ at[c] = 1 /\ pc'[c] = "event"
      /\ \A d \in Calls \ {c} : pc'[d] = pc[d]
      /\ UNCHANGED <<rows, users, at, own, ownUsers>>
  BY DEF IInv, Typed, Begin
<1>2. Typed'
  BY <1>1 DEF IInv, Typed, Begin
<1>3. NoClash' /\ BatchAtomic'
  BY <1>1 DEF IInv, NoClash, BatchAtomic, Visible, Clash
<1>4. Inserted(c)' = {}
  BY <1>1, BatchShape DEF Inserted
<1>5. InsertedAreThere'
  BY <1>1, <1>4 DEF IInv, InsertedAreThere, Inserted, Visible, Clash, Open
<1>6. ActorsAreThere'
  BY <1>1 DEF IInv, Typed, ActorsAreThere, Current, Open
<1>7. QED
  BY <1>2, <1>3, <1>5, <1>6 DEF IInv

LEMMA InsertEventKeeps ==
  ASSUME IInv, NEW c \in Calls, InsertEvent(c)
  PROVE  IInv'
<1>1. /\ pc[c] = "event" /\ c \in Open
      /\ UNCHANGED <<rows, users, ownUsers>>
  BY DEF InsertEvent, Open, Store
<1>2. CASE IsReplay(c)
  <2>1. GoOn(c) /\ own' = own
    BY <1>2 DEF InsertEvent
  <2>2. \A r \in own[c] : r.event.actor \in users \union ownUsers[c]
    BY <1>1 DEF IInv, ActorsAreThere
  <2>3. QED
    BY <1>1, <1>2, <2>1, <2>2, GoneOnKeeps DEF IsReplay, IInv, Typed
<1>3. CASE ~IsReplay(c)
  <2> DEFINE new == Current(c)
  <2>1. /\ own' = [own EXCEPT ![c] = @ \union {new}]
        /\ pc' = [pc EXCEPT ![c] = "actor"]
        /\ at' = at
    BY <1>3 DEF InsertEvent, Store
  <2>2. /\ own'[c] = own[c] \union {new} /\ pc'[c] = "actor"
        /\ \A d \in Calls \ {c} : own'[d] = own[d] /\ pc'[d] = pc[d]
    BY <2>1 DEF IInv, Typed
  <2>3. new \in Rows /\ new.tx = c
    BY CurrentIsRow DEF IInv
  <2>4. /\ \A r \in Visible(c) : ~Clash(r, new)
        /\ \A d \in Calls \ {c} : \A r \in own[d] : ~Clash(r, new)
    BY <1>1, <1>3 DEF IsReplay, InsertEvent, WaitsFor
  <2>5. \A r : ~Clash(r, new) => ~Clash(new, r)
    BY DEF Clash
  <2>6. Typed'
    BY <1>1, <2>1, <2>2, <2>3 DEF IInv, Typed
  <2>7. NoClash'
    <3>1. \A r, s : Clash(r, s)' = Clash(r, s)
      BY DEF Clash
    <3>2. \A d \in Calls : \A r \in own'[d], s \in rows \union own'[d] : Clash(r, s) => r = s
      BY <2>2, <2>4, <2>5 DEF IInv, NoClash, Visible
    <3>3. \A d, b \in Calls : \A r \in own'[d], s \in own'[b] : Clash(r, s) => d = b
      BY <2>2, <2>4, <2>5 DEF IInv, NoClash
    <3>4. QED
      BY <1>1, <3>1, <3>2, <3>3 DEF IInv, NoClash, Visible
  <2>8. InsertedAreThere'
    <3>1. SUFFICES ASSUME NEW d \in Open', NEW i \in Inserted(d)'
                   PROVE  \E r \in rows \union own'[d] : Clash(r, Row(d, i))
      BY <1>1 DEF InsertedAreThere, Visible, Clash, Row
    <3>2. CASE d = c /\ i = at[c]
      BY <2>2, <3>2 DEF Current, Clash
    <3>3. CASE ~(d = c /\ i = at[c])
      <4>1. d \in Open /\ i \in Inserted(d)
        BY <1>1, <2>1, <2>2, <3>3 DEF Open, Inserted
      <4>2. QED
        BY <2>2, <4>1 DEF IInv, InsertedAreThere, Visible, Open
    <3>4. QED
      BY <3>2, <3>3
  <2>9. ActorsAreThere'
    <3>1. SUFFICES ASSUME NEW d \in Open', NEW r \in own'[d]
                   PROVE  \/ r.event.actor \in users \union ownUsers[d]
                          \/ pc'[d] = "actor" /\ r = Current(d)
      BY <1>1, <2>1 DEF ActorsAreThere, Current
    <3>2. d \in Open
      BY <1>1, <2>2 DEF Open
    <3>3. QED
      BY <1>1, <2>2, <3>2 DEF IInv, ActorsAreThere, Open
  <2>10. BatchAtomic'
    BY <1>1 DEF IInv, BatchAtomic, Clash
  <2>11. QED
    BY <2>6, <2>7, <2>8, <2>9, <2>10 DEF IInv
<1>4. QED
  BY <1>2, <1>3

LEMMA InsertActorKeeps ==
  ASSUME IInv, NEW c \in Calls, InsertActor(c)
  PROVE  IInv'
<1>1. /\ pc[c] = "actor" /\ c \in Open /\ GoOn(c)
      /\ UNCHANGED <<rows, users, own>>
  BY DEF InsertActor, Open
<1>2. /\ DOMAIN ownUsers' = Calls
      /\ \A d \in Calls \ {c} : ownUsers'[d] = ownUsers[d]
      /\ users \union ownUsers'[c] = users \union ownUsers[c] \union {Current(c).event.actor}
  BY DEF IInv, Typed, InsertActor, Provision
<1>3. \E r \in Visible(c) : Clash(r, Current(c))
  <2>1. at[c] \in Inserted(c)
    BY <1>1 DEF IInv, Typed, Inserted
  <2>2. QED
    BY <1>1, <2>1 DEF IInv, InsertedAreThere, Current
<1>4. \A r \in own[c] : r.event.actor \in users \union ownUsers'[c]
  BY <1>1, <1>2 DEF IInv, ActorsAreThere
<1>5. QED
  BY <1>1, <1>2, <1>3, <1>4, GoneOnKeeps

LEMMA CommitKeeps ==
  ASSUME IInv, NEW c \in Calls, Commit(c)
  PROVE  IInv'
<1>1. /\ pc[c] = "commit" /\ c \in Open /\ at' = at
      /\ rows' = rows \union own[c]
      /\ users' = users \union ownUsers[c]
  BY DEF Commit, Open
<1>2. PICK how \in {"answered", "failed"} : Close(c, how)
  BY DEF Commit
<1>3. /\ own'[c] = {} /\ pc'[c] = how
      /\ \A d \in Calls \ {c} : own'[d] = own[d] /\ pc'[d] = pc[d] /\ ownUsers'[d] = ownUsers[d]
  BY <1>2 DEF IInv, Typed, Close
<1>4. Typed'
  BY <1>1, <1>2, <1>3 DEF IInv, Typed, Close
<1>5. NoClash'
  <2>1. \A r, s : Clash(r, s)' = Clash(r, s) /\ (Clash(r, s) <=> Clash(s, r))
    BY DEF Clash
  <2>2. \A r, s \in rows' : Clash(r, s) => r = s
    BY <1>1, <2>1 DEF IInv, NoClash, Visible
  <2>3. \A d \in Calls : \A r \in own'[d], s \in rows' \union own'[d] : Clash(r, s) => r = s
    BY <1>1, <1>3 DEF IInv, NoClash, Visible
  <2>4. \A d, b \in Calls : \A r \in own'[d], s \in own'[b] : Clash(r, s) => d = b
    BY <1>3 DEF IInv, NoClash
  <2>5. QED
    BY <2>1, <2>2, <2>3, <2>4 DEF NoClash, Visible
<1>6. \A d \in Open' : d \in Open \ {c} /\ d \in Calls
  BY <1>3 DEF Open
<1>7. InsertedAreThere'
  <2>1. SUFFICES ASSUME NEW d \in Open', NEW i \in Inserted(d)'
                 PROVE  \E r \in rows' \union own'[d] : Clash(r, Row(d, i))
    BY DEF InsertedAreThere, Visible, Clash, Row
  <2>2. d \in Open \ {c} /\ i \in Inserted(d) /\ own'[d] = own[d]
    BY <1>1, <1>3, <1>6 DEF Inserted
  <2>3. QED
    BY <1>1, <2>2 DEF IInv, InsertedAreThere, Visible
<1>8. ActorsAreThere'
  BY <1>1, <1>3, <1>6 DEF IInv, ActorsAreThere, Current
<1>9. BatchAtomic'
  <2>1. \A r, s : Clash(r, s)' = Clash(r, s)
    BY DEF Clash
  <2>2. ASSUME NEW d \in Calls, NEW r \in rows', r.tx = d, NEW i \in DOMAIN Batch[d]
        PROVE  \E s \in rows' : Clash(s, Row(d, i))
    <3>1. CASE r \in rows
      BY <1>1, <2>2, <3>1 DEF IInv, BatchAtomic
    <3>2. CASE r \in own[c]
      <4>1. d = c
        BY <2>2, <3>2 DEF IInv, Typed
      <4>2. i \in Inserted(c)
        BY <1>1, <2>2, <4>1, BatchShape DEF IInv, Typed, Inserted
      <4>3. QED
        BY <1>1, <4>1, <4>2 DEF IInv, InsertedAreThere, Visible
    <3>3. QED
      BY <1>1, <2>2, <3>1, <3>2
  <2>3. \A r \in rows' : r.event.actor \in users'
    BY <1>1 DEF IInv, BatchAtomic, ActorsAreThere
  <2>4. QED
    BY <2>1, <2>2, <2>3 DEF BatchAtomic, Row, Clash
<1>10. QED
  BY <1>4, <1>5, <1>7, <1>8, <1>9 DEF IInv

LEMMA StepKeeps ==
  ASSUME IInv, [Next]_vars
  PROVE  IInv'
<1>1. ASSUME NEW c \in Calls, Advance(c) PROVE IInv'
  <2>1. CASE Deadlock(c)
    BY <2>1, ClosedKeeps DEF Deadlock
  <2>2. QED
    BY <1>1, <2>1, InsertEventKeeps, InsertActorKeeps, CommitKeeps DEF Advance
<1>2. ASSUME NEW c \in Calls, Lose(c) PROVE IInv'
  BY <1>2, ClosedKeeps DEF Lose
<1>3. CASE UNCHANGED vars
  BY <1>3 DEF vars, IInv, Typed, NoClash, InsertedAreThere, Inserted, ActorsAreThere,
              BatchAtomic, Visible, Clash, Open, Current
<1>4. QED
  BY <1>1, <1>2, <1>3, BeginKeeps DEF Next

LEMMA InvariantHolds ==
  Spec => []IInv
BY Initially, StepKeeps, PTL DEF Spec

\* An event without an idempotency key gets the fingerprint of its content, so
\* that the same event has the same key whenever and by whomever it is sent.
LEMMA SameEventSameKey ==
  ASSUME NEW r \in Rows, NEW s \in Rows, Batch[r.tx][r.pos] = Batch[s.tx][s.pos]
  PROVE  Clash(r, s)
<1>1. r.event.key = s.event.key
  BY RowShape DEF Row, Normal, Fingerprint
<1>2. QED
  BY <1>1 DEF Clash

\* An event a client sends again unchanged is stored once, for any number of
\* requests, orders and failures (Normalize and the constraints of events).
THEOREM EventsStoredOnce ==
  Spec => []ReplaysStoredOnce
<1>1. IInv => ReplaysStoredOnce
  BY SameEventSameKey DEF IInv, Typed, NoClash, ReplaysStoredOnce
<1>2. QED
  BY <1>1, InvariantHolds, PTL

\* A request is stored as a whole, as its own rows or as replays, and never
\* without its actors (IngestBatch).
THEOREM RequestsWhole ==
  Spec => []BatchAtomic
BY InvariantHolds, PTL DEF IInv
-----------------------------------------------------------------------------
\* What a request may be told about its event i: a row that holds the event's
\* id or key, "inserted" exactly if it is the row this request stored.
Truthful(c, i) ==
  \E r \in Visible(c) :
    /\ r.event.id = results[c][i].id
    /\ Clash(r, Row(c, i))
    /\ results[c][i].status = "inserted" <=> r = Row(c, i)

\* The request's own rows are those of the events it has inserted, and none of
\* its rows is in the table before it commits: an event about to be inserted is
\* not yet there as itself, so that a clash is always with another event.
OwnRows(c) ==
  /\ \A r \in own[c] : r.pos < at[c] \/ (r.pos = at[c] /\ pc[c] # "event")
  /\ (\E r \in rows : r.tx = c) => pc[c] \in {"answered", "failed"}

\* What an IngestResult may hold.
IngestResult == [id : Ids, status : {"inserted", "duplicate"}]

\* One result for each event whose INSERT has run, and each of them truthful.
Answers(c) ==
  /\ results[c] \in Seq(IngestResult)
  /\ pc[c] = "waiting" => results[c] = <<>>
  /\ pc[c] \in {"answered", "failed"} => own[c] = {}
  /\ pc[c] = "answered" => at[c] = Len(Batch[c])
  /\ c \in Open \/ pc[c] = "answered" =>
       /\ Len(results[c]) = IF pc[c] = "event" THEN at[c] - 1 ELSE at[c]
       /\ \A i \in 1 .. Len(results[c]) : Truthful(c, i)

AInv ==
  /\ results \in [Calls -> Seq(IngestResult)]
  /\ \A c \in Calls : OwnRows(c) /\ Answers(c)

LEMMA InitiallyTruthful ==
  Init => AInv
BY DEF Init, AInv, OwnRows, Answers, Open

LEMMA PositionsTyped ==
  ASSUME NEW r \in Rows
  PROVE  r.pos \in Int
<1>1. PICK p \in Positions : r = Row(p[1], p[2])
  BY DEF Rows
<1>2. p[2] \in Int
  BY BatchShape DEF Positions
<1>3. QED
  BY <1>1, <1>2 DEF Row

\* The step of one request leaves what the others were told as it was.
LEMMA OthersTruthful ==
  ASSUME IInv, AInv, NEW c \in Calls, NEW d \in Calls \ {c},
         pc'[d] = pc[d], at'[d] = at[d], own'[d] = own[d], results'[d] = results[d],
         rows \subseteq rows', rows' \subseteq rows \union own[c]
  PROVE  OwnRows(d)' /\ Answers(d)'
<1>1. \A r \in rows' : r.tx = d => r \in rows
  BY DEF IInv, Typed
<1>2. OwnRows(d)'
  BY <1>1 DEF AInv, OwnRows
<1>3. ASSUME NEW i \in 1 .. Len(results[d]), Truthful(d, i) PROVE Truthful(d, i)'
  BY <1>3 DEF Truthful, Visible, Clash, Row
<1>4. QED
  BY <1>2, <1>3 DEF AInv, Answers, Open

LEMMA ClosedTruthful ==
  ASSUME IInv, AInv, NEW c \in Calls, Close(c, "failed"), UNCHANGED <<rows, users, at, results>>
  PROVE  AInv'
<1>1. /\ own'[c] = {} /\ pc'[c] = "failed"
      /\ \A d \in Calls \ {c} : own'[d] = own[d] /\ pc'[d] = pc[d]
  BY DEF IInv, Typed, Close
<1>2. OwnRows(c)' /\ Answers(c)'
  BY <1>1 DEF AInv, OwnRows, Answers, Open
<1>3. QED
  BY <1>1, <1>2, OthersTruthful DEF AInv

LEMMA BeginTruthful ==
  ASSUME IInv, AInv, NEW c \in Calls, Begin(c)
  PROVE  AInv'
<1>1. /\ pc[c] = "waiting" /\ at[c] = 1 /\ pc'[c] = "event" /\ own[c] = {}
      /\ \A d \in Calls \ {c} : pc'[d] = pc[d]
      /\ UNCHANGED <<rows, users, at, own, ownUsers, results>>
  BY DEF IInv, Typed, Begin
<1>2. results[c] = <<>> /\ results[c] \in Seq(IngestResult)
  BY <1>1 DEF AInv, Answers
<1>3. OwnRows(c)' /\ Answers(c)'
  BY <1>1, <1>2 DEF AInv, OwnRows, Answers, Open
<1>4. QED
  BY <1>1, <1>3, OthersTruthful DEF AInv

\* The row an event is told to be a duplicate of holds the reported id, and is
\* another event's row.
LEMMA ReportedIsThere ==
  ASSUME IInv, AInv, NEW c \in Calls, pc[c] = "event", IsReplay(c)
  PROVE  /\ Reported(c) \in Ids
         /\ \E r \in Visible(c) : /\ r.event.id = Reported(c)
                                  /\ Clash(r, Current(c))
                                  /\ r # Current(c)
<1> DEFINE holders == {r \in Visible(c) : r.event.key = Current(c).event.key}
<1>1. Current(c) \notin Visible(c)
  <2>1. Current(c).tx = c /\ Current(c).pos = at[c]
    BY DEF Current, Row
  <2>2. Current(c) \notin rows
    BY <2>1 DEF AInv, OwnRows
  <2>3. at[c] \in Nat
    BY DEF IInv, Typed
  <2>4. Current(c) \notin own[c]
    BY <2>1, <2>3 DEF AInv, OwnRows
  <2>5. QED
    BY <2>2, <2>4 DEF Visible
<1>2. \A r \in Visible(c) : r.event.id \in Ids
  BY DEF IInv, Typed, Visible, Ids
<1>3. CASE holders = {}
  <2>1. Reported(c) = Current(c).event.id
    BY <1>3 DEF Reported
  <2>2. PICK r \in Visible(c) : Clash(r, Current(c))
    BY DEF IsReplay
  <2>3. r.event.id = Current(c).event.id
    BY <1>3, <2>2 DEF Clash
  <2>4. QED
    BY <1>1, <1>2, <2>1, <2>2, <2>3
<1>4. CASE holders # {}
  <2> DEFINE h == CHOOSE r \in holders : TRUE
  <2>1. h \in holders
    BY <1>4
  <2>2. Reported(c) = h.event.id
    BY <1>4 DEF Reported
  <2>3. QED
    BY <1>1, <1>2, <2>1, <2>2 DEF Clash
<1>5. QED
  BY <1>3, <1>4

\* A result appended for the current event is the only one that is new.
LEMMA AppendTruthful ==
  ASSUME IInv, AInv, NEW c \in Open, pc[c] = "event",
         NEW res \in IngestResult,
         results' = [results EXCEPT ![c] = Append(@, res)],
         rows' = rows, own[c] \subseteq own'[c],
         \E r \in rows \union own'[c] :
            /\ r.event.id = res.id
            /\ Clash(r, Current(c))
            /\ res.status = "inserted" <=> r = Current(c)
  PROVE  /\ results' \in [Calls -> Seq(IngestResult)]
         /\ \A d \in Calls \ {c} : results'[d] = results[d]
         /\ Len(results'[c]) = at[c]
         /\ \A i \in 1 .. Len(results'[c]) : Truthful(c, i)'
<1>1. c \in Calls
  BY DEF Open
<1>2. /\ results[c] \in Seq(IngestResult)
      /\ Len(results[c]) = at[c] - 1
      /\ \A i \in 1 .. Len(results[c]) : Truthful(c, i)
  BY <1>1 DEF AInv, Answers
<1>3. at[c] \in Nat
  BY <1>1 DEF IInv, Typed
<1>4. results'[c] = Append(results[c], res)
  BY <1>1 DEF AInv
<1>5. /\ Len(results'[c]) = at[c]
      /\ results'[c][at[c]] = res
      /\ \A i \in 1 .. Len(results[c]) : results'[c][i] = results[c][i]
  BY <1>2, <1>3, <1>4
<1>6. ASSUME NEW i \in 1 .. Len(results[c]) PROVE Truthful(c, i)'
  BY <1>2, <1>5, <1>6 DEF Truthful, Visible, Clash, Row
<1>7. ASSUME NEW i, i = at[c] PROVE Truthful(c, i)'
  BY <1>5, <1>7 DEF Truthful, Visible, Clash, Row, Current
<1>8. \A i \in 1 .. Len(results'[c]) : i \in 1 .. Len(results[c]) \/ i = at[c]
  BY <1>2, <1>3, <1>5
<1>9. results' \in [Calls -> Seq(IngestResult)]
  BY <1>1, <1>2 DEF AInv
<1>10. QED
  BY <1>1, <1>5, <1>6, <1>7, <1>8, <1>9 DEF AInv

LEMMA GoOnMoves ==
  ASSUME IInv, NEW c \in Calls, GoOn(c)
  PROVE  /\ \A d \in Calls \ {c} : at'[d] = at[d] /\ pc'[d] = pc[d]
         /\ pc'[c] \in {"event", "commit"} /\ at[c] \in Nat /\ at'[c] \in Nat
         /\ at'[c] = IF pc'[c] = "event" THEN at[c] + 1 ELSE at[c]
BY BatchShape DEF IInv, Typed, GoOn

LEMMA InsertEventTruthful ==
  ASSUME IInv, AInv, NEW c \in Calls, InsertEvent(c)
  PROVE  AInv'
<1>1. pc[c] = "event" /\ c \in Open /\ rows' = rows
  BY DEF InsertEvent, Open, Store
<1>2. at[c] \in Nat /\ \A r \in own[c] : r.pos \in Int /\ r.pos < at[c]
  BY <1>1, PositionsTyped DEF IInv, Typed, AInv, OwnRows
<1>3. CASE IsReplay(c)
  <2> DEFINE res == [id |-> Reported(c), status |-> "duplicate"]
  <2>1. /\ results' = [results EXCEPT ![c] = Append(@, res)]
        /\ GoOn(c) /\ own' = own
    BY <1>3 DEF InsertEvent
  <2>2. \E r \in rows \union own'[c] :
          /\ r.event.id = res.id
          /\ Clash(r, Current(c))
          /\ res.status = "inserted" <=> r = Current(c)
    BY <1>1, <1>3, <2>1, ReportedIsThere DEF Visible
  <2>3. res \in IngestResult
    BY <1>1, <1>3, ReportedIsThere DEF IngestResult
  <2> HIDE DEF res
  <2>4. /\ results' \in [Calls -> Seq(IngestResult)]
        /\ \A d \in Calls \ {c} : results'[d] = results[d]
        /\ Len(results'[c]) = at[c]
        /\ \A i \in 1 .. Len(results'[c]) : Truthful(c, i)'
    BY <1>1, <2>1, <2>2, <2>3, AppendTruthful
  <2>5. Answers(c)'
    BY <2>1, <2>4, GoOnMoves DEF Answers
  <2>6. OwnRows(c)'
    BY <1>1, <1>2, <2>1, GoOnMoves DEF AInv, OwnRows
  <2>7. QED
    BY <1>1, <2>1, <2>4, <2>5, <2>6, GoOnMoves, OthersTruthful DEF AInv
<1>4. CASE ~IsReplay(c)
  <2> DEFINE res == [id |-> Current(c).event.id, status |-> "inserted"]
  <2>1. /\ results' = [results EXCEPT ![c] = Append(@, res)]
        /\ own' = [own EXCEPT ![c] = @ \union {Current(c)}]
        /\ pc' = [pc EXCEPT ![c] = "actor"] /\ at' = at
    BY <1>4 DEF InsertEvent, Store
  <2>2. /\ own'[c] = own[c] \union {Current(c)} /\ pc'[c] = "actor"
        /\ \A d \in Calls \ {c} : own'[d] = own[d] /\ pc'[d] = pc[d]
    BY <2>1 DEF IInv, Typed
  <2>3. \E r \in rows \union own'[c] :
          /\ r.event.id = res.id
          /\ Clash(r, Current(c))
          /\ res.status = "inserted" <=> r = Current(c)
    BY <2>2 DEF Clash
  <2>4. res \in IngestResult
    BY CurrentIsRow DEF IInv, Ids, IngestResult
  <2> HIDE DEF res
  <2>5. /\ results' \in [Calls -> Seq(IngestResult)]
        /\ \A d \in Calls \ {c} : results'[d] = results[d]
        /\ Len(results'[c]) = at[c]
        /\ \A i \in 1 .. Len(results'[c]) : Truthful(c, i)'
    BY <1>1, <2>1, <2>2, <2>3, <2>4, AppendTruthful
  <2>6. Answers(c)'
    BY <2>1, <2>2, <2>5 DEF Answers
  <2>7. OwnRows(c)'
    <3>1. Current(c).pos = at[c] /\ Current(c).tx = c
      BY DEF Current, Row
    <3>2. \A r \in own'[c] : r.pos < at[c] \/ r.pos = at[c]
      BY <1>2, <2>2, <3>1
    <3>3. ~(\E r \in rows : r.tx = c)
      BY <1>1 DEF AInv, OwnRows
    <3>4. QED
      BY <1>1, <2>1, <2>2, <3>2, <3>3 DEF OwnRows
  <2>8. QED
    BY <1>1, <2>1, <2>2, <2>5, <2>6, <2>7, OthersTruthful DEF AInv
<1>5. QED
  BY <1>3, <1>4

LEMMA InsertActorTruthful ==
  ASSUME IInv, AInv, NEW c \in Calls, InsertActor(c)
  PROVE  AInv'
<1>1. /\ pc[c] = "actor" /\ c \in Open /\ GoOn(c)
      /\ UNCHANGED <<rows, users, own, results>>
  BY DEF InsertActor, Open
<1>2. \A r \in own[c] : r.pos \in Int
  BY PositionsTyped DEF IInv, Typed
<1>3. OwnRows(c)'
  BY <1>1, <1>2, GoOnMoves DEF AInv, OwnRows
<1>4. \A i \in 1 .. Len(results[c]) : Truthful(c, i)'
  BY <1>1 DEF AInv, Answers, Truthful, Visible, Clash, Row
<1>5. Answers(c)'
  <2>1. /\ results'[c] \in Seq(IngestResult)
        /\ Len(results'[c]) = at[c]
    BY <1>1 DEF AInv, Answers
  <2>2. QED
    BY <1>1, <1>4, <2>1, GoOnMoves DEF Answers
<1>6. QED
  BY <1>1, <1>3, <1>5, GoOnMoves, OthersTruthful DEF AInv

LEMMA CommitTruthful ==
  ASSUME IInv, AInv, NEW c \in Calls, Commit(c)
  PROVE  AInv'
<1>1. /\ pc[c] = "commit" /\ c \in Open /\ at' = at /\ results' = results
      /\ rows' = rows \union own[c] /\ at[c] = Len(Batch[c])
  BY DEF Commit, Open, IInv, Typed
<1>2. PICK how \in {"answered", "failed"} : Close(c, how)
  BY DEF Commit
<1>3. /\ own'[c] = {} /\ pc'[c] = how
      /\ \A d \in Calls \ {c} : own'[d] = own[d] /\ pc'[d] = pc[d]
  BY <1>2 DEF IInv, Typed, Close
<1>4. OwnRows(c)'
  BY <1>1, <1>3 DEF OwnRows
<1>5. \A i \in 1 .. Len(results[c]) : Truthful(c, i)'
  BY <1>1, <1>3 DEF AInv, Answers, Truthful, Visible, Clash, Row
<1>6. Answers(c)'
  BY <1>1, <1>3, <1>5 DEF AInv, Answers, Open
<1>7. QED
  BY <1>1, <1>3, <1>4, <1>6, OthersTruthful DEF AInv

LEMMA StepTruthful ==
  ASSUME IInv, AInv, [Next]_vars
  PROVE  AInv'
<1>1. ASSUME NEW c \in Calls, Advance(c) PROVE AInv'
  BY <1>1, ClosedTruthful, InsertEventTruthful, InsertActorTruthful, CommitTruthful
     DEF Advance, Deadlock
<1>2. ASSUME NEW c \in Calls, Lose(c) PROVE AInv'
  BY <1>2, ClosedTruthful DEF Lose
<1>3. CASE UNCHANGED vars
  <2>1. \A c \in Calls : OwnRows(c) => OwnRows(c)'
    BY <1>3 DEF vars, OwnRows
  <2>2. \A c \in Calls : Answers(c) => Answers(c)'
    BY <1>3 DEF vars, Answers, Truthful, Visible, Clash, Open, Row
  <2>3. QED
    BY <1>3, <2>1, <2>2 DEF vars, AInv
<1>4. QED
  BY <1>1, <1>2, <1>3, BeginTruthful DEF Next

\* Whatever an answered request was told of an event is true of the stored
\* events, however many requests send the same events at once (insertEvent and
\* the IngestResults of IngestBatch).
THEOREM ResultsTruthful ==
  Spec => []AnswersTruthful
<1>1. Spec => []AInv
  BY Initially, StepKeeps, InitiallyTruthful, StepTruthful, PTL DEF Spec
<1>2. ASSUME IInv, AInv PROVE AnswersTruthful
  <2>1. SUFFICES ASSUME NEW c \in Calls, pc[c] = "answered", NEW i \in DOMAIN Batch[c]
                 PROVE  \E r \in rows :
                          /\ r.event.id = results[c][i].id
                          /\ Clash(r, Row(c, i))
                          /\ results[c][i].status = "inserted" <=> r = Row(c, i)
    BY DEF AnswersTruthful
  <2>2. i \in 1 .. Len(results[c]) /\ own[c] = {}
    BY <1>2, <2>1, BatchShape DEF AInv, Answers
  <2>3. Len(results[c]) = Len(Batch[c]) /\ \A j \in 1 .. Len(results[c]) : Truthful(c, j)
    BY <1>2, <2>1 DEF AInv, Answers
  <2>4. QED
    BY <2>2, <2>3 DEF Truthful, Visible
<1>3. QED
  BY <1>1, <1>2, InvariantHolds, PTL
===============================================================================
