------------------------------ MODULE Gateway ------------------------------
(***************************************************************************)
(* The event gateway: Normalize, IngestBatch and insertEvent, called by    *)
(* IngestEvents and executed by concurrent requests.                       *)
(*                                                                         *)
(* A batch is one READ COMMITTED transaction of one INSERT per event and   *)
(* one per first-seen actor.  An INSERT that meets a committed row with    *)
(* the same event id or idempotency key does nothing; one that meets an    *)
(* uncommitted row of another transaction waits for it.  The database      *)
(* aborts a transaction of a cycle of waits.                               *)
(***************************************************************************)
EXTENDS Integers, Sequences, FiniteSets

CONSTANTS
  Calls,   \* the requests
  Batch,   \* Batch[c]: sequence of events as the client sent them
  MaxOpen, \* bound: transactions open at the same time
  None     \* an absent field

\* id, key and when (occurred_at) may be None; body is everything else.
Sent == UNION {{Batch[c][i] : i \in DOMAIN Batch[c]} : c \in Calls}

ASSUME GatewayAssumption ==
  /\ \A c \in Calls : Batch[c] \in Seq(Sent) /\ Batch[c] # <<>>
  /\ MaxOpen \in Nat

\* Mutated form: occurred_at is part of the fingerprint even when the server
\* filled it in.
FingerprintOfArrival(c, i, e) ==
  [body |-> e.body, actor |-> e.actor,
   when |-> IF e.when = None THEN <<c, i>> ELSE e.when]

\* contentFingerprint
Fingerprint(c, i, e) == [body |-> e.body, actor |-> e.actor, when |-> e.when]

\* Normalize: a missing id is generated, a missing key is the fingerprint.
Normal(c, i) ==
  LET e == Batch[c][i] IN
  [id |-> IF e.id = None THEN <<c, i>> ELSE e.id,
   key |-> IF e.key = None THEN Fingerprint(c, i, e) ELSE e.key,
   actor |-> e.actor]

Positions == UNION {{<<c, i>> : i \in DOMAIN Batch[c]} : c \in Calls}
Row(c, i) == [tx |-> c, pos |-> i, event |-> Normal(c, i)]
Rows == {Row(p[1], p[2]) : p \in Positions}
Actors == {r.event.actor : r \in Rows}
Ids == {r.event.id : r \in Rows}

VARIABLES
  rows,     \* the committed events
  users,    \* the committed users rows
  pc,       \* per request: the next statement, or how it ended
  at,       \* per request: the event it works on
  own,      \* per request: its uncommitted events
  ownUsers, \* per request: its uncommitted users rows
  results   \* per request: the IngestResults so far

vars == <<rows, users, pc, at, own, ownUsers, results>>

Open == {c \in Calls : pc[c] \in {"event", "actor", "commit"}}

TypeOK ==
  /\ rows \subseteq Rows
  /\ users \subseteq Actors
  /\ pc \in [Calls -> {"waiting", "event", "actor", "commit", "answered", "failed"}]
  /\ at \in [Calls -> Nat]
  /\ \A c \in Calls : at[c] \in DOMAIN Batch[c]
  /\ own \in [Calls -> SUBSET Rows]
  /\ ownUsers \in [Calls -> SUBSET Actors]
  /\ results \in [Calls -> Seq([id : Ids, status : {"inserted", "duplicate"}])]

Init ==
  /\ rows = {}
  /\ users = {}
  /\ pc = [c \in Calls |-> "waiting"]
  /\ at = [c \in Calls |-> 1]
  /\ own = [c \in Calls |-> {}]
  /\ ownUsers = [c \in Calls |-> {}]
  /\ results = [c \in Calls |-> <<>>]
-----------------------------------------------------------------------------
Begin(c) ==
  /\ pc[c] = "waiting"
  /\ Cardinality(Open) < MaxOpen
  /\ pc' = [pc EXCEPT ![c] = "event"]
  /\ UNCHANGED <<rows, users, at, own, ownUsers, results>>

GoOn(c) ==
  IF at[c] < Len(Batch[c])
  THEN /\ at' = [at EXCEPT ![c] = @ + 1]
       /\ pc' = [pc EXCEPT ![c] = "event"]
  ELSE /\ pc' = [pc EXCEPT ![c] = "commit"]
       /\ UNCHANGED at

\* Mutated form: an aborted transaction keeps its rows, and who waits for them.
CloseKeepsRows(c, how) ==
  /\ pc' = [pc EXCEPT ![c] = how]
  /\ UNCHANGED <<own, ownUsers>>

Close(c, how) ==
  /\ pc' = [pc EXCEPT ![c] = how]
  /\ own' = [own EXCEPT ![c] = {}]
  /\ ownUsers' = [ownUsers EXCEPT ![c] = {}]

\* The unique constraints of the events table.
Clash(r, s) == r.event.id = s.event.id \/ r.event.key = s.event.key

Visible(c) == rows \union own[c]
Current(c) == Row(c, at[c])
IsReplay(c) == \E r \in Visible(c) : Clash(r, Current(c))

\* The transactions c has to wait for.
WaitsFor(c) ==
  CASE pc[c] = "event" /\ ~IsReplay(c) ->
         {d \in Calls \ {c} : \E r \in own[d] : Clash(r, Current(c))}
    [] pc[c] = "actor" /\ Current(c).event.actor \notin users \union ownUsers[c] ->
         {d \in Calls \ {c} : Current(c).event.actor \in ownUsers[d]}
    [] OTHER -> {}

\* Mutated form: the insert does not run in the batch's transaction.
StoreAtOnce(c) ==
  /\ rows' = rows \union {Current(c)}
  /\ UNCHANGED own

Store(c) ==
  /\ own' = [own EXCEPT ![c] = @ \union {Current(c)}]
  /\ UNCHANGED rows

\* Mutated form: a duplicate is reported with the id generated for it.
ReportedOwn(c) == Current(c).event.id

\* The id of the row that holds the key, the event's own id if none does.
Reported(c) ==
  LET holders == {r \in Visible(c) : r.event.key = Current(c).event.key}
  IN IF holders = {} THEN Current(c).event.id ELSE (CHOOSE r \in holders : TRUE).event.id

\* insertEvent, and the result appended by IngestBatch.
InsertEvent(c) ==
  /\ pc[c] = "event"
  /\ WaitsFor(c) = {}
  /\ IF IsReplay(c)
     THEN /\ results' = [results EXCEPT ![c] =
                           Append(@, [id |-> Reported(c), status |-> "duplicate"])]
          /\ GoOn(c)
          /\ UNCHANGED <<rows, own>>
     ELSE /\ results' = [results EXCEPT ![c] =
                           Append(@, [id |-> Current(c).event.id, status |-> "inserted"])]
          /\ Store(c)
          /\ pc' = [pc EXCEPT ![c] = "actor"]
          /\ UNCHANGED at
  /\ UNCHANGED <<users, ownUsers>>

\* Mutated form: only the first event of a batch provisions its actor.
ProvisionFirst(c) ==
  ownUsers' = [ownUsers EXCEPT ![c] =
                 IF at[c] = 1 THEN @ \union {Current(c).event.actor} ELSE @]

\* INSERT INTO users ... ON CONFLICT DO NOTHING
Provision(c) ==
  ownUsers' = [ownUsers EXCEPT ![c] =
                 IF Current(c).event.actor \in users THEN @
                 ELSE @ \union {Current(c).event.actor}]

InsertActor(c) ==
  /\ pc[c] = "actor"
  /\ WaitsFor(c) = {}
  /\ Provision(c)
  /\ GoOn(c)
  /\ UNCHANGED <<rows, users, own, results>>

\* The batch's rows become visible; the answer may be lost.
Commit(c) ==
  /\ pc[c] = "commit"
  /\ rows' = rows \union own[c]
  /\ users' = users \union ownUsers[c]
  /\ \E how \in {"answered", "failed"} : Close(c, how)
  /\ UNCHANGED <<at, results>>

\* The connection breaks or the request's context ends.
Lose(c) ==
  /\ c \in Open
  /\ Close(c, "failed")
  /\ UNCHANGED <<rows, users, at, results>>

\* c waits in a cycle and is chosen as the victim.
Deadlock(c) ==
  /\ \E cycle \in SUBSET Open :
       /\ c \in cycle
       /\ \A d \in cycle : /\ WaitsFor(d) \cap cycle # {}
                           /\ \E b \in cycle : d \in WaitsFor(b)
  /\ Close(c, "failed")
  /\ UNCHANGED <<rows, users, at, results>>

Advance(c) == InsertEvent(c) \/ InsertActor(c) \/ Commit(c) \/ Deadlock(c)

Next == \E c \in Calls : Begin(c) \/ Advance(c) \/ Lose(c)

Spec == Init /\ [][Next]_vars

\* An open transaction is executed to its end; the database finds deadlocks.
FairSpec == Spec /\ \A c \in Calls : WF_vars(Advance(c))
-----------------------------------------------------------------------------
\* "only one insertion wins" (IngestBatch), "never double-processed"
\* (Normalize): an event a client sends again unchanged, in the same or another
\* request, concurrently or later, is stored once.
ReplaysStoredOnce ==
  \A r, s \in rows : Batch[r.tx][r.pos] = Batch[s.tx][s.pos] => r = s

\* "truthful reporting" (Normalize): what an answered request was told about an
\* event names a stored event with its id or key, and "inserted" exactly if it
\* is the one this request stored.
AnswersTruthful ==
  \A c \in Calls :
    pc[c] = "answered" =>
      \A i \in DOMAIN Batch[c] :
        \E r \in rows :
          /\ r.event.id = results[c][i].id
          /\ Clash(r, Row(c, i))
          /\ results[c][i].status = "inserted" <=> r = Row(c, i)

\* "atomically inserts events" and "an actor's first ingested event creates their
\* user row" (IngestBatch): if one event of a request is stored, every event of it
\* is, by this request or as a replay, and so is its actor, also when another
\* request was creating the same user and failed.
BatchAtomic ==
  /\ \A c \in Calls :
       (\E r \in rows : r.tx = c) =>
         \A i \in DOMAIN Batch[c] : \E r \in rows : Clash(r, Row(c, i))
  /\ \A r \in rows : r.event.actor \in users

\* Every request ends, although batches insert their keys in any order.
RequestsEnd == \A c \in Calls : c \in Open ~> c \notin Open
=============================================================================
