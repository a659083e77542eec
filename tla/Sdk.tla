--------------------------------- MODULE Sdk ---------------------------------
(***************************************************************************)
(* A client SDK's event buffer and the ingestion endpoint it posts to.     *)
(*                                                                         *)
(* Events are numbered in the order they are tracked; each carries one     *)
(* idempotency key for all its retries.  A request the client has given up *)
(* on may still reach the server.  The endpoint is IngestEvents: a batch   *)
(* is refused as a whole or stored in one transaction (Gateway has its     *)
(* statements), and an event whose key is stored is a duplicate.           *)
(***************************************************************************)
EXTENDS Integers, Sequences, FiniteSets, SequencesExt

CONSTANTS
  Sdks,      \* the SDKs, of "web", "unity", "godot", "unreal", "android", "ios"
  Events,    \* the events 1 .. Events
  Payloads,  \* what the events may be like, see Kind
  AutoFlush, \* maxBatch, MAX_BATCH: pending events that start a flush
  ServerCap, \* the endpoint's limit, and the limit of the web SDK's splice
  MaxFaults  \* bound: failed exchanges

Event == 1 .. Events

\* Apart from plain events there are those the endpoint's validation refuses,
\* those JSON.stringify throws on (a cycle, a BigInt) and those whose INSERT
\* fails whenever it is tried (a NUL in a jsonb value).
Kind == {"plain", "invalid", "unencodable", "unstorable"}

ASSUME SdkAssumption ==
  /\ Sdks \subseteq {"web", "unity", "godot", "unreal", "android", "ios"}
  /\ Events \in Nat
  /\ Payloads \subseteq [Event -> Kind]
  /\ AutoFlush \in Nat \ {0}
  /\ ServerCap \in Nat \ {0}
  /\ MaxFaults \in Nat

VARIABLES
  sdk,      \* the SDK in use, one per behaviour
  payload,  \* what each event is like
  tracked,  \* how many events were tracked
  queue,    \* the SDK's buffer
  awaited,  \* the requests whose callback or promise is outstanding
  wire,     \* the requests the server has not handled
  replies,  \* the answers the client has not received
  stored,   \* the server's events, in the order of their insertion
  told,     \* what the SDK has told the caller about each event
  faults    \* failed exchanges (bounded)

vars == <<sdk, payload, tracked, queue, awaited, wire, replies, stored, told,
          faults>>

Request == [n : Nat, batch : Seq(Event)]
Told == {"pending", "inserted", "duplicate", "rejected", "failed"}

TypeOK ==
  /\ sdk \in Sdks
  /\ payload \in Payloads
  /\ tracked \in 0 .. Events
  /\ queue \in Seq(Event)
  /\ awaited \subseteq Request
  /\ wire \subseteq Request
  /\ \A r \in awaited \union wire : r.batch # <<>>
  /\ \A p \in replies :
       p.request \in Request /\ p.code \in {200, 400, 413, 422, 500}
  /\ stored \in Seq(Event)
  /\ told \in [Event -> Told]
  /\ faults \in Nat

Init ==
  /\ sdk \in Sdks
  /\ payload \in Payloads
  /\ tracked = 0
  /\ queue = <<>>
  /\ awaited = {}
  /\ wire = {}
  /\ replies = {}
  /\ stored = <<>>
  /\ told = [e \in Event |-> "pending"]
  /\ faults = 0
-----------------------------------------------------------------------------
(***************************************************************************)
(* The SDK.                                                                *)
(***************************************************************************)
\* Mutated form: a flush does not wait for the one in flight.
ReadyWhileFlushing(q) == q # <<>>

\* The guard of flush; the Unreal and iOS SDKs have no flag for a request in
\* flight.
Ready(q) == q # <<>> /\ (awaited = {} \/ sdk \in {"unreal", "ios"})

\* What a flush takes out of the buffer: splice(0, 500), or everything.
Taken(q) ==
  IF sdk = "web" /\ Len(q) > ServerCap THEN SubSeq(q, 1, ServerCap) ELSE q

Has(batch, kind) == \E i \in DOMAIN batch : payload[batch[i]] = kind

\* JSON.stringify throws before fetch is called; the other encoders write
\* something for any value.
Encodable(batch) == sdk = "web" => ~Has(batch, "unencodable")

\* A live request for each event, one for each given up, is the most there is.
Unused ==
  {n \in 0 .. Events + MaxFaults : \A r \in awaited \union wire : r.n # n}

\* The request is the client's from here on, also when it never leaves.
Send(batch) ==
  \E n \in Unused :
    LET r == [n |-> n, batch |-> batch] IN
    /\ \A m \in Unused : n <= m
    /\ awaited' = awaited \union {r}
    /\ wire' = IF Encodable(batch) THEN wire \union {r} ELSE wire

FlushFrom(q) ==
  /\ Send(Taken(q))
  /\ queue' = SubSeq(q, Len(Taken(q)) + 1, Len(q))

\* How many pending events start a flush; two SDKs have no buffer.
MinPending == IF sdk \in {"android", "ios"} THEN 1 ELSE AutoFlush

\* track: the buffered event starts a flush when enough are pending.  A
\* call of the Android SDK posts its event and blocks its caller.
Track ==
  LET q == Append(queue, tracked + 1) IN
  /\ tracked < Events
  /\ sdk = "android" => awaited = {}
  /\ tracked' = tracked + 1
  /\ IF Len(q) >= MinPending /\ Ready(q)
     THEN FlushFrom(q)
     ELSE queue' = q /\ UNCHANGED <<awaited, wire>>
  /\ UNCHANGED <<sdk, payload, replies, stored, told, faults>>

\* The timer of the web SDK, an explicit flush of the others.
Flush ==
  /\ Ready(queue)
  /\ FlushFrom(queue)
  /\ UNCHANGED <<sdk, payload, tracked, replies, stored, told, faults>>

Tell(batch, what) ==
  told' = [e \in Event |-> IF Contains(batch, e) THEN what ELSE told[e]]

\* A failure for good: the web and iOS SDKs report it, the Android SDK takes
\* "inserted" for the status that an error answer does not have, the others
\* forget the batch.
Refused(batch) ==
  /\ CASE sdk = "web" -> Tell(batch, "rejected")
       [] sdk = "ios" -> Tell(batch, "failed")
       [] sdk = "android" -> Tell(batch, "inserted")
       [] OTHER -> UNCHANGED told
  /\ UNCHANGED queue

\* Mutated form: a failed batch is dropped.
RequeueNone(batch) == UNCHANGED <<queue, told>>

\* Mutated form: a failed batch is taken as inserted.
RequeueReports(batch) == Tell(batch, "inserted") /\ UNCHANGED queue

\* A retryable failure: the batch goes back to the front of the buffer.  The
\* SDKs without a buffer and Unreal, which empties its own, do not retry.
Requeue(batch) ==
  IF sdk \in {"web", "unity"}
  THEN queue' = batch \o queue /\ UNCHANGED told
  ELSE Refused(batch)

\* The request itself fails: the Android SDK throws to the caller.
GiveUp(batch) ==
  IF sdk = "android"
  THEN Tell(batch, "failed") /\ UNCHANGED queue
  ELSE Requeue(batch)

\* The per-event results are matched with the batch by position.  Unreal's
\* callback discards them.
Accepted(reply) ==
  LET batch == reply.request.batch IN
  /\ told' = [e \in Event |->
                IF sdk # "unreal" /\ Contains(batch, e)
                THEN reply.results[SelectInSeq(batch, LAMBDA x : x = e)]
                ELSE told[e]]
  /\ UNCHANGED queue

\* Godot's callback declares the body, a PackedByteArray, as a String: the call
\* is refused and the flush stays in flight.
Hears == sdk # "godot"

Receive(reply) ==
  /\ Hears
  /\ reply.request \in awaited
  /\ replies' = replies \ {reply}
  /\ awaited' = awaited \ {reply.request}
  /\ CASE reply.code = 200 -> Accepted(reply)
       [] reply.code = 500 -> Requeue(reply.request.batch)
       [] OTHER -> Refused(reply.request.batch)
  /\ UNCHANGED <<sdk, payload, tracked, wire, stored, faults>>

\* What JSON.stringify throws is taken for a network error.
EncodeFails(r) ==
  /\ r \in awaited
  /\ ~Encodable(r.batch)
  /\ awaited' = awaited \ {r}
  /\ Requeue(r.batch)
  /\ UNCHANGED <<sdk, payload, tracked, wire, replies, stored, faults>>
-----------------------------------------------------------------------------
(***************************************************************************)
(* The endpoint and the network.                                           *)
(***************************************************************************)
\* Unity's MiniJson has no case for List<EventBody> and sends its type name.
Readable == sdk # "unity"

Answer(r, code, results) ==
  /\ wire' = wire \ {r}
  /\ replies' = IF r \in awaited
                THEN replies \union
                       {[request |-> r, code |-> code, results |-> results]}
                ELSE replies

\* INSERT ... ON CONFLICT DO NOTHING on the idempotency key.
Insert(rows, e) == IF Contains(rows, e) THEN rows ELSE Append(rows, e)

\* IngestEvents: its checks in their order, and the transaction of IngestBatch.
Verdict(batch) ==
  IF ~Readable THEN 400
  ELSE IF Len(batch) > ServerCap THEN 413
  ELSE IF Has(batch, "invalid") THEN 422
  ELSE IF Has(batch, "unstorable") THEN 500
  ELSE 200

Handle(r) ==
  LET code == Verdict(r.batch) IN
  /\ r \in wire
  /\ IF code = 200
     THEN /\ Answer(r, 200, [i \in DOMAIN r.batch |->
                               IF Contains(stored, r.batch[i])
                               THEN "duplicate" ELSE "inserted"])
          /\ stored' = FoldLeft(Insert, stored, r.batch)
     ELSE Answer(r, code, <<>>) /\ UNCHANGED stored
  /\ UNCHANGED <<sdk, payload, tracked, queue, awaited, told, faults>>

\* The transaction fails: nothing is stored and the answer is a 5xx.
HandleFails(r) ==
  /\ r \in wire
  /\ faults < MaxFaults
  /\ faults' = faults + 1
  /\ Answer(r, 500, <<>>)
  /\ UNCHANGED <<sdk, payload, tracked, queue, awaited, stored, told>>

\* The client's request fails: it, or its answer, is lost or only late.
NetworkFails(r) ==
  /\ r \in awaited
  /\ Encodable(r.batch)
  /\ faults < MaxFaults
  /\ faults' = faults + 1
  /\ wire' \in {wire, wire \ {r}}
  /\ replies' = {p \in replies : p.request # r}
  /\ IF Hears
     THEN awaited' = awaited \ {r} /\ GiveUp(r.batch)
     ELSE UNCHANGED <<awaited, queue, told>>
  /\ UNCHANGED <<sdk, payload, tracked, stored>>
-----------------------------------------------------------------------------
Exchange ==
  \/ \E r \in wire : Handle(r)
  \/ \E p \in replies : Receive(p)
  \/ \E r \in awaited : EncodeFails(r)

Next ==
  \/ Track \/ Flush
  \/ Exchange
  \/ \E r \in wire : HandleFails(r)
  \/ \E r \in awaited : NetworkFails(r)

Spec == Init /\ [][Next]_vars

\* The flush timer runs, a promise that is rejected is caught, and a request is
\* handled and answered unless one of the MaxFaults faults strikes it.
FairSpec ==
  /\ Spec
  /\ WF_vars(Flush)
  /\ WF_vars(\E r \in wire : Handle(r))
  /\ WF_vars(\E p \in replies : Receive(p))
  /\ WF_vars(\E r \in awaited : EncodeFails(r))
-----------------------------------------------------------------------------
InQueue(e) == Contains(queue, e)
InFlight(e) == \E r \in awaited : Contains(r.batch, e)
Stored(e) == Contains(stored, e)

\* The SDKs that tell the caller when a batch is refused.  Android's answer to
\* its caller does not tell a refusal from an insertion.
Reporting == sdk \in {"web", "ios"}

Settled(e) == Stored(e) \/ told[e] # "pending"

\* With a reporting SDK no tracked event vanishes: it is buffered, in flight,
\* stored, or its caller was told, however requests fail, arrive late or are
\* answered twice.  Unity drops a refused batch in silence, Unreal every failed
\* one; Godot never learns what became of its first, and Android reports as
\* inserted what was refused.
NothingForgotten ==
  Reporting => \A e \in 1 .. tracked : InQueue(e) \/ InFlight(e) \/ Settled(e)

\* "Truthful: duplicate/rejected ingest results surface to the caller" (web
\* SDK): an event reported as inserted or duplicate is stored.  The Android
\* SDK also reports "inserted" for an answer with an error status.
ToldTruthfully ==
  sdk # "android" =>
    \A e \in Event : told[e] \in {"inserted", "duplicate"} => Stored(e)

\* The server stores a client's events once each, and those of the web SDK
\* that it has not reported as rejected in the order they were tracked, also
\* when a batch is retried while its first copy is still under way.
StoredOnceInOrder ==
  \A i, j \in DOMAIN stored :
    /\ i # j => stored[i] # stored[j]
    /\ sdk = "web" /\ i < j /\ told[stored[j]] # "rejected"
         => stored[i] < stored[j]

\* The web SDK requeues an event that it cannot encode, or that the database
\* never takes, with its batch for ever; it is in every later batch that holds
\* one of the ServerCap - 1 events before it or any event behind it.
HeldUp(e) ==
  /\ sdk = "web"
  /\ \E p \in 1 .. tracked :
       /\ payload[p] \in {"unencodable", "unstorable"}
       /\ p < e + ServerCap
       /\ ~Settled(p)

\* With a reporting SDK a tracked event is eventually stored, or its caller is
\* told that it may not be, unless an event that can never be is in its way.
EventuallySettled ==
  \A e \in Event : Reporting /\ e <= tracked ~> Settled(e) \/ HeldUp(e)
=============================================================================
