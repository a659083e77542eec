------------------------------- MODULE Outbox -------------------------------
(***************************************************************************)
(* The outbox publisher of internal/workers: publishOutbox, fanOut,        *)
(* deliver and recordDelivery.                                             *)
(*                                                                         *)
(* Every process of the control plane runs one publisher.  A publisher     *)
(* selects unpublished rows, and for each row reads the subscribed         *)
(* endpoints, starts one delivery per endpoint in the background and marks *)
(* the row published.  Rows are numbered by id; they become visible when   *)
(* the transaction that inserted them commits, in any order.  A read that  *)
(* breaks off counts as an answer that ends there: rows.Err is not looked  *)
(* at, for the rows nor for the endpoints.                                 *)
(***************************************************************************)
EXTENDS Integers, FiniteSets, FiniteSetsExt

CONSTANTS
  Publishers,
  Rows,       \* the outbox rows, their ids
  Endpoints,  \* the active webhook endpoints
  Subscribed, \* Subscribed[r]: the endpoints subscribed to the topic of r
  Limit,      \* LIMIT of the SELECT
  MaxFaults   \* bound: MaxFaults[p] failed UPDATEs and crashes of p

OutboxConstants ==
  /\ Rows \subseteq Nat
  /\ Subscribed \in [Rows -> SUBSET Endpoints]
  /\ Limit \in Nat \ {0}
  /\ MaxFaults \in [Publishers -> Nat]

ASSUME OutboxAssumption == OutboxConstants

VARIABLES
  created,   \* the committed rows
  published, \* the rows with published_at
  step, batch, \* per publisher: the next step, the rows it has selected and not marked
  sending,   \* the deliveries under way
  accepted,  \* how often an endpoint accepted a row from a publisher
  delivered, \* webhook_deliveries with status "delivered", by who sent them
  fanouts,   \* history: how often a publisher fanned a row out
  reached,   \* history: the endpoints a delivery of a row was started to
  misread,   \* history: the rows of which a fan-out did not read every endpoint
  faults     \* per publisher: failed UPDATEs and crashes (bounded)

outboxHistory == <<fanouts, reached, misread>>
outboxVars == <<created, published, step, batch, sending, accepted, delivered,
                outboxHistory, faults>>

Delivery == [by : Publishers, row : Rows, to : Endpoints, n : Nat]

OutboxTypeOK ==
  /\ created \subseteq Rows
  /\ published \subseteq created
  /\ step \in [Publishers -> {"idle", "fan", "mark"}]
  /\ batch \in [Publishers -> SUBSET created]
  /\ \A p \in Publishers : step[p] = "idle" <=> batch[p] = {}
  /\ sending \subseteq Delivery
  /\ accepted \in [Publishers -> [Rows -> [Endpoints -> Nat]]]
  /\ delivered \in [Publishers -> [Rows -> [Endpoints -> Nat]]]
  /\ fanouts \in [Publishers -> [Rows -> Nat]]
  /\ reached \in [Rows -> SUBSET Endpoints]
  /\ misread \subseteq Rows
  /\ faults \in [Publishers -> Nat]

OutboxInit ==
  /\ created = {}
  /\ published = {}
  /\ step = [p \in Publishers |-> "idle"]
  /\ batch = [p \in Publishers |-> {}]
  /\ sending = {}
  /\ accepted = [p \in Publishers |-> [r \in Rows |-> [e \in Endpoints |-> 0]]]
  /\ delivered = [p \in Publishers |-> [r \in Rows |-> [e \in Endpoints |-> 0]]]
  /\ fanouts = [p \in Publishers |-> [r \in Rows |-> 0]]
  /\ reached = [r \in Rows |-> {}]
  /\ misread = {}
  /\ faults = [p \in Publishers |-> 0]
-----------------------------------------------------------------------------
\* A transaction that called enqueueOutbox commits.
Enqueue ==
  /\ \E r \in Rows \ created : created' = created \union {r}
  /\ UNCHANGED <<published, step, batch, sending, accepted, delivered, outboxHistory,
                 faults>>

\* Mutated forms: published rows are selected as well; the poll goes on after
\* the newest published id.
PendingAll == created
PendingAfterCursor == {r \in created : \A q \in published : q < r}

\* published_at IS NULL
Pending == created \ published

\* ORDER BY id LIMIT ...
Selected == {r \in Pending : Cardinality({q \in Pending : q < r}) < Limit}

\* The rows of a batch are worked off in that order.
First(p) == Min(batch[p])

\* A tick of the publisher's timer.  The answer may break off after some row.
Poll(p) ==
  /\ step[p] = "idle"
  /\ \E last \in Selected :
       batch' = [batch EXCEPT ![p] = {r \in Selected : r <= last}]
  /\ step' = [step EXCEPT ![p] = "fan"]
  /\ UNCHANGED <<created, published, sending, accepted, delivered, outboxHistory,
                 faults>>

\* fanOut of the first row left: one goroutine per endpoint it has read, which
\* are none or some only if the SELECT fails or its answer breaks off.
FanOut(p) ==
  LET r == First(p)
      n == fanouts[p][r] + 1
  IN /\ step[p] = "fan"
     /\ \E to \in SUBSET Subscribed[r] :
          /\ sending' = sending \union [by : {p}, row : {r}, to : to, n : {n}]
          /\ reached' = [reached EXCEPT ![r] = @ \union to]
          /\ misread' = IF to = Subscribed[r] THEN misread ELSE misread \union {r}
     /\ fanouts' = [fanouts EXCEPT ![p][r] = n]
     /\ step' = [step EXCEPT ![p] = "mark"]
     /\ UNCHANGED <<created, published, batch, accepted, delivered, faults>>

\* Mutated form: the UPDATE names all rows of the batch.
MarkedBatch(p) == published \union batch[p]

Marked(p) == published \union {First(p)}

\* UPDATE outbox SET published_at, whatever the deliveries do.
Mark(p) ==
  /\ step[p] = "mark"
  /\ published' = Marked(p)
  /\ batch' = [batch EXCEPT ![p] = @ \ {First(p)}]
  /\ step' = [step EXCEPT ![p] = IF batch[p] = {First(p)} THEN "idle" ELSE "fan"]
  /\ UNCHANGED <<created, sending, accepted, delivered, outboxHistory,
                 faults>>

BreakOff(p) ==
  /\ faults[p] < MaxFaults[p]
  /\ faults' = [faults EXCEPT ![p] = @ + 1]
  /\ batch' = [batch EXCEPT ![p] = {}]
  /\ step' = [step EXCEPT ![p] = "idle"]

\* The UPDATE fails, or takes effect and its answer is lost: the rest of the
\* batch is left to a later poll.
MarkFails(p) ==
  /\ step[p] = "mark"
  /\ published' \in {published, Marked(p)}
  /\ BreakOff(p)
  /\ UNCHANGED <<created, sending, accepted, delivered, outboxHistory>>

\* The process stops or dies: its deliveries end without a record.
Crash(p) ==
  /\ step[p] # "idle" \/ \E d \in sending : d.by = p
  /\ BreakOff(p)
  /\ sending' = {d \in sending : d.by # p}
  /\ UNCHANGED <<created, published, accepted, delivered, outboxHistory>>
-----------------------------------------------------------------------------
\* resp.StatusCode >= 400
StatusOf(ok) == IF ok THEN "delivered" ELSE "failed"

\* recordDelivery; a failed INSERT is ignored.
RecordDelivery(d, status) ==
  \E stored \in BOOLEAN :
    delivered' = IF stored /\ status = "delivered"
                 THEN [delivered EXCEPT ![d.by][d.row][d.to] = @ + 1] ELSE delivered

\* The endpoint answers, accepting the row or not.
Answer(d) ==
  /\ d \in sending
  /\ sending' = sending \ {d}
  /\ \E ok \in BOOLEAN :
       /\ accepted' = IF ok THEN [accepted EXCEPT ![d.by][d.row][d.to] = @ + 1] ELSE accepted
       /\ RecordDelivery(d, StatusOf(ok))
  /\ UNCHANGED <<created, published, step, batch, outboxHistory, faults>>

\* No answer within the client's timeout; the endpoint may have the request.
NoAnswer(d) ==
  /\ d \in sending
  /\ sending' = sending \ {d}
  /\ accepted' \in {accepted, [accepted EXCEPT ![d.by][d.row][d.to] = @ + 1]}
  /\ RecordDelivery(d, "failed")
  /\ UNCHANGED <<created, published, step, batch, outboxHistory, faults>>
-----------------------------------------------------------------------------
Publish(p) == Poll(p) \/ FanOut(p) \/ Mark(p)

OutboxNext ==
  \/ Enqueue
  \/ \E p \in Publishers : Publish(p) \/ MarkFails(p) \/ Crash(p)
  \/ \E d \in sending : Answer(d) \/ NoAnswer(d)

OutboxSpec == OutboxInit /\ [][OutboxNext]_outboxVars

\* The tickers of the processes run, and a job that has started runs to its end.
FairOutbox == OutboxSpec /\ \A p \in Publishers : WF_outboxVars(Publish(p))
-----------------------------------------------------------------------------
\* A publisher sends a row again only after a failed UPDATE or a crash of its
\* own: what other publishers do with the row never makes it send twice.  An
\* endpoint receives a row from it no more often than it is sent, and whatever timeouts,
\* crashes and lost records do, a delivery recorded as delivered was accepted.
ResentOnlyAfterFault ==
  \A p \in Publishers, r \in Rows :
    /\ fanouts[p][r] <= 1 + faults[p]
    /\ \A e \in Endpoints :
         /\ delivered[p][r][e] <= accepted[p][r][e]
         /\ accepted[p][r][e] <= fanouts[p][r]

\* A published row was sent to every endpoint subscribed to its topic, wherever
\* processes stopped and whoever marked it, unless a fan-out of that row could
\* not read the endpoints: rows are marked one by one, after their fan-out
\* ("marking rows published only on success", publishOutbox).
PublishedWasFannedOut ==
  \A r \in published \ misread : reached[r] = Subscribed[r]

\* Every committed row is published eventually, also one that commits after
\* rows with higher ids, and however publishers crash and fail.
OutboxDrains == \A r \in Rows : r \in created ~> r \in published
=============================================================================
