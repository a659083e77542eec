------------------------------ MODULE Pipeline ------------------------------
(***************************************************************************)
(* The event processing pipeline of the control plane: ProcessEvent,       *)
(* LoadActorState, applyOutcome and markEvent of internal/processing.      *)
(*                                                                         *)
(* A worker is one call of the /process endpoint.  It reads the event and  *)
(* the actor's state with separate statements outside any transaction,     *)
(* calls the engine, and only then opens the transaction that locks the    *)
(* event row, applies the commands, overwrites the actor's state with what *)
(* the engine returned and marks the event processed.  A failure marks the *)
(* event with an UPDATE of its own.                                        *)
(*                                                                         *)
(* Abstractions.  The configuration holds one rule that every event        *)
(* matches; it awards Award[e] XP, which may be negative, and issues one   *)
(* command with a dedup key (ledger entry, reward grant, entitlement,      *)
(* notification) and one without (item, emitted event, workflow run,       *)
(* paywall decision).  All events fall in one frequency window.  "track"   *)
(* stands for every row persistState overwrites with an absolute value,    *)
(* except rule_state, which the engine also reads to decide and which is   *)
(* the variable "fires".  The rows of a transaction become visible at its  *)
(* commit, so the statements between the lock and the commit are one step. *)
(* Decision traces, a fresh row per application that nothing reads back,   *)
(* are left out.                                                           *)
(***************************************************************************)
EXTENDS Integers, FiniteSets

CONSTANTS
  Events,       \* the ingested events
  Users,        \* the actors
  Workers,      \* concurrent calls of ProcessEvent
  Actor,        \* Actor[e]: the actor_id of event e
  Award,        \* Award[e]: the XP the rule awards for e
  FrequencyCap, \* the rule's frequency_cap, 0 for none
  MaxAttempts,  \* bound: calls of ProcessEvent for one event
  MaxUnknown,   \* bound: commits whose answer is lost
  MaxMisread,   \* bound: reads that fail or break off unnoticed
  NoWorker

ASSUME PipelineAssumption ==
  /\ Actor \in [Events -> Users]
  /\ Award \in [Events -> Int]
  /\ FrequencyCap \in Nat
  /\ MaxAttempts \in Nat
  /\ MaxUnknown \in Nat
  /\ MaxMisread \in Nat
  /\ NoWorker \notin Workers

VARIABLES
  status,     \* events.status
  rowLock,    \* the worker whose transaction holds the event's row lock
  provisioned,\* the users rows
  track,      \* xp_tracks.xp (and every other absolute projection)
  fires,      \* rule_state.fire_counts of the rule in the current window
  ledger,     \* rows carrying the idempotency key of the event's command
  items,      \* unkeyed rows inserted for the event
  outbox,     \* outbox rows of the event
  pc, ev,     \* per worker: the next statement, the event it works on
  snap,       \* per worker: the loaded actor state
  attempts,   \* calls of ProcessEvent per event (bounded)
  unknown,    \* commits whose answer was lost (bounded)
  earned,     \* history: the XP the committed awards add up to, per user
  gains,      \* history: the sum of the positive ones of these awards
  overwritten,\* history: times a processed event was marked failed
  overlapped, \* history: whether a call started while another one ran
  misreads    \* history: reads that failed or broke off unnoticed (bounded)

db == <<status, rowLock, provisioned, track, fires, ledger, items, outbox>>
history == <<earned, gains, overwritten, overlapped, misreads>>
vars == <<db, pc, ev, snap, attempts, unknown, history>>

Statuses == {"received", "processed", "failed"}
Snapshots == [held : BOOLEAN, track : Nat, fires : Nat]
Empty == [held |-> FALSE, track |-> 0, fires |-> 0]
Steps == {"idle", "tracks", "rules", "engine", "applying", "failing"}

TypeOK ==
  /\ status \in [Events -> Statuses]
  /\ rowLock \in [Events -> Workers \union {NoWorker}]
  /\ provisioned \in SUBSET Users
  /\ track \in [Users -> Nat]
  /\ fires \in [Users -> Nat]
  /\ ledger \in [Events -> Nat]
  /\ items \in [Events -> Nat]
  /\ outbox \in [Events -> Nat]
  /\ pc \in [Workers -> Steps]
  /\ ev \in [Workers -> Events]
  /\ snap \in [Workers -> Snapshots]
  /\ attempts \in [Events -> Nat]
  /\ unknown \in Nat
  /\ earned \in [Users -> Nat]
  /\ gains \in [Users -> Nat]
  /\ overwritten \in [Events -> Nat]
  /\ overlapped \in BOOLEAN
  /\ misreads \in Nat

Init ==
  /\ status = [e \in Events |-> "received"]
  /\ rowLock = [e \in Events |-> NoWorker]
  /\ provisioned = {}
  /\ track = [u \in Users |-> 0]
  /\ fires = [u \in Users |-> 0]
  /\ ledger = [e \in Events |-> 0]
  /\ items = [e \in Events |-> 0]
  /\ outbox = [e \in Events |-> 0]
  /\ pc = [w \in Workers |-> "idle"]
  /\ ev \in [Workers -> Events]
  /\ snap = [w \in Workers |-> Empty]
  /\ attempts = [e \in Events |-> 0]
  /\ unknown = 0
  /\ earned = [u \in Users |-> 0]
  /\ gains = [u \in Users |-> 0]
  /\ overwritten = [e \in Events |-> 0]
  /\ overlapped = FALSE
  /\ misreads = 0
-----------------------------------------------------------------------------
(***************************************************************************)
(* The engine.  It is a pure function of the event and the snapshot.       *)
(***************************************************************************)
\* The rule fires unless its frequency cap is reached in the loaded state.
RuleFires(loaded) == FrequencyCap = 0 \/ loaded.fires < FrequencyCap

\* Both ways of award_xp clamp the total at zero.
Raised(xp, amount) == IF xp + amount > 0 THEN xp + amount ELSE 0

\* The actor state the engine returns: absolute values.  It holds a track only
\* if one was loaded or awarded.
NextState(loaded, e) ==
  IF RuleFires(loaded)
  THEN [held  |-> TRUE,
        track |-> Raised(loaded.track, Award[e]),
        fires |-> loaded.fires + 1]
  ELSE loaded
-----------------------------------------------------------------------------
(***************************************************************************)
(* ProcessEvent, up to the engine's answer.                                *)
(***************************************************************************)
\* loadEvent: the event is read whatever its status, and its actor's users
\* row is inserted if it is missing.
LoadEvent(w, e) ==
  /\ pc[w] = "idle"
  /\ attempts[e] < MaxAttempts
  /\ attempts' = [attempts EXCEPT ![e] = @ + 1]
  /\ ev' = [ev EXCEPT ![w] = e]
  /\ provisioned' = provisioned \union {Actor[e]}
  /\ pc' = [pc EXCEPT ![w] = "tracks"]
  /\ overlapped' = (overlapped \/ \E v \in Workers : pc[v] # "idle")
  /\ UNCHANGED <<status, rowLock, track, fires, ledger, items, outbox, snap,
                 unknown, earned, gains, overwritten, misreads>>

\* Mutated form: the state loaded for the worker's previous event is reused.
LoadTracksCached(w) ==
  /\ pc[w] = "tracks"
  /\ pc' = [pc EXCEPT ![w] = "rules"]
  /\ UNCHANGED <<db, ev, snap, attempts, unknown, history>>

\* A user has a track from the first award on (upsertTrack).
HasTrack(u) == \E e \in Events : Actor[e] = u /\ items[e] > 0

\* LoadActorState is one statement per table: another worker may commit
\* between any two of them.
LoadTracks(w) ==
  LET u == Actor[ev[w]] IN
  /\ pc[w] = "tracks"
  /\ snap' = [snap EXCEPT ![w] = [held |-> HasTrack(u), track |-> track[u], fires |-> 0]]
  /\ pc' = [pc EXCEPT ![w] = "rules"]
  /\ UNCHANGED <<db, ev, attempts, unknown, history>>

\* The answer breaks off: rows.Next returns false, rows.Err is not looked at,
\* and processing goes on as if the user had no track.
LoadTracksBreaksOff(w) ==
  /\ pc[w] = "tracks"
  /\ misreads < MaxMisread
  /\ snap' = [snap EXCEPT ![w] = Empty]
  /\ pc' = [pc EXCEPT ![w] = "rules"]
  /\ misreads' = misreads + 1
  /\ UNCHANGED <<db, ev, attempts, unknown, earned, gains, overwritten, overlapped>>

LoadRuleState(w) ==
  /\ pc[w] = "rules"
  /\ snap' = [snap EXCEPT ![w].fires = fires[Actor[ev[w]]]]
  /\ pc' = [pc EXCEPT ![w] = "engine"]
  /\ UNCHANGED <<db, ev, attempts, unknown, history>>

\* Any error of the read is taken for "no row": no rule has fired yet.
LoadRuleStateFails(w) ==
  /\ pc[w] = "rules"
  /\ misreads < MaxMisread
  /\ snap' = [snap EXCEPT ![w].fires = 0]
  /\ pc' = [pc EXCEPT ![w] = "engine"]
  /\ misreads' = misreads + 1
  /\ UNCHANGED <<db, ev, attempts, unknown, earned, gains, overwritten, overlapped>>

\* The engine is unreachable, answers not ok, or the transaction cannot start.
EngineFails(w) ==
  /\ pc[w] = "engine"
  /\ pc' = [pc EXCEPT ![w] = "failing"]
  /\ UNCHANGED <<db, ev, snap, attempts, unknown, history>>
-----------------------------------------------------------------------------
(***************************************************************************)
(* applyOutcome.                                                           *)
(***************************************************************************)
\* Mutated form: the status is not read under the lock.
AcquireRowUnchecked(w) ==
  /\ rowLock[ev[w]] = NoWorker
  /\ pc' = [pc EXCEPT ![w] = "applying"]
  /\ rowLock' = [rowLock EXCEPT ![ev[w]] = w]

\* SELECT ... FOR UPDATE waits for the row, then reads its latest status.
AcquireRow(w) ==
  /\ rowLock[ev[w]] = NoWorker
  /\ IF status[ev[w]] = "processed"
     THEN /\ pc' = [pc EXCEPT ![w] = "idle"]
          /\ UNCHANGED rowLock
     ELSE /\ pc' = [pc EXCEPT ![w] = "applying"]
          /\ rowLock' = [rowLock EXCEPT ![ev[w]] = w]

LockEvent(w) ==
  /\ pc[w] = "engine"
  /\ AcquireRow(w)
  /\ UNCHANGED <<status, provisioned, track, fires, ledger, items,
                 outbox, ev, snap, attempts, unknown, history>>

\* Mutated form: the insert does not look for the key.
InsertKeyedAgain(rows) == rows + 1

\* A row carrying an idempotency key is inserted ON CONFLICT DO NOTHING.
InsertKeyed(rows) == IF rows = 0 THEN 1 ELSE rows

\* The commands of the outcome: none when the rule did not fire.
ApplyCommands(e, fired) ==
  IF fired
  THEN /\ ledger' = [ledger EXCEPT ![e] = InsertKeyed(@)]
       /\ items' = [items EXCEPT ![e] = @ + 1]
       /\ earned' = [earned EXCEPT ![Actor[e]] = Raised(@, Award[e])]
       /\ gains' = [gains EXCEPT ![Actor[e]] = @ + Raised(0, Award[e])]
  ELSE UNCHANGED <<ledger, items, earned, gains>>

\* Mutated form: the engine's total is added to the row.
PersistStateAdds(e, next) ==
  /\ track' = [track EXCEPT ![Actor[e]] = @ + next.track]
  /\ fires' = [fires EXCEPT ![Actor[e]] = next.fires]

\* persistState writes the engine's values over whatever the rows hold now; a
\* track the engine does not know of is left alone.
PersistState(e, next) ==
  /\ track' = [track EXCEPT ![Actor[e]] = IF next.held THEN next.track ELSE @]
  /\ fires' = [fires EXCEPT ![Actor[e]] = next.fires]

\* Commands, state, outbox row and status become visible together.
CommitOutcome(w) ==
  LET e == ev[w] IN
  /\ ApplyCommands(e, RuleFires(snap[w]))
  /\ PersistState(e, NextState(snap[w], e))
  /\ outbox' = [outbox EXCEPT ![e] = @ + 1]
  /\ status' = [status EXCEPT ![e] = "processed"]
  /\ rowLock' = [rowLock EXCEPT ![e] = NoWorker]
  /\ UNCHANGED <<provisioned, ev, snap, attempts, overwritten, overlapped,
                 misreads>>

Commit(w) ==
  /\ pc[w] = "applying"
  /\ CommitOutcome(w)
  /\ pc' = [pc EXCEPT ![w] = "idle"]
  /\ UNCHANGED unknown

\* The database commits but the answer is lost: tx.Commit returns an error.
CommitUnknown(w) ==
  /\ pc[w] = "applying"
  /\ unknown < MaxUnknown
  /\ unknown' = unknown + 1
  /\ CommitOutcome(w)
  /\ pc' = [pc EXCEPT ![w] = "failing"]

\* Mutated form: a failed transaction is not rolled back.
KeepRow(w) == UNCHANGED rowLock

ReleaseRow(w) ==
  rowLock' = [e \in Events |-> IF rowLock[e] = w THEN NoWorker ELSE rowLock[e]]

\* A command is refused or a statement fails: everything is rolled back.
ApplyFails(w) ==
  /\ pc[w] = "applying"
  /\ ReleaseRow(w)
  /\ pc' = [pc EXCEPT ![w] = "failing"]
  /\ UNCHANGED <<status, provisioned, track, fires, ledger, items,
                 outbox, ev, snap, attempts, unknown, history>>
-----------------------------------------------------------------------------
\* markEvent(..., "failed"): outside the transaction, whatever the status is
\* now; it waits for a transaction that holds the row.
MarkFailed(w) ==
  LET e == ev[w] IN
  /\ pc[w] = "failing"
  /\ rowLock[e] = NoWorker
  /\ overwritten' = [overwritten EXCEPT ![e] =
                       IF status[e] = "processed" THEN @ + 1 ELSE @]
  /\ status' = [status EXCEPT ![e] = "failed"]
  /\ pc' = [pc EXCEPT ![w] = "idle"]
  /\ UNCHANGED <<rowLock, provisioned, track, fires, ledger, items,
                 outbox, ev, snap, attempts, unknown, earned, gains,
                 overlapped, misreads>>

\* The process dies or the request's context ends: the open transaction is
\* rolled back and nothing is marked.  A load whose failure is noticed returns
\* here too.
Abandon(w) ==
  /\ pc[w] # "idle"
  /\ ReleaseRow(w)
  /\ pc' = [pc EXCEPT ![w] = "idle"]
  /\ UNCHANGED <<status, provisioned, track, fires, ledger, items,
                 outbox, ev, snap, attempts, unknown, history>>
-----------------------------------------------------------------------------
Advance(w) ==
  \/ LoadTracks(w)
  \/ LoadRuleState(w)
  \/ LockEvent(w)
  \/ Commit(w)
  \/ MarkFailed(w)

Fault(w) ==
  \/ LoadTracksBreaksOff(w)
  \/ LoadRuleStateFails(w)
  \/ EngineFails(w)
  \/ ApplyFails(w)
  \/ CommitUnknown(w)
  \/ Abandon(w)

Next ==
  \E w \in Workers :
    \/ \E e \in Events : LoadEvent(w, e)
    \/ Advance(w)
    \/ Fault(w)

Spec == Init /\ [][Next]_vars

\* A request that has started is executed by the server until it returns.
FairSpec == Spec /\ \A w \in Workers : WF_vars(Advance(w))
-----------------------------------------------------------------------------
(***************************************************************************)
(* Properties.                                                             *)
(***************************************************************************)
\* An event's transaction commits once, and once more only for each time a
\* late failure report overwrote "processed" (the FOR UPDATE status check of
\* applyOutcome against the unguarded UPDATE of markEvent).
ReappliedOnlyAfterOverwrite ==
  \A e \in Events : outbox[e] <= overwritten[e] + 1

\* However often an event is applied, its keyed rows exist exactly once, and
\* they exist if and only if an application fired the rule.
KeyedEffectsOnce ==
  \A e \in Events : ledger[e] = IF items[e] > 0 THEN 1 ELSE 0

\* Concurrent applications and failed reads may lose awards, negative ones
\* too (the last writer wins), but they never invent XP: the stored total is at
\* most what the positive awards of committed applications add up to.
NoInventedXP == \A u \in Users : track[u] <= gains[u]

\* Every call of ProcessEvent returns: no worker waits for a row for ever.
AttemptsReturn == \A w \in Workers : pc[w] # "idle" ~> pc[w] = "idle"

\* Two calls ran at the same time, or a read failed unnoticed.
Disturbed == overlapped \/ misreads > 0

\* What a reader of the rows expects, true until calls overlap or a read of
\* the actor's state fails unnoticed: the stored XP is exactly what the
\* committed awards add up to ("Persist the projected state snapshot
\* (authoritative for reads)", applyOutcome).
NoLostXP == ~Disturbed => \A u \in Users : track[u] = earned[u]

\* "Event processing is idempotent" (README.md): an event's effects are
\* applied once, however often /process is called for it.
AppliedAtMostOnce == \A e \in Events : items[e] <= 1

\* Until calls overlap or a read fails unnoticed they implement AtomicPipeline:
\* the snapshot the engine saw is the state the outcome is applied to.
Atomic == INSTANCE AtomicPipeline
  WITH closed <- {e \in Events : status[e] = "processed"},
       disturbed <- Disturbed
AtomicSpec == Atomic!Spec
=============================================================================
