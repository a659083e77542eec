# A verification development of the engagement platform

The platform turns events of a client's users into rewards: XP, currency, challenge progress, streaks,
achievements. A Go control plane stores everything in PostgreSQL, a Rust engine decides what an event
causes, SDKs collect events on the client. This directory models the parts in which state is kept and
changed, checks them with TLC on small instances, and proves the central ones with TLAPS.

Paths are relative to the repository: `GO` is `platform/services/control-plane/internal`, `RUST` is
`platform/crates`, `SDK` is `platform/sdk`. `PROJECT.json` maps every definition to the lines it models.

## 1. Inventory

The path of an event:

    SDK buffer --POST /v1/events--> gateway (events rows, "received")
        --POST /process--> ProcessEvent: load event, load actor state, call engine,
            one transaction: lock row, commands, state, trace, outbox row, "processed"
        outbox publisher --webhooks--> subscribers

| Component | State | Operations | What is hard about it |
|---|---|---|---|
| Event pipeline (`GO/processing`) | `events.status`, the actor's rows (`xp_tracks`, `challenge_progress`, `rule_state`, ...), `decision_traces`, `outbox` | `ProcessEvent`, `LoadActorState`, `applyOutcome`, `markEvent` | state read outside the transaction that overwrites it, and reads whose failure nobody notices; failures marked by an UPDATE outside it; lost commit answers; retries; the order of row locks |
| Wallets (`GO/processing`, `GO/player`, `GO/api/handlers_monetization.go`) | `ledger_entries`, `wallets` | currency commands, `AdjustWallet`, `Purchase` | three writers at READ COMMITTED, replays, connections of the pool |
| Economy kernel (`RUST/economy`) | entries, index of keys | `apply`, `reverse` | net balance over a batch, replay detection, reversals of reversals |
| Event gateway (`GO/eventing`, `GO/api/handlers_events.go`) | `events`, `users` | `Normalize`, `IngestBatch` | replays within and across requests, waits on unique keys, deadlocks, rollback of the request others relied on |
| Challenges (`RUST/core-engine/src/challenge.rs`) | `ChallengeProgress` per window | `apply_progress`, reward decision | rollover of windows, late events, the row that is loaded |
| Streaks (`RUST/core-engine/src/streak.rs`) | `StreakState` | `apply_qualifying` | distances of windows computed from re-parsed keys, grace |
| Client SDKs (`SDK/*`) | event buffer, promises | `track`, `flush` | lost, late and doubled requests; whole batches refused; events that can never be encoded or stored; limits |
| Outbox publisher (`GO/workers`) | `outbox`, deliveries | `publishOutbox`, `fanOut`, `deliver` | several processes, crashes between send and mark, reads that break off |
| Rules and conditions (`RUST/rules`) | `RuleState` | `evaluate_condition`, cooldown, frequency cap | caps against stale state |
| Engine orchestration (`RUST/core-engine/src/process.rs`) | none of its own | `process_event` | order of phases; achievements after commands |
| Workflows, achievements (`RUST/core-engine`) | runs, unlocks | `start_run`, `tick_workflow`, `evaluate` | delayed steps, unlock once |
| Configuration (`GO/configsvc`) | objects, versions, compiled configuration, runtime rows of products, segments and flags | create, update, publish, pause, rollback, promote, delete | concurrent publishing, compiled view against active versions |
| Identity (`GO/identity`) | `users.merged_into`, `identities`, the rows of every table that a user owns | `UpsertUser`, `LinkIdentity`, `MergeAnonymous` | a score of statements over the rows of two users at READ COMMITTED, against events in flight, links and other merges; deadlocks; unique keys that both users have |
| Players and leaderboards (`GO/player`) | none of their own | `GetFullState`, `GetLeaderboard` | ranks computed by SQL and by the ranking crate |
| Tenancy, auth (`GO/tenancy`, `GO/middleware`, `GO/api/router.go`) | organisations, keys | bootstrap, create and revoke keys, scope checks | bootstrap race |
| Ranking, progression, formulas, time, simulation (`RUST/*`) | none | pure functions | ties, curves, calendars |
| Engine service and client (`RUST/engine-service`, `GO/engine`) | configuration cache | `/process`, `/config` | stale cache |
| Feature flags, paywalls, admin API and console, packs, schemas | plain rows | single statements | little |

Interaction is by HTTP calls and by rows: the pipeline, the wallet endpoints, the merge and the publisher
share tables and are ordered by row locks and unique constraints only. The migrations are not part of the
repository, so unique constraints and PostgreSQL's rules (an INSERT waits for an uncommitted equal key, a
SELECT does not see uncommitted rows, a deadlock has a victim) are modelled from the statements that use
them, and marked external in the map.

What makes each component correct, in one sentence each:

- pipeline: an event's effects are applied once, all or none, and nothing that was earned is lost or invented;
- wallet: a reference counts once, the balance is the ledger's sum and is not overdrawn;
- kernel: policy holds after every accepted batch, replays add nothing, an entry is compensated at most once;
- gateway: an event sent again is stored once, and the answer says truthfully which of the two it was;
- engine: what an event causes depends on the state it finds, each reward is decided once, and the stored rows
  agree with each other;
- configuration: the engine uses what was published, and all of it;
- challenge: progress is the window's events, a completed window is rewarded exactly once;
- streak: the count is the length of the newest unbroken run;
- SDK: every tracked event is stored once or its caller is told;
- outbox: every committed row is sent to its subscribers;
- identity: after a merge everything the user had earned is found with its heir, once, and so are its logins;
- leaderboards: every player has one place, and the SQL and the crate agree on who is ahead.

The hazards behind these sentences are listed with their lines in `PROJECT.json`.

## 2. Modules

| Module | Models | Uses |
|---|---|---|
| `AtomicPipeline` | what the pipeline promises until calls overlap or a read fails unnoticed: an event is applied in one step or not at all | |
| `Pipeline` | `ProcessEvent` statement by statement, several workers | `AtomicPipeline` (refinement) |
| `PipelineProofs` | theorems about `Pipeline` and about the publisher of its outbox rows | `Pipeline`, `Outbox` |
| `Wallet` | the three transactions that write one wallet | |
| `WalletProofs` | theorems about `Wallet` | `Wallet` |
| `Ledger` | the economy kernel | |
| `AccountProofs` | theorems about the economy kernel and about merges: what a user owns | `Ledger`, `Merge` |
| `Gateway` | concurrent ingestion requests | |
| `GatewayProofs` | theorems about `Gateway` | `Gateway` |
| `Engine` | the decision of `process_event` and the rows it leads to, one actor, events one at a time | |
| `EngineProofs` | theorems about `Engine` | `Engine` |
| `Config` | configuration objects, versions, compiled configurations, runtime rows | |
| `ConfigProofs` | theorems about `Config` | `Config` |
| `Challenge` | one actor and one challenge over several windows | |
| `ChallengeProofs` | theorems about `Challenge` and about the streaks kept beside it | `Challenge`, `Streak` |
| `Streak` | one actor and one streak over several windows | |
| `Sdk` | one client's buffer, the network, the endpoint | |
| `SdkProofs` | theorems about `Sdk` | `Sdk` |
| `Outbox` | publishers, rows, endpoints | |
| `Merge` | merges and links of users against events of the same users, statement by statement | `Ranking` |
| `Ranking` | the ranking crate and the ranks of the leaderboard SQL | |
| `MC*` | the constants of the runs | the module named |

How they correspond to the code:

**Pipeline.** A worker is one call of `/process`; its `pc` is the next statement. `LoadEvent`,
`LoadTracks` and `LoadRuleState` are separate steps because `LoadActorState` issues a statement per table
without a transaction. None of its loops looks at `rows.Err`, and any error of the read of `rule_state` is taken for
"no row": `LoadTracksBreaksOff` and `LoadRuleStateFails` are the loads that go on with an empty state. A track that
was not loaded is not written (`held`), unless the event awards on it. `LockEvent` is `SELECT ... FOR UPDATE` with the early return for a processed event.
`Commit` is everything between the lock and the commit: the commands, `persistState` with the engine's
absolute values, the trace, the outbox row and the status. It is one step because its rows are invisible
before. An award may be negative, since nothing checks its sign; the engine and the command clamp the total at
zero (`Raised`). `ApplyFails` is any refused command or failed statement, `CommitUnknown` a commit whose answer is
lost, `MarkFailed` the UPDATE of `markEvent`, which looks neither at the status nor at a transaction, and
`Abandon` a process that dies. The engine is a pure function of the event and the loaded state
(`NextState`); one rule with a frequency cap stands for the configuration.

**Wallet.** A call is a transaction with `insert`, `select`, `upsert`, `commit` steps; rows of open
transactions are in `own`, and the row lock of the wallet is `walletLock`. `Refused` differs between the
engine path (policy and cap) and `AdjustWallet` (sign only), `NewBalance` between writers of a sum and
`Purchase`, which adds. A replay of `AdjustWallet` needs a second connection (`Report`).

**Ledger.** `ApplyBatch` is the two passes of `Ledger::apply` with their errors in the code's order,
`ReverseEntry` is `Ledger::reverse`. Keys and entries are records, amounts unbounded integers.

**Gateway.** A call inserts the events of its batch one by one, then the missing `users` rows, then
commits. `Fingerprint` decides the derived key of an event without one. Waits are on uncommitted rows of
others with the same id or key; `Deadlock` is PostgreSQL's choice of a victim; `Lose` a broken connection.

**Engine.** `Process` is one event: rules (`Fired`, `RecordFires`), challenges (`Progressed`, `Completed`),
workflows (`WorkflowCommands`), the projection of the commands so far (`Projected`), achievements against the
projected state (`Unlocks`), and the projection of their rewards. The projection of `start_challenge` puts a completed
challenge back in progress (`Restarted`), that of `set_variable` overwrites a variable that later conditions read. `InsertEntries` and `Persist` are what the
control plane makes of the outcome: ledger entries by key, and rows overwritten by the engine's state, except
unlocks, which are only added. Conditions are judged on the rows as they were before the event, those of
achievements on the projected ones. `Field` is `context_values`. Configurations are records of the types of
`config.rs` (`EngineConfig`, an assumption that TLC evaluates). Overlaps and failures are in `Pipeline`.

**Config.** A call is a handler's call into `configsvc.go`; its statements are steps: `GetRow` or `GetSnapshot`,
`FindTarget` (Promote), `Write` (the UPDATE or INSERT, or the transaction of Publish), and the three of
`CompileEngineConfig`. `Allows` is what each call requires of the row that it has read, `Written` what it
does to the row as it is by then. `Stop` ends a call after any statement. Products, segments and flags
(`Materialized`) have a row in a table of their own instead of an entry in the engine configuration: `Write`
includes its upsert (`Materialize`, which keeps the status of a row that is there), `FlipRuntime` is the
UPDATE of its status by Pause, and `FindAgain` the `Get` with which Delete looks for it.

**Challenge.** `Loaded` is the row with the newest `updated_at`, whatever its window; `Rollover` and
`Advance` are the two halves of `apply_progress`; `Issues` is the decision of `process_event`; the row is
saved under its window. Events may come in any order of windows.

**Streak.** Time is in ticks; a `Calendar` gives the windows' limits, what their keys say and whether they
can be parsed. `WindowDistance` and `PrevWindowEnd` follow `window_distance`, `key_epoch` and
`prev_window_end`. The reference (`Run`, `Linked`) is stated on the windows themselves; the two agree in
calendars that are `Regular`: days of equal length in UTC, or rolling windows that end at every tick.

**Sdk.** One variable names the SDK; the six differ in whether they wait for a flush in flight, what a
flush takes, and what a failed or refused batch leads to (`Refused`, `Requeue`, `GiveUp`). The network keeps, loses or
delays requests after the client has given up on them. Apart from plain events (`Kind`) there are those that
the endpoint refuses with their batch, those that `JSON.stringify` throws on (`EncodeFails`, before a request is sent), and those
whose INSERT fails whenever it is tried. Godot's callback does not accept its argument, so that its client receives no
answer at all (`Hears`).

**Outbox.** `Poll` selects up to `Limit` unpublished rows by id, `FanOut` starts the deliveries,
`Mark` sets `published_at`; deliveries end on their own (`Answer`, `NoAnswer`). The answer to either SELECT may break off
without notice: `Poll` then works off the first rows only, and `FanOut` starts deliveries to some endpoints or
to none and goes on. An UPDATE that fails may have taken effect (`MarkFails`). Rows become visible in any
order (`Enqueue`), since their ids are taken before their transactions commit. What an endpoint has accepted
is counted per publisher, as two publishers may both send a row that neither has marked.

**Merge.** A call (a merge, a link or an event) is a list of statements, and `Write`, `Select`, `Validate`,
`Lookup`, `Sum` and `Commit` run the next one. `db` holds the committed rows by table and key, `own` what an
open transaction has written, which is also what it has locked: a statement that writes such a row waits
(`Waits`), then acts on the row as it is by then. INSERT ... SELECT ... ON CONFLICT DO UPDATE is a "select" and an
"upsert", because the SELECT is over before the INSERT waits, and a `Delete` follows. `Merged` is what the ON
CONFLICT clause of each table does, `Reowned` the UPDATE of a re-owned table, which fails when the target has
the row (`Violates`); the model has the five of these tables that events write (`SimpleTables`), each with several
rows per user. A statement takes its rows in one step. An event loads (`Load`, one step, since
`Pipeline` has the statements), then runs its commands and the rows of `persistState` with the values it had loaded.
The commands are those the call names, in any order that keeps the statements of a command together (`Commands`):
`ensure` a track or an achievement, insert an `entry` and write the `sum`, `grant` items, `raise` a board. `PersistState` goes
through the tables in the order of the code and through the rows of each (`Returned`) in any order, as a Go map does: all
rows of the actor's state that were loaded, and those the event adds. A link is not in a
transaction in the code; its one statement that writes and the commit are two steps here, which only adds
overlaps. `Deadlock` ends a transaction in a cycle of two, `Lose` one whose connection dies, and a call
that failed may come again. `due` adds up what was earned; `tangled` names the users for whom the code gives no
guarantee (`Clash`, section 5).

**Ranking.** `SortKey`, `Sorted`, `Ranks` and `PositionOf` are `sort_key`, `rank` and `position_of`; `RankExpr` is the
subquery of `GetLeaderboard` and `GetFullState` and `Page` the list of the former. `Merge` judges them on every
board that its events and merges leave (`PlacesAgree`).

Definitions named "Mutated form" are alternatives of the definition that follows them; the runs do not use
them. They show that the properties are sensitive: with the definition replaced by its mutated form, TLC
reports the property that `PROJECT.json` names.

## 3. Runs

Deadlock checking is off in all runs: in each of them the modelled part may stop legitimately, because all
calls have ended, all events are processed, or a bound is reached.

| Run | Instance | Shows |
|---|---|---|
| `PipelineConcurrent` | 2 workers, 2 events of one user with awards of 2 and -1, cap 2, 2 attempts each, 1 lost commit answer, 1 read that fails unnoticed | `ReappliedOnlyAfterOverwrite`, `KeyedEffectsOnce`, `NoInventedXP`; until calls overlap or a read fails unnoticed `NoLostXP`, and the pipeline implements `AtomicPipeline`; `AttemptsReturn` |
| `PipelineReapplied` | 1 worker, no lost answer | violation of `AppliedAtMostOnce` (section 5) |
| `WalletConcurrent` | an event that earns 2 and spends 1, a spend and its two retries, a purchase, 2 open at a time, pool of 2 | `OneEntryPerKey`, `AllEntriesOrNone`, `LoneWriterHeals`; `CallsEnd` |
| `LedgerKernel` | 1 wallet, 3 currencies, batches up to 2, 4 entries | `WithinPolicy`, `ReversedAtMostOnce`, `NoReplayAcrossBatches` |
| `ChallengeWindows` | 3 windows, 4 events each in any order; targets 0, 1, 3 | `ProgressCountsEvents`, `RewardedIffCompleted` while events are in order; `RewardsEarned` always |
| `EngineDecisions` | 4 configurations, 4 events at 4 instants over 2 days, 4 payloads | `FiringsLimited`, `BadgesOnTime`, `RewardsPaidOnce`, `RowsAgree` |
| `ConfigLifecycle` | 2 calls at a time, a rule, the rule it is promoted to and a product, 3 contents, one of them invalid; 5 calls, or 4 once two overlap | `VersionsTruthful`, `RuntimeIsSnapshot`; until calls overlap `PublishedIsSnapshot`, `EngineConfigFresh` |
| `StreakWindows` | 6 windows; days with grace 0, 1 and 5 ticks, rolling windows with grace 0 and 4 | `StreakIsRun` |
| `SdkNetwork` | 6 SDKs, 4 events of which one is invalid, cannot be encoded or cannot be stored, or two are invalid and unstorable, limit 2, 2 faults | `StoredOnceInOrder`, `NothingForgotten`, `ToldTruthfully`; `EventuallySettled` |
| `GatewayConcurrent` | 3 requests of 2, 2 and 3 events with replays in opposite orders | `ReplaysStoredOnce`, `AnswersTruthful`, `BatchAtomic`; `RequestsEnd` |
| `OutboxPublishers` | 2 publishers, 2 rows, 2 endpoints subscribed to one of them, 1 fault of one publisher | `ResentOnlyAfterFault`, `PublishedWasFannedOut`; `OutboxDrains` |
| `MergeConcurrent` | 3 users with rows of every table, 2 tracks, 2 keys, 2 identities; 4 merges (1 into 3 twice, 2 into 3, 3 into 1), 2 events of 3, 2 links; 2 calls open at a time | `NothingLostOrDoubled`, `IdentitiesReachHeir`, `LocksInOrder`, `PlacesAgree` |

Each module states its type invariant (`TypeOK`, or with the module's name before it). They hold on these instances
too; they are not listed among the properties of the runs, which are about the hazards, and those of `Pipeline`,
`Engine` and `Merge` are proved.

**Bounds.** They are constants, named in the modules (`MaxAttempts`, `MaxUnknown`, `MaxOpen`, `MaxBatch`,
`MaxEntries`, `MaxEvents`, `MaxFaults`, `MaxMisread`, `Limit`, `MaxCalls`, `MaxMixed`, `MaxTangled`). Two workers and two events of one user are the smallest
instance with every race of the pipeline: the races are between a load and a commit, or a commit and a
failure report, of two calls. Two attempts with one lost answer reach the second application of an event. A cap of
two is reached by the two events and their repetitions, and one read that fails unnoticed loses XP or a count.
Two open transactions give every overlap of two writers of a wallet, and the remaining calls run before or
after them; a spend and two retries give two replays at once, as many as the pool has connections. Four ledger entries hold a batch, its reversal, and the reversal of that. Three windows hold a
window between two others; six days hold a run, a gap bridged by a grace, and a gap that is not. Four events
complete a challenge, cross two levels, fire a rule on both sides of its cooldown in either order, and replay
each of it. Five calls create, publish, roll
back, pause and resume an object, or pause, change and publish it again, or promote it twice; four overlapping ones
publish it while another changes it. Two open calls give every race of a merge with a merge, an event or a link,
and every deadlock of two transactions; three users give merges into one user and a chain of two merges. No call
begins once more than `MaxTangled` users are tangled, since nothing is said of these. The two events of user 3 have awards,
items, an achievement, challenges and streaks in any order, which gives the cycles of two that commands and maps
allow. Four events with a limit of two put a plain event before, behind and in one batch with each other kind. Two rows
and two publishers are the smallest instance in which two processes work on overlapping batches.

**Fairness.** All liveness properties rest on weak fairness of the steps of a call that has started: a
goroutine runs its next statement, the database answers, a released row or key is handed on. Starting a
call, failures and crashes are never fair. `AttemptsReturn`, `CallsEnd` and `RequestsEnd` need nothing
else (`CallsEnd` excepts replays that hold the whole pool, section 5); `RequestsEnd` also has the database find deadlocks, as PostgreSQL does. `EventuallySettled` assumes
that the SDK's timer runs, that the application catches a promise that a flush of the timer rejects (in Node an uncaught
one ends the process), and that an exchange that no fault strikes gets its answer, with finitely many
faults. It excepts the events that one which can never be encoded or stored holds up (`HeldUp`). `Merge` has no fairness: its properties are about safety, since a call that waits for a row is either
served or ended, as in `Wallet` and `Gateway`. `OutboxDrains` assumes that the tickers of the processes run (`workers.go`, `loop`) and that a
crashed process is started again.

## 4. Theorems

TLAPS proves the following for all values of the constants that satisfy the named assumptions
(`PipelineAssumption`, `LedgerAssumption`, `WalletAssumption`, `GatewayAssumption`, `EngineAssumption` and
`ConfigsAssumption`, `ConfigAssumption`, `ChallengeAssumption`, `StreakAssumption`, `SdkAssumption`,
`OutboxAssumption`, `MergeAssumption` and `StartAssumption`). They say what a deployment has: sets of calls, instants and amounts that are numbers, limits that are not negative, requests that are not
empty, configurations of the types of `config.rs`. `EngineAssumption` needs a track, since the one without a name
is one, and no track called `*`. `StartAssumption` says that the rows a run of `Merge` begins with are those that
events left: nobody is merged yet, and the tracks and the wallet of a user add up to its ledger entries.

`PipelineProofs`:

- `TypeCorrect`: `TypeOK` is an invariant. Everything else uses it.
- `RowLockCorrect`: a worker between the lock and the commit holds its event's row and is the only one.
- `ReapplicationNeedsOverwrite` (`ReappliedOnlyAfterOverwrite`). The property alone is not inductive: a
  commit adds an application without an overwrite. The strengthening `OnceInv` spends the one extra
  application on the status: `outbox[e] <= overwritten[e] + 1` only while the event is processed, and
  without the one otherwise. That a committing worker's event is not processed is `RowLockInv`.
- `KeyedRowsOnce` (`KeyedEffectsOnce`): the keyed and the unkeyed rows are written by the same step.
- `XPNeverInvented` (`NoInventedXP`), for awards of either sign: needs `SnapshotGained`, that a loaded total, too, is
  at most what the positive awards add up to (`gains`, which never shrinks). The sum of all awards (`earned`) is no
  bound: a negative award that another call overwrites leaves the stored XP above it.
- `SerialLosesNothing` (`NoLostXP`) and `SerialImplementsAtomic` (`AtomicSpec`): until two calls overlap or a read
  fails unnoticed (`Disturbed`, which stays), at most one worker is busy (`OneBusy`) and past its loads it holds
  exactly the rows' values (`SnapshotCurrent`), so that the commit is the atomic step of `AtomicPipeline` and every
  other step is a stutter or a status change of it.
- `SentAgainAfterFault` (`ResentOnlyAfterFault`) and `PublishedAfterFanOut` (`PublishedWasFannedOut`), for
  any number of publishers, rows and endpoints. The invariant is `OutboxInv`. A row that a publisher has just sent, or that is published
  and out of its batch (`Settled`), was sent by it at most once more than the faults it had; any other row no more
  often than that (`SentOnce`), because what it selects is unpublished, so that it has lost the mark of every earlier
  sending in a fault. A row that is published, or about to be marked, has been sent to every endpoint subscribed to
  its topic, unless a fan-out misread these (`SentToAll`, `Whole`). Deliveries on their way and those the endpoint has accepted are together no more than what was
  sent (`SentBeforeAccepted`).

`EngineProofs`:

- `LimitsHold` (`FiringsLimited`). The engine keeps only the last firing and a count per day, so the invariant
  relates them to the history: the count is the number of the day's firings (`Counted`), and the last firing
  of a rule with a cooldown is its newest (`Newest`), because an event older than the last firing is within
  the cooldown, however long ago it was. `RuleStep` reduces an event to what it does to a rule's state.
- `RewardsIssuedOnce` (`RewardsPaidOnce`), `BadgesUnlockOnTime` (`BadgesOnTime`) and `StoredRowsAgree`
  (`RowsAgree`), for configurations with any number of rules, challenges, achievements and workflows, and lists of
  actions of every length. An event is a sequence of projections, so the proof has three layers. What a
  configuration can issue: the commands of an event are of known kinds and have keys of their own (`Decides`,
  `BadgeCommands`), which is where it matters that the source, the source's name and the position are all in the
  key. What commands do to the rows: a run of them only moves what its commands name (`Moves`, `ProjectMoves`), keeps
  levels the quotients of totals and boards the totals of tracks (`AgreeStep`). What an event does: `Outcome` names
  the five intermediate values of `Process`, and `Ready`, which is the inductive invariant together with
  the property at hand, says what they are computed from. `RowsAgree` also needs `Booked`: the keys of the ledger
  are those of earlier events, so no command of an event meets an entry, and the sum grows by what is reported.
  Among the actions are `start_challenge` and `set_variable`: a challenge that a command starts again (`Restarts`) is
  owed its rewards once more, so `won` counts from the last such start (`StartedByCommand`).
- `TypesHold`: `TypeOK` of `Engine` is an invariant. It also ensures that the configuration of a run is one that the
  assumptions admit.

`ConfigProofs`:

- `VersionsHold` (`VersionsTruthful`), for any number of overlapping calls. A row may change between the read
  and the write of a call, so the invariant says what survives (`CallOK`): the version a publish has read was
  the row's once, and an object that had a published version still has one. With rows as the newest version of
  their object (`RowsAuthored`, `NoNewerVersion`), a write keeps version and configuration or takes a new
  version with a valid one (`Revision`).

- `RuntimeHolds` (`RuntimeIsSnapshot`), for any number of overlapping calls: the runtime row and the snapshot
  are written from the same read, and what changes the row afterwards leaves its content (`FlipKeepsRuntime`)
  or the published version (`WriteKeepsRuntime`).

- `PublishedHolds` (`PublishedIsSnapshot`). Until calls overlap, only one is in progress (`Alone`), so what it has
  read is still the row (`ReadIsCurrent`), and a publication writes the content it takes the snapshot of.
- `EngineConfigHolds` (`EngineConfigFresh`). The compiled entries of an object are the current ones, or a call that
  has written the object has yet to compile (`Compiling`); what it has listed is then still current
  (`ListedIsCurrent`), and its version is new, so that its INSERT takes effect.

`AccountProofs`, the economy kernel:

- `InvariantHolds`: the invariant `IInv` is `TypeOK`, that the index is the set of the entries' keys
  (`SeenIsKeys`), that a reversal comes after its entry (`ReversesEarlier`), and `ReversedAtMostOnce`. A batch
  preserves it because it consists of entries of callers only or of one compensation of an entry that has none.
- `ReversalsPaired` (`ReversedAtMostOnce`) and `ReplaysRejected` (`NoReplayAcrossBatches`) follow from it.
- `PolicyKept` (`WithinPolicy`), for ledgers and batches of every length. The balance is a sum over the entries, and the
  checks of `apply` are about the balance before a batch and the batch's net amounts; that sums of appended
  sequences add up is proved first.

`AccountProofs`, merges, for any users, tracks, identities, starting rows and calls, any number of them open at once,
failing and sent again. The inductive invariant of the last theorem, `Preserving`, was checked by TLC on
`MergeConcurrent` before it was proved; the other theorems are about parts of it.

- `MergeTypes` (`MergeTypeOK`), from `Shapes`. A call is a list of statements, so what it has written, has read and has
  still to do is said by where it is in the list: for a merge and a link by the number of the statement (`MergeAt`,
  `LinkAt`), for an event, whose list depends on what it has loaded, by the phases of the statements left (`Phase`, `InOrder`).
  `OneSteps` turns each step into what it does to the rows, of which there are eight kinds, and all later proofs are
  about these.
- `LocksAreInOrder` (`LocksInOrder`), for commands in any order and the rows of each table in any order. It is not
  inductive, since it speaks of two calls that wait, and says nothing of what else they hold. `Shapes` does. A merge
  holds rows of the tables before its next statement only, and all merges take the tables in one order, so two could
  wait for each other only within a table (`TablesApart`, `MergesInOrder`). An event takes the rows of its commands in
  the order of its configuration and may hold any of them, but the rows no command takes (`Late`) only once it has
  written the rule state of its user, which every event writes (`EventWants`). So two events that wait for each other over
  challenges, streaks or variables would both hold that one row (`LateWaits`).
- `IdentitiesHaveAnHeir` (`IdentitiesReachHeir`). A chain of merges is followed by the least closed set of users, so
  that no recursion is needed. `Lawful` says whose rows are whose (no two calls have written one row, what a merge has
  written was its source's before); `Lines` that every closed set has a user that is not merged, or one whose line
  stays among tangled users (`LineEnds`), that a user that a call has validated is not merged meanwhile unless the
  overlap has tangled it (`Validity`, `MetAreTangled`), and that a merge past its third statement has written every
  identity of its source (`Claims`), so that its commit leaves it none.
- `NothingIsLostOrDoubled` (`NothingLostOrDoubled`). A merge moves what it moves table by table, so the property needs,
  for every statement it may be at, what has become of the source's rows: read and unchanged since (`Found`), with
  the target's (`Copied`), gone (`Cleared`), and the ledger entries the target's (`Repaid`). An event holds in its read
  values what the rows are by then and what it adds (`Tracked`, `Boarded`, `Paid`). Two equal merges may overlap
  without harm if the user has an identity: the second waits for it before it reads, and then finds nothing
  (`Alone`). At the commit the sums over tracks and entries are those of the two users together
  (the lemmas on `SumFunction`: a sum does not depend on the order, adds up, and changes with one summand).
- `PlacesAreAgreed` (`PlacesAgree`), on boards of every size, from the types alone. `Sorted` is the one list of the
  entries in which each is before those it beats; such a list exists because an entry and the number of entries
  ahead of it determine each other (`SortedList`). The crate's walk over the list satisfies a recursion; counting the
  better entries satisfies it too (`RankIsPlace`), because an entry that is ahead and not better ties with the
  neighbour, and by induction on the position nothing else does. What the SQL counts are the better entries and the
  ties with a smaller id (`PlacesOfBoard`).

`WalletProofs`:

- `ReferencesOnce` (`OneEntryPerKey`) and `EventsWhole` (`AllEntriesOrNone`). Neither is inductive, because rows
  reach the ledger from open transactions, of which the two say nothing. The invariant does: an uncommitted row
  has a key that no committed and no other uncommitted row has (`OwnKeys`), which the lock on the unique index
  ensures when a row is inserted and which a commit elsewhere keeps; and the commands before the one a call works on
  are in the ledger or among its own rows (`AppliedAreThere`), by this call or as replays. `Typed` is the part of
  `TypeOK` that does not speak of sums. One lemma per action (`InsertKeeps`, `CommitKeeps`, ...).
- `LoneWriterRepairs` (`LoneWriterHeals`). A call that has met no other one is the only open one (`Alone`), so what it
  knows between its statements is what the tables hold (`Judged`): the sum it has read until it writes it, the
  balance it has written until its next row, and that each command judged so far left a balance within the policy. A
  later row changes no earlier judgement, because its key is not that of a command that has run (`InsertJudged`); a
  command skipped as a replay of the event's own is within the policy because the one before it was.
  TLC checked the invariant, `LInv`, on `WalletConcurrent` before it was proved.
- `WalletTypes` (`TypeOK`): a sum over finitely many rows is a number (`BalanceTyped`), and the rows are finitely many.

`GatewayProofs`:

- `EventsStoredOnce` (`ReplaysStoredOnce`) and `RequestsWhole` (`BatchAtomic`), along the same lines: the rows of open
  requests clash with no other row (`NoClash`), the events before the one a request works on are stored
  (`InsertedAreThere`), and the actor of a row is known but for the row inserted last (`ActorsAreThere`). That
  distinct rows of one event would clash (`SameEventSameKey`) is where the fingerprint matters: a key that
  depended on the arrival would break it.
- `ResultsTruthful` (`AnswersTruthful`): the results of an open request tell which of its events are among its own
  rows and which clash with a row that was there (`Answers`, `OwnRows`). Such a row is committed, because the INSERT
  has waited for it, and rows that are committed stay.

`ChallengeProofs`, all from one invariant, `ChallengeInv`, and one lemma per part of it:

- `ProgressIsCounted` (`ProgressCountsEvents`) and `RewardedOnce` (`RewardedIffCompleted`): as long as events arrive in
  order, the loaded row is that of the newest window (`LoadsLast`), so a window's row counts all its events.
- `RewardsAreEarned` (`RewardsEarned`), in any order: the events of a window pay for the rewards it has issued and for
  the progress that has not issued any yet (`PaidFor`), and a restarted window loses progress, never rewards.
- `StreakIsNewestRun` (`StreakIsRun`), for `Regular` calendars, with any number of
  windows, length of day, span and grace. `Decision` shows that the code's quotients of key times decide what the
  reference says of the windows (`Prolongs`). An event repeats the last window or opens a new one (`EventInWindow`);
  the runs that end in a new window are itself and, if it continues the last one, those of the last one longer by
  one (`NewRuns`), which needs that a window linked to the new one is linked to the last (`OldLink`); and the runs
  before stay as they are (`RunsStay`). So the stored streak is the greatest length of a run that ends in the last
  window, and the best the greatest of all (`StreakStored`). Other calendars, where the code and the reference
  differ, are in section 5.

`SdkProofs`:

- `NoneForgotten` (`NothingForgotten`) and `CallersToldTruth` (`ToldTruthfully`), for all six SDKs at once (`EveryInv`); the
  first speaks of those that tell a refusal from an insertion (`Reporting`).
  Every action is one of four kinds of step: it fills or flushes the buffer, ends a request for the client, serves one,
  or loses a message of a request that nobody waits for (`Steps`, `Fades`). What a successful answer says of its batch is so, now and later, also after the client has
  given up on the request (`Results`); and a request that ends leaves each of its events pending or settled (`EndsKnown`).
- `StoredInOrder` (`StoredOnceInOrder`). The web SDK has one flush in flight, so buffer and batch are the run of events
  that ends with the last one tracked (`QueueLast`, `FlightBefore`). Copies of a batch may be anywhere on the wire:
  each is such a run, and what was tracked before it is settled (`Behind`), that is, stored or reported as rejected. So
  no event is stored before one that is pending and not stored (`StoredDense`).

Sums, folds and flattened sequences are recursive functions of the community modules. The library's induction
theorems take an operator as a parameter, which the provers cannot instantiate; `InductionOnNat` states induction
with a set instead, from the well-foundedness of `<`, and `FoldExists`, `Flattened`, `SumGrows` and
`BalanceTyped` rest on it.

Only model-checked: the liveness properties, since fairness and ENABLED are beyond the prover.

## 5. Where the code deviates from what is said of it

One deviation is a run, with its quote under "findings":

- `PipelineReapplied`. `markEvent` marks an event failed whatever its status. A second call for a processed
  event that finds the engine unreachable (or a commit whose answer is lost, or a slow call that fails
  after another one committed) overwrites "processed", and the next call applies the event again. Rows with
  an idempotency key are not repeated (`KeyedEffectsOnce`), items and emitted events are.

The models have the following ones too. They limit properties of the runs, which say so in their comments:

- Two events of one user that are processed concurrently overwrite each other's XP, and both fire a rule
  whose cap leaves room for one (`processing.go:72`). A single call does the same when a read of the actor's state fails
  unnoticed: no loop over rows asks for the error that ended it (`processing.go:225`), and a failed read of the rule state
  counts as an empty one (`processing.go:236`), so `persistState` overwrites XP and counts with what was left of
  them. `NoLostXP` and `AtomicSpec` hold until one of the two happens.
- An award may be negative, since only its presence is checked (`configsvc.go:506`, applied in `process.rs:421`). If
  another call overwrites it, more XP is stored than the awards add up to: `NoInventedXP` bounds it by the positive ones.
- Two overlapping spends with different references insert different keys, so nothing makes them wait for each
  other before each has read a sum without the other's entry; both commit and the wallet is overdrawn
  (`player.go:300`). The documentation promises "two-pass NET balance validation".
- Two overlapping writers of a wallet leave a row that is not the ledger's sum; the next one that overlaps
  with no other repairs it: `LoneWriterHeals` (`processing.go:516`).
- The engine path checks the balance after each entry of an event, not the net (`processing.go:524`).
- `AdjustWallet` and `Purchase` do not check the currency's cap (`player.go:306`).
- Replays of `AdjustWallet` ask the pool for a second connection while they hold one; as many replays at
  once as the pool has connections wait for ever (`player.go:292`), which two retries do in the instance:
  the exception in `CallsEnd`.
- `Ledger::apply` accepts a batch that carries one key twice (`economy/src/lib.rs:119`), so
  `NoReplayAcrossBatches` speaks of earlier calls; the reversal of an earning that was spent is refused
  (`economy/src/lib.rs:214`).
- A challenge window that its first event completes is not rewarded when the window before was completed
  (`process.rs:247`): the exception in `RewardedIffCompleted`. A late event restarts its window
  (`challenge.rs:66`): the condition `~late`.
- Streaks (`streak.rs:18-57`): a late event counts as consecutive, so `Streak` takes events in order; the
  distance of two days is a quotient by the length of the newer one and is one too short when that has 25
  hours; date keys are read as noon UTC, so the grace in another zone is shifted; hourly keys lose their
  hour and week, month and year keys do not parse, so their streaks do not break. A `Calendar` with a longer
  day, shifted windows, several windows per date, or `dated = FALSE` shows each.
- Achievements are judged once per event, before their own rewards: one whose XP reward crosses the threshold
  of another unlocks that one at the next event only, although "level-up badges must unlock on the SAME
  event" (`process.rs:331`): the exception in `BadgesOnTime`. `unlock_achievement` inserts the row, and the
  engine then never pays the rewards; a challenge completed by `progress_challenge` pays none either
  (`process.rs:479`): the exceptions in `RewardsPaidOnce`. `start_challenge` puts a completed challenge back in
  progress and keeps its progress (`process.rs:484`), so that the next event completes it and its rewards are
  issued again: `RewardsPaidOnce` counts from there. `complete_challenge` and `update_streak` change
  nothing at all, although `applyCommand` says the state projection covers them (`process.rs:501`).
- A board without a track takes the total of whatever track was awarded last, although the comment says the
  default one (`process.rs:430`); points added to an XP board are overwritten by the next award.
- `compare` answers 0 for values of different types, so `eq` and `gte` hold between a string and a number
  (`evaluate.rs:213`). A rule's `frequency_window` is ignored: caps are per UTC day (`process.rs:163`).
- Workflow steps after a delay never run: the outcome's runs are not persisted, and what `resumeWorkflows`
  sets to running is executed by nothing (`workers.go:180`).
- Configuration: a paused object can be changed and a draft of a published one paused and resumed, and then
  configures the engine without a snapshot (`configsvc.go:184`, `268`); the exception in `PublishedIsSnapshot`.
  Publish overlapped by an update marks the new content published and snapshots the old; overlapped by a
  deletion it brings the object back. A rollback does not compile, so the rolled back object stays live until
  something else does. Two compilations may finish in the opposite order of their listings, and the older
  listing is then the current one (`configsvc.go:922`): all this is why the properties are about calls that
  do not overlap.
- Deleting a product, segment or flag does not archive its runtime row: `Get`, with which Delete looks for it,
  does not find archived objects (`configsvc.go:331`), although the comment says that the row is flipped "so
  nothing new fires". Publishing a paused product leaves its runtime status paused. No statement reads that
  status.
- A merge (`identity.go`) whose users both have a row of one key in a re-owned table (a streak, a challenge, an
  unlock) fails: the comment at line 196 takes the unique violation for acceptable, and the loop ignores it, but
  in PostgreSQL it ends the transaction, so the next statement fails and the merge is rolled back, whenever it is
  sent again. Nothing is lost, and the two users can never be merged.
- Calls that overlap a merge (`Clash`) void its promises. An event of the source that has loaded writes its rows
  again after they were moved, and they stay behind; an event of the target overwrites what was moved; events of an
  archived user are not redirected. Two merges of one user into different targets, or into the same one when the
  user has no identity (which would make the second wait before it reads), add its XP and coins twice. Two merges in
  opposite directions end with each user merged into the other. `NothingLostOrDoubled` and `IdentitiesReachHeir`
  are about the users that no such overlap has met; merges of different users into one are not among them.
- "ALL runtime state" is moved (`identity.go:102`), but entitlements are not. The merge of `rule_state` replaces a rule's
  last firing and counts by the source's. The level becomes the greater of the two and is not computed from the
  sum of XP. A board keeps the greater score and the earlier time independently of each other, also when its
  direction is "lowest", and the entry inserted for the target has the id of the source's.
- Two events of one user may wait for each other over two rows of which each has written the one the other wants:
  rows that commands take (tracks, the wallet, achievements, boards), because commands run in the order of the
  configuration and `persistState` ranges over Go maps (`processing.go:721`, `781`, `806`); and the rule state with
  an achievement or a board, which a command of one takes before the rule state and `persistState` of the other after
  it. `LocksInOrder` names these. The Go maps of challenges, streaks and variables (`processing.go:751`, `835`) do no
  harm, because each event has written the rule state of its user before them (`processing.go:737`). PostgreSQL ends
  one of the two events, which is then marked failed.
- The rank of a page is always by falling score, also on a board whose direction is "lowest", and never shared,
  although the comment says that ties share a rank (`player.go:160`); the crate shares ranks and follows the
  direction. `PlacesAgree` states how the two differ on a board by falling score. `persistState` sets
  `achieved_at` of every board of the user on every event, so the time is that of the user's last event.
- A subscriber that answers with an error or not at all is not called again: a row is marked published when its
  deliveries have been started, although the comment says "only on success (at-least-once)" (`workers.go:65`). A
  fan-out that cannot read the endpoints (`workers.go:110`), or whose rows break off (`workers.go:118`), starts none or some
  of them, and the row is marked published all the same: the exception in `PublishedWasFannedOut`.
- Granting an entitlement again sets the expiry to that of the new grant, which may be earlier or never
  (`processing.go:615` says that it extends it); two concurrent grants, and purchases, insert a row each.
- Events emitted by commands are stored and processed by nothing (`processing.go:677`).
- Web SDK: when one event of a batch is invalid, all are reported as rejected, also those an earlier copy
  of the batch stored or a late one still will (the exception in `StoredOnceInOrder`). An event that `JSON.stringify`
  throws on, or that the database refuses each time, is requeued with its batch for ever (`index.ts:141`): the
  exception in `EventuallySettled`. In Node a failed flush of the timer is an unhandled rejection, which ends the process.
- Android: an answer with an error status is reported as inserted (`UEPClient.kt:47`, `78`), so `NothingForgotten` and
  `ToldTruthfully` leave it out. Godot: the callback declares a String and is called with a `PackedByteArray`
  (`uep_client.gd:97`), so it never runs, the first flush stays in flight, and later events are buffered for
  ever. Unity: the body it sends cannot be read. Unreal: failed batches are dropped.

## 6. Not modelled

- Statements that only read, the read endpoints, and formatting and codecs except for what they do to a batch.
- The admin console, packs, schemas and scripts, and the simulation, which generates samples.
- Formulas, Elo ratings and exponential level curves: floating-point arithmetic, which TLA+ has not.
- Calendar arithmetic, which is left to the chrono libraries: `Streak` has the windows, not their computation.
- What `Merge` leaves to other modules or out: reads that fail unnoticed and negative awards are in `Pipeline`; a
  statement that takes several rows takes them in one step; of a challenge only the newest window is loaded; cycles of
  three or more calls. Several currencies, boards or equal commands in one event would be rows of the tables that
  `LocksInOrder` excepts already.
- The values that `set_variable` gives: a Go string reaches the `jsonb` column as JSON text, so that some are refused
  (`processing.go:835`). Whether a challenge may be repeated: the code does not look at `repeatability` either.
- Widths of integers: XP and amounts are 64 bits wide and the models' are unbounded.
- Tenancy, API keys and scopes: each operation is one statement or a comparison. The bootstrap has a race (it
  counts the organisations before it inserts one, `router.go:163`), which is open once in the life of an installation.
- Workflow runs and emitted events after they are stored: no code of the repository takes them up.
- Feature flags, paywalls and subscriptions: single statements and the hash of a user into a bucket. Purchases that
  grant credits are in `Wallet`; those that grant a subscription or an entitlement insert one row.
- Attributes of users (`UpsertUser`) and sessions, which nothing else depends on.

## 7. Plan

Every safety property of the passing runs is stated by a theorem. What could be added, none of it begun:

- `Streak` in calendars that are not `Regular`, with a reference that says what the code does there;
- several rules per configuration in `Pipeline`, as `Engine` has them, so that the caps are judged under overlaps;
- the bootstrap of `router.go`, once organisations have state that something else reads.
