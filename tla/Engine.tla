------------------------------- MODULE Engine -------------------------------
(***************************************************************************)
(* The decision of the engine about an event (process_event of the core    *)
(* engine) and the rows the control plane makes of it (applyCommand and    *)
(* persistState), for one actor and one compiled configuration.            *)
(*                                                                         *)
(* Events are processed one at a time (Pipeline has the overlaps and the   *)
(* failures), at the instants their clients put on them, in any order.     *)
(* A configuration lists its active definitions, rules by descending       *)
(* priority.  Conditions are trees of depth two over typed values.  A      *)
(* challenge has one window (Challenge has the others), streaks are in     *)
(* Streak; the commands that only insert rows are represented by the one   *)
(* that credits a currency, whose balance may be negative (Wallet has the  *)
(* refusals).  A variable holds a number or a boolean (a string is handed  *)
(* to the driver as JSON text and null as NULL, which may fail the event). *)
(***************************************************************************)
EXTENDS Integers, FiniteSets, SequencesExt

CONSTANTS
  Configs,    \* the configurations
  Types,      \* the event types
  Payloads,   \* the values of the payload field that conditions read
  Tracks,     \* the names of XP tracks used by actions
  Leveled,    \* the tracks with a level definition
  XpPerLevel, \* their linear model
  Boards,     \* the leaderboards
  Variables,  \* the keys of user variables used by actions
  Instants,   \* occurred_at, in seconds
  Day,        \* length of the frequency window
  MaxEvents,  \* bound: events
  Star        \* "*", and a board's track that is not set

Null == [type |-> "null", v |-> 0]
Number(n) == [type |-> "number", v |-> n]
Bool(b) == [type |-> "bool", v |-> IF b THEN 1 ELSE 0]
Never == -1
Values == [type : {"number", "bool"}, v : Int] \* of user variables
Instance == [row : BOOLEAN, progress : Int, done : BOOLEAN]
Untouched == [row |-> FALSE, progress |-> 0, done |-> FALSE]

(***************************************************************************)
(* The definitions that a configuration lists.                             *)
(***************************************************************************)
IsList(s) == s \in Seq(ToSet(s))

\* The payload, or a table of the context and a row in it.
Comparison(leaf) ==
  /\ \/ leaf.field = <<"payload">>
     \/ /\ leaf.field = <<leaf.field[1], leaf.field[2]>>
        /\ leaf.field[1] \in {"level", "xp", "completed", "unlocked", "variable"}
        /\ leaf.field[1] = "variable" => leaf.field[2] \in Variables
  /\ leaf.op \in {"eq", "neq", "gte", "lt", "exists"}
Condition(cond) ==
  cond.op \in {"and", "or", "not"} /\ \A leaf \in cond.of : Comparison(leaf)

ActionDef(a) ==
  /\ a.kind \in {"award_xp", "add_currency", "update_leaderboard",
                 "progress_challenge", "start_challenge", "complete_challenge",
                 "unlock_achievement", "set_variable"}
  /\ a.amount \in Int
  /\ a.kind = "award_xp" => a.target \in Tracks
  /\ a.kind = "update_leaderboard" => a.target \in Boards
  /\ a.kind = "set_variable" => a.target \in Variables /\ a.value \in Values

ChallengeReward(a) == a.kind \in {"award_xp", "add_currency"} /\ ActionDef(a)
WorkflowStepDef(s) ==
  s.kind = "delay" \/ (s.kind = "condition" /\ Condition(s.cond)) \/ ActionDef(s)

RuleDef(r) ==
  /\ r.on \in Types \union {Star} /\ Condition(r.cond)
  /\ r.cooldown \in Nat /\ r.cap \in Nat
  /\ IsList(r.actions)
  /\ \A i \in DOMAIN r.actions : ActionDef(r.actions[i])
ChallengeSpec(c) ==
  /\ c.on \in Types \union {Star} /\ c.target \in Int
  /\ IsList(c.rewards)
  /\ \A i \in DOMAIN c.rewards : ChallengeReward(c.rewards[i])
AchievementSpec(b) ==
  /\ Condition(b.cond) /\ b.repeatable \in BOOLEAN
  /\ IsList(b.rewards)
  /\ \A i \in DOMAIN b.rewards : ChallengeReward(b.rewards[i])
WorkflowDef(w) ==
  /\ w.on \in Types \union {Star}
  /\ IsList(w.steps)
  /\ \A i \in DOMAIN w.steps : WorkflowStepDef(w.steps[i])

EngineConfig(c) ==
  /\ IsList(c.rules) /\ IsList(c.challenges) /\ IsList(c.badges) /\ IsList(c.workflows)
  /\ \A r \in DOMAIN c.rules : RuleDef(c.rules[r])
  /\ \A i \in DOMAIN c.challenges : ChallengeSpec(c.challenges[i])
  /\ \A b \in DOMAIN c.badges : AchievementSpec(c.badges[b])
  /\ \A w \in DOMAIN c.workflows : WorkflowDef(c.workflows[w])

ASSUME EngineAssumption ==
  /\ Tracks # {} /\ Star \notin Tracks
  /\ Leveled \subseteq Tracks
  /\ XpPerLevel \in Nat \ {0}
  /\ Instants \subseteq Nat
  /\ Day \in Nat \ {0}
  /\ MaxEvents \in Nat

ASSUME ConfigsAssumption == \A c \in Configs : EngineConfig(c)

VARIABLES
  config,   \* the compiled configuration
  rows,     \* the actor's rows, except rule_state and the ledger
  lastFired,\* rule_state: last_fired
  fires,    \* rule_state: fire_counts per day
  ledger,   \* ledger_entries: key -> amount
  n,        \* events processed (bounded)
  decided,  \* history: the currency the outcomes reported (wallet_deltas)
  firings,  \* history: <<event, instant>> of each rule's firings
  paid,     \* history: how often the rewards of each badge were issued
  won,      \* history: how often those of each challenge were issued since a
            \* command last started it
  pushed,   \* history: badges and challenges that a command unlocked, completed
  shifted   \* history: the fields that the last event's unlocks changed

ruleState == <<lastFired, fires, firings>>
vars == <<config, rows, ruleState, ledger, n, decided, paid, won, pushed, shifted>>

Rules == DOMAIN config.rules
Challenges == DOMAIN config.challenges
Badges == DOMAIN config.badges
Workflows == DOMAIN config.workflows
DayOf(at) == at \div Day
Days == {DayOf(at) : at \in Instants}

\* (A command may unlock a badge that is not listed.)
TypeOK ==
  /\ config \in Configs
  /\ rows.xp \in [Tracks -> Nat]
  /\ rows.level \in [Tracks -> Nat]
  /\ rows.challenge \in [Challenges -> Instance]
  /\ rows.score \in [Boards -> Int]
  /\ rows.variable \in [Variables -> Values \union {Null}]
  /\ lastFired \in [Rules -> Instants \union {Never}]
  /\ fires \in [Rules -> [Days -> Nat]]
  /\ \A k \in DOMAIN ledger : ledger[k] \in Int
  /\ n \in 0 .. MaxEvents
  /\ firings \in [Rules -> SUBSET (Nat \X Instants)]

Init ==
  /\ config \in Configs
  /\ rows = [xp |-> [t \in Tracks |-> 0],
             level |-> [t \in Tracks |-> 0],
             challenge |-> [c \in Challenges |-> Untouched],
             unlocked |-> {},
             score |-> [b \in Boards |-> 0],
             variable |-> [k \in Variables |-> Null]]
  /\ lastFired = [r \in Rules |-> Never]
  /\ fires = [r \in Rules |-> [d \in Days |-> 0]]
  /\ ledger = <<>>
  /\ n = 0
  /\ decided = 0
  /\ firings = [r \in Rules |-> {}]
  /\ paid = [b \in Badges |-> 0]
  /\ won = [c \in Challenges |-> 0]
  /\ pushed = {}
  /\ shifted = {}
-----------------------------------------------------------------------------
(***************************************************************************)
(* Conditions.                                                             *)
(***************************************************************************)
\* context_values and event.*: what a field of the context holds.
Field(f, state, payload) ==
  CASE f[1] = "payload" -> payload
    [] f[1] = "level" -> IF f[2] \in Leveled THEN Number(state.level[f[2]]) ELSE Null
    [] f[1] = "xp" -> IF f[2] \in Leveled THEN Number(state.xp[f[2]]) ELSE Null
    [] f[1] = "completed" -> IF f[2] \in DOMAIN state.challenge /\ state.challenge[f[2]].row
                             THEN Bool(state.challenge[f[2]].done) ELSE Null
    [] f[1] = "unlocked" -> Bool(f[2] \in state.unlocked)
    [] f[1] = "variable" -> state.variable[f[2]]

\* The order of two values; values of different types are not ordered, and
\* compare answers 0 for them as it does for equal ones.
Compare(l, r) ==
  IF l.type # r.type \/ l.v = r.v THEN 0 ELSE IF l.v < r.v THEN -1 ELSE 1

Ok(op, order) ==
  CASE op = "eq" -> order = 0
    [] op = "neq" -> order # 0
    [] op = "gte" -> order >= 0
    [] op = "lt" -> order < 0

\* A comparison with a missing field is false, except neq.
Holds(leaf, state, payload) ==
  LET l == Field(leaf.field, state, payload) IN
  CASE leaf.op = "exists" -> l # Null
    [] leaf.op # "exists" /\ l = Null -> leaf.op = "neq"
    [] OTHER -> Ok(leaf.op, Compare(l, leaf.value))

Matches(cond, state, payload) ==
  CASE cond.op = "and" -> \A c \in cond.of : Holds(c, state, payload)
    [] cond.op = "or"  -> \E c \in cond.of : Holds(c, state, payload)
    [] cond.op = "not" -> \A c \in cond.of : ~Holds(c, state, payload)
-----------------------------------------------------------------------------
(***************************************************************************)
(* Rules.                                                                  *)
(***************************************************************************)
Observes(def, type) == def.on \in {type, Star}

\* Mutated form: an event that is older than the last firing is let through.
CooldownActiveForward(r, at) ==
  LET cooldown == config.rules[r].cooldown IN
  /\ cooldown > 0
  /\ lastFired[r] # Never
  /\ at >= lastFired[r]
  /\ at - lastFired[r] < cooldown

\* cooldown_active: "never fired" is not "fired at the epoch".
CooldownActive(r, at) ==
  LET cooldown == config.rules[r].cooldown IN
  /\ cooldown > 0
  /\ lastFired[r] # Never
  /\ at - lastFired[r] < cooldown

FrequencyCapped(r, at) ==
  LET cap == config.rules[r].cap IN
  /\ cap > 0
  /\ fires[r][DayOf(at)] >= cap

\* The rules that fire; they do not see each other's effects.
Fired(type, at, payload) ==
  {r \in Rules :
     /\ Observes(config.rules[r], type)
     /\ ~CooldownActive(r, at)
     /\ ~FrequencyCapped(r, at)
     /\ Matches(config.rules[r].cond, rows, payload)}

RecordFires(fired, at) ==
  /\ lastFired' = [r \in Rules |-> IF r \in fired THEN at ELSE lastFired[r]]
  /\ fires' = [r \in Rules |->
                 IF r \in fired THEN [fires[r] EXCEPT ![DayOf(at)] = @ + 1]
                 ELSE fires[r]]
  /\ firings' = [r \in Rules |->
                   IF r \in fired THEN firings[r] \union {<<n, at>>}
                   ELSE firings[r]]

\* Mutated form: the source does not tell achievements from challenges.
CommandOfId(action, source, i) ==
  [kind |-> action.kind, target |-> action.target, amount |-> action.amount,
   value |-> action.value, key |-> <<source[2], n, i>>]

\* A command carries the identity (source, event, index).
Command(action, source, i) ==
  [kind |-> action.kind, target |-> action.target, amount |-> action.amount,
   value |-> action.value, key |-> <<source, n, i>>]

Expand(actions, source) ==
  [i \in DOMAIN actions |-> Command(actions[i], source, i)]

\* The commands of the members of ids, in the order of the configuration.
InOrder(defs, ids, Commands(_)) ==
  FlattenSeq([i \in DOMAIN defs |-> IF i \in ids THEN Commands(i) ELSE <<>>])
-----------------------------------------------------------------------------
(***************************************************************************)
(* Challenges and workflows.                                               *)
(***************************************************************************)
\* apply_progress within one window.
Progress(c, target, delta) ==
  IF c.done THEN c
  ELSE IF target > 0 /\ c.progress + delta >= target
       THEN [row |-> TRUE, progress |-> target, done |-> TRUE]
       ELSE [row |-> TRUE, progress |-> c.progress + delta, done |-> FALSE]

Progressed(type) ==
  [c \in Challenges |->
     LET def == config.challenges[c] IN
     IF def.on = type THEN Progress(rows.challenge[c], def.target, 1)
     ELSE rows.challenge[c]]

\* Mutated form: every event of a completed challenge issues its rewards.
CompletedAgain(type) ==
  {c \in Challenges : config.challenges[c].on = type /\ Progressed(type)[c].done}

\* The challenges this event completes by itself: their rewards are issued.
Completed(type) ==
  {c \in Challenges : Progressed(type)[c].done /\ ~rows.challenge[c].done}

\* tick_workflow runs the steps up to a delay or a condition that is false.
Reached(steps, payload) ==
  {i \in DOMAIN steps :
     \A j \in 1 .. i :
       /\ steps[j].kind # "delay"
       /\ steps[j].kind = "condition" => Matches(steps[j].cond, rows, payload)}

WorkflowCommands(w, payload) ==
  LET steps == config.workflows[w].steps
      acting == {i \in Reached(steps, payload) : steps[i].kind # "condition"}
  IN InOrder(steps, acting,
             LAMBDA i : <<Command(steps[i], <<"workflow", w>>, i)>>)

\* The commands of the rules, of the challenge rewards and of the workflows.
Decided(type, payload, fired) ==
  InOrder(config.rules, fired,
          LAMBDA r : Expand(config.rules[r].actions, <<"rule", r>>)) \o
  InOrder(config.challenges, Completed(type),
          LAMBDA c : Expand(config.challenges[c].rewards, <<"challenge", c>>)) \o
  InOrder(config.workflows, {w \in Workflows : Observes(config.workflows[w], type)},
          LAMBDA w : WorkflowCommands(w, payload))
-----------------------------------------------------------------------------
(***************************************************************************)
(* The projection of commands on the state (apply_projection).             *)
(***************************************************************************)
\* apply_xp: the total never falls below zero, and the level is that of the
\* total.  Every board that ranks this track's XP shows the new total.
AwardXp(state, track, amount) ==
  LET total == Max({0, state.xp[track] + amount}) IN
  [state EXCEPT
     !.xp[track] = total,
     !.level[track] = IF track \in Leveled THEN total \div XpPerLevel ELSE @,
     !.score = [b \in Boards |->
                  IF config.boards[b] \in {track, Star} THEN total ELSE @[b]]]

\* start_challenge: a completed challenge is in progress again, and keeps what
\* it had: its next event completes it.
Restarted(c) == [row |-> TRUE, progress |-> c.progress, done |-> FALSE]

\* Commands that are not named here change no state; complete_challenge is one,
\* and a challenge that is not listed is another.
Project(state, cmd) ==
  CASE cmd.kind = "award_xp" -> AwardXp(state, cmd.target, cmd.amount)
    [] cmd.kind = "update_leaderboard" ->
         [state EXCEPT !.score[cmd.target] = @ + cmd.amount]
    [] cmd.kind = "progress_challenge" ->
         [state EXCEPT !.challenge[cmd.target] =
            Progress(@, config.challenges[cmd.target].target, cmd.amount)]
    [] cmd.kind = "start_challenge" ->
         [state EXCEPT !.challenge[cmd.target] = Restarted(@)]
    [] cmd.kind = "set_variable" ->
         [state EXCEPT !.variable[cmd.target] = cmd.value]
    [] OTHER -> state

Projected(state, cmds) == FoldLeft(Project, state, cmds)
-----------------------------------------------------------------------------
(***************************************************************************)
(* Achievements.                                                           *)
(***************************************************************************)
\* Mutated form: the condition sees the state before the commands.
UnlocksBefore(state, payload) ==
  {b \in Badges :
     /\ b \notin state.unlocked \/ config.badges[b].repeatable
     /\ Matches(config.badges[b].cond, rows, payload)}

\* evaluate: the condition sees the state after the commands, for all
\* achievements the same.
Unlocks(state, payload) ==
  {b \in Badges :
     /\ b \notin state.unlocked \/ config.badges[b].repeatable
     /\ Matches(config.badges[b].cond, state, payload)}

BadgeRewards(unlocking) ==
  InOrder(config.badges, unlocking,
          LAMBDA b : Expand(config.badges[b].rewards, <<"achievement", b>>))
\* The fields of the context that unlocks and their rewards change.
Shifts(unlocked, rewards) ==
  {<<"unlocked", b>> : b \in unlocked} \union
  UNION {{<<"xp", rewards[i].target>>, <<"level", rewards[i].target>>} :
           i \in {i \in DOMAIN rewards : rewards[i].kind = "award_xp"}}
-----------------------------------------------------------------------------
(***************************************************************************)
(* The control plane.                                                      *)
(***************************************************************************)
\* applyLedger: an entry whose key exists is not inserted again.
InsertEntry(entries, cmd) ==
  IF cmd.kind = "add_currency"
  THEN [k \in DOMAIN entries \union {cmd.key} |->
          IF k \in DOMAIN entries THEN entries[k] ELSE cmd.amount]
  ELSE entries
InsertEntries(cmds) == FoldLeft(InsertEntry, ledger, cmds)

\* unlock_achievement inserts a row the engine's state does not have.
UnlockedByCommand(cmds) ==
  {cmds[i].target : i \in {i \in DOMAIN cmds : cmds[i].kind = "unlock_achievement"}}

\* persistState overwrites every row but the unlocks, which it only adds.
Persist(state, cmds) ==
  [state EXCEPT !.unlocked = @ \union rows.unlocked \union UnlockedByCommand(cmds)]

\* The challenges that a command starts again, or for the first time.
StartedByCommand(cmds) ==
  {cmds[i].target : i \in {i \in DOMAIN cmds : cmds[i].kind = "start_challenge"}}

\* wallet_deltas: what the outcome reports.
AddAmount(sum, cmd) == IF cmd.kind = "add_currency" THEN sum + cmd.amount ELSE sum
Amounts(cmds) == FoldLeft(AddAmount, 0, cmds)

Process(type, at, payload) ==
  LET fired     == Fired(type, at, payload)
      decision  == Decided(type, payload, fired)
      projected == Projected([rows EXCEPT !.challenge = Progressed(type)], decision)
      unlocking == Unlocks(projected, payload)
      rewards   == BadgeRewards(unlocking)
      final     == Projected([projected EXCEPT !.unlocked = @ \union unlocking],
                             rewards)
      cmds      == decision \o rewards
      restarted == StartedByCommand(cmds)
  IN /\ n < MaxEvents
     /\ n' = n + 1
     /\ RecordFires(fired, at)
     /\ rows' = Persist(final, cmds)
     /\ ledger' = InsertEntries(cmds)
     /\ decided' = decided + Amounts(cmds)
     /\ paid' = [b \in Badges |-> IF b \in unlocking THEN paid[b] + 1 ELSE paid[b]]
     /\ won' = [c \in Challenges |->
                  IF c \in restarted THEN 0
                  ELSE IF c \in Completed(type) THEN won[c] + 1 ELSE won[c]]
     /\ pushed' =
          (pushed \ {<<"challenge", c>> : c \in restarted}) \union
          {<<"badge", b>> : b \in UnlockedByCommand(cmds)} \union
          {<<"challenge", c>> : c \in {c \in Challenges :
             /\ final.challenge[c].done
             /\ ~Progressed(type)[c].done \/ c \in restarted}}
     /\ shifted' = Shifts(unlocking \union UnlockedByCommand(cmds), rewards)
     /\ UNCHANGED config

Next ==
  \E type \in Types, at \in Instants, payload \in Payloads :
    Process(type, at, payload)

Spec == Init /\ [][Next]_vars
-----------------------------------------------------------------------------
(***************************************************************************)
(* Properties.                                                             *)
(***************************************************************************)
\* In whatever order events arrive, two firings of a rule are at least its
\* cooldown apart, and none of its days has more than the cap (cooldown_active,
\* frequency_capped, record_fire).
FiringsLimited ==
  \A r \in Rules :
    /\ \A f, g \in firings[r] :
         f # g /\ f[2] <= g[2] => g[2] - f[2] >= config.rules[r].cooldown
    /\ config.rules[r].cap > 0 =>
         \A d \in Days :
           Cardinality({f \in firings[r] : DayOf(f[2]) = d}) <= config.rules[r].cap

\* "Level-up badges must unlock on the SAME event that crosses the threshold"
\* (process_event): after an event, a badge is locked although its condition
\* holds only if the condition reads something that the unlocks of that event,
\* by the engine or by a command, or their rewards have changed, or the payload
\* of the event.
BadgesOnTime ==
  n > 0 =>
    \A b \in Badges \ rows.unlocked :
      Matches(config.badges[b].cond, rows, Null) =>
        \E leaf \in config.badges[b].cond.of :
          leaf.field \in shifted \union {<<"payload">>}

\* The rewards of an achievement that is not repeatable and those of a challenge
\* are issued once, when it is unlocked or completed; never before, and not at all
\* if a command was the cause ("Replays are no-ops for one-time achievements",
\* evaluate; the decision on rewards in process_event).  They are issued again
\* only for a challenge that a start_challenge command has opened again since
\* (apply_projection): as long as no command does, won counts from the beginning.
RewardsPaidOnce ==
  /\ \A b \in Badges :
       ~config.badges[b].repeatable =>
         \/ paid[b] = IF b \in rows.unlocked THEN 1 ELSE 0
         \/ <<"badge", b>> \in pushed /\ paid[b] = 0
  /\ \A c \in Challenges :
       won[c] = IF rows.challenge[c].done /\ <<"challenge", c>> \notin pushed
                THEN 1 ELSE 0

\* A command updates the board.
Updates(actions, b) ==
  \E i \in DOMAIN actions :
    actions[i].kind = "update_leaderboard" /\ actions[i].target = b

Updated(b) ==
  \/ \E r \in Rules : Updates(config.rules[r].actions, b)
  \/ \E w \in Workflows : Updates(config.workflows[w].steps, b)

\* The stored rows agree with each other and with what the outcomes reported: no
\* credit is taken for a replay of another one, levels belong to the totals, and
\* a board that ranks the XP of a track shows its total, if no command updates
\* it.  (A board without a track shows the track that was awarded last.)
RowsAgree ==
  /\ FoldFunction(+, 0, ledger) = decided
  /\ \A t \in Leveled : rows.level[t] = rows.xp[t] \div XpPerLevel
  /\ \A b \in {x \in Boards : ~Updated(x)} :
       /\ config.boards[b] \in Tracks => rows.score[b] = rows.xp[config.boards[b]]
       /\ config.boards[b] = Star => \E t \in Tracks : rows.score[b] = rows.xp[t]
=============================================================================
