------------------------------- MODULE Merge --------------------------------
(***************************************************************************)
(* The users of an environment and the calls that move what they own:      *)
(* MergeAnonymous and LinkIdentity (internal/identity) against events of   *)
(* the same users (internal/processing).                                   *)
(*                                                                         *)
(* A call is a list of statements.  They run at READ COMMITTED, one per    *)
(* step: a SELECT sees the committed rows and the call's own, a statement  *)
(* that writes a row waits for the transaction that has written it.  The   *)
(* one statement whose SELECT is over before it waits, INSERT ... SELECT   *)
(* ... ON CONFLICT, is two steps.                                          *)
(***************************************************************************)
EXTENDS Integers, Sequences, FiniteSets, Functions, SequencesExt, Ranking

CONSTANTS
  Users,      \* user ids, numbers
  Identities, \* provider identities
  Tracks,
  StateKeys,  \* of the rows of a simple table: challenges, streaks, items, ...
  Calls,
  Call,       \* Call[t]: a merge, an event or a link, with its parameters
  Start,      \* the rows at the start
  MaxOpen,    \* bound: calls under way at the same time
  MaxTangled, \* bound: no call begins once more users are tangled
  None

Kind(t) == Call[t].kind
Source(t) == Call[t].source
Target(t) == Call[t].target
Actor(t) == Call[t].user

Events == {t \in Calls : Kind(t) = "event"}

-----------------------------------------------------------------------------
(* Rows are named by table and user, and by track or by another key where   *)
(* there are several.                                                      *)

\* Of the tables that a merge re-owns by one UPDATE, those that events write.
SimpleTables ==
  {"challenge_progress", "streak_state", "achievement_unlocks", "inventory_items",
   "user_variables"}

UserTables == {"rule_state", "wallets", "leaderboard_entries", "users"} \union SimpleTables

RowsOf(table, u) ==
  CASE table = "xp_tracks" -> {<<table, u, k>> : k \in Tracks}
    [] table \in SimpleTables -> {<<table, u, k>> : k \in StateKeys}
    [] OTHER -> {<<table, u>>}

IdentityRow(i) == <<"identities", i>>
EntryRow(t) == <<"ledger_entries", t>>
UserRow(u) == <<"users", u>>

Row ==
  (UNION {RowsOf(table, u) : table \in UserTables \union {"xp_tracks"}, u \in Users})
    \union {IdentityRow(i) : i \in Identities}
    \union {EntryRow(t) : t \in Events}

Score == [score : Nat, at : Nat]

\* identities and ledger_entries hold their owner, users holds merged_into, a row
\* of a simple table is there or not, the other tables hold what they count.
Values(row) ==
  CASE row[1] \in {"identities", "ledger_entries", "users"} -> Users
    [] row[1] = "leaderboard_entries" -> Score
    [] OTHER -> Nat

\* The simple tables that only persistState writes.
Touchable == {"challenge_progress", "streak_state", "user_variables"}

ASSUME MergeAssumption ==
  /\ IsFiniteSet(Users) /\ Users \subseteq Nat
  /\ IsFiniteSet(Tracks) /\ IsFiniteSet(StateKeys)
  /\ IsFiniteSet(Calls)
  /\ None \notin Nat \union Score
  /\ \A t \in Calls :
       \/ /\ Kind(t) = "merge"
          /\ Call[t] \in [kind : {"merge"}, source : Users, target : Users]
          /\ Source(t) # Target(t)
       \/ Call[t] \in [kind : {"event"}, user : Users, track : Tracks, xp : Nat,
                       points : Nat, items : SUBSET StateKeys,
                       unlocks : SUBSET StateKeys,
                       touched : SUBSET (Touchable \X StateKeys)]
       \/ Call[t] \in [kind : {"link"}, user : Users, identity : Identities]
  /\ DOMAIN Start = Row
  /\ \A row \in Row : Start[row] \in Values(row) \union {None}
  /\ MaxOpen \in Nat
  /\ MaxTangled \in Nat

VARIABLES
  db,      \* the committed rows; None for a row that is not there
  own,     \* per call: the rows it has written, uncommitted and locked
  todo,    \* per call: the statements to come
  status,  \* per call
  read,    \* per call: what follows from its last SELECTs
  due,     \* history: what each user has earned and been merged with
  tangled  \* history: users met by two calls that overlapped badly

mergeVars == <<db, own, todo, status, read, due, tangled>>

Open == {t \in Calls : status[t] = "running"}

Overlay(f, g) == [r \in DOMAIN f \union DOMAIN g |-> IF r \in DOMAIN f THEN f[r] ELSE g[r]]

\* What call t sees.
View(t) == Overlay(own[t], db)
Seen(t, row) == IF row \in DOMAIN own[t] THEN own[t][row] ELSE db[row]

Number(rows, row) == IF rows[row] = None THEN 0 ELSE rows[row]
BoardOf(rows, u) ==
  LET row == <<"leaderboard_entries", u>>
  IN  IF rows[row] = None THEN [score |-> 0, at |-> 0] ELSE rows[row]

XP(rows, u) == SumFunction([k \in Tracks |-> Number(rows, <<"xp_tracks", u, k>>)])
Coins(rows, u) == Number(rows, <<"wallets", u>>)

\* An event earns as many coins as XP.
LedgerSum(rows, u) ==
  SumFunction([t \in Events |-> IF rows[EntryRow(t)] = u THEN Call[t].xp ELSE 0])

\* The start is one that events left: nobody is merged yet.
ASSUME StartAssumption ==
  \A u \in Users :
    /\ Start[UserRow(u)] = None
    /\ XP(Start, u) = LedgerSum(Start, u)
    /\ Coins(Start, u) = LedgerSum(Start, u)

Statement(op, of) == [op |-> op, of |-> of]

Due == [coins : Nat, points : Nat]

MergeTypeOK ==
  /\ DOMAIN db = Row
  /\ \A row \in Row : db[row] \in Values(row) \union {None}
  /\ \A t \in Calls : \A row \in DOMAIN own[t] : own[t][row] \in Values(row) \union {None}
  /\ status \in [Calls -> {"waiting", "running", "done"}]
  /\ due \in [Users -> Due]
  /\ tangled \subseteq Users

\* Events that are part of the start.
Applied(t) == Kind(t) = "event" /\ Start[EntryRow(t)] # None

MergeInit ==
  /\ db = Start
  /\ own = [t \in Calls |-> <<>>]
  /\ todo = [t \in Calls |-> <<>>]
  /\ status = [t \in Calls |-> IF Applied(t) THEN "done" ELSE "waiting"]
  /\ read = [t \in Calls |-> <<>>]
  /\ due = [u \in Users |-> [coins |-> LedgerSum(Start, u),
                           points |-> BoardOf(Start, u).score]]
  /\ tangled = {}
-----------------------------------------------------------------------------
(* The statements of a merge and of a link.                                *)

\* Mutated form: the rows of the source stay where they were.
DeleteNothing(table) == Statement("select", table)

\* INSERT ... SELECT ... ON CONFLICT DO UPDATE is followed by a DELETE.
Delete(table) == Statement("delete", table)

MergeAnonymous ==
  <<Statement("validate", "source"), Statement("validate", "target"),
    Statement("repoint", "identities"),
    Statement("select", "xp_tracks"), Statement("upsert", "xp_tracks"), Delete("xp_tracks"),
    Statement("select", "rule_state"), Statement("upsert", "rule_state"),
    Delete("rule_state"),
    Statement("reown", "challenge_progress"), Statement("reown", "streak_state"),
    Statement("reown", "achievement_unlocks"), Statement("reown", "inventory_items"),
    Statement("reown", "user_variables"),
    Statement("select", "wallets"), Statement("upsert", "wallets"), Delete("wallets"),
    Statement("repoint", "ledger_entries"),
    Statement("select", "leaderboard_entries"),
    Statement("upsert", "leaderboard_entries"), Delete("leaderboard_entries"),
    Statement("archive", "users"), Statement("commit", "users")>>

LinkIdentity ==
  <<Statement("validate", "user"), Statement("lookup", "identities"),
    Statement("link", "identities"), Statement("commit", "users")>>

\* A row merged into one that the target has.
Merged(table, old, new) ==
  CASE table \in {"xp_tracks", "wallets"} -> old + new
    [] table = "rule_state" -> new
    [] table = "leaderboard_entries" ->
         [score |-> IF old.score > new.score THEN old.score ELSE new.score,
          at |-> IF old.at < new.at THEN old.at ELSE new.at]

OfTarget(t, row) == [row EXCEPT ![2] = Target(t)]

\* What the SELECT found, under the target's names.
Upserted(t) ==
  [row \in DOMAIN read[t] |->
     IF Seen(t, row) = None THEN read[t][row]
     ELSE Merged(row[1], Seen(t, row), read[t][row])]

Present(t, rows) == {row \in rows : Seen(t, row) # None}

Deleted(t, table) == [row \in Present(t, RowsOf(table, Source(t))) |-> None]

Repointed(t, table) ==
  [row \in {r \in Row : r[1] = table /\ Seen(t, r) = Source(t)} |-> Target(t)]

\* UPDATE ... SET user_id: the row moves to the target's key.
Reowned(t, table) ==
  LET from == Present(t, RowsOf(table, Source(t)))
  IN  Overlay([row \in from |-> None], [row \in {OfTarget(t, r) : r \in from} |-> 1])
-----------------------------------------------------------------------------
(* The statements of an event.  The configuration decides on the commands    *)
(* and on their order: here at most one award of XP and of coins, points,  *)
(* and any number of items and achievements.                               *)

XPRow(t) == <<"xp_tracks", Actor(t), Call[t].track>>
WalletRow(t) == <<"wallets", Actor(t)>>
BoardRow(t) == <<"leaderboard_entries", Actor(t)>>
RuleRow(t) == <<"rule_state", Actor(t)>>
Unlocked(t) == {<<"achievement_unlocks", Actor(t), k>> : k \in Call[t].unlocks}
Granted(t) == {<<"inventory_items", Actor(t), k>> : k \in Call[t].items}
TouchedRows(t) == {<<p[1], Actor(t), p[2]>> : p \in Call[t].touched}

\* The tables that LoadActorState reads and the engine returns.
StateOfActor ==
  {"xp_tracks", "challenge_progress", "streak_state", "achievement_unlocks",
   "leaderboard_entries", "user_variables"}

\* The rows of the actor's state that the engine returns, from those it is
\* given: all of them, and the ones that the event adds to.
Projected(t) ==
  Present(t, UNION {RowsOf(table, Actor(t)) : table \in StateOfActor})
    \union {RuleRow(t)} \union Unlocked(t) \union TouchedRows(t)
    \union (IF Call[t].xp > 0 THEN {XPRow(t)} ELSE {})
    \union (IF Call[t].points > 0 THEN {BoardRow(t)} ELSE {})

\* Time is the number of events applied so far.
Now == Cardinality({t \in Events : status[t] = "done"})

\* The score of a board row, which may not be there, with the event's points.
Raised(t, old) ==
  [score |-> (IF old = None THEN 0 ELSE old.score) + Call[t].points, at |-> Now]

Outcome(t) ==
  [row \in Projected(t) |->
     CASE row = XPRow(t) -> Number(db, row) + Call[t].xp
       [] row[1] = "rule_state" -> Number(db, row) + 1
       [] row[1] \in SimpleTables -> 1
       [] row[1] = "leaderboard_entries" -> Raised(t, db[row])
       [] OTHER -> db[row]]

\* The lists that are one of A followed by one of B.
Then(A, B) == {a \o b : a \in A, b \in B}

\* The rows of a table that the engine returned, in the order of a Go map.
Returned(t, table) == SetToSeqs({row \in Projected(t) : row[1] = table})

\* Mutated form: the streaks are written first.
PersistStateStreaksFirst(t) ==
  LET In(table) == Returned(t, table)
  IN  Then(In("streak_state"), Then(In("xp_tracks"), Then(In("rule_state"),
        Then(In("challenge_progress"), Then(In("achievement_unlocks"),
        Then(In("leaderboard_entries"), In("user_variables")))))))

\* The rows that persistState writes: table after table.
PersistState(t) ==
  LET In(table) == Returned(t, table)
  IN  Then(In("xp_tracks"), Then(In("rule_state"), Then(In("challenge_progress"),
        Then(In("streak_state"), Then(In("achievement_unlocks"),
        Then(In("leaderboard_entries"), In("user_variables")))))))

\* An achievement is inserted or left alone, the other rows are overwritten.
Persist(row) == Statement(IF row[1] = "achievement_unlocks" THEN "keep" ELSE "write", row)

\* upsertTrack, applyLedger, applyUnlockAchievement, applyGrantItem, applyLeaderboard.
CommandStatements(t) ==
  {Statement("ensure", row) :
     row \in Unlocked(t) \union (IF Call[t].xp > 0 THEN {XPRow(t)} ELSE {})}
    \union (IF Call[t].xp > 0
            THEN {Statement("entry", EntryRow(t)), Statement("sum", WalletRow(t)),
                  Statement("write", WalletRow(t))} ELSE {})
    \union {Statement("grant", row) : row \in Granted(t)}
    \union (IF Call[t].points > 0 THEN {Statement("raise", BoardRow(t))} ELSE {})

\* The statements of one command follow each other.
Together(s) ==
  \A i \in DOMAIN s :
    /\ s[i].op = "entry" => i + 1 \in DOMAIN s /\ s[i + 1].op = "sum"
    /\ s[i].op = "sum" => /\ i + 1 \in DOMAIN s
                          /\ s[i + 1] = Statement("write", s[i].of)

Commands(t) == {s \in SetToSeqs(CommandStatements(t)) : Together(s)}

\* The commands, then the state.
ApplyOutcome(t, commands, rows) ==
  commands \o [i \in DOMAIN rows |-> Persist(rows[i])] \o <<Statement("commit", "users")>>
-----------------------------------------------------------------------------
(* Beginning, waiting, ending.                                             *)

\* The rows that the next statement of a call writes.
Effect(t) ==
  LET s == Head(todo[t]) IN
  CASE s.op = "upsert" -> Upserted(t)
    [] s.op = "delete" -> Deleted(t, s.of)
    [] s.op = "repoint" -> Repointed(t, s.of)
    [] s.op = "reown" -> Reowned(t, s.of)
    [] s.op = "archive" -> [row \in {UserRow(Source(t))} |-> Target(t)]
    [] s.op \in {"ensure", "keep"} -> [row \in {s.of} \ Present(t, {s.of}) |-> 0]
    [] s.op = "grant" -> [row \in {s.of} |-> 1]
    [] s.op = "entry" -> [row \in {s.of} |-> Actor(t)]
    [] s.op = "raise" -> [row \in {s.of} |-> Raised(t, Seen(t, s.of))]
    [] s.op = "write" -> [row \in {s.of} |-> read[t][s.of]]
    [] s.op = "link" -> [row \in {IdentityRow(Call[t].identity)} |-> Actor(t)]
    [] OTHER -> <<>>

\* An INSERT ... DO NOTHING waits for the row that it will leave alone.
Wanted(t) ==
  DOMAIN Effect(t)
    \union (IF Head(todo[t]).op \in {"ensure", "keep"} THEN {Head(todo[t]).of} ELSE {})

Waits(t, x) ==
  /\ status[t] = "running" /\ status[x] = "running"
  /\ t # x
  /\ Wanted(t) \intersect DOMAIN own[x] # {}

Free(t) == \A x \in Open : ~Waits(t, x)

\* The next statement of call t is one of these.
Doing(t, ops) ==
  /\ status[t] = "running"
  /\ Head(todo[t]).op \in ops
  /\ Free(t)

GoOn(t) == todo' = [todo EXCEPT ![t] = Tail(@)]

End(t, how) ==
  /\ status' = [status EXCEPT ![t] = how]
  /\ own' = [own EXCEPT ![t] = <<>>]
  /\ todo' = [todo EXCEPT ![t] = <<>>]
  /\ read' = [read EXCEPT ![t] = <<>>]

\* A call that failed may be sent again.
Fail(t) == End(t, "waiting") /\ UNCHANGED <<db, due, tangled>>

Program(t) ==
  CASE Kind(t) = "merge" -> MergeAnonymous
    [] Kind(t) = "link" -> LinkIdentity
    [] OTHER -> <<Statement("load", "users")>>

UsersOf(t) == IF Kind(t) = "merge" THEN {Source(t), Target(t)} ELSE {Actor(t)}

IdentitiesOf(u) == {i \in Identities : db[IdentityRow(i)] = u}

\* The overlaps in which a call overwrites or deletes what it has not read.
\* Merges of different users into one are not among them, nor are two merges
\* of a user into the same target if an identity of the user makes the second
\* one wait for the first before it reads.
Clash(t, x) ==
  CASE Kind(t) = "merge" /\ Kind(x) = "merge" ->
         /\ Source(t) \in UsersOf(x)
         /\ Call[t] # Call[x] \/ IdentitiesOf(Source(t)) = {}
    [] Kind(t) = "merge" /\ Kind(x) = "event" -> Actor(x) \in UsersOf(t)
    [] Kind(t) = "merge" /\ Kind(x) = "link" -> Actor(x) = Source(t)
    [] Kind(t) = "event" /\ Kind(x) = "event" -> Actor(t) = Actor(x)
    [] OTHER -> FALSE

Begin(t) ==
  /\ status[t] = "waiting"
  /\ Cardinality(Open) < MaxOpen
  /\ Cardinality(tangled) <= MaxTangled
  /\ status' = [status EXCEPT ![t] = "running"]
  /\ todo' = [todo EXCEPT ![t] = Program(t)]
  /\ tangled' = tangled \union UNION {UsersOf(t) \union UsersOf(x) :
                                        x \in {y \in Open : Clash(t, y) \/ Clash(y, t)}}
  /\ UNCHANGED <<db, own, read, due>>
-----------------------------------------------------------------------------
(* The steps.                                                              *)

\* Mutated form: only the source is looked up.
ValidatedSource(t) == IF Kind(t) = "merge" THEN Source(t) ELSE Actor(t)

\* Whom the SELECT EXISTS is about.
Validated(t) ==
  CASE Head(todo[t]).of = "source" -> Source(t)
    [] Head(todo[t]).of = "target" -> Target(t)
    [] OTHER -> Actor(t)

Validate(t) ==
  /\ Doing(t, {"validate"})
  /\ IF db[UserRow(Validated(t))] = None
     THEN GoOn(t) /\ UNCHANGED <<db, own, status, read, due, tangled>>
     ELSE Fail(t)

Lookup(t) ==
  LET owner == db[IdentityRow(Call[t].identity)] IN
  /\ Doing(t, {"lookup"})
  /\ CASE owner = None -> GoOn(t) /\ UNCHANGED <<db, own, status, read, due, tangled>>
       [] owner = Actor(t) -> End(t, "done") /\ UNCHANGED <<db, due, tangled>>
       [] OTHER -> Fail(t)

Load(t) ==
  /\ Doing(t, {"load"})
  /\ \E commands \in Commands(t), rows \in PersistState(t) :
       todo' = [todo EXCEPT ![t] = ApplyOutcome(t, commands, rows)]
  /\ read' = [read EXCEPT ![t] = Outcome(t)]
  /\ UNCHANGED <<db, own, status, due, tangled>>

Select(t) ==
  LET found == Present(t, RowsOf(Head(todo[t]).of, Source(t))) IN
  /\ Doing(t, {"select"})
  /\ read' = [read EXCEPT ![t] =
       [row \in {OfTarget(t, r) : r \in found} |->
          Seen(t, [row EXCEPT ![2] = Source(t)])]]
  /\ GoOn(t)
  /\ UNCHANGED <<db, own, status, due, tangled>>

Sum(t) ==
  /\ Doing(t, {"sum"})
  /\ read' = [read EXCEPT ![t] =
       Overlay([row \in {Head(todo[t]).of} |-> LedgerSum(View(t), Actor(t))], @)]
  /\ GoOn(t)
  /\ UNCHANGED <<db, own, status, due, tangled>>

\* The row is there already.  A merge ignores the error, but PostgreSQL ends
\* the transaction with it: the next statement fails and the call returns.
Violates(t) ==
  /\ Head(todo[t]).op \in {"reown", "link"}
  /\ \E row \in DOMAIN Effect(t) : Effect(t)[row] # None /\ Seen(t, row) # None

Write(t) ==
  /\ Doing(t, {"upsert", "delete", "repoint", "reown", "archive", "ensure", "keep",
               "entry", "grant", "raise", "write", "link"})
  /\ IF Violates(t)
     THEN Fail(t)
     ELSE /\ own' = [own EXCEPT ![t] = Overlay(Effect(t), @)]
          /\ GoOn(t)
          /\ UNCHANGED <<db, status, read, due, tangled>>

Credited(t) ==
  IF Kind(t) = "event"
  THEN [due EXCEPT ![Actor(t)] = [coins |-> @.coins + Call[t].xp,
                                  points |-> @.points + Call[t].points]]
  ELSE [due EXCEPT ![Source(t)] = [coins |-> 0, points |-> 0],
                   ![Target(t)] =
                     [coins |-> @.coins + due[Source(t)].coins,
                      points |-> IF @.points > due[Source(t)].points
                                 THEN @.points ELSE due[Source(t)].points]]

Commit(t) ==
  /\ Doing(t, {"commit"})
  /\ db' = Overlay(own[t], db)
  /\ due' = IF Kind(t) = "link" THEN due ELSE Credited(t)
  /\ tangled' = IF Kind(t) = "merge" /\ Source(t) \in tangled
                THEN tangled \union {Target(t)} ELSE tangled
  /\ End(t, "done")

\* PostgreSQL ends one of two transactions that wait for each other.
Deadlock(t) ==
  /\ status[t] = "running"
  /\ \E x \in Open : Waits(t, x) /\ Waits(x, t)
  /\ Fail(t)

\* The process or the connection dies.
Lose(t) ==
  /\ status[t] = "running"
  /\ Fail(t)
-----------------------------------------------------------------------------
Advance(t) ==
  \/ Validate(t)
  \/ Lookup(t)
  \/ Load(t)
  \/ Select(t)
  \/ Sum(t)
  \/ Write(t)
  \/ Commit(t)

MergeNext ==
  \/ \E t \in Calls : Begin(t)
  \/ \E t \in Open : Advance(t) \/ Deadlock(t) \/ Lose(t)

MergeSpec == MergeInit /\ [][MergeNext]_mergeVars
-----------------------------------------------------------------------------
\* "Moving ALL runtime state.  Progress is preserved" (MergeAnonymous): what a
\* user earned is with the user or with the one it was merged into, once, in
\* every interleaving but those of Clash, whatever fails or is sent again.
NothingLostOrDoubled ==
  \A u \in Users \ tangled :
    /\ XP(db, u) = due[u].coins
    /\ Coins(db, u) = due[u].coins
    /\ LedgerSum(db, u) = due[u].coins
    /\ BoardOf(db, u).score = due[u].points

\* The users that following merged_into from u leads to.
Closed(users) == \A v \in users : db[UserRow(v)] # None => db[UserRow(v)] \in users
Line(u) ==
  {v \in Users : \A users \in SUBSET Users : u \in users /\ Closed(users) => v \in users}

\* A merged user has no identity that would log it in, and following merged_into
\* ends: at a user that is not merged, which is the one that has its progress, or
\* among users that Clash has tangled.
IdentitiesReachHeir ==
  \A u \in Users \ tangled :
    db[UserRow(u)] # None
      => /\ IdentitiesOf(u) = {}
         /\ \E v \in Line(u) : db[UserRow(v)] = None \/ Line(v) \subseteq tangled

\* The tables whose rows a command takes, before persistState.
Commanded ==
  {"xp_tracks", "wallets", "inventory_items", "achievement_unlocks", "leaderboard_entries"}

\* Those of them that persistState writes after the rule state.
AfterRules == {"achievement_unlocks", "leaderboard_entries"}

\* Two merges wait for each other only over rows of one table, and only if each
\* merges into the user that the other one merges away.  Two events of a
\* user wait for each other only over rows that commands take, in the order that
\* the configuration gives them, and persistState in the order of a Go map, or
\* over the rule state and an achievement or a board, which a command of one
\* takes before the rule state and persistState of the other after it.  Every
\* event takes the rule state of its user before the challenges, the streaks and
\* the variables, so that these never make two events fail, in whatever order
\* the Go maps give their rows.
LocksInOrder ==
  \A t, x \in Open :
    Waits(t, x) /\ Waits(x, t)
      => LET a == Head(todo[t]).of
             b == Head(todo[x]).of
         IN \/ Kind(t) # Kind(x)
            \/ Kind(t) = "merge" /\ a = b /\ Source(t) = Target(x)
            \/ Kind(t) = "event" /\ {a[1], b[1]} \subseteq Commanded
            \/ /\ Kind(t) = "event" /\ "rule_state" \in {a[1], b[1]}
               /\ {a[1], b[1]} \intersect AfterRules # {}

Board == {[user |-> u, score |-> BoardOf(db, u).score, at |-> BoardOf(db, u).at] :
            u \in {v \in Users : db[<<"leaderboard_entries", v>>] # None}}

\* The places that players see and those of the ranking crate, on every board
\* that events and merges leave: a page lists places 1, 2, 3, ... without a gap
\* or a repetition, and an entry's place is the one of the crate (1 and the
\* number of entries that are strictly better) plus the entries that tie with
\* it and have a smaller user id.  (A board is there without open calls, too:
\* they may be lost.)
PlacesAgree ==
  LET board == Board
      page == Page(board, "highest", Cardinality(board))
      Better(e) == {f \in board : LexLess(PlaceKey(f, Newest), PlaceKey(e, Newest))}
      Earlier(e) == {f \in board : /\ PlaceKey(f, Newest) = PlaceKey(e, Newest)
                                    /\ f.user < e.user}
  IN  Open = {} =>
        /\ \A i \in DOMAIN page : page[i].rank = i
        /\ \A e \in board :
             /\ PositionOf(board, Newest, e) = 1 + Cardinality(Better(e))
             /\ RankExpr(board, e) = PositionOf(board, Newest, e) + Cardinality(Earlier(e))
=============================================================================
