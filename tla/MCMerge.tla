------------------------------ MODULE MCMerge ------------------------------
EXTENDS Merge, TLC

CONSTANTS
  main, side,       \* tracks
  one, two,         \* keys of the rows of simple tables
  email, phone,     \* identities
  p1, p2, p3,       \* events applied before
  e1, e2,           \* events of user 3
  m1, again, m2, m3,\* merges
  link, relink

MergeOf(s, t) == [kind |-> "merge", source |-> s, target |-> t]
LinkOf(u, i) == [kind |-> "link", user |-> u, identity |-> i]
EventOf(u, k, n, points, items, unlocks, touched) ==
  [kind |-> "event", user |-> u, track |-> k, xp |-> n, points |-> points,
   items |-> items, unlocks |-> unlocks, touched |-> touched]

\* Users 1 and 2 are merged into 3, the first one twice, and 3 into 1.
AllCalls == {p1, p2, p3, e1, e2, m1, again, m2, m3, link, relink}
CallData ==
  (p1 :> EventOf(1, main, 1, 2, {}, {}, {<<"streak_state", one>>})
   @@ p2 :> EventOf(2, main, 1, 1, {}, {one}, {})
   @@ p3 :> EventOf(3, side, 0, 1, {}, {}, {<<"user_variables", one>>})
   @@ e1 :> EventOf(3, side, 0, 1, {}, {one}, {"streak_state"} \X {one, two})
   @@ e2 :> EventOf(3, main, 1, 0, {one}, {}, {<<"challenge_progress", one>>})
   @@ m1 :> MergeOf(1, 3) @@ again :> MergeOf(1, 3) @@ m2 :> MergeOf(2, 3)
   @@ m3 :> MergeOf(3, 1)
   @@ link :> LinkOf(2, phone) @@ relink :> LinkOf(3, email))

\* The rows that p1, p2 and p3 left, and an identity of user 1.
StartRows ==
  LET left ==
        (<<"ledger_entries", p1>> :> 1 @@ <<"ledger_entries", p2>> :> 2
         @@ <<"ledger_entries", p3>> :> 3
         @@ <<"xp_tracks", 1, main>> :> 1 @@ <<"xp_tracks", 2, main>> :> 1
         @@ <<"rule_state", 1>> :> 1 @@ <<"rule_state", 2>> :> 1 @@ <<"rule_state", 3>> :> 1
         @@ <<"wallets", 1>> :> 1 @@ <<"wallets", 2>> :> 1
         @@ <<"streak_state", 1, one>> :> 1 @@ <<"user_variables", 3, one>> :> 1
         @@ <<"achievement_unlocks", 2, one>> :> 1
         @@ <<"leaderboard_entries", 1>> :> [score |-> 2, at |-> 0]
         @@ <<"leaderboard_entries", 2>> :> [score |-> 1, at |-> 1]
         @@ <<"leaderboard_entries", 3>> :> [score |-> 1, at |-> 1]
         @@ <<"identities", email>> :> 1)
  IN  [row \in Row |-> IF row \in DOMAIN left THEN left[row] ELSE None]
=============================================================================
