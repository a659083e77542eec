------------------------------ MODULE MCEngine ------------------------------
EXTENDS Engine

CONSTANTS play, buy, main, side, ranking, overall, points, bonus

NoTrack == "other metric"
AllBoards == (ranking :> main @@ overall :> Star @@ points :> NoTrack)

Act(kind, target, amount) ==
  [kind |-> kind, target |-> target, amount |-> amount, value |-> Null]
Set(key, value) == [kind |-> "set_variable", target |-> key, amount |-> 0, value |-> value]
Xp(track, amount) == Act("award_xp", track, amount)
Coins(amount) == Act("add_currency", "coin", amount)

When(op, field, value) == [op |-> "and", of |-> {[op |-> op, field |-> field, value |-> value]}]
Always == [op |-> "and", of |-> {}]
LevelOf(track, level) == When("gte", <<"level", track>>, Number(level))

Rule(on, cond, cooldown, cap, actions) ==
  [on |-> on, cond |-> cond, cooldown |-> cooldown, cap |-> cap, actions |-> actions]
Badge(cond, repeatable, rewards) ==
  [cond |-> cond, repeatable |-> repeatable, rewards |-> rewards]
Goal(on, target, rewards) == [on |-> on, target |-> target, rewards |-> rewards]
Flow(on, steps) == [on |-> on, steps |-> steps]

Config(rules, goals, badges, flows) ==
  [rules |-> rules, challenges |-> goals, badges |-> badges, workflows |-> flows,
   boards |-> AllBoards]

\* A badge whose reward crosses the threshold of the one before it in the list.
Levels == Config(
  <<Rule(play, Always, 2, 0, <<Xp(main, 1), Coins(1)>>),
    Rule(Star, LevelOf(main, 1), 0, 2, <<Xp(side, 1), Act("update_leaderboard", points, 1)>>)>>,
  <<Goal(play, 2, <<Xp(main, 1), Coins(2)>>)>>,
  <<Badge(LevelOf(main, 2), FALSE, <<Coins(3)>>), Badge(LevelOf(main, 1), FALSE, <<Xp(main, 2)>>)>>,
  <<>>)

\* Commands that progress a challenge and unlock a badge; a repeatable badge.
Commands == Config(
  <<Rule(buy, When("gte", <<"payload">>, Number(2)), 0, 1,
         <<Act("progress_challenge", 1, 2), Act("unlock_achievement", 1, 0)>>),
    Rule(Star, [op |-> "or", of |-> {[op |-> "eq", field |-> <<"completed", 1>>, value |-> Bool(TRUE)],
                                     [op |-> "exists", field |-> <<"payload">>, value |-> Null]}],
         3, 1, <<Xp(main, 1)>>)>>,
  <<Goal(play, 3, <<Coins(1)>>), Goal(Star, 1, <<Coins(1)>>)>>,
  <<Badge(LevelOf(main, 1), FALSE, <<Coins(1)>>),
    Badge(When("eq", <<"unlocked", 1>>, Bool(TRUE)), TRUE, <<Coins(1), Xp(side, 1)>>)>>,
  <<>>)

\* XP is taken away; workflows stop at a condition and at a delay.
Workflows2 == Config(
  <<Rule(play, [op |-> "not", of |-> {[op |-> "lt", field |-> <<"payload">>, value |-> Number(2)]}],
         0, 0, <<Xp(main, 1)>>),
    Rule(buy, When("neq", <<"xp", main>>, Number(0)), 1, 0, <<Xp(main, -2), Coins(-1)>>)>>,
  <<>>,
  <<Badge(LevelOf(main, 1), FALSE, <<Xp(side, 2)>>)>>,
  <<Flow(Star, <<Xp(side, 1), [kind |-> "condition", cond |-> LevelOf(main, 1)], Xp(main, 1),
                 [kind |-> "delay"], Xp(main, 5)>>),
    Flow(buy, <<Coins(1), Act("complete_challenge", 1, 0), Coins(1)>>)>>)

\* A command starts a completed challenge again, another one completes it; a
\* variable that a rule sets and others read.
Restarts == Config(
  <<Rule(buy, When("eq", <<"completed", 1>>, Bool(TRUE)), 0, 0,
         <<Act("start_challenge", 1, 0), Set(bonus, Number(1))>>),
    Rule(buy, When("gte", <<"variable", bonus>>, Number(1)), 3, 0,
         <<Act("progress_challenge", 1, 1), Set(bonus, Bool(TRUE))>>)>>,
  <<Goal(play, 2, <<Coins(1)>>)>>,
  <<Badge(When("exists", <<"variable", bonus>>, Null), FALSE, <<Coins(1)>>)>>,
  <<Flow(buy, <<[kind |-> "condition", cond |-> When("lt", <<"payload">>, Number(2))],
                Act("start_challenge", 1, 0)>>)>>)

AllConfigs == {Levels, Commands, Workflows2, Restarts}
TwoPayloads == {Null, Number(1), Number(2), [type |-> "string", v |-> 0]}
=============================================================================
