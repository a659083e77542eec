------------------------------- MODULE Streak -------------------------------
(***************************************************************************)
(* One streak of one actor: streak::apply_qualifying of the engine, with   *)
(* the window keys of the time engine and their re-parsing by key_epoch,   *)
(* and the row that carries the state from one event to the next.          *)
(*                                                                         *)
(* Time is counted in ticks; window w is [Start[w], Start[w + 1]).  A      *)
(* window stands for its key; a rolling window is named after the instant  *)
(* that ends it, so every tick has its own.  Events carry the occurred_at  *)
(* their client chose; they are processed one at a time and, here, in that *)
(* order (README.md says what the code does with late ones).               *)
(***************************************************************************)
EXTENDS Integers, FiniteSets, FiniteSetsExt

CONSTANTS
  Periods,   \* the windows 0 .. Periods - 1
  Calendars, \* the windows' calendars and the streaks' specifications
  Never

Period == 0 .. Periods - 1

(***************************************************************************)
(* start[w] is the first instant of window w, 0 .. Periods.  rolling says  *)
(* TimeWindow::Rolling, of span ticks, else TimeWindow::Fixed.  dated: the *)
(* key carries a full date (day and hour, not week to year); date[w] is    *)
(* the day number in the key of window w, a calendar day has dayTicks.     *)
(* grace is StreakSpec.grace_seconds.                                      *)
(***************************************************************************)
Calendar ==
  [start : [0 .. Periods -> Int], rolling : BOOLEAN, span : Nat, dated : BOOLEAN,
   date : [Period -> Nat], dayTicks : Nat, grace : Nat]

StreakConstants ==
  /\ Periods \in Nat \ {0}
  /\ Calendars \subseteq Calendar
  /\ \A c \in Calendars : \A w \in Period : c.start[w] < c.start[w + 1]
  /\ \A c \in Calendars : c.rolling => c.span > 0
  /\ Never \notin Int

ASSUME StreakAssumption == StreakConstants

VARIABLES
  cal,           \* the streak's calendar, one per behaviour
  current, best, \* StreakState.current, best
  last,          \* StreakState.last_window_key, Never for the empty string
  effect,        \* StreakOutcome.effect of the last event
  hit            \* history: the first qualifying instant of each window

streakVars == <<cal, current, best, last, effect, hit>>

Start == cal.start
Rolling == cal.rolling
Span == cal.span
Dated == cal.dated
Date == cal.date
DayTicks == cal.dayTicks
Grace == cal.grace

Instants == Start[0] .. Start[Periods] - 1

StreakTypeOK ==
  /\ cal \in Calendars
  /\ current \in Nat
  /\ best \in Nat
  /\ last \in Period \union {Never}
  /\ effect \in {"none", "extended", "no_action", "grace", "broken"}
  /\ hit \in [Period -> Instants \union {Never}]

StreakInit ==
  /\ cal \in Calendars
  /\ current = 0
  /\ best = 0
  /\ last = Never
  /\ effect = "none"
  /\ hit = [w \in Period |-> Never]
-----------------------------------------------------------------------------
\* TimeWindow::resolve
WindowAt(t) == CHOOSE w \in Period : Start[w] <= t /\ t < Start[w + 1]
Unit(w) == IF Rolling THEN Span ELSE Start[w + 1] - Start[w]

\* key_epoch: noon UTC of the key's date, or the start of a rolling window;
\* week, month and year keys do not parse as dates.
Parses(w) == Rolling \/ Dated
KeyEpoch(w) ==
  IF Rolling THEN Start[w] - Span ELSE Date[w] * DayTicks + DayTicks \div 2

\* window_distance of two different keys, b resolved at the event's instant.
WindowDistance(a, b) ==
  LET delta == Max({KeyEpoch(b) - KeyEpoch(a), 0})
  IN IF ~Parses(a) \/ ~Parses(b) THEN 1
     ELSE IF Rolling THEN 1 + delta \div Unit(b)
     ELSE Max({delta \div Unit(b), 1})

\* Mutated form: every key is taken to be in the middle of its window.
PrevWindowEndHalf(a, b) ==
  IF ~Parses(a) THEN Start[b] - Unit(b) ELSE KeyEpoch(a) + Unit(b) \div 2

\* prev_window_end
PrevWindowEnd(a, b) ==
  IF ~Parses(a) THEN Start[b] - Unit(b)
  ELSE KeyEpoch(a) + (IF Rolling THEN Unit(b) ELSE Unit(b) \div 2)

InGrace(w, t) ==
  /\ WindowDistance(last, w) = 2
  /\ Grace > 0
  /\ t - PrevWindowEnd(last, w) <= Grace

Continue(w) ==
  /\ current' = current + 1
  /\ best' = Max({best, current + 1})
  /\ last' = w

\* The first qualifying action, and reset.
StartAnew(w) ==
  /\ current' = 1
  /\ best' = Max({best, 1})
  /\ last' = w

\* apply_qualifying at instant t.
Qualify(t) ==
  LET w == WindowAt(t) IN
  /\ UNCHANGED cal
  /\ hit' = [hit EXCEPT ![w] = IF @ = Never THEN t ELSE @]
  /\ \/ /\ last = Never
        /\ effect' = "extended"
        /\ StartAnew(w)
     \/ /\ last = w
        /\ effect' = "no_action"
        /\ UNCHANGED <<current, best, last>>
     \/ /\ last \notin {Never, w}
        /\ CASE WindowDistance(last, w) = 1 ->
                  effect' = "extended" /\ Continue(w)
             [] InGrace(w, t) -> effect' = "grace" /\ Continue(w)
             [] OTHER -> effect' = "broken" /\ StartAnew(w)

Hits == {w \in Period : hit[w] # Never}

StreakNext ==
  \E t \in Instants :
    /\ \A w \in Hits : hit[w] <= t
    /\ Qualify(t)

StreakSpec == StreakInit /\ [][StreakNext]_streakVars
-----------------------------------------------------------------------------
(***************************************************************************)
(* The reference: a qualifying window continues the one before it, or the  *)
(* one before that if its first action came within the grace after the end *)
(* of that window.  A rolling window continues the one before it if its    *)
(* action came less than a span after that one, or within a grace below    *)
(* two spans.  The streak is the run that ends in the newest window.       *)
(***************************************************************************)
LinkedFixed(v, w) ==
  \/ w = v + 1
  \/ /\ w = v + 2
     /\ v + 1 \notin Hits
     /\ hit[w] - Start[v + 1] <= Grace
     /\ Grace > 0

LinkedRolling(v, w) ==
  /\ v < w
  /\ \/ hit[w] - hit[v] < Span
     \/ /\ hit[w] - hit[v] < 2 * Span
        /\ hit[w] - hit[v] <= Grace

Linked(v, w) ==
  /\ v \in Hits /\ w \in Hits
  /\ IF Rolling THEN LinkedRolling(v, w) ELSE LinkedFixed(v, w)

\* The qualifying windows from v to w, if they form one run.
Between(v, w) == {x \in Hits : v <= x /\ x <= w}
Run(v, w) ==
  /\ v \in Hits /\ w \in Hits
  /\ \A x \in Between(v, w) \ {w} :
       \E y \in Between(v, w) : y > x /\ Linked(x, y)

RunLength(w) == Max({Cardinality(Between(v, w)) : v \in {x \in Hits : x <= w /\ Run(x, w)}})

\* Calendars whose windows are days in UTC, or end at every tick.
DaysOfUtc(c) ==
  /\ ~c.rolling /\ c.dated /\ c.dayTicks % 2 = 0
  /\ \A w \in Period : c.date[w] = c.date[0] + w
  /\ \A w \in 0 .. Periods : c.start[w] = (c.date[0] + w) * c.dayTicks
EveryTick(c) ==
  c.rolling /\ \A w \in 0 .. Periods : c.start[w] = c.start[0] + w

Regular == \A c \in Calendars : DaysOfUtc(c) \/ EveryTick(c)

\* If the calendars are regular (README.md says what the code does with others),
\* the stored streak is the length of the newest run and the best is the longest
\* run there ever was, however many events each window had and wherever the gaps
\* are ("Missed more than grace allows - reset", "Consecutive window -
\* extend", apply_qualifying).
StreakIsRun ==
  Hits # {} =>
    /\ current = RunLength(Max(Hits))
    /\ best = Max({RunLength(w) : w \in Hits})
=============================================================================
