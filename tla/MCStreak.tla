------------------------------ MODULE MCStreak ------------------------------
EXTENDS Streak

Fixed(start, date, grace) ==
  [start |-> start, rolling |-> FALSE, span |-> 0, dated |-> TRUE,
   date |-> date, dayTicks |-> 4, grace |-> grace]

\* Days of four ticks in UTC, without a grace, with one of a tick and with one
\* that reaches into the second window after.
Start4 == [w \in 0 .. Periods |-> 4 * w]
Days(grace) == Fixed(Start4, [w \in Period |-> w], grace)

\* A rolling window of three ticks ends at every tick.
Rollings(grace) ==
  [start |-> [w \in 0 .. Periods |-> w], rolling |-> TRUE, span |-> 3,
   dated |-> TRUE, date |-> [w \in Period |-> 0], dayTicks |-> 4, grace |-> grace]

UtcCalendars == {Days(0), Days(1), Days(5), Rollings(0), Rollings(4)}

ASSUME RegularCalendars == Regular
=============================================================================
