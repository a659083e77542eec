SPECIFICATION StreakSpec
CONSTANTS
  Periods = 6
  Calendars <- UtcCalendars
  Never = Never
INVARIANTS
  StreakIsRun
CHECK_DEADLOCK FALSE
