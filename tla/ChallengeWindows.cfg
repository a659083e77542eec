SPECIFICATION Spec
CONSTANTS
  Specs <- Targets
  Windows = 3
  MaxEvents = 4
  NoRow = NoRow
INVARIANTS
  ProgressCountsEvents
  RewardedIffCompleted
  RewardsEarned
CHECK_DEADLOCK FALSE
