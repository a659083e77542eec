SPECIFICATION Spec
CONSTANTS
  e1 = e1
  e2 = e2
  u1 = u1
  Events <- TwoEvents
  Users = {u1}
  Workers = {w1}
  Actor <- ActorOne
  Award <- AwardTwo
  FrequencyCap = 0
  MaxAttempts = 3
  MaxUnknown = 0
  MaxMisread = 0
  NoWorker = NoWorker
INVARIANT
  AppliedAtMostOnce
CHECK_DEADLOCK FALSE
