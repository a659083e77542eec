SPECIFICATION FairSpec
CONSTANTS
  e1 = e1
  e2 = e2
  u1 = u1
  Events <- TwoEvents
  Users = {u1}
  Workers = {w1, w2}
  Actor <- ActorOne
  Award <- AwardTwo
  FrequencyCap = 2
  MaxAttempts = 2
  MaxUnknown = 1
  MaxMisread = 1
  NoWorker = NoWorker
INVARIANTS
  ReappliedOnlyAfterOverwrite
  KeyedEffectsOnce
  NoInventedXP
  NoLostXP
PROPERTIES
  AtomicSpec
  AttemptsReturn
CHECK_DEADLOCK FALSE
