SPECIFICATION FairSpec
CONSTANTS
  c1 = c1
  c2 = c2
  c3 = c3
  k1 = k1
  e1 = e1
  t1 = t1
  b1 = b1
  b2 = b2
  u1 = u1
  u2 = u2
  None = None
  Calls = {c1, c2, c3}
  Batch <- Requests
  MaxOpen = 3
INVARIANTS
  ReplaysStoredOnce
  AnswersTruthful
  BatchAtomic
PROPERTIES
  RequestsEnd
CHECK_DEADLOCK FALSE
