SPECIFICATION FairOutbox
CONSTANTS
  p1 = p1
  p2 = p2
  a = a
  b = b
  Publishers = {p1, p2}
  Rows = {1, 2}
  Endpoints = {a, b}
  Subscribed <- SubscribedTwo
  Limit = 2
  MaxFaults <- FaultsOne
INVARIANTS
  ResentOnlyAfterFault
  PublishedWasFannedOut
PROPERTIES
  OutboxDrains
CHECK_DEADLOCK FALSE
