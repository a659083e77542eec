SPECIFICATION FairSpec
CONSTANTS
  c1 = c1
  a1 = a1
  a2 = a2
  a3 = a3
  p1 = p1
  AllowNegative = FALSE
  Permitted = {}
  Pool = 2
  MaxOpen = 2
  NoTxn = NoTxn
  Txns <- AllTxns
  Kind <- AllKinds
  Entries <- AllEntries
  Cap = 2
INVARIANTS
  OneEntryPerKey
  AllEntriesOrNone
PROPERTIES
  LoneWriterHeals
  CallsEnd
CHECK_DEADLOCK FALSE
