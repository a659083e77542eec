SPECIFICATION Spec
CONSTANTS
  w1 = w1
  coin = coin
  debt = debt
  gem = gem
  Wallets = {w1}
  Currencies = {coin, debt, gem}
  Defined = {coin, debt}
  AllowNegative = {debt}
  Cap <- Caps
  References = {r1, r2, r3}
  Amounts <- Signed
  MaxBatch = 2
  MaxEntries = 4
INVARIANTS
  WithinPolicy
  ReversedAtMostOnce
PROPERTY
  NoReplayAcrossBatches
CHECK_DEADLOCK FALSE
