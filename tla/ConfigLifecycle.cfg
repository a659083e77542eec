SPECIFICATION Spec
CONSTANTS
  c1 = c1
  c2 = c2
  rule = rule
  promoted = promoted
  product = product
  development = development
  production = production
  good = good
  better = better
  bad = bad
  Calls = {c1, c2}
  Objects = {rule, promoted, product}
  Materialized = {product}
  EnvOf <- Environments
  PromotedTo <- Promotions
  Contents = {good, better, bad}
  Invalid = {bad}
  MaxCalls = 5
  MaxMixed = 4
  None = None
SYMMETRY Symmetric
INVARIANTS
  VersionsTruthful
  PublishedIsSnapshot
  EngineConfigFresh
  RuntimeIsSnapshot
CHECK_DEADLOCK FALSE
