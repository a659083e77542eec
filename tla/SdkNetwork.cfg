SPECIFICATION FairSpec
CONSTANTS
  Sdks = {"web", "unity", "godot", "unreal", "android", "ios"}
  Events = 4
  Payloads <- MixedPayloads
  AutoFlush = 2
  ServerCap = 2
  MaxFaults = 2
INVARIANTS
  StoredOnceInOrder
  NothingForgotten
  ToldTruthfully
PROPERTIES
  EventuallySettled
CHECK_DEADLOCK FALSE
