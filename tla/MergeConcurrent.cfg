SPECIFICATION MergeSpec
CONSTANTS
  main = main
  side = side
  one = one
  two = two
  email = email
  phone = phone
  p1 = p1
  p2 = p2
  p3 = p3
  e1 = e1
  e2 = e2
  m1 = m1
  again = again
  m2 = m2
  m3 = m3
  link = link
  relink = relink
  Users = {1, 2, 3}
  Identities = {email, phone}
  Tracks = {main, side}
  StateKeys = {one, two}
  Calls <- AllCalls
  Call <- CallData
  Start <- StartRows
  MaxOpen = 2
  MaxTangled = 0
  None = None
INVARIANTS
  NothingLostOrDoubled
  IdentitiesReachHeir
  LocksInOrder
  PlacesAgree
CHECK_DEADLOCK FALSE
