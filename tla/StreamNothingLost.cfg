SPECIFICATION Spec
CONSTANTS
  u1 = u1
  e0 = e0
  e1 = e1
  e2 = e2
  Users <- OneUser
  Events <- TwoEvents
  Audience <- AllToOne
  Earlier <- NothingYet
  MaxEvents = 2
  MaxConnects = 2
INVARIANTS
  NothingLost
CHECK_DEADLOCK FALSE
