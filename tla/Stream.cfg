SPECIFICATION FairSpec
CONSTANTS
  u1 = u1
  e0 = e0
  e1 = e1
  e2 = e2
  Users <- OneUser
  Events <- ThreeEvents
  Audience <- AllButFirst
  Earlier <- OthersEvent
  MaxEvents = 2
  MaxConnects = 2
INVARIANTS
  TypeOK
  NoGapAtSync
  OnlyAudienceAfterPush
PROPERTY
  ConnectionsSettle
CHECK_DEADLOCK FALSE
