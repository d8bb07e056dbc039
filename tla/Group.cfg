SPECIFICATION ChatSpec
CONSTANTS
  Users <- FourUsers
  Owner = 1
  Limit = 3
  Adders = {a1, a2}
  Removers = {r1}
  MaxTargets = 2
SYMMETRY AdderSymmetry
INVARIANTS
  ChatTypeOK
  OwnerIsMember
  LimitRespected
  NoDeadlock
  FollowedUp
