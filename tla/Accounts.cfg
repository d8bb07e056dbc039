SPECIFICATION AccountsSpec
CHECK_DEADLOCK FALSE
CONSTANTS
  r1 = r1
  r2 = r2
  r3 = r3
  p1 = p1
  p2 = p2
  p3 = p3
  Registrations = {r1, r2, r3}
  Patches = {p1, p2, p3}
  NameOf <- ThreeNames
  PatchOf <- ThreePatches
  Fields = {"nickname", "avatar_url"}
INVARIANTS
  AccountsTypeOK
  AnswersAreTrue
  PatchesAreKept
