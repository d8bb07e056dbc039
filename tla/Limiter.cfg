SPECIFICATION Spec
CONSTANTS
  Tasks = {t1, t2}
  Limit = 2
  Window = 2
  MaxTime = 5
  MaxHits = 4
INVARIANTS
  TypeOK
  WindowHonoured
PROPERTIES
  Recovers
SYMMETRY TaskSymmetry
CHECK_DEADLOCK FALSE
