SPECIFICATION Spec
CONSTANTS
  Keys = {k1, k2}
  Readers = {r1}
  MaxRestarts = 1
INVARIANTS
  TypeOK
  RecordHasObject
  OrphanIsFailure
