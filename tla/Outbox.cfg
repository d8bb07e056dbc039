SPECIFICATION Spec
CONSTANTS
  Rows <- WithLegacy
  Unknown <- LegacyUnknown
  Orphans <- LegacyOrphans
  MaxRetry = 3
  BatchSize = 2
  MaxOutages = 1
INVARIANTS
  TypeOK
  SentImpliesPublished
  DeadMeansExhausted
  SnapshotFresh
  DuplicatesBounded
PROPERTIES
  ImplementsPromise
  KeepsPromise
CHECK_DEADLOCK FALSE
