SPECIFICATION Spec
CONSTANTS
  A = A
  B = B
  t1 = t1
  t2 = t2
  Tasks <- TwoTasks
  MaxRequests = 2
INVARIANTS
  TypeOK
  ConsistentOneByOne
  OnlyOppositesDeadlock
