SPECIFICATION Spec
CONSTANTS
  u1 = u1
  u2 = u2
  t1 = t1
  t2 = t2
  t3 = t3
  Users = {u1, u2}
  Tasks <- ThreeTabs
  UserOf <- TwoTabsAndOne
  MaxRows = 4
INVARIANTS
  TypeOK
  TogglesCancel
