SPECIFICATION ReceiptsSpec
CONSTANTS
  u1 = u1
  u2 = u2
  r1 = r1
  r2 = r2
  Members = {u1, u2}
  Tabs = {u1, u2}
  Rooms = {r1, r2}
  NoRoom = NoRoom
  MembersOf <- BothAndOne
  Room = r1
  Before = 1
  MaxMsg = 2
  MaxReports = 2
INVARIANTS
  ReceiptsTypeOK
PROPERTIES
  ReceiptsCease
CHECK_DEADLOCK FALSE
