SPECIFICATION ChatSpec
CONSTANTS
  Senders = {s1, s2}
  Initial = 0
  MaxId = 2
  MaxRecalls = 1
  PageSize = 1
  Me = s1
  MaxLoads = 2
  MaxReads = 1
  MaxAppended = 1
INVARIANTS
  ChatTypeOK
  LastMsgIsNewest
  WindowComplete
  ReadWasShown

PROPERTY
  CardAddsUp
