SPECIFICATION FairSpec
CONSTANTS
  Client = {c1, c2}
  MaxOrders = 3
  MaxManagers = 3
  MaxPool = 2
  MaxNotices = 2
  Null = Null
INVARIANTS OwnManager
PROPERTIES LoopIsForGood DownIsTold
CHECK_DEADLOCK FALSE
