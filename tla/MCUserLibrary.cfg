SPECIFICATION FairSpec
CONSTANTS
  MaxInits = 3
  MaxMsgs = 2
  RcvBuf = 1
  Faults = {"malloc", "bind", "thread"}
INVARIANTS
  TypeOK
  CrashOnlyAfterTrouble
  SocketUsable
  DeliveredInOrder
PROPERTY
  EveryMessageDelivered
CHECK_DEADLOCK FALSE
