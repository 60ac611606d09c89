SPECIFICATION FairSpec
CONSTANTS
  Callers = {c1, c2}
  Sets = {"s1"}
  Items <- MCOneItem
  SetOf <- MCSetOf
  Orphans = {}
  NoItem = NoItem
  NoSet = NoSet
  NoLog = NoLog
  Ops = {"write"}
  Faults <- MCTaskFaults
  MaxCalls = 2
INVARIANTS
  TypeOK
  NumbersAccounted
  NumbersUnique
  NoLostWakeup
  TakeFindsRecord
  LoggedAfterPredecessors
  NothingLoggedPastLostWrite
  FailuresReported
  PersistedCoversLogs
PROPERTIES
  ImplementsNumberedLog
  EveryNumberSettles
  UnloadCompletes
CHECK_DEADLOCK FALSE
