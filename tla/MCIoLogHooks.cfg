SPECIFICATION Spec
CONSTANTS
  Callers = {c1}
  Sets = {"s1"}
  Items <- MCTwoItems
  SetOf <- MCSetOf
  Orphans = {"i2"}
  NoItem = NoItem
  NoSet = NoSet
  NoLog = NoLog
  Ops <- MCOps
  Faults <- MCFaults
  MaxCalls = 2
PROPERTIES
  ImplementsNumberedLog
CHECK_DEADLOCK FALSE
