SPECIFICATION Spec
CONSTANTS
  Callers = {c1, c2}
  Sets = {"s1"}
  Items <- MCOneItem
  SetOf <- MCSetOf
  Orphans = {}
  NoItem = NoItem
  NoSet = NoSet
  NoLog = NoLog
  Ops = {"write"}
  Faults = {"record"}
  MaxCalls = 2
PROPERTY
  NumberOrderIsEffectOrder
CHECK_DEADLOCK FALSE
