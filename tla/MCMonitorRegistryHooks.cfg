SPECIFICATION Spec
CONSTANTS
  Guids = {1, 2}
  NoGuid = NoGuid
  Paths <- MCPaths
  Filters = {1}
  Prefix <- MCPrefix
  Callers = {c1, c2}
  Savers = {}
  MaxItems = 1
INVARIANTS
  PointersValid
  EveryItemFindsItsSet
CHECK_DEADLOCK FALSE
