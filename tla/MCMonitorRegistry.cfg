SPECIFICATION Spec
CONSTANTS
  Guids = {1, 2}
  NoGuid = NoGuid
  Paths <- MCPaths
  Filters = {1, 2}
  Prefix <- MCPrefix
  Callers = {}
  Savers = {s1}
  MaxItems = 2
INVARIANTS
  TypeOK
  ItemsHaveSets
PROPERTIES
  RestartKeepsCoverage
  ImplementsBackupTable
CHECK_DEADLOCK FALSE
