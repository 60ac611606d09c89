SPECIFICATION Spec
CONSTANTS
  Guids = {1, 2}
  NoGuid = NoGuid
  Paths <- MCPaths
  Filters = {1, 2}
  Prefix <- MCPrefix
  Callers = {}
  Savers = {}
  MaxItems = 2
PROPERTY
  ExistingSetDeletedFirst
CHECK_DEADLOCK FALSE
