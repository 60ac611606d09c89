SPECIFICATION Spec
CONSTANTS
  Paths <- MCPaths
  Prefix <- MCPrefix
  Callers = {c1}
INVARIANTS
  TreeSorted
  LookUpMissesOnlyNested
