SPECIFICATION Spec
CONSTANTS
  NFuncs = 2
  Tasks = {t1, t2}
  M = 64
  Base <- MCBase
  CopyBase <- MCCopyBase
  Code <- MCCode
INVARIANTS
  TypeOK
  HookFindsItsService
  CopyMeansTheSame
  UnloadLeavesNothing
PROPERTIES
  OnlyPatchedBytesLoseTasks
  RebootKeepsConfig
CHECK_DEADLOCK FALSE
