SPECIFICATION FairSpec
CONSTANTS
  Paths = {"a", "x"}
  Monitored = {"a"}
  Values = {"v"}
  Kinds = {"create", "mkdir", "write", "unlink", "rmdir", "rename", "link", "symlink"}
  Tools = {"restore", "restore -loop", "analysis -loopdel"}
  Faults = {"path", "record", "open", "short", "malloc"}
  MaxOps = 3
  MaxFiles = 2
INVARIANTS
  TypeOK
  EverySkipIsAFailedRead
  TargetIsPastSource
PROPERTY
  ReplayCatchesUp
CHECK_DEADLOCK FALSE
