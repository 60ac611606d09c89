SPECIFICATION Spec
CONSTANTS
  Paths = {"a", "b"}
  Monitored = {"a", "b"}
  Values = {"v", "w"}
  Kinds = {"create", "write", "unlink", "rename"}
  Tools = {"restore -loop"}
  Faults = {}
  MaxOps = 3
  MaxFiles = 2
INVARIANT
  TargetFollowsSource
CHECK_DEADLOCK FALSE
