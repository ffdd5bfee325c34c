CONSTANTS
  Ops = {o1, o2}
  Clusters = {k1}
  Names = {n1}
  NameOf <- OneName
  Existing = {}
  Kinds = {"create", "resize", "upgrade", "deleteNfs", "delete", "forceDelete", "info"}
  MaxNodes = 1
  PoolSize = 1
  MaxFaults = 1
  MaxCrashes = 1
  Absent = Absent
SPECIFICATION FairSpec
INVARIANTS DeleteIsComplete RollbackIsComplete BusyHasLiveTask
PROPERTIES TaskEnds
CHECK_DEADLOCK FALSE
