CONSTANTS
  Ops = {o1, o2}
  Clusters = {k1}
  Names = {n1}
  NameOf <- OneName
  Existing = {k1}
  Kinds = {"resize", "upgrade", "deleteNfs", "delete", "info"}
  MaxNodes = 1
  PoolSize = 2
  MaxFaults = 1
  MaxCrashes = 0
  Absent = Absent
SYMMETRY Symmetry
SPECIFICATION Spec
INVARIANTS TypeOK BusyHasLiveTask TaskTellsPhase
CHECK_DEADLOCK FALSE
