CONSTANTS
  Ops = {o1, o2, o3}
  Clusters = {k1, k2}
  Names = {n1}
  NameOf <- OneName
  Existing = {k1}
  Kinds = {"create", "upgrade", "delete", "info"}
  MaxNodes = 1
  PoolSize = 1
  MaxFaults = 0
  MaxCrashes = 0
  Absent = Absent
SYMMETRY Symmetry
SPECIFICATION Spec
INVARIANTS Exclusive
CHECK_DEADLOCK FALSE
