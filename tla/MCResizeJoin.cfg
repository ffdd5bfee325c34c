CONSTANTS
  Ops = {o1}
  Clusters = {k1}
  Names = {n1}
  NameOf <- OneName
  Existing = {k1}
  Kinds = {"resize"}
  MaxNodes = 1
  PoolSize = 1
  MaxFaults = 0
  MaxCrashes = 0
  Absent = Absent
SPECIFICATION Spec
INVARIANTS NoSilentFailure
CHECK_DEADLOCK FALSE
