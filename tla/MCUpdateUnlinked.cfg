CONSTANTS
  Ops = {o1, o2}
  Clusters = {k1}
  Names = {n1}
  NameOf <- OneName
  Existing = {}
  Kinds = {"create", "deleteNfs"}
  MaxNodes = 1
  PoolSize = 1
  MaxFaults = 0
  MaxCrashes = 0
  Absent = Absent
SYMMETRY Symmetry
SPECIFICATION Spec
INVARIANTS SuccessIsRecorded
CHECK_DEADLOCK FALSE
