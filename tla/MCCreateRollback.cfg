CONSTANTS
  Ops = {o1, o2}
  Clusters = {k1, k2}
  Names = {n1}
  NameOf <- OneName
  Existing = {}
  Kinds = {"create"}
  MaxNodes = 1
  PoolSize = 1
  MaxFaults = 0
  MaxCrashes = 0
  Absent = Absent
SYMMETRY Symmetry
SPECIFICATION Spec
PROPERTIES OwnVappOnly
CHECK_DEADLOCK FALSE
