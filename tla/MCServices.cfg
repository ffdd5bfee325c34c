CONSTANTS
  Ops = {o1, o2}
  MaxWorkers = 1
  MaxFaults = 1
  Absent = Absent
  AclUsers = {"u1", "s1"}
  SystemUsers = {"s1"}
  Ranges <- TwoRanges
  MaxRetries = 2
  Placement = {"native", "TKG+"}
  TkgPlus = "TKG+"
  Sizing = {"small"}
  VMs = {"v1"}
  LegacyClusters = {"c1", "c2"}
  NameOf <- OwnName
  MaxRdes = 4
  Revisions = {"r1", "r2", "r3"}
  PlusOnes = {"r2", "r3"}
  Imports = {"i1"}
  PksNames = {"c"}
  PksUsers = {"u1", "admin"}
  PksAdmins = {"admin"}
  MaxIds = 2
  MaxRequests = 2
  ClientUsers = {"u1", "u2"}
SYMMETRY Symmetry
SPECIFICATION Spec
INVARIANTS TypeOK RollbackIsComplete DeleteIsComplete ExposedHasRule UpgradeIsComplete 
INVARIANTS AclsAgree RulesDiffer OvdcAsRequested VmsKeepPolicy InstallConverges
INVARIANTS TemplatesAreComplete PksIsIsolated RequestIsServed ClientsActAsAsked
PROPERTIES OnlyOwnRollback
