SPECIFICATION Spec
CONSTANTS
  VMID = {1, 2, 3}
  Orders = {0, 2}
  Ups = {2}
  Default = 1
  Unset = 99
  MaxFaults = 2
INVARIANTS
  TypeOK
  DoneMeansAllStarted
PROPERTIES
  DependenciesFirst
  BootBringsAllUp
  BootLeavesNoneBehind
