SPECIFICATION CalmSpec
CONSTANTS
  VMID = {1, 2}
  boot = boot
  Proc = {boot}
  MaxStamp = 2
  Configs <- CalmConfigs
PROPERTIES
  Convergence
  RunEnds
  SyncIsKept
  PoweroffMeansSync
