SPECIFICATION LaterSpec
CONSTANTS
  VMID = {1, 2}
  boot = boot
  manual = manual
  Proc = {boot, manual}
  MaxStamp = 3
  Configs <- PairConfigs
INVARIANTS
  ShareHeldWhileInUse
