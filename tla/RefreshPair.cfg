SPECIFICATION LaterSpec
CONSTANTS
  VMID = {1, 2}
  boot = boot
  manual = manual
  Proc = {boot, manual}
  MaxStamp = 3
  Configs <- PairConfigs
SYMMETRY ProcSymmetry
INVARIANTS
  EveryBackupAccountedFor
PROPERTIES
  EmptyShareDestroysNothing
  FenceHolds
  NoStepInVain
