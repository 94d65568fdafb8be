SPECIFICATION Spec
CONSTANTS
  VMID = {1, 2}
  boot = boot
  Proc = {boot}
  MaxStamp = 2
  Configs <- SoloConfigs
INVARIANTS
  OnlyUnbackedGuestsAreOrphans
