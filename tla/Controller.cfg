SPECIFICATION Spec
CONSTANTS
  p1 = p1
  Proc = {p1}
  held = p1
  Runs <- SoloRuns
  Boots <- BootRuns
CHECK_DEADLOCK FALSE
INVARIANTS
  TypeOK
  OfflineWhenGone
  HeldMeansOnline
  DryRunSendsNothing
PROPERTIES
  ShadowNeedsTwoFaults
  ResidentUntilStopped
  CleanExitMeansDone
  OnlineWhileHeld
