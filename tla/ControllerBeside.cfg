SPECIFICATION HeldSpec
CONSTANTS
  p1 = p1
  p2 = p2
  Proc = {p1, p2}
  held = p1
  Runs <- BesideRuns
  Boots <- ShippedOnly
CHECK_DEADLOCK FALSE
INVARIANT
  HeldMeansOnline
