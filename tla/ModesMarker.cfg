SPECIFICATION Spec
CONSTANTS
  Kinds = {"none"}
  LowerCase = TRUE
  MaxPlugged = 1
PROPERTIES
  BadMarkerIsNoOpinion
