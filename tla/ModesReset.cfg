SPECIFICATION Spec
CONSTANTS
  Kinds = {"mqtt"}
  LowerCase = TRUE
  MaxPlugged = 1
PROPERTIES
  ResetRequestsWereActedOn
