SPECIFICATION CalmSpec
CONSTANTS
  Kinds = {"mqtt", "rest", "none"}
  LowerCase = TRUE
  MaxPlugged = 2
INVARIANTS
  TypeOK
  StatusTellsTheMode
PROPERTIES
  EmergencyNeedsItsDongle
  LabIsOneShot
  RehearsalWritesNothing
  LabHonoured
  ImplementsBootPromise
  RestResetsWhatItActedOn
  NoRequestOverlooked
