SPECIFICATION FairSpec
CONSTANTS
  N = 2
  AutoResume = TRUE
  Surprises = {"lost", "stall"}
  MaxSurprises = 1
  MaxCommands = 1
INVARIANTS
  StopIsLast
PROPERTIES
  StopCompletes
CHECK_DEADLOCK FALSE
