SPECIFICATION FairSpec
CONSTANTS
  N = 1
  AutoResume = TRUE
  Surprises = {"lost"}
  MaxSurprises = 3
  MaxCommands = 0
INVARIANTS
  FlagMatchesStream
PROPERTIES
  OutageEnds
  ImplementsMachine
CHECK_DEADLOCK FALSE
