SPECIFICATION FairSpec
CONSTANTS
  Segments = 2
  Gaps = TRUE
  MultiTrack = TRUE
  Commands = {"list"}
  Faults = {"net", "reject"}
  MaxFaults = 2
INVARIANTS
  FinalLinkSet
  ConfirmedIsVerified
PROPERTIES
  QueueEmpties
CHECK_DEADLOCK FALSE
