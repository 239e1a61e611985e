SPECIFICATION FairSpec
CONSTANTS
  MaxSegments = 3
  FrameLimit = 3
  Encrypt = TRUE
  Faults = {"kill", "crypt"}
  MaxFaults = 3
INVARIANTS
  TypeOK
  ClosedSegmentsKept
  JournaledReadable
  ClosedSessionComplete
PROPERTIES
  LossOnlyInRewrite
  ImplementsArchive
  ClosedEventuallyJournaled
CHECK_DEADLOCK FALSE
