SPECIFICATION FairSpec
CONSTANTS
  Capacity = 3
  FrameLimit = 2
  Troubles = {"full", "error", "journal"}
  MaxBlock = 2
  MaxFrames = 8
INVARIANTS
  TakenIsJournaled
  OnlyLateFramesLeft
PROPERTIES
  StopEnds
CHECK_DEADLOCK FALSE
