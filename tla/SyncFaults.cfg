SPECIFICATION Spec
CONSTANTS
  Segments = 2
  Gaps = FALSE
  MultiTrack = FALSE
  Commands = {"list", "pause", "resume", "retry"}
  Faults = {"net", "verify", "reject", "crash"}
  MaxFaults = 2
INVARIANTS
  ChainIntact
  SentIsReceived
  ResentOnlyAfterFault
CHECK_DEADLOCK FALSE
