SPECIFICATION Spec
CONSTANTS
  MaxSegments = 2
  FrameLimit = 3
  Encrypt = FALSE
  Faults = {"kill", "power", "io"}
  MaxFaults = 3
INVARIANTS
  JournaledOnce
CHECK_DEADLOCK FALSE
