SPECIFICATION Spec
CONSTANTS
  Capacity = 4
  Channels = 2
  Modulus = 8
  MaxBlock = 5
  MaxSamples = 16
INVARIANTS
  NoSharedCell
  NothingUnaccounted
  ChannelsInPlace
PROPERTIES
  ImplementsQueue
CHECK_DEADLOCK FALSE
