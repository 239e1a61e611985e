SPECIFICATION AccessSpec
CONSTANTS
  Deployments <- Delivered
  Environments <- Starts
  MaxBoots = 2
  MaxFaults = 1
  Operators = {"anna"}
  Hours = {0, 25}
  Edits <- Saves
  Edited <- FlipSwitches
  MaxSaves = 2
  Microphones = {"usb"}
INVARIANTS
  PinOfTheOwner
  LogTellsTheSettings
  ReadyPassesTheGates
PROPERTIES
  GateHolds
  OfflineComesOnline
CHECK_DEADLOCK FALSE
