SPECIFICATION CopyingSpec
CONSTANTS
  Rate = 1
  Recording <- TwoTracks
  TrackRows <- TwoRows
  StartedAt = 1000
  MarkerAt = {4000, 9000}
  MaxDamage = 1
  MaxEvents = 5
  MaxCommands = 3
  Policies = {"allowed", "forbidden", "requires_confirmation"}
  Formats = {"flac"}
  MaxFailures = 1
  Stem <- OwnNames
  ExportFaults = {"io", "burn"}
  Modes = {"manual", "until_confirmed_plus_window"}
  RequireVerified = TRUE
  Window = 1
  MaxClock = 1
INVARIANTS
  MarkersInsideRecording
  KeptUntilConfirmed
  PurgedIsGone
PROPERTIES
  OkMeansWhole
CHECK_DEADLOCK FALSE
