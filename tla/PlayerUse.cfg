SPECIFICATION PlaybackSpec
CONSTANTS
  Rate = 1
  Recording <- TwoTracks
  TrackRows <- TwoRows
  StartedAt = 1000
  MarkerAt = {4000, 9000}
  MaxDamage = 2
  MaxEvents = 3
  MaxCommands = 4
  SeekMs = {7000}
  Rates = {1}
  RateInputs = {1, 2}
  VolumeInputs = {2}
  Reporters = {1, 2}
INVARIANTS
  PositionIsFrame
  ReporterIsCurrent
CHECK_DEADLOCK FALSE
