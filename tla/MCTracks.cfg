CONSTANTS
  Noise <- Defaults
  WeightUnit = 10
  MaxRange = 100000
  FastLimits = {5}
  Devices = {d1, d2}
  Events = {1, 2, 3, 4, 5}
  Readings <- MixedWalk
  Boundaries <- MixedBoundaries
  LateWindow = 45
  Lookback = 86400
  HistoryLimit = 100
  MaxDeletes = 1
  MaxRepeats = 1
  MaxFaults = 1
SPECIFICATION Spec
INVARIANTS DeletedStaysOffTrack TrackIsPartition FastSectionsAreFast
CHECK_DEADLOCK FALSE
