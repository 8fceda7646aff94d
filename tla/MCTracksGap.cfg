CONSTANTS
  Noise <- Defaults
  WeightUnit = 10
  MaxRange = 100000
  FastLimits = {5}
  Devices = {d1}
  Events = {1, 2, 3, 4, 5, 6}
  Readings <- GapWalk
  Boundaries <- GapBoundaries
  LateWindow = 45
  Lookback = 86400
  HistoryLimit = 100
  MaxDeletes = 0
  MaxRepeats = 0
  MaxFaults = 0
SPECIFICATION Spec
INVARIANTS DistanceStopsAtGaps
CHECK_DEADLOCK FALSE
