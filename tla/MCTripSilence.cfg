CONSTANTS
  MaxTime = 6
  LateWindow = 1
  Lookback = 3
  MotionMinDuration = 1
  MotionMinPoints = 2
  StopMinDuration = 1
  StationaryWindow = 2
  SegmentMaxGap = 2
  MaxDelay = 2
  MaxPoints = 5
  MaxFaults = 0
SPECIFICATION Spec
INVARIANTS SilenceEndsTrip
CHECK_DEADLOCK FALSE
