CONSTANTS
  p1 = p1
  p2 = p2
  Points = {p1}
  BatchSize = 1
  RefreshCap = 2
  MaxSockets = 2
  MaxTasks = 1
  MaxFaults = 0
  MaxRefusals = 0
  MaxNudges = 1
  MaxTroubles = 1
SPECIFICATION FairSpec
PROPERTIES SessionComesBack
CHECK_DEADLOCK FALSE
