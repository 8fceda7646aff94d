CONSTANTS
  p1 = p1
  p2 = p2
  Points = {p1, p2}
  BatchSize = 2
  RefreshCap = 1
  MaxSockets = 3
  MaxTasks = 2
  MaxFaults = 2
  MaxRefusals = 1
  MaxNudges = 1
  MaxTroubles = 2
SPECIFICATION FairSpec
INVARIANTS TypeOK AckedIsConfirmed NeverGivesUp OneConnection SessionIsOwn InflightIsAnswered
PROPERTIES SessionRecovers
CHECK_DEADLOCK FALSE
