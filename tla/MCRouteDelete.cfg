CONSTANTS
  MaxTrips = 2
  Similar <- Neighbours
  BatchSize = 1
  MaxRoutes = 3
  MaxFaults = 0
  MaxDeletions = 1
SPECIFICATION Spec
PROPERTIES OnlySeededRoutesGo
CHECK_DEADLOCK FALSE
