CONSTANTS
  MaxTrips = 3
  Similar <- Neighbours
  BatchSize = 2
  MaxRoutes = 6
  MaxFaults = 2
  MaxDeletions = 2
SPECIFICATION FairSpec
INVARIANTS TypeOK CountCoversLinks DriftIsPaid OnePathOneRoute
PROPERTIES EveryTripIsRouted
CHECK_DEADLOCK FALSE
