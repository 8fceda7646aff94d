CONSTANTS
  d1 = d1
  e1 = e1
  e2 = e2
  c1 = c1
  c2 = c2
  m1 = m1
  Devices = {d1}
  EventIds = {e1}
  Points <- OnePoint
  Malformed = {}
  Invalid = {}
  Conns = {c1}
  MaxBatch = 1
  MaxDeliver = 2
  FetchBatch = 1
  MaxStream = 1
  MaxFaults = 2
SPECIFICATION FairSpec
PROPERTIES ExhaustedIsDeadLettered
CHECK_DEADLOCK FALSE
