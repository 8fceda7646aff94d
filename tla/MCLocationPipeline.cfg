CONSTANTS
  d1 = d1
  e1 = e1
  e2 = e2
  c1 = c1
  c2 = c2
  m1 = m1
  Devices = {d1}
  EventIds = {e1, e2}
  Points <- OneDevice
  Malformed = {m1}
  Invalid <- OneInvalid
  Conns = {c1, c2}
  MaxBatch = 1
  MaxDeliver = 2
  FetchBatch = 2
  MaxStream = 2
  MaxFaults = 2
SPECIFICATION FairSpec
INVARIANTS TypeOK ConfirmedIsDurable AckedIsProcessed RawCameThroughBus GivenUpOnlyAfterFaults Bookkeeping
PROPERTIES LedgerClosesPoint DeliveryPromise EverythingSettles ConfirmedIsStored
CHECK_DEADLOCK FALSE
