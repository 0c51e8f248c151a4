SPECIFICATION SyncSpec
CONSTANTS
  Cameras = {c1}
  Classes = {k1}
  SeparateClasses = {}
  IncIds <- MCIncIds
  MaxDetections = 2
  GroupingWindow = 0
  EdgeAutoClose = 0
  MaxAge = 1
  MaxCount = 1
  MaxTime = 1
  EventIds <- MCTwoEvents
  Uploads = {u1}
  CloudWindow = 0
  CloudAutoClose = 0
  Handlers = {h1}
  SyncBatch = 2
  DedupWindow = 1
  MaxFaults = 1
CONSTRAINT TwoOrOther
CHECK_DEADLOCK FALSE
INVARIANTS ConfirmedIsKnown OneEventPerIncident SyncedCountArrived
PROPERTIES ImplementsDelivery
