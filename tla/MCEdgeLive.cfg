SPECIFICATION EdgeLiveSpec
CONSTANTS
  AlertCameras = {"c1"}
  Devices = {"d1"}
  Triggers <- MCTriggers
  Settings <- MCSettings
  DefaultSettings <- MCDefault
  MaxHistory = 3
  MaxCooldown = 2
  MaxRestarts = 1
  Cameras = {c1}
  Classes = {k1}
  SeparateClasses = {}
  IncIds <- MCOneInc
  MaxDetections = 2
  GroupingWindow = 0
  EdgeAutoClose = 0
  MaxAge = 0
  MaxCount = 1
  MaxTime = 1
  EventIds <- MCTwoEvents
  Uploads = {u1}
  CloudWindow = 0
  CloudAutoClose = 0
  Handlers = {h1}
  SyncBatch = 2
  DedupWindow = 0
  MaxFaults = 1
CHECK_DEADLOCK FALSE
INVARIANTS LastAlertRemembered
PROPERTIES AlertsApart SpillReported EveryIncidentArrives
