SPECIFICATION ServicesSpec
CONSTANTS
  Cameras = {c1, c2}
  Classes = {k1, k2}
  SeparateClasses = {k2}
  IncIds <- MCIncIds
  MaxDetections = 2
  GroupingWindow = 1
  EdgeAutoClose = 1
  MaxAge = 1
  MaxCount = 1
  EventIds <- MCEventIds
  Uploads = {1, 2, 3}
  CloudWindow = 1
  CloudAutoClose = 1
  MaxTime = 2
  Rules = {"r1"}
  SevereOnly = {"r1"}
  Dispatchers = {1, 2}
  LockWindow = 0
  DedupWindow = 1
  Threshold = 2
  MaxTries = 2
  MaxTasks = 2
  DeadLimit = 1
  MaxDeaths = 1
  EdgeCameras = {"k1"}
  Stores = {"s1"}
  StoreOf <- MCStoreOf
  Values = {"v0", "v1"}
  Default = "v0"
  Edited = {"org", "k1"}
  Requests = {q1, q2}
  Lifetime = 1
  MaxRedisFaults = 1
  Models = {"m1", "m2"}
  Promoters = {1, 2}
  MaxPromotions = 2
  MaxEdits = 1
  Detections = {"d1", "d2", "d3", "d4"}
  Images = {"i1"}
  Uploaded = {"f1"}
  Imports = {"n1", "n2"}
  Capturers = {1, 2}
  DailyLimit = 2
  MinSplit = 2
  MaxVersions = 1
  MaxKills = 1
  Streams = {"k1"}
  Runs = {1, 2}
  VotesK = 1
  VotesM = 2
  MaxLogs = 2
  MaxStarts = 2
  MaxSeconds = 1
  MaxBreaks = 1
  Frames = {1, 2}
  Flaggable = {11}
  Syncs = {1, 2}
  SyncBatch = 2
  MaxRequests = 2
  MaxUnlucky = 1
  RoboflowVersions = {"v1", "v2"}
  Pulls = {r1, r2, r3}
  Home = "home"
SYMMETRY ServicesSymmetry
CHECK_DEADLOCK FALSE
INVARIANTS ServiceTypes OneIncidentPerWindow EveryUploadCountedOnce CacheCatchesUp PromotionAgrees NoFrameTooMany WetIsReported RequestsAreServed LonePullIsRight
PROPERTIES QuietWithinWindow OnlyOvertakenSplit
