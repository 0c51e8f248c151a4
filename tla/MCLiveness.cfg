SPECIFICATION LivenessSpec
CONSTANTS
  AgentIds = {"a1", "a2"}
  Silence = 1
  Horizon = 2
  Items = {"c1", "d1"}
  CameraItems = {"c1"}
  MaxDocs = 1
  MaxMisses = 1
  MaxRestarts = 1
  Names = {"n1", "n2"}
  MaxUrls <- MCMaxUrls
  MaxLosses = 1
  MaxEnds = 1
  Trainers = {1, 2}
  AutoMin = 1
  TrainMin = 1
  MaxData = 1
  MaxJobs = 2
  MaxDeaths = 1
  MaxAbandoned = 1
  Videos = {"v1"}
  MaxSampled = 2
  MaxTroubles = 2
CHECK_DEADLOCK FALSE
INVARIANTS NothingForgotten BeatingIsOnline LinksAreOwn
PROPERTIES StatusFollowsProcess EveryCameraLinked EveryCameraWatched RemovedIsReleased EveryJobSettles
