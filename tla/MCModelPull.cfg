SPECIFICATION PullSpec
CONSTANTS
  RoboflowVersions = {"v1", "v2"}
  Pulls = {"r1", "r2"}
  Home = "home"
CHECK_DEADLOCK FALSE
INVARIANTS WeightsAreOfVersion
