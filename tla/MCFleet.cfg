SPECIFICATION FleetsSpec
CONSTANTS
  Agents = {"a1", "a2"}
  Words <- MCWords
  UserKinds = {"push_config", "restart_agent"}
  FleetKinds = {"deploy_model"}
  BatchLimit = 2
  MaxRetries = 1
  MaxCommands = 3
  MaxLosses = 1
  MaxCrashes = 1
  Order <- MCOrder
  Requests = {q1, q2}
  MaxDocs = 2
  MaxVersion = 2
  MaxFailures = 1
  Plugs = {"p1"}
  Callers = {1, 2}
  Attempts = 2
  OfflineAfter = 2
  TriggerLimit = 1
  Minute = 2
  MaxRenames = 1
  Versions = {"m1", "m2"}
  Segmenting = {"m2"}
  Fetches = {1, 2}
  NoVersion = "none"
  MaxAsked = 2
  MaxServerStarts = 1
  BufferMax = 3
  BatchMax = 2
  KeepAlerts = 2
  MaxEntries = 5
  MaxAlerts = 3
  MaxFaults = 2
  Cams = {"k1"}
  Devs = {"d1"}
  Pushed = {"n1"}
  MaxMishaps = 1
SYMMETRY FleetSymmetry
CHECK_DEADLOCK FALSE
INVARIANTS FleetTypes RetriedOnce OneStoreAtATime AckedConfigInForce ShownAsHeard NothingVanishes FilesSurvive
PROPERTIES  NeverUnloaded
