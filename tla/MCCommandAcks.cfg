SPECIFICATION CommandSpec
CONSTANTS
  Agents = {"a1"}
  Words <- MCPoller
  UserKinds = {"deploy_model"}
  FleetKinds = {}
  BatchLimit = 2
  MaxRetries = 1
  MaxCommands = 2
  MaxLosses = 0
  MaxCrashes = 0
CHECK_DEADLOCK FALSE
PROPERTIES DeploymentIsRecorded
