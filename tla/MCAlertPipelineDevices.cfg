SPECIFICATION Spec
CONSTANTS
  AlertCameras = {"c1"}
  Devices = {"d1"}
  Triggers <- MCTriggers
  Settings <- MCSettings
  DefaultSettings <- MCDefault
  MaxHistory = 3
  MaxCooldown = 2
  MaxRestarts = 1
INVARIANTS AlertTurnsDevicesOn
