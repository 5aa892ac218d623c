SPECIFICATION Spec
CONSTANTS
  MaxCommands = 4
  MaxFailures = 2
  MaxReplaces = 1
INVARIANTS
  DeployInv
  OrphansExplained
  DeploymentAgrees
CHECK_DEADLOCK FALSE
