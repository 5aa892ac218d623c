SPECIFICATION Spec
CONSTANTS
  MaxCommands = 2
  MaxFailures = 1
  MaxReplaces = 0
INVARIANT GoLiveDeploysApp
CHECK_DEADLOCK FALSE
