SPECIFICATION Spec
CONSTANTS
  MaxContainers = 2
  Amounts = {1}
  MaxTransfers = 1
INVARIANTS
  StopReleases
CHECK_DEADLOCK FALSE
