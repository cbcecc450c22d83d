CONSTANTS
  Apps = {a1, a2}
  MaxRequests = 4
  MaxFaults = 1
SYMMETRY AppSymmetry
SPECIFICATION Spec
INVARIANTS TypeOK RunningIsListed DeployedIsRunning
PROPERTY ResourcesOfStopped
CHECK_DEADLOCK FALSE
