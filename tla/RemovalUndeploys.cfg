CONSTANTS
  Apps = {a1, a2}
  MaxRequests = 3
  MaxFaults = 0
SPECIFICATION Spec
INVARIANT RemovalUndeploys
CHECK_DEADLOCK FALSE
