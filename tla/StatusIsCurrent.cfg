CONSTANTS
  Apps = {a1}
  MaxRequests = 3
  MaxFaults = 0
SPECIFICATION Spec
INVARIANT StatusIsCurrent
CHECK_DEADLOCK FALSE
