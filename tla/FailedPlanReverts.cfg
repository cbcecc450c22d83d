CONSTANTS
  h1 = h1
  h2 = h2
  NumComps = 2
  Hosts = {h1, h2}
  Eligible <- SecondOnOneHost
  InitialPlans <- SomeInitialPlans
  Plans <- SomePlans
  MaxPlans = 3
  MaxQueue = 2
  MaxResources = 1
  MaxFaults = 0
SPECIFICATION Spec
CHECK_DEADLOCK FALSE
INVARIANT FailedPlanReverts
