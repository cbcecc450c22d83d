CONSTANTS
  h1 = h1
  h2 = h2
  NumComps = 2
  Hosts = {h1, h2}
  Eligible <- SecondOnOneHost
  InitialPlans <- SomeInitialPlans
  Plans <- SomePlans
  MaxPlans = 3
  MaxQueue = 1
  MaxResources = 1
  MaxFaults = 1
SPECIFICATION Spec
CHECK_DEADLOCK FALSE
INVARIANTS TypeOK  PodsCanBeRemoved  ReportIsExact
PROPERTIES MoveKeepsAPod
