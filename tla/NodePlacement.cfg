CONSTANTS
  c1 = c1
  c2 = c2
  n1 = n1
  n2 = n2
  Cluster = cluster
  Comps = {c1, c2}
  Nodes = {n1, n2}
  InitialPlans <- SomeInitialPlans
  Plans <- SomePlans
  PolicySets <- SomePolicySets
  MaxApps = 2
  MaxPlans = 2
  MaxFaults = 1
SPECIFICATION Spec
CHECK_DEADLOCK FALSE
INVARIANTS TypeOK NodesStateIsPods NodeAgreesWithCluster AnalysisMatchesPlacement NodesAnalyzeOnce
