CONSTANTS
  Models = {m1, m2}
  Direct = {m2}
  MaxEvents = 3
  MaxAnswers = 1
  MaxModelFaults = 2
  Nodes = {n1, n2}
  Cluster = cluster
  Policies = {"p", "q"}
  Intervals = {1, 2}
  Default = 3
  MaxEntries = 3
  MaxChanges = 3
  Hosts = {h1, h2}
  Layers = {"generic", "far"}
  Generic = "generic"
  MaxRevision = 3
  MaxWatchFaults = 2
  Count = 3
  Periods = {0, 1, 3}
  InitialPeriod = 4
  MaxDuration = 1
  MaxRaises = 1
  Users = {"u1", "u2"}
  Keys = {"a.py", "b.py"}
  MaxCommands = 2
  MaxEdits = 2
  MaxFailures = 1
SPECIFICATION Spec
\* The bounds on requests, changes and faults are used up.
CHECK_DEADLOCK FALSE
INVARIANTS
  TypeOK
  UnderDeploymentIsTended
  ResourceIsListed
  RowIsKnown
  RequestsAreServed
  NodesFollowCluster
  TableIsCurrent
  AnalyzedInTime
  
  PolicyChangesAreKept
PROPERTIES
  QueueIsServed
  Settles
