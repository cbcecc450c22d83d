CONSTANTS
  Apps = {a1}
  AppPolicies = {pApp, pCore}
  GlobalPolicies = {}
  CorePolicies = {pCore}
  Mechanisms = {cpu, fluidity, placement, other}
  ActiveMechanisms = {cpu, fluidity, placement}
  ConfiguredMechanisms = {cpu, fluidity, placement}
  Deferred = {fluidity}
  Blocking = {placement}
  AssetLists <- ListsOfTwo
  Uids = {u1, u2}
SYMMETRY PlanSymmetry
SPECIFICATION Spec
INVARIANTS TypeOK OneCommandPerMechanism CompletedIffSettled InFlightIsUnreported QueuedPlansHaveNotRun TouchedIsGranted
PROPERTY OutcomesAreFinal
