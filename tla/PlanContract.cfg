CONSTANTS
  Apps = {a1}
  AppPolicies = {}
  GlobalPolicies = {cpu, pCore}
  CorePolicies = {pCore}
  Mechanisms = {cpu, fluidity}
  ActiveMechanisms = {cpu, fluidity}
  ConfiguredMechanisms = {cpu, fluidity}
  Deferred = {fluidity}
  Blocking = {}
  AssetLists <- ListsOfTwo
  Uids = {u1, u2}
SPECIFICATION FairSpec
PROPERTIES ImplementsContract EveryPlanIsDecided
