CONSTANTS
  Apps = {a1}
  MaxRequests = 5
  MaxFaults = 0
SPECIFICATION FairSpec
PROPERTIES DeployIsServed RemovalSettles
CHECK_DEADLOCK FALSE
