SPECIFICATION FairSpec
CONSTANTS
  MaxRequests = 3
PROPERTIES
  MovesFromReady
  LastRequestServed
CHECK_DEADLOCK FALSE
