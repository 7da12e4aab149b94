SPECIFICATION FairSpec
CONSTANTS
  Modes <- MCModes
  MaxRequests = 3
  MaxPlace = 1
INVARIANTS
  HandGuidedAlone
  ModesAgree
PROPERTIES
  JointSessionStartsEmpty
  RequestsAreServed
