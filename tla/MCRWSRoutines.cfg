SPECIFICATION FairSpec
CONSTANTS
  Services <- MCServices
  max_number_of_attempts = 5
INVARIANTS
  InductiveInvariant
PROPERTIES
  ImplementsRoutineCall
  GivesUpLate
  CallsReturn
