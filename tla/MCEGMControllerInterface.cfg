SPECIFICATION FairSpec
CHECK_DEADLOCK FALSE
CONSTANTS
  Configurations <- MCSevenDemo
  Probing = TRUE
  WaitTime = 2
  MaxSessions = 2
  MaxTime = 3
  MaxInFlight = 1
INVARIANTS
  ReadsAreNew
  ReplyIsForThisMessage
  UnderstoodIsAnswered
  NoUpdateLost
  InductiveInvariant
PROPERTIES
  SessionKeepsConfiguration
  ConnectedIsUnderstood
  InputsAreRead
