SPECIFICATION Spec
CONSTANTS
  Threads = {"user", "listener"}
  Calls <- MCCalls
  MaxFailures = 3
  MaxGroups = 2
INVARIANTS
  SuccessIsReal
  NotRepeated
  SessionsAccounted
  SocketHasGroup
