SPECIFICATION UserSpec
CONSTANTS
  Calls = {"addTrajectory",
           "overrideTrajectories",
           "stopTrajectory",
           "discardTrajectories",
           "resumeTrajectory",
           "startStaticGoal",
           "setStaticGoalFast",
           "finishStaticGoal",
           "updateDurationFactor"}
  Trajectories <- MCTrajectories
  Factors = {1}
  FactorMin = 1
  FactorMax = 5
  StopDuration = 1
  SlowDuration = 1
  MaxPoints = 3
  MaxSessions = 2
INVARIANTS
  WaitsOnlyWhenHalted
PROPERTIES
  ImplementsQueue
