SPECIFICATION FairSpec
CONSTANTS
  Calls = {"addTrajectory",
           "overrideTrajectories",
           "stopTrajectory",
           "discardTrajectories",
           "resumeTrajectory",
           "updateDurationFactor",
           "startStaticGoal",
           "setStaticGoal",
           "setStaticGoalFast",
           "finishStaticGoal",
           "retrieveExecutionProgress"}
  Trajectories <- MCShort
  Factors = {0, 1}
  FactorMin = 1
  FactorMax = 5
  StopDuration = 2
  SlowDuration = 1
  MaxPoints = 2
  MaxSessions = 2
PROPERTIES
  StopCompletes
  ResumeCompletes
  StaticGoalFinishes
  QueueDrains
