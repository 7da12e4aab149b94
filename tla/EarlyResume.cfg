SPECIFICATION UserSpec
CONSTANTS
  Calls = {"addTrajectory",
           "stopTrajectory",
           "resumeTrajectory"}
  Trajectories <- MCOnePoint
  Factors = {1}
  FactorMin = 1
  FactorMax = 5
  StopDuration = 1
  SlowDuration = 1
  MaxPoints = 1
  MaxSessions = 1
PROPERTIES
  HaltIsObeyed
