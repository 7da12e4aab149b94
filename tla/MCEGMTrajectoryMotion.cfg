SPECIFICATION Spec
CONSTANTS
  Calls = {"addTrajectory",
           "overrideTrajectories",
           "stopTrajectory",
           "discardTrajectories",
           "resumeTrajectory",
           "updateDurationFactor",
           "startStaticGoal",
           "setStaticGoal",
           "setStaticGoalFast",
           "finishStaticGoal"}
  Trajectories <- MCTrajectories
  Factors = {0}
  FactorMin = 1
  FactorMax = 5
  StopDuration = 2
  SlowDuration = 1
  MaxPoints = 3
  MaxSessions = 2
INVARIANTS
  GoalTracksTrajectory
  InterruptedPointKept
  StaticGoalFromStandstill
  WaitingIsStandstill
  StaticGoalHoldsQueue
  GoalTimesInterpolation
  InductiveInvariant
