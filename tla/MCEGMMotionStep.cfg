SPECIFICATION Spec
CONSTANTS
  RobotJoints = 6
  ExternalJoints = 6
  Turn = 8
  CloseAngle = 1
  Points <- MCPoints
  StaticPositions <- MCStaticPositions
  StaticVelocities <- MCStaticVelocities
  RAMP_DOWN_STOP_DURATION = 2
  STATIC_GOAL_DURATION = 2
  STATIC_GOAL_DURATION_SHORT = 1
  LongestEstimate = 3
  MaxGoals = 4
  Travel = 60
INVARIANTS
  ReferencesStartSmoothly
  GoalIsMet
  RampDownBrakes
  OrientationIsSound
CHECK_DEADLOCK FALSE
