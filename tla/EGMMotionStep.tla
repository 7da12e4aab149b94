---------------------------- MODULE EGMMotionStep ----------------------------
(***************************************************************************)
(* The data path of TrajectoryMotion: MotionStep, which makes goals out of *)
(* the user's points and keeps the interpolation, EGMInterpolator, and the *)
(* Controller that corrects the references of each tick.  The order of     *)
(* goals is what EGMTrajectoryMotion allows; a tick is one action.  The    *)
(* robot follows: the feedback is the last reference.                      *)
(***************************************************************************)
EXTENDS EGMInterpolator

CONSTANTS
  Points,                   \* the points of trajectories a user may add
  StaticPositions,          \* static position goals
  StaticVelocities,         \* static velocity goals
  RAMP_DOWN_STOP_DURATION, STATIC_GOAL_DURATION, STATIC_GOAL_DURATION_SHORT,
  LongestEstimate,          \* bound of an estimated duration
  MaxGoals,                 \* bound on the number of goals, ramp downs included
  Travel                    \* bound on the robot's way under a static velocity goal

\* A value that may be missing is a set of at most one element.
IsOptional(value, type) == value \subseteq type /\ \A x, y \in value : x = y

ASSUME MotionStepAssumption ==
  /\ \A point \in Points :
       /\ \A axis \in {point.robot, point.external} :
            IsOptional(axis.p, Int) /\ IsOptional(axis.v, Int) /\ IsOptional(axis.a, Int)
       /\ IsOptional(point.q, Quaternions) /\ IsOptional(point.duration, Nat)
       /\ point.reach \in BOOLEAN
  /\ \A source \in StaticPositions :
       /\ IsOptional(source.p, Int) /\ IsOptional(source.e, Int)
       /\ IsOptional(source.q, Quaternions)
  /\ \A source \in StaticVelocities :
       IsOptional(source.v, Int) /\ IsOptional(source.e, Int) /\ IsOptional(source.w, Int)
  /\ RAMP_DOWN_STOP_DURATION \in Nat
  /\ STATIC_GOAL_DURATION \in Nat /\ STATIC_GOAL_DURATION_SHORT \in Nat
  /\ LongestEstimate \in Nat /\ MaxGoals \in Nat /\ Travel \in Nat

VARIABLES
  mode,          \* data.mode, one for the whole session
  method,        \* configurations_.spline_method
  phase,         \* whose goal is followed
  active,        \* has_active_goal
  stopping,      \* the do_stop of the last ramp down
  goal,          \* internal_goal
  ref,           \* interpolation, as the controller left it
  initial,       \* initial_references_ of the controller
  isNormal,      \* is_normal_state_ of the controller
  interpolator,
  passed,        \* time_passed, up to where no comparison tells a difference
  defined,       \* all references so far were numbers
  degenerate,    \* history: an orientation was given no time or the opposite quaternion
  count          \* goals so far

vars == <<mode, method, phase, active, stopping, goal, ref, initial, isNormal, interpolator,
          passed, defined, degenerate, count>>

Axis(p, v, a) == [p |-> p, v |-> v, a |-> a]
Origin == [ robot |-> Axis(0, 0, 0), external |-> Axis(0, 0, 0), q |-> 0, w |-> 0,
            reach |-> FALSE, duration |-> 0 ]

Init ==
  /\ mode \in Modes /\ method \in Methods
  /\ phase = "idle" /\ active = FALSE /\ stopping = FALSE
  /\ goal = Origin /\ ref = Origin /\ initial = Origin /\ isNormal = FALSE
  /\ interpolator = NoInterpolation(Origin)
  /\ passed = 0 /\ defined = TRUE /\ degenerate = FALSE /\ count = 0

-----------------------------------------------------------------------------
(***************************************************************************)
(* Controller.                                                             *)
(***************************************************************************)

\* Factors in halves: a goes down when the goal has to be reached, b goes up.
Factors(reach, t, T) == [a |-> IF reach THEN 2 - RampUp(t, T) ELSE 2, b |-> RampUp(t, T)]

\* Mutant: every goal's transition begins at zero velocity.
TransitionedFromZero(k, start, value) == (k.a * k.b * value) \div 4

Transitioned(k, start, value) == (k.a * (2 * start + k.b * (value - start))) \div 4
CorrectedVelocity(k, start, v) ==
  IF method = "Linear" THEN Transitioned(k, start, v) ELSE (k.a * v) \div 2

CorrectedAxis(k, start, axis) ==
  [axis EXCEPT !.v = CorrectedVelocity(k, start.v, @), !.a = (k.a * @) \div 2]

\* normal: is_normal_state_.
Corrected(normal, point, start, t) ==
  LET k == Factors(point.reach, t, point.duration)
      transition == normal /\ (point.reach \/ method = "Linear")
  IN [ point EXCEPT
         !.robot = IF transition THEN CorrectedAxis(k, start.robot, @) ELSE @,
         !.external = IF transition THEN CorrectedAxis(k, start.external, @) ELSE @,
         !.w = IF normal /\ mode = "EGMPose" THEN Transitioned(k, start.w, @) ELSE @ ]

\* evaluateInterpolator and Controller::calculate.
Reference(normal, I, out, start, t) ==
  LET time == Saturate(t, 0, I.duration)
      axes == EvaluateAxes(I, mode, out, time)
      orientation == EvaluateOrientation(I, mode, out, time)
  IN Corrected(normal,
               [ out EXCEPT !.robot = axes.robot, !.external = axes.external,
                            !.q = orientation.q, !.w = orientation.w ],
               start, t)

-----------------------------------------------------------------------------
(***************************************************************************)
(* Goals.                                                                  *)
(***************************************************************************)

CopyPresent(present, old) == IF present = {} THEN old ELSE CHOOSE x \in present : TRUE

\* Goals for which the code's formulas have no meaning.
Degenerate(duration, from, to) ==
  mode = "EGMPose" /\ (duration = 0 \/ Opposite(Angle(from, to)))

\* updateInterpolator, Controller::update and the first evaluation.  The controller
\* is given the state of the tick that prepares the goal: at the end of a ramp down
\* that is still RampDown, and it keeps what it was given until the next goal.
Follow(newGoal, conditions, newPhase) ==
  LET start == [ref EXCEPT !.reach = newGoal.reach, !.duration = conditions.duration]
      I == Update(interpolator, mode, conditions, start, newGoal)
      stateIsNormal == newPhase = "normal" /\ phase # "rampDown"
  IN /\ count < MaxGoals /\ count' = count + 1
     /\ goal' = newGoal
     /\ interpolator' = I
     /\ initial' = start
     /\ isNormal' = stateIsNormal
     /\ passed' = 1
     /\ ref' = Reference(stateIsNormal, I, start, start, 1)
     /\ defined' = (defined /\ EvaluationDefined(I, mode, Saturate(1, 0, I.duration)))
     /\ degenerate' = (degenerate \/ Degenerate(conditions.duration, ref.q, newGoal.q))
     /\ phase' = newPhase
     /\ active' = TRUE
     /\ UNCHANGED <<mode, method>>

Conditions(duration, operation, factor) ==
  [duration |-> duration, operation |-> operation, method |-> method, factor |-> factor]

DurationReached == passed >= interpolator.duration
ConditionMet ==
  /\ mode = "EGMJoint" => goal.robot.p = ref.robot.p
  /\ mode = "EGMPose" =>
       /\ goal.robot.p = ref.robot.p
       /\ goal.q % Turn = ref.q % Turn
  /\ goal.external.p = ref.external.p

\* 1 degree or 1 mm per second: the longest way an axis has to go, in samples.
Larger(x, y) == IF x < y THEN y ELSE x
Way(point) ==
  LET robot == Magnitude(point.robot.p - ref.robot.p)
      external == Magnitude(point.external.p - ref.external.p)
      turn == IF mode = "EGMPose" THEN Magnitude(Angle(ref.q % Turn, point.q % Turn)) ELSE 0
  IN Saturate(Larger(robot, Larger(external, turn)), 0, LongestEstimate)

AtRest(axis) == [axis EXCEPT !.v = 0, !.a = 0]
TransferAxis(source, old) ==
  [p |-> CopyPresent(source.p, old.p), v |-> CopyPresent(source.v, 0),
   a |-> CopyPresent(source.a, 0)]

PreparedNormalGoal(point, last) ==
  LET robot == TransferAxis(point.robot, goal.robot)
      external == TransferAxis(point.external, goal.external)
      resting == last \/ point.duration = {}
      g == [ goal EXCEPT
               !.reach = point.reach \/ last,
               !.robot = IF resting THEN AtRest(robot) ELSE robot,
               !.external = IF resting THEN AtRest(external) ELSE external,
               !.q = IF mode = "EGMPose" THEN CopyPresent(point.q, @) ELSE @,
               !.w = 0 ]
  IN [g EXCEPT !.duration = CopyPresent(point.duration, Way(g))]

\* Where updateNormalGoal may be called.
AtEndOfGoal ==
  \/ phase = "idle"
  \/ phase = "normal" /\ DurationReached /\ (goal.reach => ConditionMet)
  \/ phase = "rampDown" /\ DurationReached

NormalGoal(point, last) ==
  /\ AtEndOfGoal
  /\ LET g == PreparedNormalGoal(point, last)
     IN Follow(g, Conditions(g.duration, "Normal", 0), "normal")
  /\ UNCHANGED stopping

\* No point is left: nothing is sent until there is a new goal.
NoGoalLeft ==
  /\ AtEndOfGoal /\ phase # "idle"
  /\ phase' = "idle" /\ active' = FALSE
  /\ UNCHANGED <<mode, method, stopping, goal, ref, initial, isNormal, interpolator,
                 passed, defined, degenerate, count>>

\* The interpolator's conditions for a complete stop, or for half the velocity.
RampDownConditions(do_stop) ==
  IF do_stop THEN Conditions(RAMP_DOWN_STOP_DURATION, "RampDown", 0)
  ELSE Conditions(RAMP_DOWN_STOP_DURATION \div 2, "RampDown", 1)

RampDownGoal(do_stop) ==
  /\ phase \in {"idle", "normal"} \/ (phase = "static" /\ do_stop)
  /\ Follow(goal, RampDownConditions(do_stop), "rampDown")
  /\ stopping' = do_stop

EnterStaticGoal ==
  /\ phase = "rampDown" /\ DurationReached /\ stopping
  /\ phase' = "static" /\ active' = FALSE
  /\ UNCHANGED <<mode, method, stopping, goal, ref, initial, isNormal, interpolator,
                 passed, defined, degenerate, count>>

\* A transition that is not fast is preceded by a ramp down, which leaves no goal.
StaticGoal(g, fast, operation) ==
  /\ phase = "static"
  /\ fast \/ ~active
  /\ Follow(g, Conditions(IF fast THEN STATIC_GOAL_DURATION_SHORT ELSE STATIC_GOAL_DURATION,
                          operation, 0), "static")
  /\ UNCHANGED stopping

StaticPositionGoal(source, fast) ==
  StaticGoal([ ref EXCEPT !.robot.p = CopyPresent(source.p, @),
                          !.external.p = CopyPresent(source.e, @),
                          !.q = CopyPresent(source.q, @) ],
             fast, "RampInPosition")
StaticVelocityGoal(source, fast) ==
  StaticGoal([ ref EXCEPT !.robot.v = CopyPresent(source.v, @),
                          !.external.v = CopyPresent(source.e, @),
                          !.w = CopyPresent(source.w, @) ],
             fast, "RampInVelocity")

\* A tick without a new goal.
Continue ==
  /\ active
  /\ phase = "static" => Magnitude(ref.robot.p) < Travel /\ Magnitude(ref.external.p) < Travel
  /\ LET t == passed + 1
     IN /\ passed' = Saturate(t, 0, interpolator.duration + 1)
        /\ ref' = Reference(isNormal, interpolator, ref, initial, t)
        /\ defined' = (defined /\
                       EvaluationDefined(interpolator, mode, Saturate(t, 0, interpolator.duration)))
  /\ UNCHANGED <<mode, method, phase, active, stopping, goal, initial, isNormal, interpolator,
                 degenerate, count>>

Next ==
  \/ \E point \in Points, last \in BOOLEAN : NormalGoal(point, last)
  \/ NoGoalLeft
  \/ \E do_stop \in BOOLEAN : RampDownGoal(do_stop)
  \/ EnterStaticGoal
  \/ \E source \in StaticPositions, fast \in BOOLEAN : StaticPositionGoal(source, fast)
  \/ \E source \in StaticVelocities, fast \in BOOLEAN : StaticVelocityGoal(source, fast)
  \/ Continue

Spec == Init /\ [][Next]_vars

-----------------------------------------------------------------------------
(***************************************************************************)
(* Properties.                                                             *)
(***************************************************************************)

Axes == {"robot", "external"}
Follows(operation) == active /\ interpolator.operation = operation
\* The angle of a rotation, taken the shorter way round.
Short(angle) == LET d == angle % Turn IN IF 2 * d > Turn THEN Turn - d ELSE d
SameOrientation(h1, h2) == h1 % Turn = h2 % Turn

\* Whatever is interrupted, a new spline begins with the position and the
\* velocity of the last reference, a quintic one with its acceleration, and the
\* orientation with its orientation and angular velocity: at no change of goals
\* does what is sent to the robot jump (EGMInterpolator::update,
\* Controller::update and calculate).  Two things are not promised to the first
\* goal after a ramp down, whose velocities the controller does not transition:
\* linear splines and angular velocities jump from where the ramp down ended.
ReferencesStartSmoothly ==
  (Follows("Normal") \/ Follows("RampDown")) /\ ref.duration > 0 =>
    LET first == Reference(isNormal, interpolator, initial, initial, 0)
        transitioned == isNormal \/ Follows("RampDown")
    IN /\ \A axis \in Axes :
            /\ first[axis].p = initial[axis].p
            /\ transitioned \/ method # "Linear" => first[axis].v = initial[axis].v
            /\ method = "Quintic" /\ Follows("Normal") => first[axis].a = initial[axis].a
       /\ transitioned => first.w = initial.w
       /\ Follows("Normal") => SameOrientation(first.q, initial.q)

\* At the end of its duration a goal is met in what its spline method promises:
\* the position always, the velocity with cubic and quintic splines, the
\* acceleration with quintic ones.  A goal that is to be reached is met at rest
\* with any method, but for the first goal after a ramp down: that one ends with
\* the velocities its spline leads to, to be reached or not.  A static goal ends
\* with the velocity or, begun from standstill, at the position that was asked for.
GoalIsMet ==
  active /\ DurationReached =>
    /\ Follows("Normal") =>
         /\ \A axis \in Axes :
              /\ ref[axis].p = goal[axis].p
              /\ IF goal.reach /\ isNormal THEN ref[axis].v = 0 /\ ref[axis].a = 0
                 ELSE /\ method \in {"Cubic", "Quintic"} => ref[axis].v = goal[axis].v
                      /\ method = "Quintic" => ref[axis].a = goal[axis].a
         /\ mode = "EGMPose" => SameOrientation(ref.q, goal.q)
         /\ mode = "EGMPose" /\ goal.reach /\ isNormal => ref.w = 0
    /\ Follows("RampInVelocity") =>
         /\ \A axis \in Axes : ref[axis].v = goal[axis].v
         /\ mode = "EGMPose" => ref.w = goal.w
    /\ Follows("RampInPosition") =>
         /\ \A axis \in Axes : initial[axis].v = 0 => ref[axis] = Axis(goal[axis].p, 0, 0)
         /\ mode = "EGMPose" /\ initial.w = 0 => SameOrientation(ref.q, goal.q)

\* A ramp down only brakes: no axis speeds up, turns round, or goes further than
\* the velocity it had would have taken it; a stop ends at standstill.
NotFaster(v, start) == IF start >= 0 THEN v \in 0..start ELSE v \in start..0
RampDownBrakes ==
  Follows("RampDown") =>
    /\ \A axis \in Axes :
         /\ NotFaster(ref[axis].v, initial[axis].v)
         /\ NotFaster(ref[axis].p - initial[axis].p, initial[axis].v * interpolator.duration)
         /\ stopping /\ DurationReached => ref[axis].v = 0 /\ ref[axis].a = 0
    /\ NotFaster(ref.w, initial.w)
    /\ DurationReached /\ mode = "EGMPose" => ref.w = 0

\* The references are numbers, and the orientation of a normal goal keeps to the
\* shorter way round, as long as no orientation was given a duration of zero or
\* the opposite quaternion of where the hand is.
OrientationIsSound ==
  \/ degenerate
  \/ /\ defined
     /\ Follows("Normal") /\ mode = "EGMPose" =>
          Short(ref.q - initial.q) <= Short(goal.q - initial.q)

\* In violation: a static position goal that has been reached is held without a
\* velocity, as the position ramp's derivative at its end is zero.
StaticPositionHeldAtRest ==
  Follows("RampInPosition") /\ DurationReached =>
    \A axis \in Axes : ref[axis].v = 0
=============================================================================
