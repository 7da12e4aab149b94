--------------------------- MODULE EGMInterpolator ---------------------------
(***************************************************************************)
(* EGMInterpolator: spline polynomials for joints and positions, Slerp for *)
(* the orientation, soft ramps for static goals and for the orientation of *)
(* a ramp down.  Pure operators; EGMMotionStep has the state.              *)
(*                                                                         *)
(* Time is counted in samples of LOWEST_SAMPLE_TIME.  Positions, speeds    *)
(* (per sample) and accelerations are multiples of a resolution, to which  *)
(* an evaluation rounds down.  All robot joints, or coordinates, have the  *)
(* values of one axis, all external joints those of another one.           *)
(***************************************************************************)
EXTENDS Integers

CONSTANTS
  RobotJoints,          \* number of robot joints, 6 or 7
  ExternalJoints,       \* number of external joints
  Turn,                 \* units of a half angle that are a full turn of the robot's hand
  CloseAngle            \* units below which dot products exceed DOT_PRODUCT_THRESHOLD

MAX_NUMBER_OF_SPLINES == 12
Methods == {"Linear", "Square", "Cubic", "Quintic"}
Modes == {"EGMJoint", "EGMPose"}

ASSUME InterpolatorAssumption ==
  /\ RobotJoints \in 3..MAX_NUMBER_OF_SPLINES
  /\ ExternalJoints \in 1..(MAX_NUMBER_OF_SPLINES - RobotJoints)
  /\ Turn \in Nat \ {0}
  /\ CloseAngle \in Nat

Saturate(value, lower, upper) ==
  IF value < lower THEN lower ELSE IF value > upper THEN upper ELSE value
Magnitude(x) == IF x < 0 THEN -x ELSE x

-----------------------------------------------------------------------------
(***************************************************************************)
(* Spline polynomials.  A coefficient is kept in the time t/T and times 6, *)
(* which makes it an integer: c stands for c_*T^2*6, and so on.            *)
(***************************************************************************)

Spline(a, b, c, d, e, f) == [a |-> a, b |-> b, c |-> c, d |-> d, e |-> e, f |-> f]
NoSpline == Spline(0, 0, 0, 0, 0, 0)

\* Mutant: the last coefficient is not divided by three.
HardRampDownSpline(T, start, factor) ==
  LET K == Saturate(factor, 0, 2)
  IN Spline(6 * start.p, 6 * start.v * T, 3 * (K - 2) * start.v * T,
            3 * (2 - K) * start.v * T, 0, 0)

\* factor is in halves: 0 for a stop, 1 for half of the velocity.
RampDownSpline(T, start, factor) ==
  LET K == Saturate(factor, 0, 2)
  IN Spline(6 * start.p, 6 * start.v * T, 3 * (K - 2) * start.v * T,
            (2 - K) * start.v * T, 0, 0)

LinearSpline(T, start, end) == Spline(6 * start.p, 6 * (end.p - start.p), 0, 0, 0, 0)

SquareSpline(T, start, end) ==
  Spline(6 * start.p, 6 * start.v * T, 6 * (end.p - start.p - start.v * T), 0, 0, 0)

CubicSpline(T, start, end) ==
  LET c1 == end.p - start.p - start.v * T
      c2 == (end.v - start.v) * T
      c == 18 * c1 - 6 * c2
  IN Spline(6 * start.p, 6 * start.v * T, c, 6 * c1 - c, 0, 0)

\* Mutant: the start's acceleration is not halved.
HeavyQuinticSpline(T, start, end) ==
  LET c1 == 2 * (end.p - start.p - start.v * T) - 2 * start.a * T * T
      c2 == (end.v - start.v - start.a * T) * T
      c3 == (end.a - start.a) * T * T
      d == 30 * c1 - 24 * c2 + 3 * c3
      e == 15 * c1 - 6 * c2 - 2 * d
  IN Spline(6 * start.p, 6 * start.v * T, 3 * start.a * T * T, d, e, 3 * c1 - d - e)

\* c1 is doubled, as it has half of the start's acceleration.
QuinticSpline(T, start, end) ==
  LET c1 == 2 * (end.p - start.p - start.v * T) - start.a * T * T
      c2 == (end.v - start.v - start.a * T) * T
      c3 == (end.a - start.a) * T * T
      d == 30 * c1 - 24 * c2 + 3 * c3
      e == 15 * c1 - 6 * c2 - 2 * d
  IN Spline(6 * start.p, 6 * start.v * T, 3 * start.a * T * T, d, e, 3 * c1 - d - e)

SplineOf(conditions, T, start, end) ==
  IF conditions.operation = "RampDown" THEN RampDownSpline(T, start, conditions.factor)
  ELSE CASE conditions.method = "Linear"  -> LinearSpline(T, start, end)
         [] conditions.method = "Square"  -> SquareSpline(T, start, end)
         [] conditions.method = "Cubic"   -> CubicSpline(T, start, end)
         [] conditions.method = "Quintic" -> QuinticSpline(T, start, end)

\* The numerators of position, velocity and acceleration at t; the
\* denominator is Scale(T).
Scale(T) == 6 * T * T * T * T * T
PositionPart(s, t, T) ==
  s.a * T * T * T * T * T + s.b * t * T * T * T * T + s.c * t * t * T * T * T
  + s.d * t * t * t * T * T + s.e * t * t * t * t * T + s.f * t * t * t * t * t
VelocityPart(s, t, T) ==
  s.b * T * T * T * T + 2 * s.c * t * T * T * T + 3 * s.d * t * t * T * T
  + 4 * s.e * t * t * t * T + 5 * s.f * t * t * t * t
AccelerationPart(s, t, T) ==
  2 * s.c * T * T * T + 6 * s.d * t * T * T + 12 * s.e * t * t * T
  + 20 * s.f * t * t * t

SplineAt(s, t, T) ==
  [ p |-> PositionPart(s, t, T) \div Scale(T),
    v |-> VelocityPart(s, t, T) \div Scale(T),
    a |-> AccelerationPart(s, t, T) \div Scale(T) ]

-----------------------------------------------------------------------------
(***************************************************************************)
(* Orientations are rotations about one axis.  The quaternion h has a half *)
(* angle of h units; h and h + Turn are opposite quaternions of the same   *)
(* orientation.  Angular velocities are full angles per sample.            *)
(***************************************************************************)

Quaternions == 0..(2 * Turn - 1)
Rotated(h, angle) == (h + angle) % (2 * Turn)

\* The angle between two quaternions, from -Turn + 1 to Turn.
Angle(from, to) ==
  LET d == (to - from) % (2 * Turn) IN IF d > Turn THEN d - 2 * Turn ELSE d

Opposite(angle) == Magnitude(angle) >= Turn - CloseAngle
UsesLinear(angle) == Magnitude(angle) <= CloseAngle \/ Opposite(angle)

\* Mutant: the goal is never reversed.
LongSlerpPath(angle) == angle

\* The goal is reversed when the dot product is negative, but only for Slerp.
SlerpPath(angle) ==
  IF UsesLinear(angle) \/ 2 * Magnitude(angle) <= Turn THEN angle
  ELSE IF angle > 0 THEN angle - Turn ELSE angle + Turn

SlerpOf(from, to, duration) ==
  [ q0 |-> from, path |-> SlerpPath(Angle(from, to)), duration |-> duration,
    linear |-> UsesLinear(Angle(from, to)) ]

\* The normalised chord between quaternions that are nearly opposite stays at
\* one end for the first half and at the other for the second.
ChordAngle(s, t) ==
  IF 2 * t < s.duration THEN 0
  ELSE IF 2 * t = s.duration THEN s.path \div 2 ELSE s.path

SlerpAngle(s, t) ==
  IF t >= s.duration THEN s.path
  ELSE IF s.linear /\ Opposite(s.path) THEN ChordAngle(s, t)
  ELSE (s.path * t) \div s.duration

\* The derivative of the linear interpolation is not divided by the duration.
SlerpVelocity(s) ==
  IF s.linear \/ s.duration = 0 THEN 2 * s.path ELSE (2 * s.path) \div s.duration

\* What cannot be represented: a division by a duration of zero, and the zero
\* quaternion half way between two opposite ones.
SlerpDefined(s, t) ==
  /\ s.linear \/ s.duration > 0
  /\ ~(Magnitude(s.path) = Turn /\ 2 * t = s.duration)

-----------------------------------------------------------------------------
(***************************************************************************)
(* Soft ramps.                                                             *)
(***************************************************************************)

\* 0.5*cos(pi*t/T + pi) + 0.5 in halves.
RampUp(t, T) == IF 3 * t < T THEN 0 ELSE IF 3 * t > 2 * T THEN 2 ELSE 1
Between(from, to, halves) == from + (halves * (to - from)) \div 2

\* There is no break between RampInPosition and RampInVelocity: the velocity
\* of the first is overwritten and its position is moved on by the second.
RampInAxis(operation, out, start, end, halves) ==
  LET v == Between(start.v, end.v, halves)
      p == IF operation = "RampInPosition" THEN Between(start.p, end.p, halves) ELSE out.p
  IN [p |-> p + v, v |-> v, a |-> 0]

RampInOrientation(operation, out, start, end, halves) ==
  LET w == Between(start.w, end.w, halves)
      h == IF operation = "RampInPosition"
           THEN Rotated(start.q, (halves * Angle(start.q, end.q)) \div 2)
           ELSE out.q
  IN [q |-> Rotated(h, w \div 2), w |-> w]

\* The angular velocity is always ramped down to zero.
RampDownOrientation(out, startVelocity, halves) ==
  LET w == Between(startVelocity, 0, halves)
  IN [q |-> Rotated(out.q, w \div 2), w |-> w]

RampDefined(operation, start, end, halves) ==
  ~(operation = "RampInPosition" /\ halves = 1 /\ Magnitude(Angle(start.q, end.q)) = Turn)

-----------------------------------------------------------------------------
(***************************************************************************)
(* The interpolator.  Only the splines get the duration that is at least   *)
(* one sample; Slerp and soft ramps get the one that was asked for.        *)
(***************************************************************************)

NoInterpolation(point) ==
  [ duration |-> 0, operation |-> "Normal",
    splines |-> [i \in 0..(MAX_NUMBER_OF_SPLINES - 1) |-> NoSpline],
    slerp |-> SlerpOf(0, 0, 0),
    ramp |-> [start |-> point, end |-> point, w |-> 0, duration |-> 0] ]

\* Splines of the robot's joints, or of x, y and z.
RobotSplines(mode) == IF mode = "EGMJoint" THEN 0..(RobotJoints - 1) ELSE 0..2
ExternalSplines == RobotJoints..(RobotJoints + ExternalJoints - 1)

\* The external joints' splines are set after the robot's.
UpdatedSplines(splines, mode, conditions, T, start, end) ==
  [ i \in DOMAIN splines |->
      IF i \in ExternalSplines THEN SplineOf(conditions, T, start.external, end.external)
      ELSE IF i \in RobotSplines(mode) THEN SplineOf(conditions, T, start.robot, end.robot)
      ELSE splines[i] ]

Update(interpolator, mode, conditions, start, end) ==
  LET T == IF conditions.duration < 1 THEN 1 ELSE conditions.duration
      common == [interpolator EXCEPT !.duration = T, !.operation = conditions.operation]
  IN IF conditions.operation \in {"Normal", "RampDown"}
     THEN [ common EXCEPT
              !.splines = UpdatedSplines(@, mode, conditions, T, start, end),
              !.slerp = IF mode = "EGMPose" /\ conditions.operation = "Normal"
                        THEN SlerpOf(start.q, end.q, conditions.duration) ELSE @,
              !.ramp = IF mode = "EGMPose" /\ conditions.operation = "RampDown"
                       THEN [@ EXCEPT !.w = start.w, !.duration = conditions.duration] ELSE @ ]
     ELSE [ common EXCEPT
              !.ramp = [@ EXCEPT !.start = start, !.end = end, !.duration = conditions.duration] ]

\* The axes of a point at time t (at most the duration); the last spline of the
\* robot and the first of the external joints stand for all.
LastOfRobot(mode) == IF mode = "EGMJoint" THEN RobotJoints - 1 ELSE 2

EvaluateAxes(I, mode, out, t) ==
  IF I.operation \in {"Normal", "RampDown"}
  THEN [ robot |-> SplineAt(I.splines[LastOfRobot(mode)], t, I.duration),
         external |-> SplineAt(I.splines[RobotJoints], t, I.duration) ]
  ELSE LET halves == RampUp(t, I.ramp.duration)
       IN [ robot |-> RampInAxis(I.operation, out.robot, I.ramp.start.robot,
                                 I.ramp.end.robot, halves),
            external |-> RampInAxis(I.operation, out.external, I.ramp.start.external,
                                    I.ramp.end.external, halves) ]

EvaluateOrientation(I, mode, out, t) ==
  IF mode = "EGMJoint" THEN [q |-> out.q, w |-> out.w]
  ELSE CASE I.operation = "Normal" ->
              [q |-> Rotated(I.slerp.q0, SlerpAngle(I.slerp, t)), w |-> SlerpVelocity(I.slerp)]
         [] I.operation = "RampDown" ->
              RampDownOrientation(out, I.ramp.w, RampUp(t, I.ramp.duration))
         [] OTHER ->
              RampInOrientation(I.operation, out, I.ramp.start, I.ramp.end,
                                RampUp(t, I.ramp.duration))

\* Whether that evaluation yields numbers and a quaternion.
EvaluationDefined(I, mode, t) ==
  /\ I.duration > 0
  /\ mode = "EGMPose" /\ I.operation = "Normal" => SlerpDefined(I.slerp, t)
  /\ mode = "EGMPose" =>
       RampDefined(I.operation, I.ramp.start, I.ramp.end, RampUp(t, I.ramp.duration))
=============================================================================
