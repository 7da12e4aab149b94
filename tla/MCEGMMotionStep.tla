--------------------------- MODULE MCEGMMotionStep ---------------------------
(***************************************************************************)
(* A small instance of EGMMotionStep for TLC: points with and without      *)
(* velocities, accelerations, durations and positions.                     *)
(***************************************************************************)
EXTENDS EGMMotionStep

Values(p, v, a) == [p |-> p, v |-> v, a |-> a]
Point(robot, external, q, duration, reach) ==
  [robot |-> robot, external |-> external, q |-> q, duration |-> duration, reach |-> reach]

MCPoints ==
  { Point(Values({24}, {8}, {4}), Values({-8}, {}, {}), {2}, {2}, FALSE),
    Point(Values({-8}, {}, {}), Values({}, {}, {}), {6}, {1}, FALSE),
    Point(Values({}, {-4}, {}), Values({8}, {4}, {}), {}, {2}, TRUE),
    Point(Values({0}, {}, {}), Values({0}, {}, {}), {8}, {}, FALSE),
    Point(Values({8}, {}, {}), Values({4}, {}, {}), {4}, {0}, FALSE) }
MCStaticPositions == { [p |-> {16}, e |-> {}, q |-> {4}], [p |-> {}, e |-> {-4}, q |-> {}] }
MCStaticVelocities == { [v |-> {4}, e |-> {-4}, w |-> {2}], [v |-> {-8}, e |-> {}, w |-> {}] }
=============================================================================
