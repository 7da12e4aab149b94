------------------------ MODULE EGMMotionStepProofs ------------------------
(***************************************************************************)
(* What the splines do, for every duration and all boundary conditions:    *)
(* the conditions their coefficients are computed from are met, whatever   *)
(* the method, and a ramp down only brakes.  Then what MotionStep makes of *)
(* them, for every sequence of goals: no jump between two goals, a goal    *)
(* that is met at the end of its time, and numbers all the way.            *)
(***************************************************************************)
EXTENDS EGMMotionStep, TLAPS

Condition == [p : Int, v : Int, a : Int]
Durations == Nat \ {0}

Third(T) == T * T * T
Fourth(T) == T * T * T * T
Fifth(T) == T * T * T * T * T

\* Powers of whole numbers are whole.
LEMMA Powers ==
  ASSUME NEW T \in Durations
  PROVE  T \in Int /\ Third(T) \in Int /\ Fourth(T) \in Int /\ Fifth(T) \in Int /\ Scale(T) \in Int
  BY DEF Durations, Third, Fourth, Fifth, Scale

\* What the coefficients are multiplied with makes the denominator whole.
LEMMA Scales ==
  ASSUME NEW T \in Int, NEW x \in Int
  PROVE  /\ (6 * x) * Fifth(T) = x * Scale(T)
         /\ (6 * x * T) * Fourth(T) = x * Scale(T)
         /\ (6 * x * T * T) * Third(T) = x * Scale(T)
  BY DEF Scale, Fifth, Fourth, Third

\* The denominator is positive.
LEMMA ScalePositive ==
  ASSUME NEW T \in Durations
  PROVE  Scale(T) \in Nat \ {0}
<1>1. T * T > 0 /\ T * T \in Nat
  BY DEF Durations
<1>2. (T * T) * T > 0 /\ (T * T) * T \in Nat
  BY <1>1 DEF Durations
<1>3. ((T * T) * T) * T > 0 /\ ((T * T) * T) * T \in Nat
  BY <1>2 DEF Durations
<1>4. (((T * T) * T) * T) * T > 0 /\ (((T * T) * T) * T) * T \in Nat
  BY <1>3 DEF Durations
<1> QED
  BY <1>4 DEF Scale, Durations

\* Division is exact where the numerator is a multiple.
LEMMA ExactDivision ==
  ASSUME NEW n \in Nat \ {0}, NEW x \in Int
  PROVE  (x * n) \div n = x
<1> DEFINE q == (x * n) \div n
<1>1. q \in Int /\ q * n <= x * n /\ x * n < (q + 1) * n
  OBVIOUS
<1>2. CASE q < x
  <2>1. (q + 1) * n <= x * n
    BY <1>1, <1>2
  <2> QED
    BY <1>1, <2>1
<1>3. CASE q > x
  <2>1. q * n >= (x + 1) * n
    BY <1>1, <1>3
  <2>2. (x + 1) * n > x * n
    OBVIOUS
  <2> QED
    BY <1>1, <2>1, <2>2
<1> QED
  BY <1>1, <1>2, <1>3

----------------------------------------------------------------------------
(* The methods                                                             *)

\* s begins in start and ends in end, up to the velocity or the acceleration if so
\* asked.
Begins(s, T, start) == PositionPart(s, 0, T) = start.p * Scale(T)
Ends(s, T, end) == PositionPart(s, T, T) = end.p * Scale(T)
BeginsMoving(s, T, start) == VelocityPart(s, 0, T) = start.v * Scale(T)
EndsMoving(s, T, end) == VelocityPart(s, T, T) = end.v * Scale(T)
BeginsAccelerating(s, T, start) == AccelerationPart(s, 0, T) = start.a * Scale(T)
EndsAccelerating(s, T, end) == AccelerationPart(s, T, T) = end.a * Scale(T)

\* A linear spline goes from one position to the other.
LEMMA LinearEnds ==
  ASSUME NEW T \in Durations, NEW start \in Condition, NEW end \in Condition
  PROVE  LET s == LinearSpline(T, start, end)
         IN /\ Begins(s, T, start) /\ Ends(s, T, end)
<1> DEFINE a == 6 * start.p
           b == 6 * (end.p - start.p)
<1>0. /\ T \in Int /\ start.p \in Int /\ start.v \in Int /\ start.a \in Int
      /\ end.p \in Int /\ end.v \in Int /\ end.a \in Int
  BY Powers DEF Condition
<1>1. 0 \in Int /\ a \in Int /\ b \in Int
  BY DEF Durations, Condition
<1>2. a + b + 0 + 0 + 0 + 0 = 6 * end.p
  BY DEF Durations, Condition
<1>3. LinearSpline(T, start, end) = Spline(a, b, 0, 0, 0, 0)
  BY DEF LinearSpline
<1> HIDE DEF a, b
<1>4. PositionPart(Spline(a, b, 0, 0, 0, 0), 0, T) = start.p * Scale(T)
  <2>1. PositionPart(Spline(a, b, 0, 0, 0, 0), 0, T) = a * Fifth(T)
    BY <1>0, <1>1 DEF PositionPart, Spline, Fifth
  <2>2. (6 * start.p) * Fifth(T) = start.p * Scale(T)
    BY <1>0, Scales
  <2> QED
    BY <2>1, <2>2, Zenon DEF a
<1>5. PositionPart(Spline(a, b, 0, 0, 0, 0), T, T) = end.p * Scale(T)
  <2>1. PositionPart(Spline(a, b, 0, 0, 0, 0), T, T) = (a + b + 0 + 0 + 0 + 0) * Fifth(T)
    BY <1>0, <1>1 DEF PositionPart, Spline, Fifth
  <2>2. (6 * end.p) * Fifth(T) = end.p * Scale(T)
    BY <1>0, Scales
  <2> QED
    BY <2>1, <2>2, <1>2, Zenon
<1> QED
  BY <1>3, <1>4, <1>5, Zenon
  DEF Begins, Ends

\* A square one begins with the start's velocity too.
LEMMA SquareEnds ==
  ASSUME NEW T \in Durations, NEW start \in Condition, NEW end \in Condition
  PROVE  LET s == SquareSpline(T, start, end)
         IN /\ Begins(s, T, start) /\ Ends(s, T, end)
            /\ BeginsMoving(s, T, start)
<1> DEFINE a == 6 * start.p
           b == 6 * start.v * T
           c == 6 * (end.p - start.p - start.v * T)
<1>0. /\ T \in Int /\ start.p \in Int /\ start.v \in Int /\ start.a \in Int
      /\ end.p \in Int /\ end.v \in Int /\ end.a \in Int
  BY Powers DEF Condition
<1>1. 0 \in Int /\ a \in Int /\ b \in Int /\ c \in Int
  BY DEF Durations, Condition
<1>2. a + b + c + 0 + 0 + 0 = 6 * end.p
  BY DEF Durations, Condition
<1>3. SquareSpline(T, start, end) = Spline(a, b, c, 0, 0, 0)
  BY DEF SquareSpline
<1> HIDE DEF a, b, c
<1>4. PositionPart(Spline(a, b, c, 0, 0, 0), 0, T) = start.p * Scale(T)
  <2>1. PositionPart(Spline(a, b, c, 0, 0, 0), 0, T) = a * Fifth(T)
    BY <1>0, <1>1 DEF PositionPart, Spline, Fifth
  <2>2. (6 * start.p) * Fifth(T) = start.p * Scale(T)
    BY <1>0, Scales
  <2> QED
    BY <2>1, <2>2, Zenon DEF a
<1>5. PositionPart(Spline(a, b, c, 0, 0, 0), T, T) = end.p * Scale(T)
  <2>1. PositionPart(Spline(a, b, c, 0, 0, 0), T, T) = (a + b + c + 0 + 0 + 0) * Fifth(T)
    BY <1>0, <1>1 DEF PositionPart, Spline, Fifth
  <2>2. (6 * end.p) * Fifth(T) = end.p * Scale(T)
    BY <1>0, Scales
  <2> QED
    BY <2>1, <2>2, <1>2, Zenon
<1>6. VelocityPart(Spline(a, b, c, 0, 0, 0), 0, T) = start.v * Scale(T)
  <2>1. VelocityPart(Spline(a, b, c, 0, 0, 0), 0, T) = b * Fourth(T)
    BY <1>0, <1>1 DEF VelocityPart, Spline, Fourth
  <2>2. (6 * start.v * T) * Fourth(T) = start.v * Scale(T)
    BY <1>0, Scales
  <2> QED
    BY <2>1, <2>2, Zenon DEF b
<1> QED
  BY <1>3, <1>4, <1>5, <1>6, Zenon
  DEF Begins, Ends, BeginsMoving

\* A cubic one meets both velocities.
LEMMA CubicEnds ==
  ASSUME NEW T \in Durations, NEW start \in Condition, NEW end \in Condition
  PROVE  LET s == CubicSpline(T, start, end)
         IN /\ Begins(s, T, start) /\ Ends(s, T, end)
            /\ BeginsMoving(s, T, start) /\ EndsMoving(s, T, end)
<1> DEFINE c1 == end.p - start.p - start.v * T
           c2 == (end.v - start.v) * T
           a == 6 * start.p
           b == 6 * start.v * T
           c == 18 * c1 - 6 * c2
           d == 6 * c1 - c
<1>0. /\ T \in Int /\ start.p \in Int /\ start.v \in Int /\ start.a \in Int
      /\ end.p \in Int /\ end.v \in Int /\ end.a \in Int
  BY Powers DEF Condition
<1>1. 0 \in Int /\ a \in Int /\ b \in Int /\ c \in Int /\ d \in Int
  BY DEF Durations, Condition
<1>2. a + b + c + d + 0 + 0 = 6 * end.p
  BY DEF Durations, Condition
<1>3. b + 2 * c + 3 * d + 4 * 0 + 5 * 0 = 6 * end.v * T
  BY DEF Durations, Condition
<1>4. CubicSpline(T, start, end) = Spline(a, b, c, d, 0, 0)
  BY DEF CubicSpline
<1> HIDE DEF a, b, c, d
<1>5. PositionPart(Spline(a, b, c, d, 0, 0), 0, T) = start.p * Scale(T)
  <2>1. PositionPart(Spline(a, b, c, d, 0, 0), 0, T) = a * Fifth(T)
    BY <1>0, <1>1 DEF PositionPart, Spline, Fifth
  <2>2. (6 * start.p) * Fifth(T) = start.p * Scale(T)
    BY <1>0, Scales
  <2> QED
    BY <2>1, <2>2, Zenon DEF a
<1>6. PositionPart(Spline(a, b, c, d, 0, 0), T, T) = end.p * Scale(T)
  <2>1. PositionPart(Spline(a, b, c, d, 0, 0), T, T) = (a + b + c + d + 0 + 0) * Fifth(T)
    BY <1>0, <1>1 DEF PositionPart, Spline, Fifth
  <2>2. (6 * end.p) * Fifth(T) = end.p * Scale(T)
    BY <1>0, Scales
  <2> QED
    BY <2>1, <2>2, <1>2, Zenon
<1>7. VelocityPart(Spline(a, b, c, d, 0, 0), 0, T) = start.v * Scale(T)
  <2>1. VelocityPart(Spline(a, b, c, d, 0, 0), 0, T) = b * Fourth(T)
    BY <1>0, <1>1 DEF VelocityPart, Spline, Fourth
  <2>2. (6 * start.v * T) * Fourth(T) = start.v * Scale(T)
    BY <1>0, Scales
  <2> QED
    BY <2>1, <2>2, Zenon DEF b
<1>8. VelocityPart(Spline(a, b, c, d, 0, 0), T, T) = end.v * Scale(T)
  <2>1. VelocityPart(Spline(a, b, c, d, 0, 0), T, T) = (b + 2 * c + 3 * d + 4 * 0 + 5 * 0) * Fourth(T)
    BY <1>0, <1>1 DEF VelocityPart, Spline, Fourth
  <2>2. (6 * end.v * T) * Fourth(T) = end.v * Scale(T)
    BY <1>0, Scales
  <2> QED
    BY <2>1, <2>2, <1>3, Zenon
<1> QED
  BY <1>4, <1>5, <1>6, <1>7, <1>8, Zenon
  DEF Begins, Ends, BeginsMoving, EndsMoving

\* A quintic one meets both velocities and both accelerations.
LEMMA QuinticEnds ==
  ASSUME NEW T \in Durations, NEW start \in Condition, NEW end \in Condition
  PROVE  LET s == QuinticSpline(T, start, end)
         IN /\ Begins(s, T, start) /\ Ends(s, T, end)
            /\ BeginsMoving(s, T, start) /\ EndsMoving(s, T, end)
            /\ BeginsAccelerating(s, T, start) /\ EndsAccelerating(s, T, end)
<1> DEFINE c1 == 2 * (end.p - start.p - start.v * T) - start.a * T * T
           c2 == (end.v - start.v - start.a * T) * T
           c3 == (end.a - start.a) * T * T
           a == 6 * start.p
           b == 6 * start.v * T
           c == 3 * start.a * T * T
           d == 30 * c1 - 24 * c2 + 3 * c3
           e == 15 * c1 - 6 * c2 - 2 * d
           f == 3 * c1 - d - e
<1>0. /\ T \in Int /\ start.p \in Int /\ start.v \in Int /\ start.a \in Int
      /\ end.p \in Int /\ end.v \in Int /\ end.a \in Int
  BY Powers DEF Condition
<1>1. 0 \in Int /\ a \in Int /\ b \in Int /\ c \in Int /\ d \in Int /\ e \in Int /\ f \in Int
  BY DEF Durations, Condition
<1>2. a + b + c + d + e + f = 6 * end.p
  BY DEF Durations, Condition
<1>3. b + 2 * c + 3 * d + 4 * e + 5 * f = 6 * end.v * T
  BY DEF Durations, Condition
<1>4. 2 * c = 6 * start.a * T * T
  BY DEF Durations, Condition
<1>5. 2 * c + 6 * d + 12 * e + 20 * f = 6 * end.a * T * T
  BY DEF Durations, Condition
<1>6. QuinticSpline(T, start, end) = Spline(a, b, c, d, e, f)
  BY DEF QuinticSpline
<1> HIDE DEF a, b, c, d, e, f
<1>7. PositionPart(Spline(a, b, c, d, e, f), 0, T) = start.p * Scale(T)
  <2>1. PositionPart(Spline(a, b, c, d, e, f), 0, T) = a * Fifth(T)
    BY <1>0, <1>1 DEF PositionPart, Spline, Fifth
  <2>2. (6 * start.p) * Fifth(T) = start.p * Scale(T)
    BY <1>0, Scales
  <2> QED
    BY <2>1, <2>2, Zenon DEF a
<1>8. PositionPart(Spline(a, b, c, d, e, f), T, T) = end.p * Scale(T)
  <2>1. PositionPart(Spline(a, b, c, d, e, f), T, T) = (a + b + c + d + e + f) * Fifth(T)
    BY <1>0, <1>1 DEF PositionPart, Spline, Fifth
  <2>2. (6 * end.p) * Fifth(T) = end.p * Scale(T)
    BY <1>0, Scales
  <2> QED
    BY <2>1, <2>2, <1>2, Zenon
<1>9. VelocityPart(Spline(a, b, c, d, e, f), 0, T) = start.v * Scale(T)
  <2>1. VelocityPart(Spline(a, b, c, d, e, f), 0, T) = b * Fourth(T)
    BY <1>0, <1>1 DEF VelocityPart, Spline, Fourth
  <2>2. (6 * start.v * T) * Fourth(T) = start.v * Scale(T)
    BY <1>0, Scales
  <2> QED
    BY <2>1, <2>2, Zenon DEF b
<1>10. VelocityPart(Spline(a, b, c, d, e, f), T, T) = end.v * Scale(T)
  <2>1. VelocityPart(Spline(a, b, c, d, e, f), T, T) = (b + 2 * c + 3 * d + 4 * e + 5 * f) * Fourth(T)
    BY <1>0, <1>1 DEF VelocityPart, Spline, Fourth
  <2>2. (6 * end.v * T) * Fourth(T) = end.v * Scale(T)
    BY <1>0, Scales
  <2> QED
    BY <2>1, <2>2, <1>3, Zenon
<1>11. AccelerationPart(Spline(a, b, c, d, e, f), 0, T) = start.a * Scale(T)
  <2>1. AccelerationPart(Spline(a, b, c, d, e, f), 0, T) = (2 * c) * Third(T)
    BY <1>0, <1>1 DEF AccelerationPart, Spline, Third
  <2>2. (6 * start.a * T * T) * Third(T) = start.a * Scale(T)
    BY <1>0, Scales
  <2> QED
    BY <2>1, <2>2, <1>4, Zenon
<1>12. AccelerationPart(Spline(a, b, c, d, e, f), T, T) = end.a * Scale(T)
  <2>1. AccelerationPart(Spline(a, b, c, d, e, f), T, T) = (2 * c + 6 * d + 12 * e + 20 * f) * Third(T)
    BY <1>0, <1>1 DEF AccelerationPart, Spline, Third
  <2>2. (6 * end.a * T * T) * Third(T) = end.a * Scale(T)
    BY <1>0, Scales
  <2> QED
    BY <2>1, <2>2, <1>5, Zenon
<1> QED
  BY <1>6, <1>7, <1>8, <1>9, <1>10, <1>11, <1>12, Zenon
  DEF Begins, Ends, BeginsMoving, EndsMoving, BeginsAccelerating, EndsAccelerating

\* For every method, duration and boundary condition: a spline begins where it
\* has to and ends in its goal; all but linear ones begin with the start's
\* velocity, cubic and quintic ones end with the goal's, and quintic ones begin
\* and end with the accelerations (SplinePolynomial::update, and evaluate).
THEOREM SplineMeetsConditions ==
  ASSUME NEW conditions, conditions.operation # "RampDown", conditions.method \in Methods,
         NEW T \in Durations, NEW start \in Condition, NEW end \in Condition
  PROVE  LET first == SplineAt(SplineOf(conditions, T, start, end), 0, T)
             last == SplineAt(SplineOf(conditions, T, start, end), T, T)
         IN /\ first.p = start.p /\ last.p = end.p
            /\ conditions.method # "Linear" => first.v = start.v
            /\ conditions.method \in {"Cubic", "Quintic"} => last.v = end.v
            /\ conditions.method = "Quintic" => first.a = start.a /\ last.a = end.a
<1> DEFINE s == SplineOf(conditions, T, start, end)
<1>1. /\ Begins(s, T, start) /\ Ends(s, T, end)
      /\ conditions.method # "Linear" => BeginsMoving(s, T, start)
      /\ conditions.method \in {"Cubic", "Quintic"} => EndsMoving(s, T, end)
      /\ conditions.method = "Quintic" =>
           BeginsAccelerating(s, T, start) /\ EndsAccelerating(s, T, end)
  <2>1. CASE conditions.method = "Linear"
    <3>1. s = LinearSpline(T, start, end)
      BY <2>1 DEF SplineOf
    <3> QED
      BY <2>1, <3>1, LinearEnds
  <2>2. CASE conditions.method = "Square"
    <3>1. s = SquareSpline(T, start, end)
      BY <2>2 DEF SplineOf
    <3> QED
      BY <2>2, <3>1, SquareEnds
  <2>3. CASE conditions.method = "Cubic"
    <3>1. s = CubicSpline(T, start, end)
      BY <2>3 DEF SplineOf
    <3> QED
      BY <2>3, <3>1, CubicEnds
  <2>4. CASE conditions.method = "Quintic"
    <3>1. s = QuinticSpline(T, start, end)
      BY <2>4 DEF SplineOf
    <3> QED
      BY <2>4, <3>1, QuinticEnds
  <2> QED
    BY <2>1, <2>2, <2>3, <2>4 DEF Methods
<1> HIDE DEF s
<1>2. /\ start.p \in Int /\ start.v \in Int /\ start.a \in Int
      /\ end.p \in Int /\ end.v \in Int /\ end.a \in Int
  BY DEF Condition
<1>3. \A x \in Int : (x * Scale(T)) \div Scale(T) = x
  BY ScalePositive, ExactDivision
<1>4. \A t : /\ SplineAt(s, t, T).p = PositionPart(s, t, T) \div Scale(T)
             /\ SplineAt(s, t, T).v = VelocityPart(s, t, T) \div Scale(T)
             /\ SplineAt(s, t, T).a = AccelerationPart(s, t, T) \div Scale(T)
  BY DEF SplineAt
<1>5. /\ SplineAt(s, 0, T).p = start.p /\ SplineAt(s, T, T).p = end.p
      /\ conditions.method # "Linear" => SplineAt(s, 0, T).v = start.v
      /\ conditions.method \in {"Cubic", "Quintic"} => SplineAt(s, T, T).v = end.v
      /\ conditions.method = "Quintic" =>
           SplineAt(s, 0, T).a = start.a /\ SplineAt(s, T, T).a = end.a
  BY <1>1, <1>2, <1>3, <1>4, Zenon
  DEF Begins, Ends, BeginsMoving, EndsMoving, BeginsAccelerating, EndsAccelerating
<1> QED
  BY <1>5 DEF s

----------------------------------------------------------------------------
(* The ramp down                                                           *)

\* Between zero and y.
Within(x, y) == IF y >= 0 THEN x \in 0..y ELSE x \in y..0

\* A product grows with its factor.
LEMMA Monotone ==
  ASSUME NEW a \in Nat, NEW x \in Int, NEW y \in Int, x <= y
  PROVE  a * x <= a * y
  OBVIOUS

\* A division rounds down, but no further than to a whole number.
LEMMA DivisionWithin ==
  ASSUME NEW n \in Nat \ {0}, NEW x \in Int, NEW y \in Int,
         \/ y >= 0 /\ 0 <= x /\ x <= y * n
         \/ y < 0 /\ y * n <= x /\ x <= 0
  PROVE  Within(x \div n, y)
<1> DEFINE q == x \div n
<1>1. q \in Int /\ q * n <= x /\ x < (q + 1) * n
  OBVIOUS
<1> HIDE DEF q
<1>2. \A z \in Int : z * n <= x => z <= q
  <2> SUFFICES ASSUME NEW z \in Int, z * n <= x, z > q PROVE FALSE
    BY <1>1
  <2>1. n * (q + 1) <= n * z
    BY <1>1, Monotone
  <2>2. n * (q + 1) = (q + 1) * n /\ n * z = z * n
    BY <1>1
  <2> QED
    BY <1>1, <2>1, <2>2
<1>3. \A z \in Int : x <= z * n => q <= z
  <2> SUFFICES ASSUME NEW z \in Int, x <= z * n, q > z PROVE FALSE
    BY <1>1
  <2>1. n * (z + 1) <= n * q
    BY <1>1, Monotone
  <2>2. n * (z + 1) = z * n + n /\ n * q = q * n
    BY <1>1
  <2> QED
    BY <1>1, <2>1, <2>2
<1>4. 0 * n = 0
  OBVIOUS
<1>5. Within(q, y)
  BY <1>1, <1>2, <1>3, <1>4 DEF Within
<1> QED
  BY <1>5 DEF q

\* How far the ramp is from its end, for velocity and position: from 0 to 1, or 6.
Braking(K, t, T) == K * T * T + (2 - K) * (T - t) * (T - t)
BrakingWay(K, t, T) == 6 * T * T - (2 - K) * t * (3 * T - t)

\* Velocity and way of a ramp down, as multiples of the velocity at its start.
LEMMA RampDownParts ==
  ASSUME NEW T \in Durations, NEW start \in Condition, NEW factor \in Int, NEW t \in 0..T
  PROVE  LET s == RampDownSpline(T, start, factor)
             K == Saturate(factor, 0, 2)
         IN /\ VelocityPart(s, t, T) = start.v * (3 * T * T * T * Braking(K, t, T))
            /\ PositionPart(s, t, T) = start.p * Scale(T) + start.v * (t * T * T * T * BrakingWay(K, t, T))
            /\ AccelerationPart(s, T, T) = 0
<1> DEFINE K == Saturate(factor, 0, 2)
           p == start.p
           v == start.v
           a == 6 * p
           b == 6 * v * T
           c == 3 * (K - 2) * v * T
           d == (2 - K) * v * T
<1>1. K \in Int /\ T \in Int /\ t \in Int /\ p \in Int /\ v \in Int
  BY DEF Saturate, Condition, Durations
<1>2. RampDownSpline(T, start, factor) = Spline(a, b, c, d, 0, 0)
  BY DEF RampDownSpline
<1> HIDE DEF K, p, v
<1>3. 0 \in Int /\ a \in Int /\ b \in Int /\ c \in Int /\ d \in Int
  BY <1>1
<1>4. b * T * T * T * T + 2 * c * t * T * T * T + 3 * d * t * t * T * T
        = v * (3 * T * T * T * Braking(K, t, T))
  BY <1>1 DEF Braking
<1>5. a * T * T * T * T * T + b * t * T * T * T * T + c * t * t * T * T * T + d * t * t * t * T * T
        = p * Scale(T) + v * (t * T * T * T * BrakingWay(K, t, T))
  BY <1>1 DEF BrakingWay, Scale
<1>6. 2 * c * T * T * T + 6 * d * T * T * T = 0
  BY <1>1
<1> HIDE DEF a, b, c, d
<1>7. VelocityPart(Spline(a, b, c, d, 0, 0), t, T)
        = b * T * T * T * T + 2 * c * t * T * T * T + 3 * d * t * t * T * T
  BY <1>1, <1>3 DEF VelocityPart, Spline
<1>8. PositionPart(Spline(a, b, c, d, 0, 0), t, T)
        = a * T * T * T * T * T + b * t * T * T * T * T + c * t * t * T * T * T + d * t * t * t * T * T
  BY <1>1, <1>3 DEF PositionPart, Spline
<1>9. AccelerationPart(Spline(a, b, c, d, 0, 0), T, T) = 2 * c * T * T * T + 6 * d * T * T * T
  BY <1>1, <1>3 DEF AccelerationPart, Spline
<1> QED
  BY <1>2, <1>4, <1>5, <1>6, <1>7, <1>8, <1>9, Zenon DEF K, p, v

\* Their bounds.
LEMMA RampDownBounds ==
  ASSUME NEW T \in Durations, NEW K \in 0..2, NEW t \in 0..T
  PROVE  /\ Braking(K, t, T) \in Int /\ 0 <= Braking(K, t, T) /\ Braking(K, t, T) <= 2 * T * T
         /\ BrakingWay(K, t, T) \in Int /\ 0 <= BrakingWay(K, t, T) /\ BrakingWay(K, t, T) <= 6 * T * T
<1> DEFINE r == T - t
<1>1. T \in Nat /\ t \in Nat /\ r \in Nat /\ r <= T /\ t <= T
  BY DEF Durations
<1>2. 0 <= r * r /\ r * r <= T * T
  BY <1>1
<1>3. 0 <= t * (3 * T - t) /\ t * (3 * T - t) <= 2 * (T * T)
  <2>1. t * (3 * T - t) = 2 * (T * T) - r * (2 * T - t)
    BY <1>1
  <2>2. r * (2 * T - t) >= 0 /\ t * (3 * T - t) >= 0
    BY <1>1
  <2> QED
    BY <2>1, <2>2, <1>1
<1>4. \A x \in Int : 0 <= x /\ x <= T * T => 0 <= K * (T * T) + (2 - K) * x /\ K * (T * T) + (2 - K) * x <= 2 * (T * T)
  <2>1. CASE K = 0
    BY <2>1, <1>1
  <2>2. CASE K = 1
    BY <2>2, <1>1
  <2>3. CASE K = 2
    BY <2>3, <1>1
  <2> QED
    BY <2>1, <2>2, <2>3
<1>5. \A x \in Int : 0 <= x /\ x <= 2 * (T * T) => 0 <= 6 * (T * T) - (2 - K) * x /\ 6 * (T * T) - (2 - K) * x <= 6 * (T * T)
  <2>1. CASE K = 0
    BY <2>1, <1>1
  <2>2. CASE K = 1
    BY <2>2, <1>1
  <2>3. CASE K = 2
    BY <2>3, <1>1
  <2> QED
    BY <2>1, <2>2, <2>3
<1>6. Braking(K, t, T) = K * (T * T) + (2 - K) * (r * r) /\ r * r \in Int
  BY <1>1 DEF Braking
<1>7. BrakingWay(K, t, T) = 6 * (T * T) - (2 - K) * (t * (3 * T - t)) /\ t * (3 * T - t) \in Int
  BY <1>1 DEF BrakingWay
<1>8. 2 * T * T = 2 * (T * T) /\ 6 * T * T = 6 * (T * T)
  BY <1>1
<1> HIDE DEF r
<1>9. Braking(K, t, T) \in Int /\ 0 <= Braking(K, t, T) /\ Braking(K, t, T) <= 2 * T * T
  BY <1>1, <1>2, <1>4, <1>6, <1>8
<1>10. BrakingWay(K, t, T) \in Int /\ 0 <= BrakingWay(K, t, T) /\ BrakingWay(K, t, T) <= 6 * T * T
  BY <1>1, <1>3, <1>5, <1>7, <1>8
<1> QED
  BY <1>9, <1>10

\* A number between 0 and the scale, times v, is divided to between 0 and v.
LEMMA Multiple ==
  ASSUME NEW n \in Nat \ {0}, NEW v \in Int, NEW x \in Nat, x <= n
  PROVE  Within((v * x) \div n, v)
<1> DEFINE z == v * x
<1>1. z \in Int
  OBVIOUS
<1>2. \/ v >= 0 /\ 0 <= z /\ z <= v * n
      \/ v < 0 /\ v * n <= z /\ z <= 0
  <2>1. CASE v >= 0
    <3>1. v * 0 <= v * x /\ v * x <= v * n
      BY <2>1, Monotone
    <3> QED
      BY <2>1, <3>1
  <2>2. CASE v < 0
    <3>1. (-v) * 0 <= (-v) * x /\ (-v) * x <= (-v) * n
      BY <2>2, Monotone
    <3> QED
      BY <2>2, <3>1
  <2> QED
    BY <2>1, <2>2
<1> HIDE DEF z
<1>3. Within(z \div n, v)
  BY <1>1, <1>2, DivisionWithin
<1> QED
  BY <1>3 DEF z

\* A whole number goes through a division.
LEMMA Shift ==
  ASSUME NEW n \in Nat \ {0}, NEW p \in Int, NEW z \in Int
  PROVE  (p * n + z) \div n - p = z \div n
<1> DEFINE q == (p * n + z) \div n
           r == z \div n
           w == p * n + z
<1>1. w \in Int /\ p * n \in Int
  OBVIOUS
<1>2. q \in Int /\ q * n <= p * n + z /\ p * n + z < (q + 1) * n
  <2> HIDE DEF w
  <2>1. w \div n \in Int /\ (w \div n) * n <= w /\ w < ((w \div n) + 1) * n
    BY <1>1
  <2> QED
    BY <2>1 DEF w
<1>3. r \in Int /\ r * n <= z /\ z < (r + 1) * n
  OBVIOUS
<1> HIDE DEF q, r, w
<1>4. (q - p) * n = q * n - p * n /\ (q + 1 - p) * n = (q + 1) * n - p * n
  BY <1>2
<1>5. (q - p) * n <= z /\ z < (q + 1 - p) * n
  BY <1>1, <1>2, <1>4
<1>6. CASE q - p < r
  <2>1. n * (q + 1 - p) <= n * r
    BY <1>2, <1>3, <1>6, Monotone
  <2>2. n * (q + 1 - p) = (q + 1 - p) * n /\ n * r = r * n
    BY <1>2, <1>3
  <2> QED
    BY <1>1, <1>3, <1>5, <2>1, <2>2
<1>7. CASE r < q - p
  <2>1. n * (r + 1) <= n * (q - p)
    BY <1>2, <1>3, <1>7, Monotone
  <2>2. n * (r + 1) = (r + 1) * n /\ n * (q - p) = (q - p) * n
    BY <1>2, <1>3
  <2> QED
    BY <1>1, <1>3, <1>5, <2>1, <2>2
<1> QED
  BY <1>2, <1>3, <1>6, <1>7 DEF q, r

\* For every duration, velocity and factor: at no time of a ramp down is an axis
\* faster than at its start, or turned round, or further than the velocity it had
\* would have taken it; it ends without acceleration, and a stop at standstill.
THEOREM RampDownOnlyBrakes ==
  ASSUME NEW T \in Durations, NEW start \in Condition, NEW factor \in Int, NEW t \in 0..T
  PROVE  LET now == SplineAt(RampDownSpline(T, start, factor), t, T)
             last == SplineAt(RampDownSpline(T, start, factor), T, T)
         IN /\ Within(now.v, start.v)
            /\ Within(now.p - start.p, start.v * t)
            /\ factor = 0 => last.v = 0
            /\ last.a = 0
<1> DEFINE K == Saturate(factor, 0, 2)
           s == RampDownSpline(T, start, factor)
           x == 3 * T * T * T * Braking(K, t, T)
           y == T * T * T * BrakingWay(K, t, T)
<1>1. /\ K \in 0..2 /\ T \in Int /\ t \in Int /\ T >= 1 /\ t >= 0 /\ T \in 0..T
      /\ start.p \in Int /\ start.v \in Int
  BY DEF Saturate, Condition, Durations
<1>2. Scale(T) \in Nat \ {0}
  BY ScalePositive
<1>3. T * T * T \in Nat
  <2>1. T * T \in Nat
    BY <1>1
  <2>2. (T * T) * T \in Nat
    BY <1>1, <2>1
  <2> QED
    BY <2>2
<1>4. x \in Nat /\ x <= Scale(T)
  <2>1. Braking(K, t, T) \in Int /\ 0 <= Braking(K, t, T) /\ Braking(K, t, T) <= 2 * T * T
    BY <1>1, RampDownBounds
  <2> DEFINE m == 3 * (T * T * T)
             z == Braking(K, t, T)
  <2>2. m \in Nat /\ 2 * T * T \in Int
    BY <1>1, <1>3
  <2>3. x = m * z /\ Scale(T) = m * (2 * T * T) /\ 0 = m * 0
    BY <1>1, <2>1 DEF Scale
  <2> HIDE DEF m, x, z
  <2>4. m * 0 <= m * z /\ m * z <= m * (2 * T * T)
    BY <2>1, <2>2, Monotone DEF z
  <2>5. m * z \in Int
    BY <2>1, <2>2 DEF z
  <2> QED
    BY <1>2, <2>3, <2>4, <2>5
<1>5. y \in Nat /\ y <= Scale(T)
  <2>1. BrakingWay(K, t, T) \in Int /\ 0 <= BrakingWay(K, t, T) /\ BrakingWay(K, t, T) <= 6 * T * T
    BY <1>1, RampDownBounds
  <2> DEFINE m == T * T * T
             z == BrakingWay(K, t, T)
  <2>2. m \in Nat /\ 6 * T * T \in Int
    BY <1>1, <1>3
  <2>3. y = m * z /\ Scale(T) = m * (6 * T * T) /\ 0 = m * 0
    BY <1>1, <2>1 DEF Scale
  <2> HIDE DEF m, y, z
  <2>4. m * 0 <= m * z /\ m * z <= m * (6 * T * T)
    BY <2>1, <2>2, Monotone DEF z
  <2>5. m * z \in Int
    BY <2>1, <2>2 DEF z
  <2> QED
    BY <1>2, <2>3, <2>4, <2>5
<1>6. /\ VelocityPart(s, t, T) = start.v * x
      /\ PositionPart(s, t, T) = start.p * Scale(T) + start.v * (t * T * T * T * BrakingWay(K, t, T))
      /\ AccelerationPart(s, T, T) = 0
  BY RampDownParts
<1>7. VelocityPart(s, T, T) = start.v * (3 * T * T * T * Braking(K, T, T))
  BY <1>1, RampDownParts
<1>8. start.v * (t * T * T * T * BrakingWay(K, t, T)) = (start.v * t) * y
  BY <1>1, RampDownBounds
<1>9. factor = 0 => VelocityPart(s, T, T) = 0
  <2>1. factor = 0 => K = 0
    BY DEF Saturate
  <2>2. Braking(0, T, T) = 0
    BY <1>1 DEF Braking
  <2> QED
    BY <1>1, <1>7, <2>1, <2>2
<1>10. 0 \div Scale(T) = 0
  BY <1>2
<1>11. /\ SplineAt(s, t, T).v = VelocityPart(s, t, T) \div Scale(T)
       /\ SplineAt(s, t, T).p = PositionPart(s, t, T) \div Scale(T)
       /\ SplineAt(s, T, T).v = VelocityPart(s, T, T) \div Scale(T)
       /\ SplineAt(s, T, T).a = AccelerationPart(s, T, T) \div Scale(T)
  BY DEF SplineAt
<1> HIDE DEF x, y, s, K
<1>12. Within(SplineAt(s, t, T).v, start.v)
  <2>1. Within((start.v * x) \div Scale(T), start.v)
    BY <1>1, <1>2, <1>4, Multiple
  <2> QED
    BY <1>6, <1>11, <2>1
<1>13. Within(SplineAt(s, t, T).p - start.p, start.v * t)
  <2> DEFINE u == start.v * t
  <2>1. u \in Int
    BY <1>1
  <2> HIDE DEF u
  <2>2. u * y \in Int
    BY <1>5, <2>1
  <2>3. Within((u * y) \div Scale(T), u)
    BY <1>2, <1>5, <2>1, Multiple
  <2>4. (start.p * Scale(T) + u * y) \div Scale(T) - start.p = (u * y) \div Scale(T)
    BY <1>1, <1>2, <2>2, Shift
  <2>5. SplineAt(s, t, T).p = (start.p * Scale(T) + u * y) \div Scale(T)
    BY <1>6, <1>8, <1>11 DEF u
  <2>6. Within(SplineAt(s, t, T).p - start.p, u)
    BY <2>3, <2>4, <2>5, Zenon
  <2> QED
    BY <2>6 DEF u
<1>14. (factor = 0 => SplineAt(s, T, T).v = 0) /\ SplineAt(s, T, T).a = 0
  BY <1>6, <1>9, <1>10, <1>11
<1> QED
  BY <1>12, <1>13, <1>14 DEF s

\* It begins with the position and the velocity of its start.
LEMMA RampDownBegins ==
  ASSUME NEW T \in Durations, NEW start \in Condition, NEW factor \in Int
  PROVE  LET first == SplineAt(RampDownSpline(T, start, factor), 0, T)
         IN first.p = start.p /\ first.v = start.v
<1> DEFINE K == Saturate(factor, 0, 2)
           s == RampDownSpline(T, start, factor)
<1>1. /\ K \in Int /\ T \in Int /\ 0 \in 0 .. T /\ start.p \in Int /\ start.v \in Int
      /\ Scale(T) \in Nat \ {0}
  BY ScalePositive DEF Saturate, Condition, Durations
<1>2. /\ VelocityPart(s, 0, T) = start.v * (3 * T * T * T * Braking(K, 0, T))
      /\ PositionPart(s, 0, T) = start.p * Scale(T) + start.v * (0 * T * T * T * BrakingWay(K, 0, T))
  BY <1>1, RampDownParts
<1> HIDE DEF K, s
<1>3. 3 * T * T * T * Braking(K, 0, T) = Scale(T)
  <2>1. Braking(K, 0, T) = 2 * T * T
    BY <1>1 DEF Braking
  <2> QED
    BY <1>1, <2>1 DEF Scale
<1>4. BrakingWay(K, 0, T) \in Int
  BY <1>1 DEF BrakingWay
<1>5. start.v * (0 * T * T * T * BrakingWay(K, 0, T)) = 0
  BY <1>1, <1>4
<1>6. start.p * Scale(T) + 0 = start.p * Scale(T)
  BY <1>1
<1>7. \A x \in Int : (x * Scale(T)) \div Scale(T) = x
  BY <1>1, ExactDivision
<1>8. /\ SplineAt(s, 0, T).v = (start.v * Scale(T)) \div Scale(T)
      /\ SplineAt(s, 0, T).p = (start.p * Scale(T)) \div Scale(T)
  BY <1>2, <1>3, <1>5, <1>6, Zenon DEF SplineAt
<1> QED
  BY <1>1, <1>7, <1>8 DEF s

----------------------------------------------------------------------------
(* Remainders                                                              *)

\* The remainder, and the whole number of times it was left of.
LEMMA Remainder ==
  ASSUME NEW m \in Nat \ {0}, NEW x \in Int
  PROVE  /\ x \div m \in Int /\ x % m \in 0 .. m - 1
         /\ x = (x \div m) * m + (x % m)
<1>1. x \div m \in Int /\ x % m \in 0 .. m - 1
  OBVIOUS
<1>2. x = m * (x \div m) + (x % m)
  OBVIOUS
<1> QED
  BY <1>1, <1>2

\* Numbers of the same remainder.
LEMMA SameRemainder ==
  ASSUME NEW m \in Nat \ {0}, NEW x \in Int, NEW y \in Int, NEW k \in Int, x = y + k * m
  PROVE  x % m = y % m
<1> DEFINE q == x \div m  r == x % m
           p == y \div m  s == y % m
<1>1. q \in Int /\ r \in 0 .. m - 1 /\ x = q * m + r
  BY Remainder
<1>2. p \in Int /\ s \in 0 .. m - 1 /\ y = p * m + s
  BY Remainder
<1> HIDE DEF q, r, p, s
<1>3. (q - p - k) * m = s - r
  <2>1. (q - p - k) * m = q * m - p * m - k * m
    BY <1>1, <1>2
  <2>2. q * m \in Int /\ p * m \in Int /\ k * m \in Int
    BY <1>1, <1>2
  <2> QED
    BY <1>1, <1>2, <2>1, <2>2
<1> DEFINE j == q - p - k
<1>4. j \in Int /\ j * m = s - r
  BY <1>1, <1>2, <1>3
<1> HIDE DEF j
<1>5. j = 0
  <2>1. CASE j >= 1
    <3>1. j * m >= m
      BY <1>4, <2>1
    <3> QED
      BY <1>1, <1>2, <1>4, <3>1
  <2>2. CASE j <= -1
    <3>1. j * m <= -m
      BY <1>4, <2>2
    <3> QED
      BY <1>1, <1>2, <1>4, <3>1
  <2> QED
    BY <1>4, <2>1, <2>2
<1>6. 0 * m = 0
  OBVIOUS
<1>7. r = s
  BY <1>1, <1>2, <1>4, <1>5, <1>6
<1> QED
  BY <1>7 DEF r, s

\* The remainder by twice a number has the same remainder by the number.
LEMMA HalfRemainder ==
  ASSUME NEW m \in Nat \ {0}, NEW x \in Int
  PROVE  x % (2 * m) \in 0 .. 2 * m - 1 /\ (x % (2 * m)) % m = x % m
<1> DEFINE n == 2 * m
           q == x \div n
           r == x % n
<1>1. n \in Nat \ {0}
  OBVIOUS
<1>2. q \in Int /\ r \in 0 .. n - 1 /\ x = q * n + r
  BY <1>1, Remainder
<1> HIDE DEF q, r
<1>3. q * n = (2 * q) * m
  BY <1>2
<1>4. x = r + (2 * q) * m /\ 2 * q \in Int /\ r \in Int
  BY <1>1, <1>2, <1>3
<1>5. x % m = r % m
  BY <1>4, SameRemainder
<1> QED
  BY <1>2, <1>5 DEF r

\* The coefficients of a spline, a point with all its values, and what is kept of
\* an orientation and of a soft ramp.
Coefficients == [a : Int, b : Int, c : Int, d : Int, e : Int, f : Int]
References == [ robot : Condition, external : Condition, q : Quaternions, w : Int,
                reach : BOOLEAN, duration : Nat ]
Slerps == [q0 : Quaternions, path : Int, duration : Nat, linear : BOOLEAN]
Ramps == [start : References, end : References, w : Int, duration : Nat]
RampsIn == {"RampInPosition", "RampInVelocity"}
Operations == {"Normal", "RampDown"} \cup RampsIn
Interpolators ==
  [ duration : Nat, operation : Operations,
    splines : [0 .. (MAX_NUMBER_OF_SPLINES - 1) -> Coefficients],
    slerp : Slerps, ramp : Ramps ]

TypeInv ==
  /\ mode \in Modes /\ method \in Methods
  /\ phase \in {"idle", "normal", "rampDown", "static"}
  /\ active \in BOOLEAN /\ stopping \in BOOLEAN
  /\ goal \in References /\ ref \in References /\ initial \in References
  /\ interpolator \in Interpolators
  /\ isNormal \in BOOLEAN
  /\ passed \in Nat /\ defined \in BOOLEAN /\ degenerate \in BOOLEAN /\ count \in Nat

\* The operation of each phase, and the factor of a ramp down.
OperationsOf(p) ==
  CASE p = "normal" -> {"Normal"} [] p = "rampDown" -> {"RampDown"}
    [] p = "static" -> RampsIn [] OTHER -> {}
Factor(operation, stop) == IF operation = "RampDown" /\ ~stop THEN 1 ELSE 0
AtLeastOne(duration) == IF duration < 1 THEN 1 ELSE duration

\* The interpolation goes from start to end by an operation.
AxesFollow(I, conditions, start, end) ==
  /\ I.splines[LastOfRobot(mode)] = SplineOf(conditions, I.duration, start.robot, end.robot)
  /\ I.splines[RobotJoints] = SplineOf(conditions, I.duration, start.external, end.external)
Interpolates(I, operation, factor, start, end) ==
  /\ I \in Interpolators
  /\ I.duration = AtLeastOne(start.duration) /\ I.operation = operation
  /\ operation \in {"Normal", "RampDown"} =>
       AxesFollow(I, Conditions(start.duration, operation, factor), start, end)
  /\ operation = "Normal" /\ mode = "EGMPose" =>
       I.slerp = SlerpOf(start.q, end.q, start.duration)
  /\ operation = "RampDown" /\ mode = "EGMPose" =>
       I.ramp.w = start.w /\ I.ramp.duration = start.duration
  /\ operation \in RampsIn =>
       I.ramp.start = start /\ I.ramp.end = end /\ I.ramp.duration = start.duration

\* The interpolator and the controller are those of the goal that is followed; only
\* the velocities of a normal goal are transitioned.
FollowInv ==
  active =>
    /\ interpolator.operation \in OperationsOf(phase)
    /\ Interpolates(interpolator, interpolator.operation,
                    Factor(interpolator.operation, stopping), initial, goal)
    /\ initial.reach = goal.reach
    /\ isNormal => phase = "normal"
    /\ Follows("RampInPosition") =>
         /\ \A axis \in Axes : goal[axis].v = initial[axis].v
         /\ goal.w = initial.w

\* What a reference was made of: an evaluation of the interpolator at its time.
Starts(out) ==
  /\ out \in References /\ out.reach = initial.reach /\ out.duration = initial.duration
  /\ mode = "EGMJoint" => out.w = initial.w
Evaluated ==
  \E out \in References, t \in Nat \ {0} :
    /\ Starts(out)
    /\ passed = Saturate(t, 0, interpolator.duration + 1)
    /\ ref = Reference(isNormal, interpolator, out, initial, t)
ReferenceInv == active => Starts(ref) /\ Evaluated

\* An orientation that is not degenerate has time, and a way that is known.
OrientationInv ==
  degenerate \/ ( /\ defined
                  /\ active => ~Degenerate(initial.duration, initial.q, goal.q) )

IInv == TypeInv /\ FollowInv /\ ReferenceInv /\ OrientationInv

----------------------------------------------------------------------------
(* Types                                                                   *)

\* A value that may be missing is of its type once the old one is taken instead.
LEMMA Copied ==
  ASSUME NEW type, NEW value, IsOptional(value, type), NEW old \in type
  PROVE  CopyPresent(value, old) \in type
<1>1. CASE value = {}
  BY <1>1 DEF CopyPresent
<1>2. CASE value # {}
  <2>1. (CHOOSE x \in value : TRUE) \in value
    BY <1>2
  <2> QED
    BY <1>2, <2>1 DEF CopyPresent, IsOptional
<1> QED
  BY <1>1, <1>2

\* The splines that are evaluated are among those that are updated.
LEMMA SplineIndices ==
  ASSUME NEW m \in Modes
  PROVE  /\ LastOfRobot(m) \in 0 .. (MAX_NUMBER_OF_SPLINES - 1)
         /\ LastOfRobot(m) \in RobotSplines(m) /\ LastOfRobot(m) \notin ExternalSplines
         /\ RobotJoints \in 0 .. (MAX_NUMBER_OF_SPLINES - 1) /\ RobotJoints \in ExternalSplines
<1>1. /\ RobotJoints \in Int /\ ExternalJoints \in Int
      /\ RobotJoints >= 3 /\ ExternalJoints >= 1 /\ RobotJoints + ExternalJoints <= 12
  BY InterpolatorAssumption DEF MAX_NUMBER_OF_SPLINES
<1>2. RobotJoints \in 0 .. (MAX_NUMBER_OF_SPLINES - 1) /\ RobotJoints \in ExternalSplines
  BY <1>1 DEF ExternalSplines, MAX_NUMBER_OF_SPLINES
<1>3. CASE m = "EGMJoint"
  BY <1>1, <1>2, <1>3 DEF LastOfRobot, RobotSplines, ExternalSplines, MAX_NUMBER_OF_SPLINES
<1>4. CASE m = "EGMPose"
  BY <1>1, <1>2, <1>4 DEF LastOfRobot, RobotSplines, ExternalSplines, MAX_NUMBER_OF_SPLINES
<1> QED
  BY <1>3, <1>4 DEF Modes

\* Types: a spline of whole coefficients,
LEMMA SplineTyped ==
  ASSUME NEW a \in Int, NEW b \in Int, NEW c \in Int, NEW d \in Int, NEW e \in Int, NEW f \in Int
  PROVE  Spline(a, b, c, d, e, f) \in Coefficients
  BY DEF Spline, Coefficients

\* the spline of any method,
LEMMA SplineTypes ==
  ASSUME NEW T \in Nat, NEW start \in Condition, NEW end \in Condition, NEW conditions,
         \/ conditions.operation = "RampDown" /\ conditions.factor \in Int
         \/ conditions.operation # "RampDown" /\ conditions.method \in Methods
  PROVE  SplineOf(conditions, T, start, end) \in Coefficients
<1>0. /\ T \in Int /\ start.p \in Int /\ start.v \in Int /\ start.a \in Int
      /\ end.p \in Int /\ end.v \in Int /\ end.a \in Int /\ 0 \in Int
  BY DEF Condition
<1>1. CASE conditions.operation = "RampDown" /\ conditions.factor \in Int
  <2> DEFINE K == Saturate(conditions.factor, 0, 2)
             a == 6 * start.p
             b == 6 * start.v * T
             c == 3 * (K - 2) * start.v * T
             d == (2 - K) * start.v * T
  <2>1. SplineOf(conditions, T, start, end) = Spline(a, b, c, d, 0, 0)
    BY <1>1 DEF SplineOf, RampDownSpline
  <2>2. K \in Int
    BY <1>1 DEF Saturate
  <2> HIDE DEF K
  <2>3. a \in Int /\ b \in Int /\ c \in Int /\ d \in Int
    BY <1>0, <2>2
  <2> HIDE DEF a, b, c, d
  <2> QED
    BY <1>0, <2>1, <2>3, SplineTyped
<1>2. CASE conditions.operation # "RampDown" /\ conditions.method = "Linear"
  <2> DEFINE a == 6 * start.p
             b == 6 * (end.p - start.p)
  <2>1. SplineOf(conditions, T, start, end) = Spline(a, b, 0, 0, 0, 0)
    BY <1>2 DEF SplineOf, LinearSpline
  <2>2. a \in Int /\ b \in Int
    BY <1>0
  <2> HIDE DEF a, b
  <2> QED
    BY <2>1, <2>2, SplineTyped
<1>3. CASE conditions.operation # "RampDown" /\ conditions.method = "Square"
  <2> DEFINE a == 6 * start.p
             b == 6 * start.v * T
             c == 6 * (end.p - start.p - start.v * T)
  <2>1. SplineOf(conditions, T, start, end) = Spline(a, b, c, 0, 0, 0)
    BY <1>3 DEF SplineOf, SquareSpline
  <2>2. a \in Int /\ b \in Int /\ c \in Int /\ 0 \in Int
    BY <1>0
  <2> HIDE DEF a, b, c
  <2> QED
    BY <2>1, <2>2, SplineTyped
<1>4. CASE conditions.operation # "RampDown" /\ conditions.method = "Cubic"
  <2> DEFINE c1 == end.p - start.p - start.v * T
             c2 == (end.v - start.v) * T
             a == 6 * start.p
             b == 6 * start.v * T
             c == 18 * c1 - 6 * c2
             d == 6 * c1 - c
  <2>1. SplineOf(conditions, T, start, end) = Spline(a, b, c, d, 0, 0)
    BY <1>4 DEF SplineOf, CubicSpline
  <2>2. a \in Int /\ b \in Int /\ c \in Int /\ d \in Int
    BY <1>0
  <2> HIDE DEF a, b, c, d
  <2> QED
    BY <2>1, <2>2, SplineTyped
<1>5. CASE conditions.operation # "RampDown" /\ conditions.method = "Quintic"
  <2> DEFINE c1 == 2 * (end.p - start.p - start.v * T) - start.a * T * T
             c2 == (end.v - start.v - start.a * T) * T
             c3 == (end.a - start.a) * T * T
             a == 6 * start.p
             b == 6 * start.v * T
             c == 3 * start.a * T * T
             d == 30 * c1 - 24 * c2 + 3 * c3
             e == 15 * c1 - 6 * c2 - 2 * d
             f == 3 * c1 - d - e
  <2>1. SplineOf(conditions, T, start, end) = Spline(a, b, c, d, e, f)
    BY <1>5 DEF SplineOf, QuinticSpline
  <2>2. a \in Int /\ b \in Int /\ c \in Int
    BY <1>0
  <2>3. c1 \in Int /\ c2 \in Int /\ c3 \in Int
    BY <1>0
  <2> HIDE DEF a, b, c, c1, c2, c3
  <2>4. d \in Int /\ e \in Int /\ f \in Int
    BY <2>3
  <2> HIDE DEF d, e, f
  <2> QED
    BY <2>1, <2>2, <2>4, SplineTyped
<1> QED
  BY <1>1, <1>2, <1>3, <1>4, <1>5 DEF Methods

\* and its evaluation.
LEMMA SplineAtTypes ==
  ASSUME NEW s \in Coefficients, NEW T \in Durations, NEW t \in Int
  PROVE  SplineAt(s, t, T) \in Condition
<1>1. Scale(T) \in Nat \ {0} /\ T \in Int
  BY ScalePositive, Powers
<1>2. s.a \in Int /\ s.b \in Int /\ s.c \in Int /\ s.d \in Int /\ s.e \in Int /\ s.f \in Int
  BY DEF Coefficients
<1>3. PositionPart(s, t, T) \in Int
  BY <1>1, <1>2, SMTT(30) DEF PositionPart
<1>4. VelocityPart(s, t, T) \in Int
  BY <1>1, <1>2, SMTT(30) DEF VelocityPart
<1>5. AccelerationPart(s, t, T) \in Int
  BY <1>1, <1>2 DEF AccelerationPart
<1>6. \A x \in Int : x \div Scale(T) \in Int
  BY <1>1
<1> QED
  BY <1>3, <1>4, <1>5, <1>6 DEF SplineAt, Condition

----------------------------------------------------------------------------
(* Orientations                                                            *)

\* The remainder of what is less than one turn away.
LEMMA RemainderIs ==
  ASSUME NEW m \in Nat \ {0}, NEW x \in Int
  PROVE  /\ x \in 0 .. m - 1 => x % m = x
         /\ x \in -m .. -1 => x % m = x + m
<1>1. ASSUME NEW y \in 0 .. m - 1 PROVE y % m = y
  <2> DEFINE q == y \div m
             r == y % m
  <2>1. q \in Int /\ r \in 0 .. m - 1 /\ y = q * m + r
    BY Remainder
  <2> HIDE DEF q, r
  <2>2. CASE q >= 1
    <3>1. q * m >= m
      BY <2>1, <2>2
    <3> QED
      BY <1>1, <2>1, <3>1
  <2>3. CASE q <= -1
    <3>1. q * m <= -m
      BY <2>1, <2>3
    <3> QED
      BY <1>1, <2>1, <3>1
  <2>4. CASE q = 0
    <3>1. y = r
      BY <2>1, <2>4
    <3> QED
      BY <3>1 DEF r
  <2> QED
    BY <2>1, <2>2, <2>3, <2>4
<1>2. ASSUME x \in -m .. -1 PROVE x % m = x + m
  <2> DEFINE y == x + m
  <2>1. y \in 0 .. m - 1 /\ y \in Int /\ y = x + 1 * m /\ 1 \in Int
    BY <1>2
  <2> HIDE DEF y
  <2>2. y % m = y
    BY <1>1, <2>1
  <2>3. y % m = x % m
    BY <2>1, SameRemainder, Zenon
  <2> QED
    BY <2>2, <2>3 DEF y
<1> QED
  BY <1>1, <1>2

\* What is assumed of the units of an angle.
LEMMA TurnIs == Turn \in Nat \ {0} /\ 2 * Turn \in Nat \ {0} /\ CloseAngle \in Nat
  BY InterpolatorAssumption

\* A rotation is one, and goes by its angle from an orientation to another one.
LEMMA RotatedBy ==
  ASSUME NEW h \in Int, NEW x \in Int
  PROVE  /\ Rotated(h, x) \in Quaternions
         /\ Rotated(h, x) % Turn = (h + x) % Turn
         /\ (Rotated(h, x) - h) % Turn = x % Turn
<1> DEFINE y == h + x
           n == 2 * Turn
           q == y \div n
           r == y % n
<1>1. y \in Int /\ n \in Nat \ {0} /\ Turn \in Nat \ {0}
  BY TurnIs
<1>2. r \in 0 .. n - 1 /\ r % Turn = y % Turn
  BY <1>1, HalfRemainder
<1>3. q \in Int /\ y = q * n + r
  BY <1>1, Remainder
<1> HIDE DEF q, r
<1>4. r - h = x + (-2 * q) * Turn
  <2>1. q * n = 2 * (q * Turn) /\ (-2 * q) * Turn = -2 * (q * Turn) /\ q * Turn \in Int
    BY <1>1, <1>3
  <2> QED
    BY <1>1, <1>2, <1>3, <2>1
<1>5. (r - h) % Turn = x % Turn
  <2>1. r - h \in Int /\ -2 * q \in Int
    BY <1>1, <1>2, <1>3
  <2> QED
    BY <1>1, <1>4, <2>1, SameRemainder
<1>6. Rotated(h, x) = r
  BY DEF Rotated, r
<1> QED
  BY <1>2, <1>5, <1>6 DEF Quaternions

\* The angle between two quaternions leads from one to the other.
LEMMA AngleLeads ==
  ASSUME NEW from \in Quaternions, NEW to \in Quaternions
  PROVE  /\ Angle(from, to) \in Int /\ -Turn < Angle(from, to) /\ Angle(from, to) <= Turn
         /\ \E k \in Int : to - from = Angle(from, to) + k * Turn
<1> DEFINE x == to - from
           n == 2 * Turn
           q == x \div n
           r == x % n
<1>1. x \in Int /\ n \in Nat \ {0} /\ Turn \in Nat \ {0}
  BY TurnIs DEF Quaternions
<1>2. q \in Int /\ r \in 0 .. n - 1 /\ x = q * n + r
  BY <1>1, Remainder
<1>3. Angle(from, to) = IF r > Turn THEN r - n ELSE r
  BY DEF Angle
<1> HIDE DEF q, r, x
<1>4. q * n = (2 * q) * Turn /\ (2 * q + 2) * Turn = (2 * q) * Turn + n
  BY <1>1, <1>2
<1>5. x = r + (2 * q) * Turn /\ x = (r - n) + (2 * q + 2) * Turn
  <2>1. (2 * q) * Turn \in Int
    BY <1>1, <1>2
  <2> QED
    BY <1>1, <1>2, <1>4, <2>1
<1>6. 2 * q \in Int /\ 2 * q + 2 \in Int
  BY <1>2
<1>7. \E k \in Int : x = Angle(from, to) + k * Turn
  BY <1>3, <1>5, <1>6
<1>8. Angle(from, to) \in Int /\ -Turn < Angle(from, to) /\ Angle(from, to) <= Turn
  BY <1>1, <1>2, <1>3
<1> QED
  BY <1>7, <1>8 DEF x

\* So does the way Slerp takes, which is the shorter one unless the quaternions
\* are opposite.
LEMMA PathLeads ==
  ASSUME NEW from \in Quaternions, NEW to \in Quaternions
  PROVE  LET angle == Angle(from, to)
             path == SlerpPath(angle)
         IN /\ path \in Int
            /\ \E k \in Int : to - from = path + k * Turn
            /\ ~Opposite(angle) =>
                 /\ 2 * Magnitude(path) <= Turn
                 /\ UsesLinear(angle) => ~Opposite(path)
<1> DEFINE angle == Angle(from, to)
           path == SlerpPath(angle)
<1>1. angle \in Int /\ -Turn < angle /\ angle <= Turn
  BY AngleLeads
<1>2. PICK k \in Int : to - from = angle + k * Turn
  BY AngleLeads
<1> HIDE DEF angle
<1>3. path \in {angle, angle - Turn, angle + Turn}
  BY DEF SlerpPath
<1>4. \E j \in Int : to - from = path + j * Turn
  <2>1. (k + 1) * Turn = k * Turn + Turn /\ (k - 1) * Turn = k * Turn - Turn /\ k * Turn \in Int
    BY TurnIs
  <2>2. k + 1 \in Int /\ k - 1 \in Int
    OBVIOUS
  <2>3. CASE path = angle
    BY <1>2, <2>3
  <2>4. CASE path = angle - Turn
    <3>1. to - from = path + (k + 1) * Turn
      BY <1>1, <1>2, <2>1, <2>4, TurnIs
    <3> QED
      BY <2>2, <3>1
  <2>5. CASE path = angle + Turn
    <3>1. to - from = path + (k - 1) * Turn
      BY <1>1, <1>2, <2>1, <2>5, TurnIs
    <3> QED
      BY <2>2, <3>1
  <2> QED
    BY <1>3, <2>3, <2>4, <2>5
<1>5. ~Opposite(angle) => 2 * Magnitude(path) <= Turn /\ (UsesLinear(angle) => ~Opposite(path))
  BY <1>1, TurnIs DEF SlerpPath, UsesLinear, Opposite, Magnitude
<1>6. path \in Int
  BY <1>1, <1>3, TurnIs
<1> QED
  BY <1>4, <1>5, <1>6 DEF angle

\* The shorter way of an angle that is no more than half a turn is the angle.
LEMMA ShortIs ==
  ASSUME NEW x \in Int, 2 * Magnitude(x) <= Turn
  PROVE  Short(x) = Magnitude(x)
<1>1. Turn \in Nat \ {0}
  BY TurnIs
<1>2. CASE x >= 0
  <2>1. x \in 0 .. Turn - 1
    BY <1>1, <1>2 DEF Magnitude
  <2>2. x % Turn = x
    BY <1>1, <2>1, RemainderIs
  <2> QED
    BY <1>1, <1>2, <2>1, <2>2 DEF Short, Magnitude
<1>3. CASE x < 0
  <2>1. x \in -Turn .. -1
    BY <1>1, <1>3 DEF Magnitude
  <2>2. x % Turn = x + Turn
    BY <1>1, <2>1, RemainderIs
  <2> QED
    BY <1>1, <1>3, <2>1, <2>2 DEF Short, Magnitude
<1> QED
  BY <1>2, <1>3

\* Angles of the same orientation have the same shorter way.
LEMMA ShortSame ==
  ASSUME NEW x \in Int, NEW y \in Int, x % Turn = y % Turn
  PROVE  Short(x) = Short(y)
  BY DEF Short

\* Slerp's angles are whole.
LEMMA SlerpTypes ==
  ASSUME NEW s \in Slerps, NEW t \in Nat
  PROVE  SlerpAngle(s, t) \in Int /\ SlerpVelocity(s) \in Int
<1>1. s.path \in Int /\ s.duration \in Nat /\ s.linear \in BOOLEAN
  BY DEF Slerps
<1>2. ASSUME NEW n \in Nat \ {0}, NEW x \in Int PROVE x \div n \in Int
  BY <1>2
<1>3. t < s.duration => (s.path * t) \div s.duration \in Int
  BY <1>1, <1>2
<1>4. s.duration # 0 => (2 * s.path) \div s.duration \in Int
  BY <1>1, <1>2
<1>5. ChordAngle(s, t) \in Int
  BY <1>1, <1>2 DEF ChordAngle
<1> QED
  BY <1>1, <1>3, <1>4, <1>5 DEF SlerpAngle, SlerpVelocity

\* Slerp begins where it has to, ends in its goal, and stays between the two.
LEMMA SlerpGoes ==
  ASSUME NEW from \in Quaternions, NEW to \in Quaternions, NEW duration \in Nat, NEW t \in Nat
  PROVE  LET s == SlerpOf(from, to, duration)
         IN /\ s \in Slerps /\ s.q0 = from /\ s.path = SlerpPath(Angle(from, to))
            /\ t >= duration => SlerpAngle(s, t) = s.path
            /\ t = 0 /\ duration > 0 => SlerpAngle(s, t) = 0
            /\ ~Opposite(Angle(from, to)) => Within(SlerpAngle(s, t), s.path)
            /\ duration > 0 /\ ~Opposite(Angle(from, to)) => SlerpDefined(s, t)
<1> DEFINE s == SlerpOf(from, to, duration)
           angle == Angle(from, to)
<1>1. /\ SlerpPath(angle) \in Int
      /\ ~Opposite(angle) =>
           /\ 2 * Magnitude(SlerpPath(angle)) <= Turn
           /\ UsesLinear(angle) => ~Opposite(SlerpPath(angle))
  BY PathLeads
<1>2. /\ s.q0 = from /\ s.path = SlerpPath(angle) /\ s.duration = duration
      /\ s.linear = UsesLinear(angle)
  BY DEF SlerpOf
<1>3. s \in Slerps
  <2>1. UsesLinear(angle) \in BOOLEAN
    BY DEF UsesLinear
  <2> QED
    BY <1>1, <2>1 DEF SlerpOf, Slerps
<1>4. t >= duration => SlerpAngle(s, t) = s.path
  BY <1>2 DEF SlerpAngle
<1>5. t < duration => (s.path * t) \div duration \in Int /\ Within((s.path * t) \div duration, s.path)
  BY <1>1, <1>2, Multiple
<1> HIDE DEF s, angle
<1>6. t = 0 /\ duration > 0 => SlerpAngle(s, t) = 0
  BY <1>1, <1>2 DEF SlerpAngle, ChordAngle
<1>7. ASSUME ~Opposite(angle) PROVE Within(SlerpAngle(s, t), s.path)
  <2>1. s.linear => ~Opposite(s.path)
    BY <1>1, <1>2, <1>7
  <2>2. CASE t >= duration
    BY <1>1, <1>2, <1>4, <2>2 DEF Within
  <2>3. CASE t < duration
    <3>1. SlerpAngle(s, t) = (s.path * t) \div duration
      BY <1>2, <2>1, <2>3 DEF SlerpAngle
    <3> QED
      BY <1>5, <2>3, <3>1
  <2> QED
    BY <2>2, <2>3
<1>8. duration > 0 /\ ~Opposite(angle) => SlerpDefined(s, t)
  BY <1>1, <1>2, TurnIs DEF SlerpDefined, Magnitude
<1> QED
  BY <1>2, <1>3, <1>4, <1>6, <1>7, <1>8, Zenon DEF s, angle

----------------------------------------------------------------------------
(* Interpolator and controller                                             *)

\* How far the controller and the soft ramps are, in halves.
LEMMA RampUpIs ==
  ASSUME NEW t \in Nat, NEW T \in Nat
  PROVE  /\ RampUp(t, T) \in 0 .. 2
         /\ t = 0 /\ T > 0 => RampUp(t, T) = 0
         /\ t > 0 /\ t >= T => RampUp(t, T) = 2
  BY DEF RampUp

\* The controller's factors, at the start and at the end.
LEMMA FactorTypes ==
  ASSUME NEW reach \in BOOLEAN, NEW t \in Nat, NEW T \in Nat
  PROVE  LET k == Factors(reach, t, T)
         IN /\ k.a \in 0 .. 2 /\ k.b \in 0 .. 2
            /\ t = 0 /\ T > 0 => k.a = 2 /\ k.b = 0
            /\ t > 0 /\ t >= T => k.b = 2 /\ (reach => k.a = 0)
  BY RampUpIs DEF Factors

\* The controller keeps the types of what it corrects.
LEMMA CorrectedTypes ==
  ASSUME NEW reach \in BOOLEAN, NEW t \in Nat, NEW T \in Nat, NEW x \in Int, NEW v \in Int,
         NEW start \in Condition, NEW axis \in Condition
  PROVE  LET k == Factors(reach, t, T)
         IN /\ Transitioned(k, x, v) \in Int /\ CorrectedAxis(k, start, axis) \in Condition
<1> DEFINE k == Factors(reach, t, T)
<1>1. k.a \in Int /\ k.b \in Int
  BY FactorTypes
<1> HIDE DEF k
<1>2. \A y, z \in Int : Transitioned(k, y, z) \in Int
  <2> SUFFICES ASSUME NEW y \in Int, NEW z \in Int PROVE Transitioned(k, y, z) \in Int
    OBVIOUS
  <2>1. k.a * (2 * y + k.b * (z - y)) \in Int
    BY <1>1
  <2> QED
    BY <2>1 DEF Transitioned
<1>3. \A y \in Int : (k.a * y) \div 2 \in Int
  BY <1>1
<1>4. start.v \in Int /\ axis.p \in Int /\ axis.v \in Int /\ axis.a \in Int
  BY DEF Condition
<1>5. CorrectedVelocity(k, start.v, axis.v) \in Int
  BY <1>2, <1>3, <1>4 DEF CorrectedVelocity
<1>6. CorrectedAxis(k, start, axis) \in Condition
  <2>1. CorrectedAxis(k, start, axis)
          = [axis EXCEPT !.v = CorrectedVelocity(k, start.v, axis.v), !.a = (k.a * axis.a) \div 2]
    BY <1>4 DEF CorrectedAxis
  <2>2. (k.a * axis.a) \div 2 \in Int
    BY <1>3, <1>4
  <2> QED
    BY <1>5, <2>1, <2>2 DEF Condition
<1> QED
  BY <1>2, <1>6 DEF k

\* A ramp between two values, at both ends.
LEMMA BetweenIs ==
  ASSUME NEW from \in Int, NEW to \in Int, NEW halves \in 0 .. 2
  PROVE  /\ Between(from, to, halves) \in Int
         /\ halves = 0 => Between(from, to, halves) = from
         /\ halves = 2 => Between(from, to, halves) = to
         /\ Within(Between(from, 0, halves), from)
<1>1. CASE halves = 0
  BY <1>1 DEF Between, Within
<1>2. CASE halves = 1
  BY <1>2 DEF Between, Within
<1>3. CASE halves = 2
  BY <1>3 DEF Between, Within
<1> QED
  BY <1>1, <1>2, <1>3

\* An evaluation yields points.
LEMMA EvaluationTypes ==
  ASSUME mode \in Modes, NEW I \in Interpolators, I.duration > 0,
         NEW out \in References, NEW t \in Nat
  PROVE  /\ EvaluateAxes(I, mode, out, t).robot \in Condition
         /\ EvaluateAxes(I, mode, out, t).external \in Condition
         /\ EvaluateOrientation(I, mode, out, t).q \in Quaternions
         /\ EvaluateOrientation(I, mode, out, t).w \in Int
<1>1. /\ I.duration \in Durations /\ I.operation \in Operations /\ I.slerp \in Slerps
      /\ I.ramp \in Ramps
      /\ I.splines \in [0 .. (MAX_NUMBER_OF_SPLINES - 1) -> Coefficients]
  BY DEF Interpolators, Durations
<1>2. I.splines[LastOfRobot(mode)] \in Coefficients /\ I.splines[RobotJoints] \in Coefficients
  BY <1>1, SplineIndices
<1> DEFINE halves == RampUp(t, I.ramp.duration)
<1>3. /\ halves \in 0 .. 2 /\ I.ramp.w \in Int
      /\ I.ramp.start \in References /\ I.ramp.end \in References
  BY <1>1, RampUpIs DEF Ramps
<1> HIDE DEF halves
<1>4. ASSUME NEW axis \in Condition, NEW start \in Condition, NEW end \in Condition
      PROVE  RampInAxis(I.operation, axis, start, end, halves) \in Condition
  <2>1. /\ Between(start.v, end.v, halves) \in Int /\ Between(start.p, end.p, halves) \in Int
        /\ axis.p \in Int
    BY <1>3, <1>4, BetweenIs DEF Condition
  <2> QED
    BY <2>1 DEF RampInAxis, Condition
<1>5. /\ EvaluateAxes(I, mode, out, t).robot \in Condition
      /\ EvaluateAxes(I, mode, out, t).external \in Condition
  <2>1. CASE I.operation \in {"Normal", "RampDown"}
    <3>1. t \in Int
      OBVIOUS
    <3>2. /\ SplineAt(I.splines[LastOfRobot(mode)], t, I.duration) \in Condition
          /\ SplineAt(I.splines[RobotJoints], t, I.duration) \in Condition
      BY <1>1, <1>2, <3>1, SplineAtTypes
    <3> QED
      BY <2>1, <3>2 DEF EvaluateAxes
  <2>2. CASE I.operation \notin {"Normal", "RampDown"}
    <3>1. /\ out.robot \in Condition /\ out.external \in Condition
          /\ I.ramp.start.robot \in Condition /\ I.ramp.start.external \in Condition
          /\ I.ramp.end.robot \in Condition /\ I.ramp.end.external \in Condition
      BY <1>3 DEF References
    <3>2. /\ RampInAxis(I.operation, out.robot, I.ramp.start.robot, I.ramp.end.robot, halves) \in Condition
          /\ RampInAxis(I.operation, out.external, I.ramp.start.external, I.ramp.end.external, halves)
               \in Condition
      BY <1>4, <3>1
    <3> QED
      BY <2>2, <3>2 DEF EvaluateAxes, halves
  <2> QED
    BY <2>1, <2>2
<1>6. /\ EvaluateOrientation(I, mode, out, t).q \in Quaternions
      /\ EvaluateOrientation(I, mode, out, t).w \in Int
  <2>q. Quaternions \subseteq Int
    BY TurnIs DEF Quaternions
  <2>1. CASE mode = "EGMJoint"
    BY <2>1 DEF EvaluateOrientation, References
  <2>2. CASE mode # "EGMJoint" /\ I.operation = "Normal"
    <3>1. EvaluateOrientation(I, mode, out, t)
            = [q |-> Rotated(I.slerp.q0, SlerpAngle(I.slerp, t)), w |-> SlerpVelocity(I.slerp)]
      BY <2>2 DEF EvaluateOrientation
    <3>2. SlerpAngle(I.slerp, t) \in Int /\ SlerpVelocity(I.slerp) \in Int /\ I.slerp.q0 \in Int
      BY <1>1, <2>q, SlerpTypes DEF Slerps
    <3>3. Rotated(I.slerp.q0, SlerpAngle(I.slerp, t)) \in Quaternions
      BY <3>2, RotatedBy
    <3> QED
      BY <3>1, <3>2, <3>3
  <2>3. CASE mode # "EGMJoint" /\ I.operation = "RampDown"
    <3> DEFINE w == Between(I.ramp.w, 0, halves)
    <3>1. EvaluateOrientation(I, mode, out, t) = [q |-> Rotated(out.q, w \div 2), w |-> w]
      <4>1. EvaluateOrientation(I, mode, out, t) = RampDownOrientation(out, I.ramp.w, halves)
        BY <2>3 DEF EvaluateOrientation, halves
      <4> QED
        BY <4>1, Zenon DEF RampDownOrientation
    <3>2. w \in Int /\ out.q \in Int
      <4>1. 0 \in Int /\ out.q \in Quaternions
        BY DEF References
      <4> QED
        BY <1>3, <2>q, <4>1, BetweenIs
    <3>3. w \div 2 \in Int
      BY <3>2
    <3> HIDE DEF w
    <3>4. Rotated(out.q, w \div 2) \in Quaternions
      BY <3>2, <3>3, RotatedBy
    <3> QED
      BY <3>1, <3>2, <3>4
  <2>4. CASE mode # "EGMJoint" /\ I.operation \notin {"Normal", "RampDown"}
    <3> DEFINE start == I.ramp.start
               end == I.ramp.end
               w == Between(start.w, end.w, halves)
               h == IF I.operation = "RampInPosition"
                    THEN Rotated(start.q, (halves * Angle(start.q, end.q)) \div 2)
                    ELSE out.q
    <3>1. EvaluateOrientation(I, mode, out, t) = [q |-> Rotated(h, w \div 2), w |-> w]
      BY <2>4 DEF EvaluateOrientation, RampInOrientation, halves
    <3>2. /\ start.w \in Int /\ end.w \in Int /\ start.q \in Quaternions /\ end.q \in Quaternions
          /\ start.q \in Int /\ out.q \in Int
      BY <1>3, <2>q DEF References
    <3>3. w \in Int
      BY <1>3, <3>2, BetweenIs
    <3>4. w \div 2 \in Int
      BY <3>3
    <3>5. Angle(start.q, end.q) \in Int
      BY <3>2, AngleLeads
    <3>6. (halves * Angle(start.q, end.q)) \div 2 \in Int
      BY <1>3, <3>5
    <3>7. h \in Int
      BY <2>q, <3>2, <3>6, RotatedBy
    <3> HIDE DEF w, h
    <3> QED
      BY <3>1, <3>3, <3>4, <3>7, RotatedBy
  <2> QED
    BY <2>1, <2>2, <2>3, <2>4
<1> QED
  BY <1>5, <1>6

\* The fields of a reference: those of the evaluation, corrected.
LEMMA ReferenceIs ==
  ASSUME mode \in Modes, NEW normal \in BOOLEAN, NEW I \in Interpolators, I.duration > 0,
         NEW out \in References, NEW start \in References, NEW t \in Nat
  PROVE  LET r == Reference(normal, I, out, start, t)
             time == Saturate(t, 0, I.duration)
             axes == EvaluateAxes(I, mode, out, time)
             orientation == EvaluateOrientation(I, mode, out, time)
             k == Factors(out.reach, t, out.duration)
             transition == normal /\ (out.reach \/ method = "Linear")
         IN /\ r \in References /\ r.reach = out.reach /\ r.duration = out.duration
            /\ r.robot = IF transition THEN CorrectedAxis(k, start.robot, axes.robot) ELSE axes.robot
            /\ r.external = IF transition THEN CorrectedAxis(k, start.external, axes.external)
                            ELSE axes.external
            /\ r.q = orientation.q
            /\ r.w = IF normal /\ mode = "EGMPose" THEN Transitioned(k, start.w, orientation.w)
                     ELSE orientation.w
<1> DEFINE time == Saturate(t, 0, I.duration)
           axes == EvaluateAxes(I, mode, out, time)
           orientation == EvaluateOrientation(I, mode, out, time)
           e == [ out EXCEPT !.robot = axes.robot, !.external = axes.external,
                             !.q = orientation.q, !.w = orientation.w ]
<1>1. Reference(normal, I, out, start, t) = Corrected(normal, e, start, t)
  BY DEF Reference
<1>2. time \in Nat
  BY DEF Saturate, Interpolators
<1> HIDE DEF time
<1>3. /\ axes.robot \in Condition /\ axes.external \in Condition
      /\ orientation.q \in Quaternions /\ orientation.w \in Int
  BY <1>2, EvaluationTypes
<1> HIDE DEF axes, orientation
<1>4. /\ e \in References
      /\ e.robot = axes.robot /\ e.external = axes.external /\ e.q = orientation.q
      /\ e.w = orientation.w /\ e.reach = out.reach /\ e.duration = out.duration
  BY <1>3 DEF References
<1> HIDE DEF e
<1> DEFINE k == Factors(e.reach, t, e.duration)
           transition == normal /\ (e.reach \/ method = "Linear")
           c == Corrected(normal, e, start, t)
           robot == IF transition THEN CorrectedAxis(k, start.robot, e.robot) ELSE e.robot
           external == IF transition THEN CorrectedAxis(k, start.external, e.external) ELSE e.external
           w == IF normal /\ mode = "EGMPose" THEN Transitioned(k, start.w, e.w) ELSE e.w
<1>5. robot \in Condition /\ external \in Condition /\ w \in Int
  <2>1. /\ e.reach \in BOOLEAN /\ e.duration \in Nat
        /\ start.w \in Int /\ start.robot \in Condition /\ start.external \in Condition
    BY <1>4 DEF References
  <2>2. e.robot \in Condition /\ e.external \in Condition /\ e.w \in Int /\ 0 \in Int
    BY <1>3, <1>4
  <2>3. CorrectedAxis(k, start.robot, e.robot) \in Condition
    BY <2>1, <2>2, CorrectedTypes, Zenon
  <2>4. CorrectedAxis(k, start.external, e.external) \in Condition
    BY <2>1, <2>2, CorrectedTypes, Zenon
  <2>5. Transitioned(k, start.w, e.w) \in Int
    BY <2>1, <2>2, CorrectedTypes, Zenon
  <2> HIDE DEF k, transition
  <2> QED
    BY <2>2, <2>3, <2>4, <2>5
<1>6. c = [e EXCEPT !.robot = robot, !.external = external, !.w = w]
  BY <1>4 DEF Corrected, References
<1> HIDE DEF robot, external, w, c
<1>7. /\ c \in References /\ c.robot = robot /\ c.external = external /\ c.w = w
      /\ c.q = e.q /\ c.reach = e.reach /\ c.duration = e.duration
  BY <1>4, <1>5, <1>6 DEF References
<1> QED
  BY <1>1, <1>4, <1>7, Zenon DEF c, robot, external, w, k, transition, axes, orientation, time

\* The splines that are evaluated are those of the new goal.
LEMMA SplinesUpdated ==
  ASSUME mode \in Modes, NEW splines \in [0 .. (MAX_NUMBER_OF_SPLINES - 1) -> Coefficients],
         NEW conditions, NEW T \in Nat, NEW start \in References, NEW end \in References,
         \/ conditions.operation = "RampDown" /\ conditions.factor \in Int
         \/ conditions.operation # "RampDown" /\ conditions.method \in Methods
  PROVE  LET updated == UpdatedSplines(splines, mode, conditions, T, start, end)
         IN /\ updated \in [0 .. (MAX_NUMBER_OF_SPLINES - 1) -> Coefficients]
            /\ updated[LastOfRobot(mode)] = SplineOf(conditions, T, start.robot, end.robot)
            /\ updated[RobotJoints] = SplineOf(conditions, T, start.external, end.external)
<1>1. /\ start.robot \in Condition /\ start.external \in Condition
      /\ end.robot \in Condition /\ end.external \in Condition
  BY DEF References
<1>2. /\ SplineOf(conditions, T, start.robot, end.robot) \in Coefficients
      /\ SplineOf(conditions, T, start.external, end.external) \in Coefficients
  BY <1>1, SplineTypes
<1> QED
  BY <1>2, SplineIndices DEF UpdatedSplines

\* An update makes the interpolator that of the new goal.
LEMMA Updated ==
  ASSUME mode \in Modes, method \in Methods, NEW I \in Interpolators,
         NEW operation \in Operations, NEW factor \in Int,
         NEW start \in References, NEW end \in References
  PROVE  Interpolates(Update(I, mode, Conditions(start.duration, operation, factor), start, end),
                      operation, factor, start, end)
<1> DEFINE c == Conditions(start.duration, operation, factor)
           T == AtLeastOne(start.duration)
           J == Update(I, mode, c, start, end)
<1>1. /\ c.duration = start.duration /\ c.operation = operation /\ c.method = method
      /\ c.factor = factor
  BY DEF Conditions
<1>2. T \in Nat /\ T = IF c.duration < 1 THEN 1 ELSE c.duration
  BY <1>1 DEF AtLeastOne, References
<1>3. /\ start.q \in Quaternions /\ end.q \in Quaternions /\ start.duration \in Nat /\ start.w \in Int
  BY DEF References
<1>4. /\ I.splines \in [0 .. (MAX_NUMBER_OF_SPLINES - 1) -> Coefficients]
      /\ I.slerp \in Slerps /\ I.ramp \in Ramps
  BY DEF Interpolators
<1> HIDE DEF c, T
<1>5. CASE operation \in {"Normal", "RampDown"}
  <2> DEFINE splines == UpdatedSplines(I.splines, mode, c, T, start, end)
             slerp == IF mode = "EGMPose" /\ operation = "Normal"
                      THEN SlerpOf(start.q, end.q, start.duration) ELSE I.slerp
             ramp == IF mode = "EGMPose" /\ operation = "RampDown"
                     THEN [I.ramp EXCEPT !.w = start.w, !.duration = start.duration] ELSE I.ramp
  <2>1. /\ splines \in [0 .. (MAX_NUMBER_OF_SPLINES - 1) -> Coefficients]
        /\ splines[LastOfRobot(mode)] = SplineOf(c, T, start.robot, end.robot)
        /\ splines[RobotJoints] = SplineOf(c, T, start.external, end.external)
    <3>1. \/ c.operation = "RampDown" /\ c.factor \in Int
          \/ c.operation # "RampDown" /\ c.method \in Methods
      BY <1>1
    <3> QED
      BY <1>2, <1>4, <3>1, SplinesUpdated, SMTT(30)
  <2>2. slerp \in Slerps
    <3>1. SlerpOf(start.q, end.q, start.duration) \in Slerps
      BY <1>3, SlerpGoes
    <3> QED
      BY <1>4, <3>1
  <2>3. /\ ramp \in Ramps
        /\ mode = "EGMPose" /\ operation = "RampDown" =>
             ramp.w = start.w /\ ramp.duration = start.duration
    BY <1>3, <1>4 DEF Ramps
  <2>4. J = [ [I EXCEPT !.duration = T, !.operation = operation] EXCEPT
                !.splines = splines, !.slerp = slerp, !.ramp = ramp ]
    BY <1>1, <1>2, <1>4, <1>5 DEF Update, Interpolators
  <2>5. mode = "EGMPose" /\ operation = "Normal" => slerp = SlerpOf(start.q, end.q, start.duration)
    OBVIOUS
  <2> HIDE DEF splines, slerp, ramp, J
  <2>6. /\ J \in Interpolators /\ J.duration = T /\ J.operation = operation
        /\ J.splines = splines /\ J.slerp = slerp /\ J.ramp = ramp
    BY <1>2, <2>1, <2>2, <2>3, <2>4 DEF Interpolators
  <2>7. AxesFollow(J, c, start, end)
    BY <2>1, <2>6 DEF AxesFollow
  <2> QED
    BY <1>5, <2>3, <2>5, <2>6, <2>7, Zenon DEF Interpolates, c, T, J, RampsIn
<1>6. CASE operation \in RampsIn
  <2> DEFINE ramp == [I.ramp EXCEPT !.start = start, !.end = end, !.duration = start.duration]
  <2>1. ramp \in Ramps /\ ramp.start = start /\ ramp.end = end /\ ramp.duration = start.duration
    BY <1>3, <1>4 DEF Ramps
  <2>2. J = [[I EXCEPT !.duration = T, !.operation = operation] EXCEPT !.ramp = ramp]
    BY <1>1, <1>2, <1>4, <1>6 DEF Update, Interpolators, RampsIn
  <2> HIDE DEF ramp, J
  <2>3. /\ J \in Interpolators /\ J.duration = T /\ J.operation = operation /\ J.ramp = ramp
    BY <1>2, <2>1, <2>2 DEF Interpolators
  <2>4. operation # "Normal" /\ operation # "RampDown"
    BY <1>6 DEF RampsIn
  <2> QED
    BY <2>1, <2>3, <2>4 DEF Interpolates, c, T, J
<1> QED
  BY <1>5, <1>6 DEF Operations

\* What SplineMeetsConditions and RampDownOnlyBrakes say of both axes.
LEMMA NormalAxes ==
  ASSUME mode \in Modes, method \in Methods, NEW start \in References, NEW end \in References,
         NEW I, Interpolates(I, "Normal", 0, start, end), NEW out
  PROVE  LET first == EvaluateAxes(I, mode, out, 0)
             last == EvaluateAxes(I, mode, out, I.duration)
         IN \A axis \in Axes :
              /\ first[axis].p = start[axis].p /\ last[axis].p = end[axis].p
              /\ method # "Linear" => first[axis].v = start[axis].v
              /\ method \in {"Cubic", "Quintic"} => last[axis].v = end[axis].v
              /\ method = "Quintic" =>
                   first[axis].a = start[axis].a /\ last[axis].a = end[axis].a
<1> DEFINE c == Conditions(start.duration, "Normal", 0)
           T == I.duration
<1>1. /\ start.robot \in Condition /\ start.external \in Condition
      /\ end.robot \in Condition /\ end.external \in Condition /\ start.duration \in Nat
  BY DEF References
<1>2. T \in Durations /\ I.operation = "Normal" /\ AxesFollow(I, c, start, end)
  BY <1>1 DEF Interpolates, AtLeastOne, Durations
<1>3. c.operation # "RampDown" /\ c.method = method
  BY DEF Conditions
<1> HIDE DEF c
<1>4. ASSUME NEW a \in Condition, NEW b \in Condition
      PROVE  LET first == SplineAt(SplineOf(c, T, a, b), 0, T)
                 last == SplineAt(SplineOf(c, T, a, b), T, T)
             IN /\ first.p = a.p /\ last.p = b.p
                /\ method # "Linear" => first.v = a.v
                /\ method \in {"Cubic", "Quintic"} => last.v = b.v
                /\ method = "Quintic" => first.a = a.a /\ last.a = b.a
  BY <1>2, <1>3, <1>4, SplineMeetsConditions
<1>5. \A t : /\ EvaluateAxes(I, mode, out, t).robot
                  = SplineAt(SplineOf(c, T, start.robot, end.robot), t, T)
             /\ EvaluateAxes(I, mode, out, t).external
                  = SplineAt(SplineOf(c, T, start.external, end.external), t, T)
  BY <1>2 DEF EvaluateAxes, AxesFollow
<1> HIDE DEF T
<1> QED
  BY <1>1, <1>4, <1>5 DEF Axes, T

\* A ramp down begins where it was, only brakes, and a stop ends at rest.
LEMMA RampDownAxes ==
  ASSUME mode \in Modes, NEW start \in References, NEW end \in References, NEW factor \in Int,
         NEW I, Interpolates(I, "RampDown", factor, start, end), NEW out, NEW t \in 0 .. I.duration
  PROVE  LET first == EvaluateAxes(I, mode, out, 0)
             now == EvaluateAxes(I, mode, out, t)
             last == EvaluateAxes(I, mode, out, I.duration)
         IN \A axis \in Axes :
              /\ first[axis].p = start[axis].p /\ first[axis].v = start[axis].v
              /\ Within(now[axis].v, start[axis].v)
              /\ Within(now[axis].p - start[axis].p, start[axis].v * t)
              /\ factor = 0 => last[axis].v = 0
              /\ last[axis].a = 0
<1> DEFINE c == Conditions(start.duration, "RampDown", factor)
           T == I.duration
<1>1. /\ start.robot \in Condition /\ start.external \in Condition /\ start.duration \in Nat
  BY DEF References
<1>2. T \in Durations /\ I.operation = "RampDown" /\ AxesFollow(I, c, start, end)
  BY <1>1 DEF Interpolates, AtLeastOne, Durations
<1>3. \A a, b : SplineOf(c, T, a, b) = RampDownSpline(T, a, factor)
  BY DEF SplineOf, Conditions
<1> HIDE DEF c
<1>4. ASSUME NEW a \in Condition
      PROVE  LET s == RampDownSpline(T, a, factor)
             IN /\ SplineAt(s, 0, T).p = a.p /\ SplineAt(s, 0, T).v = a.v
                /\ Within(SplineAt(s, t, T).v, a.v)
                /\ Within(SplineAt(s, t, T).p - a.p, a.v * t)
                /\ factor = 0 => SplineAt(s, T, T).v = 0
                /\ SplineAt(s, T, T).a = 0
  BY <1>2, <1>4, RampDownOnlyBrakes, RampDownBegins
<1>5. \A u : /\ EvaluateAxes(I, mode, out, u).robot
                  = SplineAt(RampDownSpline(T, start.robot, factor), u, T)
             /\ EvaluateAxes(I, mode, out, u).external
                  = SplineAt(RampDownSpline(T, start.external, factor), u, T)
  BY <1>2, <1>3 DEF EvaluateAxes, AxesFollow
<1> QED
  BY <1>1, <1>4, <1>5 DEF Axes

\* A value times a factor in halves.
Times(k, x) == (k.a * x) \div 2

\* The controller lets a transition begin with the value of its start, and end at
\* rest in a goal that has to be reached.
LEMMA TransitionedIs ==
  ASSUME NEW reach \in BOOLEAN, NEW t \in Nat, NEW T \in Nat, NEW x \in Int, NEW y \in Int
  PROVE  LET k == Factors(reach, t, T)
         IN /\ t = 0 /\ T > 0 => Transitioned(k, x, y) = x
            /\ t > 0 /\ t >= T /\ reach => Transitioned(k, x, y) = 0
<1> DEFINE k == Factors(reach, t, T)
<1>1. /\ k.a \in 0 .. 2 /\ k.b \in 0 .. 2
      /\ t = 0 /\ T > 0 => k.a = 2 /\ k.b = 0
      /\ t > 0 /\ t >= T /\ reach => k.a = 0
  BY FactorTypes
<1> HIDE DEF k
<1>2. ASSUME k.a = 2, k.b = 0 PROVE Transitioned(k, x, y) = x
  <2>1. k.a * (2 * x + k.b * (y - x)) = 4 * x
    BY <1>2
  <2> QED
    BY <2>1 DEF Transitioned
<1>3. ASSUME k.a = 0 PROVE Transitioned(k, x, y) = 0
  <2>1. k.a * (2 * x + k.b * (y - x)) = 0
    BY <1>1, <1>3
  <2> QED
    BY <2>1 DEF Transitioned
<1> QED
  BY <1>1, <1>2, <1>3 DEF k

\* So it is with a factor alone,
LEMMA TimesIs ==
  ASSUME NEW reach \in BOOLEAN, NEW t \in Nat, NEW T \in Nat, NEW x \in Int
  PROVE  LET k == Factors(reach, t, T)
         IN /\ t = 0 /\ T > 0 => Times(k, x) = x
            /\ t > 0 /\ t >= T /\ reach => Times(k, x) = 0
<1> DEFINE k == Factors(reach, t, T)
<1>1. /\ t = 0 /\ T > 0 => k.a = 2
      /\ t > 0 /\ t >= T /\ reach => k.a = 0
  BY FactorTypes
<1> HIDE DEF k
<1>2. (k.a = 2 => Times(k, x) = x) /\ (k.a = 0 => Times(k, x) = 0)
  BY DEF Times
<1> QED
  BY <1>1, <1>2 DEF k

\* and with an axis as a whole.
LEMMA CorrectedIs ==
  ASSUME NEW reach \in BOOLEAN, NEW t \in Nat, NEW T \in Nat,
         NEW start \in Condition, NEW axis \in Condition
  PROVE  LET c == CorrectedAxis(Factors(reach, t, T), start, axis)
         IN /\ c.p = axis.p
            /\ t = 0 /\ T > 0 =>
                 c.v = (IF method = "Linear" THEN start.v ELSE axis.v) /\ c.a = axis.a
            /\ t > 0 /\ t >= T /\ reach => c.v = 0 /\ c.a = 0
<1> DEFINE k == Factors(reach, t, T)
           c == CorrectedAxis(k, start, axis)
<1>1. start.v \in Int /\ axis.p \in Int /\ axis.v \in Int /\ axis.a \in Int
  BY DEF Condition
<1>2. /\ c.p = axis.p /\ c.a = Times(k, axis.a)
      /\ c.v = IF method = "Linear" THEN Transitioned(k, start.v, axis.v) ELSE Times(k, axis.v)
  BY DEF CorrectedAxis, CorrectedVelocity, Condition, Times
<1> HIDE DEF c
<1>3. /\ t = 0 /\ T > 0 => Transitioned(k, start.v, axis.v) = start.v
      /\ t > 0 /\ t >= T /\ reach => Transitioned(k, start.v, axis.v) = 0
  <2>1. ASSUME NEW x \in Int, NEW y \in Int
        PROVE  /\ t = 0 /\ T > 0 => Transitioned(k, x, y) = x
               /\ t > 0 /\ t >= T /\ reach => Transitioned(k, x, y) = 0
    BY <2>1, TransitionedIs, Zenon
  <2> HIDE DEF k
  <2> QED
    BY <1>1, <2>1, Zenon
<1>4. ASSUME NEW x \in Int
      PROVE  /\ t = 0 /\ T > 0 => Times(k, x) = x
             /\ t > 0 /\ t >= T /\ reach => Times(k, x) = 0
  BY <1>4, TimesIs, Zenon
<1>5. /\ t = 0 /\ T > 0 => Times(k, axis.v) = axis.v /\ Times(k, axis.a) = axis.a
      /\ t > 0 /\ t >= T /\ reach => Times(k, axis.v) = 0 /\ Times(k, axis.a) = 0
  BY <1>1, <1>4, Zenon
<1> HIDE DEF k
<1> QED
  BY <1>2, <1>3, <1>5 DEF c, k

\* The orientation of a normal goal.
LEMMA NormalOrientation ==
  ASSUME mode = "EGMPose", NEW start \in References, NEW end \in References,
         NEW I, Interpolates(I, "Normal", 0, start, end), NEW out, NEW t \in 0 .. I.duration
  PROVE  LET now == EvaluateOrientation(I, mode, out, t)
         IN /\ t = I.duration => SameOrientation(now.q, end.q)
            /\ t = 0 /\ start.duration > 0 => SameOrientation(now.q, start.q)
            /\ ~Degenerate(start.duration, start.q, end.q) =>
                 /\ Short(now.q - start.q) <= Short(end.q - start.q)
                 /\ SlerpDefined(I.slerp, t)
<1> DEFINE s == I.slerp
           x == SlerpAngle(s, t)
           now == EvaluateOrientation(I, mode, out, t)
           angle == Angle(start.q, end.q)
           path == SlerpPath(angle)
<1>1. /\ start.q \in Quaternions /\ end.q \in Quaternions /\ start.duration \in Nat
      /\ start.q \in Int /\ end.q \in Int
  BY TurnIs DEF References, Quaternions
<1>2. /\ I.operation = "Normal" /\ I.duration = AtLeastOne(start.duration)
      /\ s = SlerpOf(start.q, end.q, start.duration)
  BY DEF Interpolates
<1>3. t \in Nat /\ (t = I.duration => t >= start.duration)
  BY <1>1, <1>2 DEF AtLeastOne
<1>4. /\ s \in Slerps /\ s.q0 = start.q /\ s.path = path
      /\ t >= start.duration => x = path
      /\ t = 0 /\ start.duration > 0 => x = 0
      /\ ~Opposite(angle) => Within(x, path)
      /\ start.duration > 0 /\ ~Opposite(angle) => SlerpDefined(s, t)
  <2> DEFINE S == SlerpOf(start.q, end.q, start.duration)
  <2>1. t \in Nat
    BY <1>3
  <2>2. /\ S \in Slerps /\ S.q0 = start.q /\ S.path = path
        /\ t >= start.duration => SlerpAngle(S, t) = S.path
        /\ t = 0 /\ start.duration > 0 => SlerpAngle(S, t) = 0
        /\ ~Opposite(angle) => Within(SlerpAngle(S, t), S.path)
        /\ start.duration > 0 /\ ~Opposite(angle) => SlerpDefined(S, t)
    BY <1>1, <2>1, SlerpGoes
  <2>3. s = S
    BY <1>2
  <2> HIDE DEF s, S, path, angle
  <2> QED
    BY <2>2, <2>3
<1>5. x \in Int
  BY <1>3, <1>4, SlerpTypes
<1>6. now.q = Rotated(start.q, x)
  BY <1>2, <1>4 DEF EvaluateOrientation
<1>7. path \in Int /\ (~Opposite(angle) => 2 * Magnitude(path) <= Turn)
  BY <1>1, PathLeads
<1>8. PICK j \in Int : end.q - start.q = path + j * Turn
  BY <1>1, PathLeads
<1> HIDE DEF s, x, now, angle, path
<1>9. /\ now.q \in Quaternions /\ now.q % Turn = (start.q + x) % Turn
      /\ (now.q - start.q) % Turn = x % Turn
  <2>1. /\ Rotated(start.q, x) \in Quaternions /\ Rotated(start.q, x) % Turn = (start.q + x) % Turn
        /\ (Rotated(start.q, x) - start.q) % Turn = x % Turn
    BY <1>1, <1>5, RotatedBy
  <2> QED
    BY <1>6, <2>1, Zenon
<1>10. (end.q - start.q) % Turn = path % Turn
  <2>1. end.q - start.q \in Int
    BY <1>1
  <2> QED
    BY <1>7, <1>8, <2>1, TurnIs, SameRemainder
<1>11. t = I.duration => SameOrientation(now.q, end.q)
  <2> SUFFICES ASSUME t = I.duration PROVE now.q % Turn = end.q % Turn
    BY DEF SameOrientation
  <2>1. x = path
    BY <1>3, <1>4
  <2>2. end.q = (start.q + path) + j * Turn /\ start.q + path \in Int /\ end.q \in Int
    <3>1. j * Turn \in Int
      BY TurnIs
    <3> QED
      BY <1>1, <1>7, <1>8, <3>1
  <2>3. end.q % Turn = (start.q + path) % Turn
    BY <2>2, TurnIs, SameRemainder
  <2> QED
    BY <1>9, <2>1, <2>3
<1>12. t = 0 /\ start.duration > 0 => SameOrientation(now.q, start.q)
  <2>1. start.q + 0 = start.q
    BY <1>1
  <2> QED
    BY <1>4, <1>9, <2>1, Zenon DEF SameOrientation
<1>13. ASSUME ~Degenerate(start.duration, start.q, end.q)
       PROVE  Short(now.q - start.q) <= Short(end.q - start.q) /\ SlerpDefined(s, t)
  <2>1. ~Opposite(angle) /\ start.duration > 0
    BY <1>1, <1>13 DEF Degenerate, angle
  <2>2. Within(x, path) /\ 2 * Magnitude(path) <= Turn
    BY <1>4, <1>7, <2>1
  <2>3. Magnitude(x) <= Magnitude(path) /\ 2 * Magnitude(x) <= Turn
    BY <1>5, <1>7, <2>2, TurnIs DEF Within, Magnitude
  <2>4. Short(x) = Magnitude(x) /\ Short(path) = Magnitude(path)
    BY <1>5, <1>7, <2>2, <2>3, ShortIs
  <2>5. Short(now.q - start.q) = Short(x) /\ Short(end.q - start.q) = Short(path)
    <3>1. now.q - start.q \in Int /\ end.q - start.q \in Int
      BY <1>1, <1>9, TurnIs DEF Quaternions
    <3> QED
      BY <1>5, <1>7, <1>9, <1>10, <3>1, ShortSame
  <2> QED
    BY <1>4, <2>1, <2>3, <2>4, <2>5
<1> QED
  BY <1>11, <1>12, <1>13 DEF now, s

\* A static velocity goal ends with its velocity, a position goal in its position
\* unless it has velocity of its own.
LEMMA RampInAxes ==
  ASSUME mode \in Modes, NEW start \in References, NEW end \in References,
         NEW operation \in RampsIn, NEW factor,
         NEW I, Interpolates(I, operation, factor, start, end), NEW out
  PROVE  LET last == EvaluateAxes(I, mode, out, I.duration)
         IN \A axis \in Axes :
              /\ operation = "RampInVelocity" => last[axis].v = end[axis].v
              /\ operation = "RampInPosition" /\ start[axis].v = 0 /\ end[axis].v = 0 =>
                   last[axis] = Axis(end[axis].p, 0, 0)
<1> DEFINE T == I.duration
           halves == RampUp(T, I.ramp.duration)
<1>1. /\ start.robot \in Condition /\ start.external \in Condition
      /\ end.robot \in Condition /\ end.external \in Condition /\ start.duration \in Nat
  BY DEF References
<1>2. /\ I.operation = operation /\ I.ramp.start = start /\ I.ramp.end = end
      /\ I.ramp.duration = start.duration /\ T = AtLeastOne(start.duration)
  BY DEF Interpolates
<1>3. halves = 2
  <2>1. T \in Nat /\ T > 0 /\ T >= start.duration
    BY <1>1, <1>2 DEF AtLeastOne
  <2> HIDE DEF T
  <2> QED
    BY <1>1, <1>2, <2>1, RampUpIs
<1>4. operation \notin {"Normal", "RampDown"}
  BY DEF RampsIn
<1>5. /\ EvaluateAxes(I, mode, out, T).robot
           = RampInAxis(operation, out.robot, start.robot, end.robot, 2)
      /\ EvaluateAxes(I, mode, out, T).external
           = RampInAxis(operation, out.external, start.external, end.external, 2)
  BY <1>2, <1>3, <1>4 DEF EvaluateAxes
<1>6. ASSUME NEW axis, NEW a \in Condition, NEW b \in Condition
      PROVE  LET last == RampInAxis(operation, axis, a, b, 2)
             IN /\ last.v = b.v
                /\ operation = "RampInPosition" /\ a.v = 0 /\ b.v = 0 => last = Axis(b.p, 0, 0)
  <2>1. Between(a.v, b.v, 2) = b.v /\ Between(a.p, b.p, 2) = b.p /\ b.p \in Int /\ b.v \in Int
    BY <1>6, BetweenIs DEF Condition
  <2> QED
    BY <2>1 DEF RampInAxis, Axis
<1> HIDE DEF T
<1> QED
  BY <1>1, <1>5, <1>6 DEF Axes, T

\* So do their orientations.
LEMMA RampInOrientations ==
  ASSUME mode = "EGMPose", NEW start \in References, NEW end \in References,
         NEW operation \in RampsIn, NEW factor,
         NEW I, Interpolates(I, operation, factor, start, end), NEW out
  PROVE  LET last == EvaluateOrientation(I, mode, out, I.duration)
         IN /\ operation = "RampInVelocity" => last.w = end.w
            /\ operation = "RampInPosition" /\ start.w = 0 /\ end.w = 0 =>
                 SameOrientation(last.q, end.q)
<1> DEFINE T == I.duration
           halves == RampUp(T, I.ramp.duration)
           angle == Angle(start.q, end.q)
           last == EvaluateOrientation(I, mode, out, T)
<1>1. /\ start.q \in Quaternions /\ end.q \in Quaternions /\ start.w \in Int /\ end.w \in Int
      /\ start.duration \in Nat /\ start.q \in Int /\ end.q \in Int
  BY TurnIs DEF References, Quaternions
<1>2. /\ I.operation = operation /\ I.ramp.start = start /\ I.ramp.end = end
      /\ I.ramp.duration = start.duration /\ T = AtLeastOne(start.duration)
  BY DEF Interpolates
<1>3. halves = 2
  <2>1. T \in Nat /\ T > 0 /\ T >= start.duration
    BY <1>1, <1>2 DEF AtLeastOne
  <2> HIDE DEF T
  <2> QED
    BY <1>1, <1>2, <2>1, RampUpIs
<1>4. operation # "Normal" /\ operation # "RampDown"
  BY DEF RampsIn
<1>5. last = RampInOrientation(operation, out, start, end, 2)
  BY <1>2, <1>3, <1>4 DEF EvaluateOrientation
<1>6. Between(start.w, end.w, 2) = end.w
  <2>1. ASSUME NEW x \in Int, NEW y \in Int PROVE Between(x, y, 2) = y
    BY <2>1 DEF Between
  <2> QED
    BY <1>1, <2>1
<1>7. last.w = end.w
  BY <1>5, <1>6 DEF RampInOrientation
<1>8. angle \in Int /\ \E k \in Int : end.q - start.q = angle + k * Turn
  BY <1>1, AngleLeads
<1> HIDE DEF last, angle
<1>9. ASSUME operation = "RampInPosition", end.w = 0
      PROVE  SameOrientation(last.q, end.q)
  <2>1. last.q = Rotated(Rotated(start.q, (2 * angle) \div 2), 0 \div 2)
    BY <1>5, <1>6, <1>9 DEF RampInOrientation, angle
  <2>2. (2 * angle) \div 2 = angle /\ 0 \div 2 = 0
    BY <1>8
  <2> DEFINE h == Rotated(start.q, angle)
  <2>3. last.q = Rotated(h, 0)
    BY <2>1, <2>2
  <2>4. h \in Quaternions /\ h % Turn = (start.q + angle) % Turn
    BY <1>1, <1>8, RotatedBy
  <2>5. h \in Int /\ 0 \in Int
    BY <2>4, TurnIs DEF Quaternions
  <2> HIDE DEF h
  <2>6. Rotated(h, 0) % Turn = (h + 0) % Turn
    BY <2>5, RotatedBy
  <2>7. h + 0 = h
    BY <2>5
  <2>8. PICK k \in Int : end.q - start.q = angle + k * Turn
    BY <1>8
  <2>9. end.q = (start.q + angle) + k * Turn /\ start.q + angle \in Int
    <3>1. k * Turn \in Int
      BY TurnIs
    <3> QED
      BY <1>1, <1>8, <2>8, <3>1
  <2>10. end.q % Turn = (start.q + angle) % Turn
    BY <1>1, <2>9, TurnIs, SameRemainder
  <2> QED
    BY <2>3, <2>4, <2>6, <2>7, <2>10 DEF SameOrientation
<1> QED
  BY <1>7, <1>9 DEF last

\* A ramp down takes the angular velocity to zero.
LEMMA RampDownOrientations ==
  ASSUME mode = "EGMPose", NEW start \in References, NEW end \in References, NEW factor,
         NEW I, Interpolates(I, "RampDown", factor, start, end), NEW out, NEW t \in 0 .. I.duration
  PROVE  LET now == EvaluateOrientation(I, mode, out, t)
         IN /\ Within(now.w, start.w)
            /\ t = 0 /\ start.duration > 0 => now.w = start.w
            /\ t = I.duration => now.w = 0
<1> DEFINE halves == RampUp(t, start.duration)
           now == EvaluateOrientation(I, mode, out, t)
<1>1. start.w \in Int /\ start.duration \in Nat
  BY DEF References
<1>2. /\ I.operation = "RampDown" /\ I.ramp.w = start.w /\ I.ramp.duration = start.duration
      /\ I.duration = AtLeastOne(start.duration)
  BY DEF Interpolates
<1>3. t \in Nat /\ (t = I.duration => t > 0 /\ t >= start.duration)
  BY <1>1, <1>2 DEF AtLeastOne
<1>4. /\ halves \in 0 .. 2 /\ (t = 0 /\ start.duration > 0 => halves = 0)
      /\ t = I.duration => halves = 2
  BY <1>1, <1>3, RampUpIs
<1>5. now.w = Between(start.w, 0, halves)
  BY <1>2 DEF EvaluateOrientation, RampDownOrientation
<1> HIDE DEF halves, now
<1>6. 0 \in Int
  OBVIOUS
<1>7. /\ Between(start.w, 0, halves) \in Int
      /\ halves = 0 => Between(start.w, 0, halves) = start.w
      /\ halves = 2 => Between(start.w, 0, halves) = 0
      /\ Within(Between(start.w, 0, halves), start.w)
  <2>1. start.w \in Int /\ halves \in 0 .. 2
    BY <1>1, <1>4
  <2> QED
    BY <1>6, <2>1, BetweenIs, Zenon
<1> QED
  BY <1>4, <1>5, <1>7 DEF now

----------------------------------------------------------------------------
(* The properties, from the inductive invariant                            *)

\* A reference keeps what the controller knows of its goal.
LEMMA ReferenceTypes ==
  ASSUME mode \in Modes, NEW normal \in BOOLEAN, NEW I \in Interpolators, I.duration > 0,
         NEW out \in References, NEW start \in References, NEW t \in Nat
  PROVE  LET r == Reference(normal, I, out, start, t)
         IN r \in References /\ r.reach = out.reach /\ r.duration = out.duration
<1> DEFINE r == Reference(normal, I, out, start, t)
           time == Saturate(t, 0, I.duration)
           axes == EvaluateAxes(I, mode, out, time)
           now == EvaluateOrientation(I, mode, out, time)
           k == Factors(out.reach, t, out.duration)
           transition == normal /\ (out.reach \/ method = "Linear")
<1>1. /\ r \in References /\ r.reach = out.reach /\ r.duration = out.duration
      /\ r.robot = IF transition THEN CorrectedAxis(k, start.robot, axes.robot) ELSE axes.robot
      /\ r.external = IF transition THEN CorrectedAxis(k, start.external, axes.external)
                      ELSE axes.external
      /\ r.q = now.q
      /\ r.w = IF normal /\ mode = "EGMPose" THEN Transitioned(k, start.w, now.w) ELSE now.w
  BY ReferenceIs, Zenon
<1> HIDE DEF r
<1> QED
  BY <1>1, Zenon DEF r

\* The fields of a reference, by axes.
LEMMA ReferenceAxes ==
  ASSUME mode \in Modes, NEW normal \in BOOLEAN, NEW I \in Interpolators, I.duration > 0,
         NEW out \in References, NEW start \in References, NEW t \in Nat, NEW axis \in Axes
  PROVE  LET r == Reference(normal, I, out, start, t)
             now == EvaluateAxes(I, mode, out, Saturate(t, 0, I.duration))[axis]
             k == Factors(out.reach, t, out.duration)
         IN /\ now \in Condition /\ start[axis] \in Condition
            /\ normal /\ (out.reach \/ method = "Linear") => r[axis] = CorrectedAxis(k, start[axis], now)
            /\ ~(normal /\ (out.reach \/ method = "Linear")) => r[axis] = now
<1> DEFINE time == Saturate(t, 0, I.duration)
           axes == EvaluateAxes(I, mode, out, time)
           k == Factors(out.reach, t, out.duration)
           r == Reference(normal, I, out, start, t)
           transition == normal /\ (out.reach \/ method = "Linear")
<1>1. time \in Nat
  BY DEF Saturate, Interpolators
<1> HIDE DEF time
<1>2. axes.robot \in Condition /\ axes.external \in Condition
  BY <1>1, EvaluationTypes
<1>3. start.robot \in Condition /\ start.external \in Condition
  BY DEF References
<1>4. /\ r.robot = IF transition THEN CorrectedAxis(k, start.robot, axes.robot) ELSE axes.robot
      /\ r.external = IF transition THEN CorrectedAxis(k, start.external, axes.external)
                      ELSE axes.external
  BY ReferenceIs, ZenonT(40) DEF r, transition, k, axes, time
<1> HIDE DEF r, k, axes
<1>5. axis = "robot" \/ axis = "external"
  BY DEF Axes
<1>6. /\ axes[axis] \in Condition /\ start[axis] \in Condition
      /\ transition => r[axis] = CorrectedAxis(k, start[axis], axes[axis])
      /\ ~transition => r[axis] = axes[axis]
  BY <1>2, <1>3, <1>4, <1>5
<1> QED
  BY <1>6, Zenon DEF r, transition, k, axes, time

\* The orientation of a reference.
LEMMA ReferenceOrientation ==
  ASSUME mode \in Modes, NEW normal \in BOOLEAN, NEW I \in Interpolators, I.duration > 0,
         NEW out \in References, NEW start \in References, NEW t \in Nat
  PROVE  LET r == Reference(normal, I, out, start, t)
             now == EvaluateOrientation(I, mode, out, Saturate(t, 0, I.duration))
             k == Factors(out.reach, t, out.duration)
         IN /\ r.q = now.q /\ now.w \in Int
            /\ mode = "EGMJoint" => r.w = out.w
            /\ mode = "EGMPose" => r.w = IF normal THEN Transitioned(k, start.w, now.w) ELSE now.w
<1> DEFINE time == Saturate(t, 0, I.duration)
           now == EvaluateOrientation(I, mode, out, time)
           k == Factors(out.reach, t, out.duration)
           r == Reference(normal, I, out, start, t)
<1>1. time \in Nat
  BY DEF Saturate, Interpolators
<1> HIDE DEF time
<1>2. now.w \in Int
  BY <1>1, EvaluationTypes
<1>3. mode = "EGMJoint" => now.w = out.w
  BY DEF EvaluateOrientation
<1>4. /\ r.q = now.q
      /\ r.w = IF normal /\ mode = "EGMPose" THEN Transitioned(k, start.w, now.w) ELSE now.w
  <2> DEFINE axes == EvaluateAxes(I, mode, out, time)
             transition == normal /\ (out.reach \/ method = "Linear")
  <2>1. /\ r \in References /\ r.reach = out.reach /\ r.duration = out.duration
        /\ r.robot = IF transition THEN CorrectedAxis(k, start.robot, axes.robot) ELSE axes.robot
        /\ r.external = IF transition THEN CorrectedAxis(k, start.external, axes.external)
                        ELSE axes.external
        /\ r.q = now.q
        /\ r.w = IF normal /\ mode = "EGMPose" THEN Transitioned(k, start.w, now.w) ELSE now.w
    BY ReferenceIs, Zenon DEF time
  <2> QED
    BY <2>1
<1> HIDE DEF r, k, now
<1>5. /\ r.q = now.q /\ now.w \in Int
      /\ mode = "EGMJoint" => r.w = out.w
      /\ mode = "EGMPose" => r.w = IF normal THEN Transitioned(k, start.w, now.w) ELSE now.w
  BY <1>2, <1>3, <1>4
<1> QED
  BY <1>5, Zenon DEF r, k, now, time

\* What is known of the goal that is followed, and of the last reference.
LEMMA Following ==
  ASSUME TypeInv, FollowInv, active
  PROVE  LET I == interpolator
         IN /\ mode \in Modes /\ method \in Methods /\ initial \in References /\ goal \in References
            /\ I \in Interpolators /\ I.duration > 0 /\ isNormal \in BOOLEAN
            /\ I.operation \in Operations
            /\ I.operation = "Normal" => Interpolates(I, "Normal", 0, initial, goal)
            /\ I.operation = "RampDown" =>
                 /\ ~isNormal
                 /\ Interpolates(I, "RampDown", Factor("RampDown", stopping), initial, goal)
            /\ I.operation \in RampsIn =>
                 ~isNormal /\ Interpolates(I, I.operation, 0, initial, goal)
<1> DEFINE I == interpolator
<1>1. /\ mode \in Modes /\ method \in Methods /\ initial \in References /\ goal \in References
      /\ I \in Interpolators /\ phase \in {"idle", "normal", "rampDown", "static"}
      /\ isNormal \in BOOLEAN
  BY DEF TypeInv
<1>2. /\ I.operation \in OperationsOf(phase)
      /\ Interpolates(I, I.operation, Factor(I.operation, stopping), initial, goal)
  BY DEF FollowInv
<1>3. I.operation \in Operations
  BY <1>1 DEF Interpolators
<1>4. I.duration > 0
  BY <1>1, <1>2 DEF Interpolates, AtLeastOne, References
<1>5. /\ I.operation # "Normal" => ~isNormal
      /\ I.operation \in RampsIn => I.operation # "RampDown" /\ I.operation # "Normal"
  BY <1>1, <1>2 DEF OperationsOf, RampsIn, FollowInv
<1>6. I.operation # "RampDown" => Factor(I.operation, stopping) = 0
  BY DEF Factor
<1> HIDE DEF I
<1>7. I.operation = "Normal" => Interpolates(I, "Normal", 0, initial, goal)
  BY <1>2, <1>5, <1>6
<1>8. I.operation = "RampDown" =>
        ~isNormal /\ Interpolates(I, "RampDown", Factor("RampDown", stopping), initial, goal)
  BY <1>2, <1>5
<1>9. I.operation \in RampsIn => ~isNormal /\ Interpolates(I, I.operation, 0, initial, goal)
  BY <1>2, <1>5, <1>6
<1> QED
  BY <1>1, <1>3, <1>4, <1>7, <1>8, <1>9 DEF I

\* At time zero the interpolation has the values the goal was begun with.
LEMMA StartsSmoothly == TypeInv /\ FollowInv /\ ReferenceInv => ReferencesStartSmoothly
<1> DEFINE I == interpolator
           normal == isNormal
           first == Reference(normal, I, initial, initial, 0)
           transitioned == normal \/ I.operation = "RampDown"
           axes == EvaluateAxes(I, mode, initial, 0)
           orientation == EvaluateOrientation(I, mode, initial, 0)
           k == Factors(initial.reach, 0, initial.duration)
<1> SUFFICES ASSUME TypeInv, FollowInv, ReferenceInv, active, ref.duration > 0,
                    I.operation \in {"Normal", "RampDown"}
             PROVE  /\ \A axis \in Axes :
                         /\ first[axis].p = initial[axis].p
                         /\ transitioned \/ method # "Linear" => first[axis].v = initial[axis].v
                         /\ method = "Quintic" /\ I.operation = "Normal" =>
                              first[axis].a = initial[axis].a
                    /\ transitioned => first.w = initial.w
                    /\ I.operation = "Normal" => SameOrientation(first.q, initial.q)
  BY DEF ReferencesStartSmoothly, Follows
<1>1. /\ mode \in Modes /\ method \in Methods /\ initial \in References /\ goal \in References
      /\ I \in Interpolators /\ I.duration > 0 /\ normal \in BOOLEAN
      /\ I.operation = "Normal" => Interpolates(I, "Normal", 0, initial, goal)
      /\ I.operation = "RampDown" =>
           /\ ~normal
           /\ Interpolates(I, "RampDown", Factor("RampDown", stopping), initial, goal)
  BY Following
<1> HIDE DEF normal
<1>2. /\ initial.duration > 0 /\ initial.duration \in Nat /\ initial.reach \in BOOLEAN
      /\ initial.w \in Int
  BY <1>1 DEF ReferenceInv, Starts, References
<1>3. I.duration \in Nat /\ 0 \in Nat /\ 0 \in 0 .. I.duration /\ Saturate(0, 0, I.duration) = 0
  BY <1>1 DEF Interpolators, Saturate
<1>4. ASSUME NEW axis \in Axes
      PROVE  /\ axes[axis] \in Condition /\ initial[axis] \in Condition
             /\ normal /\ (initial.reach \/ method = "Linear") =>
                  first[axis] = CorrectedAxis(k, initial[axis], axes[axis])
             /\ ~(normal /\ (initial.reach \/ method = "Linear")) => first[axis] = axes[axis]
  <2> DEFINE time == Saturate(0, 0, I.duration)
  <2>1. LET now == EvaluateAxes(I, mode, initial, time)[axis]
        IN /\ now \in Condition /\ initial[axis] \in Condition
           /\ normal /\ (initial.reach \/ method = "Linear") =>
                first[axis] = CorrectedAxis(k, initial[axis], now)
           /\ ~(normal /\ (initial.reach \/ method = "Linear")) => first[axis] = now
    BY <1>1, <1>3, <1>4, ReferenceAxes
  <2>2. time = 0
    BY <1>3
  <2> HIDE DEF time, I, first, k
  <2> QED
    BY <2>1, <2>2
<1>5. /\ first.q = orientation.q /\ orientation.w \in Int
      /\ mode = "EGMJoint" => first.w = initial.w
      /\ mode = "EGMPose" =>
           first.w = IF normal THEN Transitioned(k, initial.w, orientation.w)
                     ELSE orientation.w
  <2> DEFINE time == Saturate(0, 0, I.duration)
  <2>1. LET now == EvaluateOrientation(I, mode, initial, time)
        IN /\ first.q = now.q /\ now.w \in Int
           /\ mode = "EGMJoint" => first.w = initial.w
           /\ mode = "EGMPose" =>
                first.w = IF normal THEN Transitioned(k, initial.w, now.w) ELSE now.w
    BY <1>1, <1>3, ReferenceOrientation
  <2>2. time = 0
    BY <1>3
  <2> HIDE DEF time, I, first, k
  <2> QED
    BY <2>1, <2>2
<1> HIDE DEF first, k
<1>6. CASE I.operation = "Normal"
  <2>1. Interpolates(I, "Normal", 0, initial, goal)
    BY <1>1, <1>6
  <2>2. \A axis \in Axes :
          /\ axes[axis].p = initial[axis].p
          /\ method # "Linear" => axes[axis].v = initial[axis].v
          /\ method = "Quintic" => axes[axis].a = initial[axis].a
    BY <1>1, <2>1, NormalAxes
  <2> HIDE DEF axes, I
  <2>3. ASSUME NEW axis \in Axes
        PROVE  /\ first[axis].p = initial[axis].p
               /\ normal \/ method # "Linear" => first[axis].v = initial[axis].v
               /\ method = "Quintic" => first[axis].a = initial[axis].a
    <3> DEFINE c == CorrectedAxis(k, initial[axis], axes[axis])
    <3>1. axes[axis] \in Condition /\ initial[axis] \in Condition
      BY <1>4, <2>3
    <3>2. /\ c.p = axes[axis].p /\ c.a = axes[axis].a
          /\ c.v = (IF method = "Linear" THEN initial[axis].v ELSE axes[axis].v)
      BY <1>2, <3>1, CorrectedIs DEF k
    <3> HIDE DEF c
    <3>3. first[axis] = c \/ (first[axis] = axes[axis] /\ (normal => method # "Linear"))
      BY <1>4, <2>3 DEF c
    <3> QED
      BY <2>2, <2>3, <3>2, <3>3, Zenon
  <2>4. normal => first.w = initial.w
    <3>1. Transitioned(k, initial.w, orientation.w) = initial.w
      <4> HIDE DEF orientation
      <4> QED
        BY <1>2, <1>5, TransitionedIs DEF k
    <3>2. mode = "EGMJoint" \/ mode = "EGMPose"
      BY <1>1 DEF Modes
    <3> QED
      BY <1>5, <3>1, <3>2
  <2>5. SameOrientation(first.q, initial.q)
    <3>1. CASE mode = "EGMPose"
      <4>1. SameOrientation(orientation.q, initial.q)
        BY <1>1, <1>2, <1>3, <2>1, <3>1, NormalOrientation
      <4> QED
        BY <1>5, <4>1
    <3>2. CASE mode = "EGMJoint"
      <4>1. orientation.q = initial.q
        BY <3>2 DEF EvaluateOrientation
      <4> QED
        BY <1>5, <4>1 DEF SameOrientation
    <3> QED
      BY <1>1, <3>1, <3>2 DEF Modes
  <2> QED
    BY <1>6, <2>3, <2>4, <2>5
<1>7. CASE I.operation = "RampDown"
  <2>1. ~normal /\ Interpolates(I, "RampDown", Factor("RampDown", stopping), initial, goal)
    BY <1>1, <1>7
  <2>2. Factor("RampDown", stopping) \in Int
    BY DEF Factor
  <2>3. \A axis \in Axes : axes[axis].p = initial[axis].p /\ axes[axis].v = initial[axis].v
    BY <1>1, <1>3, <2>1, <2>2, RampDownAxes
  <2>4. first.w = initial.w
    <3>1. CASE mode = "EGMPose"
      <4>1. orientation.w = initial.w
        BY <1>1, <1>2, <1>3, <2>1, <3>1, RampDownOrientations
      <4> QED
        BY <1>5, <2>1, <3>1, <4>1
    <3> QED
      BY <1>1, <1>5, <3>1 DEF Modes
  <2>5. \A axis \in Axes : first[axis] = axes[axis]
    BY <1>4, <2>1
  <2> QED
    BY <1>7, <2>3, <2>4, <2>5
<1> QED
  BY <1>6, <1>7 DEF first, normal

\* The last reference, with its axes and its orientation, made of an earlier point
\* and a time.
MadeOf(out, t) ==
  LET I == interpolator
      time == Saturate(t, 0, I.duration)
      axes == EvaluateAxes(I, mode, out, time)
      now == EvaluateOrientation(I, mode, out, time)
      k == Factors(initial.reach, t, initial.duration)
      transition == isNormal /\ (initial.reach \/ method = "Linear")
  IN /\ time \in 0 .. I.duration
     /\ DurationReached => time = I.duration /\ t >= initial.duration
     /\ \A axis \in Axes :
          /\ axes[axis] \in Condition /\ initial[axis] \in Condition
          /\ transition => ref[axis] = CorrectedAxis(k, initial[axis], axes[axis])
          /\ ~transition => ref[axis] = axes[axis]
     /\ ref.q = now.q /\ now.w \in Int
     /\ mode = "EGMJoint" => ref.w = initial.w
     /\ mode = "EGMPose" =>
          ref.w = IF isNormal THEN Transitioned(k, initial.w, now.w) ELSE now.w

\* Every reference is made of an evaluation at its time.
LEMMA LastReference ==
  ASSUME TypeInv, FollowInv, ReferenceInv, active
  PROVE  \E out \in References, t \in Nat \ {0} : MadeOf(out, t)
<1> DEFINE I == interpolator
           normal == isNormal
<1>1. /\ mode \in Modes /\ initial \in References /\ goal \in References
      /\ I \in Interpolators /\ I.duration > 0 /\ normal \in BOOLEAN
  BY Following
<1>2. PICK out \in References, t \in Nat \ {0} :
        /\ Starts(out)
        /\ passed = Saturate(t, 0, interpolator.duration + 1)
        /\ ref = Reference(normal, interpolator, out, initial, t)
  BY DEF ReferenceInv, Evaluated
<1> DEFINE time == Saturate(t, 0, I.duration)
           axes == EvaluateAxes(I, mode, out, time)
           now == EvaluateOrientation(I, mode, out, time)
           k == Factors(initial.reach, t, initial.duration)
           transition == normal /\ (initial.reach \/ method = "Linear")
<1>3. /\ out.reach = initial.reach /\ out.duration = initial.duration
      /\ mode = "EGMJoint" => out.w = initial.w
  BY <1>2 DEF Starts
<1>4. I.duration = AtLeastOne(initial.duration) /\ initial.duration \in Nat /\ I.duration \in Nat
  BY <1>1 DEF FollowInv, Interpolates, Interpolators, References
<1>5. time \in 0 .. I.duration /\ (DurationReached => time = I.duration /\ t >= initial.duration)
  BY <1>1, <1>2, <1>4 DEF DurationReached, Saturate, AtLeastOne
<1>6. t \in Nat
  OBVIOUS
<1> HIDE DEF normal
<1>7. ASSUME NEW axis \in Axes
      PROVE  /\ axes[axis] \in Condition /\ initial[axis] \in Condition
             /\ transition => ref[axis] = CorrectedAxis(k, initial[axis], axes[axis])
             /\ ~transition => ref[axis] = axes[axis]
  <2> DEFINE r == Reference(normal, I, out, initial, t)
             K == Factors(out.reach, t, out.duration)
             go == normal /\ (out.reach \/ method = "Linear")
  <2>1. /\ axes[axis] \in Condition /\ initial[axis] \in Condition
        /\ go => r[axis] = CorrectedAxis(K, initial[axis], axes[axis])
        /\ ~go => r[axis] = axes[axis]
    BY <1>1, <1>6, <1>7, ReferenceAxes
  <2>2. r = ref /\ K = k /\ go = transition
    BY <1>2, <1>3
  <2> HIDE DEF r, K, k, axes, go, transition
  <2> QED
    BY <2>1, <2>2
<1>8. /\ ref.q = now.q /\ now.w \in Int
      /\ mode = "EGMJoint" => ref.w = initial.w
      /\ mode = "EGMPose" =>
           ref.w = IF normal THEN Transitioned(k, initial.w, now.w) ELSE now.w
  <2> DEFINE r == Reference(normal, I, out, initial, t)
             K == Factors(out.reach, t, out.duration)
  <2>1. /\ r.q = now.q /\ now.w \in Int
        /\ mode = "EGMJoint" => r.w = out.w
        /\ mode = "EGMPose" => r.w = IF normal THEN Transitioned(K, initial.w, now.w) ELSE now.w
    BY <1>1, <1>6, ReferenceOrientation
  <2>2. r = ref /\ K = k
    BY <1>2, <1>3
  <2> HIDE DEF r, K, k, now
  <2> QED
    BY <1>3, <2>1, <2>2
<1> HIDE DEF time, I, axes, now, k, transition
<1>9. /\ time \in 0 .. I.duration
      /\ DurationReached => time = I.duration /\ t >= initial.duration
      /\ \A axis \in Axes :
           /\ axes[axis] \in Condition /\ initial[axis] \in Condition
           /\ transition => ref[axis] = CorrectedAxis(k, initial[axis], axes[axis])
           /\ ~transition => ref[axis] = axes[axis]
      /\ ref.q = now.q /\ now.w \in Int
      /\ mode = "EGMJoint" => ref.w = initial.w
      /\ mode = "EGMPose" =>
           ref.w = IF normal THEN Transitioned(k, initial.w, now.w) ELSE now.w
  BY <1>5, <1>7, <1>8, Zenon
<1> QED
  BY <1>9, Zenon DEF MadeOf, time, I, axes, now, k, transition, normal

\* At its duration an evaluation is that of the spline's, Slerp's or ramp's end.
LEMMA IsMet == TypeInv /\ FollowInv /\ ReferenceInv => GoalIsMet
<1> DEFINE I == interpolator
           op == I.operation
<1> SUFFICES ASSUME TypeInv, FollowInv, ReferenceInv, active, DurationReached
             PROVE  /\ op = "Normal" =>
                         /\ \A axis \in Axes :
                              /\ ref[axis].p = goal[axis].p
                              /\ IF goal.reach /\ isNormal THEN ref[axis].v = 0 /\ ref[axis].a = 0
                                 ELSE /\ method \in {"Cubic", "Quintic"} => ref[axis].v = goal[axis].v
                                      /\ method = "Quintic" => ref[axis].a = goal[axis].a
                         /\ mode = "EGMPose" => SameOrientation(ref.q, goal.q)
                         /\ mode = "EGMPose" /\ goal.reach /\ isNormal => ref.w = 0
                    /\ op = "RampInVelocity" =>
                         /\ \A axis \in Axes : ref[axis].v = goal[axis].v
                         /\ mode = "EGMPose" => ref.w = goal.w
                    /\ op = "RampInPosition" =>
                         /\ \A axis \in Axes :
                              initial[axis].v = 0 => ref[axis] = Axis(goal[axis].p, 0, 0)
                         /\ mode = "EGMPose" /\ initial.w = 0 => SameOrientation(ref.q, goal.q)
  BY DEF GoalIsMet, Follows
<1> DEFINE T == I.duration
           transition == isNormal /\ (initial.reach \/ method = "Linear")
<1>1. PICK out \in References, t \in Nat \ {0} : MadeOf(out, t)
  BY LastReference
<1> DEFINE axes == EvaluateAxes(I, mode, out, T)
           now == EvaluateOrientation(I, mode, out, T)
           k == Factors(initial.reach, t, initial.duration)
<1> HIDE DEF transition, k
<1>2. t >= initial.duration /\ T \in 0 .. T
  BY <1>1 DEF MadeOf
<1>3. \A axis \in Axes :
        /\ axes[axis] \in Condition /\ initial[axis] \in Condition
        /\ transition => ref[axis] = CorrectedAxis(k, initial[axis], axes[axis])
        /\ ~transition => ref[axis] = axes[axis]
  BY <1>1 DEF MadeOf, transition, k
<1>4. /\ ref.q = now.q /\ now.w \in Int
      /\ mode = "EGMPose" =>
           ref.w = IF isNormal THEN Transitioned(k, initial.w, now.w) ELSE now.w
  BY <1>1 DEF MadeOf, transition, k
<1>5. /\ mode \in Modes /\ method \in Methods /\ initial \in References /\ goal \in References
      /\ I \in Interpolators
      /\ op = "Normal" => Interpolates(I, "Normal", 0, initial, goal)
      /\ op \in RampsIn => ~isNormal /\ Interpolates(I, op, 0, initial, goal)
  BY Following
<1>6. initial.reach = goal.reach
  BY DEF FollowInv
<1>7. /\ initial.reach \in BOOLEAN /\ initial.duration \in Nat /\ initial.w \in Int
      /\ t \in Nat /\ t > 0
  BY <1>5 DEF References
<1>8. ASSUME op = "Normal"
      PROVE  /\ \A axis \in Axes :
                  /\ ref[axis].p = goal[axis].p
                  /\ goal.reach /\ isNormal => ref[axis].v = 0 /\ ref[axis].a = 0
                  /\ ~(goal.reach /\ isNormal) =>
                       /\ method \in {"Cubic", "Quintic"} => ref[axis].v = goal[axis].v
                       /\ method = "Quintic" => ref[axis].a = goal[axis].a
             /\ mode = "EGMPose" => SameOrientation(ref.q, goal.q)
             /\ mode = "EGMPose" /\ goal.reach /\ isNormal => ref.w = 0
  <2>1. Interpolates(I, "Normal", 0, initial, goal)
    BY <1>5, <1>8
  <2>2. \A axis \in Axes :
          /\ axes[axis].p = goal[axis].p
          /\ method \in {"Cubic", "Quintic"} => axes[axis].v = goal[axis].v
          /\ method = "Quintic" => axes[axis].a = goal[axis].a
    BY <1>5, <2>1, NormalAxes
  <2>3. mode = "EGMPose" => SameOrientation(now.q, goal.q)
    BY <1>2, <1>5, <2>1, NormalOrientation
  <2>4. initial.reach => Transitioned(k, initial.w, now.w) = 0
    <3>1. k.b \in 0 .. 2 /\ (initial.reach => k.a = 0)
      BY <1>2, <1>7, FactorTypes DEF k
    <3> HIDE DEF now
    <3>2. initial.reach => k.a * (2 * initial.w + k.b * (now.w - initial.w)) = 0
      BY <1>4, <1>7, <3>1
    <3> QED
      BY <3>2 DEF Transitioned
  <2> HIDE DEF axes, now, I
  <2>5. ASSUME NEW axis \in Axes
        PROVE  /\ ref[axis].p = goal[axis].p
               /\ goal.reach /\ isNormal => ref[axis].v = 0 /\ ref[axis].a = 0
               /\ ~(goal.reach /\ isNormal) =>
                    /\ method \in {"Cubic", "Quintic"} => ref[axis].v = goal[axis].v
                    /\ method = "Quintic" => ref[axis].a = goal[axis].a
    <3> DEFINE c == CorrectedAxis(k, initial[axis], axes[axis])
    <3>1. axes[axis] \in Condition /\ initial[axis] \in Condition
      BY <1>3, <2>5
    <3>2. c.p = axes[axis].p /\ (initial.reach => c.v = 0 /\ c.a = 0)
      BY <1>2, <1>7, <3>1, CorrectedIs DEF k
    <3> HIDE DEF c
    <3>3. ref[axis] = IF isNormal /\ (initial.reach \/ method = "Linear") THEN c ELSE axes[axis]
      BY <1>3, <2>5 DEF c, transition
    <3> QED
      BY <1>6, <2>2, <2>5, <3>2, <3>3
  <2>6. /\ mode = "EGMPose" => SameOrientation(ref.q, goal.q)
        /\ mode = "EGMPose" /\ goal.reach /\ isNormal => ref.w = 0
    BY <1>4, <1>6, <2>3, <2>4
  <2> QED
    BY <2>5, <2>6
<1>9. ASSUME op \in RampsIn
      PROVE  /\ \A axis \in Axes : ref[axis] = axes[axis]
             /\ mode = "EGMPose" => ref.w = now.w
             /\ Interpolates(I, op, 0, initial, goal)
  BY <1>3, <1>4, <1>5, <1>9 DEF transition
<1>10. ASSUME op = "RampInVelocity"
       PROVE  /\ \A axis \in Axes : ref[axis].v = goal[axis].v
              /\ mode = "EGMPose" => ref.w = goal.w
  <2>1. op \in RampsIn
    BY <1>10 DEF RampsIn
  <2>2. \A axis \in Axes : axes[axis].v = goal[axis].v
    BY <1>5, <1>9, <1>10, <2>1, RampInAxes
  <2>3. mode = "EGMPose" => now.w = goal.w
    BY <1>5, <1>9, <1>10, <2>1, RampInOrientations
  <2> QED
    BY <1>9, <2>1, <2>2, <2>3
<1>11. ASSUME op = "RampInPosition"
       PROVE  /\ \A axis \in Axes :
                   initial[axis].v = 0 => ref[axis] = Axis(goal[axis].p, 0, 0)
              /\ mode = "EGMPose" /\ initial.w = 0 => SameOrientation(ref.q, goal.q)
  <2>1. op \in RampsIn
    BY <1>11 DEF RampsIn
  <2>2. (\A axis \in Axes : goal[axis].v = initial[axis].v) /\ goal.w = initial.w
    BY <1>11 DEF FollowInv, Follows
  <2>3. \A axis \in Axes :
          initial[axis].v = 0 /\ goal[axis].v = 0 => axes[axis] = Axis(goal[axis].p, 0, 0)
    BY <1>5, <1>9, <1>11, <2>1, RampInAxes
  <2>4. mode = "EGMPose" /\ initial.w = 0 /\ goal.w = 0 => SameOrientation(now.q, goal.q)
    BY <1>5, <1>9, <1>11, <2>1, RampInOrientations
  <2> QED
    BY <1>4, <1>9, <2>1, <2>2, <2>3, <2>4
<1> HIDE DEF op
<1> QED
  BY <1>8, <1>10, <1>11

\* A way that grows with the time.
LEMMA FurtherWithin ==
  ASSUME NEW x, NEW v \in Int, NEW t \in Nat, NEW T \in Nat, t <= T, Within(x, v * t)
  PROVE  NotFaster(x, v * T)
<1>1. v * t \in Int /\ v * T \in Int
  OBVIOUS
<1>2. CASE v >= 0
  <2>1. 0 <= v * t /\ v * t <= v * T
    BY <1>2
  <2> QED
    BY <1>1, <2>1 DEF Within, NotFaster
<1>3. CASE v < 0
  <2>1. v * t <= 0 /\ v * T <= v * t
    BY <1>3
  <2> QED
    BY <1>1, <2>1 DEF Within, NotFaster
<1> QED
  BY <1>2, <1>3

\* The references of a ramp down are not corrected: they are the spline's.
LEMMA OnlyBrakes == TypeInv /\ FollowInv /\ ReferenceInv => RampDownBrakes
<1> DEFINE I == interpolator
           T == I.duration
           transition == isNormal /\ (initial.reach \/ method = "Linear")
<1> SUFFICES ASSUME TypeInv, FollowInv, ReferenceInv, active, I.operation = "RampDown"
             PROVE  /\ \A axis \in Axes :
                         /\ NotFaster(ref[axis].v, initial[axis].v)
                         /\ NotFaster(ref[axis].p - initial[axis].p, initial[axis].v * T)
                         /\ stopping /\ DurationReached => ref[axis].v = 0 /\ ref[axis].a = 0
                    /\ NotFaster(ref.w, initial.w)
                    /\ DurationReached /\ mode = "EGMPose" => ref.w = 0
  BY DEF RampDownBrakes, Follows
<1>1. PICK out \in References, t \in Nat \ {0} : MadeOf(out, t)
  BY LastReference
<1> DEFINE time == Saturate(t, 0, I.duration)
           axes == EvaluateAxes(I, mode, out, time)
           now == EvaluateOrientation(I, mode, out, time)
           factor == Factor("RampDown", stopping)
<1>2. /\ mode \in Modes /\ initial \in References /\ goal \in References
      /\ I \in Interpolators /\ ~isNormal
      /\ Interpolates(I, "RampDown", factor, initial, goal)
  BY Following
<1>3. /\ time \in 0 .. T /\ (DurationReached => time = T)
      /\ \A axis \in Axes : ref[axis] = axes[axis] /\ initial[axis] \in Condition
      /\ mode = "EGMJoint" => ref.w = initial.w
      /\ mode = "EGMPose" => ref.w = now.w
  BY <1>1, <1>2 DEF MadeOf
<1>4. factor \in Int /\ (stopping => factor = 0)
  BY DEF Factor
<1> HIDE DEF factor, time
<1>5. \A axis \in Axes :
        /\ Within(axes[axis].v, initial[axis].v)
        /\ Within(axes[axis].p - initial[axis].p, initial[axis].v * time)
        /\ time = T /\ stopping => axes[axis].v = 0 /\ axes[axis].a = 0
  BY <1>2, <1>3, <1>4, RampDownAxes
<1>6. mode = "EGMPose" => Within(now.w, initial.w) /\ (time = T => now.w = 0)
  BY <1>2, <1>3, RampDownOrientations
<1>7. T \in Nat /\ time \in Nat /\ time <= T /\ initial.w \in Int
  BY <1>2, <1>3 DEF Interpolators, References
<1> HIDE DEF I, T, axes, now
<1>8. ASSUME NEW axis \in Axes
      PROVE  /\ NotFaster(ref[axis].v, initial[axis].v)
             /\ NotFaster(ref[axis].p - initial[axis].p, initial[axis].v * T)
             /\ stopping /\ DurationReached => ref[axis].v = 0 /\ ref[axis].a = 0
  <2> DEFINE v == initial[axis].v
             x == ref[axis].p - initial[axis].p
  <2>1. v \in Int /\ ref[axis] = axes[axis]
    BY <1>3, <1>8 DEF Condition
  <2>2. /\ Within(ref[axis].v, v) /\ Within(x, v * time)
        /\ time = T /\ stopping => ref[axis].v = 0 /\ ref[axis].a = 0
    BY <1>5, <1>8, <2>1, Zenon
  <2> HIDE DEF v, x
  <2>3. NotFaster(x, v * T)
    BY <1>7, <2>1, <2>2, FurtherWithin
  <2> QED
    BY <1>3, <2>2, <2>3 DEF v, x, NotFaster, Within
<1>9. NotFaster(ref.w, initial.w)
  <2>1. mode = "EGMPose" \/ mode = "EGMJoint"
    BY <1>2 DEF Modes
  <2> QED
    BY <1>3, <1>6, <1>7, <2>1 DEF NotFaster, Within
<1> QED
  BY <1>3, <1>6, <1>8, <1>9 DEF T

\* The way of the orientation is the one Slerp took.
LEMMA IsSound == TypeInv /\ FollowInv /\ ReferenceInv /\ OrientationInv => OrientationIsSound
<1> DEFINE I == interpolator
           transition == isNormal /\ (initial.reach \/ method = "Linear")
<1> SUFFICES ASSUME TypeInv, FollowInv, ReferenceInv, OrientationInv, ~degenerate
             PROVE  /\ defined
                    /\ active /\ I.operation = "Normal" /\ mode = "EGMPose" =>
                         Short(ref.q - initial.q) <= Short(goal.q - initial.q)
  BY DEF OrientationIsSound, Follows
<1>1. defined /\ (active => ~Degenerate(initial.duration, initial.q, goal.q))
  BY DEF OrientationInv
<1>2. ASSUME active, I.operation = "Normal", mode = "EGMPose"
      PROVE  Short(ref.q - initial.q) <= Short(goal.q - initial.q)
  <2>1. PICK out \in References, t \in Nat \ {0} : MadeOf(out, t)
    BY <1>2, LastReference
  <2> DEFINE time == Saturate(t, 0, I.duration)
             now == EvaluateOrientation(I, mode, out, time)
  <2>2. time \in 0 .. I.duration /\ ref.q = now.q
    BY <2>1 DEF MadeOf
  <2>3. /\ initial \in References /\ goal \in References
        /\ Interpolates(I, "Normal", 0, initial, goal)
    BY <1>2, Following
  <2> HIDE DEF time
  <2>4. Short(now.q - initial.q) <= Short(goal.q - initial.q)
    BY <1>1, <1>2, <2>2, <2>3, NormalOrientation
  <2> QED
    BY <2>2, <2>4
<1> QED
  BY <1>1, <1>2

----------------------------------------------------------------------------
(* The steps                                                               *)

\* An evaluation yields numbers unless the orientation is degenerate.
LEMMA EvaluationIsDefined ==
  ASSUME mode \in Modes, NEW start \in References, NEW end \in References,
         NEW operation \in Operations, NEW factor, operation # "RampDown" => factor = 0,
         NEW I, Interpolates(I, operation, factor, start, end),
         ~Degenerate(start.duration, start.q, end.q), NEW t \in 0 .. I.duration
  PROVE  EvaluationDefined(I, mode, t)
<1>1. start.duration \in Nat /\ start.q \in Quaternions /\ end.q \in Quaternions
  BY DEF References
<1>2. I.duration > 0 /\ I.operation = operation
  BY <1>1 DEF Interpolates, AtLeastOne
<1>3. ASSUME mode = "EGMPose", operation = "Normal" PROVE SlerpDefined(I.slerp, t)
  <2>1. Interpolates(I, "Normal", 0, start, end)
    BY <1>3
  <2> QED
    BY <1>3, <2>1, NormalOrientation
<1>4. ASSUME mode = "EGMPose"
      PROVE  RampDefined(operation, I.ramp.start, I.ramp.end, RampUp(t, I.ramp.duration))
  <2>1. Angle(start.q, end.q) \in Int /\ ~Opposite(Angle(start.q, end.q))
    BY <1>1, <1>4, AngleLeads DEF Degenerate
  <2>2. Magnitude(Angle(start.q, end.q)) # Turn
    BY <2>1, TurnIs DEF Opposite
  <2>3. operation = "RampInPosition" => I.ramp.start = start /\ I.ramp.end = end
    BY DEF Interpolates, RampsIn
  <2> QED
    BY <2>2, <2>3, Zenon DEF RampDefined
<1> QED
  BY <1>2, <1>3, <1>4 DEF EvaluationDefined

\* What the controller does changes with the state only in the mode and the method,
\* which a session keeps.
LEMMA CorrectedKept ==
  ASSUME mode' = mode, method' = method, NEW normal, NEW point, NEW start, NEW t
  PROVE  Corrected(normal, point, start, t)' = Corrected(normal, point, start, t)
  BY DEF Corrected, CorrectedAxis, CorrectedVelocity

\* So does a reference.
LEMMA ReferenceKept ==
  ASSUME mode' = mode, method' = method, NEW normal, isNormal' = normal, NEW out, NEW t
  PROVE  Reference(isNormal, interpolator, out, initial, t)'
           = Reference(normal, interpolator', out, initial', t)
  BY CorrectedKept, SMT DEF Reference

\* A new goal: the interpolation begins at the last reference.
LEMMA FollowKeeps ==
  ASSUME IInv, NEW newGoal \in References, NEW duration \in Nat, NEW operation \in Operations,
         NEW factor \in Int, NEW newPhase \in {"normal", "rampDown", "static"},
         Follow(newGoal, Conditions(duration, operation, factor), newPhase),
         stopping' \in BOOLEAN, operation \in OperationsOf(newPhase),
         factor = Factor(operation, stopping'),
         operation = "RampInPosition" =>
           (\A axis \in Axes : newGoal[axis].v = ref[axis].v) /\ newGoal.w = ref.w
  PROVE  IInv'
<1> DEFINE c == Conditions(duration, operation, factor)
           normal == newPhase = "normal" /\ phase # "rampDown"
<1>s. PICK start : start = [ref EXCEPT !.reach = newGoal.reach, !.duration = duration]
  OBVIOUS
<1>i. PICK J : J = Update(interpolator, mode, c, start, newGoal)
  OBVIOUS
<1>1. /\ mode \in Modes /\ method \in Methods /\ ref \in References
      /\ interpolator \in Interpolators /\ count \in Nat /\ defined \in BOOLEAN
      /\ degenerate \in BOOLEAN
  BY DEF IInv, TypeInv
<1>2. /\ c.duration = duration /\ c = Conditions(duration, operation, factor)
  BY DEF Conditions
<1>3. /\ start \in References /\ start.reach = newGoal.reach /\ start.duration = duration
      /\ start.q = ref.q /\ start.w = ref.w /\ start.robot = ref.robot
      /\ start.external = ref.external
  BY <1>1, <1>s DEF References
<1>4. /\ goal' = newGoal /\ interpolator' = J /\ initial' = start /\ passed' = 1
      /\ count' = count + 1
      /\ ref' = Reference(normal, J, start, start, 1)
      /\ defined' = (defined /\ EvaluationDefined(J, mode, Saturate(1, 0, J.duration)))
      /\ degenerate' = (degenerate \/ Degenerate(duration, ref.q, newGoal.q))
      /\ phase' = newPhase /\ active' = TRUE /\ mode' = mode /\ method' = method
      /\ isNormal' = normal
  BY <1>2, <1>s, <1>i DEF Follow
<1> HIDE DEF c
<1>5. Interpolates(J, operation, factor, start, newGoal)
  BY <1>1, <1>2, <1>3, <1>i, Updated
<1>6. J \in Interpolators /\ J.duration > 0 /\ J.duration \in Nat /\ J.operation = operation
  BY <1>3, <1>5 DEF Interpolates, AtLeastOne, Interpolators, References
<1>7. /\ normal \in BOOLEAN /\ (normal => newPhase = "normal")
      /\ 1 \in Nat /\ Saturate(1, 0, J.duration) \in 0 .. J.duration
      /\ Saturate(1, 0, J.duration + 1) = 1
  BY <1>6 DEF Saturate
<1> HIDE DEF normal
<1>8. /\ ref' \in References /\ ref'.reach = start.reach /\ ref'.duration = start.duration
      /\ mode = "EGMJoint" => ref'.w = start.w
  <2> DEFINE r == Reference(normal, J, start, start, 1)
  <2>1. r \in References /\ r.reach = start.reach /\ r.duration = start.duration
    <3>1. mode \in Modes /\ J \in Interpolators /\ J.duration > 0 /\ start \in References
      BY <1>1, <1>3, <1>6
    <3>2. r \in References
      BY <1>7, <3>1, ReferenceTypes
    <3>3. r.reach = start.reach
      BY <1>7, <3>1, ReferenceTypes
    <3>4. r.duration = start.duration
      BY <1>7, <3>1, ReferenceTypes
    <3> QED
      BY <3>2, <3>3, <3>4
  <2>2. mode = "EGMJoint" => r.w = start.w
    BY <1>1, <1>3, <1>6, <1>7, ReferenceOrientation
  <2> QED
    BY <1>4, <2>1, <2>2
<1>9. TypeInv'
  BY <1>1, <1>3, <1>4, <1>6, <1>7, <1>8 DEF TypeInv
<1>10. FollowInv'
  <2>1. (interpolator.operation \in OperationsOf(phase))'
    BY <1>4, <1>6 DEF OperationsOf
  <2>2. Interpolates(interpolator, interpolator.operation,
                     Factor(interpolator.operation, stopping), initial, goal)'
    <3>1. Factor(operation, stopping') = factor
      OBVIOUS
    <3> QED
      BY <1>4, <1>5, <1>6, <3>1, Zenon DEF Interpolates, AxesFollow, Conditions, Factor
  <2>3. (initial.reach = goal.reach)' /\ (isNormal => phase = "normal")'
    BY <1>3, <1>4, <1>7
  <2>4. (Follows("RampInPosition") =>
           /\ \A axis \in Axes : goal[axis].v = initial[axis].v
           /\ goal.w = initial.w)'
    BY <1>3, <1>4, <1>6 DEF Follows, Axes
  <2> QED
    BY <2>1, <2>2, <2>3, <2>4, Zenon DEF FollowInv
<1>11. ReferenceInv'
  <2>1. Starts(ref)'
    BY <1>4, <1>8 DEF Starts
  <2>2. Evaluated'
    <3>1. Starts(start)'
      BY <1>3, <1>4 DEF Starts
    <3>2. (passed = Saturate(1, 0, interpolator.duration + 1))'
      BY <1>4, <1>7
    <3>3. Reference(isNormal, interpolator, start, initial, 1)' = ref'
      BY <1>4, ReferenceKept
    <3>4. 1 \in Nat \ {0}
      OBVIOUS
    <3> QED
      BY <1>3, <3>1, <3>2, <3>3, <3>4, Zenon DEF Evaluated
  <2> QED
    BY <2>1, <2>2 DEF ReferenceInv
<1>12. OrientationInv'
  <2>1. ASSUME ~degenerate'
        PROVE  defined' /\ ~Degenerate(start.duration, start.q, newGoal.q)
    <3>1. ~degenerate /\ ~Degenerate(start.duration, start.q, newGoal.q)
      BY <1>1, <1>3, <1>4, <2>1
    <3>2. defined
      BY <3>1 DEF IInv, OrientationInv
    <3>3. operation # "RampDown" => factor = 0
      BY DEF Factor
    <3>4. EvaluationDefined(J, mode, Saturate(1, 0, J.duration))
      BY <1>1, <1>3, <1>5, <1>7, <3>1, <3>3, EvaluationIsDefined
    <3> QED
      BY <1>4, <3>1, <3>2, <3>4
  <2>2. ~degenerate' => ~Degenerate(initial.duration, initial.q, goal.q)'
    BY <1>4, <2>1 DEF Degenerate
  <2> QED
    BY <2>1, <2>2 DEF OrientationInv
<1> QED
  BY <1>9, <1>10, <1>11, <1>12 DEF IInv

\* What is followed stays the same until there is another goal.
LEMMA FollowKept ==
  ASSUME FollowInv,
         UNCHANGED <<mode, method, phase, active, stopping, goal, initial, isNormal, interpolator>>
  PROVE  FollowInv'
  BY SMT DEF FollowInv, Interpolates, AxesFollow, Conditions, Follows

\* The first point and the first interpolation.
LEMMA OriginIs == Origin \in References /\ NoInterpolation(Origin) \in Interpolators
<1>1. 0 \in Quaternions /\ 0 \in Int /\ 0 \in Nat
  BY TurnIs DEF Quaternions
<1>2. Axis(0, 0, 0) \in Condition
  BY DEF Axis, Condition
<1>3. Origin \in References
  BY <1>1, <1>2 DEF Origin, References
<1>4. SlerpOf(0, 0, 0) \in Slerps
  BY <1>1, SlerpGoes
<1>5. NoSpline \in Coefficients
  BY <1>1, SplineTyped DEF NoSpline
<1>6. [start |-> Origin, end |-> Origin, w |-> 0, duration |-> 0] \in Ramps
  BY <1>3 DEF Ramps
<1> HIDE DEF Origin
<1> QED
  BY <1>3, <1>4, <1>5, <1>6 DEF NoInterpolation, Interpolators, Operations

\* At first nothing is followed.
LEMMA InitHolds == Init => IInv
<1> SUFFICES ASSUME Init PROVE IInv
  OBVIOUS
<1>1. TypeInv
  BY OriginIs, InterpolatorAssumption DEF Init, TypeInv
<1>2. FollowInv /\ ReferenceInv /\ OrientationInv
  BY DEF Init, FollowInv, ReferenceInv, OrientationInv
<1> QED
  BY <1>1, <1>2 DEF IInv

\* The goal that is made of a point has all its values.
LEMMA Prepared ==
  ASSUME TypeInv, NEW point \in Points, NEW last \in BOOLEAN
  PROVE  PreparedNormalGoal(point, last) \in References
<1>1. goal \in References /\ ref \in References /\ mode \in Modes
  BY DEF TypeInv
<1>2. /\ \A axis \in {point.robot, point.external} :
           IsOptional(axis.p, Int) /\ IsOptional(axis.v, Int) /\ IsOptional(axis.a, Int)
      /\ IsOptional(point.q, Quaternions) /\ IsOptional(point.duration, Nat)
      /\ point.reach \in BOOLEAN /\ LongestEstimate \in Nat
  BY MotionStepAssumption
<1>3. /\ goal.robot \in Condition /\ goal.external \in Condition /\ goal.q \in Quaternions
      /\ goal.robot.p \in Int /\ goal.external.p \in Int
  BY <1>1 DEF References, Condition
<1>4. ASSUME NEW source, NEW old \in Condition,
             IsOptional(source.p, Int), IsOptional(source.v, Int), IsOptional(source.a, Int)
      PROVE  TransferAxis(source, old) \in Condition /\ AtRest(TransferAxis(source, old)) \in Condition
  <2>1. old.p \in Int /\ 0 \in Int
    BY <1>4 DEF Condition
  <2>2. CopyPresent(source.p, old.p) \in Int
    BY <1>4, <2>1, Copied, Zenon
  <2>3. CopyPresent(source.v, 0) \in Int /\ CopyPresent(source.a, 0) \in Int
    BY <1>4, <2>1, Copied, Zenon
  <2> QED
    BY <2>1, <2>2, <2>3 DEF TransferAxis, AtRest, Condition
<1> DEFINE robot == TransferAxis(point.robot, goal.robot)
           external == TransferAxis(point.external, goal.external)
           resting == last \/ point.duration = {}
           newRobot == IF resting THEN AtRest(robot) ELSE robot
           newExternal == IF resting THEN AtRest(external) ELSE external
           q == IF mode = "EGMPose" THEN CopyPresent(point.q, goal.q) ELSE goal.q
           reach == point.reach \/ last
           g == [ goal EXCEPT !.reach = reach, !.robot = newRobot,
                              !.external = newExternal, !.q = q, !.w = 0 ]
<1>5. newRobot \in Condition /\ newExternal \in Condition
  <2>1. robot \in Condition /\ AtRest(robot) \in Condition
    BY <1>2, <1>3, <1>4
  <2>2. external \in Condition /\ AtRest(external) \in Condition
    BY <1>2, <1>3, <1>4
  <2> QED
    BY <2>1, <2>2
<1>6. q \in Quaternions
  <2>1. CopyPresent(point.q, goal.q) \in Quaternions
    BY <1>2, <1>3, Copied, Zenon
  <2> QED
    BY <1>3, <2>1
<1>7. PreparedNormalGoal(point, last) = [g EXCEPT !.duration = CopyPresent(point.duration, Way(g))]
  BY <1>1 DEF PreparedNormalGoal, References
<1>r. reach \in BOOLEAN
  BY <1>2
<1> HIDE DEF newRobot, newExternal, q, reach
<1>8. g \in References
  <2> DEFINE h == [goal EXCEPT !.robot = newRobot, !.external = newExternal, !.q = q, !.w = 0]
  <2>0. goal \in References /\ 0 \in Int
    BY <1>1
  <2>1. h \in References
    BY <1>5, <1>6, <2>0 DEF References
  <2>2. [h EXCEPT !.reach = reach] \in References
    <3> HIDE DEF h
    <3> QED
      BY <1>r, <2>1 DEF References
  <2>3. g = [h EXCEPT !.reach = reach]
    BY <1>1 DEF References
  <2> QED
    BY <2>2, <2>3
<1> HIDE DEF g
<1>9. Way(g) \in Nat
  <2>1. /\ g.robot.p \in Int /\ g.external.p \in Int /\ ref.robot.p \in Int /\ ref.external.p \in Int
        /\ g.q \in Quaternions /\ ref.q \in Quaternions
    BY <1>1, <1>8 DEF References, Condition
  <2>2. ref.q % Turn \in Quaternions /\ g.q % Turn \in Quaternions
    BY <2>1, TurnIs DEF Quaternions
  <2>3. Angle(ref.q % Turn, g.q % Turn) \in Int
    BY <2>2, AngleLeads
  <2> DEFINE x == Magnitude(g.robot.p - ref.robot.p)
             y == Magnitude(g.external.p - ref.external.p)
             z == IF mode = "EGMPose" THEN Magnitude(Angle(ref.q % Turn, g.q % Turn)) ELSE 0
  <2>4. x \in Int /\ y \in Int
    BY <2>1 DEF Magnitude
  <2>5. z \in Int
    BY <2>3 DEF Magnitude
  <2>6. Way(g) = Saturate(Larger(x, Larger(y, z)), 0, LongestEstimate)
    BY DEF Way
  <2> HIDE DEF x, y, z
  <2> QED
    BY <1>2, <2>4, <2>5, <2>6 DEF Saturate, Larger
<1>10. CopyPresent(point.duration, Way(g)) \in Nat
  BY <1>2, <1>9, Copied, Zenon
<1> QED
  BY <1>7, <1>8, <1>10 DEF References

\* A goal made of the next point.
LEMMA NormalGoalKeeps ==
  ASSUME IInv, NEW point \in Points, NEW last \in BOOLEAN, NormalGoal(point, last)
  PROVE  IInv'
<1>1. PICK g : g = PreparedNormalGoal(point, last)
  OBVIOUS
<1>2. TypeInv
  BY DEF IInv
<1>3. g \in References
  BY <1>1, <1>2, Prepared
<1>4. g.duration \in Nat
  BY <1>3 DEF References
<1>5. Follow(g, Conditions(g.duration, "Normal", 0), "normal") /\ stopping' = stopping
  BY <1>1 DEF NormalGoal
<1>6. stopping' \in BOOLEAN
  BY <1>2, <1>5 DEF TypeInv
<1>7. "Normal" \in Operations /\ "Normal" \in OperationsOf("normal") /\ 0 = Factor("Normal", stopping')
  BY DEF Operations, OperationsOf, Factor
<1>8. 0 \in Int /\ "normal" \in {"normal", "rampDown", "static"} /\ "Normal" # "RampInPosition"
  OBVIOUS
<1> QED
  BY <1>3, <1>4, <1>5, <1>6, <1>7, <1>8, FollowKeeps, Zenon

\* A ramp down, to a stop or to half of the velocity.
LEMMA RampDownGoalKeeps ==
  ASSUME IInv, NEW do_stop \in BOOLEAN, RampDownGoal(do_stop)
  PROVE  IInv'
<1>1. goal \in References
  BY DEF IInv, TypeInv
<1>2. Follow(goal, RampDownConditions(do_stop), "rampDown") /\ stopping' = do_stop
  BY DEF RampDownGoal
<1>3. PICK duration \in Nat, factor \in Int :
        /\ RampDownConditions(do_stop) = Conditions(duration, "RampDown", factor)
        /\ factor = Factor("RampDown", stopping')
  <2>1. RAMP_DOWN_STOP_DURATION \in Nat /\ RAMP_DOWN_STOP_DURATION \div 2 \in Nat
    BY MotionStepAssumption
  <2> QED
    BY <1>2, <2>1 DEF RampDownConditions, Factor
<1>4. Follow(goal, Conditions(duration, "RampDown", factor), "rampDown") /\ stopping' \in BOOLEAN
  BY <1>2, <1>3
<1>5. "RampDown" \in Operations /\ "RampDown" \in OperationsOf("rampDown")
  BY DEF Operations, OperationsOf
<1>6. "rampDown" \in {"normal", "rampDown", "static"} /\ "RampDown" # "RampInPosition"
  OBVIOUS
<1> QED
  BY <1>1, <1>3, <1>4, <1>5, <1>6, FollowKeeps, Zenon

\* A static goal changes the positions or the velocities of the last reference.
LEMMA StaticGoalKeeps ==
  ASSUME IInv, NEW g \in References, NEW fast \in BOOLEAN, NEW operation \in RampsIn,
         StaticGoal(g, fast, operation),
         operation = "RampInPosition" => (\A axis \in Axes : g[axis].v = ref[axis].v) /\ g.w = ref.w
  PROVE  IInv'
<1>1. PICK duration \in Nat :
        duration = IF fast THEN STATIC_GOAL_DURATION_SHORT ELSE STATIC_GOAL_DURATION
  BY MotionStepAssumption
<1>2. Follow(g, Conditions(duration, operation, 0), "static") /\ stopping' = stopping
  BY <1>1 DEF StaticGoal
<1>3. stopping' \in BOOLEAN
  BY <1>2 DEF IInv, TypeInv
<1>4. operation \in Operations /\ operation \in OperationsOf("static") /\ 0 = Factor(operation, stopping')
  BY DEF Operations, OperationsOf, Factor, RampsIn
<1>5. 0 \in Int /\ "static" \in {"normal", "rampDown", "static"}
  OBVIOUS
<1> QED
  BY <1>2, <1>3, <1>4, <1>5, FollowKeeps, Zenon

\* A static position goal leaves the velocities alone.
LEMMA StaticPositionGoalKeeps ==
  ASSUME IInv, NEW source \in StaticPositions, NEW fast \in BOOLEAN, StaticPositionGoal(source, fast)
  PROVE  IInv'
<1>1. ref \in References
  BY DEF IInv, TypeInv
<1>2. /\ ref.robot \in Condition /\ ref.external \in Condition /\ ref.q \in Quaternions
      /\ ref.robot.p \in Int /\ ref.external.p \in Int
  BY <1>1 DEF References, Condition
<1>3. /\ IsOptional(source.p, Int) /\ IsOptional(source.e, Int) /\ IsOptional(source.q, Quaternions)
  BY MotionStepAssumption
<1>4. PICK p \in Int : p = CopyPresent(source.p, ref.robot.p)
  BY <1>2, <1>3, Copied, Zenon
<1>5. PICK e \in Int : e = CopyPresent(source.e, ref.external.p)
  BY <1>2, <1>3, Copied, Zenon
<1>6. PICK q \in Quaternions : q = CopyPresent(source.q, ref.q)
  BY <1>2, <1>3, Copied, Zenon
<1>7. PICK g : g = [ref EXCEPT !.robot = [@ EXCEPT !.p = p], !.external = [@ EXCEPT !.p = e], !.q = q]
  OBVIOUS
<1>8. /\ g \in References /\ g.w = ref.w
      /\ g.robot = [ref.robot EXCEPT !.p = p] /\ g.external = [ref.external EXCEPT !.p = e]
  <2>1. [ref.robot EXCEPT !.p = p] \in Condition /\ [ref.external EXCEPT !.p = e] \in Condition
    BY <1>2 DEF Condition
  <2> QED
    BY <1>1, <1>7, <2>1 DEF References
<1>9. (\A axis \in Axes : g[axis].v = ref[axis].v) /\ g.w = ref.w
  BY <1>2, <1>8 DEF Axes, Condition
<1>10. StaticGoal(g, fast, "RampInPosition")
  BY <1>4, <1>5, <1>6, <1>7 DEF StaticPositionGoal
<1>11. "RampInPosition" \in RampsIn
  BY DEF RampsIn
<1> QED
  BY <1>8, <1>9, <1>10, <1>11, StaticGoalKeeps, Zenon

\* A static velocity goal.
LEMMA StaticVelocityGoalKeeps ==
  ASSUME IInv, NEW source \in StaticVelocities, NEW fast \in BOOLEAN, StaticVelocityGoal(source, fast)
  PROVE  IInv'
<1>1. ref \in References
  BY DEF IInv, TypeInv
<1>2. /\ ref.robot \in Condition /\ ref.external \in Condition /\ ref.w \in Int
      /\ ref.robot.v \in Int /\ ref.external.v \in Int
  BY <1>1 DEF References, Condition
<1>3. /\ IsOptional(source.v, Int) /\ IsOptional(source.e, Int) /\ IsOptional(source.w, Int)
  BY MotionStepAssumption
<1>4. PICK v \in Int : v = CopyPresent(source.v, ref.robot.v)
  BY <1>2, <1>3, Copied, Zenon
<1>5. PICK e \in Int : e = CopyPresent(source.e, ref.external.v)
  BY <1>2, <1>3, Copied, Zenon
<1>6. PICK w \in Int : w = CopyPresent(source.w, ref.w)
  BY <1>2, <1>3, Copied, Zenon
<1>7. PICK g : g = [ref EXCEPT !.robot = [@ EXCEPT !.v = v], !.external = [@ EXCEPT !.v = e], !.w = w]
  OBVIOUS
<1>8. g \in References
  <2>1. [ref.robot EXCEPT !.v = v] \in Condition /\ [ref.external EXCEPT !.v = e] \in Condition
    BY <1>2 DEF Condition
  <2> QED
    BY <1>1, <1>7, <2>1 DEF References
<1>9. StaticGoal(g, fast, "RampInVelocity")
  BY <1>4, <1>5, <1>6, <1>7 DEF StaticVelocityGoal
<1>10. "RampInVelocity" \in RampsIn /\ "RampInVelocity" # "RampInPosition"
  BY DEF RampsIn
<1> QED
  BY <1>8, <1>9, <1>10, StaticGoalKeeps, Zenon

\* A tick goes on with the same interpolation.
LEMMA ContinueKeeps ==
  ASSUME IInv, Continue
  PROVE  IInv'
<1> DEFINE I == interpolator
           normal == isNormal
<1>1. /\ TypeInv /\ FollowInv /\ active
      /\ mode \in Modes /\ ref \in References /\ initial \in References /\ goal \in References
      /\ I \in Interpolators /\ I.duration > 0 /\ normal \in BOOLEAN /\ passed \in Nat
      /\ I.duration \in Nat
  <2>1. TypeInv /\ FollowInv /\ active
    BY DEF IInv, Continue
  <2> QED
    BY <2>1, Following DEF TypeInv, Interpolators
<1>2. PICK t \in Nat \ {0} : t = passed + 1
  BY <1>1
<1>3. PICK out \in References : out = ref
  BY <1>1
<1>4. /\ passed' = Saturate(t, 0, I.duration + 1)
      /\ ref' = Reference(normal, I, out, initial, t)
      /\ defined' = (defined /\ EvaluationDefined(I, mode, Saturate(t, 0, I.duration)))
      /\ UNCHANGED <<mode, method, phase, active, stopping, goal, initial, isNormal, interpolator,
                     degenerate, count>>
  BY <1>2, <1>3 DEF Continue
<1>5. Starts(out)
  BY <1>1, <1>3 DEF IInv, ReferenceInv
<1>6. t \in Nat /\ Saturate(t, 0, I.duration + 1) \in Nat /\ Saturate(t, 0, I.duration) \in 0 .. I.duration
  BY <1>1 DEF Saturate
<1>7. /\ ref' \in References /\ ref'.reach = initial.reach /\ ref'.duration = initial.duration
      /\ mode = "EGMJoint" => ref'.w = initial.w
  <2> DEFINE r == Reference(normal, I, out, initial, t)
  <2> HIDE DEF normal
  <2>1. r \in References
    BY <1>1, <1>6, ReferenceTypes
  <2>2. r.reach = out.reach
    BY <1>1, <1>6, ReferenceTypes
  <2>3. r.duration = out.duration
    BY <1>1, <1>6, ReferenceTypes
  <2>4. mode = "EGMJoint" => r.w = out.w
    BY <1>1, <1>6, ReferenceOrientation
  <2>5. ref' = r
    BY <1>4
  <2> HIDE DEF r
  <2> QED
    BY <1>5, <2>1, <2>2, <2>3, <2>4, <2>5 DEF Starts
<1>8. TypeInv'
  BY <1>1, <1>4, <1>6, <1>7 DEF TypeInv
<1>9. FollowInv'
  BY <1>1, <1>4, FollowKept
<1>10. ReferenceInv'
  <2>1. Starts(ref)'
    BY <1>4, <1>7 DEF Starts
  <2>2. Starts(out)' /\ (passed = Saturate(t, 0, interpolator.duration + 1))'
    BY <1>4, <1>5 DEF Starts
  <2>3. Reference(isNormal, interpolator, out, initial, t)' = ref'
    <3>1. Reference(isNormal, interpolator, out, initial, t)'
            = Reference(isNormal, interpolator', out, initial', t)
      BY <1>4, ReferenceKept
    <3> QED
      BY <1>4, <3>1
  <2> QED
    BY <2>1, <2>2, <2>3, Zenon DEF ReferenceInv, Evaluated
<1>11. OrientationInv'
  <2>1. ASSUME ~degenerate
        PROVE  defined' /\ ~Degenerate(initial.duration, initial.q, goal.q)
    <3>1. defined /\ ~Degenerate(initial.duration, initial.q, goal.q)
      BY <1>1, <2>1 DEF IInv, OrientationInv
    <3>2. /\ I.operation \in Operations
          /\ Interpolates(I, I.operation, Factor(I.operation, stopping), initial, goal)
      BY <1>1 DEF FollowInv, Interpolators
    <3>3. I.operation # "RampDown" => Factor(I.operation, stopping) = 0
      BY DEF Factor
    <3>4. EvaluationDefined(I, mode, Saturate(t, 0, I.duration))
      BY <1>1, <1>6, <3>1, <3>2, <3>3, EvaluationIsDefined
    <3> QED
      BY <1>4, <3>1, <3>4
  <2> QED
    BY <1>4, <2>1 DEF OrientationInv, Degenerate
<1> QED
  BY <1>8, <1>9, <1>10, <1>11 DEF IInv

\* Nothing is sent without a goal.
LEMMA InactiveKeeps ==
  ASSUME IInv, active' = FALSE, phase' \in {"idle", "normal", "rampDown", "static"},
         UNCHANGED <<mode, method, stopping, goal, ref, initial, isNormal, interpolator,
                     passed, defined, degenerate, count>>
  PROVE  IInv'
<1>1. TypeInv'
  BY DEF IInv, TypeInv
<1>2. FollowInv' /\ ReferenceInv'
  BY DEF FollowInv, ReferenceInv
<1>3. OrientationInv'
  BY DEF IInv, OrientationInv
<1> QED
  BY <1>1, <1>2, <1>3 DEF IInv

\* Every step keeps the invariant.
LEMMA StepKeeps == IInv /\ [Next]_vars => IInv'
<1> SUFFICES ASSUME IInv, [Next]_vars PROVE IInv'
  OBVIOUS
<1>1. CASE \E point \in Points, last \in BOOLEAN : NormalGoal(point, last)
  BY <1>1, NormalGoalKeeps
<1>2. CASE NoGoalLeft
  BY <1>2, InactiveKeeps DEF NoGoalLeft
<1>3. CASE \E do_stop \in BOOLEAN : RampDownGoal(do_stop)
  BY <1>3, RampDownGoalKeeps
<1>4. CASE EnterStaticGoal
  BY <1>4, InactiveKeeps DEF EnterStaticGoal
<1>5. CASE \E source \in StaticPositions, fast \in BOOLEAN : StaticPositionGoal(source, fast)
  BY <1>5, StaticPositionGoalKeeps
<1>6. CASE \E source \in StaticVelocities, fast \in BOOLEAN : StaticVelocityGoal(source, fast)
  BY <1>6, StaticVelocityGoalKeeps
<1>7. CASE Continue
  BY <1>7, ContinueKeeps
<1>8. CASE UNCHANGED vars
  <2>0. UNCHANGED <<mode, method, phase, active, stopping, goal, ref, initial, isNormal,
                    interpolator, passed, defined, degenerate, count>>
    BY <1>8 DEF vars
  <2>1. TypeInv'
    BY <2>0 DEF IInv, TypeInv
  <2>2. FollowInv'
    BY <2>0, FollowKept DEF IInv
  <2>3. ReferenceInv'
    <3>1. ASSUME NEW out, NEW t
          PROVE  Reference(isNormal, interpolator, out, initial, t)'
                   = Reference(isNormal, interpolator, out, initial, t)
      <4>1. Reference(isNormal, interpolator, out, initial, t)'
              = Reference(isNormal, interpolator', out, initial', t)
        BY <2>0, ReferenceKept
      <4> QED
        BY <2>0, <4>1
    <3>2. CASE ~active
      BY <2>0, <3>2 DEF ReferenceInv
    <3>3. CASE active
      <4>1. Starts(ref) /\ Evaluated
        BY <3>3 DEF IInv, ReferenceInv
      <4>2. Starts(ref)'
        BY <2>0, <4>1 DEF Starts
      <4>3. PICK out \in References, t \in Nat \ {0} :
              /\ Starts(out)
              /\ passed = Saturate(t, 0, interpolator.duration + 1)
              /\ ref = Reference(isNormal, interpolator, out, initial, t)
        BY <4>1 DEF Evaluated
      <4>4. Starts(out)' /\ (passed = Saturate(t, 0, interpolator.duration + 1))'
        BY <2>0, <4>3 DEF Starts
      <4>5. ref' = Reference(isNormal, interpolator, out, initial, t)'
        BY <2>0, <3>1, <4>3
      <4> QED
        BY <4>2, <4>4, <4>5, Zenon DEF ReferenceInv, Evaluated
    <3> QED
      BY <3>2, <3>3
  <2>4. OrientationInv'
    BY <2>0 DEF IInv, OrientationInv, Degenerate
  <2> QED
    BY <2>1, <2>2, <2>3, <2>4 DEF IInv
<1> QED
  BY <1>1, <1>2, <1>3, <1>4, <1>5, <1>6, <1>7, <1>8 DEF Next

----------------------------------------------------------------------------
(* Theorems                                                                *)

\* MotionStep keeps the interpolator, the controller and the goal in step: what is
\* sent is always an evaluation of the interpolation to the goal that is followed.
THEOREM Invariance == Spec => []IInv
  BY InitHolds, StepKeeps, PTL DEF Spec

\* At no change of goals does what is sent to the robot jump (EGMInterpolator::update,
\* Controller::update and calculate).
THEOREM ReferencesStartSmoothlyHolds == Spec => []ReferencesStartSmoothly
<1>1. IInv => ReferencesStartSmoothly
  BY StartsSmoothly DEF IInv
<1> QED
  BY <1>1, Invariance, PTL

\* A goal is met in what its spline method promises when its time is over.
THEOREM GoalIsMetHolds == Spec => []GoalIsMet
<1>1. IInv => GoalIsMet
  BY IsMet DEF IInv
<1> QED
  BY <1>1, Invariance, PTL

\* A ramp down only brakes, whatever it interrupts.
THEOREM RampDownBrakesHolds == Spec => []RampDownBrakes
<1>1. IInv => RampDownBrakes
  BY OnlyBrakes DEF IInv
<1> QED
  BY <1>1, Invariance, PTL

\* Only an orientation without time, or opposite to the last one, can spoil what is sent.
THEOREM OrientationIsSoundHolds == Spec => []OrientationIsSound
<1>1. IInv => OrientationIsSound
  BY IsSound DEF IInv
<1> QED
  BY <1>1, Invariance, PTL
=============================================================================
