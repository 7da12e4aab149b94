---------------------- MODULE EGMTrajectoryMotionProofs ----------------------
(***************************************************************************)
(* Proofs about EGMTrajectoryMotion.                                       *)
(***************************************************************************)
EXTENDS EGMTrajectoryMotion, TLAPS

----------------------------------------------------------------------------
(* Facts about the pieces of a tick                                        *)

LEMMA MultNat == \A a, b \in Nat : a * b \in Nat
  BY SMT

\* The goal for a point of a trajectory is well-formed.
LEMMA NormalGoalType ==
  ASSUME factor' \in Nat, NEW p \in Points, NEW b \in BOOLEAN
  PROVE  NormalGoal(p, b) \in [reach : BOOLEAN, dur : Nat]
<1>1. factor' * p.dur \in Nat
  BY MultNat DEF Points
<1>. QED
  BY <1>1 DEF NormalGoal, Points

\* Storing the goal gives back a sequence of at most one trajectory.
LEMMA StoreType ==
  ASSUME TypeOK
  PROVE  /\ Stored \in Points
         /\ StoreNormalGoal \in Seq(Seq(Points))
         /\ Len(StoreNormalGoal) <= 1
         /\ current # <<>> => /\ StoreNormalGoal = << <<Stored>> \o current[1] >>
                              /\ StoreNormalGoal[1] # <<>>
                              /\ StoreNormalGoal[1][1].id = external.id
                              /\ StoreNormalGoal[1][1].reach = external.reach
<1>1. Larger(1, internal.dur - passed) \in Nat
  BY DEF TypeOK, Larger
<1>2. Stored \in Points /\ Stored.id = external.id /\ Stored.reach = external.reach
  BY <1>1 DEF Stored, TypeOK, Points
<1>3. CASE current = <<>>
  BY <1>2, <1>3 DEF StoreNormalGoal
<1>4. CASE current # <<>>
  <2>1. current[1] \in Seq(Points)
    BY <1>4 DEF TypeOK
  <2>2. <<Stored>> \o current[1] \in Seq(Points)
    BY <1>2, <2>1
  <2>3. (<<Stored>> \o current[1])[1] = Stored /\ <<Stored>> \o current[1] # <<>>
    BY <1>2, <2>1
  <2>4. StoreNormalGoal = << <<Stored>> \o current[1] >>
    BY <1>4 DEF StoreNormalGoal
  <2>. QED
    BY <1>2, <1>4, <2>2, <2>3, <2>4
<1>. QED
  BY <1>3, <1>4

LEMMA ReturnedType ==
  ASSUME TypeOK
  PROVE  Returned \in Seq(Seq(Points))
  BY StoreType DEF Returned, TypeOK

LEMMA EmptyType ==
  /\ <<>> \in Seq(Points)
  /\ <<>> \in Seq(Seq(Points))
  /\ Len(<<>>) = 0 /\ Len(<<>>) <= 1
  BY SMT

\* What updateNormalGoal does to the current trajectory and the goals.
LEMMA NextGoalType ==
  ASSUME NEW cur \in Seq(Seq(Points)), NEW near, factor' \in Nat,
         NextGoal(cur, near)
  PROVE  /\ current' \in Seq(Seq(Points)) /\ Len(current') = 1
         /\ external' \in Points
         /\ internal' \in [reach : BOOLEAN, dur : Nat]
         /\ motion' \in [op : Operations, dur : Nat]
         /\ passed' \in Nat
         /\ active' = TRUE
         /\ motion'.op = "normal"
         /\ motion'.dur = Larger(1, internal'.dur)
<1>1. cur[1] \in Seq(Points)
  BY DEF NextGoal
<1>2. PICK k \in Eligible(cur[1], near) :
        /\ external' = cur[1][k]
        /\ internal' = NormalGoal(cur[1][k], Len(cur[1]) = 1)
        /\ current' = << SubSeq(cur[1], k + 1, Len(cur[1])) >>
  BY DEF NextGoal
<1>3. k \in 1 .. Len(cur[1])
  BY <1>1, <1>2 DEF Eligible
<1>4. cur[1][k] \in Points
  BY <1>1, <1>3
<1>5. SubSeq(cur[1], k + 1, Len(cur[1])) \in Seq(Points)
  BY <1>1, <1>3
<1>6. internal' \in [reach : BOOLEAN, dur : Nat]
  BY <1>2, <1>4, NormalGoalType
<1>7. motion' = [op |-> "normal", dur |-> Larger(1, internal'.dur)]
  BY DEF NextGoal, Interpolate
<1>8. Larger(1, internal'.dur) \in Nat
  BY <1>6 DEF Larger
<1>9. passed' = 1 /\ active' = TRUE
  BY DEF NextGoal, StartTime
<1>. QED
  BY <1>2, <1>4, <1>5, <1>6, <1>7, <1>8, <1>9 DEF Operations

LEMMA SkipAllType ==
  ASSUME NEW t \in Seq(Points), t # <<>>, factor' \in Nat, SkipAll(t)
  PROVE  external' \in Points /\ internal' \in [reach : BOOLEAN, dur : Nat]
<1>1. Len(t) \in 1 .. Len(t)
  BY SMT
<1>2. t[Len(t)] \in Points
  BY <1>1
<1>. QED
  BY <1>2, NormalGoalType DEF SkipAll

LEMMA NoGoalLeftType ==
  ASSUME TypeOK, NEW cur \in Seq(Seq(Points)), NEW near, factor' \in Nat,
         NoGoalLeft(cur, near)
  PROVE  /\ current' = <<>>
         /\ external' \in Points
         /\ internal' \in [reach : BOOLEAN, dur : Nat]
         /\ motion' \in [op : Operations, dur : Nat]
         /\ passed' \in Nat
         /\ active' = FALSE
<1>1. CASE cur # <<>> /\ cur[1] # <<>>
  <2>1. cur[1] \in Seq(Points)
    BY <1>1
  <2>. QED
    BY <1>1, <2>1, SkipAllType DEF NoGoalLeft, TypeOK
<1>2. CASE ~(cur # <<>> /\ cur[1] # <<>>)
  BY <1>2 DEF NoGoalLeft, TypeOK, goal
<1>. QED
  BY <1>1, <1>2

LEMMA UpdateNormalGoalType ==
  ASSUME TypeOK, NEW cur \in Seq(Seq(Points)), NEW near, factor' \in Nat,
         UpdateNormalGoal(cur, near)
  PROVE  /\ current' \in Seq(Seq(Points)) /\ Len(current') <= 1
         /\ external' \in Points
         /\ internal' \in [reach : BOOLEAN, dur : Nat]
         /\ motion' \in [op : Operations, dur : Nat]
         /\ passed' \in Nat
         /\ active' \in BOOLEAN
         /\ active' <=> current' # <<>>
         /\ active' => /\ motion'.op = "normal"
                       /\ motion'.dur = Larger(1, internal'.dur)
<1>1. CASE NextGoal(cur, near)
  <2>1. /\ current' \in Seq(Seq(Points)) /\ Len(current') = 1
        /\ external' \in Points
        /\ internal' \in [reach : BOOLEAN, dur : Nat]
        /\ motion' \in [op : Operations, dur : Nat]
        /\ passed' \in Nat
        /\ active' = TRUE
        /\ motion'.op = "normal"
        /\ motion'.dur = Larger(1, internal'.dur)
    BY <1>1, NextGoalType, Zenon
  <2>2. Len(current') = 1
    BY <2>1, Zenon
  <2>3. current' # <<>> /\ Len(current') <= 1
    BY <2>2, SMT
  <2>. QED
    BY <2>1, <2>3, Zenon
<1>2. CASE NoGoalLeft(cur, near)
  <2>1. /\ current' = <<>>
        /\ external' \in Points
        /\ internal' \in [reach : BOOLEAN, dur : Nat]
        /\ motion' \in [op : Operations, dur : Nat]
        /\ passed' \in Nat
        /\ active' = FALSE
    BY <1>2, NoGoalLeftType, Zenon
  <2>2. current' \in Seq(Seq(Points)) /\ Len(current') <= 1
    BY <2>1, SMT
  <2>. QED
    BY <2>1, <2>2, Zenon
<1>. QED
  BY <1>1, <1>2 DEF UpdateNormalGoal

LEMMA KeepGoalType ==
  ASSUME TypeOK, KeepGoal
  PROVE  /\ external' \in Points
         /\ internal' \in [reach : BOOLEAN, dur : Nat]
         /\ motion' \in [op : Operations, dur : Nat]
         /\ passed' \in Nat
         /\ active' \in BOOLEAN
         /\ UNCHANGED <<external, internal, motion, active>>
         /\ passed <= passed'
  BY DEF TypeOK, KeepGoal, AdvanceTime, Larger, goal

\* A request leaves a state or nothing pending.
LEMMA SetPendingType ==
  ASSUME NEW s \in States, SetPending(s)
  PROVE  pending' \in States \cup {"none"}
  BY DEF SetPending

LEMMA InterpolateType ==
  ASSUME NEW op \in Operations, NEW dur \in Nat, Interpolate(op, dur)
  PROVE  motion' \in [op : Operations, dur : Nat] /\ motion'.op = op
  BY DEF Interpolate, Larger

LEMMA EntryStateType ==
  ASSUME TypeOK
  PROVE  EntryState \in States
  BY DEF TypeOK, EntryState, States, NormalStates
----------------------------------------------------------------------------
(* Type correctness                                                        *)

LEMMA ContinueType ==
  ASSUME TypeOK, Continue
  PROVE  /\ state' \in States
         /\ updated' \in BOOLEAN
         /\ sessions' \in 0 .. MaxSessions /\ issued' \in 0 .. MaxPoints
  BY EntryStateType DEF Continue, TypeOK, counters

\* A tick that leaves the events and the queues alone and keeps its goal.
LEMMA KeepingTickType ==
  ASSUME TypeOK, Continue, KeepGoal, pending' \in States \cup {"none"},
         events' \in Events, UNCHANGED <<current, primary, temporary, factor>>
  PROVE  TypeOK'
<1>1. /\ external' \in Points
      /\ internal' \in [reach : BOOLEAN, dur : Nat]
      /\ motion' \in [op : Operations, dur : Nat]
      /\ passed' \in Nat
      /\ active' \in BOOLEAN
  BY KeepGoalType
<1>. QED
  BY <1>1, ContinueType DEF TypeOK

LEMMA NormalTickType ==
  ASSUME TypeOK, NEW near, NormalTick(near)
  PROVE  TypeOK'
<1>1. CASE NormalBeginRampDown
  <2>1. pending' \in States \cup {"none"}
    BY <1>1, SetPendingType DEF NormalBeginRampDown, States, RampDownStates
  <2>. QED
    BY <1>1, <2>1, KeepingTickType DEF NormalBeginRampDown, queues, TypeOK
<1>2. CASE NormalFollowGoal(near) \/ NormalRest
  BY <1>2, KeepingTickType DEF NormalFollowGoal, NormalRest, queues, TypeOK
<1>3. CASE NormalNextGoal(near)
  <2>1. factor' \in Nat /\ current \in Seq(Seq(Points))
    BY <1>3 DEF NormalNextGoal, TypeOK
  <2>2. UpdateNormalGoal(current, near)
    BY <1>3 DEF NormalNextGoal
  <2>3. /\ current' \in Seq(Seq(Points)) /\ Len(current') <= 1
        /\ external' \in Points
        /\ internal' \in [reach : BOOLEAN, dur : Nat]
        /\ motion' \in [op : Operations, dur : Nat]
        /\ passed' \in Nat
        /\ active' \in BOOLEAN
    BY <2>1, <2>2, UpdateNormalGoalType
  <2>. QED
    BY <1>3, <2>3, ContinueType DEF NormalNextGoal, TypeOK
<1>4. CASE NormalNextTrajectory(near)
  <2>1. primary \in Seq(Seq(Points)) /\ primary # <<>>
    BY <1>4 DEF NormalNextTrajectory, TypeOK
  <2>2. factor' \in Nat /\ <<Head(primary)>> \in Seq(Seq(Points))
        /\ Tail(primary) \in Seq(Seq(Points))
    BY <1>4, <2>1 DEF NormalNextTrajectory, TypeOK
  <2>3. UpdateNormalGoal(<<Head(primary)>>, near)
    BY <1>4 DEF NormalNextTrajectory
  <2>4. /\ current' \in Seq(Seq(Points)) /\ Len(current') <= 1
        /\ external' \in Points
        /\ internal' \in [reach : BOOLEAN, dur : Nat]
        /\ motion' \in [op : Operations, dur : Nat]
        /\ passed' \in Nat
        /\ active' \in BOOLEAN
    BY <2>2, <2>3, UpdateNormalGoalType
  <2>. QED
    BY <1>4, <2>2, <2>4, ContinueType DEF NormalNextTrajectory, TypeOK
<1>. QED
  BY <1>1, <1>2, <1>3, <1>4 DEF NormalTick

LEMMA FinishRampDownType ==
  ASSUME TypeOK, FinishRampDown
  PROVE  /\ factor' \in Nat \ {0}
         /\ primary' \in Seq(Seq(Points)) /\ temporary' \in Seq(Seq(Points))
         /\ Kept \in Seq(Seq(Points)) /\ Len(Kept) <= 1
         /\ Handled \in Events
<1>1. factor' \in Nat \ {0}
  BY DEF FinishRampDown, TypeOK, Events
<1>2. primary' \in Seq(Seq(Points)) /\ temporary' \in Seq(Seq(Points))
  <2>1. CASE primary' = temporary /\ temporary' = <<>>
    BY <2>1 DEF TypeOK
  <2>2. CASE UNCHANGED <<primary, temporary>>
    BY <2>2 DEF TypeOK
  <2>. QED
    BY <2>1, <2>2, Zenon DEF FinishRampDown
<1>3. Kept \in Seq(Seq(Points)) /\ Len(Kept) <= 1
  BY DEF Kept, TypeOK
<1>4. Handled \in Events
  BY DEF Handled, TypeOK, Events
<1>. QED
  BY <1>1, <1>2, <1>3, <1>4

LEMMA RampDownTickType ==
  ASSUME TypeOK, NEW near, RampDownTick(near)
  PROVE  TypeOK'
<1>1. CASE RampDownStart
  <2>1. pending' \in States \cup {"none"}
    BY <1>1, SetPendingType DEF RampDownStart, States, RampDownStates
  <2>2. current' \in Seq(Seq(Points)) /\ Len(current') <= 1
    BY <1>1, StoreType DEF RampDownStart, TypeOK
  <2>3. motion' \in [op : Operations, dur : Nat]
    BY <1>1, DurationsAssumption, InterpolateType DEF RampDownStart, Operations
  <2>4. passed' \in Nat /\ active' \in BOOLEAN
    BY <1>1 DEF RampDownStart, StartTime
  <2>. QED
    BY <1>1, <2>1, <2>2, <2>3, <2>4, ContinueType DEF RampDownStart, TypeOK, goal
<1>2. CASE RampDownRun
  <2>1. pending' \in States \cup {"none"}
    BY <1>2, SetPendingType DEF RampDownRun, States, RampDownStates
  <2>. QED
    BY <1>2, <2>1, KeepingTickType DEF RampDownRun, queues, TypeOK
<1>3. CASE RampDownWait \/ RampDownToStaticGoal
  <2>1. FinishRampDown /\ KeepGoal /\ current' = Kept /\ Continue
    BY <1>3 DEF RampDownWait, RampDownToStaticGoal, FinishRampDown
  <2>2. pending' \in States \cup {"none"}
    BY <1>3, SetPendingType DEF RampDownWait, RampDownToStaticGoal, States, StaticGoalStates
  <2>3. events' \in Events
    BY <1>3, <2>1, FinishRampDownType DEF RampDownWait, RampDownToStaticGoal, Events
  <2>4. /\ external' \in Points
        /\ internal' \in [reach : BOOLEAN, dur : Nat]
        /\ motion' \in [op : Operations, dur : Nat]
        /\ passed' \in Nat
        /\ active' \in BOOLEAN
    BY <2>1, KeepGoalType
  <2>. QED
    BY <2>1, <2>2, <2>3, <2>4, FinishRampDownType, ContinueType DEF TypeOK
<1>4. CASE RampDownToNormal(near)
  <2>1. FinishRampDown /\ Continue /\ UpdateNormalGoal(Kept, near)
    BY <1>4 DEF RampDownToNormal, FinishRampDown
  <2>2. pending' \in States \cup {"none"}
    BY <1>4, SetPendingType DEF RampDownToNormal, States, NormalStates
  <2>3. events' \in Events
    BY <1>4, <2>1, FinishRampDownType DEF RampDownToNormal, Events
  <2>4. /\ current' \in Seq(Seq(Points)) /\ Len(current') <= 1
        /\ external' \in Points
        /\ internal' \in [reach : BOOLEAN, dur : Nat]
        /\ motion' \in [op : Operations, dur : Nat]
        /\ passed' \in Nat
        /\ active' \in BOOLEAN
    BY <2>1, FinishRampDownType, UpdateNormalGoalType
  <2>. QED
    BY <2>1, <2>2, <2>3, <2>4, FinishRampDownType, ContinueType DEF TypeOK
<1>. QED
  BY <1>1, <1>2, <1>3, <1>4 DEF RampDownTick

LEMMA StaticGoalTickType ==
  ASSUME TypeOK, StaticGoalTick
  PROVE  TypeOK'
<1>1. CASE StaticGoalStart
  <2>1. pending' \in States \cup {"none"}
    BY <1>1, SetPendingType DEF StaticGoalStart, States, StaticGoalStates
  <2>2. current \o primary \in Seq(Seq(Points))
    BY DEF TypeOK
  <2>3. /\ current' \in Seq(Seq(Points)) /\ Len(current') <= 1
        /\ active' \in BOOLEAN
    BY <1>1, EmptyType, Zenon DEF StaticGoalStart
  <2>4. primary' \in Seq(Seq(Points))
    BY <1>1, <2>2, Zenon DEF StaticGoalStart
  <2>5. UNCHANGED <<events, temporary, external, internal, motion, passed, factor>>
    BY <1>1, Zenon DEF StaticGoalStart, goal
  <2>. QED
    BY <1>1, <2>1, <2>3, <2>4, <2>5, ContinueType DEF StaticGoalStart, TypeOK
<1>2. CASE StaticGoalRun
  <2>1. pending' \in States \cup {"none"}
    BY <1>2, SetPendingType DEF StaticGoalRun, States, StaticGoalStates, RampDownStates
  <2>2. events' \in Events
    BY <1>2 DEF StaticGoalRun, TypeOK, Events
  <2>3. ASSUME NEW op \in Operations, FollowStaticGoal(op)
        PROVE  /\ external' \in Points
               /\ internal' \in [reach : BOOLEAN, dur : Nat]
               /\ motion' \in [op : Operations, dur : Nat]
               /\ passed' \in Nat
               /\ active' \in BOOLEAN
    BY <2>3, InterpolateType DEF FollowStaticGoal, StartTime, TypeOK
  <2>4. FollowStaticGoal("position") \/ FollowStaticGoal("velocity") \/ KeepGoal
    BY <1>2 DEF StaticGoalRun
  <2>5. /\ external' \in Points
        /\ internal' \in [reach : BOOLEAN, dur : Nat]
        /\ motion' \in [op : Operations, dur : Nat]
        /\ passed' \in Nat
        /\ active' \in BOOLEAN
    BY <2>3, <2>4, KeepGoalType DEF Operations
  <2>. QED
    BY <1>2, <2>1, <2>2, <2>5, ContinueType DEF StaticGoalRun, TypeOK, queues
<1>3. CASE StaticGoalFinish
  <2>1. pending' \in States \cup {"none"}
    BY <1>3, SetPendingType DEF StaticGoalFinish, States, RampDownStates
  <2>2. events' \in Events
    BY <1>3 DEF StaticGoalFinish, TypeOK, Events
  <2>. QED
    BY <1>3, <2>1, <2>2, KeepingTickType DEF StaticGoalFinish, queues
<1>. QED
  BY <1>1, <1>2, <1>3 DEF StaticGoalTick

\* The resets of a session leave a well-typed state.
LEMMA FirstMessageType ==
  ASSUME TypeOK, FirstMessage
  PROVE  /\ sessions' \in 0 .. MaxSessions /\ issued' \in 0 .. MaxPoints
         /\ updated' \in BOOLEAN /\ events' \in Events
<1>1. sessions + 1 \in 0 .. MaxSessions
  BY BoundsAssumption DEF FirstMessage, TypeOK
<1>. QED
  BY <1>1 DEF FirstMessage, TypeOK

LEMMA ResetGoalsType ==
  ASSUME TypeOK, ResetGoals
  PROVE  /\ external' \in Points
         /\ internal' \in [reach : BOOLEAN, dur : Nat]
         /\ motion' \in [op : Operations, dur : Nat]
         /\ factor' \in Nat \ {0}
  BY DEF ResetGoals, TypeOK, Points, NoPoint

LEMMA NewTrajectoryType ==
  ASSUME TypeOK, NEW near, NewSessionNextTrajectory(near)
  PROVE  /\ TypeOK'
         /\ active' <=> current' # <<>>
         /\ active' => /\ motion'.op = "normal"
                       /\ motion'.dur = Larger(1, internal'.dur)
<1>1. Returned \in Seq(Seq(Points)) /\ Returned # <<>>
  BY ReturnedType DEF NewSessionNextTrajectory
<1>2. Head(Returned) \in Seq(Points) /\ Tail(Returned) \in Seq(Seq(Points))
  BY <1>1
<1>3. factor' \in Nat
  BY DEF NewSessionNextTrajectory, TypeOK
<1>4. /\ current' \in Seq(Seq(Points)) /\ Len(current') <= 1
      /\ external' \in Points
      /\ internal' \in [reach : BOOLEAN, dur : Nat]
      /\ motion' \in [op : Operations, dur : Nat]
      /\ passed' \in Nat
      /\ active' \in BOOLEAN
      /\ active' <=> current' # <<>>
      /\ active' => /\ motion'.op = "normal"
                    /\ motion'.dur = Larger(1, internal'.dur)
  <2>1. CASE NextGoal(<<Head(Returned)>>, near)
    <3>1. <<Head(Returned)>> \in Seq(Seq(Points))
      BY <1>2
    <3>2. UpdateNormalGoal(<<Head(Returned)>>, near)
      BY <2>1 DEF UpdateNormalGoal
    <3>. QED
      BY <1>3, <3>1, <3>2, UpdateNormalGoalType, Zenon
  <2>2. CASE ~NextGoal(<<Head(Returned)>>, near)
    <3>0. /\ current' = <<>> /\ active' = FALSE /\ passed' = 0 /\ UNCHANGED motion
      BY <2>2, Zenon DEF NewSessionNextTrajectory
    <3>3. /\ current' \in Seq(Seq(Points)) /\ Len(current') <= 1
          /\ active' \in BOOLEAN /\ ~active' /\ current' = <<>>
          /\ passed' \in Nat
      BY <3>0, EmptyType
    <3>4. motion' \in [op : Operations, dur : Nat]
      BY <3>0 DEF TypeOK
    <3>1. CASE Head(Returned) # <<>>
      <4>1. SkipAll(Head(Returned))
        BY <2>2, <3>1 DEF NewSessionNextTrajectory
      <4>2. /\ external' \in Points
            /\ internal' \in [reach : BOOLEAN, dur : Nat]
        BY <1>2, <1>3, <3>1, <4>1, SkipAllType
      <4>. QED
        BY <3>3, <3>4, <4>2, Zenon
    <3>2. CASE Head(Returned) = <<>>
      <4>1. /\ external' \in Points
            /\ internal' \in [reach : BOOLEAN, dur : Nat]
        <5>1. external' = NoPoint /\ internal' = [reach |-> FALSE, dur |-> 0]
          BY <2>2, <3>2, Zenon DEF NewSessionNextTrajectory
        <5>. QED
          BY <5>1 DEF Points, NoPoint
      <4>. QED
        BY <3>3, <3>4, <4>1, Zenon
    <3>. QED
      BY <3>1, <3>2
  <2>. QED
    BY <2>1, <2>2
<1>5. /\ state' \in States /\ pending' \in States \cup {"none"}
      /\ primary' \in Seq(Seq(Points)) /\ temporary' \in Seq(Seq(Points))
      /\ factor' \in Nat \ {0}
  BY <1>2 DEF NewSessionNextTrajectory, TypeOK, States, NormalStates
<1>6. FirstMessage
  BY DEF NewSessionNextTrajectory
<1>7. TypeOK'
  BY <1>4, <1>5, <1>6, FirstMessageType DEF TypeOK
<1>. QED
  BY <1>4, <1>7

LEMMA SessionResetType ==
  ASSUME TypeOK, ResetGoals, current' = <<>>, active' = FALSE, passed' = 0,
         state' \in States, pending' \in States \cup {"none"},
         primary' \in Seq(Seq(Points)), temporary' \in Seq(Seq(Points)),
         sessions' \in 0 .. MaxSessions, issued' \in 0 .. MaxPoints,
         updated' \in BOOLEAN, events' \in Events
  PROVE  TypeOK'
<1>1. current' \in Seq(Seq(Points)) /\ Len(current') <= 1
  BY EmptyType, Zenon
<1>2. active' \in BOOLEAN /\ passed' \in Nat
  OBVIOUS
<1>. QED
  BY <1>1, <1>2, ResetGoalsType, Zenon DEF TypeOK

LEMMA SessionChangeType ==
  ASSUME TypeOK, NEW near, SessionChange(near)
  PROVE  TypeOK'
<1>0. "NormalNone" \in States /\ "NormalRunning" \in States /\ "none" \in States \cup {"none"}
  BY DEF States, NormalStates
<1>1. CASE NewSessionNotOk
  <2>1. FirstMessage /\ ResetGoals /\ primary' = Returned
    BY <1>1 DEF NewSessionNotOk
  <2>2. temporary' \in Seq(Seq(Points))
    BY <1>1 DEF NewSessionNotOk, TypeOK
  <2>. QED
    BY <1>0, <1>1, <2>1, <2>2, FirstMessageType, ReturnedType, SessionResetType, Zenon
    DEF NewSessionNotOk
<1>2. CASE NewSessionRest
  <2>1. FirstMessage /\ ResetGoals /\ primary' = Returned
    BY <1>2 DEF NewSessionRest
  <2>2. pending' \in States \cup {"none"}
    BY <1>2, SetPendingType DEF NewSessionRest, States, RampDownStates
  <2>3. temporary' \in Seq(Seq(Points))
    BY <1>2 DEF NewSessionRest, TypeOK
  <2>. QED
    BY <1>0, <1>2, <2>1, <2>2, <2>3, FirstMessageType, ReturnedType, SessionResetType, Zenon
    DEF NewSessionRest
<1>3. CASE NewSessionNextTrajectory(near)
  BY <1>3, NewTrajectoryType
<1>4. CASE SessionLost
  <2>1. primary' \in Seq(Seq(Points)) /\ temporary' \in Seq(Seq(Points))
    BY <1>4, EmptyType, Zenon DEF SessionLost
  <2>2. /\ sessions' \in 0 .. MaxSessions /\ issued' \in 0 .. MaxPoints
        /\ updated' \in BOOLEAN /\ events' \in Events
    BY <1>4 DEF SessionLost, TypeOK, counters
  <2>. QED
    BY <1>0, <1>4, <2>1, <2>2, SessionResetType, Zenon DEF SessionLost
<1>5. CASE SessionIdle
  BY <1>5 DEF SessionIdle, TypeOK, manager, queues, goal, counters
<1>. QED
  BY <1>1, <1>2, <1>3, <1>4, <1>5 DEF SessionChange

LEMMA NumberedType ==
  ASSUME TypeOK, NEW t \in Trajectories, Issue(t)
  PROVE  /\ Numbered(t) \in Seq(Points)
         /\ Len(Numbered(t)) = Len(t)
         /\ issued' \in 0 .. MaxPoints
<1>1. t \in Seq([reach : BOOLEAN, dur : Nat])
  BY TrajectoriesAssumption
<1>2. issued \in Nat
  BY DEF TypeOK
<1>3. \A i \in 1 .. Len(t) :
        [id |-> issued + i, reach |-> t[i].reach, dur |-> t[i].dur] \in Points
  <2>1. ASSUME NEW T, NEW s \in Seq(T), NEW i \in 1 .. Len(s)
        PROVE  s[i] \in T
    OBVIOUS
  <2>2. \A i \in 1 .. Len(t) : t[i] \in [reach : BOOLEAN, dur : Nat]
    BY <1>1, <2>1
  <2>3. ASSUME NEW i \in 1 .. Len(t)
        PROVE  issued + i \in Nat /\ t[i].reach \in BOOLEAN /\ t[i].dur \in Nat
    BY <1>1, <1>2, <2>2
  <2>. QED
    BY <2>3 DEF Points
<1>4. Numbered(t) = [i \in 1 .. Len(t) |->
         [id |-> issued + i, reach |-> t[i].reach, dur |-> t[i].dur]]
  BY <1>1 DEF Numbered
<1>5. Numbered(t) \in Seq(Points) /\ Len(Numbered(t)) = Len(t)
  BY <1>1, <1>3, <1>4
<1>6. issued' \in 0 .. MaxPoints
  BY <1>1, <1>2, BoundsAssumption DEF Issue, Larger
<1>. QED
  BY <1>5, <1>6

\* What an accepted call leaves alone.
LEMMA OrderType ==
  ASSUME TypeOK, NEW call, NEW accepting, Order(call, accepting),
         events' \in Events, issued' \in 0 .. MaxPoints,
         primary' \in Seq(Seq(Points)), temporary' \in Seq(Seq(Points))
  PROVE  TypeOK'
  BY DEF Order, TypeOK, manager, goal

LEMMA AddTrajectoryType ==
  ASSUME TypeOK, NEW t \in Trajectories,
         AddTrajectory(t) \/ OverrideTrajectories(t)
  PROVE  TypeOK'
<1>1. Issue(t)
  BY DEF AddTrajectory, OverrideTrajectories
<1>2. Numbered(t) \in Seq(Points) /\ issued' \in 0 .. MaxPoints
  BY <1>1, NumberedType
<1>3. /\ Append(primary, Numbered(t)) \in Seq(Seq(Points))
      /\ Append(temporary, Numbered(t)) \in Seq(Seq(Points))
      /\ <<Numbered(t)>> \in Seq(Seq(Points))
  BY <1>2 DEF TypeOK
<1>4. CASE AddTrajectory(t)
  <2>1. primary' \in Seq(Seq(Points)) /\ temporary' \in Seq(Seq(Points))
    BY <1>3, <1>4 DEF AddTrajectory, TypeOK
  <2>2. events' \in Events
    BY <1>4 DEF AddTrajectory, TypeOK
  <2>. QED
    BY <1>2, <1>4, <2>1, <2>2, OrderType DEF AddTrajectory
<1>5. CASE OverrideTrajectories(t)
  <2>1. primary' \in Seq(Seq(Points)) /\ temporary' \in Seq(Seq(Points))
    BY <1>3, <1>5 DEF OverrideTrajectories, TypeOK
  <2>2. events' \in Events
    BY <1>5 DEF OverrideTrajectories, TypeOK, Events
  <2>. QED
    BY <1>2, <1>5, <2>1, <2>2, OrderType DEF OverrideTrajectories
<1>. QED
  BY <1>4, <1>5

LEMMA SaturateType == \A f \in Nat : Saturate(f) \in Nat \ {0}
  BY DurationsAssumption DEF Saturate

\* The calls that only set events.
LEMMA EventCallType ==
  ASSUME TypeOK,
         NEW call, NEW accepting, Order(call, accepting), events' \in Events,
         UNCHANGED <<primary, temporary, issued>>
  PROVE  TypeOK'
  BY OrderType DEF TypeOK

LEMMA UserCallType ==
  ASSUME TypeOK, UserCall
  PROVE  TypeOK'
<1>1. ASSUME NEW t \in Trajectories, AddTrajectory(t) \/ OverrideTrajectories(t)
      PROVE  TypeOK'
  BY <1>1, AddTrajectoryType
<1>2. ASSUME NEW discard \in BOOLEAN, StopTrajectory(discard)
      PROVE  TypeOK'
  <2>1. events' \in Events
    BY <1>2 DEF StopTrajectory, TypeOK, Events
  <2>. QED
    BY <1>2, <2>1, EventCallType DEF StopTrajectory
<1>3. ASSUME NEW discard \in BOOLEAN, StartStaticGoal(discard)
      PROVE  TypeOK'
  <2>1. events' \in Events
    BY <1>3 DEF StartStaticGoal, TypeOK, Events
  <2>. QED
    BY <1>3, <2>1, EventCallType DEF StartStaticGoal
<1>4. CASE ResumeTrajectory
  <2>1. events' \in Events
    BY <1>4 DEF ResumeTrajectory, TypeOK, Events
  <2>. QED
    BY <1>4, <2>1, EventCallType DEF ResumeTrajectory
<1>5. ASSUME NEW f \in Factors, UpdateDurationFactor(f)
      PROVE  TypeOK'
  <2>1. events' \in Events
    BY <1>5, DurationsAssumption, SaturateType DEF UpdateDurationFactor, TypeOK, Events
  <2>. QED
    BY <1>5, <2>1, EventCallType DEF UpdateDurationFactor
<1>6. ASSUME NEW position \in BOOLEAN, NEW fast \in BOOLEAN,
             SetStaticGoal(position, fast)
      PROVE  TypeOK'
  <2>1. events' \in Events
    BY <1>6, ZenonT(40) DEF SetStaticGoal, TypeOK, Events
  <2>. QED
    BY <1>6, <2>1, EventCallType DEF SetStaticGoal
<1>7. ASSUME NEW resume \in BOOLEAN, FinishStaticGoal(resume)
      PROVE  TypeOK'
  <2>1. events' \in Events
    BY <1>7 DEF FinishStaticGoal, TypeOK, Events
  <2>. QED
    BY <1>7, <2>1, EventCallType DEF FinishStaticGoal
<1>8. CASE RetrieveExecutionProgress
  BY <1>8 DEF RetrieveExecutionProgress, TypeOK, manager, queues, goal, counters
<1>. QED
  BY <1>1, <1>2, <1>3, <1>4, <1>5, <1>6, <1>7, <1>8 DEF UserCall

LEMMA TypeStep == TypeOK /\ [Next]_vars => TypeOK'
<1>. SUFFICES ASSUME TypeOK, [Next]_vars
              PROVE  TypeOK'
  OBVIOUS
<1>1. ASSUME NEW near \in SUBSET (1 .. MaxPoints), Tick(near)
      PROVE  TypeOK'
  BY <1>1, NormalTickType, RampDownTickType, StaticGoalTickType DEF Tick
<1>2. ASSUME NEW near \in SUBSET (1 .. MaxPoints), SessionChange(near)
      PROVE  TypeOK'
  BY <1>2, SessionChangeType
<1>3. CASE UserCall
  BY <1>3, UserCallType
<1>4. CASE UNCHANGED vars
  BY <1>4 DEF vars, TypeOK
<1>. QED
  BY <1>1, <1>2, <1>3, <1>4 DEF Next, Loop

LEMMA TypeInit == Init => TypeOK
<1>. SUFFICES ASSUME Init PROVE TypeOK
  OBVIOUS
<1>1. /\ current \in Seq(Seq(Points)) /\ Len(current) <= 1
      /\ primary \in Seq(Seq(Points)) /\ temporary \in Seq(Seq(Points))
  BY EmptyType, Zenon DEF Init
<1>2. /\ state \in States /\ pending \in States \cup {"none"}
      /\ motion \in [op : Operations, dur : Nat]
  BY DEF Init, States, NormalStates, Operations
<1>3. events \in Events /\ external \in Points
  BY DEF Init, NoEvents, Events, NoPoint, Points
<1>4. active \in BOOLEAN /\ updated \in BOOLEAN
  BY Zenon DEF Init
<1>5. passed = 0 /\ factor = 1 /\ sessions = 0 /\ issued = 0
  BY Zenon DEF Init
<1>6. internal \in [reach : BOOLEAN, dur : Nat]
  BY DEF Init
<1>7. /\ passed \in Nat /\ factor \in Nat \ {0}
      /\ sessions \in 0 .. MaxSessions /\ issued \in 0 .. MaxPoints
  BY <1>5, BoundsAssumption
<1>. QED
  BY <1>1, <1>2, <1>3, <1>4, <1>6, <1>7 DEF TypeOK

\* The types of the state hold in every behaviour, for every application, every
\* set of trajectories and every duration.
THEOREM TypeCorrect == Spec => []TypeOK
  BY TypeInit, TypeStep, PTL DEF Spec

----------------------------------------------------------------------------
(* The inductive invariant                                                 *)

LEMMA SuccessorsAre ==
  /\ "RampDownNone" \in Successors["NormalRunning"]
  /\ "RampDownRunning" \in Successors["RampDownNone"]
  /\ "RampDownFinished" \in Successors["RampDownRunning"]
  /\ "NormalRunning" \in Successors["RampDownFinished"]
  /\ "StaticNone" \in Successors["RampDownFinished"]
  /\ "StaticRunning" \in Successors["StaticNone"]
  /\ "StaticFinished" \in Successors["StaticRunning"]
  /\ "RampDownNone" \in Successors["StaticRunning"]
  /\ "RampDownNone" \in Successors["StaticFinished"]
  BY DEF Successors, States, NormalStates, RampDownStates, StaticGoalStates

\* A request that is legal in the state entered is accepted.
LEMMA RequestAccepted ==
  ASSUME NEW s, SetPending(s), s \in Successors[state']
  PROVE  pending' = s
  BY DEF SetPending

LEMMA DurationStaysReached ==
  ASSUME TypeOK, KeepGoal
  PROVE  DurationReached => DurationReached'
  BY KeepGoalType DEF DurationReached, TypeOK

\* The state a tick is handled in, by the state it finds.
LEMMA EntryStateIs ==
  ASSUME InductiveInvariant
  PROVE  /\ EntryState = "NormalRunning" =>
              \/ state = "NormalNone" /\ pending = "none"
              \/ state = "NormalRunning" /\ pending = "none"
              \/ state = "RampDownFinished" /\ pending = "NormalRunning"
         /\ EntryState = "RampDownNone" =>
              pending = "RampDownNone"
              /\ state \in {"NormalRunning", "StaticRunning", "StaticFinished"}
         /\ EntryState = "RampDownRunning" =>
              \/ state = "RampDownNone" /\ pending = "RampDownRunning"
              \/ state = "RampDownRunning" /\ pending = "none"
         /\ EntryState = "RampDownFinished" =>
              \/ state = "RampDownRunning" /\ pending = "RampDownFinished"
              \/ state = "RampDownFinished" /\ pending = "none"
         /\ EntryState = "StaticNone" =>
              state = "RampDownFinished" /\ pending = "StaticNone"
         /\ EntryState = "StaticRunning" =>
              \/ state = "StaticNone" /\ pending = "StaticRunning"
              \/ state = "StaticRunning" /\ pending = "none"
         /\ EntryState = "StaticFinished" =>
              state = "StaticRunning" /\ pending = "StaticFinished"
  BY DEF InductiveInvariant, ControlInv, TypeOK, EntryState, IdleIsEmpty, NormalInv,
         RampDownInv, StaticGoalInv, Successors, States, NormalStates,
         RampDownStates, StaticGoalStates

\* A tick in the Normal state ends with the goal and the trajectory together.
LEMMA NormalTickInv ==
  ASSUME InductiveInvariant, NEW near, NormalTick(near)
  PROVE  ControlInv'
<1>1. Continue /\ state' = "NormalRunning"
  BY DEF NormalTick, NormalBeginRampDown, NormalFollowGoal, NormalNextGoal,
         NormalNextTrajectory, NormalRest
<1>2. TypeOK
  BY DEF InductiveInvariant
<1>3. /\ active <=> current # <<>>
      /\ active => motion.op = "normal"
      /\ Executing => motion.dur = Larger(1, internal.dur)
  BY <1>1, EntryStateIs DEF Continue, InductiveInvariant, ControlInv, IdleIsEmpty,
     NormalInv, RampDownInv, GoalTimesInterpolation
<1>4. pending' \in {"none", "RampDownNone"}
  BY <1>1, SetPendingType DEF NormalTick, NormalBeginRampDown, NormalFollowGoal,
     NormalNextGoal, NormalNextTrajectory, NormalRest, SetPending
<1>5. /\ active' <=> current' # <<>>
      /\ active' => motion'.op = "normal" /\ motion'.dur = Larger(1, internal'.dur)
  <2>1. CASE KeepGoal /\ UNCHANGED current
    BY <1>2, <1>3, <2>1, KeepGoalType DEF Executing
  <2>2. CASE NormalNextGoal(near)
    <3>1. factor' \in Nat /\ current \in Seq(Seq(Points)) /\ UpdateNormalGoal(current, near)
      BY <1>2, <2>2 DEF NormalNextGoal, TypeOK
    <3>. QED
      BY <1>2, <3>1, UpdateNormalGoalType, Zenon
  <2>3. CASE NormalNextTrajectory(near)
    <3>1. primary \in Seq(Seq(Points)) /\ primary # <<>>
      BY <1>2, <2>3 DEF NormalNextTrajectory, TypeOK
    <3>2. factor' \in Nat /\ <<Head(primary)>> \in Seq(Seq(Points))
          /\ UpdateNormalGoal(<<Head(primary)>>, near)
      BY <1>2, <2>3, <3>1 DEF NormalNextTrajectory, TypeOK
    <3>. QED
      BY <1>2, <3>2, UpdateNormalGoalType, Zenon
  <2>. QED
    BY <2>1, <2>2, <2>3 DEF NormalTick, NormalBeginRampDown, NormalFollowGoal,
       NormalRest, queues
<1>. QED
  BY <1>1, <1>4, <1>5 DEF ControlInv, IdleIsEmpty, NormalInv, RampDownInv,
     StaticGoalInv, GoalTimesInterpolation, InterruptedPointKept, Executing,
     RampDownStates, StaticGoalStates

\* What the end of a ramp down finds.
LEMMA RampDownEntry ==
  ASSUME InductiveInvariant, EntryState = "RampDownFinished"
  PROVE  /\ active /\ DurationReached
         /\ events.do_stop => motion.op = "stop"
<1>1. RampDownInv
  BY DEF InductiveInvariant, ControlInv
<1>2. CASE state = "RampDownRunning" /\ pending = "RampDownFinished"
  BY <1>1, <1>2 DEF RampDownInv
<1>3. CASE state = "RampDownFinished" /\ pending = "none"
  BY <1>1, <1>3 DEF RampDownInv
<1>. QED
  BY <1>2, <1>3, EntryStateIs

\* A tick of the ramp down leaves the interrupted point in front and requests
\* the state that follows.
LEMMA RampDownTickInv ==
  ASSUME InductiveInvariant, NEW near, RampDownTick(near)
  PROVE  ControlInv'
<1>0. TypeOK
  BY DEF InductiveInvariant
<1>1. CASE RampDownStart
  <2>1. EntryState = "RampDownNone" /\ state' = "RampDownNone"
    BY <1>1 DEF RampDownStart, Continue
  <2>2. pending' = "RampDownRunning"
    BY <1>1, <2>1, RequestAccepted, SuccessorsAre DEF RampDownStart
  <2>3. active' = TRUE /\ motion'.op = (IF events'.do_stop THEN "stop" ELSE "slow")
        /\ external' = external
    BY <1>1, DurationsAssumption, InterpolateType DEF RampDownStart, Operations, goal
  <2>4. state \in {"NormalRunning", "StaticRunning", "StaticFinished"}
    BY <2>1, EntryStateIs
  <2>5. current' # <<>> =>
          /\ current'[1] # <<>> /\ current'[1][1].id = external'.id
          /\ current'[1][1].reach = external'.reach
    <3>1. current # <<>> => active
      BY <2>4 DEF InductiveInvariant, ControlInv, NormalInv, StaticGoalInv, StaticGoalStates
    <3>2. CASE active
      <4>1. current' = StoreNormalGoal
        BY <1>1, <3>2 DEF RampDownStart
      <4>2. CASE current = <<>>
        BY <4>1, <4>2 DEF StoreNormalGoal
      <4>3. CASE current # <<>>
        BY <1>0, <2>3, <4>1, <4>3, StoreType
      <4>. QED
        BY <4>2, <4>3
    <3>3. CASE ~active
      BY <1>1, <3>1, <3>3 DEF RampDownStart
    <3>. QED
      BY <3>2, <3>3
  <2>. QED
    BY <2>1, <2>2, <2>3, <2>5 DEF ControlInv, IdleIsEmpty, NormalInv, RampDownInv,
       StaticGoalInv, StaticGoalStates, GoalTimesInterpolation, Executing,
       InterruptedPointKept
<1>2. CASE RampDownRun
  <2>1. EntryState = "RampDownRunning" /\ state' = "RampDownRunning" /\ KeepGoal
    BY <1>2 DEF RampDownRun, Continue
  <2>2. state \in {"RampDownNone", "RampDownRunning"}
    BY <2>1, EntryStateIs
  <2>3. /\ active
        /\ motion.op = IF events.do_stop THEN "stop" ELSE "slow"
        /\ current # <<>> => /\ current[1] # <<>> /\ current[1][1].id = external.id
                             /\ current[1][1].reach = external.reach
    BY <2>2 DEF InductiveInvariant, ControlInv, RampDownInv, InterruptedPointKept,
       Executing, RampDownStates
  <2>4. UNCHANGED <<events, current, external, internal, motion, active>>
    BY <1>2, <2>1 DEF RampDownRun, KeepGoal, queues, goal
  <2>5. /\ pending' \in {"none", "RampDownFinished"}
        /\ pending' = "RampDownFinished" => DurationReached
    BY <1>2 DEF RampDownRun, SetPending
  <2>6. DurationReached => DurationReached'
    BY <1>0, <2>1, DurationStaysReached
  <2>. QED
    BY <2>1, <2>3, <2>4, <2>5, <2>6 DEF ControlInv, IdleIsEmpty, NormalInv,
       RampDownInv, StaticGoalInv, StaticGoalStates, GoalTimesInterpolation,
       Executing, InterruptedPointKept
<1>3. CASE RampDownWait \/ RampDownToStaticGoal
  <2>1. EntryState = "RampDownFinished" /\ state' = "RampDownFinished" /\ KeepGoal
        /\ current' = Kept /\ events.do_stop
    BY <1>3 DEF RampDownWait, RampDownToStaticGoal, FinishRampDown, Continue
  <2>2. active /\ motion.op = "stop" /\ DurationReached
    BY <2>1, RampDownEntry
  <2>3. state \in {"RampDownRunning", "RampDownFinished"}
    BY <2>1, EntryStateIs
  <2>4. current # <<>> =>
          /\ current[1] # <<>> /\ current[1][1].id = external.id
          /\ current[1][1].reach = external.reach
    BY <2>2, <2>3 DEF InductiveInvariant, ControlInv, InterruptedPointKept, Executing,
       RampDownStates
  <2>5. /\ active' = active /\ motion' = motion /\ external' = external
        /\ DurationReached'
    BY <1>0, <2>1, <2>2, DurationStaysReached DEF KeepGoal, goal
  <2>6. current' # <<>> =>
          /\ current'[1] # <<>> /\ current'[1][1].id = external'.id
          /\ current'[1][1].reach = external'.reach
    BY <2>1, <2>4, <2>5 DEF Kept
  <2>7. \/ pending' = "none" /\ events'.do_stop
        \/ pending' = "StaticNone"
    <3>1. CASE RampDownWait
      BY <2>1, <3>1, <1>0 DEF RampDownWait, Handled, TypeOK, Events
    <3>2. CASE RampDownToStaticGoal
      BY <2>1, <3>2, RequestAccepted, SuccessorsAre DEF RampDownToStaticGoal
    <3>. QED
      BY <1>3, <3>1, <3>2
  <2>. QED
    BY <2>1, <2>2, <2>5, <2>6, <2>7 DEF ControlInv, IdleIsEmpty, NormalInv,
       RampDownInv, StaticGoalInv, StaticGoalStates, GoalTimesInterpolation,
       Executing, InterruptedPointKept
<1>4. CASE RampDownToNormal(near)
  <2>1. FinishRampDown /\ state' = "RampDownFinished" /\ UpdateNormalGoal(Kept, near)
    BY <1>4 DEF RampDownToNormal, FinishRampDown
  <2>2. pending' = "NormalRunning"
    BY <1>4, <2>1, RequestAccepted, SuccessorsAre DEF RampDownToNormal
  <2>3. /\ active' <=> current' # <<>>
        /\ active' => motion'.op = "normal" /\ motion'.dur = Larger(1, internal'.dur)
    BY <1>0, <2>1, FinishRampDownType, UpdateNormalGoalType
  <2>. QED
    BY <2>1, <2>2, <2>3 DEF ControlInv, IdleIsEmpty, NormalInv,
       RampDownInv, StaticGoalInv, StaticGoalStates, GoalTimesInterpolation,
       Executing, InterruptedPointKept
<1>. QED
  BY <1>1, <1>2, <1>3, <1>4 DEF RampDownTick

\* A tick of the static goal keeps the trajectories out of execution.
LEMMA StaticGoalTickInv ==
  ASSUME InductiveInvariant, StaticGoalTick
  PROVE  ControlInv'
<1>0. TypeOK
  BY DEF InductiveInvariant
<1>1. CASE StaticGoalStart
  <2>1. EntryState = "StaticNone" /\ state' = "StaticNone"
    BY <1>1 DEF StaticGoalStart, Continue
  <2>2. state = "RampDownFinished" /\ pending = "StaticNone"
    BY <2>1, EntryStateIs
  <2>3. motion.op = "stop" /\ DurationReached
    BY <2>2 DEF InductiveInvariant, ControlInv, RampDownInv
  <2>4. pending' = "StaticRunning" /\ current' = <<>> /\ active' = FALSE
        /\ motion' = motion /\ passed' = passed
    BY <1>1, <2>1, RequestAccepted, SuccessorsAre DEF StaticGoalStart
  <2>. QED
    BY <2>1, <2>3, <2>4, SuccessorsAre DEF ControlInv, IdleIsEmpty, NormalInv, RampDownInv,
       StaticGoalInv, StaticGoalStates, GoalTimesInterpolation, DurationReached,
       Executing, InterruptedPointKept, RampDownStates
<1>2. CASE StaticGoalRun
  <2>1. EntryState = "StaticRunning" /\ state' = "StaticRunning" /\ current' = current
    BY <1>2 DEF StaticGoalRun, Continue, queues
  <2>2. state \in {"StaticNone", "StaticRunning"}
    BY <2>1, EntryStateIs
  <2>3. current = <<>> /\ (active => motion.op \in {"position", "velocity"})
    BY <2>2 DEF InductiveInvariant, ControlInv, StaticGoalInv, StaticGoalStates
  <2>4. active' => motion'.op \in {"position", "velocity"}
    <3>1. FollowStaticGoal("position") \/ FollowStaticGoal("velocity") \/ KeepGoal
      BY <1>2 DEF StaticGoalRun
    <3>2. ASSUME NEW op \in {"position", "velocity"}, FollowStaticGoal(op)
          PROVE  motion'.op = op
      BY <3>2 DEF FollowStaticGoal, Interpolate
    <3>. QED
      BY <2>3, <3>1, <3>2 DEF KeepGoal
  <2>5. pending' \in Successors["StaticRunning"] \cup {"none"}
    BY <1>2, <2>1 DEF StaticGoalRun, SetPending
  <2>. QED
    BY <2>1, <2>3, <2>4, <2>5 DEF ControlInv, IdleIsEmpty, NormalInv, RampDownInv,
       StaticGoalInv, StaticGoalStates, GoalTimesInterpolation,
       Executing, InterruptedPointKept, RampDownStates
<1>3. CASE StaticGoalFinish
  <2>1. EntryState = "StaticFinished" /\ state' = "StaticFinished"
        /\ UNCHANGED <<current, active, motion>>
    BY <1>3 DEF StaticGoalFinish, Continue, queues, KeepGoal
  <2>2. state = "StaticRunning"
    BY <2>1, EntryStateIs
  <2>3. current = <<>> /\ (active => motion.op \in {"position", "velocity"})
    BY <2>2 DEF InductiveInvariant, ControlInv, StaticGoalInv, StaticGoalStates
  <2>4. pending' = "RampDownNone"
    BY <1>3, <2>1, RequestAccepted, SuccessorsAre DEF StaticGoalFinish
  <2>5. events'.do_stop
    BY <1>0, <1>3 DEF StaticGoalFinish, TypeOK, Events
  <2>. QED
    BY <2>1, <2>3, <2>4, <2>5, SuccessorsAre DEF ControlInv, IdleIsEmpty, NormalInv,
       RampDownInv, StaticGoalInv, StaticGoalStates, GoalTimesInterpolation,
       Executing, InterruptedPointKept, RampDownStates
<1>. QED
  BY <1>1, <1>2, <1>3 DEF StaticGoalTick

\* The first message of a session and the loss of one leave a Normal state.
LEMMA SessionChangeInv ==
  ASSUME InductiveInvariant, NEW near, SessionChange(near)
  PROVE  ControlInv'
<1>0. TypeOK
  BY DEF InductiveInvariant
<1>1. CASE NewSessionNotOk \/ SessionLost
  BY <1>1 DEF NewSessionNotOk, SessionLost, ControlInv, IdleIsEmpty, NormalInv,
     RampDownInv, StaticGoalInv, StaticGoalStates, GoalTimesInterpolation, Executing,
     InterruptedPointKept, RampDownStates
<1>2. CASE NewSessionRest
  <2>1. pending' \in {"none", "RampDownNone"}
    BY <1>2 DEF NewSessionRest, SetPending
  <2>. QED
    BY <1>2, <2>1 DEF NewSessionRest, ControlInv, IdleIsEmpty, NormalInv,
       RampDownInv, StaticGoalInv, StaticGoalStates, GoalTimesInterpolation, Executing,
       InterruptedPointKept, RampDownStates
<1>3. CASE NewSessionNextTrajectory(near)
  <2>1. /\ active' <=> current' # <<>>
        /\ active' => motion'.op = "normal" /\ motion'.dur = Larger(1, internal'.dur)
    BY <1>0, <1>3, NewTrajectoryType
  <2>2. state' = "NormalRunning" /\ pending' = "none"
    BY <1>3 DEF NewSessionNextTrajectory
  <2>. QED
    BY <2>1, <2>2 DEF ControlInv, IdleIsEmpty, NormalInv,
       RampDownInv, StaticGoalInv, StaticGoalStates, GoalTimesInterpolation, Executing,
       InterruptedPointKept, RampDownStates
<1>4. CASE SessionIdle
  BY <1>4 DEF SessionIdle, InductiveInvariant, ControlInv, IdleIsEmpty, NormalInv,
     RampDownInv, StaticGoalInv, GoalTimesInterpolation, Executing, DurationReached,
     InterruptedPointKept, manager, queues, goal
<1>. QED
  BY <1>1, <1>2, <1>3, <1>4 DEF SessionChange

\* A call changes events and queues only, and do_stop only while nothing is
\* ramping down.
LEMMA UserCallInv ==
  ASSUME InductiveInvariant, UserCall
  PROVE  ControlInv'
<1>1. UNCHANGED <<state, pending, active, current, external, internal, motion, passed>>
  BY DEF UserCall, AddTrajectory, OverrideTrajectories, StopTrajectory, StartStaticGoal,
     ResumeTrajectory, UpdateDurationFactor, SetStaticGoal, FinishStaticGoal,
     RetrieveExecutionProgress, Order, manager, goal, queues
<1>2. state \notin {"NormalRunning", "StaticRunning"} => events'.do_stop = events.do_stop
  <2>1. TypeOK
    BY DEF InductiveInvariant
  <2>2. CASE ResumeTrajectory
    BY <2>1, <2>2 DEF ResumeTrajectory, TypeOK, Events
  <2>3. CASE RetrieveExecutionProgress
    BY <2>3 DEF RetrieveExecutionProgress
  <2>. QED
    BY <2>2, <2>3 DEF UserCall, AddTrajectory, OverrideTrajectories, StopTrajectory,
       StartStaticGoal, UpdateDurationFactor, SetStaticGoal, FinishStaticGoal, Order
<1>. QED
  BY <1>1, <1>2 DEF InductiveInvariant, ControlInv, IdleIsEmpty, NormalInv,
     RampDownInv, StaticGoalInv, StaticGoalStates, GoalTimesInterpolation, Executing,
     DurationReached, InterruptedPointKept, RampDownStates

LEMMA InvariantInit == Init => InductiveInvariant
  BY TypeInit DEF Init, InductiveInvariant, ControlInv, IdleIsEmpty, NormalInv, RampDownInv,
     StaticGoalInv, StaticGoalStates, GoalTimesInterpolation, Executing,
     InterruptedPointKept

LEMMA InvariantStep ==
  InductiveInvariant /\ [Next]_vars => InductiveInvariant'
<1>. SUFFICES ASSUME InductiveInvariant, [Next]_vars
              PROVE  InductiveInvariant'
  OBVIOUS
<1>1. TypeOK'
  BY TypeStep DEF InductiveInvariant
<1>2. ControlInv'
  <2>1. ASSUME NEW near \in SUBSET (1 .. MaxPoints), Tick(near)
        PROVE  ControlInv'
    BY <2>1, NormalTickInv, RampDownTickInv, StaticGoalTickInv DEF Tick
  <2>2. ASSUME NEW near \in SUBSET (1 .. MaxPoints), SessionChange(near)
        PROVE  ControlInv'
    BY <2>2, SessionChangeInv
  <2>3. CASE UserCall
    BY <2>3, UserCallInv
  <2>4. CASE UNCHANGED vars
    BY <2>4 DEF vars, InductiveInvariant, ControlInv, IdleIsEmpty, NormalInv,
       RampDownInv, StaticGoalInv, GoalTimesInterpolation, Executing,
       DurationReached, InterruptedPointKept
  <2>. QED
    BY <2>1, <2>2, <2>3, <2>4 DEF Next, Loop
<1>. QED
  BY <1>1, <1>2 DEF InductiveInvariant

\* The strengthening holds in every behaviour: pending state, motion, goal and
\* current trajectory fit together, whatever is called between which messages.
THEOREM InductiveInvariantHolds == Spec => []InductiveInvariant
  BY InvariantInit, InvariantStep, PTL DEF Spec

----------------------------------------------------------------------------
(* What follows from it                                                    *)

\* A static goal is only entered from standstill: the motion that ends before
\* processStaticGoalState takes over is a complete stop that is over.
THEOREM StaticGoalFromStandstillHolds == Spec => []StaticGoalFromStandstill
<1>1. InductiveInvariant => StaticGoalFromStandstill
  <2>. SUFFICES ASSUME InductiveInvariant,
                       pending = "StaticNone" \/ state = "StaticNone"
                PROVE  motion.op = "stop" /\ DurationReached
    BY DEF StaticGoalFromStandstill
  <2>1. TypeOK /\ IdleIsEmpty /\ NormalInv /\ RampDownInv /\ StaticGoalInv
    BY DEF InductiveInvariant, ControlInv
  <2>2. CASE state = "StaticNone"
    BY <2>1, <2>2 DEF StaticGoalInv
  <2>3. CASE pending = "StaticNone"
    <3>1. state = "RampDownFinished"
      BY <2>1, <2>3 DEF TypeOK, IdleIsEmpty, NormalInv, RampDownInv, StaticGoalInv,
         States, NormalStates, RampDownStates, StaticGoalStates, Successors
    <3>. QED
      BY <2>1, <2>3, <3>1 DEF RampDownInv
  <2>. QED
    BY <2>2, <2>3
<1>. QED
  BY <1>1, InductiveInvariantHolds, PTL

\* Waiting for a resume order means standing still, whichever calls came in
\* between: processRampDownState never waits at the end of a slow-down.
THEOREM WaitingIsStandstillHolds == Spec => []WaitingIsStandstill
<1>1. InductiveInvariant => WaitingIsStandstill
  BY DEF InductiveInvariant, ControlInv, RampDownInv, WaitingIsStandstill
<1>. QED
  BY <1>1, InductiveInvariantHolds, PTL

\* has_active_goal and p_current go together in the Normal state, so that
\* storeNormalGoal never stores a point that was not taken out.
THEOREM GoalTracksTrajectoryHolds == Spec => []GoalTracksTrajectory
<1>1. InductiveInvariant => GoalTracksTrajectory
  BY DEF InductiveInvariant, ControlInv, IdleIsEmpty, NormalInv, GoalTracksTrajectory,
     NormalStates
<1>. QED
  BY <1>1, InductiveInvariantHolds, PTL

\* During a ramp down the interrupted point is the first of the trajectory that
\* a resume takes up again.
THEOREM InterruptedPointKeptHolds == Spec => []InterruptedPointKept
<1>1. InductiveInvariant => InterruptedPointKept
  BY DEF InductiveInvariant, ControlInv
<1>. QED
  BY <1>1, InductiveInvariantHolds, PTL

\* No trajectory is in execution during a static goal.
THEOREM StaticGoalHoldsQueueHolds == Spec => []StaticGoalHoldsQueue
<1>1. InductiveInvariant => StaticGoalHoldsQueue
  BY DEF InductiveInvariant, ControlInv, StaticGoalInv, StaticGoalHoldsQueue,
     StaticGoalStates, Executing
<1>. QED
  BY <1>1, InductiveInvariantHolds, PTL

\* The interpolation of an executed goal and the goal have the same duration, so
\* that what storeNormalGoal puts back is what is left of the interpolation.
THEOREM GoalTimesInterpolationHolds == Spec => []GoalTimesInterpolation
<1>1. InductiveInvariant => GoalTimesInterpolation
  BY DEF InductiveInvariant, ControlInv
<1>. QED
  BY <1>1, InductiveInvariantHolds, PTL
===============================================================================
