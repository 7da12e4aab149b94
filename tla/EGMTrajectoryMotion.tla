------------------------ MODULE EGMTrajectoryMotion ------------------------
(***************************************************************************)
(* EGMTrajectoryInterface::TrajectoryMotion of abb_libegm: the execution   *)
(* of queued trajectories inside the EGM communication loop.               *)
(*                                                                         *)
(* Two kinds of actors share the object.  The communication loop calls     *)
(* generateOutputs() once per message of the robot controller, a "tick".   *)
(* User threads call the methods that order motions.  Every method holds   *)
(* data_.mutex for its whole body, so a tick and a call are each one step; *)
(* what interleaves is the order of calls between ticks, and a call can    *)
(* land between the tick that requests a state and the tick that enters it.*)
(*                                                                         *)
(* Time is counted in samples of LOWEST_SAMPLE_TIME.  Positions,           *)
(* velocities and splines are left out; of a goal point the model keeps    *)
(* its identity, its reach condition and its duration.                     *)
(***************************************************************************)
EXTENDS Integers, Sequences

CONSTANTS
  Calls,          \* the user methods the application calls
  Trajectories,   \* the trajectories it orders, sequences of [reach, dur]
  Factors,        \* the factors it passes to updateDurationFactor
  FactorMin,      \* DURATION_FACTOR_MIN
  FactorMax,      \* DURATION_FACTOR_MAX
  StopDuration,   \* RAMP_DOWN_STOP_DURATION, a complete stop
  SlowDuration,   \* RAMP_DOWN_STOP_DURATION / 2, down to half of the velocity
  MaxPoints,      \* bound: points ordered in a behaviour
  MaxSessions     \* bound: first messages of an EGM session in a behaviour

AllCalls == {"addTrajectory", "overrideTrajectories", "stopTrajectory",
             "discardTrajectories", "resumeTrajectory", "updateDurationFactor",
             "startStaticGoal", "setStaticGoal", "setStaticGoalFast",
             "finishStaticGoal", "retrieveExecutionProgress"}

ASSUME CallsAssumption == Calls \subseteq AllCalls
ASSUME TrajectoriesAssumption ==
  Trajectories \subseteq Seq([reach : BOOLEAN, dur : Nat])
ASSUME DurationsAssumption ==
  /\ Factors \subseteq Nat
  /\ FactorMin \in Nat \ {0} /\ FactorMax \in Nat /\ FactorMin <= FactorMax
  /\ StopDuration \in Nat \ {0} /\ SlowDuration \in Nat \ {0}
ASSUME BoundsAssumption == MaxPoints \in Nat /\ MaxSessions \in Nat

VARIABLES
  state,      \* StateManager: current_state_ and current_sub_state_
  pending,    \* StateManager: the pending pair, or "none"
  events,     \* DecisionData::PendingEvents
  active,     \* DecisionData::has_active_goal
  updated,    \* DecisionData::has_updated_execution_progress
  current,    \* p_current: <<>> when null, else <<the trajectory>>
  primary,    \* primary_queue, a sequence of trajectories
  temporary,  \* temporary_queue, a sequence of trajectories
  external,   \* MotionStep::external_goal, the point last retrieved
  internal,   \* MotionStep::internal_goal, its reach and its scaled duration
  motion,     \* the interpolator: its operation and its duration
  passed,     \* MotionStep::data.time_passed
  factor,     \* MotionStep::data.duration_factor
  sessions,   \* first messages received so far
  issued      \* points ordered so far; a point's id is its number

manager == <<state, pending>>
goal == <<external, internal>>
queues == <<current, primary, temporary>>
counters == <<sessions, issued>>
vars == <<state, pending, events, active, updated, current, primary, temporary,
          external, internal, motion, passed, factor, sessions, issued>>

----------------------------------------------------------------------------
(* States and data                                                         *)

\* (state, sub state) pairs that occur; (Normal, None) is the idle manager.
NormalStates == {"NormalNone", "NormalRunning"}
RampDownStates == {"RampDownNone", "RampDownRunning", "RampDownFinished"}
StaticGoalStates == {"StaticNone", "StaticRunning", "StaticFinished"}
States == NormalStates \cup RampDownStates \cup StaticGoalStates

\* Mutant: the end of a ramp down is not a successor of its run.
SuccessorsNoFinish ==
  [s \in States |-> IF s = "NormalRunning" THEN {"RampDownNone"}
                    ELSE IF s = "RampDownNone" THEN {"RampDownRunning"} ELSE {}]

\* Mutant: a static goal that is told to finish cannot.
SuccessorsNoStaticFinish ==
  [s \in States |->
     CASE s = "NormalNone" -> {}
       [] s \in {"NormalRunning", "StaticRunning", "StaticFinished"} -> {"RampDownNone"}
       [] s = "RampDownNone"     -> {"RampDownRunning"}
       [] s = "RampDownRunning"  -> {"RampDownFinished"}
       [] s = "RampDownFinished" -> {"NormalRunning", "StaticNone"}
       [] s = "StaticNone"       -> {"StaticRunning"}]

\* The pending states that setPendingState accepts in each state.
Successors ==
  [s \in States |->
     CASE s = "NormalNone"       -> {}
       [] s = "NormalRunning"    -> {"RampDownNone"}
       [] s = "RampDownNone"     -> {"RampDownRunning"}
       [] s = "RampDownRunning"  -> {"RampDownFinished"}
       [] s = "RampDownFinished" -> {"NormalRunning", "StaticNone"}
       [] s = "StaticNone"       -> {"StaticRunning"}
       [] s = "StaticRunning"    -> {"StaticFinished", "RampDownNone"}
       [] s = "StaticFinished"   -> {"RampDownNone"}]

\* setPendingState after updateState has consumed any earlier request: a
\* request that is not accepted leaves the manager without a pending state.
SetPending(s) ==
  pending' = IF s \in Successors[state'] THEN s ELSE "none"

Points == [id : Nat, reach : BOOLEAN, dur : Nat]
NoPoint == [id |-> 0, reach |-> FALSE, dur |-> 0]
Operations == {"none", "normal", "stop", "slow", "position", "velocity"}

Events ==
  [do_stop : BOOLEAN, do_resume : BOOLEAN, do_discard : BOOLEAN,
   do_ramp_down : BOOLEAN, do_static_goal_start : BOOLEAN,
   do_static_position_goal_update : BOOLEAN,
   do_static_velocity_goal_update : BOOLEAN,
   do_static_goal_finish : BOOLEAN,
   do_duration_factor_update : BOOLEAN, duration_factor : Nat \ {0}]

NoEvents ==
  [do_stop |-> FALSE, do_resume |-> FALSE, do_discard |-> FALSE,
   do_ramp_down |-> FALSE, do_static_goal_start |-> FALSE,
   do_static_position_goal_update |-> FALSE,
   do_static_velocity_goal_update |-> FALSE,
   do_static_goal_finish |-> FALSE,
   do_duration_factor_update |-> FALSE, duration_factor |-> 1]

Larger(a, b) == IF a >= b THEN a ELSE b
Saturate(f) == IF f < FactorMin THEN FactorMin
               ELSE IF f > FactorMax THEN FactorMax ELSE f

\* The points of an ordered trajectory: numbered in the order of their arrival.
Numbered(t) == [i \in DOMAIN t |-> [id |-> issued + i, reach |-> t[i].reach,
                                    dur |-> t[i].dur]]

Init ==
  /\ state = "NormalNone" /\ pending = "none"
  /\ events = NoEvents
  /\ active = FALSE /\ updated = FALSE
  /\ current = <<>> /\ primary = <<>> /\ temporary = <<>>
  /\ external = NoPoint
  /\ internal = [reach |-> FALSE, dur |-> 0]
  /\ motion = [op |-> "none", dur |-> 0]
  /\ passed = 0
  /\ factor = 1
  /\ sessions = 0 /\ issued = 0

----------------------------------------------------------------------------
(* The pieces of a tick                                                    *)

\* storeNormalGoal: the point in execution goes back to the front of the
\* trajectory, with what is left of its scaled duration.
Stored ==
  [external EXCEPT !.dur = Larger(1, internal.dur - passed)]
\* Mutant: the goal is put behind the rest of its trajectory.
StoreAtBack == IF current = <<>> THEN <<>> ELSE << current[1] \o <<Stored>> >>
\* Mutant: the goal that was taken out is not put back.
StoreNothing == current
StoreNormalGoal ==
  IF current = <<>> THEN <<>> ELSE << <<Stored>> \o current[1] >>

\* prepareNormalGoal: the internal goal for a point; the last point of a
\* trajectory always has to be reached.
NormalGoal(point, last_point) ==
  [reach |-> point.reach \/ last_point, dur |-> factor' * point.dur]

\* The positions of a trajectory from which updateNormalGoal can pick the new
\* goal: a leading point with a reach condition is skipped, and so are those
\* behind it, as long as the feedback is already near the goal.
Eligible(t, near) ==
  {k \in DOMAIN t : t[1].reach => t[k].id \notin near}

\* The duration of an interpolation (EGMInterpolator::update) and the time
\* that evaluateInterpolator adds.  Time past both durations is never told
\* apart, so it is cut there.
\* Mutant: a duration of zero is taken as it is.
InterpolateAsGiven(op, dur) == motion' = [op |-> op, dur |-> dur]
Interpolate(op, dur) == motion' = [op |-> op, dur |-> Larger(1, dur)]
StartTime == passed' = 1
AdvanceTime ==
  passed' = IF passed < Larger(motion.dur, internal.dur) THEN passed + 1 ELSE passed
DurationReached == motion.dur <= passed

\* updateNormalGoal on the current trajectory "cur": the next goal if there is
\* one left to execute, otherwise the trajectory is dropped.
NextGoal(cur, near) ==
  /\ cur # <<>>
  /\ \E k \in Eligible(cur[1], near) :
       /\ \A j \in Eligible(cur[1], near) : k <= j
       /\ external' = cur[1][k]
       /\ internal' = NormalGoal(cur[1][k], Len(cur[1]) = 1)
       /\ current' = << SubSeq(cur[1], k + 1, Len(cur[1])) >>
  /\ active' = TRUE
  /\ Interpolate("normal", internal'.dur)
  /\ StartTime

\* All points of the trajectory t are skipped, the last one is retrieved last.
SkipAll(t) ==
  /\ external' = t[Len(t)]
  /\ internal' = NormalGoal(external', Len(t) = 1)

\* Mutant: has_active_goal is not reset.
NoGoalLeftStillActive(cur, near) ==
  /\ cur # <<>> => Eligible(cur[1], near) = {}
  /\ IF cur # <<>> /\ cur[1] # <<>> THEN SkipAll(cur[1]) ELSE UNCHANGED goal
  /\ current' = <<>>
  /\ UNCHANGED <<active, motion, passed>>

\* Mutant: the trajectory that is done stays the current one.
NoGoalLeftStays(cur, near) ==
  /\ cur # <<>> => Eligible(cur[1], near) = {}
  /\ IF cur # <<>> /\ cur[1] # <<>> THEN SkipAll(cur[1]) ELSE UNCHANGED goal
  /\ current' = IF cur = <<>> THEN <<>> ELSE << <<>> >>
  /\ active' = FALSE
  /\ UNCHANGED <<motion, passed>>

NoGoalLeft(cur, near) ==
  /\ cur # <<>> => Eligible(cur[1], near) = {}
  /\ IF cur # <<>> /\ cur[1] # <<>> THEN SkipAll(cur[1]) ELSE UNCHANGED goal
  /\ current' = <<>>
  /\ active' = FALSE
  /\ UNCHANGED <<motion, passed>>

UpdateNormalGoal(cur, near) == NextGoal(cur, near) \/ NoGoalLeft(cur, near)

\* Keep on evaluating the goal there is, if there is one.
KeepGoal ==
  /\ IF active THEN AdvanceTime ELSE UNCHANGED passed
  /\ UNCHANGED <<goal, motion, active>>

----------------------------------------------------------------------------
(* Ticks: generateOutputs() with the session's states ok.  Each action      *)
(* below is a whole call: prepare, updateState, the handler of the state    *)
(* entered, the interpolator and the execution progress.                    *)

\* The state the handler of this tick runs in: activated if the manager is
\* idle, else the pending one.
EntryState ==
  IF pending # "none" THEN pending
  ELSE IF state = "NormalNone" THEN "NormalRunning" ELSE state

\* A message that is not the first of a session, with the states ok.
Continue ==
  /\ sessions > 0
  /\ state' = EntryState
  /\ updated' = TRUE
  /\ UNCHANGED counters

\* Normal, Running with a ramp down ordered: the goal is still evaluated once
\* more, the ramp down starts with the next tick.
NormalBeginRampDown ==
  /\ Continue /\ state' = "NormalRunning"
  /\ events.do_ramp_down
  /\ SetPending("RampDownNone")
  /\ KeepGoal
  /\ UNCHANGED <<events, queues, factor>>

\* Normal, Running with a goal whose duration is not over, or whose reach
\* condition is not met by the feedback.
NormalFollowGoal(near) ==
  /\ Continue /\ state' = "NormalRunning" /\ pending' = "none"
  /\ ~events.do_ramp_down
  /\ current # <<>>
  /\ DurationReached => internal.reach /\ external.id \notin near
  /\ KeepGoal
  /\ UNCHANGED <<events, queues, factor>>

\* Normal, Running with a goal that is done.
NormalNextGoal(near) ==
  /\ Continue /\ state' = "NormalRunning" /\ pending' = "none"
  /\ ~events.do_ramp_down
  /\ current # <<>>
  /\ DurationReached
  /\ internal.reach => external.id \in near
  /\ UNCHANGED factor
  /\ UpdateNormalGoal(current, near)
  /\ UNCHANGED <<events, primary, temporary>>

\* Normal, Running without a trajectory: take the next one of the queue.
NormalNextTrajectory(near) ==
  /\ Continue /\ state' = "NormalRunning" /\ pending' = "none"
  /\ ~events.do_ramp_down
  /\ current = <<>> /\ primary # <<>>
  /\ primary' = Tail(primary)
  /\ UNCHANGED factor
  /\ UpdateNormalGoal(<<Head(primary)>>, near)
  /\ UNCHANGED <<events, temporary>>

\* Normal, Running with nothing to do.
NormalRest ==
  /\ Continue /\ state' = "NormalRunning" /\ pending' = "none"
  /\ ~events.do_ramp_down
  /\ current = <<>> /\ primary = <<>>
  /\ KeepGoal
  /\ UNCHANGED <<events, queues, factor>>

\* Mutant: the slow-down is taken for the complete stop.
RampDownStartSwapped ==
  /\ Continue /\ state' = "RampDownNone"
  /\ current' = IF active THEN StoreNormalGoal ELSE current
  /\ active' = TRUE
  /\ IF events.do_stop THEN Interpolate("slow", SlowDuration)
                       ELSE Interpolate("stop", StopDuration)
  /\ StartTime
  /\ SetPending("RampDownRunning")
  /\ UNCHANGED <<events, primary, temporary, goal, factor>>

\* RampDown, None: put the active goal back and ramp down from it.
RampDownStart ==
  /\ Continue /\ state' = "RampDownNone"
  /\ current' = IF active THEN StoreNormalGoal ELSE current
  /\ active' = TRUE
  /\ IF events.do_stop THEN Interpolate("stop", StopDuration)
                       ELSE Interpolate("slow", SlowDuration)
  /\ StartTime
  /\ SetPending("RampDownRunning")
  /\ UNCHANGED <<events, primary, temporary, goal, factor>>

RampDownRun ==
  /\ Continue /\ state' = "RampDownRunning"
  /\ IF DurationReached THEN SetPending("RampDownFinished") ELSE pending' = "none"
  /\ KeepGoal
  /\ UNCHANGED <<events, queues, factor>>

\* RampDown, Finished begins by carrying out a pending duration factor update
\* and a pending discard, which replaces the trajectories by the temporary ones.
FinishRampDown ==
  /\ Continue /\ state' = "RampDownFinished"
  /\ factor' = IF events.do_duration_factor_update
                 THEN events.duration_factor ELSE factor
  /\ IF events.do_discard
       THEN primary' = temporary /\ temporary' = <<>>
       ELSE UNCHANGED <<primary, temporary>>

Kept == IF events.do_discard THEN <<>> ELSE current
Handled == [events EXCEPT !.do_duration_factor_update = FALSE,
                          !.do_discard = FALSE]

\* Mutant: every ramp down waits for a resume order.
RampDownWaitAlways ==
  /\ FinishRampDown
  /\ ~events.do_resume
  /\ events' = Handled
  /\ current' = Kept
  /\ pending' = "none"
  /\ KeepGoal

\* Mutant: a complete stop waits whether or not a resume order has come.
RampDownWaitOn ==
  /\ FinishRampDown
  /\ events.do_stop
  /\ events' = Handled
  /\ current' = Kept
  /\ pending' = "none"
  /\ KeepGoal

\* A complete stop waits for a resume order.
RampDownWait ==
  /\ FinishRampDown
  /\ events.do_stop /\ ~events.do_resume
  /\ events' = Handled
  /\ current' = Kept
  /\ pending' = "none"
  /\ KeepGoal

\* Mutant: a static goal is entered without a complete stop.
RampDownToStaticGoalUnstopped ==
  /\ FinishRampDown
  /\ events.do_resume /\ events.do_static_goal_start
  /\ events' = [Handled EXCEPT !.do_ramp_down = FALSE, !.do_stop = FALSE,
                               !.do_resume = FALSE]
  /\ current' = Kept
  /\ KeepGoal
  /\ SetPending("StaticNone")

\* Resume after a complete stop, into the static goal if one was ordered.
RampDownToStaticGoal ==
  /\ FinishRampDown
  /\ events.do_stop /\ events.do_resume /\ events.do_static_goal_start
  /\ events' = [Handled EXCEPT !.do_ramp_down = FALSE, !.do_stop = FALSE,
                               !.do_resume = FALSE]
  /\ current' = Kept
  /\ SetPending("StaticNone")
  /\ KeepGoal

RampDownToNormal(near) ==
  /\ FinishRampDown
  /\ \/ /\ events.do_stop /\ events.do_resume /\ ~events.do_static_goal_start
        /\ events' = [Handled EXCEPT !.do_ramp_down = FALSE, !.do_stop = FALSE,
                                     !.do_resume = FALSE]
     \/ /\ ~events.do_stop
        /\ events' = [Handled EXCEPT !.do_ramp_down = FALSE]
  /\ UpdateNormalGoal(Kept, near)
  /\ SetPending("NormalRunning")

\* Mutant: the current trajectory is put behind the others.
StaticGoalStartBehind ==
  /\ Continue /\ state' = "StaticNone"
  /\ primary' = primary \o current /\ current' = <<>>
  /\ active' = FALSE
  /\ SetPending("StaticRunning")
  /\ UNCHANGED <<events, temporary, goal, motion, passed, factor>>

\* Mutant: the current trajectory stays current.
StaticGoalStartKeeps ==
  /\ Continue /\ state' = "StaticNone"
  /\ active' = FALSE
  /\ SetPending("StaticRunning")
  /\ UNCHANGED <<events, queues, goal, motion, passed, factor>>

\* StaticGoal, None: put the current trajectory back into the queue.
StaticGoalStart ==
  /\ Continue /\ state' = "StaticNone"
  /\ primary' = current \o primary /\ current' = <<>>
  /\ active' = FALSE
  /\ SetPending("StaticRunning")
  /\ UNCHANGED <<events, temporary, goal, motion, passed, factor>>

\* prepareStaticGoal and the interpolator's update.  The internal goal is a
\* copy of the interpolation, whose duration is the one of the last motion; how
\* long a static goal ramps in is never looked at again and left out.
FollowStaticGoal(op) ==
  /\ active' = TRUE
  /\ internal' = [internal EXCEPT !.dur = motion.dur]
  /\ Interpolate(op, 1)
  /\ StartTime
  /\ UNCHANGED external

StaticGoalRun ==
  /\ Continue /\ state' = "StaticRunning"
  /\ \/ /\ events.do_static_position_goal_update /\ ~events.do_ramp_down
        /\ events' = [events EXCEPT !.do_static_position_goal_update = FALSE]
        /\ FollowStaticGoal("position")
     \/ /\ ~events.do_static_position_goal_update
        /\ events.do_static_velocity_goal_update /\ ~events.do_ramp_down
        /\ events' = [events EXCEPT !.do_static_velocity_goal_update = FALSE]
        /\ FollowStaticGoal("velocity")
     \/ /\ \/ events.do_ramp_down
           \/ /\ ~events.do_static_position_goal_update
              /\ ~events.do_static_velocity_goal_update
        /\ KeepGoal
        /\ UNCHANGED events
  /\ IF events.do_static_goal_finish THEN SetPending("StaticFinished")
     ELSE IF events.do_ramp_down THEN SetPending("RampDownNone")
     ELSE pending' = "none"
  /\ UNCHANGED <<queues, factor>>

StaticGoalFinish ==
  /\ Continue /\ state' = "StaticFinished"
  /\ events' = [events EXCEPT !.do_static_goal_start = FALSE,
                              !.do_static_goal_finish = FALSE,
                              !.do_static_position_goal_update = FALSE,
                              !.do_static_velocity_goal_update = FALSE,
                              !.do_ramp_down = TRUE, !.do_stop = TRUE]
  /\ SetPending("RampDownNone")
  /\ KeepGoal
  /\ UNCHANGED <<queues, factor>>

----------------------------------------------------------------------------
(* Ticks that start or lose a session                                      *)

\* resetMotionStep
ResetGoals ==
  /\ external' = NoPoint
  /\ internal' = [reach |-> FALSE, dur |-> 0]
  /\ UNCHANGED <<motion, factor>>

\* resetTrajectoryMotion: an active trajectory goes back to the queue, its
\* goal stored in front.  The pending events stay as they are.
Returned == StoreNormalGoal \o primary

\* The first message of a session: with the states not ok only the resets
\* happen, otherwise the tick goes on with Normal, Running.
FirstMessage ==
  /\ sessions < MaxSessions
  /\ sessions' = sessions + 1
  /\ updated' = TRUE
  /\ UNCHANGED <<events, issued>>

NewSessionNotOk ==
  /\ FirstMessage
  /\ state' = "NormalNone" /\ pending' = "none"
  /\ primary' = Returned /\ current' = <<>>
  /\ active' = FALSE
  /\ passed' = 0
  /\ ResetGoals
  /\ UNCHANGED temporary

NewSessionRest ==
  /\ FirstMessage
  /\ state' = "NormalRunning"
  /\ events.do_ramp_down \/ Returned = <<>>
  /\ IF events.do_ramp_down THEN SetPending("RampDownNone") ELSE pending' = "none"
  /\ primary' = Returned /\ current' = <<>>
  /\ active' = FALSE
  /\ passed' = 0
  /\ ResetGoals
  /\ UNCHANGED temporary

NewSessionNextTrajectory(near) ==
  /\ FirstMessage
  /\ state' = "NormalRunning" /\ pending' = "none"
  /\ ~events.do_ramp_down /\ Returned # <<>>
  /\ primary' = Tail(Returned)
  /\ UNCHANGED <<temporary, factor>>
  /\ \/ NextGoal(<<Head(Returned)>>, near)
     \/ /\ Eligible(Head(Returned), near) = {}
        /\ IF Head(Returned) # <<>>
             THEN SkipAll(Head(Returned))
             ELSE external' = NoPoint /\ internal' = [reach |-> FALSE, dur |-> 0]
        /\ current' = <<>>
        /\ active' = FALSE
        /\ passed' = 0
        /\ UNCHANGED motion

\* A later message with the states not ok: an active manager is reset and all
\* the trajectories are removed; an idle one stays idle.
SessionLost ==
  /\ sessions > 0
  /\ state # "NormalNone"
  /\ state' = "NormalNone" /\ pending' = "none"
  /\ current' = <<>> /\ primary' = <<>> /\ temporary' = <<>>
  /\ active' = FALSE
  /\ passed' = 0
  /\ ResetGoals
  /\ updated' = TRUE
  /\ UNCHANGED <<events, counters>>

SessionIdle ==
  /\ sessions > 0
  /\ state = "NormalNone"
  /\ updated' = TRUE
  /\ UNCHANGED <<manager, events, active, queues, goal, motion, passed, factor,
                 counters>>

----------------------------------------------------------------------------
(* User calls that are accepted.  A call that is not accepted, because the  *)
(* state is another one, changes nothing.                                   *)

Order(call, accepting) ==
  /\ call \in Calls
  /\ state = accepting
  /\ UNCHANGED <<manager, active, updated, current, goal, motion, passed,
                 factor, sessions>>

\* The points of t are numbered; an empty trajectory uses up a number as well,
\* so that MaxPoints bounds the trajectories too.
Issue(t) ==
  /\ issued + Larger(1, Len(t)) <= MaxPoints
  /\ issued' = issued + Larger(1, Len(t))

AddTrajectory(t) ==
  /\ Order("addTrajectory", "NormalRunning")
  /\ Issue(t)
  /\ IF events.do_discard
       THEN temporary' = Append(temporary, Numbered(t)) /\ UNCHANGED primary
       ELSE primary' = Append(primary, Numbered(t)) /\ UNCHANGED temporary
  /\ UNCHANGED events

\* Mutant: an override does not resume.
OverrideWithoutResume(t) ==
  /\ Order("overrideTrajectories", "NormalRunning")
  /\ Issue(t)
  /\ temporary' = <<Numbered(t)>>
  /\ events' = [events EXCEPT !.do_ramp_down = TRUE, !.do_stop = TRUE,
                              !.do_discard = TRUE]
  /\ UNCHANGED primary

\* addTrajectory with override_trajectories
OverrideTrajectories(t) ==
  /\ Order("overrideTrajectories", "NormalRunning")
  /\ Issue(t)
  /\ temporary' = <<Numbered(t)>>
  /\ events' = [events EXCEPT !.do_ramp_down = TRUE, !.do_stop = TRUE,
                              !.do_discard = TRUE, !.do_resume = TRUE]
  /\ UNCHANGED primary

StopTrajectory(discard) ==
  /\ Order(IF discard THEN "discardTrajectories" ELSE "stopTrajectory",
           "NormalRunning")
  /\ events' = [events EXCEPT !.do_ramp_down = TRUE, !.do_stop = TRUE,
                              !.do_discard = discard]
  /\ UNCHANGED <<primary, temporary, issued>>

ResumeTrajectory ==
  /\ Order("resumeTrajectory", "RampDownFinished")
  /\ events' = [events EXCEPT !.do_resume = TRUE]
  /\ UNCHANGED <<primary, temporary, issued>>

UpdateDurationFactor(f) ==
  /\ Order("updateDurationFactor", "NormalRunning")
  /\ events' = [events EXCEPT !.do_ramp_down = TRUE,
                              !.do_duration_factor_update = TRUE,
                              !.duration_factor = Saturate(f)]
  /\ UNCHANGED <<primary, temporary, issued>>

StartStaticGoal(discard) ==
  /\ Order("startStaticGoal", "NormalRunning")
  /\ events' = [events EXCEPT !.do_ramp_down = TRUE, !.do_stop = TRUE,
                              !.do_discard = discard, !.do_resume = TRUE,
                              !.do_static_goal_start = TRUE]
  /\ UNCHANGED <<primary, temporary, issued>>

\* Both overloads of setStaticGoal: a new goal replaces the other kind.
SetStaticGoal(position, fast) ==
  /\ Order(IF fast THEN "setStaticGoalFast" ELSE "setStaticGoal", "StaticRunning")
  /\ events' = [events EXCEPT !.do_ramp_down = ~fast, !.do_stop = ~fast,
                              !.do_resume = TRUE,
                              !.do_static_position_goal_update = position,
                              !.do_static_velocity_goal_update = ~position]
  /\ UNCHANGED <<primary, temporary, issued>>

FinishStaticGoal(resume) ==
  /\ Order("finishStaticGoal", "StaticRunning")
  /\ events' = [events EXCEPT !.do_static_goal_finish = TRUE,
                              !.do_resume = resume]
  /\ UNCHANGED <<primary, temporary, issued>>

\* retrieveExecutionProgress: the progress counts as updated only once.
RetrieveExecutionProgress ==
  /\ "retrieveExecutionProgress" \in Calls
  /\ updated
  /\ updated' = FALSE
  /\ UNCHANGED <<manager, events, active, queues, goal, motion, passed, factor,
                 counters>>

----------------------------------------------------------------------------
(* The specification                                                       *)

NormalTick(near) ==
  \/ NormalBeginRampDown
  \/ NormalFollowGoal(near)
  \/ NormalNextGoal(near)
  \/ NormalNextTrajectory(near)
  \/ NormalRest

RampDownTick(near) ==
  \/ RampDownStart
  \/ RampDownRun
  \/ RampDownWait
  \/ RampDownToStaticGoal
  \/ RampDownToNormal(near)

StaticGoalTick ==
  \/ StaticGoalStart
  \/ StaticGoalRun
  \/ StaticGoalFinish

\* A message within a session whose states are ok; "near" is the set of
\* ordered points whose position the feedback is at.
Tick(near) == NormalTick(near) \/ RampDownTick(near) \/ StaticGoalTick

SessionChange(near) ==
  \/ NewSessionNotOk
  \/ NewSessionRest
  \/ NewSessionNextTrajectory(near)
  \/ SessionLost
  \/ SessionIdle

UserCall ==
  \/ \E t \in Trajectories : AddTrajectory(t) \/ OverrideTrajectories(t)
  \/ \E discard \in BOOLEAN : StopTrajectory(discard) \/ StartStaticGoal(discard)
  \/ ResumeTrajectory
  \/ \E f \in Factors : UpdateDurationFactor(f)
  \/ \E position, fast \in BOOLEAN : SetStaticGoal(position, fast)
  \/ \E resume \in BOOLEAN : FinishStaticGoal(resume)
  \/ RetrieveExecutionProgress

Loop == \E near \in SUBSET (1 .. MaxPoints) : Tick(near)

Next ==
  \/ Loop
  \/ \E near \in SUBSET (1 .. MaxPoints) : SessionChange(near)
  \/ UserCall

Spec == Init /\ [][Next]_vars

\* The robot controller sends a message every few milliseconds as long as a
\* session runs, so the loop keeps ticking.  Nothing is assumed of the user,
\* nor of the order in which a session is lost and started again.
Fairness == WF_vars(Loop)

\* The robot eventually gets to the position it is sent to.
Arrival == WF_vars(Tick({external.id}))

FairSpec == Spec /\ Fairness

----------------------------------------------------------------------------
(* Properties                                                              *)

TypeOK ==
  /\ state \in States /\ pending \in States \cup {"none"}
  /\ events \in Events
  /\ active \in BOOLEAN /\ updated \in BOOLEAN
  /\ current \in Seq(Seq(Points)) /\ Len(current) <= 1
  /\ primary \in Seq(Seq(Points)) /\ temporary \in Seq(Seq(Points))
  /\ external \in Points
  /\ internal \in [reach : BOOLEAN, dur : Nat]
  /\ motion \in [op : Operations, dur : Nat]
  /\ passed \in Nat
  /\ factor \in Nat \ {0}
  /\ sessions \in 0 .. MaxSessions /\ issued \in 0 .. MaxPoints

\* The interpolator is working on a point of the current trajectory.
Executing == active /\ motion.op = "normal"

\* In the Normal state there is a current trajectory exactly when one of its
\* points is being executed: the handlers of the three states, the resets and
\* updateNormalGoal keep p_current and has_active_goal together, so that
\* storeNormalGoal never stores a point that was not taken out.
GoalTracksTrajectory ==
  state \in NormalStates =>
    /\ active <=> current # <<>>
    /\ active => motion.op = "normal"

\* While a ramp down interrupts a trajectory, the interrupted point is the
\* first of that trajectory, with its reach condition, so that a resume picks it
\* up again.
InterruptedPointKept ==
  (state \in RampDownStates /\ ~Executing /\ current # <<>>) =>
    /\ current[1] # <<>>
    /\ current[1][1].id = external.id /\ current[1][1].reach = external.reach

\* A static goal is only entered from standstill: the ramp down before it was
\* a complete stop and its duration is over ("Any current trajectory motions
\* will be stopped before starting to follow the static goal").
StaticGoalFromStandstill ==
  (pending = "StaticNone" \/ state = "StaticNone") =>
    motion.op = "stop" /\ DurationReached

\* Waiting for a resume order means standing still: do_stop as read when the
\* ramp down began is still do_stop when its end is handled.
WaitingIsStandstill ==
  (state = "RampDownFinished" /\ pending = "none") =>
    /\ events.do_stop
    /\ motion.op = "stop" /\ DurationReached

\* During a static goal no trajectory is current, so nothing of the queue can
\* be executed or discarded until the goal is left.
StaticGoalHoldsQueue ==
  state \in {"StaticRunning", "StaticFinished"} =>
    /\ current = <<>>
    /\ ~Executing

\* The duration the interpolator runs for is the one of the goal it executes;
\* storeNormalGoal computes what is left from the goal's.
GoalTimesInterpolation ==
  Executing => motion.dur = Larger(1, internal.dur)

\* A manager without a session holds no goal, no current trajectory and no
\* pending state.
IdleIsEmpty ==
  state = "NormalNone" => ~active /\ current = <<>> /\ pending = "none"

\* What every state knows of the goal and of the motion: the strengthening that
\* makes the invariants above inductive.
NormalInv ==
  state = "NormalRunning" =>
    /\ pending \in {"none", "RampDownNone"}
    /\ active <=> current # <<>>
    /\ active => motion.op = "normal"

RampDownInv ==
  /\ state \in {"RampDownNone", "RampDownRunning"} =>
       /\ active
       /\ motion.op = IF events.do_stop THEN "stop" ELSE "slow"
       /\ pending = "RampDownFinished" => DurationReached
  /\ state = "RampDownNone" => pending = "RampDownRunning"
  /\ state = "RampDownRunning" => pending \in {"none", "RampDownFinished"}
  /\ state = "RampDownFinished" =>
       \/ /\ pending = "none" /\ events.do_stop
          /\ active /\ motion.op = "stop" /\ DurationReached
       \/ /\ pending = "StaticNone"
          /\ active /\ motion.op = "stop" /\ DurationReached
       \/ /\ pending = "NormalRunning"
          /\ active <=> current # <<>>
          /\ active => motion.op = "normal"

StaticGoalInv ==
  /\ state \in StaticGoalStates => pending \in Successors[state] \cup {"none"}
  /\ state = "StaticNone" =>
       /\ pending = "StaticRunning"
       /\ motion.op = "stop" /\ DurationReached
  /\ state \in StaticGoalStates =>
       /\ current = <<>>
       /\ active => motion.op \in {"position", "velocity"}
  /\ state = "StaticFinished" => pending = "RampDownNone" /\ events.do_stop

ControlInv ==
  /\ IdleIsEmpty /\ NormalInv /\ RampDownInv /\ StaticGoalInv
  /\ GoalTimesInterpolation /\ InterruptedPointKept

InductiveInvariant == TypeOK /\ ControlInv

\* A stop that was accepted comes to a standstill, unless the session is lost.
StopCompletes ==
  (state = "NormalRunning" /\ events.do_stop)
    ~> state \in {"RampDownFinished", "NormalNone"}

\* A resume that was accepted is carried out, unless the session is lost.
ResumeCompletes ==
  (state = "RampDownFinished" /\ events.do_resume)
    ~> state \in {"NormalRunning", "StaticRunning", "NormalNone"}

\* A static goal that is ordered to finish is left.
StaticGoalFinishes ==
  (state = "StaticRunning" /\ events.do_static_goal_finish)
    ~> state \in {"RampDownFinished", "NormalRunning", "NormalNone"}

\* When the robot gets where it is sent to, and nothing interrupts the execution
\* any more, every queued trajectory gets executed to its end.
QueueDrains ==
  (Arrival /\ <>[](state = "NormalRunning" /\ ~events.do_ramp_down))
    => []<>(current = <<>> /\ primary = <<>>)
============================================================================
