------------------------- MODULE EGMTrajectoryOrder -------------------------
(***************************************************************************)
(* EGMTrajectoryMotion implements TrajectoryQueue: the deques of shared    *)
(* trajectories, the trajectory taken out of the front, the goal taken out *)
(* of that and stored back into it are one queue of trajectories.          *)
(***************************************************************************)
EXTENDS EGMTrajectoryMotion

\* What the queue tells of a point: durations change with each interruption.
Name(point) == [id |-> point.id, reach |-> point.reach]
NamedPoints(t) == [i \in DOMAIN t |-> Name(t[i])]
Named(trajectories) == [i \in DOMAIN trajectories |-> NamedPoints(trajectories[i])]

\* The point in execution has left its trajectory, that one its deque.
InExecution == IF Executing THEN << <<external>> \o current[1] >> ELSE current

Status ==
  IF state = "NormalNone" THEN "idle"
  ELSE IF state = "NormalRunning" \/ pending = "NormalRunning" THEN "running"
  ELSE "halted"

Queue == INSTANCE TrajectoryQueue WITH
  queue <- Named(InExecution \o primary),
  buffer <- Named(temporary),
  discarding <- events.do_discard,
  status <- Status,
  moving <- Executing,
  over <- Executing /\ DurationReached

\* First in, first out; no point is lost or repeated that was not executed to the
\* end of its time, skipped for its reach condition, discarded, lost with the
\* session or interrupted by a new one.  What a ramp down interrupts stays in
\* front: storeNormalGoal puts back what updateNormalGoal took out.
ImplementsQueue == Queue!Spec

=============================================================================
