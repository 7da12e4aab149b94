# A verification project for abb_wrapper

abb_wrapper drives ABB robots from ROS.  This directory holds TLA+ models of the
parts that decide when and where the robot moves, the TLC runs that check them on
small instances, and proofs, checked by TLAPS, of what holds for every value of
the constants.

## The system

| component | state | operations | talks to |
|---|---|---|---|
| `EGMTrajectoryInterface::TrajectoryMotion` (abb_libegm) | state and sub state with a pending pair; pending events; current trajectory, primary and temporary queue; goal and interpolation; duration factor | one `generateOutputs` per EGM message ("tick"); `addTrajectory`, `stopTrajectory`, `resumeTrajectory`, `updateDurationFactor`, `startStaticGoal`, `setStaticGoal`, `finishStaticGoal`, `retrieveExecutionProgress` from user threads | one mutex, held for each tick and each call |
| `EGMBaseInterface` | the message parsed last, session data, outputs and reply, active and pending configuration | callback of a message; `isConnected`, `getStatus`, `setConfiguration` from other threads | UDPServer calls it; auxiliary functions parse and convert |
| `EGMControllerInterface::ControllerMotion` | inputs and outputs with a ready flag each | `waitForMessage`, `read`, `write` of an external control loop | two mutexes and a condition variable between callback and loop |
| `UDPServer` | receive buffer, remote endpoint | one callback per datagram | asio; the robot controller |
| `EGMInterpolator` | spline, Slerp and soft-ramp coefficients, duration | `update`, `evaluate` | the tick |
| `EGMLogger` | an open CSV file | `add...`, `flush` | the callback |
| `POCOClient` (abb_librws) | HTTP session, cookies, web socket | `httpGet`, `httpPost`, `httpPut`, `httpDelete`, `webSocketConnect`, `webSocketRecieveFrame` | the controller's Robot Web Services; a mutex for HTTP, another for the web socket |
| `RWSClient`, `RWSInterface` | evaluation conditions, subscription group, log | one method per service, subscriptions, mastership, users | POCOClient |
| `RWSStateMachineInterface` | none of its own | RAPID routines, SmartGripper commands, EGM signals, watchdog, settings | RWSInterface; the RAPID program's symbols and I/O signals |
| `abb_interface` node (abb_driver) | requested and previous mode | service `abb_controller`; a loop that switches modes | RWS signals; services of the other two nodes |
| `controller_bridge` node | mode, first message flag, commands, EGM output | service `bridge_com`; a turn per EGM message | EGMControllerInterface; topics joint_states, joint_cmd |
| `OneTaskInvKin` node (abb_controllers) | step, measured and computed joints | service `inv_kin` (reset); a turn at 200 Hz | the same topics |
| `abb_interface_gripper` node | requested and last handled position of the gripper | service `gripper`; a loop that runs the SmartGripper services | RWS signals of the hand |
| RAPID data types (rws_rapid, abb_librws) | - | `constructString`, `parseString`, `getRAPIDSymbolData` of a record | RWSClient; the controller's symbols |
| `debug_rviz_tool`, robots' descriptions | - | visualisation | rviz |

What is hard about it:

- *Orders that overtake ticks.*  A tick requests a state and the next one enters
  it; user calls land in between, still see the old state and change the events
  that the new state's handler is going to read.
- *Three views of what is being executed*: `has_active_goal`, `p_current` and the
  interpolator, changed by different handlers.
- *Sessions that break.*  The first message of a session resets part of the state,
  lost states reset another part; pending events survive both.
- *Messages that get lost*, the first one of a session among them.
- *A callback, a control loop and configuration calls* with three mutexes and no
  common one.
- *Requests that may or may not have been carried out*, because their answer is
  missing, and that are repeated: by POCOClient after a server error, by
  `toggleIOSignal` until the signal reads as it should.
- *Threads that share a client* whose mutexes guard the exchanges, but not the
  conditions by which their results are evaluated.
- *Nodes that block each other* in service calls, while the arm may be guided by
  hand.

What makes it correct: a stop comes to a standstill and stays there; what is
queued is executed once and in order; a static goal begins from standstill; the
control loop never takes an old message for a new one; a session keeps one
configuration; no references are sent while the arm is guided by hand; a service
call makes the RAPID program act at most once, with the inputs of that call, and a
success that is reported is real.

## The modules

| module | models | how |
|---|---|---|
| `EGMTrajectoryMotion` | TrajectoryMotion | one action per user method and per branch of `generateOutputs` |
| `TrajectoryQueue` | what the class promises of queued points | abstract specification |
| `EGMTrajectoryOrder` | the refinement of `TrajectoryQueue` by `EGMTrajectoryMotion` | refinement mapping |
| `EGMTrajectoryUser` | the same with the user's last word ("halt" or "go") as a history | composition with a user |
| `EGMTrajectoryMotionProofs`, `EGMTrajectoryUserProofs` | - | TLAPS proofs, of the refinement of `TrajectoryQueue` too |
| `EGMInterpolator` | EGMInterpolator, the estimation of durations | pure operators, in whole numbers |
| `EGMMotionStep` | MotionStep and the Controller around EGMInterpolator | one action per kind of goal, and the tick |
| `EGMMotionStepProofs` | - | TLAPS proofs about those operators and actions |
| `EGMControllerInterface` | UDPServer's receive, EGMBaseInterface and ControllerMotion with a lossy link and a control loop | one action per stretch between two mutex operations |
| `EGMControllerInterfaceProofs` | - | TLAPS proofs |
| `AbbDriver` | abb_interface, controller_bridge, OneTaskInvKin, the RAPID program and the arm | one action per pulse, request, service call and node turn |
| `AbbDriverProofs` | - | TLAPS proofs |
| `RWSClient` | POCOClient, RWSClient, RWSInterface and Robot Web Services | one action per step of a request between which another thread can run |
| `RWSClientProofs` | - | TLAPS proofs |
| `RoutineCall` | what a service call promises | abstract specification |
| `RWSRoutines` | the services of RWSStateMachineInterface that write symbols and toggle a signal | one action per request |
| `RWSRoutinesProofs` | - | TLAPS proofs, of the refinement of `RoutineCall` too |
| `SmartGripper` | the SmartGripper services, the abb_interface_gripper node and the hand | one action per request and per turn of the loop |
| `SmartGripperProofs` | - | TLAPS proofs |
| `RAPIDData` | the text of RAPID values, and copying and reading a record | texts as sequences of tokens; two requests |
| `MC...` | - | values of the constants for TLC |

Some definitions are preceded by a variant marked "Mutant".  No specification uses
it; put in place of the definition that follows it shows that the property named
in PROJECT.json notices such a bug.

### EGMTrajectoryMotion

`state` is the pair of state and sub state (`NormalNone` is the idle manager),
`pending` the pending pair; `events` the fields of `PendingEvents`; `current`,
`primary` and `temporary` the deques.  A point keeps its identity, its reach
condition and its duration.  Whether the feedback is near a point is chosen anew
in every tick (`near`); so positions, splines and outputs need no model.  Time is
counted in samples of `LOWEST_SAMPLE_TIME`, one per tick; `passed` is cut where no
comparison can tell a difference any more.

A tick is one action: `EntryState` is what `prepare` and `updateState` make of the
pending pair, then follows one branch of a state's handler and the evaluation of
the interpolator.  `SetPending` drops a request that is not a legal successor, as
`setPendingState` does.  A tick with the states not ok, and the first message of
a session, are actions of their own (`SessionLost`, `NewSession...`).

Left out: `estimateDuration` (a goal without a duration has the one it estimates),
the ramp-in duration of a static goal, demo outputs.  What a tick sends is the
subject of `EGMMotionStep`.

### EGMInterpolator and EGMMotionStep

One axis of the robot, one external axis and the hand's orientation stand for all
of them: the code treats every axis alike and none reads another, but for
`estimateDuration`, which takes the longest.  Time is counted in samples.  The
coefficients of a spline are kept in t/T and times 6, which makes them whole;
`SplineAt` puts position, velocity and acceleration together over the denominator
`Scale(T)` and divides once, at the end, rounding down as a robot of some resolution
would.  At the ends of a spline the division is exact.  Orientations are rotations
about one axis; a quaternion is its half angle, and `h` and `h + Turn` are the two
quaternions of one orientation.  `CloseAngle` is the angle below which Slerp becomes
linear.  The cosines of the soft ramps are used where they are
0, 1/2 or 1.

`mode` and `method` are chosen once per session.  The phases follow one another as
`EGMTrajectoryMotion` allows: a goal may be interrupted in any tick by another one, a
ramp down or a static goal.  `degenerate` remembers that an orientation was given no
time, or the opposite quaternion of where the hand was; the code then divides by zero or
interpolates through zero.  Bounds: `MaxGoals` goals in a session, `Travel` on
how far a static velocity goal may lead, `LongestEstimate` on an estimated duration.

`isNormal` is `is_normal_state_`, which the Controller is given together with a new goal and
keeps until the next one.

Found while modelling: at the end of a ramp down `updateNormalGoal`
(egm_trajectory_interface.cpp:1022 and 1030) prepares the next goal in a tick whose state is
still `RampDown`, and that state is what `controller_.update` is given (l. 807).  So
`is_normal_state_` (l. 574) is false for the whole of the first goal after every ramp
down, although it is followed in the normal state: its velocities and accelerations are
ramped neither in nor out (l. 675-687, 743).  With linear splines the velocity
jumps from standstill to the slope, an angular velocity jumps with every
method, and a goal to be reached is not met at rest when its spline does not lead to rest.
The header (egm_trajectory_interface.h:1050-1053) says of the ramp out that it "is applied
for the normal execution state, and if linear interpolation or if the target is
important to reach".  `ReferencesStartSmoothly` and `GoalIsMet` state for such a goal only what
the code keeps.

Left out: the duration factor (it is in `EGMTrajectoryMotion`), and the correction `k_` of
the Controller, which is zero while the feedback is the last reference.

### EGMControllerInterface

`pc` is where the server's thread is in its callback.  `robot`, `net` are the robot
controller's numbering and the messages under way, which can get lost but, on a
direct link, arrive neither twice nor out of order.  A message is known by session,
number and time; outputs by the message they were computed from, so that old
references can be told from new ones.  `answered` is a history of the last reply.
`first_call` and `first_message`, `has_pending`, `active` and `update` are the
fields of the code.  A message may lack any part that `parse` looks for (`whole`);
one that is whole can still lack the external joint that seven axes need
(`Understood`).  `refused` is a history: whether the last first message was not
understood.  Every message has its sequence number; a missing one reads as 0, which makes
a first message of any.  `write_data_ready_` has no model, since nothing looks at it.

Found while modelling: a first message that is not understood puts the pending configuration
into force, but `prepareOutputs` runs for understood first messages only.  When
the axes have changed, every later message of the session is understood and gets an empty
reply all the same, and demo outputs are written to joints that are not there
(`DemoOutOfRange`, egm_base_interface.cpp:277; undefined behaviour, after which the
program may go on or end).  `UnderstoodIsAnswered` therefore excludes the messages after such
a first one.

Left out: datagrams that cannot be parsed as a whole, the logger, `getStatus` and
`getConfiguration` (they only read), the moment between `async_send_to` and the
transmission.

### AbbDriver

`script` is what is left of the mode switch the interface is carrying out.  A pulse
of a signal lasts half a second, in which a bridge that gets messages turns at
least once (`turned`).  RWS requests succeed (what a failing one can
have done is the subject of `RWSClient` and `RWSRoutines`); the code looks at none of
their results.  The arm's position is a number.  No pose is desired, so the inverse
kinematics, once started, repeats the position it started with.  The RAPID program,
the user's hand and the robot following its outputs are external.  `output` is the joint position
in the bridge's output; a pose alone counts as none, since a joint session takes nothing from it.

Found while modelling: the bridge's constructor waits for an EGM session and
answers no service in the meantime.  When the first `bridge_com` call came too early
and failed, and lead-through is requested before the bridge has connected, RAPID is
stopped; then bridge and interface wait for each other for good.  This is why
`RequestsAreServed` is stated for a bridge that is connected.

### RWSClient

A request of POCOClient goes through the stages `exchange` (the first attempt),
`again` (after a server error) and `authenticate`, all under `http_mutex_`
(`HttpFree`), and is then evaluated (`evaluate`) by what `evaluation_conditions_`
says at that time.  `cookie` is the session the client has, `sessions` those that
are alive on the controller, so a cookie can be stale.  An answer is lost
(`Throw`), or a server error is returned, before or after the request was carried
out.  `runs` counts how often the controller carried out the request of a call,
`errors` how often it answered it with a server error.  Services are told apart by what
they accept and whether they parse a message.  A subscription is a group on the
controller and a web socket of the client, which only a closing frame clears.

Robot Web Services are external and modelled from what the client expects of them:
an unknown session is answered by "unauthorized", a request with credentials opens a
session, an accepted answer means that the request was carried out.

Left out: paths and contents, the log, and XML that does not parse (as any answer
not accepted).  `getRAPIDSymbolData` of a record, two requests in one call, is in
`RAPIDData`.

### RWSRoutines

A service is a list of symbols with values and a signal; the operators
`DualCommand`, `LeftCommand`, `RunCallByVar` and so on give those of the code.  `at`
is the request it makes next: a write, the question for the operation mode, or one of
the four of a toggle.  A request is answered, carried out without an answer, or lost.
The RAPID program acts on the rising edge of the signal with the inputs it finds then
(`ran`).  The operator may change the mode at any time.

Assumed: a request is carried out, if at all, before the next one is made, and one
call is under way at a time.  Without the first assumption a late LOW between two
HIGHs is a second edge, and nothing in the code prevents it.

Left out: services that only read or only write settings, and the valves' services,
which write signals and wait for nothing.  The SmartGripper services that poll signals are in `SmartGripper`.

### SmartGripper

`service` is the service that runs and `at` the place it has reached: a service waits
for the hand to be ready, writes its command, waits until the motion has ended, and gets
the hand ready again.  The hand is external: it hears of a command some time after it
was written (`Hear`), reports its motion as BUSY and then as completed (`Arrive`), and ends a grip
in ERROR when it is not calibrated.  Its state at start-up is any that an earlier run of the
node may have left, as the node can be stopped anywhere.  A write may be lost and a read
may be empty; what an empty read counts as depends on the signal, as in the code.
`requests` are the service calls that wait for the next `spinOnce`.

Found while modelling: a calibrated signal that cannot be read at start-up makes
`Calibrate` return false; if the hand is not calibrated, the node then drops every request
without a word, although
`GripIn` takes the same empty answer for "calibrated".  A lost write of GO_TO_READY or of
a grip is polled for without end.  An empty answer for the speed is given to `stoi` and
ends the node.  The first request is compared with "false", so that a first "false" does
nothing; requests that come while a service runs are collapsed to the last.  `BlowOff` sets
its valve HIGH and never LOW.

Left out: hold force and maximal speed (settings) and the valves, which the node does not use.

### RAPIDData

A text is a sequence of tokens: delimiters, quotes, blanks, letters, and numbers and words
as a stream reads them.  `ConstructString` and `ParseString` stand for the methods of
all types, with `ExtractDelimitedSubstrings` between them: all brackets are counted, those in strings
too, and stream extraction cuts at blanks.  A record is read by two requests: its
properties, then its value.  `Digits` is the number of significant digits a stream
writes.

`outcome` is how the last read ended: `RAPIDAtomic<RAPID_STRING>::parseString` throws when
nothing is left behind the first quote (`Throws`), because `find_last_of` and `size() - 1`
are then the same number, `npos`, and `erase(npos, 1)` is out of range.

Found while modelling: a string such as `,,]` cuts a lone quote out of the record: the read ends
with that exception, when the components before the string are new already.  `a,,]` gives a
record of which one half is new and the other as it was, while success is reported;
of `[,,]` one comma is lost, and success reported; a string with a comma makes a read do
nothing, while success is reported; an empty string leaves the old value; a string is cut
at its first blank; a number loses its digits beyond the sixth.  The property is
stated for the strings whose brackets balance and which have nothing empty between
their commas; what it calls whole has the first word of a string, or the old
string if there is none (`Taken`).

## The runs

All of them are small instances; the bounds are in the .cfg files.

| run | shows | bounds, and why they are enough |
|---|---|---|
| `motion` | the state machine, goal, current trajectory and interpolation stay consistent under every order of calls, ticks, lost states and new sessions; the inductive invariant of the proofs holds | 3 points in trajectories of one and two, so that a trajectory is interrupted between its points with another one queued; two sessions, so that one is interrupted and resumed; ramp downs of two samples and of one, so that calls land within a ramp down |
| `motion_live` | a stop reaches standstill, a resume is carried out, a static goal is left, an uninterrupted queue drains | 2 points and 2 sessions, all calls |
| `queue_and_user` | the deques implement one first-in-first-out queue (`TrajectoryQueue`), which loses no point but by its execution, its reach condition, a discard or the end of a session; the interface waits for a resume only if the user's last word was to halt | 3 points in 2 sessions; the queue, the current trajectory and the temporary queue can all hold points; all calls but `setStaticGoal` with a ramp down, see below, and `retrieveExecutionProgress`, which only reads |
| `controller` | every interleaving of callback, control loop, `setConfiguration` and `isConnected`; liveness of reading | 3 messages in 2 sessions, any of them lost, incomplete or with the states not ok; two configurations that differ in axes and demo outputs; one message under way while another is handled.  No deadlock check, as the callback may crash |
| `driver` | lead-through is alone, the nodes agree, joint sessions start empty, requests are served | 3 requests of 4 modes, at any time and overlapping, give every pair of a mode and the one before, and one more; 2 places of the arm |
| `routines` | a service call implements `RoutineCall`, gives up only when requests fail, and returns; the inductive invariant of the proofs holds | six services that share inputs and leave some alone, on three signals, one after the other without end; 5 attempts as in the code; any request lost or unanswered |
| `client` | success is real, lost answers repeat nothing, sessions do not pile up, the web socket's group is known | a thread with all services and one that waits for events, the way the library is meant to be shared; 3 failures, so that a request meets a server error twice and a lost answer; 2 groups |
| `gripper` | the hand is sent on its way only from its ready position, whatever was lost; the last request of the clients is served | 3 requests: one that is handled, and two that meet in one `spinOnce` or come while a service runs; any start of the hand.  No deadlock check, as the node may crash |
| `interpolation` | references do not jump, goals are met as their method promises, ramp downs only brake, orientations go the shorter way round; the first goal after a ramp down is excepted as described above | 5 points with and without velocity, acceleration and duration, 2 static goals of each kind; 4 goals, so that a ramp down or static goal comes between two others; every method and mode.  No deadlock check, as `MaxGoals` and `Travel` end a behaviour |
| `rapid_data` | a record is taken from the controller's text whole or not at all | work objects, which have values of every kind in three levels and are the only record type with a string, with thirteen strings: every delimiter, balanced or not, several words, blanks, nothing; `Digits` 3, and a number with five |
| `early_resume`, `static_at_rest` | counterexamples, one per finding in PROJECT.json | the smallest instance in which it happens |

`TypeOK` is checked with the inductive invariant where there is one.

The findings in short.  *early_resume*: a resume accepted when the ramp down is
already being left stays pending and cancels the wait of the next stop.
*static_at_rest*: the case `RampInPosition` of `EGMInterpolator::evaluate` has no `break`
(egm_interpolator.cpp:531, and 642 for Cartesian goals), so that a fast static position
goal after a static velocity goal goes on moving with that goal's velocity.

More that the models show without a run of their own: a session that starts anew
during a ramp down stores the interrupted point twice (`TrajectoryQueue` allows a restart to
repeat the first point, and nothing else to); stopping right after an override
takes the discard back, and the overriding trajectory waits in the temporary queue for some
later discard; the first reply of a session carries references of an earlier one; the
inverse kinematics is reset while the arm is still guided by hand, and commands the old
position afterwards; a goal stored by a ramp down keeps
its scaled duration and is scaled again when it is taken up, so that under a factor
of 2 each stop and resume doubles what remains; a result can be evaluated by the
conditions of another thread's call, so that a success is reported as a failure, and the
group of a subscription is then forgotten (`misread`); a `finishStaticGoal` that
comes after a `setStaticGoal` has ordered a ramp down loses its resume (this is what
`queue_and_user` leaves out); a fast `setStaticGoal` after a slow one can leave the static
goal for normal execution; a stop pending when a session is lost halts the next.

### Fairness

`motion_live`: weak fairness of `Loop`, because the robot controller sends a message
every 4 ms as long as a session runs.  Nothing is assumed of the user.  A lost
session ends every obligation.  `QueueDrains` assumes in addition that the robot gets
where it is sent to (`Arrival`), as a reach condition needs.  `controller`: the
server's and the control loop's threads keep running; the robot and the network owe
nothing.  Since the messages of a behaviour are bounded, a loop that is behind
catches up.  `driver`: the loops of the nodes turn, and the bridge gets messages.
`routines`: weak fairness of `Client`, because every request ends with its answer or
after `DEFAULT_HTTP_TIMEOUT`.  `gripper`: the hand moves and the node's loop turns; strong
fairness of the service, because a poll that is repeated for ever is answered some time.

## The proofs

`EGMTrajectoryMotionProofs` proves `Spec => []Inv` for `TypeOK`, and for
`GoalTracksTrajectory`, `InterruptedPointKept`, `StaticGoalFromStandstill`,
`WaitingIsStandstill`, `StaticGoalHoldsQueue` and `GoalTimesInterpolation`.  None of
these is inductive alone: that a static goal begins from standstill depends on
`do_stop` being the same when the ramp down began and when it ends, which depends
on which calls each state accepts.  `ControlInv` writes down for each state which
pending pairs are possible and what is then known of `active`, `current` and
`motion`; one lemma per kind of tick shows that it is kept, and the type lemmas
provide that durations are numbers.

`EGMTrajectoryUserProofs` proves on top of that invariant that the motion implements
`TrajectoryQueue` (`ImplementsQueueHolds`), for any trajectories and any number of points, sessions and
calls.  `TrajectoryQueue` lets a point go only when its time is over, when a
reach condition lets it be skipped, by a discard at a standstill, or with the session; a
halt keeps it in front.  So a ramp down that forgets the interrupted goal, or the
trajectory it is of, does not implement it.  The mapping
puts the point in execution back in front of its trajectory and that in front of the
deque, and keeps of a point its number and reach condition (`Name`), because its
duration changes with each interruption.  The lemmas `NamedFront`, `NamedBack`,
`NamedPart` say what that makes of the deques' operations.
The rest is one lemma per kind of step.  Of `updateNormalGoal`: a goal it begins is the first
of the queue or a later one of the same trajectory whose predecessors may be skipped
(`NextGoalBegins`), and a trajectory it leaves is empty or may be skipped altogether
(`NoGoalLeftEnds`), so that both together execute the queue (`UpdateExecutes`).  A ramp down
puts the point in execution back where it was; a discard is carried out only
while nothing is executed, which follows from `ControlInv`; and a session that starts anew
follows the queue as it was, or with its first point twice, because a point whose
execution is being interrupted is in the deque already (`ReturnedIs`, `Restarts`, from
`InterruptedPointKept`).

The same module proves `WaitsOnlyWhenHalted`, for all calls but a `setStaticGoal` that ramps down, the ones of its run.  As long as the user's last word is to go
on, a stop or a static goal's end comes with a resume order (`ResumeOrdered`).  Only the end of
a ramp down takes that order away, and it takes the stop with it; the end of a static goal is
not ordered then (`FinishOrdered`), because a running static goal is not ramped down before
it is finished (`NoRampDown`).  This last part is what a slow `setStaticGoal` breaks.

`EGMControllerInterfaceProofs` proves `TypeOK`, `ReadsAreNew`,
`ReplyIsForThisMessage`, `UnderstoodIsAnswered`, `NoUpdateLost` and the action
properties `SessionKeepsConfiguration` and `ConnectedIsUnderstood`.  The argument is
the order of the messages (`InOrder`): what is received later was sent later, in
the same session with a higher number.  From it follow that the inputs only advance
(`InputsInv`), that a message flagged as first has no reply of its session before it
(`SessionInv`), and, since axes change with such messages only, that the outputs fit
unless the last of them was not understood (`AxesInv`, with the history `refused`).

`RWSRoutinesProofs` proves `TypeOK`, the action property `GivesUpLate`, and that
`RWSRoutines` implements `RoutineCall`, for any services and any number of attempts.
The invariant says what a call knows of the controller: the inputs written so far
are in place (`InputsWritten`, which needs that no service writes a symbol twice),
nothing has run before the signal is raised, and from then on the routine has run
exactly if the signal is high (`RunByEdge`), however often raising it is
repeated.  `FailuresCounted` ties the attempts to requests without an answer.  For
the refinement, one lemma shows that a step of the client is a stutter, the run, or the
answer; a run and a failure can be one step, when the last attempt raises the
signal and its answer is lost, which is why `RoutineCall` has that step too.

`AbbDriverProofs` proves `TypeOK`, `HandGuidedAlone`, `ModesAgree` and
`JointSessionStartsEmpty`, for any modes and number of requests.  What the RAPID program
does depends on how far a switch has got, so the invariant (`SwitchInv`) has one predicate
per stage of `script`, and each step of a script leads from one to the next.  `BridgeInv` adds
that the bridge only reads until a mode is entered, and that it has an output only in joint
mode or in the first steps out of it.

`RWSClientProofs` proves `TypeOK`, `SuccessIsReal`, `NotRepeated` and
`SessionsAccounted`, for any threads sharing a client, and `SocketHasGroup` for any threads of
which one at most starts subscriptions (`OneSubscriber`).  Per call: a request has not been carried out
before its first attempt, and at most once more than it was answered by a server error
(`RunsInv`); which services get to which stage (`StageInv`); an answer that any conditions
accept, those of another thread too, is that of a request carried out (`AnswerInv`).
Between the calls: one of them holds the mutex, and there was at most one session more than
failures (`SessionInv`).  `SocketHasGroup` needs its hypothesis: a second `startSubscription`
passes the check for a web socket before the first has connected it, and then takes the
place of its group in `subscription_group_id_`.

`SmartGripperProofs` proves `TypeOK` and `MovesFromReady`.  A service leaves "await ready" when
it reads READY, which could be of an earlier motion; it is not, because the hand is READY only while the
command it has is to get ready (`ReadyInv`), which every service writes before it polls.

`EGMMotionStepProofs` proves of the operators first, for every duration and all boundary
conditions, that a spline meets the conditions its method promises
(`SplineMeetsConditions`), and that a ramp down only brakes (`RampDownOnlyBrakes`).  The
argument is that of exact division: all coefficients are over one positive denominator.
Then it proves `ReferencesStartSmoothly`, `GoalIsMet`, `RampDownBrakes` and
`OrientationIsSound` of the specification, for all points, static goals, ramp-down durations,
modes and methods.  All four relate a reference to an interpolation that began some ticks before, perhaps
out of another one that was interrupted.  The inductive invariant says that interpolator, controller and goal
are in step and that the Controller takes for normal no goal but one of the normal
state (`FollowInv`; not all of these, because of the first one after a ramp down), that every reference is what that interpolation evaluates to at its
time, from the point where it began (`ReferenceInv`), and that an orientation is
degenerate, or defined with its way known (`OrientationInv`).  `ReferenceInv` quantifies over
all points, which TLC cannot; the other parts hold in the 743,767 states of the run
`interpolation`.

The assumptions are those on the constants: calls, trajectories, configurations and
services are of their types, factors and durations natural numbers, the limits of the
factor, the ramp-down durations and the number of attempts positive; a point's values are whole
numbers, and what it may leave out is there at most once (`MotionStepAssumption`).
The theorems with a hypothesis of their own are `SocketHasGroupHolds`
(`OneSubscriber`), and `UserInvariance` and `WaitsOnlyWhenHaltedHolds` (no `setStaticGoal` that
ramps down).

Only model-checked: all liveness (fairness and ENABLED are out of the prover's
reach), and `TakenWholeOrNotAtAll` of `RAPIDData`, whose operators are recursive.

## Plan

Done: all models of the table above, their refinements and proofs.  What could
follow:

1. `EGMTrajectoryInterface`'s own configuration exchange, composed with the callback
   of `EGMControllerInterface`.
2. `AbbDriver` with RWS requests that fail, composed with `RWSRoutines`.
3. Two clients of `RWSRoutines` that share its inputs.
4. A feedback that differs from the references, and with it the Controller's
   correction `k_`.
5. Proofs: `RAPIDData` with recursive functions in place of its recursive operators.

Not modelled, and why:

- the logger, `debug_rviz_tool` and the robots' descriptions: they control nothing;
- XML and HTTP: the Poco library parses them; the models have what comes out;
- velocity estimates, quaternions about several axes and the inverse kinematics: real
  arithmetic;
- the number of external joints, which the code takes from the robot joints'
  field in three places (egm_trajectory_interface.cpp:408): both numbers are fixed in the model;
- SmartGripper valves and settings, and services that only read: a request or two, which nothing
  waits for;
- RAPID code: it is not in the repository, and is modelled from how the client uses it.
