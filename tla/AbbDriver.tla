------------------------------ MODULE AbbDriver ------------------------------
(***************************************************************************)
(* The driver nodes around one arm: abb_interface, which switches between  *)
(* joint control, pose control and lead-through; controller_bridge, the    *)
(* control loop of the EGM session; and OneTaskInvKin, which turns poses   *)
(* into joint positions.                                                   *)
(*                                                                         *)
(* Each node is one thread.  The interface blocks in the pauses, in RWS     *)
(* requests and in service calls of a mode switch; the other two turn at    *)
(* 250 and 200 Hz all the while.  The positions of the arm are numbers, and *)
(* no pose is ever desired: in joint control the arm has nowhere to go.     *)
(***************************************************************************)
EXTENDS Integers, Sequences

CONSTANTS
  Modes,         \* the modes requested: 0 joint, 1 pose, 2 lead-through, others
  MaxRequests,   \* bound: requests in a behaviour
  MaxPlace       \* bound: the places the arm is guided to by hand

ASSUME ModesAssumption == Modes \subseteq 0 .. 99
ASSUME BoundsAssumption == MaxRequests \in Nat /\ MaxPlace \in Nat

VARIABLES
  mode,       \* abb_interface: state_, Done when there is nothing to do
  previous,   \* abb_interface: previous_state_
  script,     \* abb_interface: what is left of a mode switch
  requests,   \* abb_controller requests not yet handled, a sequence
  batch,      \* how many of them the running spinOnce handles
  asked,      \* requests made so far
  arm,        \* where the arm is
  egm,        \* the EGM session the RAPID program runs
  rapid,      \* the RAPID program runs
  lead,       \* lead-through is on
  turned,     \* the bridge has run since the last pulse of a signal
  up,         \* controller_bridge: "absent", "connecting" or "running"
  state,      \* controller_bridge: state_
  first_msg,  \* controller_bridge: first_msg_
  cmd,        \* controller_bridge: joint_array_cmd_
  output,     \* the joint position last written to the EGM interface; Nothing when
              \* there is none, as in an output with a pose alone
  joint_states, joint_cmd,   \* the last message on the topic, or Nothing
  step,       \* OneTaskInvKin: step_
  flag_joint_msr,            \* OneTaskInvKin: flag_joint_msr_
  q_msr, q    \* OneTaskInvKin: measured and computed joint positions

interface == <<mode, previous, script>>
queue == <<requests, batch, asked>>
robot == <<egm, rapid, lead>>
bridge == <<up, state, first_msg>>
topics == <<joint_states, joint_cmd>>
inv_kin == <<step, flag_joint_msr, q_msr, q>>
vars == <<mode, previous, script, requests, batch, asked, arm, egm, rapid, lead,
          turned, up, state, first_msg, cmd, output, joint_states, joint_cmd,
          step, flag_joint_msr, q_msr, q>>

Done == 100
Nothing == -1
Places == 0 .. MaxPlace
Sessions == {"none", "joint", "pose", "stream"}

\* The program is reset and started, and mode 0 is entered from no mode.
Init ==
  /\ mode = 0 /\ previous = -1 /\ script = <<>>
  /\ requests = <<>> /\ batch = 0 /\ asked = 0
  /\ arm = 0 /\ egm = "none" /\ rapid = TRUE /\ lead = FALSE /\ turned = FALSE
  /\ up \in {"absent", "connecting"} /\ state = 2 /\ first_msg = TRUE
  /\ cmd = 0 /\ output = Nothing
  /\ joint_states = Nothing /\ joint_cmd = Nothing
  /\ step = 2 /\ flag_joint_msr = FALSE /\ q_msr = 0 /\ q = 0

----------------------------------------------------------------------------
(* abb_interface                                                           *)

\* Mutant: the session of the other controller is not stopped.
LeaveLeadThroughOnly(to, from) ==
  IF from = 2 THEN <<"start RAPID", "lead-through off", "EGM_STOP_STREAM">>
  ELSE <<>>

\* What ends the mode there was, before the joint or the pose mode starts.
Leave(to, from) ==
  IF from = 1 - to THEN <<"EGM_STOP">>
  ELSE IF from = 2 THEN <<"start RAPID", "lead-through off", "EGM_STOP_STREAM">>
  ELSE <<>>

\* The cases of the main loop's switch, as what they do in order.
Switch(to, from) ==
  IF to = 2
    THEN <<"EGM_STOP", "EGM_START_STREAM", "lead-through on", "stop RAPID">>
    ELSE Leave(to, from)
         \o <<IF to = 0 THEN "EGM_START_JOINT" ELSE "EGM_START_POSE", "bridge_com">>

\* Mutant: without a switch the loop does not get to spinOnce.
BeginSwitchOnly ==
  /\ script = <<>> /\ batch = 0
  /\ mode \in 0 .. 2
  /\ script' = Switch(mode, previous)
  /\ UNCHANGED <<mode, previous, queue, arm, robot, turned, bridge, cmd, output,
                 topics, inv_kin>>

\* The main loop enters a case, or goes straight on to spinOnce.
BeginSwitch ==
  /\ script = <<>> /\ batch = 0
  /\ IF mode \in 0 .. 2
       THEN script' = Switch(mode, previous) /\ UNCHANGED batch
       ELSE batch' = Len(requests) /\ UNCHANGED script
  /\ UNCHANGED <<mode, previous, requests, asked, arm, robot, turned, bridge, cmd,
                 output, topics, inv_kin>>

\* How the RAPID program answers the pulse of a signal.
Pulsed(signal) ==
  IF ~rapid THEN egm
  ELSE IF egm = "none" /\ signal = "EGM_START_JOINT" THEN "joint"
  ELSE IF egm = "none" /\ signal = "EGM_START_POSE" THEN "pose"
  ELSE IF egm = "none" /\ signal = "EGM_START_STREAM" THEN "stream"
  ELSE IF egm \in {"joint", "pose"} /\ signal = "EGM_STOP" THEN "none"
  ELSE IF egm = "stream" /\ signal = "EGM_STOP_STREAM" THEN "none"
  ELSE egm

Signals == {"EGM_START_JOINT", "EGM_START_POSE", "EGM_START_STREAM", "EGM_STOP",
            "EGM_STOP_STREAM"}

\* The next thing of a switch.  A pulse takes half a second, so that a bridge
\* that gets messages has run before the next thing happens.  With the last one
\* the switch is over and the loop goes on to spinOnce.
Proceed ==
  /\ script # <<>>
  /\ (up = "running" /\ egm # "none") => turned
  /\ script' = Tail(script)
  /\ IF script' = <<>>
       THEN previous' = mode /\ mode' = Done /\ batch' = Len(requests)
       ELSE UNCHANGED <<previous, mode, batch>>
  /\ UNCHANGED <<requests, asked, arm, up, cmd, output, topics, inv_kin>>

Pulse ==
  /\ Proceed
  /\ Head(script) \in Signals
  /\ egm' = Pulsed(Head(script))
  /\ turned' = FALSE
  /\ UNCHANGED <<rapid, lead, state, first_msg>>

ChangeRapid ==
  /\ Proceed
  /\ \/ Head(script) = "start RAPID" /\ rapid' = TRUE
     \/ Head(script) = "stop RAPID" /\ rapid' = FALSE
  /\ UNCHANGED <<egm, lead, turned, state, first_msg>>

ChangeLeadThrough ==
  /\ Proceed
  /\ \/ Head(script) = "lead-through on" /\ lead' = TRUE
     \/ Head(script) = "lead-through off" /\ lead' = FALSE
  /\ UNCHANGED <<egm, rapid, turned, state, first_msg>>

\* callback_bridge_com, which the bridge runs between two of its turns.  A bridge
\* that still connects lets the caller wait; without one the call fails.
BridgeCom(to) ==
  IF up = "absent"
    THEN UNCHANGED <<state, first_msg>>
    ELSE up = "running" /\ state' = to /\ first_msg' = TRUE

StartBridge ==
  /\ Proceed
  /\ Head(script) = "bridge_com"
  /\ BridgeCom(mode)
  /\ UNCHANGED <<robot, turned>>

\* Mutant: the bridge goes on with the mode it had.
HandleRequestQuietly ==
  /\ script = <<>> /\ batch > 0
  /\ mode' = Head(requests)
  /\ requests' = Tail(requests) /\ batch' = batch - 1
  /\ IF mode' = 0
       THEN step' = 2 /\ flag_joint_msr' = FALSE
       ELSE UNCHANGED <<step, flag_joint_msr>>
  /\ UNCHANGED <<previous, script, asked, arm, robot, turned, up, state, first_msg,
                 cmd, output, topics, q_msr, q>>

\* callback_controller: the inverse kinematics is reset for the joint mode, and
\* the bridge only reads until the switch is done.
HandleRequest ==
  /\ script = <<>> /\ batch > 0
  /\ mode' = Head(requests)
  /\ requests' = Tail(requests) /\ batch' = batch - 1
  /\ IF mode' = 0
       THEN step' = 2 /\ flag_joint_msr' = FALSE
       ELSE UNCHANGED <<step, flag_joint_msr>>
  /\ BridgeCom(2)
  /\ UNCHANGED <<previous, script, asked, arm, robot, turned, up, cmd, output,
                 topics, q_msr, q>>

Request(m) ==
  /\ asked < MaxRequests
  /\ asked' = asked + 1
  /\ requests' = Append(requests, m)
  /\ UNCHANGED <<interface, batch, arm, robot, turned, bridge, cmd, output, topics,
                 inv_kin>>

----------------------------------------------------------------------------
(* controller_bridge                                                       *)

\* The node comes up, its service advertised before the session is connected.
Advertise ==
  /\ up = "absent"
  /\ up' = "connecting"
  /\ UNCHANGED <<interface, queue, arm, robot, turned, state, first_msg, cmd,
                 output, topics, inv_kin>>

Connect ==
  /\ up = "connecting" /\ egm # "none" /\ rapid
  /\ up' = "running"
  /\ UNCHANGED <<interface, queue, arm, robot, turned, state, first_msg, cmd,
                 output, topics, inv_kin>>

\* Mutant: reading only, the bridge leaves the outputs there are.
RunKeepsOutput ==
  /\ up = "running" /\ egm # "none"
  /\ turned' = TRUE
  /\ joint_states' = arm
  /\ first_msg' = (first_msg /\ state = 2)
  /\ \/ state = 0 /\ first_msg /\ cmd' = arm /\ UNCHANGED output
     \/ state = 0 /\ ~first_msg /\ output' = cmd /\ UNCHANGED cmd
     \/ state = 1 /\ output' = (IF first_msg THEN output ELSE Nothing) /\ UNCHANGED cmd
     \/ state = 2 /\ UNCHANGED <<output, cmd>>
  /\ UNCHANGED <<interface, queue, arm, robot, up, state, joint_cmd, inv_kin>>

\* run() with a message: the first one of the joint mode only takes the feedback
\* as the command, later ones write the command; the pose mode clears the output and
\* writes the pose it started with, and reading only writes an empty output.  A pose
\* is not told from an empty output: a joint session takes nothing from either.
Run ==
  /\ up = "running" /\ egm # "none"
  /\ turned' = TRUE
  /\ joint_states' = arm
  /\ first_msg' = (first_msg /\ state = 2)
  /\ \/ state = 0 /\ first_msg /\ cmd' = arm /\ UNCHANGED output
     \/ state = 0 /\ ~first_msg /\ output' = cmd /\ UNCHANGED cmd
     \/ state = 1 /\ output' = (IF first_msg THEN output ELSE Nothing) /\ UNCHANGED cmd
     \/ state = 2 /\ output' = Nothing /\ UNCHANGED cmd
  /\ UNCHANGED <<interface, queue, arm, robot, up, state, joint_cmd, inv_kin>>

\* callback_joint_cmd
ReceiveCommand ==
  /\ up = "running" /\ joint_cmd # Nothing
  /\ cmd' = joint_cmd /\ joint_cmd' = Nothing
  /\ UNCHANGED <<interface, queue, arm, robot, turned, bridge, output,
                 joint_states, inv_kin>>

----------------------------------------------------------------------------
(* OneTaskInvKin                                                           *)

\* callback_joint_states
ReceiveJointStates ==
  /\ joint_states # Nothing
  /\ q_msr' = joint_states /\ joint_states' = Nothing
  /\ IF flag_joint_msr
       THEN UNCHANGED <<step, flag_joint_msr>>
       ELSE step' = 0 /\ flag_joint_msr' = TRUE
  /\ UNCHANGED <<interface, queue, arm, robot, turned, bridge, cmd, output,
                 joint_cmd, q>>

\* run(): init and update
Solve ==
  /\ \/ step = 0 /\ q' = q_msr /\ step' = 1 /\ UNCHANGED joint_cmd
     \/ step = 1 /\ joint_cmd' = q /\ UNCHANGED <<q, step>>
  /\ UNCHANGED <<interface, queue, arm, robot, turned, bridge, cmd, output,
                 joint_states, flag_joint_msr, q_msr>>

----------------------------------------------------------------------------
(* The arm                                                                 *)

GuideByHand ==
  /\ lead
  /\ arm' \in Places
  /\ UNCHANGED <<interface, queue, robot, turned, bridge, cmd, output, topics,
                 inv_kin>>

\* In a joint session the arm goes where the outputs say.
FollowOutput ==
  /\ egm = "joint" /\ output # Nothing
  /\ arm' = output
  /\ UNCHANGED <<interface, queue, robot, turned, bridge, cmd, output, topics,
                 inv_kin>>

----------------------------------------------------------------------------
(* The specification                                                       *)

Interface ==
  \/ BeginSwitch \/ HandleRequest
  \/ Pulse \/ ChangeRapid \/ ChangeLeadThrough \/ StartBridge

Bridge == Advertise \/ Connect \/ Run \/ ReceiveCommand

Next ==
  \/ Interface
  \/ Bridge
  \/ ReceiveJointStates \/ Solve
  \/ GuideByHand \/ FollowOutput
  \/ \E m \in Modes : Request(m)

Spec == Init /\ [][Next]_vars

\* All the loops turn, and the messages of a session arrive.
Fairness ==
  /\ WF_vars(Interface)
  /\ WF_vars(Advertise) /\ WF_vars(Connect) /\ WF_vars(Run)
FairSpec == Spec /\ Fairness

----------------------------------------------------------------------------
(* Properties                                                              *)

TypeOK ==
  /\ mode \in 0 .. 100 /\ previous \in -1 .. 2
  /\ script \in Seq(Signals \cup {"start RAPID", "stop RAPID", "lead-through on",
                                  "lead-through off", "bridge_com"})
  /\ requests \in Seq(Modes) /\ batch \in 0 .. Len(requests)
  /\ asked \in 0 .. MaxRequests
  /\ arm \in Places /\ egm \in Sessions /\ rapid \in BOOLEAN /\ lead \in BOOLEAN
  /\ turned \in BOOLEAN
  /\ up \in {"absent", "connecting", "running"}
  /\ state \in 0 .. 2 /\ first_msg \in BOOLEAN
  /\ {arm, cmd, q_msr, q} \subseteq Places
  /\ {output, joint_states, joint_cmd} \subseteq Places \cup {Nothing}
  /\ step \in 0 .. 2 /\ flag_joint_msr \in BOOLEAN

\* While the arm can be guided by hand the bridge sends no references: it is told
\* to read only before the switch to lead-through begins, and told to start only
\* after lead-through is off, though requests and switches overlap in any order.
HandGuidedAlone == lead => state = 2 /\ output = Nothing

\* When a mode has been entered and nothing else was requested the controller runs
\* the session of that mode, and the bridge serves it or only reads.
ModesAgree ==
  (mode = Done /\ script = <<>>) =>
    /\ <<previous, egm>> \in {<<0, "joint">>, <<1, "pose">>, <<2, "stream">>}
    /\ state \in {previous, 2}
    /\ lead <=> previous = 2

\* A joint session begins with no references of an earlier one: the bridge has
\* written an empty output since.
JointSessionStartsEmpty ==
  [][ (egm = "none" /\ egm' = "joint") => output = Nothing ]_vars

\* Once the bridge has connected no request gets stuck: they are all handled, the
\* interface never waits for a bridge that waits for it, and comes to rest.
RequestsAreServed ==
  (requests # <<>> /\ up = "running")
    ~> (requests = <<>> /\ script = <<>> /\ mode \notin 0 .. 2)

==============================================================================
