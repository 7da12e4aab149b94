----------------------- MODULE EGMControllerInterface -----------------------
(***************************************************************************)
(* EGMControllerInterface of abb_libegm with its base class and its UDP     *)
(* server: the handling of the robot controller's messages, the exchange   *)
(* with an external control loop, and the calls of other threads.          *)
(*                                                                         *)
(* The server thread handles one message per callback and arms the next    *)
(* receive only after it; a callback is cut into steps where it takes or   *)
(* releases a mutex.  The control loop waits, reads and writes.  Messages   *)
(* are sent over UDP and can get lost; the link to the robot neither        *)
(* duplicates nor reorders them.  Every message has its sequence number;    *)
(* anything else parse looks for may be missing from it.                    *)
(*                                                                         *)
(* A message is known by its time stamp, outputs by the message they are   *)
(* computed from.                                                          *)
(***************************************************************************)
EXTENDS Integers, Sequences

CONSTANTS
  Configurations,   \* what setConfiguration is called with, [axes, demo]
  Probing,          \* whether a thread calls isConnected
  WaitTime,         \* 2 * WAIT_TIME_MS, in messages
  MaxSessions,      \* bound: EGM sessions in a behaviour
  MaxTime,          \* bound: messages sent in a behaviour
  MaxInFlight       \* bound: messages under way

Axes == {"Six", "Seven"}
Configuration == [axes : Axes, demo : BOOLEAN]

ASSUME ConfigurationsAssumption ==
  Configurations \subseteq Configuration
ASSUME ProbingAssumption == Probing \in BOOLEAN /\ WaitTime \in Nat
ASSUME BoundsAssumption ==
  MaxSessions \in Nat /\ MaxTime \in Nat /\ MaxInFlight \in Nat

VARIABLES
  robot,          \* the robot controller: its session, the next message's
                  \* numbers, and whether it has an external (or 7th) axis
  net,            \* messages under way to the server, a sequence
  pc,             \* where the callback is, "receive" between callbacks
  msg,            \* InputContainer::current_, the message being handled
  first_call,     \* InputContainer::first_call_
  first_message,  \* InputContainer::first_message_
  active,         \* BaseConfigurationContainer::active
  update,         \* BaseConfigurationContainer::update
  has_pending,    \* BaseConfigurationContainer::has_pending_update
  header,         \* SessionData::header and status, or NoMessage
  refused,        \* history: whether the last first message was not understood
  sequence,       \* OutputContainer::sequence_number_
  current,        \* OutputContainer::current: its axes and its source
  reply,          \* OutputContainer::reply_, or NoReply
  answered,       \* history: the reply sent last
  read_ready,     \* ControllerMotion::read_data_ready_
  inputs,         \* ControllerMotion::inputs_
  outputs,        \* ControllerMotion::outputs_, NoMessage when empty;
                  \* write_data_ready_ is set and reset but not looked at: the
                  \* wait for it is commented out
  loop,           \* where the control loop is
  seen,           \* the message the control loop read last
  probe,          \* isConnected: header_1 while it sleeps, NoProbe otherwise
  connected       \* what isConnected returned last

channel == <<robot, net>>
parsing == <<msg, first_call, first_message>>
configuration == <<active, update, has_pending>>
replying == <<sequence, current, reply, answered>>
reading == <<read_ready, inputs>>
control == <<loop, seen>>
probing == <<probe, connected>>
session == <<header, refused>>
vars == <<robot, net, pc, msg, first_call, first_message, active, update,
          has_pending, header, refused, sequence, current, reply, answered, read_ready,
          inputs, outputs, loop, seen, probe, connected>>

\* The configuration an interface is created with when none is given.
DefaultConfiguration == [axes |-> "Six", demo |-> FALSE]

\* A message is whole when header, feedback, planned and status can be parsed for
\* six axes, and ok when its states are.
Messages ==
  [session : Nat, seq : Nat, time : Nat, ok : BOOLEAN, whole : BOOLEAN]
NoMessage == [session |-> 0, seq |-> 0, time |-> 0, ok |-> FALSE, whole |-> FALSE]
Replies == [to : Messages, seqno : Nat, source : Messages,
            configuration : Configuration]
NoReply == [to |-> NoMessage, seqno |-> 0, source |-> NoMessage,
            configuration |-> DefaultConfiguration]
NoProbe == [asleep |-> FALSE, header |-> NoMessage]

Init ==
  /\ robot \in [session : {0}, seq : {0}, time : {0}, external : BOOLEAN]
  /\ net = <<>>
  /\ pc = "receive"
  /\ msg = NoMessage /\ first_call = TRUE /\ first_message = FALSE
  /\ active \in Configurations \cup {DefaultConfiguration}
  /\ update = active /\ has_pending = FALSE
  /\ header = NoMessage /\ refused = FALSE
  /\ sequence = 0 /\ current = [axes |-> "none", source |-> NoMessage]
  /\ reply = NoReply /\ answered = NoReply
  /\ read_ready = FALSE /\ inputs = NoMessage
  /\ outputs = NoMessage
  /\ loop = "wait" /\ seen = NoMessage
  /\ probe = NoProbe /\ connected = FALSE

----------------------------------------------------------------------------
(* The robot controller and the network                                    *)

\* An EGM session begins; its messages are numbered from 0.
StartSession ==
  /\ robot.session < MaxSessions
  /\ robot' = [robot EXCEPT !.session = @ + 1, !.seq = 0]
  /\ UNCHANGED <<net, pc, parsing, configuration, session, replying, reading,
                 outputs, control, probing>>

\* A message is sent, and it arrives or is lost.
SendMessage(ok, whole) ==
  /\ robot.session > 0
  /\ robot.time < MaxTime /\ Len(net) < MaxInFlight
  /\ robot' = [robot EXCEPT !.seq = @ + 1, !.time = @ + 1]
  /\ \/ net' = Append(net, [session |-> robot.session, seq |-> robot.seq,
                            time |-> robot.time + 1, ok |-> ok,
                            whole |-> whole])
     \/ net' = net
  /\ UNCHANGED <<pc, parsing, configuration, session, replying, reading,
                 outputs, control, probing>>

----------------------------------------------------------------------------
(* The callback of a message                                               *)

\* Mutant: the first message is recognised by its number alone.
ReceiveBySequence ==
  /\ pc = "receive" /\ net # <<>>
  /\ msg' = Head(net) /\ net' = Tail(net)
  /\ first_message' = (msg'.seq = 0)
  /\ first_call' = FALSE
  /\ pc' = IF first_message' THEN "configure" ELSE "extract"
  /\ UNCHANGED <<robot, configuration, session, replying, reading, outputs,
                 control, probing>>

\* Mutant: a pending configuration comes into force with the next message.
ReceiveConfigures ==
  /\ pc = "receive" /\ net # <<>>
  /\ msg' = Head(net) /\ net' = Tail(net)
  /\ first_message' = (first_call \/ msg'.seq = 0)
  /\ first_call' = FALSE
  /\ pc' = "configure"
  /\ UNCHANGED <<robot, configuration, session, replying, reading, outputs,
                 control, probing>>

\* receiveCallback and parseFromArray
Receive ==
  /\ pc = "receive" /\ net # <<>>
  /\ msg' = Head(net) /\ net' = Tail(net)
  /\ first_message' = (first_call \/ msg'.seq = 0)
  /\ first_call' = FALSE
  /\ pc' = IF first_message' THEN "configure" ELSE "extract"
  /\ UNCHANGED <<robot, configuration, session, replying, reading, outputs,
                 control, probing>>

\* Mutant: the flag is cleared before it is looked at.
ConfigureClearsFirst ==
  /\ pc = "configure"
  /\ has_pending' = FALSE
  /\ active' = IF has_pending' THEN update ELSE active
  /\ pc' = "extract"
  /\ UNCHANGED <<channel, parsing, update, session, replying, reading, outputs,
                 control, probing>>

\* The first message of a session puts a pending configuration into force.
Configure ==
  /\ pc = "configure"
  /\ active' = IF has_pending THEN update ELSE active
  /\ has_pending' = FALSE
  /\ pc' = "extract"
  /\ UNCHANGED <<channel, parsing, update, session, replying, reading, outputs,
                 control, probing>>

\* parse: a whole message has six joints, which is what six axes take; for seven
\* the first external joint is needed too.
Understood == msg.whole /\ (active.axes = "Seven" => robot.external)

\* prepareOutputs: the first message's references are the robot's own feedback.
\* Nothing is prepared for a message that is not understood, the first or not.
PrepareOutputs ==
  /\ sequence' = IF first_message THEN 0 ELSE sequence + 1
  /\ current' = IF first_message THEN [axes |-> active.axes, source |-> msg]
                                 ELSE current

\* Mutant: the session data of an earlier message stays.
ExtractKeepsHeader ==
  /\ pc = "extract"
  /\ header' = IF Understood THEN msg ELSE header
  /\ refused' = IF first_message THEN ~Understood ELSE refused
  /\ reply' = NoReply
  /\ IF Understood
       THEN /\ PrepareOutputs
            /\ pc' = "initialize"
       ELSE /\ UNCHANGED <<sequence, current>>
            /\ pc' = "receive"
  /\ UNCHANGED <<channel, parsing, configuration, answered, reading, outputs,
                 control, probing>>

\* Mutant: the reply to an earlier message is not cleared.
ExtractKeepsReply ==
  /\ pc = "extract"
  /\ header' = IF Understood THEN msg ELSE NoMessage
  /\ refused' = IF first_message THEN ~Understood ELSE refused
  /\ IF Understood
       THEN /\ PrepareOutputs
            /\ pc' = "initialize"
       ELSE /\ UNCHANGED <<sequence, current>>
            /\ pc' = "receive"
  /\ UNCHANGED <<channel, parsing, configuration, reply, answered, reading,
                 outputs, control, probing>>

\* extractParsedInformation, the session data, and the outputs; a message that
\* is not understood ends the callback with an empty reply.
Extract ==
  /\ pc = "extract"
  /\ header' = IF Understood THEN msg ELSE NoMessage
  /\ refused' = IF first_message THEN ~Understood ELSE refused
  /\ reply' = NoReply
  /\ IF Understood
       THEN /\ PrepareOutputs
            /\ pc' = "initialize"
       ELSE /\ UNCHANGED <<sequence, current>>
            /\ pc' = "receive"
  /\ UNCHANGED <<channel, parsing, configuration, answered, reading, outputs,
                 control, probing>>

\* ControllerMotion::initialize and the choice of who makes the outputs.
Initialize ==
  /\ pc = "initialize"
  /\ read_ready' = (read_ready /\ ~first_message)
  /\ pc' = IF active.demo THEN "demo" ELSE "write"
  /\ UNCHANGED <<channel, parsing, configuration, session, replying, inputs,
                 outputs, control, probing>>

\* generateDemoOutputs
DemoOutputs ==
  /\ pc = "demo"
  /\ current' = [current EXCEPT !.source = msg]
  /\ pc' = "construct"
  /\ UNCHANGED <<channel, parsing, configuration, session, sequence, reply,
                 answered, reading, outputs, control, probing>>

\* It writes to as many joints as the message has.  When the outputs were not
\* prepared for these axes an index is out of range; the program may end there.
DemoOutOfRange ==
  /\ pc = "demo" /\ current.axes # active.axes
  /\ pc' = "crashed"
  /\ UNCHANGED <<channel, parsing, configuration, session, replying, reading,
                 outputs, control, probing>>

\* Mutant: the control loop is notified of messages with the states ok only.
WriteInputsWhenOk ==
  /\ pc = "write"
  /\ inputs' = msg
  /\ read_ready' = (read_ready \/ msg.ok)
  /\ pc' = IF first_message \/ msg.ok THEN "outputs" ELSE "construct"
  /\ UNCHANGED <<channel, parsing, configuration, session, replying, outputs,
                 control, probing>>

\* ControllerMotion::writeInputs wakes the control loop.
WriteInputs ==
  /\ pc = "write"
  /\ inputs' = msg /\ read_ready' = TRUE
  /\ pc' = IF first_message \/ msg.ok THEN "outputs" ELSE "construct"
  /\ UNCHANGED <<channel, parsing, configuration, session, replying, outputs,
                 control, probing>>

\* ControllerMotion::readOutputs takes what there is; it does not wait.
ReadOutputs ==
  /\ pc = "outputs"
  /\ current' = IF outputs = NoMessage THEN current
                                       ELSE [current EXCEPT !.source = outputs]
  /\ pc' = "construct"
  /\ UNCHANGED <<channel, parsing, configuration, session, sequence, reply,
                 answered, reading, outputs, control, probing>>

\* constructReply, with an empty reply when the references do not fit the
\* configured axes; a reply that is not empty is sent.
ConstructReply ==
  /\ pc = "construct"
  /\ reply' = IF current.axes # active.axes THEN NoReply
              ELSE [to |-> msg, seqno |-> sequence, source |-> current.source,
                    configuration |-> active]
  /\ answered' = IF reply' = NoReply THEN answered ELSE reply'
  /\ pc' = "receive"
  /\ UNCHANGED <<channel, parsing, configuration, session, sequence, current,
                 reading, outputs, control, probing>>

----------------------------------------------------------------------------
(* The external control loop                                               *)

\* waitForMessage returns; a timeout only makes the loop wait again.
WaitForMessage ==
  /\ loop = "wait" /\ read_ready
  /\ loop' = "read"
  /\ UNCHANGED <<channel, pc, parsing, configuration, session, replying,
                 reading, outputs, seen, probing>>

\* Mutant: a message that was read still counts as new.
ReadStillReady ==
  /\ loop = "read"
  /\ seen' = inputs
  /\ loop' = "write"
  /\ UNCHANGED <<channel, pc, parsing, configuration, session, replying,
                 reading, outputs, probing>>

Read ==
  /\ loop = "read"
  /\ seen' = inputs /\ read_ready' = FALSE
  /\ loop' = "write"
  /\ UNCHANGED <<channel, pc, parsing, configuration, session, replying,
                 inputs, outputs, probing>>

\* The loop writes references for the message it read, or an empty output.
Write ==
  /\ loop = "write"
  /\ outputs' \in {seen, NoMessage}
  /\ loop' = "wait"
  /\ UNCHANGED <<channel, pc, parsing, configuration, session, replying,
                 reading, seen, probing>>

\* Or it writes nothing, as the bridge does for the first message of a mode.
SkipWrite ==
  /\ loop = "write"
  /\ loop' = "wait"
  /\ UNCHANGED <<channel, pc, parsing, configuration, session, replying,
                 reading, outputs, seen, probing>>

----------------------------------------------------------------------------
(* Calls of other threads                                                  *)

SetConfiguration(new) ==
  /\ update' = new /\ has_pending' = TRUE
  /\ UNCHANGED <<channel, pc, parsing, active, session, replying, reading,
                 outputs, control, probing>>

\* isConnected: the header is sampled twice, the wait time apart.
SampleHeader ==
  /\ Probing /\ ~probe.asleep
  /\ probe' = [asleep |-> TRUE, header |-> header]
  /\ UNCHANGED <<channel, pc, parsing, configuration, session, replying,
                 reading, outputs, control, connected>>

CompareHeaders ==
  /\ probe.asleep
  /\ connected' =
       (/\ probe.header # NoMessage /\ header # NoMessage
        /\ header.seq > probe.header.seq
        /\ header.time > probe.header.time
        /\ header.time - probe.header.time <= WaitTime)
  /\ probe' = NoProbe
  /\ UNCHANGED <<channel, pc, parsing, configuration, session, replying,
                 reading, outputs, control>>

----------------------------------------------------------------------------
(* The specification                                                       *)

Callback ==
  \/ Receive \/ Configure \/ Extract \/ Initialize
  \/ DemoOutputs \/ DemoOutOfRange \/ WriteInputs \/ ReadOutputs \/ ConstructReply

ControlLoop ==
  pc # "crashed" /\ (WaitForMessage \/ Read \/ Write \/ SkipWrite)

OtherThreads ==
  /\ pc # "crashed"
  /\ \/ \E new \in Configurations : SetConfiguration(new)
     \/ SampleHeader \/ CompareHeaders

\* The states of a message that is not whole are of no interest.
Next ==
  \/ StartSession
  \/ \E ok, whole \in BOOLEAN : (ok => whole) /\ SendMessage(ok, whole)
  \/ Callback
  \/ ControlLoop
  \/ OtherThreads

Spec == Init /\ [][Next]_vars

\* The thread of the io_service runs, and so does the control loop; the robot
\* and the network owe nothing.
Fairness == WF_vars(Callback) /\ WF_vars(ControlLoop)
FairSpec == Spec /\ Fairness

----------------------------------------------------------------------------
(* Properties                                                              *)

TypeOK ==
  /\ robot \in [session : Nat, seq : Nat, time : Nat, external : BOOLEAN]
  /\ net \in Seq(Messages)
  /\ pc \in {"receive", "configure", "extract", "initialize", "demo", "write",
             "outputs", "construct", "crashed"}
  /\ msg \in Messages /\ first_call \in BOOLEAN /\ first_message \in BOOLEAN
  /\ active \in Configuration /\ update \in Configuration
  /\ has_pending \in BOOLEAN
  /\ header \in Messages /\ refused \in BOOLEAN
  /\ sequence \in Nat
  /\ current \in [axes : Axes \cup {"none"}, source : Messages]
  /\ reply \in Replies /\ answered \in Replies
  /\ read_ready \in BOOLEAN /\ inputs \in Messages
  /\ outputs \in Messages
  /\ loop \in {"wait", "read", "write"} /\ seen \in Messages
  /\ probe \in [asleep : BOOLEAN, header : Messages] /\ connected \in BOOLEAN

\* Whenever the control loop reads after a wait that succeeded it gets a message
\* it has not read before, whatever the server does between the two calls: the
\* first message of a session clears read_data_ready_ in between.
ReadsAreNew == loop = "read" => inputs.time > seen.time

\* The callback returns the reply to the message it handled, or an empty one;
\* never the reply to an earlier message once more.
ReplyIsForThisMessage ==
  pc = "receive" => reply = NoReply \/ reply.to = msg

\* No understood message goes unanswered, and demo outputs are written within range,
\* unless the last first message was not understood: the references were prepared
\* for the axes of the configuration in force, though those are set by different
\* messages and the configuration by another thread.  (A first message that is not
\* understood puts the configuration into force and prepares nothing; understood
\* messages can get an empty reply from then on.)
UnderstoodIsAnswered ==
  (~refused /\ pc \in {"demo", "construct"}) => current.axes = active.axes

\* Whatever was last set is in force, or still going to be.
NoUpdateLost == ~has_pending => active = update

\* What isConnected says about a quiet server is true of the last message: it was
\* understood, and came after the first sample.
ConnectedIsUnderstood ==
  [][ (probe.asleep /\ ~probe'.asleep /\ connected' /\ pc = "receive")
      => header = msg /\ msg.time > probe.header.time ]_vars

\* All the replies of a session are made under one configuration ("update is only
\* applied for new EGM communication sessions") and numbered without a gap.
SessionKeepsConfiguration ==
  [][ (answered' # answered /\ answered'.to.session = answered.to.session)
      => /\ answered'.configuration = answered.configuration
         /\ answered'.seqno = answered.seqno + 1 ]_vars

\* The strengthening that makes the safety properties inductive.  Messages are
\* handled in the order in which they are sent:
Sent(m) ==
  /\ m.session \in 1 .. robot.session
  /\ m.time > 0 /\ m.time <= robot.time
  /\ m.session = robot.session => m.seq < robot.seq
Before(a, b) ==
  /\ a.time < b.time
  /\ a.session <= b.session
  /\ a.session = b.session => a.seq < b.seq

InOrder ==
  /\ \A i, j \in DOMAIN net : i < j => Before(net[i], net[j])
  /\ \A i \in DOMAIN net : Sent(net[i]) /\ Before(msg, net[i])
  /\ IF msg = NoMessage THEN pc = "receive" ELSE Sent(msg)
  /\ first_call => msg = NoMessage

\* the inputs are those of the message handled, or of one before it:
InputsInv ==
  /\ seen.time <= inputs.time /\ inputs.time <= msg.time
  /\ pc \in {"configure", "extract", "initialize", "demo", "write"} =>
       inputs.time < msg.time
  /\ read_ready => inputs.time > seen.time

\* the outputs have the axes of the configuration in force, unless the message that
\* put it into force was not understood:
AxesInv ==
  /\ pc = "configure" => first_message
  /\ \/ refused \/ current.axes = active.axes
     \/ first_call
     \/ first_message /\ pc \in {"configure", "extract"}
  /\ pc \notin {"configure", "extract"} => header \in {NoMessage, msg}

\* and replies of the message's session, if any, go on from the last one.
Prepared == pc \notin {"receive", "configure", "extract"}
SessionInv ==
  /\ answered.to.session <= msg.session
  /\ (pc # "receive" /\ first_message) => answered.to.session < msg.session
  /\ (msg # NoMessage /\ answered.to.session = msg.session) =>
       /\ answered.configuration = active /\ current.axes = active.axes
       /\ sequence = IF Prepared THEN answered.seqno + 1 ELSE answered.seqno

InductiveInvariant ==
  /\ TypeOK
  /\ InOrder /\ InputsInv /\ AxesInv /\ SessionInv
  /\ ReadsAreNew /\ ReplyIsForThisMessage /\ UnderstoodIsAnswered /\ NoUpdateLost

\* A control loop that is behind catches up with the server, so that no message
\* is the last one it reads while newer ones lie there; only a session with demo
\* outputs has no use for the control loop.
InputsAreRead == inputs.time > seen.time ~> seen = inputs \/ active.demo

=============================================================================
