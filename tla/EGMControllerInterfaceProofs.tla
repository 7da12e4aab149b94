-------------------- MODULE EGMControllerInterfaceProofs --------------------
(***************************************************************************)
(* Proofs about EGMControllerInterface: its safety invariants, from an      *)
(* inductive invariant that says in which order messages are handled.      *)
(***************************************************************************)
EXTENDS EGMControllerInterface, TLAPS

\* The constants are what the module assumes of them.
LEMMA NoMessageType == NoMessage \in Messages /\ NoReply \in Replies
  BY DEF NoMessage, Messages, NoReply, Replies, DefaultConfiguration, Configuration,
         Axes

\* The initial state has its type.
LEMMA TypeInit == Init => TypeOK
<1> SUFFICES ASSUME Init PROVE TypeOK
  OBVIOUS
<1>1. active \in Configuration /\ update \in Configuration
  <2>1. DefaultConfiguration \in Configuration
    BY DEF DefaultConfiguration, Configuration, Axes
  <2>2. active \in Configurations \cup {DefaultConfiguration} /\ update = active
    BY DEF Init
  <2> QED
    BY <2>1, <2>2, ConfigurationsAssumption
<1>2. robot \in [session : Nat, seq : Nat, time : Nat, external : BOOLEAN]
  BY DEF Init
<1>3. net \in Seq(Messages)
  BY DEF Init
<1>4. probe \in [asleep : BOOLEAN, header : Messages]
  BY NoMessageType DEF Init, NoProbe
<1>5. current \in [axes : Axes \cup {"none"}, source : Messages]
  BY NoMessageType DEF Init
<1> QED
  BY <1>1, <1>2, <1>3, <1>4, <1>5, NoMessageType DEF Init, TypeOK

\* The robot controller's steps keep the types.
LEMMA RobotType ==
  ASSUME TypeOK,
         StartSession \/ \E ok, whole \in BOOLEAN : SendMessage(ok, whole)
  PROVE  TypeOK'
<1> DEFINE Robots == [session : Nat, seq : Nat, time : Nat, external : BOOLEAN]
<1>1. /\ robot \in Robots
      /\ robot.session \in Nat /\ robot.seq \in Nat /\ robot.time \in Nat
      /\ robot.external \in BOOLEAN
  BY DEF TypeOK
<1>2. ASSUME robot' \in Robots, net' \in Seq(Messages),
             UNCHANGED <<pc, parsing, configuration, session, replying, reading,
                         outputs, control, probing>>
      PROVE  TypeOK'
  BY <1>2 DEF TypeOK, parsing, configuration, session, replying, reading, control,
              probing
<1>3. CASE StartSession
  <2>1. robot' = [robot EXCEPT !.session = @ + 1, !.seq = 0] /\ net' = net
    BY <1>3 DEF StartSession
  <2>2. robot' \in Robots
    <3>1. robot' = [session |-> robot.session + 1, seq |-> 0, time |-> robot.time,
                    external |-> robot.external]
      BY <1>1, <2>1
    <3>2. robot.session + 1 \in Nat /\ 0 \in Nat
      BY <1>1
    <3> QED
      BY <1>1, <3>1, <3>2
  <2>3. net' \in Seq(Messages)
    BY <2>1 DEF TypeOK
  <2> QED
    BY <1>2, <1>3, <2>2, <2>3 DEF StartSession
<1>4. ASSUME NEW ok \in BOOLEAN, NEW whole \in BOOLEAN, SendMessage(ok, whole)
      PROVE  TypeOK'
  <2> DEFINE new == [session |-> robot.session, seq |-> robot.seq,
                     time |-> robot.time + 1, ok |-> ok,
                     whole |-> whole]
  <2>1. new \in Messages
    BY <1>1 DEF Messages
  <2>2. net' = Append(net, new) \/ net' = net
    BY <1>4 DEF SendMessage
  <2>3. net' \in Seq(Messages)
    <3>1. net \in Seq(Messages)
      BY DEF TypeOK
    <3> HIDE DEF new
    <3> QED
      BY <2>1, <2>2, <3>1
  <2>4. robot' = [robot EXCEPT !.seq = @ + 1, !.time = @ + 1]
    BY <1>4 DEF SendMessage
  <2>5. robot' \in Robots
    <3>1. robot' = [session |-> robot.session, seq |-> robot.seq + 1,
                    time |-> robot.time + 1, external |-> robot.external]
      BY <1>1, <2>4
    <3>2. robot.seq + 1 \in Nat /\ robot.time + 1 \in Nat
      BY <1>1
    <3> QED
      BY <1>1, <3>1, <3>2
  <2> QED
    BY <1>2, <1>4, <2>3, <2>5 DEF SendMessage
<1> QED
  BY <1>3, <1>4

\* The steps of the callback keep the types.
LEMMA CallbackType == TypeOK /\ Callback => TypeOK'
<1> SUFFICES ASSUME TypeOK, Callback PROVE TypeOK'
  OBVIOUS
<1> USE NoMessageType DEF TypeOK, channel, parsing, configuration, session, replying,
                          reading, control, probing
<1>1. CASE Receive
  <2>1. msg' \in Messages /\ net' \in Seq(Messages)
    BY <1>1 DEF Receive
  <2>2. msg'.seq \in Nat
    BY <2>1 DEF Messages
  <2> QED
    BY <1>1, <2>1, <2>2 DEF Receive
<1>2. CASE Configure
  BY <1>2, ZenonT(40) DEF Configure
<1>3. CASE Extract
  <2>1. [axes |-> active.axes, source |-> msg]
          \in [axes : Axes \cup {"none"}, source : Messages]
    BY DEF Configuration
  <2>2. CASE Understood
    <3>1. sequence' \in Nat
          /\ current' \in [axes : Axes \cup {"none"}, source : Messages]
      BY <1>3, <2>1, <2>2 DEF Extract, PrepareOutputs
    <3> QED
      BY <1>3, <2>2, <3>1 DEF Extract
  <2>3. CASE ~Understood
    BY <1>3, <2>3 DEF Extract
  <2> QED
    BY <2>2, <2>3
<1>4. CASE Initialize
  BY <1>4 DEF Initialize
<1>5. CASE DemoOutputs \/ DemoOutOfRange
  BY <1>5 DEF DemoOutputs, DemoOutOfRange
<1>6. CASE WriteInputs
  BY <1>6 DEF WriteInputs
<1>7. CASE ReadOutputs
  BY <1>7 DEF ReadOutputs
<1>8. CASE ConstructReply
  <2>1. [to |-> msg, seqno |-> sequence, source |-> current.source,
         configuration |-> active] \in Replies
    BY DEF Replies
  <2>2. reply' \in Replies /\ answered' \in Replies
    BY <1>8, <2>1 DEF ConstructReply
  <2> QED
    BY <1>8, <2>2 DEF ConstructReply
<1> QED
  BY <1>1, <1>2, <1>3, <1>4, <1>5, <1>6, <1>7, <1>8 DEF Callback

\* So do the steps of the control loop and of other threads.
LEMMA ThreadsType ==
  ASSUME TypeOK,
         \/ ControlLoop
         \/ \E new \in Configurations : SetConfiguration(new)
         \/ SampleHeader \/ CompareHeaders
  PROVE  TypeOK'
<1> USE NoMessageType DEF TypeOK, channel, parsing, configuration, session, replying,
                          reading, control, probing
<1>1. CASE ControlLoop
  <2>1. CASE WaitForMessage
    BY <2>1 DEF WaitForMessage
  <2>2. CASE Read
    <3>1. seen' \in Messages /\ read_ready' \in BOOLEAN /\ loop' = "write"
      BY <2>2 DEF Read
    <3> QED
      BY <2>2, <3>1 DEF Read
  <2>3. CASE Write
    BY <2>3 DEF Write
  <2>4. CASE SkipWrite
    BY <2>4 DEF SkipWrite
  <2> QED
    BY <1>1, <2>1, <2>2, <2>3, <2>4 DEF ControlLoop
<1>2. ASSUME NEW new \in Configurations, SetConfiguration(new) PROVE TypeOK'
  BY <1>2, ConfigurationsAssumption DEF SetConfiguration
<1>3. CASE SampleHeader
  BY <1>3 DEF SampleHeader
<1>4. CASE CompareHeaders
  <2>1. connected' \in BOOLEAN
    BY <1>4 DEF CompareHeaders
  <2>2. probe' = [asleep |-> FALSE, header |-> NoMessage]
    BY <1>4 DEF CompareHeaders, NoProbe
  <2>3. probe' \in [asleep : BOOLEAN, header : Messages]
    BY <2>2
  <2>4. UNCHANGED <<channel, pc, parsing, configuration, session, replying, reading,
                    outputs, control>>
    BY <1>4 DEF CompareHeaders
  <2> QED
    BY <2>1, <2>3, <2>4
<1> QED
  BY <1>1, <1>2, <1>3, <1>4

\* A step that changes nothing keeps the types.
LEMMA TypeStep == TypeOK /\ [Next]_vars => TypeOK'
<1>1. ASSUME TypeOK, UNCHANGED vars PROVE TypeOK'
  BY <1>1 DEF TypeOK, vars
<1> QED
  BY <1>1, RobotType, CallbackType, ThreadsType DEF Next, OtherThreads

\* Every variable keeps its type: message numbers, modes, configurations and
\* replies, whatever the network and the other threads do.
THEOREM TypeCorrect == Spec => []TypeOK
  BY TypeInit, TypeStep, PTL DEF Spec
----------------------------------------------------------------------------
(* Messages are handled in the order in which they are sent.                *)

\* What a message has, and NoMessage has not.
LEMMA SentType ==
  ASSUME TypeOK, NEW m \in Messages
  PROVE  /\ m.session \in Nat /\ m.seq \in Nat /\ m.time \in Nat
         /\ robot.session \in Nat /\ robot.seq \in Nat /\ robot.time \in Nat
         /\ NoMessage.session = 0 /\ NoMessage.time = 0
         /\ Sent(m) => m # NoMessage /\ Before(NoMessage, m)
<1>1. m.session \in Nat /\ m.seq \in Nat /\ m.time \in Nat
  BY DEF Messages
<1>2. robot.session \in Nat /\ robot.seq \in Nat /\ robot.time \in Nat
  BY DEF TypeOK
<1>3. NoMessage.session = 0 /\ NoMessage.time = 0
  BY DEF NoMessage
<1> QED
  BY <1>1, <1>2, <1>3 DEF Sent, Before

\* The robot's steps leave what was sent before what is sent.
LEMMA RobotOrder ==
  ASSUME TypeOK, InOrder,
         StartSession \/ \E ok, whole \in BOOLEAN : SendMessage(ok, whole)
  PROVE  InOrder'
<1>0. net \in Seq(Messages) /\ msg \in Messages
  BY DEF TypeOK
<1>1. CASE StartSession
  <2>1. /\ robot'.session = robot.session + 1 /\ robot'.seq = 0
        /\ robot'.time = robot.time
        /\ UNCHANGED <<net, msg, pc, first_call>>
    BY <1>1 DEF StartSession, TypeOK, parsing
  <2>2. ASSUME NEW m \in Messages, Sent(m) PROVE Sent(m)'
    BY <2>1, <2>2, SentType DEF Sent
  <2>3. \A i \in DOMAIN net : net[i] \in Messages
    BY <1>0
  <2> QED
    BY <1>0, <2>1, <2>2, <2>3 DEF InOrder, Before
<1>2. ASSUME NEW ok \in BOOLEAN, NEW whole \in BOOLEAN, SendMessage(ok, whole)
      PROVE  InOrder'
  <2> DEFINE new == [session |-> robot.session, seq |-> robot.seq,
                     time |-> robot.time + 1, ok |-> ok,
                     whole |-> whole]
  <2>1. /\ robot.session > 0
        /\ robot'.session = robot.session /\ robot'.seq = robot.seq + 1
        /\ robot'.time = robot.time + 1
        /\ UNCHANGED <<msg, pc, first_call>>
        /\ net' = Append(net, new) \/ net' = net
    BY <1>2 DEF SendMessage, TypeOK, parsing
  <2> DEFINE SentThen(m) ==
        /\ m.session \in 1 .. robot'.session
        /\ m.time > 0 /\ m.time <= robot'.time
        /\ m.session = robot'.session => m.seq < robot'.seq
  <2>a. robot.session \in Nat /\ robot.seq \in Nat /\ robot.time \in Nat
    BY DEF TypeOK
  <2>2. new \in Messages
    BY <2>a DEF Messages
  <2>3. ASSUME NEW m \in Messages, Sent(m) PROVE SentThen(m) /\ Before(m, new)
    BY <2>1, <2>3, <2>a DEF Sent, Before, Messages
  <2>4. SentThen(new) /\ Before(NoMessage, new)
    BY <2>1, <2>a DEF Before, NoMessage
  <2>5. \A i \in DOMAIN net : net[i] \in Messages
    BY <1>0
  <2>6. CASE net' = net
    <3>1. \A i \in DOMAIN net : SentThen(net[i])
      BY <2>3, <2>5 DEF InOrder
    <3>2. IF msg = NoMessage THEN pc = "receive" ELSE SentThen(msg)
      BY <1>0, <2>3 DEF InOrder
    <3> QED
      BY <2>1, <2>6, <3>1, <3>2 DEF InOrder, Sent, Before
  <2>7. CASE net' = Append(net, new)
    <3> HIDE DEF new
    <3>1. /\ DOMAIN net' = 1 .. Len(net) + 1 /\ DOMAIN net = 1 .. Len(net)
          /\ Len(net) \in Nat
          /\ \A i \in DOMAIN net : net'[i] = net[i]
          /\ net'[Len(net) + 1] = new
      BY <1>0, <2>2, <2>7
    <3>2. \A i, j \in DOMAIN net' : i < j => Before(net'[i], net'[j])
      <4> TAKE i, j \in DOMAIN net'
      <4> HAVE i < j
      <4>1. i \in DOMAIN net
        BY <3>1
      <4>2. CASE j \in DOMAIN net
        BY <3>1, <4>1, <4>2 DEF InOrder
      <4>3. CASE j = Len(net) + 1
        BY <2>3, <2>5, <3>1, <4>1, <4>3 DEF InOrder
      <4> QED
        BY <3>1, <4>2, <4>3
    <3>3. \A i \in DOMAIN net' : SentThen(net'[i]) /\ Before(msg', net'[i])
      <4> TAKE i \in DOMAIN net'
      <4>1. CASE i \in DOMAIN net
        <5>1. net'[i] = net[i] /\ net[i] \in Messages /\ Sent(net[i])
              /\ Before(msg, net[i]) /\ msg' = msg
          BY <2>1, <2>5, <3>1, <4>1 DEF InOrder
        <5> QED
          BY <2>3, <5>1
      <4>2. CASE i = Len(net) + 1
        <5>1. msg = NoMessage \/ Sent(msg)
          BY DEF InOrder
        <5>2. Before(msg, new)
          BY <1>0, <2>3, <2>4, <5>1
        <5> QED
          BY <2>1, <2>4, <3>1, <4>2, <5>2
      <4> QED
        BY <3>1, <4>1, <4>2
    <3>4. IF msg' = NoMessage THEN pc' = "receive" ELSE SentThen(msg)
      <4>1. IF msg = NoMessage THEN pc = "receive" ELSE Sent(msg)
        BY DEF InOrder
      <4> QED
        BY <1>0, <2>1, <2>3, <4>1
    <3>5. first_call' => msg' = NoMessage
      BY <2>1 DEF InOrder
    <3> QED
      BY <2>1, <3>2, <3>3, <3>4, <3>5 DEF InOrder, Sent, Before
  <2> QED
    BY <2>1, <2>6, <2>7
<1> QED
  BY <1>1, <1>2

\* A received message is the oldest one under way.
LEMMA ReceiveOrder ==
  ASSUME TypeOK, InOrder, Receive
  PROVE  /\ InOrder'
         /\ msg' \in Messages /\ Sent(msg') /\ Before(msg, msg')
<1>1. /\ net \in Seq(Messages) /\ net # <<>>
      /\ msg' = net[1] /\ net' = Tail(net)
      /\ robot' = robot /\ first_call' = FALSE
  BY DEF TypeOK, Receive
<1>2. /\ Len(net) \in Nat /\ 1 \in DOMAIN net /\ DOMAIN net = 1 .. Len(net)
      /\ DOMAIN net' = 1 .. Len(net) - 1
      /\ \A i \in DOMAIN net' : i + 1 \in DOMAIN net /\ net'[i] = net[i + 1]
  BY <1>1
<1>3. msg' \in Messages /\ Sent(msg') /\ Before(msg, msg')
  BY <1>1, <1>2 DEF InOrder
<1>4. \A i, j \in DOMAIN net' : i < j => Before(net'[i], net'[j])
  BY <1>2 DEF InOrder
<1>5. \A i \in DOMAIN net' : Sent(net'[i]) /\ Before(msg', net'[i])
  BY <1>1, <1>2 DEF InOrder
<1>6. msg' # NoMessage
  BY <1>3, SentType
<1> QED
  BY <1>1, <1>3, <1>4, <1>5, <1>6 DEF InOrder, Sent, Before

\* The other steps have nothing to do with the order of the messages, except
\* that the callback goes on with a message it has.
LEMMA OtherOrder ==
  ASSUME InOrder, UNCHANGED <<robot, net, msg, first_call>>,
         msg = NoMessage => pc' = "receive"
  PROVE  InOrder'
  BY DEF InOrder, Sent, Before
\* Every step keeps the order of the messages.
LEMMA OrderStep == TypeOK /\ InOrder /\ [Next]_vars => InOrder'
<1> SUFFICES ASSUME TypeOK, InOrder, [Next]_vars PROVE InOrder'
  OBVIOUS
<1> USE DEF channel, parsing
<1>1. CASE StartSession \/ \E ok, whole \in BOOLEAN : SendMessage(ok, whole)
  BY <1>1, RobotOrder
<1>2. CASE Receive
  BY <1>2, ReceiveOrder
<1>3. CASE Callback /\ ~Receive
  <2>1. pc # "receive" /\ UNCHANGED <<robot, net, msg, first_call>>
    BY <1>3 DEF Callback, Configure, Extract, Initialize, DemoOutputs,
                DemoOutOfRange, WriteInputs, ReadOutputs, ConstructReply
  <2> QED
    BY <2>1, OtherOrder DEF InOrder
<1>4. CASE ControlLoop
  <2>1. UNCHANGED <<robot, net, msg, first_call, pc>>
    BY <1>4 DEF ControlLoop, WaitForMessage, Read, Write, SkipWrite
  <2> QED
    BY <2>1, OtherOrder DEF InOrder
<1>5. CASE \/ \E new \in Configurations : SetConfiguration(new)
           \/ SampleHeader \/ CompareHeaders
  <2>1. UNCHANGED <<robot, net, msg, first_call, pc>>
    BY <1>5 DEF SetConfiguration, SampleHeader, CompareHeaders
  <2> QED
    BY <2>1, OtherOrder DEF InOrder
<1>6. CASE UNCHANGED vars
  BY <1>6, OtherOrder DEF InOrder, vars
<1> QED
  BY <1>1, <1>2, <1>3, <1>4, <1>5, <1>6 DEF Next, OtherThreads

----------------------------------------------------------------------------
(* What the control loop reads is new.                                      *)

\* The inputs advance with the messages, and what the loop has seen with them.
LEMMA InputsStep ==
  TypeOK /\ InOrder /\ InputsInv /\ ReadsAreNew /\ [Next]_vars
    => InputsInv' /\ ReadsAreNew'
<1> SUFFICES ASSUME TypeOK, InOrder, InputsInv, ReadsAreNew, [Next]_vars
             PROVE  InputsInv' /\ ReadsAreNew'
  OBVIOUS
<1>t. msg.time \in Nat /\ inputs.time \in Nat /\ seen.time \in Nat
  BY DEF TypeOK, Messages
<1> USE <1>t DEF InputsInv, ReadsAreNew, channel, parsing, reading, control
<1>1. CASE StartSession \/ \E ok, whole \in BOOLEAN : SendMessage(ok, whole)
  <2>1. UNCHANGED <<pc, msg, inputs, seen, read_ready, loop>>
    BY <1>1 DEF StartSession, SendMessage
  <2> QED
    BY <2>1
<1>2. CASE Receive
  <2>1. msg' \in Messages /\ Before(msg, msg')
    BY <1>2, ReceiveOrder
  <2>2. msg'.time \in Nat /\ msg.time < msg'.time
    BY <2>1 DEF Messages, Before
  <2>3. pc' \in {"configure", "extract"} /\ UNCHANGED <<seen, inputs, read_ready, loop>>
    BY <1>2 DEF Receive
  <2> QED
    BY <2>2, <2>3
<1>3. CASE Configure
  BY <1>3 DEF Configure
<1>4. CASE Extract
  BY <1>4 DEF Extract
<1>5. CASE Initialize
  BY <1>5 DEF Initialize
<1>6. CASE DemoOutputs \/ DemoOutOfRange
  BY <1>6 DEF DemoOutputs, DemoOutOfRange
<1>7. CASE WriteInputs
  BY <1>7 DEF WriteInputs
<1>8. CASE ReadOutputs
  BY <1>8 DEF ReadOutputs
<1>9. CASE ConstructReply
  BY <1>9 DEF ConstructReply
<1>10. CASE WaitForMessage
  BY <1>10 DEF WaitForMessage
<1>11. CASE Read
  BY <1>11 DEF Read
<1>12. CASE Write \/ SkipWrite
  BY <1>12 DEF Write, SkipWrite
<1>13. CASE \/ \E new \in Configurations : SetConfiguration(new)
            \/ SampleHeader \/ CompareHeaders
  <2>1. UNCHANGED <<pc, msg, inputs, seen, read_ready, loop>>
    BY <1>13 DEF SetConfiguration, SampleHeader, CompareHeaders
  <2> QED
    BY <2>1
<1>14. CASE UNCHANGED vars
  BY <1>14 DEF vars
<1> QED
  BY <1>1, <1>2, <1>3, <1>4, <1>5, <1>6, <1>7, <1>8, <1>9, <1>10, <1>11, <1>12,
     <1>13, <1>14 DEF Next, Callback, ControlLoop, OtherThreads

----------------------------------------------------------------------------
(* Outputs, configuration and replies of a session.                        *)

\* What the steps do not touch that belong to neither the robot nor the callback.
LEMMA ThreadsStep ==
  ASSUME \/ ControlLoop
         \/ SampleHeader \/ CompareHeaders
         \/ StartSession \/ \E ok, whole \in BOOLEAN : SendMessage(ok, whole)
         \/ UNCHANGED vars
  PROVE  UNCHANGED <<pc, msg, first_call, first_message, active, update, has_pending,
                     header, refused, sequence, current, reply, answered>>
BY DEF ControlLoop, WaitForMessage, Read, Write, SkipWrite, SampleHeader,
       CompareHeaders, StartSession, SendMessage, vars, parsing, configuration,
       session, replying

\* The outputs keep the axes of the configuration in force.
LEMMA AxesStep ==
  TypeOK /\ InOrder /\ AxesInv /\ [Next]_vars => AxesInv' /\ UnderstoodIsAnswered'
<1> SUFFICES ASSUME TypeOK, InOrder, AxesInv, [Next]_vars
             PROVE  AxesInv' /\ UnderstoodIsAnswered'
  OBVIOUS
<1>0. InOrder'
  BY OrderStep
<1>c. first_call => pc = "receive"
  BY DEF InOrder
<1>n. first_call' => pc' = "receive"
  BY <1>0 DEF InOrder
<1> SUFFICES AxesInv'
  BY <1>n DEF AxesInv, UnderstoodIsAnswered
<1> USE <1>c DEF AxesInv, session
<1>1. CASE Receive
  BY <1>1 DEF Receive, configuration, replying
<1>2. CASE Configure
  BY <1>2 DEF Configure, parsing, replying
<1>3. CASE Extract
  <2>1. /\ msg' = msg /\ active' = active
        /\ first_message' = first_message /\ first_call' = first_call
    BY <1>3 DEF Extract, parsing, configuration
  <2>2. CASE Understood
    <3>1. first_message => current'.axes = active.axes
      BY <1>3, <2>2 DEF Extract, PrepareOutputs
    <3>2. ~first_message => current' = current /\ refused' = refused
      BY <1>3, <2>2 DEF Extract, PrepareOutputs
    <3> QED
      BY <1>3, <2>1, <2>2, <3>1, <3>2 DEF Extract
  <2>3. CASE ~Understood
    BY <1>3, <2>1, <2>3 DEF Extract
  <2> QED
    BY <2>2, <2>3
<1>4. CASE Initialize \/ WriteInputs \/ DemoOutOfRange
  BY <1>4 DEF Initialize, WriteInputs, DemoOutOfRange, parsing, configuration,
              replying
<1>5. CASE DemoOutputs \/ ReadOutputs
  <2>1. current \in [axes : Axes \cup {"none"}, source : Messages]
    BY DEF TypeOK
  <2>2. current'.axes = current.axes
    BY <1>5, <2>1 DEF DemoOutputs, ReadOutputs
  <2> QED
    BY <1>5, <2>2 DEF DemoOutputs, ReadOutputs, parsing, configuration
<1>6. CASE ConstructReply
  BY <1>6 DEF ConstructReply, parsing, configuration
<1>7. ASSUME NEW new \in Configurations, SetConfiguration(new)
      PROVE  AxesInv'
  BY <1>7 DEF SetConfiguration, parsing, replying
<1>8. CASE \/ ControlLoop
           \/ SampleHeader \/ CompareHeaders
           \/ StartSession \/ \E ok, whole \in BOOLEAN : SendMessage(ok, whole)
           \/ UNCHANGED vars
  BY <1>8, ThreadsStep
<1> QED
  BY <1>1, <1>2, <1>3, <1>4, <1>5, <1>6, <1>7, <1>8 DEF Next, Callback, OtherThreads

\* Replies within a session follow each other.
LEMMA SessionStep ==
  TypeOK /\ InOrder /\ AxesInv /\ SessionInv /\ [Next]_vars => SessionInv'
<1> SUFFICES ASSUME TypeOK, InOrder, AxesInv, SessionInv, [Next]_vars
             PROVE  SessionInv'
  OBVIOUS
<1>t. /\ msg \in Messages /\ msg.session \in Nat /\ msg.seq \in Nat
      /\ answered.to \in Messages /\ answered.to.session \in Nat
      /\ sequence \in Nat /\ answered.seqno \in Nat
  BY DEF TypeOK, Messages, Replies
<1> USE <1>t DEF SessionInv, Prepared
<1>1. CASE Receive
  <2>1. /\ msg' \in Messages /\ Sent(msg') /\ Before(msg, msg')
    BY <1>1, ReceiveOrder
  <2>2. /\ msg'.session \in Nat /\ msg'.seq \in Nat
        /\ msg.session <= msg'.session /\ msg'.session >= 1
        /\ msg.session = msg'.session => msg.seq < msg'.seq
    BY <2>1 DEF Messages, Sent, Before, TypeOK
  <2>3. /\ pc = "receive" /\ pc' \in {"configure", "extract"}
        /\ first_message' = (first_call \/ msg'.seq = 0)
        /\ UNCHANGED <<active, sequence, current, answered>>
    BY <1>1 DEF Receive, configuration, replying
  <2>4. first_call => msg = NoMessage /\ msg.session = 0
    BY DEF InOrder, NoMessage
  <2>5. msg = NoMessage => msg.session = 0
    BY DEF NoMessage
  <2>6. first_message' => answered'.to.session < msg'.session
    <3>1. CASE first_call
      BY <2>2, <2>3, <2>4, <3>1
    <3>2. CASE msg'.seq = 0
      BY <2>2, <2>3, <3>2
    <3> QED
      BY <2>3, <3>1, <3>2
  <2>7. (answered'.to.session = msg'.session) =>
           /\ answered'.configuration = active' /\ current'.axes = active'.axes
           /\ sequence' = answered'.seqno
    BY <2>2, <2>3, <2>5
  <2> QED
    BY <2>2, <2>3, <2>6, <2>7
<1>2. CASE Configure
  <2>1. first_message
    BY <1>2 DEF Configure, AxesInv
  <2> QED
    BY <1>2, <2>1 DEF Configure, parsing, replying
<1>3. CASE Extract
  <2>1. pc = "extract" /\ UNCHANGED <<msg, first_message, active, answered>>
    BY <1>3 DEF Extract, parsing, configuration
  <2>2. CASE Understood
    BY <1>3, <2>1, <2>2 DEF Extract, PrepareOutputs
  <2>3. CASE ~Understood
    BY <1>3, <2>1, <2>3 DEF Extract
  <2> QED
    BY <2>2, <2>3
<1>4. CASE Initialize \/ DemoOutputs \/ DemoOutOfRange \/ WriteInputs \/ ReadOutputs
  <2>1. current \in [axes : Axes \cup {"none"}, source : Messages]
    BY DEF TypeOK
  <2>2. /\ current'.axes = current.axes
        /\ UNCHANGED <<msg, first_message, active, sequence, answered>>
    BY <1>4, <2>1 DEF Initialize, DemoOutputs, DemoOutOfRange, WriteInputs,
                      ReadOutputs, parsing, configuration, replying
  <2>3. pc \notin {"receive", "configure", "extract"}
        /\ pc' \notin {"receive", "configure", "extract"}
    BY <1>4 DEF Initialize, DemoOutputs, DemoOutOfRange, WriteInputs, ReadOutputs
  <2> QED
    BY <2>2, <2>3
<1>5. CASE ConstructReply /\ current.axes # active.axes
  <2>1. /\ answered' = answered /\ pc' = "receive" /\ pc = "construct"
        /\ UNCHANGED <<msg, first_message, active, current, sequence>>
    BY <1>5 DEF ConstructReply, parsing, configuration
  <2>2. answered.to.session # msg.session
    BY <1>5, <2>1 DEF InOrder
  <2> QED
    BY <2>1, <2>2
<1>8. CASE ConstructReply /\ current.axes = active.axes
  <2>1. current.axes = active.axes /\ msg # NoMessage
    BY <1>8 DEF ConstructReply, InOrder
  <2> DEFINE new == [to |-> msg, seqno |-> sequence, source |-> current.source,
                     configuration |-> active]
  <2>2. new # NoReply
    BY <2>1 DEF NoReply
  <2>3. answered' = new /\ pc' = "receive"
        /\ UNCHANGED <<msg, active, current, sequence>>
    BY <1>8, <2>1, <2>2 DEF ConstructReply, parsing, configuration
  <2> QED
    BY <2>1, <2>3
<1>6. ASSUME NEW c \in Configurations, SetConfiguration(c)
      PROVE  SessionInv'
  BY <1>6 DEF SetConfiguration, parsing, replying
<1>7. CASE \/ ControlLoop
           \/ SampleHeader \/ CompareHeaders
           \/ StartSession \/ \E ok, whole \in BOOLEAN : SendMessage(ok, whole)
           \/ UNCHANGED vars
  <2>1. UNCHANGED <<pc, msg, first_message, active, current, sequence, answered>>
    BY <1>7, ThreadsStep
  <2> QED
    BY <2>1
<1> QED
  BY <1>1, <1>2, <1>3, <1>4, <1>5, <1>6, <1>7, <1>8 DEF Next, Callback, OtherThreads

\* The callback ends with the reply to its message, or with an empty one.
LEMMA ReplyStep == ReplyIsForThisMessage /\ [Next]_vars => ReplyIsForThisMessage'
<1> SUFFICES ASSUME ReplyIsForThisMessage, [Next]_vars PROVE ReplyIsForThisMessage'
  OBVIOUS
<1> USE DEF ReplyIsForThisMessage
<1>1. CASE Callback /\ ~ConstructReply /\ ~Extract
  BY <1>1 DEF Callback, Receive, Configure, Initialize, DemoOutputs, DemoOutOfRange,
              WriteInputs, ReadOutputs
<1>2. CASE Extract
  BY <1>2 DEF Extract
<1>3. CASE ConstructReply
  BY <1>3 DEF ConstructReply, parsing
<1>4. ASSUME NEW new \in Configurations, SetConfiguration(new)
      PROVE  ReplyIsForThisMessage'
  BY <1>4 DEF SetConfiguration, parsing, replying
<1>5. CASE \/ ControlLoop
           \/ SampleHeader \/ CompareHeaders
           \/ StartSession \/ \E ok, whole \in BOOLEAN : SendMessage(ok, whole)
           \/ UNCHANGED vars
  BY <1>5, ThreadsStep
<1> QED
  BY <1>1, <1>2, <1>3, <1>4, <1>5 DEF Next, OtherThreads

\* An update is taken over when the flag is reset.
LEMMA UpdateStep == NoUpdateLost /\ [Next]_vars => NoUpdateLost'
<1> SUFFICES ASSUME NoUpdateLost, [Next]_vars PROVE NoUpdateLost'
  OBVIOUS
<1> USE DEF NoUpdateLost
<1>1. CASE Callback /\ ~Configure
  BY <1>1 DEF Callback, Receive, Extract, Initialize, DemoOutputs, DemoOutOfRange,
              WriteInputs, ReadOutputs, ConstructReply, configuration
<1>2. CASE Configure
  BY <1>2 DEF Configure
<1>3. ASSUME NEW new \in Configurations, SetConfiguration(new)
      PROVE  NoUpdateLost'
  BY <1>3 DEF SetConfiguration
<1>4. CASE \/ ControlLoop
           \/ SampleHeader \/ CompareHeaders
           \/ StartSession \/ \E ok, whole \in BOOLEAN : SendMessage(ok, whole)
           \/ UNCHANGED vars
  BY <1>4, ThreadsStep
<1> QED
  BY <1>1, <1>2, <1>3, <1>4 DEF Next, OtherThreads

----------------------------------------------------------------------------
(* The theorems                                                             *)

\* Nothing has happened in the initial state.
LEMMA InvariantInit == Init => InductiveInvariant
<1> SUFFICES ASSUME Init PROVE InductiveInvariant
  OBVIOUS
<1>1. TypeOK
  BY TypeInit
<1>2. InOrder /\ InputsInv /\ ReadsAreNew
  BY DEF Init, InOrder, InputsInv, ReadsAreNew, NoMessage
<1>3. AxesInv /\ UnderstoodIsAnswered
  BY DEF Init, AxesInv, UnderstoodIsAnswered
<1>4. SessionInv
  BY DEF Init, SessionInv, NoMessage, NoReply
<1>5. ReplyIsForThisMessage /\ NoUpdateLost
  BY DEF Init, ReplyIsForThisMessage, NoUpdateLost
<1> QED
  BY <1>1, <1>2, <1>3, <1>4, <1>5 DEF InductiveInvariant

LEMMA InvariantStep == InductiveInvariant /\ [Next]_vars => InductiveInvariant'
  BY TypeStep, OrderStep, InputsStep, AxesStep, SessionStep, ReplyStep, UpdateStep
     DEF InductiveInvariant

\* The order of the messages, and what the callback's steps make of it, is an
\* invariant for any configurations, bounds and losses.
THEOREM InductiveInvariantHolds == Spec => []InductiveInvariant
  BY InvariantInit, InvariantStep, PTL DEF Spec

\* A read after a wait that succeeded is new, wherever the server is.
THEOREM ReadsAreNewHolds == Spec => []ReadsAreNew
<1>1. InductiveInvariant => ReadsAreNew
  BY DEF InductiveInvariant
<1> QED
  BY <1>1, InductiveInvariantHolds, PTL

\* No reply is sent twice, none for another message.
THEOREM ReplyIsForThisMessageHolds == Spec => []ReplyIsForThisMessage
<1>1. InductiveInvariant => ReplyIsForThisMessage
  BY DEF InductiveInvariant
<1> QED
  BY <1>1, InductiveInvariantHolds, PTL

\* An understood message is answered, whatever configurations were set meanwhile,
\* unless the last first message was not understood.
THEOREM UnderstoodIsAnsweredHolds == Spec => []UnderstoodIsAnswered
<1>1. InductiveInvariant => UnderstoodIsAnswered
  BY DEF InductiveInvariant
<1> QED
  BY <1>1, InductiveInvariantHolds, PTL

\* No configuration gets lost between two threads.
THEOREM NoUpdateLostHolds == Spec => []NoUpdateLost
<1>1. InductiveInvariant => NoUpdateLost
  BY DEF InductiveInvariant
<1> QED
  BY <1>1, InductiveInvariantHolds, PTL

\* A session is served under one configuration, its replies numbered without gap.
THEOREM SessionKeepsConfigurationHolds == Spec => SessionKeepsConfiguration
<1> DEFINE Goes == (answered' # answered /\ answered'.to.session = answered.to.session)
                     => /\ answered'.configuration = answered.configuration
                        /\ answered'.seqno = answered.seqno + 1
<1>1. ASSUME InductiveInvariant, [Next]_vars PROVE [Goes]_vars
  <2>1. CASE ConstructReply /\ current.axes = active.axes
    <3>1. pc = "construct" /\ msg # NoMessage
      BY <1>1, <2>1 DEF ConstructReply, InductiveInvariant, InOrder
    <3>2. [to |-> msg, seqno |-> sequence, source |-> current.source,
           configuration |-> active] # NoReply
      BY <3>1 DEF NoReply
    <3>3. answered' = [to |-> msg, seqno |-> sequence, source |-> current.source,
                       configuration |-> active]
      BY <2>1, <3>1, <3>2 DEF ConstructReply
    <3> QED
      BY <1>1, <3>1, <3>3 DEF InductiveInvariant, SessionInv, Prepared
  <2>3. CASE ConstructReply /\ current.axes # active.axes
    BY <2>3 DEF ConstructReply
  <2>2. CASE ~ConstructReply
    <3>1. answered' = answered
      BY <1>1, <2>2, ThreadsStep
         DEF Next, Callback, Receive, Configure, Extract, Initialize, DemoOutputs,
             DemoOutOfRange, WriteInputs, ReadOutputs, OtherThreads, SetConfiguration,
             replying
    <3> QED
      BY <3>1
  <2> QED
    BY <2>1, <2>2, <2>3
<1> QED
  BY <1>1, InductiveInvariantHolds, PTL DEF Spec, SessionKeepsConfiguration

\* isConnected speaks of the last message when the server is quiet.
THEOREM ConnectedIsUnderstoodHolds == Spec => ConnectedIsUnderstood
<1> DEFINE Tells == (probe.asleep /\ ~probe'.asleep /\ connected' /\ pc = "receive")
                      => header = msg /\ msg.time > probe.header.time
<1>1. ASSUME InductiveInvariant, [Next]_vars PROVE [Tells]_vars
  <2>1. CASE CompareHeaders
    <3>1. pc = "receive" => header \in {NoMessage, msg}
      BY <1>1 DEF InductiveInvariant, AxesInv
    <3> QED
      BY <2>1, <3>1 DEF CompareHeaders
  <2>2. CASE SampleHeader
    BY <2>2 DEF SampleHeader
  <2>3. CASE ~CompareHeaders /\ ~SampleHeader
    <3>1. probe' = probe
      BY <1>1, <2>3
         DEF Next, Callback, Receive, Configure, Extract, Initialize, DemoOutputs,
             DemoOutOfRange, WriteInputs, ReadOutputs, ConstructReply, OtherThreads,
             SetConfiguration, ControlLoop, WaitForMessage, Read, Write, SkipWrite,
             StartSession, SendMessage, probing, vars
    <3> QED
      BY <3>1
  <2> QED
    BY <2>1, <2>2, <2>3
<1> QED
  BY <1>1, InductiveInvariantHolds, PTL DEF Spec, ConnectedIsUnderstood
=============================================================================
