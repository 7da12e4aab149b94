-------------------------- MODULE SmartGripperProofs --------------------------
(***************************************************************************)
(* Proofs that the hand is sent on its way from its ready position only.   *)
(***************************************************************************)
EXTENDS SmartGripper, SequenceTheorems, TLAPS

\* The invariant of the services: types, and what is known of a ready hand.
Inv == TypeOK /\ ReadyInv

\* The commands and states as lists.
LEMMA Names ==
  /\ Motions = {"CLOSE", "OPEN", "GRIPINWARD", "GRIPOUTWARD", "GO_TO_CALIBRATION"}
  /\ \A s \in Services : CommandOf(s) \in Motions /\ CommandOf(s) # "GO_TO_READY"
  /\ \A c \in Motions : EndOf(c) \in {"KEEPOBJ", "ACTION_COMPLETED"}
<1>1. Services = {"JogOut", "JogIn", "GripIn", "GripOut", "Calibrate"}
  BY DEF Services, Jogs, Grips
<1>2. Motions = {CommandOf("JogOut"), CommandOf("JogIn"), CommandOf("GripIn"),
                 CommandOf("GripOut"), CommandOf("Calibrate")}
  BY <1>1 DEF Motions
<1>3. /\ CommandOf("JogOut") = "OPEN" /\ CommandOf("JogIn") = "CLOSE"
      /\ CommandOf("GripIn") = "GRIPINWARD" /\ CommandOf("GripOut") = "GRIPOUTWARD"
      /\ CommandOf("Calibrate") = "GO_TO_CALIBRATION"
  BY DEF CommandOf
<1> QED
  BY <1>1, <1>2, <1>3 DEF EndOf

\* The hand and the node come up as the invariant says.
LEMMA InitInv == Init => Inv
<1> SUFFICES ASSUME Init PROVE Inv
  OBVIOUS
<1>1. command \in Motions \cup {"GO_TO_READY"} /\ state \in States
  BY Names DEF Init, States
<1>2. state = "READY" => command = "GO_TO_READY"
  BY Names DEF Init
<1>3. fast \in BOOLEAN /\ calibrated \in BOOLEAN /\ heard \in BOOLEAN
  BY Zenon DEF Init
<1>4. requests \in Seq(BOOLEAN) /\ asked \in 0 .. MaxRequests
  BY RequestsAssumption DEF Init
<1>5. /\ service \in Services /\ at \in Stages
      /\ gripper_cmd \in BOOLEAN /\ old_gripper_cmd \in BOOLEAN /\ lost \in BOOLEAN
  BY DEF Init, Services, Jogs, Stages
<1>6. ReadyInv
  BY <1>2 DEF Init, ReadyInv
<1> QED
  BY <1>1, <1>3, <1>4, <1>5, <1>6 DEF Inv, TypeOK

\* What a write of the ready command does to a hand that is not ready, or has
\* heard of being so.
LEMMA WriteReady ==
  ASSUME Inv, Write("GO_TO_READY"), at \notin {"settle", "await end"}
  PROVE  /\ command' \in Motions \cup {"GO_TO_READY"} /\ heard' \in BOOLEAN /\ lost' \in BOOLEAN
         /\ state' = state /\ fast' = fast /\ calibrated' = calibrated
         /\ state = "READY" => heard' /\ command' = "GO_TO_READY"
  BY Names DEF Inv, TypeOK, ReadyInv, Write, hand

\* Every step of the hand keeps the invariant.
LEMMA HandInv == Inv /\ Hand => Inv'
<1> SUFFICES ASSUME Inv, Hand PROVE Inv'
  OBVIOUS
<1> USE DEF Inv, TypeOK, ReadyInv, node, clients
<1>1. CASE Hear
  <2>1. state' \in States /\ (state' = "READY" => command = "GO_TO_READY")
    BY <1>1, Names DEF Hear, States
  <2> QED
    BY <1>1, <2>1 DEF Hear
<1>2. CASE SlowDown
  BY <1>2 DEF SlowDown
<1>3. CASE Arrive
  <2>1. state' \in States
    BY <1>3, Names DEF Arrive, States, EndOf
  <2>2. state' # "READY"
    BY <1>3, Names DEF Arrive, EndOf
  <2> QED
    BY <1>3, <2>1, <2>2 DEF Arrive
<1> QED
  BY <1>1, <1>2, <1>3 DEF Hand

\* Returning from a service keeps the types of the node.
LEMMA ReturnNode ==
  ASSUME Inv, Return
  PROVE  /\ service' \in Services /\ at' \in {"ready", "check", "spin"}
         /\ gripper_cmd' = gripper_cmd /\ old_gripper_cmd' \in BOOLEAN
         /\ requests' = requests /\ asked' = asked
  BY DEF Inv, TypeOK, Return, clients, Services, Jogs, Grips

\* Every step of a service keeps the invariant.
LEMMA ServiceInv == Inv /\ (Service \/ CrashOnSpeed) => Inv'
<1> SUFFICES ASSUME Inv, Service \/ CrashOnSpeed PROVE Inv'
  OBVIOUS
<1> USE DEF Inv, TypeOK, ReadyInv, hand, clients, Goto, Stages
<1>1. CASE CheckCalibration
  <2>1. CASE Goto("ready")
    BY <1>1, <2>1 DEF CheckCalibration
  <2>2. CASE Return
    BY <1>1, <2>2, ReturnNode DEF CheckCalibration
  <2> QED
    BY <1>1, <2>1, <2>2 DEF CheckCalibration
<1>2. CASE GetReady
  BY <1>2, WriteReady DEF GetReady
<1>3. CASE AwaitReady
  BY <1>3 DEF AwaitReady
<1>4. CASE Move
  <2>1. CommandOf(service) \in Motions /\ CommandOf(service) # "GO_TO_READY"
    BY Names
  <2>2. command = "GO_TO_READY"
    BY <1>4 DEF Move
  <2>3. CASE command' = CommandOf(service) /\ heard' = FALSE /\ UNCHANGED <<state, fast, calibrated, lost>>
    BY <1>4, <2>1, <2>3 DEF Move
  <2>4. CASE lost' = TRUE /\ UNCHANGED hand
    BY <1>4, <2>4 DEF Move
  <2> QED
    BY <1>4, <2>1, <2>2, <2>3, <2>4 DEF Move, Write
<1>5. CASE Settle
  BY <1>5 DEF Settle
<1>6. CASE AwaitEnd
  <2>1. CASE Goto("rest")
    <3>1. UNCHANGED <<hand, lost>>
      BY <1>6, Zenon DEF AwaitEnd
    <3>2. heard \/ state # "READY"
      BY <1>6 DEF AwaitEnd, Jogs, Grips
    <3> QED
      BY <2>1, <3>1, <3>2
  <2>2. CASE Return /\ service \in Grips
    <3>1. heard
      BY <1>6, <2>2 DEF AwaitEnd, Grips
    <3> QED
      BY <1>6, <2>2, <3>1, ReturnNode DEF AwaitEnd
  <2> QED
    BY <1>6, <2>1, <2>2 DEF AwaitEnd
<1>7. CASE Rest
  BY <1>7, WriteReady, ReturnNode DEF Rest
<1>8. CASE AwaitRest
  BY <1>8 DEF AwaitRest
<1>9. CASE RestAgain
  BY <1>9, WriteReady, ReturnNode DEF RestAgain
<1>10. CASE CrashOnSpeed
  BY <1>10 DEF CrashOnSpeed, Jogs
<1> QED
  BY <1>1, <1>2, <1>3, <1>4, <1>5, <1>6, <1>7, <1>8, <1>9, <1>10 DEF Service

\* Requests are counted up to the bound.
LEMMA Counted ==
  ASSUME asked \in 0 .. MaxRequests, asked < MaxRequests, asked' = asked + 1
  PROVE  asked' \in 0 .. MaxRequests
  BY RequestsAssumption

\* The main loop and the clients keep the invariant.
LEMMA NodeInv == Inv /\ (Node \/ Client) => Inv'
<1> USE DEF Inv, TypeOK, ReadyInv, hand, clients, node, Stages
<1>1. ASSUME Inv, Loop PROVE Inv'
  BY <1>1 DEF Loop, Services, Grips
<1>2. ASSUME Inv, SpinOnce PROVE Inv'
  <2>1. gripper_cmd' \in BOOLEAN
    BY <1>2 DEF SpinOnce
  <2> QED
    BY <1>2, <2>1 DEF SpinOnce
<1>3. ASSUME Inv, Client PROVE Inv'
  <2>1. PICK data \in BOOLEAN : Request(data)
    BY <1>3, Zenon DEF Client
  <2>2. requests' \in Seq(BOOLEAN)
    BY <1>3, <2>1, AppendProperties, Zenon DEF Request
  <2>3. asked' \in 0 .. MaxRequests
    BY <1>3, <2>1, Counted, Zenon DEF Request
  <2>4. UNCHANGED <<hand, node, lost>>
    BY <2>1, Zenon DEF Request
  <2> QED
    BY <1>3, <2>2, <2>3, <2>4, ZenonT(40)
<1> QED
  BY <1>1, <1>2, <1>3 DEF Node

\* Every step keeps the invariant.
LEMMA NextInv == Inv /\ [Next]_vars => Inv'
<1>1. Inv /\ UNCHANGED vars => Inv'
  <2> SUFFICES ASSUME Inv, UNCHANGED vars PROVE Inv'
    OBVIOUS
  <2>1. /\ UNCHANGED <<command, heard, state, fast, calibrated, lost>>
        /\ UNCHANGED <<service, at, gripper_cmd, old_gripper_cmd, requests, asked>>
    BY Zenon DEF vars, hand, node, clients
  <2> QED
    BY <2>1 DEF Inv, TypeOK, ReadyInv
<1> QED
  BY <1>1, HandInv, ServiceInv, NodeInv DEF Next, PollAgain

\* In every state the types are right, and a hand that is awaited is ready.
THEOREM Invariance == Spec => [](TypeOK /\ ReadyInv)
  BY InitInv, NextInv, PTL DEF Spec, Inv

\* A motion is commanded only by Move, which the invariant places after a hand
\* that is ready and has heard of it.
LEMMA MoveFromReady ==
  Inv /\ [Next]_vars => ((command' # command /\ command' \in Motions) => (state = "READY" /\ heard))
<1> SUFFICES ASSUME Inv, [Next]_vars, command' # command, command' \in Motions
             PROVE  state = "READY" /\ heard
  OBVIOUS
<1>1. "GO_TO_READY" \notin Motions
  BY Names
<1>2. Move
  BY <1>1 DEF Next, Hand, Hear, SlowDown, Arrive, Service, CheckCalibration, GetReady,
              AwaitReady, Settle, AwaitEnd, CrashOnSpeed, Rest, AwaitRest, RestAgain,
              PollAgain, Node, Loop, SpinOnce, Client, Request, Write, hand, vars
<1> QED
  BY <1>2 DEF Move, Inv, ReadyInv

\* The gripper services never send a hand on its way that is not ready, whatever
\* was lost before.
THEOREM MovesFromReadyHolds == Spec => MovesFromReady
  BY InitInv, NextInv, MoveFromReady, PTL DEF Spec, MovesFromReady, Inv
==============================================================================
