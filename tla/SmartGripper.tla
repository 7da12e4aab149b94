----------------------------- MODULE SmartGripper -----------------------------
(***************************************************************************)
(* The gripper services of RWSStateMachineInterface, which write signals   *)
(* of the hand and poll others until it has followed, and the node         *)
(* abb_interface_gripper, which runs them for its clients one after the    *)
(* other.  A request to the controller may fail: what was to be written is *)
(* then lost, and what was to be read is empty.                            *)
(***************************************************************************)
EXTENDS Integers, Sequences

CONSTANT MaxRequests  \* bound on the requests of the node's clients

ASSUME RequestsAssumption == MaxRequests \in Nat

VARIABLES
  \* The hand (external): its command signal, whether it has heard of it, its
  \* state signal, whether it is fast, and whether it is calibrated.
  command, heard, state, fast, calibrated,
  \* The node: the service that runs and its place in it, the requested and the
  \* last handled position of the gripper (TRUE for gripped inwards).
  service, at, gripper_cmd, old_gripper_cmd,
  \* Requests of clients that wait for spinOnce, and how many there were.
  requests, asked,
  \* History: a write was lost.
  lost

hand == <<command, heard, state, fast, calibrated>>
node == <<service, at, gripper_cmd, old_gripper_cmd>>
clients == <<requests, asked>>
vars == <<hand, node, clients, lost>>

Jogs == {"JogOut", "JogIn"}
Grips == {"GripIn", "GripOut"}
Services == Jogs \cup Grips \cup {"Calibrate"}

\* The command of a service, and the state the hand ends in.
CommandOf(s) ==
  CASE s = "JogIn" -> "CLOSE"
    [] s = "JogOut" -> "OPEN"
    [] s = "GripIn" -> "GRIPINWARD"
    [] s = "GripOut" -> "GRIPOUTWARD"
    [] s = "Calibrate" -> "GO_TO_CALIBRATION"
Motions == {CommandOf(s) : s \in Services}
EndOf(c) ==
  IF c \in {"GRIPINWARD", "GRIPOUTWARD"} THEN "KEEPOBJ" ELSE "ACTION_COMPLETED"

Stages == {"check", "ready", "await ready", "move", "settle", "await end",
           "rest", "await rest", "rest again", "loop", "spin", "crashed"}
States == {"READY", "BUSY", "ACTION_COMPLETED", "KEEPOBJ", "ERROR"}

TypeOK ==
  /\ command \in Motions \cup {"GO_TO_READY"} /\ heard \in BOOLEAN
  /\ state \in States /\ fast \in BOOLEAN /\ calibrated \in BOOLEAN
  /\ service \in Services /\ at \in Stages
  /\ gripper_cmd \in BOOLEAN /\ old_gripper_cmd \in BOOLEAN
  /\ requests \in Seq(BOOLEAN) /\ asked \in 0 .. MaxRequests
  /\ lost \in BOOLEAN

\* The hand is as an earlier run of the node, which may have been stopped
\* anywhere, has left it.  The node jogs it before anything else.
Init ==
  /\ heard = TRUE /\ calibrated \in BOOLEAN
  /\ \/ command = "GO_TO_READY" /\ state = "READY" /\ fast = FALSE
     \/ command \in Motions /\ state = EndOf(command) /\ fast = FALSE
     \/ command \in Motions /\ state = "BUSY" /\ fast \in BOOLEAN
  /\ service = "JogOut" /\ at = "ready"
  /\ gripper_cmd = FALSE /\ old_gripper_cmd = FALSE
  /\ requests = <<>> /\ asked = 0 /\ lost = FALSE

----------------------------------------------------------------------------
(* The hand                                                                *)

\* It goes where the command says; a grip needs the calibration.
Hear ==
  /\ ~heard /\ heard' = TRUE
  /\ CASE command = "GO_TO_READY" -> state' = "READY" /\ fast' = FALSE
       [] EndOf(command) = "KEEPOBJ" /\ ~calibrated -> state' = "ERROR" /\ fast' = FALSE
       [] OTHER -> state' = "BUSY" /\ fast' = TRUE
  /\ UNCHANGED <<command, calibrated, node, clients, lost>>

\* It slows down near the end.
SlowDown ==
  /\ heard /\ state = "BUSY" /\ fast
  /\ fast' = FALSE
  /\ UNCHANGED <<command, heard, state, calibrated, node, clients, lost>>

Arrive ==
  /\ heard /\ state = "BUSY" /\ ~fast
  /\ state' = EndOf(command)
  /\ calibrated' = (calibrated \/ command = "GO_TO_CALIBRATION")
  /\ UNCHANGED <<command, heard, fast, node, clients, lost>>

----------------------------------------------------------------------------
(* Signals                                                                 *)

\* setIOSignal, whose result no service looks at.  To the hand a value that is
\* written again is no news.
Write(c) ==
  \/ /\ command' = c /\ heard' = (heard /\ command = c)
     /\ UNCHANGED <<state, fast, calibrated, lost>>
  \/ lost' = TRUE /\ UNCHANGED hand

\* getIOSignal, with "" when the request fails.
Read(signal) == {signal, ""}

Goto(stage) == at' = stage /\ UNCHANGED <<service, gripper_cmd, old_gripper_cmd, clients>>

\* Mutant: the handled request is noted in one branch of the loop only.
ReturnNotingGripIn ==
  /\ CASE service = "JogOut" -> service' = "JogIn" /\ at' = "ready"
       [] service = "JogIn" -> service' = "Calibrate" /\ at' = "check"
       [] OTHER -> at' = "spin" /\ UNCHANGED service
  /\ old_gripper_cmd' = IF service = "GripIn" THEN gripper_cmd ELSE old_gripper_cmd
  /\ UNCHANGED <<gripper_cmd, clients>>

\* What comes after a service: the start-up calls three, one after the other,
\* and the main loop has handled its request, whether or not it succeeded.
Return ==
  /\ CASE service = "JogOut" -> service' = "JogIn" /\ at' = "ready"
       [] service = "JogIn" -> service' = "Calibrate" /\ at' = "check"
       [] OTHER -> at' = "spin" /\ UNCHANGED service
  /\ old_gripper_cmd' = IF service \in Grips THEN gripper_cmd ELSE old_gripper_cmd
  /\ UNCHANGED <<gripper_cmd, clients>>

----------------------------------------------------------------------------
(* The services                                                            *)

\* A grip is refused by a hand known not to be calibrated, a calibration by one
\* not known not to be.
CheckCalibration ==
  /\ at = "check"
  /\ \E value \in Read(IF calibrated THEN "HIGH" ELSE "LOW") :
       IF (value = "LOW") <=> (service = "Calibrate") THEN Goto("ready") ELSE Return
  /\ UNCHANGED <<hand, lost>>

GetReady ==
  /\ at = "ready"
  /\ Write("GO_TO_READY")
  /\ Goto("await ready")

\* Mutant: a grip does not wait for the hand to be ready.
AwaitReadyUnlessGrip ==
  /\ at = "await ready" /\ (service \in Grips \/ state = "READY")
  /\ Goto("move")
  /\ UNCHANGED <<hand, lost>>

\* The polling of SG_SYS_STATE ends with a read of READY.
AwaitReady ==
  /\ at = "await ready" /\ state = "READY"
  /\ Goto("move")
  /\ UNCHANGED <<hand, lost>>

Move ==
  /\ at = "move"
  /\ Write(CommandOf(service))
  /\ Goto(IF service = "Calibrate" THEN "await end" ELSE "settle")

\* Half a second, after which the hand has heard of the command.
Settle ==
  /\ at = "settle" /\ heard
  /\ Goto("await end")
  /\ UNCHANGED <<hand, lost>>

\* A jog polls the speed, the others the state they end in.
AwaitEnd ==
  /\ at = "await end"
  /\ \/ service = "Calibrate" /\ state = "ACTION_COMPLETED" /\ Goto("rest")
     \/ service \in Jogs /\ ~fast /\ Goto("rest")
     \/ service \in Grips /\ state = "KEEPOBJ" /\ Return
  /\ UNCHANGED <<hand, lost>>

\* std::stoi throws on the speed that was not read, and nothing catches it.
CrashOnSpeed ==
  /\ at = "await end" /\ service \in Jogs
  /\ Goto("crashed")
  /\ UNCHANGED <<hand, lost>>

\* Calibrate does not wait for the hand to rest.
Rest ==
  /\ at = "rest"
  /\ Write("GO_TO_READY")
  /\ IF service = "Calibrate" THEN Return ELSE Goto("await rest")

AwaitRest ==
  /\ at = "await rest" /\ state = "READY"
  /\ Goto("rest again")
  /\ UNCHANGED <<hand, lost>>

RestAgain ==
  /\ at = "rest again"
  /\ Write("GO_TO_READY")
  /\ Return

\* Any other answer: the signal is read again.
PollAgain ==
  /\ at \in {"await ready", "await end", "await rest"}
  /\ UNCHANGED vars

----------------------------------------------------------------------------
(* The node                                                                *)

\* The main loop compares the request with what was handled last.
Loop ==
  /\ at = "loop"
  /\ IF gripper_cmd = old_gripper_cmd
       THEN at' = "spin" /\ UNCHANGED service
       ELSE at' = "check" /\ service' = IF gripper_cmd THEN "GripIn" ELSE "GripOut"
  /\ UNCHANGED <<hand, gripper_cmd, old_gripper_cmd, clients, lost>>

\* spinOnce runs callback_gripper for all the requests there are.
SpinOnce ==
  /\ at = "spin" /\ at' = "loop"
  /\ gripper_cmd' = IF requests = <<>> THEN gripper_cmd ELSE requests[Len(requests)]
  /\ requests' = <<>>
  /\ UNCHANGED <<hand, service, old_gripper_cmd, asked, lost>>

Request(data) ==
  /\ asked < MaxRequests /\ asked' = asked + 1
  /\ requests' = Append(requests, data)
  /\ UNCHANGED <<hand, node, lost>>

----------------------------------------------------------------------------
(* The specification                                                       *)

Hand == Hear \/ SlowDown \/ Arrive
Service ==
  \/ CheckCalibration \/ GetReady \/ AwaitReady \/ Move \/ Settle \/ AwaitEnd
  \/ Rest \/ AwaitRest \/ RestAgain
Node == Loop \/ SpinOnce
Client == \E data \in BOOLEAN : Request(data)

Next ==
  \/ Hand
  \/ Service \/ CrashOnSpeed \/ PollAgain
  \/ Node
  \/ Client

Spec == Init /\ [][Next]_vars

\* The hand moves, the node runs, and a poll that is repeated is answered.
Fairness == WF_vars(Hand) /\ SF_vars(Service) /\ WF_vars(Node)
FairSpec == Spec /\ Fairness

----------------------------------------------------------------------------
(* Properties                                                              *)

\* The hand is sent on its way only from its ready position, with no earlier
\* command still before it, whatever it was doing when the node came up, and
\* whatever requests of the services before were lost or not answered.
MovesFromReady ==
  [][ (command' # command /\ command' \in Motions) => (state = "READY" /\ heard) ]_vars

\* Ready means that the hand has taken a command to rest, and the services know
\* it when they have waited for it; that a motion has not been taken yet is seen
\* only while the service that asked for it runs.
ReadyInv ==
  /\ state = "READY" /\ heard => command = "GO_TO_READY"
  /\ at = "move" => state = "READY" /\ heard
  /\ state = "READY" /\ ~heard => at \in {"settle", "await end"}
  /\ at = "await end" /\ service # "Calibrate" => heard

\* The node has no request left, and the hand has done the last one it handled.
Served ==
  /\ requests = <<>> /\ gripper_cmd = old_gripper_cmd
  /\ gripper_cmd => command = "GRIPINWARD" /\ state = "KEEPOBJ"
  /\ command = "GRIPINWARD" => gripper_cmd
  /\ EndOf(command) = "KEEPOBJ" => state = "KEEPOBJ"

\* The last of the clients' requests is served in the end, whatever requests it
\* overtakes and whatever reads fail, unless a write was lost, a read of the
\* speed failed, or the calibration at start-up did not take place.
LastRequestServed ==
  <>[](lost \/ at = "crashed" \/ ~calibrated \/ Served)
==============================================================================
