----------------------------- MODULE RWSRoutines -----------------------------
(***************************************************************************)
(* The services of RWSStateMachineInterface that write inputs of the RAPID *)
(* program and then toggle a signal, on whose rising edge the program acts *)
(* with the inputs it finds: SmartGripper commands to one or two arms,     *)
(* RAPID routines, starts and stops of EGM.  One action per RWS request;   *)
(* a request may be lost, or carried out without an answer that arrives in *)
(* time.  Assumed of the controller: a request is carried out, if at all,  *)
(* before the next one is made.                                            *)
(***************************************************************************)
EXTENDS Integers, Sequences

CONSTANTS
  Services,               \* the calls a client may make
  max_number_of_attempts  \* of each half of a toggle

\* What a service asks for: values for RAPID symbols in the order they are
\* written, and the signal to toggle.
W(task, name, value) == [symbol |-> <<task, name>>, value |-> value]
Call(signal, writes) == [signal |-> signal, writes |-> writes]

Command(task, command) == W(task, "command_input", command)
TargetPosition(task, position) == W(task, "target_position_input", position)
None == "SG_COMMAND_NONE"

\* dualGripIn and the like, with one command for both arms.
DualCommand(c) ==
  Call("RUN_SG_ROUTINE", <<Command("T_ROB_L", c), Command("T_ROB_R", c)>>)
DualMoveTo(left, right) ==
  Call("RUN_SG_ROUTINE",
       <<Command("T_ROB_L", "SG_COMMAND_MOVE_TO"), Command("T_ROB_R", "SG_COMMAND_MOVE_TO"),
         TargetPosition("T_ROB_L", left), TargetPosition("T_ROB_R", right)>>)

\* leftGripIn, rightGripIn and the like: the other arm is told to do nothing.
LeftCommand(c) ==
  Call("RUN_SG_ROUTINE", <<Command("T_ROB_L", c), Command("T_ROB_R", None)>>)
LeftMoveTo(position) ==
  Call("RUN_SG_ROUTINE",
       <<Command("T_ROB_L", "SG_COMMAND_MOVE_TO"), Command("T_ROB_R", None),
         TargetPosition("T_ROB_L", position)>>)
RightCommand(c) ==
  Call("RUN_SG_ROUTINE", <<Command("T_ROB_L", None), Command("T_ROB_R", c)>>)
RightMoveTo(position) ==
  Call("RUN_SG_ROUTINE",
       <<Command("T_ROB_L", None), Command("T_ROB_R", "SG_COMMAND_MOVE_TO"),
         TargetPosition("T_ROB_R", position)>>)

\* Of one arm only: the command of the other one stays what it was.
Initialize(task) ==
  Call("RUN_SG_ROUTINE", <<Command(task, "SG_COMMAND_INITIALIZE")>>)

\* Routines by name: those with one input (runModuleLoad, runModuleUnload,
\* runMoveAbsJ, runMoveJ), with two (runCallByVar) and with none.
RunWithInput(task, input, value, routine) ==
  Call("RUN_RAPID_ROUTINE",
       <<W(task, input, value), W(task, "routine_name_input", routine)>>)
RunCallByVar(task, name, number) ==
  Call("RUN_RAPID_ROUTINE",
       <<W(task, "callbyvar_name_input", name), W(task, "callbyvar_num_input", number),
         W(task, "routine_name_input", "runCallByVar")>>)
RunMoveToCalibrationPosition(task) ==
  Call("RUN_RAPID_ROUTINE",
       <<W(task, "routine_name_input", "runMoveToCalibrationPosition")>>)

\* signalEGMStartJoint, signalEGMStop, signalStopRequest and the like.
SignalOnly(signal) == Call(signal, <<>>)

\* No service writes a symbol twice.
ServicesAssumption ==
  \A s \in Services :
    /\ s = Call(s.signal, s.writes)
    /\ s.writes \in Seq([symbol : {s.writes[i].symbol : i \in DOMAIN s.writes},
                         value : {s.writes[i].value : i \in DOMAIN s.writes}])
    /\ \A i, j \in DOMAIN s.writes : s.writes[i].symbol = s.writes[j].symbol => i = j
ASSUME Assumptions ==
  /\ max_number_of_attempts \in Nat \ {0}
  /\ ServicesAssumption

Signals == {s.signal : s \in Services}
Symbols == UNION {{s.writes[i].symbol : i \in DOMAIN s.writes} : s \in Services}
AllValues == UNION {{s.writes[i].value : i \in DOMAIN s.writes} : s \in Services}

VARIABLES
  \* The robot controller.
  inputs,    \* the RAPID symbols; "unset" before the first write
  signal,    \* the I/O signals, "0" or "1"
  auto,      \* its operation mode is automatic
  \* The client's call.
  asked,     \* the service called last
  at,        \* the request it makes next, "idle" between calls
  next,      \* the write it makes next
  attempt,   \* of the half of the toggle it is in
  result,    \* what the last call returned
  \* History of the last call.
  ran,       \* the input values of every run it has caused
  failures   \* the number of its requests without an answer

vars == <<inputs, signal, auto, asked, at, next, attempt, result, ran, failures>>
controller == <<inputs, signal, ran>>
call == <<asked, at, next, attempt, result, failures>>

\* No call has more, so failures are counted up to here.
MaxFailures == 2 * max_number_of_attempts + 1

Toggling == {"low", "readLow", "high", "readHigh"}
Outcomes == {"answered", "unanswered", "lost"}

TypeOK ==
  /\ inputs \in [Symbols -> AllValues \cup {"unset"}]
  /\ signal \in [Signals -> {"0", "1"}]
  /\ auto \in BOOLEAN
  /\ asked \in Services
  /\ at \in {"idle", "write", "auto"} \cup Toggling
  /\ next \in 1 .. Len(asked.writes) + 1
  /\ attempt \in 0 .. max_number_of_attempts - 1
  /\ result \in BOOLEAN
  /\ failures \in 0 .. MaxFailures

Init ==
  /\ inputs = [s \in Symbols |-> "unset"]
  /\ signal = [s \in Signals |-> "0"]
  /\ auto \in BOOLEAN
  /\ asked \in Services /\ at = "idle" /\ next = 1 /\ attempt = 0
  /\ result = FALSE /\ ran = <<>> /\ failures = 0

----------------------------------------------------------------------------
Return(value) == at' = "idle" /\ result' = value

\* What the program finds in the inputs of this call.
Found == [i \in DOMAIN asked.writes |-> inputs[asked.writes[i].symbol]]

\* setIOSignal, as the controller carries it out; the program acts on rising edges.
SetSignal(value) ==
  /\ signal' = [signal EXCEPT ![asked.signal] = value]
  /\ ran' = IF value = "1" /\ signal[asked.signal] = "0" THEN Append(ran, Found) ELSE ran
  /\ UNCHANGED inputs

CountFailure(outcome) ==
  failures' = IF outcome = "answered" \/ failures = MaxFailures THEN failures ELSE failures + 1

\* Mutant: attempts are not counted.
FailedForEver(phase) == at' = phase /\ UNCHANGED <<attempt, result>>

\* An attempt of a half of the toggle has failed; the next one begins with
\* setting the signal again.
Failed(phase) ==
  IF attempt + 1 < max_number_of_attempts
  THEN attempt' = attempt + 1 /\ at' = phase /\ UNCHANGED result
  ELSE Return(FALSE) /\ UNCHANGED attempt

----------------------------------------------------------------------------
Ask(service) ==
  /\ at = "idle"
  /\ asked' = service
  /\ at' = IF service.writes = <<>> THEN "auto" ELSE "write"
  /\ next' = 1 /\ attempt' = 0 /\ ran' = <<>> /\ failures' = 0
  /\ UNCHANGED <<inputs, signal, auto, result>>

\* Mutant: the writes are made one after the other, whatever becomes of them.
WriteInputRegardless(outcome) ==
  /\ at = "write"
  /\ inputs' = IF outcome = "lost" THEN inputs
               ELSE [inputs EXCEPT ![asked.writes[next].symbol] = asked.writes[next].value]
  /\ next' = next + 1
  /\ at' = IF next = Len(asked.writes) THEN "auto" ELSE "write"
  /\ CountFailure(outcome)
  /\ UNCHANGED <<signal, auto, asked, attempt, result, ran>>

\* setRAPIDSymbolData; the first write that fails ends the call.
WriteInput(outcome) ==
  /\ at = "write"
  /\ inputs' = IF outcome = "lost" THEN inputs
               ELSE [inputs EXCEPT ![asked.writes[next].symbol] = asked.writes[next].value]
  /\ IF outcome = "answered"
     THEN /\ next' = next + 1
          /\ at' = IF next = Len(asked.writes) THEN "auto" ELSE "write"
          /\ UNCHANGED result
     ELSE Return(FALSE) /\ UNCHANGED next
  /\ CountFailure(outcome)
  /\ UNCHANGED <<signal, auto, asked, attempt, ran>>

\* Mutant: a toggle that only sets the signal.
AskModeThenHigh(outcome) ==
  /\ at = "auto"
  /\ IF outcome = "answered" /\ auto
     THEN at' = "high" /\ UNCHANGED result
     ELSE Return(FALSE)
  /\ CountFailure(outcome)
  /\ UNCHANGED <<controller, auto, asked, next, attempt>>

\* isAutoMode().isTrue(): an unknown mode will not do.
AskMode(outcome) ==
  /\ at = "auto"
  /\ IF outcome = "answered" /\ auto
     THEN at' = "low" /\ UNCHANGED result
     ELSE Return(FALSE)
  /\ CountFailure(outcome)
  /\ UNCHANGED <<controller, auto, asked, next, attempt>>

SetLow(outcome) ==
  /\ at = "low"
  /\ IF outcome = "lost" THEN UNCHANGED controller ELSE SetSignal("0")
  /\ IF outcome = "answered"
     THEN at' = "readLow" /\ UNCHANGED <<attempt, result>>
     ELSE Failed("low")
  /\ CountFailure(outcome)
  /\ UNCHANGED <<auto, asked, next>>

\* Mutant: the wrong level is expected.
ReadLowAsHigh(outcome) ==
  /\ at = "readLow"
  /\ IF outcome = "answered" /\ signal[asked.signal] = "1"
     THEN at' = "high" /\ attempt' = 0 /\ UNCHANGED result
     ELSE Failed("low")
  /\ CountFailure(outcome)
  /\ UNCHANGED <<controller, auto, asked, next>>

\* getIOSignal; a read that fails gives an empty string.
ReadLow(outcome) ==
  /\ at = "readLow"
  /\ IF outcome = "answered" /\ signal[asked.signal] = "0"
     THEN at' = "high" /\ attempt' = 0 /\ UNCHANGED result
     ELSE Failed("low")
  /\ CountFailure(outcome)
  /\ UNCHANGED <<controller, auto, asked, next>>

SetHigh(outcome) ==
  /\ at = "high"
  /\ IF outcome = "lost" THEN UNCHANGED controller ELSE SetSignal("1")
  /\ IF outcome = "answered"
     THEN at' = "readHigh" /\ UNCHANGED <<attempt, result>>
     ELSE Failed("high")
  /\ CountFailure(outcome)
  /\ UNCHANGED <<auto, asked, next>>

ReadHigh(outcome) ==
  /\ at = "readHigh"
  /\ IF outcome = "answered" /\ signal[asked.signal] = "1"
     THEN Return(TRUE) /\ UNCHANGED attempt
     ELSE Failed("high")
  /\ CountFailure(outcome)
  /\ UNCHANGED <<controller, auto, asked, next>>

\* External: the operator at the panel.
ChangeMode ==
  /\ auto' = ~auto
  /\ UNCHANGED <<controller, call>>

Request(outcome) ==
  \/ WriteInput(outcome) \/ AskMode(outcome)
  \/ SetLow(outcome) \/ ReadLow(outcome)
  \/ SetHigh(outcome) \/ ReadHigh(outcome)

Client == \E outcome \in Outcomes : Request(outcome)

Next == Client \/ (\E service \in Services : Ask(service)) \/ ChangeMode

Spec == Init /\ [][Next]_vars

\* A request ends by its answer or by DEFAULT_HTTP_TIMEOUT.
FairSpec == Spec /\ WF_vars(Client)

----------------------------------------------------------------------------
Routine == INSTANCE RoutineCall WITH busy <- at # "idle"

\* A call makes the program act at most once, however its requests are
\* repeated, with the inputs of this call, and surely if it returns true.
ImplementsRoutineCall == Routine!Spec

\* A toggle reports a failure only if as many of its call's requests went
\* without an answer as it has attempts: it never gives up on a connection
\* that works, nor because of levels it reads itself.
GivesUpLate ==
  [][ (at \in Toggling /\ at' = "idle" /\ ~result') => failures' >= max_number_of_attempts ]_vars

\* Every call returns, even if no request is answered any more.
CallsReturn == (at # "idle") ~> (at = "idle")

\* What the call knows of the controller: the inputs written so far are in
\* place; nothing runs before the signal is raised; while it is raised the
\* signal tells whether the routine runs.
InputsWritten ==
  at # "idle" =>
    \A i \in 1 .. next - 1 : inputs[asked.writes[i].symbol] = asked.writes[i].value
WritesDone ==
  /\ at = "write" => next <= Len(asked.writes)
  /\ at \in {"auto"} \cup Toggling => next = Len(asked.writes) + 1
NotYetRun == at \in {"write", "auto", "low", "readLow"} => ran = <<>>
Low == at = "readLow" => signal[asked.signal] = "0"
RunByEdge ==
  at \in {"high", "readHigh"} =>
    ran = IF signal[asked.signal] = "0" THEN <<>> ELSE <<Routine!Values(asked.writes)>>
High == at = "readHigh" => signal[asked.signal] = "1"
FailuresCounted ==
  /\ at \in {"write", "auto"} => failures = 0 /\ attempt = 0
  /\ at \in {"low", "readLow"} => failures = attempt
  /\ at \in {"high", "readHigh"} =>
       attempt <= failures /\ failures < attempt + max_number_of_attempts
InductiveInvariant ==
  /\ TypeOK /\ InputsWritten /\ WritesDone /\ NotYetRun /\ Low /\ RunByEdge /\ High
  /\ FailuresCounted
=============================================================================
