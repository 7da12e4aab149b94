-------------------------- MODULE RWSRoutinesProofs --------------------------
(***************************************************************************)
(* Proofs about RWSRoutines for any services and any number of attempts.   *)
(***************************************************************************)
EXTENDS RWSRoutines, TLAPS

\* What is known of a service's writes and signal.
LEMMA ServiceFacts ==
  ASSUME NEW s \in Services
  PROVE  /\ Len(s.writes) \in Nat
         /\ DOMAIN s.writes = 1 .. Len(s.writes)
         /\ (s.writes = <<>>) <=> (Len(s.writes) = 0)
         /\ s.signal \in Signals
         /\ \A i \in DOMAIN s.writes :
              s.writes[i].symbol \in Symbols /\ s.writes[i].value \in AllValues
         /\ \A i, j \in DOMAIN s.writes : s.writes[i].symbol = s.writes[j].symbol => i = j
<1> DEFINE T == [symbol : {s.writes[i].symbol : i \in DOMAIN s.writes},
                 value : {s.writes[i].value : i \in DOMAIN s.writes}]
<1>1. s.writes \in Seq(T)
  BY Assumptions DEF ServicesAssumption
<1>2. /\ Len(s.writes) \in Nat
      /\ DOMAIN s.writes = 1 .. Len(s.writes)
      /\ (s.writes = <<>>) <=> (Len(s.writes) = 0)
  <2> HIDE DEF T
  <2> QED  BY <1>1
<1>3. s.signal \in Signals
  BY DEF Signals
<1>4. \A i \in DOMAIN s.writes :
        s.writes[i].symbol \in Symbols /\ s.writes[i].value \in AllValues
  BY DEF Symbols, AllValues
<1>5. \A i, j \in DOMAIN s.writes : s.writes[i].symbol = s.writes[j].symbol => i = j
  BY Assumptions DEF ServicesAssumption
<1> QED  BY <1>2, <1>3, <1>4, <1>5

\* With every input written, the program finds the values of the call.
LEMMA FoundIsAsked ==
  ASSUME InductiveInvariant, at \in {"high", "readHigh"}
  PROVE  Found = Routine!Values(asked.writes)
<1>1. asked \in Services
  BY DEF InductiveInvariant, TypeOK
<1>2. next = Len(asked.writes) + 1
  BY DEF InductiveInvariant, WritesDone, Toggling
<1>3. \A i \in 1 .. next - 1 : inputs[asked.writes[i].symbol] = asked.writes[i].value
  BY DEF InductiveInvariant, InputsWritten
<1>4. \A i \in DOMAIN asked.writes : inputs[asked.writes[i].symbol] = asked.writes[i].value
  BY <1>1, <1>2, <1>3, ServiceFacts
<1> QED  BY <1>4 DEF Found, Routine!Values

LEMMA InitInvariant == Init => InductiveInvariant
<1> SUFFICES ASSUME Init PROVE InductiveInvariant
  OBVIOUS
<1>1. TypeOK
  <2>1. inputs \in [Symbols -> AllValues \cup {"unset"}] /\ signal \in [Signals -> {"0", "1"}]
    BY DEF Init
  <2>2. /\ asked \in Services /\ next \in 1 .. Len(asked.writes) + 1
        /\ at \in {"idle", "write", "auto"} \cup Toggling
    BY ServiceFacts DEF Init
  <2>3. attempt \in 0 .. max_number_of_attempts - 1 /\ failures \in 0 .. MaxFailures
    BY Assumptions DEF Init, MaxFailures
  <2>4. auto \in BOOLEAN /\ result \in BOOLEAN
    BY DEF Init
  <2> QED  BY <2>1, <2>2, <2>3, <2>4 DEF TypeOK
<1> QED
  BY <1>1 DEF Init, InductiveInvariant, InputsWritten, WritesDone, NotYetRun, Low,
              RunByEdge, High, FailuresCounted, Toggling

\* One lemma for each action.
LEMMA AskStep ==
  ASSUME InductiveInvariant, NEW service \in Services, Ask(service)
  PROVE  InductiveInvariant'
<1>1. TypeOK'
  BY ServiceFacts, Assumptions DEF Ask, InductiveInvariant, TypeOK, MaxFailures
<1>2. InputsWritten' /\ WritesDone'
  BY ServiceFacts DEF Ask, InputsWritten, WritesDone, Toggling
<1> QED
  BY <1>1, <1>2 DEF Ask, InductiveInvariant, NotYetRun, Low, RunByEdge, High, FailuresCounted

LEMMA WriteInputStep ==
  ASSUME InductiveInvariant, NEW outcome \in Outcomes, WriteInput(outcome)
  PROVE  InductiveInvariant'
<1>1. asked \in Services /\ next \in DOMAIN asked.writes /\ next \in Nat
  BY ServiceFacts DEF WriteInput, InductiveInvariant, TypeOK, WritesDone
<1>2. failures = 0 /\ attempt = 0
  BY DEF WriteInput, InductiveInvariant, FailuresCounted
<1>3. TypeOK'
  <2> USE DEF WriteInput, Return, CountFailure
  <2>1. inputs' \in [Symbols -> AllValues \cup {"unset"}] /\ signal' \in [Signals -> {"0", "1"}]
    BY <1>1, ServiceFacts DEF InductiveInvariant, TypeOK
  <2>2. /\ asked' \in Services /\ next' \in 1 .. Len(asked'.writes) + 1
        /\ at' \in {"idle", "write", "auto"} \cup Toggling
    BY <1>1, ServiceFacts
  <2>3. /\ attempt' \in 0 .. max_number_of_attempts - 1
        /\ failures' \in 0 .. MaxFailures
    BY <1>2, Assumptions DEF MaxFailures
  <2>4. auto' \in BOOLEAN /\ result' \in BOOLEAN
    BY DEF InductiveInvariant, TypeOK
  <2> QED  BY <2>1, <2>2, <2>3, <2>4 DEF TypeOK
<1>4. InputsWritten'
  <2> SUFFICES ASSUME at' # "idle", NEW i \in 1 .. next' - 1
               PROVE  inputs'[asked.writes[i].symbol] = asked.writes[i].value
    BY DEF InputsWritten, WriteInput
  <2>1. /\ outcome = "answered"
        /\ next' = next + 1
        /\ inputs' = [inputs EXCEPT ![asked.writes[next].symbol] = asked.writes[next].value]
    BY DEF WriteInput, Return
  <2>2. i \in DOMAIN asked.writes
    BY <1>1, <2>1, ServiceFacts
  <2>3. inputs \in [Symbols -> AllValues \cup {"unset"}]
    BY DEF InductiveInvariant, TypeOK
  <2>4. CASE i = next
    BY <1>1, <2>1, <2>3, <2>4, ServiceFacts
  <2>5. CASE i # next
    <3>1. i \in 1 .. next - 1
      BY <1>1, <2>1, <2>5
    <3>2. inputs[asked.writes[i].symbol] = asked.writes[i].value
      BY <3>1 DEF InductiveInvariant, InputsWritten, WriteInput
    <3>3. asked.writes[i].symbol # asked.writes[next].symbol
      BY <1>1, <2>2, <2>5, ServiceFacts
    <3> QED  BY <1>1, <2>1, <2>2, <2>3, <3>2, <3>3, ServiceFacts
  <2> QED  BY <2>4, <2>5
<1>5. WritesDone'
  BY <1>1, ServiceFacts DEF WriteInput, Return, WritesDone, Toggling
<1>6. NotYetRun' /\ Low' /\ RunByEdge' /\ High' /\ FailuresCounted'
  BY <1>2 DEF WriteInput, Return, CountFailure, InductiveInvariant, NotYetRun, Low, RunByEdge,
              High, FailuresCounted
<1> QED  BY <1>3, <1>4, <1>5, <1>6 DEF InductiveInvariant

LEMMA AskModeStep ==
  ASSUME InductiveInvariant, NEW outcome \in Outcomes, AskMode(outcome)
  PROVE  InductiveInvariant'
<1>1. failures = 0 /\ attempt = 0
  BY DEF AskMode, InductiveInvariant, FailuresCounted
<1>2. TypeOK'
  <2>1. inputs' \in [Symbols -> AllValues \cup {"unset"}] /\ signal' \in [Signals -> {"0", "1"}]
    BY <1>1, Assumptions DEF InductiveInvariant, TypeOK, AskMode, Return, CountFailure, controller
  <2>2. /\ asked' \in Services /\ next' \in 1 .. Len(asked'.writes) + 1
        /\ at' \in {"idle", "write", "auto"} \cup Toggling
    BY <1>1, Assumptions DEF InductiveInvariant, TypeOK, Toggling, AskMode, Return, CountFailure,
                             controller
  <2>3. /\ attempt' \in 0 .. max_number_of_attempts - 1
        /\ failures' \in 0 .. MaxFailures
    BY <1>1, Assumptions DEF MaxFailures, AskMode, Return, CountFailure, controller
  <2>4. auto' \in BOOLEAN /\ result' \in BOOLEAN
    BY DEF InductiveInvariant, TypeOK, AskMode, Return, CountFailure, controller
  <2> QED  BY <2>1, <2>2, <2>3, <2>4 DEF TypeOK
<1>3. InputsWritten' /\ WritesDone'
  BY DEF AskMode, Return, controller, InductiveInvariant, InputsWritten, WritesDone, Toggling
<1>4. NotYetRun' /\ Low' /\ RunByEdge' /\ High' /\ FailuresCounted'
  BY <1>1 DEF AskMode, Return, CountFailure, controller, InductiveInvariant, NotYetRun, Low,
              RunByEdge, High, FailuresCounted
<1> QED  BY <1>2, <1>3, <1>4 DEF InductiveInvariant

\* What the steps of a toggle have in common: the inputs stay, and counting
\* attempts and failures stays within its bounds.
LEMMA ToggleBounds ==
  ASSUME InductiveInvariant, at \in Toggling
  PROVE  /\ asked \in Services /\ next = Len(asked.writes) + 1
         /\ attempt \in Nat /\ failures \in Nat /\ max_number_of_attempts \in Nat \ {0}
         /\ attempt < max_number_of_attempts
         /\ attempt <= failures /\ failures < attempt + max_number_of_attempts
         /\ failures # MaxFailures
         /\ signal[asked.signal] \in {"0", "1"}
<1>1. /\ asked \in Services
      /\ attempt \in Nat /\ failures \in Nat /\ max_number_of_attempts \in Nat \ {0}
      /\ attempt < max_number_of_attempts
  BY Assumptions DEF InductiveInvariant, TypeOK
<1>2. attempt <= failures /\ failures < attempt + max_number_of_attempts
  BY <1>1 DEF InductiveInvariant, FailuresCounted, Toggling
<1>3. failures # MaxFailures
  BY <1>1, <1>2 DEF MaxFailures
<1>4. signal[asked.signal] \in {"0", "1"}
  BY <1>1, ServiceFacts DEF InductiveInvariant, TypeOK
<1>5. next = Len(asked.writes) + 1
  BY DEF InductiveInvariant, WritesDone
<1> QED  BY <1>1, <1>2, <1>3, <1>4, <1>5

LEMMA SetLowStep ==
  ASSUME InductiveInvariant, NEW outcome \in Outcomes, SetLow(outcome)
  PROVE  InductiveInvariant'
<1> USE DEF SetLow, Failed, Return, CountFailure, SetSignal, controller
<1>1. at \in Toggling /\ ran = <<>> /\ failures = attempt
  BY DEF InductiveInvariant, NotYetRun, FailuresCounted, Toggling
<1>2. TypeOK'
  <2>1. inputs' \in [Symbols -> AllValues \cup {"unset"}] /\ signal' \in [Signals -> {"0", "1"}]
    BY <1>1, ToggleBounds DEF InductiveInvariant, TypeOK
  <2>2. /\ asked' \in Services /\ next' \in 1 .. Len(asked'.writes) + 1
        /\ at' \in {"idle", "write", "auto"} \cup Toggling
    BY <1>1, ToggleBounds DEF InductiveInvariant, TypeOK, Toggling
  <2>3. /\ attempt' \in 0 .. max_number_of_attempts - 1
        /\ failures' \in 0 .. MaxFailures
    BY <1>1, ToggleBounds DEF MaxFailures
  <2>4. auto' \in BOOLEAN /\ result' \in BOOLEAN
    BY DEF InductiveInvariant, TypeOK
  <2> QED  BY <2>1, <2>2, <2>3, <2>4 DEF TypeOK
<1>3. InputsWritten' /\ WritesDone'
  BY <1>1, ToggleBounds DEF InductiveInvariant, InputsWritten, WritesDone, Toggling
<1>4. NotYetRun' /\ RunByEdge' /\ High' /\ FailuresCounted'
  BY <1>1, ToggleBounds DEF NotYetRun, RunByEdge, High, FailuresCounted
<1>5. Low'
  BY <1>1, ToggleBounds, ServiceFacts DEF InductiveInvariant, TypeOK, Low, Outcomes
<1> QED  BY <1>2, <1>3, <1>4, <1>5 DEF InductiveInvariant

LEMMA ReadLowStep ==
  ASSUME InductiveInvariant, NEW outcome \in Outcomes, ReadLow(outcome)
  PROVE  InductiveInvariant'
<1> USE DEF ReadLow, Failed, Return, CountFailure, controller
<1>1. /\ at \in Toggling /\ ran = <<>> /\ failures = attempt
      /\ signal[asked.signal] = "0"
  BY DEF InductiveInvariant, NotYetRun, FailuresCounted, Low, Toggling
<1>2. TypeOK'
  <2>1. inputs' \in [Symbols -> AllValues \cup {"unset"}] /\ signal' \in [Signals -> {"0", "1"}]
    BY <1>1, ToggleBounds DEF InductiveInvariant, TypeOK
  <2>2. /\ asked' \in Services /\ next' \in 1 .. Len(asked'.writes) + 1
        /\ at' \in {"idle", "write", "auto"} \cup Toggling
    BY <1>1, ToggleBounds DEF InductiveInvariant, TypeOK, Toggling
  <2>3. /\ attempt' \in 0 .. max_number_of_attempts - 1
        /\ failures' \in 0 .. MaxFailures
    BY <1>1, ToggleBounds DEF MaxFailures
  <2>4. auto' \in BOOLEAN /\ result' \in BOOLEAN
    BY DEF InductiveInvariant, TypeOK
  <2> QED  BY <2>1, <2>2, <2>3, <2>4 DEF TypeOK
<1>3. InputsWritten' /\ WritesDone'
  BY <1>1, ToggleBounds DEF InductiveInvariant, InputsWritten, WritesDone, Toggling
<1>4. NotYetRun' /\ Low' /\ RunByEdge' /\ High' /\ FailuresCounted'
  BY <1>1, ToggleBounds DEF NotYetRun, Low, RunByEdge, High, FailuresCounted
<1> QED  BY <1>2, <1>3, <1>4 DEF InductiveInvariant

LEMMA SetHighStep ==
  ASSUME InductiveInvariant, NEW outcome \in Outcomes, SetHigh(outcome)
  PROVE  InductiveInvariant'
<1> USE DEF SetHigh, Failed, Return, CountFailure, SetSignal, controller
<1>1. at \in Toggling
  BY DEF Toggling
<1>2. TypeOK'
  <2>1. inputs' \in [Symbols -> AllValues \cup {"unset"}] /\ signal' \in [Signals -> {"0", "1"}]
    BY <1>1, ToggleBounds DEF InductiveInvariant, TypeOK
  <2>2. /\ asked' \in Services /\ next' \in 1 .. Len(asked'.writes) + 1
        /\ at' \in {"idle", "write", "auto"} \cup Toggling
    BY <1>1, ToggleBounds DEF InductiveInvariant, TypeOK, Toggling
  <2>3. /\ attempt' \in 0 .. max_number_of_attempts - 1
        /\ failures' \in 0 .. MaxFailures
    BY <1>1, ToggleBounds DEF MaxFailures
  <2>4. auto' \in BOOLEAN /\ result' \in BOOLEAN
    BY DEF InductiveInvariant, TypeOK
  <2> QED  BY <2>1, <2>2, <2>3, <2>4 DEF TypeOK
<1>3. InputsWritten' /\ WritesDone'
  BY <1>1, ToggleBounds DEF InductiveInvariant, InputsWritten, WritesDone, Toggling
<1>4. NotYetRun' /\ Low' /\ FailuresCounted'
  BY <1>1, ToggleBounds DEF NotYetRun, Low, FailuresCounted
<1>5. High'
  BY <1>1, ToggleBounds, ServiceFacts DEF InductiveInvariant, TypeOK, High, Outcomes
<1>6. RunByEdge'
  <2> DEFINE values == Routine!Values(asked.writes)
  <2>1. ran = IF signal[asked.signal] = "0" THEN <<>> ELSE <<values>>
    BY DEF InductiveInvariant, RunByEdge
  <2>2. Found = values
    BY FoundIsAsked
  <2>3. CASE outcome = "lost"
    BY <2>1, <2>3 DEF RunByEdge
  <2>4. CASE outcome # "lost"
    <3>1. signal'[asked.signal] = "1"
      BY <1>1, <2>4, ToggleBounds, ServiceFacts DEF InductiveInvariant, TypeOK
    <3>2. ran' = <<values>>
      <4> HIDE DEF values
      <4>1. CASE signal[asked.signal] = "0"
        <5>1. ran' = Append(<<>>, values)
          BY <2>1, <2>2, <2>4, <4>1
        <5> QED  BY <5>1
      <4>2. CASE signal[asked.signal] # "0"
        BY <2>1, <2>4, <4>2
      <4> QED  BY <4>1, <4>2
    <3>3. asked' = asked
      OBVIOUS
    <3> QED  BY <3>1, <3>2, <3>3 DEF RunByEdge
  <2> QED  BY <2>3, <2>4
<1> QED  BY <1>2, <1>3, <1>4, <1>5, <1>6 DEF InductiveInvariant

LEMMA ReadHighStep ==
  ASSUME InductiveInvariant, NEW outcome \in Outcomes, ReadHigh(outcome)
  PROVE  InductiveInvariant'
<1> USE DEF ReadHigh, Failed, Return, CountFailure, controller
<1>1. at \in Toggling /\ signal[asked.signal] = "1"
  BY DEF InductiveInvariant, High, Toggling
<1>2. TypeOK'
  <2>1. inputs' \in [Symbols -> AllValues \cup {"unset"}] /\ signal' \in [Signals -> {"0", "1"}]
    BY <1>1, ToggleBounds DEF InductiveInvariant, TypeOK
  <2>2. /\ asked' \in Services /\ next' \in 1 .. Len(asked'.writes) + 1
        /\ at' \in {"idle", "write", "auto"} \cup Toggling
    BY <1>1, ToggleBounds DEF InductiveInvariant, TypeOK, Toggling
  <2>3. /\ attempt' \in 0 .. max_number_of_attempts - 1
        /\ failures' \in 0 .. MaxFailures
    BY <1>1, ToggleBounds DEF MaxFailures
  <2>4. auto' \in BOOLEAN /\ result' \in BOOLEAN
    BY DEF InductiveInvariant, TypeOK
  <2> QED  BY <2>1, <2>2, <2>3, <2>4 DEF TypeOK
<1>3. InputsWritten' /\ WritesDone'
  BY <1>1, ToggleBounds DEF InductiveInvariant, InputsWritten, WritesDone, Toggling
<1>4. NotYetRun' /\ Low' /\ RunByEdge' /\ High' /\ FailuresCounted'
  BY <1>1, ToggleBounds
     DEF InductiveInvariant, NotYetRun, Low, RunByEdge, High, FailuresCounted
<1> QED  BY <1>2, <1>3, <1>4 DEF InductiveInvariant

LEMMA InvariantStep == InductiveInvariant /\ [Next]_vars => InductiveInvariant'
<1> SUFFICES ASSUME InductiveInvariant, [Next]_vars PROVE InductiveInvariant'
  OBVIOUS
<1>1. CASE \E service \in Services : Ask(service)
  BY <1>1, AskStep
<1>2. ASSUME NEW outcome \in Outcomes, Request(outcome)
      PROVE  InductiveInvariant'
  BY <1>2, WriteInputStep, AskModeStep, SetLowStep, ReadLowStep, SetHighStep, ReadHighStep
     DEF Request
<1>3. CASE ChangeMode
  BY <1>3 DEF ChangeMode, controller, call, InductiveInvariant, TypeOK, InputsWritten,
              WritesDone, NotYetRun, Low, RunByEdge, High, FailuresCounted, Toggling
<1>4. CASE UNCHANGED vars
  BY <1>4 DEF vars, InductiveInvariant, TypeOK, InputsWritten,
              WritesDone, NotYetRun, Low, RunByEdge, High, FailuresCounted, Toggling
<1> QED  BY <1>1, <1>2, <1>3, <1>4 DEF Next, Client

\* The invariant of a call in progress, for any services and attempts.
THEOREM Invariance == Spec => []InductiveInvariant
BY InitInvariant, InvariantStep, PTL DEF Spec

\* Every variable keeps its type.
THEOREM TypeCorrect == Spec => []TypeOK
<1>1. InductiveInvariant => TypeOK
  BY DEF InductiveInvariant
<1> QED  BY <1>1, Invariance, PTL

----------------------------------------------------------------------------
\* toggleIOSignal gives up on a controller only after as many requests
\* without an answer as it makes attempts, never because of a level it reads.
THEOREM GivesUpOnlyLate == Spec => GivesUpLate
<1> DEFINE Step == (at \in Toggling /\ at' = "idle" /\ ~result')
                     => failures' >= max_number_of_attempts
<1>1. ASSUME InductiveInvariant, [Next]_vars PROVE [Step]_vars
  <2> SUFFICES ASSUME at \in Toggling, at' = "idle", ~result'
               PROVE  failures' >= max_number_of_attempts
    OBVIOUS
  <2> USE ToggleBounds DEF Failed, Return, CountFailure
  <2>1. PICK outcome \in Outcomes : Request(outcome)
    BY <1>1 DEF Next, Client, Ask, ChangeMode, call, vars, Toggling
  <2>2. CASE SetLow(outcome)
    BY <1>1, <2>2 DEF SetLow
  <2>3. CASE ReadLow(outcome)
    BY <1>1, <2>3 DEF ReadLow, InductiveInvariant, Low
  <2>4. CASE SetHigh(outcome)
    BY <1>1, <2>4 DEF SetHigh
  <2>5. CASE ReadHigh(outcome)
    BY <1>1, <2>5 DEF ReadHigh, InductiveInvariant, High
  <2> QED
    BY <2>1, <2>2, <2>3, <2>4, <2>5 DEF Request, WriteInput, AskMode, Toggling
<1> QED  BY <1>1, Invariance, PTL DEF Spec, GivesUpLate

----------------------------------------------------------------------------
\* A step of a request that neither runs the program nor returns TRUE is a
\* stutter of the abstract call or its failure.
LEMMA SilentRequest ==
  ASSUME at # "idle", UNCHANGED <<asked, ran>>,
         \/ at' # "idle" /\ UNCHANGED result
         \/ at' = "idle" /\ result' = FALSE
  PROVE  Routine!Next \/ UNCHANGED Routine!callVars
BY DEF Routine!Next, Routine!Answer, Routine!callVars

LEMMA RequestRefines ==
  ASSUME InductiveInvariant, NEW outcome \in Outcomes, Request(outcome)
  PROVE  Routine!Next \/ UNCHANGED Routine!callVars
<1> USE DEF Failed, Return, SetSignal, controller
<1>1. CASE WriteInput(outcome)
  BY <1>1, SilentRequest DEF WriteInput
<1>2. CASE AskMode(outcome)
  BY <1>2, SilentRequest DEF AskMode
<1>3. CASE SetLow(outcome)
  BY <1>3, SilentRequest DEF SetLow
<1>4. CASE ReadLow(outcome)
  BY <1>4, SilentRequest DEF ReadLow
<1>5. CASE SetHigh(outcome)
  <2> USE <1>5 DEF SetHigh
  <2>1. ran = IF signal[asked.signal] = "0" THEN <<>> ELSE <<Routine!Values(asked.writes)>>
    BY DEF InductiveInvariant, RunByEdge
  <2>2. CASE ran' = ran
    BY <2>2, SilentRequest
  <2>3. CASE ran' # ran
    <3>1. ran = <<>> /\ ran' = Append(<<>>, Found)
      BY <2>1, <2>3
    <3>2. ran' = <<Routine!Values(asked.writes)>>
      <4> DEFINE values == Routine!Values(asked.writes)
      <4>1. Found = values
        BY FoundIsAsked
      <4>2. ran' = Append(<<>>, values)
        BY <3>1, <4>1
      <4> HIDE DEF values
      <4>3. ran' = <<values>>
        BY <4>2
      <4> QED  BY <4>3 DEF values
    <3>3. \/ at' # "idle" /\ UNCHANGED result
          \/ at' = "idle" /\ result' = FALSE
      OBVIOUS
    <3>4. at # "idle" /\ UNCHANGED asked
      OBVIOUS
    <3>5. Routine!Run
      BY <3>1, <3>2, <3>3, <3>4 DEF Routine!Run
    <3> QED  BY <3>5 DEF Routine!Next
  <2> QED  BY <2>2, <2>3
<1>6. CASE ReadHigh(outcome)
  <2> USE <1>6 DEF ReadHigh
  <2>1. CASE at' = "idle" /\ result' = TRUE
    <3>1. ran # <<>>
      BY DEF InductiveInvariant, RunByEdge, High
    <3> QED  BY <2>1, <3>1 DEF Routine!Next, Routine!Answer
  <2>2. CASE ~(at' = "idle" /\ result' = TRUE)
    BY <2>2, SilentRequest
  <2> QED  BY <2>1, <2>2
<1> QED  BY <1>1, <1>2, <1>3, <1>4, <1>5, <1>6 DEF Request

\* Whatever requests a service makes, repeats and loses, its call makes the
\* program act at most once, on its own inputs, and surely if it succeeds.
THEOREM Refinement == Spec => ImplementsRoutineCall
<1>1. Init => Routine!Init
  BY DEF Init, Routine!Init
<1>2. ASSUME InductiveInvariant, [Next]_vars
      PROVE  [Routine!Next]_(Routine!callVars)
  <2>1. CASE \E service \in Services : Ask(service)
    BY <2>1 DEF Ask, Routine!Next, Routine!Ask
  <2>2. CASE Client
    BY <1>2, <2>2, RequestRefines DEF Client
  <2>3. CASE ChangeMode \/ UNCHANGED vars
    BY <2>3 DEF ChangeMode, controller, call, vars, Routine!callVars
  <2> QED  BY <1>2, <2>1, <2>2, <2>3 DEF Next
<1> QED  BY <1>1, <1>2, Invariance, PTL DEF Spec, ImplementsRoutineCall, Routine!Spec
=============================================================================
