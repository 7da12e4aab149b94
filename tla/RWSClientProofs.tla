--------------------------- MODULE RWSClientProofs ---------------------------
(***************************************************************************)
(* Proofs about RWSClient, for any threads, any services they call and any *)
(* number of failures: what a call knows of the request it makes, and what *)
(* the session of the client has to do with the failures so far.           *)
(***************************************************************************)
EXTENDS RWSClient, TLAPS

\* The conditions a service can set, and the outcomes they can accept.
AllConditions == {Conditions(s) : s \in Services} \cup {NoConditions}
Good == {"OK", "NO_CONTENT", "CREATED", "SWITCHING_PROTOCOLS"}
Accepted(result) == result.general = "OK" /\ result.status \in Good

\* A thread that holds http_mutex_ between two attempts.
Holds(t) == at[t] \in {"again", "authenticate"}

----------------------------------------------------------------------------
(* The invariant                                                           *)

SharedType ==
  /\ made \in Nat /\ sessions \subseteq 1 .. made /\ cookie \in 0 .. made
  /\ issued \in 0 .. MaxGroups /\ groups \subseteq 1 .. issued
  /\ socket \in 0 .. issued /\ group \in 0 .. issued
  /\ failures \in 0 .. MaxFailures /\ misread \in BOOLEAN
  /\ conditions \in AllConditions
CallsType ==
  /\ service \in [Threads -> Services] /\ at \in [Threads -> Stages]
  /\ answer \in [Threads -> Results] /\ success \in [Threads -> BOOLEAN]
  /\ runs \in [Threads -> Nat] /\ errors \in [Threads -> Nat]

\* A request has not been carried out before its first attempt, and then at most
\* once more than it was answered by a server error.
RunsInv(t) ==
  /\ runs[t] <= 1 + errors[t] /\ errors[t] <= 2 /\ runs[t] <= 2
  /\ at[t] \in {"exchange", "receive"} => runs[t] = 0
  /\ at[t] = "prepare" /\ service[t] # "download" => runs[t] = 0
  /\ at[t] = "exchange" /\ service[t] # "connect" => errors[t] = 0
  /\ at[t] = "prepare" /\ service[t] \notin {"connect", "download"} => errors[t] = 0
  /\ at[t] = "again" => runs[t] <= 1 /\ errors[t] = 1
  /\ at[t] = "authenticate" => runs[t] <= errors[t] /\ errors[t] <= 1

\* Which services get to which stage.
StageInv(t) ==
  /\ Holds(t) => service[t] \in HttpServices
  /\ at[t] = "receive" => service[t] = "receive"
  /\ at[t] = "exchange" => service[t] # "receive"

\* An answer that any conditions accept is that of a request carried out.
AnswerInv(t) ==
  /\ service[t] # "receive" /\ Accepted(answer[t])
     /\ (at[t] = "evaluate" \/ (at[t] = "prepare" /\ service[t] = "download"))
       => runs[t] >= 1
  /\ at[t] = "idle" /\ success[t] /\ service[t] # "receive" => runs[t] >= 1

CallInv(t) == RunsInv(t) /\ StageInv(t) /\ AnswerInv(t)

\* A session that is lost was lost by a failure.
SessionInv ==
  /\ \A t, u \in Threads : Holds(t) /\ Holds(u) => t = u
  /\ made <= 1 + failures
  /\ cookie \notin sessions => made <= failures
  /\ \A t \in Threads : Holds(t) => made <= failures

IInv == SharedType /\ CallsType /\ (\A t \in Threads : CallInv(t)) /\ SessionInv

----------------------------------------------------------------------------
(* Conditions and answers                                                  *)

LEMMA ConditionsAccept ==
  ASSUME NEW c \in AllConditions
  PROVE  c.accepted \subseteq Good
<1>1. ASSUME NEW s \in Services PROVE Conditions(s).accepted \subseteq Good
  BY DEF Conditions, Good, Services, HttpServices
<1>2. NoConditions.accepted \subseteq Good
  BY DEF NoConditions
<1> QED
  BY <1>1, <1>2 DEF AllConditions

\* What is done is a result that some conditions accept; what fails is one that
\* none does.
LEMMA ResultTypes ==
  /\ \A s \in Services : Done(s) \subseteq Results
  /\ ServerError \in Results /\ ~Accepted(ServerError)
  /\ Refused \in Results /\ ~Accepted(Refused)
  /\ NoResult \in Results /\ ~Accepted(NoResult)
  /\ \A status \in {"OK", "INTERNAL_SERVER_ERROR", "UNAUTHORIZED"} :
       Exception(status) \in Results /\ ~Accepted(Exception(status))
  /\ \A c \in BOOLEAN : Result("OK", "OK", c) \in Results
<1>1. ASSUME NEW s \in Services PROVE Done(s) \subseteq Results
  <2>1. Conditions(s) \in AllConditions
    BY DEF AllConditions
  <2>2. Conditions(s).accepted \subseteq Good
    BY <2>1, ConditionsAccept
  <2> DEFINE p == Conditions(s).parse \/ s = "download"
  <2>3. p \in BOOLEAN
    OBVIOUS
  <2>4. Done(s) = {Result("OK", status, p) : status \in Conditions(s).accepted}
    BY DEF Done
  <2> HIDE DEF p
  <2>5. ASSUME NEW status \in Conditions(s).accepted PROVE Result("OK", status, p) \in Results
    BY <2>2, <2>3 DEF Result, Results, Good
  <2> QED
    BY <2>4, <2>5
<1>2. /\ ServerError \in Results /\ ~Accepted(ServerError)
      /\ Refused \in Results /\ ~Accepted(Refused)
      /\ NoResult \in Results /\ ~Accepted(NoResult)
  BY DEF ServerError, Refused, NoResult, Result, Results, Accepted, Good
<1>3. \A status \in {"OK", "INTERNAL_SERVER_ERROR", "UNAUTHORIZED"} :
        Exception(status) \in Results /\ ~Accepted(Exception(status))
  BY DEF Exception, Result, Results, Accepted
<1>4. \A c \in BOOLEAN : Result("OK", "OK", c) \in Results
  BY DEF Result, Results
<1> QED
  BY <1>1, <1>2, <1>3, <1>4

\* An answer moves the call on to its evaluation.
LEMMA AnswerMoves ==
  ASSUME CallsType, NEW t \in Threads, NEW result \in Results, Answered(t, result)
  PROVE  /\ answer' \in [Threads -> Results] /\ at' \in [Threads -> Stages]
         /\ answer'[t] = result
         /\ \/ service[t] = "download" /\ at'[t] = "prepare"
            \/ service[t] # "download" /\ at'[t] = "evaluate"
         /\ \A u \in Threads \ {t} : at'[u] = at[u] /\ answer'[u] = answer[u]
  BY DEF CallsType, Answered, Step, Stages

LEMMA StepMoves ==
  ASSUME CallsType, NEW t \in Threads, NEW stage \in Stages, Step(t, stage)
  PROVE  /\ at' \in [Threads -> Stages] /\ at'[t] = stage
         /\ \A u \in Threads \ {t} : at'[u] = at[u]
  BY DEF CallsType, Step

\* The request of the call is carried out once more, or an error is counted.
RunsOnce(t) == runs' = [runs EXCEPT ![t] = @ + 1]
RunsOrNot(t) == runs' = runs \/ RunsOnce(t)
ErrorOrNot(t) == errors' = errors \/ CountError(t)

LEMMA RunsMove ==
  ASSUME CallsType, NEW t \in Threads, RunsOrNot(t)
  PROVE  /\ runs' \in [Threads -> Nat]
         /\ runs'[t] \in {runs[t], runs[t] + 1}
         /\ runs' = runs => runs'[t] = runs[t]
         /\ RunsOnce(t) => runs'[t] = runs[t] + 1
         /\ \A u \in Threads \ {t} : runs'[u] = runs[u]
  BY DEF CallsType, RunsOrNot, RunsOnce

LEMMA ErrorsMove ==
  ASSUME CallsType, NEW t \in Threads, ErrorOrNot(t)
  PROVE  /\ errors' \in [Threads -> Nat]
         /\ errors'[t] \in {errors[t], errors[t] + 1}
         /\ errors' = errors => errors'[t] = errors[t]
         /\ CountError(t) => errors'[t] = errors[t] + 1
         /\ \A u \in Threads \ {t} : errors'[u] = errors[u]
  BY DEF CallsType, ErrorOrNot, CountError

----------------------------------------------------------------------------
(* The calls                                                               *)

\* The calls of the other threads are left alone.
Unmoved(u) ==
  /\ service'[u] = service[u] /\ at'[u] = at[u] /\ answer'[u] = answer[u]
  /\ success'[u] = success[u] /\ runs'[u] = runs[u] /\ errors'[u] = errors[u]
Others(t) == \A u \in Threads \ {t} : Unmoved(u)

LEMMA UnmovedKeeps ==
  ASSUME NEW u \in Threads, CallInv(u), Unmoved(u)
  PROVE  CallInv(u)'
  BY DEF CallInv, RunsInv, StageInv, AnswerInv, Holds, Accepted, Unmoved

\* An answer that is accepted only if the request was carried out.
LEMMA AnsweredKeeps ==
  ASSUME CallsType, NEW t \in Threads, NEW result \in Results, Answered(t, result),
         service' = service, success' = success,
         runs' \in [Threads -> Nat], errors' \in [Threads -> Nat],
         \A u \in Threads \ {t} : runs'[u] = runs[u] /\ errors'[u] = errors[u],
         runs'[t] <= 1 + errors'[t], errors'[t] <= 2, runs'[t] <= 2,
         service[t] # "receive" /\ Accepted(result) => runs'[t] >= 1
  PROVE  CallsType' /\ Others(t) /\ CallInv(t)'
<1>1. /\ answer' \in [Threads -> Results] /\ at' \in [Threads -> Stages]
      /\ answer'[t] = result
      /\ \/ service[t] = "download" /\ at'[t] = "prepare"
         \/ service[t] # "download" /\ at'[t] = "evaluate"
      /\ \A u \in Threads \ {t} : at'[u] = at[u] /\ answer'[u] = answer[u]
  BY AnswerMoves
<1>2. CallsType'
  BY <1>1 DEF CallsType
<1>3. Others(t)
  BY <1>1 DEF Others, Unmoved
<1>4. RunsInv(t)' /\ StageInv(t)'
  BY <1>1 DEF RunsInv, StageInv, Holds
<1>5. AnswerInv(t)'
  BY <1>1 DEF AnswerInv, Accepted
<1> QED
  BY <1>2, <1>3, <1>4, <1>5 DEF CallInv

LEMMA StartCalls ==
  ASSUME CallsType, NEW t \in Threads, NEW s \in Services \ {"connect"}, Start(t, s)
  PROVE  CallsType' /\ Others(t) /\ CallInv(t)'
<1>1. PICK stage \in {"idle", "prepare", "exchange"} :
        /\ Step(t, stage)
        /\ stage = "exchange" => s = "download"
        /\ s = "download" => stage = "exchange"
  BY DEF Start
<1>2. /\ at' \in [Threads -> Stages] /\ at'[t] = stage
      /\ \A u \in Threads \ {t} : at'[u] = at[u]
  BY <1>1, StepMoves DEF Stages
<1>3. /\ service' = [service EXCEPT ![t] = s]
      /\ answer' = [answer EXCEPT ![t] = NoResult]
      /\ success' = [success EXCEPT ![t] = FALSE]
      /\ runs' = [runs EXCEPT ![t] = 0] /\ errors' = [errors EXCEPT ![t] = 0]
  BY DEF Start
<1>4. /\ service' \in [Threads -> Services] /\ service'[t] = s
      /\ answer' \in [Threads -> Results] /\ answer'[t] = NoResult
      /\ success' \in [Threads -> BOOLEAN] /\ success'[t] = FALSE
      /\ runs' \in [Threads -> Nat] /\ runs'[t] = 0
      /\ errors' \in [Threads -> Nat] /\ errors'[t] = 0
  BY <1>3, ResultTypes DEF CallsType
<1>5. CallsType'
  BY <1>2, <1>4 DEF CallsType
<1>6. Others(t)
  BY <1>2, <1>3 DEF Others, Unmoved, CallsType
<1>7. RunsInv(t)' /\ StageInv(t)' /\ AnswerInv(t)'
  BY <1>1, <1>2, <1>4, ResultTypes DEF RunsInv, StageInv, AnswerInv, Holds, Accepted
<1> QED
  BY <1>5, <1>6, <1>7 DEF CallInv

LEMMA PrepareCalls ==
  ASSUME CallsType, NEW t \in Threads, CallInv(t), Prepare(t)
  PROVE  CallsType' /\ Others(t) /\ CallInv(t)'
<1>1. PICK stage \in {"evaluate", "receive", "exchange"} :
        /\ Step(t, stage)
        /\ stage = "evaluate" <=> service[t] = "download"
        /\ stage = "receive" <=> service[t] = "receive"
  BY DEF Prepare
<1>2. /\ at' \in [Threads -> Stages] /\ at'[t] = stage
      /\ \A u \in Threads \ {t} : at'[u] = at[u]
  BY <1>1, StepMoves DEF Stages
<1>3. /\ at[t] = "prepare" /\ service' = service /\ answer' = answer /\ success' = success
      /\ runs' = runs /\ errors' = errors
  BY DEF Prepare, history
<1>4. CallsType' /\ Others(t)
  BY <1>2, <1>3 DEF CallsType, Others, Unmoved
<1>5. RunsInv(t)' /\ StageInv(t)'
  BY <1>1, <1>2, <1>3 DEF CallInv, RunsInv, StageInv, Holds
<1>6. AnswerInv(t)'
  BY <1>1, <1>2, <1>3 DEF CallInv, AnswerInv, Accepted
<1> QED
  BY <1>4, <1>5, <1>6 DEF CallInv

LEMMA FirstAttemptCalls ==
  ASSUME CallsType, NEW t \in Threads, CallInv(t), FirstAttempt(t)
  PROVE  CallsType' /\ Others(t) /\ CallInv(t)'
<1>1. /\ at[t] = "exchange" /\ service[t] \in HttpServices
      /\ service' = service /\ success' = success
  BY DEF FirstAttempt
<1>2. runs[t] = 0 /\ errors[t] = 0
  BY <1>1 DEF CallInv, RunsInv, HttpServices
<1>3. /\ RunsOrNot(t)
      /\ \/ Step(t, "authenticate") /\ runs' = runs /\ errors' = errors /\ answer' = answer
         \/ Step(t, "again") /\ CountError(t) /\ answer' = answer
         \/ /\ errors' = errors
            /\ \E result \in Results :
                 Answered(t, result) /\ (Accepted(result) => RunsOnce(t))
  BY <1>1, ResultTypes DEF FirstAttempt, Throw, CarryOut, CarryOutOrNot, RunsOrNot,
     RunsOnce, Services
<1>4. /\ runs' \in [Threads -> Nat] /\ runs'[t] \in {0, 1}
      /\ runs' = runs => runs'[t] = 0
      /\ RunsOnce(t) => runs'[t] = 1
      /\ \A u \in Threads \ {t} : runs'[u] = runs[u]
  BY <1>2, <1>3, RunsMove
<1>5. CASE Step(t, "authenticate") /\ runs' = runs /\ errors' = errors /\ answer' = answer
  <2>1. /\ at' \in [Threads -> Stages] /\ at'[t] = "authenticate"
        /\ \A u \in Threads \ {t} : at'[u] = at[u]
    BY <1>5, StepMoves DEF Stages
  <2>2. CallsType' /\ Others(t)
    BY <1>1, <1>5, <2>1 DEF CallsType, Others, Unmoved
  <2> QED
    BY <1>1, <1>2, <1>5, <2>1, <2>2 DEF CallInv, RunsInv, StageInv, AnswerInv, Holds
<1>6. CASE Step(t, "again") /\ CountError(t) /\ answer' = answer
  <2>1. /\ at' \in [Threads -> Stages] /\ at'[t] = "again"
        /\ \A u \in Threads \ {t} : at'[u] = at[u]
    BY <1>6, StepMoves DEF Stages
  <2>2. /\ errors' \in [Threads -> Nat] /\ errors'[t] = 1
        /\ \A u \in Threads \ {t} : errors'[u] = errors[u]
    BY <1>2, <1>6, ErrorsMove DEF ErrorOrNot
  <2>3. CallsType' /\ Others(t)
    BY <1>1, <1>4, <1>6, <2>1, <2>2 DEF CallsType, Others, Unmoved
  <2> QED
    BY <1>1, <1>4, <2>1, <2>2, <2>3 DEF CallInv, RunsInv, StageInv, AnswerInv, Holds
<1>7. ASSUME errors' = errors, NEW result \in Results, Answered(t, result),
             Accepted(result) => RunsOnce(t)
      PROVE  CallsType' /\ Others(t) /\ CallInv(t)'
  <2>1. errors' \in [Threads -> Nat] /\ errors'[t] = 0
    BY <1>2, <1>7 DEF CallsType
  <2> QED
    BY <1>1, <1>4, <1>7, <2>1, AnsweredKeeps
<1> QED
  BY <1>3, <1>5, <1>6, <1>7

LEMMA SecondAttemptCalls ==
  ASSUME CallsType, NEW t \in Threads, CallInv(t), SecondAttempt(t)
  PROVE  CallsType' /\ Others(t) /\ CallInv(t)'
<1>1. at[t] = "again" /\ service' = service /\ success' = success /\ runs' = runs
  BY DEF SecondAttempt
<1>2. runs[t] <= 1 /\ errors[t] = 1 /\ runs[t] \in Nat /\ service[t] \in HttpServices
  BY <1>1 DEF CallInv, RunsInv, StageInv, Holds, CallsType
<1>3. \/ Step(t, "authenticate") /\ errors' = errors /\ answer' = answer
      \/ /\ ErrorOrNot(t)
         /\ \E result \in Results : Answered(t, result) /\ ~Accepted(result)
  BY ResultTypes DEF SecondAttempt, Throw, ErrorOrNot
<1>4. CASE Step(t, "authenticate") /\ errors' = errors /\ answer' = answer
  <2>1. /\ at' \in [Threads -> Stages] /\ at'[t] = "authenticate"
        /\ \A u \in Threads \ {t} : at'[u] = at[u]
    BY <1>4, StepMoves DEF Stages
  <2>2. CallsType' /\ Others(t)
    BY <1>1, <1>4, <2>1 DEF CallsType, Others, Unmoved
  <2> QED
    BY <1>1, <1>2, <1>4, <2>1, <2>2 DEF CallInv, RunsInv, StageInv, AnswerInv, Holds
<1>5. ASSUME ErrorOrNot(t), NEW result \in Results, Answered(t, result), ~Accepted(result)
      PROVE  CallsType' /\ Others(t) /\ CallInv(t)'
  <2>1. /\ errors' \in [Threads -> Nat] /\ errors'[t] \in {1, 2}
        /\ \A u \in Threads \ {t} : errors'[u] = errors[u]
    BY <1>2, <1>5, ErrorsMove
  <2>2. runs' \in [Threads -> Nat]
    BY <1>1 DEF CallsType
  <2> QED
    BY <1>1, <1>2, <1>5, <2>1, <2>2, AnsweredKeeps
<1> QED
  BY <1>3, <1>4, <1>5

LEMMA AuthenticateCalls ==
  ASSUME CallsType, NEW t \in Threads, CallInv(t), Authenticate(t)
  PROVE  CallsType' /\ Others(t) /\ CallInv(t)'
<1>1. at[t] = "authenticate" /\ service' = service /\ success' = success
  BY DEF Authenticate
<1>2. /\ runs[t] <= errors[t] /\ errors[t] <= 1 /\ runs[t] \in Nat /\ errors[t] \in Nat
      /\ service[t] \in Services
  BY <1>1 DEF CallInv, RunsInv, CallsType
<1>3. /\ RunsOrNot(t) /\ ErrorOrNot(t)
      /\ \E result \in Results : Answered(t, result) /\ (Accepted(result) => RunsOnce(t))
  BY <1>2, ResultTypes DEF Authenticate, Throw, CarryOut, CarryOutOrNot, RunsOrNot,
     RunsOnce, ErrorOrNot
<1>4. /\ runs' \in [Threads -> Nat] /\ runs'[t] \in {runs[t], runs[t] + 1}
      /\ RunsOnce(t) => runs'[t] = runs[t] + 1
      /\ errors' \in [Threads -> Nat] /\ errors'[t] \in {errors[t], errors[t] + 1}
      /\ \A u \in Threads \ {t} : runs'[u] = runs[u] /\ errors'[u] = errors[u]
  BY <1>3, RunsMove, ErrorsMove
<1>5. /\ runs'[t] <= 1 + errors'[t] /\ errors'[t] <= 2 /\ runs'[t] <= 2
      /\ RunsOnce(t) => runs'[t] >= 1
  BY <1>2, <1>4
<1> QED
  BY <1>1, <1>3, <1>4, <1>5, AnsweredKeeps

LEMMA ConnectCalls ==
  ASSUME CallsType, NEW t \in Threads, CallInv(t), Connect(t)
  PROVE  CallsType' /\ Others(t) /\ CallInv(t)'
<1>1. /\ at[t] = "exchange" /\ service' = service /\ success' = success /\ errors' = errors
  BY DEF Connect
<1>2. runs[t] = 0 /\ errors[t] <= 2 /\ errors' \in [Threads -> Nat]
  BY <1>1 DEF CallInv, RunsInv, CallsType
<1>3. PICK result \in Results :
        /\ Answered(t, result)
        /\ \/ runs' = [runs EXCEPT ![t] = 1]
           \/ runs' = runs /\ ~Accepted(result)
  BY ResultTypes DEF Connect, Services
<1>4. /\ runs' \in [Threads -> Nat] /\ runs'[t] \in {0, 1}
      /\ Accepted(result) => runs'[t] = 1
      /\ \A u \in Threads \ {t} : runs'[u] = runs[u]
  BY <1>2, <1>3 DEF CallsType
<1>5. errors'[t] \in Nat
  BY <1>2
<1> QED
  BY <1>1, <1>2, <1>3, <1>4, <1>5, AnsweredKeeps

LEMMA ReceiveCalls ==
  ASSUME CallsType, NEW t \in Threads, CallInv(t), Receive(t)
  PROVE  CallsType' /\ Others(t) /\ CallInv(t)'
<1>1. /\ at[t] = "receive" /\ service' = service /\ success' = success /\ errors' = errors
  BY DEF Receive
<1>2. /\ runs[t] = 0 /\ errors[t] <= 2 /\ errors' \in [Threads -> Nat]
      /\ service[t] = "receive"
  BY <1>1 DEF CallInv, RunsInv, StageInv, CallsType
<1>3. PICK result \in Results :
        Answered(t, result) /\ (runs' = [runs EXCEPT ![t] = 1] \/ runs' = runs)
  BY ResultTypes DEF Receive
<1>4. /\ runs' \in [Threads -> Nat] /\ runs'[t] \in {0, 1}
      /\ \A u \in Threads \ {t} : runs'[u] = runs[u]
  BY <1>2, <1>3 DEF CallsType
<1>5. errors'[t] \in Nat
  BY <1>2
<1> QED
  BY <1>1, <1>2, <1>3, <1>4, <1>5, AnsweredKeeps

LEMMA EvaluateCalls ==
  ASSUME CallsType, SharedType, NEW t \in Threads, CallInv(t), Evaluate(t)
  PROVE  CallsType' /\ Others(t) /\ CallInv(t)'
<1> DEFINE good == Accepts(answer[t], conditions)
           goesOn == service[t] = "subscribe" /\ good
<1>1. /\ at[t] = "evaluate" /\ answer' = answer /\ errors' = errors
      /\ success' = [success EXCEPT ![t] = good]
      /\ goesOn => /\ service' = [service EXCEPT ![t] = "connect"]
                   /\ runs' = [runs EXCEPT ![t] = 0] /\ Step(t, "prepare")
      /\ ~goesOn => service' = service /\ runs' = runs /\ Step(t, "idle")
  BY DEF Evaluate
<1>2. good => Accepted(answer[t])
  BY ConditionsAccept DEF SharedType, Accepts, Accepted
<1>3. good \in BOOLEAN
  BY DEF Accepts
<1> HIDE DEF good
<1>4. success' \in [Threads -> BOOLEAN] /\ success'[t] = good
  BY <1>1, <1>3 DEF CallsType
<1>5. \A u \in Threads \ {t} : success'[u] = success[u]
  BY <1>1 DEF CallsType
<1>6. CASE goesOn
  <2>1. /\ at' \in [Threads -> Stages] /\ at'[t] = "prepare"
        /\ \A u \in Threads \ {t} : at'[u] = at[u]
    BY <1>1, <1>6, StepMoves DEF Stages
  <2>2. /\ service' \in [Threads -> Services] /\ service'[t] = "connect"
        /\ runs' \in [Threads -> Nat] /\ runs'[t] = 0
        /\ \A u \in Threads \ {t} : service'[u] = service[u] /\ runs'[u] = runs[u]
    BY <1>1, <1>6 DEF CallsType, Services
  <2>3. CallsType' /\ Others(t)
    BY <1>1, <1>4, <1>5, <2>1, <2>2 DEF CallsType, Others, Unmoved
  <2>4. errors'[t] \in Nat /\ errors'[t] <= 2
    BY <1>1 DEF CallsType, CallInv, RunsInv
  <2> QED
    BY <2>1, <2>2, <2>3, <2>4 DEF CallInv, RunsInv, StageInv, AnswerInv, Holds
<1>7. CASE ~goesOn
  <2>1. /\ at' \in [Threads -> Stages] /\ at'[t] = "idle"
        /\ \A u \in Threads \ {t} : at'[u] = at[u]
    BY <1>1, <1>7, StepMoves DEF Stages
  <2>2. CallsType' /\ Others(t)
    BY <1>1, <1>4, <1>5, <1>7, <2>1 DEF CallsType, Others, Unmoved
  <2>3. RunsInv(t)' /\ StageInv(t)'
    BY <1>1, <1>7, <2>1 DEF CallInv, RunsInv, StageInv, Holds
  <2>4. AnswerInv(t)'
    <3>1. good /\ service[t] # "receive" => runs[t] >= 1
      <4>1. AnswerInv(t)
        BY DEF CallInv
      <4>2. at[t] = "evaluate"
        BY <1>1
      <4> QED
        BY <1>2, <4>1, <4>2, Zenon DEF AnswerInv
    <3>2. /\ success'[t] = good /\ service' = service /\ runs' = runs
          /\ at'[t] # "evaluate" /\ at'[t] # "prepare"
      BY <1>1, <1>4, <1>7, <2>1
    <3> QED
      BY <3>1, <3>2, Zenon DEF AnswerInv
  <2> QED
    BY <2>2, <2>3, <2>4 DEF CallInv
<1> QED
  BY <1>6, <1>7

\* The steps of the controller and of the environment move no call.
LEMMA CallsKept ==
  ASSUME IInv, [Next]_vars
  PROVE  CallsType' /\ \A t \in Threads : CallInv(t)'
<1> USE DEF IInv
<1>1. ASSUME NEW t \in Threads, CallsType' /\ Others(t) /\ CallInv(t)'
      PROVE  CallsType' /\ \A u \in Threads : CallInv(u)'
  BY <1>1, UnmovedKeeps DEF Others
<1>2. ASSUME UNCHANGED calls, UNCHANGED <<runs, errors>>
      PROVE  CallsType' /\ \A u \in Threads : CallInv(u)'
  <2>1. CallsType'
    BY <1>2 DEF calls, CallsType
  <2>2. \A u \in Threads : Unmoved(u)
    BY <1>2 DEF calls, Unmoved
  <2> QED
    BY <2>1, <2>2, UnmovedKeeps
<1>3. ASSUME NEW t \in Threads,
             \/ \E s \in Calls[t] : Start(t, s)
             \/ Prepare(t) \/ FirstAttempt(t) \/ SecondAttempt(t) \/ Authenticate(t)
             \/ Connect(t) \/ Receive(t) \/ Evaluate(t)
      PROVE  CallsType' /\ \A u \in Threads : CallInv(u)'
  <2>1. Calls[t] \subseteq Services \ {"connect"}
    BY Assumptions
  <2>2. CallsType' /\ Others(t) /\ CallInv(t)'
    BY <1>3, <2>1, StartCalls, PrepareCalls, FirstAttemptCalls, SecondAttemptCalls,
       AuthenticateCalls, ConnectCalls, ReceiveCalls, EvaluateCalls
  <2> QED
    BY <1>1, <2>2
<1>4. CASE (\E s \in sessions : EndSession(s)) \/ (\E g \in groups : EndGroup(g))
  BY <1>2, <1>4 DEF EndSession, EndGroup
<1>5. CASE UNCHANGED vars
  BY <1>2, <1>5 DEF vars, history
<1> QED
  BY <1>3, <1>4, <1>5, Zenon DEF Next

----------------------------------------------------------------------------
(* The sessions and groups                                                 *)

\* A subscription may be added, or one ended.
LEMMA GroupsMove ==
  ASSUME SharedType, NEW t \in Threads,
         CarryOutOrNot(t) \/ UNCHANGED <<groups, issued>>
  PROVE  /\ issued' \in 0 .. MaxGroups /\ groups' \subseteq 1 .. issued'
         /\ \A n \in 0 .. issued : n \in 0 .. issued'
<1>1. \/ issued < MaxGroups /\ issued' = issued + 1 /\ groups' = groups \cup {issued + 1}
      \/ groups' \subseteq groups /\ issued' = issued
  BY DEF CarryOutOrNot, CarryOut
<1>2. issued \in Nat /\ issued <= MaxGroups /\ MaxGroups \in Nat /\ groups \subseteq 1 .. issued
  BY Assumptions DEF SharedType
<1>3. CASE issued < MaxGroups /\ issued' = issued + 1 /\ groups' = groups \cup {issued + 1}
  BY <1>2, <1>3
<1>4. CASE groups' \subseteq groups /\ issued' = issued
  BY <1>2, <1>4
<1> QED
  BY <1>1, <1>3, <1>4

\* The failures counted.
LEMMA FailCounts ==
  ASSUME SharedType, Fail
  PROVE  failures' = failures + 1 /\ failures' \in 0 .. MaxFailures
  BY Assumptions DEF SharedType, Fail

LEMMA SharedKept ==
  ASSUME IInv, [Next]_vars
  PROVE  SharedType'
<1> USE DEF IInv
<1>1. ASSUME NEW t \in Threads, NEW s \in Services, Start(t, s) PROVE SharedType'
  BY <1>1 DEF Start, SharedType, controller, client
<1>2. ASSUME NEW t \in Threads, Prepare(t) PROVE SharedType'
  <2>1. conditions' \in AllConditions
    BY <1>2 DEF Prepare, AllConditions, CallsType
  <2> QED
    BY <1>2, <2>1 DEF Prepare, SharedType, controller, history
<1>3. ASSUME NEW t \in Threads, FirstAttempt(t) PROVE SharedType'
  <2>1. /\ CarryOutOrNot(t) \/ UNCHANGED <<groups, issued>>
        /\ sessions' \subseteq sessions /\ cookie' \in {0, cookie}
        /\ Fail \/ failures' = failures
        /\ UNCHANGED <<made, socket, group, conditions, misread>>
    BY <1>3 DEF FirstAttempt, Throw, CarryOutOrNot
  <2> QED
    BY <2>1, GroupsMove, FailCounts DEF SharedType
<1>4. ASSUME NEW t \in Threads, SecondAttempt(t) PROVE SharedType'
  <2>1. /\ cookie' \in {0, cookie} /\ (Fail \/ failures' = failures)
        /\ UNCHANGED <<sessions, groups, made, issued, socket, group, conditions, misread>>
    BY <1>4 DEF SecondAttempt, Throw, controller
  <2> QED
    BY <2>1, FailCounts DEF SharedType
<1>5. ASSUME NEW t \in Threads, Authenticate(t) PROVE SharedType'
  <2>1. /\ CarryOutOrNot(t) \/ UNCHANGED <<groups, issued>>
        /\ Fail \/ failures' = failures
        /\ UNCHANGED <<socket, group, conditions, misread>>
    BY <1>5 DEF Authenticate, Throw, CarryOutOrNot
  <2>2. /\ made' \in {made, made + 1} /\ cookie' \in {0, made'}
        /\ sessions' \subseteq sessions \cup {made'}
        /\ made' = made => sessions' = sessions /\ cookie' = 0
    BY <1>5 DEF Authenticate, Throw, SharedType
  <2>3. made' \in Nat /\ sessions' \subseteq 1 .. made' /\ cookie' \in 0 .. made'
    BY <2>2 DEF SharedType
  <2> QED
    BY <2>1, <2>3, GroupsMove, FailCounts DEF SharedType
<1>6. ASSUME NEW t \in Threads, Connect(t) \/ Receive(t) PROVE SharedType'
  <2>1. /\ socket' \in {0, socket, group} /\ (Fail \/ failures' = failures)
        /\ UNCHANGED <<sessions, groups, made, issued, cookie, group, conditions, misread>>
    BY <1>6 DEF Connect, Receive, controller
  <2> QED
    BY <2>1, FailCounts DEF SharedType
<1>7. ASSUME NEW t \in Threads, Evaluate(t) PROVE SharedType'
  <2>1. /\ group' \in {0, group, issued} /\ misread' \in BOOLEAN
        /\ UNCHANGED <<sessions, groups, made, issued, cookie, socket, conditions, failures>>
    BY <1>7 DEF Evaluate, controller
  <2> QED
    BY <2>1 DEF SharedType
<1>8. ASSUME NEW s, EndSession(s) PROVE SharedType'
  BY <1>8, FailCounts DEF EndSession, SharedType, client
<1>9. ASSUME NEW g, EndGroup(g) PROVE SharedType'
  BY <1>9, FailCounts DEF EndGroup, SharedType, client
<1>10. CASE UNCHANGED vars
  BY <1>10 DEF vars, SharedType, controller, client, history
<1>11. \A t \in Threads : Calls[t] \subseteq Services
  BY Assumptions
<1> QED
  BY <1>1, <1>2, <1>3, <1>4, <1>5, <1>6, <1>7, <1>8, <1>9, <1>10, <1>11 DEF Next

\* The mutex is taken by one thread only.
LEMMA HoldsAlone ==
  ASSUME CallsType, SessionInv, NEW t \in Threads, HttpFree \/ Holds(t),
         \A u \in Threads \ {t} : at'[u] = at[u]
  PROVE  \A u \in Threads : Holds(u)' => u = t
  BY DEF SessionInv, HttpFree, Holds

LEMMA SessionsKept ==
  ASSUME IInv, [Next]_vars
  PROVE  SessionInv'
<1> USE DEF IInv
<1>n. made \in Nat /\ failures \in Nat
  BY DEF SharedType
<1>a. ASSUME NEW t \in Threads, HttpFree \/ Holds(t), \A u \in Threads \ {t} : at'[u] = at[u],
             made' <= 1 + failures', cookie' \notin sessions' => made' <= failures',
             Holds(t)' => made' <= failures'
      PROVE  SessionInv'
  BY <1>a, HoldsAlone DEF SessionInv
<1>b. ASSUME made' = made, failures' \in Nat, failures' >= failures,
             \A u \in Threads : Holds(u)' => Holds(u),
             cookie' \notin sessions' => cookie \notin sessions \/ failures' = failures + 1
      PROVE  SessionInv'
  <2>1. \A t, u \in Threads : Holds(t)' /\ Holds(u)' => t = u
    BY <1>b, Zenon DEF SessionInv
  <2>2. made' <= 1 + failures'
    <3>1. made <= 1 + failures
      BY DEF SessionInv
    <3>2. ASSUME NEW n \in Nat, n >= failures PROVE made <= 1 + n
      BY <1>n, <3>1, <3>2
    <3>3. failures' \in Nat /\ failures' >= failures /\ made' = made
      BY <1>b
    <3>4. made <= 1 + failures'
      BY <3>2, <3>3
    <3> QED
      BY <3>3, <3>4, Zenon
  <2>3. cookie' \notin sessions' => made' <= failures'
    BY <1>b, <1>n DEF SessionInv
  <2>4. ASSUME NEW t \in Threads, Holds(t)' PROVE made' <= failures'
    <3>1. made <= failures
      BY <1>b, <2>4, Zenon DEF SessionInv
    <3> QED
      BY <1>b, <1>n, <3>1
  <2> QED
    BY <2>1, <2>2, <2>3, <2>4 DEF SessionInv
<1>c. ASSUME NEW t \in Threads, NEW result \in Results, Answered(t, result)
      PROVE  ~Holds(t)' /\ \A u \in Threads \ {t} : at'[u] = at[u]
  BY <1>c, AnswerMoves DEF Holds
<1>d. ASSUME NEW t \in Threads, NEW stage \in Stages, Step(t, stage)
      PROVE  at'[t] = stage /\ \A u \in Threads \ {t} : at'[u] = at[u]
  BY <1>d, StepMoves
<1>1. ASSUME NEW t \in Threads, NEW s \in Services, Start(t, s) PROVE SessionInv'
  <2>1. PICK stage \in {"idle", "prepare", "exchange"} : Step(t, stage)
    BY <1>1 DEF Start
  <2>2. UNCHANGED <<made, failures, cookie, sessions>>
    BY <1>1 DEF Start, controller, client
  <2> QED
    BY <1>b, <1>d, <1>n, <2>1, <2>2 DEF Stages, Holds
<1>2. ASSUME NEW t \in Threads, Prepare(t) PROVE SessionInv'
  <2>1. PICK stage \in {"evaluate", "receive", "exchange"} : Step(t, stage)
    BY <1>2 DEF Prepare
  <2>2. UNCHANGED <<made, failures, cookie, sessions>>
    BY <1>2 DEF Prepare, controller, history
  <2> QED
    BY <1>b, <1>d, <1>n, <2>1, <2>2 DEF Stages, Holds
<1>3. ASSUME NEW t \in Threads, FirstAttempt(t) PROVE SessionInv'
  <2>1. HttpFree /\ made' = made /\ service[t] \in Services
    BY <1>3 DEF FirstAttempt, CallsType
  <2>2. \/ /\ cookie \notin sessions /\ Step(t, "authenticate")
           /\ UNCHANGED <<cookie, sessions, failures>>
        \/ (\E result \in Results : Answered(t, result)) /\ UNCHANGED <<cookie, sessions, failures>>
        \/ (\E result \in Results : Answered(t, result)) /\ Fail
        \/ Step(t, "again") /\ Fail
    BY <1>3, <2>1, ResultTypes DEF FirstAttempt, Throw
  <2>3. CASE cookie \notin sessions /\ Step(t, "authenticate")
             /\ UNCHANGED <<cookie, sessions, failures>>
    BY <1>a, <1>d, <1>n, <2>1, <2>3 DEF Stages, SessionInv
  <2>4. ASSUME NEW result \in Results, Answered(t, result), UNCHANGED <<cookie, sessions, failures>>
        PROVE  SessionInv'
    BY <1>a, <1>c, <1>n, <2>1, <2>4 DEF SessionInv
  <2>5. ASSUME Fail, \A u \in Threads \ {t} : at'[u] = at[u] PROVE SessionInv'
    BY <1>a, <1>n, <2>1, <2>5, FailCounts DEF SessionInv
  <2> QED
    BY <1>c, <1>d, <2>2, <2>3, <2>4, <2>5 DEF Stages
<1>4. ASSUME NEW t \in Threads, SecondAttempt(t) PROVE SessionInv'
  <2>1. Holds(t) /\ made' = made /\ sessions' = sessions /\ made <= failures
    BY <1>4 DEF SecondAttempt, Holds, SessionInv, controller
  <2>2. \A u \in Threads \ {t} : at'[u] = at[u]
    BY <1>4, <1>c, <1>d, ResultTypes DEF SecondAttempt, Throw, Stages
  <2>3. Fail \/ failures' = failures
    BY <1>4 DEF SecondAttempt, Throw
  <2>4. made' <= failures'
    BY <1>n, <2>1, <2>3, FailCounts
  <2> QED
    BY <1>a, <1>n, <2>1, <2>2, <2>3, <2>4, FailCounts
<1>5. ASSUME NEW t \in Threads, Authenticate(t) PROVE SessionInv'
  <2>1. Holds(t) /\ made <= failures /\ service[t] \in Services
    BY <1>5 DEF Authenticate, Holds, SessionInv, CallsType
  <2>2. ~Holds(t)' /\ \A u \in Threads \ {t} : at'[u] = at[u]
    BY <1>5, <1>c, <2>1, ResultTypes DEF Authenticate, Throw
  <2>3. /\ made' \in {made, made + 1} /\ (Fail \/ failures' = failures)
        /\ Fail \/ cookie' \in sessions'
    BY <1>5 DEF Authenticate, Throw
  <2>4. made' <= 1 + failures' /\ (cookie' \notin sessions' => made' <= failures')
    BY <1>n, <2>1, <2>3, FailCounts
  <2> QED
    BY <1>a, <2>1, <2>2, <2>4
<1>6. ASSUME NEW t \in Threads, Connect(t) \/ Receive(t) PROVE SessionInv'
  <2>1. UNCHANGED <<made, cookie, sessions>> /\ (Fail \/ failures' = failures)
    BY <1>6 DEF Connect, Receive, controller
  <2>2. \E result \in Results : Answered(t, result)
    BY <1>6, ResultTypes DEF Connect, Receive, Services
  <2>3. \A u \in Threads : Holds(u)' => Holds(u)
    BY <1>c, <2>2 DEF Holds
  <2> QED
    BY <1>b, <1>n, <2>1, <2>3, FailCounts
<1>7. ASSUME NEW t \in Threads, Evaluate(t) PROVE SessionInv'
  <2>1. PICK stage \in {"prepare", "idle"} : Step(t, stage)
    BY <1>7 DEF Evaluate
  <2>2. UNCHANGED <<made, failures, cookie, sessions>>
    BY <1>7 DEF Evaluate, controller
  <2> QED
    BY <1>b, <1>d, <1>n, <2>1, <2>2 DEF Stages, Holds
<1>8. ASSUME NEW s, EndSession(s) \/ EndGroup(s) PROVE SessionInv'
  <2>1. made' = made /\ at' = at /\ Fail
    BY <1>8 DEF EndSession, EndGroup, calls
  <2> QED
    BY <1>b, <1>n, <2>1, FailCounts DEF Holds
<1>9. CASE UNCHANGED vars
  BY <1>b, <1>n, <1>9 DEF vars, controller, client, calls, history, Holds
<1>10. \A t \in Threads : Calls[t] \subseteq Services
  BY Assumptions
<1> QED
  BY <1>1, <1>2, <1>3, <1>4, <1>5, <1>6, <1>7, <1>8, <1>9, <1>10 DEF Next

----------------------------------------------------------------------------
(* The web socket                                                          *)

\* Subscriptions are started by one thread at most: p_websocket_ and
\* subscription_group_id_ are looked at and set without a mutex.
OneSubscriber ==
  \A t, u \in Threads : "subscribe" \in Calls[t] /\ "subscribe" \in Calls[u] => t = u

Subscribing(t) == service[t] \in {"subscribe", "connect"}
Connected(t) == service[t] = "connect" /\ at[t] = "evaluate"

\* Before its web socket is connected a call that starts a subscription has none,
\* and after that it has an answer which its own conditions accept.
SubscribeInv(t) ==
  Subscribing(t) =>
    /\ "subscribe" \in Calls[t]
    /\ at[t] # "idle" /\ ~Connected(t) => socket = 0
    /\ Connected(t) /\ socket # 0 => Accepts(answer[t], Conditions("connect"))
SocketInv == (\A t \in Threads : SubscribeInv(t)) /\ SocketHasGroup

LEMMA ConnectAnswered ==
  ASSUME NEW result \in Done("connect")
  PROVE  Accepts(result, Conditions("connect"))
<1>1. /\ Conditions("connect").accepted = {"SWITCHING_PROTOCOLS"}
      /\ Conditions("connect").parse = FALSE
  BY DEF Conditions
<1> QED
  BY <1>1 DEF Done, Accepts, Result

LEMMA SocketKept ==
  ASSUME OneSubscriber, IInv, SocketInv, [Next]_vars
  PROVE  SocketInv'
<1> USE DEF IInv
\* The web socket is left as it is, or lost.
<1>a. ASSUME NEW t \in Threads, \A u \in Threads \ {t} : Unmoved(u),
             socket' \in {socket, 0}, SubscribeInv(t)', SocketHasGroup'
      PROVE  SocketInv'
  <2>1. ASSUME NEW u \in Threads \ {t} PROVE SubscribeInv(u)'
    <3>1. Unmoved(u) /\ SubscribeInv(u)
      BY <1>a DEF SocketInv
    <3> QED
      BY <1>a, <3>1 DEF SubscribeInv, Subscribing, Connected, Unmoved
  <2> QED
    BY <1>a, <2>1 DEF SocketInv
\* A call moves on, nothing else does.
<1>b. ASSUME NEW t \in Threads, Others(t), UNCHANGED <<socket, group, misread>>,
             SubscribeInv(t)'
      PROVE  SocketInv'
  BY <1>a, <1>b DEF Others, SocketInv, SocketHasGroup
\* The request of an HTTP service is on its way.
<1>c. ASSUME NEW t \in Threads, Others(t), UNCHANGED <<socket, group, misread, service>>,
             at[t] # "idle", service[t] # "connect"
      PROVE  SocketInv'
  <2>1. SubscribeInv(t)
    BY DEF SocketInv
  <2>2. SubscribeInv(t)'
    BY <1>c, <2>1 DEF SubscribeInv, Subscribing, Connected
  <2> QED
    BY <1>b, <1>c, <2>2
<1>d. \A t \in Threads : CallInv(t) /\ Calls[t] \subseteq Services \ {"connect"}
  BY Assumptions
<1>1. ASSUME NEW t \in Threads, NEW s \in Calls[t], Start(t, s) PROVE SocketInv'
  <2>1. Others(t)
    BY <1>1, <1>d, StartCalls
  <2>2. /\ UNCHANGED <<socket, group, misread>>
        /\ service'[t] = s
        /\ s = "subscribe" /\ socket # 0 => Step(t, "idle")
    BY <1>1 DEF Start, client, CallsType
  <2>3. s = "subscribe" /\ socket # 0 => at'[t] = "idle"
    BY <2>2, StepMoves DEF Stages
  <2>4. SubscribeInv(t)'
    BY <1>1, <1>d, <2>2, <2>3 DEF SubscribeInv, Subscribing, Connected
  <2> QED
    BY <1>b, <2>1, <2>2, <2>4
<1>2. ASSUME NEW t \in Threads, Prepare(t) PROVE SocketInv'
  <2>1. Others(t)
    BY <1>2, <1>d, PrepareCalls
  <2>2. /\ UNCHANGED <<socket, group, misread, service>> /\ at[t] = "prepare"
        /\ service[t] = "connect" => Step(t, "exchange")
    BY <1>2 DEF Prepare, history
  <2>3. service[t] = "connect" => at'[t] = "exchange"
    BY <2>2, StepMoves DEF Stages
  <2>4. SubscribeInv(t)'
    BY <2>2, <2>3 DEF SocketInv, SubscribeInv, Subscribing, Connected
  <2> QED
    BY <1>b, <2>1, <2>2, <2>4
<1>3. ASSUME NEW t \in Threads, FirstAttempt(t) PROVE SocketInv'
  <2>1. Others(t)
    BY <1>3, <1>d, FirstAttemptCalls
  <2>2. /\ UNCHANGED <<socket, group, misread, service>> /\ at[t] = "exchange"
        /\ service[t] \in HttpServices
    BY <1>3 DEF FirstAttempt
  <2> QED
    BY <1>c, <2>1, <2>2 DEF HttpServices
<1>4. ASSUME NEW t \in Threads, SecondAttempt(t) PROVE SocketInv'
  <2>1. Others(t)
    BY <1>4, <1>d, SecondAttemptCalls
  <2>2. UNCHANGED <<socket, group, misread, service>> /\ at[t] = "again"
    BY <1>4 DEF SecondAttempt
  <2>3. service[t] \in HttpServices
    BY <1>d, <2>2 DEF CallInv, StageInv, Holds
  <2> QED
    BY <1>c, <2>1, <2>2, <2>3 DEF HttpServices
<1>5. ASSUME NEW t \in Threads, Authenticate(t) PROVE SocketInv'
  <2>1. Others(t)
    BY <1>5, <1>d, AuthenticateCalls
  <2>2. UNCHANGED <<socket, group, misread, service>> /\ at[t] = "authenticate"
    BY <1>5 DEF Authenticate
  <2>3. service[t] \in HttpServices
    BY <1>d, <2>2 DEF CallInv, StageInv, Holds
  <2> QED
    BY <1>c, <2>1, <2>2, <2>3 DEF HttpServices
<1>6. ASSUME NEW t \in Threads, Connect(t) PROVE SocketInv'
  <2>1. Others(t)
    BY <1>6, <1>d, ConnectCalls
  <2>2. /\ UNCHANGED <<group, misread, service>> /\ at[t] = "exchange" /\ service[t] = "connect"
        /\ \/ socket' = group /\ \E result \in Done("connect") : Answered(t, result)
           \/ socket' = socket
    BY <1>6 DEF Connect
  <2>3. "subscribe" \in Calls[t] /\ socket = 0
    BY <2>2 DEF SocketInv, SubscribeInv, Subscribing, Connected
  <2>4. \A u \in Threads \ {t} : ~Subscribing(u)
    BY <2>3 DEF SocketInv, SubscribeInv, OneSubscriber
  <2>5. socket' # 0 => Accepts(answer'[t], Conditions("connect"))
    <3>1. SUFFICES ASSUME NEW result \in Done("connect"), Answered(t, result)
                   PROVE  Accepts(answer'[t], Conditions("connect"))
      BY <2>2, <2>3
    <3>2. answer'[t] = result
      BY <3>1 DEF Answered, CallsType
    <3> QED
      BY <3>1, <3>2, ConnectAnswered
  <2>6. at'[t] = "evaluate"
    <3>1. PICK result \in Results : Answered(t, result)
      BY <1>6, ResultTypes DEF Connect, Services
    <3> QED
      BY <2>2, <3>1, AnswerMoves
  <2>7. SubscribeInv(t)'
    BY <2>2, <2>3, <2>5, <2>6 DEF SubscribeInv, Subscribing, Connected
  <2>8. \A u \in Threads \ {t} : SubscribeInv(u)'
    BY <2>1, <2>4 DEF Others, Unmoved, SubscribeInv, Subscribing
  <2>9. SocketHasGroup'
    BY <2>2, <2>3 DEF SocketHasGroup
  <2> QED
    BY <2>7, <2>8, <2>9 DEF SocketInv
<1>7. ASSUME NEW t \in Threads, Receive(t) PROVE SocketInv'
  <2>1. Others(t)
    BY <1>7, <1>d, ReceiveCalls
  <2>2. UNCHANGED <<group, misread, service>> /\ socket' \in {socket, 0} /\ at[t] = "receive"
    BY <1>7 DEF Receive
  <2>3. service[t] = "receive"
    BY <1>d, <2>2 DEF CallInv, StageInv
  <2>4. SubscribeInv(t)' /\ SocketHasGroup'
    BY <2>2, <2>3 DEF SubscribeInv, Subscribing, SocketInv, SocketHasGroup
  <2> QED
    BY <1>a, <2>1, <2>2, <2>4 DEF Others
<1>8. ASSUME NEW t \in Threads, Evaluate(t) PROVE SocketInv'
  <2> DEFINE good == Accepts(answer[t], conditions)
             goesOn == service[t] = "subscribe" /\ good
  <2>1. Others(t)
    BY <1>8, <1>d, EvaluateCalls
  <2>2. /\ socket' = socket /\ at[t] = "evaluate"
        /\ misread' = (misread \/ conditions # Conditions(service[t]))
        /\ goesOn => service' = [service EXCEPT ![t] = "connect"] /\ Step(t, "prepare")
        /\ ~goesOn => service' = service /\ Step(t, "idle")
        /\ service[t] = "connect" /\ ~good => group' = 0
        /\ ~goesOn /\ ~(service[t] = "connect" /\ ~good) => group' = group
    BY <1>8 DEF Evaluate
  <2>3. SubscribeInv(t) /\ SocketHasGroup /\ misread \in BOOLEAN
    BY DEF SocketInv, SharedType
  <2> HIDE DEF good
  <2>4. CASE goesOn
    <3>1. service'[t] = "connect" /\ at'[t] = "prepare"
      BY <2>2, <2>4, StepMoves DEF CallsType, Stages
    <3>2. "subscribe" \in Calls[t] /\ socket = 0
      BY <2>2, <2>3, <2>4 DEF SubscribeInv, Subscribing, Connected
    <3>3. SubscribeInv(t)' /\ SocketHasGroup'
      BY <2>2, <3>1, <3>2 DEF SubscribeInv, Subscribing, Connected, SocketHasGroup
    <3> QED
      BY <1>a, <2>1, <2>2, <3>3 DEF Others
  <2>5. CASE ~goesOn
    <3>1. service'[t] = service[t] /\ at'[t] = "idle"
      BY <2>2, <2>5, StepMoves DEF Stages
    <3>2. SubscribeInv(t)'
      BY <2>2, <2>3, <3>1 DEF SubscribeInv, Subscribing, Connected
    <3>3. ASSUME service[t] = "connect", ~good, socket # 0 PROVE misread'
      <4>1. Accepts(answer[t], Conditions("connect"))
        BY <2>2, <2>3, <3>3 DEF SubscribeInv, Subscribing, Connected
      <4>2. conditions # Conditions(service[t])
        BY <3>3, <4>1 DEF good
      <4> QED
        BY <2>2, <4>2
    <3>4. ~misread' => ~misread
      BY <2>2
    <3>5. SocketHasGroup'
      BY <2>2, <2>3, <2>5, <3>3, <3>4, Zenon DEF SocketHasGroup
    <3> QED
      BY <1>a, <2>1, <2>2, <3>2, <3>5 DEF Others
  <2> QED
    BY <2>4, <2>5
<1>9. ASSUME UNCHANGED <<socket, group, misread>>, UNCHANGED calls PROVE SocketInv'
  BY <1>9 DEF SocketInv, SocketHasGroup, SubscribeInv, Subscribing, Connected, calls
<1>10. ASSUME NEW n, EndSession(n) \/ EndGroup(n) PROVE SocketInv'
  BY <1>9, <1>10 DEF EndSession, EndGroup, client
<1>11. CASE UNCHANGED vars
  BY <1>9, <1>11 DEF vars, client, history
<1> QED
  BY <1>1, <1>2, <1>3, <1>4, <1>5, <1>6, <1>7, <1>8, <1>10, <1>11 DEF Next

----------------------------------------------------------------------------
(* The theorems                                                            *)

LEMMA InitHolds == Init => IInv
<1> SUFFICES ASSUME Init PROVE IInv
  OBVIOUS
<1>1. SharedType
  <2>1. conditions \in AllConditions
    BY DEF Init, AllConditions
  <2>2. /\ made = 0 /\ sessions = {} /\ cookie = 0 /\ issued = 0 /\ groups = {}
        /\ socket = 0 /\ group = 0 /\ failures = 0
    BY DEF Init
  <2>3. misread \in BOOLEAN
    BY DEF Init
  <2>4. 0 \in 0 .. MaxGroups /\ 0 \in 0 .. MaxFailures
    BY Assumptions
  <2> QED
    BY <2>1, <2>2, <2>3, <2>4 DEF SharedType
<1>2. CallsType
  BY ResultTypes DEF Init, CallsType, Services, HttpServices, Stages
<1>3. \A t \in Threads : CallInv(t)
  BY DEF Init, CallInv, RunsInv, StageInv, AnswerInv, Holds
<1>4. SessionInv
  BY DEF Init, SessionInv, Holds
<1> QED
  BY <1>1, <1>2, <1>3, <1>4 DEF IInv

\* The invariant, for any threads and services: what each stage of a call knows of
\* its request, and that sessions are lost by failures only.
THEOREM Invariance == Spec => []IInv
<1>1. IInv /\ [Next]_vars => IInv'
  BY CallsKept, SharedKept, SessionsKept DEF IInv
<1> QED
  BY InitHolds, <1>1, PTL DEF Spec

\* The types of the client, the calls and the controller.
THEOREM TypeCorrect == Spec => []TypeOK
<1>1. ASSUME IInv PROVE TypeOK
  <2>1. runs \in [Threads -> 0 .. 2] /\ errors \in [Threads -> 0 .. 2]
    <3>1. \A t \in Threads : runs[t] \in 0 .. 2 /\ errors[t] \in 0 .. 2
      BY <1>1 DEF IInv, CallsType, CallInv, RunsInv
    <3> QED
      BY <1>1, <3>1 DEF IInv, CallsType
  <2> QED
    BY <1>1, <2>1 DEF IInv, SharedType, CallsType, TypeOK, AllConditions
<1>2. IInv => TypeOK
  BY <1>1
<1> QED
  BY <1>2, Invariance, PTL

\* Success is never reported of a request that the controller did not carry out,
\* though any thread's conditions may be used to evaluate it.
THEOREM SuccessIsRealHolds == Spec => []SuccessIsReal
<1>1. IInv => SuccessIsReal
  BY DEF IInv, CallInv, AnswerInv, SuccessIsReal
<1> QED
  BY <1>1, Invariance, PTL

\* A request is carried out at most once more than it was answered by server errors:
\* the client never repeats one whose answer was lost.
THEOREM NotRepeatedHolds == Spec => []NotRepeated
<1>1. IInv => NotRepeated
  BY DEF IInv, CallInv, RunsInv, NotRepeated
<1> QED
  BY <1>1, Invariance, PTL

\* However many threads share the client, it makes at most one session more than
\* there were failures.
THEOREM SessionsAccountedHolds == Spec => []SessionsAccounted
<1>1. IInv => SessionsAccounted
  BY DEF IInv, SessionInv, SessionsAccounted
<1> QED
  BY <1>1, Invariance, PTL

\* As long as one thread starts subscriptions, whoever else uses the client, a web
\* socket is there only with the group that ends its subscription, unless a result
\* was evaluated by another call's conditions.
THEOREM SocketHasGroupHolds ==
  ASSUME OneSubscriber
  PROVE  Spec => []SocketHasGroup
<1>1. Init => SocketInv
  BY DEF Init, SocketInv, SubscribeInv, Subscribing, SocketHasGroup
<1>2. IInv /\ SocketInv /\ [Next]_vars => SocketInv'
  BY SocketKept
<1>3. SocketInv => SocketHasGroup
  BY DEF SocketInv
<1> QED
  BY Invariance, <1>1, <1>2, <1>3, PTL DEF Spec
=============================================================================
