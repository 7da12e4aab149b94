------------------------------ MODULE RWSClient ------------------------------
(***************************************************************************)
(* RWSClient on top of POCOClient: requests to the controller with their   *)
(* cookies, second attempts and authentication, the evaluation of what     *)
(* comes back, and subscriptions with their web socket.  Threads share the *)
(* client: http_mutex_ and websocket_mutex_ guard the exchanges, but not   *)
(* the conditions by which the results are evaluated.                      *)
(***************************************************************************)
EXTENDS Integers, FiniteSets

CONSTANTS
  Threads,      \* that use the client
  Calls,        \* the services each of them uses
  MaxFailures,  \* bound on lost connections, server errors and sessions ended
  MaxGroups     \* bound on subscription groups

\* The services of one accepted outcome and their kin, by what is accepted
\* and whether the message is parsed.
Conditions(service) ==
  CASE service \in {"get", "receive", "logout"} -> [accepted |-> {"OK"}, parse |-> TRUE]
    [] service \in {"download", "unsubscribe"} -> [accepted |-> {"OK"}, parse |-> FALSE]
    [] service = "set" -> [accepted |-> {"NO_CONTENT"}, parse |-> FALSE]
    [] service = "upload" -> [accepted |-> {"OK", "CREATED"}, parse |-> FALSE]
    [] service = "delete" -> [accepted |-> {"OK", "NO_CONTENT"}, parse |-> FALSE]
    [] service = "subscribe" -> [accepted |-> {"CREATED"}, parse |-> FALSE]
    [] service = "connect" -> [accepted |-> {"SWITCHING_PROTOCOLS"}, parse |-> FALSE]

NoConditions == [accepted |-> {}, parse |-> FALSE]

HttpServices == {"get", "set", "upload", "delete", "download", "subscribe", "unsubscribe", "logout"}
Services == HttpServices \cup {"connect", "receive"}

ASSUME Assumptions ==
  /\ Calls \in [Threads -> SUBSET (Services \ {"connect"})]
  /\ MaxFailures \in Nat /\ MaxGroups \in Nat

VARIABLES
  \* The controller.
  sessions,    \* the RWS sessions that are alive
  groups,      \* the subscription groups that are alive
  made, issued,\* the numbers of sessions and of groups made
  \* The client.
  cookie,      \* the session of cookies_, 0 for none
  socket,      \* the group p_websocket_ receives from, 0 for null
  group,       \* subscription_group_id_, 0 when empty
  conditions,  \* evaluation_conditions_
  \* Each thread's call.
  service, at, answer, success,
  \* History.
  runs,        \* how often the controller carried out the request of the call
  errors,      \* the number of server errors the call was answered with
  failures,    \* of connections and of the server, and sessions ended, so far
  misread      \* a result has been evaluated by another call's conditions

controller == <<sessions, groups, made, issued>>
client == <<cookie, socket, group, conditions>>
calls == <<service, at, answer, success>>
history == <<runs, errors, failures, misread>>
vars == <<controller, client, calls, history>>

\* POCOResult: its general status, and what is there of a response.
Result(general, status, content) ==
  [general |-> general, status |-> status, content |-> content]
Exception(status) == Result("EXCEPTION", status, FALSE)
NoResult == Result("UNKNOWN", "OK", FALSE)
ServerError == Result("OK", "INTERNAL_SERVER_ERROR", FALSE)
Refused == Result("OK", "FORBIDDEN", FALSE)
\* How the controller answers what it has carried out.
Done(s) ==
  {Result("OK", status, Conditions(s).parse \/ s = "download") : status \in Conditions(s).accepted}

Results == [general : {"UNKNOWN", "OK", "EXCEPTION"}, content : BOOLEAN,
            status : {"OK", "NO_CONTENT", "CREATED", "SWITCHING_PROTOCOLS",
                      "INTERNAL_SERVER_ERROR", "UNAUTHORIZED", "FORBIDDEN"}]
Stages == {"idle", "prepare", "exchange", "again", "authenticate", "receive", "evaluate"}

TypeOK ==
  /\ sessions \subseteq 1 .. made /\ made \in Nat
  /\ groups \subseteq 1 .. issued /\ issued \in 0 .. MaxGroups
  /\ cookie \in 0 .. made /\ socket \in 0 .. issued /\ group \in 0 .. issued
  /\ conditions \in {Conditions(s) : s \in Services} \cup {NoConditions}
  /\ service \in [Threads -> Services] /\ at \in [Threads -> Stages]
  /\ answer \in [Threads -> Results] /\ success \in [Threads -> BOOLEAN]
  /\ runs \in [Threads -> 0 .. 2] /\ errors \in [Threads -> 0 .. 2]
  /\ failures \in 0 .. MaxFailures /\ misread \in BOOLEAN

Init ==
  /\ sessions = {} /\ groups = {} /\ made = 0 /\ issued = 0
  /\ cookie = 0 /\ socket = 0 /\ group = 0 /\ conditions = NoConditions
  /\ service \in [Threads -> {"get"}] /\ at = [t \in Threads |-> "idle"]
  /\ answer = [t \in Threads |-> NoResult] /\ success = [t \in Threads |-> FALSE]
  /\ runs = [t \in Threads |-> 0] /\ errors = [t \in Threads |-> 0]
  /\ failures = 0 /\ misread = FALSE

----------------------------------------------------------------------------
Step(t, stage) == at' = [at EXCEPT ![t] = stage]

\* getFile alone sets its conditions after the exchange.
Answered(t, result) ==
  /\ answer' = [answer EXCEPT ![t] = result]
  /\ Step(t, IF service[t] = "download" THEN "prepare" ELSE "evaluate")

Fail == failures < MaxFailures /\ failures' = failures + 1

\* What the controller does with a request it accepts: it is carried out at
\* most once each time it arrives.
CarryOut(t) ==
  /\ runs' = [runs EXCEPT ![t] = @ + 1]
  /\ CASE service[t] = "subscribe" ->
            /\ issued < MaxGroups /\ issued' = issued + 1
            /\ groups' = groups \cup {issued + 1}
       [] service[t] = "unsubscribe" -> groups' = groups \ {group} /\ UNCHANGED issued
       [] OTHER -> UNCHANGED <<groups, issued>>
CarryOutOrNot(t) == CarryOut(t) \/ UNCHANGED <<runs, groups, issued>>

\* Mutant: a second attempt after any failure.
ThrowAndRetry(t, status) ==
  /\ Fail
  /\ cookie' = 0
  /\ answer' = [answer EXCEPT ![t] = Exception(status)]
  /\ Step(t, IF at[t] = "exchange" THEN "again" ELSE "evaluate")

\* The exchange ends in an exception of POCO: cookies_ is cleared.
Throw(t, status) ==
  /\ Fail
  /\ cookie' = 0
  /\ Answered(t, Exception(status))

CountError(t) == errors' = [errors EXCEPT ![t] = @ + 1]

----------------------------------------------------------------------------
\* Mutant: a subscription is started over another one.
StartRegardless(t, s) ==
  /\ at[t] = "idle"
  /\ service' = [service EXCEPT ![t] = s]
  /\ answer' = [answer EXCEPT ![t] = NoResult]
  /\ success' = [success EXCEPT ![t] = FALSE]
  /\ runs' = [runs EXCEPT ![t] = 0] /\ errors' = [errors EXCEPT ![t] = 0]
  /\ Step(t, CASE s = "download" -> "exchange"
               [] s = "unsubscribe" /\ (socket = 0 \/ group = 0) -> "idle"
               [] OTHER -> "prepare")
  /\ UNCHANGED <<controller, client, failures, misread>>

\* A service is called.  startSubscription and endSubscription first look
\* whether there is a web socket.
Start(t, s) ==
  /\ at[t] = "idle"
  /\ service' = [service EXCEPT ![t] = s]
  /\ answer' = [answer EXCEPT ![t] = NoResult]
  /\ success' = [success EXCEPT ![t] = FALSE]
  /\ runs' = [runs EXCEPT ![t] = 0] /\ errors' = [errors EXCEPT ![t] = 0]
  /\ Step(t, CASE s = "download" -> "exchange"
               [] s = "subscribe" /\ socket # 0 -> "idle"
               [] s = "unsubscribe" /\ (socket = 0 \/ group = 0) -> "idle"
               [] OTHER -> "prepare")
  /\ UNCHANGED <<controller, client, failures, misread>>

\* evaluation_conditions_ is set for the call.
Prepare(t) ==
  /\ at[t] = "prepare"
  /\ conditions' = Conditions(service[t])
  /\ Step(t, CASE service[t] = "download" -> "evaluate"
               [] service[t] = "receive" -> "receive"
               [] OTHER -> "exchange")
  /\ UNCHANGED <<controller, cookie, socket, group, service, answer, success, history>>

HttpFree == \A t \in Threads : at[t] \notin {"again", "authenticate"}

\* makeHTTPRequest, the first attempt.  It may also fail because a waiting
\* thread resets the HTTP session in its middle, without the mutex.
FirstAttempt(t) ==
  /\ at[t] = "exchange" /\ service[t] \in HttpServices /\ HttpFree
  /\ IF cookie \notin sessions
     THEN \/ Step(t, "authenticate")
             /\ UNCHANGED <<groups, issued, sessions, cookie, answer, runs, errors, failures>>
          \/ /\ CountError(t) /\ Fail /\ Step(t, "again")
             /\ UNCHANGED <<groups, issued, sessions, cookie, answer, runs>>
          \/ Throw(t, "OK") /\ UNCHANGED <<groups, issued, sessions, runs, errors>>
     ELSE \/ \E result \in Done(service[t]) :
               /\ CarryOut(t) /\ Answered(t, result)
               /\ sessions' = IF service[t] = "logout" THEN sessions \ {cookie} ELSE sessions
               /\ IF service[t] = "logout" THEN Fail ELSE UNCHANGED failures
               /\ UNCHANGED <<cookie, errors>>
          \/ Answered(t, Refused)
             /\ UNCHANGED <<groups, issued, sessions, cookie, runs, errors, failures>>
          \/ /\ CarryOutOrNot(t) /\ CountError(t) /\ Fail /\ Step(t, "again")
             /\ UNCHANGED <<sessions, cookie, answer>>
          \/ CarryOutOrNot(t) /\ Throw(t, "OK") /\ UNCHANGED <<sessions, errors>>
  /\ UNCHANGED <<made, socket, group, conditions, service, success, misread>>

\* After a server error the request is sent once more, without cookies and
\* so without a session.
SecondAttempt(t) ==
  /\ at[t] = "again"
  /\ \/ Step(t, "authenticate") /\ UNCHANGED <<cookie, answer, errors, failures>>
     \/ CountError(t) /\ Fail /\ Answered(t, ServerError) /\ UNCHANGED cookie
     \/ Throw(t, "INTERNAL_SERVER_ERROR") /\ UNCHANGED errors
  /\ UNCHANGED <<controller, socket, group, conditions, service, success, runs, misread>>

\* Mutant: the cookies of the answer are not kept.
AuthenticateCookieless(t) ==
  /\ at[t] = "authenticate"
  /\ made' = made + 1 /\ cookie' = 0 /\ sessions' = sessions \cup {made + 1}
  /\ \E result \in Done(service[t]) : CarryOut(t) /\ Answered(t, result)
  /\ UNCHANGED <<socket, group, conditions, service, success, errors, failures, misread>>

\* authenticate: the request is sent with the credentials, and its answer
\* has the cookie of a new session, unless the controller has no room for one
\* or the answer is lost.
Authenticate(t) ==
  /\ at[t] = "authenticate"
  /\ \/ /\ made' = made + 1 /\ cookie' = made + 1
        /\ \/ \E result \in Done(service[t]) :
                /\ CarryOut(t) /\ Answered(t, result)
                /\ sessions' = IF service[t] = "logout" THEN sessions ELSE sessions \cup {made + 1}
                /\ IF service[t] = "logout" THEN Fail ELSE UNCHANGED failures
                /\ UNCHANGED errors
           \/ /\ Answered(t, Refused) /\ sessions' = sessions \cup {made + 1}
              /\ UNCHANGED <<groups, issued, runs, errors, failures>>
           \/ /\ CarryOutOrNot(t) /\ CountError(t) /\ Fail /\ Answered(t, ServerError)
              /\ sessions' = sessions \cup {made + 1}
     \/ /\ CountError(t) /\ Fail /\ Answered(t, ServerError)
        /\ cookie' = 0
        /\ UNCHANGED <<groups, issued, sessions, made, runs>>
     \/ /\ Throw(t, "UNAUTHORIZED")
        /\ CarryOutOrNot(t)
        /\ \/ made' = made + 1 /\ sessions' = sessions \cup {made + 1}
           \/ UNCHANGED <<made, sessions>>
        /\ UNCHANGED errors
  /\ UNCHANGED <<socket, group, conditions, service, success, misread>>

\* webSocketConnect, to the group of the subscription just made.
Connect(t) ==
  /\ at[t] = "exchange" /\ service[t] = "connect" /\ HttpFree
  /\ \/ /\ cookie \in sessions /\ group \in groups
        /\ socket' = group
        /\ \E result \in Done("connect") : Answered(t, result)
        /\ runs' = [runs EXCEPT ![t] = 1]
        /\ UNCHANGED failures
     \/ Fail /\ Answered(t, Exception("OK")) /\ UNCHANGED <<socket, runs>>
     \/ /\ cookie \notin sessions
        /\ Answered(t, Exception("OK")) /\ UNCHANGED <<socket, runs, failures>>
  /\ UNCHANGED <<controller, cookie, group, conditions, service, success, errors, misread>>

\* webSocketRecieveFrame: a frame with an event, the closing frame of a group
\* that has ended, a timeout, or a connection that is lost, which leaves the
\* socket where it is.
Receive(t) ==
  /\ at[t] = "receive"
  /\ \/ /\ socket \in groups
        /\ Answered(t, Result("OK", "OK", TRUE)) /\ runs' = [runs EXCEPT ![t] = 1]
        /\ UNCHANGED <<socket, failures>>
     \/ /\ socket # 0 /\ socket \notin groups
        /\ socket' = 0
        /\ Answered(t, Result("OK", "OK", FALSE)) /\ UNCHANGED <<runs, failures>>
     \/ socket # 0 /\ Answered(t, Exception("OK")) /\ UNCHANGED <<socket, runs, failures>>
     \/ socket = 0 /\ Answered(t, NoResult) /\ UNCHANGED <<socket, runs, failures>>
  /\ UNCHANGED <<controller, cookie, group, conditions, service, success, errors, misread>>

\* Mutant: the general status is not looked at.
AcceptsAnyStatus(result, c) ==
  result.status \in c.accepted /\ (c.parse => result.content)

\* checkAcceptedOutcomes, and parseMessage, which needs a message.
Accepts(result, c) ==
  /\ result.general = "OK" /\ result.status \in c.accepted
  /\ c.parse => result.content

\* evaluatePOCOResult, by the conditions as they are now.  startSubscription
\* goes on to connect the web socket, or forgets the group.
Evaluate(t) ==
  /\ at[t] = "evaluate"
  /\ LET good == Accepts(answer[t], conditions)
         goesOn == service[t] = "subscribe" /\ good
     IN /\ success' = [success EXCEPT ![t] = good]
        /\ misread' = (misread \/ conditions # Conditions(service[t]))
        /\ group' = CASE goesOn -> issued
                      [] service[t] = "connect" /\ ~good -> 0
                      [] OTHER -> group
        /\ service' = IF goesOn THEN [service EXCEPT ![t] = "connect"] ELSE service
        /\ runs' = IF goesOn THEN [runs EXCEPT ![t] = 0] ELSE runs
        /\ Step(t, IF goesOn THEN "prepare" ELSE "idle")
  /\ UNCHANGED <<controller, cookie, socket, conditions, answer, errors, failures>>

\* External: the controller ends a session nobody uses, or a group.
EndSession(s) ==
  /\ s \in sessions /\ sessions' = sessions \ {s} /\ Fail
  /\ UNCHANGED <<groups, made, issued, client, calls, runs, errors, misread>>
EndGroup(g) ==
  /\ g \in groups /\ groups' = groups \ {g} /\ Fail
  /\ UNCHANGED <<sessions, made, issued, client, calls, runs, errors, misread>>

Next ==
  \/ \E t \in Threads :
       \/ \E s \in Calls[t] : Start(t, s)
       \/ Prepare(t) \/ FirstAttempt(t) \/ SecondAttempt(t) \/ Authenticate(t)
       \/ Connect(t) \/ Receive(t) \/ Evaluate(t)
  \/ (\E s \in sessions : EndSession(s)) \/ (\E g \in groups : EndGroup(g))

Spec == Init /\ [][Next]_vars

----------------------------------------------------------------------------
\* A request that reports success has been carried out by the controller,
\* whoever else uses the client and whatever the conditions are by then.
SuccessIsReal ==
  \A t \in Threads :
    at[t] = "idle" /\ success[t] /\ service[t] # "receive" => runs[t] >= 1

\* A request is repeated only when the controller has answered it by a server
\* error: a lost answer is never followed by a second request.
NotRepeated ==
  \A t \in Threads : runs[t] <= 1 + errors[t]

\* The client makes a new session only if the last one was lost: sessions do
\* not pile up on the controller while connections work.
SessionsAccounted == made <= 1 + failures

\* Whenever there is a web socket its group is known, so that the
\* subscription can be ended, unless a result was misread.
SocketHasGroup == socket # 0 /\ ~misread => group = socket
=============================================================================
