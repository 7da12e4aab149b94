----------------------------- MODULE RoutineCall -----------------------------
(***************************************************************************)
(* What the services of RWSStateMachineInterface promise that make the     *)
(* controller's state machine do something: however many requests it takes *)
(* and whichever of them fail, a call makes the program act at most once,  *)
(* with the values of this very call, and a call that reports success has  *)
(* made it act.                                                            *)
(***************************************************************************)
EXTENDS Sequences

CONSTANT Services       \* records with a field writes, a sequence of values for symbols

VARIABLES asked, busy, ran, result

callVars == <<asked, busy, ran, result>>

Values(writes) == [i \in DOMAIN writes |-> writes[i].value]

Init == asked \in Services /\ busy = FALSE /\ ran = <<>> /\ result \in BOOLEAN

Ask ==
  /\ ~busy /\ busy' = TRUE
  /\ asked' \in Services
  /\ ran' = <<>>
  /\ UNCHANGED result

\* The program acts on the values it finds.  When the answer to the request
\* that made it act is the last one waited for, and does not come, the call
\* has failed by the same step.
Run ==
  /\ busy /\ ran = <<>>
  /\ ran' = <<Values(asked.writes)>>
  /\ \/ UNCHANGED <<busy, result>>
     \/ busy' = FALSE /\ result' = FALSE
  /\ UNCHANGED asked

\* A failure may be reported of a call that did make the program act.
Answer ==
  /\ busy /\ busy' = FALSE
  /\ result' \in BOOLEAN
  /\ result' => ran # <<>>
  /\ UNCHANGED <<asked, ran>>

Next == Ask \/ Run \/ Answer

Spec == Init /\ [][Next]_callVars
=============================================================================
