-------------------------- MODULE EGMTrajectoryUser --------------------------
(***************************************************************************)
(* The trajectory motion with a record of the user's last word on whether  *)
(* the robot may move, and what the interface makes of it.  Left out is    *)
(* retrieveExecutionProgress, which only reads.                            *)
(***************************************************************************)
EXTENDS EGMTrajectoryOrder

\* History: "halt" after a stop, or a static goal finished without resuming,
\* "go" after a resume or an order that includes one; "unclear" for good once a session
\* changed while an order was still pending.
VARIABLE order

userVars == <<state, pending, events, active, updated, current, primary, temporary,
              external, internal, motion, passed, factor, sessions, issued, order>>

Nothing == {e \in DOMAIN NoEvents \ {"duration_factor"} : events[e]} = {}

UserInit == Init /\ order = "go"

Says(word) == order' = IF order = "unclear" THEN order ELSE word

UserNext ==
  \/ Loop /\ UNCHANGED order
  \/ /\ \E near \in SUBSET (1 .. MaxPoints) : SessionChange(near)
     /\ Says(IF Nothing THEN order ELSE "unclear")
  \/ \E t \in Trajectories : AddTrajectory(t) /\ UNCHANGED order
  \/ \E t \in Trajectories : OverrideTrajectories(t) /\ Says("go")
  \/ \E discard \in BOOLEAN : StopTrajectory(discard) /\ Says("halt")
  \/ ResumeTrajectory /\ Says("go")
  \/ \E f \in Factors : UpdateDurationFactor(f) /\ UNCHANGED order
  \/ \E discard \in BOOLEAN : StartStaticGoal(discard) /\ Says("go")
  \/ \E position, fast \in BOOLEAN : SetStaticGoal(position, fast) /\ Says("go")
  \/ \E resume \in BOOLEAN :
       FinishStaticGoal(resume) /\ Says(IF resume THEN "go" ELSE "halt")

UserSpec == UserInit /\ [][UserNext]_userVars

----------------------------------------------------------------------------
\* No order to go on gets lost: the interface waits for a resume order only
\* when the last word of the user was to halt.
WaitsOnlyWhenHalted ==
  (/\ state = "RampDownFinished" /\ pending = "none"
   /\ events.do_stop /\ ~events.do_resume) => order # "go"

\* The end of a standstill: a ramp down that stopped completely is left.
Departs ==
  /\ state' = "RampDownFinished" /\ motion.op = "stop"
  /\ pending' \in {"NormalRunning", "StaticNone"} /\ pending' # pending

\* After a halt the robot stands until it is told to go: "A resume normally
\* needs to be ordered for execution to start again", and finishStaticGoal's
\* "resume indicating if normal trajectory motion execution should be resumed
\* automatically".
HaltIsObeyed == [][ Departs => order # "halt" ]_userVars
=============================================================================
