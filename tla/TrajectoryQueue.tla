--------------------------- MODULE TrajectoryQueue ---------------------------
(***************************************************************************)
(* What the trajectory interface promises of the trajectories it is given  *)
(* ("Queuing ordered trajectories, and follow them in order").  They are   *)
(* followed first in, first out, point by point.  A point leaves the queue *)
(* in four ways only: its time is over while it is being executed; it is   *)
(* skipped, which takes a reach condition; it is discarded at a standstill *)
(* after a discard was ordered; it is lost with the session.  A halt keeps *)
(* the point in execution in front.                                        *)
(*                                                                         *)
(* A session that starts anew may execute the point it interrupted again,  *)
(* and once more if it was interrupted already; apart from that a point is *)
(* executed at most once.                                                  *)
(***************************************************************************)
EXTENDS Naturals, Sequences

CONSTANT MaxPoints    \* bound: points ordered in a behaviour

VARIABLES
  queue,       \* the trajectories to follow, each with the points that are left
  buffer,      \* the trajectories that wait for a discard
  discarding,  \* a discard is ordered
  status,      \* idle without a session, running, or halted
  moving,      \* the first point of the queue is being executed
  over,        \* and its time is over
  sessions,    \* sessions begun so far
  issued       \* points ordered so far, numbered in the order they come

vars == <<queue, buffer, discarding, status, moving, over, sessions, issued>>

Init ==
  /\ queue = <<>> /\ buffer = <<>>
  /\ ~discarding /\ status = "idle"
  /\ ~moving /\ ~over
  /\ sessions = 0 /\ issued = 0

-----------------------------------------------------------------------------
(* What is ordered while the motion runs.                                  *)

\* The reach conditions of the points of a trajectory.
Orders == UNION {[1 .. n -> BOOLEAN] : n \in 0 .. MaxPoints}
Fresh(t) == [i \in DOMAIN t |-> [id |-> issued + i, reach |-> t[i]]]

\* An empty trajectory has a number of its own.
Issue(t) == issued' = IF t = <<>> THEN issued + 1 ELSE issued + Len(t)

Add(t) ==
  /\ status = "running"
  /\ Issue(t)
  /\ IF discarding THEN buffer' = Append(buffer, Fresh(t)) /\ UNCHANGED queue
                   ELSE queue' = Append(queue, Fresh(t)) /\ UNCHANGED buffer
  /\ UNCHANGED <<discarding, status, moving, over, sessions>>

Override(t) ==
  /\ status = "running"
  /\ Issue(t)
  /\ buffer' = <<Fresh(t)>>
  /\ discarding' = TRUE
  /\ UNCHANGED <<queue, status, moving, over, sessions>>

SetDiscard ==
  /\ status = "running"
  /\ discarding' \in BOOLEAN
  /\ UNCHANGED <<queue, buffer, status, moving, over, sessions, issued>>

-----------------------------------------------------------------------------
(* How the trajectories of q are followed.                                 *)

Still == ~moving' /\ ~over'

\* With the first point, or a later one if the first has a reach condition and so
\* may be skipped together with those behind it.
Begins(q) ==
  /\ q # <<>>
  /\ \E k \in DOMAIN Head(q) :
       /\ k = 1 \/ Head(q)[1].reach
       /\ queue' = <<SubSeq(Head(q), k, Len(Head(q)))>> \o Tail(q)
  /\ moving' /\ over' \in BOOLEAN

\* A trajectory ends when nothing of it is left, or all of it is skipped.
Ends(q) ==
  /\ q # <<>>
  /\ Head(q) = <<>> \/ Head(q)[1].reach
  /\ queue' = Tail(q)
  /\ Still

Execute(q) == Begins(q) \/ Ends(q)

Wake ==
  /\ status = "idle" /\ status' = "running"
  /\ UNCHANGED <<queue, buffer, discarding, moving, over, sessions, issued>>

NextTrajectory ==
  /\ status \in {"idle", "running"} /\ status' = "running"
  /\ ~moving
  /\ Execute(queue)
  /\ UNCHANGED <<buffer, discarding, sessions, issued>>

Elapse ==
  /\ moving /\ over'
  /\ UNCHANGED <<queue, buffer, discarding, status, moving, sessions, issued>>

NextPoint ==
  /\ status = "running"
  /\ moving /\ over
  /\ Execute(<<Tail(Head(queue))>> \o Tail(queue))
  /\ UNCHANGED <<buffer, discarding, status, sessions, issued>>

-----------------------------------------------------------------------------
(* Interruptions.                                                          *)

Halt ==
  /\ status = "running" /\ status' = "halted"
  /\ Still
  /\ UNCHANGED <<queue, buffer, discarding, sessions, issued>>

Resume ==
  /\ status = "halted" /\ status' = "running"
  /\ Execute(queue) \/ (Still /\ UNCHANGED queue)
  /\ UNCHANGED <<buffer, discarding, sessions, issued>>

Discard ==
  /\ discarding /\ status = "halted"
  /\ queue' = buffer /\ buffer' = <<>>
  /\ discarding' = FALSE
  /\ status' \in {"halted", "running"}
  /\ Still
  /\ UNCHANGED <<sessions, issued>>

\* A new session follows the queue it finds.
FollowAnew(q) == Execute(q) \/ (Still /\ queue' = q)
FirstTwice(q) == << <<q[1][1]>> \o q[1] >> \o Tail(q)
Restart ==
  /\ sessions' = sessions + 1
  /\ \/ FollowAnew(queue)
     \/ /\ status = "halted" /\ queue # <<>> /\ queue[1] # <<>>
        /\ FollowAnew(FirstTwice(queue))
  /\ status' \in {"idle", "running"}
  /\ UNCHANGED <<buffer, discarding, issued>>

Lose ==
  /\ status' = "idle"
  /\ queue' = <<>> /\ buffer' = <<>>
  /\ Still
  /\ UNCHANGED <<discarding, sessions, issued>>

Next ==
  \/ Wake \/ NextTrajectory \/ Elapse \/ NextPoint
  \/ Halt \/ Resume \/ Discard
  \/ Restart \/ Lose
  \/ SetDiscard
  \/ \E t \in Orders : Add(t) \/ Override(t)

Spec == Init /\ [][Next]_vars
=============================================================================
