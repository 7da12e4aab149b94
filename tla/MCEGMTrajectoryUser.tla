------------------------ MODULE MCEGMTrajectoryUser ------------------------
(***************************************************************************)
(* Small instances of EGMTrajectoryUser for TLC.                           *)
(***************************************************************************)
EXTENDS EGMTrajectoryUser

Point(reach, dur) == [reach |-> reach, dur |-> dur]

\* Two points of which the first may be skipped, and a point that takes no time.
MCTrajectories ==
  { <<Point(TRUE, 1), Point(FALSE, 1)>>, <<Point(FALSE, 0)>> }
MCOnePoint == { <<Point(FALSE, 1)>> }
=============================================================================
