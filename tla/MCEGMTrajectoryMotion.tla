----------------------- MODULE MCEGMTrajectoryMotion -----------------------
(***************************************************************************)
(* Small instances of EGMTrajectoryMotion for TLC.                         *)
(***************************************************************************)
EXTENDS EGMTrajectoryMotion

Point(reach, dur) == [reach |-> reach, dur |-> dur]

\* Two points of which the first may be skipped, and a point that takes no time.
MCTrajectories ==
  { <<Point(TRUE, 2), Point(FALSE, 1)>>, <<Point(FALSE, 0)>> }
MCShort == { <<Point(TRUE, 1), Point(FALSE, 1)>>, <<>> }
============================================================================
