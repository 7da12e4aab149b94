---------------------------- MODULE MCRWSRoutines ----------------------------
(***************************************************************************)
(* A small instance of RWSRoutines for TLC: calls that share inputs and    *)
(* leave some alone, on three signals.                                     *)
(***************************************************************************)
EXTENDS RWSRoutines

MCServices ==
  { DualCommand("SG_COMMAND_GRIP_IN"), LeftMoveTo("p"), RightCommand("SG_COMMAND_GRIP_IN"),
    Initialize("T_ROB_L"), RunCallByVar("T_ROB", "proc", "1"),
    SignalOnly("EGM_STOP") }
=============================================================================
