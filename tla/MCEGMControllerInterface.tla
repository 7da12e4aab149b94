---------------------- MODULE MCEGMControllerInterface ----------------------
(***************************************************************************)
(* Small instances of EGMControllerInterface for TLC.  The configuration an *)
(* interface starts with is among the ones it can be given later.           *)
(***************************************************************************)
EXTENDS EGMControllerInterface

MCSevenDemo == { [axes |-> "Six", demo |-> FALSE], [axes |-> "Seven", demo |-> TRUE] }
=============================================================================
