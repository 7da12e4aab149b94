---------------------------- MODULE MCSmartGripper ----------------------------
(***************************************************************************)
(* Three requests: one that is handled, and two that meet in one spinOnce  *)
(* or come while a service runs.                                           *)
(***************************************************************************)
EXTENDS SmartGripper
==============================================================================
