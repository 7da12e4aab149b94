----------------------------- MODULE MCRWSClient -----------------------------
(***************************************************************************)
(* A thread that makes requests and one that waits for events.             *)
(***************************************************************************)
EXTENDS RWSClient

MCCalls == [user |-> HttpServices, listener |-> {"receive"}]
=============================================================================
