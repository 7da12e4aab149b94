----------------------------- MODULE MCAbbDriver -----------------------------
(***************************************************************************)
(* Small instances of AbbDriver for TLC.  Mode 7 is one nobody implements. *)
(***************************************************************************)
EXTENDS AbbDriver

MCModes == {0, 1, 2, 7}
==============================================================================
