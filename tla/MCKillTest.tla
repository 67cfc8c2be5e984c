------------------------------ MODULE MCKillTest ------------------------------
(***************************************************************************)
(* An instance of KillTest for TLC: a second is two ticks, and the run     *)
(* begins half a second into one, shortly before midnight.                 *)
(***************************************************************************)
EXTENDS KillTest

MCT0 == 2 * Day - 3
=============================================================================
