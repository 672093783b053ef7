---------------------------- MODULE MCClockStart ----------------------------
(***************************************************************************)
(* ClockStart over every day the project may name, and the decade before.  *)
(***************************************************************************)
EXTENDS ClockStart
=============================================================================
