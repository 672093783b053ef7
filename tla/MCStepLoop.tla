----------------------------- MODULE MCStepLoop -----------------------------
(***************************************************************************)
(* StepLoop on a small clock: a rate and a second that do not divide each  *)
(* other, so that every slice leaves a fraction of a microsecond behind    *)
(* and a slice of one instruction may cost none, and a timer that may      *)
(* answer a wait of zero.  The timers and the askers are not symmetric:    *)
(* liveness is checked of each.                                            *)
(***************************************************************************)
EXTENDS StepLoop
=============================================================================
