------------------------------- MODULE MCBoot -------------------------------
(***************************************************************************)
(* Boot with one of the phone's applications, whose UID is the lowest, an  *)
(* installer whose UID is below the games', and the loop's frames scaled   *)
(* down: two keys of two frames each, and some frames to wait before,      *)
(* between and after them.                                                 *)
(***************************************************************************)
EXTENDS Boot
=============================================================================
