------------------------------ MODULE MCUserBus ------------------------------
(***************************************************************************)
(* UserBus with two address spaces, a bus of the null page and two pages   *)
(* that can be mapped, two bytes each, and two host pages to share.        *)
(***************************************************************************)
EXTENDS UserBus, TLC

Symmetry == Permutations(HOSTS)
=============================================================================
