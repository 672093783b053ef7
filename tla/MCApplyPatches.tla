--------------------------- MODULE MCApplyPatches ---------------------------
(***************************************************************************)
(* ApplyPatches with three files: two patches to one place, each touching  *)
(* a file of its own too, and a third patch to a file of its own.          *)
(***************************************************************************)
EXTENDS ApplyPatches

CONSTANTS clock, timer, gl, f1, f2, f3

MCFiles == {f1, f2, f3}
MCFilesOf ==
    [p \in {clock, timer, gl} |->
        IF p = clock THEN {f1, f2} ELSE IF p = timer THEN {f2, f3} ELSE {f3}]
MCNeeds ==
    [p \in {clock, timer, gl} |-> IF p = timer THEN {clock} ELSE {}]
\* The last is one that does not apply in order.
MCSeries == {<<clock, timer>>, <<clock, timer, gl>>, <<clock>>, <<gl, timer, clock>>}
=============================================================================
