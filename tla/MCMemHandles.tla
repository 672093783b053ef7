---------------------------- MODULE MCMemHandles ----------------------------
(***************************************************************************)
(* Values for MemHandles: two names on two drives, one of them a package   *)
(* cut short anywhere.                                                     *)
(***************************************************************************)
EXTENDS MemHandles

CONSTANTS c, z, a, b

NoneMoved == {}
Nowhere == << >>

Modes == {{READ}, {WRITE, APPEND}}

OneFile == << [path |-> <<a>>, size |-> 1] >>

\* Directories, and files that carry UIDs.
AllWithUids == {[dirs |-> TRUE, files |-> TRUE, uid |-> TRUE]}
BackAndForth == {-1, 0, 1}
=============================================================================
