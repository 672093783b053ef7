------------------------------ MODULE MCMemFs ------------------------------
(***************************************************************************)
(* Values for MemFs.  Names are few and a path at most two or three of     *)
(* them, which is what a rename onto a name above, below or beside its own *)
(* needs.  A file has one byte or none, which tells two of them apart.     *)
(***************************************************************************)
EXTENDS MemFs

CONSTANTS c, a, b

\* Two directories moved to one, as \system\libs and \system\programs are.
LibsAndPrograms == {<<a, a>>, <<a, b>>}
SysBin == [m \in LibsAndPrograms |-> <<b, a>>]

WriteOnly == {{WRITE}}

NoFiles == << >>
=============================================================================
