----------------------------- MODULE ApplyPatches -----------------------------
(***************************************************************************)
(* apply-patches.sh: every build runs it over the emulator's working tree, *)
(* which may not be there, or carry the series, a part of it, somebody's   *)
(* edits, or what an interrupted run has left.                             *)
(*                                                                         *)
(* A file is the sequence of what has changed it since the submodule's     *)
(* HEAD, so <<>> is HEAD's version (or, of a file the series creates, that *)
(* it is not there).  External: git apply, which writes file after file    *)
(* once the whole patch is known to fit; and the people who edit the tree  *)
(* and move the repository to other series between runs.                   *)
(***************************************************************************)
EXTENDS Integers, Sequences, FiniteSets, SequencesExt

CONSTANTS
    FILES,
    FilesOf,  \* the files a patch touches, for each patch
    Needs,    \* the patches a patch is a change to the result of
    SERIES,   \* the series the repository may come with
    EDIT      \* a change that no patch makes

PATCHES == DOMAIN FilesOf

ASSUME PatchesAssumption ==
    /\ FilesOf \in [PATCHES -> (SUBSET FILES) \ {{}}]
    /\ Needs \in [PATCHES -> SUBSET PATCHES]
    /\ SERIES \subseteq Seq(PATCHES) \ {<<>>}
    /\ \A s \in SERIES : IsInjective(s)
    /\ EDIT \notin PATCHES

VARIABLES
    series,  \* patches/*.patch, in order
    checked_out, \* the submodule is: a tree of its own
    tree,    \* the working tree, or what it will be
    pc,      \* "idle", or "applying" the series to the tree
    patch,   \* how many patches have been given to git apply
    left,    \* the files the patch has yet to be written to
    result   \* how the last run ended, while nobody has touched anything

patchVars == <<series, checked_out, tree, pc, patch, left, result>>

Good == {"applied", "already"}
Refusals == {"absent", "broken", "partly", "failed"}

PatchInit ==
    /\ series \in SERIES
    /\ checked_out \in BOOLEAN
    /\ tree = [f \in FILES |-> <<>>]
    /\ pc = "idle"
    /\ patch = 0 /\ left = {}
    /\ result = "none"

-----------------------------------------------------------------------------
(* What happens to the tree between runs.                                  *)

Touch ==
    /\ pc = "idle"
    /\ result' = "none"
    /\ UNCHANGED <<pc, patch, left>>

\* git submodule update --init, or deinit: what comes is HEAD's.
CheckOut ==
    /\ Touch
    /\ checked_out' = ~checked_out
    /\ tree' = [f \in FILES |-> <<>>]
    /\ UNCHANGED series

Edit(f) ==
    /\ Touch
    /\ checked_out
    /\ EDIT \notin ToSet(tree[f])
    /\ tree' = [tree EXCEPT ![f] = Append(@, EDIT)]
    /\ UNCHANGED <<series, checked_out>>

\* git checkout -- f, and what the script says to do when it refuses.
Revert(fs) ==
    /\ Touch
    /\ checked_out
    /\ tree' = [f \in FILES |-> IF f \in fs THEN <<>> ELSE tree[f]]
    /\ UNCHANGED <<series, checked_out>>

Pull(s) ==
    /\ Touch
    /\ series' = s
    /\ UNCHANGED <<checked_out, tree>>

-----------------------------------------------------------------------------
(* The script: what it finds out before it changes anything.               *)

Touched == UNION {FilesOf[p] : p \in ToSet(series)}

\* A patch fits a tree whose files have what it is a change to, not itself.
Fits(p, t) ==
    \A f \in FilesOf[p] :
        /\ p \notin ToSet(t[f])
        /\ \A q \in Needs[p] : f \in FilesOf[q] => q \in ToSet(t[f])

\* Variant of LeftBy: a patch at a time, the last is the one to look for.
LeftByLast(s, n, f) ==
    LET by[i \in 0 .. Len(s)] ==
            IF i = 0 THEN <<>>
            ELSE IF f \in FilesOf[s[i]] THEN <<s[i]>> ELSE by[i - 1]
    IN  by[n]

\* What the first patches of a series leave of HEAD's version of a file.
LeftBy(s, n, f) ==
    LET by[i \in 0 .. Len(s)] ==
            IF i = 0 THEN <<>>
            ELSE IF f \in FilesOf[s[i]] THEN Append(by[i - 1], s[i])
            ELSE by[i - 1]
    IN  by[n]

\* The series, tried in order on a scratch copy of HEAD's files.
Applies(s) ==
    \A i \in 1 .. Len(s) : Fits(s[i], [f \in FILES |-> LeftBy(s, i - 1, f)])

\* Variant of Pristine: no patch has been applied to it.
PristineUnpatched ==
    \A f \in Touched : ToSet(tree[f]) \cap ToSet(series) = {}

Pristine == \A f \in Touched : tree[f] = <<>>

\* Variant of Wrong: "one file holds a marker".
WrongByMarker ==
    IF \E f \in Touched : tree[f] = LeftBy(series, Len(series), f) THEN {}
    ELSE Touched

\* The files a tree that is not pristine has otherwise than the series.
Wrong == {f \in Touched : tree[f] # LeftBy(series, Len(series), f)}

RunEnds(how) ==
    /\ pc' = "idle" /\ patch' = 0 /\ left' = {}
    /\ result' = how

Run ==
    /\ pc = "idle"
    /\ UNCHANGED <<series, checked_out, tree>>

IsNotCheckedOut == Run /\ ~checked_out /\ RunEnds("absent")

SeriesIsBroken == Run /\ checked_out /\ ~Applies(series) /\ RunEnds("broken")

BeginApplying ==
    /\ Run /\ checked_out
    /\ Applies(series)
    /\ Pristine
    /\ pc' = "applying" /\ patch' = 0 /\ left' = {}
    /\ result' = "none"

AlreadyApplied ==
    /\ Run /\ checked_out
    /\ Applies(series) /\ ~Pristine
    /\ Wrong = {}
    /\ RunEnds("already")

PartlyPatched ==
    /\ Run /\ checked_out
    /\ Applies(series) /\ ~Pristine
    /\ Wrong # {}
    /\ RunEnds("partly")

-----------------------------------------------------------------------------
(* The script: the series is applied to the tree.                          *)

\* git apply writes one of its files.
WriteFile(f) ==
    /\ pc = "applying"
    /\ f \in left
    /\ tree' = [tree EXCEPT ![f] = Append(@, series[patch])]
    /\ left' = left \ {f}
    /\ UNCHANGED <<series, checked_out, pc, patch, result>>

\* The next patch, which git apply refuses when it does not fit; or the end.
NextPatch ==
    /\ pc = "applying"
    /\ left = {}
    /\ IF patch = Len(series) THEN RunEnds("applied")
       ELSE IF ~Fits(series[patch + 1], tree) THEN RunEnds("failed")
       ELSE /\ patch' = patch + 1
            /\ left' = FilesOf[series[patch + 1]]
            /\ UNCHANGED <<pc, result>>
    /\ UNCHANGED <<series, checked_out, tree>>

\* Nothing cleans up after an interrupted run.
Interrupted ==
    /\ pc = "applying"
    /\ RunEnds("interrupted")
    /\ UNCHANGED <<series, checked_out, tree>>

PatchScript ==
    \/ IsNotCheckedOut
    \/ SeriesIsBroken \/ BeginApplying \/ AlreadyApplied \/ PartlyPatched
    \/ \E f \in FILES : WriteFile(f)
    \/ NextPatch

People ==
    \/ CheckOut
    \/ \E f \in FILES : Edit(f)
    \/ \E fs \in SUBSET FILES : Revert(fs)
    \/ \E s \in SERIES : Pull(s)

PatchNext == PatchScript \/ People \/ Interrupted

PatchSpec == PatchInit /\ [][PatchNext]_patchVars

-----------------------------------------------------------------------------

(***************************************************************************)
(* The script never writes over what somebody has edited: "that discards   *)
(* edits made in the tree" is left to people (apply-patches.sh:91).        *)
(***************************************************************************)
EditsAreKept ==
    [][PatchScript => \A f \in FILES :
          EDIT \in ToSet(tree[f]) => tree'[f] = tree[f]]_patchVars

Carries ==
    IF \A f \in Touched : tree[f] = LeftBy(series, Len(series), f) THEN "series"
    ELSE IF Pristine THEN "head" ELSE "other"

Tree == INSTANCE PatchedTree
    WITH carries <- Carries, at <- pc,
         verdict <- IF result \in Good THEN "good"
                    ELSE IF result \in Refusals THEN "refused" ELSE "none"

(***************************************************************************)
(* The script keeps what PatchedTree promises the builds: it refuses only  *)
(* before it has written anything ("a series that does not apply in order  *)
(* must be found out here, and not half way through applying it to the     *)
(* real tree", apply-patches.sh:59-61), begins only from HEAD's files, and *)
(* a run that is let finish leaves the series' whole tree, however many    *)
(* were stopped before it.                                                 *)
(***************************************************************************)
ImplementsPatchedTree == Tree!TreeSpec

(***************************************************************************)
(* It is idempotent: a run after a good one is a good one that writes      *)
(* nothing (apply-patches.sh:2-3).                                         *)
(***************************************************************************)
IsIdempotent ==
    [][PatchScript /\ result \in Good =>
          /\ result' = "already"
          /\ UNCHANGED tree]_patchVars
=============================================================================
