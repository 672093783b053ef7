---------------------------- MODULE PatchedTree ----------------------------
(***************************************************************************)
(* What apply-patches.sh promises of the emulator's tree to the builds     *)
(* that run it: it says all is well only of the series' own tree, starts   *)
(* from nothing but HEAD's, and refuses before it writes, never after.     *)
(***************************************************************************)

VARIABLES
    carries,  \* what the files the series touches are: HEAD's, the series', neither
    at,       \* "idle", or "applying"
    verdict   \* of the last run, while nobody has touched the tree or the series

treeVars == <<carries, at, verdict>>

CARRIED == {"head", "series", "other"}

TreeInit == carries = "head" /\ at = "idle" /\ verdict = "none"

IsTouched ==
    /\ at = "idle"
    /\ carries' \in CARRIED
    /\ verdict' = "none"
    /\ at' = at

Refuses ==
    /\ at = "idle"
    /\ verdict' = "refused"
    /\ UNCHANGED <<carries, at>>

FindsItPatched ==
    /\ at = "idle"
    /\ carries = "series"
    /\ verdict' = "good"
    /\ UNCHANGED <<carries, at>>

Starts ==
    /\ at = "idle"
    /\ carries = "head"
    /\ at' = "applying" /\ verdict' = "none"
    /\ carries' = carries

Writes ==
    /\ at = "applying"
    /\ carries' \in CARRIED
    /\ UNCHANGED <<at, verdict>>

Finishes ==
    /\ at = "applying"
    /\ carries = "series"
    /\ at' = "idle" /\ verdict' = "good"
    /\ carries' = carries

IsStopped ==
    /\ at = "applying"
    /\ at' = "idle" /\ verdict' = "none"
    /\ carries' = carries

TreeNext ==
    \/ IsTouched \/ Refuses \/ FindsItPatched
    \/ Starts \/ Writes \/ Finishes \/ IsStopped

TreeSpec == TreeInit /\ [][TreeNext]_treeVars
=============================================================================
