---------------------------- MODULE Builds_proofs ----------------------------
(***************************************************************************)
(* The scripts of a build.  apply-patches.sh keeps what PatchedTree says   *)
(* of it, for any series over any files; and packages are of the series,   *)
(* their sound whole, for any parts of Mesa, libraries of FFmpeg and       *)
(* archives of the guest, by what PatchedTree says.                        *)
(***************************************************************************)
EXTENDS GuestBuild, ApplyPatches, WellFoundedInduction, TLAPS

\* A set of numbers has a least one.
LEMMA LeastNumber ==
  ASSUME NEW T \in SUBSET Nat, T # {}
  PROVE  \E m \in T : \A k \in T : m <= k
<1> DEFINE Less == {ss \in Nat \X Nat : ss[1] < ss[2]}
<1>1. IsWellFoundedOn(Less, Nat)
  BY NatLessThanWellFounded DEF OpToRel
<1>2. PICK m \in T : \A k \in T : <<k, m>> \notin Less
  <2> HIDE DEF Less
  <2> QED
    BY <1>1, WFMin
<1>3. ASSUME NEW k \in T PROVE m <= k
  <2>1. k \in Nat /\ m \in Nat /\ ~(k < m)
    BY <1>2
  <2> QED
    BY <2>1
<1> QED
  BY <1>3

(***************************************************************************)
(* A loop of N rounds, round n making what[n] of what the round before it  *)
(* left, goes through a sequence of values: what a recursive function over *)
(* 0 .. N rests on.                                                        *)
(***************************************************************************)
LEMMA LoopHasValues ==
  ASSUME NEW S, NEW base \in S, NEW N \in Nat, NEW round \in [1 .. N -> [S -> S]]
  PROVE  \E g \in [0 .. N -> S] :
             /\ g[0] = base
             /\ \A n \in 1 .. N : g[n] = round[n][g[n - 1]]
<1> DEFINE Ran(n, g) == /\ g \in [0 .. n -> S]
                         /\ g[0] = base
                         /\ \A k \in 1 .. n : g[k] = round[k][g[k - 1]]
           Bad == {n \in 0 .. N : \A g : ~Ran(n, g)}
<1>1. ASSUME Bad # {} PROVE FALSE
  <2>3. PICK m \in Bad : \A k \in Bad : m <= k
    <3>1. Bad \in SUBSET Nat
      OBVIOUS
    <3> HIDE DEF Bad
    <3> QED
      BY <1>1, <3>1, LeastNumber
  <2>4. m \in 0 .. N /\ \A g : ~Ran(m, g)
    OBVIOUS
  <2>5. m # 0
    <3>1. Ran(0, [k \in {0} |-> base])
      OBVIOUS
    <3> QED
      BY <2>4, <3>1
  <2>6. PICK g : Ran(m - 1, g)
    <3>1. m - 1 \in 0 .. N /\ m - 1 < m /\ m \in Nat /\ m - 1 \in Nat
      BY <2>4, <2>5
    <3>2. m - 1 \notin Bad
      <4> HIDE DEF Bad
      <4> QED
        BY <2>3, <3>1
    <3> QED
      BY <3>1, <3>2
  <2> DEFINE h == [k \in 0 .. m |-> IF k = m THEN round[m][g[m - 1]] ELSE g[k]]
  <2>7. Ran(m, h)
    <3>1. h \in [0 .. m -> S] /\ h[0] = base
      BY <2>4, <2>5, <2>6
    <3>2. ASSUME NEW k \in 1 .. m PROVE h[k] = round[k][h[k - 1]]
      BY <2>4, <2>5, <2>6
    <3> HIDE DEF h
    <3> QED
      BY <3>1, <3>2
  <2> QED
    BY <2>4, <2>7
<1>2. \E g : Ran(N, g)
  <2>1. N \in 0 .. N
    OBVIOUS
  <2> HIDE DEF Ran
  <2>2. N \notin Bad
    BY <1>1
  <2> QED
    BY <2>1, <2>2
<1> QED
  BY <1>2

-----------------------------------------------------------------------------
(* apply-patches.sh.                                                       *)

\* What a series leaves of a file, a patch at a time.
LEMMA LeftByRounds ==
  ASSUME NEW s \in Seq(PATCHES), NEW f
  PROVE  /\ \A n \in 0 .. Len(s) : LeftBy(s, n, f) \in Seq(PATCHES)
         /\ LeftBy(s, 0, f) = <<>>
         /\ \A n \in 1 .. Len(s) :
                LeftBy(s, n, f) = IF f \in FilesOf[s[n]]
                                  THEN Append(LeftBy(s, n - 1, f), s[n])
                                  ELSE LeftBy(s, n - 1, f)
<1> DEFINE N == Len(s)
           round == [n \in 1 .. N |-> [v \in Seq(PATCHES) |->
                        IF f \in FilesOf[s[n]] THEN Append(v, s[n]) ELSE v]]
           rec(by) == [i \in 0 .. Len(s) |->
                          IF i = 0 THEN <<>>
                          ELSE IF f \in FilesOf[s[i]] THEN Append(by[i - 1], s[i])
                          ELSE by[i - 1]]
           chosen == CHOOSE by : by = rec(by)
<1>1. N \in Nat /\ \A n \in 1 .. N : s[n] \in PATCHES
  OBVIOUS
<1>2. round \in [1 .. N -> [Seq(PATCHES) -> Seq(PATCHES)]]
  BY <1>1
<1>3. PICK g \in [0 .. N -> Seq(PATCHES)] :
          g[0] = <<>> /\ \A n \in 1 .. N : g[n] = round[n][g[n - 1]]
  <2> DEFINE base == <<>>
             S == Seq(PATCHES)
  <2>1. base \in S /\ N \in Nat /\ round \in [1 .. N -> [S -> S]]
    BY <1>1, <1>2
  <2> HIDE DEF N, round, base, S
  <2>2. \E g \in [0 .. N -> S] :
            g[0] = base /\ \A n \in 1 .. N : g[n] = round[n][g[n - 1]]
    BY <2>1, LoopHasValues
  <2> QED
    BY <2>2 DEF base, S
<1>4. ASSUME NEW n \in 1 .. N
      PROVE  g[n] = IF f \in FilesOf[s[n]] THEN Append(g[n - 1], s[n])
                    ELSE g[n - 1]
  <2>1. g[n] = round[n][g[n - 1]]
    BY <1>3
  <2>2. n - 1 \in 0 .. N
    BY <1>1
  <2>3. g[n - 1] \in Seq(PATCHES)
    BY <1>3, <2>2
  <2> QED
    BY <2>1, <2>3
<1>5. g = rec(g)
  <2>1. ASSUME NEW i \in 0 .. N PROVE g[i] = rec(g)[i]
    <3>1. CASE i = 0
      BY <1>3, <3>1
    <3>2. CASE i # 0
      <4>1. i \in 1 .. N
        BY <1>1, <3>2
      <4> QED
        BY <1>4, <3>2, <4>1
    <3> QED
      BY <3>1, <3>2
  <2>2. DOMAIN g = 0 .. N /\ g = [i \in DOMAIN g |-> g[i]]
    BY <1>3
  <2>3. rec(g) = [i \in 0 .. N |-> rec(g)[i]]
    OBVIOUS
  <2> HIDE DEF rec
  <2> QED
    BY <2>1, <2>2, <2>3
<1>6. chosen = rec(chosen)
  <2> HIDE DEF rec
  <2> QED
    BY <1>5
<1>7. \A n : LeftBy(s, n, f) = chosen[n]
  BY DEF LeftBy
<1>8. \A n \in 0 .. N : chosen[n] = g[n]
  <2> DEFINE Bad == {n \in 0 .. N : chosen[n] # g[n]}
  <2> SUFFICES ASSUME Bad # {} PROVE FALSE
    OBVIOUS
  <2>1. PICK m \in Bad : \A k \in Bad : m <= k
    <3>1. Bad \in SUBSET Nat
      BY <1>1
    <3> HIDE DEF Bad
    <3> QED
      BY <3>1, LeastNumber
  <2>2. m # 0
    BY <1>3, <1>6
  <2>3. m - 1 \in 0 .. N /\ m \in 1 .. N /\ chosen[m - 1] = g[m - 1]
    <3>1. m \in 1 .. N /\ m - 1 \in 0 .. N /\ m - 1 < m
      BY <1>1, <2>2
    <3>2. m - 1 \notin Bad
      <4> HIDE DEF Bad
      <4> QED
        BY <2>1, <3>1, <1>1
    <3> QED
      BY <3>1, <3>2
  <2>4. chosen[m] = g[m]
    BY <1>4, <1>6, <2>2, <2>3
  <2> QED
    BY <2>4
<1>9. \A n \in 0 .. N : LeftBy(s, n, f) = g[n]
  BY <1>7, <1>8
<1>10. \A n \in 1 .. N : n - 1 \in 0 .. N /\ n \in 0 .. N
  BY <1>1
<1>11. \A n \in 0 .. N : LeftBy(s, n, f) \in Seq(PATCHES)
  BY <1>3, <1>9
<1>12. ASSUME NEW n \in 1 .. N
       PROVE  LeftBy(s, n, f) = IF f \in FilesOf[s[n]]
                                THEN Append(LeftBy(s, n - 1, f), s[n])
                                ELSE LeftBy(s, n - 1, f)
  BY <1>4, <1>9, <1>10
<1>13. LeftBy(s, 0, f) = <<>>
  BY <1>1, <1>3, <1>9
<1> QED
  BY <1>11, <1>12, <1>13

\* What has been changed by a patch is not HEAD's any more.
LEMMA PatchesLeaveSomething ==
  ASSUME NEW s \in Seq(PATCHES), NEW f, NEW i \in 1 .. Len(s), f \in FilesOf[s[i]]
  PROVE  LeftBy(s, Len(s), f) # <<>>
<1> DEFINE Bad == {n \in i .. Len(s) : LeftBy(s, n, f) = <<>>}
<1> SUFFICES ASSUME Bad # {} PROVE FALSE
  OBVIOUS
<1>1. PICK m \in Bad : \A k \in Bad : m <= k
  <2>1. Bad \in SUBSET Nat
    OBVIOUS
  <2> HIDE DEF Bad
  <2> QED
    BY <2>1, LeastNumber
<1>2. m \in i .. Len(s) /\ m \in 1 .. Len(s) /\ LeftBy(s, m, f) = <<>>
  OBVIOUS
<1>3. LeftBy(s, m - 1, f) \in Seq(PATCHES) /\ s[m] \in PATCHES
  <2>1. m \in 1 .. Len(s) /\ m - 1 \in 0 .. Len(s)
    BY <1>2
  <2>2. \A n \in 0 .. Len(s) : LeftBy(s, n, f) \in Seq(PATCHES)
    BY LeftByRounds
  <2> QED
    BY <2>1, <2>2
<1>4. f \notin FilesOf[s[m]] /\ LeftBy(s, m - 1, f) = <<>>
  <2>1. Append(LeftBy(s, m - 1, f), s[m]) # <<>>
    BY <1>3
  <2> QED
    BY <1>2, <2>1, LeftByRounds
<1>5. m - 1 \in Bad /\ m - 1 < m /\ m - 1 \in Int /\ m \in Int
  BY <1>2, <1>4
<1> QED
  <2> HIDE DEF Bad
  <2> QED
    BY <1>1, <1>5

-----------------------------------------------------------------------------
(* What holds of the tree between any two steps of the script.             *)

PatchTypeInv ==
    /\ series \in SERIES
    /\ tree \in [FILES -> Seq(PATCHES \cup {EDIT})]
    /\ patch \in 0 .. Len(series)
    /\ left \subseteq FILES
    /\ pc \in {"idle", "applying"}
    /\ pc = "idle" => patch = 0 /\ left = {}
    /\ checked_out \in BOOLEAN
    /\ result \in Good \cup Refusals \cup {"none", "interrupted"}

\* How many patches a file carries while the series is applied.
Written(f) == IF f \in left THEN patch - 1 ELSE patch

\* The script begins from HEAD's files, and every file has since been given
\* its share of the patches that came so far, in order, and nothing else.
ApplyingInv ==
    pc = "applying" =>
        /\ checked_out /\ Applies(series)
        /\ result = "none"
        /\ patch = 0 => left = {}
        /\ patch # 0 => left \subseteq FilesOf[series[patch]]
        /\ \A f \in Touched : tree[f] = LeftBy(series, Written(f), f)

\* A good verdict stands for as long as the tree is the series'.
VerdictInv ==
    result \in Good =>
        /\ checked_out /\ Applies(series)
        /\ \A f \in Touched : tree[f] = LeftBy(series, Len(series), f)

PatchInv == PatchTypeInv /\ ApplyingInv /\ VerdictInv

\* A series' own files: there are some, and the whole series leaves them changed.
LEMMA SeriesTouches ==
  ASSUME series \in SERIES
  PROVE  /\ series \in Seq(PATCHES)
         /\ Touched \subseteq FILES
         /\ \A i \in 1 .. Len(series) :
                series[i] \in PATCHES /\ FilesOf[series[i]] \subseteq Touched
         /\ \A f \in Touched : LeftBy(series, Len(series), f) # <<>>
         /\ Touched # {}
<1>1. series \in Seq(PATCHES) /\ Len(series) \in Nat \ {0}
  BY PatchesAssumption
<1>2. \A p \in PATCHES : FilesOf[p] \subseteq FILES /\ FilesOf[p] # {}
  BY PatchesAssumption
<1>3. Touched = UNION {FilesOf[series[i]] : i \in 1 .. Len(series)}
  BY <1>1 DEF Touched, ToSet
<1>4. \A i \in 1 .. Len(series) :
          series[i] \in PATCHES /\ FilesOf[series[i]] \subseteq Touched
  BY <1>1, <1>3
<1>5. \A f \in Touched : LeftBy(series, Len(series), f) # <<>>
  BY <1>1, <1>3, PatchesLeaveSomething
<1>6. Touched \subseteq FILES
  BY <1>1, <1>2, <1>3
<1>7. 1 \in 1 .. Len(series)
  BY <1>1
<1>8. Touched # {}
  BY <1>2, <1>4, <1>7
<1> QED
  BY <1>1, <1>4, <1>5, <1>6, <1>8

\* git apply never refuses half way: a patch fits the files as it did those of
\* the scratch copy.
LEMMA TheNextFits ==
  ASSUME PatchInv, pc = "applying", left = {}, patch # Len(series)
  PROVE  Fits(series[patch + 1], tree)
<1> DEFINE n == patch + 1
           scratch == [f \in FILES |-> LeftBy(series, n - 1, f)]
<1>1. n \in 1 .. Len(series) /\ n - 1 = patch
  BY SeriesTouches DEF PatchInv, PatchTypeInv
<1>2. Fits(series[n], scratch)
  BY <1>1 DEF PatchInv, ApplyingInv, Applies
<1>3. \A f \in FilesOf[series[n]] : tree[f] = scratch[f]
  BY <1>1, SeriesTouches DEF PatchInv, PatchTypeInv, ApplyingInv, Written
<1> HIDE DEF n, scratch
<1>4. Fits(series[n], tree)
  BY <1>2, <1>3 DEF Fits
<1> QED
  BY <1>4 DEF n

LEMMA InitPatchInv == PatchInit => PatchInv
<1> SUFFICES ASSUME PatchInit PROVE PatchInv
  OBVIOUS
<1>1. series \in Seq(PATCHES)
  BY PatchesAssumption DEF PatchInit
<1> QED
  BY <1>1 DEF PatchInit, PatchInv, PatchTypeInv, ApplyingInv, VerdictInv, Good, Refusals

\* Whoever touches the tree does so while no script runs, and takes the
\* verdict with him.
LEMMA PeopleKeep ==
  ASSUME PatchInv, People
  PROVE  PatchInv'
<1>1. pc = "idle" /\ result' = "none" /\ UNCHANGED <<pc, patch, left>>
  BY DEF People, CheckOut, Edit, Revert, Pull, Touch
<1>2. series' \in SERIES /\ tree' \in [FILES -> Seq(PATCHES \cup {EDIT})]
  <2>1. CASE \E f \in FILES : Edit(f)
    <3>1. PICK f \in FILES : Edit(f)
      BY <2>1
    <3>2. Append(tree[f], EDIT) \in Seq(PATCHES \cup {EDIT})
      BY DEF PatchInv, PatchTypeInv
    <3> QED
      BY <3>1, <3>2 DEF Edit, PatchInv, PatchTypeInv
  <2>2. CASE \E fs \in SUBSET FILES : Revert(fs)
    <3>1. <<>> \in Seq(PATCHES \cup {EDIT})
      OBVIOUS
    <3> QED
      BY <2>2, <3>1 DEF Revert, PatchInv, PatchTypeInv
  <2>3. CASE \E s \in SERIES : Pull(s)
    BY <2>3 DEF Pull, PatchInv, PatchTypeInv
  <2>4. CASE CheckOut
    <3>1. <<>> \in Seq(PATCHES \cup {EDIT})
      OBVIOUS
    <3> QED
      BY <2>4, <3>1 DEF CheckOut, PatchInv, PatchTypeInv
  <2> QED
    BY <2>1, <2>2, <2>3, <2>4 DEF People
<1>3. patch' \in 0 .. Len(series')
  <2>1. patch' = 0 /\ series' \in Seq(PATCHES)
    BY <1>1, <1>2, PatchesAssumption DEF PatchInv, PatchTypeInv
  <2> QED
    BY <2>1
<1>4. checked_out' \in BOOLEAN
  BY DEF People, CheckOut, Edit, Revert, Pull, PatchInv, PatchTypeInv
<1> QED
  BY <1>1, <1>2, <1>3, <1>4 DEF PatchInv, PatchTypeInv, ApplyingInv, VerdictInv, Good

\* A run that ends before it has begun writes nothing.
LEMMA VerdictsKeep ==
  ASSUME PatchInv,
         IsNotCheckedOut \/ SeriesIsBroken \/ AlreadyApplied \/ PartlyPatched
  PROVE  PatchInv'
<1>1. /\ pc = "idle" /\ UNCHANGED <<series, checked_out, tree, pc, patch, left>>
      /\ result' \in {"absent", "broken", "already", "partly"}
  BY DEF IsNotCheckedOut, SeriesIsBroken, AlreadyApplied, PartlyPatched, Run, RunEnds,
         PatchInv, PatchTypeInv
<1>2. PatchTypeInv' /\ ApplyingInv'
  BY <1>1 DEF PatchInv, PatchTypeInv, ApplyingInv, Good, Refusals
<1>3. VerdictInv'
  <2>1. SUFFICES ASSUME result' \in Good PROVE AlreadyApplied
    BY <1>1 DEF VerdictInv, AlreadyApplied, Wrong, Touched
  <2> QED
    BY <2>1 DEF IsNotCheckedOut, SeriesIsBroken, PartlyPatched, RunEnds, Good
<1> QED
  BY <1>2, <1>3 DEF PatchInv

LEMMA BeginningKeeps ==
  ASSUME PatchInv, BeginApplying
  PROVE  PatchInv'
<1>1. /\ UNCHANGED <<series, checked_out, tree>>
      /\ checked_out /\ Applies(series) /\ Pristine
      /\ pc' = "applying" /\ patch' = 0 /\ left' = {} /\ result' = "none"
  BY DEF BeginApplying, Run
<1>2. series \in Seq(PATCHES)
  BY SeriesTouches DEF PatchInv, PatchTypeInv
<1>3. Touched' = Touched /\ Applies(series)'
  BY <1>1 DEF Touched
<1>4. PatchTypeInv'
  BY <1>1, <1>2 DEF PatchInv, PatchTypeInv
<1>5. ASSUME NEW f \in Touched' PROVE tree'[f] = LeftBy(series', Written(f)', f)
  <2>1. tree[f] = <<>> /\ Written(f)' = 0
    BY <1>1, <1>3 DEF Pristine, Written
  <2> QED
    BY <1>1, <1>2, <2>1, LeftByRounds
<1>6. ApplyingInv' /\ VerdictInv'
  BY <1>1, <1>3, <1>5 DEF ApplyingInv, VerdictInv, Good
<1> QED
  BY <1>4, <1>6 DEF PatchInv

LEMMA WritingKeeps ==
  ASSUME PatchInv, NEW f \in FILES, WriteFile(f)
  PROVE  PatchInv'
<1>1. /\ pc = "applying" /\ f \in left /\ left' = left \ {f}
      /\ tree' = [tree EXCEPT ![f] = Append(@, series[patch])]
      /\ UNCHANGED <<series, checked_out, pc, patch, result>>
  BY DEF WriteFile
<1>2. /\ patch # 0 /\ patch \in 1 .. Len(series) /\ series \in Seq(PATCHES)
      /\ series[patch] \in PATCHES
      /\ f \in FilesOf[series[patch]] /\ f \in Touched
  BY <1>1, SeriesTouches DEF PatchInv, PatchTypeInv, ApplyingInv
<1>3. Touched' = Touched /\ (Applies(series)' <=> Applies(series))
  BY <1>1 DEF Touched
<1>4. PatchTypeInv'
  <2>1. Append(tree[f], series[patch]) \in Seq(PATCHES \cup {EDIT})
    BY <1>2 DEF PatchInv, PatchTypeInv
  <2> QED
    BY <1>1, <2>1 DEF PatchInv, PatchTypeInv
<1>5. tree[f] = LeftBy(series, patch - 1, f)
  BY <1>1, <1>2 DEF PatchInv, ApplyingInv, Written
<1>6. ASSUME NEW g \in Touched PROVE tree'[g] = LeftBy(series, Written(g)', g)
  <2>1. CASE g = f
    <3>1. Written(g)' = patch
      BY <1>1, <2>1 DEF Written
    <3>2. tree'[g] = Append(tree[f], series[patch])
      BY <1>1, <2>1 DEF PatchInv, PatchTypeInv
    <3> QED
      BY <1>2, <1>5, <2>1, <3>1, <3>2, LeftByRounds
  <2>2. CASE g # f
    <3>1. Written(g)' = Written(g)
      BY <1>1, <2>2 DEF Written
    <3>2. tree'[g] = tree[g]
      BY <1>1, <2>2, SeriesTouches DEF PatchInv, PatchTypeInv
    <3> QED
      BY <1>1, <3>1, <3>2 DEF PatchInv, ApplyingInv
  <2> QED
    BY <2>1, <2>2
<1>7. ApplyingInv'
  BY <1>1, <1>2, <1>3, <1>6 DEF PatchInv, ApplyingInv
<1>8. VerdictInv'
  BY <1>1 DEF PatchInv, ApplyingInv, VerdictInv, Good
<1> QED
  BY <1>4, <1>7, <1>8 DEF PatchInv

\* When a patch is whole, its files carry it and the others what they carried.
LEMMA NextPatchKeeps ==
  ASSUME PatchInv, NextPatch
  PROVE  PatchInv'
<1>1. pc = "applying" /\ left = {} /\ UNCHANGED <<series, checked_out, tree>>
  BY DEF NextPatch
<1>2. Touched' = Touched /\ (Applies(series)' <=> Applies(series)) /\ Applies(series)
  BY <1>1 DEF Touched, PatchInv, ApplyingInv
<1>3. \A f \in Touched : tree[f] = LeftBy(series, patch, f)
  BY <1>1 DEF PatchInv, ApplyingInv, Written
<1>4. CASE patch = Len(series)
  <2>1. pc' = "idle" /\ patch' = 0 /\ left' = {} /\ result' = "applied"
    BY <1>4 DEF NextPatch, RunEnds
  <2>2. PatchTypeInv'
    BY <1>1, <2>1, <1>4 DEF PatchInv, PatchTypeInv, Good
  <2> QED
    BY <1>1, <1>2, <1>3, <1>4, <2>1, <2>2 DEF PatchInv, ApplyingInv, VerdictInv
<1>5. CASE patch # Len(series)
  <2>1. /\ patch' = patch + 1 /\ left' = FilesOf[series[patch + 1]]
        /\ UNCHANGED <<pc, result>>
    BY <1>1, <1>5, TheNextFits DEF NextPatch
  <2>2. patch + 1 \in 1 .. Len(series) /\ patch = patch' - 1 /\ patch' # 0
    BY <1>5, <2>1, SeriesTouches DEF PatchInv, PatchTypeInv
  <2>3. left' \subseteq FILES /\ series \in Seq(PATCHES)
    BY <2>1, <2>2, SeriesTouches DEF PatchInv, PatchTypeInv
  <2>4. PatchTypeInv'
    BY <1>1, <2>1, <2>2, <2>3 DEF PatchInv, PatchTypeInv
  <2>5. ASSUME NEW g \in Touched PROVE tree'[g] = LeftBy(series, Written(g)', g)
    <3>1. CASE g \in left'
      BY <1>1, <1>3, <2>2, <3>1 DEF Written
    <3>2. CASE g \notin left'
      <4>1. Written(g)' = patch + 1
        BY <2>1, <3>2 DEF Written
      <4>2. LeftBy(series, patch + 1, g) = LeftBy(series, patch, g)
        <5> DEFINE n == patch + 1
        <5>1. g \notin FilesOf[series[n]] /\ n \in 1 .. Len(series) /\ n - 1 = patch
          BY <2>1, <2>2, <3>2 DEF PatchInv, PatchTypeInv
        <5> HIDE DEF n
        <5>2. LeftBy(series, n, g) = LeftBy(series, n - 1, g)
          BY <2>3, <5>1, LeftByRounds
        <5> QED
          BY <5>1, <5>2 DEF n
      <4> QED
        BY <1>1, <1>3, <4>1, <4>2
    <3> QED
      BY <3>1, <3>2
  <2>6. ApplyingInv'
    BY <1>1, <1>2, <2>1, <2>2, <2>5 DEF PatchInv, ApplyingInv
  <2>7. VerdictInv'
    BY <1>1, <2>1 DEF PatchInv, ApplyingInv, VerdictInv, Good
  <2> QED
    BY <2>4, <2>6, <2>7 DEF PatchInv
<1> QED
  BY <1>4, <1>5

LEMMA NextPatchInv == PatchInv /\ [PatchNext]_patchVars => PatchInv'
<1> SUFFICES ASSUME PatchInv, [PatchNext]_patchVars PROVE PatchInv'
  OBVIOUS
<1>1. CASE PatchScript
  BY <1>1, VerdictsKeep, BeginningKeeps, WritingKeeps, NextPatchKeeps DEF PatchScript
<1>2. CASE People
  BY <1>2, PeopleKeep
<1>3. CASE Interrupted
  BY <1>3 DEF Interrupted, RunEnds, PatchInv, PatchTypeInv, ApplyingInv, VerdictInv, Good
<1>4. CASE UNCHANGED patchVars
  BY <1>4 DEF patchVars, PatchInv, PatchTypeInv, ApplyingInv, VerdictInv, Written,
              Touched
<1> QED
  BY <1>1, <1>2, <1>3, <1>4 DEF PatchNext

LEMMA PatchInvHolds == PatchSpec => []PatchInv
  BY InitPatchInv, NextPatchInv, PTL DEF PatchSpec

-----------------------------------------------------------------------------
(* What the script promises.                                               *)

\* A file that is still to be written carries what the patches before it made
\* of HEAD's version, and no edit.
LEMMA WrittenFilesAreThePatches ==
  ASSUME PatchInv, NEW f \in FILES, WriteFile(f)
  PROVE  tree[f] \in Seq(PATCHES)
<1>1. pc = "applying" /\ f \in left
  BY DEF WriteFile
<1>2. /\ patch \in 1 .. Len(series) /\ series \in Seq(PATCHES)
      /\ f \in Touched
  BY <1>1, SeriesTouches DEF PatchInv, PatchTypeInv, ApplyingInv
<1>3. tree[f] = LeftBy(series, patch - 1, f) /\ patch - 1 \in 0 .. Len(series)
  BY <1>1, <1>2 DEF PatchInv, ApplyingInv, Written
<1> QED
  BY <1>2, <1>3, LeftByRounds

(***************************************************************************)
(* No run of the script changes a file that somebody has edited, whatever  *)
(* the series, the files and the edits, and however the run ends.          *)
(***************************************************************************)
THEOREM ScriptKeepsEdits == PatchSpec => EditsAreKept
<1>1. ASSUME PatchInv, PatchScript, NEW f \in FILES, EDIT \in ToSet(tree[f])
      PROVE  tree'[f] = tree[f]
  <2>1. CASE UNCHANGED tree
    BY <2>1
  <2>2. CASE \E g \in FILES : WriteFile(g)
    <3>1. PICK g \in FILES : WriteFile(g)
      BY <2>2
    <3>2. tree[g] \in Seq(PATCHES) /\ EDIT \notin PATCHES
      BY <1>1, <3>1, WrittenFilesAreThePatches, PatchesAssumption
    <3>3. EDIT \notin ToSet(tree[g])
      BY <3>2 DEF ToSet
    <3> QED
      BY <1>1, <3>1, <3>3 DEF WriteFile, PatchInv, PatchTypeInv
  <2> QED
    BY <1>1, <2>1, <2>2
       DEF PatchScript, IsNotCheckedOut, SeriesIsBroken, BeginApplying,
           AlreadyApplied, PartlyPatched, NextPatch, Run
<1>2. PatchInv /\ [PatchNext]_patchVars =>
          [PatchScript => \A f \in FILES :
              EDIT \in ToSet(tree[f]) => tree'[f] = tree[f]]_patchVars
  BY <1>1
<1> QED
  BY <1>2, PatchInvHolds, PTL DEF PatchSpec, EditsAreKept

\* A tree cannot be HEAD's and the series' at once.
LEMMA PristineIsNotPatched ==
  ASSUME PatchTypeInv, \A f \in Touched : tree[f] = LeftBy(series, Len(series), f)
  PROVE  ~Pristine
BY SeriesTouches DEF PatchTypeInv, Pristine

(***************************************************************************)
(* Run again after a good run, the script says so and writes nothing, for  *)
(* every series and every tree it may have been good of.                   *)
(***************************************************************************)
THEOREM ScriptIsIdempotent == PatchSpec => IsIdempotent
<1>1. ASSUME PatchInv, PatchScript, result \in Good
      PROVE  result' = "already" /\ UNCHANGED tree
  <2>1. /\ pc # "applying" /\ checked_out /\ Applies(series)
        /\ \A f \in Touched : tree[f] = LeftBy(series, Len(series), f)
    BY <1>1 DEF PatchInv, ApplyingInv, VerdictInv, Good
  <2>2. ~Pristine /\ Wrong = {}
    BY <1>1, <2>1, PristineIsNotPatched DEF PatchInv, Wrong
  <2>3. AlreadyApplied
    BY <1>1, <2>1, <2>2
       DEF PatchScript, IsNotCheckedOut, SeriesIsBroken, BeginApplying, PartlyPatched,
           WriteFile, NextPatch
  <2> QED
    BY <2>3 DEF AlreadyApplied, Run, RunEnds
<1>2. PatchInv /\ [PatchNext]_patchVars =>
          [PatchScript /\ result \in Good =>
              result' = "already" /\ UNCHANGED tree]_patchVars
  BY <1>1
<1> QED
  BY <1>2, PatchInvHolds, PTL DEF PatchSpec, IsIdempotent

\* What the files are changes with the files and the series alone.
LEMMA CarriesStays ==
  ASSUME UNCHANGED <<series, tree>>
  PROVE  Carries' = Carries
<1>1. Touched' = Touched /\ (Pristine' <=> Pristine)
  BY DEF Touched, Pristine
<1> QED
  BY <1>1 DEF Carries

(***************************************************************************)
(* The script implements PatchedTree: whatever is done to the tree between *)
(* runs, it says all is well only of the series' own tree, writes only     *)
(* from HEAD's files on, and never refuses once it has written.            *)
(***************************************************************************)
THEOREM ScriptImplementsPatchedTree == PatchSpec => ImplementsPatchedTree
<1>1. PatchInit => Tree!TreeInit
  <2> SUFFICES ASSUME PatchInit PROVE Tree!TreeInit
    OBVIOUS
  <2>1. PatchInv
    BY InitPatchInv
  <2>2. Pristine
    BY <2>1, SeriesTouches DEF PatchInit, PatchInv, PatchTypeInv, Pristine
  <2>3. Carries = "head"
    BY <2>1, <2>2, PristineIsNotPatched DEF PatchInv, Carries
  <2> QED
    BY <2>3 DEF PatchInit, Tree!TreeInit, Good, Refusals
<1>2. ASSUME PatchInv, [PatchNext]_patchVars
      PROVE  [Tree!TreeNext]_(Tree!treeVars)
  <2>1. CASE People
    <3>1. pc = "idle" /\ pc' = pc /\ result' = "none"
      BY <2>1 DEF People, CheckOut, Edit, Revert, Pull, Touch
    <3>2. Carries' \in Tree!CARRIED
      BY DEF Carries, Tree!CARRIED
    <3>3. Tree!IsTouched
      BY <3>1, <3>2 DEF Tree!IsTouched, Good, Refusals
    <3> QED
      BY <3>3 DEF Tree!TreeNext
  <2>2. CASE IsNotCheckedOut \/ SeriesIsBroken \/ PartlyPatched
    <3>1. /\ pc = "idle" /\ pc' = pc /\ UNCHANGED <<series, tree>>
          /\ result' \in Refusals
      BY <2>2 DEF IsNotCheckedOut, SeriesIsBroken, PartlyPatched, Run, RunEnds, Refusals
    <3>2. Carries' = Carries /\ result' \notin Good
      BY <3>1, CarriesStays DEF Good, Refusals
    <3>3. Tree!Refuses
      BY <3>1, <3>2 DEF Tree!Refuses
    <3> QED
      BY <3>3 DEF Tree!TreeNext
  <2>3. CASE AlreadyApplied
    <3>1. /\ pc = "idle" /\ pc' = pc /\ UNCHANGED <<series, tree>>
          /\ result' \in Good /\ Wrong = {}
      BY <2>3 DEF AlreadyApplied, Run, RunEnds, Good
    <3>2. Carries = "series" /\ Carries' = Carries
      BY <3>1, CarriesStays DEF Carries, Wrong
    <3>3. Tree!FindsItPatched
      BY <3>1, <3>2 DEF Tree!FindsItPatched
    <3> QED
      BY <3>3 DEF Tree!TreeNext
  <2>4. CASE BeginApplying
    <3>1. /\ pc = "idle" /\ pc' = "applying" /\ UNCHANGED <<series, tree>>
          /\ result' = "none" /\ Pristine
      BY <2>4 DEF BeginApplying, Run
    <3>2. Carries = "head" /\ Carries' = Carries
      BY <1>2, <3>1, CarriesStays, PristineIsNotPatched DEF Carries, PatchInv
    <3>3. Tree!Starts
      BY <3>1, <3>2 DEF Tree!Starts, Good, Refusals
    <3> QED
      BY <3>3 DEF Tree!TreeNext
  <2>5. CASE \E f \in FILES : WriteFile(f)
    <3>1. pc = "applying" /\ UNCHANGED <<pc, result>>
      BY <2>5 DEF WriteFile
    <3>2. Carries' \in Tree!CARRIED
      BY DEF Carries, Tree!CARRIED
    <3>3. Tree!Writes
      BY <3>1, <3>2 DEF Tree!Writes
    <3> QED
      BY <3>3 DEF Tree!TreeNext
  <2>6. CASE NextPatch
    <3>1. pc = "applying" /\ left = {} /\ UNCHANGED <<series, tree>> /\ Carries' = Carries
      BY <2>6, CarriesStays DEF NextPatch
    <3>2. CASE patch = Len(series)
      <4>1. pc' = "idle" /\ result' \in Good
        BY <2>6, <3>2 DEF NextPatch, RunEnds, Good
      <4>2. Carries = "series"
        BY <1>2, <3>1, <3>2 DEF Carries, PatchInv, ApplyingInv, Written
      <4>3. Tree!Finishes
        BY <3>1, <4>1, <4>2 DEF Tree!Finishes
      <4> QED
        BY <4>3 DEF Tree!TreeNext
    <3>3. CASE patch # Len(series)
      <4>1. UNCHANGED <<pc, result>>
        BY <1>2, <2>6, <3>1, <3>3, TheNextFits DEF NextPatch
      <4> QED
        BY <3>1, <4>1 DEF Tree!treeVars
    <3> QED
      BY <3>2, <3>3
  <2>7. CASE Interrupted
    <3>1. /\ pc = "applying" /\ pc' = "idle" /\ UNCHANGED <<series, tree>>
          /\ result' = "interrupted"
      BY <2>7 DEF Interrupted, RunEnds
    <3>2. Tree!IsStopped
      BY <3>1, CarriesStays DEF Tree!IsStopped, Good, Refusals
    <3> QED
      BY <3>2 DEF Tree!TreeNext
  <2>8. CASE UNCHANGED patchVars
    BY <2>8, CarriesStays DEF patchVars, Tree!treeVars
  <2> QED
    BY <1>2, <2>1, <2>2, <2>3, <2>4, <2>5, <2>6, <2>7, <2>8 DEF PatchNext, PatchScript
<1> QED
  BY <1>1, <1>2, PatchInvHolds, PTL DEF PatchSpec, ImplementsPatchedTree, Tree!TreeSpec

-----------------------------------------------------------------------------
(* The scripts that build what a package is made of.                       *)

GUESTS == [there : BOOLEAN, made : SUBSET ARCHIVES, current : SUBSET ARCHIVES,
           sound : BOOLEAN]

TypeInv ==
    /\ packaging \in BOOLEAN /\ anew \in BOOLEAN
    /\ mesa \in [pinned : BOOLEAN, parts : SUBSET MESA_PARTS]
    /\ ffmpeg \in [config : {NONE, CUT, "whole"}, libs : SUBSET FF_LIBS]
    /\ guest \in GUESTS
    /\ adapter \in [OBJECTS -> {NONE, "series", "other"}]
    /\ core \in {NONE, CUT} \cup CORES
    /\ package \in {NONE, CUT} \cup CORES

\* Nothing of Mesa is built but from the pinned tarball.
MesaInv ==
    /\ mesa.parts # {} => mesa.pinned
    /\ step = "mesa unpack" => tarball = "pinned"
    /\ step = "mesa make" => mesa.pinned

\* What is compiled is the series' tree, with sound if there is a decoder.
GuestInv ==
    /\ at = "applying" => step = "guest"
    /\ step \in {"guest configure", "guest make"} => carries = "series"
    /\ step = "guest make" => (guest.sound <=> AVCODEC \in ffmpeg.libs)
    /\ step = "core" /\ packaging =>
           /\ carries = "series"
           /\ guest.current = ARCHIVES
           /\ guest.sound <=> AVCODEC \in ffmpeg.libs

\* Where none of the adapter's objects was there, none is of another tree.
AdapterInv ==
    anew =>
        /\ packaging /\ step # "idle"
        /\ step \notin {"core", "package", "package again"} => adapter = NO_ADAPTER
        /\ step = "core" => \A o \in OBJECTS : adapter[o] \in {NONE, "series"}

\* What is about to be packaged has just been linked.
CoreInv ==
    step = "package" =>
        /\ core \in CORES
        /\ core.patched /\ core.pinned
        /\ anew => core.adapter
        /\ ffmpeg.libs \in {{}, FF_LIBS}
        /\ core.sound <=> ffmpeg.libs = FF_LIBS

IInv ==
    /\ TypeInv /\ MesaInv /\ GuestInv /\ AdapterInv
    /\ CoreInv /\ PackageIsTheSeries

LEMMA InitIInv == Init => IInv
<1> SUFFICES ASSUME Init
             PROVE  IInv
  OBVIOUS
<1> USE GuestBuildAssumption DEF Init, TreeInit, NO_MESA, NO_FFMPEG,
    NO_GUEST, NO_ADAPTER
<1>1. TypeInv
  BY DEF TypeInv, GUESTS
<1>2. MesaInv /\ GuestInv /\ AdapterInv
  BY DEF MesaInv, GuestInv, AdapterInv
<1>3. CoreInv /\ PackageIsTheSeries
  BY DEF CoreInv, PackageIsTheSeries
<1> QED BY <1>1, <1>2, <1>3 DEF IInv

\* The steps of setup-mesa.sh.
LEMMA MesaKeeps ==
    ASSUME IInv, \/ MesaIsThere \/ FetchMesa \/ CheckMesa \/ UnpackMesa
                 \/ \E part \in MESA_PARTS : NinjaMakesMesa(part)
                 \/ NinjaEnds \/ VerifyMesa
    PROVE  IInv'
<1> USE GuestBuildAssumption DEF IInv, Goes, Ends, Returns, Fails, treeVars, built
<1>1. ASSUME UnpackMesa
      PROVE  TypeInv' /\ MesaInv'
  <2>1. /\ mesa' \in [pinned : BOOLEAN, parts : SUBSET MESA_PARTS]
        /\ mesa'.parts = {}
        /\ mesa'.pinned <=> tarball = "pinned"
    BY <1>1 DEF UnpackMesa
  <2>2. TypeInv'
    BY <1>1, <2>1 DEF TypeInv, UnpackMesa
  <2>3. MesaInv'
    BY <1>1, <2>1 DEF MesaInv, UnpackMesa
  <2> QED BY <2>2, <2>3
<1>2. ASSUME NEW part \in MESA_PARTS, NinjaMakesMesa(part)
      PROVE  TypeInv' /\ MesaInv'
  <2>1. /\ mesa' \in [pinned : BOOLEAN, parts : SUBSET MESA_PARTS]
        /\ mesa'.pinned = mesa.pinned
    BY <1>2 DEF NinjaMakesMesa, TypeInv
  <2>2. TypeInv'
    BY <1>2, <2>1 DEF TypeInv, NinjaMakesMesa
  <2>3. MesaInv'
    BY <1>2, <2>1 DEF MesaInv, NinjaMakesMesa
  <2> QED BY <2>2, <2>3
<1>3. ASSUME MesaIsThere \/ FetchMesa \/ CheckMesa \/ NinjaEnds \/ VerifyMesa
      PROVE  TypeInv' /\ MesaInv'
  <2>1. TypeInv'
    BY <1>3 DEF TypeInv, MesaIsThere, FetchMesa, CheckMesa, NinjaEnds, VerifyMesa
  <2>2. MesaInv'
    BY <1>3 DEF MesaInv, MesaIsThere, FetchMesa, CheckMesa, NinjaEnds, VerifyMesa
  <2> QED BY <2>1, <2>2
<1>4. TypeInv' /\ MesaInv'
  BY <1>1, <1>2, <1>3
<1>5. GuestInv' /\ AdapterInv' /\ CoreInv'
  BY DEF GuestInv, AdapterInv, CoreInv, MesaIsThere, FetchMesa, CheckMesa,
         UnpackMesa, NinjaMakesMesa, NinjaEnds, VerifyMesa
<1>6. PackageIsTheSeries'
  BY DEF PackageIsTheSeries, MesaIsThere, FetchMesa, CheckMesa, UnpackMesa,
         NinjaMakesMesa, NinjaEnds, VerifyMesa
<1> QED BY <1>4, <1>5, <1>6

\* The steps of setup-ffmpeg.sh, and people's.
LEMMA FfmpegKeeps ==
    ASSUME IInv, \/ ConfigureFfmpeg \/ (\E lib \in FF_LIBS : StageLib(lib))
                 \/ FfmpegIsStaged \/ RunScript \/ TouchTree \/ Clean
    PROVE  IInv'
<1> USE GuestBuildAssumption DEF IInv, Goes, Returns, treeVars, run, built
<1>1. TypeInv'
  <2>1. /\ mesa' \in [pinned : BOOLEAN, parts : SUBSET MESA_PARTS]
        /\ packaging' \in BOOLEAN /\ anew' \in BOOLEAN
        /\ UNCHANGED <<core, package>>
    <3>1. NO_MESA \in [pinned : BOOLEAN, parts : SUBSET MESA_PARTS]
      BY DEF NO_MESA
    <3>2. mesa' \in {mesa, NO_MESA} /\ UNCHANGED <<core, package>>
      BY DEF ConfigureFfmpeg, StageLib, FfmpegIsStaged, RunScript, Begins,
             TouchTree, Clean
    <3>3. packaging' \in BOOLEAN /\ anew' \in BOOLEAN
      BY DEF TypeInv, ConfigureFfmpeg, StageLib, FfmpegIsStaged, RunScript,
             Begins, TouchTree, Clean
    <3> QED BY <3>1, <3>2, <3>3 DEF TypeInv
  <2>2. ffmpeg' \in [config : {NONE, CUT, "whole"}, libs : SUBSET FF_LIBS]
    <3>1. CASE ConfigureFfmpeg
      BY <3>1 DEF TypeInv, ConfigureFfmpeg
    <3>2. ASSUME NEW lib \in FF_LIBS, StageLib(lib)
          PROVE  ffmpeg' \in [config : {NONE, CUT, "whole"}, libs : SUBSET FF_LIBS]
      BY <3>2 DEF TypeInv, StageLib
    <3>3. CASE Clean
      BY <3>3 DEF TypeInv, Clean, NO_FFMPEG
    <3>4. CASE FfmpegIsStaged \/ RunScript \/ TouchTree
      BY <3>4 DEF TypeInv, FfmpegIsStaged, RunScript, Begins, TouchTree
    <3> QED BY <3>1, <3>2, <3>3, <3>4
  <2>3. guest' \in GUESTS
    <3>1. CASE TouchTree
      BY <3>1 DEF TypeInv, TouchTree, GUESTS
    <3>2. CASE ~TouchTree
      <4>1. guest' = guest
        BY <3>2 DEF ConfigureFfmpeg, StageLib, FfmpegIsStaged, RunScript, Begins, Clean
      <4> QED BY <4>1 DEF TypeInv
    <3> QED BY <3>1, <3>2
  <2>4. adapter' \in [OBJECTS -> {NONE, "series", "other"}]
    <3>1. adapter' \in {adapter, NO_ADAPTER} \/ TouchTree
      BY DEF ConfigureFfmpeg, StageLib, FfmpegIsStaged, RunScript, Begins, Clean
    <3>2. NO_ADAPTER \in [OBJECTS -> {NONE, "series", "other"}]
      BY DEF NO_ADAPTER
    <3> QED BY <3>1, <3>2 DEF TypeInv, TouchTree
  <2> QED BY <2>1, <2>2, <2>3, <2>4 DEF TypeInv
<1>2. MesaInv'
  <2>1. CASE step # "idle"
    BY <2>1 DEF MesaInv, ConfigureFfmpeg, StageLib, FfmpegIsStaged, RunScript, Begins,
                TouchTree, Clean
  <2>2. CASE step = "idle"
    <3>1. mesa' = mesa \/ mesa'.parts = {}
      BY <2>2 DEF ConfigureFfmpeg, StageLib, FfmpegIsStaged, RunScript, Begins,
                  TouchTree, Clean, NO_MESA
    <3>2. step' \notin {"mesa unpack", "mesa make"}
      BY <2>2 DEF ConfigureFfmpeg, StageLib, FfmpegIsStaged, RunScript, Begins,
                  TouchTree, Clean
    <3> QED BY <3>1, <3>2 DEF MesaInv
  <2> QED BY <2>1, <2>2
<1>3. GuestInv' /\ CoreInv'
  BY DEF GuestInv, CoreInv, ConfigureFfmpeg, StageLib, FfmpegIsStaged, RunScript,
         Begins, TouchTree, IsTouched, Clean
<1>4. PackageIsTheSeries'
  BY DEF PackageIsTheSeries, ConfigureFfmpeg, StageLib, FfmpegIsStaged, RunScript,
         Begins, TouchTree, Clean
<1>5. AdapterInv'
  <2>1. CASE RunScript
    BY <2>1 DEF AdapterInv, RunScript, Begins
  <2>2. CASE TouchTree \/ Clean
    BY <2>2 DEF AdapterInv, TouchTree, Clean
  <2>3. CASE ConfigureFfmpeg \/ (\E lib \in FF_LIBS : StageLib(lib)) \/ FfmpegIsStaged
    BY <2>3 DEF AdapterInv, ConfigureFfmpeg, StageLib, FfmpegIsStaged
  <2> QED BY <2>1, <2>2, <2>3
<1> QED BY <1>1, <1>2, <1>3, <1>4, <1>5

\* The steps of build-guest.sh: apply-patches.sh lets it by only at the series.
LEMMA GuestKeeps ==
    ASSUME IInv, \/ ApplyPatches \/ ConfigureGuest
                 \/ \E a \in ARCHIVES : CompileArchive(a)
                 \/ GuestIsMade
    PROVE  IInv'
<1> USE GuestBuildAssumption
    DEF IInv, Goes, Ends, Returns, Fails, treeVars, built, ApplyPatches,
        FindsItPatched, Refuses, Starts, Writes, Finishes
<1>1. TypeInv'
  <2>1. guest' \in GUESTS
    <3>1. CASE ApplyPatches
      BY <3>1 DEF TypeInv, GUESTS
    <3>2. CASE ConfigureGuest
      <4>1. guest' \in {[guest EXCEPT !.there = TRUE],
                       [guest EXCEPT !.there = TRUE, !.sound = ~guest.sound,
                                     !.current = {}]}
        BY <3>2 DEF ConfigureGuest
      <4> QED BY <4>1 DEF TypeInv, GUESTS
    <3>3. ASSUME NEW a \in ARCHIVES, CompileArchive(a)
          PROVE  guest' \in GUESTS
      BY <3>3 DEF TypeInv, CompileArchive, GUESTS
    <3>4. CASE GuestIsMade
      BY <3>4 DEF TypeInv, GuestIsMade
    <3> QED BY <3>1, <3>2, <3>3, <3>4
  <2>2. /\ packaging' \in BOOLEAN /\ anew' \in BOOLEAN
        /\ UNCHANGED <<mesa, ffmpeg, adapter, core, package>>
    BY DEF TypeInv, ConfigureGuest, CompileArchive, GuestIsMade
  <2> QED BY <2>1, <2>2 DEF TypeInv
<1>2. MesaInv'
  BY DEF MesaInv, ConfigureGuest, CompileArchive, GuestIsMade
<1>3. GuestInv'
  BY DEF TypeInv, GUESTS, GuestInv, ConfigureGuest, CompileArchive, GuestIsMade
<1>4. AdapterInv'
  <2>1. adapter' = adapter
    BY DEF ConfigureGuest, CompileArchive, GuestIsMade
  <2>2. /\ step \in {"guest", "guest configure", "guest make"}
        /\ step' \notin {"package", "package again"}
        /\ anew' => anew /\ step' # "idle"
    BY DEF ConfigureGuest, CompileArchive, GuestIsMade
  <2>3. anew' => packaging /\ adapter = NO_ADAPTER
    BY <2>2 DEF AdapterInv
  <2>4. anew' => packaging' /\ adapter' = NO_ADAPTER
    <3>1. anew' /\ packaging => packaging'
      BY DEF ConfigureGuest, CompileArchive, GuestIsMade
    <3> QED BY <2>1, <2>3, <3>1
  <2>5. \A o \in OBJECTS : NO_ADAPTER[o] \in {NONE, "series"}
    BY DEF NO_ADAPTER
  <2>6. anew' => \A o \in OBJECTS : adapter'[o] \in {NONE, "series"}
    BY <2>4, <2>5
  <2> QED BY <2>2, <2>4, <2>6 DEF AdapterInv
<1>5. CoreInv' /\ PackageIsTheSeries'
  BY DEF CoreInv, PackageIsTheSeries, ConfigureGuest, CompileArchive, GuestIsMade
<1> QED BY <1>1, <1>2, <1>3, <1>4, <1>5

\* What guest.mk makes for build-package.sh is of the series' tree.
LEMMA ObjectKeeps ==
    ASSUME IInv, NEW o \in OBJECTS, CompileObject(o)
    PROVE  IInv'
<1> USE GuestBuildAssumption DEF IInv, Goes, treeVars
<1>1. PICK of \in {"series", "other"} :
          /\ adapter' = [adapter EXCEPT ![o] = of]
          /\ carries = "series" => of = "series"
  BY DEF CompileObject
<1>2. adapter' \in [OBJECTS -> {NONE, "series", "other"}]
  BY <1>1 DEF TypeInv
<1>3. /\ step = "core" /\ step' = step
      /\ UNCHANGED <<treeVars, packaging, anew, tarball, mesa, ffmpeg, guest, core,
                    package>>
  BY DEF CompileObject
<1>4. TypeInv' /\ MesaInv'
  BY <1>2, <1>3 DEF TypeInv, MesaInv
<1>5. GuestInv' /\ CoreInv' /\ PackageIsTheSeries'
  BY <1>3 DEF GuestInv, CoreInv, PackageIsTheSeries
<1>6. AdapterInv'
  <2> SUFFICES ASSUME anew
               PROVE  AdapterInv'
    BY <1>3 DEF AdapterInv
  <2>1. packaging /\ \A p \in OBJECTS : adapter[p] \in {NONE, "series"}
    BY <1>3 DEF AdapterInv
  <2>2. of = "series"
    BY <1>1, <1>3, <2>1 DEF GuestInv
  <2>3. \A p \in OBJECTS : adapter'[p] \in {NONE, "series"}
    BY <1>1, <2>1, <2>2 DEF TypeInv
  <2> QED BY <1>3, <2>1, <2>3 DEF AdapterInv
<1> QED BY <1>4, <1>5, <1>6

\* Linked by build-package.sh, a core is of the series and its sound is whole.
LEMMA LinkKeeps ==
    ASSUME IInv, LinkCore
    PROVE  IInv'
<1> USE GuestBuildAssumption DEF IInv, LinkCore, treeVars, Returns
<1>1. TypeInv'
  <2>1. core' \in CORES
    BY DEF TypeInv, GUESTS, MayWantSound, CORES
  <2> QED BY <2>1 DEF TypeInv, Ends, Goes
<1>2. MesaInv' /\ GuestInv' /\ AdapterInv' /\ PackageIsTheSeries'
  BY DEF MesaInv, GuestInv, AdapterInv, PackageIsTheSeries, Ends, Goes
<1>3. CoreInv'
  <2> SUFFICES ASSUME step' = "package"
               PROVE  CoreInv'
    BY DEF CoreInv
  <2>1. packaging
    BY DEF Ends, Goes
  <2>2. PICK sound \in MayWantSound :
            /\ Links(sound)
            /\ core' = [patched |-> carries = "series" /\ guest.current = ARCHIVES,
                        sound |-> sound, pinned |-> mesa.pinned,
                        adapter |-> \A o \in OBJECTS : adapter[o] = "series"]
    OBVIOUS
  <2>3. carries = "series" /\ guest.current = ARCHIVES /\ mesa.pinned
    BY <2>1, <2>2 DEF GuestInv, MesaInv, Links
  <2>4. sound = guest.sound /\ (sound <=> AVCODEC \in ffmpeg.libs)
    BY <2>1, <2>2, <2>3 DEF GuestInv, MayWantSound, TypeInv, GUESTS
  <2>5. ffmpeg.libs \in {{}, FF_LIBS} /\ (sound <=> ffmpeg.libs = FF_LIBS)
    BY <2>2, <2>4 DEF Links
  <2>6. core' \in CORES /\ core'.patched /\ core'.pinned /\ core'.sound = sound
    BY <2>2, <2>3, <2>4 DEF CORES, TypeInv, GUESTS
  <2>7. anew' => \A o \in OBJECTS : adapter[o] = "series"
    <3> SUFFICES ASSUME anew', NEW o \in OBJECTS
                 PROVE  adapter[o] = "series"
      OBVIOUS
    <3>1. anew
      BY DEF Ends, Goes
    <3>2. adapter[o] \in {NONE, "series"}
      BY <3>1 DEF AdapterInv
    <3> QED BY <2>2, <3>2 DEF Links, ObjectsAreMade
  <2>8. core'.adapter <=> \A o \in OBJECTS : adapter[o] = "series"
    BY <2>2
  <2> QED BY <2>5, <2>6, <2>7, <2>8 DEF CoreInv
<1> QED BY <1>1, <1>2, <1>3

\* The rest of build-core.sh and build-package.sh, and what stops any script.
LEMMA PackageKeeps ==
    ASSUME IInv, LinkFails \/ WritePackage \/ PackageIsMade \/ Stopped
    PROVE  IInv'
<1> USE GuestBuildAssumption
    DEF IInv, Goes, Returns, Fails, treeVars, built, LinkFails, WritePackage,
        PackageIsMade, Stopped
<1>1. TypeInv'
  BY DEF TypeInv
<1>2. MesaInv'
  BY DEF MesaInv
<1>3. GuestInv' /\ CoreInv'
  BY DEF GuestInv, CoreInv, IsStopped
<1>4. AdapterInv'
  BY DEF AdapterInv
<1>5. PackageIsTheSeries'
  BY DEF CoreInv, PackageIsTheSeries
<1> QED BY <1>1, <1>2, <1>3, <1>4, <1>5

LEMMA NextIInv == IInv /\ [Next]_vars => IInv'
<1> SUFFICES ASSUME IInv, [Next]_vars
             PROVE  IInv'
  OBVIOUS
<1>1. CASE UNCHANGED vars
  <2> USE <1>1 DEF vars, run, built
  <2>1. TypeInv' /\ MesaInv'
    BY DEF IInv, TypeInv, MesaInv
  <2>2. GuestInv' /\ AdapterInv' /\ CoreInv' /\ PackageIsTheSeries'
    BY DEF IInv, GuestInv, AdapterInv, CoreInv, PackageIsTheSeries
  <2> QED BY <2>1, <2>2 DEF IInv
<1>2. CASE Next
  BY <1>2, MesaKeeps, FfmpegKeeps, GuestKeeps, ObjectKeeps, LinkKeeps, PackageKeeps
     DEF Next, Script
<1> QED BY <1>1, <1>2

(***************************************************************************)
(* Every package that is whole was linked from archives compiled of the    *)
(* series' own tree and from the pinned Mesa, whatever scripts were        *)
(* stopped and whatever people did before (build-package.sh:32-35); and    *)
(* its adapter is of the series' tree if no object of it was there when    *)
(* build-package.sh began (guest.mk:38-53, build-core.sh:39).              *)
(***************************************************************************)
THEOREM PackagesAreTheSeries == Spec => []PackageIsTheSeries
<1>1. IInv => PackageIsTheSeries
  BY DEF IInv
<1> QED BY <1>1, InitIInv, NextIInv, PTL DEF Spec

(***************************************************************************)
(* A package is made with sound exactly when all of FFmpeg is staged, and  *)
(* with a part of it none is made (build-guest.sh:44, build-core.sh:76).   *)
(***************************************************************************)
THEOREM PackagesSoundWhole == Spec => SoundIsWhole
<1> DEFINE Made ==
        step = "package" /\ package' \notin {package, NONE, CUT} =>
            /\ ffmpeg.libs \in {{}, FF_LIBS}
            /\ package'.sound <=> ffmpeg.libs = FF_LIBS
<1>1. IInv /\ [Next]_vars => [Made]_vars
  <2> SUFFICES ASSUME IInv, Next, step = "package", package' \notin {package, NONE, CUT}
               PROVE  /\ ffmpeg.libs \in {{}, FF_LIBS}
                      /\ package'.sound <=> ffmpeg.libs = FF_LIBS
    OBVIOUS
  <2>1. package' = core
    BY DEF Next, RunScript, Begins, Script, MesaIsThere, FetchMesa, CheckMesa,
           UnpackMesa, NinjaMakesMesa, NinjaEnds, VerifyMesa, ConfigureFfmpeg,
           StageLib, FfmpegIsStaged, ApplyPatches, ConfigureGuest, CompileArchive,
           GuestIsMade, CompileObject, LinkCore, LinkFails, WritePackage,
           PackageIsMade, Stopped, TouchTree, Clean
  <2> QED BY <2>1 DEF IInv, CoreInv
<1> QED BY <1>1, InitIInv, NextIInv, PTL DEF Spec, SoundIsWhole
=============================================================================
