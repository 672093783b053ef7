-------------------------- MODULE MemHandles_proofs --------------------------
(***************************************************************************)
(* What holds of every package, tree and sequence of operations.           *)
(*                                                                         *)
(* The package's contents are intact: the invariant types the tree's nodes *)
(* and says of each node alone that it is intact; every operation builds   *)
(* its tree by adding a node, leaving nodes out, or laying one tree over   *)
(* another, and each of these keeps trees sound.                           *)
(*                                                                         *)
(* Renames move the whole, open files follow, what is made is found: the   *)
(* tree's nodes lie at sequences of parts and a handle is on a node or on  *)
(* none.  A name at or beneath the old one is the old one and a rest, so   *)
(* two that differ still differ once the old name is replaced.             *)
(*                                                                         *)
(* What the machine does through its handles is what the filesystem allows *)
(* it: every step of MemHandles is a step of MemFs, a position being some  *)
(* place a write may begin.  So the tree is sound here too, and its sizes  *)
(* fit, which is what reading by a position that wraps rests on.           *)
(*                                                                         *)
(* A listing is fair: a tree stays finite, so a directory's names are      *)
(* listed, each of them once; of the names passed over, each was given, is *)
(* peeked at, or was not there to be answered at that moment.              *)
(***************************************************************************)
EXTENDS MemHandles, FiniteSetTheorems, WellFoundedInduction, SequenceTheorems, TLAPS

-----------------------------------------------------------------------------
(* The filesystem (MemFs).                                                 *)

Node == [dir : BOOLEAN, size : Sizes, fixed : Int]

Intact(node) ==
    Fixed(node) =>
        /\ \E i \in 1 .. Len(PACKAGE) : PACKAGE[i].size = node.fixed
        /\ node.size = 0

Sound(t) ==
    /\ t \in [DOMAIN t -> Node]
    /\ \A q \in DOMAIN t : Intact(t[q])

LEMMA SizesAreNumbers == 0 \in Sizes /\ Sizes \subseteq Nat
  BY MemFsAssumption DEF Sizes

-----------------------------------------------------------------------------
(* The ways a tree is built.                                               *)

LEMMA OverIsSound ==
  ASSUME NEW f, NEW g, Sound(f), Sound(g)
  PROVE  Sound(Over(f, g))
<1> DEFINE D == DOMAIN f \cup DOMAIN g
           both == Over(f, g)
<1>1. both = [q \in D |-> IF q \in DOMAIN f THEN f[q] ELSE g[q]]
  BY DEF Over
<1>2. ASSUME NEW q \in D PROVE both[q] \in Node /\ Intact(both[q])
  BY <1>1 DEF Sound
<1> HIDE DEF both
<1> QED
  BY <1>1, <1>2 DEF Sound, both

LEMMA WithIsSound ==
  ASSUME NEW t, Sound(t), NEW q, NEW node \in Node, Intact(node)
  PROVE  Sound(With(t, q, node))
<1>1. Sound([r \in {q} |-> node])
  BY DEF Sound
<1> QED
  BY <1>1, OverIsSound DEF With

LEMMA RestrictIsSound ==
  ASSUME NEW t, Sound(t), NEW S, S \subseteq DOMAIN t
  PROVE  Sound(Restrict(t, S))
<1>1. Restrict(t, S) = [q \in S |-> t[q]]
  BY DEF Restrict
<1> QED
  BY <1>1 DEF Sound

LEMMA WithoutIsSound ==
  ASSUME NEW t, Sound(t), NEW gone
  PROVE  Sound(Without(t, gone))
  BY RestrictIsSound DEF Without

\* A node the tree has, or the new one given.
LEMMA NodeOrIsSound ==
  ASSUME NEW t, Sound(t), NEW q, NEW new \in Node, Intact(new)
  PROVE  NodeOr(t, q, new) \in Node /\ Intact(NodeOr(t, q, new))
  BY DEF NodeOr, Sound

LEMMA NewNodes ==
  /\ NewFile \in Node /\ Intact(NewFile)
  /\ NewDir \in Node /\ Intact(NewDir)
<1>1. NOT_FIXED \in Int
  BY DEF NOT_FIXED
<1>2. ASSUME NEW dir \in BOOLEAN
      PROVE  NewNode(dir) \in Node /\ Intact(NewNode(dir))
  BY <1>1, SizesAreNumbers DEF NewNode, Node, Intact, Fixed
<1> QED
  BY <1>2 DEF NewFile, NewDir

\* Whether a node is a directory has no bearing on its being intact.
LEMMA DirIsIntact ==
  ASSUME NEW node \in Node, Intact(node), NEW dir \in BOOLEAN
  PROVE  [node EXCEPT !.dir = dir] \in Node /\ Intact([node EXCEPT !.dir = dir])
  BY DEF Node, Intact, Fixed

-----------------------------------------------------------------------------
(* The package's own tree.                                                 *)

\* A set of indices up to n has a greatest member.
LEMMA GreatestIndex ==
  ASSUME NEW n \in Nat, NEW S, S \subseteq 1 .. n, S # {}
  PROVE  Max(S) \in S
<1> DEFINE T == {n - i : i \in S}
<1>1. T \in SUBSET Nat /\ T # {}
  <2>1. \A i \in S : n - i \in Nat
    OBVIOUS
  <2> QED
    BY <2>1
<1>2. PICK m \in T : \A k \in T : m <= k
  <2> DEFINE Less == {ss \in Nat \X Nat : ss[1] < ss[2]}
  <2>1. IsWellFoundedOn(Less, Nat)
    BY NatLessThanWellFounded DEF OpToRel
  <2> HIDE DEF T
  <2>2. PICK m \in T : \A k \in T : <<k, m>> \notin Less
    <3> HIDE DEF Less
    <3> QED
      BY <1>1, <2>1, WFMin
  <2>3. ASSUME NEW k \in T PROVE m <= k
    <3>1. k \in Nat /\ m \in Nat
      BY <1>1
    <3>2. ~(k < m)
      BY <2>2, <3>1
    <3> QED
      BY <3>1, <3>2
  <2> QED
    BY <2>3
<1>3. PICK x \in S : m = n - x
  BY <1>2
<1>4. \A y \in S : x >= y
  <2> TAKE y \in S
  <2>1. m <= n - y
    BY <1>2
  <2> QED
    BY <1>3, <2>1
<1> QED
  BY <1>4 DEF Max

LEMMA PackageSizes ==
  /\ Len(PACKAGE) \in Nat
  /\ \A i \in 1 .. Len(PACKAGE) : PACKAGE[i].size \in Nat
<1> DEFINE Entry == [path : Seq(NAMES) \ {<<>>}, size : Nat]
<1>1. PACKAGE \in Seq(Entry)
  BY MemFsAssumption
<1>2. \A e \in Entry : e.size \in Nat
  OBVIOUS
<1> HIDE DEF Entry
<1>3. \A i \in 1 .. Len(PACKAGE) : PACKAGE[i] \in Entry
  BY <1>1
<1> QED
  BY <1>1, <1>2, <1>3

LEMMA PackageTreeIsSound ==
  ASSUME NEW d \in PACKAGE_DRIVES, NEW n \in 0 .. Len(PACKAGE)
  PROVE  Sound(PackageTree(d, n))
<1> DEFINE at(i) == <<d>> \o PACKAGE[i].path
           passing(q) == {i \in 1 .. n : AtOrBeneath(at(i), q)}
           ending(q) == {i \in 1 .. n : at(i) = q}
           D == {r \in Paths : passing(r) # {}}
           node(q) == [dir |-> Max(passing(q)) \notin ending(q),
                       size |-> 0,
                       fixed |-> IF ending(q) = {} THEN NOT_FIXED
                                 ELSE PACKAGE[Max(ending(q))].size]
<1>0. Len(PACKAGE) \in Nat /\ n \in Nat /\ n <= Len(PACKAGE)
  BY PackageSizes
<1>1. PackageTree(d, n) = [q \in D |-> node(q)]
  BY DEF PackageTree
<1>2. ASSUME NEW q PROVE node(q) \in Node /\ Intact(node(q))
  <2>1. CASE ending(q) = {}
    BY <2>1, SizesAreNumbers DEF Node, Intact, Fixed, NOT_FIXED
  <2>2. CASE ending(q) # {}
    <3> DEFINE last == Max(ending(q))
    <3>1. last \in 1 .. n
      <4>1. ending(q) \subseteq 1 .. n
        OBVIOUS
      <4> HIDE DEF ending
      <4> QED
        BY <1>0, <4>1, <2>2, GreatestIndex
    <3>2. node(q) = [dir |-> Max(passing(q)) \notin ending(q), size |-> 0,
                     fixed |-> PACKAGE[last].size]
      BY <2>2
    <3> HIDE DEF last, node, ending, passing
    <3>3. last \in 1 .. Len(PACKAGE) /\ PACKAGE[last].size \in Nat
      BY <1>0, <3>1, PackageSizes
    <3>4. node(q) \in Node /\ node(q).fixed = PACKAGE[last].size
                           /\ node(q).size = 0
      BY <3>2, <3>3, SizesAreNumbers DEF Node
    <3> QED
      BY <3>3, <3>4 DEF Intact
  <2> QED
    BY <2>1, <2>2
<1> HIDE DEF D, node
<1> QED
  BY <1>1, <1>2 DEF Sound

\* A moved tree is made of nodes of the tree it was.
LEMMA MovedTreeIsSound ==
  ASSUME Sound(tree), NEW from, NEW to
  PROVE  Sound(MovedTree(from, to))
<1> DEFINE moving == {q \in DOMAIN tree : AtOrBeneath(q, from)}
           left == {q \in DOMAIN tree :
                       ~AtOrBeneath(q, from) /\ ~AtOrBeneath(q, to)}
           new == {Renamed(m, from, to) : m \in moving}
           moved == [q \in new |->
                       tree[CHOOSE m \in moving : Renamed(m, from, to) = q]]
<1>1. Sound(Restrict(tree, left))
  BY RestrictIsSound
<1>2. Sound(moved)
  <2>1. ASSUME NEW q \in new PROVE moved[q] \in Node /\ Intact(moved[q])
    <3>1. (CHOOSE m \in moving : Renamed(m, from, to) = q) \in moving
      OBVIOUS
    <3> QED
      BY <3>1 DEF Sound
  <2> QED
    BY <2>1 DEF Sound
<1> HIDE DEF moved, left
<1>3. Sound(Over(moved, Restrict(tree, left)))
  BY <1>1, <1>2, OverIsSound
<1> QED
  BY <1>1, <1>3 DEF MovedTree, moved, left

-----------------------------------------------------------------------------
(* The invariant.                                                          *)

IInv == Sound(tree)

LEMMA InitIInv == Init => IInv
  BY DEF Init, IInv, Sound

LEMMA NextIInv == IInv /\ [Next]_vars => IInv'
<1> SUFFICES ASSUME Sound(tree), [Next]_vars PROVE Sound(tree')
  BY DEF IInv, Sound
<1>0. CASE tree' = tree
  BY <1>0
<1>1. CASE Drives
  <2>1. ASSUME NEW d \in DRIVES, MountEmpty(d) PROVE tree' = tree
    BY <2>1 DEF MountEmpty
  <2>2. ASSUME NEW d \in PACKAGE_DRIVES, NEW n \in 0 .. Len(PACKAGE),
               MountRpkg(d, n)
        PROVE  Sound(tree')
    BY <2>2, PackageTreeIsSound, OverIsSound DEF MountRpkg
  <2>3. ASSUME NEW d \in AllDrives, Unmount(d) PROVE Sound(tree')
    BY <2>3, WithoutIsSound DEF Unmount
  <2>4. ASSUME NEW ver \in VERSIONS, SetEpocVer(ver) PROVE tree' = tree
    BY <2>4 DEF SetEpocVer
  <2> QED
    BY <1>0, <1>1, <2>1, <2>2, <2>3, <2>4 DEF Drives
<1>2. CASE Files
  <2>1. ASSUME NEW h \in HANDLES, NEW p \in Paths, NEW mode \in MODES,
               OpenFile(h, p, mode)
        PROVE  Sound(tree')
    <3> DEFINE q == Rewritten(p)
               node == NodeOr(tree, q, NewFile)
               put == IF Truncates(mode) THEN [node EXCEPT !.size = 0] ELSE node
    <3>1. node \in Node /\ Intact(node)
      BY NodeOrIsSound, NewNodes
    <3>2. put \in Node /\ Intact(put)
      BY <3>1, SizesAreNumbers DEF Node, Intact, Fixed
    <3>3. tree' = With(tree, q, put)
      BY <2>1 DEF OpenFile
    <3> HIDE DEF put
    <3> QED
      BY <3>2, <3>3, WithIsSound
  <2>2. ASSUME NEW h \in HANDLES, NEW place \in Sizes, NEW total \in Sizes,
               WriteFile(h, place, total)
        PROVE  Sound(tree')
    <3> DEFINE q == handles[h].path
    <3> DEFINE size == Larger(tree[q].size, place + total)
    <3>1. tree' = [tree EXCEPT ![q].size = size] /\ ~Fixed(tree[q])
      BY <2>2 DEF WriteFile
    <3>2. q \in DOMAIN tree => size \in Sizes
      <4>1. place + total \in Sizes
        BY <2>2, MemFsAssumption DEF WriteFile, Sizes
      <4> QED
        BY <4>1 DEF Sound, Node, Larger
    <3> HIDE DEF size
    <3> QED
      BY <3>1, <3>2 DEF Sound, Node, Intact, Fixed
  <2>3. ASSUME NEW h \in HANDLES, NEW size \in Sizes, Resize(h, size)
        PROVE  Sound(tree')
    <3> DEFINE q == handles[h].path
    <3>1. tree' = [tree EXCEPT ![q].size = size] /\ ~Fixed(tree[q])
      BY <2>3 DEF Resize
    <3> QED
      BY <3>1 DEF Sound, Node, Intact, Fixed
  <2>4. ASSUME NEW h \in HANDLES, CloseFile(h) PROVE tree' = tree
    BY <2>4 DEF CloseFile
  <2> QED
    BY <1>0, <1>2, <2>1, <2>2, <2>3, <2>4 DEF Files
<1>3. CASE Names
  <2>1. ASSUME NEW p1 \in Paths, NEW p2 \in Paths, Replace(p1, p2)
        PROVE  Sound(tree')
    BY <2>1, MovedTreeIsSound DEF Replace
  <2>2. ASSUME NEW p \in Paths, DeleteEntry(p) PROVE Sound(tree')
    BY <2>2, WithoutIsSound DEF DeleteEntry
  <2>3. ASSUME NEW p \in Paths, CreateDirectory(p) PROVE Sound(tree')
    <3> DEFINE q == Rewritten(p)
               node == NodeOr(tree, q, NewDir)
    <3>1. node \in Node /\ Intact(node)
      BY NodeOrIsSound, NewNodes
    <3>2. tree' = With(tree, q, [node EXCEPT !.dir = TRUE])
      BY <2>3 DEF CreateDirectory
    <3> HIDE DEF node
    <3> QED
      BY <3>1, <3>2, DirIsIntact, WithIsSound
  <2>4. ASSUME NEW p \in Paths, CreateDirectories(p) PROVE Sound(tree')
    <3> DEFINE way == {SubSeq(p, 1, i) : i \in 2 .. Len(p)}
               node(q) == NodeOr(tree, q, NewDir)
               D == DOMAIN tree \cup way
               made(q) == IF q \in way THEN [node(q) EXCEPT !.dir = TRUE]
                          ELSE tree[q]
    <3>1. tree' = [q \in D |-> made(q)]
      BY <2>4 DEF CreateDirectories
    <3>2. ASSUME NEW q \in D PROVE made(q) \in Node /\ Intact(made(q))
      <4>1. CASE q \in way
        BY <4>1, NodeOrIsSound, NewNodes, DirIsIntact
      <4>2. CASE q \notin way
        BY <4>2 DEF Sound
      <4> QED
        BY <4>1, <4>2
    <3> HIDE DEF made, D
    <3> QED
      BY <3>1, <3>2 DEF Sound
  <2> QED
    BY <1>3, <2>1, <2>2, <2>3, <2>4 DEF Names
<1> QED
  BY <1>0, <1>1, <1>2, <1>3 DEF Next, vars

-----------------------------------------------------------------------------

\* Whatever the machine opens, writes, renames or deletes, a packaged file
\* keeps the size the package gives it and gains no bytes of its own.
THEOREM PackageIsIntact == Spec => []PackageContentsIntact
<1>1. IInv => PackageContentsIntact
  BY DEF IInv, Sound, Intact, PackageContentsIntact
<1> QED
  BY <1>1, InitIInv, NextIInv, PTL DEF Spec

-----------------------------------------------------------------------------
(* Sequences under a prefix that is replaced.                              *)

\* What paths are made of.
Parts == AllDrives \cup NAMES

\* A sequence is a prefix of another and what is left of it.
LEMMA PrefixAndRest ==
  ASSUME NEW S, NEW p \in Seq(S), NEW q \in Seq(S), IsPrefix(p, q)
  PROVE  /\ SubSeq(q, Len(p) + 1, Len(q)) \in Seq(S)
         /\ q = p \o SubSeq(q, Len(p) + 1, Len(q))
<1> DEFINE rest == SubSeq(q, Len(p) + 1, Len(q))
<1>1. Len(p) \in Nat /\ Len(q) \in Nat /\ Len(p) <= Len(q)
  BY LenProperties DEF IsPrefix
<1>2. p = SubSeq(q, 1, Len(p))
  BY SubSeqFull DEF IsPrefix
<1>3. SubSeq(q, 1, Len(p)) \o rest = SubSeq(q, 1, Len(q))
  <2>1. \A m \in 1 .. Len(q) + 1, k \in 0 .. Len(q) :
           m - 1 <= k => SubSeq(q, m, k) \o SubSeq(q, k + 1, Len(q))
                            = SubSeq(q, m, Len(q))
    <3> TAKE m \in 1 .. Len(q) + 1, k \in 0 .. Len(q)
    <3> HAVE m - 1 <= k
    <3>1. k \in m - 1 .. Len(q) /\ Len(q) \in k .. Len(q)
      BY <1>1
    <3> QED
      BY <3>1, ConcatAdjacentSubSeq
  <2>2. 1 \in 1 .. Len(q) + 1 /\ Len(p) \in 0 .. Len(q) /\ 1 - 1 <= Len(p)
    BY <1>1
  <2> QED
    BY <2>1, <2>2
<1>4. rest \in Seq(S)
  <2>1. \A i \in Len(p) + 1 .. Len(q) : q[i] \in S
    BY <1>1, LenProperties
  <2> QED
    BY <1>1, <2>1, SubSeqProperties
<1> QED
  BY <1>2, <1>3, <1>4, SubSeqFull

\* What is put after a sequence is what is left of the whole.
LEMMA RestOfConcat ==
  ASSUME NEW S, NEW p \in Seq(S), NEW s \in Seq(S)
  PROVE  /\ IsPrefix(p, p \o s)
         /\ SubSeq(p \o s, Len(p) + 1, Len(p \o s)) = s
<1> DEFINE q == p \o s
<1>1. Len(p) \in Nat /\ Len(s) \in Nat
  BY LenProperties
<1>2. q \in Seq(S) /\ Len(q) = Len(p) + Len(s)
  BY ConcatProperties
<1>3. IsPrefix(p, q)
  <2>1. CASE Len(p) = 0
    <3>1. SubSeq(p, 1, Len(p)) = << >> /\ SubSeq(q, 1, Len(p)) = << >>
      BY <2>1, SubSeqEmpty
    <3> QED
      BY <1>1, <1>2, <3>1 DEF IsPrefix
  <2>2. CASE Len(p) > 0
    <3>1. SubSeq(q, 1, Len(p)) = SubSeq(p, 1, Len(p))
      BY <1>1, <2>2, SubSeqOfConcat1
    <3> QED
      BY <1>1, <1>2, <3>1 DEF IsPrefix
  <2> QED
    BY <1>1, <2>1, <2>2
<1>4. q = p \o SubSeq(q, Len(p) + 1, Len(q)) /\
      SubSeq(q, Len(p) + 1, Len(q)) \in Seq(S)
  BY <1>2, <1>3, PrefixAndRest
<1>5. SubSeq(q, Len(p) + 1, Len(q)) = s
  <2> DEFINE r == SubSeq(q, Len(p) + 1, Len(q))
  <2>1. p \o s = p \o r /\ r \in Seq(S)
    BY <1>4
  <2> HIDE DEF r, q
  <2>2. s = r
    BY <2>1, ConcatSimplifications
  <2> QED
    BY <2>2 DEF r
<1> QED
  BY <1>3, <1>5

\* Names renamed stay apart, and lie at or beneath the new name.
LEMMA RenamingMoves ==
  ASSUME NEW S, NEW from \in Seq(S), NEW to \in Seq(S), NEW q \in Seq(S),
         AtOrBeneath(q, from)
  PROVE  /\ Renamed(q, from, to) \in Seq(S)
         /\ AtOrBeneath(Renamed(q, from, to), to)
         /\ SubSeq(Renamed(q, from, to), Len(to) + 1, Len(Renamed(q, from, to)))
              = SubSeq(q, Len(from) + 1, Len(q))
<1> DEFINE rest == SubSeq(q, Len(from) + 1, Len(q))
<1>1. rest \in Seq(S)
  BY PrefixAndRest DEF AtOrBeneath
<1>2. Renamed(q, from, to) = to \o rest
  BY DEF Renamed
<1> HIDE DEF rest
<1>3. IsPrefix(to, to \o rest) /\ SubSeq(to \o rest, Len(to) + 1, Len(to \o rest)) = rest
  BY <1>1, RestOfConcat
<1>4. to \o rest \in Seq(S)
  BY <1>1, ConcatProperties
<1> QED
  BY <1>2, <1>3, <1>4 DEF AtOrBeneath, rest

LEMMA RenamedItself ==
  ASSUME NEW S, NEW from \in Seq(S), NEW to \in Seq(S)
  PROVE  AtOrBeneath(from, from) /\ Renamed(from, from, to) = to
<1>1. to = to \o << >>
  BY ConcatEmptySeq
<1>2. Len(from) \in Nat /\ IsPrefix(from, from)
  BY LenProperties DEF IsPrefix
<1>3. SubSeq(from, Len(from) + 1, Len(from)) = << >>
  BY <1>2, SubSeqEmpty
<1> QED
  BY <1>1, <1>2, <1>3 DEF AtOrBeneath, Renamed

LEMMA RenamingKeepsApart ==
  ASSUME NEW S, NEW from \in Seq(S), NEW to \in Seq(S),
         NEW q \in Seq(S), NEW r \in Seq(S),
         AtOrBeneath(q, from), AtOrBeneath(r, from),
         Renamed(q, from, to) = Renamed(r, from, to)
  PROVE  q = r
<1>1. SubSeq(q, Len(from) + 1, Len(q)) = SubSeq(r, Len(from) + 1, Len(r))
  <2>1. SubSeq(Renamed(q, from, to), Len(to) + 1, Len(Renamed(q, from, to)))
              = SubSeq(q, Len(from) + 1, Len(q))
    BY RenamingMoves
  <2>2. SubSeq(Renamed(r, from, to), Len(to) + 1, Len(Renamed(r, from, to)))
              = SubSeq(r, Len(from) + 1, Len(r))
    BY RenamingMoves
  <2> QED
    BY <2>1, <2>2
<1>2. /\ q = from \o SubSeq(q, Len(from) + 1, Len(q))
      /\ r = from \o SubSeq(r, Len(from) + 1, Len(r))
  BY PrefixAndRest DEF AtOrBeneath
<1> QED
  BY <1>1, <1>2

-----------------------------------------------------------------------------
\* A sequence put before another gives the whole its first.
LEMMA FirstOfConcat ==
  ASSUME NEW S, NEW s \in Seq(S), NEW t \in Seq(S), s # << >>
  PROVE  s \o t \in Seq(S) /\ s \o t # << >> /\ Head(s \o t) = Head(s)
<1>1. Len(s) \in Nat \ {0} /\ Len(t) \in Nat
  BY EmptySeq, LenProperties
<1>2. s \o t \in Seq(S) /\ s \o t # << >>
  BY ConcatProperties, ConcatEqualIffEmpty
<1>3. 1 \in 1 .. Len(s) + Len(t) /\ 1 <= Len(s)
  BY <1>1
<1>4. (s \o t)[1] = s[1]
  BY <1>3, ConcatProperties
<1> QED
  BY <1>2, <1>4

\* Every path a caller may give, as the tree knows it, is a sequence of parts
\* and names the drive the caller named.
LEMMA PathsAreSequences ==
  ASSUME NEW p \in Paths
  PROVE  p \in Seq(Parts) /\ p # << >>
<1>1. PICK d \in AllDrives, ns \in NameSeqs : p = PathOn(d, ns)
  BY DEF Paths
<1>2. PICK n \in 1 .. MAX_DEPTH : ns \in [1 .. n -> NAMES]
  BY <1>1 DEF NameSeqs
<1>3. n \in Nat
  BY <1>2, MemFsAssumption
<1>4. ns \in Seq(NAMES)
  BY <1>2, <1>3, SeqDef
<1>5. ns \in Seq(Parts)
  BY <1>4, SeqMonotonic DEF Parts
<1>6. <<d>> \in Seq(Parts) /\ <<d>> # << >>
  BY <1>1 DEF Parts
<1> QED
  BY <1>1, <1>5, <1>6, ConcatProperties, ConcatEqualIffEmpty DEF PathOn

LEMMA RewrittenIsAPath ==
  ASSUME NEW p \in Paths
  PROVE  /\ Rewritten(p) \in Seq(Parts) \ {<< >>}
         /\ Head(Rewritten(p)) = Head(p)
<1>1. p \in Seq(Parts) /\ p # << >> /\ Len(p) \in Nat
  BY PathsAreSequences, LenProperties
<1>2. CASE eka2 /\ \E m \in MOVED : IsPrefix(m, Tail(p))
  <2> DEFINE m == CHOOSE m \in MOVED : IsPrefix(m, Tail(p))
             drive == <<Head(p)>>
             there == MOVED_TO[m]
             rest == SubSeq(p, Len(m) + 2, Len(p))
  <2>1. m \in MOVED /\ m \in Seq(NAMES) /\ Len(m) \in Nat
    BY <1>2, MemFsAssumption, LenProperties
  <2>2. rest \in Seq(Parts)
    <3> HIDE DEF m
    <3>1. Len(m) + 2 \in Int /\ \A i \in Len(m) + 2 .. Len(p) : p[i] \in Parts
      BY <1>1, <2>1, LenProperties
    <3> QED
      BY <1>1, <3>1, SubSeqProperties
  <2>3. there \in Seq(Parts)
    <3> HIDE DEF m
    <3> QED
      BY <2>1, MemFsAssumption, SeqMonotonic DEF Parts
  <2>4. drive \in Seq(Parts) /\ drive # << >> /\ Head(drive) = Head(p)
    BY <1>1, HeadTailProperties
  <2>5. Rewritten(p) = drive \o there \o rest
    BY <1>2 DEF Rewritten
  <2> HIDE DEF drive, rest, there, m
  <2>6. /\ drive \o there \in Seq(Parts)
        /\ drive \o there # << >>
        /\ Head(drive \o there) = Head(p)
    BY <2>3, <2>4, FirstOfConcat
  <2> DEFINE front == drive \o there
  <2>7. front \in Seq(Parts) /\ front # << >> /\ Head(front) = Head(p)
    BY <2>6
  <2> HIDE DEF front
  <2>8. front \o rest \in Seq(Parts) /\ front \o rest # << >> /\ Head(front \o rest) = Head(p)
    BY <2>2, <2>7, FirstOfConcat
  <2> QED
    BY <2>5, <2>8 DEF front
<1>3. CASE ~(eka2 /\ \E m \in MOVED : IsPrefix(m, Tail(p)))
  BY <1>1, <1>3 DEF Rewritten
<1> QED
  BY <1>2, <1>3

-----------------------------------------------------------------------------
(* Where the nodes of a moved tree are.                                    *)

AtPaths(t) == DOMAIN t \subseteq Seq(Parts) \ {<< >>}

LEMMA MovedTreeHolds ==
  ASSUME AtPaths(tree), NEW from \in Seq(Parts), NEW to \in Seq(Parts),
         ~Beneath(to, from)
  PROVE  LET t == MovedTree(from, to) IN
         /\ \A m \in DOMAIN tree : AtOrBeneath(m, from) =>
               /\ Renamed(m, from, to) \in DOMAIN t
               /\ t[Renamed(m, from, to)] = tree[m]
         /\ \A q \in DOMAIN tree : ~AtOrBeneath(q, from) /\ ~AtOrBeneath(q, to) =>
               q \in DOMAIN t /\ t[q] = tree[q]
         /\ \A q \in DOMAIN t :
               \/ \E m \in DOMAIN tree :
                     AtOrBeneath(m, from) /\ q = Renamed(m, from, to)
               \/ q \in DOMAIN tree /\ ~AtOrBeneath(q, from) /\ ~AtOrBeneath(q, to)
<1> DEFINE moving == {q \in DOMAIN tree : AtOrBeneath(q, from)}
           left == {q \in DOMAIN tree :
                       ~AtOrBeneath(q, from) /\ ~AtOrBeneath(q, to)}
           new == {Renamed(m, from, to) : m \in moving}
           moved == [q \in new |->
                       tree[CHOOSE m \in moving : Renamed(m, from, to) = q]]
           t == MovedTree(from, to)
<1>1. t = [q \in new \cup left |-> IF q \in new THEN moved[q] ELSE tree[q]]
  <2>1. t = Over(moved, Restrict(tree, left))
    BY DEF MovedTree
  <2>2. Restrict(tree, left) = [q \in left |-> tree[q]]
    BY DEF Restrict
  <2> HIDE DEF moved, left, t, new
  <2>3. DOMAIN moved = new /\ DOMAIN Restrict(tree, left) = left
    BY <2>2 DEF moved
  <2> QED
    BY <2>1, <2>2, <2>3 DEF Over
<1>2. ASSUME NEW m \in moving
      PROVE  /\ AtOrBeneath(Renamed(m, from, to), to)
             /\ moved[Renamed(m, from, to)] = tree[m]
  <2> DEFINE k == CHOOSE k \in moving : Renamed(k, from, to) = Renamed(m, from, to)
  <2>1. k \in moving /\ Renamed(k, from, to) = Renamed(m, from, to)
    OBVIOUS
  <2>2. moved[Renamed(m, from, to)] = tree[k]
    OBVIOUS
  <2> HIDE DEF k, moved
  <2>3. k = m
    BY <2>1, RenamingKeepsApart DEF AtPaths
  <2>4. AtOrBeneath(Renamed(m, from, to), to)
    BY RenamingMoves DEF AtPaths
  <2> QED
    BY <2>2, <2>3, <2>4
<1>3. ASSUME NEW q \in left PROVE q \notin new
  BY <1>2
<1> HIDE DEF moved, t
<1> SUFFICES
       /\ \A m \in moving : Renamed(m, from, to) \in DOMAIN t
                            /\ t[Renamed(m, from, to)] = tree[m]
       /\ \A q \in left : q \in DOMAIN t /\ t[q] = tree[q]
       /\ \A q \in DOMAIN t : q \in new \/ q \in left
  BY DEF t
<1>4. DOMAIN t = new \cup left
  BY <1>1
<1>5. \A m \in moving : Renamed(m, from, to) \in new
  OBVIOUS
<1> HIDE DEF new, moving, left
<1> QED
  BY <1>1, <1>2, <1>3, <1>4, <1>5

LEMMA MovedTreeIsPlaced ==
  ASSUME AtPaths(tree), NEW from \in Seq(Parts), NEW to \in Seq(Parts) \ {<< >>}
  PROVE  AtPaths(MovedTree(from, to))
<1>1. CASE Beneath(to, from)
  BY <1>1 DEF MovedTree, Restrict, AtPaths
<1>2. CASE ~Beneath(to, from)
  <2> DEFINE t == MovedTree(from, to)
  <2>1. ASSUME NEW m \in DOMAIN tree, AtOrBeneath(m, from)
        PROVE  Renamed(m, from, to) \in Seq(Parts) \ {<< >>}
    <3> DEFINE rest == SubSeq(m, Len(from) + 1, Len(m))
    <3>1. rest \in Seq(Parts)
      BY <2>1, PrefixAndRest DEF AtPaths, AtOrBeneath
    <3>2. Renamed(m, from, to) = to \o rest
      BY DEF Renamed
    <3> HIDE DEF rest
    <3> QED
      BY <3>1, <3>2, FirstOfConcat
  <2>2. \A q \in DOMAIN t :
               \/ \E m \in DOMAIN tree :
                     AtOrBeneath(m, from) /\ q = Renamed(m, from, to)
               \/ q \in DOMAIN tree
    BY <1>2, MovedTreeHolds
  <2> HIDE DEF t
  <2>3. AtPaths(t)
    BY <2>1, <2>2 DEF AtPaths
  <2> QED
    BY <2>3 DEF t
<1> QED
  BY <1>1, <1>2

-----------------------------------------------------------------------------
(* The tree's nodes are at paths, and a handle is on a node or on none.    *)

HandleInv ==
    /\ handles \in [HANDLES -> [path : Seq(Parts), mode : MODES \cup {{}}]]
    /\ \A h \in HANDLES : handles[h].path = GONE \/ handles[h].path \in DOMAIN tree

PInv == AtPaths(tree) /\ HandleInv

LEMMA InitPInv == Init => PInv
<1> SUFFICES ASSUME Init PROVE PInv
  OBVIOUS
<1>1. AtPaths(tree)
  BY DEF Init, AtPaths
<1>2. GONE \in Seq(Parts)
  BY EmptySeq DEF GONE
<1>3. HandleInv
  BY <1>2 DEF Init, HandleInv, Closed
<1> QED
  BY <1>1, <1>3 DEF PInv

\* A tree with more in it, and the handles on it where they were.
LEMMA MoreNodes ==
  ASSUME PInv, AtPaths(tree'), DOMAIN tree \subseteq DOMAIN tree', handles' = handles
  PROVE  PInv'
  BY DEF PInv, AtPaths, HandleInv

\* Nodes are erased, and no handle is left on one of them.
LEMMA FewerNodes ==
  ASSUME PInv, NEW gone, tree' = Without(tree, gone), handles' = Dangle(gone)
  PROVE  PInv'
<1>1. DOMAIN tree' = DOMAIN tree \ gone
  BY DEF Without, Restrict
<1>2. AtPaths(tree')
  BY <1>1 DEF PInv, AtPaths
<1>3. GONE \in Seq(Parts)
  BY EmptySeq DEF GONE
<1>4. ASSUME NEW h \in HANDLES
      PROVE  /\ handles'[h] \in [path : Seq(Parts), mode : MODES \cup {{}}]
             /\ handles'[h].path = GONE \/ handles'[h].path \in DOMAIN tree'
  <2>1. CASE handles[h].path \in gone
    <3>1. handles'[h] = [handles[h] EXCEPT !.path = GONE]
      BY <2>1 DEF Dangle
    <3> QED
      BY <1>3, <3>1 DEF PInv, HandleInv
  <2>2. CASE handles[h].path \notin gone
    <3>1. handles'[h] = handles[h]
      BY <2>2 DEF Dangle
    <3> QED
      BY <1>1, <2>2, <3>1 DEF PInv, HandleInv
  <2> QED
    BY <2>1, <2>2
<1>5. handles' \in [HANDLES -> [path : Seq(Parts), mode : MODES \cup {{}}]]
  <2>1. handles' = [h \in HANDLES |-> handles'[h]]
    BY DEF Dangle
  <2> QED
    BY <1>4, <2>1
<1> QED
  BY <1>2, <1>4, <1>5 DEF PInv, HandleInv

\* A node that is put somewhere is there, beside all there was.
LEMMA WithHas ==
  ASSUME NEW t, NEW q, NEW node
  PROVE  DOMAIN With(t, q, node) = DOMAIN t \cup {q}
  BY DEF With, Over

\* Every way the tree grows keeps its nodes at paths.
LEMMA WithIsPlaced ==
  ASSUME PInv, NEW q \in Seq(Parts) \ {<< >>}, NEW node
  PROVE  AtPaths(With(tree, q, node)) /\ DOMAIN tree \subseteq DOMAIN With(tree, q, node)
<1>1. DOMAIN With(tree, q, node) = DOMAIN tree \cup {q}
  BY WithHas
<1> HIDE DEF With
<1> QED
  BY <1>1 DEF PInv, AtPaths

LEMMA RenameKeepsPInv ==
  ASSUME PInv, NEW p1 \in Paths, NEW p2 \in Paths, Replace(p1, p2)
  PROVE  PInv'
<1> DEFINE from == Rewritten(p1)
           to == Rewritten(p2)
<1>1. from \in Seq(Parts) \ {<< >>} /\ to \in Seq(Parts) \ {<< >>}
  BY RewrittenIsAPath
<1>2. /\ HasParent(from) /\ Exists(from)
      /\ handles' = [h \in HANDLES |-> [handles[h] EXCEPT
                          !.path = Follow(@, from, to)]]
      /\ tree' = MovedTree(from, to)
  BY DEF Replace
<1> HIDE DEF from, to
<1>3. from \in DOMAIN tree
  BY <1>2 DEF HasParent, Exists
<1>4. AtPaths(tree')
  BY <1>1, <1>2, MovedTreeIsPlaced DEF PInv
<1>5. ASSUME NEW q, q = GONE \/ q \in DOMAIN tree
      PROVE  Follow(q, from, to) = GONE \/ Follow(q, from, to) \in DOMAIN tree'
  <2>1. CASE Follow(q, from, to) = GONE
    BY <2>1
  <2>2. CASE Follow(q, from, to) # GONE /\ ~Beneath(q, from)
    <3>1. q # from /\ ~Beneath(q, to) /\ Follow(q, from, to) = q
      BY <2>2 DEF Follow
    <3>2. q \in DOMAIN tree
      BY <1>5, <2>2, <3>1
    <3>3. ~AtOrBeneath(q, from)
      BY <2>2, <3>1 DEF Beneath, AtOrBeneath, IsStrictPrefix
    <3>4. CASE q = to
      <4>1. ~Beneath(to, from)
        BY <2>2, <3>4
      <4>2. AtOrBeneath(from, from) /\ Renamed(from, from, to) = to
        BY <1>1, RenamedItself
      <4>3. to \in DOMAIN tree'
        BY <1>1, <1>2, <1>3, <4>1, <4>2, MovedTreeHolds DEF PInv
      <4> QED
        BY <3>1, <3>4, <4>3
    <3>5. CASE q # to
      <4>1. ~AtOrBeneath(q, to)
        BY <3>1, <3>5 DEF Beneath, AtOrBeneath, IsStrictPrefix
      <4>2. CASE Beneath(to, from)
        BY <1>2, <3>1, <3>2, <3>3, <4>1, <4>2 DEF MovedTree, Restrict
      <4>3. CASE ~Beneath(to, from)
        BY <1>1, <1>2, <3>1, <3>2, <3>3, <4>1, <4>3, MovedTreeHolds DEF PInv
      <4> QED
        BY <4>2, <4>3
    <3> QED
      BY <3>4, <3>5
  <2>3. CASE Follow(q, from, to) # GONE /\ Beneath(q, from)
    <3>1. ~Beneath(to, from) /\ Follow(q, from, to) = Renamed(q, from, to)
      BY <2>3 DEF Follow
    <3>2. AtOrBeneath(q, from)
      BY <2>3 DEF Beneath, AtOrBeneath, IsStrictPrefix
    <3>3. q \in DOMAIN tree
      <4>1. ASSUME q = GONE PROVE FALSE
        <5>1. Len(from) \in Nat \ {0} /\ Len(q) = 0
          BY <1>1, <4>1, EmptySeq DEF GONE
        <5> QED
          BY <3>2, <5>1 DEF AtOrBeneath, IsPrefix
      <4> QED
        BY <1>5, <4>1
    <3> QED
      BY <1>1, <1>2, <3>1, <3>2, <3>3, MovedTreeHolds DEF PInv
  <2> QED
    BY <2>1, <2>2, <2>3
<1>6. ASSUME NEW h \in HANDLES
      PROVE  /\ handles'[h] \in [path : Seq(Parts), mode : MODES \cup {{}}]
             /\ handles'[h].path = GONE \/ handles'[h].path \in DOMAIN tree'
  <2> DEFINE q == Follow(handles[h].path, from, to)
  <2>1. handles'[h] = [handles[h] EXCEPT !.path = q]
    BY <1>2
  <2>2. q = GONE \/ q \in DOMAIN tree'
    BY <1>5 DEF PInv, HandleInv
  <2> HIDE DEF q
  <2>3. q \in Seq(Parts)
    BY <1>4, <2>2, EmptySeq DEF AtPaths, GONE
  <2> QED
    BY <2>1, <2>2, <2>3 DEF PInv, HandleInv
<1>7. handles' \in [HANDLES -> [path : Seq(Parts), mode : MODES \cup {{}}]]
  <2>1. handles' = [h \in HANDLES |-> handles'[h]]
    BY <1>2
  <2> QED
    BY <1>6, <2>1
<1> QED
  BY <1>4, <1>6, <1>7 DEF PInv, HandleInv

LEMMA NextPInv == PInv /\ [Next]_vars => PInv'
<1> SUFFICES ASSUME PInv, [Next]_vars PROVE PInv'
  OBVIOUS
<1>0. CASE tree' = tree /\ handles' = handles
  BY <1>0, MoreNodes DEF PInv, AtPaths
<1>1. CASE Drives
  <2>1. ASSUME NEW d \in DRIVES, MountEmpty(d) PROVE PInv'
    BY <1>0, <2>1 DEF MountEmpty
  <2>2. ASSUME NEW d \in PACKAGE_DRIVES, NEW n \in 0 .. Len(PACKAGE),
               MountRpkg(d, n)
        PROVE  PInv'
    <3>1. tree' = Over(PackageTree(d, n), tree) /\ handles' = handles
      BY <2>2 DEF MountRpkg
    <3>2. DOMAIN PackageTree(d, n) \subseteq Seq(Parts) \ {<< >>}
      BY PathsAreSequences DEF PackageTree
    <3>3. DOMAIN tree' = DOMAIN PackageTree(d, n) \cup DOMAIN tree
      BY <3>1 DEF Over
    <3> QED
      BY <3>1, <3>2, <3>3, MoreNodes DEF PInv, AtPaths
  <2>3. ASSUME NEW d \in AllDrives, Unmount(d) PROVE PInv'
    BY <2>3, FewerNodes DEF Unmount
  <2>4. ASSUME NEW ver \in VERSIONS, SetEpocVer(ver) PROVE PInv'
    BY <1>0, <2>4 DEF SetEpocVer
  <2> QED
    BY <1>1, <2>1, <2>2, <2>3, <2>4 DEF Drives
<1>2. CASE Files
  <2>1. ASSUME NEW h \in HANDLES, NEW p \in Paths, NEW mode \in MODES,
               OpenFile(h, p, mode)
        PROVE  PInv'
    <3> DEFINE q == Rewritten(p)
               old == NodeOr(tree, q, NewFile)
               node == IF Truncates(mode) THEN [old EXCEPT !.size = 0] ELSE old
    <3>1. /\ tree' = With(tree, q, node)
          /\ handles' = [handles EXCEPT ![h] = [path |-> q, mode |-> mode]]
      BY <2>1 DEF OpenFile
    <3>2. q \in Seq(Parts) \ {<< >>}
      BY RewrittenIsAPath
    <3> HIDE DEF node, q
    <3>3. DOMAIN tree' = DOMAIN tree \cup {q}
      BY <3>1, WithHas
    <3>4. AtPaths(tree')
      BY <3>2, <3>3 DEF PInv, AtPaths
    <3>5. HandleInv'
      BY <3>1, <3>2, <3>3 DEF PInv, HandleInv
    <3> QED
      BY <3>4, <3>5 DEF PInv
  <2>2. ASSUME NEW h \in HANDLES, NEW place \in Sizes, NEW total \in Sizes,
               WriteFile(h, place, total)
        PROVE  PInv'
    <3>1. handles' = handles /\ DOMAIN tree' = DOMAIN tree
      BY <2>2 DEF WriteFile
    <3> QED
      BY <3>1, MoreNodes DEF PInv, AtPaths
  <2>3. ASSUME NEW h \in HANDLES, NEW size \in Sizes, Resize(h, size)
        PROVE  PInv'
    <3>1. handles' = handles /\ DOMAIN tree' = DOMAIN tree
      BY <2>3 DEF Resize
    <3> QED
      BY <3>1, MoreNodes DEF PInv, AtPaths
  <2>4. ASSUME NEW h \in HANDLES, CloseFile(h) PROVE PInv'
    <3>1. tree' = tree /\ handles' = [handles EXCEPT ![h] = Closed]
      BY <2>4 DEF CloseFile
    <3>2. Closed \in [path : Seq(Parts), mode : MODES \cup {{}}] /\ Closed.path = GONE
      BY EmptySeq DEF Closed, GONE
    <3> QED
      BY <3>1, <3>2 DEF PInv, AtPaths, HandleInv
  <2> QED
    BY <1>2, <2>1, <2>2, <2>3, <2>4 DEF Files
<1>3. CASE Names
  <2>1. ASSUME NEW p1 \in Paths, NEW p2 \in Paths, Replace(p1, p2)
        PROVE  PInv'
    BY <2>1, RenameKeepsPInv
  <2>2. ASSUME NEW p \in Paths, DeleteEntry(p) PROVE PInv'
    BY <2>2, FewerNodes DEF DeleteEntry
  <2>3. ASSUME NEW p \in Paths, CreateDirectory(p) PROVE PInv'
    <3> DEFINE q == Rewritten(p)
               node == [NodeOr(tree, q, NewDir) EXCEPT !.dir = TRUE]
    <3>1. tree' = With(tree, q, node) /\ handles' = handles
      BY <2>3 DEF CreateDirectory
    <3>2. q \in Seq(Parts) \ {<< >>}
      BY RewrittenIsAPath
    <3> HIDE DEF node, q
    <3> QED
      BY <3>1, <3>2, WithIsPlaced, MoreNodes
  <2>4. ASSUME NEW p \in Paths, CreateDirectories(p) PROVE PInv'
    <3> DEFINE way == {SubSeq(p, 1, i) : i \in 2 .. Len(p)}
    <3>1. DOMAIN tree' = DOMAIN tree \cup way /\ handles' = handles
      BY <2>4 DEF CreateDirectories
    <3>2. ASSUME NEW i \in 2 .. Len(p)
          PROVE  SubSeq(p, 1, i) \in Seq(Parts) \ {<< >>}
      <4>1. p \in Seq(Parts) /\ Len(p) \in Nat
        BY PathsAreSequences, LenProperties
      <4>2. 1 \in Int /\ i \in Int /\ 1 <= i /\ \A j \in 1 .. i : p[j] \in Parts
        BY <4>1, LenProperties
      <4>3. SubSeq(p, 1, i) \in Seq(Parts) /\ Len(SubSeq(p, 1, i)) = i - 1 + 1
        BY <4>2, SubSeqProperties
      <4> QED
        BY <4>2, <4>3, EmptySeq
    <3>3. way \subseteq Seq(Parts) \ {<< >>}
      BY <3>2
    <3> HIDE DEF way
    <3> QED
      BY <3>1, <3>3, MoreNodes DEF PInv, AtPaths
  <2> QED
    BY <1>3, <2>1, <2>2, <2>3, <2>4 DEF Names
<1> QED
  BY <1>0, <1>1, <1>2, <1>3 DEF Next, vars

-----------------------------------------------------------------------------

\* A rename moves a whole tree, nothing else, and what was at the new name is
\* gone, whatever the tree and the names.
THEOREM RenamesMoveTheWhole == Spec => RenameMovesTheWhole
<1> DEFINE held(t, p) == {<<SubSeq(q, Len(p) + 1, Len(q)), t[q]>> :
                            q \in {r \in DOMAIN t : AtOrBeneath(r, p)}}
           spared(t, from, to) == {q \in DOMAIN t :
                            ~AtOrBeneath(q, from) /\ ~AtOrBeneath(q, to)}
<1>1. ASSUME PInv, NEW p1 \in Paths, NEW p2 \in Paths, Replace(p1, p2),
             ~Beneath(Rewritten(p2), Rewritten(p1))
      PROVE  LET from == Rewritten(p1)
                 to == Rewritten(p2)
             IN  /\ held(tree', to) = held(tree, from)
                 /\ Restrict(tree', spared(tree', from, to))
                       = Restrict(tree, spared(tree, from, to))
  <2> DEFINE from == Rewritten(p1)
             to == Rewritten(p2)
             tree2 == tree'
  <2>1. from \in Seq(Parts) /\ to \in Seq(Parts)
    BY RewrittenIsAPath
  <2>2. tree2 = MovedTree(from, to) /\ AtPaths(tree)
    BY <1>1 DEF Replace, PInv
  <2> HIDE DEF from, to, tree2
  <2>3. /\ \A m \in DOMAIN tree : AtOrBeneath(m, from) =>
              /\ Renamed(m, from, to) \in DOMAIN tree2
              /\ tree2[Renamed(m, from, to)] = tree[m]
        /\ \A q \in DOMAIN tree : ~AtOrBeneath(q, from) /\ ~AtOrBeneath(q, to) =>
              q \in DOMAIN tree2 /\ tree2[q] = tree[q]
        /\ \A q \in DOMAIN tree2 :
              \/ \E m \in DOMAIN tree :
                    AtOrBeneath(m, from) /\ q = Renamed(m, from, to)
              \/ q \in DOMAIN tree /\ ~AtOrBeneath(q, from) /\ ~AtOrBeneath(q, to)
    BY <1>1, <2>1, <2>2, MovedTreeHolds DEF from, to
  <2>4. ASSUME NEW m \in DOMAIN tree, AtOrBeneath(m, from)
        PROVE  /\ AtOrBeneath(Renamed(m, from, to), to)
               /\ SubSeq(Renamed(m, from, to), Len(to) + 1,
                         Len(Renamed(m, from, to)))
                     = SubSeq(m, Len(from) + 1, Len(m))
    <3>1. m \in Seq(Parts)
      BY <2>2 DEF AtPaths
    <3> HIDE DEF held, spared, Parts
    <3> QED
      BY <2>1, <2>4, <3>1, RenamingMoves
  <2>5. held(tree2, to) = held(tree, from)
    <3>1. ASSUME NEW e \in held(tree, from) PROVE e \in held(tree2, to)
      <4>1. PICK m \in DOMAIN tree : AtOrBeneath(m, from) /\
                   e = <<SubSeq(m, Len(from) + 1, Len(m)), tree[m]>>
        BY <3>1
      <4> DEFINE q == Renamed(m, from, to)
      <4>2. /\ q \in DOMAIN tree2 /\ AtOrBeneath(q, to)
            /\ e = <<SubSeq(q, Len(to) + 1, Len(q)), tree2[q]>>
        BY <2>3, <2>4, <4>1
      <4> HIDE DEF q
      <4> QED
        BY <4>2
    <3>2. ASSUME NEW e \in held(tree2, to) PROVE e \in held(tree, from)
      <4>1. PICK q \in DOMAIN tree2 : AtOrBeneath(q, to) /\
                   e = <<SubSeq(q, Len(to) + 1, Len(q)), tree2[q]>>
        BY <3>2
      <4>2. PICK m \in DOMAIN tree : AtOrBeneath(m, from) /\ q = Renamed(m, from, to)
        BY <2>3, <4>1
      <4>3. e = <<SubSeq(m, Len(from) + 1, Len(m)), tree[m]>>
        BY <2>3, <2>4, <4>1, <4>2
      <4> QED
        BY <4>2, <4>3
    <3> HIDE DEF held
    <3> QED
      BY <3>1, <3>2
  <2>6. spared(tree2, from, to) = spared(tree, from, to)
    <3>1. ASSUME NEW q \in spared(tree2, from, to)
          PROVE  q \in spared(tree, from, to)
      BY <2>3, <2>4
    <3>2. ASSUME NEW q \in spared(tree, from, to)
          PROVE  q \in spared(tree2, from, to)
      BY <2>3
    <3> HIDE DEF spared
    <3> QED
      BY <3>1, <3>2
  <2>7. \A q \in spared(tree, from, to) : tree2[q] = tree[q]
    BY <2>3
  <2>8. Restrict(tree2, spared(tree2, from, to)) = Restrict(tree, spared(tree, from, to))
    <3> HIDE DEF spared
    <3> QED
      BY <2>6, <2>7 DEF Restrict
  <2> HIDE DEF held, spared
  <2> QED
    BY <2>5, <2>8 DEF from, to, tree2
<1>2. PInv /\ [Next]_vars => [tree' # tree =>
       \A p1 \in Named(tree), p2 \in Named(tree') :
          Replace(p1, p2) /\ ~Beneath(Rewritten(p2), Rewritten(p1)) =>
              LET from == Rewritten(p1)
                  to == Rewritten(p2)
              IN  /\ held(tree', to) = held(tree, from)
                  /\ Restrict(tree', spared(tree', from, to))
                       = Restrict(tree, spared(tree, from, to))]_vars
  <2> HIDE DEF held, spared
  <2> SUFFICES ASSUME PInv, NEW p1 \in Named(tree), NEW p2 \in Named(tree'),
                      Replace(p1, p2), ~Beneath(Rewritten(p2), Rewritten(p1))
               PROVE  /\ held(tree', Rewritten(p2)) = held(tree, Rewritten(p1))
                      /\ Restrict(tree', spared(tree', Rewritten(p1), Rewritten(p2)))
                           = Restrict(tree, spared(tree, Rewritten(p1), Rewritten(p2)))
    BY Zenon
  <2>1. p1 \in Paths /\ p2 \in Paths
    BY DEF Named
  <2> QED
    BY <1>1, <2>1
<1> QED
  BY <1>2, InitPInv, NextPInv, PTL DEF Spec, RenameMovesTheWhole

\* An open file is the same file whatever is renamed or deleted around it.
THEOREM FilesFollow == Spec => OpenFilesFollow
<1>1. ASSUME PInv, NEW p1 \in Paths, NEW p2 \in Paths, Replace(p1, p2),
             NEW h \in HANDLES, handles[h].path # GONE,
             RenamedAround(handles[h].path, Rewritten(p1), Rewritten(p2))
      PROVE  StillOn(h)
  <2> DEFINE q == handles[h].path
             from == Rewritten(p1)
             to == Rewritten(p2)
  <2>1. from \in Seq(Parts) /\ to \in Seq(Parts) \ {<< >>}
    BY RewrittenIsAPath
  <2>2. tree' = MovedTree(from, to) /\ AtPaths(tree)
    BY <1>1 DEF Replace, PInv
  <2>3. q \in DOMAIN tree /\ handles'[h].path = Follow(q, from, to)
    BY <1>1 DEF Replace, PInv, HandleInv
  <2> DEFINE tree2 == MovedTree(from, to)
             there == Follow(q, from, to)
  <2>4. there # GONE /\ tree2[there] = tree[q]
    <3> SUFFICES ASSUME q \in DOMAIN tree, q # GONE, q # from,
                        ~AtOrBeneath(q, to) \/ Beneath(q, from),
                        ~Beneath(to, from)
                 PROVE  there # GONE /\ tree2[there] = tree[q]
      BY <1>1, <2>3 DEF RenamedAround
    <3> HIDE DEF q, from, to
    <3>1. CASE Beneath(q, from)
      <4>1. there = Renamed(q, from, to)
        BY <3>1 DEF Follow
      <4>2. AtOrBeneath(q, from)
        BY <3>1 DEF Beneath, AtOrBeneath, IsStrictPrefix
      <4>3. there \in DOMAIN tree2 /\ tree2[there] = tree[q]
        BY <2>1, <2>2, <4>1, <4>2, MovedTreeHolds
      <4>4. AtPaths(tree2)
        BY <2>1, <2>2, MovedTreeIsPlaced
      <4> HIDE DEF there, tree2
      <4> QED
        BY <4>3, <4>4 DEF AtPaths, GONE
    <3>2. CASE ~Beneath(q, from)
      <4>1. ~AtOrBeneath(q, from) /\ ~AtOrBeneath(q, to) /\ there = q
        BY <3>2 DEF Beneath, AtOrBeneath, IsStrictPrefix, Follow
      <4> QED
        BY <2>1, <2>2, <4>1, MovedTreeHolds
    <3> QED
      BY <3>1, <3>2
  <2> QED
    BY <2>2, <2>3, <2>4 DEF StillOn
<1>2. ASSUME PInv, NEW p \in Paths, DeleteEntry(p),
             NEW h \in HANDLES, handles[h].path # GONE,
             ~AtOrBeneath(handles[h].path, Rewritten(p))
      PROVE  StillOn(h)
  <2> DEFINE q == handles[h].path
             gone == {r \in DOMAIN tree : AtOrBeneath(r, Rewritten(p))}
  <2>1. q \in DOMAIN tree /\ q \notin gone
    BY <1>2 DEF PInv, HandleInv
  <2>2. tree' = Without(tree, gone) /\ handles'[h].path = q
    BY <1>2, <2>1 DEF DeleteEntry, Dangle
  <2> HIDE DEF gone
  <2>3. tree'[q] = tree[q]
    BY <2>1, <2>2 DEF Without, Restrict
  <2> QED
    BY <1>2, <2>2, <2>3 DEF StillOn
<1>3. PInv /\ [Next]_vars => [tree' # tree =>
       \A h \in {g \in HANDLES : handles[g].path # GONE}, p1 \in Named(tree) :
          LET q == handles[h].path
          IN  /\ \A p2 \in Named(tree') :
                     RenamedAround(q, Rewritten(p1), Rewritten(p2)) /\ Replace(p1, p2) =>
                         StillOn(h)
              /\ ~AtOrBeneath(q, Rewritten(p1)) /\ DeleteEntry(p1) => StillOn(h)]_vars
  <2>1. Named(tree) \subseteq Paths /\ Named(tree') \subseteq Paths
    BY DEF Named
  <2> QED
    BY <1>1, <1>2, <2>1, Zenon
<1> QED
  BY <1>3, InitPInv, NextPInv, PTL DEF Spec, OpenFilesFollow

\* What the machine makes it finds again under the name it made it by.
THEOREM MadeFilesAreFound == Spec => MadeIsFound
<1>1. ASSUME PInv, NEW p \in Paths, FindsPlace(p),
             NEW q, q = Rewritten(p), q \in DOMAIN tree',
             mounted' = mounted, eka2' = eka2
      PROVE  Finds(p)'
  <2>1. Head(q) \in mounted'
    BY <1>1, RewrittenIsAPath DEF FindsPlace
  <2>2. Rewritten(p)' = q
    BY <1>1 DEF Rewritten
  <2> QED
    BY <1>1, <2>1, <2>2 DEF Finds, Exists
<1>2. ASSUME PInv, NEW p \in Paths, FindsPlace(p),
             NEW h \in HANDLES, NEW mode \in MODES, OpenFile(h, p, mode)
      PROVE  Finds(p)'
  <2> DEFINE q == Rewritten(p)
             old == NodeOr(tree, q, NewFile)
             node == IF Truncates(mode) THEN [old EXCEPT !.size = 0] ELSE old
  <2>1. tree' = With(tree, q, node) /\ mounted' = mounted /\ eka2' = eka2
    BY <1>2 DEF OpenFile
  <2> HIDE DEF node, q
  <2>2. q \in DOMAIN tree'
    <3>1. DOMAIN tree' = DOMAIN tree \cup {q}
      BY <2>1, WithHas
    <3> QED
      BY <3>1
  <2> QED
    BY <1>1, <1>2, <2>1, <2>2 DEF q
<1>3. ASSUME PInv, NEW p \in Paths, FindsPlace(p), CreateDirectory(p)
      PROVE  Finds(p)'
  <2> DEFINE q == Rewritten(p)
             node == [NodeOr(tree, q, NewDir) EXCEPT !.dir = TRUE]
  <2>1. tree' = With(tree, q, node) /\ mounted' = mounted /\ eka2' = eka2
    BY <1>3 DEF CreateDirectory
  <2> HIDE DEF node, q
  <2>2. q \in DOMAIN tree'
    <3>1. DOMAIN tree' = DOMAIN tree \cup {q}
      BY <2>1, WithHas
    <3> QED
      BY <3>1
  <2> QED
    BY <1>1, <1>3, <2>1, <2>2 DEF q
<1>4. ASSUME PInv, NEW p \in Paths, FindsPlace(p), NEW p1 \in Paths,
             Rewritten(p1) \in DOMAIN tree,
             ~Beneath(Rewritten(p), Rewritten(p1)), Replace(p1, p)
      PROVE  Finds(p)'
  <2> DEFINE from == Rewritten(p1)
             to == Rewritten(p)
  <2>1. from \in Seq(Parts) /\ to \in Seq(Parts)
    BY RewrittenIsAPath
  <2>2. tree' = MovedTree(from, to) /\ mounted' = mounted /\ eka2' = eka2
    BY <1>4 DEF Replace
  <2>3. AtOrBeneath(from, from) /\ Renamed(from, from, to) = to
    BY <2>1, RenamedItself
  <2>4. to \in DOMAIN tree'
    BY <1>4, <2>1, <2>2, <2>3, MovedTreeHolds DEF PInv
  <2> QED
    BY <1>1, <1>4, <2>2, <2>4
<1>5. PInv /\ [Next]_vars => [<<tree, handles>>' # <<tree, handles>> =>
       LET named == Named(tree)
           makes(p) ==
               \/ \E h \in HANDLES, mode \in MODES : OpenFile(h, p, mode)
               \/ CreateDirectory(p)
               \/ \E p1 \in named :
                      ~Beneath(Rewritten(p), Rewritten(p1)) /\ Replace(p1, p)
       IN  \A p \in {r \in Paths : FindsPlace(r)} : Finds(p)' \/ ~makes(p)]_vars
  <2>1. \A p1 \in Named(tree) : p1 \in Paths /\ Rewritten(p1) \in DOMAIN tree
    BY DEF Named
  <2> SUFFICES ASSUME PInv, NEW p \in Paths, FindsPlace(p),
                      \/ \E h \in HANDLES, mode \in MODES : OpenFile(h, p, mode)
                      \/ CreateDirectory(p)
                      \/ \E p1 \in Named(tree) :
                             ~Beneath(Rewritten(p), Rewritten(p1)) /\ Replace(p1, p)
               PROVE  Finds(p)'
    BY Zenon
  <2> QED
    BY <1>2, <1>3, <1>4, <2>1
<1> QED
  BY <1>5, InitPInv, NextPInv, PTL DEF Spec, MadeIsFound

-----------------------------------------------------------------------------
(* The handles (MemHandles).                                               *)

HInv ==
    /\ Sound(tree)
    /\ DOMAIN handles = HANDLES
    /\ position \in [HANDLES -> 0 .. (POSITIONS - 1)]

\* A number below the modulus is its own remainder.
LEMMA SmallRemainder ==
  ASSUME NEW m \in Nat \ {0}, NEW n \in 0 .. (m - 1)
  PROVE  n % m = n
  BY Z3

LEMMA Remainder ==
  ASSUME NEW m \in Nat \ {0}, NEW n \in Int
  PROVE  n % m \in 0 .. (m - 1)
  BY Z3

LEMMA PositionsAreSome == POSITIONS \in Nat \ {0} /\ MAX_SIZE < POSITIONS
  BY MemFsAssumption, MemHandlesAssumption

LEMMA NodeSizesFit ==
  ASSUME NEW t, Sound(t), NEW q \in DOMAIN t
  PROVE  SizeOf(t[q]) \in 0 .. (POSITIONS - 1)
<1>1. t[q] \in Node /\ Intact(t[q])
  BY DEF Sound
<1>2. CASE Fixed(t[q])
  <2>1. PICK i \in 1 .. Len(PACKAGE) : PACKAGE[i].size = t[q].fixed
    BY <1>1, <1>2 DEF Intact
  <2>2. PACKAGE[i].size \in Nat /\ PACKAGE[i].size < POSITIONS
    BY PackageSizes, MemHandlesAssumption
  <2> QED
    BY <1>2, <2>1, <2>2, PositionsAreSome DEF SizeOf
<1>3. CASE ~Fixed(t[q])
  <2>1. t[q].size \in 0 .. MAX_SIZE
    BY <1>1 DEF Node, Sizes
  <2> QED
    BY <1>3, <2>1, PositionsAreSome, MemFsAssumption DEF SizeOf
<1> QED
  BY <1>2, <1>3

-----------------------------------------------------------------------------
(* Every step is one of the filesystem's.                                  *)

LEMMA WriteIsAWrite ==
  ASSUME HInv, NEW h \in HANDLES, NEW total \in Sizes, Write(h, total)
  PROVE  position[h] \in Sizes /\ WriteFile(h, position[h], total)
<1>1. WriteFile(h, position[h], total)
  BY DEF Write
<1>2. position[h] + total <= MAX_SIZE
  BY <1>1 DEF WriteFile
<1>3. position[h] \in Nat /\ total \in Nat
  BY SizesAreNumbers, PositionsAreSome DEF HInv
<1> QED
  BY <1>1, <1>2, <1>3, MemFsAssumption DEF Sizes

LEMMA StepsAreTheFilesystems == HInv /\ [HandlesNext]_allVars => [Next]_vars
<1> SUFFICES ASSUME HInv, [HandlesNext]_allVars PROVE [Next]_vars
  OBVIOUS
<1>1. CASE UNCHANGED allVars
  BY <1>1 DEF allVars
<1>2. ASSUME NEW q, NEW asked, OpenDirectory(q, asked) PROVE [Next]_vars
  BY <1>2 DEF OpenDirectory
<1>3. CASE GetPeekedEntry
  BY <1>3 DEF GetPeekedEntry
<1>4. CASE GetNextEntry
  BY <1>4 DEF GetNextEntry
<1>5. CASE PeekNextEntry
  BY <1>5 DEF PeekNextEntry
<1>6. CASE CloseDirectory
  BY <1>6 DEF CloseDirectory
<1>7. ASSUME NEW h \in HANDLES, NEW p \in Paths, NEW mode \in MODES, OpenAt(h, p, mode)
      PROVE  [Next]_vars
  BY <1>7 DEF OpenAt, Next, Files
<1>8. ASSUME NEW h \in HANDLES, NEW total \in Sizes, Write(h, total)
      PROVE  [Next]_vars
  BY <1>8, WriteIsAWrite DEF Next, Files
<1>9. ASSUME NEW h, NEW wanted, Read(h, wanted) PROVE [Next]_vars
  BY <1>9 DEF Read
<1>10. ASSUME NEW h, NEW offset, NEW where, Seek(h, offset, where)
       PROVE  [Next]_vars
  BY <1>10 DEF Seek
<1>11. ASSUME NEW h \in HANDLES, Close(h) PROVE [Next]_vars
  BY <1>11 DEF Close, Next, Files
<1>12. CASE Meanwhile
  BY <1>12 DEF Meanwhile, Next, Files
<1> QED
  BY <1>1, <1>2, <1>3, <1>4, <1>5, <1>6, <1>7, <1>8, <1>9, <1>10, <1>11, <1>12
     DEF HandlesNext

-----------------------------------------------------------------------------
(* The invariant.                                                          *)

LEMMA InitHInv == HandlesInit => HInv
  BY InitIInv, PositionsAreSome DEF HandlesInit, HInv, IInv, Init

\* The objects are the same whatever becomes of their nodes.
LEMMA HandlesStay ==
  ASSUME DOMAIN handles = HANDLES, [Next]_vars
  PROVE  DOMAIN handles' = HANDLES
<1>1. CASE Drives
  BY <1>1 DEF Drives, MountEmpty, MountRpkg, Unmount, SetEpocVer, Dangle
<1>2. CASE Files
  BY <1>2 DEF Files, OpenFile, WriteFile, Resize, CloseFile
<1>3. CASE Names
  BY <1>3 DEF Names, Replace, DeleteEntry, CreateDirectory, CreateDirectories, Dangle
<1> QED
  BY <1>1, <1>2, <1>3 DEF Next, vars

LEMMA LeftIsRight ==
  ASSUME HInv, NEW h \in HANDLES, HasNode(h)
  PROVE  /\ NodeSize(h) \in 0 .. (POSITIONS - 1)
         /\ LeftOf(h) = IF position[h] < NodeSize(h)
                        THEN NodeSize(h) - position[h] ELSE 0
<1>1. NodeSize(h) \in 0 .. (POSITIONS - 1)
  BY NodeSizesFit DEF NodeSize, HInv, HasNode
<1>2. position[h] \in 0 .. (POSITIONS - 1)
  BY DEF HInv
<1> DEFINE left == NodeSize(h) - (IF position[h] < NodeSize(h) THEN position[h]
                                  ELSE NodeSize(h))
<1>3. left \in 0 .. (POSITIONS - 1)
  BY <1>1, <1>2, PositionsAreSome
<1>4. LeftOf(h) = left
  BY <1>3, SmallRemainder, PositionsAreSome DEF LeftOf
<1> QED
  BY <1>1, <1>2, <1>4, PositionsAreSome

\* A read that moves the position leaves it on the bytes or at their end.
LEMMA ReadMoves ==
  ASSUME HInv, NEW h \in HANDLES, NEW wanted \in Sizes, Read(h, wanted)
  PROVE  /\ position' \in [HANDLES -> 0 .. (POSITIONS - 1)]
         /\ position' = position \/ position'[h] \in 1 .. NodeSize(h)
<1> DEFINE taken == IF wanted > LeftOf(h) THEN LeftOf(h) ELSE wanted
           moved == (position[h] + taken) % POSITIONS
<1>1. position \in [HANDLES -> 0 .. (POSITIONS - 1)]
  BY DEF HInv
<1>2. position' = [position EXCEPT ![h] = moved]
  BY DEF Read
<1>3. position'[h] = moved
  BY <1>1, <1>2
<1>4. /\ NodeSize(h) \in 0 .. (POSITIONS - 1)
      /\ LeftOf(h) = IF position[h] < NodeSize(h) THEN NodeSize(h) - position[h] ELSE 0
  BY LeftIsRight DEF Read
<1>5. wanted \in Nat /\ position[h] \in 0 .. (POSITIONS - 1)
  BY <1>1, SizesAreNumbers
<1>6. CASE taken = 0
  <2>1. moved = position[h]
    <3>1. position[h] + 0 = position[h]
      BY <1>5, PositionsAreSome
    <3> HIDE DEF taken
    <3> QED
      BY <1>5, <1>6, <3>1, SmallRemainder, PositionsAreSome
  <2> HIDE DEF moved
  <2> QED
    BY <1>1, <1>2, <2>1
<1>7. CASE taken # 0
  <2>1. position[h] + taken \in 1 .. NodeSize(h)
    BY <1>4, <1>5, <1>7, PositionsAreSome
  <2>2. position[h] + taken \in 0 .. (POSITIONS - 1)
    BY <1>4, <2>1, PositionsAreSome
  <2>3. moved = position[h] + taken
    BY <2>2, SmallRemainder, PositionsAreSome
  <2> HIDE DEF moved, taken
  <2> QED
    BY <1>1, <1>2, <1>3, <2>1, <2>2, <2>3
<1> QED
  BY <1>6, <1>7

LEMMA NextHInv == HInv /\ [HandlesNext]_allVars => HInv'
<1> SUFFICES ASSUME HInv, [HandlesNext]_allVars PROVE HInv'
  OBVIOUS
<1> DEFINE Placed == position' \in [HANDLES -> 0 .. (POSITIONS - 1)]
<1>0. Sound(tree') /\ DOMAIN handles' = HANDLES
  <2>1. IInv => IInv'
    BY StepsAreTheFilesystems, NextIInv
  <2>2. DOMAIN handles' = HANDLES
    BY StepsAreTheFilesystems, HandlesStay DEF HInv
  <2> QED
    BY <2>1, <2>2 DEF HInv, IInv, Sound
<1>p. position \in [HANDLES -> 0 .. (POSITIONS - 1)]
  BY DEF HInv
<1>u. CASE position' = position
  BY <1>0, <1>u, <1>p DEF HInv, Sound
<1>1. ASSUME NEW h \in HANDLES, NEW p \in Paths, NEW mode \in MODES, OpenAt(h, p, mode)
      PROVE  Placed
  <2> DEFINE at == IF APPEND \in mode THEN NodeSize(h)' ELSE 0
             q == Rewritten(p)
  <2>1. position' = [position EXCEPT ![h] = at]
    BY <1>1 DEF OpenAt
  <2>2. handles'[h].path = q
    BY <1>1 DEF OpenAt, OpenFile, HInv
  <2>3. q \in DOMAIN tree'
    BY <1>1 DEF OpenAt, OpenFile, With, Over
  <2>4. NodeSize(h)' \in 0 .. (POSITIONS - 1)
    <3>1. SizeOf(tree'[q]) \in 0 .. (POSITIONS - 1)
      BY <1>0, <2>3, NodeSizesFit
    <3>2. NodeSize(h)' = SizeOf(tree'[q])
      BY <2>2 DEF NodeSize, SizeOf, Fixed
    <3> QED
      BY <3>1, <3>2
  <2>5. at \in 0 .. (POSITIONS - 1)
    BY <2>4, PositionsAreSome
  <2> HIDE DEF at
  <2> QED
    BY <1>p, <2>1, <2>5
<1>2. ASSUME NEW h \in HANDLES, NEW total \in Sizes, Write(h, total) PROVE Placed
  <2>1. position' = [position EXCEPT ![h] = position[h] + total]
    BY <1>2 DEF Write
  <2>2. position[h] + total <= MAX_SIZE
    BY <1>2 DEF Write, WriteFile
  <2>3. position[h] + total \in 0 .. (POSITIONS - 1)
    BY <1>p, <2>2, SizesAreNumbers, PositionsAreSome, MemFsAssumption
  <2> QED
    BY <1>p, <2>1, <2>3
<1>3. ASSUME NEW h \in HANDLES, NEW wanted \in Sizes, Read(h, wanted) PROVE Placed
  BY <1>3, ReadMoves
<1>4. ASSUME NEW h \in HANDLES, NEW offset \in OFFSETS, NEW where, Seek(h, offset, where)
      PROVE  Placed
  <2> DEFINE from == CASE where = "crr" -> position[h]
                       [] where = "end" -> NodeSize(h)
                       [] OTHER -> 0
  <2>1. position' = [position EXCEPT ![h] = (from + offset) % POSITIONS]
    BY <1>4 DEF Seek
  <2>2. NodeSize(h) \in Int /\ position[h] \in Int
    BY <1>4, <1>p, LeftIsRight DEF Seek
  <2>3. from \in Int
    BY <2>2
  <2>4. offset \in Int
    BY MemHandlesAssumption
  <2> HIDE DEF from
  <2>5. (from + offset) % POSITIONS \in 0 .. (POSITIONS - 1)
    BY <2>3, <2>4, Remainder, PositionsAreSome
  <2> QED
    BY <1>p, <2>1, <2>5
<1>5. ASSUME NEW h \in HANDLES, Close(h) PROVE Placed
  BY <1>5, <1>p, PositionsAreSome DEF Close
<1>6. Placed => HInv'
  BY <1>0 DEF HInv, Sound
<1> HIDE DEF Placed
<1>7. CASE HandlesNext
  <2>1. ASSUME NEW q, NEW asked, OpenDirectory(q, asked) PROVE position' = position
    BY <2>1 DEF OpenDirectory
  <2>2. GetPeekedEntry \/ GetNextEntry \/ PeekNextEntry \/ CloseDirectory \/ Meanwhile
        => position' = position
    BY DEF GetPeekedEntry, GetNextEntry, PeekNextEntry, CloseDirectory, Meanwhile
  <2> QED
    BY <1>u, <1>1, <1>2, <1>3, <1>4, <1>5, <1>6, <1>7, <2>1, <2>2 DEF HandlesNext
<1> QED
  BY <1>u, <1>7 DEF allVars, handleVars

-----------------------------------------------------------------------------

\* Through its handles the machine does nothing to the filesystem that MemFs
\* does not allow: its specification is implemented.
THEOREM HandlesImplementMemFs == HandlesSpec => Spec
<1>1. HandlesInit => Init
  BY DEF HandlesInit
<1> QED
  BY <1>1, InitHInv, NextHInv, StepsAreTheFilesystems, PTL DEF HandlesSpec, Spec

\* So a package is intact whatever is written through a handle.
THEOREM PackageIsIntactThroughHandles == HandlesSpec => []PackageContentsIntact
  BY HandlesImplementMemFs, PackageIsIntact, PTL

\* However a position was reached, wraps included, a read stays on the bytes.
THEOREM ReadsStay == HandlesSpec => ReadsStayInside
<1>1. ASSUME HInv, NEW h \in HANDLES, NEW wanted \in Sizes, Read(h, wanted),
             position' # position
      PROVE  position'[h] \in 1 .. NodeSize(h)
  BY <1>1, ReadMoves
<1>2. HInv => \A h \in HANDLES, wanted \in Sizes :
                  HasNode(h) /\ position' # position /\ Read(h, wanted) =>
                      position'[h] \in 1 .. NodeSize(h)
  BY <1>1
<1> QED
  BY <1>2, InitHInv, NextHInv, PTL DEF HandlesSpec, ReadsStayInside

-----------------------------------------------------------------------------
(* Trees are finite.                                                       *)

LEMMA ImageIsFinite ==
  ASSUME NEW S, NEW T, NEW f \in [S -> T], IsFiniteSet(S),
         \A t \in T : \E x \in S : f[x] = t
  PROVE  IsFiniteSet(T)
<1>1. f \in Surjection(S, T)
  BY DEF Surjection
<1> QED
  BY <1>1, FS_Surjection

\* The names on the way to a path.
LEMMA BranchIsFinite ==
  ASSUME NEW p, Len(p) \in Nat
  PROVE  IsFiniteSet({SubSeq(p, 1, i) : i \in 0 .. Len(p)})
<1> DEFINE I == 0 .. Len(p)
           T == {SubSeq(p, 1, i) : i \in I}
           f == [i \in I |-> SubSeq(p, 1, i)]
<1>1. f \in [I -> T] /\ \A t \in T : \E i \in I : f[i] = t
  OBVIOUS
<1>2. IsFiniteSet(I)
  BY FS_Interval
<1> HIDE DEF f, I
<1>3. IsFiniteSet(T)
  <2> HIDE DEF T
  <2> QED
    BY <1>1, <1>2, ImageIsFinite
<1> QED
  BY <1>3 DEF I

LEMMA PackageTreeIsFinite ==
  ASSUME NEW d \in PACKAGE_DRIVES, NEW n \in 0 .. Len(PACKAGE)
  PROVE  IsFiniteSet(DOMAIN PackageTree(d, n))
<1> DEFINE at(i) == <<d>> \o PACKAGE[i].path
           passing(q) == {i \in 1 .. n : AtOrBeneath(at(i), q)}
           D == {r \in Paths : passing(r) # {}}
           way(i) == {SubSeq(at(i), 1, k) : k \in 0 .. Len(at(i))}
           f == [i \in 1 .. n |-> way(i)]
           all == {f[i] : i \in 1 .. n}
<1>1. DOMAIN PackageTree(d, n) = D
  BY DEF PackageTree
<1>2. Len(PACKAGE) \in Nat /\ n \in Nat /\ 1 .. n \subseteq 1 .. Len(PACKAGE)
  BY PackageSizes
<1>3. ASSUME NEW i \in 1 .. n PROVE at(i) \in Seq(Parts) /\ Len(at(i)) \in Nat
  <2>1. PACKAGE[i].path \in Seq(NAMES)
    <3> DEFINE Entry == [path : Seq(NAMES) \ {<<>>}, size : Nat]
    <3>1. PACKAGE \in Seq(Entry)
      BY MemFsAssumption
    <3>2. \A e \in Entry : e.path \in Seq(NAMES)
      OBVIOUS
    <3> HIDE DEF Entry
    <3>3. PACKAGE[i] \in Entry
      BY <1>2, <3>1
    <3> QED
      BY <3>2, <3>3
  <2>2. PACKAGE[i].path \in Seq(Parts) /\ <<d>> \in Seq(Parts)
    BY <2>1, SeqMonotonic DEF Parts, AllDrives
  <2>3. at(i) \in Seq(Parts)
    BY <2>2, ConcatProperties
  <2> HIDE DEF at
  <2> QED
    BY <2>3, LenProperties
<1> HIDE DEF at
<1>4. \A i \in 1 .. n : IsFiniteSet(way(i))
  BY <1>3, BranchIsFinite
<1>5. ASSUME NEW r \in D PROVE r \in UNION all
  <2>1. PICK i \in 1 .. n : IsPrefix(r, at(i))
    BY DEF AtOrBeneath
  <2>2. r \in Seq(Parts) /\ Len(r) \in Nat
    BY PathsAreSequences, LenProperties
  <2>3. Len(r) \in 0 .. Len(at(i)) /\ r = SubSeq(at(i), 1, Len(r))
    BY <1>3, <2>1, <2>2, SubSeqFull DEF IsPrefix
  <2>4. r \in way(i)
    BY <2>3
  <2>5. f[i] = way(i) /\ f[i] \in all
    OBVIOUS
  <2> HIDE DEF f, way, all
  <2> QED
    BY <2>4, <2>5
<1>6. IsFiniteSet(all)
  <2>1. f \in [1 .. n -> all] /\ \A w \in all : \E i \in 1 .. n : f[i] = w
    BY DEF way
  <2>2. IsFiniteSet(1 .. n)
    BY <1>2, FS_Interval
  <2> HIDE DEF f, all
  <2> QED
    BY <2>1, <2>2, ImageIsFinite
<1>7. \A T \in all : IsFiniteSet(T)
  BY <1>4
<1>8. IsFiniteSet(UNION all)
  <2> HIDE DEF all
  <2> QED
    BY <1>6, <1>7, FS_UNION
<1> HIDE DEF D, all
<1>9. D \in SUBSET UNION all
  BY <1>5
<1> QED
  BY <1>1, <1>8, <1>9, FS_Subset

LEMMA MovedTreeIsFinite ==
  ASSUME NEW from, NEW to, IsFiniteSet(DOMAIN tree)
  PROVE  IsFiniteSet(DOMAIN MovedTree(from, to))
<1> DEFINE moving == {q \in DOMAIN tree : AtOrBeneath(q, from)}
           left == {q \in DOMAIN tree :
                       ~AtOrBeneath(q, from) /\ ~AtOrBeneath(q, to)}
           new == {Renamed(m, from, to) : m \in moving}
           f == [m \in moving |-> Renamed(m, from, to)]
<1>1. IsFiniteSet(moving) /\ IsFiniteSet(left)
  <2>1. moving \in SUBSET DOMAIN tree /\ left \in SUBSET DOMAIN tree
    OBVIOUS
  <2> HIDE DEF moving, left
  <2> QED
    BY <2>1, FS_Subset
<1>2. IsFiniteSet(new)
  <2>1. f \in [moving -> new] /\ \A r \in new : \E m \in moving : f[m] = r
    OBVIOUS
  <2> HIDE DEF f, moving, new
  <2> QED
    BY <1>1, <2>1, ImageIsFinite
<1>3. DOMAIN MovedTree(from, to) \in {left, new \cup left}
  BY DEF MovedTree, Restrict, Over
<1> HIDE DEF left, new
<1> QED
  BY <1>1, <1>2, <1>3, FS_Union

FInv == IsFiniteSet(DOMAIN tree)

LEMMA InitFInv == Init => FInv
<1> SUFFICES ASSUME Init PROVE FInv
  OBVIOUS
<1>1. DOMAIN tree = {}
  BY DEF Init
<1> QED
  BY <1>1, FS_EmptySet DEF FInv

LEMMA NextFInv == FInv /\ [Next]_vars => FInv'
<1> SUFFICES ASSUME FInv, [Next]_vars PROVE FInv'
  OBVIOUS
<1> USE DEF FInv
\* A tree that grows by finitely many nodes, or loses some.
<1>1. ASSUME NEW more, IsFiniteSet(more), DOMAIN tree' \subseteq DOMAIN tree \cup more
      PROVE  FInv'
  <2>1. IsFiniteSet(DOMAIN tree \cup more) /\ DOMAIN tree' \in SUBSET (DOMAIN tree \cup more)
    BY <1>1, FS_Union
  <2> QED
    BY <2>1, FS_Subset
<1>2. ASSUME DOMAIN tree' \subseteq DOMAIN tree PROVE FInv'
  BY <1>2, FS_Subset
<1>3. CASE Drives
  <2>1. ASSUME NEW d \in DRIVES, MountEmpty(d) PROVE FInv'
    BY <1>2, <2>1 DEF MountEmpty
  <2>2. ASSUME NEW d \in PACKAGE_DRIVES, NEW n \in 0 .. Len(PACKAGE),
               MountRpkg(d, n)
        PROVE  FInv'
    <3>1. DOMAIN tree' = DOMAIN PackageTree(d, n) \cup DOMAIN tree
      BY <2>2 DEF MountRpkg, Over
    <3>2. IsFiniteSet(DOMAIN PackageTree(d, n))
      BY PackageTreeIsFinite
    <3> QED
      BY <1>1, <3>1, <3>2
  <2>3. ASSUME NEW d \in AllDrives, Unmount(d) PROVE FInv'
    BY <1>2, <2>3 DEF Unmount, Without, Restrict
  <2>4. ASSUME NEW ver \in VERSIONS, SetEpocVer(ver) PROVE FInv'
    BY <1>2, <2>4 DEF SetEpocVer
  <2> QED
    BY <1>3, <2>1, <2>2, <2>3, <2>4 DEF Drives
<1>4. CASE Files
  <2>1. ASSUME NEW h \in HANDLES, NEW p \in Paths, NEW mode \in MODES,
               OpenFile(h, p, mode)
        PROVE  FInv'
    <3>1. DOMAIN tree' = {Rewritten(p)} \cup DOMAIN tree
      BY <2>1 DEF OpenFile, With, Over
    <3>2. IsFiniteSet({Rewritten(p)})
      BY FS_Singleton
    <3> QED
      BY <1>1, <3>1, <3>2
  <2>2. ASSUME NEW h \in HANDLES, NEW place \in Sizes, NEW total \in Sizes,
               WriteFile(h, place, total)
        PROVE  FInv'
    <3>1. DOMAIN tree' = DOMAIN tree
      BY <2>2 DEF WriteFile
    <3> QED
      BY <1>2, <3>1
  <2>3. ASSUME NEW h \in HANDLES, NEW size \in Sizes, Resize(h, size) PROVE FInv'
    <3>1. DOMAIN tree' = DOMAIN tree
      BY <2>3 DEF Resize
    <3> QED
      BY <1>2, <3>1
  <2>4. ASSUME NEW h \in HANDLES, CloseFile(h) PROVE FInv'
    BY <1>2, <2>4 DEF CloseFile
  <2> QED
    BY <1>4, <2>1, <2>2, <2>3, <2>4 DEF Files
<1>5. CASE Names
  <2>1. ASSUME NEW p1 \in Paths, NEW p2 \in Paths, Replace(p1, p2) PROVE FInv'
    <3>1. tree' = MovedTree(Rewritten(p1), Rewritten(p2))
      BY <2>1 DEF Replace
    <3> QED
      BY <3>1, MovedTreeIsFinite
  <2>2. ASSUME NEW p \in Paths, DeleteEntry(p) PROVE FInv'
    BY <1>2, <2>2 DEF DeleteEntry, Without, Restrict
  <2>3. ASSUME NEW p \in Paths, CreateDirectory(p) PROVE FInv'
    <3>1. DOMAIN tree' = {Rewritten(p)} \cup DOMAIN tree
      BY <2>3 DEF CreateDirectory, With, Over
    <3>2. IsFiniteSet({Rewritten(p)})
      BY FS_Singleton
    <3> QED
      BY <1>1, <3>1, <3>2
  <2>4. ASSUME NEW p \in Paths, CreateDirectories(p) PROVE FInv'
    <3> DEFINE way == {SubSeq(p, 1, i) : i \in 2 .. Len(p)}
               branch == {SubSeq(p, 1, i) : i \in 0 .. Len(p)}
    <3>1. DOMAIN tree' = DOMAIN tree \cup way
      BY <2>4 DEF CreateDirectories
    <3>2. Len(p) \in Nat
      BY PathsAreSequences, LenProperties
    <3>3. way \subseteq branch
      BY <3>2
    <3>4. IsFiniteSet(branch)
      BY <3>2, BranchIsFinite
    <3> HIDE DEF way, branch
    <3> QED
      BY <1>1, <3>1, <3>3, <3>4
  <2> QED
    BY <1>5, <2>1, <2>2, <2>3, <2>4 DEF Names
<1> QED
  BY <1>2, <1>3, <1>4, <1>5 DEF Next, vars

-----------------------------------------------------------------------------
(* A directory's names.                                                    *)

\* A finite set is listed, each of it once.
LEMMA SetIsListed ==
  ASSUME NEW S, IsFiniteSet(S)
  PROVE  /\ SetToSeq(S) \in Seq(S)
         /\ \A i, j \in 1 .. Len(SetToSeq(S)) :
                SetToSeq(S)[i] = SetToSeq(S)[j] => i = j
         /\ \A x \in S : \E i \in 1 .. Len(SetToSeq(S)) : SetToSeq(S)[i] = x
<1> DEFINE n == Cardinality(S)
           s == SetToSeq(S)
<1>1. n \in Nat /\ ExistsBijection(1 .. n, S)
  BY FS_CardinalityType
<1>2. PICK f : f \in [1 .. n -> S] /\ IsInjective(f)
  BY <1>1 DEF ExistsBijection, Bijection, Injection
<1>3. s \in [1 .. n -> S] /\ IsInjective(s)
  BY <1>2 DEF SetToSeq
<1> HIDE DEF s
<1>4. s \in Seq(S) /\ Len(s) = n
  BY <1>1, <1>3
<1>5. s \in Injection(1 .. n, S)
  BY <1>3 DEF Injection
<1>6. Cardinality(1 .. n) = n
  <2> HIDE DEF n
  <2> QED
    BY <1>1, FS_Interval
<1>7. s \in Surjection(1 .. n, S)
  BY <1>5, <1>6, FS_Injection
<1> QED
  BY <1>3, <1>4, <1>7 DEF IsInjective, Surjection, s

LEMMA NamesAreParts ==
  ASSUME PInv, FInv, NEW q
  PROVE  NamesIn(q) \subseteq Parts /\ IsFiniteSet(NamesIn(q))
<1> DEFINE nodes == {s \in DOMAIN tree : Parent(s) = q}
           f == [r \in nodes |-> Last(r)]
<1>1. ASSUME NEW r \in nodes PROVE Last(r) \in Parts
  <2>1. r \in Seq(Parts) /\ r # << >>
    BY DEF PInv, AtPaths
  <2>2. Len(r) \in 1 .. Len(r)
    BY <2>1, EmptySeq, LenProperties
  <2> QED
    BY <2>1, <2>2, LenProperties DEF Last
<1>2. f \in [nodes -> NamesIn(q)] /\ \A name \in NamesIn(q) : \E r \in nodes : f[r] = name
  BY DEF NamesIn
<1>3. IsFiniteSet(nodes)
  <2>1. nodes \in SUBSET DOMAIN tree
    OBVIOUS
  <2> HIDE DEF nodes
  <2> QED
    BY <2>1, FS_Subset DEF FInv
<1>4. NamesIn(q) \subseteq Parts
  BY <1>1 DEF NamesIn
<1> HIDE DEF f, nodes
<1> QED
  BY <1>2, <1>3, <1>4, ImageIsFinite

LEMMA NoPartIsAMark ==
  ASSUME NEW name \in Parts
  PROVE  name # NONE /\ name # NOT_PEEKING
  BY MemHandlesAssumption DEF Parts, AllDrives

\* The first that is answered, of those to come.
LEMMA FirstComing ==
  ASSUME directory.next \in Nat, Coming # {}
  PROVE  /\ Min(Coming) \in Coming
         /\ \A i \in Coming : Min(Coming) <= i
<1>1. Coming \in SUBSET Nat
  BY DEF Coming
<1> DEFINE Less == {ss \in Nat \X Nat : ss[1] < ss[2]}
<1>2. IsWellFoundedOn(Less, Nat)
  BY NatLessThanWellFounded DEF OpToRel
<1>3. PICK m \in Coming : \A k \in Coming : <<k, m>> \notin Less
  <2> HIDE DEF Less
  <2> QED
    BY <1>1, <1>2, WFMin
<1>4. ASSUME NEW k \in Coming PROVE m <= k
  <2>1. k \in Nat /\ m \in Nat
    BY <1>1
  <2>2. ~(k < m)
    BY <1>3, <2>1
  <2> QED
    BY <2>1, <2>2
<1> QED
  BY <1>4 DEF Min

\* What has been passed over was given, or is peeked at, or did not stay.
Listing(names, next, there, gave, peek, end) ==
    /\ names \in Seq(Parts) /\ gave \in Seq(Parts)
    /\ next \in 1 .. Len(names) + 1
    /\ \A i, j \in 1 .. Len(names) : names[i] = names[j] => i = j
    /\ there \subseteq {names[i] : i \in 1 .. Len(names)}
    /\ \A i, j \in 1 .. Len(gave) : gave[i] = gave[j] => i = j
    /\ \A j \in 1 .. Len(gave) :
           \E k \in 1 .. next - 1 : gave[j] = names[k] /\ names[k] # peek
    /\ peek \in {NOT_PEEKING, NONE} \cup {names[k] : k \in 1 .. next - 1}
    /\ \A k \in 1 .. next - 1 :
           names[k] \in there /\ names[k] # peek =>
               \E j \in 1 .. Len(gave) : gave[j] = names[k]
    /\ end \/ peek = NONE => next = Len(names) + 1
    /\ end => peek = NOT_PEEKING

ListingInv ==
    /\ directory \in [path : {directory.path}, asked : {directory.asked},
                      names : Seq(Parts), next : Nat]
    /\ Listing(directory.names, directory.next, staying, given, peeked, over)

ClosedInv ==
    IF DirectoryIsOpen THEN directory.path # <<>>
    ELSE given = <<>> /\ over = FALSE /\ peeked = NOT_PEEKING /\ staying = {}

LInv == ListingInv /\ ClosedInv

\* No directory is open.
LEMMA EmptyListing ==
  ASSUME NEW e, NEW next, NEW there, NEW peek, NEW end,
         e = <<>>, next = 1, there = {}, peek = NOT_PEEKING, end = FALSE
  PROVE  Listing(e, next, there, e, peek, end)
<1>1. e \in Seq(Parts) /\ Len(e) = 0
  BY EmptySeq
<1>2. 1 .. Len(e) = {} /\ 1 .. 1 - 1 = {} /\ 1 \in 1 .. Len(e) + 1
  BY <1>1
<1>3. \A i, j \in 1 .. Len(e) : e[i] = e[j] => i = j
  BY <1>2
<1>4. \A j \in 1 .. Len(e) :
          \E k \in 1 .. 1 - 1 : e[j] = e[k] /\ e[k] # NOT_PEEKING
  BY <1>2
<1>5. NOT_PEEKING \in {NOT_PEEKING, NONE} \cup {e[k] : k \in 1 .. 1 - 1}
  OBVIOUS
<1>6. \A k \in 1 .. 1 - 1 :
          e[k] \in {} /\ e[k] # NOT_PEEKING =>
              \E j \in 1 .. Len(e) : e[j] = e[k]
  OBVIOUS
<1>7. {} \subseteq {e[i] : i \in 1 .. Len(e)}
  OBVIOUS
<1>8. FALSE \/ NOT_PEEKING = NONE => 1 = Len(e) + 1
  BY MemHandlesAssumption
<1> QED
  BY <1>1, <1>2, <1>3, <1>4, <1>5, <1>6, <1>7, <1>8 DEF Listing

LEMMA InitLInv == HandlesInit => LInv
<1> SUFFICES ASSUME HandlesInit PROVE LInv
  OBVIOUS
<1>1. directory = NOT_OPEN /\ peeked = NOT_PEEKING /\ given = <<>>
      /\ over = FALSE /\ staying = {}
  BY DEF HandlesInit
<1>2. Listing(given, directory.next, staying, given, peeked, over)
  BY <1>1, EmptyListing DEF NOT_OPEN
<1>3. /\ directory \in [path : {directory.path}, asked : {directory.asked},
                        names : Seq(Parts), next : Nat]
      /\ directory.names = given
  BY <1>1 DEF NOT_OPEN
<1>4. ListingInv
  BY <1>2, <1>3 DEF ListingInv
<1>5. ClosedInv
  BY <1>1 DEF ClosedInv, DirectoryIsOpen
<1> QED
  BY <1>4, <1>5 DEF LInv

\* A name stays for as long as it is there.
LEMMA FewerStay ==
  ASSUME LInv, staying' \subseteq staying,
         UNCHANGED <<directory, peeked, given, over>>
  PROVE  LInv'
<1>1. ListingInv'
  BY DEF LInv, ListingInv, Listing
<1>2. ClosedInv'
  BY DEF LInv, ClosedInv, DirectoryIsOpen
<1> QED
  BY <1>1, <1>2 DEF LInv

\* On to the next name that is answered: those in between are not there.
LEMMA Advancing ==
  ASSUME ListingInv, UNCHANGED vars, Watching,
         directory' = [directory EXCEPT !.next = Advanced]
  PROVE  LET names == directory.names
             next == directory.next
         IN  /\ directory' \in [path : {directory'.path}, asked : {directory'.asked},
                                names : Seq(Parts), next : Nat]
             /\ directory'.names = names
             /\ directory'.next \in next .. Len(names) + 1
             /\ staying' \subseteq staying
             /\ \A k \in next .. directory'.next - 1 :
                    names[k] \in staying' => names[k] = Found
             /\ IF Found = NONE THEN directory'.next = Len(names) + 1
                ELSE \E k \in next .. directory'.next - 1 : Found = names[k]
<1> DEFINE names == directory.names
           next == directory.next
<1>1. /\ directory \in [path : {directory.path}, asked : {directory.asked},
                        names : Seq(Parts), next : Nat]
      /\ next \in 1 .. Len(names) + 1
  BY DEF ListingInv, Listing
<1>2. names \in Seq(Parts) /\ Len(names) \in Nat /\ next \in Nat
  BY <1>1, LenProperties
<1>3. \A k \in 1 .. Len(names) : names[k] \in Parts
  BY <1>2
<1>4. Coming # {} => Min(Coming) \in Coming /\ \A i \in Coming : Min(Coming) <= i
  BY <1>2, FirstComing
<1>5. Coming \subseteq next .. Len(names)
  BY DEF Coming
<1>6. Advanced \in next .. Len(names) + 1
  <2>1. CASE Coming = {}
    BY <1>1, <1>2, <2>1 DEF Advanced
  <2>2. CASE Coming # {}
    <3>1. Min(Coming) \in next .. Len(names)
      BY <1>4, <1>5, <2>2
    <3> QED
      BY <1>2, <2>2, <3>1 DEF Advanced
  <2> QED
    BY <2>1, <2>2
<1>7. /\ directory'.names = names /\ directory'.next = Advanced
      /\ directory'.path = directory.path /\ directory'.asked = directory.asked
  BY <1>1
<1>8. directory' \in [path : {directory'.path}, asked : {directory'.asked},
                      names : Seq(Parts), next : Nat]
  BY <1>1, <1>2, <1>6
<1>9. ASSUME NEW name PROVE Answers(directory, name)' <=> Answers(directory, name)
  <2>1. EntryOf(directory, name)' = EntryOf(directory, name)
    BY <1>7 DEF EntryOf, Rewritten, vars
  <2>2. Exists(EntryOf(directory, name))' <=> Exists(EntryOf(directory, name))
    BY <2>1 DEF Exists, vars
  <2>3. tree[EntryOf(directory, name)]' = tree[EntryOf(directory, name)]
    BY <2>1 DEF vars
  <2>4. SizeOf(tree[EntryOf(directory, name)])' = SizeOf(tree[EntryOf(directory, name)])
    BY <2>3 DEF SizeOf, Fixed
  <2> QED
    BY <1>7, <2>2, <2>3, <2>4 DEF Answers
<1>10. staying' \subseteq staying
  BY DEF Watching
<1>11. ASSUME NEW k \in next .. Advanced - 1, names[k] \in staying'
       PROVE  names[k] = Found
  <2>1. Answers(directory, names[k])
    BY <1>9, <1>11 DEF Watching
  <2>2. k \in next .. Len(names)
    BY <1>2, <1>6
  <2>3. k \in Coming
    BY <2>1, <2>2 DEF Coming
  <2>4. k <= Min(Coming)
    <3>1. Advanced = Min(Coming) + 1 /\ Min(Coming) \in Nat
      BY <1>2, <1>4, <1>5, <2>3 DEF Advanced
    <3> QED
      BY <1>2, <3>1
  <2>5. Min(Coming) <= k /\ Min(Coming) \in Nat
    BY <1>2, <1>4, <1>5, <2>3
  <2>6. k = Min(Coming)
    BY <2>2, <2>4, <2>5
  <2> QED
    BY <2>3, <2>6 DEF Found
<1>12. IF Found = NONE THEN Advanced = Len(names) + 1
       ELSE \E k \in next .. Advanced - 1 : Found = names[k]
  <2>1. CASE Coming = {}
    BY <2>1 DEF Found, Advanced
  <2>2. CASE Coming # {}
    <3>1. Min(Coming) \in next .. Len(names)
      BY <1>4, <1>5, <2>2
    <3>2. Found = names[Min(Coming)] /\ Advanced = Min(Coming) + 1
      BY <2>2 DEF Found, Advanced
    <3>3. Min(Coming) \in 1 .. Len(names) /\ Min(Coming) \in next .. Advanced - 1
      BY <1>1, <1>2, <3>1, <3>2
    <3>4. Found # NONE
      BY <1>3, <3>2, <3>3, NoPartIsAMark
    <3> QED
      BY <3>2, <3>3, <3>4
  <2> QED
    BY <2>1, <2>2
<1> HIDE DEF names, next
<1> QED
  BY <1>6, <1>7, <1>8, <1>10, <1>11, <1>12 DEF names, next

\* The steps of a listing, from what they do to next, given and peeked.
LEMMA GivingOne ==
  ASSUME LInv, DirectoryIsOpen, UNCHANGED vars, Watching, ~over,
         peeked = NOT_PEEKING, peeked' = NOT_PEEKING, Give(Found),
         directory' = [directory EXCEPT !.next = Advanced]
  PROVE  LInv'
<1> DEFINE names == directory.names
           next == directory.next
<1> USE DEF LInv
<1>1. /\ directory' \in [path : {directory'.path}, asked : {directory'.asked},
                         names : Seq(Parts), next : Nat]
      /\ directory'.names = names
      /\ directory'.next \in next .. Len(names) + 1
      /\ staying' \subseteq staying
  BY Advancing
<1>2. \A k \in next .. directory'.next - 1 :
          names[k] \in staying' => names[k] = Found
  BY Advancing
<1>3. IF Found = NONE THEN directory'.next = Len(names) + 1
      ELSE \E k \in next .. directory'.next - 1 : Found = names[k]
  BY Advancing
<1>4. /\ next \in 1 .. Len(names) + 1 /\ Len(names) \in Nat
      /\ \A i, j \in 1 .. Len(names) : names[i] = names[j] => i = j
      /\ staying \subseteq {names[i] : i \in 1 .. Len(names)}
      /\ names \in Seq(Parts)
  BY LenProperties DEF ListingInv, Listing
<1>5. \A k \in 1 .. Len(names) : names[k] # NONE /\ names[k] # NOT_PEEKING
  BY <1>4, NoPartIsAMark
<1>6. /\ given \in Seq(Parts) /\ Len(given) \in Nat
      /\ \A i, j \in 1 .. Len(given) : given[i] = given[j] => i = j
      /\ \A j \in 1 .. Len(given) : \E k \in 1 .. next - 1 : given[j] = names[k]
      /\ \A k \in 1 .. next - 1 :
             names[k] \in staying => \E j \in 1 .. Len(given) : given[j] = names[k]
  <2>1. \A k \in 1 .. next - 1 : names[k] # peeked
    BY <1>4, <1>5
  <2> QED
    BY <1>4, <2>1, LenProperties DEF ListingInv, Listing
<1>7. 1 .. directory'.next - 1 = 1 .. next - 1 \cup next .. directory'.next - 1
  BY <1>1, <1>4
<1>8. ClosedInv'
  <2>1. directory'.path # <<>> /\ NOT_OPEN.path = <<>>
    BY DEF ListingInv, ClosedInv, NOT_OPEN
  <2> QED
    BY <2>1 DEF ClosedInv, DirectoryIsOpen
<1>9. CASE Found = NONE
  <2>1. given' = given /\ over' = TRUE /\ directory'.next = Len(names) + 1
    BY <1>3, <1>9 DEF Give
  <2>2. \A k \in 1 .. directory'.next - 1 :
            names[k] \in staying' => \E j \in 1 .. Len(given) : given[j] = names[k]
    BY <1>1, <1>2, <1>4, <1>5, <1>6, <1>7, <1>9, <2>1
  <2>3. \A j \in 1 .. Len(given) :
            \E k \in 1 .. directory'.next - 1 : given[j] = names[k]
    BY <1>6, <1>7
  <2>4. staying' \subseteq {names[i] : i \in 1 .. Len(names)}
    BY <1>1, <1>4
  <2>5. \A k \in 1 .. directory'.next - 1 : names[k] # NOT_PEEKING
    BY <1>1, <1>4, <1>5
  <2> DEFINE after == directory'.next
             there == staying'
  <2> HIDE DEF names, next, after, there
  <2>6. Listing(names, after, there, given, NOT_PEEKING, TRUE)
    BY <1>4, <1>6, <2>1, <2>2, <2>3, <2>4, <2>5, MemHandlesAssumption
       DEF Listing, after, there
  <2>7. ListingInv'
    BY <1>1, <2>1, <2>6 DEF ListingInv, after, there
  <2> QED
    BY <1>8, <2>7
<1>10. CASE Found # NONE
  <2>1. given' = Append(given, Found) /\ over' = FALSE
    BY <1>10 DEF Give
  <2>2. PICK m \in next .. directory'.next - 1 : Found = names[m]
    BY <1>3, <1>10
  <2>3. m \in 1 .. directory'.next - 1 /\ m \in 1 .. Len(names) /\ Found \in Parts
    BY <1>1, <1>4, <2>2
  <2>4. /\ given' \in Seq(Parts) /\ Len(given') = Len(given) + 1
        /\ given'[Len(given) + 1] = Found
        /\ \A j \in 1 .. Len(given) : given'[j] = given[j]
    BY <1>6, <2>1, <2>3
  <2>5. \A j \in 1 .. Len(given) : given[j] # Found
    <3> SUFFICES ASSUME NEW j \in 1 .. Len(given), given[j] = Found PROVE FALSE
      OBVIOUS
    <3>1. PICK k \in 1 .. next - 1 : given[j] = names[k]
      BY <1>6
    <3>2. k \in 1 .. Len(names) /\ k # m
      BY <1>4, <2>2
    <3> QED
      BY <1>4, <2>2, <2>3, <3>1, <3>2
  <2>6. 1 .. Len(given') = 1 .. Len(given) \cup {Len(given) + 1}
    BY <1>6, <2>4
  <2> DEFINE gave == given'
             after == directory'.next
  <2>7. gave = given' /\ after = directory'.next
    OBVIOUS
  <2> HIDE DEF gave, after, names, next
  <2>8. \A i, j \in 1 .. Len(gave) : gave[i] = gave[j] => i = j
    BY <1>6, <2>4, <2>5, <2>6, <2>7
  <2>9. \A j \in 1 .. Len(gave) : \E k \in 1 .. after - 1 : gave[j] = names[k]
    BY <1>6, <1>7, <2>2, <2>3, <2>4, <2>6, <2>7
  <2>10. \A k \in 1 .. after - 1 :
             names[k] \in staying' => \E j \in 1 .. Len(gave) : gave[j] = names[k]
    <3> TAKE k \in 1 .. after - 1
    <3> HAVE names[k] \in staying'
    <3>1. CASE k \in 1 .. next - 1
      <4>1. PICK j \in 1 .. Len(given) : given[j] = names[k]
        BY <1>1, <1>6, <3>1
      <4>2. j \in 1 .. Len(gave) /\ gave[j] = names[k]
        BY <2>4, <2>6, <2>7, <4>1
      <4> QED
        BY <4>2
    <3>2. CASE k \in next .. after - 1
      <4>1. names[k] = Found
        BY <1>2, <2>7, <3>2
      <4>2. Len(given) + 1 \in 1 .. Len(gave) /\ gave[Len(given) + 1] = Found
        BY <2>4, <2>6, <2>7
      <4> QED
        BY <4>1, <4>2
    <3> QED
      BY <1>7, <2>7, <3>1, <3>2
  <2>11. staying' \subseteq {names[i] : i \in 1 .. Len(names)}
    BY <1>1, <1>4
  <2>12. after \in 1 .. Len(names) + 1 /\ gave \in Seq(Parts)
    BY <1>1, <1>4, <2>4, <2>7
  <2>13. \A k \in 1 .. after - 1 : names[k] # NOT_PEEKING
    BY <1>4, <1>5, <2>12
  <2>14. Listing(names, after, staying', gave, NOT_PEEKING, FALSE)
    BY <1>4, <2>8, <2>9, <2>10, <2>11, <2>12, <2>13, MemHandlesAssumption
       DEF Listing
  <2>15. ListingInv'
    BY <1>1, <2>1, <2>7, <2>14 DEF ListingInv
  <2> QED
    BY <1>8, <2>15
<1> QED
  BY <1>9, <1>10

LEMMA PeekingAtOne ==
  ASSUME LInv, DirectoryIsOpen, UNCHANGED vars, Watching, ~over,
         peeked = NOT_PEEKING, peeked' = Found, UNCHANGED <<given, over>>,
         directory' = [directory EXCEPT !.next = Advanced]
  PROVE  LInv'
<1> DEFINE names == directory.names
           next == directory.next
           after == directory'.next
           there == staying'
<1> USE DEF LInv
<1>1. /\ directory' \in [path : {directory'.path}, asked : {directory'.asked},
                         names : Seq(Parts), next : Nat]
      /\ directory'.names = names
      /\ after \in next .. Len(names) + 1
      /\ there \subseteq staying
  BY Advancing
<1>2. \A k \in next .. after - 1 : names[k] \in there => names[k] = Found
  BY Advancing
<1>3. IF Found = NONE THEN after = Len(names) + 1
      ELSE \E k \in next .. after - 1 : Found = names[k]
  BY Advancing
<1>4. /\ next \in 1 .. Len(names) + 1 /\ Len(names) \in Nat
      /\ \A i, j \in 1 .. Len(names) : names[i] = names[j] => i = j
      /\ staying \subseteq {names[i] : i \in 1 .. Len(names)}
      /\ names \in Seq(Parts)
  BY LenProperties DEF ListingInv, Listing
<1>5. \A k \in 1 .. Len(names) : names[k] # NONE /\ names[k] # NOT_PEEKING
  BY <1>4, NoPartIsAMark
<1>6. /\ given \in Seq(Parts)
      /\ \A i, j \in 1 .. Len(given) : given[i] = given[j] => i = j
      /\ \A j \in 1 .. Len(given) : \E k \in 1 .. next - 1 : given[j] = names[k]
      /\ \A k \in 1 .. next - 1 :
             names[k] \in staying => \E j \in 1 .. Len(given) : given[j] = names[k]
  <2>1. \A k \in 1 .. next - 1 : names[k] # peeked
    BY <1>4, <1>5
  <2> QED
    BY <1>4, <2>1 DEF ListingInv, Listing
<1>7. /\ 1 .. after - 1 = 1 .. next - 1 \cup next .. after - 1
      /\ after \in 1 .. Len(names) + 1
      /\ \A k \in 1 .. next - 1, m \in next .. after - 1 :
             k # m /\ k \in 1 .. Len(names) /\ m \in 1 .. Len(names)
  BY <1>1, <1>4
<1>8. ClosedInv'
  <2>1. directory'.path # <<>> /\ NOT_OPEN.path = <<>>
    BY DEF ListingInv, ClosedInv, NOT_OPEN
  <2> QED
    BY <2>1 DEF ClosedInv, DirectoryIsOpen
<1> HIDE DEF names, next, after, there
<1>9. \A k \in 1 .. next - 1 : names[k] # Found
  BY <1>3, <1>4, <1>5, <1>7
<1>10. \A j \in 1 .. Len(given) :
           \E k \in 1 .. after - 1 : given[j] = names[k] /\ names[k] # Found
  BY <1>6, <1>7, <1>9
<1>11. Found \in {NOT_PEEKING, NONE} \cup {names[k] : k \in 1 .. after - 1}
  BY <1>3, <1>7
<1>12. \A k \in 1 .. after - 1 :
           names[k] \in there /\ names[k] # Found =>
               \E j \in 1 .. Len(given) : given[j] = names[k]
  BY <1>1, <1>2, <1>6, <1>7
<1>13. Listing(names, after, there, given, Found, FALSE)
  BY <1>1, <1>3, <1>4, <1>6, <1>7, <1>10, <1>11, <1>12 DEF Listing
<1>14. over' = FALSE
  BY DEF ListingInv, Listing, ClosedInv
<1>15. ListingInv'
  BY <1>1, <1>13, <1>14 DEF ListingInv, after, there
<1> QED
  BY <1>8, <1>15

\* What was peeked at is given at last.
LEMMA GivingThePeeked ==
  ASSUME LInv, GetPeekedEntry
  PROVE  LInv'
<1> DEFINE names == directory.names
           next == directory.next
           gave == given'
<1> USE DEF LInv
<1>1. /\ peeked # NOT_PEEKING /\ peeked' = NOT_PEEKING /\ over = FALSE
      /\ UNCHANGED <<directory, staying>>
  BY DEF GetPeekedEntry, ListingInv, Listing
<1>2. /\ names \in Seq(Parts) /\ next \in 1 .. Len(names) + 1 /\ Len(names) \in Nat
      /\ \A i, j \in 1 .. Len(names) : names[i] = names[j] => i = j
      /\ staying \subseteq {names[i] : i \in 1 .. Len(names)}
  BY LenProperties DEF ListingInv, Listing
<1>3. /\ given \in Seq(Parts) /\ Len(given) \in Nat
      /\ \A i, j \in 1 .. Len(given) : given[i] = given[j] => i = j
      /\ \A j \in 1 .. Len(given) :
             \E k \in 1 .. next - 1 : given[j] = names[k] /\ names[k] # peeked
      /\ \A k \in 1 .. next - 1 :
             names[k] \in staying /\ names[k] # peeked =>
                 \E j \in 1 .. Len(given) : given[j] = names[k]
  BY LenProperties DEF ListingInv, Listing
<1>4. /\ peeked \in {NONE} \cup {names[k] : k \in 1 .. next - 1}
      /\ peeked = NONE => next = Len(names) + 1
  BY <1>1 DEF ListingInv, Listing
<1>5. \A k \in 1 .. next - 1 : k \in 1 .. Len(names)
  BY <1>2
<1>6. \A k \in 1 .. Len(names) :
          names[k] \in Parts /\ names[k] # NONE /\ names[k] # NOT_PEEKING
  BY <1>2, NoPartIsAMark
<1>7. ClosedInv'
  BY <1>1 DEF ClosedInv, DirectoryIsOpen, GetPeekedEntry
<1>8. /\ gave \in Seq(Parts)
      /\ \A i, j \in 1 .. Len(gave) : gave[i] = gave[j] => i = j
      /\ \A j \in 1 .. Len(gave) : \E k \in 1 .. next - 1 : gave[j] = names[k]
      /\ \A k \in 1 .. next - 1 :
             names[k] \in staying => \E j \in 1 .. Len(gave) : gave[j] = names[k]
      /\ over' => next = Len(names) + 1
  <2>1. CASE peeked = NONE
    <3>1. gave = given
      BY <2>1 DEF GetPeekedEntry, Give
    <3> HIDE DEF names, next, gave
    <3>2. \A k \in 1 .. next - 1 : names[k] # peeked
      BY <1>5, <1>6, <2>1
    <3> QED
      BY <1>3, <1>4, <2>1, <3>1, <3>2
  <2>2. CASE peeked # NONE
    <3>1. gave = Append(given, peeked) /\ over' = FALSE
      BY <1>1, <2>2 DEF GetPeekedEntry, Give
    <3>2. PICK m \in 1 .. next - 1 : peeked = names[m]
      BY <1>4, <2>2
    <3> HIDE DEF names, next, gave
    <3>3. peeked \in Parts
      BY <1>5, <1>6, <3>2
    <3>4. /\ gave \in Seq(Parts) /\ Len(gave) = Len(given) + 1
          /\ gave[Len(given) + 1] = peeked
          /\ \A j \in 1 .. Len(given) : gave[j] = given[j]
      BY <1>3, <3>1, <3>3
    <3>5. 1 .. Len(gave) = 1 .. Len(given) \cup {Len(given) + 1}
      BY <1>3, <3>4
    <3>6. \A i, j \in 1 .. Len(gave) : gave[i] = gave[j] => i = j
      BY <1>3, <3>4, <3>5
    <3>7. \A j \in 1 .. Len(gave) : \E k \in 1 .. next - 1 : gave[j] = names[k]
      BY <1>3, <3>2, <3>4, <3>5
    <3>8. \A k \in 1 .. next - 1 :
              names[k] \in staying => \E j \in 1 .. Len(gave) : gave[j] = names[k]
      BY <1>3, <3>2, <3>4, <3>5
    <3> QED
      BY <3>1, <3>4, <3>6, <3>7, <3>8
  <2> QED
    BY <2>1, <2>2
<1>9. over' \in BOOLEAN
  <2>1. over' = (FALSE \/ peeked = NONE)
    BY <1>1 DEF GetPeekedEntry, Give
  <2> QED
    BY <2>1
<1> DEFINE end == over'
<1> HIDE DEF names, next, gave, end
<1>10. Listing(names, next, staying, gave, NOT_PEEKING, end)
  BY <1>2, <1>5, <1>6, <1>8, MemHandlesAssumption DEF Listing, end
<1>11. ListingInv'
  BY <1>1, <1>10 DEF ListingInv, names, next, gave, end
<1> QED
  BY <1>7, <1>11

\* A directory is opened on its names, each of them once.
LEMMA OpeningListsAll ==
  ASSUME PInv, FInv, LInv, NEW p, p # <<>>, NEW asked, OpenDirectory(p, asked)
  PROVE  LInv'
<1> DEFINE N == NamesIn(Rewritten(p))
           names == SetToSeq(N)
<1>1. N \subseteq Parts /\ IsFiniteSet(N)
  BY NamesAreParts
<1>2. /\ names \in Seq(N)
      /\ \A i, j \in 1 .. Len(names) : names[i] = names[j] => i = j
      /\ \A x \in N : \E i \in 1 .. Len(names) : names[i] = x
  <2> HIDE DEF N
  <2> QED
    BY <1>1, SetIsListed
<1>3. names \in Seq(Parts) /\ Len(names) \in Nat
  <2> HIDE DEF names, N
  <2> QED
    BY <1>1, <1>2, SeqMonotonic, LenProperties
<1>4. /\ directory' = [path |-> p, asked |-> asked, names |-> names, next |-> 1]
      /\ staying' \subseteq N
  BY DEF OpenDirectory
<1>5. given = <<>> /\ over = FALSE /\ peeked = NOT_PEEKING
  BY DEF OpenDirectory, LInv, ClosedInv
<1>6. given' = given /\ over' = over /\ peeked' = peeked
  BY DEF OpenDirectory
<1> DEFINE there == staying'
<1>7. there \subseteq {names[i] : i \in 1 .. Len(names)}
  <2> HIDE DEF names, N
  <2> QED
    BY <1>2, <1>4
<1> HIDE DEF names, N, there
<1>8. Len(given) = 0 /\ 1 .. 0 = {} /\ 1 .. 1 - 1 = {} /\ given \in Seq(Parts)
  BY <1>5, EmptySeq
<1>9. Listing(names, 1, there, given, NOT_PEEKING, FALSE)
  <2>1. 1 \in 1 .. Len(names) + 1
    BY <1>3
  <2>2. FALSE \/ NOT_PEEKING = NONE => 1 = Len(names) + 1
    BY MemHandlesAssumption
  <2> QED
    BY <1>2, <1>3, <1>7, <1>8, <2>1, <2>2 DEF Listing
<1>10. ListingInv'
  BY <1>3, <1>4, <1>5, <1>6, <1>9 DEF ListingInv, there
<1>11. ClosedInv'
  BY <1>4 DEF ClosedInv, DirectoryIsOpen, NOT_OPEN
<1> QED
  BY <1>10, <1>11 DEF LInv

LEMMA NextLInv == PInv /\ FInv /\ LInv /\ [HandlesNext]_allVars => LInv'
<1> SUFFICES ASSUME PInv, FInv, LInv, [HandlesNext]_allVars PROVE LInv'
  OBVIOUS
<1>0. ASSUME Watching PROVE staying' \subseteq staying
  BY <1>0 DEF Watching
<1>1. ASSUME NEW p \in {<<d>> : d \in AllDrives} \cup Paths, NEW asked \in ASKED,
             OpenDirectory(p, asked)
      PROVE  LInv'
  <2>1. p # <<>>
    BY PathsAreSequences
  <2> QED
    BY <1>1, <2>1, OpeningListsAll
<1>2. CASE GetPeekedEntry
  BY <1>2, GivingThePeeked
<1>3. CASE GetNextEntry
  <2>1. /\ DirectoryIsOpen /\ UNCHANGED vars /\ Watching /\ ~over
        /\ peeked = NOT_PEEKING /\ peeked' = NOT_PEEKING /\ Give(Found)
        /\ directory' = [directory EXCEPT !.next = Advanced]
    BY <1>3 DEF GetNextEntry
  <2> QED
    BY <2>1, GivingOne
<1>4. CASE PeekNextEntry
  <2>1. /\ DirectoryIsOpen /\ UNCHANGED vars /\ Watching /\ ~over
        /\ peeked = NOT_PEEKING /\ peeked' = Found /\ UNCHANGED <<given, over>>
        /\ directory' = [directory EXCEPT !.next = Advanced]
    BY <1>4 DEF PeekNextEntry
  <2> QED
    BY <2>1, PeekingAtOne
<1>5. CASE CloseDirectory
  <2>1. /\ directory' = NOT_OPEN /\ peeked' = NOT_PEEKING /\ given' = <<>>
        /\ over' = FALSE /\ staying' = {}
    BY <1>5 DEF CloseDirectory
  <2>2. Listing(given', directory'.next, staying', given', peeked', over')
    BY <2>1, EmptyListing DEF NOT_OPEN
  <2>3. /\ directory' \in [path : {directory'.path}, asked : {directory'.asked},
                           names : Seq(Parts), next : Nat]
        /\ directory'.names = given'
    BY <2>1 DEF NOT_OPEN
  <2>4. ListingInv'
    BY <2>2, <2>3 DEF ListingInv
  <2>5. ClosedInv'
    BY <2>1 DEF ClosedInv, DirectoryIsOpen, NOT_OPEN
  <2> QED
    BY <2>4, <2>5 DEF LInv
<1>6. ASSUME NEW h \in HANDLES, NEW p \in Paths, NEW mode \in MODES,
             OpenAt(h, p, mode)
      PROVE  LInv'
  BY <1>0, <1>6, FewerStay DEF OpenAt
<1>7. ASSUME NEW h \in HANDLES, NEW total \in Sizes, Write(h, total) PROVE LInv'
  BY <1>0, <1>7, FewerStay DEF Write
<1>8. ASSUME NEW h \in HANDLES, NEW wanted \in Sizes, Read(h, wanted) PROVE LInv'
  BY <1>8, FewerStay DEF Read
<1>9. ASSUME NEW h \in HANDLES, NEW offset \in OFFSETS, NEW where, Seek(h, offset, where)
      PROVE  LInv'
  BY <1>9, FewerStay DEF Seek
<1>10. ASSUME NEW h \in HANDLES, Close(h) PROVE LInv'
  BY <1>10, FewerStay DEF Close
<1>11. CASE Meanwhile
  <2>1. UNCHANGED <<directory, peeked, given, over>> /\ Watching
    BY <1>11 DEF Meanwhile
  <2> QED
    BY <1>0, <2>1, FewerStay
<1>12. CASE UNCHANGED allVars
  BY <1>12, FewerStay DEF allVars, handleVars
<1> QED
  BY <1>1, <1>2, <1>3, <1>4, <1>5, <1>6, <1>7, <1>8, <1>9, <1>10, <1>11, <1>12
     DEF HandlesNext

\* Whatever comes, goes or is renamed around it, a listing misses nothing that
\* stayed and gives nothing twice.
THEOREM ListingsAreFair == HandlesSpec => []ListingIsFair
<1>1. LInv => ListingIsFair
  <2> SUFFICES ASSUME LInv PROVE ListingIsFair
    OBVIOUS
  <2>1. Listing(directory.names, directory.next, staying, given, peeked, over)
    BY DEF LInv, ListingInv
  <2>2. DOMAIN given = 1 .. Len(given)
    BY <2>1, LenProperties DEF Listing
  <2>3. \A i, j \in DOMAIN given : given[i] = given[j] => i = j
    BY <2>1, <2>2 DEF Listing
  <2>4. ASSUME over, NEW name \in staying PROVE name \in ToSet(given)
    <3> DEFINE names == directory.names
    <3>1. /\ directory.next = Len(names) + 1 /\ peeked = NOT_PEEKING
          /\ names \in Seq(Parts) /\ Len(names) \in Nat
      BY <2>1, <2>4, LenProperties DEF Listing
    <3>2. PICK k \in 1 .. Len(names) : name = names[k]
      BY <2>1, <2>4 DEF Listing
    <3>3. k \in 1 .. directory.next - 1 /\ names[k] # peeked
      BY <3>1, <3>2, NoPartIsAMark
    <3>4. PICK j \in 1 .. Len(given) : given[j] = name
      BY <2>1, <2>4, <3>2, <3>3 DEF Listing
    <3> QED
      BY <2>2, <3>4 DEF ToSet
  <2> QED
    BY <2>3, <2>4 DEF ListingIsFair
<1> QED
  BY <1>1, InitLInv, NextLInv, InitPInv, NextPInv, InitFInv, NextFInv,
     HandlesImplementMemFs, PTL DEF HandlesSpec, Spec
=============================================================================
