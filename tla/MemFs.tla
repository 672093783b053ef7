------------------------------- MODULE MemFs -------------------------------
(***************************************************************************)
(* memory_file_system: drives that are trees of nodes in memory, one of    *)
(* them perhaps an RPKG that is read where it lies.  The machine has one   *)
(* with the drives it writes (g_drives) and, for a phone that comes with   *)
(* an RPKG, one with that (rpkg_drive_).                                   *)
(*                                                                         *)
(* A path is a sequence: its drive, then its names, which stand for what   *)
(* lowering their letters leaves.  The tree is a function from the paths   *)
(* that have a node to the node; a drive's root has none, and is there     *)
(* while the drive is mounted.  A file's bytes are abstracted to how many  *)
(* it has.  An operation the code answers false or null is not enabled:    *)
(* each of them leaves the tree as it was.                                 *)
(***************************************************************************)
EXTENDS Integers, FiniteSets, Sequences, SequencesExt, FiniteSetsExt

CONSTANTS
    DRIVES,      \* mounted empty and written by the machine
    PACKAGE_DRIVES, \* where an RPKG goes: Z, or none
    NAMES,
    MOVED,       \* what EKA2 moved: the directories, and every sequence of names
                 \* that is spelled as one of them and goes on
    MOVED_TO,    \* where it moved each, what is spelled after it included
    PACKAGE,     \* the RPKG's entries, in order: [path, size], no drive
    VERSIONS,    \* what set_epoc_ver may be told: whether it is EKA2
    HANDLES,     \* files the machine may have open at once
    MODES,       \* what a file may be opened for
    MAX_DEPTH,   \* bound: names in a path
    MAX_ENTRIES, \* bound: nodes in the tree
    MAX_SIZE     \* bound: bytes in a file

READ == "r"
WRITE == "w"
APPEND == "a"

ASSUME MemFsAssumption ==
    /\ PACKAGE_DRIVES \cap DRIVES = {}
    /\ VERSIONS \subseteq BOOLEAN
    /\ MODES \subseteq (SUBSET {READ, WRITE, APPEND}) \ {{}}
    /\ MAX_DEPTH \in Nat \ {0}
    /\ MAX_ENTRIES \in Nat
    /\ MAX_SIZE \in Nat
    /\ MOVED \subseteq Seq(NAMES) \ {<<>>}
    /\ MOVED_TO \in [MOVED -> Seq(NAMES) \ {<<>>}]
    /\ PACKAGE \in Seq([path : Seq(NAMES) \ {<<>>}, size : Nat])

VARIABLES
    mounted,    \* mappings_[i].second
    protected,  \* the mounted drives with io_attrib_write_protected
    eka2,       \* version_ >= epocver::eka2
    tree,       \* roots_[i].children, all the way down
    handles     \* memory_file objects: the node each holds, and its mode

vars == <<mounted, protected, eka2, tree, handles>>

NOT_FIXED == -1
GONE == <<>>      \* a handle's node has been erased

NameSeqs == UNION {[1 .. n -> NAMES] : n \in 1 .. MAX_DEPTH}
AllDrives == DRIVES \cup PACKAGE_DRIVES
PathOn(d, ns) == <<d>> \o ns
Paths == {PathOn(d, ns) : d \in AllDrives, ns \in NameSeqs}
Sizes == 0 .. MAX_SIZE
Closed == [path |-> GONE, mode |-> {}]

Init ==
    /\ mounted = {}
    /\ protected = {}
    /\ eka2 = FALSE
    /\ tree = << >>
    /\ handles = [h \in HANDLES |-> Closed]

-----------------------------------------------------------------------------
(* Paths and nodes.                                                        *)

Parent(p) == Front(p)
Beneath(p, q) == IsStrictPrefix(q, p)
AtOrBeneath(p, q) == IsPrefix(q, p)

\* rewrite_for_eka2, and the test of the version before each call of it.  It
\* looks at characters, not names: a name that only begins with a moved one
\* keeps what follows ("\system\libs2" is "\sys\bin2"), so MOVED has it too.
Rewritten(p) ==
    IF eka2 /\ \E m \in MOVED : IsPrefix(m, Tail(p))
    THEN LET m == CHOOSE m \in MOVED : IsPrefix(m, Tail(p))
         IN  <<Head(p)>> \o MOVED_TO[m] \o SubSeq(p, Len(m) + 2, Len(p))
    ELSE p

\* resolve, of the path as the tree knows it.
Exists(q) ==
    /\ Head(q) \in mounted
    /\ Len(q) > 1 => q \in DOMAIN tree

\* resolve_parent: there may be a node at q, a file's name or a directory's
\* above it alike.
HasParent(q) == Len(q) > 1 /\ Exists(Parent(q))

NewNode(dir) == [dir |-> dir, size |-> 0, fixed |-> NOT_FIXED]
NewFile == NewNode(FALSE)
NewDir == NewNode(TRUE)

Fixed(node) == node.fixed # NOT_FIXED

\* children[...] of a name: the node there, or a new one.
NodeOr(t, q, new) == IF q \in DOMAIN t THEN t[q] ELSE new
\* One tree laid over another: its nodes, and the other's elsewhere.
Over(f, g) ==
    [q \in DOMAIN f \cup DOMAIN g |-> IF q \in DOMAIN f THEN f[q] ELSE g[q]]
With(t, q, node) == Over([r \in {q} |-> node], t)
Without(t, gone) == Restrict(t, DOMAIN t \ gone)

IsOpen(h) == handles[h].mode # {}
\* Handles whose nodes are erased hold a pointer to nothing.
Dangle(gone) ==
    [h \in HANDLES |->
        IF handles[h].path \in gone THEN [handles[h] EXCEPT !.path = GONE]
        ELSE handles[h]]

\* The bounds of the model, on the tree an action leaves.
Bounded(t) ==
    /\ Cardinality(DOMAIN t) <= MAX_ENTRIES
    /\ \A q \in DOMAIN t : Len(q) <= MAX_DEPTH + 1

-----------------------------------------------------------------------------
(* Drives.                                                                 *)

\* Every caller but mount_rpkg mounts a drive the machine may write.
MountEmpty(d) ==
    /\ d \notin mounted
    /\ mounted' = mounted \cup {d}
    /\ protected' = protected \ {d}
    /\ UNCHANGED <<eka2, tree, handles>>

\* The nodes of the package's first n entries.  Each name on an entry's way
\* gets a node, a directory unless the last entry to pass ends there; a node
\* an entry ends at has the contents of the last that does.
PackageTree(d, n) ==
    LET at(i) == <<d>> \o PACKAGE[i].path
        passing(q) == {i \in 1 .. n : AtOrBeneath(at(i), q)}
        ending(q) == {i \in 1 .. n : at(i) = q}
    IN  [q \in {r \in Paths : passing(r) # {}} |->
            [dir |-> Max(passing(q)) \notin ending(q),
             size |-> 0,
             fixed |-> IF ending(q) = {} THEN NOT_FIXED
                       ELSE PACKAGE[Max(ending(q))].size]]

\* A package cut short is mounted as far as it goes.
MountRpkg(d, n) ==
    /\ d \notin mounted
    /\ mounted' = mounted \cup {d}
    /\ protected' = protected \cup {d}
    /\ tree' = Over(PackageTree(d, n), tree)
    /\ Bounded(tree')
    /\ UNCHANGED <<eka2, handles>>

Unmount(d) ==
    /\ d \in mounted
    /\ mounted' = mounted \ {d}
    /\ LET gone == {q \in DOMAIN tree : Head(q) = d}
       IN  tree' = Without(tree, gone) /\ handles' = Dangle(gone)
    /\ UNCHANGED <<protected, eka2>>

SetEpocVer(ver) ==
    /\ eka2' = ver
    /\ UNCHANGED <<mounted, protected, tree, handles>>

-----------------------------------------------------------------------------
(* Open files.                                                             *)

Changes(mode) == WRITE \in mode \/ APPEND \in mode
Truncates(mode) == mode = {WRITE}

Larger(m, n) == IF m < n THEN n ELSE m

\* Variants of OpenFile: a new file is put where the caller named it, and a
\* packaged file is opened for writing.
OpenFileUnrewritten(h, p, mode) ==
    /\ ~IsOpen(h)
    /\ Head(p) \in mounted
    /\ Head(p) \in protected => ~Changes(mode)
    /\ LET node == NodeOr(tree, Rewritten(p), NewFile)
           at == IF Exists(Rewritten(p)) THEN Rewritten(p) ELSE p
       IN  /\ Exists(at) \/ (WRITE \in mode /\ HasParent(at))
           /\ ~node.dir
           /\ Fixed(node) => ~Changes(mode)
           /\ tree' = With(tree, at,
                  IF Truncates(mode) THEN [node EXCEPT !.size = 0] ELSE node)
           /\ handles' = [handles EXCEPT ![h] = [path |-> at, mode |-> mode]]
    /\ Bounded(tree')
    /\ UNCHANGED <<mounted, protected, eka2>>

OpenFile(h, p, mode) ==
    /\ ~IsOpen(h)
    /\ Head(p) \in mounted
    /\ Head(p) \in protected => ~Changes(mode)
    /\ LET q == Rewritten(p)
           node == NodeOr(tree, q, NewFile)
       IN  /\ Exists(q) \/ (WRITE \in mode /\ HasParent(q))
           /\ ~node.dir
           /\ Fixed(node) => ~Changes(mode)
           /\ tree' = With(tree, q,
                  IF Truncates(mode) THEN [node EXCEPT !.size = 0] ELSE node)
           /\ handles' = [handles EXCEPT ![h] = [path |-> q, mode |-> mode]]
    /\ Bounded(tree')
    /\ UNCHANGED <<mounted, protected, eka2>>

\* Variant of WriteFile: only opening asks whether the file is packaged.
WriteFileTrusting(h, position, total) ==
    LET q == handles[h].path
    IN  /\ q # GONE
        /\ Changes(handles[h].mode)
        /\ position + total <= MAX_SIZE
        /\ tree' = [tree EXCEPT ![q].size = Larger(@, position + total)]
        /\ UNCHANGED <<mounted, protected, eka2, handles>>

\* write_file, wherever seeking has left the position.  A file only grows.
WriteFile(h, position, total) ==
    LET q == handles[h].path
    IN  /\ q # GONE
        /\ Changes(handles[h].mode) /\ ~Fixed(tree[q])
        /\ position + total <= MAX_SIZE
        /\ tree' = [tree EXCEPT ![q].size = Larger(@, position + total)]
        /\ UNCHANGED <<mounted, protected, eka2, handles>>

\* resize asks nothing of the handle's mode.
Resize(h, size) ==
    LET q == handles[h].path
    IN  /\ q # GONE
        /\ ~Fixed(tree[q])
        /\ tree' = [tree EXCEPT ![q].size = size]
        /\ UNCHANGED <<mounted, protected, eka2, handles>>

CloseFile(h) ==
    /\ IsOpen(h)
    /\ handles' = [handles EXCEPT ![h] = Closed]
    /\ UNCHANGED <<mounted, protected, eka2, tree>>

-----------------------------------------------------------------------------
(* Names.                                                                  *)

\* The path a node at or beneath `from` has once `from` is `to`.
Renamed(q, from, to) == to \o SubSeq(q, Len(from) + 1, Len(q))

\* Variant of Follow: what moves is a copy, so every handle into it dangles.
FollowNobody(q, from, to) ==
    IF AtOrBeneath(q, from) \/ Beneath(q, to) THEN GONE ELSE q

\* Where a handle's node is when `from` has been moved to `to`.  The node at
\* the old name is erased once emptied, one beneath it moves along, and the
\* node at the new name, whose place is kept, gets what was moved.
Follow(q, from, to) ==
    IF q = from \/ (Beneath(q, to) /\ ~Beneath(q, from)) THEN GONE
    ELSE IF ~Beneath(q, from) THEN q
    ELSE IF Beneath(to, from) THEN GONE
    ELSE Renamed(q, from, to)

\* Variant of MovedTree: what was beneath the new name is kept.
MovedTreeMerging(from, to) ==
    LET moving == {q \in DOMAIN tree : AtOrBeneath(q, from)}
        moved == [q \in {Renamed(m, from, to) : m \in moving} |->
                      tree[CHOOSE m \in moving : Renamed(m, from, to) = q]]
    IN  IF Beneath(to, from) THEN Without(tree, moving)
        ELSE Over(moved, Without(tree, moving))

\* The node at the old name, with all its children, takes the place of
\* whatever is at the new one.  A tree moved to a place within itself is
\* undefined behaviour in the code: the parent it goes under is used after it
\* is moved away, and no name reaches the tree again.
MovedTree(from, to) ==
    LET moving == {q \in DOMAIN tree : AtOrBeneath(q, from)}
        stays == Restrict(tree, {q \in DOMAIN tree :
                     ~AtOrBeneath(q, from) /\ ~AtOrBeneath(q, to)})
        moved == [q \in {Renamed(m, from, to) : m \in moving} |->
                      tree[CHOOSE m \in moving : Renamed(m, from, to) = q]]
    IN  IF Beneath(to, from) THEN stays ELSE Over(moved, stays)

Replace(p1, p2) ==
    LET from == Rewritten(p1)
        to == Rewritten(p2)
    IN  /\ HasParent(from) /\ Exists(from) /\ HasParent(to)
        /\ handles' = [h \in HANDLES |-> [handles[h] EXCEPT
                          !.path = Follow(@, from, to)]]
        /\ tree' = MovedTree(from, to)
        /\ Bounded(tree')
        /\ UNCHANGED <<mounted, protected, eka2>>

DeleteEntry(p) ==
    LET q == Rewritten(p)
        gone == {r \in DOMAIN tree : AtOrBeneath(r, q)}
    IN  /\ HasParent(q) /\ Exists(q)
        /\ tree[q].dir => gone = {q}
        /\ tree' = Without(tree, gone)
        /\ handles' = Dangle(gone)
        /\ UNCHANGED <<mounted, protected, eka2>>

\* A file there already becomes a directory.
CreateDirectory(p) ==
    LET q == Rewritten(p)
    IN  /\ HasParent(q)
        /\ tree' = With(tree, q, [NodeOr(tree, q, NewDir) EXCEPT !.dir = TRUE])
        /\ Bounded(tree')
        /\ UNCHANGED <<mounted, protected, eka2, handles>>

\* Every name on the way, as the caller spelled it: nothing is rewritten.
CreateDirectories(p) ==
    /\ Head(p) \in mounted
    /\ LET way == {SubSeq(p, 1, i) : i \in 2 .. Len(p)}
       IN  tree' = [q \in DOMAIN tree \cup way |->
                       IF q \in way THEN [NodeOr(tree, q, NewDir) EXCEPT !.dir = TRUE]
                       ELSE tree[q]]
    /\ Bounded(tree')
    /\ UNCHANGED <<mounted, protected, eka2, handles>>

-----------------------------------------------------------------------------

Drives ==
    \/ \E d \in DRIVES : MountEmpty(d)
    \/ \E d \in PACKAGE_DRIVES, n \in 0 .. Len(PACKAGE) : MountRpkg(d, n)
    \/ \E d \in AllDrives : Unmount(d)
    \/ \E ver \in VERSIONS : SetEpocVer(ver)

Files ==
    \/ \E h \in HANDLES, p \in Paths, mode \in MODES : OpenFile(h, p, mode)
    \/ \E h \in HANDLES, position \in Sizes, total \in Sizes :
           WriteFile(h, position, total)
    \/ \E h \in HANDLES, size \in Sizes : Resize(h, size)
    \/ \E h \in HANDLES : CloseFile(h)

Names ==
    \/ \E p1, p2 \in Paths : Replace(p1, p2)
    \/ \E p \in Paths :
           DeleteEntry(p) \/ CreateDirectory(p) \/ CreateDirectories(p)

Next == Drives \/ Files \/ Names

Spec == Init /\ [][Next]_vars

-----------------------------------------------------------------------------

\* The paths a caller may name a node of t by: every operation below that
\* succeeds is given one of these.
Named(t) == {p \in Paths : Rewritten(p) \in DOMAIN t}

(***************************************************************************)
(* What the package holds is never written over: wherever a packaged file  *)
(* has been renamed to, over a file open for writing or not, it keeps the  *)
(* size it has in the package and gains no bytes of its own, which the     *)
(* machine would read nowhere (memfs.h:36-38, memory_file::write_file,     *)
(* resize and open_file).                                                  *)
(***************************************************************************)
PackageContentsIntact ==
    \A q \in DOMAIN tree : Fixed(tree[q]) =>
        /\ \E i \in 1 .. Len(PACKAGE) : PACKAGE[i].size = tree[q].fixed
        /\ tree[q].size = 0

(***************************************************************************)
(* A rename moves a whole tree: what was at the old name, and all of it,   *)
(* is at the new one afterwards and nothing else is, whether the new name  *)
(* was taken, or above the old one; the rest of the drive is as it was.    *)
(* It is not asked of a tree renamed to a place within itself.             *)
(***************************************************************************)
RenameMovesTheWhole ==
    [][tree' # tree =>
       \A p1 \in Named(tree), p2 \in Named(tree') :
          Replace(p1, p2) /\ ~Beneath(Rewritten(p2), Rewritten(p1)) =>
              LET from == Rewritten(p1)
                  to == Rewritten(p2)
                  spared(t) == {q \in DOMAIN t :
                      ~AtOrBeneath(q, from) /\ ~AtOrBeneath(q, to)}
                  held(t, p) == {<<SubSeq(q, Len(p) + 1, Len(q)), t[q]>> :
                      q \in {r \in DOMAIN t : AtOrBeneath(r, p)}}
              IN  /\ held(tree', to) = held(tree, from)
                  /\ Restrict(tree', spared(tree')) = Restrict(tree, spared(tree))]_vars

(***************************************************************************)
(* An open file is the same file whatever is renamed or deleted around it. *)
(* A handle that is not on the node a rename moves, nor on or beneath the  *)
(* one it replaces, and a handle that is not on or beneath the node a      *)
(* delete takes, are on a node still, and it is the one they were on: its  *)
(* size tells it from the others there are (memory_file::node_ over        *)
(* memory_file_system::replace and delete_entry).                          *)
(***************************************************************************)
StillOn(h) == /\ handles'[h].path # GONE
              /\ tree'[handles'[h].path] = tree[handles[h].path]
RenamedAround(q, from, to) ==
    /\ q # from
    /\ ~AtOrBeneath(q, to) \/ Beneath(q, from)
    /\ ~Beneath(to, from)

OpenFilesFollow ==
    [][tree' # tree =>
       \A h \in {g \in HANDLES : handles[g].path # GONE}, p1 \in Named(tree) :
          LET q == handles[h].path
          IN  /\ \A p2 \in Named(tree') :
                     RenamedAround(q, Rewritten(p1), Rewritten(p2)) /\ Replace(p1, p2) =>
                         StillOn(h)
              /\ ~AtOrBeneath(q, Rewritten(p1)) /\ DeleteEntry(p1) => StillOn(h)]_vars

\* The name a caller gives finds a node, or the place for one.
Finds(p) == Exists(Rewritten(p))
FindsPlace(p) == Head(p) \in mounted /\ HasParent(Rewritten(p))

(***************************************************************************)
(* What the machine makes it finds again under the name it made it by, on  *)
(* an EKA2 phone too, where two directories go by another name             *)
(* (memfs.cpp:58-60): a file opened, a directory made, a file renamed.     *)
(***************************************************************************)
MadeIsFound ==
    [][<<tree, handles>>' # <<tree, handles>> =>
       LET named == Named(tree)
           makes(p) ==
               \/ \E h \in HANDLES, mode \in MODES : OpenFile(h, p, mode)
               \/ CreateDirectory(p)
               \/ \E p1 \in named :
                      ~Beneath(Rewritten(p), Rewritten(p1)) /\ Replace(p1, p)
       IN  \A p \in {r \in Paths : FindsPlace(r)} : Finds(p)' \/ ~makes(p)]_vars
=============================================================================
