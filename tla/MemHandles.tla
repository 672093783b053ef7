----------------------------- MODULE MemHandles -----------------------------
(***************************************************************************)
(* What the machine holds of the memory filesystem: memory_file, a place   *)
(* in a file, and memory_directory, a place in the names a directory had   *)
(* when it was opened, over a tree that everybody else goes on changing.   *)
(*                                                                         *)
(* A position is unsigned and wraps.  One directory is open at a time.     *)
(***************************************************************************)
EXTENDS MemFs

CONSTANTS
    POSITIONS, \* one more than the largest position there is
    OFFSETS,   \* what a seek may be given
    ASKED,     \* what a directory may be asked for: [dirs, files, uid]
    UID_SIZE,  \* sizeof(uid_type)
    NONE       \* std::nullopt

NOT_PEEKING == "not peeking"

ASSUME MemHandlesAssumption ==
    /\ NONE # NOT_PEEKING
    /\ {NONE, NOT_PEEKING} \cap (AllDrives \cup NAMES) = {}
    /\ POSITIONS \in Nat /\ POSITIONS > MAX_SIZE
    /\ \A i \in 1 .. Len(PACKAGE) : PACKAGE[i].size < POSITIONS
    /\ OFFSETS \subseteq Int
    /\ ASKED \subseteq [dirs : BOOLEAN, files : BOOLEAN, uid : BOOLEAN]
    /\ UID_SIZE \in Nat

VARIABLES
    position,  \* memory_file::position_ of every handle
    directory, \* memory_directory: path, asked, names_, and at_ as the next one
    peeked,    \* peeked_, or that peeking_ is false
    given,     \* history: the names answered so far
    over,      \* history: the end has been answered
    staying    \* history: the names it could answer at every moment so far

handleVars == <<position, directory, peeked, given, over, staying>>
allVars == <<vars, handleVars>>

NOT_OPEN == [path |-> <<>>, asked |-> {}, names |-> <<>>, next |-> 1]

HandlesInit ==
    /\ Init
    /\ position = [h \in HANDLES |-> 0]
    /\ directory = NOT_OPEN
    /\ peeked = NOT_PEEKING
    /\ given = <<>> /\ over = FALSE /\ staying = {}

-----------------------------------------------------------------------------
(* A directory's names.                                                    *)

DirectoryIsOpen == directory # NOT_OPEN

SizeOf(node) == IF Fixed(node) THEN node.fixed ELSE node.size

\* Where a name of the directory leads now: its path is put together anew,
\* and resolved as any caller's.
EntryOf(d, name) == Rewritten(d.path \o <<name>>)

\* Whether the name is answered when it is come to.  Asked for UIDs, a file
\* too short to have them is passed over; which ones they are is contents.
Answers(d, name) ==
    LET q == EntryOf(d, name)
    IN  /\ Exists(q)
        /\ IF tree[q].dir THEN d.asked.dirs
           ELSE /\ d.asked.files
                /\ d.asked.uid => SizeOf(tree[q]) >= UID_SIZE

NamesIn(q) == {Last(r) : r \in {s \in DOMAIN tree : Parent(s) = q}}

\* What every step does to the names that have been there all along.
Watching == staying' = {name \in staying : Answers(directory, name)'}

IsDirectory(q) == Exists(q) /\ (Len(q) > 1 => tree[q].dir)

\* The names are the directory's, in the map's order, of which the model only
\* knows that there is one.
OpenDirectory(p, asked) ==
    /\ ~DirectoryIsOpen
    /\ IsDirectory(Rewritten(p))
    /\ directory' = [path |-> p, asked |-> asked,
                     names |-> SetToSeq(NamesIn(Rewritten(p))), next |-> 1]
    /\ staying' = {name \in NamesIn(Rewritten(p)) : Answers(directory', name)}
    /\ UNCHANGED <<vars, position, peeked, given, over>>

\* get_next_entry's loop: on to the next name that is answered, or past all.
Coming ==
    {i \in directory.next .. Len(directory.names) :
        Answers(directory, directory.names[i])}
Found == IF Coming = {} THEN NONE ELSE directory.names[Min(Coming)]
Advanced ==
    IF Coming = {} THEN Len(directory.names) + 1 ELSE Min(Coming) + 1

Give(name) ==
    /\ given' = IF name = NONE THEN given ELSE Append(given, name)
    /\ over' = (over \/ name = NONE)

\* Variant of GetPeekedEntry: what was peeked at is dropped.
GetPeekedEntryAnew ==
    /\ DirectoryIsOpen /\ peeked # NOT_PEEKING /\ ~over
    /\ peeked' = NOT_PEEKING
    /\ Give(Found)
    /\ directory' = [directory EXCEPT !.next = Advanced]
    /\ UNCHANGED <<vars, position>>
    /\ Watching

\* Once the end has been answered it is answered for ever.
GetPeekedEntry ==
    /\ DirectoryIsOpen /\ peeked # NOT_PEEKING /\ ~over
    /\ peeked' = NOT_PEEKING
    /\ Give(peeked)
    /\ UNCHANGED <<vars, position, directory, staying>>

GetNextEntry ==
    /\ DirectoryIsOpen /\ peeked = NOT_PEEKING /\ ~over
    /\ Give(Found)
    /\ directory' = [directory EXCEPT !.next = Advanced]
    /\ UNCHANGED <<vars, position, peeked>>
    /\ Watching

PeekNextEntry ==
    /\ DirectoryIsOpen /\ peeked = NOT_PEEKING /\ ~over
    /\ peeked' = Found
    /\ directory' = [directory EXCEPT !.next = Advanced]
    /\ UNCHANGED <<vars, position, given, over>>
    /\ Watching

CloseDirectory ==
    /\ DirectoryIsOpen
    /\ directory' = NOT_OPEN
    /\ peeked' = NOT_PEEKING
    /\ given' = <<>> /\ over' = FALSE /\ staying' = {}
    /\ UNCHANGED <<vars, position>>

-----------------------------------------------------------------------------
(* A file's position.                                                      *)

\* The node of an open file: a handle whose node has gone is used no more.
HasNode(h) == IsOpen(h) /\ handles[h].path \in DOMAIN tree
NodeSize(h) == SizeOf(tree[handles[h].path])

\* A file is opened at its start, one opened to append to at its end.
OpenAt(h, p, mode) ==
    /\ OpenFile(h, p, mode)
    /\ position' = [position EXCEPT ![h] =
           IF APPEND \in mode THEN NodeSize(h)' ELSE 0]
    /\ UNCHANGED <<directory, peeked, given, over>>
    /\ Watching

\* A write whose end wraps, or is further than the machine has memory, is left
\* out with the files that are too large for the model.
Write(h, total) ==
    /\ WriteFile(h, position[h], total)
    /\ position' = [position EXCEPT ![h] = @ + total]
    /\ UNCHANGED <<directory, peeked, given, over>>
    /\ Watching

\* Variant of LeftOf: no care is taken of a position past the end.
LeftOfWrapping(h) == (NodeSize(h) - position[h]) % POSITIONS

LeftOf(h) ==
    (NodeSize(h) - (IF position[h] < NodeSize(h) THEN position[h] ELSE NodeSize(h)))
        % POSITIONS

\* read_file; what is read is not kept.
Read(h, wanted) ==
    /\ HasNode(h)
    /\ LET taken == IF wanted > LeftOf(h) THEN LeftOf(h) ELSE wanted
       IN  position' = [position EXCEPT ![h] = (@ + taken) % POSITIONS]
    /\ UNCHANGED <<vars, directory, peeked, given, over, staying>>

\* A seek by address is refused, and moves the position all the same.
Seek(h, offset, where) ==
    /\ HasNode(h)
    /\ LET from == CASE where = "crr" -> position[h]
                     [] where = "end" -> NodeSize(h)
                     [] OTHER -> 0
       IN  position' = [position EXCEPT ![h] = (from + offset) % POSITIONS]
    /\ UNCHANGED <<vars, directory, peeked, given, over, staying>>

Close(h) ==
    /\ CloseFile(h)
    /\ position' = [position EXCEPT ![h] = 0]
    /\ UNCHANGED <<directory, peeked, given, over, staying>>

\* Everything else happens to the tree with the handles where they are.
Meanwhile ==
    /\ \/ Drives
       \/ \E h \in HANDLES, size \in Sizes : Resize(h, size)
       \/ Names
    /\ UNCHANGED <<position, directory, peeked, given, over>>
    /\ Watching

-----------------------------------------------------------------------------

HandlesNext ==
    \/ \E q \in {<<d>> : d \in AllDrives} \cup Paths, asked \in ASKED :
           OpenDirectory(q, asked)
    \/ GetPeekedEntry \/ GetNextEntry \/ PeekNextEntry \/ CloseDirectory
    \/ \E h \in HANDLES, p \in Paths, mode \in MODES : OpenAt(h, p, mode)
    \/ \E h \in HANDLES, total \in Sizes : Write(h, total)
    \/ \E h \in HANDLES, wanted \in Sizes : Read(h, wanted)
    \/ \E h \in HANDLES, offset \in OFFSETS, where \in {"beg", "crr", "end", "address"} :
           Seek(h, offset, where)
    \/ \E h \in HANDLES : Close(h)
    \/ Meanwhile

HandlesSpec == HandlesInit /\ [][HandlesNext]_allVars

-----------------------------------------------------------------------------

(***************************************************************************)
(* A directory read to its end has answered every name that was there from *)
(* first to last and that it was asked for, whatever came, went or was     *)
(* renamed around it and however peeks and reads were mixed, and has       *)
(* answered no name twice (memory_directory::get_next_entry and            *)
(* peek_next_entry over names_, resolved again one by one).                *)
(***************************************************************************)
ListingIsFair ==
    /\ over => staying \subseteq ToSet(given)
    /\ \A i, j \in DOMAIN given : given[i] = given[j] => i = j

(***************************************************************************)
(* A read never runs past the end of its file, wherever a seek has left    *)
(* the position, before the start included, and however short a resize or  *)
(* a rename onto its name has made the file under it since                 *)
(* (memory_file::read_file).                                               *)
(***************************************************************************)
ReadsStayInside ==
    [][\A h \in HANDLES, wanted \in Sizes :
          HasNode(h) /\ position' # position /\ Read(h, wanted) =>
              position'[h] \in 1 .. NodeSize(h)]_allVars
=============================================================================
