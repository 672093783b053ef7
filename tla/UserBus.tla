------------------------------ MODULE UserBus ------------------------------
(***************************************************************************)
(* The game's memory as the host's tools see it: the bus exports of        *)
(* wbx-entry.cpp over machine::resolve_user and its one cached page.       *)
(*                                                                         *)
(* External: the memory model's page tables, which the guest changes as it *)
(* runs (a chunk committed, decommitted, moved), and get_real_pointer,     *)
(* which answers for an address space, or for the current one when given   *)
(* none.  A page is PAGE_SIZE bytes, and the bus BUS_PAGES pages.          *)
(***************************************************************************)
EXTENDS Integers, Sequences

CONSTANTS
    ASIDS,       \* address spaces
    BUS_PAGES,   \* the bus is pages 0 .. BUS_PAGES - 1
    PAGE_SIZE,
    HOSTS,       \* host pages the memory model backs guest pages with
    BYTE_SIZE,   \* a byte holds 0 .. BYTE_SIZE - 1: 256 in the code
    NOTHING,     \* no host address
    MAX_READ     \* the size of ReadBus's buffer

ASSUME BusAssumption ==
    /\ BUS_PAGES \in Nat \ {0}
    /\ PAGE_SIZE \in Nat \ {0}
    /\ ASIDS \subseteq Nat
    /\ NOTHING \notin HOSTS
    /\ BYTE_SIZE \in Nat \ {0}
    /\ MAX_READ \in Nat

VARIABLES
    inited,       \* g_inited: Init, which launches the game, has returned
    has_memory,   \* sys_->get_memory_system() is there
    table,        \* the page tables: address space and page to host page
    bytes,        \* what host pages hold
    current,      \* the address space of the thread that ran last
    game_asid,    \* machine::game_asid_, NO_SPACE before a launch
    cached_page,  \* machine::cached_page_, NO_PAGE for 0xFFFFFFFF
    cached_host,  \* machine::cached_host_
    remapped      \* history: the guest has taken a mapping away

cacheVars == <<cached_page, cached_host>>
vars == <<inited, has_memory, table, bytes, current, game_asid, cacheVars,
          remapped>>

NO_SPACE == -1
NO_PAGE == -1
Pages == 0 .. (BUS_PAGES - 1)
Offsets == 0 .. (PAGE_SIZE - 1)
BYTES == 0 .. (BYTE_SIZE - 1)
BUS_SIZE == BUS_PAGES * PAGE_SIZE

PageOf(addr) == addr \div PAGE_SIZE
OffsetOf(addr) == addr % PAGE_SIZE

Init ==
    /\ inited = FALSE
    /\ has_memory = FALSE
    /\ table = [s \in ASIDS |-> [p \in Pages |-> NOTHING]]
    /\ bytes = [h \in HOSTS |-> [o \in Offsets |-> 0]]
    /\ current \in ASIDS
    /\ game_asid = NO_SPACE
    /\ cached_page = NO_PAGE
    /\ cached_host = NOTHING
    /\ remapped = FALSE

-----------------------------------------------------------------------------
(* The machine starting, and running.                                      *)

\* set_device: the memory model arrives with the device.
SetDevice ==
    /\ ~inited
    /\ ~has_memory
    /\ has_memory' = TRUE
    /\ UNCHANGED <<inited, table, bytes, current, game_asid, cacheVars,
                   remapped>>

\* launch_app, the part the bus depends on: whose memory it reads.  The
\* unpacker of a .blz is launched before the game is.  A launch whose process
\* or memory is not found leaves the bus as it is.
LaunchApp(s) ==
    /\ ~inited
    /\ has_memory
    /\ game_asid' = s
    /\ UNCHANGED <<inited, has_memory, table, bytes, current, cacheVars,
                   remapped>>

InitReturns ==
    /\ ~inited
    /\ inited' = TRUE
    /\ UNCHANGED <<has_memory, table, bytes, current, game_asid, cacheVars,
                   remapped>>

\* A chunk is committed: a page that had no memory gets some, which another
\* process may share.  The lowest page is Symbian's null trap, never mapped.
MapPage(s, p, h) ==
    /\ has_memory
    /\ p # 0
    /\ table[s][p] = NOTHING
    /\ table' = [table EXCEPT ![s][p] = h]
    /\ UNCHANGED <<inited, has_memory, bytes, current, game_asid, cacheVars,
                   remapped>>

\* A chunk is decommitted, or its process ends.
UnmapPage(s, p) ==
    /\ table[s][p] # NOTHING
    /\ table' = [table EXCEPT ![s][p] = NOTHING]
    /\ remapped' = TRUE
    /\ UNCHANGED <<inited, has_memory, bytes, current, game_asid, cacheVars>>

SwitchTo(s) ==
    /\ has_memory
    /\ current' = s
    /\ UNCHANGED <<inited, has_memory, table, bytes, game_asid, cacheVars,
                   remapped>>

GuestWrites(p, o, b) ==
    /\ table[current][p] # NOTHING
    /\ bytes' = [bytes EXCEPT ![table[current][p]][o] = b]
    /\ UNCHANGED <<inited, has_memory, table, current, game_asid, cacheVars,
                   remapped>>

-----------------------------------------------------------------------------
(* resolve_user.                                                           *)

\* Variant of Lookup: the address space is not named.
LookupCurrent(p) == table[current][p]

\* get_real_pointer(page, asid), where no address space is the current one.
Lookup(p) == table[IF game_asid = NO_SPACE THEN current ELSE game_asid][p]

Cache == [page |-> cached_page, host |-> cached_host]
NoCache == [page |-> NO_PAGE, host |-> NOTHING]

\* Variant of Hit: the pages are not compared.
HitAnyPage(c, p) == c.host # NOTHING

Hit(c, p) == p = c.page /\ c.host # NOTHING

\* No memory, or the lowest page: answered without a lookup.
Refused(p) == ~has_memory \/ p = 0

Resolve(c, p) ==
    IF Hit(c, p) THEN c.host ELSE IF Refused(p) THEN NOTHING ELSE Lookup(p)

\* A lookup that finds nothing empties the cache, one refused leaves it.
CacheAfter(c, p) ==
    IF Hit(c, p) \/ Refused(p) THEN c
    ELSE IF Lookup(p) = NOTHING THEN NoCache
    ELSE [page |-> p, host |-> Lookup(p)]

ByteFrom(h, addr) == IF h = NOTHING THEN 0 ELSE bytes[h][OffsetOf(addr)]

\* peek_user
PeekUser(c, addr) == ByteFrom(Resolve(c, PageOf(addr)), addr)

\* read_user: a page per lookup.  The cache as the loop finds it at the page
\* of `addr + i`: as it was at the run's first page, and afterwards as the
\* lookup of the page before left it, which no page before that is part of.
CacheAt(c, addr, i) ==
    LET first == PageOf(addr)
        p == PageOf(addr + i)
    IN  IF p = first THEN c
        ELSE IF p - 1 = first THEN CacheAfter(c, p - 1)
        ELSE CacheAfter(NoCache, p - 1)

\* Variant of ReadUser: the host page of the first byte serves them all.
ReadUserOnce(c, addr, n) ==
    [i \in 1 .. n |-> ByteFrom(Resolve(c, PageOf(addr)), addr + i - 1)]

ReadUser(c, addr, n) ==
    [i \in 1 .. n |-> PeekUser(CacheAt(c, addr, i - 1), addr + i - 1)]

CacheAfterRead(c, addr, n) ==
    IF n = 0 THEN c
    ELSE CacheAfter(CacheAt(c, addr, n - 1), PageOf(addr + n - 1))

-----------------------------------------------------------------------------
(* The bus exports: what they answer, and what they leave behind.          *)

InBus(addr) == inited /\ addr >= 0 /\ addr < BUS_SIZE

PeekAnswer(addr) == IF InBus(addr) THEN PeekUser(Cache, addr) ELSE 0

Clamp(len) == IF len < 0 THEN 0 ELSE IF len > MAX_READ THEN MAX_READ ELSE len

\* The whole run is on the bus, or none of it is read.
RunInBus(addr, n) == inited /\ addr >= 0 /\ addr + n <= BUS_SIZE

ReadAnswer(addr, len) ==
    LET n == Clamp(len)
    IN  IF RunInBus(addr, n) THEN ReadUser(Cache, addr, n)
        ELSE [i \in 1 .. n |-> 0]

SetCache(c) == cached_page' = c.page /\ cached_host' = c.host

PeekBus(addr) ==
    /\ InBus(addr)
    /\ SetCache(CacheAfter(Cache, PageOf(addr)))
    /\ UNCHANGED <<inited, has_memory, table, bytes, current, game_asid,
                   remapped>>

ReadBus(addr, len) ==
    /\ RunInBus(addr, Clamp(len))
    /\ SetCache(CacheAfterRead(Cache, addr, Clamp(len)))
    /\ UNCHANGED <<inited, has_memory, table, bytes, current, game_asid,
                   remapped>>

\* Variant of PokeBus: the byte goes through the current thread's tables.
PokeBusCurrent(addr, value) ==
    /\ InBus(addr)
    /\ table[current][PageOf(addr)] # NOTHING
    /\ bytes' = [bytes EXCEPT
            ![table[current][PageOf(addr)]][OffsetOf(addr)] = value % BYTE_SIZE]
    /\ UNCHANGED <<inited, has_memory, table, current, game_asid, cacheVars,
                   remapped>>
PokeBus(addr, value) ==
    /\ InBus(addr)
    /\ LET h == Resolve(Cache, PageOf(addr))
       IN  bytes' = IF h = NOTHING THEN bytes
                    ELSE [bytes EXCEPT ![h][OffsetOf(addr)] = value % BYTE_SIZE]
    /\ SetCache(CacheAfter(Cache, PageOf(addr)))
    /\ UNCHANGED <<inited, has_memory, table, current, game_asid, remapped>>

Guest ==
    \/ SetDevice
    \/ InitReturns
    \/ \E s \in ASIDS : LaunchApp(s) \/ SwitchTo(s)
    \/ \E s \in ASIDS, p \in Pages, h \in HOSTS : MapPage(s, p, h)
    \/ \E s \in ASIDS, p \in Pages : UnmapPage(s, p)
    \/ \E p \in Pages, o \in Offsets, b \in BYTES : GuestWrites(p, o, b)

\* The addresses and lengths a tool may try reach past both ends.
Addresses == -1 .. BUS_SIZE
Lengths == -1 .. (MAX_READ + 1)
Values == -1 .. BYTE_SIZE

Tool ==
    \/ \E addr \in Addresses : PeekBus(addr)
    \/ \E addr \in Addresses, value \in Values : PokeBus(addr, value)
    \/ \E addr \in Addresses, len \in Lengths : ReadBus(addr, len)

Next == Guest \/ Tool

Spec == Init /\ [][Next]_vars

-----------------------------------------------------------------------------

TypeOK ==
    /\ inited \in BOOLEAN /\ has_memory \in BOOLEAN
    /\ table \in [ASIDS -> [Pages -> HOSTS \cup {NOTHING}]]
    /\ bytes \in [HOSTS -> [Offsets -> BYTES]]
    /\ current \in ASIDS
    /\ game_asid \in ASIDS \cup {NO_SPACE}
    /\ cached_page \in Pages \cup {NO_PAGE}
    /\ cached_host \in HOSTS \cup {NOTHING}
    /\ remapped \in BOOLEAN

\* What the bus promises: the byte the game itself would read, zero where it
\* has nothing mapped.
GameByte(addr) == ByteFrom(table[game_asid][PageOf(addr)], addr)

BusAgrees ==
    inited /\ game_asid # NO_SPACE =>
        \A addr \in Addresses : InBus(addr) => PeekAnswer(addr) = GameByte(addr)

(***************************************************************************)
(* The bus reads the memory of the process it started, "whichever thread   *)
(* happens to have run last" (machine.h:140-143), as long as the guest     *)
(* has only ever added mappings: through launches, switches of thread,     *)
(* shared pages, and a cache that lives from one access to the next.       *)
(***************************************************************************)
BusReadsTheGame == ~remapped => BusAgrees

(***************************************************************************)
(* The same, unconditionally, which is what machine.h:140-143 says:        *)
(* "resolves each address through the page tables of the process it        *)
(* started", and "addresses nothing is mapped at read as zero".            *)
(***************************************************************************)
BusAlwaysReadsTheGame == BusAgrees

(***************************************************************************)
(* A page the bus once found unmapped is seen as soon as the game maps it, *)
(* whatever the cache held meanwhile: the bus answers "nothing" only of a  *)
(* page that has nothing now.  This holds even when mappings come and go.  *)
(***************************************************************************)
MappedPagesAreSeen ==
    inited /\ game_asid # NO_SPACE =>
        \A p \in Pages :
            Resolve(Cache, p) = NOTHING => table[game_asid][p] = NOTHING

\* The caches a run of peeks goes through, each leaving its own to the next.
CachesOfPeeks(addr, n) ==
    LET cache[i \in 0 .. n] ==
            IF i = 0 THEN Cache
            ELSE IF InBus(addr + i - 1)
                 THEN CacheAfter(cache[i - 1], PageOf(addr + i - 1))
                 ELSE cache[i - 1]
    IN  cache

Peeks(addr, n) ==
    LET cache == CachesOfPeeks(addr, n)
    IN  [i \in 1 .. n |-> IF InBus(addr + i - 1)
                          THEN PeekUser(cache[i - 1], addr + i - 1) ELSE 0]

(***************************************************************************)
(* A run read at once is what as many single peeks would have answered,    *)
(* across pages, mapped or not, for every run that lies on the bus, and it *)
(* leaves the cache they would have left, mappings coming and going.       *)
(***************************************************************************)
RunsArePeeks ==
    \A addr \in Addresses, len \in Lengths :
        LET n == Clamp(len)
        IN  RunInBus(addr, n) =>
                /\ ReadAnswer(addr, len) = Peeks(addr, n)
                /\ CacheAfterRead(Cache, addr, n) = CachesOfPeeks(addr, n)[n]

(***************************************************************************)
(* A poke lands in the game: while the game keeps what it has mapped, a    *)
(* tool changes no byte of a host page the game does not have.             *)
(***************************************************************************)
PokesStayInTheGame ==
    [][/\ ~remapped /\ game_asid # NO_SPACE /\ bytes' # bytes
       /\ \E addr \in Addresses, value \in Values : PokeBus(addr, value)
       => \A h \in HOSTS : bytes'[h] # bytes[h] =>
              \E p \in Pages : table[game_asid][p] = h]_vars
=============================================================================
