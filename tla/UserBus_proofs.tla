--------------------------- MODULE UserBus_proofs ---------------------------
(***************************************************************************)
(* The bus and its one cached page, for every number of address spaces,    *)
(* pages, page size and byte size.                                         *)
(*                                                                         *)
(* A lookup is kept past the moment it was made, so what the cache holds   *)
(* agrees with the game's page tables only until the guest takes a mapping *)
(* away: CoherenceInv says so while ~remapped, the rest holds without it.  *)
(***************************************************************************)
EXTENDS UserBus, WellFoundedInduction, TLAPS

\* Nothing is mapped before there is a memory model, nor ever at page 0.
TableInv ==
    /\ ~has_memory => \A s \in ASIDS, p \in Pages : table[s][p] = NOTHING
    /\ \A s \in ASIDS : table[s][0] = NOTHING

\* The cache is empty until the bus is in use, and never holds page 0.
CacheInv ==
    /\ ~inited \/ ~has_memory => Cache = NoCache
    /\ cached_host # NOTHING => cached_page \in Pages \ {0}

\* A cached page is the game's, as long as nothing mapped was taken away.
CoherenceInv ==
    ~remapped /\ cached_host # NOTHING /\ game_asid # NO_SPACE =>
        table[game_asid][cached_page] = cached_host

IInv == TypeOK /\ TableInv /\ CacheInv

-----------------------------------------------------------------------------
(* Addresses.                                                              *)

LEMMA PagesAreIntegers ==
  /\ BUS_PAGES \in Nat \ {0} /\ PAGE_SIZE \in Nat \ {0} /\ BYTE_SIZE \in Nat \ {0}
  /\ 0 \in Pages /\ Pages \subseteq Nat /\ NO_PAGE \notin Pages
  /\ NO_SPACE \notin ASIDS
  BY BusAssumption DEF Pages, NO_PAGE, NO_SPACE

\* What dividing an address into page and offset leaves.
LEMMA DivMod ==
  ASSUME NEW a \in Nat, NEW b \in Nat \ {0}
  PROVE  /\ a = b * (a \div b) + (a % b)
         /\ a % b \in 0 .. (b - 1)
         /\ a \div b \in Nat
  BY Z3

LEMMA QuotientBound ==
  ASSUME NEW a \in Nat, NEW b \in Nat \ {0}, NEW n \in Nat, a < n * b
  PROVE  a \div b < n
<1> DEFINE q == a \div b
<1>1. q \in Nat /\ b * q <= a
  BY DivMod
<1> HIDE DEF q
<1>2. ~(n <= q)
  <2> SUFFICES ASSUME n <= q PROVE FALSE
    OBVIOUS
  <2>1. n * b <= q * b
    BY <1>1, Z3
  <2> QED
    BY <1>1, <2>1, Z3
<1> QED
  BY <1>1, <1>2 DEF q

\* An address of the bus is in one of its pages, at an offset of the page.
LEMMA BusAddress ==
  ASSUME NEW addr \in Int, addr >= 0, addr < BUS_SIZE
  PROVE  PageOf(addr) \in Pages /\ OffsetOf(addr) \in Offsets
<1>1. addr \in Nat
  OBVIOUS
<1>2. PageOf(addr) \in Nat /\ OffsetOf(addr) \in 0 .. (PAGE_SIZE - 1)
  BY <1>1, DivMod, PagesAreIntegers DEF PageOf, OffsetOf
<1>3. PageOf(addr) < BUS_PAGES
  BY <1>1, QuotientBound, PagesAreIntegers DEF PageOf, BUS_SIZE
<1> QED
  BY <1>2, <1>3, PagesAreIntegers DEF Pages, Offsets

LEMMA ByteType == ASSUME NEW v \in Int PROVE v % BYTE_SIZE \in BYTES
<1>1. v % BYTE_SIZE \in 0 .. (BYTE_SIZE - 1)
  BY PagesAreIntegers, Z3
<1> QED
  BY <1>1 DEF BYTES

-----------------------------------------------------------------------------
(* One lookup.                                                             *)

\* A cache that may be passed from one lookup to the next.
GoodCache(c) ==
    /\ c \in [page : Pages \cup {NO_PAGE}, host : HOSTS \cup {NOTHING}]
    /\ ~has_memory => c = NoCache
    /\ c.host # NOTHING => c.page \in Pages \ {0}

Coherent(c) ==
    c.host # NOTHING /\ game_asid # NO_SPACE => table[game_asid][c.page] = c.host

LEMMA NoCacheIsGood == GoodCache(NoCache) /\ Coherent(NoCache)
  BY DEF GoodCache, Coherent, NoCache

LEMMA CacheIsGood ==
  ASSUME IInv
  PROVE  GoodCache(Cache) /\ (~remapped /\ CoherenceInv => Coherent(Cache))
  BY DEF IInv, TypeOK, CacheInv, CoherenceInv, GoodCache, Coherent, Cache, NoCache

LEMMA LookupType ==
  ASSUME TypeOK, NEW p \in Pages
  PROVE  Lookup(p) \in HOSTS \cup {NOTHING}
  BY DEF TypeOK, Lookup

LEMMA LookupIsTheGames ==
  ASSUME game_asid # NO_SPACE, NEW p
  PROVE  Lookup(p) = table[game_asid][p]
  BY DEF Lookup

LEMMA CacheAfterIsGood ==
  ASSUME IInv, NEW p \in Pages, NEW c, GoodCache(c)
  PROVE  GoodCache(CacheAfter(c, p)) /\ (Coherent(c) => Coherent(CacheAfter(c, p)))
<1>1. CASE Hit(c, p) \/ Refused(p)
  BY <1>1 DEF CacheAfter
<1>2. CASE ~Hit(c, p) /\ ~Refused(p)
  <2>1. CASE Lookup(p) = NOTHING
    BY <1>2, <2>1, NoCacheIsGood DEF CacheAfter
  <2>2. CASE Lookup(p) # NOTHING
    <3>1. CacheAfter(c, p) = [page |-> p, host |-> Lookup(p)]
      BY <1>2, <2>2 DEF CacheAfter
    <3>2. Lookup(p) \in HOSTS
      BY <2>2, LookupType DEF IInv
    <3>3. has_memory /\ p # 0
      BY <1>2 DEF Refused
    <3>4. GoodCache([page |-> p, host |-> Lookup(p)])
      BY <3>2, <3>3 DEF GoodCache
    <3>5. Coherent([page |-> p, host |-> Lookup(p)])
      BY LookupIsTheGames DEF Coherent
    <3> QED
      BY <3>1, <3>4, <3>5
  <2> QED
    BY <2>1, <2>2
<1> QED
  BY <1>1, <1>2

LEMMA ResolveType ==
  ASSUME IInv, NEW p \in Pages, NEW c, GoodCache(c)
  PROVE  Resolve(c, p) \in HOSTS \cup {NOTHING}
  BY LookupType DEF IInv, Resolve, GoodCache

\* With a coherent cache, a lookup answers what the game's tables say.
LEMMA ResolveIsTheGames ==
  ASSUME IInv, game_asid # NO_SPACE, NEW p \in Pages,
         NEW c, GoodCache(c), Coherent(c)
  PROVE  Resolve(c, p) = table[game_asid][p]
<1>1. game_asid \in ASIDS
  BY DEF IInv, TypeOK
<1>2. CASE Hit(c, p)
  BY <1>2 DEF Hit, Resolve, Coherent
<1>3. CASE ~Hit(c, p) /\ Refused(p)
  BY <1>1, <1>3 DEF IInv, TableInv, Resolve, Refused
<1>4. CASE ~Hit(c, p) /\ ~Refused(p)
  BY <1>4, LookupIsTheGames DEF Resolve
<1> QED
  BY <1>2, <1>3, <1>4

\* A run of lookups leaves a good cache too.
LEMMA CacheAfterReadIsGood ==
  ASSUME IInv, NEW addr \in Int, NEW n \in Nat, RunInBus(addr, n)
  PROVE  GoodCache(CacheAfterRead(Cache, addr, n))
         /\ (Coherent(Cache) => Coherent(CacheAfterRead(Cache, addr, n)))
<1>1. CASE n = 0
  BY <1>1, CacheIsGood DEF CacheAfterRead
<1>2. CASE n # 0
  <2> DEFINE last == PageOf(addr + (n - 1))
             c == CacheAt(Cache, addr, n - 1)
  <2>1. PageOf(addr) \in Pages /\ last \in Pages /\ PageOf(addr) <= last
    <3>1. addr \in Nat /\ addr + (n - 1) \in Nat /\ addr <= addr + (n - 1)
          /\ addr + (n - 1) < BUS_SIZE /\ addr < BUS_SIZE
      <4>1. BUS_SIZE \in Int
        BY PagesAreIntegers DEF BUS_SIZE
      <4> QED
        BY <1>2, <4>1 DEF RunInBus
    <3>2. PageOf(addr) <= last
      <4> DEFINE end == addr + (n - 1)
      <4> HIDE DEF end
      <4>1. addr \div PAGE_SIZE <= end \div PAGE_SIZE
        BY <3>1, PagesAreIntegers, Z3 DEF end
      <4> QED
        BY <4>1 DEF PageOf, end
    <3> QED
      BY <3>1, <3>2, BusAddress
  <2>2. GoodCache(c) /\ (Coherent(Cache) => Coherent(c))
    <3>1. CASE last = PageOf(addr)
      BY <3>1, CacheIsGood DEF CacheAt
    <3>2. CASE last # PageOf(addr)
      <4>1. last - 1 \in Pages
        BY <2>1, <3>2, PagesAreIntegers DEF Pages
      <4>2. c = CacheAfter(Cache, last - 1) \/ c = CacheAfter(NoCache, last - 1)
        BY <3>2 DEF CacheAt
      <4> QED
        BY <4>1, <4>2, CacheIsGood, NoCacheIsGood, CacheAfterIsGood
    <3> QED
      BY <3>1, <3>2
  <2>3. CacheAfterRead(Cache, addr, n) = CacheAfter(c, last)
    <3>1. addr + (n - 1) = addr + n - 1
      OBVIOUS
    <3> QED
      BY <1>2, <3>1 DEF CacheAfterRead
  <2> HIDE DEF c, last
  <2> QED
    BY <2>1, <2>2, <2>3, CacheAfterIsGood
<1> QED
  BY <1>1, <1>2

-----------------------------------------------------------------------------
(* The invariants.                                                         *)

LEMMA InitIInv == Init => IInv /\ CoherenceInv
<1> SUFFICES ASSUME Init PROVE IInv /\ CoherenceInv
  OBVIOUS
<1>1. TypeOK
  <2>1. 0 \in BYTES
    BY PagesAreIntegers DEF BYTES
  <2> QED
    BY <2>1 DEF Init, TypeOK
<1>2. TableInv
  BY PagesAreIntegers DEF Init, TableInv
<1>3. CacheInv /\ CoherenceInv
  BY DEF Init, CacheInv, CoherenceInv, Cache, NoCache
<1> QED
  BY <1>1, <1>2, <1>3 DEF IInv

\* What an export leaves: a cache, and perhaps a byte.
BusStep(c) ==
    /\ SetCache(c)
    /\ UNCHANGED <<inited, has_memory, table, current, game_asid, remapped>>
    /\ inited

LEMMA BusStepKeeps ==
  ASSUME IInv, NEW c, GoodCache(c), BusStep(c),
         bytes' \in [HOSTS -> [Offsets -> BYTES]]
  PROVE  IInv' /\ ((~remapped => Coherent(c)) => CoherenceInv')
<1>1. TypeOK'
  BY DEF IInv, TypeOK, BusStep, SetCache, GoodCache
<1>2. TableInv'
  BY DEF IInv, TableInv, BusStep
<1>3. CacheInv'
  BY DEF CacheInv, BusStep, SetCache, GoodCache, Cache, NoCache
<1>4. (~remapped => Coherent(c)) => CoherenceInv'
  BY DEF CoherenceInv, Coherent, BusStep, SetCache
<1> QED
  BY <1>1, <1>2, <1>3, <1>4 DEF IInv

LEMMA PeekBusKeeps ==
  ASSUME IInv, NEW addr \in Int, PeekBus(addr)
  PROVE  IInv' /\ (CoherenceInv => CoherenceInv')
<1>1. PageOf(addr) \in Pages
  BY BusAddress DEF PeekBus, InBus
<1>2. BusStep(CacheAfter(Cache, PageOf(addr)))
  BY DEF PeekBus, BusStep, InBus
<1>3. bytes' \in [HOSTS -> [Offsets -> BYTES]]
  BY DEF PeekBus, IInv, TypeOK
<1> QED
  BY <1>1, <1>2, <1>3, CacheIsGood, CacheAfterIsGood, BusStepKeeps

LEMMA ReadBusKeeps ==
  ASSUME IInv, NEW addr \in Int, NEW len \in Int, ReadBus(addr, len)
  PROVE  IInv' /\ (CoherenceInv => CoherenceInv')
<1>1. Clamp(len) \in Nat
  BY BusAssumption DEF Clamp
<1>2. BusStep(CacheAfterRead(Cache, addr, Clamp(len)))
  BY DEF ReadBus, BusStep, RunInBus
<1>3. bytes' \in [HOSTS -> [Offsets -> BYTES]]
  BY DEF ReadBus, IInv, TypeOK
<1>4. RunInBus(addr, Clamp(len))
  BY DEF ReadBus
<1> QED
  BY <1>1, <1>2, <1>3, <1>4, CacheIsGood, CacheAfterReadIsGood, BusStepKeeps

LEMMA PokeBusKeeps ==
  ASSUME IInv, NEW addr \in Int, NEW value \in Int, PokeBus(addr, value)
  PROVE  IInv' /\ (CoherenceInv => CoherenceInv')
<1> DEFINE p == PageOf(addr)
           o == OffsetOf(addr)
           h == Resolve(Cache, p)
           b == value % BYTE_SIZE
<1>1. p \in Pages /\ o \in Offsets
  BY BusAddress DEF PokeBus, InBus
<1>2. BusStep(CacheAfter(Cache, p))
  BY DEF PokeBus, BusStep, InBus
<1>3. bytes' \in [HOSTS -> [Offsets -> BYTES]]
  <2>1. b \in BYTES
    BY ByteType
  <2>2. h \in HOSTS \cup {NOTHING}
    BY <1>1, CacheIsGood, ResolveType
  <2>3. bytes' = IF h = NOTHING THEN bytes ELSE [bytes EXCEPT ![h][o] = b]
    BY DEF PokeBus
  <2>4. bytes \in [HOSTS -> [Offsets -> BYTES]]
    BY DEF IInv, TypeOK
  <2> HIDE DEF b, h, o
  <2> QED
    BY <1>1, <2>1, <2>2, <2>3, <2>4
<1> HIDE DEF p
<1> QED
  BY <1>1, <1>2, <1>3, CacheIsGood, CacheAfterIsGood, BusStepKeeps

\* The machine's steps: the cache stays, and of the tables only what was not
\* mapped changes, or what the game takes away.
LEMMA GuestKeeps ==
  ASSUME IInv, Guest
  PROVE  IInv' /\ (CoherenceInv => CoherenceInv')
<1> USE DEF IInv, TypeOK, TableInv, CacheInv, CoherenceInv, Cache, NoCache
<1>1. CASE SetDevice
  BY <1>1 DEF SetDevice, cacheVars
<1>2. CASE InitReturns
  BY <1>2 DEF InitReturns, cacheVars
<1>3. ASSUME NEW s \in ASIDS, LaunchApp(s)
      PROVE  IInv' /\ CoherenceInv'
  BY <1>3 DEF LaunchApp, cacheVars
<1>4. ASSUME NEW s \in ASIDS, SwitchTo(s)
      PROVE  IInv' /\ (CoherenceInv => CoherenceInv')
  BY <1>4 DEF SwitchTo, cacheVars
<1>5. ASSUME NEW s \in ASIDS, NEW p \in Pages, NEW h \in HOSTS, MapPage(s, p, h)
      PROVE  IInv' /\ (CoherenceInv => CoherenceInv')
  <2>1. table' = [table EXCEPT ![s][p] = h] /\ table[s][p] = NOTHING
        /\ p # 0 /\ has_memory
    BY <1>5 DEF MapPage
  <2>2. UNCHANGED <<inited, has_memory, bytes, current, game_asid,
                    cached_page, cached_host, remapped>>
    BY <1>5 DEF MapPage, cacheVars
  <2>3. table' \in [ASIDS -> [Pages -> HOSTS \cup {NOTHING}]]
    BY <2>1
  <2>4. \A t \in ASIDS, r \in Pages :
            table'[t][r] = IF t = s /\ r = p THEN h ELSE table[t][r]
    BY <2>1
  <2> QED
    BY <2>1, <2>2, <2>3, <2>4, PagesAreIntegers
<1>6. ASSUME NEW s \in ASIDS, NEW p \in Pages, UnmapPage(s, p)
      PROVE  IInv' /\ CoherenceInv'
  <2>1. table' = [table EXCEPT ![s][p] = NOTHING] /\ remapped' = TRUE
    BY <1>6 DEF UnmapPage
  <2>2. UNCHANGED <<inited, has_memory, bytes, current, game_asid,
                    cached_page, cached_host>>
    BY <1>6 DEF UnmapPage, cacheVars
  <2>3. table' \in [ASIDS -> [Pages -> HOSTS \cup {NOTHING}]]
    BY <2>1
  <2>4. \A t \in ASIDS, r \in Pages :
            table'[t][r] = IF t = s /\ r = p THEN NOTHING ELSE table[t][r]
    BY <2>1
  <2> QED
    BY <2>1, <2>2, <2>3, <2>4, PagesAreIntegers
<1>7. ASSUME NEW p \in Pages, NEW o \in Offsets, NEW b \in BYTES,
             GuestWrites(p, o, b)
      PROVE  IInv' /\ (CoherenceInv => CoherenceInv')
  <2>1. bytes' = [bytes EXCEPT ![table[current][p]][o] = b]
    BY <1>7 DEF GuestWrites
  <2>2. UNCHANGED <<inited, has_memory, table, current, game_asid,
                    cached_page, cached_host, remapped>>
    BY <1>7 DEF GuestWrites, cacheVars
  <2>3. bytes' \in [HOSTS -> [Offsets -> BYTES]]
    BY <2>1
  <2> QED
    BY <2>2, <2>3
<1> QED
  BY <1>1, <1>2, <1>3, <1>4, <1>5, <1>6, <1>7 DEF Guest

LEMMA NextIInv ==
  ASSUME IInv, [Next]_vars
  PROVE  IInv' /\ (CoherenceInv => CoherenceInv')
<1>0. Addresses \subseteq Int /\ Lengths \subseteq Int /\ Values \subseteq Int
  BY DEF Addresses, Lengths, Values
<1>1. CASE Guest
  BY <1>1, GuestKeeps
<1>2. CASE Tool
  BY <1>0, <1>2, PeekBusKeeps, PokeBusKeeps, ReadBusKeeps DEF Tool
<1>3. CASE UNCHANGED vars
  BY <1>3 DEF vars, cacheVars, IInv, TypeOK, TableInv, CacheInv, CoherenceInv,
              Cache, NoCache
<1> QED
  BY <1>1, <1>2, <1>3 DEF Next

THEOREM Invariance == Spec => []IInv
  BY InitIInv, NextIInv, PTL DEF Spec

-----------------------------------------------------------------------------

\* Every variable of the bus keeps its type.
THEOREM TypeCorrect == Spec => []TypeOK
<1>1. IInv => TypeOK
  BY DEF IInv
<1> QED
  BY <1>1, Invariance, PTL

\* The bus says "nothing" only of a page the game has nothing at, however
\* mappings come and go.
THEOREM NothingMeansUnmapped == Spec => []MappedPagesAreSeen
<1>1. ASSUME IInv PROVE MappedPagesAreSeen
  <2> SUFFICES ASSUME game_asid # NO_SPACE, NEW p \in Pages,
                      Resolve(Cache, p) = NOTHING
               PROVE  table[game_asid][p] = NOTHING
    BY DEF MappedPagesAreSeen
  <2>1. ~Hit(Cache, p)
    BY DEF Hit, Resolve
  <2>2. game_asid \in ASIDS
    BY <1>1 DEF IInv, TypeOK
  <2>3. CASE Refused(p)
    BY <1>1, <2>2, <2>3 DEF IInv, TableInv, Refused
  <2>4. CASE ~Refused(p)
    BY <2>1, <2>4, LookupIsTheGames DEF Resolve
  <2> QED
    BY <2>3, <2>4
<1> QED
  BY <1>1, Invariance, PTL

\* Until the guest takes a mapping away, every peek is the game's byte.
THEOREM BusIsTheGames == Spec => []BusReadsTheGame
<1>1. Init => IInv /\ CoherenceInv
  BY InitIInv
<1>2. (IInv /\ CoherenceInv) /\ [Next]_vars => (IInv /\ CoherenceInv)'
  BY NextIInv
<1>3. ASSUME IInv, CoherenceInv PROVE BusReadsTheGame
  <2> SUFFICES ASSUME ~remapped, game_asid # NO_SPACE,
                      NEW addr \in Addresses, InBus(addr)
               PROVE  PeekAnswer(addr) = GameByte(addr)
    BY DEF BusReadsTheGame, BusAgrees
  <2>1. PageOf(addr) \in Pages
    BY BusAddress DEF InBus, Addresses
  <2>2. Resolve(Cache, PageOf(addr)) = table[game_asid][PageOf(addr)]
    BY <1>3, <2>1, CacheIsGood, ResolveIsTheGames
  <2> QED
    BY <2>2 DEF PeekAnswer, PeekUser, GameByte
<1> QED
  BY <1>1, <1>2, <1>3, PTL DEF Spec

\* What a poke writes is on a host page of the game's, whatever was cached.
LEMMA PokeLands ==
  ASSUME IInv, CoherenceInv, ~remapped, game_asid # NO_SPACE,
         NEW addr \in Int, NEW value, PokeBus(addr, value),
         NEW h \in HOSTS, bytes'[h] # bytes[h]
  PROVE  \E p \in Pages : table[game_asid][p] = h
<1> DEFINE p == PageOf(addr)
           found == Resolve(Cache, p)
           o == OffsetOf(addr)
           b == value % BYTE_SIZE
<1>1. p \in Pages
  BY BusAddress DEF PokeBus, InBus
<1>2. found = table[game_asid][p]
  BY <1>1, CacheIsGood, ResolveIsTheGames
<1>3. bytes' = IF found = NOTHING THEN bytes ELSE [bytes EXCEPT ![found][o] = b]
  BY DEF PokeBus
<1>4. bytes \in [HOSTS -> [Offsets -> BYTES]]
  BY DEF IInv, TypeOK
<1> HIDE DEF p, found, o, b
<1>5. h = found
  BY <1>3, <1>4
<1> QED
  BY <1>1, <1>2, <1>5

\* While the game keeps what it has mapped, a tool writes to it alone.
THEOREM PokesStay == Spec => PokesStayInTheGame
<1> DEFINE Stays ==
        /\ ~remapped /\ game_asid # NO_SPACE /\ bytes' # bytes
        /\ \E addr \in Addresses, value \in Values : PokeBus(addr, value)
        => \A h \in HOSTS : bytes'[h] # bytes[h] =>
               \E p \in Pages : table[game_asid][p] = h
<1>1. Init => IInv /\ CoherenceInv
  BY InitIInv
<1>2. (IInv /\ CoherenceInv) /\ [Next]_vars => (IInv /\ CoherenceInv)'
  BY NextIInv
<1>3. IInv /\ CoherenceInv /\ [Next]_vars => [Stays]_vars
  <2> SUFFICES ASSUME IInv, CoherenceInv, ~remapped, game_asid # NO_SPACE,
                      NEW addr \in Addresses, NEW value \in Values,
                      PokeBus(addr, value),
                      NEW h \in HOSTS, bytes'[h] # bytes[h]
               PROVE  \E p \in Pages : table[game_asid][p] = h
    OBVIOUS
  <2> QED
    BY PokeLands DEF Addresses
<1> QED
  BY <1>1, <1>2, <1>3, PTL DEF Spec, PokesStayInTheGame

-----------------------------------------------------------------------------
(* A run of bytes, read at once or byte by byte.                           *)

\* A set of numbers has a least one.
LEMMA LeastNumber ==
  ASSUME NEW T \in SUBSET Nat, T # {}
  PROVE  \E m \in T : \A k \in T : m <= k
<1> DEFINE Less == {ss \in Nat \X Nat : ss[1] < ss[2]}
<1>1. IsWellFoundedOn(Less, Nat)
  BY NatLessThanWellFounded DEF OpToRel
<1>2. PICK m \in T : \A k \in T : <<k, m>> \notin Less
  <2> HIDE DEF Less
  <2> QED
    BY <1>1, WFMin
<1>3. ASSUME NEW k \in T PROVE m <= k
  <2>1. k \in Nat /\ m \in Nat /\ ~(k < m)
    BY <1>2
  <2> QED
    BY <2>1
<1> QED
  BY <1>3

\* The byte after one is on its page or on the next.
LEMMA NextBytesPage ==
  ASSUME NEW a \in Nat
  PROVE  PageOf(a) \in Nat /\ PageOf(a + 1) \in {PageOf(a), PageOf(a) + 1}
<1> DEFINE q == PageOf(a)
           r == PageOf(a + 1)
           P == PAGE_SIZE
<1>1. /\ q \in Nat /\ r \in Nat /\ P \in Nat \ {0}
      /\ P * q <= a /\ a < P * q + P
      /\ P * r <= a + 1 /\ a + 1 < P * r + P
  <2>1. a \in Nat /\ a + 1 \in Nat /\ P \in Nat \ {0}
    BY PagesAreIntegers
  <2>2. a = P * q + (a % P) /\ a % P \in 0 .. (P - 1) /\ q \in Nat
    BY <2>1, DivMod DEF PageOf
  <2>3. a + 1 = P * r + ((a + 1) % P) /\ (a + 1) % P \in 0 .. (P - 1) /\ r \in Nat
    BY <2>1, DivMod DEF PageOf
  <2> HIDE DEF q, r, P
  <2>4. P * q \in Nat /\ P * r \in Nat
    BY <2>1, <2>2, <2>3
  <2> QED
    BY <2>1, <2>2, <2>3, <2>4
<1> HIDE DEF q, r, P
<1>2. q <= r
  <2> SUFFICES ASSUME r + 1 <= q PROVE FALSE
    BY <1>1
  <2>1. P * (r + 1) <= P * q /\ P * (r + 1) = P * r + P
    BY <1>1, Z3
  <2> QED
    BY <1>1, <2>1, Z3
<1>3. r <= q + 1
  <2> SUFFICES ASSUME q + 2 <= r PROVE FALSE
    BY <1>1
  <2>1. P * (q + 2) <= P * r /\ P * (q + 2) = P * q + P + P
    BY <1>1, Z3
  <2> QED
    BY <1>1, <2>1, Z3
<1> QED
  BY <1>1, <1>2, <1>3 DEF q, r

LEMMA LaterBytesPage ==
  ASSUME NEW a \in Nat, NEW n \in Nat
  PROVE  PageOf(a) <= PageOf(a + n) /\ PageOf(a) \in Nat /\ PageOf(a + n) \in Nat
<1>1. a + n \in Nat /\ a <= a + n
  OBVIOUS
<1>2. PageOf(a) \in Nat /\ PageOf(a + n) \in Nat
  BY <1>1, NextBytesPage
<1>3. a \div PAGE_SIZE <= (a + n) \div PAGE_SIZE
  BY <1>1, PagesAreIntegers, Z3
<1> QED
  BY <1>2, <1>3 DEF PageOf

\* A page asked for twice is answered the second time by what the first kept.
LEMMA LookupAgain ==
  ASSUME NEW c, NEW p
  PROVE  /\ Resolve(CacheAfter(c, p), p) = Resolve(c, p)
         /\ CacheAfter(CacheAfter(c, p), p) = CacheAfter(c, p)
BY DEF Resolve, CacheAfter, Hit, NoCache

\* Two caches that do not hold a page are the same to it.
LEMMA LookupAnew ==
  ASSUME NEW c, NEW d, NEW p, ~Hit(c, p), ~Hit(d, p), has_memory, p # 0
  PROVE  Resolve(c, p) = Resolve(d, p) /\ CacheAfter(c, p) = CacheAfter(d, p)
BY DEF Resolve, CacheAfter, Refused

\* One page is cached: the lookup of a page leaves no other.
LEMMA OnlyOneIsCached ==
  ASSUME NEW c, NEW q, NEW p, has_memory, q # 0, p # q
  PROVE  ~Hit(CacheAfter(c, q), p)
BY DEF CacheAfter, Hit, Refused, NoCache

\* The cache that read_user finds at a byte is as good as the one the bytes
\* before it would have left, read each on its own.
LEMMA CacheOfTheLoop ==
  ASSUME NEW c, GoodCache(c), NEW addr \in Nat, NEW k \in Nat \ {0}
  PROVE  /\ Resolve(CacheAt(c, addr, k), PageOf(addr + k))
                = Resolve(CacheAfterRead(c, addr, k), PageOf(addr + k))
         /\ CacheAfter(CacheAt(c, addr, k), PageOf(addr + k))
                = CacheAfter(CacheAfterRead(c, addr, k), PageOf(addr + k))
<1> DEFINE first == PageOf(addr)
           p == PageOf(addr + k)
           q == PageOf(addr + (k - 1))
           at == CacheAt(c, addr, k)
           before == CacheAt(c, addr, k - 1)
           after == CacheAfterRead(c, addr, k)
<1>1. /\ first \in Nat /\ p \in Nat /\ q \in Nat /\ first <= q
      /\ p \in {q, q + 1}
  <2>1. k - 1 \in Nat /\ addr + (k - 1) \in Nat /\ (addr + (k - 1)) + 1 = addr + k
    OBVIOUS
  <2>2. first <= q /\ first \in Nat /\ q \in Nat
    BY <2>1, LaterBytesPage
  <2>3. p \in {q, q + 1}
    BY <2>1, NextBytesPage
  <2> QED
    BY <2>2, <2>3
<1>2. after = CacheAfter(before, q)
  <2>1. addr + k - 1 = addr + (k - 1) /\ k # 0
    OBVIOUS
  <2> QED
    BY <2>1 DEF CacheAfterRead
<1>3. /\ at = IF p = first THEN c
               ELSE IF p - 1 = first THEN CacheAfter(c, p - 1)
               ELSE CacheAfter(NoCache, p - 1)
      /\ before = IF q = first THEN c
                   ELSE IF q - 1 = first THEN CacheAfter(c, q - 1)
                   ELSE CacheAfter(NoCache, q - 1)
  BY DEF CacheAt
<1> HIDE DEF first, p, q, at, before, after
<1>4. CASE p = q
  BY <1>2, <1>3, <1>4, LookupAgain DEF p, at, after
<1>5. CASE p = q + 1 /\ q = first
  <2>1. p # first /\ p - 1 = first
    BY <1>1, <1>5
  <2> QED
    BY <1>2, <1>3, <1>5, <2>1 DEF p, at, after
<1>6. CASE p = q + 1 /\ q # first
  <2>1. p - 1 = q /\ p # q /\ p # first /\ p # 0 /\ q # 0
    BY <1>1, <1>6
  <2>2. at = CacheAfter(NoCache, q)
    BY <1>3, <1>6, <2>1
  <2>3. CASE has_memory
    <3>1. ~Hit(at, p) /\ ~Hit(after, p)
      BY <1>2, <2>1, <2>2, <2>3, OnlyOneIsCached
    <3> QED
      BY <2>1, <2>3, <3>1, LookupAnew DEF p, at, after
  <2>4. CASE ~has_memory
    <3>1. c = NoCache
      BY <2>4 DEF GoodCache
    <3>2. \A x : CacheAfter(NoCache, x) = NoCache
      BY <2>4 DEF CacheAfter, Refused
    <3>3. before = NoCache /\ at = NoCache /\ after = NoCache
      BY <1>2, <1>3, <2>2, <3>1, <3>2
    <3> QED
      BY <3>3 DEF p, at, after
  <2> QED
    BY <2>3, <2>4
<1> QED
  BY <1>1, <1>4, <1>5, <1>6

\* So the loop leaves the caches of the peeks, byte for byte.
LEMMA ReadsStep ==
  ASSUME NEW c, GoodCache(c), NEW addr \in Nat, NEW i \in Nat \ {0}
  PROVE  /\ CacheAfterRead(c, addr, i)
                = CacheAfter(CacheAfterRead(c, addr, i - 1), PageOf(addr + i - 1))
         /\ PeekUser(CacheAt(c, addr, i - 1), addr + i - 1)
                = PeekUser(CacheAfterRead(c, addr, i - 1), addr + i - 1)
<1> DEFINE k == i - 1
           a == addr + i - 1
           p == PageOf(a)
<1>1. k \in Nat /\ a = addr + k
  OBVIOUS
<1>2. CacheAfterRead(c, addr, i) = CacheAfter(CacheAt(c, addr, k), p)
  BY DEF CacheAfterRead
<1>3. /\ Resolve(CacheAt(c, addr, k), p) = Resolve(CacheAfterRead(c, addr, k), p)
      /\ CacheAfter(CacheAt(c, addr, k), p) = CacheAfter(CacheAfterRead(c, addr, k), p)
  <2>1. CASE k = 0
    <3>1. CacheAfterRead(c, addr, k) = c
      BY <2>1 DEF CacheAfterRead
    <3>2. CacheAt(c, addr, k) = c
      BY <2>1 DEF CacheAt
    <3> QED
      BY <3>1, <3>2
  <2>2. CASE k # 0
    <3>1. k \in Nat \ {0} /\ p = PageOf(addr + k)
      BY <1>1, <2>2
    <3> HIDE DEF k, p, a
    <3> QED
      BY <3>1, CacheOfTheLoop
  <2> QED
    BY <2>1, <2>2
<1> HIDE DEF k
<1>4. PeekUser(CacheAt(c, addr, k), a) = PeekUser(CacheAfterRead(c, addr, k), a)
  BY <1>3 DEF PeekUser
<1> QED
  BY <1>2, <1>3, <1>4 DEF k

\* The caches of the peeks are the caches of the reads.
LEMMA CachesAreTheLoops ==
  ASSUME IInv, NEW addr \in Nat, NEW n \in Nat, RunInBus(addr, n)
  PROVE  \A i \in 0 .. n : CachesOfPeeks(addr, n)[i] = CacheAfterRead(Cache, addr, i)
<1> DEFINE g == [i \in 0 .. n |-> CacheAfterRead(Cache, addr, i)]
           rec(cache) ==
               [i \in 0 .. n |->
                   IF i = 0 THEN Cache
                   ELSE IF InBus(addr + i - 1)
                        THEN CacheAfter(cache[i - 1], PageOf(addr + i - 1))
                        ELSE cache[i - 1]]
           peeks == CachesOfPeeks(addr, n)
<1>1. GoodCache(Cache)
  BY CacheIsGood
<1>2. \A i \in 1 .. n : InBus(addr + i - 1) /\ i - 1 \in 0 .. n /\ i \in Nat \ {0}
  BY PagesAreIntegers DEF RunInBus, InBus, BUS_SIZE
<1>3. ASSUME NEW i \in 0 .. n PROVE rec(g)[i] = g[i]
  <2>1. CASE i = 0
    BY <2>1 DEF CacheAfterRead
  <2>2. CASE i # 0
    <3>1. i \in 1 .. n
      BY <2>2
    <3>2. rec(g)[i] = CacheAfter(g[i - 1], PageOf(addr + i - 1))
      BY <1>2, <2>2, <3>1
    <3>3. g[i] = CacheAfterRead(Cache, addr, i) /\ g[i - 1] = CacheAfterRead(Cache, addr, i - 1)
      BY <1>2, <3>1
    <3> QED
      BY <1>1, <1>2, <3>1, <3>2, <3>3, ReadsStep
  <2> QED
    BY <2>1, <2>2
<1>4. g = rec(g)
  <2>1. rec(g) = [i \in 0 .. n |-> rec(g)[i]] /\ g = [i \in 0 .. n |-> g[i]]
    OBVIOUS
  <2> HIDE DEF rec, g
  <2> QED
    BY <1>3, <2>1
<1>5. peeks = rec(peeks)
  <2>1. peeks = CHOOSE cache : cache = rec(cache)
    BY DEF CachesOfPeeks
  <2> HIDE DEF rec, peeks
  <2> QED
    BY <1>4, <2>1
<1>6. ASSUME NEW i \in 1 .. n
      PROVE  \A h : h = rec(h) => h[i] = CacheAfter(h[i - 1], PageOf(addr + i - 1))
  BY <1>2
<1> DEFINE Bad == {i \in 0 .. n : peeks[i] # g[i]}
<1>7. ASSUME Bad # {} PROVE FALSE
  <2>1. Bad \in SUBSET Nat
    OBVIOUS
  <2>2. PICK m \in Bad : \A k \in Bad : m <= k
    <3> HIDE DEF Bad
    <3> QED
      BY <1>7, <2>1, LeastNumber
  <2>3. m \in 0 .. n /\ peeks[m] # g[m]
    OBVIOUS
  <2>4. m # 0
    <3>1. \A h : h = rec(h) => h[0] = Cache
      OBVIOUS
    <3> HIDE DEF rec, peeks, g
    <3> QED
      BY <1>4, <1>5, <2>3, <3>1
  <2>5. m \in 1 .. n /\ m - 1 \in 0 .. n /\ m - 1 < m
    BY <2>3, <2>4
  <2>6. peeks[m - 1] = g[m - 1]
    <3>1. m - 1 \notin Bad
      <4> HIDE DEF Bad
      <4> QED
        BY <2>2, <2>5
    <3> HIDE DEF peeks, g
    <3> QED
      BY <2>5, <3>1
  <2> HIDE DEF rec, peeks, g, Bad
  <2> QED
    BY <1>4, <1>5, <1>6, <2>3, <2>5, <2>6
<1> HIDE DEF peeks
<1>8. \A i \in 0 .. n : peeks[i] = g[i]
  BY <1>7
<1> QED
  BY <1>8 DEF peeks

(***************************************************************************)
(* A run read at once is what as many single peeks would have answered,    *)
(* and leaves the cache they would have left, for every address, length,   *)
(* page size and bus, whatever the page tables have come to.               *)
(***************************************************************************)
THEOREM ReadsArePeeks == Spec => []RunsArePeeks
<1>1. ASSUME IInv, NEW addr \in Addresses, NEW len \in Lengths, RunInBus(addr, Clamp(len))
      PROVE  /\ ReadAnswer(addr, len) = Peeks(addr, Clamp(len))
             /\ CacheAfterRead(Cache, addr, Clamp(len))
                    = CachesOfPeeks(addr, Clamp(len))[Clamp(len)]
  <2> DEFINE n == Clamp(len)
  <2>1. n \in Nat
    BY BusAssumption DEF Clamp, Lengths
  <2>2. addr \in Nat
    BY <1>1 DEF RunInBus, Addresses
  <2>3. \A i \in 1 .. n : InBus(addr + i - 1)
    BY <1>1, <2>1, <2>2, PagesAreIntegers DEF RunInBus, InBus, BUS_SIZE
  <2> HIDE DEF n
  <2>4. \A i \in 0 .. n : CachesOfPeeks(addr, n)[i] = CacheAfterRead(Cache, addr, i)
    BY <1>1, <2>1, <2>2, CachesAreTheLoops DEF n
  <2>5. ASSUME NEW i \in 1 .. n
        PROVE  PeekUser(CacheAt(Cache, addr, i - 1), addr + i - 1)
                  = PeekUser(CachesOfPeeks(addr, n)[i - 1], addr + i - 1)
    <3>1. i \in Nat \ {0} /\ i - 1 \in 0 .. n /\ GoodCache(Cache)
      BY <1>1, <2>1, CacheIsGood
    <3> QED
      BY <2>2, <2>4, <3>1, ReadsStep
  <2>6. ReadUser(Cache, addr, n) = Peeks(addr, n)
    BY <2>3, <2>5 DEF ReadUser, Peeks
  <2>7. ReadAnswer(addr, len) = ReadUser(Cache, addr, n)
    BY <1>1 DEF ReadAnswer, n
  <2>8. CacheAfterRead(Cache, addr, n) = CachesOfPeeks(addr, n)[n]
    BY <2>1, <2>4
  <2> QED
    BY <2>6, <2>7, <2>8 DEF n
<1>2. IInv => RunsArePeeks
  BY <1>1 DEF RunsArePeeks
<1> QED
  BY <1>2, Invariance, PTL
=============================================================================
