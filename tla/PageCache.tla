------------------------------ MODULE PageCache ------------------------------
(***************************************************************************)
(* spiffs_cache.c over spiffs_integration.c: the pages of flash that       *)
(* SPIFFS keeps in memory.  A cache page holds a page of the flash, which  *)
(* is written through, or what a file descriptor wrote and the flash does  *)
(* not hold yet (wr).                                                      *)
(*                                                                         *)
(* The callers are the reads, writes and erasures of the nucleus, each     *)
(* within one page: see Places.  The nucleus programs no byte twice with   *)
(* different values (NoCellSpoilt of Spiffs), except to clear it.          *)
(***************************************************************************)
EXTENDS FlashHal, FiniteSets

CONSTANTS
    PageSize,      \* SPIFFS_CFG_LOG_PAGE_SZ
    CachePages,    \* cpage_count
    Places,        \* what the nucleus writes: [off, src, lookup] within a page
    Objects,       \* ids of the objects that may have a cached write, one for each descriptor
    Aligns,        \* where the caller's buffer may lie, modulo 4
    MaxAccess      \* bound: accesses through the cache

ASSUME CacheAssumption ==
    /\ PageSize \in Nat \ {0} /\ SectorSize % PageSize = 0
    /\ CachePages \in Nat /\ IsFiniteSet(Objects) /\ CachePages > Cardinality(Objects)
    /\ MaxAccess \in Nat /\ Aligns \subseteq 0 .. 3
\* A page has its header and fits the buffer of my_spi_write, both being of 256 bytes.
ASSUME PlacesAssumption ==
    /\ PageSize % 4 = 0 /\ PageSize > 5 /\ PageSize <= WriteBuffer
    /\ Sources \subseteq Seq(Int)
    /\ \A place \in Places :
          /\ place.src \in Sources /\ place.off \in 0 .. PageSize - 1
          /\ place.off + Len(place.src) <= PageSize

VARIABLES
    cpages,         \* the cache pages
    last_access,    \* cache->last_access
    pending         \* history: the objects with a cached write that was not released

vars == <<flash, cpages, last_access, pending>>

Cpix == 1 .. CachePages
Page == 0 .. FlashSize \div PageSize - 1
PagesPerBlock == SectorSize \div PageSize
PageOf(addr)  == addr \div PageSize
OffsetOf(addr) == addr % PageSize
IsLookup(p)   == p % PagesPerBlock = 0

Unused == [used |-> FALSE, wr |-> FALSE, pix |-> 0, id |-> 0, access |-> 0, mem |-> <<>>]

Init ==
    /\ flash = Nor!Blank
    /\ cpages = [c \in Cpix |-> Unused]       \* spiffs_cache_init
    /\ last_access = 0
    /\ pending = {}

-----------------------------------------------------------------------------
(* The cache pages.  0 is none.                                            *)
First(S) == IF S = {} THEN 0 ELSE CHOOSE c \in S : \A d \in S : c <= d

PageGet(cps, pix) == First({c \in Cpix : cps[c].used /\ ~cps[c].wr /\ cps[c].pix = pix})
PageFree(cps, c)  == [cps EXCEPT ![c] = [@ EXCEPT !.used = FALSE, !.wr = FALSE, !.mem = <<>>]]

EvictAny(cps, c) == TRUE                 \* mutant: cached writes are pages like any other
Evictable(cps, c) == ~cps[c].wr

\* The longest unused page gives way, if no page is free; one used just now does not.
RemoveOldest(cps, now) ==
    LET age(c) == now - cps[c].access
        cands  == {c \in Cpix : Evictable(cps, c) /\ age(c) > 0}
        oldest == First({c \in cands : \A d \in cands : age(d) <= age(c)})
    IN IF (\E c \in Cpix : ~cps[c].used) \/ oldest = 0 THEN cps ELSE PageFree(cps, oldest)

Allocated(cps) == First({c \in Cpix : ~cps[c].used})

\* memcpy of src into the memory of a cache page.
Copied(mem, off, src) ==
    [i \in 1 .. PageSize |-> IF i > off /\ i <= off + Len(src) THEN src[i - off] ELSE mem[i]]

(***************************************************************************)
(* spiffs_phys_rd: what it answers, and what is cached afterwards.         *)
(* lookup2 is SPIFFS_OP_T_OBJ_LU2, for reads that must not fill the cache. *)
(***************************************************************************)
Answer(addr, len, lookup2) ==
    LET c == PageGet(cpages, PageOf(addr))
        wholePage == my_spi_read(flash, addr - OffsetOf(addr), PageSize)
        from(mem) == SubSeq(mem, OffsetOf(addr) + 1, OffsetOf(addr) + len)
    IN IF c # 0 THEN from(cpages[c].mem)
       ELSE IF lookup2 \/ Allocated(RemoveOldest(cpages, last_access + 1)) = 0
       THEN my_spi_read(flash, addr, len)
       ELSE from(wholePage)

spiffs_phys_rd(p, lookup2) ==
    LET hit  == PageGet(cpages, p)
        now  == last_access + 1
        room == RemoveOldest(cpages, now)
        c    == Allocated(room)
        read == [used |-> TRUE, wr |-> FALSE, pix |-> p, id |-> 0, access |-> now,
                 mem |-> my_spi_read(flash, p * PageSize, PageSize)]
    IN /\ last_access < MaxAccess /\ last_access' = now
       /\ cpages' = IF hit # 0 THEN [cpages EXCEPT ![hit].access = now]
                    ELSE IF lookup2 THEN cpages
                    ELSE IF c = 0 THEN room
                    ELSE [room EXCEPT ![c] = read]
       /\ UNCHANGED <<flash, pending>>

(***************************************************************************)
(* spiffs_phys_wr.  Writing zeroes is deleting, of a page or of an entry   *)
(* of a lookup page; a page that is deleted leaves the cache.              *)
(***************************************************************************)
Writable(addr, src) ==
    \A i \in 1 .. Len(src) : src[i] = 0 \/ flash[addr + i - 1] = Nor!Free

spiffs_phys_wr(p, place, align) ==
    LET addr == p * PageSize + place.off
        c    == PageGet(cpages, p)
        dele == \A i \in 1 .. Len(place.src) : place.src[i] = 0
        now  == last_access + 1
        touched == [cpages EXCEPT ![c].mem = Copied(@, place.off, place.src), ![c].access = now]
    IN /\ place.lookup = IsLookup(p)
       /\ Writable(addr, place.src)
       /\ flash' = my_spi_write(flash, addr, place.src, align)
       /\ \/ /\ c = 0
             /\ UNCHANGED <<cpages, last_access>>
          \/ /\ c # 0 /\ dele /\ ~place.lookup
             /\ cpages' = PageFree(cpages, c)
             /\ UNCHANGED last_access
          \/ /\ c # 0 /\ (~dele \/ place.lookup)
             /\ last_access < MaxAccess /\ last_access' = now
             /\ cpages' = touched
       /\ UNCHANGED pending

(***************************************************************************)
(* spiffs_erase_block: erase, write the erase count through; then          *)
(* spiffs_gc_erase_block drops the pages of the block.                     *)
(***************************************************************************)
EraseCountAddr(b) == b * SectorSize + PageSize - 2

DropNone(cps, pages) == cps              \* mutant: the cache is not told
DropPages(cps, pages) ==
    [c \in Cpix |-> IF \E p \in pages : PageGet(cps, p) = c THEN PageFree(cps, c)[c] ELSE cps[c]]

EraseBlock(b, count) ==
    /\ flash' = my_spi_write(my_spi_erase(flash, b * SectorSize, SectorSize),
                             EraseCountAddr(b), count, 0)
    /\ cpages' = DropPages(cpages, {p \in Page : p \div PagesPerBlock = b})
    /\ UNCHANGED <<last_access, pending>>

(***************************************************************************)
(* Cached writes: spiffs_cache_page_allocate_by_fd, for a descriptor whose *)
(* object has none, and spiffs_cache_fd_release.                           *)
(***************************************************************************)
AllocateByFd(id) ==
    LET room == RemoveOldest(cpages, last_access)
        c    == Allocated(room)
    IN /\ id \notin pending
       /\ cpages' = IF c = 0 THEN room
                    ELSE [room EXCEPT ![c] = [used |-> TRUE, wr |-> TRUE, pix |-> 0, id |-> id,
                                              access |-> last_access, mem |-> <<>>]]
       /\ pending' = IF c = 0 THEN pending ELSE pending \cup {id}
       /\ UNCHANGED <<flash, last_access>>

GetByFd(id) == First({c \in Cpix : cpages[c].used /\ cpages[c].wr /\ cpages[c].id = id})

FdRelease(id) ==
    /\ GetByFd(id) # 0
    /\ cpages' = PageFree(cpages, GetByFd(id))
    /\ pending' = pending \ {id}
    /\ UNCHANGED <<flash, last_access>>

EraseCounts == {src \in Sources : Len(src) = 2 /\ 0 \notin {src[1], src[2]}}

Next ==
    \/ \E p \in Page, lookup2 \in BOOLEAN : spiffs_phys_rd(p, lookup2)
    \/ \E p \in Page, place \in Places, align \in Aligns : spiffs_phys_wr(p, place, align)
    \/ \E b \in 0 .. FlashSize \div SectorSize - 1, count \in EraseCounts : EraseBlock(b, count)
    \/ \E id \in Objects : AllocateByFd(id) \/ FdRelease(id)

Spec == Init /\ [][Next]_vars

-----------------------------------------------------------------------------
\* Whatever is cached, dropped or written through, at any alignment of the source, the flash
\* changes as an array of bytes would: no byte beside the written ones is programmed and none
\* is lost (spiffs_integration.c:158-225, "Don't set this smaller than 256").
ImplementsNor == Nor!Spec

\* Whatever the nucleus reads next, from a cached page or not, is what the flash holds: a page
\* that was written, deleted or erased is never read as it was before.  Reads that pass the cache
\* by start at a page (spiffs_cache.c:120-177), but for those of erase counts, at odd addresses.
ReadsTrue ==
    \A p \in Page, off \in {0, 5}, lookup2 \in BOOLEAN :
        (lookup2 => off = 0) =>
            LET addr == p * PageSize + off
                len  == PageSize - off
            IN Answer(addr, len, lookup2) = spi_flash_read(flash, addr, len)

\* A cached write, which the flash does not hold yet, stays until its descriptor releases it,
\* however many pages are read meanwhile (spiffs_cache.c:59-86).
PendingKept == \A id \in pending : GetByFd(id) # 0
=============================================================================
