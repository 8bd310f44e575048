-------------------------- MODULE PageCacheProofs --------------------------
(***************************************************************************)
(* Proofs about PageCache, for any number of cache pages, any geometry of  *)
(* the flash and any order of reads, writes, deletions and erasures.       *)
(***************************************************************************)
EXTENDS PageCache, FiniteSetTheorems, SequenceTheorems, WellFoundedInduction, TLAPS

Fields == {"used", "wr", "pix", "id", "access", "mem"}
ArePages(cps) == /\ DOMAIN cps = Cpix
                 /\ \A c \in Cpix : DOMAIN cps[c] = Fields

(* Cached writes stay where they are. *)
Keeps(cps, new) ==
    \A c \in Cpix : cps[c].used /\ cps[c].wr =>
                        new[c].used /\ new[c].wr /\ new[c].id = cps[c].id

IInv == /\ ArePages(cpages)
        /\ \A id \in pending : \E c \in Cpix : cpages[c].used /\ cpages[c].wr /\ cpages[c].id = id

-----------------------------------------------------------------------------
(* The searches of the cache find a page if there is one.                  *)
LEMMA LeastPage == ASSUME NEW S \in SUBSET Cpix, S # {}
                   PROVE  \E c \in S : \A d \in S : c <= d
PROOF
<1> DEFINE Less == {ss \in Nat \X Nat : ss[1] < ss[2]}
<1>1. S \subseteq Nat
  BY CacheAssumption DEF Cpix
<1>2. IsWellFoundedOn(Less, Nat)
  BY NatLessThanWellFounded, Zenon DEF OpToRel
<1>3. PICK c \in S : \A d \in S : ~(<<d, c>> \in Less)
  <2> HIDE DEF Less
  <2> QED  BY <1>1, <1>2, WFMin, Zenon
<1>4. ASSUME NEW d \in S PROVE c <= d
  <2>1. c \in Nat /\ d \in Nat
    BY <1>1
  <2>2. ~(d < c)
    BY <1>3, <2>1
  <2> QED  BY <2>1, <2>2
<1> QED  BY <1>4

LEMMA FirstIsFound ==
    ASSUME NEW S \in SUBSET Cpix
    PROVE  /\ S # {} => First(S) \in S /\ First(S) # 0
           /\ First(S) # 0 => First(S) \in S
PROOF
<1>1. 0 \notin Cpix
  BY DEF Cpix
<1>2. S # {} => First(S) \in S
  BY LeastPage DEF First
<1> QED  BY <1>1, <1>2 DEF First

LEMMA PageGetFinds ==
    ASSUME NEW cps, NEW pix, PageGet(cps, pix) # 0
    PROVE  PageGet(cps, pix) \in Cpix /\ ~cps[PageGet(cps, pix)].wr
PROOF
  BY FirstIsFound DEF PageGet

LEMMA AllocatedIsFree ==
    ASSUME NEW cps, Allocated(cps) # 0
    PROVE  Allocated(cps) \in Cpix /\ ~cps[Allocated(cps)].used
PROOF
  BY FirstIsFound DEF Allocated

-----------------------------------------------------------------------------
(* Freeing a page of the flash leaves the cached writes alone.             *)
LEMMA FreeKeeps ==
    ASSUME NEW cps, NEW c \in Cpix, ArePages(cps)
    PROVE  /\ ArePages(PageFree(cps, c))
           /\ \A d \in Cpix \ {c} : PageFree(cps, c)[d] = cps[d]
           /\ ~cps[c].wr => Keeps(cps, PageFree(cps, c))
PROOF
  BY DEF ArePages, PageFree, Keeps, Fields

(* Only a page of the flash gives way. *)
LEMMA RemoveCases ==
    ASSUME NEW cps, NEW now
    PROVE  \/ RemoveOldest(cps, now) = cps
           \/ \E c \in Cpix : ~cps[c].wr /\ RemoveOldest(cps, now) = PageFree(cps, c)
PROOF
<1> DEFINE age(c) == now - cps[c].access
           cands == {c \in Cpix : Evictable(cps, c) /\ age(c) > 0}
           olds == {c \in cands : \A d \in cands : age(d) <= age(c)}
           oldest == First(olds)
<1>1. \/ RemoveOldest(cps, now) = cps
      \/ oldest # 0 /\ RemoveOldest(cps, now) = PageFree(cps, oldest)
  BY DEF RemoveOldest
<1>2. ASSUME oldest # 0 PROVE oldest \in Cpix /\ ~cps[oldest].wr
  <2>1. olds \in SUBSET Cpix
    OBVIOUS
  <2>2. oldest \in olds
    <3> HIDE DEF olds
    <3> QED  BY <1>2, <2>1, FirstIsFound
  <2> QED  BY <2>2 DEF Evictable
<1> HIDE DEF oldest
<1> QED  BY <1>1, <1>2

LEMMA RemoveKeeps ==
    ASSUME NEW cps, NEW now, ArePages(cps)
    PROVE  ArePages(RemoveOldest(cps, now)) /\ Keeps(cps, RemoveOldest(cps, now))
PROOF
<1>1. Keeps(cps, cps)
  BY DEF Keeps
<1> QED  BY <1>1, RemoveCases, FreeKeeps

LEMMA FillKeeps ==
    ASSUME NEW cps, NEW page, NEW c \in Cpix, ArePages(cps), ~cps[c].used, DOMAIN page = Fields
    PROVE  ArePages([cps EXCEPT ![c] = page]) /\ Keeps(cps, [cps EXCEPT ![c] = page])
PROOF
  BY DEF ArePages, Keeps

LEMMA KeepsIsTransitive ==
    ASSUME NEW a, NEW b, NEW c, Keeps(a, b), Keeps(b, c) PROVE Keeps(a, c)
PROOF
  BY DEF Keeps

(* A step that keeps the cached writes, and adds none, keeps the invariant. *)
LEMMA KeepingIsEnough ==
    ASSUME IInv, ArePages(cpages'), Keeps(cpages, cpages'), UNCHANGED pending
    PROVE  IInv'
PROOF
  BY DEF IInv, Keeps

-----------------------------------------------------------------------------
LEMMA ReadStep == ASSUME NEW p \in Page, NEW lookup2 \in BOOLEAN, IInv, spiffs_phys_rd(p, lookup2)
                  PROVE  IInv'
PROOF
<1> DEFINE hit  == PageGet(cpages, p)
           now  == last_access + 1
           room == RemoveOldest(cpages, now)
           c    == Allocated(room)
           read == [used |-> TRUE, wr |-> FALSE, pix |-> p, id |-> 0, access |-> now,
                    mem |-> my_spi_read(flash, p * PageSize, PageSize)]
<1>1. /\ UNCHANGED pending
      /\ \/ hit # 0 /\ cpages' = [cpages EXCEPT ![hit].access = now]
         \/ cpages' = cpages
         \/ cpages' = room
         \/ c # 0 /\ cpages' = [room EXCEPT ![c] = read]
  BY DEF spiffs_phys_rd
<1>2. ArePages(cpages)
  BY DEF IInv
<1>3. ArePages(room) /\ Keeps(cpages, room)
  BY <1>2, RemoveKeeps
<1>4. CASE hit # 0 /\ cpages' = [cpages EXCEPT ![hit].access = now]
  <2> HIDE DEF hit, now
  <2>1. ArePages(cpages') /\ Keeps(cpages, cpages')
    BY <1>2, <1>4 DEF ArePages, Keeps, Fields
  <2> QED  BY <1>1, <2>1, KeepingIsEnough
<1>5. CASE cpages' = cpages
  <2>1. Keeps(cpages, cpages') /\ ArePages(cpages')
    BY <1>2, <1>5 DEF Keeps
  <2> QED  BY <1>1, <2>1, KeepingIsEnough
<1>6. CASE cpages' = room
  BY <1>1, <1>3, <1>6, KeepingIsEnough
<1>7. CASE c # 0 /\ cpages' = [room EXCEPT ![c] = read]
  <2>1. c \in Cpix /\ ~room[c].used
    BY <1>7, AllocatedIsFree
  <2>2. DOMAIN read = Fields
    BY DEF Fields
  <2>3. ArePages(cpages') /\ Keeps(room, cpages')
    <3> HIDE DEF room, c, read
    <3> QED  BY <1>3, <1>7, <2>1, <2>2, FillKeeps
  <2>4. Keeps(cpages, cpages')
    BY <1>3, <2>3, KeepsIsTransitive
  <2> QED  BY <1>1, <2>3, <2>4, KeepingIsEnough
<1> QED  BY <1>1, <1>4, <1>5, <1>6, <1>7

LEMMA WriteStep == ASSUME NEW p \in Page, NEW place \in Places, NEW align \in Aligns,
                          IInv, spiffs_phys_wr(p, place, align)
                   PROVE  IInv'
PROOF
<1> DEFINE c == PageGet(cpages, p)
           mem == Copied(cpages[c].mem, place.off, place.src)
           now == last_access + 1
<1>1. /\ UNCHANGED pending
      /\ \/ cpages' = cpages
         \/ c # 0 /\ cpages' = PageFree(cpages, c)
         \/ c # 0 /\ cpages' = [cpages EXCEPT ![c].mem = Copied(@, place.off, place.src),
                                              ![c].access = now]
  BY DEF spiffs_phys_wr
<1>2. ArePages(cpages)
  BY DEF IInv
<1>3. ArePages(cpages') /\ Keeps(cpages, cpages')
  <2>1. CASE cpages' = cpages
    BY <1>2, <2>1 DEF Keeps
  <2>2. CASE c # 0 /\ cpages' = PageFree(cpages, c)
    BY <1>2, <2>2, PageGetFinds, FreeKeeps
  <2>3. CASE c # 0 /\ cpages' = [cpages EXCEPT ![c].mem = Copied(@, place.off, place.src),
                                               ![c].access = now]
    <3> HIDE DEF c, now
    <3> QED  BY <1>2, <2>3 DEF ArePages, Keeps, Fields
  <2> QED  BY <1>1, <2>1, <2>2, <2>3
<1> QED  BY <1>1, <1>3, KeepingIsEnough

LEMMA EraseStep == ASSUME NEW b, NEW count, IInv, EraseBlock(b, count)
                   PROVE  IInv'
PROOF
<1> DEFINE pages == {p \in Page : p \div PagesPerBlock = b}
<1>1. UNCHANGED pending /\ cpages' = DropPages(cpages, pages)
  BY DEF EraseBlock
<1>2. ArePages(cpages)
  BY DEF IInv
<1>3. ASSUME NEW c \in Cpix
      PROVE  \/ cpages'[c] = cpages[c]
             \/ ~cpages[c].wr /\ DOMAIN cpages'[c] = Fields
  <2>1. CASE \E p \in pages : PageGet(cpages, p) = c
    <3>1. ~cpages[c].wr
      <4>1. c # 0
        BY DEF Cpix
      <4> QED  BY <2>1, <4>1, PageGetFinds
    <3>2. cpages'[c] = PageFree(cpages, c)[c]
      BY <1>1, <2>1 DEF DropPages
    <3>3. ArePages(PageFree(cpages, c))
      BY <1>2, FreeKeeps
    <3> QED  BY <3>1, <3>2, <3>3 DEF ArePages
  <2>2. CASE ~\E p \in pages : PageGet(cpages, p) = c
    BY <1>1, <2>2 DEF DropPages
  <2> QED  BY <2>1, <2>2
<1>4. DOMAIN cpages' = Cpix
  BY <1>1 DEF DropPages
<1>5. ArePages(cpages') /\ Keeps(cpages, cpages')
  BY <1>2, <1>3, <1>4 DEF ArePages, Keeps
<1> QED  BY <1>1, <1>5, KeepingIsEnough

LEMMA AllocateStep == ASSUME NEW id \in Objects, IInv, AllocateByFd(id) PROVE IInv'
PROOF
<1> DEFINE room == RemoveOldest(cpages, last_access)
           c == Allocated(room)
           page == [used |-> TRUE, wr |-> TRUE, pix |-> 0, id |-> id,
                    access |-> last_access, mem |-> <<>>]
<1>1. ArePages(room) /\ Keeps(cpages, room)
  BY RemoveKeeps DEF IInv
<1>2. CASE c = 0
  <2>1. cpages' = room /\ UNCHANGED pending
    BY <1>2 DEF AllocateByFd
  <2> QED  BY <1>1, <2>1, KeepingIsEnough
<1>3. CASE c # 0
  <2>1. cpages' = [room EXCEPT ![c] = page] /\ pending' = pending \cup {id}
    BY <1>3 DEF AllocateByFd
  <2>2. c \in Cpix /\ ~room[c].used
    BY <1>3, AllocatedIsFree
  <2>3. DOMAIN page = Fields /\ page.used /\ page.wr /\ page.id = id
    BY DEF Fields
  <2> HIDE DEF room, c, page
  <2>4. ArePages(cpages') /\ Keeps(room, cpages')
    BY <1>1, <2>1, <2>2, <2>3, FillKeeps
  <2>5. cpages'[c] = page
    BY <1>1, <2>1, <2>2 DEF ArePages
  <2>6. Keeps(cpages, cpages')
    BY <1>1, <2>4, KeepsIsTransitive
  <2> QED  BY <2>1, <2>2, <2>3, <2>4, <2>5, <2>6 DEF IInv, Keeps
<1> QED  BY <1>2, <1>3

LEMMA ReleaseStep == ASSUME NEW id \in Objects, IInv, FdRelease(id) PROVE IInv'
PROOF
<1> DEFINE c == GetByFd(id)
<1>1. /\ c # 0 /\ cpages' = PageFree(cpages, c)
      /\ pending' = pending \ {id}
  BY DEF FdRelease
<1>2. c \in Cpix /\ cpages[c].id = id
  BY <1>1, FirstIsFound DEF GetByFd
<1>3. ArePages(cpages)
  BY DEF IInv
<1> HIDE DEF c
<1>4. ArePages(cpages') /\ \A d \in Cpix \ {c} : cpages'[d] = cpages[d]
  BY <1>1, <1>2, <1>3, FreeKeeps
<1>5. ASSUME NEW other \in pending'
      PROVE  \E d \in Cpix : cpages'[d].used /\ cpages'[d].wr /\ cpages'[d].id = other
  <2>1. PICK d \in Cpix : cpages[d].used /\ cpages[d].wr /\ cpages[d].id = other
    BY <1>1 DEF IInv
  <2>2. d # c
    BY <1>1, <1>2, <2>1
  <2> QED  BY <1>4, <2>1, <2>2
<1> QED  BY <1>4, <1>5 DEF IInv

-----------------------------------------------------------------------------
(* However many pages are read, written, deleted and erased meanwhile, and *)
(* however few the cache has: what a file descriptor wrote and the flash   *)
(* does not hold yet stays in the cache until the descriptor releases it.  *)
THEOREM CachedWritesStay == Spec => []PendingKept
PROOF
<1>1. Init => IInv
  BY DEF Init, IInv, ArePages, Unused, Fields
<1>2. IInv /\ [Next]_vars => IInv'
  <2> SUFFICES ASSUME IInv, [Next]_vars PROVE IInv'
    OBVIOUS
  <2>1. CASE UNCHANGED vars
    BY <2>1 DEF vars, IInv
  <2> QED
    BY <2>1, ReadStep, WriteStep, EraseStep, AllocateStep, ReleaseStep DEF Next
<1>3. IInv => PendingKept
  <2> SUFFICES ASSUME IInv, NEW id \in pending PROVE GetByFd(id) # 0
    BY DEF PendingKept
  <2> QED  BY FirstIsFound DEF IInv, GetByFd
<1> QED  BY <1>1, <1>2, <1>3, PTL DEF Spec

-----------------------------------------------------------------------------
(* Arithmetic.                                                             *)
LEMMA DivOne == ASSUME NEW x \in Nat, NEW b \in Nat, b > 0, b <= x, x < b + b PROVE x \div b = 1
PROOF
  OBVIOUS

LEMMA MaxOfOne == ASSUME NEW n \in Int PROVE Max({n}) = n
PROOF
  BY DEF Max

LEMMA DivMod ==
    ASSUME NEW x \in Nat, NEW b \in Nat, b > 0
    PROVE  x \div b \in Nat /\ x % b \in 0 .. b - 1 /\ x = ((x \div b) * b) + (x % b)
PROOF
  OBVIOUS

LEMMA DivUnique ==
    ASSUME NEW q \in Nat, NEW b \in Nat, NEW r \in Nat, r < b
    PROVE  (q * b + r) \div b = q /\ (q * b + r) % b = r
PROOF
  OBVIOUS

LEMMA TimesLess ==
    ASSUME NEW q \in Nat, NEW n \in Nat, NEW b \in Nat, q < n
    PROVE  q * b + b <= n * b /\ q * b \in Nat /\ n * b \in Nat
PROOF
  OBVIOUS

LEMMA TimesTimes ==
    ASSUME NEW q \in Nat, NEW n \in Nat, NEW r \in Nat, NEW b \in Nat
    PROVE  (q * n + r) * b = q * (n * b) + r * b
PROOF
  OBVIOUS

-----------------------------------------------------------------------------
(* The folds over the sectors of an erasure and the chunks of a write, of  *)
(* which there is one.                                                     *)
LEMMA OneSector ==
    ASSUME NEW mem, NEW s
    PROVE  FoldLeft(Nor!Erased, mem, <<s>>) = Nor!Erased(mem, s)
PROOF
<1> DEFINE Body(g, t) == IF t = {} THEN mem
                         ELSE Nor!Erased(g[t \ {Max(t)}], <<s>>[Max(t)])
           fold == CHOOSE g : g = [t \in SUBSET {1} |-> Body(g, t)]
           w == [t \in SUBSET {1} |-> IF t = {} THEN mem ELSE Nor!Erased(mem, s)]
<1>1. FoldLeft(Nor!Erased, mem, <<s>>) = fold[{1}]
  <2>1. DOMAIN <<s>> = {1}
    OBVIOUS
  <2> QED  BY <2>1 DEF FoldLeft, MapThenFoldSet
<1>2. SUBSET {1} = {{}, {1}} /\ {1} \ {1} = {} /\ {1} # {}
  OBVIOUS
<1>3. w[{}] = mem
  BY <1>2
<1>4. ASSUME NEW g, g[{}] = mem, NEW t \in SUBSET {1}
      PROVE  Body(g, t) = w[t]
  <2>1. CASE t = {}
    BY <2>1
  <2>2. CASE t = {1}
    <3>1. Max(t) = 1 /\ t \ {Max(t)} = {} /\ <<s>>[Max(t)] = s
      BY <1>2, <2>2, MaxOfOne
    <3>2. Body(g, t) = Nor!Erased(mem, s)
      BY <1>2, <1>4, <2>2, <3>1
    <3> QED  BY <2>2, <3>2
  <2> QED  BY <1>2, <2>1, <2>2
<1>5. w = [t \in SUBSET {1} |-> Body(w, t)]
  <2>1. \A t \in SUBSET {1} : Body(w, t) = w[t]
    BY <1>3, <1>4
  <2>2. w = [t \in SUBSET {1} |-> w[t]]
    OBVIOUS
  <2> HIDE DEF w, Body
  <2> QED  BY <2>1, <2>2
<1>6. fold = [t \in SUBSET {1} |-> Body(fold, t)]
  <2> HIDE DEF w, Body
  <2> QED  BY <1>5
<1>7. fold[{}] = mem
  <2> HIDE DEF fold
  <2>1. fold[{}] = Body(fold, {})
    BY <1>6, <1>2
  <2> QED  BY <2>1
<1>8. fold[{1}] = Body(fold, {1}) /\ Body(fold, {1}) = w[{1}]
  <2> HIDE DEF fold, Body, w
  <2>1. {1} \in SUBSET {1}
    OBVIOUS
  <2> QED  BY <1>4, <1>6, <1>7, <2>1
<1>9. w[{1}] = Nor!Erased(mem, s)
  BY <1>2
<1> HIDE DEF fold, Body, w
<1> QED  BY <1>1, <1>8, <1>9

-----------------------------------------------------------------------------
(* A piece of a write: the bytes of src that go to lo .. hi - 1, as r has  *)
(* them after m.                                                           *)
Piece(m, r, lo, hi, addr, src) ==
    r = [a \in DOMAIN m |-> IF a >= lo /\ a < hi THEN Nor!And(m[a], src[a - addr + 1]) ELSE m[a]]

IsMemory(m) == DOMAIN m \subseteq Int /\ m = [a \in DOMAIN m |-> m[a]]

LEMMA PieceIsMemory ==
    ASSUME NEW m, NEW r, NEW lo, NEW hi, NEW addr, NEW src, IsMemory(m),
           Piece(m, r, lo, hi, addr, src)
    PROVE  IsMemory(r)
PROOF
  BY DEF Piece, IsMemory

LEMMA NoPiece ==
    ASSUME NEW m, NEW lo \in Int, NEW hi \in Int, NEW addr, NEW src, IsMemory(m), hi <= lo
    PROVE  Piece(m, m, lo, hi, addr, src)
PROOF
<1>1. \A a \in DOMAIN m : ~(a >= lo /\ a < hi)
  BY DEF IsMemory
<1> QED  BY <1>1 DEF Piece, IsMemory

LEMMA PiecesJoin ==
    ASSUME NEW m, NEW r, NEW w, NEW lo \in Int, NEW mid \in Int, NEW hi \in Int,
           NEW addr, NEW src, IsMemory(m), lo <= mid, mid <= hi,
           Piece(m, r, lo, mid, addr, src), Piece(r, w, mid, hi, addr, src)
    PROVE  Piece(m, w, lo, hi, addr, src)
PROOF
<1>1. DOMAIN r = DOMAIN m /\ DOMAIN w = DOMAIN m
  BY DEF Piece
<1>2. ASSUME NEW a \in DOMAIN m
      PROVE  w[a] = IF a >= lo /\ a < hi THEN Nor!And(m[a], src[a - addr + 1]) ELSE m[a]
  <2>1. a \in Int
    BY DEF IsMemory
  <2>2. r[a] = IF a >= lo /\ a < mid THEN Nor!And(m[a], src[a - addr + 1]) ELSE m[a]
    BY DEF Piece
  <2>3. w[a] = IF a >= mid /\ a < hi THEN Nor!And(r[a], src[a - addr + 1]) ELSE r[a]
    BY <1>1 DEF Piece
  <2>4. CASE a < mid
    BY <2>1, <2>2, <2>3, <2>4
  <2>5. CASE a >= mid
    <3>1. ~(a < mid)
      BY <2>1, <2>5
    <3> QED  BY <2>1, <2>2, <2>3, <2>5, <3>1
  <2> QED  BY <2>1, <2>4, <2>5
<1>3. w = [a \in DOMAIN m |-> w[a]]
  BY <1>1 DEF Piece
<1> QED  BY <1>2, <1>3 DEF Piece

(* Programming words: where the source is padded nothing changes.          *)
LEMMA PadType ==
    ASSUME NEW n \in Nat
    PROVE  /\ Pad(n) \in Seq(Int) /\ Len(Pad(n)) = n
           /\ \A i \in 1 .. n : Pad(n)[i] = Nor!Free
PROOF
  BY DEF Pad, Nor!Free

LEMMA PadProgramsNothing == ASSUME NEW old PROVE Nor!And(old, Nor!Free) = old
PROOF
  BY DEF Nor!And

LEMMA BeginBounds ==
    ASSUME NEW addr \in Nat
    PROVE  Begin(addr) \in Nat /\ addr <= Begin(addr) /\ Begin(addr) < addr + 4
PROOF
  BY DEF Begin, AlignedUp

LEMMA EndBounds ==
    ASSUME NEW addr \in Nat, NEW n \in Nat
    PROVE  /\ End(addr, n) \in Nat /\ Begin(addr) <= End(addr, n)
           /\ End(addr, n) = Begin(addr) \/ End(addr, n) <= addr + n
           /\ addr + n < End(addr, n) + 4
PROOF
<1>1. Begin(addr) \in Nat
  BY BeginBounds
<1>2. /\ AlignedDown(addr + n) \in Nat /\ AlignedDown(addr + n) <= addr + n
      /\ addr + n < AlignedDown(addr + n) + 4
  BY DEF AlignedDown
<1> QED  BY <1>1, <1>2 DEF End

LEMMA HeadPiece ==
    ASSUME NEW m, NEW addr \in Nat, NEW src \in Seq(Int), IsMemory(m)
    PROVE  LET stop == IF addr + Len(src) < Begin(addr) THEN addr + Len(src) ELSE Begin(addr)
           IN  Piece(m, WriteHead(m, addr, src), addr, stop, addr, src)
PROOF
<1> DEFINE b == Begin(addr)
           l == Len(src)
           ofs == b - addr
           nb == IF l < ofs THEN l ELSE ofs
           stop == IF addr + l < b THEN addr + l ELSE b
           part == SubSeq(src, 1, nb)
           p == Pad(4 - ofs) \o part \o Pad(ofs - nb)
<1>1. b \in Nat /\ addr <= b /\ b < addr + 4 /\ l \in Nat
  <2>1. b \in Nat /\ addr <= b /\ b < addr + 4
    BY BeginBounds
  <2>2. l \in Nat
    OBVIOUS
  <2> QED  BY <2>1, <2>2
<1>2. ofs \in 0 .. 3 /\ nb \in 0 .. ofs /\ nb <= l /\ stop = addr + nb
  <2> HIDE DEF b, l
  <2> QED  BY <1>1
<1>3. CASE ofs = 0
  <2>1. WriteHead(m, addr, src) = m
    BY <1>3 DEF WriteHead
  <2>2. stop <= addr /\ stop \in Int
    <3> HIDE DEF b, l, ofs, nb, stop
    <3> QED  BY <1>2, <1>3
  <2> HIDE DEF stop
  <2>3. Piece(m, m, addr, stop, addr, src)
    BY <2>2, NoPiece
  <2> QED  BY <2>1, <2>3 DEF stop
<1>4. CASE ofs # 0
  <2>1. WriteHead(m, addr, src) = Nor!Programmed(m, b - 4, p)
    BY <1>4 DEF WriteHead, spi_flash_write
  <2> HIDE DEF ofs, nb, b, l, stop
  <2>2. part \in Seq(Int) /\ Len(part) = nb /\ \A i \in 1 .. nb : part[i] = src[i]
    BY <1>2 DEF l
  <2> HIDE DEF part
  <2> DEFINE h == Pad(4 - ofs)
             hp == h \o part
             t == Pad(ofs - nb)
  <2>3. /\ h \in Seq(Int) /\ Len(h) = 4 - ofs /\ \A i \in 1 .. 4 - ofs : h[i] = Nor!Free
        /\ t \in Seq(Int) /\ Len(t) = ofs - nb /\ \A i \in 1 .. ofs - nb : t[i] = Nor!Free
    <3>1. 4 - ofs \in Nat /\ ofs - nb \in Nat
      BY <1>2
    <3> QED  BY <3>1, PadType
  <2> HIDE DEF h, t
  <2>4. /\ hp \in Seq(Int) /\ Len(hp) = 4 - ofs + nb
        /\ \A i \in 1 .. 4 - ofs + nb : hp[i] = IF i <= 4 - ofs THEN h[i] ELSE part[i - (4 - ofs)]
    <3>1. /\ hp \in Seq(Int) /\ Len(hp) = Len(h) + Len(part)
          /\ \A i \in 1 .. Len(h) + Len(part) :
                hp[i] = IF i <= Len(h) THEN h[i] ELSE part[i - Len(h)]
      BY <2>2, <2>3, ConcatProperties
    <3> HIDE DEF hp
    <3> QED  BY <2>2, <2>3, <3>1
  <2> HIDE DEF hp
  <2>5. /\ Len(hp \o t) = 4
        /\ \A i \in 1 .. 4 : (hp \o t)[i] = IF i <= 4 - ofs + nb THEN hp[i]
                                           ELSE t[i - (4 - ofs + nb)]
    <3>1. /\ Len(hp \o t) = Len(hp) + Len(t)
          /\ \A i \in 1 .. Len(hp) + Len(t) :
                (hp \o t)[i] = IF i <= Len(hp) THEN hp[i] ELSE t[i - Len(hp)]
      BY <2>3, <2>4, ConcatProperties
    <3>2. Len(hp) + Len(t) = 4
      BY <1>2, <2>3, <2>4
    <3> QED  BY <2>4, <3>1, <3>2
  <2>6. p = hp \o t
    BY DEF hp, h, t
  <2> HIDE DEF p
  <2>7. Len(p) = 4
    BY <2>5, <2>6
  <2>8. ASSUME NEW a \in DOMAIN m, a >= b - 4, a < b
        PROVE  LET x == p[a - (b - 4) + 1]
               IN  IF a >= addr /\ a < stop THEN x = src[a - addr + 1] ELSE x = Nor!Free
    <3> DEFINE k == a - (b - 4) + 1
    <3>1. a \in Int /\ k \in 1 .. 4 /\ k - (4 - ofs) = a - addr + 1
      <4>1. a \in Int
        BY DEF IsMemory
      <4>2. ofs = b - addr
        BY DEF ofs
      <4>3. k \in 1 .. 4 /\ k - (4 - ofs) = a - addr + 1
        <5>1. ofs \in Int /\ b \in Int
          BY <1>1, <1>2
        <5>2. k \in 1 .. 4
          BY <2>8, <4>1, <5>1
        <5>3. k - (4 - ofs) = a - addr + 1
          BY <4>1, <4>2, <5>1
        <5> QED  BY <5>2, <5>3
      <4> QED  BY <4>1, <4>3
    <3>2. p[k] = IF k <= 4 - ofs + nb THEN hp[k] ELSE t[k - (4 - ofs + nb)]
      <4> HIDE DEF k
      <4> QED  BY <2>5, <2>6, <3>1
    <3>3. (a >= addr <=> k > 4 - ofs) /\ (a < stop <=> k <= 4 - ofs + nb)
      BY <1>1, <1>2, <3>1 DEF ofs
    <3> HIDE DEF k
    <3>4. CASE k <= 4 - ofs
      <4>0. k <= 4 - ofs + nb /\ k \in 1 .. 4 - ofs + nb
        BY <1>2, <3>1, <3>4
      <4>1. p[k] = h[k]
        BY <2>4, <3>2, <3>4, <4>0
      <4>2. ~(a >= addr)
        BY <1>2, <3>1, <3>3, <3>4
      <4> QED  BY <1>2, <2>3, <3>1, <3>4, <4>1, <4>2 DEF k
    <3>5. CASE k > 4 - ofs /\ k <= 4 - ofs + nb
      <4>1. p[k] = part[k - (4 - ofs)]
        BY <1>2, <2>4, <3>1, <3>2, <3>5
      <4>2. k - (4 - ofs) \in 1 .. nb
        BY <1>2, <3>1, <3>5
      <4>3. p[k] = src[a - addr + 1]
        BY <2>2, <3>1, <4>1, <4>2
      <4> QED  BY <3>3, <3>5, <4>3 DEF k
    <3>6. CASE k > 4 - ofs + nb
      <4>1. k - (4 - ofs + nb) \in 1 .. ofs - nb
        BY <1>2, <3>1, <3>6
      <4>2. p[k] = Nor!Free
        BY <1>2, <2>3, <3>1, <3>2, <3>6, <4>1
      <4>3. ~(a < stop)
        BY <1>2, <3>1, <3>3, <3>6
      <4> QED  BY <4>2, <4>3 DEF k
    <3> QED  BY <1>2, <3>1, <3>4, <3>5, <3>6
  <2>9. Piece(m, Nor!Programmed(m, b - 4, p), addr, stop, addr, src)
    <3>1. ASSUME NEW a \in DOMAIN m
          PROVE  (IF a >= b - 4 /\ a < b - 4 + Len(p)
                  THEN Nor!And(m[a], p[a - (b - 4) + 1]) ELSE m[a])
                 = (IF a >= addr /\ a < stop THEN Nor!And(m[a], src[a - addr + 1]) ELSE m[a])
      <4>1. a \in Int
        BY DEF IsMemory
      <4>2. CASE a >= b - 4 /\ a < b
        <5>1. a < b - 4 + Len(p)
          BY <1>1, <2>7, <4>1, <4>2
        <5> QED  BY <2>8, <4>2, <5>1, PadProgramsNothing
      <4>3. CASE ~(a >= b - 4 /\ a < b)
        <5>1. ~(a >= b - 4 /\ a < b - 4 + Len(p))
          BY <1>1, <2>7, <4>1, <4>3
        <5>2. ~(a >= addr /\ a < stop)
          BY <1>1, <1>2, <4>1, <4>3 DEF ofs
        <5> QED  BY <5>1, <5>2
      <4> QED  BY <4>2, <4>3
    <3> QED  BY <3>1 DEF Piece, Nor!Programmed
  <2> QED  BY <2>1, <2>9 DEF stop, b, l
<1> QED  BY <1>3, <1>4

LEMMA EmptyPiece ==
    ASSUME NEW m, NEW r, NEW lo \in Int, NEW hi \in Int, NEW addr, NEW src, IsMemory(m), hi <= lo,
           Piece(m, r, lo, hi, addr, src)
    PROVE  r = m
PROOF
<1>1. \A a \in DOMAIN m : ~(a >= lo /\ a < hi)
  BY DEF IsMemory
<1> QED  BY <1>1 DEF Piece, IsMemory

(* A program operation whose bytes are those of src from addr on.          *)
LEMMA ProgramsPiece ==
    ASSUME NEW m, IsMemory(m), NEW at \in Int, NEW data, NEW n \in Nat, Len(data) = n,
           NEW addr \in Nat, NEW src,
           \A k \in 1 .. n : data[k] = src[at - addr + k]
    PROVE  Piece(m, Nor!Programmed(m, at, data), at, at + n, addr, src)
PROOF
<1>1. ASSUME NEW a \in DOMAIN m
      PROVE  (IF a >= at /\ a < at + Len(data) THEN Nor!And(m[a], data[a - at + 1]) ELSE m[a])
             = (IF a >= at /\ a < at + n THEN Nor!And(m[a], src[a - addr + 1]) ELSE m[a])
  <2>1. a \in Int
    BY DEF IsMemory
  <2>2. CASE a >= at /\ a < at + n
    <3> DEFINE k == a - at + 1
    <3>1. k \in 1 .. n
      BY <2>1, <2>2
    <3>2. at - addr + k = a - addr + 1
      BY <2>1
    <3>3. data[k] = src[a - addr + 1]
      <4> HIDE DEF k
      <4> QED  BY <3>1, <3>2
    <3> QED  BY <3>3
  <2>3. CASE ~(a >= at /\ a < at + n)
    BY <2>3
  <2> QED  BY <2>2, <2>3
<1> QED  BY <1>1 DEF Piece, Nor!Programmed

(* The words between, through the buffer or not.                           *)
Buffered(src, ofs, size) == [i \in 1 .. size |-> ByteOf(src, ofs + i)]

LEMMA OneChunk ==
    ASSUME NEW m, NEW addr, NEW src, NEW align,
           NEW begin \in Int, NEW size \in Nat, NEW ofs \in Int,
           begin = Begin(addr), size = End(addr, Len(src)) - Begin(addr), ofs = Begin(addr) - addr,
           size > 0, size <= WriteBuffer, (align + ofs) % 4 # 0
    PROVE  WriteWords(m, addr, src, align) = spi_flash_write(m, begin, Buffered(src, ofs, size))
PROOF
<1> DEFINE Copy(at, n)  == [i \in 1 .. n |-> ByteOf(src, ofs + 4 * at + i)]
           Chunk(mem, k) ==
               LET at == k * WriteBuffer
                   n  == IF size - at < WriteBuffer THEN size - at ELSE WriteBuffer
               IN spi_flash_write(mem, begin + at, Copy(at, n))
           chunks == [k \in 1 .. (size + WriteBuffer - 1) \div WriteBuffer |-> k - 1]
           Body(g, t) == IF t = {} THEN m ELSE Chunk(g[t \ {Max(t)}], chunks[Max(t)])
           fold == CHOOSE g : g = [t \in SUBSET DOMAIN chunks |-> Body(g, t)]
           all == spi_flash_write(m, begin, Buffered(src, ofs, size))
           w == [t \in SUBSET {1} |-> IF t = {} THEN m ELSE all]
<1>0. WriteWords(m, addr, src, align) = FoldLeft(Chunk, m, chunks)
  <2>1. size # 0
    OBVIOUS
  <2> QED  BY <2>1 DEF WriteWords, Words
<1>1. WriteWords(m, addr, src, align) = fold[DOMAIN chunks]
  BY <1>0 DEF FoldLeft, MapThenFoldSet
<1>2. WriteBuffer \in Nat /\ WriteBuffer > 0
  BY BufferAssumption
<1>3. (size + WriteBuffer - 1) \div WriteBuffer = 1
  <2> DEFINE x == size + WriteBuffer - 1
  <2>1. x \in Nat /\ WriteBuffer <= x /\ x < WriteBuffer + WriteBuffer
    BY <1>2
  <2> HIDE DEF x
  <2>2. x \div WriteBuffer = 1
    BY <1>2, <2>1, DivOne
  <2> QED  BY <2>2 DEF x
<1>4. DOMAIN chunks = {1} /\ chunks[1] = 0
  BY <1>3
<1>5. Chunk(m, 0) = all
  <2> USE DEF Buffered
  <2> DEFINE at == 0 * WriteBuffer
             n == IF size - at < WriteBuffer THEN size - at ELSE WriteBuffer
  <2>1. at = 0 /\ n = size
    BY <1>2
  <2>2. begin + at = begin /\ Copy(at, n) = [i \in 1 .. size |-> ByteOf(src, ofs + i)]
    <3> HIDE DEF at, n
    <3>1. \A i \in 1 .. size : ofs + 4 * at + i = ofs + i
      BY <2>1
    <3> QED  BY <2>1, <3>1
  <2>3. Chunk(m, 0) = spi_flash_write(m, begin + at, Copy(at, n))
    OBVIOUS
  <2> HIDE DEF Chunk, Copy, at, n
  <2> QED  BY <2>2, <2>3
<1>6. SUBSET {1} = {{}, {1}} /\ {1} \ {1} = {} /\ {1} # {}
  OBVIOUS
<1> HIDE DEF Chunk, chunks, all
<1>7. w[{}] = m
  BY <1>6
<1>8. ASSUME NEW g, g[{}] = m, NEW t \in SUBSET {1}
      PROVE  Body(g, t) = w[t]
  <2>1. CASE t = {}
    BY <2>1
  <2>2. CASE t = {1}
    <3>1. Max(t) = 1
      BY <2>2, MaxOfOne
    <3>2. Body(g, t) = Chunk(g[{}], 0)
      BY <1>4, <1>6, <2>2, <3>1
    <3> QED  BY <1>5, <1>6, <1>8, <2>2, <3>2
  <2> QED  BY <1>6, <2>1, <2>2
<1>9. w = [t \in SUBSET {1} |-> Body(w, t)]
  <2>1. \A t \in SUBSET {1} : Body(w, t) = w[t]
    BY <1>7, <1>8
  <2>2. w = [t \in SUBSET {1} |-> w[t]]
    OBVIOUS
  <2> HIDE DEF w, Body
  <2> QED  BY <2>1, <2>2
<1>10. fold = [t \in SUBSET {1} |-> Body(fold, t)]
  <2> HIDE DEF w, Body
  <2> QED  BY <1>4, <1>9
<1>11. fold[{}] = m
  <2> HIDE DEF fold
  <2>1. fold[{}] = Body(fold, {})
    BY <1>10, <1>6
  <2> QED  BY <2>1
<1>12. fold[{1}] = w[{1}]
  <2> HIDE DEF fold, Body, w
  <2>1. {1} \in SUBSET {1}
    OBVIOUS
  <2> QED  BY <1>8, <1>10, <1>11, <2>1
<1>13. w[{1}] = all
  BY <1>6
<1> HIDE DEF fold, Body, w
<1> QED  BY <1>1, <1>4, <1>12, <1>13 DEF all

LEMMA WordsPiece ==
    ASSUME NEW m, IsMemory(m), NEW addr \in Nat, NEW src \in Seq(Int), NEW align \in Nat,
           Len(src) <= WriteBuffer
    PROVE  Piece(m, WriteWords(m, addr, src, align), Begin(addr), End(addr, Len(src)), addr, src)
PROOF
<1> DEFINE b == Begin(addr)
           l == Len(src)
           e == End(addr, l)
           size == e - b
           ofs == b - addr
<1>1. l \in Nat
  OBVIOUS
<1>2. b \in Nat /\ addr <= b /\ e \in Nat /\ b <= e /\ (e = b \/ e <= addr + l)
  BY <1>1, BeginBounds, EndBounds
<1> HIDE DEF b, l, e
<1>3. size \in Nat /\ ofs \in Nat /\ (size # 0 => ofs + size <= l) /\ b + size = e
  BY <1>1, <1>2
<1>4. ofs = b - addr
  OBVIOUS
<1> HIDE DEF size, ofs
<1>5. CASE size = 0
  <2>1. WriteWords(m, addr, src, align) = m
    BY <1>5 DEF WriteWords, Words, size, b, e, l
  <2>2. e <= b
    BY <1>2, <1>3, <1>5
  <2> QED  BY <1>2, <2>1, <2>2, NoPiece DEF b, e, l
<1>6. ASSUME size # 0, NEW data, Len(data) = size,
             \A k \in 1 .. size : data[k] = src[ofs + k],
             WriteWords(m, addr, src, align) = Nor!Programmed(m, b, data)
      PROVE  Piece(m, WriteWords(m, addr, src, align), b, e, addr, src)
  <2>0. b \in Int /\ size \in Nat /\ \A k \in 1 .. size : data[k] = src[b - addr + k]
    BY <1>2, <1>3, <1>4, <1>6
  <2>1. Piece(m, Nor!Programmed(m, b, data), b, b + size, addr, src)
    BY <1>6, <2>0, ProgramsPiece
  <2> QED  BY <1>3, <1>6, <2>1
<1>7. CASE size # 0 /\ (align + ofs) % 4 = 0
  <2> DEFINE data == SubSeq(src, ofs + 1, ofs + size)
  <2>1. Len(data) = size /\ \A k \in 1 .. size : data[k] = src[ofs + k]
    <3> DEFINE first == ofs + 1
               last == ofs + size
    <3>1. first \in 1 .. Len(src) + 1 /\ last \in Int /\ last <= Len(src) /\ last - first + 1 = size
      BY <1>3, <1>7 DEF l
    <3>2. \A k \in 1 .. size : first + k - 1 = ofs + k
      BY <1>3
    <3> HIDE DEF first, last
    <3>3. /\ Len(SubSeq(src, first, last)) = last - first + 1
          /\ \A k \in 1 .. last - first + 1 : SubSeq(src, first, last)[k] = src[first + k - 1]
      <4>1. first \in Int /\ first <= last + 1
        BY <1>3, <3>1
      <4>2. Len(SubSeq(src, first, last)) = last - first + 1
        BY <3>1, <4>1
      <4>3. ASSUME NEW k \in 1 .. last - first + 1
            PROVE  SubSeq(src, first, last)[k] = src[first + k - 1]
        BY <3>1, <4>1
      <4> QED  BY <4>2, <4>3
    <3> QED  BY <3>1, <3>2, <3>3 DEF first, last
  <2>2. WriteWords(m, addr, src, align) = Nor!Programmed(m, b, data)
    BY <1>7 DEF WriteWords, Words, size, ofs, b, e, l, spi_flash_write
  <2> HIDE DEF data
  <2>3. Piece(m, WriteWords(m, addr, src, align), b, e, addr, src)
    BY <1>6, <1>7, <2>1, <2>2
  <2> QED  BY <2>3 DEF b, e, l
<1>8. CASE size # 0 /\ (align + ofs) % 4 # 0
  <2> DEFINE data == [i \in 1 .. size |-> ByteOf(src, ofs + i)]
  <2>1. Len(data) = size
    BY <1>3
  <2>2. \A k \in 1 .. size : data[k] = src[ofs + k]
    BY <1>1, <1>3, <1>8 DEF ByteOf, l
  <2>3. size > 0 /\ size <= WriteBuffer
    BY <1>1, <1>3, <1>8, BufferAssumption DEF l
  <2>4. WriteWords(m, addr, src, align) = Nor!Programmed(m, b, data)
    <3>1. b = Begin(addr) /\ size = End(addr, Len(src)) - Begin(addr) /\ ofs = Begin(addr) - addr
      BY DEF b, size, ofs, e, l
    <3>2. b \in Int /\ size \in Nat /\ ofs \in Int
      BY <1>2, <1>3
    <3>3. (align + ofs) % 4 # 0
      BY <1>8
    <3>4. data = Buffered(src, ofs, size)
      BY DEF Buffered
    <3> HIDE DEF data
    <3>5. WriteWords(m, addr, src, align) = spi_flash_write(m, b, data)
      BY <2>3, <3>1, <3>2, <3>3, <3>4, OneChunk
    <3> QED  BY <3>5 DEF spi_flash_write
  <2> HIDE DEF data
  <2>5. Piece(m, WriteWords(m, addr, src, align), b, e, addr, src)
    BY <1>6, <1>8, <2>1, <2>2, <2>4
  <2> QED  BY <2>5 DEF b, e, l
<1> QED  BY <1>5, <1>7, <1>8

LEMMA TailPiece ==
    ASSUME NEW m, IsMemory(m), NEW addr \in Nat, NEW src \in Seq(Int)
    PROVE  Piece(m, WriteTail(m, addr, src), End(addr, Len(src)), addr + Len(src), addr, src)
PROOF
<1> DEFINE b == Begin(addr)
           l == Len(src)
           e == End(addr, l)
           nb == addr + l - e
<1>1. l \in Nat
  OBVIOUS
<1>2. /\ b \in Nat /\ addr <= b
      /\ e \in Nat /\ b <= e /\ addr + l < e + 4
  BY <1>1, BeginBounds, EndBounds
<1> HIDE DEF b, l, e
<1>3. nb \in Int /\ nb < 4 /\ nb <= l /\ addr + l = e + nb /\ l - nb = e - addr
  BY <1>1, <1>2
<1> HIDE DEF nb
<1>4. CASE nb <= 0
  <2>1. WriteTail(m, addr, src) = m
    BY <1>4 DEF WriteTail, nb, e, l
  <2>2. addr + l <= e /\ addr + l \in Int /\ e \in Int
    BY <1>1, <1>2, <1>3, <1>4
  <2>3. Piece(m, m, e, addr + l, addr, src)
    BY <2>2, NoPiece
  <2> QED  BY <2>1, <2>3 DEF e, l
<1>5. CASE nb > 0
  <2> DEFINE part == SubSeq(src, l - nb + 1, l)
             pad == Pad(4 - nb)
             data == part \o pad
  <2>1. WriteTail(m, addr, src) = Nor!Programmed(m, e, data)
    BY <1>3, <1>5 DEF WriteTail, nb, e, l, spi_flash_write
  <2>2. /\ part \in Seq(Int) /\ Len(part) = nb
        /\ \A k \in 1 .. nb : part[k] = src[l - nb + k]
    BY <1>1, <1>3, <1>5 DEF l
  <2>3. /\ pad \in Seq(Int) /\ Len(pad) = 4 - nb
        /\ \A i \in 1 .. 4 - nb : pad[i] = Nor!Free
    <3>1. 4 - nb \in Nat
      BY <1>3
    <3> QED  BY <3>1, PadType
  <2> HIDE DEF part, pad
  <2>4. /\ Len(data) = Len(part) + Len(pad)
        /\ \A i \in 1 .. Len(part) + Len(pad) :
              data[i] = IF i <= Len(part) THEN part[i] ELSE pad[i - Len(part)]
    BY <2>2, <2>3, ConcatProperties
  <2> HIDE DEF data
  <2>5. Len(data) = 4 /\ \A i \in 1 .. 4 : data[i] = IF i <= nb THEN part[i] ELSE pad[i - nb]
    <3>1. Len(part) + Len(pad) = 4 /\ Len(part) = nb
      BY <1>3, <2>2, <2>3
    <3> QED  BY <2>4, <3>1
  <2>6. ASSUME NEW a \in DOMAIN m
        PROVE  (IF a >= e /\ a < e + Len(data) THEN Nor!And(m[a], data[a - e + 1]) ELSE m[a])
               = (IF a >= e /\ a < addr + l THEN Nor!And(m[a], src[a - addr + 1]) ELSE m[a])
    <3> DEFINE k == a - e + 1
    <3>1. a \in Int
      BY DEF IsMemory
    <3>2. CASE a >= e /\ a < addr + l
      <4>0. k \in Nat /\ k >= 1 /\ k <= nb
        BY <1>2, <1>3, <3>1, <3>2
      <4>1. k \in 1 .. nb /\ k \in 1 .. 4 /\ a < e + Len(data)
        <5>1. a < e + 4
          BY <1>2, <1>3, <3>1, <3>2
        <5> HIDE DEF k
        <5> QED  BY <1>3, <2>5, <4>0, <5>1
      <4>2. l - nb + k = a - addr + 1
        BY <1>2, <1>3, <3>1
      <4>3. data[k] = src[a - addr + 1]
        <5> HIDE DEF k
        <5>1. data[k] = part[k]
          BY <2>5, <4>1
        <5> QED  BY <2>2, <4>1, <4>2, <5>1
      <4> QED  BY <3>2, <4>1, <4>3
    <3>3. CASE a >= addr + l /\ a < e + 4
      <4>0. k > nb /\ k <= 4 /\ k \in Int
        BY <1>1, <1>2, <1>3, <3>1, <3>3
      <4>1. k \in 1 .. 4 /\ k > nb /\ k - nb \in 1 .. 4 - nb
        <5> HIDE DEF k
        <5> QED  BY <1>3, <1>5, <4>0
      <4>2. data[k] = Nor!Free
        <5> HIDE DEF k
        <5>1. data[k] = pad[k - nb]
          BY <1>3, <2>5, <4>1
        <5> QED  BY <2>3, <4>1, <5>1
      <4>3. Nor!And(m[a], data[k]) = m[a]
        BY <4>2, PadProgramsNothing
      <4>4. ~(a < addr + l)
        BY <1>1, <3>1, <3>3
      <4> QED  BY <4>3, <4>4
    <3>4. CASE a < e \/ a >= e + 4
      <4>1. ~(a >= e /\ a < e + Len(data)) /\ ~(a >= e /\ a < addr + l)
        BY <1>1, <1>2, <1>3, <2>5, <3>1, <3>4
      <4> QED  BY <4>1
    <3> QED  BY <1>1, <1>2, <3>1, <3>2, <3>3, <3>4
  <2>7. Piece(m, Nor!Programmed(m, e, data), e, addr + l, addr, src)
    BY <2>6 DEF Piece, Nor!Programmed
  <2> QED  BY <2>1, <2>7 DEF e, l
<1> QED  BY <1>3, <1>4, <1>5

(* my_spi_write changes the flash as an array of bytes would, at any       *)
(* address and from any address, when the buffer holds what it is given.   *)
THEOREM WriteIsProgram ==
    ASSUME NEW m, IsMemory(m), NEW addr \in Nat, NEW src \in Seq(Int), NEW align \in Nat,
           Len(src) <= WriteBuffer
    PROVE  my_spi_write(m, addr, src, align) = Nor!Programmed(m, addr, src)
PROOF
<1> DEFINE b == Begin(addr)
           l == Len(src)
           e == End(addr, l)
           stop == IF addr + l < b THEN addr + l ELSE b
           m1 == WriteHead(m, addr, src)
           m2 == WriteWords(m1, addr, src, align)
           m3 == WriteTail(m2, addr, src)
<1>1. my_spi_write(m, addr, src, align) = m3
  BY DEF my_spi_write
<1>2. Piece(m, m1, addr, stop, addr, src)
  BY HeadPiece
<1>3. IsMemory(m1)
  BY <1>2, PieceIsMemory
<1>4. Piece(m1, m2, b, e, addr, src)
  BY <1>3, WordsPiece
<1>5. IsMemory(m2)
  BY <1>3, <1>4, PieceIsMemory
<1>6. Piece(m2, m3, e, addr + l, addr, src)
  BY <1>5, TailPiece
<1>7. l \in Nat
  OBVIOUS
<1>8. /\ b \in Nat /\ addr <= b /\ e \in Nat /\ b <= e /\ (e = b \/ e <= addr + l)
  BY <1>7, BeginBounds, EndBounds
<1> HIDE DEF b, l, e, m1, m2, m3
<1>9. Piece(m, m3, addr, addr + l, addr, src)
  <2>1. CASE addr + l < b
    <3>1. e <= b /\ addr + l <= e /\ stop = addr + l /\ addr + l \in Int
      BY <1>7, <1>8, <2>1
    <3>2. m2 = m1
      BY <1>3, <1>4, <1>8, <3>1, EmptyPiece
    <3>3. m3 = m2
      BY <1>5, <1>6, <1>8, <3>1, EmptyPiece
    <3> QED  BY <1>2, <3>1, <3>2, <3>3
  <2>2. CASE b <= addr + l
    <3>1. stop = b /\ e <= addr + l /\ addr + l \in Int /\ addr <= e
      BY <1>7, <1>8, <2>2
    <3>2. Piece(m, m2, addr, e, addr, src)
      BY <1>2, <1>4, <1>8, <3>1, PiecesJoin
    <3> QED  BY <1>6, <1>8, <3>1, <3>2, PiecesJoin
  <2> QED  BY <1>7, <1>8, <2>1, <2>2
<1> QED  BY <1>1, <1>9 DEF Piece, Nor!Programmed, l

-----------------------------------------------------------------------------
(* A block is whole pages, and the flash is whole blocks. *)
LEMMA Geometry ==
    /\ PageSize \in Nat /\ PageSize > 5 /\ PageSize % 4 = 0 /\ PageSize <= WriteBuffer
    /\ SectorSize \in Nat /\ SectorSize >= PageSize
    /\ PagesPerBlock \in Nat /\ PagesPerBlock > 0 /\ SectorSize = PagesPerBlock * PageSize
    /\ FlashSize \in Nat /\ FlashSize \div SectorSize \in Nat
    /\ FlashSize = (FlashSize \div SectorSize) * SectorSize
    /\ FlashSize \div PageSize \in Nat /\ FlashSize = (FlashSize \div PageSize) * PageSize
PROOF
<1>1. PageSize \in Nat /\ PageSize > 5 /\ PageSize % 4 = 0 /\ PageSize <= WriteBuffer
  BY CacheAssumption, PlacesAssumption
<1>2. SectorSize \in Nat /\ SectorSize > 0 /\ SectorSize % PageSize = 0
  BY NorAssumption, CacheAssumption
<1>3. FlashSize \in Nat /\ FlashSize > 0 /\ FlashSize % SectorSize = 0
  BY NorAssumption
<1> DEFINE n == SectorSize \div PageSize
           s == FlashSize \div SectorSize
<1>4. n \in Nat /\ SectorSize = n * PageSize
  <2>1. n \in Nat /\ SectorSize = (n * PageSize) + (SectorSize % PageSize)
    BY <1>1, <1>2, DivMod
  <2>2. n * PageSize \in Int
    BY <1>1, <2>1
  <2> HIDE DEF n
  <2> QED  BY <1>2, <2>1, <2>2
<1>5. s \in Nat /\ FlashSize = s * SectorSize
  <2>1. s \in Nat /\ FlashSize = (s * SectorSize) + (FlashSize % SectorSize)
    BY <1>2, <1>3, DivMod
  <2>2. s * SectorSize \in Int
    BY <1>2, <2>1
  <2> HIDE DEF s
  <2> QED  BY <1>3, <2>1, <2>2
<1> HIDE DEF n, s
<1>6. n > 0
  <2>1. CASE n = 0
    BY <1>1, <1>2, <1>4, <2>1
  <2> QED  BY <1>4, <2>1
<1>7. SectorSize >= PageSize
  <2>1. 0 * PageSize + PageSize <= n * PageSize
    BY <1>1, <1>4, <1>6, TimesLess
  <2> QED  BY <1>1, <1>4, <2>1
<1>8. FlashSize = (s * n) * PageSize /\ s * n \in Nat
  BY <1>1, <1>4, <1>5
<1>9. FlashSize \div PageSize = s * n
  <2> DEFINE q == s * n
  <2>1. q \in Nat /\ FlashSize = q * PageSize + 0
    BY <1>1, <1>8
  <2> HIDE DEF q
  <2>2. (q * PageSize + 0) \div PageSize = q
    BY <1>1, <2>1, DivUnique
  <2> QED  BY <2>1, <2>2 DEF q
<1> QED  BY <1>1, <1>2, <1>3, <1>4, <1>5, <1>6, <1>7, <1>8, <1>9 DEF PagesPerBlock, n, s

(* Where the bytes of a page are. *)
LEMMA InPage ==
    ASSUME NEW p \in Page, NEW i \in 0 .. PageSize - 1
    PROVE  /\ p \in Nat /\ p * PageSize \in Nat /\ p * PageSize + i \in 0 .. FlashSize - 1
           /\ PageOf(p * PageSize + i) = p /\ OffsetOf(p * PageSize + i) = i
           /\ (p * PageSize + i) \div SectorSize = p \div PagesPerBlock
           /\ p * PageSize + PageSize <= FlashSize
PROOF
<1> DEFINE n == FlashSize \div PageSize
           q == p \div PagesPerBlock
           r == p % PagesPerBlock
<1>1. p \in Nat /\ i \in Nat /\ i < PageSize /\ n \in Nat /\ p < n /\ FlashSize = n * PageSize
  BY Geometry DEF Page
<1> HIDE DEF n
<1>2. p * PageSize + PageSize <= FlashSize /\ p * PageSize \in Nat
  BY <1>1, TimesLess, Geometry
<1>3. p * PageSize + i \in 0 .. FlashSize - 1
  <2> DEFINE x == p * PageSize
  <2> HIDE DEF x
  <2>1. x \in Nat /\ x + PageSize <= FlashSize
    BY <1>2 DEF x
  <2>2. x + i \in 0 .. FlashSize - 1
    BY <1>1, <2>1, Geometry
  <2> QED  BY <2>2 DEF x
<1>4. PageOf(p * PageSize + i) = p /\ OffsetOf(p * PageSize + i) = i
  BY <1>1, Geometry, DivUnique DEF PageOf, OffsetOf
<1>5. q \in Nat /\ r \in Nat /\ r < PagesPerBlock /\ p = q * PagesPerBlock + r
  BY <1>1, Geometry, DivMod
<1> HIDE DEF q, r
<1>6. r * PageSize + i \in Nat /\ r * PageSize + i < SectorSize
  <2>1. r * PageSize + PageSize <= SectorSize /\ r * PageSize \in Nat
    BY <1>5, TimesLess, Geometry
  <2> DEFINE x == r * PageSize
  <2> HIDE DEF x
  <2>2. x + i \in Nat /\ x + i < SectorSize
    BY <1>1, <2>1, Geometry DEF x
  <2> QED  BY <2>2 DEF x
<1>7. p * PageSize + i = q * SectorSize + (r * PageSize + i)
  <2>1. p * PageSize = q * SectorSize + r * PageSize
    BY <1>5, TimesTimes, Geometry
  <2>2. q * SectorSize \in Nat /\ r * PageSize \in Nat
    BY <1>5, Geometry
  <2> QED  BY <1>1, <2>1, <2>2
<1>8. (p * PageSize + i) \div SectorSize = q
  <2> DEFINE y == r * PageSize + i
  <2>1. y \in Nat /\ y < SectorSize /\ p * PageSize + i = q * SectorSize + y
    BY <1>6, <1>7
  <2> HIDE DEF y
  <2>2. (q * SectorSize + y) \div SectorSize = q
    BY <1>5, <2>1, DivUnique, Geometry
  <2> QED  BY <2>1, <2>2
<1> QED  BY <1>1, <1>2, <1>3, <1>4, <1>8 DEF q

(* A read of whole words is a read of the flash. *)
LEMMA AlignedRead ==
    ASSUME NEW m, NEW addr \in Nat, NEW size \in Nat, addr % 4 = 0, size % 4 = 0
    PROVE  my_spi_read(m, addr, size) = spi_flash_read(m, addr, size)
PROOF
<1>1. Begin(addr) = addr
  BY DEF Begin, AlignedUp
<1>2. End(addr, size) = addr + size
  <2>1. AlignedDown(addr + size) = addr + size
    BY DEF AlignedDown
  <2> QED  BY <1>1, <2>1 DEF End
<1> DEFINE read == spi_flash_read(m, addr, size)
<1>3. my_spi_read(m, addr, size) = SubSeq(<<>> \o read \o <<>>, 1, size)
  <2>1. addr + size - addr = size /\ ~(addr < addr) /\ ~(addr + size > addr + size)
    OBVIOUS
  <2> QED  BY <1>1, <1>2, <2>1 DEF my_spi_read
<1> DEFINE Stored == {m[addr + i - 1] : i \in 1 .. size}
<1>4. read \in Seq(Stored) /\ Len(read) = size
  <2>1. read = [i \in 1 .. size |-> m[addr + i - 1]]
    BY DEF spi_flash_read
  <2>2. \A i \in 1 .. size : m[addr + i - 1] \in Stored
    OBVIOUS
  <2> HIDE DEF read, Stored
  <2> QED  BY <2>1, <2>2
<1> HIDE DEF read, Stored
<1>5. <<>> \o read \o <<>> = read
  BY <1>4
<1>6. SubSeq(read, 1, size) = read
  BY <1>4
<1> QED  BY <1>3, <1>5, <1>6 DEF read

-----------------------------------------------------------------------------
(* The flash, an array of bytes. *)
FlashBytes == [0 .. FlashSize - 1 -> Int]

LEMMA BytesAreMemory == ASSUME NEW m \in FlashBytes PROVE IsMemory(m)
PROOF
  BY DEF FlashBytes, IsMemory

LEMMA ProgrammedBytes ==
    ASSUME NEW m \in FlashBytes, NEW addr \in Nat, NEW src \in Seq(Int)
    PROVE  Nor!Programmed(m, addr, src) \in FlashBytes
PROOF
<1>1. ASSUME NEW a \in 0 .. FlashSize - 1
      PROVE  (IF a >= addr /\ a < addr + Len(src) THEN Nor!And(m[a], src[a - addr + 1])
              ELSE m[a]) \in Int
  <2>1. m[a] \in Int
    BY DEF FlashBytes
  <2>2. CASE a >= addr /\ a < addr + Len(src)
    <3>1. a - addr + 1 \in 1 .. Len(src)
      BY <2>2
    <3>2. src[a - addr + 1] \in Int
      BY <3>1
    <3>3. Nor!And(m[a], src[a - addr + 1]) \in Int
      BY <2>1, <3>2 DEF Nor!And, Nor!Garbage, Nor!Free
    <3> QED  BY <2>2, <3>3
  <2> QED  BY <2>1, <2>2
<1> QED  BY <1>1 DEF FlashBytes, Nor!Programmed

LEMMA ErasedBytes ==
    ASSUME NEW m \in FlashBytes, NEW b PROVE Nor!Erased(m, b) \in FlashBytes
PROOF
  BY DEF FlashBytes, Nor!Erased, Nor!Free

(* What my_spi_erase does to one block. *)
LEMMA EraseOne ==
    ASSUME NEW m, NEW b \in Nat
    PROVE  my_spi_erase(m, b * SectorSize, SectorSize) = Nor!Erased(m, b)
PROOF
<1>1. SectorSize \in Nat /\ SectorSize > 0
  BY NorAssumption
<1>2. (b * SectorSize) \div SectorSize = b
  <2>1. (b * SectorSize + 0) \div SectorSize = b
    BY <1>1, DivUnique
  <2>2. b * SectorSize + 0 = b * SectorSize
    BY <1>1
  <2> QED  BY <2>1, <2>2
<1>3. SectorSize \div SectorSize = 1
  BY <1>1, DivOne
<1>4. [i \in 1 .. SectorSize \div SectorSize |-> (b * SectorSize) \div SectorSize + i - 1] = <<b>>
  <2>1. \A i \in 1 .. 1 : b + i - 1 = b
    OBVIOUS
  <2> QED  BY <1>2, <1>3, <2>1
<1> QED  BY <1>4, OneSector DEF my_spi_erase

LEMMA WriteIsNor ==
    ASSUME flash \in FlashBytes, NEW p \in Page, NEW place \in Places, NEW align \in Aligns,
           spiffs_phys_wr(p, place, align)
    PROVE  /\ flash' = Nor!Programmed(flash, p * PageSize + place.off, place.src)
           /\ flash' \in FlashBytes /\ Nor!Program
PROOF
<1> DEFINE addr == p * PageSize + place.off
<1>1. /\ place.src \in Sources /\ place.src \in Seq(Int) /\ Len(place.src) <= WriteBuffer
      /\ place.off \in 0 .. PageSize - 1
  <2>1. /\ place.src \in Sources /\ place.src \in Seq(Int) /\ place.off \in 0 .. PageSize - 1
        /\ place.off + Len(place.src) <= PageSize
    BY PlacesAssumption
  <2> DEFINE l == Len(place.src)
  <2>2. l \in Nat /\ place.off + l <= PageSize
    BY <2>1
  <2>3. place.off \in Nat /\ PageSize \in Nat /\ PageSize <= WriteBuffer /\ WriteBuffer \in Nat
    BY <2>1, Geometry, BufferAssumption
  <2> HIDE DEF l
  <2>4. l <= WriteBuffer
    BY <2>2, <2>3
  <2> QED  BY <2>1, <2>4 DEF l
<1>2. addr \in 0 .. FlashSize - 1 /\ addr \in Nat
  BY <1>1, InPage
<1>3. align \in Nat
  BY CacheAssumption
<1>4. flash' = my_spi_write(flash, addr, place.src, align)
  BY DEF spiffs_phys_wr
<1> HIDE DEF addr
<1>5. flash' = Nor!Programmed(flash, addr, place.src)
  BY <1>1, <1>2, <1>3, <1>4, WriteIsProgram, BytesAreMemory
<1>6. flash' \in FlashBytes
  BY <1>1, <1>2, <1>5, ProgrammedBytes
<1>7. Nor!Changed \subseteq addr .. addr + Len(place.src) - 1
  <2>1. ASSUME NEW a \in DOMAIN flash, flash'[a] # flash[a]
        PROVE  a \in addr .. addr + Len(place.src) - 1
    <3>1. a \in Int
      BY DEF FlashBytes
    <3>2. a >= addr /\ a < addr + Len(place.src)
      BY <1>5, <2>1 DEF Nor!Programmed
    <3>3. Len(place.src) \in Nat
      BY <1>1
    <3> QED  BY <1>2, <3>1, <3>2, <3>3
  <2> QED  BY <2>1 DEF Nor!Changed
<1>8. addr \in DOMAIN flash
  BY <1>2 DEF FlashBytes
<1>9. Nor!Program
  BY <1>1, <1>5, <1>7, <1>8 DEF Nor!Program
<1> QED  BY <1>5, <1>6, <1>9 DEF addr

LEMMA EraseIsNor ==
    ASSUME flash \in FlashBytes, NEW b \in 0 .. FlashSize \div SectorSize - 1,
           NEW count \in EraseCounts, EraseBlock(b, count)
    PROVE  /\ flash' = Nor!Programmed(Nor!Erased(flash, b), EraseCountAddr(b), count)
           /\ flash' \in FlashBytes /\ Nor!Erase
           /\ \A i \in {0, 1} : /\ EraseCountAddr(b) + i \in 0 .. FlashSize - 1
                                /\ (EraseCountAddr(b) + i) \div SectorSize = b
PROOF
<1> DEFINE addr == EraseCountAddr(b)
           erased == Nor!Erased(flash, b)
           s == FlashSize \div SectorSize
<1>1. /\ b \in Nat /\ b < s /\ s \in Nat /\ FlashSize = s * SectorSize
      /\ SectorSize \in Nat /\ PageSize \in Nat /\ PageSize > 5 /\ PageSize <= SectorSize
      /\ WriteBuffer \in Nat /\ PageSize <= WriteBuffer
  BY Geometry, BufferAssumption
<1>2. count \in Sources /\ count \in Seq(Int) /\ Len(count) = 2
  BY PlacesAssumption DEF EraseCounts
<1> HIDE DEF s
<1>3. \A i \in {0, 1} : /\ addr + i \in 0 .. FlashSize - 1
                        /\ (addr + i) \div SectorSize = b
  <2> TAKE i \in {0, 1}
  <2> DEFINE r == PageSize - 2 + i
             x == b * SectorSize
  <2>1. r \in Nat /\ r < SectorSize
    BY <1>1
  <2>2. x \in Nat /\ x + SectorSize <= FlashSize
    BY <1>1, TimesLess
  <2>3. (b * SectorSize + r) \div SectorSize = b
    <3> HIDE DEF r
    <3> QED  BY <1>1, <2>1, DivUnique
  <2>4. addr + i = x + r
    <3>1. addr = x + PageSize - 2
      BY DEF EraseCountAddr
    <3> HIDE DEF x, addr
    <3> QED  BY <1>1, <2>2, <3>1
  <2>5. x + r \in 0 .. FlashSize - 1
    <3> HIDE DEF x, r
    <3> QED  BY <1>1, <2>1, <2>2
  <2> QED  BY <2>3, <2>4, <2>5
<1>4. addr \in Nat /\ addr \in 0 .. FlashSize - 1 /\ addr \div SectorSize = b
  <2>1. addr \in Int
    BY <1>1 DEF EraseCountAddr
  <2>2. addr + 0 = addr
    BY <2>1
  <2> QED  BY <1>3, <2>2
<1>5. erased \in FlashBytes
  BY ErasedBytes
<1>6. flash' = my_spi_write(erased, addr, count, 0)
  BY <1>1, EraseOne DEF EraseBlock
<1> HIDE DEF addr, erased
<1>7. flash' = Nor!Programmed(erased, addr, count)
  <2>1. Len(count) <= WriteBuffer /\ 0 \in Nat /\ IsMemory(erased)
    BY <1>1, <1>2, <1>5, BytesAreMemory
  <2> QED  BY <1>2, <1>4, <1>6, <2>1, WriteIsProgram
<1>8. flash' \in FlashBytes
  BY <1>2, <1>4, <1>5, <1>7, ProgrammedBytes
<1>9. ASSUME NEW i \in 1 .. Len(count)
      PROVE  flash'[addr + i - 1] = Nor!And(erased[addr + i - 1], count[i])
  <2>1. i \in {1, 2} /\ i - 1 \in {0, 1}
    BY <1>2
  <2> DEFINE a == addr + i - 1
  <2>2. a \in DOMAIN erased /\ a >= addr /\ a < addr + Len(count) /\ a - addr + 1 = i
    <3>1. a = addr + (i - 1)
      BY <1>4, <2>1
    <3>2. addr + (i - 1) \in 0 .. FlashSize - 1
      BY <1>3, <2>1 
    <3>3. a >= addr /\ a < addr + Len(count) /\ a - addr + 1 = i
      BY <1>2, <1>4, <2>1
    <3> QED  BY <1>5, <3>1, <3>2, <3>3 DEF FlashBytes
  <2> HIDE DEF a
  <2>3. flash'[a] = Nor!And(erased[a], count[i])
    BY <1>7, <2>2 DEF Nor!Programmed
  <2> QED  BY <2>3 DEF a
<1>10. Nor!Erase
  <2>1. addr \in DOMAIN flash
    BY <1>4 DEF FlashBytes
  <2> QED  BY <1>1, <1>2, <1>4, <1>7, <1>9, <2>1 DEF Nor!Erase, erased, s
<1> QED  BY <1>3, <1>7, <1>8, <1>10 DEF addr, erased

-----------------------------------------------------------------------------
(* A read of the SDK within a page, out of a read of the page.             *)
LEMMA FromPage ==
    ASSUME NEW m, NEW p \in Page, NEW off \in 0 .. PageSize - 1
    PROVE  SubSeq(spi_flash_read(m, p * PageSize, PageSize), off + 1, PageSize)
               = spi_flash_read(m, p * PageSize + off, PageSize - off)
PROOF
<1> DEFINE at == p * PageSize
           Stored == {m[at + i - 1] : i \in 1 .. PageSize}
           page == [i \in 1 .. PageSize |-> m[at + i - 1]]
           len == PageSize - off
           from == [i \in 1 .. len |-> m[at + off + i - 1]]
<1>1. at \in Nat /\ PageSize \in Nat /\ len \in Nat /\ off \in Nat /\ off + 1 \in 1 .. PageSize
  BY InPage, Geometry
<1>2. page \in Seq(Stored) /\ Len(page) = PageSize
  <2>1. \A i \in 1 .. PageSize : m[at + i - 1] \in Stored
    OBVIOUS
  <2> HIDE DEF Stored, at
  <2> QED  BY <1>1, <2>1
<1>3. ASSUME NEW i \in 1 .. len
      PROVE  /\ i \in Int /\ off + 1 + i - 1 \in 1 .. PageSize
             /\ at + (off + 1 + i - 1) - 1 = at + off + i - 1
  BY <1>1
<1>4. \A i \in 1 .. len : page[off + 1 + i - 1] = from[i]
  <2> HIDE DEF at, len
  <2> QED  BY <1>3
<1>5. Len(from) = len /\ from = [i \in 1 .. len |-> from[i]]
  <2> HIDE DEF at, len
  <2> QED  BY <1>1
<1>6. SubSeq(page, off + 1, PageSize) = [i \in 1 .. len |-> page[off + 1 + i - 1]]
  <2>1. PageSize - (off + 1) + 1 = len
    BY <1>1
  <2> HIDE DEF page, len
  <2> QED  BY <1>1, <1>2, <2>1
<1> HIDE DEF page, from, at, len
<1>7. [i \in 1 .. len |-> page[off + 1 + i - 1]] = from
  BY <1>4, <1>5
<1> QED  BY <1>6, <1>7 DEF spi_flash_read, page, from, at, len

PageBytes(m, p) == spi_flash_read(m, p * PageSize, PageSize)

LEMMA ReadPage ==
    ASSUME NEW m, NEW p \in Page
    PROVE  my_spi_read(m, p * PageSize, PageSize) = PageBytes(m, p)
PROOF
<1> DEFINE k == PageSize \div 4
           q == p * k
<1>1. k \in Nat /\ PageSize = k * 4 /\ p \in Nat /\ p * PageSize \in Nat
  <2>1. PageSize = k * 4 /\ k \in Nat
    BY Geometry
  <2> QED  BY <2>1, InPage, Geometry
<1>2. q \in Nat
  <2> HIDE DEF k
  <2> QED  BY <1>1
<1>3. p * PageSize = q * 4
  <2> HIDE DEF k
  <2> QED  BY <1>1
<1>4. (q * 4) % 4 = 0
  <2> HIDE DEF q
  <2> QED  BY <1>2
<1>5. (p * PageSize) % 4 = 0 /\ PageSize % 4 = 0 /\ p * PageSize \in Nat /\ PageSize \in Nat
  BY <1>1, <1>3, <1>4, Geometry
<1> DEFINE at == p * PageSize
<1> HIDE DEF at, k, q
<1>6. my_spi_read(m, at, PageSize) = spi_flash_read(m, at, PageSize)
  BY <1>5, AlignedRead DEF at
<1> QED  BY <1>6 DEF PageBytes, at

(* Two arrays that agree on the bytes of a page have the same page. *)
LEMMA SamePage ==
    ASSUME NEW m, NEW n, NEW p \in Page,
           \A i \in 0 .. PageSize - 1 : m[p * PageSize + i] = n[p * PageSize + i]
    PROVE  PageBytes(m, p) = PageBytes(n, p)
PROOF
<1> DEFINE at == p * PageSize
<1>1. ASSUME NEW i \in 1 .. PageSize PROVE m[at + i - 1] = n[at + i - 1]
  <2>1. i - 1 \in 0 .. PageSize - 1 /\ at \in Nat
    BY InPage, Geometry
  <2>2. at + i - 1 = at + (i - 1)
    <3> HIDE DEF at
    <3> QED  BY <2>1
  <2> QED  BY <2>1, <2>2
<1> HIDE DEF at
<1> QED  BY <1>1 DEF PageBytes, spi_flash_read, at

-----------------------------------------------------------------------------
(* What is cached: pages as the flash has them, each once, and one write   *)
(* for an object that has one, of those that have been accessed.           *)
Cached(page) == page.used /\ ~page.wr

Coherent(m, cps) ==
    \A c \in Cpix : Cached(cps[c]) => /\ cps[c].pix \in Page
                                      /\ cps[c].mem = PageBytes(m, cps[c].pix)
CachedOnce(cps) ==
    \A c, d \in Cpix : Cached(cps[c]) /\ Cached(cps[d]) /\ cps[c].pix = cps[d].pix => c = d
WritesHeld(cps, objects) == \A c \in Cpix : cps[c].wr => cps[c].used /\ cps[c].id \in objects
HeldOnce(cps) == \A c, d \in Cpix : cps[c].wr /\ cps[d].wr /\ cps[c].id = cps[d].id => c = d
AccessedBy(cps, now) == \A c \in Cpix : cps[c].access \in Nat /\ cps[c].access <= now

Cache(m, cps, objects, now) ==
    /\ ArePages(cps) /\ Coherent(m, cps) /\ CachedOnce(cps)
    /\ WritesHeld(cps, objects) /\ HeldOnce(cps) /\ AccessedBy(cps, now)

CacheInv == /\ flash \in FlashBytes /\ last_access \in Nat /\ pending \subseteq Objects
        /\ Cache(flash, cpages, pending, last_access)

(* There are more pages than cached writes. *)
LEMMA SomeCached ==
    ASSUME NEW cps, WritesHeld(cps, Objects), HeldOnce(cps)
    PROVE  \E c \in Cpix : ~cps[c].wr
PROOF
<1> SUFFICES ASSUME \A c \in Cpix : cps[c].wr PROVE FALSE
  OBVIOUS
<1> DEFINE f == [c \in Cpix |-> cps[c].id]
<1>1. f \in [Cpix -> Objects]
  BY DEF WritesHeld
<1>2. Cardinality(Cpix) = CachePages
  <2>1. Cardinality(1 .. CachePages) = IF 1 > CachePages THEN 0 ELSE CachePages - 1 + 1
    BY FS_Interval, CacheAssumption
  <2> QED  BY <2>1, CacheAssumption DEF Cpix
<1>3. IsFiniteSet(Cpix) /\ IsFiniteSet(Objects) /\ Cardinality(Objects) < Cardinality(Cpix)
  <2>1. IsFiniteSet(1 .. CachePages)
    BY FS_Interval, CacheAssumption
  <2>2. Cardinality(Objects) \in Nat
    BY FS_CardinalityType, CacheAssumption
  <2> QED  BY <1>2, <2>1, <2>2, CacheAssumption DEF Cpix
<1>4. \E c \in Cpix, d \in Cpix : c # d /\ f[c] = f[d]
  <2> HIDE DEF f
  <2>1. \E c, d \in Cpix : c # d /\ f[c] = f[d]
    BY <1>1, <1>3, FS_PigeonHole, Zenon
  <2> QED  BY <2>1
<1> QED  BY <1>4 DEF HeldOnce

(* So a page can always be read into the cache. *)
LEMMA Room ==
    ASSUME NEW cps, NEW last \in Nat, NEW now, now = last + 1, ArePages(cps),
           WritesHeld(cps, Objects), HeldOnce(cps), AccessedBy(cps, last)
    PROVE  Allocated(RemoveOldest(cps, now)) # 0
PROOF
<1> DEFINE age(c) == now - cps[c].access
           cands == {c \in Cpix : Evictable(cps, c) /\ age(c) > 0}
           olds == {c \in cands : \A d \in cands : age(d) <= age(c)}
           oldest == First(olds)
           after == RemoveOldest(cps, now)
<1>1. /\ (\E c \in Cpix : ~cps[c].used) => after = cps
      /\ ~(\E c \in Cpix : ~cps[c].used) /\ oldest # 0 => after = PageFree(cps, oldest)
  BY DEF RemoveOldest
<1>2. olds # {}
  <2>1. PICK c \in Cpix : ~cps[c].wr
    BY SomeCached
  <2>2. \A d \in Cpix : age(d) \in Nat /\ age(d) > 0
    BY DEF AccessedBy
  <2> DEFINE S == {cps[d].access : d \in cands}
             Less == {ss \in Nat \X Nat : ss[1] < ss[2]}
  <2>3. c \in cands
    BY <2>1, <2>2 DEF Evictable
  <2>4. S \subseteq Nat /\ S # {}
    BY <2>3 DEF AccessedBy
  <2>5. IsWellFoundedOn(Less, Nat)
    BY NatLessThanWellFounded, Zenon DEF OpToRel
  <2>6. PICK a \in S : \A x \in S : ~(<<x, a>> \in Less)
    <3> HIDE DEF Less, S
    <3> QED  BY <2>4, <2>5, WFMin, Zenon
  <2>7. PICK d \in cands : a = cps[d].access
    OBVIOUS
  <2>8. ASSUME NEW e \in cands PROVE age(e) <= age(d)
    <3>1. cps[e].access \in S /\ cps[e].access \in Nat /\ cps[d].access \in Nat
      BY <2>4
    <3>2. ~(cps[e].access < cps[d].access)
      <4> HIDE DEF S
      <4> QED  BY <2>6, <2>7, <3>1
    <3> QED  BY <3>1, <3>2
  <2>9. d \in olds
    <3> HIDE DEF cands, age
    <3> QED  BY <2>8
  <2> QED  BY <2>9
<1>3. oldest # 0 /\ oldest \in Cpix
  <2>1. olds \in SUBSET Cpix
    OBVIOUS
  <2> HIDE DEF olds
  <2>2. oldest \in olds /\ oldest # 0
    BY <1>2, <2>1, FirstIsFound
  <2> QED  BY <2>1, <2>2
<1> HIDE DEF oldest, after
<1>4. \E c \in Cpix : ~after[c].used
  <2>1. CASE \E c \in Cpix : ~cps[c].used
    BY <1>1, <2>1
  <2>2. CASE ~\E c \in Cpix : ~cps[c].used
    <3>1. after = PageFree(cps, oldest)
      BY <1>1, <1>3, <2>2
    <3>2. ~after[oldest].used
      BY <1>3, <3>1 DEF PageFree, ArePages, Fields
    <3> QED  BY <1>3, <3>2
  <2> QED  BY <2>1, <2>2
<1>5. {c \in Cpix : ~after[c].used} \in SUBSET Cpix /\ {c \in Cpix : ~after[c].used} # {}
  BY <1>4
<1>6. Allocated(after) # 0
  BY <1>5, FirstIsFound DEF Allocated
<1> QED  BY <1>6 DEF after

LEMMA PageGetCases ==
    ASSUME NEW cps, NEW p
    PROVE  LET c == PageGet(cps, p)
           IN  /\ c # 0 => c \in Cpix /\ Cached(cps[c]) /\ cps[c].pix = p
               /\ c = 0 => \A d \in Cpix : ~(Cached(cps[d]) /\ cps[d].pix = p)
PROOF
<1> DEFINE S == {c \in Cpix : cps[c].used /\ ~cps[c].wr /\ cps[c].pix = p}
<1>1. S \in SUBSET Cpix /\ PageGet(cps, p) = First(S)
  BY DEF PageGet
<1>2. First(S) # 0 => First(S) \in S
  <2> HIDE DEF S
  <2> QED  BY <1>1, FirstIsFound
<1>3. First(S) = 0 => S = {}
  <2> HIDE DEF S
  <2> QED  BY <1>1, FirstIsFound
<1> QED  BY <1>1, <1>2, <1>3 DEF Cached

LEMMA PageGetOnce ==
    ASSUME NEW cps, CachedOnce(cps), NEW c \in Cpix, Cached(cps[c])
    PROVE  PageGet(cps, cps[c].pix) = c
PROOF
<1>1. PageGet(cps, cps[c].pix) # 0
  BY PageGetCases
<1> QED  BY <1>1, PageGetCases DEF CachedOnce

LEMMA FreeCache ==
    ASSUME NEW m, NEW cps, NEW objects, NEW now, Cache(m, cps, objects, now),
           NEW c \in Cpix, ~cps[c].wr
    PROVE  /\ Cache(m, PageFree(cps, c), objects, now)
           /\ ~Cached(PageFree(cps, c)[c]) /\ ~PageFree(cps, c)[c].wr
           /\ PageFree(cps, c)[c].access = cps[c].access
PROOF
<1> DEFINE new == PageFree(cps, c)
<1>1. ArePages(cps)
  BY DEF Cache
<1>2. ArePages(new) /\ \A d \in Cpix \ {c} : new[d] = cps[d]
  BY <1>1, FreeKeeps
<1>3. ~new[c].used /\ ~new[c].wr /\ new[c].access = cps[c].access
  BY <1>1 DEF PageFree, ArePages, Fields
<1> HIDE DEF new
<1>4. Coherent(m, new) /\ CachedOnce(new)
  BY <1>2, <1>3 DEF Cache, Coherent, CachedOnce, Cached
<1>5. WritesHeld(new, objects) /\ HeldOnce(new)
  BY <1>2, <1>3 DEF Cache, WritesHeld, HeldOnce
<1>6. AccessedBy(new, now)
  BY <1>2, <1>3 DEF Cache, AccessedBy
<1> QED  BY <1>2, <1>3, <1>4, <1>5, <1>6 DEF new, Cache, Cached

LEMMA RemoveCache ==
    ASSUME NEW m, NEW cps, NEW objects, NEW now, Cache(m, cps, objects, now), NEW when
    PROVE  LET room == RemoveOldest(cps, when)
           IN  /\ Cache(m, room, objects, now)
               /\ \A c \in Cpix : Cached(room[c]) => room[c] = cps[c]
PROOF
<1> DEFINE room == RemoveOldest(cps, when)
<1>1. CASE room = cps
  BY <1>1
<1>2. ASSUME NEW c \in Cpix, ~cps[c].wr, room = PageFree(cps, c)
      PROVE  Cache(m, room, objects, now) /\ \A d \in Cpix : Cached(room[d]) => room[d] = cps[d]
  <2>1. Cache(m, room, objects, now) /\ ~Cached(room[c])
    BY <1>2, FreeCache
  <2>2. \A d \in Cpix \ {c} : room[d] = cps[d]
    BY <1>2, FreeKeeps DEF Cache
  <2> HIDE DEF room
  <2> QED  BY <2>1, <2>2
<1> QED  BY <1>1, <1>2, RemoveCases

LEMMA LaterCache ==
    ASSUME NEW m, NEW cps, NEW objects, NEW now \in Nat, Cache(m, cps, objects, now),
           NEW later \in Nat, now <= later
    PROVE  Cache(m, cps, objects, later)
PROOF
<1>1. AccessedBy(cps, later)
  BY DEF Cache, AccessedBy
<1> QED  BY <1>1 DEF Cache

(* A page of the flash is read into the cache. *)
LEMMA FillCache ==
    ASSUME NEW m, NEW cps, NEW objects, NEW now \in Nat, Cache(m, cps, objects, now),
           NEW c \in Cpix, ~cps[c].used, NEW p \in Page,
           \A d \in Cpix : ~(Cached(cps[d]) /\ cps[d].pix = p),
           NEW page, DOMAIN page = Fields, Cached(page), page.pix = p,
           page.mem = PageBytes(m, p), page.access = now
    PROVE  Cache(m, [cps EXCEPT ![c] = page], objects, now)
PROOF
<1> DEFINE new == [cps EXCEPT ![c] = page]
<1>1. ArePages(cps) /\ ArePages(new)
  BY FillKeeps DEF Cache
<1>2. new[c] = page /\ \A d \in Cpix \ {c} : new[d] = cps[d]
  BY <1>1 DEF ArePages
<1> HIDE DEF new
<1>3. Coherent(m, new)
  BY <1>2 DEF Cache, Coherent
<1>4. CachedOnce(new)
  <2> SUFFICES ASSUME NEW d \in Cpix, NEW e \in Cpix, Cached(new[d]), Cached(new[e]),
                      new[d].pix = new[e].pix
               PROVE  d = e
    BY DEF CachedOnce
  <2>1. CASE d = c \/ e = c
    BY <1>2, <2>1
  <2>2. CASE d # c /\ e # c
    BY <1>2, <2>2 DEF Cache, CachedOnce
  <2> QED  BY <2>1, <2>2
<1>5. WritesHeld(new, objects)
  BY <1>2 DEF Cache, WritesHeld, Cached
<1>6. HeldOnce(new)
  BY <1>2 DEF Cache, HeldOnce, Cached
<1>7. AccessedBy(new, now)
  BY <1>2 DEF Cache, AccessedBy
<1> QED  BY <1>1, <1>3, <1>4, <1>5, <1>6, <1>7 DEF new, Cache

(* A descriptor takes a page for what it writes. *)
LEMMA HoldCache ==
    ASSUME NEW m, NEW cps, NEW objects, NEW now \in Nat, Cache(m, cps, objects, now),
           NEW c \in Cpix, ~cps[c].used, NEW id, id \notin objects,
           NEW page, DOMAIN page = Fields, page.used, page.wr, page.id = id, page.access = now
    PROVE  Cache(m, [cps EXCEPT ![c] = page], objects \cup {id}, now)
PROOF
<1> DEFINE new == [cps EXCEPT ![c] = page]
<1>1. ArePages(cps) /\ ArePages(new)
  BY FillKeeps DEF Cache
<1>2. new[c] = page /\ \A d \in Cpix \ {c} : new[d] = cps[d]
  BY <1>1 DEF ArePages
<1> HIDE DEF new
<1>3. Coherent(m, new)
  BY <1>2 DEF Cache, Coherent, Cached
<1>4. CachedOnce(new)
  BY <1>2 DEF Cache, CachedOnce, Cached
<1>5. WritesHeld(new, objects \cup {id})
  BY <1>2 DEF Cache, WritesHeld
<1>6. HeldOnce(new)
  BY <1>2 DEF Cache, HeldOnce, WritesHeld
<1>7. AccessedBy(new, now)
  BY <1>2 DEF Cache, AccessedBy
<1> QED  BY <1>1, <1>3, <1>4, <1>5, <1>6, <1>7 DEF new, Cache

(* A cached page is used, and may change with the flash. *)
LEMMA TouchCache ==
    ASSUME NEW m, NEW n, NEW cps, NEW objects, NEW now \in Nat, Cache(m, cps, objects, now),
           NEW c \in Cpix, Cached(cps[c]),
           NEW page, page = [cps[c] EXCEPT !.mem = PageBytes(n, cps[c].pix), !.access = now],
           \A p \in Page \ {cps[c].pix} : PageBytes(n, p) = PageBytes(m, p)
    PROVE  Cache(n, [cps EXCEPT ![c] = page], objects, now)
PROOF
<1> DEFINE new == [cps EXCEPT ![c] = page]
<1>1. ArePages(cps)
  BY DEF Cache
<1>2. /\ DOMAIN page = Fields /\ Cached(page) /\ ~page.wr
      /\ page.pix = cps[c].pix /\ page.mem = PageBytes(n, cps[c].pix) /\ page.access = now
  BY <1>1 DEF ArePages, Fields, Cached
<1>3. new[c] = page /\ \A d \in Cpix \ {c} : new[d] = cps[d]
  BY <1>1 DEF ArePages
<1>4. ArePages(new)
  BY <1>1, <1>2 DEF ArePages
<1> HIDE DEF new
<1>5. Coherent(n, new)
  <2> SUFFICES ASSUME NEW d \in Cpix, Cached(new[d])
               PROVE  new[d].pix \in Page /\ new[d].mem = PageBytes(n, new[d].pix)
    BY DEF Coherent
  <2>1. CASE d = c
    BY <1>2, <1>3, <2>1 DEF Cache, Coherent
  <2>2. CASE d # c
    <3>1. new[d] = cps[d] /\ cps[d].pix # cps[c].pix
      BY <1>3, <2>2 DEF Cache, CachedOnce
    <3> QED  BY <3>1 DEF Cache, Coherent
  <2> QED  BY <2>1, <2>2
<1>6. CachedOnce(new)
  <2> SUFFICES ASSUME NEW d \in Cpix, NEW e \in Cpix, Cached(new[d]), Cached(new[e]),
                      new[d].pix = new[e].pix
               PROVE  d = e
    BY DEF CachedOnce
  <2>1. Cached(cps[d]) /\ Cached(cps[e]) /\ cps[d].pix = cps[e].pix
    BY <1>2, <1>3
  <2> QED  BY <2>1 DEF Cache, CachedOnce
<1>7. WritesHeld(new, objects)
  BY <1>2, <1>3 DEF Cache, WritesHeld
<1>8. HeldOnce(new)
  BY <1>2, <1>3 DEF Cache, HeldOnce
<1>9. AccessedBy(new, now)
  <2> SUFFICES ASSUME NEW d \in Cpix PROVE new[d].access \in Nat /\ new[d].access <= now
    BY DEF AccessedBy
  <2>1. CASE d = c
    <3>1. new[d].access = now
      BY <1>2, <1>3, <2>1
    <3> QED  BY <3>1
  <2>2. CASE d # c
    <3>1. new[d] = cps[d]
      BY <1>3, <2>2
    <3> QED  BY <3>1 DEF Cache, AccessedBy
  <2> QED  BY <2>1, <2>2
<1> QED  BY <1>4, <1>5, <1>6, <1>7, <1>8, <1>9 DEF new, Cache

(* The flash changes where nothing is cached. *)
LEMMA ElsewhereCache ==
    ASSUME NEW m, NEW n, NEW cps, NEW objects, NEW now, Cache(m, cps, objects, now),
           \A c \in Cpix : Cached(cps[c]) => PageBytes(n, cps[c].pix) = PageBytes(m, cps[c].pix)
    PROVE  Cache(n, cps, objects, now)
PROOF
  BY DEF Cache, Coherent

-----------------------------------------------------------------------------
(* What a write and an erasure leave alone, and what they leave.           *)
LEMMA WriteElsewhere ==
    ASSUME NEW m \in FlashBytes, NEW p \in Page, NEW off \in 0 .. PageSize - 1,
           NEW src \in Seq(Int), off + Len(src) <= PageSize, NEW q \in Page, q # p
    PROVE  PageBytes(Nor!Programmed(m, p * PageSize + off, src), q) = PageBytes(m, q)
PROOF
<1> DEFINE at == p * PageSize
           n == Nor!Programmed(m, at + off, src)
<1>1. ASSUME NEW i \in 0 .. PageSize - 1
      PROVE  n[q * PageSize + i] = m[q * PageSize + i]
  <2> DEFINE a == q * PageSize + i
  <2>1. a \in 0 .. FlashSize - 1 /\ PageOf(a) = q /\ a \in DOMAIN m
    BY InPage DEF FlashBytes
  <2>2. at \in Nat /\ off \in Nat /\ Len(src) \in Nat /\ PageSize \in Nat
    BY InPage, Geometry
  <2> HIDE DEF a
  <2>3. ~(a >= at + off /\ a < at + off + Len(src))
    <3> SUFFICES ASSUME a >= at + off, a < at + off + Len(src) PROVE FALSE
      OBVIOUS
    <3> DEFINE j == a - at
    <3>1. j \in 0 .. PageSize - 1 /\ a = at + j
      <4> HIDE DEF at
      <4> QED  BY <2>1, <2>2
    <3> HIDE DEF j
    <3>2. PageOf(p * PageSize + j) = p
      BY <3>1, InPage
    <3> QED  BY <2>1, <3>1, <3>2
  <2>4. n[a] = m[a]
    BY <2>1, <2>3 DEF Nor!Programmed
  <2> QED  BY <2>4 DEF a
<1> HIDE DEF n
<1> QED  BY <1>1, SamePage DEF n

LEMMA WriteHere ==
    ASSUME flash \in FlashBytes, NEW p \in Page, NEW off \in 0 .. PageSize - 1,
           NEW src \in Seq(Int), off + Len(src) <= PageSize, Writable(p * PageSize + off, src)
    PROVE  PageBytes(Nor!Programmed(flash, p * PageSize + off, src), p)
               = Copied(PageBytes(flash, p), off, src)
PROOF
<1> DEFINE at == p * PageSize
           addr == at + off
           n == Nor!Programmed(flash, addr, src)
           mem == PageBytes(flash, p)
<1>1. at \in Nat /\ off \in Nat /\ Len(src) \in Nat /\ PageSize \in Nat
  BY InPage, Geometry
<1>2. ASSUME NEW i \in 1 .. PageSize
      PROVE  n[at + i - 1] = IF i > off /\ i <= off + Len(src) THEN src[i - off] ELSE mem[i]
  <2> DEFINE a == at + i - 1
  <2>1. a \in DOMAIN flash
    <3>1. i - 1 \in 0 .. PageSize - 1 /\ a = at + (i - 1)
      <4> HIDE DEF at
      <4> QED  BY <1>1
    <3>2. at + (i - 1) \in 0 .. FlashSize - 1
      BY <3>1, InPage
    <3> QED  BY <3>1, <3>2 DEF FlashBytes
  <2>2. mem[i] = flash[a]
    BY DEF PageBytes, spi_flash_read
  <2> HIDE DEF at, mem
  <2>3. /\ (a >= addr <=> i > off) /\ (a < addr + Len(src) <=> i <= off + Len(src))
        /\ a - addr + 1 = i - off
    BY <1>1
  <2>4. CASE i > off /\ i <= off + Len(src)
    <3> DEFINE k == i - off
    <3>1. k \in 1 .. Len(src) /\ addr + k - 1 = a
      BY <1>1, <2>4
    <3> HIDE DEF k, a
    <3>2. src[k] = 0 \/ flash[a] = Nor!Free
      BY <3>1 DEF Writable, at
    <3>3. src[k] \in Int
      BY <3>1
    <3>4. Nor!And(flash[a], src[k]) = src[k]
      BY <3>2, <3>3 DEF Nor!And, Nor!Free
    <3>5. n[a] = Nor!And(flash[a], src[k])
      BY <2>1, <2>3, <2>4 DEF Nor!Programmed, k
    <3> QED  BY <2>4, <3>4, <3>5 DEF k, a
  <2>5. CASE ~(i > off /\ i <= off + Len(src))
    <3> HIDE DEF a
    <3>1. n[a] = flash[a]
      BY <2>1, <2>3, <2>5 DEF Nor!Programmed
    <3> QED  BY <2>2, <2>5, <3>1 DEF a
  <2> QED  BY <2>4, <2>5
<1> HIDE DEF n, at, mem
<1> QED  BY <1>2 DEF PageBytes, spi_flash_read, Copied, n, at, mem

LEMMA EraseElsewhere ==
    ASSUME flash \in FlashBytes, NEW b \in 0 .. FlashSize \div SectorSize - 1,
           NEW count \in EraseCounts, EraseBlock(b, count),
           NEW p \in Page, p \div PagesPerBlock # b
    PROVE  PageBytes(flash', p) = PageBytes(flash, p)
PROOF
<1>1. ASSUME NEW i \in 0 .. PageSize - 1
      PROVE  flash'[p * PageSize + i] = flash[p * PageSize + i]
  <2> DEFINE a == p * PageSize + i
             addr == EraseCountAddr(b)
  <2>1. a \in 0 .. FlashSize - 1 /\ a \in DOMAIN flash /\ a \div SectorSize # b
    BY InPage DEF FlashBytes
  <2>2. /\ flash' = Nor!Programmed(Nor!Erased(flash, b), addr, count)
        /\ addr + 0 \in Int /\ (addr + 0) \div SectorSize = b /\ (addr + 1) \div SectorSize = b
    BY EraseIsNor
  <2>3. addr \in Int
    <3>1. b \in Int /\ SectorSize \in Int /\ PageSize \in Int
      BY Geometry
    <3> QED  BY <3>1 DEF EraseCountAddr
  <2> HIDE DEF a, addr
  <2>4. Len(count) = 2
    BY DEF EraseCounts
  <2>5. a # addr /\ a # addr + 1
    BY <2>1, <2>2, <2>3
  <2>6. ~(a >= addr /\ a < addr + Len(count))
    BY <2>1, <2>3, <2>4, <2>5
  <2>7. flash'[a] = Nor!Erased(flash, b)[a]
    BY <2>1, <2>2, <2>6 DEF Nor!Programmed, Nor!Erased
  <2>8. Nor!Erased(flash, b)[a] = flash[a]
    BY <2>1 DEF Nor!Erased
  <2> QED  BY <2>7, <2>8 DEF a
<1> QED  BY <1>1, SamePage

-----------------------------------------------------------------------------
(* The invariant of the cache holds at first and of every step, and each   *)
(* step of the flash is one of the array of bytes.                         *)
LEMMA CacheInit == Init => CacheInv
PROOF
<1> SUFFICES ASSUME Init PROVE CacheInv
  OBVIOUS
<1>1. flash \in FlashBytes /\ last_access = 0 /\ pending = {}
  BY DEF Init, FlashBytes, Nor!Blank, Nor!Free
<1>2. \A c \in Cpix : cpages[c] = Unused
  BY DEF Init
<1>3. ArePages(cpages)
  BY DEF Init, ArePages, Unused, Fields
<1>4. ~Unused.used /\ ~Unused.wr /\ Unused.access = 0
  BY DEF Unused
<1>5. Cache(flash, cpages, pending, last_access)
  BY <1>1, <1>2, <1>3, <1>4
     DEF Cache, Coherent, CachedOnce, WritesHeld, HeldOnce, AccessedBy, Cached
<1> QED  BY <1>1, <1>5 DEF CacheInv

LEMMA ReadKeepsCache ==
    ASSUME NEW p \in Page, NEW lookup2 \in BOOLEAN, CacheInv, spiffs_phys_rd(p, lookup2)
    PROVE  CacheInv' /\ UNCHANGED flash
PROOF
<1> DEFINE hit  == PageGet(cpages, p)
           now  == last_access + 1
           room == RemoveOldest(cpages, now)
           c    == Allocated(room)
           read == [used |-> TRUE, wr |-> FALSE, pix |-> p, id |-> 0, access |-> now,
                    mem |-> my_spi_read(flash, p * PageSize, PageSize)]
<1>1. /\ UNCHANGED <<flash, pending>> /\ last_access' = now
      /\ \/ hit # 0 /\ cpages' = [cpages EXCEPT ![hit].access = now]
         \/ hit = 0 /\ cpages' = cpages
         \/ hit = 0 /\ cpages' = room
         \/ hit = 0 /\ c # 0 /\ cpages' = [room EXCEPT ![c] = read]
  BY DEF spiffs_phys_rd
<1>2. /\ now \in Nat /\ Cache(flash, cpages, pending, now)
      /\ flash \in FlashBytes /\ pending \subseteq Objects
  BY LaterCache DEF CacheInv
<1>3. Cache(flash, room, pending, now) /\ \A d \in Cpix : Cached(room[d]) => room[d] = cpages[d]
  BY <1>2, RemoveCache
<1>4. CASE hit # 0 /\ cpages' = [cpages EXCEPT ![hit].access = now]
  <2>1. hit \in Cpix /\ Cached(cpages[hit]) /\ cpages[hit].pix = p
    BY <1>4, PageGetCases
  <2> DEFINE page == [cpages[hit] EXCEPT !.mem = PageBytes(flash, cpages[hit].pix),
                                         !.access = now]
  <2> HIDE DEF hit, now
  <2>2. Cache(flash, [cpages EXCEPT ![hit] = page], pending, now)
    BY <1>2, <2>1, TouchCache
  <2>3. page = [cpages[hit] EXCEPT !.access = now]
    <3>1. cpages[hit].mem = PageBytes(flash, cpages[hit].pix) /\ DOMAIN cpages[hit] = Fields
      BY <1>2, <2>1 DEF Cache, Coherent, ArePages
    <3> QED  BY <3>1
  <2>4. cpages' = [cpages EXCEPT ![hit] = page]
    <3>1. cpages' = [cpages EXCEPT ![hit] = [cpages[hit] EXCEPT !.access = now]]
      BY <1>4
    <3> QED  BY <2>3, <3>1
  <2> HIDE DEF page
  <2> QED  BY <1>1, <1>2, <2>2, <2>4 DEF CacheInv
<1>5. CASE cpages' = cpages
  BY <1>1, <1>2, <1>5 DEF CacheInv
<1>6. CASE cpages' = room
  BY <1>1, <1>2, <1>3, <1>6 DEF CacheInv
<1>7. CASE hit = 0 /\ c # 0 /\ cpages' = [room EXCEPT ![c] = read]
  <2>1. c \in Cpix /\ ~room[c].used
    BY <1>7, AllocatedIsFree
  <2>2. \A d \in Cpix : ~(Cached(room[d]) /\ room[d].pix = p)
    BY <1>3, <1>7, PageGetCases
  <2>3. /\ DOMAIN read = Fields /\ Cached(read) /\ read.pix = p /\ read.access = now
        /\ read.mem = PageBytes(flash, p)
    BY ReadPage DEF Fields, Cached
  <2> HIDE DEF room, c, read, now
  <2>4. Cache(flash, cpages', pending, now)
    BY <1>2, <1>3, <1>7, <2>1, <2>2, <2>3, FillCache
  <2> QED  BY <1>1, <1>2, <2>4 DEF CacheInv
<1> QED  BY <1>1, <1>4, <1>5, <1>6, <1>7

LEMMA WriteKeepsCache ==
    ASSUME NEW p \in Page, NEW place \in Places, NEW align \in Aligns,
           CacheInv, spiffs_phys_wr(p, place, align)
    PROVE  CacheInv' /\ Nor!Program
PROOF
<1> DEFINE c == PageGet(cpages, p)
           addr == p * PageSize + place.off
           dele == \A i \in 1 .. Len(place.src) : place.src[i] = 0
           now == last_access + 1
           touched == [cpages EXCEPT ![c].mem = Copied(@, place.off, place.src), ![c].access = now]
<1>1. /\ Writable(addr, place.src) /\ UNCHANGED pending
      /\ \/ c = 0 /\ UNCHANGED <<cpages, last_access>>
         \/ c # 0 /\ cpages' = PageFree(cpages, c) /\ UNCHANGED last_access
         \/ c # 0 /\ last_access' = now /\ cpages' = touched
  BY DEF spiffs_phys_wr
<1>2. /\ flash \in FlashBytes /\ last_access \in Nat /\ pending \subseteq Objects
      /\ Cache(flash, cpages, pending, last_access)
  BY DEF CacheInv
<1>3. /\ flash' = Nor!Programmed(flash, addr, place.src) /\ flash' \in FlashBytes /\ Nor!Program
  BY <1>2, WriteIsNor
<1>4. /\ place.off \in 0 .. PageSize - 1 /\ place.src \in Seq(Int)
      /\ place.off + Len(place.src) <= PageSize
  BY PlacesAssumption
<1>5. ASSUME NEW q \in Page, q # p PROVE PageBytes(flash', q) = PageBytes(flash, q)
  BY <1>2, <1>3, <1>4, <1>5, WriteElsewhere
<1>6. PageBytes(flash', p) = Copied(PageBytes(flash, p), place.off, place.src)
  BY <1>1, <1>2, <1>3, <1>4, WriteHere
<1>7. CASE c = 0 /\ UNCHANGED <<cpages, last_access>>
  <2>1. \A d \in Cpix : Cached(cpages[d]) => cpages[d].pix \in Page /\ cpages[d].pix # p
    BY <1>2, <1>7, PageGetCases DEF Cache, Coherent
  <2>2. Cache(flash', cpages, pending, last_access)
    BY <1>2, <1>5, <2>1, ElsewhereCache
  <2> QED  BY <1>1, <1>2, <1>3, <1>7, <2>2 DEF CacheInv
<1>8. CASE c # 0 /\ cpages' = PageFree(cpages, c) /\ UNCHANGED last_access
  <2>1. c \in Cpix /\ Cached(cpages[c]) /\ cpages[c].pix = p /\ ~cpages[c].wr
    BY <1>8, PageGetCases DEF Cached
  <2> HIDE DEF c
  <2>2. Cache(flash, cpages', pending, last_access) /\ ~Cached(cpages'[c])
    BY <1>2, <1>8, <2>1, FreeCache
  <2>3. \A d \in Cpix \ {c} : cpages'[d] = cpages[d]
    BY <1>2, <1>8, <2>1, FreeKeeps DEF Cache
  <2>4. \A d \in Cpix : Cached(cpages'[d]) => cpages'[d].pix \in Page /\ cpages'[d].pix # p
    BY <1>2, <2>1, <2>2, <2>3 DEF Cache, Coherent, CachedOnce
  <2>5. Cache(flash', cpages', pending, last_access)
    BY <1>5, <2>2, <2>4, ElsewhereCache
  <2> QED  BY <1>1, <1>2, <1>3, <1>8, <2>5 DEF CacheInv
<1>9. CASE c # 0 /\ last_access' = now /\ cpages' = touched
  <2>1. c \in Cpix /\ Cached(cpages[c]) /\ cpages[c].pix = p
    BY <1>9, PageGetCases
  <2>2. cpages[c].mem = PageBytes(flash, p) /\ DOMAIN cpages[c] = Fields
    BY <1>2, <2>1 DEF Cache, Coherent, ArePages
  <2> DEFINE page == [cpages[c] EXCEPT !.mem = PageBytes(flash', cpages[c].pix), !.access = now]
             old == cpages[c]
  <2>3. cpages' = [cpages EXCEPT ![c] = page]
    <3> HIDE DEF c, now
    <3>1. touched = [cpages EXCEPT ![c] = [cpages[c] EXCEPT
                         !.mem = Copied(cpages[c].mem, place.off, place.src), !.access = now]]
      <4>1. c \in DOMAIN cpages
        BY <1>2, <2>1 DEF Cache, ArePages
      <4> QED  BY <4>1
    <3> HIDE DEF touched
    <3> QED  BY <1>6, <1>9, <2>1, <2>2, <3>1
  <2>4. now \in Nat /\ Cache(flash, cpages, pending, now)
    BY <1>2, LaterCache
  <2>5. \A q \in Page \ {cpages[c].pix} : PageBytes(flash', q) = PageBytes(flash, q)
    BY <1>5, <2>1
  <2> HIDE DEF c, now
  <2>6. Cache(flash', [cpages EXCEPT ![c] = page], pending, now)
    BY <2>1, <2>4, <2>5, TouchCache
  <2> HIDE DEF page
  <2> QED  BY <1>1, <1>2, <1>3, <1>9, <2>3, <2>4, <2>6 DEF CacheInv
<1> QED  BY <1>1, <1>3, <1>7, <1>8, <1>9

LEMMA EraseKeepsCache ==
    ASSUME NEW b \in 0 .. FlashSize \div SectorSize - 1, NEW count \in EraseCounts,
           CacheInv, EraseBlock(b, count)
    PROVE  CacheInv' /\ Nor!Erase
PROOF
<1> DEFINE pages == {p \in Page : p \div PagesPerBlock = b}
           Dropped(c) == \E p \in pages : PageGet(cpages, p) = c
<1>1. /\ flash \in FlashBytes /\ last_access \in Nat /\ pending \subseteq Objects
      /\ Cache(flash, cpages, pending, last_access)
  BY DEF CacheInv
<1>2. flash' \in FlashBytes /\ Nor!Erase
  BY <1>1, EraseIsNor
<1>3. cpages' = DropPages(cpages, pages) /\ UNCHANGED <<last_access, pending>>
  BY DEF EraseBlock
<1>4. ASSUME NEW c \in Cpix, Dropped(c)
      PROVE  /\ cpages'[c] = PageFree(cpages, c)[c] /\ DOMAIN cpages'[c] = Fields
             /\ ~Cached(cpages'[c]) /\ ~cpages'[c].wr /\ cpages'[c].access = cpages[c].access
  <2>1. c # 0 /\ ~cpages[c].wr
    <3>1. c # 0
      BY DEF Cpix
    <3> QED  BY <1>4, <3>1, PageGetCases DEF Cached
  <2>2. cpages'[c] = PageFree(cpages, c)[c]
    BY <1>3, <1>4 DEF DropPages
  <2>3. ArePages(PageFree(cpages, c))
    BY <1>1, FreeKeeps DEF Cache
  <2> QED  BY <1>1, <2>1, <2>2, <2>3, FreeCache DEF ArePages
<1>5. ASSUME NEW c \in Cpix, ~Dropped(c) PROVE cpages'[c] = cpages[c]
  BY <1>3, <1>5 DEF DropPages
<1>6. ASSUME NEW c \in Cpix, Cached(cpages'[c])
      PROVE  /\ cpages'[c] = cpages[c] /\ cpages[c].pix \in Page
             /\ cpages[c].pix \div PagesPerBlock # b
  <2>1. ~Dropped(c) /\ cpages'[c] = cpages[c]
    BY <1>4, <1>5, <1>6
  <2>2. cpages[c].pix \in Page /\ PageGet(cpages, cpages[c].pix) = c
    BY <1>1, <1>6, <2>1, PageGetOnce DEF Cache, Coherent
  <2> QED  BY <2>1, <2>2
<1>7. ASSUME NEW c \in Cpix
      PROVE  /\ cpages'[c].wr => cpages'[c] = cpages[c]
             /\ cpages'[c].access = cpages[c].access /\ DOMAIN cpages'[c] = Fields
  BY <1>1, <1>4, <1>5 DEF Cache, ArePages
<1> HIDE DEF Dropped, pages
<1>8. DOMAIN cpages' = Cpix
  BY <1>3 DEF DropPages
<1>9. Cache(flash', cpages', pending, last_access)
  <2>1. ArePages(cpages') /\ AccessedBy(cpages', last_access)
    BY <1>1, <1>7, <1>8 DEF Cache, ArePages, AccessedBy
  <2>2. WritesHeld(cpages', pending) /\ HeldOnce(cpages')
    BY <1>1, <1>7 DEF Cache, WritesHeld, HeldOnce
  <2>3. CachedOnce(cpages')
    BY <1>1, <1>6 DEF Cache, CachedOnce
  <2>4. Coherent(flash', cpages')
    <3> SUFFICES ASSUME NEW c \in Cpix, Cached(cpages'[c])
                 PROVE  /\ cpages'[c].pix \in Page
                        /\ cpages'[c].mem = PageBytes(flash', cpages'[c].pix)
      BY DEF Coherent
    <3>1. /\ cpages'[c] = cpages[c] /\ cpages[c].pix \in Page
          /\ cpages[c].pix \div PagesPerBlock # b
      BY <1>6
    <3>2. cpages[c].mem = PageBytes(flash, cpages[c].pix)
      BY <1>1, <3>1 DEF Cache, Coherent
    <3>3. PageBytes(flash', cpages[c].pix) = PageBytes(flash, cpages[c].pix)
      BY <1>1, <3>1, EraseElsewhere
    <3> QED  BY <3>1, <3>2, <3>3
  <2> QED  BY <2>1, <2>2, <2>3, <2>4 DEF Cache
<1> QED  BY <1>1, <1>2, <1>3, <1>9 DEF CacheInv

LEMMA AllocateKeepsCache ==
    ASSUME NEW id \in Objects, CacheInv, AllocateByFd(id)
    PROVE  CacheInv' /\ UNCHANGED flash
PROOF
<1> DEFINE room == RemoveOldest(cpages, last_access)
           c == Allocated(room)
           page == [used |-> TRUE, wr |-> TRUE, pix |-> 0, id |-> id,
                    access |-> last_access, mem |-> <<>>]
<1>1. /\ flash \in FlashBytes /\ last_access \in Nat /\ pending \subseteq Objects
      /\ Cache(flash, cpages, pending, last_access)
  BY DEF CacheInv
<1>2. Cache(flash, room, pending, last_access)
  BY <1>1, RemoveCache
<1>3. UNCHANGED <<flash, last_access>> /\ id \notin pending
  BY DEF AllocateByFd
<1>4. CASE c = 0
  <2>1. cpages' = room /\ UNCHANGED pending
    BY <1>4 DEF AllocateByFd
  <2> QED  BY <1>1, <1>2, <1>3, <2>1 DEF CacheInv
<1>5. CASE c # 0
  <2>1. cpages' = [room EXCEPT ![c] = page] /\ pending' = pending \cup {id}
    BY <1>5 DEF AllocateByFd
  <2>2. c \in Cpix /\ ~room[c].used
    BY <1>5, AllocatedIsFree
  <2>3. DOMAIN page = Fields /\ page.used /\ page.wr /\ page.id = id /\ page.access = last_access
    BY DEF Fields
  <2> HIDE DEF room, c, page
  <2>4. Cache(flash, cpages', pending', last_access)
    BY <1>1, <1>2, <1>3, <2>1, <2>2, <2>3, HoldCache
  <2> QED  BY <1>1, <1>3, <2>1, <2>4 DEF CacheInv
<1> QED  BY <1>4, <1>5

LEMMA ReleaseKeepsCache ==
    ASSUME NEW id \in Objects, CacheInv, FdRelease(id)
    PROVE  CacheInv' /\ UNCHANGED flash
PROOF
<1> DEFINE c == GetByFd(id)
<1>1. /\ c # 0 /\ cpages' = PageFree(cpages, c) /\ pending' = pending \ {id}
      /\ UNCHANGED <<flash, last_access>>
  BY DEF FdRelease
<1>2. c \in Cpix /\ cpages[c].wr /\ cpages[c].id = id
  BY <1>1, FirstIsFound DEF GetByFd
<1>3. /\ flash \in FlashBytes /\ last_access \in Nat /\ pending \subseteq Objects
      /\ Cache(flash, cpages, pending, last_access) /\ ArePages(cpages)
  BY DEF CacheInv, Cache
<1> HIDE DEF c
<1>4. ArePages(cpages') /\ \A d \in Cpix \ {c} : cpages'[d] = cpages[d]
  BY <1>1, <1>2, <1>3, FreeKeeps
<1>5. ~cpages'[c].used /\ ~cpages'[c].wr /\ cpages'[c].access = cpages[c].access
  BY <1>1, <1>2, <1>3 DEF PageFree, ArePages, Fields
<1>6. Coherent(flash, cpages') /\ CachedOnce(cpages')
  BY <1>3, <1>4, <1>5 DEF Cache, Coherent, CachedOnce, Cached
<1>7. WritesHeld(cpages', pending') /\ HeldOnce(cpages')
  BY <1>1, <1>2, <1>3, <1>4, <1>5 DEF Cache, WritesHeld, HeldOnce
<1>8. AccessedBy(cpages', last_access)
  BY <1>3, <1>4, <1>5 DEF Cache, AccessedBy
<1> QED  BY <1>1, <1>3, <1>4, <1>6, <1>7, <1>8 DEF CacheInv, Cache

LEMMA StepKeepsCache ==
    ASSUME CacheInv, [Next]_vars
    PROVE  CacheInv' /\ [Nor!Program \/ Nor!Erase]_flash
PROOF
<1>1. CASE UNCHANGED vars
  <2>1. UNCHANGED <<flash, cpages, last_access, pending>>
    BY <1>1 DEF vars
  <2> QED  BY <2>1 DEF CacheInv
<1> QED
  BY <1>1, ReadKeepsCache, WriteKeepsCache, EraseKeepsCache, AllocateKeepsCache,
     ReleaseKeepsCache DEF Next

(* What a read answers. *)
LEMMA AnswerIsFlash ==
    ASSUME CacheInv, NEW p \in Page, NEW off \in 0 .. PageSize - 1, NEW lookup2 \in BOOLEAN,
           lookup2 => off = 0
    PROVE  Answer(p * PageSize + off, PageSize - off, lookup2)
               = spi_flash_read(flash, p * PageSize + off, PageSize - off)
PROOF
<1> DEFINE addr == p * PageSize + off
           len == PageSize - off
           c == PageGet(cpages, p)
           room == RemoveOldest(cpages, last_access + 1)
           from(mem) == SubSeq(mem, off + 1, off + len)
           wholePage == my_spi_read(flash, addr - off, PageSize)
<1>1. /\ PageOf(addr) = p /\ OffsetOf(addr) = off /\ addr - off = p * PageSize
      /\ off + len = PageSize
  <2>1. p * PageSize \in Nat /\ PageSize \in Nat
    BY InPage, Geometry
  <2>2. addr - off = p * PageSize /\ off + len = PageSize
    BY <2>1
  <2> QED  BY <2>2, InPage
<1>2. Answer(addr, len, lookup2) =
          IF c # 0 THEN from(cpages[c].mem)
          ELSE IF lookup2 \/ Allocated(room) = 0 THEN my_spi_read(flash, addr, len)
          ELSE from(wholePage)
  <2> HIDE DEF addr, len
  <2> QED  BY <1>1 DEF Answer
<1>3. from(PageBytes(flash, p)) = spi_flash_read(flash, addr, len)
  <2>1. SubSeq(PageBytes(flash, p), off + 1, PageSize) = spi_flash_read(flash, addr, len)
    BY FromPage DEF PageBytes
  <2> HIDE DEF len, addr
  <2> QED  BY <1>1, <2>1
<1>4. wholePage = PageBytes(flash, p)
  <2> HIDE DEF addr
  <2> QED  BY <1>1, ReadPage
<1>5. CASE c # 0
  <2>1. cpages[c].mem = PageBytes(flash, p)
    BY <1>5, PageGetCases DEF CacheInv, Cache, Coherent
  <2> HIDE DEF c, len, addr
  <2> QED  BY <1>2, <1>3, <1>5, <2>1 DEF addr, len
<1>6. CASE c = 0 /\ lookup2
  <2>1. addr = p * PageSize /\ len = PageSize
    BY <1>6, InPage, Geometry
  <2>2. my_spi_read(flash, addr, len) = spi_flash_read(flash, addr, len)
    <3> HIDE DEF addr, len
    <3> QED  BY <2>1, ReadPage DEF PageBytes
  <2> HIDE DEF c, len, addr, room, wholePage
  <2> QED  BY <1>2, <1>6, <2>2 DEF addr, len
<1>7. CASE c = 0 /\ ~lookup2
  <2>1. Allocated(room) # 0
    <3>1. /\ ArePages(cpages) /\ WritesHeld(cpages, Objects) /\ HeldOnce(cpages)
          /\ AccessedBy(cpages, last_access) /\ last_access \in Nat
      BY DEF CacheInv, Cache, WritesHeld
    <3> QED  BY <3>1, Room
  <2> HIDE DEF c, len, addr, room, wholePage
  <2> QED  BY <1>2, <1>3, <1>4, <1>7, <2>1 DEF addr, len
<1> QED  BY <1>5, <1>6, <1>7

(* In any order of reads, writes, deletions, erasures and cached writes,   *)
(* with any number of cache pages: whatever page the nucleus reads next is *)
(* read as the flash has it, from a cached page or not.                    *)
THEOREM ReadsAreTrue == Spec => []ReadsTrue
PROOF
<1>1. Init => CacheInv
  BY CacheInit
<1>2. CacheInv /\ [Next]_vars => CacheInv'
  BY StepKeepsCache
<1>3. CacheInv => ReadsTrue
  <2> SUFFICES ASSUME CacheInv, NEW p \in Page, NEW off \in {0, 5}, NEW lookup2 \in BOOLEAN,
                      lookup2 => off = 0
               PROVE  Answer(p * PageSize + off, PageSize - off, lookup2)
                          = spi_flash_read(flash, p * PageSize + off, PageSize - off)
    BY DEF ReadsTrue
  <2>1. off \in 0 .. PageSize - 1
    BY Geometry
  <2> QED  BY <2>1, AnswerIsFlash
<1> QED  BY <1>1, <1>2, <1>3, PTL DEF Spec

(* Through the cache and through my_spi_write, which pads words and copies *)
(* through a buffer, from memory and to addresses aligned or not: the      *)
(* flash is the array of bytes of NorFlash.                                *)
THEOREM FlashIsArray == Spec => ImplementsNor
PROOF
<1>1. Init => CacheInv /\ Nor!Init
  BY CacheInit DEF Init, Nor!Init
<1>2. CacheInv /\ [Next]_vars => CacheInv' /\ [Nor!Program \/ Nor!Erase]_flash
  BY StepKeepsCache
<1> QED  BY <1>1, <1>2, PTL DEF Spec, ImplementsNor, Nor!Spec
=============================================================================
