----------------------------- MODULE SpiffsApi -----------------------------
(***************************************************************************)
(* The calls of SPIFFS (spiffs_hydrogen.c) with the descriptors            *)
(* (spiffs_nucleus.c) and the pages of cached writes (spiffs_cache.c) they *)
(* use.  A cached write is what a descriptor wrote last and the flash does *)
(* not hold yet; s.cp has one for each cache page, with id 0 when the page *)
(* caches no write.                                                        *)
(***************************************************************************)
EXTENDS SpiffsObject

CONSTANT CachePages     \* the cache has pages 1 .. CachePages

NoWrite == [id |-> 0, off |-> 0, bytes |-> <<>>]

ClosedFd == [open |-> FALSE, id |-> 0, hdr |-> NoPage, size |-> 0, ixpix |-> NoPage,
             ixspan |-> 0, pos |-> 0, flags |-> {}, cpage |-> 0, name |-> 0, score |-> 0,
             map |-> NoMap]

\* What a call starts from, and what is left when it has returned.
Idle(s, power) ==
    [s EXCEPT !.power = power, !.work = Blank, !.pix = NoPage, !.res = "OK", !.err = "OK",
              !.out = <<>>, !.loop = Loop(0, NoPage), !.cleaning = FALSE]

(***************************************************************************)
(* Formatting and mounting.  Nothing in memory survives to a mount.        *)
(***************************************************************************)
Unmounted(flash) ==
    [lu |-> flash.lu, pg |-> flash.pg, ec |-> flash.ec, power |-> 0,
     freeBlocks |-> 0, fcb |-> 0, fce |-> 0, cursor |-> 0, allocated |-> 0, deleted |-> 0,
     maxErase |-> 0, cleaning |-> FALSE, fds |-> [f \in Fds |-> ClosedFd],
     cp |-> [c \in 1 .. CachePages |-> NoWrite], mounted |-> FALSE,
     work |-> Blank, pix |-> NoPage, res |-> "OK", err |-> "OK", out |-> <<>>, loop |-> Loop(0, NoPage)]

FormatCall(s) ==
    LET Formatted(t, b) == EraseBlock([t EXCEPT !.maxErase = 0], b)
    IN IF s.mounted THEN Fail(s, "MOUNTED")
       ELSE FoldLeft(Formatted, s, [i \in 1 .. Blocks |-> i - 1])

MountCall(s) ==
    LET clean == [Unmounted(s) EXCEPT !.power = s.power]
    IN [LookupScan(clean) EXCEPT !.mounted = TRUE]

(***************************************************************************)
(* Descriptors.  A closed one remembers the file it was last used for, and *)
(* a score: opening that file again is quick.                              *)
(***************************************************************************)
FdFindNew(s, name) ==
    LET Aged(fd) == IF name # 0 /\ ~fd.open /\ fd.score > 1 THEN [fd EXCEPT !.score = @ - 1] ELSE fd
        Taken(fds, f, hit) ==
            [s EXCEPT !.fds = [fds EXCEPT ![f].open  = TRUE,
                                          ![f].score = IF hit THEN @ + 4
                                                       ELSE IF name # 0 THEN 4 ELSE @,
                                          ![f].name  = IF name # 0 THEN name ELSE @],
                      !.cursor = IF hit THEN fds[f].hdr - 1 ELSE @,
                      !.pix = f]
        Chosen(fds, f) ==
            Taken(fds, f, name # 0 /\ fds[f].name = name /\ fds[f].score > 0)
        Known(fds, free) == {f \in free : name # 0 /\ fds[f].name = name}
        Low(fds, free)   == {f \in free : \A g \in free : fds[f].score <= fds[g].score}
        First(fds, S)    == Chosen(fds, CHOOSE f \in S : \A g \in S : f <= g)
        Found(fds, free) ==
            IF free = {} THEN Fail([s EXCEPT !.fds = fds], "OUT_OF_FILE_DESCS")
            ELSE First(fds, IF Known(fds, free) # {} THEN Known(fds, free) ELSE Low(fds, free))
    IN IF ~Ok(s) THEN s
       ELSE Found([f \in Fds |-> Aged(s.fds[f])], {f \in Fds : ~s.fds[f].open})

FdReturn(s, f) == [s EXCEPT !.fds[f].open = FALSE, !.fds[f].map = NoMap]
ReturnOnErrorNever(s, f) == s                    \* mutant: the descriptor stays open

ReturnOnError(s, f) == IF Ok(s) THEN s ELSE FdReturn(s, f)

\* spiffs_fd_temporal_cache_rehash.
Rehash(s, old, new) ==
    [s EXCEPT !.fds = [f \in Fds |-> IF s.fds[f].score > 0 /\ s.fds[f].name = old
                                     THEN [s.fds[f] EXCEPT !.name = new] ELSE s.fds[f]]]

(***************************************************************************)
(* Cached writes.                                                          *)
(***************************************************************************)
PageByFd(s, f) ==
    LET mine == {c \in 1 .. CachePages : s.cp[c].id # 0 /\ s.cp[c].id = s.fds[f].id}
    IN IF mine = {} THEN 0 ELSE CHOOSE c \in mine : \A d \in mine : c <= d

CachePageOfOwn(s, f) == s.fds[f].cpage           \* mutant: another descriptor's write is not seen

CachePageOf(s, f) == IF s.fds[f].cpage # 0 THEN s.fds[f].cpage ELSE PageByFd(s, f)

\* spiffs_cache_page_allocate_by_fd: pages that cache reads give way, pages that cache writes not.
AllocateByFd(s, f, off) ==
    LET free == {c \in 1 .. CachePages : s.cp[c].id = 0}
        c    == CHOOSE d \in free : \A e \in free : d <= e
    IN IF free = {} THEN [s EXCEPT !.fds[f].cpage = 0]
       ELSE [s EXCEPT !.cp[c] = [id |-> s.fds[f].id, off |-> off, bytes |-> <<>>],
                      !.fds[f].cpage = c]

FdRelease(s, c) ==
    IF c = 0 THEN s
    ELSE [s EXCEPT !.cp[c] = NoWrite,
                   !.fds = [f \in Fds |-> IF s.fds[f].open /\ s.fds[f].cpage = c
                                          THEN [s.fds[f] EXCEPT !.cpage = 0] ELSE s.fds[f]]]

\* Write a cached write back; it is forgotten even if that fails.
WriteBack(s, f, c) == FdRelease(HydroWrite(s, f, s.cp[c].off, s.cp[c].bytes), c)

FlushCache(s, f) ==
    LET c == CachePageOf(s, f)
    IN IF ~s.fds[f].open THEN Fail(s, "FILE_CLOSED")
       ELSE IF "direct" \in s.fds[f].flags \/ c = 0 THEN s
       ELSE WriteBack([s EXCEPT !.fds[f].cpage = c], f, c)

\* The caller does not look at the result; fs->err_code keeps it.
Ignoring(s) == IF Ok(s) THEN s ELSE [s EXCEPT !.err = s.res, !.res = "OK"]

(***************************************************************************)
(* The calls on files.                                                     *)
(***************************************************************************)
CreateWithId(s, name) == ObjectCreate(s, s.pix, name)
CreatCall(s, name) == CreateWithId(FindFreeId(s, name), name)

\* What opening ends with: descriptor f is filled in from the header page in pix.
OpenPage(s, f, flags) ==
    LET opened == OpenByPage(s, f, flags)
    IN [Set(ReturnOnError(IF "trunc" \in flags THEN ObjectTruncate(opened, f, FALSE) ELSE opened,
                          f), f, "pos", 0) EXCEPT !.pix = f]

\* The search for the name left found; new is the state before it, with its descriptor in pix.
OpenFound(found, new, name, flags) ==
    LET missing == "creat" \in flags /\ found.res = "NOT_FOUND"
    IN OpenPage(IF missing THEN CreateWithId(FindFreeId(new, 0), name)
                ELSE IF {"creat", "excl"} \subseteq flags THEN Fail(found, "FILE_EXISTS") ELSE found,
                new.pix, IF missing THEN flags \ {"trunc"} ELSE flags)

OpenNamed(s, name, flags) == IF Ok(s) THEN OpenFound(FindByName(s, name), s, name, flags) ELSE s

\* SPIFFS_open, for flags among "creat", "excl", "trunc", "append", "rd", "wr", "direct".
OpenCall(s, name, flags) == OpenNamed(FdFindNew(s, name), name, flags)

\* SPIFFS_open_by_dirent and SPIFFS_open_by_page, of the page a directory entry or a stat gave.
OpenListed(s, p, flags) == IF Ok(s) THEN OpenPage([s EXCEPT !.pix = p], s.pix, flags) ELSE s

OpenByPixCall(s, p, flags) == OpenListed(FdFindNew(s, 0), p, flags)

ReadCall(s, f, len) ==
    LET From(t, fd, n) == IF n <= 0 THEN Fail(t, "END_OF_OBJECT")
                          ELSE Set(ObjectRead(t, f, fd.pos, n), f, "pos", fd.pos + n)
        Flushed(t, fd) == From(t, fd, IF fd.pos + len >= fd.size THEN fd.size - fd.pos ELSE len)
        Read(t)        == Flushed(t, t.fds[f])
    IN IF "rd" \notin s.fds[f].flags THEN Fail(s, "NOT_READABLE")
       ELSE IF s.fds[f].size = FREE THEN Fail(s, "END_OF_OBJECT")
       ELSE Read(Ignoring(FlushCache(s, f)))

\* SPIFFS_write: small writes are cached as long as they touch the cached one.
CacheWrite(s, f, off, data) ==
    LET c    == s.fds[f].cpage
        into == off - s.cp[c].off
        old  == s.cp[c].bytes
        size == Larger(Len(old), into + Len(data))
        new  == [i \in 1 .. size |-> IF i > into /\ i <= into + Len(data) THEN data[i - into]
                                     ELSE old[i]]
    IN [s EXCEPT !.cp[c].bytes = new, !.fds[f].pos = @ + Len(data)]

WriteAt(s, f, off, data) ==
    LET Moved(t) == Set(t, f, "pos", t.fds[f].pos + Len(data))
    IN IF ~Ok(s) THEN s
       ELSE IF Len(data) < PageLen /\ "direct" \notin s.fds[f].flags /\ s.fds[f].cpage # 0
       THEN CacheWrite(s, f, off, data) ELSE Moved(HydroWrite(s, f, off, data))

WriteCall(s, f, data) ==
    LET fd     == s.fds[f]
        append == "append" \in fd.flags
        direct == "direct" \in fd.flags
        small  == Len(data) < PageLen
        c      == CachePageOf(s, f)
        cached == IF c = 0 THEN NoWrite ELSE s.cp[c]
        pos    == IF ~append THEN fd.pos ELSE IF fd.size = FREE THEN 0 ELSE fd.size
        off    == IF append /\ c # 0 THEN Larger(pos, cached.off + Len(cached.bytes)) ELSE pos
        apart  == \/ off < cached.off \/ off > cached.off + Len(cached.bytes)
                  \/ off + Len(data) > cached.off + PageLen
        start  == [s EXCEPT !.fds[f].cpage = c, !.fds[f].pos = pos]
        Paged(t) == IF Ok(t) /\ small /\ ~direct /\ (c = 0 \/ apart) THEN AllocateByFd(t, f, off)
                    ELSE t
    IN IF "wr" \notin fd.flags THEN Fail(s, "NOT_WRITABLE")
       ELSE WriteAt(Paged(IF c # 0 /\ ~direct /\ (~small \/ apart) THEN WriteBack(start, f, c)
                          ELSE start),
                    f, off, data)

\* SPIFFS_lseek to offs, counted from the end if atEnd.
LseekCall(s, f, offs, atEnd) ==
    LET Found(t, x, to) ==
            IF Ok(t) THEN Set([t EXCEPT !.fds[f].ixspan = x, !.fds[f].ixpix = t.pix], f, "pos", to)
            ELSE t
        Moved(t, x, to) ==
            IF t.fds[f].ixspan = x THEN Set(t, f, "pos", to)
            ELSE Found(FindIdAndSpan(t, Ix(t.fds[f].id), x, NoPage), x, to)
        From(t, size, to) ==
            IF size # FREE /\ to > size THEN Fail(t, "END_OF_OBJECT")
            ELSE Moved(t, IxSpanOf(Span(to)), to)
        Sized(t, size) == From(t, size, IF ~atEnd THEN offs
                                        ELSE (IF size = FREE THEN 0 ELSE size) + offs)
        Flushed(t) == Sized(t, t.fds[f].size)
    IN Flushed(Ignoring(FlushCache(s, f)))

\* SPIFFS_remove.  The descriptor it uses is closed by the event of the deletion.
RemoveNamed(s, name) ==
    IF Ok(s)
    THEN ReturnOnError(ObjectTruncate(OpenByPage(FindByName(s, name), s.pix, {}), s.pix, TRUE), s.pix)
    ELSE s

RemoveCall(s, name) == RemoveNamed(FdFindNew(s, 0), name)

FremoveCall(s, f) ==
    IF "wr" \notin s.fds[f].flags THEN Fail(s, "NOT_WRITABLE")
    ELSE ObjectTruncate(FdRelease(s, s.fds[f].cpage), f, TRUE)

RenameCall(s, old, new) ==
    LET Renamed(t, f) == FdReturn(IF Ok(t) THEN Rehash(t, old, new) ELSE t, f)
        Opened(t, f)  == IF Ok(t)
                         THEN Renamed(UpdateIndexHdr(t, f, t.fds[f].id, t.fds[f].hdr, FALSE, new, 0), f)
                         ELSE FdReturn(t, f)
        Given(t, p)   == IF Ok(t) THEN Opened(OpenByPage([t EXCEPT !.pix = p], t.pix, {}), t.pix)
                         ELSE t
        Sought(t, found) == IF Ok(t) THEN Fail(t, "CONFLICTING_NAME")
                            ELSE Given(FdFindNew([found EXCEPT !.cursor = t.cursor], 0), found.pix)
        Found(t)      == IF Ok(t) THEN Sought(FindByName(t, new), t) ELSE t
    IN Found(FindByName(s, old))

CloseCall(s, f) ==
    LET Flushed(t) == IF Ok(t) THEN FdReturn(t, f) ELSE t IN Flushed(FlushCache(s, f))

\* SPIFFS_stat: out is the size and the page.
StatPix(s, p) ==
    IF ~Ok(s) THEN s
    ELSE [s EXCEPT !.out = <<IF s.pg[p].size = FREE THEN 0 ELSE s.pg[p].size, p>>]
StatCall(s, name) == LET Found(t) == StatPix(t, t.pix) IN Found(FindByName(s, name))

\* SPIFFS_opendir and SPIFFS_readdir to the end: the pages of all entries, in order.
DirEntry(s, p) ==
    /\ s.lu[p] \notin {FREE, DELETED} /\ IsIx(s.lu[p]) /\ s.pg[p].span = 0
    /\ "final" \in s.pg[p].flags /\ {"delet", "ixdele"} \cap s.pg[p].flags = {}
Listing(s) == {p \in Page : DirEntry(s, p)}

RECURSIVE CloseFrom(_, _)
CloseFrom(s, f) ==
    IF f \notin Fds THEN s
    ELSE CloseFrom(IF s.fds[f].open THEN FdReturn(Ignoring(FlushCache(s, f)), f) ELSE s, f + 1)
UnmountCall(s) == [CloseFrom(s, 1) EXCEPT !.mounted = FALSE]

\* SPIFFS_fstat, SPIFFS_eof and SPIFFS_tell, on what FlushCache left.
FstatCall(s, f) == StatPix(s, s.fds[f].hdr)
EofCall(s, f) ==
    LET AtEnd(fd) == fd.pos >= (IF fd.size = FREE THEN 0 ELSE fd.size)
    IN IF Ok(s) THEN [s EXCEPT !.out = <<IF AtEnd(s.fds[f]) THEN 1 ELSE 0>>] ELSE s
TellCall(s, f) == IF Ok(s) THEN [s EXCEPT !.out = <<s.fds[f].pos>>] ELSE s

\* SPIFFS_info: bytes in all and bytes used, by the counters.
InfoCall(s) == [s EXCEPT !.out = <<(Entries * (Blocks - 2) + 1) * DataLen,
                                   s.allocated * DataLen>>]

(***************************************************************************)
(* Index maps.  spiffs_populate_ix_map looks at the index pages in the     *)
(* order of the lookup, from the header on, until it has seen as many as   *)
(* the spans from n to the end of the map need.                            *)
(***************************************************************************)
PopulateMap(s, f, n, hi) ==
    LET fd     == s.fds[f]
        needed == IxSpanOf(n) .. IxSpanOf(Larger(hi, fd.map.hi))
        Away(p) == (p - fd.hdr) % (Blocks * Entries)
        pages  == SetToSortSeq({p \in Page : s.lu[p] = Ix(fd.id)},
                               LAMBDA p, q : Away(p) < Away(q))
        Visit(t, p) ==
            IF ~Ok(t) \/ t.loop.at = Cardinality(needed) THEN t
            ELSE IF HeaderError(t.pg[p]) # "OK" THEN Fail(t, HeaderError(t.pg[p]))
            ELSE IF t.pg[p].span \notin needed \/ "ixdele" \in t.pg[p].flags THEN t
            ELSE [t EXCEPT !.fds[f].map = UpdateMap(@, t.pg[p].span, t.pg[p].cells),
                           !.loop.at = @ + 1]
    IN FoldLeft(Visit, [s EXCEPT !.loop = Loop(0, NoPage)], pages)

IxMapCall(s, f, offset, len) ==
    LET lo == Span(offset)
        hi == Span(offset + len)
    IN IF HasMap(s.fds[f]) THEN Fail(s, "IX_MAP_MAPPED")
       ELSE PopulateMap([s EXCEPT !.fds[f].map =
                            [lo |-> lo, hi |-> hi, buf |-> [n \in lo .. hi |-> NoPage]]],
                        f, lo, hi + 1)

IxUnmapCall(s, f) ==
    IF HasMap(s.fds[f]) THEN [s EXCEPT !.fds[f].map = NoMap] ELSE Fail(s, "IX_MAP_UNMAPPED")

\* SPIFFS_ix_remap, by less than the length of the map: beyond that the code clears the pointer
\* to the buffer instead of the buffer.
IxRemapCall(s, f, offset) ==
    LET map  == s.fds[f].map
        lo   == Span(offset)
        hi   == map.hi + lo - map.lo
        kept == [n \in lo .. hi |-> IF n \in map.lo .. map.hi THEN map.buf[n] ELSE NoPage]
        moved == [s EXCEPT !.fds[f].map = [lo |-> lo, hi |-> hi, buf |-> kept]]
    IN IF ~HasMap(s.fds[f]) THEN Fail(s, "IX_MAP_UNMAPPED")
       ELSE IF lo = map.lo THEN s
       ELSE PopulateMap(moved, f, IF lo > map.lo THEN map.hi + 1 ELSE lo, hi)
=============================================================================
