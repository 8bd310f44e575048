--------------------------- MODULE SpiffsNucleus ---------------------------
(***************************************************************************)
(* The nucleus of SPIFFS below its files (spiffs_nucleus.c and the quick   *)
(* half of spiffs_gc.c): the object lookup, allocating, moving and         *)
(* deleting pages, and the events that keep open files current.            *)
(*                                                                         *)
(* The code runs to completion on the task that calls it, so a function is *)
(* an operator from the state of the file system to the state it leaves.   *)
(* The state is a record: the flash (lu, pg, ec), the volatile struct      *)
(* spiffs, and for the call under way                                      *)
(*    power   how many flash writes the supply lasts for                   *)
(*    work    the page in fs->work        pix   the out parameter          *)
(*    res     the result; once it is an error nothing more is done, unless *)
(*            the caller handles that error                                *)
(* A write that finds no power left changes nothing and stops the call, so *)
(* a power loss is a call that was given a small power.                    *)
(***************************************************************************)
EXTENDS SpiffsFlash

CONSTANT Fds       \* the file descriptors, 1 .. fd_count

Ok(s)      == s.res = "OK"
Fail(s, e) == IF Ok(s) THEN [s EXCEPT !.res = e] ELSE s

(***************************************************************************)
(* Flash writes.                                                           *)
(***************************************************************************)
Write(s, p, part) ==
    IF ~Ok(s) THEN s
    ELSE IF s.power = 0 THEN Fail(s, "POWER")
    ELSE [s EXCEPT !.pg[p] = Program(@, part), !.power = @ - 1]

\* Program the page that was found, which is in pix.
WriteFound(s, part) == Write(s, s.pix, part)
WriteFoundIf(s, wanted, part) == IF wanted THEN Write(s, s.pix, part) ELSE s

WriteLu(s, p, raw) ==
    IF ~Ok(s) THEN s
    ELSE IF s.power = 0 THEN Fail(s, "POWER")
    ELSE [s EXCEPT !.lu[p] = And(@, raw), !.power = @ - 1]

WriteEc(s, b) ==
    IF ~Ok(s) THEN s
    ELSE IF s.power = 0 THEN Fail(s, "POWER")
    ELSE [s EXCEPT !.ec[b] = IF s.maxErase = 2 * EraseWrap - 1 THEN FREE ELSE s.maxErase,
                   !.power = @ - 1]

Erase(s, b) ==
    IF ~Ok(s) THEN s
    ELSE IF s.power = 0 THEN Fail(s, "POWER")
    ELSE [s EXCEPT !.lu = [p \in Page |-> IF BlockOf(p) = b THEN FREE ELSE s.lu[p]],
                   !.pg = [p \in Page |-> IF BlockOf(p) = b THEN Blank ELSE s.pg[p]],
                   !.ec[b] = FREE,
                   !.power = @ - 1]

EraseBlock(s, b) ==
    LET Raised(count) == IF (count + 1) % (2 * EraseWrap) = EraseWrap THEN 0
                         ELSE (count + 1) % (2 * EraseWrap)
        Noted(t) == IF Ok(t) THEN [t EXCEPT !.maxErase = Raised(@)] ELSE t
    IN Noted(WriteEc([Erase(s, b) EXCEPT !.freeBlocks = @ + 1], b))

(***************************************************************************)
(* Pages as their headers describe them.                                   *)
(***************************************************************************)
IsFinal(pg)   == "used" \in pg.flags /\ "final" \in pg.flags /\ "delet" \notin pg.flags

\* SPIFFS_VALIDATE_OBJIX and SPIFFS_VALIDATE_DATA.
HeaderError(pg) ==
    IF "used" \notin pg.flags THEN "IS_FREE"
    ELSE IF "delet" \in pg.flags THEN "DELETED"
    ELSE IF "final" \notin pg.flags THEN "NOT_FINALIZED"
    ELSE "OK"

ValidateIx(s, pg, raw, span) ==
    Fail(s, IF HeaderError(pg) # "OK" THEN HeaderError(pg)
            ELSE IF "index" \notin pg.flags \/ ~IsIx(raw) THEN "NOT_INDEX"
            ELSE IF pg.span # span THEN "INDEX_SPAN_MISMATCH" ELSE "OK")

ValidateData(s, pg, span) ==
    Fail(s, IF HeaderError(pg) # "OK" THEN HeaderError(pg)
            ELSE IF "index" \in pg.flags THEN "IS_INDEX"
            ELSE IF pg.span # span THEN "DATA_SPAN_MISMATCH" ELSE "OK")

\* spiffs_page_data_check and spiffs_page_index_check of a page an index refers to.
DataCheck(s, p, span) ==
    IF ~Ok(s) THEN s
    ELSE IF p = FREE THEN Fail(s, "INDEX_REF_FREE")
    ELSE IF p = NoPage THEN Fail(s, "INDEX_REF_LU")
    ELSE IF p \notin Page THEN Fail(s, "INDEX_REF_INVALID")
    ELSE ValidateData(s, s.pg[p], span)

IndexCheck(s, p, id, span) ==
    IF ~Ok(s) THEN s
    ELSE IF p = FREE THEN Fail(s, "INDEX_FREE")
    ELSE IF p = NoPage THEN Fail(s, "INDEX_LU")
    ELSE IF p \notin Page THEN Fail(s, "INDEX_INVALID")
    ELSE ValidateIx(s, s.pg[p], Ix(id), span)

(***************************************************************************)
(* The lookup.  A search starts at a cursor, goes round once and takes the *)
(* first entry that hits.                                                  *)
(***************************************************************************)
FirstFrom(start, hit) ==
    LET away == {(p - 1 - start) % (Blocks * Entries) : p \in hit}
    IN IF hit = {} THEN NoPage
       ELSE ((start + CHOOSE d \in away : \A e \in away : d <= e) % (Blocks * Entries)) + 1

\* spiffs_obj_lu_find_id_and_span_v.
IsSpan(s, p, raw, span, exclude) ==
    LET pg == s.pg[p]
    IN /\ pg.id = raw /\ pg.span = span /\ p # exclude
       /\ IsFinal(pg)
       /\ ~(IsIx(raw) /\ "ixdele" \in pg.flags /\ span = 0)

FoundAt(s, p) ==
    IF p = NoPage THEN Fail(s, "NOT_FOUND") ELSE [s EXCEPT !.pix = p, !.cursor = p - 1]

FindIdAndSpan(s, raw, span, exclude) ==
    IF ~Ok(s) THEN s
    ELSE FoundAt(s, FirstFrom(s.cursor,
            {p \in Page : s.lu[p] = raw /\ IsSpan(s, p, raw, span, exclude)}))

FindIdAndSpanByPhdr(s, raw, span, exclude) ==
    IF ~Ok(s) THEN s
    ELSE FoundAt(s, FirstFrom(s.cursor, {p \in Page : IsSpan(s, p, raw, span, exclude)}))

\* spiffs_obj_lu_scan: what a mount learns from the lookup.
LookupScan(s) ==
    LET counts == {s.ec[b] : b \in Block} \ {FREE}
        least  == IF counts = {} THEN 2 * EraseWrap - 1
                  ELSE CHOOSE c \in counts : \A d \in counts : c <= d
        most   == IF counts = {} THEN 0 ELSE CHOOSE c \in counts : \A d \in counts : c >= d
        final  == IF least = 0 /\ most = 2 * EraseWrap - 1 THEN 0
                  ELSE IF most - least > (2 * EraseWrap - 1) \div 2 THEN least + 1
                  ELSE most + 1
    IN [s EXCEPT !.maxErase   = final % (2 * EraseWrap),
                 !.freeBlocks = Cardinality({b \in Block : s.lu[PixOf(b, 0)] = FREE}),
                 !.deleted    = Cardinality({p \in Page : s.lu[p] = DELETED}),
                 !.allocated  = Cardinality({p \in Page : s.lu[p] \notin {FREE, DELETED}})]

(***************************************************************************)
(* spiffs_gc_quick: erase the first block that holds deleted pages and at  *)
(* most max free ones.                                                     *)
(***************************************************************************)
GcQuick(s, max) ==
    LET Freed(b) == {p \in PagesOf(b) : s.lu[p] = DELETED}
        Clean(b) == {p \in PagesOf(b) : s.lu[p] = FREE}
        quick    == {b \in Block : /\ PagesOf(b) = Freed(b) \cup Clean(b)
                                   /\ Cardinality(Clean(b)) <= max}
        victim   == CHOOSE b \in quick : \A c \in quick : b <= c
    IN IF ~Ok(s) THEN s
       ELSE IF quick = {} THEN Fail(s, "NO_DELETED_BLOCKS")
       ELSE EraseBlock([s EXCEPT !.deleted = @ - Cardinality(Freed(victim))], victim)

(***************************************************************************)
(* Allocating, moving and deleting pages.                                  *)
(***************************************************************************)
FindFree(s) ==
    LET low      == ~s.cleaning /\ s.freeBlocks < 2
        Swept(t) == IF t.res = "NO_DELETED_BLOCKS" THEN [t EXCEPT !.res = "OK"] ELSE t
        Taken(t, p) ==
            IF p = NoPage THEN Fail(t, "NOT_FOUND")
            ELSE [t EXCEPT !.pix = p, !.fcb = BlockOf(p), !.fce = EntryOf(p) + 1,
                           !.freeBlocks = IF EntryOf(p) = 0 THEN @ - 1 ELSE @]
        Searched(t) ==
            IF ~Ok(t) THEN t
            ELSE IF low /\ t.freeBlocks < 2 THEN Fail(t, "FULL")
            ELSE Taken(t, FirstFrom((t.fcb * Entries + t.fce) % (Blocks * Entries),
                                    {q \in Page : t.lu[q] = FREE}))
    IN IF Ok(s) THEN Searched(IF low THEN Swept(GcQuick(s, 0)) ELSE s) ELSE s

Allocated(s) == IF Ok(s) THEN [s EXCEPT !.allocated = @ + 1] ELSE s

\* spiffs_page_allocate_data; NoData is the absence of data, draft pages are not finalized.
NoData == Blank

PageAllocate(s, raw, span, flags, data, draft) ==
    LET Taken(t) == Allocated(WriteLu(t, t.pix, raw))
        named    == Header(raw, span, flags \cup {"used"})
    IN WriteFoundIf(
           WriteFoundIf(WriteFound(Taken(FindFree(s)), named), data # NoData, data),
           ~draft /\ "final" \notin flags, FlagsOnly({"used", "final"}))

PageDelete(s, p) ==
    LET Counted(t) == IF Ok(t) THEN [t EXCEPT !.deleted = @ + 1, !.allocated = @ - 1] ELSE t
    IN Write(Counted(WriteLu(s, p, DELETED)), p, FlagsOnly({"used", "delet"}))

\* spiffs_page_move of the page held in work: it is final at its new place once the lookup has it.
PageMove(s, raw, src) ==
    LET draft     == [s.work EXCEPT !.flags = (@ \ {"final"}) \cup {"used"}]
        Listed(t) == Allocated(WriteLu(t, t.pix, raw))
        Noted(t)  == IF Ok(t) THEN [t EXCEPT !.work.flags = @ \cup {"used"}] ELSE t
    IN PageDelete(Noted(WriteFoundIf(Listed(WriteFound(FindFree(s), draft)),
                                     "final" \in s.work.flags, FlagsOnly({"used", "final"}))),
                  src)

\* spiffs_page_move with no page data: spiffs_phys_cpy copies the page as it is, in chunks.
PageCopyMove(s, raw, src) ==
    LET first     == [s.pg[src] EXCEPT !.cells = CellsFrom(s.pg[src], 0, 1).cells]
        rest      == CellsFrom(s.pg[src], 1, Cardinality(Cell))
        Listed(t) == Allocated(WriteLu(t, t.pix, raw))
    IN PageDelete(Listed(WriteFound(WriteFound(FindFree(s), first), rest)), src)

(***************************************************************************)
(* Index maps: a buffer of page indices for data spans lo .. hi of a file. *)
(* NoMap is the absence of one.                                            *)
(***************************************************************************)
NoMap == [lo |-> 0, hi |-> -1, buf |-> <<>>]
HasMap(fd) == fd.map # NoMap

\* spiffs_update_ix_map: the entries of index page span x, up to the first that is free.
UpdateMap(map, x, cells) ==
    LET from == Larger(map.lo, FirstSpan(x))
        upto == Smaller(map.hi, FirstSpan(x) + IxCells(x) - 1)
        At(n) == cells[IxEntryOf(n)]
        Reached(n) == n \in from .. upto /\ \A m \in from .. n : At(m) # FREE
    IN [map EXCEPT !.buf = [n \in DOMAIN map.buf |-> IF Reached(n) THEN At(n) ELSE map.buf[n]]]

(***************************************************************************)
(* spiffs_cb_object_event: an index page of an object was made, moved,     *)
(* updated or deleted; open files and recently used descriptors follow.    *)
(***************************************************************************)
ObjectEventOfHeader(s, ev, id, span, p, size, cells) ==  \* mutant: index pages are not followed
    LET Moved(fd) == [fd EXCEPT !.hdr = p, !.size = IF size # 0 THEN size ELSE @]
        Gone(fd)  == [fd EXCEPT !.open = FALSE, !.id = DELETED]
        Followed(fd) == IF fd.score = 0 \/ fd.id # id THEN fd
                        ELSE IF ev = "DEL" THEN Gone(fd) ELSE Moved(fd)
    IN IF ~Ok(s) \/ span # 0 THEN s
       ELSE [s EXCEPT !.fds = [f \in Fds |-> Followed(s.fds[f])]]

ObjectEvent(s, ev, id, span, p, size, cells) ==
    LET Moved(fd) ==
            [fd EXCEPT !.hdr    = IF span = 0 THEN p ELSE @,
                       !.size   = IF span = 0 /\ size # 0 THEN size ELSE @,
                       !.ixpix  = IF fd.ixspan = span THEN p ELSE @]
        Gone(fd) ==
            [fd EXCEPT !.open   = IF span = 0 THEN FALSE ELSE @,
                       !.id     = IF span = 0 THEN DELETED ELSE @,
                       !.ixpix  = IF fd.ixspan = span THEN NoPage ELSE @]
        Followed(fd) == IF fd.score = 0 \/ fd.id # id THEN fd
                        ELSE IF ev = "DEL" THEN Gone(fd) ELSE Moved(fd)
        Mapped(fd) == IF ev \in {"UPD", "NEW"} /\ fd.open /\ HasMap(fd) /\ fd.id = id
                      THEN [fd EXCEPT !.map = UpdateMap(@, span, cells)] ELSE fd
    IN IF ~Ok(s) THEN s
       ELSE [s EXCEPT !.fds = [f \in Fds |-> Mapped(Followed(s.fds[f]))]]

(***************************************************************************)
(* spiffs_object_update_index_hdr: a new copy of the index header, from    *)
(* work when that holds it, with a new name or size when those are not 0.  *)
(***************************************************************************)
UpdateIndexHdr(s, f, id, hdr, inWork, name, size) ==
    LET Loaded(t) == IF inWork THEN t ELSE [t EXCEPT !.work = t.pg[hdr]]
        Valid(t)  == ValidateIx(t, t.work, Ix(id), 0)
        Edited(t) == IF ~Ok(t) THEN t
                     ELSE [t EXCEPT !.work.name = IF name # 0 THEN name ELSE @,
                                    !.work.size = IF size # 0 THEN size ELSE @]
        Told(t)   == ObjectEvent(t, IF inWork THEN "UPD" ELSE "UPD_HDR", id, 0, t.pix,
                                 t.work.size, t.work.cells)
        Noted(t)  == IF ~Ok(t) \/ f = 0 THEN t ELSE [t EXCEPT !.fds[f].hdr = t.pix]
    IN IF Ok(s) THEN Noted(Told(PageMove(Edited(Valid(Loaded(s))), Ix(id), hdr))) ELSE s
=============================================================================
