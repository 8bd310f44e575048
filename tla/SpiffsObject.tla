---------------------------- MODULE SpiffsObject ----------------------------
(***************************************************************************)
(* SPIFFS objects, that is files (the second half of spiffs_nucleus.c): an *)
(* object is a header page, which holds the index of its first data pages, *)
(* index pages for the rest, and data pages, each numbered by its span.    *)
(*                                                                         *)
(* The operators that walk an object keep in s.loop                        *)
(*    at     bytes written (or, truncating, the size reached)              *)
(*    x      the index span loaded into work, FREE before the first        *)
(*    ixpix  the page it was loaded from                                   *)
(*    broke  the error that ended the walk early but not the call          *)
(***************************************************************************)
EXTENDS SpiffsGc

Loop(at, ixpix) == [at |-> at, x |-> FREE, ixpix |-> ixpix, broke |-> "OK"]

Set(s, f, field, value) == IF Ok(s) THEN [s EXCEPT !.fds[f][field] = value] ELSE s

Span(off)   == off \div DataLen
Ref(s, n)   == s.work.cells[IxEntryOf(n)]
SetRef(s, n, p) == [s EXCEPT !.work.cells[IxEntryOf(n)] = p]

LoadWork(s, p, id, x) ==
    IF ~Ok(s) THEN s
    ELSE LET pg == IF p = NoPage THEN Blank ELSE s.pg[p]
         IN ValidateIx([s EXCEPT !.work = pg, !.loop.ixpix = p, !.loop.x = x], pg, Ix(id), x)

\* The index page x of an open file: where its cursor points, or the lookup.
FindIndex(s, f, x) ==
    IF s.fds[f].ixspan = x THEN [s EXCEPT !.pix = s.fds[f].ixpix]
    ELSE FindIdAndSpan(s, Ix(s.fds[f].id), x, NoPage)

SetCursor(s, f) ==
    IF Ok(s) THEN [s EXCEPT !.fds[f].ixpix = s.loop.ixpix, !.fds[f].ixspan = s.loop.x] ELSE s

\* A walk that broke off still stores its index; its error is the result unless that fails.
Break(s)   == IF Ok(s) THEN s ELSE [s EXCEPT !.loop.broke = s.res, !.res = "OK"]
Broken(s)  == s.loop.broke # "OK"
Result(s)  == Fail(s, s.loop.broke)

(***************************************************************************)
(* Creating and opening.                                                   *)
(***************************************************************************)
ObjectCreate(s, id, name) ==
    LET Taken(t) == Allocated(WriteLu(t, t.pix, Ix(id)))
        named    == [Header(Ix(id), 0, {"used", "final", "index"}) EXCEPT !.name = name]
        Told(t)  == ObjectEvent(t, "NEW", id, 0, t.pix, FREE, Blank.cells)
    IN Told(WriteFound(Taken(FindFree(GcCheck(s, DataLen))), named))

\* The header page is in pix.
OpenByPage(s, f, flags) ==
    LET p      == s.pix
        opened == [s EXCEPT !.fds[f].hdr = p, !.fds[f].size = s.pg[p].size,
                            !.fds[f].ixpix = p, !.fds[f].ixspan = 0,
                            !.fds[f].id = Plain(s.lu[p]), !.fds[f].flags = flags]
    IN IF Ok(s) THEN ValidateIx(opened, s.pg[p], s.lu[p], 0) ELSE s

\* spiffs_object_find_object_index_header_by_name_v: headers of that name that are in use.
NamedHeader(s, p, name) ==
    LET pg == s.pg[p]
    IN /\ s.lu[p] \notin {FREE, DELETED} /\ IsIx(s.lu[p])
       /\ pg.span = 0 /\ pg.name = name
       /\ "final" \in pg.flags /\ {"delet", "ixdele"} \cap pg.flags = {}

FindByName(s, name) ==
    IF ~Ok(s) THEN s
    ELSE FoundAt(s, FirstFrom(s.cursor, {p \in Page : NamedHeader(s, p, name)}))

\* spiffs_obj_lu_find_free_obj_id, whose bitmap has room for every id of this flash; name 0
\* is no name to conflict with.  The id goes to pix.
FindFreeId(s, name) ==
    LET used == {Plain(s.lu[p]) : p \in {q \in Page : s.lu[q] \notin {FREE, DELETED}}}
        free == 1 .. Blocks * Entries \ used
    IN IF ~Ok(s) THEN s
       ELSE IF name # 0 /\ \E p \in Page : NamedHeader(s, p, name)
       THEN Fail(s, "CONFLICTING_NAME")
       ELSE [s EXCEPT !.pix = CHOOSE i \in free : \A j \in free : i <= j, !.work = Blank]

(***************************************************************************)
(* Appending at offset, the end of the file: data is written page by page, *)
(* and index pages are stored as they fill up.                             *)
(***************************************************************************)
\* The loaded index page, and the header's size, once s.loop.at bytes are written.  The header
\* of a file that was empty is completed in place.
StoreGrown(s, f, offset) ==
    LET size     == offset + s.loop.at
        id       == s.fds[f].id
        x        == s.loop.x
        Whole(t) == Write(IndexCheck(t, t.loop.ixpix, id, x), t.loop.ixpix, t.work)
        Told(t)  == ObjectEvent(t, "UPD", id, t.work.span, t.loop.ixpix, 0, t.work.cells)
    IN IF ~Ok(s) THEN s
       ELSE IF x = 0 /\ offset = 0 THEN Whole([s EXCEPT !.work.size = size])
       ELSE UpdateIndexHdr(IF x = 0 THEN s ELSE Told(Whole(s)), f, id, s.fds[f].hdr, x = 0, 0, size)

AppendStore(s, f, offset) == Set(StoreGrown(s, f, offset), f, "size", offset + s.loop.at)

AppendLoad(s, f, offset, x) ==
    LET id       == s.fds[f].id
        last     == IxSpanOf(Span(s.fds[f].size - 1))
        Begun(t) == [t EXCEPT !.work = Header(Ix(id), x, {"used", "final", "index"}),
                              !.loop.ixpix = t.pix, !.loop.x = x]
        Told(t)  == ObjectEvent(t, "NEW", id, x, t.pix, 0, t.work.cells)
        Found(t) == LoadWork(t, t.pix, id, x)
        Noted(t) == Set(SetCursor(t, f), f, "size", offset + s.loop.at)
    IN IF ~Ok(s) THEN s
       ELSE IF x = 0 THEN LoadWork(s, s.loop.ixpix, id, 0)
       ELSE IF s.loop.at > 0 \/ x > last
       THEN Noted(Told(Begun(PageAllocate(s, Ix(id), x, {"final", "index"}, NoData, FALSE))))
       ELSE Noted(Found(FindIndex(s, f, x)))

AppendPage(s, f, offset, data) ==
    LET at    == offset + s.loop.at
        n     == Span(at)
        into  == at % DataLen
        bytes == SubSeq(data, s.loop.at + 1, Smaller(Len(data), s.loop.at + DataLen - into))
        Noted(t, p) == [SetRef(t, n, p) EXCEPT !.loop.at = @ + Len(bytes)]
        Fresh(t)    == IF Ok(t) THEN Noted(t, t.pix) ELSE Break(t)
        Grown(t)    == IF Ok(t) THEN Noted(t, Ref(s, n)) ELSE t
    IN IF ~Ok(s) THEN s
       ELSE IF into = 0
       THEN Fresh(PageAllocate(s, s.fds[f].id, n, {"final"}, Data(0, bytes), FALSE))
       ELSE Grown(Write(DataCheck(s, Ref(s, n), n), Ref(s, n), Data(into, bytes)))

RECURSIVE AppendPages(_, _, _, _)
AppendPages(s, f, offset, data) ==
    LET x == IxSpanOf(Span(offset + s.loop.at))
    IN IF ~Ok(s) \/ Broken(s) \/ s.loop.at = Len(data) THEN s
       ELSE AppendPages(
                AppendPage(IF x = s.loop.x THEN s
                           ELSE AppendLoad(IF s.loop.at > 0 THEN AppendStore(s, f, offset) ELSE s,
                                           f, offset, x),
                           f, offset, data),
                f, offset, data)

AppendFinish(s, f, offset) ==
    LET size    == offset + s.loop.at
        Told(t) == IF s.loop.x = 0 /\ offset = 0
                   THEN ObjectEvent(t, "UPD_HDR", s.fds[f].id, s.work.span, s.loop.ixpix, size,
                                    s.work.cells)
                   ELSE t
    IN IF Ok(s) THEN Result(Told(StoreGrown(Set(SetCursor(s, f), f, "size", size), f, offset)))
       ELSE s

ObjectAppend(s, f, offset, data) ==
    LET size     == s.fds[f].size
        end      == IF size # FREE /\ offset > size THEN size ELSE offset
        Begun(t) == [t EXCEPT !.loop = Loop(0, t.fds[f].hdr)]
    IN AppendFinish(AppendPages(Begun(GcCheck(s, Len(data) + DataLen)), f, end, data), f, end)

(***************************************************************************)
(* Modifying: each page written to is replaced by a new one.               *)
(***************************************************************************)
ModifyStore(s, f) ==
    LET id      == s.fds[f].id
        Told(t) == ObjectEvent([t EXCEPT !.loop.ixpix = t.pix],
                               "UPD", id, s.work.span, t.pix, 0, s.work.cells)
    IN IF ~Ok(s) THEN s
       ELSE IF s.loop.x = 0 THEN UpdateIndexHdr(s, f, id, s.fds[f].hdr, TRUE, 0, 0)
       ELSE Told(PageMove(IndexCheck(s, s.loop.ixpix, id, s.loop.x), Ix(id), s.loop.ixpix))

ModifyLoad(s, f, x) ==
    LET Found(t) == LoadWork(t, t.pix, s.fds[f].id, x)
    IN IF ~Ok(s) THEN s
       ELSE SetCursor(IF x = 0 THEN LoadWork(s, s.loop.ixpix, s.fds[f].id, 0)
                      ELSE Found(FindIndex(s, f, x)), f)

\* A page written in part: the rest is copied from the page it replaces.
RewritePageInPlace(s, f, n, into, bytes) ==      \* mutant: programmed over
    [Write(s, Ref(s, n), Data(into, bytes)) EXCEPT !.pix = Ref(s, n)]

RewritePage(s, f, n, into, bytes) ==
    LET old   == s.pg[Ref(s, n)]
        rest  == into + Len(bytes)
    IN WriteFound(
           WriteFound(
               WriteFoundIf(
                   WriteFoundIf(PageAllocate(s, s.fds[f].id, n, {}, NoData, TRUE),
                                into > 0, CellsFrom(old, 0, into)),
                   rest < DataLen, CellsFrom(old, rest, DataLen)),
               Data(into, bytes)),
           FlagsOnly({"used", "final"}))

ModifyPage(s, f, offset, data) ==
    LET at    == offset + s.loop.at
        n     == Span(at)
        into  == at % DataLen
        bytes == SubSeq(data, s.loop.at + 1, Smaller(Len(data), s.loop.at + DataLen - into))
        checked == DataCheck(s, Ref(s, n), n)
        Noted(t, new)    == IF Ok(t) THEN [SetRef(t, n, new) EXCEPT !.loop.at = @ + Len(bytes)]
                            ELSE Break(t)
        Replaced(t, new) == Noted(PageDelete(t, Ref(s, n)), new)
        \* whether a full page could be allocated is not looked at before the old one is deleted
        Full(t) == Replaced([t EXCEPT !.res = "OK"], IF Ok(t) THEN t.pix ELSE Garbage)
        Part(t) == Replaced(t, t.pix)
    IN IF ~Ok(s) THEN s
       ELSE IF Len(bytes) = DataLen
       THEN Full(PageAllocate(s, s.fds[f].id, n, {}, Data(0, bytes), FALSE))
       ELSE IF ~Ok(checked) THEN checked
       ELSE Part(RewritePage(s, f, n, into, bytes))

RECURSIVE ModifyPages(_, _, _, _)
ModifyPages(s, f, offset, data) ==
    LET x == IxSpanOf(Span(offset + s.loop.at))
    IN IF ~Ok(s) \/ Broken(s) \/ s.loop.at = Len(data) THEN s
       ELSE ModifyPages(
                ModifyPage(IF x = s.loop.x THEN s
                           ELSE ModifyLoad(IF s.loop.at > 0 THEN ModifyStore(s, f) ELSE s, f, x),
                           f, offset, data),
                f, offset, data)

ObjectModify(s, f, offset, data) ==
    LET Begun(t)  == [t EXCEPT !.loop = Loop(0, t.fds[f].hdr)]
        Stored(t) == Result(IF t.loop.x = 0 THEN t ELSE SetCursor(t, f))
        Walked(t) == SetCursor(t, f)
    IN Stored(ModifyStore(
           Walked(ModifyPages(Begun(GcCheck(s, Len(data) + DataLen)), f, offset, data)), f))

AppendRest(s, f, offset, data) ==
    IF ~Ok(s) \/ data = <<>> THEN s ELSE ObjectAppend(s, f, offset, data)

\* spiffs_hydro_write: what lies within the file is modified, the rest is appended.
HydroWrite(s, f, offset, data) ==
    LET size   == s.fds[f].size
        inside == IF size # FREE /\ offset < size THEN Smaller(size - offset, Len(data)) ELSE 0
    IN AppendRest(IF inside > 0 THEN ObjectModify(s, f, offset, SubSeq(data, 1, inside)) ELSE s,
                  f, offset + inside, SubSeq(data, inside + 1, Len(data)))

(***************************************************************************)
(* Truncating to nothing, the only size the callers ask for: pages are     *)
(* deleted from the end.  If all is TRUE the file goes too.                *)
(***************************************************************************)
\* The index page of span x has lost its last data page.
TruncateStore(s, f, all) ==
    LET id      == s.fds[f].id
        ixpix   == s.loop.ixpix
        told    == ObjectEvent(PageDelete(IndexCheck(s, ixpix, id, s.loop.x), ixpix),
                               "DEL", id, s.work.span, ixpix, 0, Blank.cells)
    IN Set(IF all THEN told ELSE UpdateIndexHdr(told, f, id, s.fds[f].hdr, FALSE, 0, s.loop.at),
           f, "size", s.loop.at)

TruncateLoad(s, f, x) ==
    LET id       == s.fds[f].id
        Found(t) == LoadWork(t, t.pix, id, x)
    IN IF ~Ok(s) THEN s
       ELSE SetCursor(IF x = 0 THEN LoadWork(s, s.fds[f].hdr, id, 0)
                      ELSE Found(FindIdAndSpan(s, Ix(id), x, NoPage)), f)

TruncatePage(s, f) ==
    LET n          == Span(s.loop.at - 1)
        Gone(t)    == IF Ok(t) THEN Set([SetRef(t, n, FREE) EXCEPT !.loop.at = n * DataLen],
                                        f, "size", n * DataLen)
                      ELSE Break(t)
        Checked(t) == IF t.res \notin {"OK", "DELETED", "INDEX_REF_FREE"}
                      THEN Break(SetRef(t, n, FREE))
                      ELSE Gone(IF Ok(t) THEN PageDelete(s, Ref(s, n)) ELSE s)
    IN IF Ok(s) THEN Checked(DataCheck(s, Ref(s, n), n)) ELSE s

RECURSIVE TruncatePages(_, _, _)
TruncatePages(s, f, all) ==
    LET x == IxSpanOf(Span(s.loop.at - 1))
    IN IF ~Ok(s) \/ Broken(s) \/ s.loop.at = 0 THEN s
       ELSE TruncatePages(
                TruncatePage(IF x = s.loop.x THEN s
                             ELSE TruncateLoad(IF s.loop.x # FREE THEN TruncateStore(s, f, all)
                                               ELSE s, f, x), f),
                f, all)

TruncateFinish(s, f, all) ==
    LET id     == s.fds[f].id
        size   == s.loop.at
        x      == s.loop.x
        ixpix  == s.loop.ixpix
        gone   == ObjectEvent(PageDelete(IndexCheck(s, ixpix, id, 0), ixpix),
                              "DEL", id, 0, ixpix, 0, Blank.cells)
        Told(t)  == ObjectEvent(t, "UPD", id, s.work.span, t.pix, 0, s.work.cells)
        Cut(t)   == SetCursor([t EXCEPT !.loop.ixpix = t.pix], f)
        Sized(t) == Set(t, f, "size", size)
    IN IF ~Ok(s) THEN s
       ELSE IF x \notin {0, FREE}
       THEN Sized(UpdateIndexHdr(Cut(Told(PageMove(IndexCheck(s, ixpix, id, x), Ix(id), ixpix))),
                                 f, id, s.fds[f].hdr, FALSE, 0, size))
       ELSE IF size = 0 /\ all THEN Sized(gone)
       ELSE Sized(UpdateIndexHdr([s EXCEPT !.work.cells = IF size = 0 THEN Blank.cells ELSE @],
                                 f, id, ixpix, TRUE, 0, IF size = 0 THEN FREE ELSE size))

ObjectTruncate(s, f, all) ==
    LET size      == s.fds[f].size
        Marked(t) == IF all THEN Write(t, t.fds[f].hdr, FlagsOnly({"used", "index", "final", "ixdele"}))
                     ELSE t
        Begun(t)  == [t EXCEPT !.loop = Loop(IF size = FREE THEN 0 ELSE size, t.fds[f].hdr)]
    IN IF ~Ok(s) \/ (size \in {0, FREE} /\ ~all) THEN s
       ELSE TruncateFinish(
                TruncatePages(Begun(Marked(IF all THEN s ELSE GcCheck(s, 2 * DataLen))), f, all),
                f, all)

(***************************************************************************)
(* Reading: len bytes from offset go to s.out.                             *)
(***************************************************************************)
ReadPage(s, f, end) ==
    LET fd    == s.fds[f]
        off   == s.loop.at
        n     == Span(off)
        x     == IxSpanOf(n)
        mapped == HasMap(fd) /\ n \in fd.map.lo .. fd.map.hi /\ fd.map.buf[n] # NoPage
        Found(t) == LoadWork(t, t.pix, fd.id, x)
        ready == IF mapped \/ x = s.loop.x THEN s
                 ELSE SetCursor(IF x = 0 THEN LoadWork(s, fd.hdr, fd.id, 0)
                                ELSE Found(FindIndex(s, f, x)), f)
        len   == Smaller(Smaller(end - off, DataLen - (off % DataLen)), fd.size)
        Bytes(p)   == [i \in 1 .. len |-> s.pg[p].cells[(off % DataLen) + i - 1]]
        Got(t, p)  == IF Ok(t) THEN [t EXCEPT !.out = @ \o Bytes(p), !.loop.at = @ + len] ELSE t
        From(t, p) == Got(DataCheck(t, p, n), p)
        Ready(t)   == From(t, IF mapped THEN fd.map.buf[n] ELSE Ref(t, n))
    IN Ready(ready)

RECURSIVE ReadPages(_, _, _)
ReadPages(s, f, end) ==
    IF ~Ok(s) \/ s.loop.at >= end THEN s ELSE ReadPages(ReadPage(s, f, end), f, end)

ObjectRead(s, f, offset, len) ==
    ReadPages([s EXCEPT !.out = <<>>, !.loop = Loop(offset, s.fds[f].hdr)], f, offset + len)
=============================================================================
