---------------------------- MODULE SpiffsCheck ----------------------------
(***************************************************************************)
(* SPIFFS_check (spiffs_check.c): three passes that mend what the loss of  *)
(* power left half done.  Errors of a pass end it and are ignored.         *)
(*                                                                         *)
(* Some of the first pass is left out, for lookup entries that disagree    *)
(* with the complete header of their page: a data page of another object,  *)
(* a page that is and is not an index, and what reads a variable that was  *)
(* not set or leaves another lookup page in lu_work.  No call of SPIFFS,   *)
(* loss of power or damage of the tests makes those, and the pass stops    *)
(* with UNMODELLED there.                                                  *)
(***************************************************************************)
EXTENDS SpiffsApi

AsIx(raw) == IF raw = FREE THEN FREE ELSE Ix(Plain(raw))
PageSeq   == [i \in 1 .. Blocks * Entries |-> i]

\* A search that may come back with nothing, which is NoPage.
Lookup(s, raw, span, exclude) ==
    LET Found(t) == IF t.res = "NOT_FOUND" THEN [s EXCEPT !.pix = NoPage] ELSE t
    IN Found(FindIdAndSpan(s, raw, span, exclude))

\* spiffs_object_get_data_page_index_reference: pix is the index page and out the page it refers to.
Reference(s, raw, span) ==
    LET Found(t) == IF Ok(t) THEN [t EXCEPT !.out = <<t.pg[t.pix].cells[IxEntryOf(span)]>>] ELSE t
    IN Found(FindIdAndSpan(s, AsIx(raw), IxSpanOf(span), NoPage))

\* spiffs_rewrite_page: a copy of page p under another header.
RewriteAs(s, p, raw, flags) ==
    LET Filled(t) == Write(t, t.pix, [s.pg[p] EXCEPT !.id = FREE, !.span = FREE, !.flags = {}])
    IN Filled(PageAllocate(s, raw, s.pg[p].span, flags, NoData, TRUE))
RewrittenPage(s, p) == RewriteAs(s, p, s.pg[p].id, s.pg[p].flags)

\* spiffs_rewrite_index: a copy of index page ixpix that refers to page p for data span n.  It is
\* not counted as allocated; a copy that cannot be made costs the page that was found for it.
Unmended == {"CHECK_OBJ_ID_MISM", "CHECK_SPIX_MISM", "CHECK_FLAGS_BAD"}
RewriteIndex(s, raw, n, p, ixpix) ==
    LET old  == s.pg[ixpix]
        bad  == IF old.id # AsIx(raw) THEN "CHECK_OBJ_ID_MISM"
                ELSE IF old.span # IxSpanOf(n) THEN "CHECK_SPIX_MISM"
                ELSE IF old.flags # {"used", "final", "index"} THEN "CHECK_FLAGS_BAD" ELSE "OK"
        Copied(t) == Write(t, t.pix, [old EXCEPT !.cells[IxEntryOf(n)] = p])
        Listed(t) == PageDelete(WriteLu(t, t.pix, AsIx(raw)), ixpix)
        Wasted(t) == [PageDelete(t, t.pix) EXCEPT !.res = IF @ = "POWER" THEN @ ELSE bad]
        Found(t)  == IF ~Ok(t) THEN t
                     ELSE IF bad # "OK" THEN Wasted(t) ELSE Listed(Copied(t))
    IN Found(FindFree(s))

DeleteObjLazyOther(s, raw) ==                    \* mutant: a header of whatever object
    LET hit == FirstFrom(s.cursor, {p \in Page : s.lu[p] # FREE /\ IsIx(s.lu[p]) /\ s.pg[p].span = 0})
    IN IF Ok(s) /\ hit # NoPage THEN Write(s, hit, FlagsOnly({"ixdele"})) ELSE s

DeleteObjLazy(s, raw) ==
    LET Found(t) == IF Ok(t) /\ t.pix # NoPage THEN Write(t, t.pix, FlagsOnly({"ixdele"})) ELSE t
    IN Found(Lookup(s, raw, 0, NoPage))

\* The index refers to page p from now on; if it cannot be mended the page and the object go.
Mend(s, raw, n, p, ixpix) ==
    LET Mended(t) == IF t.res \in Unmended
                     THEN DeleteObjLazy(PageDelete([t EXCEPT !.res = "OK"], p), raw) ELSE t
    IN Mended(RewriteIndex(s, raw, n, p, ixpix))

(***************************************************************************)
(* First pass: each lookup entry against the header of its page.           *)
(***************************************************************************)
\* In use by its header but not by the lookup: worth a copy if nothing else has the content.
SaveUnlisted(s, p) ==
    LET pg == s.pg[p]
        Copied(t, ixpix) == IF Ok(t) THEN Mend(t, pg.id, pg.span, t.pix, ixpix) ELSE t
        OfData(t)  == IF t.res = "NOT_FOUND" THEN s
                      ELSE IF ~Ok(t) \/ t.out # <<p>> THEN t
                      ELSE Copied(RewrittenPage(t, p), t.pix)
        Headed(t)  == IF Ok(t) THEN RewrittenPage(t, p) ELSE s
        OfIndex(t) == IF t.res # "NOT_FOUND" THEN t
                      ELSE Headed(FindIdAndSpanByPhdr(s, AsIx(pg.id), 0, NoPage))
    IN IF "index" \notin pg.flags THEN OfData(Reference(s, pg.id, pg.span))
       ELSE OfIndex(FindIdAndSpan(s, AsIx(pg.id), pg.span, p))

\* Listed and not final: finished if an index refers to it.
FinishDraftDeleting(s, p) == PageDelete(s, p)    \* mutant: whoever refers to it

FinishDraft(s, p) ==
    LET Asked(t) == IF t.res = "NOT_FOUND" THEN PageDelete(s, p)
                    ELSE IF ~Ok(t) THEN t
                    ELSE IF t.out # <<p>> THEN PageDelete(t, p)
                    ELSE Write(t, p, FlagsOnly({"final"}))
    IN Asked(Reference(s, s.lu[p], s.pg[p].span))

\* The lookup names another object than the header of index page p: the one that lacks this
\* index page but has data is right.
ResolveOwner(s, p) ==
    LET raw == s.lu[p]
        pg  == s.pg[p]
        As(t, id) == PageDelete(RewriteAs(t, p, AsIx(id), {"used", "final", "index"}), p)
        DataPh(t, indexLu, indexPh, dataLu) ==
            IF t.pix # NoPage /\ indexPh = NoPage THEN As(t, pg.id)
            ELSE IF t.pix # NoPage /\ indexLu = NoPage /\ dataLu # NoPage THEN As(t, raw)
            ELSE Fail(s, "UNMODELLED")
        DataLu(t, indexLu, indexPh) ==
            DataPh(Lookup(t, Plain(pg.id), 0, NoPage), indexLu, indexPh, t.pix)
        IndexPh(t, indexLu) == DataLu(Lookup(t, Plain(raw), 0, NoPage), indexLu, t.pix)
        IndexLu(t) == IndexPh(Lookup(t, AsIx(pg.id), pg.span, NoPage), t.pix)
    IN IndexLu(Lookup(s, AsIx(raw), pg.span, NoPage))

LookupCheckValidate(s, p) ==
    LET raw == s.lu[p]
        pg  == s.pg[p]
        complete == {"used", "final"} \subseteq pg.flags /\ "delet" \notin pg.flags
        unlisted == \/ raw = DELETED /\ "delet" \notin pg.flags
                    \/ raw = FREE /\ "used" \in pg.flags
        saved    == SaveUnlisted(s, p)
    IN IF ~Ok(s) THEN s
       ELSE IF raw \in {FREE, DELETED} THEN
            IF unlisted THEN PageDelete(saved, p) ELSE s
       ELSE IF Plain(raw) # Plain(pg.id) THEN
            IF ~complete \/ {"index", "ixdele"} \subseteq pg.flags THEN PageDelete(s, p)
            ELSE IF "index" \in pg.flags THEN ResolveOwner(s, p) ELSE Fail(s, "UNMODELLED")
       ELSE IF IsIx(raw) # ("index" \in pg.flags) THEN Fail(s, "UNMODELLED")
       ELSE IF "delet" \in pg.flags THEN PageDelete(s, p)
       ELSE IF "final" \notin pg.flags THEN FinishDraft(s, p) ELSE s

LookupCheck(s) == IF Ok(s) THEN FoldLeft(LookupCheckValidate, s, PageSeq) ELSE s

(***************************************************************************)
(* Second pass: index pages that were not fully deleted, or that no header *)
(* belongs to.  reach holds the ids looked up so far.                      *)
(***************************************************************************)
IndexCheckEntry(t, p) ==
    LET s     == t.s
        raw   == s.lu[p]
        pg    == s.pg[p]
        marks == pg.flags \cap {"index", "final", "delet", "ixdele"}
        Noted(there) == [r \in DOMAIN t.reach \cup {raw} |->
                            IF r = raw THEN (IF raw \in DOMAIN t.reach THEN t.reach[r]
                                             ELSE pg.span = 0 \/ there)
                            ELSE t.reach[r]]
        Known(u, there) == IF pg.span = 0 \/ there THEN [t EXCEPT !.reach = Noted(there)]
                           ELSE [s |-> PageDelete(u, p), reach |-> Noted(there)]
        Asked(u) == Known(u, u.pix # NoPage)
    IN IF ~Ok(s) \/ raw \in {FREE, DELETED} \/ ~IsIx(raw) \/ marks = {"index", "final"} THEN t
       ELSE IF pg.span = 0 /\ marks = {"index", "final", "ixdele"}
       THEN [t EXCEPT !.s = PageDelete(s, p)]
       ELSE IF raw \in DOMAIN t.reach THEN Known(s, t.reach[raw])
       ELSE Asked(Lookup(s, raw, 0, NoPage))

ObjectIndexCheck(s) ==
    IF Ok(s) THEN FoldLeft(IndexCheckEntry, [s |-> s, reach |-> <<>>], PageSeq).s ELSE s

(***************************************************************************)
(* Third pass: what each index refers to, and pages no index refers to.    *)
(* t collects the pages used, those that are an index and those referred   *)
(* to; after most repairs the pass starts over.                            *)
(***************************************************************************)
Scan(s) == [s |-> s, used |-> {}, index |-> {}, refd |-> {}, restart |-> FALSE, left |-> FALSE]

\* The index page p refers to no page for span n: take the data page there is, or make one.  The
\* code takes the id of the object from lu_work, where each search leaves the lookup page of the
\* block it read last: it is the first entry of that block.  Mostly that is another object, the
\* index is not rewritten, and the index page goes.
LastRead(start, p) ==
    IF p # NoPage THEN BlockOf(p) ELSE ((start - 1) % (Blocks * Entries)) \div Entries
FirstEntry(s, b) == s.lu[PixOf(b, 0)]
DataIdOf(raw) == IF raw = FREE THEN IxFlag - 1 ELSE Plain(raw)

FixBadRef(t, p, n) ==
    LET s    == t.s
        sought == Lookup(s, Plain(s.pg[p].id), n, NoPage)
        read == FirstEntry(s, LastRead(s.cursor, sought.pix))
        made == PageAllocate(sought, DataIdOf(read), n, {"final"}, NoData, FALSE)
        readForMade == IF EntryOf(made.pix) = 0 THEN FREE ELSE FirstEntry(made, BlockOf(made.pix))
        Done(u) == IF u.res \in Unmended THEN PageDelete([u EXCEPT !.res = "OK"], p) ELSE u
        Mended(u, raw) == IF Ok(u) THEN Done(RewriteIndex(u, raw, n, u.pix, p)) ELSE u
    IN [t EXCEPT !.s = IF ~Ok(sought) THEN sought
                       ELSE IF sought.pix # NoPage THEN Mended(sought, read)
                       ELSE IF Ok(made) THEN Mended(made, readForMade) ELSE made,
                 !.restart = TRUE]

\* The index page p refers to a page that is not its data span n.
FixWrongRefNever(t, p, n, ref) ==                \* mutant: the pass starts over as it was
    [t EXCEPT !.restart = TRUE]

FixWrongRef(t, p, n, ref) ==
    LET raw     == t.s.pg[p].id
        Done(u) == IF u.res \in Unmended THEN DeleteObjLazy([u EXCEPT !.res = "OK"], raw) ELSE u
        Found(u) == IF ~Ok(u) THEN [t EXCEPT !.s = u]
                    ELSE IF u.pix = NoPage
                    THEN [t EXCEPT !.s = DeleteObjLazy(u, raw), !.left = TRUE]
                    ELSE [t EXCEPT !.s = Done(RewriteIndex(u, raw, n, u.pix, p)), !.restart = TRUE]
    IN Found(Lookup(t.s, Plain(raw), n, ref))

\* Two indices refer to one page: the object of the second goes, and its page.
FixSharedRef(t, p) ==
    [t EXCEPT !.s = PageDelete(DeleteObjLazy(t.s, t.s.pg[p].id), p), !.restart = TRUE]

CheckRef(t, p, n) ==
    LET s     == t.s
        ref   == s.pg[p].cells[IxEntryOf(n)]
        right == /\ s.pg[ref].id = Plain(s.pg[p].id) /\ s.pg[ref].span = n
                 /\ s.pg[ref].flags \cap {"used", "delet", "index"} = {"used"}
    IN IF ~Ok(s) \/ t.restart \/ t.left \/ ref = FREE THEN t
       ELSE IF ref \notin Page THEN FixBadRef(t, p, n)
       ELSE IF ~right THEN FixWrongRef(t, p, n, ref)
       ELSE IF ref \in t.refd THEN FixSharedRef(t, p)
       ELSE [t EXCEPT !.refd = @ \cup {ref}]

CheckPage(t, p) ==
    LET pg      == t.s.pg[p]
        used    == "used" \in pg.flags /\ "delet" \notin pg.flags
        isIndex == used /\ "index" \in pg.flags /\ "ixdele" \notin pg.flags
        begun   == [t EXCEPT !.used  = IF used THEN @ \cup {p} ELSE @,
                             !.index = IF isIndex THEN @ \cup {p} ELSE @, !.left = FALSE]
    IN IF ~Ok(t.s) \/ t.restart THEN t
       ELSE IF ~isIndex THEN begun
       ELSE FoldLeft(LAMBDA u, i : CheckRef(u, p, FirstSpan(pg.span) + i - 1), begun,
                     [i \in 1 .. IxCells(pg.span) |-> i])

\* Page p is used and nothing refers to it.
CheckOrphanIndex(t, p) ==                        \* mutant: an index page is an orphan, too
    IF ~Ok(t.s) \/ t.restart \/ p \notin t.used \ t.refd THEN t
    ELSE [t EXCEPT !.s = PageDelete(t.s, p)]

CheckOrphan(t, p) ==
    LET pg         == t.s.pg[p]
        Valid(ref) == /\ ref \in Page
                      /\ t.s.pg[ref].id = Plain(pg.id)
                      /\ t.s.pg[ref].flags \cap {"used", "final", "index", "delet"} = {"used", "final"}
        Asked(u) ==
            IF u.res = "NOT_FOUND" THEN [t EXCEPT !.s = PageDelete(@, p)]
            ELSE IF ~Ok(u) THEN [t EXCEPT !.s = u]
            ELSE IF Valid(u.out[1]) THEN [t EXCEPT !.s = PageDelete(u, p)]
            ELSE IF u.out[1] = p THEN [t EXCEPT !.s = u]
            ELSE [t EXCEPT !.s = Mend(u, pg.id, pg.span, p, u.pix), !.restart = TRUE]
    IN IF ~Ok(t.s) \/ t.restart \/ p \notin t.used \ (t.refd \cup t.index) THEN t
       ELSE Asked(Reference(t.s, pg.id, pg.span))

\* The pass starts over until nothing was repaired; ENDLESS stands for doing so forever.
RECURSIVE PageRounds(_, _)
PageRounds(s, rounds) ==
    LET Used(t)    == IF Ok(t.s) THEN FoldLeft(CheckOrphan, t, PageSeq) ELSE t
        Checked(t) == IF ~t.restart \/ ~Ok(t.s) THEN t.s
                      ELSE IF rounds = 0 THEN Fail(t.s, "ENDLESS")
                      ELSE PageRounds(t.s, rounds - 1)
    IN IF Ok(s) THEN Checked(Used(FoldLeft(CheckPage, Scan(s), PageSeq))) ELSE s

PageCheck(s) == PageRounds(s, 8)

(***************************************************************************)
(* SPIFFS_check.  Only the loss of power stops it.                         *)
(***************************************************************************)
Pass(s) == IF s.res \in {"POWER", "UNMODELLED", "ENDLESS"} THEN s ELSE Ignoring(s)
CheckCallOnly(s) ==                              \* mutant: the counters are not computed anew
    Pass(PageCheck(Pass(ObjectIndexCheck(Pass(LookupCheck(s))))))

CheckCall(s) ==
    LET Counted(t) == IF Ok(t) THEN LookupScan(t) ELSE t
    IN Counted(Pass(PageCheck(Pass(ObjectIndexCheck(Pass(LookupCheck(s)))))))
=============================================================================
