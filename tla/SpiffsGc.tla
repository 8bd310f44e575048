------------------------------ MODULE SpiffsGc ------------------------------
(***************************************************************************)
(* The garbage collector (spiffs_gc.c): before a call that needs pages,    *)
(* blocks are emptied into the free pages of others and erased until the   *)
(* pages asked for and two free blocks are there.                          *)
(***************************************************************************)
EXTENDS SpiffsNucleus

GcMaxRuns == 5                                 \* SPIFFS_GC_MAX_RUNS
Weight == [delet |-> 5, used |-> -1, age |-> 50]  \* SPIFFS_GC_HEUR_W_*

EntrySeq == [i \in 1 .. Entries |-> i - 1]

\* Pages the file system may still hand out, two blocks being kept in reserve.
FreePages(s) == Entries * (Blocks - 2) - s.allocated - s.deleted

(***************************************************************************)
(* spiffs_gc_find_candidate: the block with the best score.  The scan of a *)
(* block ends at its first free entry.                                     *)
(***************************************************************************)
Scanned(s, b) == {p \in PagesOf(b) : \A q \in PagesOf(b) : q <= p => s.lu[q] # FREE}
Dirty(s, b)   == {p \in Scanned(s, b) : s.lu[p] = DELETED}

EraseAge(s, b) ==
    LET count == IF s.ec[b] = FREE THEN 2 * EraseWrap - 1 ELSE s.ec[b]
    IN IF s.maxErase > count THEN s.maxErase - count
       ELSE 2 * EraseWrap - 1 - (count - s.maxErase)

Score(s, b, crammed) ==
    Cardinality(Dirty(s, b)) * Weight.delet
    + Cardinality(Scanned(s, b) \ Dirty(s, b)) * Weight.used
    + (IF crammed THEN 0 ELSE EraseAge(s, b) * Weight.age)

Candidates(s) == {b \in Block : Dirty(s, b) # {}}

Candidate(s, crammed) ==
    CHOOSE b \in Candidates(s) : \A c \in Candidates(s) :
        \/ Score(s, b, crammed) > Score(s, c, crammed)
        \/ Score(s, b, crammed) = Score(s, c, crammed) /\ b <= c

(***************************************************************************)
(* spiffs_gc_clean.  Data pages go first: for each index page that refers  *)
(* to some in the block (loaded into work), those pages are moved and the  *)
(* updated index page is stored.  Then index pages are moved.              *)
(***************************************************************************)
MoveDataPageUnnoted(s, b, e, id, x) ==           \* mutant: the index page is not updated
    LET p == PixOf(b, e)
    IN IF ~Ok(s) \/ s.lu[p] # id \/ IxSpanOf(s.pg[p].span) # x THEN s ELSE PageCopyMove(s, id, p)

MoveDataPage(s, b, e, id, x) ==
    LET p    == PixOf(b, e)
        span == s.pg[p].span
        gone == "delet" \in s.pg[p].flags
        Noted(t) == IF ~Ok(t) THEN t
                    ELSE [t EXCEPT !.work.cells[IxEntryOf(span)] = IF gone THEN FREE ELSE t.pix]
    IN IF ~Ok(s) \/ s.lu[p] # id \/ IxSpanOf(span) # x THEN s
       ELSE Noted(IF gone THEN PageDelete(s, p) ELSE PageCopyMove(s, id, p))

StoreIndex(s, id, x, ixpix) ==
    LET Told(t) == ObjectEvent(t, "UPD", id, t.work.span, t.pix, 0, t.work.cells)
    IN IF x = 0 THEN UpdateIndexHdr(s, 0, id, ixpix, TRUE, 0, 0)
       ELSE Told(PageMove(s, Ix(id), ixpix))

\* Data page p goes to its index page, if the search for that has found it, and with p all
\* pages of the block that it refers to.
EvacuateWith(s, b, p, id, x) ==
    LET loaded == ValidateIx([s EXCEPT !.work = s.pg[s.pix]], s.pg[s.pix], Ix(id), x)
    IN IF s.res = "NOT_FOUND" THEN PageDelete([s EXCEPT !.res = "OK"], p)
       ELSE StoreIndex(FoldLeft(LAMBDA t, i : MoveDataPage(t, b, i, id, x), loaded, EntrySeq),
                       id, x, s.pix)

\* Entry e holds a data page: evacuate it with all those its index page refers to.
EvacuateData(s, b, e) ==
    LET p  == PixOf(b, e)
        id == s.lu[p]
        x  == IxSpanOf(s.pg[p].span)
    IN EvacuateWith(FindIdAndSpan(s, Ix(id), x, NoPage), b, p, id, x)

EvacuateDataEntry(s, b, e) ==
    IF Ok(s) /\ s.lu[PixOf(b, e)] \notin {FREE, DELETED} /\ ~IsIx(s.lu[PixOf(b, e)])
    THEN EvacuateData(s, b, e) ELSE s

EvacuateIndexEntry(s, b, e) ==
    LET p    == PixOf(b, e)
        raw  == s.lu[p]
        span == s.pg[p].span
        Told(t, ev, new) == ObjectEvent(t, ev, Plain(raw), span, new, 0, Blank.cells)
        Moved(t) == Told(t, "MOV", t.pix)
    IN IF ~Ok(s) \/ raw \in {FREE, DELETED} \/ ~IsIx(raw) THEN s
       ELSE IF "delet" \in s.pg[p].flags THEN Told(PageDelete(s, p), "DEL", p)
       ELSE Moved(PageCopyMove(s, raw, p))

GcClean(s, b) ==
    LET away == IF s.fcb = b THEN [s EXCEPT !.fcb = (b + 1) % Blocks, !.fce = 0] ELSE s
    IN FoldLeft(LAMBDA t, e : EvacuateIndexEntry(t, b, e),
                FoldLeft(LAMBDA t, e : EvacuateDataEntry(t, b, e), away, EntrySeq), EntrySeq)

\* spiffs_gc_erase_page_stats.
ErasePageStatsOfUsed(s, b) ==                    \* mutant: the deleted pages are still counted
    IF ~Ok(s) THEN s
    ELSE [s EXCEPT
            !.allocated = @ - Cardinality({p \in PagesOf(b) : s.lu[p] \notin {FREE, DELETED}})]

ErasePageStats(s, b) ==
    IF ~Ok(s) THEN s
    ELSE [s EXCEPT
            !.deleted   = @ - Cardinality({p \in PagesOf(b) : s.lu[p] = DELETED}),
            !.allocated = @ - Cardinality({p \in PagesOf(b) : s.lu[p] \notin {FREE, DELETED}})]

\* One round of spiffs_gc_check.
CollectBlock(s, b) ==
    LET Erased(t) == IF t.res = "POWER" THEN t
                     ELSE EraseBlock(ErasePageStats([t EXCEPT !.cleaning = FALSE], b), b)
    IN Erased(GcClean([s EXCEPT !.cleaning = TRUE], b))

GcBlock(s) == CollectBlock(s, Candidate(s, FreePages(s) <= 0))

(***************************************************************************)
(* spiffs_gc_check: make room for len units of data.                       *)
(***************************************************************************)
Pages(len) == (len + DataLen - 1) \div DataLen

RECURSIVE GcRounds(_, _, _)
GcRounds(s, len, tries) ==
    LET Full(t)  == len > FreePages(t) * DataLen
        Stuck(t) == FreePages(s) <= 0 /\ FreePages(t) = FreePages(s)
        Again(t) == ~Stuck(t) /\ tries + 1 < GcMaxRuns /\ (t.freeBlocks <= 2 \/ Full(t))
        Round(t) == IF ~Ok(t) THEN t
                    ELSE IF Again(t) THEN GcRounds(t, len, tries + 1)
                    ELSE IF Full(t) THEN Fail(t, "FULL") ELSE t
    IN IF Candidates(s) # {} THEN Round(GcBlock(s))
       ELSE IF Pages(len) < FreePages(s) THEN s ELSE Fail(s, "FULL")

GcCheck(s, len) ==
    IF ~Ok(s) \/ (s.freeBlocks > 3 /\ len < FreePages(s) * DataLen) THEN s
    ELSE IF Pages(len) > FreePages(s) + s.deleted THEN Fail(s, "FULL")
    ELSE GcRounds(s, len, 0)
=============================================================================
