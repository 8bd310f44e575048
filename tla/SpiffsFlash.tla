---------------------------- MODULE SpiffsFlash ----------------------------
(***************************************************************************)
(* The flash chip as SPIFFS lays it out (spiffs_nucleus.h, spiffs_config.h *)
(* and docs/TECH_SPEC): blocks of pages, an object lookup entry for each   *)
(* page, and an erase count for each block.  The lookup page of a block is *)
(* the function lu, so that pages are numbered without the lookup pages    *)
(* and page 0, which is a lookup page in the code, means "no page".        *)
(*                                                                         *)
(* NOR flash programs bits from 1 to 0 only.  A field is FREE (all ones)   *)
(* until it is programmed; programming another value over it gives the AND *)
(* of both, which is Garbage unless one of them is FREE, both are equal,   *)
(* or one of them is 0.                                                    *)
(***************************************************************************)
EXTENDS Integers, Sequences, FiniteSets, SequencesExt

CONSTANTS
    Blocks,    \* block_count
    Entries,   \* SPIFFS_OBJ_LOOKUP_MAX_ENTRIES: pages of a block, the lookup page excepted
    DataLen,   \* SPIFFS_DATA_PAGE_SIZE, in units of data
    HdrIxLen,  \* SPIFFS_OBJ_HDR_IX_LEN: entries of the index in an object header
    IxLen,     \* SPIFFS_OBJ_IX_LEN: entries of any other index page
    PageLen,   \* SPIFFS_CFG_LOG_PAGE_SZ in units of data: what a cache page holds
    IxFlag,    \* SPIFFS_OBJ_ID_IX_FLAG, a number above every object id
    EraseWrap  \* the erase count at which the counter wraps, 0x8000 in the code

ASSUME LayoutAssumption ==
    /\ Blocks \in Nat /\ Blocks > 2
    /\ {Entries, DataLen, HdrIxLen, IxLen, EraseWrap} \subseteq Nat \ {0}
    /\ PageLen \in Nat /\ PageLen >= DataLen
    /\ IxFlag \in Nat /\ IxFlag > Blocks * Entries

FREE    == -1     \* SPIFFS_OBJ_ID_FREE, SPIFFS_UNDEFINED_LEN, an unwritten cell
DELETED == 0      \* SPIFFS_OBJ_ID_DELETED
Garbage == -2
NoPage  == 0

Larger(a, b)  == IF a >= b THEN a ELSE b
Smaller(a, b) == IF a <= b THEN a ELSE b

(***************************************************************************)
(* Geometry.                                                               *)
(***************************************************************************)
Page  == 1 .. Blocks * Entries
Block == 0 .. Blocks - 1
Cell  == 0 .. Larger(DataLen, Larger(HdrIxLen, IxLen)) - 1

PixOf(b, e)   == b * Entries + e + 1
BlockOf(p)    == (p - 1) \div Entries
EntryOf(p)    == (p - 1) % Entries
PagesOf(b)    == {PixOf(b, e) : e \in 0 .. Entries - 1}

\* Where the index of a file holds the page of data span s (an unwritten span is in no index).
IxSpanOf(s)   == IF s < 0 THEN s ELSE IF s < HdrIxLen THEN 0 ELSE 1 + (s - HdrIxLen) \div IxLen
IxEntryOf(s)  == IF s < HdrIxLen THEN s ELSE (s - HdrIxLen) % IxLen
FirstSpan(x)  == IF x = 0 THEN 0 ELSE HdrIxLen + (x - 1) * IxLen
IxCells(x)    == IF x = 0 THEN HdrIxLen ELSE IxLen

(***************************************************************************)
(* Object ids in the lookup: index pages have IxFlag added.                *)
(***************************************************************************)
Ix(id)    == id + IxFlag
IsIx(raw) == raw >= IxFlag
Plain(raw) == IF IsIx(raw) THEN raw - IxFlag ELSE raw

(***************************************************************************)
(* Pages.  flags is the set of the header's flag bits that are cleared:    *)
(* "used", "final", "index", "delet", "ixdele".  A page of data, an object *)
(* header and an index page use the cells for bytes or for page indices.   *)
(***************************************************************************)
Blank == [id |-> FREE, span |-> FREE, flags |-> {}, size |-> FREE, name |-> FREE,
          cells |-> [c \in Cell |-> FREE]]

\* What a flash cell holds after new has been programmed over old.
And(old, new) ==
    IF old = FREE THEN new
    ELSE IF new = FREE \/ new = old THEN old
    ELSE IF old = 0 \/ new = 0 THEN 0
    ELSE Garbage

Program(old, new) ==
    [id    |-> And(old.id, new.id),
     span  |-> And(old.span, new.span),
     flags |-> old.flags \cup new.flags,
     size  |-> And(old.size, new.size),
     name  |-> And(old.name, new.name),
     cells |-> [c \in Cell |-> And(old.cells[c], new.cells[c])]]

ErasedFlash == [lu |-> [p \in Page |-> FREE],
                pg |-> [p \in Page |-> Blank],
                ec |-> [b \in Block |-> FREE]]

Header(id, span, flags) == [Blank EXCEPT !.id = id, !.span = span, !.flags = flags]

\* Parts of a page that one flash write may cover.
FlagsOnly(flags) == [Blank EXCEPT !.flags = flags]
Data(off, bytes) ==
    [Blank EXCEPT !.cells = [c \in Cell |->
        IF c >= off /\ c < off + Len(bytes) THEN bytes[c - off + 1] ELSE FREE]]
CellsFrom(page, lo, hi) ==
    [Blank EXCEPT !.cells = [c \in Cell |->
        IF c >= lo /\ c < hi THEN page.cells[c] ELSE FREE]]
HeaderOf(page) == [page EXCEPT !.cells = Blank.cells]

IsDamaged(page) ==
    \/ Garbage \in {page.id, page.span, page.size, page.name}
    \/ \E c \in Cell : page.cells[c] = Garbage
=============================================================================
