------------------------------- MODULE Spiffs -------------------------------
(***************************************************************************)
(* SPIFFS as its users see it: an action for each call, on a flash that    *)
(* starts in one of the states Starts.  A call runs to completion.         *)
(*                                                                         *)
(* The users keep to these rules: only descriptors they hold are given to  *)
(* a call; a file is removed, renamed or truncated by name only while      *)
(* nobody holds it; a write is not empty, and a seek stays in the file; a  *)
(* file a write to which has failed is only closed and removed.            *)
(***************************************************************************)
EXTENDS SpiffsApi

CONSTANTS
    Missing,    \* the content of a file that is not there
    Damaged,    \* the content of a file of which nothing is promised
    Names,      \* file names, positive numbers
    Byte,       \* what a file is made of, positive numbers
    Writes,     \* the sequences of bytes a write is given
    OpenFlags,  \* the flags a file is opened with
    Starts,     \* states of the file system to start from, with the files held
    Careless,   \* whether users break two rules the code needs and does not state
    MaxSize,    \* bound: no write goes beyond this size
    MaxCalls    \* bound: calls made

VARIABLES
    fs,         \* struct spiffs and the flash, between two calls
    held,       \* the name of the file each descriptor was opened for, 0 if not held
    files,      \* what fs holds in terms of FileStore
    hurt,       \* the names of files a write to which failed half way
    call,       \* the last call and its outcome
    calls       \* how many calls were made

vars == <<fs, files, held, hurt, call, calls>>
Kept == <<fs, held, hurt, calls>>   \* files follows from fs, call only says what was asked

(***************************************************************************)
(* What the flash holds: the file of a name, by its header and index.      *)
(***************************************************************************)
Headers(s, n)   == {p \in Page : NamedHeader(s, p, n)}
HeaderPage(s, n) == CHOOSE p \in Headers(s, n) : TRUE
IdOf(s, n)      == Plain(s.lu[HeaderPage(s, n)])
SizeAt(s, p)    == IF s.pg[p].size = FREE THEN 0 ELSE s.pg[p].size
IxPages(s, id, x) == {p \in Page : s.lu[p] = Ix(id) /\ IsSpan(s, p, Ix(id), x, NoPage)}
DataPage(s, id, n) ==
    LET pages == IxPages(s, id, IxSpanOf(n))
    IN IF pages = {} THEN NoPage
       ELSE s.pg[CHOOSE p \in pages : TRUE].cells[IxEntryOf(n)]
ByteAt(s, id, i) ==
    LET p == DataPage(s, id, Span(i))
    IN IF p \in Page /\ IsFinal(s.pg[p]) THEN s.pg[p].cells[i % DataLen] ELSE Garbage

StoredFile(s, n) ==
    [i \in 1 .. SizeAt(s, HeaderPage(s, n)) |-> ByteAt(s, IdOf(s, n), i - 1)]
PendingWrite(s, n) ==
    LET mine == {c \in 1 .. CachePages : Headers(s, n) # {} /\ s.cp[c].id = IdOf(s, n)}
    IN IF mine = {} THEN [off |-> 0, bytes |-> <<>>]
       ELSE LET c == CHOOSE d \in mine : TRUE
            IN [off |-> s.cp[c].off, bytes |-> s.cp[c].bytes]

\* The flash and the cache in terms of FileStore.
FilesOf(s, damaged) ==
    [stored  |-> [n \in Names |-> IF Headers(s, n) = {} THEN Missing
                                  ELSE IF n \in damaged THEN Damaged ELSE StoredFile(s, n)],
     pending |-> [n \in Names |-> PendingWrite(s, n)]]
Store == INSTANCE FileStore WITH stored <- files.stored, pending <- files.pending

Asked(op) == [op |-> op, name |-> 0, to |-> 0, off |-> 0, len |-> 0, flags |-> {},
              bytes |-> <<>>, res |-> "OK", err |-> "OK", out |-> <<>>]
AskedOf(op, f) == [Asked(op) EXCEPT !.name = held[f], !.off = fs.fds[f].pos]

Enough == 1000        \* more flash writes than any call makes
Start  == Idle(fs, Enough)

IsFull(s) == "FULL" \in {s.res, s.err}
Harm(s, asked) ==
    CASE asked.op = "gcpower" -> Names
      [] asked.op \in {"power", "check", "damage", "badref", "lostref"} /\ IsFull(s) -> Names
      [] asked.op \in {"power", "lostref"} -> {asked.name, asked.to} \cap Names
      [] asked.op = "mount" /\ IsFull(s) -> {n \in Names : files.pending[n].bytes # <<>>}
      [] asked.op \in {"write", "read", "file"} /\ IsFull(s) -> {asked.name}
      [] OTHER -> {}

Returned(s, asked) ==
    /\ fs' = Idle(s, 0)
    /\ hurt' = hurt \cup Harm(s, asked)
    /\ files' = FilesOf(s, hurt')
    /\ call' = [asked EXCEPT !.res = s.res, !.err = s.err, !.out = s.out]
    /\ calls' = calls + 1

More    == calls < MaxCalls
Held    == {f \in Fds : held[f] # 0}
Good    == {f \in Held : held[f] \notin hurt}
Free(n) == \A f \in Fds : held[f] # n

\* A file opened to be truncated or written around the cache is held by nobody else.
Alone == {"trunc", "direct"}
Shareable(n, flags) ==
    \/ Free(n)
    \/ /\ flags \cap Alone = {}
       /\ \A f \in Fds : held[f] = n => "direct" \notin fs.fds[f].flags

\* A descriptor that was never used by name is not told of what happens to its file, and the map
\* of a file removed through its descriptor stays there for the next file.
Usable == Careless \/ \A f \in Fds : fs.fds[f].open \/ fs.fds[f].score > 0

Init ==
    /\ \E start \in Starts : fs = start.fs /\ held = start.held
    /\ files = FilesOf(fs, {})
    /\ hurt = {}
    /\ call = Asked("mount")
    /\ calls = 0

(***************************************************************************)
(* Calls that open and close.                                              *)
(***************************************************************************)
Open(n, flags) ==
    /\ More /\ n \notin hurt /\ Shareable(n, flags)
    /\ \E s \in {OpenCall(Start, n, flags)} :
        /\ Returned([s EXCEPT !.out = <<>>], [Asked("open") EXCEPT !.name = n, !.flags = flags])
        /\ held' = IF Ok(s) THEN [held EXCEPT ![s.pix] = n] ELSE held

Creat(n) ==
    /\ More /\ n \notin hurt
    /\ Returned(CreatCall(Start, n),
                [Asked("open") EXCEPT !.name = n, !.flags = {"creat", "excl"}])
    /\ UNCHANGED held

\* Open page p, that a directory listing or a stat found.
OpenByPix(n, p, flags) ==
    /\ More /\ n \notin hurt /\ fs.pg[p].name = n /\ Free(n) /\ Usable
    /\ \E s \in {OpenByPixCall(Start, p, flags)} :
        /\ Returned([s EXCEPT !.out = <<>>], [Asked("open") EXCEPT !.name = n, !.flags = flags])
        /\ held' = IF Ok(s) THEN [held EXCEPT ![s.pix] = n] ELSE held

Close(f) ==
    /\ More /\ f \in Held
    /\ \E s \in {CloseCall(Start, f)} :
        /\ Returned(s, AskedOf("file", f))
        /\ held' = IF Ok(s) THEN [held EXCEPT ![f] = 0] ELSE held

Remount ==
    /\ More
    /\ \E s \in {UnmountCall(Start)} :
           Returned([MountCall(s) EXCEPT !.err = s.err], Asked("mount"))
    /\ held' = [f \in Fds |-> 0]

(***************************************************************************)
(* Calls on an open file.                                                  *)
(***************************************************************************)
Read(f, len) ==
    /\ More /\ f \in Good
    /\ Returned(ReadCall(Start, f, len), [AskedOf("read", f) EXCEPT !.len = len])
    /\ UNCHANGED held

WriteTo(f, bytes) ==
    LET at == IF "append" \in fs.fds[f].flags THEN MaxSize ELSE fs.fds[f].pos
    IN /\ More /\ f \in Good
       /\ Len(Store!Shown(held[f])) + Len(bytes) <= MaxSize
       /\ Returned(WriteCall(Start, f, bytes),
                   [AskedOf("write", f) EXCEPT !.off = at, !.bytes = bytes])
       /\ UNCHANGED held

Seek(f, off, atEnd) ==
    /\ More /\ f \in Good
    /\ off <= Len(Store!Shown(held[f])) /\ (atEnd => off = 0)
    /\ Returned(LseekCall(Start, f, off, atEnd), AskedOf("file", f))
    /\ UNCHANGED held

\* SPIFFS_fflush, SPIFFS_fstat, SPIFFS_eof and SPIFFS_tell.
Flush(f) ==
    /\ More /\ f \in Good
    /\ \E t \in {FlushCache(Start, f)} :
       \E s \in {t, EofCall(t, f), TellCall(t, f), FstatCall(Ignoring(t), f)} :
           Returned([s EXCEPT !.out = <<>>], AskedOf("file", f))
    /\ UNCHANGED held

RemoveByFd(f) ==
    /\ More /\ f \in Good
    /\ \A g \in Fds \ {f} : held[g] # held[f]
    /\ Careless \/ ~HasMap(fs.fds[f])
    /\ \E s \in {FremoveCall(Start, f)} :
        /\ Returned(s, [Asked("remove") EXCEPT !.name = held[f]])
        /\ held' = IF Ok(s) THEN [held EXCEPT ![f] = 0] ELSE held

(***************************************************************************)
(* Calls on names, and the rest.                                           *)
(***************************************************************************)
RemoveByName(n) ==
    /\ More /\ Usable /\ Free(n)
    /\ Returned(RemoveCall(Start, n), [Asked("remove") EXCEPT !.name = n])
    /\ UNCHANGED held

Rename(n, m) ==
    /\ More /\ Free(n)
    /\ {n, m} \cap hurt = {}
    /\ Returned(RenameCall(Start, n, m), [Asked("rename") EXCEPT !.name = n, !.to = m])
    /\ UNCHANGED held

Gc(len) ==
    /\ More
    /\ \E s \in {GcQuick(Start, 0), GcCheck(Start, len)} : Returned(s, Asked("gc"))
    /\ UNCHANGED held

\* SPIFFS_stat and SPIFFS_info; a directory is listed to open what it lists (OpenByPix).
Look(n) ==
    /\ More
    /\ \E s \in {StatCall(Start, n), InfoCall(Start)} : Returned(s, Asked("look"))
    /\ UNCHANGED held

Map(f, len) ==
    /\ More /\ f \in Good
    /\ \/ /\ ~HasMap(fs.fds[f])
          /\ Returned(IxMapCall(Start, f, 0, len), AskedOf("map", f))
       \/ /\ HasMap(fs.fds[f])
          /\ \/ Returned(IxUnmapCall(Start, f), AskedOf("map", f))
             \/ Returned(IxRemapCall(Start, f, fs.fds[f].map.lo * DataLen + DataLen),
                         AskedOf("map", f))
    /\ UNCHANGED held

Next ==
    \/ \E n \in Names, flags \in OpenFlags : Open(n, flags)
    \/ \E n \in Names : Creat(n) \/ RemoveByName(n) \/ Look(n)
    \/ \E n, m \in Names : Rename(n, m)
    \/ \E p \in Listing(fs), n \in Names, flags \in OpenFlags : OpenByPix(n, p, flags)
    \/ \E f \in Fds : Close(f) \/ Flush(f) \/ RemoveByFd(f) \/ Read(f, MaxSize) \/ Map(f, DataLen)
    \/ \E f \in Fds, bytes \in Writes : WriteTo(f, bytes)
    \/ \E f \in Fds, off \in {0, 1, DataLen}, atEnd \in BOOLEAN : Seek(f, off, atEnd)
    \/ Gc(DataLen)
    \/ Remount

Spec == Init /\ [][Next]_vars
-----------------------------------------------------------------------------
(***************************************************************************)
(* Properties.                                                             *)
(***************************************************************************)
\* Every descriptor is open exactly while a user holds it: none is leaked, and none is taken away
\* from its user (spiffs_fd_find_new, spiffs_fd_return and the event of a deletion).
NoneLeaked == \A f \in Fds : fs.fds[f].open <=> held[f] # 0

\* The counters that decide when to collect garbage and when the flash is full agree with the
\* lookup pages, and the free cursor stays on the flash, whatever pages were moved, deleted and
\* erased on the way.
CountersMatchFlash ==
    /\ fs.fcb \in Block /\ fs.fce \in 0 .. Entries
    /\ fs.allocated = Cardinality({p \in Page : fs.lu[p] \notin {FREE, DELETED}})
    /\ fs.deleted = Cardinality({p \in Page : fs.lu[p] = DELETED})
    /\ fs.freeBlocks = Cardinality({b \in Block : fs.lu[PixOf(b, 0)] = FREE})

\* No cell of the flash is programmed twice with different values, and a page the lookup calls
\* free is blank, so that writing to it needs no erase.
NoCellSpoilt ==
    \A p \in Page : /\ fs.lu[p] # Garbage /\ ~IsDamaged(fs.pg[p])
                    /\ fs.lu[p] = FREE => fs.pg[p] = Blank

\* A file has one header, one index page for each index span its size needs and one data page for
\* each data span, all final, and no page in use belongs to no file.
Entry(p)     == CHOOSE n \in Names : p \in Headers(fs, n)
Spans(size)  == IF size = 0 THEN {} ELSE 0 .. (size - 1) \div DataLen
IxSpans(size) == {0} \cup {IxSpanOf(n) : n \in Spans(size)}
OwnPages(n) ==
    LET id == IdOf(fs, n) size == SizeAt(fs, HeaderPage(fs, n))
    IN UNION {IxPages(fs, id, x) : x \in IxSpans(size)} \cup {DataPage(fs, id, k) : k \in Spans(size)}
FileIntact(n) ==
    LET id == IdOf(fs, n) size == SizeAt(fs, HeaderPage(fs, n))
    IN /\ Cardinality(Headers(fs, n)) = 1
       /\ \A x \in IxSpans(size) : Cardinality(IxPages(fs, id, x)) = 1
       /\ \A k \in Spans(size) :
             LET p == DataPage(fs, id, k)
             IN /\ p \in Page /\ fs.lu[p] = id
                /\ fs.pg[p].id = id /\ fs.pg[p].span = k /\ IsFinal(fs.pg[p])
                /\ "index" \notin fs.pg[p].flags
FilesIntact ==
    LET there == {n \in Names \ hurt : Headers(fs, n) # {}}
    IN /\ \A n \in there : FileIntact(n)
       /\ \A n, m \in there : n # m => IdOf(fs, n) # IdOf(fs, m)
       /\ hurt = {} => {p \in Page : fs.lu[p] \notin {FREE, DELETED}} = UNION {OwnPages(n) : n \in there}

\* What an open descriptor remembers of its file is what the flash says, whoever moved, grew or
\* collected the file's pages since it was opened, and its index map and cached write are its own.
FdCurrent(f) ==
    LET fd == fs.fds[f]
        n  == held[f]
        size == SizeAt(fs, HeaderPage(fs, n))
    IN /\ Headers(fs, n) = {fd.hdr} /\ fd.id = IdOf(fs, n)
       /\ Larger(fd.size, 0) = size
       /\ fd.ixspan \in IxSpans(size) => IxPages(fs, fd.id, fd.ixspan) = {fd.ixpix}
       /\ fd.cpage # 0 => fs.cp[fd.cpage].id = fd.id
       /\ \A k \in DOMAIN fd.map.buf \cap Spans(size) :
              fd.map.buf[k] \in {NoPage, DataPage(fs, fd.id, k)}
DescriptorsCurrent == \A f \in Good : FdCurrent(f)

\* Every call does to the files what FileStore says, whatever was moved, cached or collected for it.
ImplementsFileStore == Store!Spec
=============================================================================
