---------------------------- MODULE SpiffsPower ----------------------------
(***************************************************************************)
(* SPIFFS on a device whose power fails.  Any call may stop after any of   *)
(* its flash writes; the device then mounts the file system and mends it   *)
(* with SPIFFS_check, as spiffs.h:575-578 asks for, which is run twice:    *)
(* one pass over a half deleted file may leave some of its pages.          *)
(*                                                                         *)
(* The call that lost its power has left its file in pieces, and a loss    *)
(* while garbage was collected may leave any file so: the users only       *)
(* remove those.  When both files are hurt nothing more is asked.          *)
(***************************************************************************)
EXTENDS Spiffs, SpiffsCheck

CONSTANT Supplies    \* numbers of flash writes a failing supply may last for

\* The calls that write to flash, as far as the supply lets them, and the names they are about.
Interrupted(power) ==
    LET s == Idle(fs, power)
        Of(t, n, m) == [after |-> t, name |-> n, to |-> m]
    IN {Of(WriteCall(s, f, bytes), held[f], 0) : f \in Good, bytes \in Writes}
       \cup {Of(CloseCall(s, f), held[f], 0) : f \in Good}
       \cup {Of(FremoveCall(s, f), held[f], 0) : f \in {g \in Good : ~HasMap(fs.fds[g])}}
       \cup {Of(OpenCall(s, n, flags), n, 0) : n \in {m \in Names : Free(m)}, flags \in OpenFlags}
       \cup {Of(RemoveCall(s, n), n, 0) : n \in {m \in Names : Free(m) /\ Usable}}
       \cup {Of(RenameCall(s, n, m), n, m) : n \in {i \in Names : Free(i)}, m \in Names}
       \cup {Of(GcCheck(s, DataLen), 0, 0)}

Rebooted(s) == MountCall([s EXCEPT !.power = Enough, !.res = "OK"])
Mended(s)   == CheckCall(CheckCall(Rebooted(s)))

PowerCut ==
    /\ More /\ hurt # Names
    /\ \E power \in Supplies : \E c \in Interrupted(power) :
        /\ c.after.res = "POWER"
        /\ Returned(Mended(c.after),
                    [Asked(IF c.after.cleaning THEN "gcpower" ELSE "power")
                        EXCEPT !.name = c.name, !.to = c.to])
    /\ held' = [f \in Fds |-> 0]

\* The damage that test_check.c does to a file, what it writes over and with what, and the loss of
\* a data page together with the reference to it ("lostref").
BadRefs == {NoPage, Blocks * Entries + 1}    \* a lookup page, and no page at all
Damages(s, n) ==
    LET id    == IdOf(s, n)
        hdr   == HeaderPage(s, n)
        data  == {p \in Page : s.lu[p] = id}
        spans == {s.pg[p].span : p \in data} \cap 0 .. HdrIxLen - 1
        nobody == Blocks * Entries
        As(kind, t) == [kind |-> kind, after |-> t]
    IN {As("damage", [s EXCEPT !.lu[p] = DELETED]) : p \in data \cup {hdr}}
       \cup {As("damage", [s EXCEPT !.lu[hdr] = raw]) : raw \in {nobody, Ix(nobody)}}
       \cup {As(IF p \in BadRefs THEN "badref" ELSE "damage", [s EXCEPT !.pg[hdr].cells[c] = p]) :
                p \in data \cup BadRefs, c \in spans}
       \cup {As("damage", [s EXCEPT !.pg[p].flags = @ \ {"final"}]) : p \in data}
       \cup {As("lostref", [s EXCEPT !.pg[hdr].cells[s.pg[p].span] = NoPage, !.lu[p] = DELETED]) :
                p \in {q \in data : s.pg[q].span \in spans}}

Damage(n) ==
    /\ More /\ hurt = {} /\ Held = {}
    /\ Headers(fs, n) # {} /\ SizeAt(fs, HeaderPage(fs, n)) > 0
    /\ \E d \in Damages(Start, n) :
           Returned(CheckCall(d.after), [Asked(d.kind) EXCEPT !.name = n])
    /\ UNCHANGED held

Check ==
    /\ More /\ hurt # Names /\ Held = {}
    /\ Returned(CheckCall(Start), Asked("check"))
    /\ UNCHANGED held

PowerNext == (hurt # Names /\ Next) \/ PowerCut \/ Check \/ \E n \in Names : Damage(n)
PowerSpec == Init /\ [][PowerNext]_vars

-----------------------------------------------------------------------------
(***************************************************************************)
(* Properties.                                                             *)
(***************************************************************************)
\* A power loss and the mending that follows never change what any other file holds than those the
\* interrupted call was about.  Only a loss while garbage was collected may cost such a file: it is
\* moved with the others, and the check deletes a file that it finds with two headers.
CutSparesOthers ==
    [][call'.op = "power" \/ (call'.op = "gcpower" /\ call'.err = "OK") =>
        \A n \in Names \ ({call'.name, call'.to} \cup hurt) :
            \/ FilesOf(fs', {}).stored[n] = files.stored[n]
            \/ call'.op = "gcpower" /\ Headers(fs', n) = {}]_vars

\* One check mends every damage that test_check.c does to one file, as its read_and_verify
\* expects, unless there is no room to rewrite a page.  Only an index that refers to no page may
\* cost its file, as FixBadRef may take the id of another object for the file's; then the whole
\* file is gone.  Whatever is damaged, every other file is as it was.
DamageMended ==
    [][call'.op \in {"damage", "badref", "lostref"} /\ call'.err = "OK" =>
        \A n \in Names : FilesOf(fs', {}).stored[n] # files.stored[n] =>
            /\ call'.op # "damage" /\ n = call'.name
            /\ call'.op = "badref" => Headers(fs', n) = {}]_vars

\* The check comes to an end: the page check does not restart for ever (its loop at
\* spiffs_check.c:840), and no damage sends it down a path that reads variables never set.
CheckEnds ==
    [][call'.op \in {"power", "gcpower", "check", "damage", "badref", "lostref"} => call'.res = "OK"]_vars

\* What the check leaves is fit for use: the counters that SPIFFS_check ends by computing agree
\* with the lookup, and neither it nor a later write has programmed a page that was not blank.
MendedIntact == hurt # Names => NoCellSpoilt /\ CountersMatchFlash

\* A file system that no power loss and no full flash has hurt is left as it is by the check: no
\* page of a sound file is taken for an orphan, for unlisted or for referenced twice.
CheckIsIdle ==
    [][call'.op = "check" /\ hurt = {} =>
          fs'.lu = fs.lu /\ fs'.pg = fs.pg /\ fs'.allocated = fs.allocated]_vars
=============================================================================
