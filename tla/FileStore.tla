----------------------------- MODULE FileStore -----------------------------
(***************************************************************************)
(* What SPIFFS promises its callers: named files that hold bytes.  What a  *)
(* caller sees of a file is what is stored of it with the write that is    *)
(* still pending laid over it; a write may stay pending until a later call *)
(* stores it, and only the loss of power or a full flash may cut it short. *)
(***************************************************************************)
EXTENDS Integers, Sequences

CONSTANTS
    Names, Byte,
    Missing,  \* the content of a file that is not there
    Damaged   \* the content of a file of which nothing is promised

VARIABLES
    stored,   \* what the flash holds of each file, Missing or Damaged
    pending,  \* the write each file has pending: an offset and bytes, or none
    call      \* the last call: what was asked, what it returned, and the error it noted
fsVars == <<stored, pending, call>>

NoBytes == [off |-> 0, bytes |-> <<>>]
Content == Seq(Byte)

\* Bytes written at an offset, or at the end when the file is shorter than that.
Patch(file, off, bytes) ==
    LET at == IF off > Len(file) THEN Len(file) ELSE off
        size == IF at + Len(bytes) > Len(file) THEN at + Len(bytes) ELSE Len(file)
    IN [i \in 1 .. size |-> IF i > at /\ i <= at + Len(bytes) THEN bytes[i - at] ELSE file[i]]

Over(file, write) ==
    IF file \in {Missing, Damaged} THEN file ELSE Patch(file, write.off, write.bytes)

Shown(n)   == Over(stored[n], pending[n])
Exists(n)  == stored[n] # Missing
Others(n)  == \A m \in Names \ {n} : stored'[m] = stored[m] /\ pending'[m] = pending[m]
Same       == stored' = stored /\ pending' = pending
Becomes(n, file) == stored'[n] = file /\ pending'[n] = NoBytes /\ Others(n)

Init ==
    /\ stored \in [Names -> Content \cup {Missing, Damaged}]
    /\ pending = [n \in Names |-> NoBytes]
    /\ call.op = "mount"

(***************************************************************************)
(* The calls, by what the last one was.                                    *)
(***************************************************************************)
Open(n, flags) ==
    IF ~Exists(n) THEN "creat" \in flags /\ Becomes(n, <<>>)
    ELSE IF "trunc" \in flags THEN Becomes(n, <<>>)
    ELSE Same

Remove(n) == Exists(n) /\ Becomes(n, Missing)

Rename(n, m) ==
    /\ Exists(n) /\ ~Exists(m)
    /\ stored' = [stored EXCEPT ![m] = stored[n], ![n] = Missing]
    /\ pending' = [pending EXCEPT ![m] = pending[n], ![n] = NoBytes]

\* Bytes are taken at off: they are shown from now on, and some of what is shown is stored.
Write(n, off, bytes) ==
    /\ Exists(n)
    /\ stored'[n] \in {stored[n], Shown(n), Patch(Shown(n), off, bytes)}
    /\ Over(stored'[n], pending'[n]) = Patch(Shown(n), off, bytes)
    /\ Others(n)

\* A call that is not a write may store what is pending.
Keep(n) ==
    \/ Same
    \/ Exists(n) /\ Becomes(n, Shown(n))

\* The bytes read are those shown.
Read(n, off, len, bytes) ==
    /\ Exists(n) /\ Keep(n)
    /\ bytes = [i \in 1 .. Len(bytes) |-> Shown(n)[off + i]]
    /\ Len(bytes) = IF off + len > Len(Shown(n)) THEN Len(Shown(n)) - off ELSE len

\* All files are closed: everything pending is stored, or lost with its file on a full flash.
Unmount(full) ==
    /\ \A n \in Names : \/ stored'[n] = Shown(n)
                        \/ full /\ pending[n] # NoBytes /\ stored'[n] = Damaged
    /\ pending' = [n \in Names |-> NoBytes]

\* The flash is full, and the call says so: nothing is promised of this file any more.
Full(n) == Exists(n) /\ Becomes(n, Damaged)

Done   == call'.res = "OK" /\ call'.err = "OK"
NoRoom == "FULL" \in {call'.res, call'.err}

Next ==
    \/ Done /\ call'.op = "open"   /\ Open(call'.name, call'.flags)
    \/ Done /\ call'.op = "remove" /\ Remove(call'.name)
    \/ Done /\ call'.op = "rename" /\ Rename(call'.name, call'.to)
    \/ Done /\ call'.op = "write"  /\ Write(call'.name, call'.off, call'.bytes)
    \/ Done /\ call'.op = "read"   /\ Read(call'.name, call'.off, call'.len, call'.out)
    \/ Done /\ call'.op = "file"   /\ Keep(call'.name)
    \/ call'.op = "mount" /\ Unmount(NoRoom)
    \/ Done /\ call'.op \in {"gc", "map", "look"} /\ Same
    \/ ~Done /\ Same
    \/ ~Done /\ call'.op \in {"write", "read", "file"} /\ Keep(call'.name)
    \/ NoRoom /\ call'.op \in {"write", "read", "file"} /\ Full(call'.name)

Spec == Init /\ [][Next]_fsVars
=============================================================================
