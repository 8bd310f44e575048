------------------------------ MODULE MCSpiffs ------------------------------
(***************************************************************************)
(* A flash of four blocks of four pages, two files, two descriptors.       *)
(***************************************************************************)
EXTENDS Spiffs

RW      == {"creat", "rd", "wr"}
RWTrunc == {"creat", "trunc", "rd", "wr"}
Adding  == {"append", "rd", "wr"}

MCWrites    == {<<1>>, <<2, 1>>, <<1, 2, 1, 2, 2>>}
MCOpenFlags == {RW, RWTrunc, Adding, {"creat", "excl", "rd"}, {"wr", "direct"}}

Formatted == MountCall(FormatCall(Idle(Unmounted(ErasedFlash), Enough)))

\* Calls made before the behaviour begins.
Ready(s) == Idle(s, Enough)
Opened(s, open) == Ready(OpenCall(Ready(s), open.name, open.flags))
Save(n, flags, bytes) == [name |-> n, flags |-> flags, bytes |-> bytes]
Written(s, f, bytes) == Ready(CloseCall(Ready(WriteCall(Ready(s), f, bytes)), f))
WrittenTo(s, bytes) == Written(s, s.pix, bytes)
Saved(s, save) == WrittenTo(OpenCall(s, save.name, save.flags), save.bytes)
After(saves) == FoldLeft(Saved, Ready(Formatted), saves)

\* Both files are there; then one of them has been rewritten until garbage was collected twice;
\* then no more than a page or two can be written.
BothThere == <<Save(1, RW, <<1, 2, 1>>), Save(2, RW, <<2, 1>>)>>
Rewritten == BothThere \o <<Save(1, RWTrunc, <<2, 2, 2>>), Save(2, RWTrunc, <<1>>),
                            Save(1, RW, <<1, 1, 1, 1>>)>>
Crammed   == Rewritten \o <<Save(1, RW, <<1, 1, 1, 1, 1, 1>>)>>

Closed == [f \in Fds |-> 0]
At(s, holds) == [fs |-> Idle(s, 0), held |-> holds]
\* Nobody holds a file; two users hold the same; each holds one.
Both(s, n) == At(FoldLeft(Opened, s, <<[name |-> 1, flags |-> RW], [name |-> n, flags |-> Adding]>>),
                 [f \in Fds |-> IF f = 1 THEN 1 ELSE n])
From(s, saves) == {At(s, Closed)}
                  \cup {Both(s, n) : n \in IF saves = BothThere THEN {} ELSE {1, 2}}
MCStarts == UNION {From(After(saves), saves) : saves \in {BothThere, Rewritten, Crammed}}
=============================================================================
