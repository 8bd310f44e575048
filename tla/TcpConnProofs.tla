---------------------------- MODULE TcpConnProofs ----------------------------
(***************************************************************************)
(* Proofs about TcpConn for every number of contexts, connections and data *)
(* items, every length of the event queue and every fault.                 *)
(***************************************************************************)
EXTENDS TcpConn, SequenceTheorems, WellFoundedInduction, TLAPS

(* The least element the code's search through the list finds. *)
LEMMA MinInSet ==
    ASSUME NEW S \in SUBSET Nat, S # {}
    PROVE  Min(S) \in S
PROOF
<1> DEFINE R == {p \in Nat \X Nat : p[1] < p[2]}
<1>1. IsWellFoundedOn(R, Nat)
  BY NatLessThanWellFounded, Zenon DEF OpToRel
<1>2. PICK x \in S : \A y \in S : ~(<<y, x>> \in R)
  <2> HIDE DEF R
  <2> QED  BY <1>1, WFMin
<1>3. ASSUME NEW y \in S
      PROVE  x <= y
  <2>1. x \in Nat /\ y \in Nat
    OBVIOUS
  <2>2. ~(<<y, x>>[1] < <<y, x>>[2])
    BY <1>2, <2>1
  <2> QED  BY <2>1, <2>2
<1> QED  BY <1>2, <1>3 DEF Min

(* The entry the code finds for a context is an entry of the list. *)
LEMMA FirstMatchingInList ==
    ASSUME TypeOK, NEW c, Matching(c) # {}
    PROVE  FirstMatching(c) \in 1..Len(active)
PROOF
<1>1. Matching(c) \subseteq 1..Len(active) /\ Matching(c) \in SUBSET Nat
  BY DEF TypeOK, Matching
<1> QED  BY <1>1, MinInSet DEF FirstMatching

(* What the tear-down of a connection does to the head of the list.        *)
Spared(old, new) ==
    new.robbed \/ (~old.robbed /\ new.fifo = old.fifo /\ new.busy = old.busy)

LEMMA EmptiedType ==
    ASSUME NEW en \in Entry
    PROVE  /\ Emptied(en) \in Entry /\ Emptied(en).esp = en.esp
           /\ Emptied(en).fifo = <<>> /\ Spared(en, Emptied(en))
PROOF
<1> DEFINE b == en.robbed \/ en.fifo # <<>>
<1>1. <<>> \in Seq(Data) /\ b \in BOOLEAN /\ en.robbed \in BOOLEAN
  BY DEF Entry
<1>2. Emptied(en) = [esp |-> en.esp, busy |-> en.busy, fifo |-> <<>>, robbed |-> b]
  <2> DEFINE x == [en EXCEPT !.fifo = <<>>]
  <2>1. x = [esp |-> en.esp, busy |-> en.busy, fifo |-> <<>>, robbed |-> en.robbed]
    BY DEF Entry
  <2>2. Emptied(en) = [x EXCEPT !.robbed = b]
    BY DEF Emptied
  <2> HIDE DEF x, b
  <2> QED  BY <2>1, <2>2
<1>3. Emptied(en).robbed = b /\ Emptied(en).fifo = <<>> /\ Emptied(en).busy = en.busy
      /\ Emptied(en).esp = en.esp
  BY <1>2
<1>4. Emptied(en) \in Entry
  BY <1>1, <1>2 DEF Entry
<1>5. Spared(en, Emptied(en))
  BY <1>1, <1>3 DEF Spared
<1> QED  BY <1>3, <1>4, <1>5

LEMMA CleanupType ==
    ASSUME TypeOK, NEW c
    PROVE  Cleanup(c) \in Seq(Entry)
PROOF
<1>1. CASE Matching(c) = {}
  BY <1>1 DEF Cleanup, TypeOK
<1>2. CASE Matching(c) # {}
  <2> DEFINE f == FirstMatching(c)
             x == Emptied(active[1])
             a == [active EXCEPT ![1] = x]
  <2>1. f \in 1..Len(active) /\ 1 \in 1..Len(active)
    BY <1>2, FirstMatchingInList
  <2>2. a \in Seq(Entry) /\ Len(a) = Len(active)
    <3>1. active \in Seq(Entry) /\ active[1] \in Entry
      BY <2>1 DEF TypeOK
    <3>2. x \in Entry
      BY <3>1, EmptiedType
    <3> HIDE DEF x
    <3> QED  BY <2>1, <3>1, <3>2, ExceptSeq
  <2> HIDE DEF f, a
  <2>3. SubSeq(a, 1, f - 1) \in Seq(Entry) /\ SubSeq(a, f + 1, Len(a)) \in Seq(Entry)
    BY <2>1, <2>2
  <2>4. Cleanup(c) = SubSeq(a, 1, f - 1) \o SubSeq(a, f + 1, Len(a))
    BY <1>2 DEF Cleanup, RemoveAt, f, a, x
  <2> QED  BY <2>3, <2>4
<1> QED  BY <1>1, <1>2

LEMMA DiscardType ==
    ASSUME TypeOK, NEW c, Discard(c)
    PROVE  ctx' \in [Ctx -> Context] /\ active' \in Seq(Entry)
PROOF
<1>1. active' \in Seq(Entry)
  BY CleanupType DEF Discard
<1>2. ctx' \in [Ctx -> Context]
  <2> DEFINE freed == [ctx[c] EXCEPT !.st = "FREE", !.addr = NoEsp, !.overdue = FALSE]
  <2>1. ctx \in [Ctx -> Context]
    BY DEF TypeOK
  <2>2. ctx' = [ctx EXCEPT ![c] = freed]
    BY DEF Discard
  <2>3. c \in Ctx => freed \in Context
    <3> SUFFICES ASSUME c \in Ctx PROVE freed \in Context
      OBVIOUS
    <3>1. ctx[c] \in Context
      BY <2>1
    <3> QED  BY <3>1 DEF Context
  <2> HIDE DEF freed
  <2> QED  BY <2>1, <2>2, <2>3
<1> QED  BY <1>1, <1>2

LEMMA NotifyType ==
    ASSUME TypeOK, NEW type \in {"CLOSING", "ABORT", "NEW_DATA"},
           NEW c \in Ctx \cup {NoCtx}, NEW meta, NEW about \in Esp \cup {NoEsp},
           Notify(type, c, meta, about)
    PROVE  evq' \in Seq(Event) /\ Len(evq') <= EventQueueLen
PROOF
<1> DEFINE ev == [type |-> type, ctx |-> c, metadata |-> NoEsp, about |-> about]
<1>1. ev \in Event
  BY DEF Event
<1>2. \/ evq' = Append(evq, ev) /\ Len(evq) < EventQueueLen
      \/ evq' = evq
  BY DEF Notify
<1>3. evq \in Seq(Event) /\ Len(evq) <= EventQueueLen
  BY DEF TypeOK
<1> HIDE DEF ev
<1>4. CASE evq' = Append(evq, ev) /\ Len(evq) < EventQueueLen
  BY <1>1, <1>3, <1>4, BoundsAssumption
<1> QED  BY <1>2, <1>3, <1>4

LEMMA DisconnectType ==
    ASSUME TypeOK, NEW e \in Esp \cup {NoEsp}
    PROVE  Disconnect(e) \in [Esp -> Espconn]
PROOF
  BY DEF Disconnect, TypeOK, Espconn

-----------------------------------------------------------------------------
(* Type correctness, one lemma per group of actions. *)

LEMMA RegisterType ==
    ASSUME TypeOK, NEW c, NEW e \in Esp, NEW context,
           c \in Ctx => context \in Context,
           Register(c, e, context)
    PROVE  ctx' \in [Ctx -> Context] /\ active' \in Seq(Entry)
PROOF
<1>1. ctx' \in [Ctx -> Context]
  <2>1. ctx' = [ctx EXCEPT ![c] = [context EXCEPT !.sendArg = e, !.addr = e]]
    BY DEF Register
  <2>2. c \in Ctx => [context EXCEPT !.sendArg = e, !.addr = e] \in Context
    BY DEF Context
  <2> QED  BY <2>1, <2>2 DEF TypeOK
<1>2. active' \in Seq(Entry)
  <2> DEFINE new == [esp |-> e, busy |-> FALSE, fifo |-> <<>>, robbed |-> FALSE]
  <2>1. new \in Entry
    <3>1. <<>> \in Seq(Data)
      OBVIOUS
    <3> QED  BY <3>1 DEF Entry
  <2>2. active' \in {Append(active, new), active}
    BY DEF Register
  <2>3. active \in Seq(Entry)
    BY DEF TypeOK
  <2> HIDE DEF new
  <2> QED  BY <2>1, <2>2, <2>3
<1> QED  BY <1>1, <1>2

LEMMA ConnectCallbackType ==
    ASSUME TypeOK, NEW e \in Esp, user_tcp_connect_cb(e)
    PROVE  TypeOK'
PROOF
<1>1. esp' \in [Esp -> Espconn]
  BY DEF user_tcp_connect_cb, TypeOK, Espconn
<1>2. esp[e].reverse \in Ctx => ctx[esp[e].reverse] \in Context
  BY DEF TypeOK
<1>3. Register(esp[e].reverse, e, ctx[esp[e].reverse])
  BY DEF user_tcp_connect_cb
<1>4. ctx' \in [Ctx -> Context] /\ active' \in Seq(Entry)
  BY <1>2, <1>3, RegisterType
<1> QED  BY <1>1, <1>4 DEF user_tcp_connect_cb, TypeOK, hist

LEMMA ServerConnectCallbackType ==
    ASSUME TypeOK, NEW e \in Esp, user_tcp_server_connect_cb(e)
    PROVE  TypeOK'
PROOF
<1>1. esp' \in [Esp -> Espconn]
  <2>1. \/ \E c \in Ctx : esp' = [esp EXCEPT ![e].st = "UP", ![e].reverse = c]
        \/ esp' = [esp EXCEPT ![e].st = "UP"]
    BY DEF user_tcp_server_connect_cb
  <2>2. ASSUME NEW c \in Ctx, esp' = [esp EXCEPT ![e].st = "UP", ![e].reverse = c]
        PROVE  esp' \in [Esp -> Espconn]
    BY <2>2 DEF TypeOK, Espconn
  <2>3. CASE esp' = [esp EXCEPT ![e].st = "UP"]
    BY <2>3 DEF TypeOK, Espconn
  <2> QED  BY <2>1, <2>2, <2>3
<1>2. CASE \E c \in Ctx :
             /\ Register(c, e, [FreeContext EXCEPT !.st = "OPEN"])
             /\ UNCHANGED <<evq, crashed, hist>>
  <2>1. PICK c \in Ctx : /\ Register(c, e, [FreeContext EXCEPT !.st = "OPEN"])
                         /\ UNCHANGED <<evq, crashed, hist>>
    BY <1>2
  <2>2. [FreeContext EXCEPT !.st = "OPEN"] \in Context
    BY DEF FreeContext, Context
  <2>3. ctx' \in [Ctx -> Context] /\ active' \in Seq(Entry)
    BY <2>1, <2>2, RegisterType
  <2> QED  BY <1>1, <2>1, <2>3 DEF TypeOK, hist
<1>3. CASE /\ Notify("CLOSING", NoCtx, e, e)
           /\ UNCHANGED <<ctx, active, crashed, hist>>
  <2>1. evq' \in Seq(Event) /\ Len(evq') <= EventQueueLen
    BY <1>3, NotifyType
  <2> QED  BY <1>1, <1>3, <2>1 DEF TypeOK, hist
<1> QED  BY <1>2, <1>3 DEF user_tcp_server_connect_cb

LEMMA ReceiveCallbackType ==
    ASSUME TypeOK, NEW e \in Esp, user_tcp_recv_cb(e)
    PROVE  TypeOK'
PROOF
<1>1. esp' \in [Esp -> Espconn]
  <2>1. esp' = esp \/ esp' = [esp EXCEPT ![e].hold = TRUE]
    BY DEF user_tcp_recv_cb
  <2>2. CASE esp' = esp
    BY <2>2 DEF TypeOK
  <2>3. CASE esp' = [esp EXCEPT ![e].hold = TRUE]
    BY <2>3 DEF TypeOK, Espconn
  <2> QED  BY <2>1, <2>2, <2>3
<1>2. PICK c \in Ctx : Notify("CLOSING", c, NoEsp, e) \/ Notify("NEW_DATA", c, NoEsp, e)
  BY DEF user_tcp_recv_cb, Identified
<1>3. evq' \in Seq(Event) /\ Len(evq') <= EventQueueLen
  BY <1>2, NotifyType
<1> QED  BY <1>1, <1>3 DEF user_tcp_recv_cb, TypeOK, hist

LEMMA DownCallbackType ==
    ASSUME TypeOK, NEW e \in Esp, user_tcp_discon_cb(e) \/ user_tcp_recon_cb(e)
    PROVE  TypeOK'
PROOF
<1>1. esp' \in [Esp -> Espconn]
  <2>1. \/ esp' = [esp EXCEPT ![e].st = "GONE"]
        \/ esp' = [esp EXCEPT ![e].st = "ERROR"]
    BY DEF user_tcp_discon_cb, user_tcp_recon_cb
  <2>2. CASE esp' = [esp EXCEPT ![e].st = "GONE"]
    BY <2>2 DEF TypeOK, Espconn
  <2>3. CASE esp' = [esp EXCEPT ![e].st = "ERROR"]
    BY <2>3 DEF TypeOK, Espconn
  <2> QED  BY <2>1, <2>2, <2>3
<1>2. evq' \in Seq(Event) /\ Len(evq') <= EventQueueLen
  <2>1. CASE user_tcp_discon_cb(e)
    BY <2>1 DEF user_tcp_discon_cb, TypeOK
  <2>2. CASE user_tcp_recon_cb(e)
    BY <2>2, NotifyType DEF user_tcp_recon_cb
  <2> QED  BY <2>1, <2>2
<1>3. UNCHANGED <<ctx, active>> \/ \E c : Discard(c)
  BY DEF user_tcp_discon_cb, user_tcp_recon_cb
<1>4. ctx' \in [Ctx -> Context] /\ active' \in Seq(Entry)
  <2>1. CASE UNCHANGED <<ctx, active>>
    BY <2>1 DEF TypeOK
  <2>2. CASE \E c : Discard(c)
    BY <2>2, DiscardType
  <2> QED  BY <1>3, <2>1, <2>2
<1> QED  BY <1>1, <1>2, <1>4 DEF user_tcp_discon_cb, user_tcp_recon_cb, TypeOK, hist

LEMMA CloseType ==
    ASSUME TypeOK, NEW c \in Ctx, wish_close_connection(c)
    PROVE  /\ ctx' \in [Ctx -> Context]
           /\ esp' \in [Esp -> Espconn]
           /\ active' \in Seq(Entry)
PROOF
<1>1. CASE Discard(c) /\ UNCHANGED esp
  BY <1>1, DiscardType DEF TypeOK
<1>2. CASE /\ ctx' = [ctx EXCEPT ![c].st = "CLOSING"]
           /\ esp' = Disconnect(ctx[c].sendArg)
           /\ UNCHANGED active
  <2>1. ctx[c].sendArg \in Esp \cup {NoEsp}
    BY DEF TypeOK, Context
  <2>2. esp' \in [Esp -> Espconn]
    BY <1>2, <2>1, DisconnectType
  <2> QED  BY <1>2, <2>2 DEF TypeOK, Context
<1> QED  BY <1>1, <1>2 DEF wish_close_connection

LEMMA EntryType ==
    ASSUME TypeOK, NEW i \in 1..Len(active)
    PROVE  /\ active[i] \in Entry
           /\ active[i].esp \in Esp
           /\ active[i].busy \in BOOLEAN
           /\ active[i].fifo \in Seq(Data)
PROOF
<1>1. active[i] \in Entry
  BY DEF TypeOK
<1> QED  BY <1>1 DEF Entry

(* Replacing the FIFO and the busy flag of an entry. *)
LEMMA EntryUpdateType ==
    ASSUME TypeOK, NEW i \in 1..Len(active), NEW q \in Seq(Data), NEW b \in BOOLEAN
    PROVE  /\ [active EXCEPT ![i].fifo = q, ![i].busy = b] \in Seq(Entry)
           /\ [active EXCEPT ![i].fifo = q] \in Seq(Entry)
PROOF
<1>1. active \in Seq(Entry) /\ active[i] \in Entry
  BY DEF TypeOK
<1> DEFINE x == [[active[i] EXCEPT !.fifo = q] EXCEPT !.busy = b]
           y == [active[i] EXCEPT !.fifo = q]
<1>2. x \in Entry /\ y \in Entry
  BY <1>1 DEF Entry
<1>3. /\ [active EXCEPT ![i].fifo = q, ![i].busy = b] = [active EXCEPT ![i] = x]
      /\ [active EXCEPT ![i].fifo = q] = [active EXCEPT ![i] = y]
  OBVIOUS
<1> HIDE DEF x, y
<1> QED  BY <1>1, <1>2, <1>3, ExceptSeq

(* The datum my_send_data makes, and the entry it finds. *)
Datum(c) == [of |-> ctx[c].sendArg, n |-> Len(accepted[ctx[c].sendArg]) + 1]
SendEntry(c) == FirstMatching(esp[ctx[c].sendArg].reverse)

LEMMA SendDataCases ==
    ASSUME TypeOK, NEW c \in Ctx, my_send_data(c)
    PROVE  LET d == Datum(c)
               i == SendEntry(c)
           IN  /\ d \in Data /\ d.of \in Esp /\ d.n = Len(accepted[d.of]) + 1
               /\ UNCHANGED <<ctx, esp, crashed, acked>>
               /\ \/ /\ Matching(esp[d.of].reverse) = {}
                     /\ accepted' = [accepted EXCEPT ![d.of] = Append(@, d)]
                     /\ UNCHANGED <<active, evq, wire>>
                  \/ /\ Matching(esp[d.of].reverse) # {} /\ i \in 1..Len(active)
                     /\ \/ active[i].busy /\ Queue(i, d, TRUE) /\ UNCHANGED wire
                        \/ /\ ~active[i].busy
                           /\ \E r \in SendResults(active[i].esp) : SendNow(i, d, r)
PROOF
<1> DEFINE e == ctx[c].sendArg
           d == Datum(c)
           i == SendEntry(c)
<1>1. e \in Esp /\ Len(accepted[e]) < MaxData /\ Len(accepted[e]) \in Nat
  BY DEF my_send_data, TypeOK, Context
<1>2. d \in Data /\ d.of \in Esp /\ d.n = Len(accepted[d.of]) + 1
  BY <1>1, BoundsAssumption DEF Data, Datum
<1>3. /\ UNCHANGED <<ctx, esp, crashed, acked>>
      /\ \/ /\ Matching(esp[e].reverse) = {}
            /\ accepted' = [accepted EXCEPT ![d.of] = Append(@, d)]
            /\ UNCHANGED <<active, evq, wire>>
         \/ /\ Matching(esp[e].reverse) # {}
            /\ \/ active[i].busy /\ Queue(i, d, TRUE) /\ UNCHANGED wire
               \/ /\ ~active[i].busy
                  /\ \E r \in SendResults(active[i].esp) : SendNow(i, d, r)
  BY DEF my_send_data, Datum, SendEntry
<1>4. Matching(esp[e].reverse) # {} => i \in 1..Len(active)
  BY FirstMatchingInList DEF SendEntry
<1> HIDE DEF e, d, i
<1>5. d = Datum(c) /\ i = SendEntry(c) /\ d.of = e
  BY DEF d, i, e, Datum
<1> QED  BY <1>2, <1>3, <1>4, <1>5

LEMMA AppendType ==
    ASSUME NEW S, NEW T, NEW f \in [S -> Seq(T)], NEW s, NEW t \in T
    PROVE  [f EXCEPT ![s] = Append(@, t)] \in [S -> Seq(T)]
PROOF
<1>1. s \in S => Append(f[s], t) \in Seq(T)
  OBVIOUS
<1> DEFINE a == Append(f[s], t)
<1>2. [f EXCEPT ![s] = a] \in [S -> Seq(T)]
  <2> HIDE DEF a
  <2>1. s \in S => a \in Seq(T)
    BY <1>1 DEF a
  <2> QED  BY <2>1
<1> QED  BY <1>2

LEMMA QueueType ==
    ASSUME TypeOK, NEW i \in 1..Len(active), NEW d \in Data, NEW b \in BOOLEAN,
           Queue(i, d, b)
    PROVE  /\ active' \in Seq(Entry)
           /\ accepted' \in [Esp -> Seq(Data)]
           /\ evq' = evq
PROOF
<1>1. active[i].fifo \in Seq(Data)
  BY EntryType
<1>2. Append(active[i].fifo, d) \in Seq(Data)
  BY <1>1
<1>3. active' = [active EXCEPT ![i].fifo = Append(active[i].fifo, d), ![i].busy = b]
  BY DEF Queue
<1>4. active' \in Seq(Entry)
  BY <1>2, <1>3, EntryUpdateType
<1>5. accepted' \in [Esp -> Seq(Data)]
  BY AppendType DEF Queue, TypeOK
<1> QED  BY <1>4, <1>5 DEF Queue

LEMMA SendDataType ==
    ASSUME TypeOK, NEW c \in Ctx, my_send_data(c)
    PROVE  TypeOK'
PROOF
<1> DEFINE d == Datum(c)
           i == SendEntry(c)
<1>1. d \in Data /\ d.of \in Esp /\ UNCHANGED <<ctx, esp, crashed, acked>>
  BY SendDataCases
<1> DEFINE Goal == /\ active' \in Seq(Entry)
                   /\ accepted' \in [Esp -> Seq(Data)]
                   /\ wire' \in [Esp -> Seq(Data)]
                   /\ evq' \in Seq(Event) /\ Len(evq') <= EventQueueLen
<1>2. SUFFICES Goal
  BY <1>1 DEF TypeOK
<1>3. /\ active \in Seq(Entry) /\ accepted \in [Esp -> Seq(Data)]
      /\ wire \in [Esp -> Seq(Data)]
      /\ evq \in Seq(Event) /\ Len(evq) <= EventQueueLen
  BY DEF TypeOK
<1>4. CASE /\ accepted' = [accepted EXCEPT ![d.of] = Append(@, d)]
           /\ UNCHANGED <<active, evq, wire>>
  BY <1>1, <1>3, <1>4, AppendType
<1>5. ASSUME i \in 1..Len(active), NEW b \in BOOLEAN, Queue(i, d, b), wire' = wire
      PROVE  Goal
  BY <1>1, <1>3, <1>5, QueueType
<1>6. ASSUME i \in 1..Len(active), NEW r, SendNow(i, d, r)
      PROVE  Goal
  <2>1. CASE r = "OK"
    <3>1. Head(Append(active[i].fifo, d)) \in Data
      <4>1. active[i].fifo \in Seq(Data)
        BY <1>6, EntryType
      <4> QED  BY <1>1, <4>1
    <3>2. wire' \in [Esp -> Seq(Data)]
      <4> DEFINE h == Head(Append(active[i].fifo, d))
                 f == active[i].esp
      <4>1. wire' = [wire EXCEPT ![f] = Append(wire[f], h)]
        BY <1>6, <2>1 DEF SendNow
      <4> HIDE DEF h, f
      <4>2. h \in Data
        BY <3>1 DEF h
      <4> QED  BY <1>3, <4>1, <4>2, AppendType
    <3> QED  BY <1>1, <1>3, <1>6, <2>1, <3>2, QueueType DEF SendNow
  <2>2. CASE r = "MAXNUM"
    BY <1>1, <1>3, <1>6, <2>2, QueueType DEF SendNow
  <2>3. CASE r = "ERROR"
    <3>1. esp[d.of].reverse \in Ctx \cup {NoCtx}
      BY <1>1 DEF TypeOK, Espconn
    <3>2. /\ Notify("CLOSING", esp[d.of].reverse, NoEsp, d.of)
          /\ UNCHANGED <<active, accepted, wire>>
      BY <1>6, <2>3 DEF SendNow
    <3> QED  BY <1>1, <1>3, <3>1, <3>2, NotifyType
  <2> QED  BY <1>6, <2>1, <2>2, <2>3 DEF SendNow
<1> QED  BY <1>4, <1>5, <1>6, SendDataCases

(* What a sent callback does to the entry it finds: it takes the head from *)
(* the FIFO, and gives the next datum to the SDK if there is one.          *)
Rest(i) == IF active[i].fifo = <<>> THEN <<>> ELSE Tail(active[i].fifo)

LEMMA SentCases ==
    ASSUME TypeOK, NEW e \in Esp, user_tcp_sent_cb(e)
    PROVE  LET i == FirstMatching(esp[e].reverse)
           IN  /\ UNCHANGED <<ctx, esp, evq, accepted>>
               /\ acked' = [acked EXCEPT ![e] = @ + 1]
               /\ \/ ~Busy(esp[e].reverse) /\ UNCHANGED <<active, wire, crashed>>
                  \/ /\ Busy(esp[e].reverse)
                     /\ i \in 1..Len(active) /\ active[i].busy
                     /\ Rest(i) \in Seq(Data)
                     /\ \/ /\ Rest(i) = <<>>
                           /\ active' = [active EXCEPT ![i].fifo = <<>>, ![i].busy = FALSE]
                           /\ UNCHANGED <<wire, crashed>>
                        \/ /\ Rest(i) # <<>>
                           /\ \E r \in SendResults(active[i].esp) : Continue(i, Rest(i), r)
PROOF
<1> DEFINE i == FirstMatching(esp[e].reverse)
<1>1. CASE ~Busy(esp[e].reverse)
  BY <1>1 DEF user_tcp_sent_cb
<1>2. CASE Busy(esp[e].reverse)
  <2>1. i \in 1..Len(active) /\ active[i].busy
    BY <1>2, FirstMatchingInList DEF Busy
  <2>2. Rest(i) \in Seq(Data)
    <3>1. active[i].fifo \in Seq(Data)
      BY <2>1, EntryType
    <3> QED  BY <3>1 DEF Rest
  <2>3. /\ UNCHANGED <<ctx, esp, evq, accepted>>
        /\ acked' = [acked EXCEPT ![e] = @ + 1]
        /\ IF Rest(i) = <<>>
           THEN /\ active' = [active EXCEPT ![i].fifo = Rest(i), ![i].busy = FALSE]
                /\ UNCHANGED <<wire, crashed>>
           ELSE \E r \in SendResults(active[i].esp) : Continue(i, Rest(i), r)
    BY <1>2 DEF user_tcp_sent_cb, Rest
  <2> QED  BY <1>2, <2>1, <2>2, <2>3
<1> QED  BY <1>1, <1>2

LEMMA SentCallbackType ==
    ASSUME TypeOK, NEW e \in Esp, user_tcp_sent_cb(e)
    PROVE  TypeOK'
PROOF
<1> DEFINE i == FirstMatching(esp[e].reverse)
           Goal == /\ active' \in Seq(Entry)
                   /\ wire' \in [Esp -> Seq(Data)]
                   /\ crashed' \in BOOLEAN
<1>1. UNCHANGED <<ctx, esp, evq, accepted>> /\ acked' \in [Esp -> Nat]
  <2>1. acked \in [Esp -> Nat] /\ acked[e] + 1 \in Nat
    BY DEF TypeOK
  <2>2. /\ UNCHANGED <<ctx, esp, evq, accepted>>
        /\ acked' = [acked EXCEPT ![e] = acked[e] + 1]
    BY DEF user_tcp_sent_cb
  <2> QED  BY <2>1, <2>2
<1>2. SUFFICES Goal
  BY <1>1 DEF TypeOK
<1>3. /\ active \in Seq(Entry) /\ wire \in [Esp -> Seq(Data)]
      /\ crashed \in BOOLEAN
  BY DEF TypeOK
<1>4. CASE UNCHANGED <<active, wire, crashed>>
  BY <1>3, <1>4
<1>5. ASSUME i \in 1..Len(active),
             active' = [active EXCEPT ![i].fifo = <<>>, ![i].busy = FALSE],
             UNCHANGED <<wire, crashed>>
      PROVE  Goal
  <2>1. <<>> \in Seq(Data)
    OBVIOUS
  <2>2. active' \in Seq(Entry)
    BY <1>5, <2>1, EntryUpdateType
  <2> QED  BY <1>3, <1>5, <2>2
<1>6. ASSUME i \in 1..Len(active), Rest(i) \in Seq(Data), Rest(i) # <<>>,
             NEW r, Continue(i, Rest(i), r)
      PROVE  Goal
  <2> DEFINE h == Head(Rest(i))
             f == active[i].esp
  <2>1. active' \in Seq(Entry)
    <3>1. active' = [active EXCEPT ![i].fifo = Rest(i)]
      BY <1>6 DEF Continue
    <3>2. \A b \in BOOLEAN : [active EXCEPT ![i].fifo = Rest(i)] \in Seq(Entry)
      BY <1>6, EntryUpdateType
    <3> QED  BY <3>1, <3>2
  <2>2. wire' = [wire EXCEPT ![f] = Append(wire[f], h)] \/ wire' = wire
    BY <1>6 DEF Continue
  <2>3. h \in Data
    BY <1>6
  <2>4. wire' \in [Esp -> Seq(Data)]
    <3> HIDE DEF h, f
    <3>1. CASE wire' = wire
      BY <1>3, <3>1
    <3>2. CASE wire' = [wire EXCEPT ![f] = Append(wire[f], h)]
      BY <1>3, <2>3, <3>2, AppendType
    <3> QED  BY <2>2, <3>1, <3>2
  <2> QED  BY <1>6, <2>1, <2>4 DEF Continue
<1> HIDE DEF Goal
<1> QED  BY <1>4, <1>5, <1>6, SentCases

LEMMA EventType ==
    ASSUME TypeOK, evq # <<>>
    PROVE  /\ Head(evq) \in Event
           /\ Tail(evq) \in Seq(Event) /\ Len(Tail(evq)) <= EventQueueLen
PROOF
<1>1. evq \in Seq(Event) /\ Len(evq) <= EventQueueLen
  BY DEF TypeOK
<1>2. Len(Tail(evq)) = Len(evq) - 1 /\ Len(evq) \in Nat
  BY <1>1
<1> QED  BY <1>1, <1>2, BoundsAssumption

LEMMA MessageProcessorType ==
    ASSUME TypeOK, MessageProcessor
    PROVE  TypeOK'
PROOF
<1> DEFINE ev == Head(evq)
<1>1. /\ evq # <<>> /\ evq' = Tail(evq)
      /\ UNCHANGED <<crashed, accepted, wire, acked>>
  BY DEF MessageProcessor, ProcessClosing, ProcessAbort, ProcessNewData, Take, hist
<1>2. /\ ev.ctx \in Ctx \cup {NoCtx} /\ ev.metadata \in Esp \cup {NoEsp}
      /\ evq' \in Seq(Event) /\ Len(evq') <= EventQueueLen
  BY <1>1, EventType DEF Event
<1> HIDE DEF ev
<1>3. /\ ctx' \in [Ctx -> Context] /\ esp' \in [Esp -> Espconn]
      /\ active' \in Seq(Entry)
  <2>1. CASE ProcessClosing /\ ev.ctx # NoCtx
    BY <1>2, <2>1, CloseType DEF ProcessClosing, ev
  <2>2. CASE ProcessClosing /\ ev.ctx = NoCtx
    <3>1. esp' = Disconnect(ev.metadata) /\ UNCHANGED <<ctx, active>>
      BY <2>2 DEF ProcessClosing, ev
    <3> QED  BY <1>2, <3>1, DisconnectType DEF TypeOK
  <2>3. CASE ProcessAbort
    <3>1. /\ UNCHANGED <<ctx, active>>
          /\ esp' = IF ev.metadata = NoEsp THEN esp
                    ELSE [esp EXCEPT ![ev.metadata].st = "GONE"]
      BY <2>3 DEF ProcessAbort, ev
    <3>2. CASE ev.metadata = NoEsp
      BY <3>1, <3>2 DEF TypeOK
    <3>3. CASE ev.metadata # NoEsp
      BY <3>1, <3>3 DEF TypeOK, Espconn
    <3> QED  BY <3>2, <3>3
  <2>4. CASE ProcessNewData
    <3> DEFINE e == ctx[ev.ctx].sendArg
    <3>1. /\ UNCHANGED <<ctx, active>>
          /\ esp' = IF e = NoEsp THEN esp ELSE [esp EXCEPT ![e].hold = FALSE]
      BY <2>4 DEF ProcessNewData, ev
    <3> HIDE DEF e
    <3>2. CASE e = NoEsp
      BY <3>1, <3>2 DEF TypeOK
    <3>3. CASE e # NoEsp
      BY <3>1, <3>3 DEF TypeOK, Espconn
    <3> QED  BY <3>2, <3>3
  <2> QED  BY <2>1, <2>2, <2>3, <2>4 DEF MessageProcessor
<1> QED  BY <1>1, <1>2, <1>3 DEF TypeOK

LEMMA CoreCallType ==
    ASSUME TypeOK, NEW c \in Ctx, CoreCall(c) \/ CloseTimesOut(c)
    PROVE  TypeOK'
PROOF
<1>1. ASSUME NEW e \in Esp, wish_open_connection(c, e)
      PROVE  TypeOK'
  BY <1>1 DEF wish_open_connection, TypeOK, FreeContext, Context, Espconn, hist
<1>2. CASE my_send_data(c)
  BY <1>2, SendDataType
<1>3. CASE CoreCloses(c)
  BY <1>3, CloseType DEF CoreCloses, TypeOK, hist
<1>4. CASE CloseTimesOut(c)
  BY <1>4 DEF CloseTimesOut, TypeOK, Context, hist
<1> QED  BY <1>1, <1>2, <1>3, <1>4 DEF CoreCall

LEMMA NextKeepsTypeOK == TypeOK /\ [Next]_vars => TypeOK'
PROOF
<1> SUFFICES ASSUME TypeOK, [Next]_vars
             PROVE  TypeOK'
  OBVIOUS
<1>1. ASSUME NEW e \in Esp, Callback(e)
      PROVE  TypeOK'
  BY <1>1, ConnectCallbackType, ServerConnectCallbackType, ReceiveCallbackType,
     SentCallbackType, DownCallbackType DEF Callback
<1>2. ASSUME NEW c \in Ctx, CoreCall(c) \/ CloseTimesOut(c)
      PROVE  TypeOK'
  BY <1>2, CoreCallType
<1>3. CASE MessageProcessor
  BY <1>3, MessageProcessorType
<1>4. CASE UNCHANGED vars
  BY <1>4 DEF vars, TypeOK
<1> QED  BY <1>1, <1>2, <1>3, <1>4 DEF Next

LEMMA InitTypeOK == Init => TypeOK
PROOF
<1> SUFFICES ASSUME Init
             PROVE  TypeOK
  OBVIOUS
<1>1. ctx \in [Ctx -> Context] /\ esp \in [Esp -> Espconn]
  BY DEF Init, FreeContext, Context, Espconn
<1>2. /\ active \in Seq(Entry)
      /\ evq \in Seq(Event) /\ Len(evq) <= EventQueueLen
  BY BoundsAssumption DEF Init
<1>3. <<>> \in Seq(Data)
  OBVIOUS
<1>4. /\ accepted \in [Esp -> Seq(Data)] /\ wire \in [Esp -> Seq(Data)]
      /\ acked \in [Esp -> Nat] /\ crashed \in BOOLEAN
  BY <1>3 DEF Init
<1> QED  BY <1>1, <1>2, <1>4 DEF TypeOK

(* Whatever the sizes and the faults: every pointer of the three kinds of  *)
(* state is NULL or points into its pool, and the event queue never holds  *)
(* more than its length (user_tcp.c:99-113, user_task.c:64-73).            *)
THEOREM TypeCorrect == Spec => []TypeOK
PROOF
<1> QED  BY InitTypeOK, NextKeepsTypeOK, PTL DEF Spec

-----------------------------------------------------------------------------

(***************************************************************************)
(* The proof that TcpConn gives a datum to the SDK at most once and in     *)
(* order, for all sizes and whatever the environment does.                 *)
(*                                                                         *)
(* What is on the wires is right because of what is in the FIFOs, so the   *)
(* invariant speaks of both.  Its parts are operators of a list a of       *)
(* entries, wires w and accepted data acc: an action of TcpConn is then a  *)
(* composition of the few changes below, each of which keeps the parts.    *)
(***************************************************************************)

(* An espconn has at most one entry. *)
OneEntry(a) == \A i, j \in DOMAIN a : a[i].esp = a[j].esp => i = j

(* What is in a FIFO or on a wire has been accepted before. *)
QueuedAccepted(a, acc) ==
    \A i \in DOMAIN a : \A k \in DOMAIN a[i].fifo :
        a[i].fifo[k].n <= Len(acc[a[i].fifo[k].of])

WireAccepted(w, acc) ==
    \A e \in Esp : \A k \in DOMAIN w[e] : w[e][k].n <= Len(acc[w[e][k].of])

(* A datum is in one FIFO, at one place. *)
OnePlace(a) ==
    \A i, j \in DOMAIN a : \A k \in DOMAIN a[i].fifo, l \in DOMAIN a[j].fifo :
        a[i].fifo[k] = a[j].fifo[l] => i = j /\ k = l

(* A FIFO keeps the order in which data of one connection were accepted. *)
InOrder(a) ==
    \A i \in DOMAIN a : \A k, l \in DOMAIN a[i].fifo :
        k < l /\ a[i].fifo[k].of = a[i].fifo[l].of
            => a[i].fifo[k].n < a[i].fifo[l].n

(* Only the head of the FIFO of a busy entry may have been given to the    *)
(* SDK; everything else is waiting.  No wire has a waiting datum, and what *)
(* is on the wire of its own entry was accepted earlier.                   *)
Waits(a, i, k) == a[i].busy => k > 1

WaitingNotSent(a, w) ==
    \A i \in DOMAIN a : \A k \in DOMAIN a[i].fifo : Waits(a, i, k) =>
        \A e \in Esp : \A x \in DOMAIN w[e] : w[e][x] # a[i].fifo[k]

WaitingComesLater(a, w) ==
    \A i \in DOMAIN a : \A k \in DOMAIN a[i].fifo : Waits(a, i, k) =>
        \A x \in DOMAIN w[a[i].esp] :
            w[a[i].esp][x].of = a[i].fifo[k].of
                => w[a[i].esp][x].n < a[i].fifo[k].n

OnceInOrder(w) ==
    \A e, f \in Esp : \A i \in DOMAIN w[e], j \in DOMAIN w[f] :
        /\ e # f => w[e][i] # w[f][j]
        /\ e = f /\ i < j /\ w[e][i].of = w[e][j].of => w[e][i].n < w[e][j].n

Queues(a, acc) == OneEntry(a) /\ QueuedAccepted(a, acc) /\ OnePlace(a) /\ InOrder(a)

Wires(a, w, acc) ==
    /\ WireAccepted(w, acc)
    /\ WaitingNotSent(a, w)
    /\ WaitingComesLater(a, w)
    /\ OnceInOrder(w)

Streams(a, w, acc) == Queues(a, acc) /\ Wires(a, w, acc)

(* An entry is created when a connection comes up, once in its life. *)
EntriesConnected ==
    \A i \in DOMAIN active : esp[active[i].esp].st \notin {"NONE", "CONNECTING"}

IInv == TypeOK /\ EntriesConnected /\ Streams(active, wire, accepted)

-----------------------------------------------------------------------------
(* The types of the places of a list and of the wires. *)
LEMMA DatumType ==
    ASSUME NEW d \in Data
    PROVE  d.of \in Esp /\ d.n \in Nat
PROOF
  BY BoundsAssumption DEF Data

LEMMA DataListType ==
    ASSUME NEW q \in Seq(Data)
    PROVE  /\ DOMAIN q = 1..Len(q) /\ Len(q) \in Nat
           /\ \A k \in DOMAIN q : /\ k \in Nat \ {0} /\ q[k] \in Data
                                  /\ q[k].of \in Esp /\ q[k].n \in Nat
PROOF
<1>1. DOMAIN q = 1..Len(q) /\ Len(q) \in Nat
  OBVIOUS
<1>2. \A k \in DOMAIN q : k \in Nat \ {0} /\ q[k] \in Data
  BY <1>1
<1> QED  BY <1>1, <1>2, DatumType

LEMMA ListType ==
    ASSUME NEW a \in Seq(Entry), NEW i \in DOMAIN a
    PROVE  /\ a[i] \in Entry /\ a[i].esp \in Esp /\ a[i].busy \in BOOLEAN
           /\ a[i].fifo \in Seq(Data)
           /\ DOMAIN a[i].fifo = 1..Len(a[i].fifo) /\ Len(a[i].fifo) \in Nat
           /\ \A k \in DOMAIN a[i].fifo :
                 /\ k \in Nat \ {0} /\ a[i].fifo[k] \in Data
                 /\ a[i].fifo[k].of \in Esp /\ a[i].fifo[k].n \in Nat
PROOF
<1>1. a[i] \in Entry
  <2>1. i \in 1..Len(a)
    OBVIOUS
  <2> QED  BY <2>1
<1>2. /\ a[i].esp \in Esp /\ a[i].busy \in BOOLEAN
      /\ a[i].fifo \in Seq(Data)
  BY <1>1 DEF Entry
<1> QED  BY <1>1, <1>2, DataListType

LEMMA WireType ==
    ASSUME NEW w \in [Esp -> Seq(Data)], NEW e \in Esp
    PROVE  /\ DOMAIN w[e] = 1..Len(w[e]) /\ Len(w[e]) \in Nat
           /\ \A x \in DOMAIN w[e] :
                 /\ x \in Nat \ {0} /\ w[e][x] \in Data
                 /\ w[e][x].of \in Esp /\ w[e][x].n \in Nat
PROOF
<1>1. w[e] \in Seq(Data)
  OBVIOUS
<1> QED  BY <1>1, DataListType

-----------------------------------------------------------------------------
(* The changes an action is made of. *)

(* b has entries of a, each with the same FIFO, with the FIFO without its  *)
(* head, or with an empty one.                                             *)
Shrinks(a, b, m, s) ==
    /\ m \in [DOMAIN b -> DOMAIN a]
    /\ s \in [DOMAIN b -> {0, 1}]
    /\ \A i, j \in DOMAIN b : m[i] = m[j] => i = j
    /\ \A i \in DOMAIN b :
          /\ b[i].esp = a[m[i]].esp
          /\ \A k \in DOMAIN b[i].fifo :
                /\ k \in Nat \ {0}
                /\ k + s[i] \in DOMAIN a[m[i]].fifo
                /\ b[i].fifo[k] = a[m[i]].fifo[k + s[i]]
                /\ s[i] = 0 /\ a[m[i]].busy => b[i].busy

LEMMA ShrinkKeepsStreams ==
    ASSUME NEW a, NEW b, NEW m, NEW s, NEW w, NEW acc,
           Shrinks(a, b, m, s), Streams(a, w, acc),
           a \in Seq(Entry), w \in [Esp -> Seq(Data)]
    PROVE  Streams(b, w, acc)
PROOF
<1>1. Queues(a, acc) /\ Wires(a, w, acc)
  BY DEF Streams
<1>2. ASSUME NEW i \in DOMAIN b
      PROVE  /\ m[i] \in DOMAIN a /\ s[i] \in {0, 1}
             /\ b[i].esp = a[m[i]].esp
             /\ \A k \in DOMAIN b[i].fifo :
                   /\ k \in Nat \ {0}
                   /\ k + s[i] \in DOMAIN a[m[i]].fifo
                   /\ b[i].fifo[k] = a[m[i]].fifo[k + s[i]]
                   /\ Waits(b, i, k) => Waits(a, m[i], k + s[i])
  BY DEF Shrinks, Waits
<1>3. \A i, j \in DOMAIN b : m[i] = m[j] => i = j
  BY DEF Shrinks
<1>4. OneEntry(b)
  <2> SUFFICES ASSUME NEW i \in DOMAIN b, NEW j \in DOMAIN b, b[i].esp = b[j].esp
               PROVE  i = j
    BY DEF OneEntry
  <2>1. OneEntry(a)
    BY <1>1 DEF Queues
  <2>2. /\ m[i] \in DOMAIN a /\ m[j] \in DOMAIN a
        /\ a[m[i]].esp = a[m[j]].esp
    BY <1>2
  <2>3. m[i] = m[j]
    BY <2>1, <2>2 DEF OneEntry
  <2> QED  BY <1>3, <2>3
<1>5. QueuedAccepted(b, acc)
  <2> SUFFICES ASSUME NEW i \in DOMAIN b, NEW k \in DOMAIN b[i].fifo
               PROVE  b[i].fifo[k].n <= Len(acc[b[i].fifo[k].of])
    BY DEF QueuedAccepted
  <2>1. /\ m[i] \in DOMAIN a /\ k + s[i] \in DOMAIN a[m[i]].fifo
        /\ b[i].fifo[k] = a[m[i]].fifo[k + s[i]]
    BY <1>2
  <2> QED  BY <1>1, <2>1 DEF Queues, QueuedAccepted
<1>6. OnePlace(b)
  <2> SUFFICES ASSUME NEW i \in DOMAIN b, NEW j \in DOMAIN b,
                      NEW k \in DOMAIN b[i].fifo, NEW l \in DOMAIN b[j].fifo,
                      b[i].fifo[k] = b[j].fifo[l]
               PROVE  i = j /\ k = l
    BY DEF OnePlace
  <2>1. m[i] = m[j] /\ k + s[i] = l + s[j]
    BY <1>1, <1>2 DEF Queues, OnePlace
  <2> QED  BY <1>2, <1>3, <2>1
<1>7. InOrder(b)
  <2> SUFFICES ASSUME NEW i \in DOMAIN b,
                      NEW k \in DOMAIN b[i].fifo, NEW l \in DOMAIN b[i].fifo,
                      k < l, b[i].fifo[k].of = b[i].fifo[l].of
               PROVE  b[i].fifo[k].n < b[i].fifo[l].n
    BY DEF InOrder
  <2>1. k \in Nat /\ l \in Nat /\ s[i] \in Nat
    BY <1>2
  <2>2. k + s[i] < l + s[i]
    BY <2>1
  <2>3. /\ m[i] \in DOMAIN a
        /\ k + s[i] \in DOMAIN a[m[i]].fifo /\ l + s[i] \in DOMAIN a[m[i]].fifo
        /\ b[i].fifo[k] = a[m[i]].fifo[k + s[i]]
        /\ b[i].fifo[l] = a[m[i]].fifo[l + s[i]]
    BY <1>2
  <2> QED  BY <1>1, <2>2, <2>3 DEF Queues, InOrder
<1>8. WaitingNotSent(b, w)
  BY <1>1, <1>2 DEF Wires, WaitingNotSent
<1>9. WaitingComesLater(b, w)
  <2> SUFFICES ASSUME NEW i \in DOMAIN b, NEW k \in DOMAIN b[i].fifo, Waits(b, i, k),
                      NEW x \in DOMAIN w[b[i].esp],
                      w[b[i].esp][x].of = b[i].fifo[k].of
               PROVE  w[b[i].esp][x].n < b[i].fifo[k].n
    BY DEF WaitingComesLater
  <2>1. /\ m[i] \in DOMAIN a /\ k + s[i] \in DOMAIN a[m[i]].fifo
        /\ b[i].fifo[k] = a[m[i]].fifo[k + s[i]]
        /\ b[i].esp = a[m[i]].esp /\ Waits(a, m[i], k + s[i])
    BY <1>2
  <2> QED  BY <1>1, <2>1 DEF Wires, WaitingComesLater
<1> QED  BY <1>1, <1>4, <1>5, <1>6, <1>7, <1>8, <1>9 DEF Streams, Queues, Wires

(* A new entry has nothing to send. *)
LEMMA NewEntryKeepsStreams ==
    ASSUME NEW a \in Seq(Entry), NEW w, NEW acc, Streams(a, w, acc),
           NEW e, NEW q, q = <<>>, \A i \in DOMAIN a : a[i].esp # e
    PROVE  Streams(Append(a, [esp |-> e, busy |-> FALSE, fifo |-> q, robbed |-> FALSE]), w, acc)
PROOF
<1> DEFINE new == [esp |-> e, busy |-> FALSE, fifo |-> q, robbed |-> FALSE]
           b == Append(a, new)
<1>1. /\ DOMAIN a = 1..Len(a) /\ DOMAIN b = 1..(Len(a) + 1) /\ Len(a) \in Nat
      /\ \A i \in DOMAIN a : b[i] = a[i]
      /\ b[Len(a) + 1] = new
  <2> HIDE DEF new
  <2> QED  OBVIOUS
<1>2. new.esp = e /\ DOMAIN new.fifo = {}
  <2>1. new.esp = e /\ new.fifo = q
    OBVIOUS
  <2>2. q \in Seq(Data) /\ Len(q) = 0
    OBVIOUS
  <2> QED  BY <2>1, <2>2
<1> HIDE DEF new, b
<1>3. \A i \in DOMAIN b :
          \/ i \in DOMAIN a /\ b[i] = a[i]
          \/ i = Len(a) + 1 /\ b[i] = new
  BY <1>1
<1>4. Queues(a, acc) /\ Wires(a, w, acc)
  BY DEF Streams
<1>5. OneEntry(b)
  BY <1>2, <1>3, <1>4 DEF Queues, OneEntry
<1>6. QueuedAccepted(b, acc)
  BY <1>2, <1>3, <1>4 DEF Queues, QueuedAccepted
<1>7. OnePlace(b)
  BY <1>2, <1>3, <1>4 DEF Queues, OnePlace
<1>8. InOrder(b)
  BY <1>2, <1>3, <1>4 DEF Queues, InOrder
<1>9. WaitingNotSent(b, w)
  BY <1>2, <1>3, <1>4 DEF Wires, WaitingNotSent, Waits
<1>10. WaitingComesLater(b, w)
  BY <1>2, <1>3, <1>4 DEF Wires, WaitingComesLater, Waits
<1>11. Streams(b, w, acc)
  BY <1>4, <1>5, <1>6, <1>7, <1>8, <1>9, <1>10 DEF Streams, Queues, Wires
<1> QED  BY <1>11 DEF b, new

(* What has been accepted grows when a datum is accepted. *)
LEMMA AcceptedGrows ==
    ASSUME NEW acc \in [Esp -> Seq(Data)], NEW d \in Data
    PROVE  /\ [acc EXCEPT ![d.of] = Append(@, d)] \in [Esp -> Seq(Data)]
           /\ \A e \in Esp : Len(acc[e]) <= Len([acc EXCEPT ![d.of] = Append(@, d)][e])
           /\ Len([acc EXCEPT ![d.of] = Append(@, d)][d.of]) = Len(acc[d.of]) + 1
PROOF
<1>1. d.of \in Esp
  BY DEF Data
<1>2. /\ Append(acc[d.of], d) \in Seq(Data)
      /\ Len(Append(acc[d.of], d)) = Len(acc[d.of]) + 1
      /\ Len(acc[d.of]) \in Nat
  BY <1>1
<1> DEFINE q == Append(acc[d.of], d)
           g == [acc EXCEPT ![d.of] = q]
<1> HIDE DEF q
<1>3. /\ q \in Seq(Data) /\ Len(q) = Len(acc[d.of]) + 1
      /\ Len(acc[d.of]) \in Nat
  BY <1>2 DEF q
<1>4. g \in [Esp -> Seq(Data)] /\ g[d.of] = q
      /\ \A e \in Esp : e # d.of => g[e] = acc[e]
  BY <1>1, <1>3
<1>5. \A e \in Esp : Len(acc[e]) \in Nat
  OBVIOUS
<1> HIDE DEF g
<1>6. ASSUME NEW e \in Esp PROVE Len(acc[e]) <= Len(g[e])
  <2>1. CASE e = d.of
    <3>1. Len(g[e]) = Len(acc[e]) + 1
      BY <1>3, <1>4, <2>1
    <3> QED  BY <1>5, <3>1
  <2>2. CASE e # d.of
    <3>1. g[e] = acc[e]
      BY <1>4, <2>2
    <3> QED  BY <1>5, <3>1
  <2> QED  BY <2>1, <2>2
<1> QED  BY <1>3, <1>4, <1>6 DEF g, q

(* A datum that is accepted and dropped disturbs nothing. *)
LEMMA AcceptKeepsStreams ==
    ASSUME NEW a \in Seq(Entry), NEW w \in [Esp -> Seq(Data)],
           NEW acc \in [Esp -> Seq(Data)], NEW g \in [Esp -> Seq(Data)],
           \A e \in Esp : Len(acc[e]) <= Len(g[e]),
           Streams(a, w, acc)
    PROVE  Streams(a, w, g)
PROOF
<1>1. \A e \in Esp : Len(acc[e]) \in Nat /\ Len(g[e]) \in Nat
  OBVIOUS
<1>2. \A i \in DOMAIN a : \A k \in DOMAIN a[i].fifo :
          a[i].fifo[k].of \in Esp /\ a[i].fifo[k].n \in Nat
  BY ListType
<1>3. \A e \in Esp : \A k \in DOMAIN w[e] :
          w[e][k].of \in Esp /\ w[e][k].n \in Nat
  BY WireType
<1>4. Queues(a, acc) /\ Wires(a, w, acc)
  BY DEF Streams
<1>5. QueuedAccepted(a, g)
  <2> SUFFICES ASSUME NEW i \in DOMAIN a, NEW k \in DOMAIN a[i].fifo
               PROVE  a[i].fifo[k].n <= Len(g[a[i].fifo[k].of])
    BY DEF QueuedAccepted
  <2>1. a[i].fifo[k].n <= Len(acc[a[i].fifo[k].of])
    BY <1>4 DEF Queues, QueuedAccepted
  <2> QED  BY <1>1, <1>2, <2>1
<1>6. WireAccepted(w, g)
  <2> SUFFICES ASSUME NEW e \in Esp, NEW k \in DOMAIN w[e]
               PROVE  w[e][k].n <= Len(g[w[e][k].of])
    BY DEF WireAccepted
  <2>1. w[e][k].n <= Len(acc[w[e][k].of])
    BY <1>4 DEF Wires, WireAccepted
  <2> QED  BY <1>1, <1>3, <2>1
<1> QED  BY <1>4, <1>5, <1>6 DEF Streams, Queues, Wires

(* A datum newer than everything accepted joins the end of a FIFO. *)
LEMMA QueueKeepsStreams ==
    ASSUME NEW a \in Seq(Entry), NEW w \in [Esp -> Seq(Data)],
           NEW acc \in [Esp -> Seq(Data)], NEW i \in DOMAIN a,
           NEW d \in Data, d.n = Len(acc[d.of]) + 1,
           Streams(a, w, acc)
    PROVE  LET b == [a EXCEPT ![i].fifo = Append(@, d)]
           IN  /\ b \in Seq(Entry)
               /\ Streams(b, w, [acc EXCEPT ![d.of] = Append(@, d)])
PROOF
<1> DEFINE g == [acc EXCEPT ![d.of] = Append(@, d)]
           q == Append(a[i].fifo, d)
           b == [a EXCEPT ![i].fifo = Append(@, d)]
<1>1. a[i].fifo \in Seq(Data) /\ d.of \in Esp /\ d.n \in Nat
  BY ListType, DatumType
<1>2. /\ q \in Seq(Data)
      /\ DOMAIN a[i].fifo = 1..Len(a[i].fifo) /\ Len(a[i].fifo) \in Nat
      /\ DOMAIN q = 1..(Len(a[i].fifo) + 1)
      /\ \A k \in DOMAIN a[i].fifo : q[k] = a[i].fifo[k]
      /\ q[Len(a[i].fifo) + 1] = d
  BY <1>1
<1> HIDE DEF q
<1>3. /\ DOMAIN b = DOMAIN a
      /\ b[i] = [a[i] EXCEPT !.fifo = q]
      /\ \A j \in DOMAIN b : j # i => b[j] = a[j]
  BY DEF q
<1> HIDE DEF b
<1>4. b[i] \in Entry /\ b[i].fifo = q /\ b[i].busy = a[i].busy /\ b[i].esp = a[i].esp
  <2>1. a[i] \in Entry
    BY ListType
  <2> QED  BY <1>2, <1>3, <2>1 DEF Entry
<1>5. b \in Seq(Entry)
  <2> DEFINE x == [a[i] EXCEPT !.fifo = q]
  <2>1. b = [a EXCEPT ![i] = x] /\ x \in Entry /\ i \in 1..Len(a)
    BY <1>3, <1>4 DEF b, q
  <2> HIDE DEF x
  <2> QED  BY <2>1, ExceptSeq
<1>6. /\ Streams(a, w, g) /\ g \in [Esp -> Seq(Data)]
      /\ Len(g[d.of]) = d.n
  BY AcceptedGrows, AcceptKeepsStreams
<1>7. Queues(a, g) /\ Wires(a, w, g)
  BY <1>6 DEF Streams
<1> HIDE DEF g
<1>8. \A j \in DOMAIN a : \A k \in DOMAIN a[j].fifo :
          /\ a[j].fifo[k] # d
          /\ a[j].fifo[k].of = d.of => a[j].fifo[k].n < d.n
  <2> SUFFICES ASSUME NEW j \in DOMAIN a, NEW k \in DOMAIN a[j].fifo,
                      a[j].fifo[k].of = d.of
               PROVE  a[j].fifo[k].n < d.n
    BY <1>1
  <2>1. a[j].fifo[k].n <= Len(acc[d.of])
    BY DEF Streams, Queues, QueuedAccepted
  <2>2. a[j].fifo[k].n \in Nat /\ Len(acc[d.of]) \in Nat
    BY <1>1, ListType
  <2> QED  BY <2>1, <2>2
<1>9. \A e \in Esp : \A x \in DOMAIN w[e] :
          /\ w[e][x] # d
          /\ w[e][x].of = d.of => w[e][x].n < d.n
  <2> SUFFICES ASSUME NEW e \in Esp, NEW x \in DOMAIN w[e], w[e][x].of = d.of
               PROVE  w[e][x].n < d.n
    BY <1>1
  <2>1. w[e][x].n <= Len(acc[d.of])
    BY DEF Streams, Wires, WireAccepted
  <2>2. w[e][x].n \in Nat /\ Len(acc[d.of]) \in Nat
    BY <1>1, WireType
  <2> QED  BY <2>1, <2>2
<1> DEFINE last == Len(a[i].fifo) + 1
<1>10. \A j \in DOMAIN b :
          /\ j \in DOMAIN a /\ b[j].esp = a[j].esp /\ b[j].busy = a[j].busy
          /\ \A k \in DOMAIN b[j].fifo :
                \/ k \in DOMAIN a[j].fifo /\ b[j].fifo[k] = a[j].fifo[k]
                \/ j = i /\ k = last /\ b[j].fifo[k] = d
  <2>1. \A k \in DOMAIN b[i].fifo :
            \/ k \in DOMAIN a[i].fifo /\ b[i].fifo[k] = a[i].fifo[k]
            \/ k = last /\ b[i].fifo[k] = d
    BY <1>2, <1>4
  <2> HIDE DEF last
  <2> QED  BY <1>3, <1>4, <2>1
<1>11. OneEntry(b)
  BY <1>7, <1>10 DEF Queues, OneEntry
<1>12. QueuedAccepted(b, g)
  <2> SUFFICES ASSUME NEW j \in DOMAIN b, NEW k \in DOMAIN b[j].fifo
               PROVE  b[j].fifo[k].n <= Len(g[b[j].fifo[k].of])
    BY DEF QueuedAccepted
  <2>1. CASE k \in DOMAIN a[j].fifo /\ b[j].fifo[k] = a[j].fifo[k]
    BY <1>7, <1>10, <2>1 DEF Queues, QueuedAccepted
  <2>2. CASE b[j].fifo[k] = d
    <3>1. d.n <= d.n
      BY <1>1
    <3> QED  BY <1>6, <2>2, <3>1
  <2> QED  BY <1>10, <2>1, <2>2
<1>13. OnePlace(b)
  <2> SUFFICES ASSUME NEW j \in DOMAIN b, NEW h \in DOMAIN b,
                      NEW k \in DOMAIN b[j].fifo, NEW l \in DOMAIN b[h].fifo,
                      b[j].fifo[k] = b[h].fifo[l]
               PROVE  j = h /\ k = l
    BY DEF OnePlace
  <2>1. /\ j \in DOMAIN a /\ h \in DOMAIN a
        /\ \/ k \in DOMAIN a[j].fifo /\ b[j].fifo[k] = a[j].fifo[k]
           \/ j = i /\ k = last /\ b[j].fifo[k] = d
        /\ \/ l \in DOMAIN a[h].fifo /\ b[h].fifo[l] = a[h].fifo[l]
           \/ h = i /\ l = last /\ b[h].fifo[l] = d
    BY <1>10
  <2> HIDE DEF last
  <2> QED  BY <1>7, <1>8, <2>1 DEF Queues, OnePlace
<1>14. ASSUME NEW j \in DOMAIN b,
              NEW k \in DOMAIN b[j].fifo, NEW l \in DOMAIN b[j].fifo,
              k < l, b[j].fifo[k].of = b[j].fifo[l].of
       PROVE  b[j].fifo[k].n < b[j].fifo[l].n
  <2>9. j \in DOMAIN a /\ \A x \in DOMAIN b[j].fifo :
          \/ x \in DOMAIN a[j].fifo /\ b[j].fifo[x] = a[j].fifo[x]
          \/ j = i /\ x = last /\ b[j].fifo[x] = d
    BY <1>10
  <2>1. CASE k \in DOMAIN a[j].fifo /\ b[j].fifo[k] = a[j].fifo[k]
    <3>1. CASE l \in DOMAIN a[j].fifo /\ b[j].fifo[l] = a[j].fifo[l]
      <4>1. a[j].fifo[k].of = a[j].fifo[l].of
        BY <1>14, <2>1, <3>1
      <4>2. a[j].fifo[k].n < a[j].fifo[l].n
        BY <1>7, <1>14, <2>9, <2>1, <3>1, <4>1 DEF Queues, InOrder
      <4> QED  BY <2>1, <3>1, <4>2
    <3>2. CASE b[j].fifo[l] = d
      BY <1>8, <1>14, <2>9, <2>1, <3>2
    <3> QED  BY <2>9, <3>1, <3>2
  <2>2. CASE j = i /\ k = last
    <3>1. k \in 1..last /\ l \in 1..last /\ last \in Nat
      BY <1>2, <1>4, <2>2
    <3> QED  BY <1>14, <2>2, <3>1
  <2> QED  BY <2>9, <2>1, <2>2
<1>15. WaitingNotSent(b, w)
  <2> SUFFICES ASSUME NEW j \in DOMAIN b, NEW k \in DOMAIN b[j].fifo, Waits(b, j, k),
                      NEW e \in Esp, NEW x \in DOMAIN w[e]
               PROVE  w[e][x] # b[j].fifo[k]
    BY DEF WaitingNotSent
  <2>1. CASE k \in DOMAIN a[j].fifo /\ b[j].fifo[k] = a[j].fifo[k]
    <3>1. j \in DOMAIN a /\ Waits(a, j, k)
      BY <1>10 DEF Waits
    <3> QED  BY <1>7, <2>1, <3>1 DEF Wires, WaitingNotSent
  <2>2. CASE b[j].fifo[k] = d
    BY <1>9, <2>2
  <2> QED  BY <1>10, <2>1, <2>2
<1>16. WaitingComesLater(b, w)
  <2> SUFFICES ASSUME NEW j \in DOMAIN b, NEW k \in DOMAIN b[j].fifo, Waits(b, j, k),
                      NEW x \in DOMAIN w[b[j].esp],
                      w[b[j].esp][x].of = b[j].fifo[k].of
               PROVE  w[b[j].esp][x].n < b[j].fifo[k].n
    BY DEF WaitingComesLater
  <2>1. b[j].esp \in Esp
    BY <1>10, ListType
  <2>2. CASE k \in DOMAIN a[j].fifo /\ b[j].fifo[k] = a[j].fifo[k]
    <3>1. j \in DOMAIN a /\ b[j].esp = a[j].esp /\ Waits(a, j, k)
      BY <1>10 DEF Waits
    <3> QED  BY <1>7, <2>2, <3>1 DEF Wires, WaitingComesLater
  <2>3. CASE b[j].fifo[k] = d
    BY <1>9, <2>1, <2>3
  <2> QED  BY <1>10, <2>2, <2>3
<1>17. InOrder(b)
  BY <1>14 DEF InOrder
<1>18. Streams(b, w, g)
  BY <1>7, <1>11, <1>12, <1>13, <1>15, <1>16, <1>17 DEF Streams, Queues, Wires
<1> QED  BY <1>5, <1>18 DEF g, b

(* The head of the FIFO of an idle entry is given to the SDK. *)
LEMMA GiveKeepsStreams ==
    ASSUME NEW a \in Seq(Entry), NEW w \in [Esp -> Seq(Data)], NEW acc,
           NEW i \in DOMAIN a, a[i].busy = FALSE, a[i].fifo # <<>>,
           Streams(a, w, acc)
    PROVE  Streams([a EXCEPT ![i].busy = TRUE],
                   [w EXCEPT ![a[i].esp] = Append(@, Head(a[i].fifo))], acc)
PROOF
<1> DEFINE f == a[i].esp
           h == Head(a[i].fifo)
           u == Append(w[f], h)
           v == [w EXCEPT ![f] = u]
           last == Len(w[f]) + 1
           b == [a EXCEPT ![i].busy = TRUE]
<1>1. /\ a[i].esp \in Esp /\ a[i].fifo \in Seq(Data)
      /\ 1 \in DOMAIN a[i].fifo /\ h = a[i].fifo[1] /\ h \in Data
  <2>1. a[i].esp \in Esp /\ a[i].fifo \in Seq(Data)
    BY ListType
  <2>2. Len(a[i].fifo) \in Nat /\ Len(a[i].fifo) # 0
    BY <2>1
  <2> QED  BY <2>1, <2>2
<1> HIDE DEF h
<1>2. /\ DOMAIN u = 1..last /\ DOMAIN w[f] = 1..Len(w[f]) /\ Len(w[f]) \in Nat
      /\ \A x \in DOMAIN w[f] : u[x] = w[f][x]
      /\ u[last] = h
  BY <1>1
<1> HIDE DEF u
<1>3. v[f] = u /\ \A e \in Esp : e # f => v[e] = w[e]
  BY <1>1
<1>4. \A e \in Esp : \A x \in DOMAIN v[e] :
          \/ x \in DOMAIN w[e] /\ v[e][x] = w[e][x]
          \/ e = f /\ x = last /\ v[e][x] = h
  <2> HIDE DEF v
  <2> SUFFICES ASSUME NEW e \in Esp, NEW x \in DOMAIN v[e]
               PROVE  \/ x \in DOMAIN w[e] /\ v[e][x] = w[e][x]
                      \/ e = f /\ x = last /\ v[e][x] = h
    OBVIOUS
  <2>1. CASE e = f
    <3>1. x \in 1..last /\ v[e][x] = u[x]
      BY <1>2, <1>3, <2>1
    <3>2. x \in 1..Len(w[f]) \/ x = last
      BY <1>2, <3>1
    <3> QED  BY <1>2, <2>1, <3>1, <3>2
  <2>2. CASE e # f
    BY <1>3, <2>2
  <2> QED  BY <2>1, <2>2
<1> HIDE DEF v
<1>5. \A j \in DOMAIN b : /\ j \in DOMAIN a /\ b[j].esp = a[j].esp
                           /\ b[j].fifo = a[j].fifo
                           /\ \A k : Waits(b, j, k) => Waits(a, j, k)
  <2>1. /\ DOMAIN b = DOMAIN a
        /\ b[i] = [a[i] EXCEPT !.busy = TRUE]
        /\ \A j \in DOMAIN b : j # i => b[j] = a[j]
    OBVIOUS
  <2>2. a[i] \in Entry
    BY ListType
  <2>3. b[i].esp = a[i].esp /\ b[i].fifo = a[i].fifo
    BY <2>1, <2>2 DEF Entry
  <2> QED  BY <2>1, <2>3 DEF Waits
<1>6. b[i].busy = TRUE /\ Waits(a, i, 1) /\ ~Waits(b, i, 1)
  <2>1. a[i] \in Entry /\ b[i] = [a[i] EXCEPT !.busy = TRUE]
    BY ListType
  <2>2. b[i].busy = TRUE
    BY <2>1 DEF Entry
  <2> QED  BY <2>2 DEF Waits
<1> HIDE DEF b
<1>7. Queues(a, acc) /\ Wires(a, w, acc)
  BY DEF Streams
<1>8. Queues(b, acc)
  BY <1>5, <1>7 DEF Queues, OneEntry, QueuedAccepted, OnePlace, InOrder
<1>9. WireAccepted(v, acc)
  BY <1>1, <1>4, <1>7 DEF Queues, Wires, QueuedAccepted, WireAccepted
<1>10. WaitingNotSent(b, v)
  <2> SUFFICES ASSUME NEW j \in DOMAIN b, NEW k \in DOMAIN b[j].fifo, Waits(b, j, k),
                      NEW e \in Esp, NEW x \in DOMAIN v[e]
               PROVE  v[e][x] # b[j].fifo[k]
    BY DEF WaitingNotSent
  <2>1. CASE x \in DOMAIN w[e] /\ v[e][x] = w[e][x]
    <3>1. /\ j \in DOMAIN a /\ k \in DOMAIN a[j].fifo
          /\ b[j].fifo[k] = a[j].fifo[k] /\ Waits(a, j, k)
      BY <1>5
    <3> QED  BY <1>7, <2>1, <3>1 DEF Wires, WaitingNotSent
  <2>2. CASE v[e][x] = h
    <3>1. ~(j = i /\ k = 1)
      BY <1>6
    <3>2. j \in DOMAIN a /\ k \in DOMAIN a[j].fifo /\ b[j].fifo[k] = a[j].fifo[k]
      BY <1>5
    <3>3. a[j].fifo[k] # a[i].fifo[1]
      BY <1>1, <1>7, <3>1, <3>2 DEF Queues, OnePlace
    <3> QED  BY <1>1, <2>2, <3>2, <3>3
  <2> QED  BY <1>4, <2>1, <2>2
<1>11. WaitingComesLater(b, v)
  <2> SUFFICES ASSUME NEW j \in DOMAIN b, NEW k \in DOMAIN b[j].fifo, Waits(b, j, k),
                      NEW x \in DOMAIN v[b[j].esp],
                      v[b[j].esp][x].of = b[j].fifo[k].of
               PROVE  v[b[j].esp][x].n < b[j].fifo[k].n
    BY DEF WaitingComesLater
  <2>1. b[j].esp \in Esp /\ b[j].esp = a[j].esp
    BY <1>5, ListType
  <2>2. CASE x \in DOMAIN w[b[j].esp] /\ v[b[j].esp][x] = w[b[j].esp][x]
    BY <1>5, <1>7, <2>1, <2>2 DEF Wires, WaitingComesLater
  <2>3. CASE b[j].esp = f /\ v[b[j].esp][x] = h
    <3>1. j = i
      BY <1>5, <1>7, <2>3 DEF Queues, OneEntry
    <3>2. k > 1
      BY <1>6, <3>1 DEF Waits
    <3>3. /\ k \in DOMAIN a[i].fifo /\ b[j].fifo[k] = a[i].fifo[k]
          /\ a[i].fifo[1].of = a[i].fifo[k].of
      BY <1>1, <1>5, <2>3, <3>1
    <3>4. a[i].fifo[1].n < a[i].fifo[k].n
      BY <1>1, <1>7, <3>2, <3>3 DEF Queues, InOrder
    <3> QED  BY <1>1, <2>3, <3>3, <3>4
  <2> QED  BY <1>4, <2>1, <2>2, <2>3
<1>12. OnceInOrder(v)
  <2>1. ASSUME NEW e \in Esp, NEW x \in DOMAIN w[e]
        PROVE  /\ w[e][x] # h
               /\ e = f /\ w[e][x].of = h.of => w[e][x].n < h.n
    BY <1>1, <1>6, <1>7, <2>1 DEF Wires, WaitingNotSent, WaitingComesLater
  <2> SUFFICES ASSUME NEW e \in Esp, NEW g \in Esp,
                      NEW x \in DOMAIN v[e], NEW y \in DOMAIN v[g]
               PROVE  /\ e # g => v[e][x] # v[g][y]
                      /\ e = g /\ x < y /\ v[e][x].of = v[e][y].of
                            => v[e][x].n < v[e][y].n
    BY DEF OnceInOrder
  <2>2. CASE /\ x \in DOMAIN w[e] /\ v[e][x] = w[e][x]
             /\ y \in DOMAIN w[g] /\ v[g][y] = w[g][y]
    BY <1>7, <2>2 DEF Wires, OnceInOrder
  <2>3. CASE /\ x \in DOMAIN w[e] /\ v[e][x] = w[e][x]
             /\ g = f /\ y = last /\ v[g][y] = h
    BY <2>1, <2>3
  <2>4. CASE /\ e = f /\ x = last /\ v[e][x] = h
             /\ y \in DOMAIN w[g] /\ v[g][y] = w[g][y]
    BY <1>2, <2>1, <2>4
  <2>5. CASE e = f /\ x = last /\ g = f /\ y = last
    BY <1>2, <2>5
  <2> QED  BY <1>4, <2>2, <2>3, <2>4, <2>5
<1>13. Streams(b, v, acc)
  BY <1>7, <1>8, <1>9, <1>10, <1>11, <1>12 DEF Streams, Wires
<1> QED  BY <1>13 DEF v, u, h, b

-----------------------------------------------------------------------------
(* The actions of TcpConn, in terms of these changes. *)

Good == EntriesConnected /\ Streams(active, wire, accepted)

(* A connection that has come up is not opened again. *)
StaysConnected ==
    \A e \in Esp : esp[e].st \notin {"NONE", "CONNECTING"}
                   => esp'[e].st \notin {"NONE", "CONNECTING"}

LEMMA SameShrinks ==
    ASSUME NEW a \in Seq(Entry)
    PROVE  \E m, s : Shrinks(a, a, m, s) /\ \A i \in DOMAIN a : m[i] = i
PROOF
<1> DEFINE m == [i \in DOMAIN a |-> i]
           s == [i \in DOMAIN a |-> 0]
<1>1. Shrinks(a, a, m, s)
  <2>1. ASSUME NEW i \in DOMAIN a, NEW k \in DOMAIN a[i].fifo
        PROVE  k \in Nat \ {0} /\ k + 0 = k
    BY ListType
  <2> QED  BY <2>1 DEF Shrinks
<1> QED  BY <1>1

(* cleanup_active_conn takes one entry out and empties the first FIFO. *)
LEMMA CleanupShrinks ==
    ASSUME TypeOK, NEW c
    PROVE  \E m, s :
              /\ Shrinks(active, Cleanup(c), m, s)
              /\ Matching(c) # {} => \A i \in DOMAIN Cleanup(c) : m[i] # FirstMatching(c)
              /\ \A i \in DOMAIN Cleanup(c) : Spared(active[m[i]], Cleanup(c)[i])
PROOF
<1>1. CASE Matching(c) = {}
  <2>1. active \in Seq(Entry) /\ Cleanup(c) = active
    BY <1>1 DEF Cleanup, TypeOK
  <2>2. \A en \in Entry : Spared(en, en)
    BY DEF Spared, Entry
  <2>3. PICK m, s : Shrinks(active, active, m, s) /\ \A i \in DOMAIN active : m[i] = i
    BY <2>1, SameShrinks
  <2>4. \A i \in DOMAIN active : Spared(active[i], active[i])
    BY <2>1, <2>2
  <2> QED  BY <1>1, <2>1, <2>3, <2>4
<1>2. CASE Matching(c) # {}
  <2> DEFINE f == FirstMatching(c)
             x == Emptied(active[1])
             a == [active EXCEPT ![1] = x]
             b == Cleanup(c)
             m == [i \in DOMAIN b |-> IF i < f THEN i ELSE i + 1]
             s == [i \in DOMAIN b |-> 0]
  <2>1. /\ f \in 1..Len(active) /\ 1 \in 1..Len(active)
        /\ active \in Seq(Entry) /\ active[1] \in Entry
        /\ DOMAIN active = 1..Len(active) /\ Len(active) \in Nat
    BY <1>2, FirstMatchingInList DEF TypeOK
  <2>2. <<>> \in Seq(Data) /\ DOMAIN <<>> = {}
    OBVIOUS
  <2>3. /\ x \in Entry /\ DOMAIN x.fifo = {}
        /\ x.esp = active[1].esp /\ Spared(active[1], x)
    BY <2>1, <2>2, EmptiedType
  <2>4. b = SubSeq(a, 1, f - 1) \o SubSeq(a, f + 1, Len(a))
    BY <1>2 DEF Cleanup, RemoveAt
  <2> HIDE DEF f, x, b
  <2>5. /\ a \in Seq(Entry) /\ Len(a) = Len(active)
        /\ \A i \in 1..Len(active) : a[i] = IF i = 1 THEN x ELSE active[i]
    BY <2>1, <2>3, ExceptSeq
  <2> HIDE DEF a
  <2>6. /\ DOMAIN b = 1..(Len(active) - 1)
        /\ \A i \in DOMAIN b : b[i] = IF i < f THEN a[i] ELSE a[i + 1]
    <3> DEFINE u == SubSeq(a, 1, f - 1)
               v == SubSeq(a, f + 1, Len(a))
    <3>1. /\ u \in Seq(Entry) /\ Len(u) = f - 1
          /\ \A i \in 1..(f - 1) : u[i] = a[i]
      BY <2>1, <2>5
    <3>2. /\ v \in Seq(Entry) /\ Len(v) = Len(active) - f
          /\ \A i \in 1..(Len(active) - f) : v[i] = a[f + i]
      <4>1. f + 1 \in 1..(Len(a) + 1) /\ Len(a) \in Nat /\ f \in Nat
        BY <2>1, <2>5
      <4>2. /\ f + 1 \in Int /\ Len(a) \in Int
            /\ \A i \in (f + 1)..Len(a) : a[i] \in Entry
        BY <2>5, <4>1
      <4>3. /\ v \in Seq(Entry)
            /\ Len(v) = IF f + 1 <= Len(a) THEN Len(a) - (f + 1) + 1 ELSE 0
            /\ \A i \in 1..(Len(a) - (f + 1) + 1) : v[i] = a[(f + 1) + i - 1]
        BY <4>2, SubSeqProperties
      <4> HIDE DEF v
      <4>4. Len(v) = Len(active) - f
        <5> DEFINE n == Len(v)
        <5>1. n = IF f + 1 <= Len(a) THEN Len(a) - (f + 1) + 1 ELSE 0
          BY <4>3
        <5>2. Len(a) = Len(active) /\ f \in 1..Len(active) /\ Len(active) \in Nat
          BY <2>1, <2>5
        <5> HIDE DEF n
        <5>3. n = Len(active) - f
          BY <5>1, <5>2
        <5> QED  BY <5>3 DEF n
      <4>5. ASSUME NEW i \in 1..(Len(active) - f)
            PROVE  v[i] = a[f + i]
        <5>1. i \in 1..(Len(a) - (f + 1) + 1) /\ (f + 1) + i - 1 = f + i
          BY <2>1, <2>5, <4>1
        <5> QED  BY <4>3, <5>1
      <4> QED  BY <4>3, <4>4, <4>5
    <3> HIDE DEF u, v
    <3>3. b = u \o v
      BY <2>4 DEF u, v
    <3>4. /\ b \in Seq(Entry) /\ Len(b) = (f - 1) + (Len(active) - f)
          /\ \A i \in 1..Len(b) : b[i] = IF i <= f - 1 THEN u[i] ELSE v[i - (f - 1)]
      <4>1. /\ b \in Seq(Entry) /\ Len(b) = Len(u) + Len(v)
            /\ \A i \in 1..(Len(u) + Len(v)) :
                  b[i] = IF i <= Len(u) THEN u[i] ELSE v[i - Len(u)]
        BY <3>1, <3>2, <3>3, ConcatProperties
      <4> QED  BY <3>1, <3>2, <4>1
    <3>5. DOMAIN b = 1..(Len(active) - 1)
      BY <2>1, <3>4
    <3>6. ASSUME NEW i \in DOMAIN b
          PROVE  b[i] = IF i < f THEN a[i] ELSE a[i + 1]
      <4>1. i \in Nat /\ 1 <= i /\ i <= Len(active) - 1 /\ i \in 1..Len(b)
        BY <2>1, <3>4, <3>5
      <4>2. CASE i < f
        BY <2>1, <3>1, <3>4, <4>1, <4>2
      <4>3. CASE ~(i < f)
        <5>1. /\ f \in Nat /\ ~(i <= f - 1)
              /\ i - (f - 1) \in 1..(Len(active) - f)
              /\ f + (i - (f - 1)) = i + 1
          BY <2>1, <4>1, <4>3
        <5>2. b[i] = v[i - (f - 1)]
          BY <3>4, <4>1, <5>1
        <5>3. v[i - (f - 1)] = a[f + (i - (f - 1))]
          BY <3>2, <5>1
        <5> QED  BY <4>3, <5>1, <5>2, <5>3
      <4> QED  BY <4>2, <4>3
    <3> QED  BY <3>5, <3>6
  <2>7. \A i \in DOMAIN b :
            /\ m[i] \in DOMAIN active /\ b[i].esp = active[m[i]].esp
            /\ b[i] = active[m[i]] \/ DOMAIN b[i].fifo = {}
    BY <2>1, <2>3, <2>5, <2>6
  <2>14. \A i \in DOMAIN b : Spared(active[m[i]], b[i])
    <3>1. \A en \in Entry : Spared(en, en)
      BY DEF Spared, Entry
    <3>2. \A i \in 1..Len(active) : Spared(active[i], active[i])
      BY <2>1, <3>1
    <3>3. \A i \in DOMAIN b : /\ m[i] \in 1..Len(active)
                             /\ \/ b[i] = active[m[i]]
                                \/ m[i] = 1 /\ b[i] = x
      BY <2>1, <2>5, <2>6
    <3> HIDE DEF m
    <3> QED  BY <2>3, <3>2, <3>3
  <2>8. \A i, j \in DOMAIN b : m[i] = m[j] => i = j
    BY <2>1, <2>6
  <2>9. ASSUME NEW i \in DOMAIN active, NEW k \in DOMAIN active[i].fifo
        PROVE  k \in Nat \ {0} /\ k + 0 = k
    BY <2>1, ListType
  <2>10. m \in [DOMAIN b -> DOMAIN active] /\ s \in [DOMAIN b -> {0, 1}]
    BY <2>7
  <2>11. ASSUME NEW i \in DOMAIN b, NEW k \in DOMAIN b[i].fifo
         PROVE  /\ k \in Nat \ {0}
                /\ k + s[i] \in DOMAIN active[m[i]].fifo
                /\ b[i].fifo[k] = active[m[i]].fifo[k + s[i]]
                /\ s[i] = 0 /\ active[m[i]].busy => b[i].busy
    <3>1. b[i] = active[m[i]] /\ m[i] \in DOMAIN active /\ s[i] = 0
      BY <2>7
    <3> HIDE DEF m, s
    <3>2. k \in Nat \ {0} /\ k + 0 = k
      BY <2>9, <3>1
    <3> QED  BY <3>1, <3>2
  <2>12. \A i \in DOMAIN b : m[i] # f
    BY <2>1, <2>6
  <2> HIDE DEF m, s
  <2>13. Shrinks(active, b, m, s)
    BY <2>7, <2>8, <2>10, <2>11 DEF Shrinks
  <2> QED  BY <2>12, <2>13, <2>14 DEF b, f
<1> QED  BY <1>1, <1>2

LEMMA ConnectedEntries ==
    ASSUME IInv, TypeOK', StaysConnected,
           \A i \in DOMAIN active' :
               \E j \in DOMAIN active : active'[i].esp = active[j].esp
    PROVE  EntriesConnected'
PROOF
<1>1. \A i \in DOMAIN active' : active'[i].esp \in Esp
  <2>1. active' \in Seq(Entry)
    BY DEF TypeOK
  <2> QED  BY <2>1, ListType
<1> QED  BY <1>1 DEF IInv, EntriesConnected, StaysConnected

LEMMA CleanupKeepsGood ==
    ASSUME IInv, TypeOK', StaysConnected, UNCHANGED <<wire, accepted>>,
           active' = active \/ \E c : active' = Cleanup(c)
    PROVE  Good'
PROOF
<1>1. /\ active \in Seq(Entry) /\ wire \in [Esp -> Seq(Data)]
      /\ Streams(active, wire, accepted)
  BY DEF IInv, TypeOK
<1>2. PICK m, s : Shrinks(active, active', m, s)
  BY <1>1, SameShrinks, CleanupShrinks DEF IInv
<1>3. Streams(active', wire', accepted')
  BY <1>1, <1>2, ShrinkKeepsStreams
<1>4. \A i \in DOMAIN active' :
          \E j \in DOMAIN active : active'[i].esp = active[j].esp
  BY <1>2 DEF Shrinks
<1>5. EntriesConnected'
  BY <1>4, ConnectedEntries
<1> QED  BY <1>3, <1>5 DEF Good

(* A connection comes up: it has no entry yet, and may get one. *)
LEMMA RegisterKeepsGood ==
    ASSUME IInv, TypeOK', NEW e \in Esp, esp[e].st \in {"NONE", "CONNECTING"},
           esp'[e].st = "UP", StaysConnected, UNCHANGED <<wire, accepted>>,
           NEW c, NEW context, Register(c, e, context)
    PROVE  Good'
PROOF
<1>1. CASE active' = active
  BY <1>1, CleanupKeepsGood
<1>2. CASE active' = Append(active, [esp |-> e, busy |-> FALSE, fifo |-> <<>>,
                                     robbed |-> FALSE])
  <2> DEFINE new == [esp |-> e, busy |-> FALSE, fifo |-> <<>>, robbed |-> FALSE]
  <2>1. active \in Seq(Entry) /\ Streams(active, wire, accepted)
    BY DEF IInv, TypeOK
  <2>2. \A i \in DOMAIN active : active[i].esp # e
    BY DEF IInv, EntriesConnected
  <2>3. Streams(active', wire', accepted')
    <3> DEFINE q == <<>>
    <3>1. active' = Append(active, [esp |-> e, busy |-> FALSE, fifo |-> q,
                                    robbed |-> FALSE])
      BY <1>2
    <3>2. q = <<>>
      OBVIOUS
    <3> HIDE DEF q
    <3>3. Streams(active', wire, accepted)
      BY <2>1, <2>2, <3>1, <3>2, NewEntryKeepsStreams
    <3> QED  BY <3>3
  <2>4. EntriesConnected'
    <3>1. new.esp = e
      OBVIOUS
    <3>2. active' = Append(active, new)
      BY <1>2
    <3> HIDE DEF new
    <3>3. \A i \in DOMAIN active' :
              \/ active'[i] = new
              \/ i \in DOMAIN active /\ active'[i] = active[i]
      BY <2>1, <3>2
    <3>4. \A i \in DOMAIN active : active[i].esp \in Esp
      BY <2>1, ListType
    <3> QED  BY <3>1, <3>3, <3>4 DEF IInv, EntriesConnected, StaysConnected
  <2> QED  BY <2>3, <2>4 DEF Good
<1> QED  BY <1>1, <1>2 DEF Register

-----------------------------------------------------------------------------
(* A datum the core sends. *)

LEMMA BusyAsBefore ==
    ASSUME NEW a \in Seq(Entry), NEW i \in DOMAIN a, NEW q
    PROVE  [a EXCEPT ![i].fifo = q, ![i].busy = a[i].busy] = [a EXCEPT ![i].fifo = q]
PROOF
<1>1. a[i] \in Entry
  BY ListType
<1> DEFINE x == [[a[i] EXCEPT !.fifo = q] EXCEPT !.busy = a[i].busy]
           y == [a[i] EXCEPT !.fifo = q]
<1>2. x = y
  BY <1>1 DEF Entry
<1>3. /\ [a EXCEPT ![i].fifo = q, ![i].busy = a[i].busy] = [a EXCEPT ![i] = x]
      /\ [a EXCEPT ![i].fifo = q] = [a EXCEPT ![i] = y]
  OBVIOUS
<1> HIDE DEF x, y
<1> QED  BY <1>2, <1>3

(* Entries keep their espconns when only FIFOs and busy flags change. *)
LEMMA SameConnections ==
    ASSUME NEW i, NEW q, NEW b,
           active' \in {active, [active EXCEPT ![i].fifo = q],
                        [active EXCEPT ![i].fifo = q, ![i].busy = b]},
           active \in Seq(Entry)
    PROVE  \A j \in DOMAIN active' : /\ j \in DOMAIN active
                                    /\ active'[j].esp = active[j].esp
PROOF
<1>1. \A j \in DOMAIN active : active[j] \in Entry
  BY ListType
<1> DEFINE x == [[active[i] EXCEPT !.fifo = q] EXCEPT !.busy = b]
           y == [active[i] EXCEPT !.fifo = q]
<1>2. i \in DOMAIN active => x.esp = active[i].esp /\ y.esp = active[i].esp
  BY <1>1 DEF Entry
<1>3. active' \in {active, [active EXCEPT ![i] = y], [active EXCEPT ![i] = x]}
  OBVIOUS
<1> HIDE DEF x, y
<1> QED  BY <1>2, <1>3

LEMMA SendKeepsGood ==
    ASSUME IInv, TypeOK', NEW c \in Ctx, my_send_data(c)
    PROVE  Good'
PROOF
<1> DEFINE d == Datum(c)
           i == SendEntry(c)
           q == Append(active[i].fifo, d)
           g == [accepted EXCEPT ![d.of] = Append(@, d)]
           a == [active EXCEPT ![i].fifo = Append(@, d)]
<1>1. /\ TypeOK /\ active \in Seq(Entry) /\ wire \in [Esp -> Seq(Data)]
      /\ accepted \in [Esp -> Seq(Data)]
      /\ Streams(active, wire, accepted) /\ EntriesConnected
  BY DEF IInv, TypeOK
<1>2. /\ d \in Data /\ d.of \in Esp /\ d.n = Len(accepted[d.of]) + 1
      /\ UNCHANGED <<ctx, esp, crashed, acked>>
  BY <1>1, SendDataCases
<1> HIDE DEF d, i
<1>3. StaysConnected
  BY <1>2 DEF StaysConnected
<1>4. CASE accepted' = g /\ UNCHANGED <<active, evq, wire>>
  <2>1. /\ g \in [Esp -> Seq(Data)]
        /\ \A e \in Esp : Len(accepted[e]) <= Len(g[e])
    BY <1>1, <1>2, AcceptedGrows
  <2> HIDE DEF g
  <2>2. Streams(active, wire, g)
    BY <1>1, <2>1, AcceptKeepsStreams
  <2> QED  BY <1>1, <1>2, <1>4, <2>2 DEF Good, EntriesConnected
<1>5. ASSUME i \in 1..Len(active)
      PROVE  /\ a \in Seq(Entry) /\ Streams(a, wire, g)
             /\ [active EXCEPT ![i].fifo = q, ![i].busy = active[i].busy] = a
             /\ i \in DOMAIN active /\ DOMAIN a = DOMAIN active
             /\ a[i].esp = active[i].esp /\ a[i].busy = active[i].busy
             /\ a[i].fifo = q /\ q # <<>>
  <2>1. i \in DOMAIN active
    BY <1>1, <1>5
  <2>2. a \in Seq(Entry) /\ Streams(a, wire, g)
    BY <1>1, <1>2, <2>1, QueueKeepsStreams
  <2>3. [active EXCEPT ![i].fifo = q, ![i].busy = active[i].busy] = a
    BY <1>1, <2>1, BusyAsBefore
  <2>4. active[i] \in Entry /\ active[i].fifo \in Seq(Data)
    BY <1>1, <2>1, ListType
  <2>5. q # <<>>
    BY <1>2, <2>4
  <2>6. /\ DOMAIN a = DOMAIN active /\ a[i] = [active[i] EXCEPT !.fifo = q]
    BY <2>1
  <2> QED  BY <2>1, <2>2, <2>3, <2>4, <2>5, <2>6 DEF Entry
<1>6. ASSUME i \in 1..Len(active), Queue(i, d, active[i].busy), wire' = wire
      PROVE  Good'
  <2>1. active' = [active EXCEPT ![i].fifo = q, ![i].busy = active[i].busy] /\ accepted' = g
    BY <1>6 DEF Queue
  <2> HIDE DEF a, g, q
  <2>2. Streams(active', wire', accepted')
    BY <1>5, <1>6, <2>1
  <2>3. EntriesConnected'
    <3>1. \A j \in DOMAIN active' : /\ j \in DOMAIN active
                                       /\ active'[j].esp = active[j].esp
      BY <1>1, <1>3, <2>1, SameConnections
    <3> QED  BY <1>1, <1>3, <3>1, ConnectedEntries
  <2> QED  BY <2>2, <2>3 DEF Good
<1>7. ASSUME i \in 1..Len(active), ~active[i].busy, SendNow(i, d, "OK")
      PROVE  Good'
  <2> DEFINE b == [a EXCEPT ![i].busy = TRUE]
             h == Head(q)
             v == [wire EXCEPT ![active[i].esp] = Append(@, h)]
  <2>1. /\ active' = [active EXCEPT ![i].fifo = q, ![i].busy = TRUE]
        /\ accepted' = g /\ wire' = v
    BY <1>7 DEF SendNow, Queue
  <2>2. active' = b
    BY <2>1
  <2> HIDE DEF a
  <2>3. a[i].busy = FALSE /\ a[i].fifo # <<>> /\ i \in DOMAIN a
    <3>1. active[i].busy \in BOOLEAN
      BY <1>1, <1>7, EntryType
    <3> QED  BY <1>5, <1>7, <3>1
  <2>4. Streams(b, [wire EXCEPT ![a[i].esp] = Append(@, Head(a[i].fifo))], g)
    <3> HIDE DEF g
    <3> QED  BY <1>1, <1>5, <1>7, <2>3, GiveKeepsStreams
  <2>5. v = [wire EXCEPT ![a[i].esp] = Append(@, Head(a[i].fifo))]
    BY <1>5, <1>7
  <2> HIDE DEF b, v, g
  <2>6. Streams(active', wire', accepted')
    BY <2>1, <2>2, <2>4, <2>5
  <2>7. EntriesConnected'
    <3>1. \A j \in DOMAIN active' : /\ j \in DOMAIN active
                                       /\ active'[j].esp = active[j].esp
      BY <1>1, <1>3, <2>1, SameConnections
    <3> QED  BY <1>1, <1>3, <3>1, ConnectedEntries
  <2> QED  BY <2>6, <2>7 DEF Good
<1>8. ASSUME i \in 1..Len(active), ~active[i].busy, NEW r, r # "OK", SendNow(i, d, r)
      PROVE  Good'
  <2>1. CASE r = "MAXNUM"
    <3>1. active[i].busy = FALSE
      BY <1>1, <1>8, EntryType
    <3> QED  BY <1>6, <1>8, <2>1, <3>1 DEF SendNow
  <2>2. CASE r = "ERROR"
    BY <1>1, <1>2, <1>8, <2>2 DEF SendNow, Good, EntriesConnected
  <2> QED  BY <1>8, <2>1, <2>2 DEF SendNow
<1>9. \/ accepted' = g /\ UNCHANGED <<active, evq, wire>>
      \/ /\ i \in 1..Len(active)
         /\ \/ active[i].busy /\ Queue(i, d, TRUE) /\ UNCHANGED wire
            \/ /\ ~active[i].busy
               /\ \E r : SendNow(i, d, r)
  BY <1>1, SendDataCases DEF d, i
<1>10. CASE i \in 1..Len(active) /\ active[i].busy /\ Queue(i, d, TRUE) /\ UNCHANGED wire
  <2>1. active[i].busy = TRUE
    BY <1>1, <1>10, EntryType
  <2> QED  BY <1>6, <1>10, <2>1
<1> QED  BY <1>4, <1>7, <1>8, <1>9, <1>10

(* A sent callback takes the head out of the FIFO of a busy entry. *)
LEMMA PopShrinks ==
    ASSUME NEW i \in DOMAIN active, NEW b \in BOOLEAN,
           active \in Seq(Entry), Rest(i) \in Seq(Data)
    PROVE  \E m, s : Shrinks(active, [active EXCEPT ![i].fifo = Rest(i), ![i].busy = b], m, s)
PROOF
<1> DEFINE q == Rest(i)
           x == [[active[i] EXCEPT !.fifo = q] EXCEPT !.busy = b]
           a == [active EXCEPT ![i].fifo = q, ![i].busy = b]
           m == [j \in DOMAIN active |-> j]
           s == [j \in DOMAIN active |-> IF j = i THEN 1 ELSE 0]
<1>1. /\ active[i] \in Entry /\ active[i].fifo \in Seq(Data)
  BY ListType
<1>2. \A k \in DOMAIN q : /\ k \in Nat \ {0} /\ k + 1 \in DOMAIN active[i].fifo
                          /\ q[k] = active[i].fifo[k + 1]
  <2>1. CASE active[i].fifo = <<>>
    BY <2>1 DEF Rest
  <2>2. CASE active[i].fifo # <<>>
    BY <1>1, <2>2 DEF Rest
  <2> QED  BY <2>1, <2>2
<1> HIDE DEF q
<1>3. x.esp = active[i].esp /\ x.fifo = q
  BY <1>1 DEF Entry
<1>4. a = [active EXCEPT ![i] = x]
  OBVIOUS
<1> HIDE DEF x, a
<1>5. DOMAIN a = DOMAIN active /\ a[i] = x /\ \A j \in DOMAIN active : j # i => a[j] = active[j]
  BY <1>4
<1>6. ASSUME NEW j \in DOMAIN active, NEW k \in DOMAIN active[j].fifo
      PROVE  k \in Nat \ {0} /\ k + 0 = k
  BY ListType
<1>7. ASSUME NEW j \in DOMAIN a
      PROVE  /\ a[j].esp = active[m[j]].esp
             /\ \A k \in DOMAIN a[j].fifo :
                   /\ k \in Nat \ {0}
                   /\ k + s[j] \in DOMAIN active[m[j]].fifo
                   /\ a[j].fifo[k] = active[m[j]].fifo[k + s[j]]
                   /\ s[j] = 0 /\ active[m[j]].busy => a[j].busy
  <2>1. CASE j = i
    BY <1>2, <1>3, <1>5, <2>1
  <2>2. CASE j # i
    BY <1>5, <1>6, <2>2
  <2> QED  BY <2>1, <2>2
<1>8. /\ m \in [DOMAIN a -> DOMAIN active] /\ s \in [DOMAIN a -> {0, 1}]
      /\ \A j, k \in DOMAIN a : m[j] = m[k] => j = k
  BY <1>5
<1> HIDE DEF m, s
<1>9. Shrinks(active, a, m, s)
  BY <1>7, <1>8 DEF Shrinks
<1> QED  BY <1>9 DEF a, q

LEMMA SentKeepsGood ==
    ASSUME IInv, TypeOK', NEW e \in Esp, user_tcp_sent_cb(e)
    PROVE  Good'
PROOF
<1> DEFINE i == FirstMatching(esp[e].reverse)
           q == Rest(i)
           a == [active EXCEPT ![i].fifo = q, ![i].busy = FALSE]
<1>1. /\ TypeOK /\ active \in Seq(Entry) /\ wire \in [Esp -> Seq(Data)]
      /\ Streams(active, wire, accepted) /\ EntriesConnected
  BY DEF IInv, TypeOK
<1>2. /\ UNCHANGED <<esp, accepted>>
      /\ \/ UNCHANGED <<active, wire>>
         \/ /\ i \in 1..Len(active) /\ active[i].busy /\ q \in Seq(Data)
            /\ \/ q = <<>> /\ active' = [active EXCEPT ![i].fifo = <<>>, ![i].busy = FALSE] /\ wire' = wire
               \/ q # <<>> /\ \E r : Continue(i, q, r)
  BY <1>1, SentCases
<1> HIDE DEF i
<1>3. StaysConnected
  BY <1>2 DEF StaysConnected
<1>4. CASE UNCHANGED <<active, wire>>
  BY <1>1, <1>2, <1>3, <1>4, CleanupKeepsGood
<1>5. ASSUME i \in 1..Len(active), active[i].busy, q \in Seq(Data)
      PROVE  /\ i \in DOMAIN active /\ a \in Seq(Entry) /\ Streams(a, wire, accepted)
             /\ [active EXCEPT ![i].fifo = q, ![i].busy = TRUE] = [active EXCEPT ![i].fifo = q]
             /\ Streams([active EXCEPT ![i].fifo = q], wire, accepted)
             /\ [a EXCEPT ![i].busy = TRUE] = [active EXCEPT ![i].fifo = q, ![i].busy = TRUE]
             /\ i \in DOMAIN a /\ a[i].esp = active[i].esp /\ a[i].busy = FALSE
             /\ a[i].fifo = q
  <2>1. i \in DOMAIN active /\ active[i].busy = TRUE /\ active[i] \in Entry
    BY <1>1, <1>5, EntryType
  <2>2. \A b \in BOOLEAN :
            Streams([active EXCEPT ![i].fifo = q, ![i].busy = b], wire, accepted)
    <3> SUFFICES ASSUME NEW b \in BOOLEAN
                 PROVE  Streams([active EXCEPT ![i].fifo = q, ![i].busy = b], wire, accepted)
      OBVIOUS
    <3> DEFINE x == [active EXCEPT ![i].fifo = q, ![i].busy = b]
    <3>1. PICK m, s : Shrinks(active, x, m, s)
      BY <1>1, <1>5, <2>1, PopShrinks
    <3> HIDE DEF x
    <3>2. Streams(x, wire, accepted)
      BY <1>1, <3>1, ShrinkKeepsStreams
    <3> QED  BY <3>2 DEF x
  <2>3. [active EXCEPT ![i].fifo = q, ![i].busy = TRUE] = [active EXCEPT ![i].fifo = q]
    BY <1>1, <2>1, BusyAsBefore
  <2>4. a \in Seq(Entry)
    BY <1>1, <1>5, EntryUpdateType
  <2>5. [a EXCEPT ![i].busy = TRUE] = [active EXCEPT ![i].fifo = q, ![i].busy = TRUE]
    <3> DEFINE x == [[active[i] EXCEPT !.fifo = q] EXCEPT !.busy = FALSE]
               y == [[active[i] EXCEPT !.fifo = q] EXCEPT !.busy = TRUE]
    <3>1. [x EXCEPT !.busy = TRUE] = y
      BY <2>1 DEF Entry
    <3>2. /\ a = [active EXCEPT ![i] = x]
          /\ [active EXCEPT ![i].fifo = q, ![i].busy = TRUE] = [active EXCEPT ![i] = y]
      OBVIOUS
    <3> HIDE DEF a, x, y
    <3>3. [a EXCEPT ![i].busy = TRUE] = [active EXCEPT ![i] = [x EXCEPT !.busy = TRUE]]
      BY <2>1, <3>2
    <3> QED  BY <3>1, <3>2, <3>3
  <2>6. /\ i \in DOMAIN a /\ a[i].esp = active[i].esp /\ a[i].busy = FALSE
        /\ a[i].fifo = q
    <3>1. a[i] = [[active[i] EXCEPT !.fifo = q] EXCEPT !.busy = FALSE] /\ i \in DOMAIN a
      BY <2>1
    <3> HIDE DEF q
    <3> QED  BY <2>1, <3>1 DEF Entry
  <2>7. Streams([active EXCEPT ![i].fifo = q], wire, accepted)
    BY <2>2, <2>3
  <2> QED  BY <2>1, <2>2, <2>3, <2>4, <2>5, <2>6, <2>7
<1>6. CASE /\ i \in 1..Len(active) /\ active[i].busy /\ q = <<>> /\ q \in Seq(Data)
           /\ active' = [active EXCEPT ![i].fifo = <<>>, ![i].busy = FALSE] /\ wire' = wire
  <2>1. active' = a
    BY <1>6
  <2>2. EntriesConnected'
    <3>1. \A j \in DOMAIN active' : /\ j \in DOMAIN active
                                       /\ active'[j].esp = active[j].esp
      BY <1>1, <1>3, <1>6, SameConnections
    <3> QED  BY <1>1, <1>3, <3>1, ConnectedEntries
  <2> HIDE DEF a, q
  <2> QED  BY <1>2, <1>5, <1>6, <2>1, <2>2 DEF Good
<1>7. ASSUME i \in 1..Len(active), active[i].busy, q # <<>>, q \in Seq(Data),
             NEW r, Continue(i, q, r)
      PROVE  Good'
  <2>1. active' = [active EXCEPT ![i].fifo = q]
    BY <1>7 DEF Continue
  <2>2. EntriesConnected'
    <3>1. \A j \in DOMAIN active' : /\ j \in DOMAIN active
                                       /\ active'[j].esp = active[j].esp
      BY <1>1, <1>3, <2>1, SameConnections
    <3> QED  BY <1>1, <1>3, <3>1, ConnectedEntries
  <2>3. CASE wire' = wire
    <3> HIDE DEF a, q
    <3> QED  BY <1>2, <1>5, <1>7, <2>1, <2>2, <2>3 DEF Good
  <2>4. CASE wire' = [wire EXCEPT ![active[i].esp] = Append(@, Head(q))]
    <3> HIDE DEF a, q
    <3>1. Streams([a EXCEPT ![i].busy = TRUE],
                  [wire EXCEPT ![a[i].esp] = Append(@, Head(a[i].fifo))], accepted)
      BY <1>1, <1>5, <1>7, GiveKeepsStreams
    <3>2. wire' = [wire EXCEPT ![a[i].esp] = Append(@, Head(a[i].fifo))]
      BY <1>5, <1>7, <2>4
    <3>3. active' = [a EXCEPT ![i].busy = TRUE]
      BY <1>5, <1>7, <2>1
    <3> QED  BY <1>2, <2>2, <3>1, <3>2, <3>3 DEF Good
  <2> QED  BY <1>7, <2>3, <2>4 DEF Continue
<1> QED  BY <1>2, <1>4, <1>6, <1>7

-----------------------------------------------------------------------------
(* The other actions change neither a FIFO nor a wire, except that closing *)
(* and losing a connection remove its entry.                               *)

LEMMA CloseRemovesEntry ==
    ASSUME TypeOK, NEW c \in Ctx, wish_close_connection(c)
    PROVE  StaysConnected /\ (active' = active \/ \E x : active' = Cleanup(x))
PROOF
<1>1. \/ Discard(c) /\ UNCHANGED esp
      \/ UNCHANGED active /\ esp' = Disconnect(ctx[c].sendArg)
  BY DEF wish_close_connection
<1>2. CASE Discard(c) /\ UNCHANGED esp
  BY <1>2 DEF Discard, StaysConnected
<1>3. CASE UNCHANGED active /\ esp' = Disconnect(ctx[c].sendArg)
  BY <1>3 DEF Disconnect, StaysConnected, TypeOK, Espconn
<1> QED  BY <1>1, <1>2, <1>3

LEMMA CallbackKeepsGood ==
    ASSUME IInv, TypeOK', NEW e \in Esp, Callback(e)
    PROVE  Good'
PROOF
<1>1. TypeOK /\ esp \in [Esp -> Espconn]
  BY DEF IInv, TypeOK
<1>2. CASE user_tcp_connect_cb(e)
  <2>1. /\ esp[e].st = "CONNECTING" /\ esp'[e].st = "UP" /\ StaysConnected
        /\ UNCHANGED <<wire, accepted>>
        /\ Register(esp[e].reverse, e, ctx[esp[e].reverse])
    BY <1>1, <1>2 DEF user_tcp_connect_cb, StaysConnected, Espconn, hist
  <2> QED  BY <2>1, RegisterKeepsGood
<1>3. CASE user_tcp_server_connect_cb(e)
  <2>1. UNCHANGED <<wire, accepted>> /\ esp[e].st = "NONE"
    BY <1>3 DEF user_tcp_server_connect_cb, hist
  <2>2. ASSUME NEW c \in Ctx,
               esp' = [esp EXCEPT ![e].st = "UP", ![e].reverse = c],
               Register(c, e, [FreeContext EXCEPT !.st = "OPEN"])
        PROVE  Good'
    <3>1. esp'[e].st = "UP" /\ StaysConnected
      BY <1>1, <2>2 DEF StaysConnected, Espconn
    <3> QED  BY <2>1, <2>2, <3>1, RegisterKeepsGood
  <2>3. CASE esp' = [esp EXCEPT ![e].st = "UP"] /\ UNCHANGED active
    <3>1. StaysConnected
      BY <1>1, <2>3 DEF StaysConnected, Espconn
    <3> QED  BY <2>1, <2>3, <3>1, CleanupKeepsGood
  <2> QED  BY <1>3, <2>2, <2>3 DEF user_tcp_server_connect_cb
<1>4. CASE user_tcp_recv_cb(e)
  <2>1. UNCHANGED <<active, wire, accepted>>
    BY <1>4 DEF user_tcp_recv_cb, hist
  <2>2. esp' = esp \/ esp' = [esp EXCEPT ![e].hold = TRUE]
    BY <1>4 DEF user_tcp_recv_cb
  <2>3. StaysConnected
    BY <1>1, <2>2 DEF StaysConnected, Espconn
  <2> QED  BY <2>1, <2>3, CleanupKeepsGood
<1>5. CASE user_tcp_sent_cb(e)
  BY <1>5, SentKeepsGood
<1>6. CASE user_tcp_discon_cb(e) \/ user_tcp_recon_cb(e)
  <2>1. UNCHANGED <<wire, accepted>>
    BY <1>6 DEF user_tcp_discon_cb, user_tcp_recon_cb, hist
  <2>2. active' = active \/ \E c : active' = Cleanup(c)
    BY <1>6 DEF user_tcp_discon_cb, user_tcp_recon_cb, Discard
  <2>3. \/ esp' = [esp EXCEPT ![e].st = "GONE"]
        \/ esp' = [esp EXCEPT ![e].st = "ERROR"]
    BY <1>6 DEF user_tcp_discon_cb, user_tcp_recon_cb
  <2>4. StaysConnected
    BY <1>1, <2>3 DEF StaysConnected, Espconn
  <2> QED  BY <2>1, <2>2, <2>4, CleanupKeepsGood
<1> QED  BY <1>2, <1>3, <1>4, <1>5, <1>6 DEF Callback

LEMMA CoreCallKeepsGood ==
    ASSUME IInv, TypeOK', NEW c \in Ctx, CoreCall(c) \/ CloseTimesOut(c)
    PROVE  Good'
PROOF
<1>1. TypeOK /\ esp \in [Esp -> Espconn]
  BY DEF IInv, TypeOK
<1>2. ASSUME NEW e \in Esp, wish_open_connection(c, e)
      PROVE  Good'
  <2>1. /\ UNCHANGED <<active, wire, accepted>> /\ esp[e].st = "NONE"
        /\ \A f \in Esp : f # e => esp'[f] = esp[f]
    BY <1>1, <1>2 DEF wish_open_connection, hist
  <2>2. StaysConnected
    BY <2>1 DEF StaysConnected
  <2> QED  BY <2>1, <2>2, CleanupKeepsGood
<1>3. CASE my_send_data(c)
  BY <1>3, SendKeepsGood
<1>4. CASE CoreCloses(c)
  <2>1. UNCHANGED <<wire, accepted>> /\ wish_close_connection(c)
    BY <1>4 DEF CoreCloses, hist
  <2> QED  BY <1>1, <2>1, CloseRemovesEntry, CleanupKeepsGood
<1>5. CASE CloseTimesOut(c)
  <2>1. UNCHANGED <<esp, active, wire, accepted>>
    BY <1>5 DEF CloseTimesOut, hist
  <2> QED  BY <2>1, CleanupKeepsGood DEF StaysConnected
<1> QED  BY <1>2, <1>3, <1>4, <1>5 DEF CoreCall

LEMMA MessageProcessorKeepsGood ==
    ASSUME IInv, TypeOK', MessageProcessor
    PROVE  Good'
PROOF
<1>1. TypeOK /\ esp \in [Esp -> Espconn]
  BY DEF IInv, TypeOK
<1>2. UNCHANGED <<wire, accepted>> /\ evq # <<>>
  BY DEF MessageProcessor, ProcessClosing, ProcessAbort, ProcessNewData, Take, hist
<1> DEFINE ev == Head(evq)
<1>3. ev.ctx \in Ctx \cup {NoCtx}
  BY <1>1, <1>2, EventType DEF Event
<1>4. CASE ProcessClosing /\ ev.ctx # NoCtx
  <2>1. wish_close_connection(ev.ctx) /\ ev.ctx \in Ctx
    BY <1>3, <1>4 DEF ProcessClosing
  <2> HIDE DEF ev
  <2> QED  BY <1>1, <1>2, <2>1, CloseRemovesEntry, CleanupKeepsGood
<1>5. CASE ProcessClosing /\ ev.ctx = NoCtx
  <2>1. esp' = Disconnect(ev.metadata) /\ UNCHANGED active
    BY <1>5 DEF ProcessClosing
  <2> HIDE DEF ev
  <2>2. StaysConnected
    BY <1>1, <2>1 DEF Disconnect, StaysConnected, Espconn
  <2> QED  BY <1>2, <2>1, <2>2, CleanupKeepsGood
<1>6. CASE ProcessAbort
  <2>1. /\ UNCHANGED active
        /\ esp' = IF ev.metadata = NoEsp THEN esp
                  ELSE [esp EXCEPT ![ev.metadata].st = "GONE"]
    BY <1>6 DEF ProcessAbort
  <2> HIDE DEF ev
  <2>2. StaysConnected
    BY <1>1, <2>1 DEF StaysConnected, Espconn
  <2> QED  BY <1>2, <2>1, <2>2, CleanupKeepsGood
<1>7. CASE ProcessNewData
  <2> DEFINE e == ctx[ev.ctx].sendArg
  <2>1. /\ UNCHANGED active
        /\ esp' = IF e = NoEsp THEN esp ELSE [esp EXCEPT ![e].hold = FALSE]
    BY <1>7 DEF ProcessNewData
  <2> HIDE DEF e
  <2>2. StaysConnected
    BY <1>1, <2>1 DEF StaysConnected, Espconn
  <2> QED  BY <1>2, <2>1, <2>2, CleanupKeepsGood
<1> QED  BY <1>4, <1>5, <1>6, <1>7 DEF MessageProcessor

LEMMA InitStreams == Init => IInv
PROOF
<1> SUFFICES ASSUME Init
             PROVE  IInv
  OBVIOUS
<1>1. TypeOK
  BY InitTypeOK
<1>2. active = <<>> /\ DOMAIN active = {}
  BY DEF Init
<1>3. \A e \in Esp : DOMAIN wire[e] = {}
  <2>1. \A e \in Esp : wire[e] = <<>>
    BY DEF Init
  <2>2. DOMAIN <<>> = {}
    OBVIOUS
  <2> QED  BY <2>1, <2>2
<1>4. EntriesConnected /\ Queues(active, accepted)
  BY <1>2 DEF EntriesConnected, Queues, OneEntry, QueuedAccepted, OnePlace, InOrder
<1>5. Wires(active, wire, accepted)
  BY <1>2, <1>3 DEF Wires, WireAccepted, WaitingNotSent, WaitingComesLater, OnceInOrder
<1> QED  BY <1>1, <1>4, <1>5 DEF IInv, Streams

LEMMA NextKeepsStreams == IInv /\ [Next]_vars => IInv'
PROOF
<1> SUFFICES ASSUME IInv, [Next]_vars
             PROVE  IInv'
  OBVIOUS
<1>1. TypeOK'
  BY NextKeepsTypeOK DEF IInv
<1>2. SUFFICES Good'
  BY <1>1 DEF IInv, Good
<1>3. ASSUME NEW e \in Esp, Callback(e)
      PROVE  Good'
  BY <1>1, <1>3, CallbackKeepsGood
<1>4. ASSUME NEW c \in Ctx, CoreCall(c) \/ CloseTimesOut(c)
      PROVE  Good'
  BY <1>1, <1>4, CoreCallKeepsGood
<1>5. CASE MessageProcessor
  BY <1>1, <1>5, MessageProcessorKeepsGood
<1>6. CASE UNCHANGED vars
  BY <1>6 DEF vars, IInv, Good, EntriesConnected
<1> QED  BY <1>3, <1>4, <1>5, <1>6 DEF Next

(* Whatever the SDK, the memory and the timing do, a datum is given to the *)
(* SDK at most once, and in the order of my_send_data (user_tcp.c:152-173, *)
(* 369-381).                                                               *)
THEOREM SentOnce == Spec => []SentOnceInOrder
PROOF
<1>1. IInv => SentOnceInOrder
  BY DEF IInv, Streams, Wires, OnceInOrder, SentOnceInOrder
<1> QED  BY <1>1, InitStreams, NextKeepsStreams, PTL DEF Spec

-----------------------------------------------------------------------------

(***************************************************************************)
(* The proof that, in TcpConn, contexts, espconns and list entries agree:  *)
(* every entry of the list belongs to a living connection, the only one of *)
(* its context.  It holds for all sizes, with a full event queue, without  *)
(* memory and when espconn_send fails, but not when a callback may come    *)
(* after the 5 second limit, a context be closed while its connection is   *)
(* being opened, or be reused while an event about it is queued.           *)
(*                                                                         *)
(* Two theorems stand on it: that what the SDK holds back is released, and *)
(* that the stream of a connection is intact.                              *)
(***************************************************************************)

Punctual == Faults \cap {"late_stack", "early_close", "stale_event"} = {}

Alive == {e \in Esp : esp[e].st \in {"UP", "DISCONNECTING"}}
Opening == {e \in Esp : esp[e].st = "CONNECTING"}

(* The parts of the invariant, by the pointer they speak of.               *)
OpeningLinked ==
    \A e \in Opening :
        /\ esp[e].reverse \in Ctx
        /\ ctx[esp[e].reverse].st = "OPEN" /\ ctx[esp[e].reverse].sendArg = NoEsp
        /\ ctx[esp[e].reverse].addr = NoEsp /\ ~ctx[esp[e].reverse].overdue
        /\ \A f \in Opening : esp[f].reverse = esp[e].reverse => f = e

NotNotified == \A i \in DOMAIN evq : \A e \in Opening : evq[i].ctx # esp[e].reverse

AliveLinked ==
    \A e \in Alive : esp[e].reverse # NoCtx =>
        /\ ctx[esp[e].reverse].st # "FREE"
        /\ ctx[esp[e].reverse].sendArg = e /\ ctx[esp[e].reverse].addr = e

AddressedAlive ==
    \A c \in Ctx : ctx[c].addr # NoEsp =>
        ctx[c].addr \in Alive /\ esp[ctx[c].addr].reverse = c

SendArgUsed ==
    \A c \in Ctx : ctx[c].sendArg # NoEsp =>
        /\ esp[ctx[c].sendArg].reverse = c
        /\ esp[ctx[c].sendArg].st \notin {"NONE", "CONNECTING"}

OverdueIsDead == \A c \in Ctx : ctx[c].overdue => ctx[c].sendArg \notin Alive
NewUnlinked == \A e \in Esp : esp[e].st = "NONE" => esp[e].reverse = NoCtx
NoMetadata == \A i \in DOMAIN evq : evq[i].metadata = NoEsp
ListedAlive ==
    \A i \in DOMAIN active : active[i].esp \in Alive /\ esp[active[i].esp].reverse # NoCtx

Linked ==
    /\ OpeningLinked /\ NotNotified
    /\ AliveLinked /\ AddressedAlive
    /\ SendArgUsed /\ OverdueIsDead
    /\ NewUnlinked /\ NoMetadata
    /\ ListedAlive

LInv == IInv /\ Linked

-----------------------------------------------------------------------------
(* What an action posts: nothing about a connection that is being opened,  *)
(* and never the pointer that was meant to go with it.                     *)
PostsKnown ==
    \A i \in DOMAIN evq' :
        /\ evq'[i].metadata = NoEsp
        /\ \A e \in Opening : evq'[i].ctx # esp[e].reverse

LEMMA SamePosts == ASSUME Linked, evq' = evq PROVE PostsKnown
PROOF
  BY DEF Linked, NotNotified, NoMetadata, PostsKnown

LEMMA NotifyPosts ==
    ASSUME Linked, TypeOK, NEW type, NEW c, NEW meta, NEW about, Notify(type, c, meta, about),
           type \in {"CLOSING", "ABORT", "NEW_DATA"},
           about \in Esp \cup {NoEsp}, c \in Ctx \cup {NoCtx},
           c \in Ctx => ctx[c].sendArg # NoEsp
    PROVE  PostsKnown
PROOF
<1> DEFINE ev == [type |-> type, ctx |-> c, metadata |-> NoEsp, about |-> about]
<1>1. evq' = evq \/ evq' = Append(evq, ev)
  BY DEF Notify
<1>2. ev \in Event /\ evq \in Seq(Event)
  BY DEF Event, TypeOK
<1>3. ASSUME NEW e \in Opening PROVE c # esp[e].reverse
  BY <1>3, NullAssumption DEF Linked, OpeningLinked
<1>4. CASE evq' = Append(evq, ev)
  <2>1. ASSUME NEW i \in DOMAIN evq'
        PROVE  (i \in DOMAIN evq /\ evq'[i] = evq[i]) \/ evq'[i] = ev
    BY <1>2, <1>4
  <2>2. ev.metadata = NoEsp /\ ev.ctx = c
    OBVIOUS
  <2> HIDE DEF ev
  <2> QED  BY <1>3, <2>1, <2>2 DEF PostsKnown, Linked, NotNotified, NoMetadata
<1> QED  BY <1>1, <1>4, SamePosts

LEMMA TakePosts == ASSUME Linked, TypeOK, evq # <<>>, evq' = Tail(evq) PROVE PostsKnown
PROOF
<1>1. evq \in Seq(Event)
  BY DEF TypeOK
<1>2. \A i \in DOMAIN evq' : i + 1 \in DOMAIN evq /\ evq'[i] = evq[i + 1]
  BY <1>1
<1> QED  BY <1>2 DEF PostsKnown, Linked, NotNotified, NoMetadata

-----------------------------------------------------------------------------
(* The changes the actions are composed of.  The first: connections the    *)
(* core does not know come and go, an attempt may fail, contexts that are  *)
(* not being opened are being closed.                                      *)
NoLinkChanges ==
    /\ \A e \in Esp : /\ esp'[e].reverse = esp[e].reverse
                      /\ e \in Alive' => e \in Alive \/ esp[e].reverse = NoCtx
                      /\ e \in Alive => e \in Alive' \/ esp[e].reverse = NoCtx
                      /\ e \in Opening' => e \in Opening
                      /\ esp'[e].st = "NONE" => esp[e].st = "NONE"
    /\ \A c \in Ctx : /\ ctx'[c].sendArg = ctx[c].sendArg /\ ctx'[c].addr = ctx[c].addr
                      /\ ctx'[c].overdue => ctx[c].overdue \/ ctx[c].sendArg \notin Alive
                      /\ ctx'[c].st = "FREE" => ctx[c].st = "FREE"
    /\ \A e \in Opening' : ctx'[esp[e].reverse] = ctx[esp[e].reverse]
    /\ \A i \in DOMAIN active' : \E j \in DOMAIN active : active'[i].esp = active[j].esp

LEMMA NoLinkChangesKeeps ==
    ASSUME Linked, TypeOK, TypeOK', NoLinkChanges, PostsKnown
    PROVE  Linked'
PROOF
<1>1. \A e \in Esp : esp[e].reverse \in Ctx \cup {NoCtx}
  BY DEF TypeOK, Espconn
<1>2. \A c \in Ctx : ctx[c].sendArg \in Esp \cup {NoEsp} /\ ctx[c].addr \in Esp \cup {NoEsp}
  BY DEF TypeOK, Context
<1>3. /\ Alive \subseteq Esp /\ Alive' \subseteq Esp /\ Opening' \subseteq Opening
      /\ Opening \subseteq Esp
  BY DEF Alive, Opening, NoLinkChanges
<1>4. OpeningLinked'
  BY <1>3 DEF Linked, OpeningLinked, NoLinkChanges
<1>5. NotNotified' /\ NoMetadata'
  BY <1>3 DEF PostsKnown, NotNotified, NoMetadata, NoLinkChanges
<1>6. AliveLinked'
  BY <1>1, <1>3 DEF Linked, AliveLinked, NoLinkChanges
<1>7. AddressedAlive'
  BY <1>2, <1>3, NullAssumption DEF Linked, AddressedAlive, NoLinkChanges
<1>8. SendArgUsed'
  <2> SUFFICES ASSUME NEW c \in Ctx, ctx'[c].sendArg # NoEsp
               PROVE  /\ esp'[ctx'[c].sendArg].reverse = c
                      /\ esp'[ctx'[c].sendArg].st \notin {"NONE", "CONNECTING"}
    BY DEF SendArgUsed
  <2> DEFINE e == ctx[c].sendArg
  <2>1. ctx'[c].sendArg = e /\ e \in Esp /\ e # NoEsp
    BY <1>2 DEF NoLinkChanges
  <2>2. esp[e].reverse = c /\ esp[e].st \notin {"NONE", "CONNECTING"}
    BY <2>1 DEF Linked, SendArgUsed
  <2> HIDE DEF e
  <2>3. esp'[e].st # "NONE" /\ e \notin Opening' /\ esp'[e].reverse = c
    BY <2>1, <2>2, <1>3 DEF NoLinkChanges, Opening
  <2> QED  BY <2>1, <2>3 DEF Opening
<1>9. OverdueIsDead'
  <2> SUFFICES ASSUME NEW c \in Ctx, ctx'[c].overdue, ctx'[c].sendArg \in Alive' PROVE FALSE
    BY DEF OverdueIsDead
  <2>1. ctx[c].sendArg \notin Alive /\ ctx'[c].sendArg = ctx[c].sendArg
    BY DEF Linked, OverdueIsDead, NoLinkChanges
  <2>2. ctx[c].sendArg \in Esp
    BY <1>3, <2>1
  <2>3. esp[ctx[c].sendArg].reverse = NoCtx
    BY <2>1, <2>2 DEF NoLinkChanges
  <2>4. esp[ctx[c].sendArg].reverse = c
    BY <2>2, NullAssumption DEF Linked, SendArgUsed
  <2> QED  BY <2>3, <2>4, NullAssumption
<1>10. NewUnlinked'
  BY DEF Linked, NewUnlinked, NoLinkChanges
<1>11. ListedAlive'
  BY <1>3 DEF Linked, ListedAlive, NoLinkChanges
<1> QED  BY <1>4, <1>5, <1>6, <1>7, <1>8, <1>9, <1>10, <1>11 DEF Linked

(* The second: the context c is discarded with its connection.             *)
GoesDown(c) ==
    /\ \A e \in Opening : esp[e].reverse # c
    /\ \A e \in Esp : /\ esp'[e].reverse = esp[e].reverse
                      /\ e \in Alive' <=> e \in Alive /\ esp[e].reverse # c
                      /\ e \in Opening' => e \in Opening
                      /\ esp'[e].st = "NONE" => esp[e].st = "NONE"

(* cleanup_active_conn removes the entry of c, if there is one.            *)
LEMMA CleanupRemoves ==
    ASSUME Linked, TypeOK, OneEntry(active), NEW c \in Ctx, NEW i \in DOMAIN Cleanup(c)
    PROVE  \E j \in DOMAIN active : /\ Cleanup(c)[i].esp = active[j].esp
                                    /\ esp[active[j].esp].reverse # c
PROOF
<1>1. PICK m, s :
          /\ Shrinks(active, Cleanup(c), m, s)
          /\ Matching(c) # {} => \A k \in DOMAIN Cleanup(c) : m[k] # FirstMatching(c)
  BY CleanupShrinks
<1>2. m[i] \in DOMAIN active /\ Cleanup(c)[i].esp = active[m[i]].esp
  BY <1>1 DEF Shrinks
<1>3. esp[active[m[i]].esp].reverse # c
  <2> SUFFICES ASSUME esp[active[m[i]].esp].reverse = c PROVE FALSE
    OBVIOUS
  <2> DEFINE f == FirstMatching(c)
  <2>1. Matching(c) \in SUBSET Nat /\ m[i] \in Matching(c)
    BY <1>2 DEF Matching, TypeOK
  <2>2. f \in Matching(c) /\ f # m[i]
    <3>1. f \in Matching(c)
      BY <2>1, MinInSet DEF FirstMatching
    <3> QED  BY <1>1, <2>1, <3>1
  <2> HIDE DEF f
  <2>3. f \in DOMAIN active /\ esp[active[f].esp].reverse = c
    BY <2>2 DEF Matching
  <2>4. active[f].esp \in Alive /\ active[m[i]].esp \in Alive
    BY <1>2, <2>3 DEF Linked, ListedAlive
  <2>5. ctx[c].sendArg = active[f].esp /\ ctx[c].sendArg = active[m[i]].esp
    BY <2>3, <2>4, NullAssumption DEF Linked, AliveLinked
  <2> QED  BY <1>2, <2>2, <2>3, <2>5 DEF OneEntry
<1> QED  BY <1>2, <1>3

LEMMA DiscardKeeps ==
    ASSUME Linked, TypeOK, TypeOK', OneEntry(active),
           NEW c \in Ctx, Discard(c), GoesDown(c), PostsKnown
    PROVE  Linked'
PROOF
<1>1. \A e \in Esp : esp[e].reverse \in Ctx \cup {NoCtx}
  BY DEF TypeOK, Espconn
<1>2. \A d \in Ctx : ctx[d].sendArg \in Esp \cup {NoEsp} /\ ctx[d].addr \in Esp \cup {NoEsp}
  BY DEF TypeOK, Context
<1>3. /\ Alive \subseteq Esp /\ Alive' \subseteq Esp /\ Opening' \subseteq Opening
      /\ Opening \subseteq Esp
  BY DEF Alive, Opening, GoesDown
<1>4. /\ \A d \in Ctx \ {c} : ctx'[d] = ctx[d]
      /\ ctx'[c].sendArg = ctx[c].sendArg /\ ctx'[c].addr = NoEsp /\ ~ctx'[c].overdue
  BY DEF Discard, TypeOK, Context
<1>5. OpeningLinked'
  BY <1>3, <1>4 DEF Linked, OpeningLinked, GoesDown
<1>6. NotNotified' /\ NoMetadata'
  BY <1>3 DEF PostsKnown, NotNotified, NoMetadata, GoesDown
<1>7. AliveLinked'
  BY <1>1, <1>3, <1>4 DEF Linked, AliveLinked, GoesDown
<1>8. AddressedAlive'
  BY <1>2, <1>3, <1>4, NullAssumption DEF Linked, AddressedAlive, GoesDown
<1>9. SendArgUsed'
  <2> SUFFICES ASSUME NEW d \in Ctx, ctx'[d].sendArg # NoEsp
               PROVE  /\ esp'[ctx'[d].sendArg].reverse = d
                      /\ esp'[ctx'[d].sendArg].st \notin {"NONE", "CONNECTING"}
    BY DEF SendArgUsed
  <2> DEFINE e == ctx[d].sendArg
  <2>1. ctx'[d].sendArg = e /\ e \in Esp /\ e # NoEsp
    BY <1>2, <1>4
  <2>2. esp[e].reverse = d /\ esp[e].st \notin {"NONE", "CONNECTING"}
    BY <2>1 DEF Linked, SendArgUsed
  <2> HIDE DEF e
  <2>3. esp'[e].st # "NONE" /\ e \notin Opening' /\ esp'[e].reverse = d
    BY <2>1, <2>2, <1>3 DEF GoesDown, Opening
  <2> QED  BY <2>1, <2>3 DEF Opening
<1>10. OverdueIsDead'
  BY <1>2, <1>3, <1>4 DEF Linked, OverdueIsDead, GoesDown
<1>11. NewUnlinked'
  BY DEF Linked, NewUnlinked, GoesDown
<1>12. ListedAlive'
  <2> SUFFICES ASSUME NEW i \in DOMAIN active'
               PROVE  active'[i].esp \in Alive' /\ esp'[active'[i].esp].reverse # NoCtx
    BY DEF ListedAlive
  <2>1. PICK j \in DOMAIN active : /\ active'[i].esp = active[j].esp
                                   /\ esp[active[j].esp].reverse # c
    BY CleanupRemoves DEF Discard
  <2>2. active[j].esp \in Alive /\ esp[active[j].esp].reverse # NoCtx
    BY DEF Linked, ListedAlive
  <2> QED  BY <1>3, <2>1, <2>2 DEF GoesDown
<1> QED
  BY <1>5, <1>6, <1>7, <1>8, <1>9, <1>10, <1>11, <1>12 DEF Linked

(* The third: a connection e of context c comes up.                        *)
ComesUp(c, e) ==
    /\ esp[e].st \in {"NONE", "CONNECTING"}
    /\ \A f \in Esp \ {e} : esp'[f] = esp[f]
    /\ esp'[e].st = "UP" /\ esp'[e].reverse = c
    /\ \A f \in Opening \ {e} : esp[f].reverse # c
    /\ \A f \in Alive : esp[f].reverse # c

LEMMA RegisterKeeps ==
    ASSUME Linked, TypeOK, TypeOK', NEW c \in Ctx, NEW e \in Esp, NEW context \in Context,
           Register(c, e, context), ComesUp(c, e), UNCHANGED evq,
           context.st # "FREE", ~context.overdue
    PROVE  Linked'
PROOF
<1>1. \A f \in Esp : esp[f].reverse \in Ctx \cup {NoCtx}
  BY DEF TypeOK, Espconn
<1>2. \A d \in Ctx : ctx[d].sendArg \in Esp \cup {NoEsp} /\ ctx[d].addr \in Esp \cup {NoEsp}
  BY DEF TypeOK, Context
<1>3. /\ Alive' = Alive \cup {e} /\ Opening' = Opening \ {e} /\ e \notin Alive
      /\ Alive \subseteq Esp /\ Opening \subseteq Esp
  BY DEF Alive, Opening, ComesUp
<1>4. /\ \A d \in Ctx \ {c} : ctx'[d] = ctx[d]
      /\ ctx'[c].st # "FREE" /\ ctx'[c].sendArg = e /\ ctx'[c].addr = e /\ ~ctx'[c].overdue
  BY DEF Register, TypeOK, Context
<1>5. OpeningLinked'
  BY <1>3, <1>4 DEF Linked, OpeningLinked, ComesUp
<1>6. NotNotified' /\ NoMetadata'
  BY <1>3 DEF Linked, NotNotified, NoMetadata, ComesUp
<1>7. AliveLinked'
  BY <1>1, <1>3, <1>4 DEF Linked, AliveLinked, ComesUp
<1>8. \A d \in Ctx \ {c} : ctx[d].sendArg # e
  <2> SUFFICES ASSUME NEW d \in Ctx \ {c}, ctx[d].sendArg = e PROVE FALSE
    OBVIOUS
  <2>1. e # NoEsp
    BY NullAssumption
  <2> QED  BY <2>1 DEF Linked, SendArgUsed, ComesUp
<1>9. AddressedAlive'
  BY <1>2, <1>3, <1>4, NullAssumption DEF Linked, AddressedAlive, ComesUp
<1>10. SendArgUsed'
  BY <1>2, <1>4, <1>8 DEF Linked, SendArgUsed, ComesUp
<1>11. OverdueIsDead'
  BY <1>2, <1>3, <1>4, <1>8 DEF Linked, OverdueIsDead
<1>12. NewUnlinked'
  BY DEF Linked, NewUnlinked, ComesUp
<1>13. ListedAlive'
  <2> DEFINE new == [esp |-> e, busy |-> FALSE, fifo |-> <<>>, robbed |-> FALSE]
  <2>1. active \in Seq(Entry) /\ active' \in {Append(active, new), active}
    BY DEF TypeOK, Register
  <2>2. ASSUME NEW i \in DOMAIN active'
        PROVE  \/ i \in DOMAIN active /\ active'[i] = active[i]
               \/ active'[i] = new
    BY <2>1
  <2>3. new.esp = e
    OBVIOUS
  <2> HIDE DEF new
  <2>4. c # NoCtx
    BY NullAssumption
  <2> SUFFICES ASSUME NEW i \in DOMAIN active'
               PROVE  active'[i].esp \in Alive' /\ esp'[active'[i].esp].reverse # NoCtx
    BY DEF ListedAlive
  <2>5. CASE i \in DOMAIN active /\ active'[i] = active[i]
    BY <1>3, <2>5 DEF Linked, ListedAlive, ComesUp
  <2>6. CASE active'[i] = new
    BY <1>3, <2>3, <2>4, <2>6 DEF ComesUp
  <2> QED  BY <2>2, <2>5, <2>6
<1> QED
  BY <1>5, <1>6, <1>7, <1>9, <1>10, <1>11, <1>12, <1>13 DEF Linked

(* The fourth: a context is taken, and its connection is being opened.     *)
LEMMA OpenKeeps ==
    ASSUME Linked, TypeOK, TypeOK', Punctual, NEW c \in Ctx, NEW e \in Esp,
           wish_open_connection(c, e)
    PROVE  Linked'
PROOF
<1>1. \A f \in Esp : esp[f].reverse \in Ctx \cup {NoCtx}
  BY DEF TypeOK, Espconn
<1>2. \A d \in Ctx : ctx[d].sendArg \in Esp \cup {NoEsp} /\ ctx[d].addr \in Esp \cup {NoEsp}
  BY DEF TypeOK, Context
<1>3. /\ ctx[c].st = "FREE" /\ \A i \in DOMAIN evq : evq[i].ctx # c
      /\ esp[e].st = "NONE" /\ UNCHANGED <<active, evq>>
  BY DEF wish_open_connection, CanInit, Punctual
<1>4. /\ \A f \in Esp \ {e} : esp'[f] = esp[f]
      /\ esp'[e].st = "CONNECTING" /\ esp'[e].reverse = c
  BY DEF wish_open_connection, TypeOK
<1>5. /\ \A d \in Ctx \ {c} : ctx'[d] = ctx[d]
      /\ ctx'[c].st = "OPEN" /\ ctx'[c].sendArg = NoEsp /\ ctx'[c].addr = NoEsp
      /\ ~ctx'[c].overdue
  BY DEF wish_open_connection, TypeOK, FreeContext
<1>6. /\ Alive' = Alive /\ Opening' = Opening \cup {e} /\ e \notin Alive /\ e \notin Opening
      /\ Alive \subseteq Esp /\ Opening \subseteq Esp
  BY <1>3, <1>4 DEF Alive, Opening
<1>7. c # NoCtx /\ NoEsp \notin Esp
  BY NullAssumption
<1>8. /\ \A f \in Opening : esp[f].reverse # c
      /\ \A f \in Alive : esp[f].reverse # c
  BY <1>3, <1>7 DEF Linked, OpeningLinked, AliveLinked
<1>9. OpeningLinked'
  BY <1>4, <1>5, <1>6, <1>8 DEF Linked, OpeningLinked
<1>10. NotNotified' /\ NoMetadata'
  BY <1>3, <1>4, <1>6 DEF Linked, NotNotified, NoMetadata
<1>11. AliveLinked'
  BY <1>1, <1>4, <1>5, <1>6, <1>8 DEF Linked, AliveLinked
<1>12. AddressedAlive'
  BY <1>2, <1>4, <1>5, <1>6 DEF Linked, AddressedAlive
<1>13. SendArgUsed'
  BY <1>2, <1>3, <1>4, <1>5 DEF Linked, SendArgUsed
<1>14. OverdueIsDead'
  BY <1>5, <1>6 DEF Linked, OverdueIsDead
<1>15. NewUnlinked'
  BY <1>4 DEF Linked, NewUnlinked
<1>16. ListedAlive'
  BY <1>3, <1>4, <1>6 DEF Linked, ListedAlive
<1> QED
  BY <1>9, <1>10, <1>11, <1>12, <1>13, <1>14, <1>15, <1>16 DEF Linked

-----------------------------------------------------------------------------
(* Changing the FIFO and the busy flag of entries leaves the links alone.  *)
SameEntries == \A i \in DOMAIN active' : \E j \in DOMAIN active : active'[i].esp = active[j].esp

LEMMA EntryUpdateSame ==
    ASSUME TypeOK, NEW i \in 1..Len(active), NEW q, NEW b,
           active' = [active EXCEPT ![i].fifo = q, ![i].busy = b]
           \/ active' = [active EXCEPT ![i].fifo = q]
    PROVE  SameEntries
PROOF
<1>1. active \in Seq(Entry) /\ DOMAIN active' = DOMAIN active
  BY DEF TypeOK
<1>2. ASSUME NEW k \in DOMAIN active PROVE active'[k].esp = active[k].esp
  <2> DEFINE y == [active EXCEPT ![i].fifo = q]
             x == [active[i] EXCEPT !.fifo = q]
  <2>1. active[k] \in Entry /\ active[i] \in Entry /\ i \in DOMAIN active
    BY <1>1
  <2>2. x = [esp |-> active[i].esp, busy |-> active[i].busy, fifo |-> q,
             robbed |-> active[i].robbed]
    BY <2>1 DEF Entry
  <2>3. y = [active EXCEPT ![i] = x]
    OBVIOUS
  <2>4. active' = [y EXCEPT ![i].busy = b] \/ active' = y
    OBVIOUS
  <2> HIDE DEF x, y
  <2>5. DOMAIN y = DOMAIN active /\ y[i] = x /\ (k # i => y[k] = active[k])
    BY <1>1, <2>1, <2>3
  <2>6. y[k].esp = active[k].esp
    BY <2>2, <2>5
  <2>7. active'[k].esp = y[k].esp
    <3>1. [x EXCEPT !.busy = b].esp = x.esp
      BY <2>2
    <3>2. CASE active' = [y EXCEPT ![i].busy = b]
      <4>1. active' = [y EXCEPT ![i] = [x EXCEPT !.busy = b]]
        BY <2>5, <3>2
      <4> QED  BY <2>1, <2>5, <3>1, <4>1
    <3> QED  BY <2>4, <3>2
  <2> QED  BY <2>6, <2>7
<1> QED  BY <1>1, <1>2 DEF SameEntries

LEMMA SteadyLinks ==
    ASSUME Linked, TypeOK, TypeOK', UNCHANGED ctx, SameEntries, PostsKnown,
           \A e \in Esp : esp'[e].st = esp[e].st /\ esp'[e].reverse = esp[e].reverse
    PROVE  Linked'
PROOF
<1>1. Alive' = Alive /\ Opening' = Opening
  BY DEF Alive, Opening
<1>2. NoLinkChanges
  BY <1>1 DEF NoLinkChanges, SameEntries
<1> QED  BY <1>2, NoLinkChangesKeeps

LEMMA SendLinks ==
    ASSUME Linked, TypeOK, TypeOK', NEW c \in Ctx, my_send_data(c)
    PROVE  Linked'
PROOF
<1> DEFINE d == Datum(c)
           i == SendEntry(c)
<1>1. /\ d \in Data /\ d.of \in Esp /\ d.of = ctx[c].sendArg
      /\ UNCHANGED <<ctx, esp>>
      /\ \/ UNCHANGED <<active, evq>>
         \/ /\ i \in 1..Len(active)
            /\ \/ \E b : Queue(i, d, b)
               \/ /\ Notify("CLOSING", esp[d.of].reverse, NoEsp, d.of)
                  /\ UNCHANGED active
  <2>1. d.of = ctx[c].sendArg
    BY DEF Datum
  <2>2. d \in Data /\ d.of \in Esp /\ UNCHANGED <<ctx, esp>>
    BY SendDataCases
  <2>3. CASE UNCHANGED <<active, evq, wire>>
    BY <2>1, <2>2, <2>3
  <2>4. CASE i \in 1..Len(active) /\ active[i].busy /\ Queue(i, d, TRUE)
    BY <2>1, <2>2, <2>4
  <2>5. CASE i \in 1..Len(active) /\ \E r \in SendResults(active[i].esp) : SendNow(i, d, r)
    <3> HIDE DEF d, i
    <3> QED  BY <2>1, <2>2, <2>5 DEF SendNow
  <2> QED  BY <2>3, <2>4, <2>5, SendDataCases
<1> HIDE DEF d, i
<1>2. CASE UNCHANGED <<active, evq>>
  BY <1>1, <1>2, SamePosts, SteadyLinks DEF SameEntries
<1>3. CASE i \in 1..Len(active) /\ \E b : Queue(i, d, b)
  <2>1. evq' = evq /\ \E q, b : active' = [active EXCEPT ![i].fifo = q, ![i].busy = b]
    BY <1>3 DEF Queue
  <2>2. SameEntries
    BY <1>3, <2>1, EntryUpdateSame
  <2> QED  BY <1>1, <2>1, <2>2, SamePosts, SteadyLinks
<1>4. CASE Notify("CLOSING", esp[d.of].reverse, NoEsp, d.of) /\ UNCHANGED active
  <2>1. d.of # NoEsp
    BY <1>1, NullAssumption
  <2>2. esp[d.of].reverse = c
    BY <1>1, <2>1 DEF Linked, SendArgUsed
  <2>3. PostsKnown
    BY <1>1, <1>4, <2>1, <2>2, NotifyPosts
  <2> QED  BY <1>1, <1>4, <2>3, SteadyLinks DEF SameEntries
<1> QED  BY <1>1, <1>2, <1>3, <1>4

LEMMA SentLinks ==
    ASSUME Linked, TypeOK, TypeOK', NEW e \in Esp, user_tcp_sent_cb(e)
    PROVE  Linked'
PROOF
<1>1. UNCHANGED <<ctx, esp, evq>>
  BY SentCases
<1>2. SameEntries
  <2> DEFINE i == FirstMatching(esp[e].reverse)
  <2>1. CASE UNCHANGED active
    BY <2>1 DEF SameEntries
  <2>2. CASE i \in 1..Len(active) /\ active' = [active EXCEPT ![i].fifo = <<>>, ![i].busy = FALSE]
    <3> HIDE DEF i
    <3> QED  BY <2>2, EntryUpdateSame
  <2>3. CASE i \in 1..Len(active) /\ \E r \in SendResults(active[i].esp) : Continue(i, Rest(i), r)
    <3> HIDE DEF i
    <3>1. active' = [active EXCEPT ![i].fifo = Rest(i)]
      BY <2>3 DEF Continue
    <3> QED  BY <2>3, <3>1, EntryUpdateSame
  <2> QED  BY <2>1, <2>2, <2>3, SentCases
<1> QED  BY <1>1, <1>2, SamePosts, SteadyLinks

LEMMA ReceiveLinks ==
    ASSUME Linked, TypeOK, TypeOK', NEW e \in Esp, user_tcp_recv_cb(e)
    PROVE  Linked'
PROOF
<1>1. PICK c \in Identified(e) :
          \/ Notify("CLOSING", c, NoEsp, e) /\ UNCHANGED esp
          \/ Notify("NEW_DATA", c, NoEsp, e) /\ esp' = [esp EXCEPT ![e].hold = TRUE]
  BY DEF user_tcp_recv_cb
<1>2. c \in Ctx /\ ctx[c].addr = e /\ e # NoEsp
  BY NullAssumption DEF Identified
<1>3. ctx[c].sendArg # NoEsp
  <2>1. e \in Alive /\ esp[e].reverse = c
    BY <1>2 DEF Linked, AddressedAlive
  <2> QED  BY <1>2, <2>1, NullAssumption DEF Linked, AliveLinked
<1>4. PostsKnown
  BY <1>1, <1>2, <1>3, NotifyPosts
<1>5. \A f \in Esp : esp'[f].st = esp[f].st /\ esp'[f].reverse = esp[f].reverse
  BY <1>1 DEF TypeOK, Espconn
<1>6. UNCHANGED ctx /\ SameEntries
  BY DEF user_tcp_recv_cb, SameEntries
<1> QED  BY <1>4, <1>5, <1>6, SteadyLinks

LEMMA ConnectLinks ==
    ASSUME Linked, TypeOK, TypeOK', NEW e \in Esp, user_tcp_connect_cb(e)
    PROVE  Linked'
PROOF
<1> DEFINE c == esp[e].reverse
<1>1. e \in Opening
  BY DEF user_tcp_connect_cb, Opening
<1>2. /\ c \in Ctx /\ ctx[c].st = "OPEN" /\ ctx[c].sendArg = NoEsp /\ ~ctx[c].overdue
      /\ \A f \in Opening : esp[f].reverse = c => f = e
  BY <1>1 DEF Linked, OpeningLinked
<1>3. \A f \in Alive : esp[f].reverse # c
  <2> SUFFICES ASSUME NEW f \in Alive, esp[f].reverse = c PROVE FALSE
    OBVIOUS
  <2>1. f \in Esp
    BY DEF Alive
  <2>2. ctx[c].sendArg = f
    BY <1>2, NullAssumption DEF Linked, AliveLinked
  <2> QED  BY <1>2, <2>1, <2>2, NullAssumption
<1>4. /\ \A f \in Esp \ {e} : esp'[f] = esp[f]
      /\ esp'[e].st = "UP" /\ esp'[e].reverse = c
  BY DEF user_tcp_connect_cb, TypeOK, Espconn
<1>5. ComesUp(c, e)
  BY <1>1, <1>2, <1>3, <1>4 DEF ComesUp, Opening
<1>6. ctx[c] \in Context /\ Register(c, e, ctx[c]) /\ UNCHANGED evq
  BY <1>2 DEF TypeOK, user_tcp_connect_cb
<1> QED  BY <1>2, <1>5, <1>6, RegisterKeeps

LEMMA ServerConnectLinks ==
    ASSUME Linked, TypeOK, TypeOK', NEW e \in Esp, user_tcp_server_connect_cb(e)
    PROVE  Linked'
PROOF
<1>1. esp[e].st = "NONE" /\ esp[e].reverse = NoCtx
  BY DEF user_tcp_server_connect_cb, Linked, NewUnlinked
<1>2. ASSUME NEW c \in Ctx, CanInit(c), UNCHANGED evq,
             esp' = [esp EXCEPT ![e].st = "UP", ![e].reverse = c],
             Register(c, e, [FreeContext EXCEPT !.st = "OPEN"])
      PROVE  Linked'
  <2>1. ctx[c].st = "FREE" /\ c # NoCtx
    BY <1>2, NullAssumption DEF CanInit
  <2>2. /\ \A f \in Opening : esp[f].reverse # c
        /\ \A f \in Alive : esp[f].reverse # c
    BY <2>1 DEF Linked, OpeningLinked, AliveLinked
  <2>3. /\ \A f \in Esp \ {e} : esp'[f] = esp[f]
        /\ esp'[e].st = "UP" /\ esp'[e].reverse = c
    BY <1>2 DEF TypeOK, Espconn
  <2>4. ComesUp(c, e)
    BY <1>1, <2>2, <2>3 DEF ComesUp
  <2> DEFINE context == [FreeContext EXCEPT !.st = "OPEN"]
  <2>5. context \in Context /\ context.st = "OPEN" /\ ~context.overdue
    BY DEF FreeContext, Context
  <2> HIDE DEF context
  <2>6. Register(c, e, context)
    BY <1>2 DEF context
  <2> QED  BY <1>2, <2>4, <2>5, <2>6, RegisterKeeps
<1>3. CASE /\ esp' = [esp EXCEPT ![e].st = "UP"]
           /\ Notify("CLOSING", NoCtx, e, e)
           /\ UNCHANGED <<ctx, active>>
  <2>1. \A f \in Esp : esp'[f].reverse = esp[f].reverse /\ (f # e => esp'[f] = esp[f])
    BY <1>3 DEF TypeOK, Espconn
  <2>2. esp'[e].st = "UP"
    BY <1>3 DEF TypeOK, Espconn
  <2>3. Alive' = Alive \cup {e} /\ Opening' = Opening
    BY <1>1, <2>1, <2>2 DEF Alive, Opening
  <2>4. NoLinkChanges
    BY <1>1, <1>3, <2>1, <2>2, <2>3 DEF NoLinkChanges
  <2>5. PostsKnown
    BY <1>3, NullAssumption, NotifyPosts
  <2> QED  BY <2>4, <2>5, NoLinkChangesKeeps
<1> QED  BY <1>2, <1>3 DEF user_tcp_server_connect_cb

(* A connection ends, or an attempt: st is GONE or ERROR.                  *)
LEMMA DownLinks ==
    ASSUME Linked, TypeOK, TypeOK', OneEntry(active), NEW e \in Esp, NEW st \in {"GONE", "ERROR"},
           esp' = [esp EXCEPT ![e].st = st], e \in Alive \cup Opening, PostsKnown,
           IF e \in Alive /\ esp[e].reverse # NoCtx
           THEN Discard(esp[e].reverse) ELSE UNCHANGED <<ctx, active>>
    PROVE  Linked'
PROOF
<1>1. \A f \in Esp : esp'[f].reverse = esp[f].reverse /\ (f # e => esp'[f] = esp[f])
  BY DEF TypeOK, Espconn
<1>2. esp'[e].st = st
  BY DEF TypeOK, Espconn
<1>3. /\ Alive' = Alive \ {e} /\ Opening' = Opening \ {e}
      /\ Alive \subseteq Esp /\ Opening \subseteq Esp
  BY <1>1, <1>2 DEF Alive, Opening
<1>4. \A f \in Esp : esp'[f].st = "NONE" => esp[f].st = "NONE"
  BY <1>1, <1>2
<1>5. CASE e \in Alive /\ esp[e].reverse # NoCtx
  <2> DEFINE c == esp[e].reverse
  <2>1. c \in Ctx /\ Discard(c)
    BY <1>5 DEF TypeOK, Espconn
  <2>2. ctx[c].sendArg = e /\ e # NoEsp
    BY <1>5, NullAssumption DEF Linked, AliveLinked
  <2>3. \A f \in Opening : esp[f].reverse # c
    BY <2>2 DEF Linked, OpeningLinked
  <2>4. \A f \in Alive : esp[f].reverse = c => f = e
    BY <1>5, <2>2 DEF Linked, AliveLinked
  <2>5. GoesDown(c)
    BY <1>1, <1>3, <1>4, <2>3, <2>4 DEF GoesDown
  <2> QED  BY <2>1, <2>5, DiscardKeeps
<1>6. CASE ~(e \in Alive /\ esp[e].reverse # NoCtx)
  <2>1. NoLinkChanges
    BY <1>1, <1>3, <1>4, <1>6 DEF NoLinkChanges
  <2> QED  BY <2>1, NoLinkChangesKeeps
<1> QED  BY <1>5, <1>6

LEMMA DisconnectedLinks ==
    ASSUME Linked, TypeOK, TypeOK', OneEntry(active), NEW e \in Esp, user_tcp_discon_cb(e)
    PROVE  Linked'
PROOF
<1>1. e \in Alive /\ esp' = [esp EXCEPT ![e].st = "GONE"] /\ UNCHANGED evq
  BY DEF user_tcp_discon_cb, Alive
<1>2. IF esp[e].reverse # NoCtx THEN Discard(esp[e].reverse) ELSE UNCHANGED <<ctx, active>>
  BY DEF user_tcp_discon_cb
<1> QED  BY <1>1, <1>2, SamePosts, DownLinks

LEMMA ReconnectLinks ==
    ASSUME Linked, TypeOK, TypeOK', OneEntry(active), NEW e \in Esp, user_tcp_recon_cb(e)
    PROVE  Linked'
PROOF
<1>1. PICK st \in {"GONE", "ERROR"} : esp' = [esp EXCEPT ![e].st = st]
  BY DEF user_tcp_recon_cb
<1>2. e \in Alive \cup Opening
  BY DEF user_tcp_recon_cb, Alive, Opening
<1>3. PostsKnown
  BY NullAssumption, NotifyPosts DEF user_tcp_recon_cb
<1>4. Identified(e) = IF e \in Alive /\ esp[e].reverse # NoCtx THEN {esp[e].reverse} ELSE {}
  <2>1. ASSUME NEW c \in Identified(e)
        PROVE  e \in Alive /\ esp[e].reverse = c /\ c # NoCtx
    BY NullAssumption DEF Identified, Linked, AddressedAlive
  <2>2. ASSUME e \in Alive, esp[e].reverse # NoCtx
        PROVE  esp[e].reverse \in Identified(e)
    BY <2>2 DEF Identified, Linked, AliveLinked, TypeOK, Espconn
  <2> QED  BY <2>1, <2>2
<1>5. IF e \in Alive /\ esp[e].reverse # NoCtx
      THEN Discard(esp[e].reverse) ELSE UNCHANGED <<ctx, active>>
  BY <1>4 DEF user_tcp_recon_cb
<1> QED  BY <1>1, <1>2, <1>3, <1>5, DownLinks

LEMMA CloseLinks ==
    ASSUME Linked, TypeOK, TypeOK', OneEntry(active), NEW c \in Ctx, wish_close_connection(c),
           PostsKnown, \A e \in Opening : esp[e].reverse # c
    PROVE  Linked'
PROOF
<1>1. ctx[c].sendArg \in Esp \cup {NoEsp}
  BY DEF TypeOK, Context
<1>2. CASE Discard(c) /\ UNCHANGED esp /\ (ctx[c].overdue \/ ctx[c].sendArg = NoEsp)
  <2>1. ctx[c].sendArg \notin Alive
    BY <1>2, NullAssumption DEF Linked, OverdueIsDead, Alive
  <2>2. \A e \in Alive : esp[e].reverse # c
    BY <2>1, NullAssumption DEF Linked, AliveLinked
  <2>3. Alive' = Alive /\ Opening' = Opening
    BY <1>2 DEF Alive, Opening
  <2>4. GoesDown(c)
    BY <1>2, <2>2, <2>3 DEF GoesDown
  <2> QED  BY <1>2, <2>4, DiscardKeeps
<1>3. CASE /\ ctx' = [ctx EXCEPT ![c].st = "CLOSING"]
           /\ esp' = Disconnect(ctx[c].sendArg)
           /\ UNCHANGED active
  <2>1. \A e \in Esp : /\ esp'[e].reverse = esp[e].reverse
                       /\ \/ esp'[e].st = esp[e].st
                          \/ esp[e].st = "UP" /\ esp'[e].st = "DISCONNECTING"
    <3>1. \/ esp' = esp
          \/ \E f \in Esp : esp[f].st = "UP" /\ esp' = [esp EXCEPT ![f].st = "DISCONNECTING"]
      BY <1>1, <1>3 DEF Disconnect
    <3>2. CASE \E f \in Esp : esp[f].st = "UP" /\ esp' = [esp EXCEPT ![f].st = "DISCONNECTING"]
      BY <3>2 DEF TypeOK, Espconn
    <3> QED  BY <3>1, <3>2
  <2>2. Alive' = Alive /\ Opening' = Opening
    BY <2>1 DEF Alive, Opening
  <2>3. /\ \A d \in Ctx \ {c} : ctx'[d] = ctx[d]
        /\ ctx'[c].sendArg = ctx[c].sendArg /\ ctx'[c].addr = ctx[c].addr
        /\ ctx'[c].overdue = ctx[c].overdue /\ ctx'[c].st = "CLOSING"
    BY <1>3 DEF TypeOK, Context
  <2>4. \A e \in Opening : ctx'[esp[e].reverse] = ctx[esp[e].reverse]
    BY <2>3 DEF Linked, OpeningLinked
  <2>5. NoLinkChanges
    BY <1>3, <2>1, <2>2, <2>3, <2>4 DEF NoLinkChanges
  <2> QED  BY <2>5, NoLinkChangesKeeps
<1> QED  BY <1>2, <1>3 DEF wish_close_connection

LEMMA CoreClosesLinks ==
    ASSUME Linked, TypeOK, TypeOK', OneEntry(active), Punctual, NEW c \in Ctx, CoreCloses(c)
    PROVE  Linked'
PROOF
<1>1. \A e \in Opening : esp[e].reverse # c
  BY DEF CoreCloses, Punctual, Opening
<1>2. wish_close_connection(c) /\ UNCHANGED evq
  BY DEF CoreCloses
<1> QED  BY <1>1, <1>2, SamePosts, CloseLinks

LEMMA TimeOutLinks ==
    ASSUME Linked, TypeOK, TypeOK', Punctual, NEW c \in Ctx, CloseTimesOut(c)
    PROVE  Linked'
PROOF
<1>1. /\ ctx[c].st = "CLOSING" /\ UNCHANGED <<esp, active, evq>>
      /\ ctx[c].sendArg \notin Alive
  BY NullAssumption DEF CloseTimesOut, Punctual, Alive
<1>2. Alive' = Alive /\ Opening' = Opening
  BY <1>1 DEF Alive, Opening
<1>3. /\ \A d \in Ctx \ {c} : ctx'[d] = ctx[d]
      /\ ctx'[c].sendArg = ctx[c].sendArg /\ ctx'[c].addr = ctx[c].addr
      /\ ctx'[c].st = ctx[c].st
  BY DEF CloseTimesOut, TypeOK, Context
<1>4. \A e \in Opening : ctx'[esp[e].reverse] = ctx[esp[e].reverse]
  BY <1>1, <1>3 DEF Linked, OpeningLinked
<1>5. NoLinkChanges
  BY <1>1, <1>2, <1>3, <1>4 DEF NoLinkChanges
<1> QED  BY <1>1, <1>5, SamePosts, NoLinkChangesKeeps

LEMMA MessageProcessorLinks ==
    ASSUME Linked, TypeOK, TypeOK', OneEntry(active), MessageProcessor
    PROVE  Linked'
PROOF
<1> DEFINE ev == Head(evq)
<1>1. evq # <<>> /\ evq' = Tail(evq)
  BY DEF MessageProcessor, ProcessClosing, ProcessAbort, ProcessNewData, Take
<1>2. PostsKnown
  BY <1>1, TakePosts
<1>3. /\ ev.ctx \in Ctx \cup {NoCtx} /\ ev.metadata = NoEsp
      /\ \A e \in Opening : ev.ctx # esp[e].reverse
  <2>1. ev = evq[1] /\ 1 \in DOMAIN evq
    BY <1>1 DEF TypeOK
  <2>2. ev.ctx \in Ctx \cup {NoCtx}
    BY <1>1, EventType DEF Event
  <2> HIDE DEF ev
  <2> QED  BY <2>1, <2>2 DEF Linked, NotNotified, NoMetadata
<1>4. CASE ProcessClosing /\ ev.ctx # NoCtx
  <2>1. wish_close_connection(ev.ctx) /\ ev.ctx \in Ctx
    BY <1>3, <1>4 DEF ProcessClosing
  <2> HIDE DEF ev
  <2> QED  BY <1>2, <1>3, <2>1, CloseLinks
<1>5. CASE ProcessClosing /\ ev.ctx = NoCtx
  <2>1. esp' = Disconnect(NoEsp) /\ UNCHANGED <<ctx, active>>
    BY <1>3, <1>5 DEF ProcessClosing
  <2>2. esp' = esp
    BY <2>1 DEF Disconnect
  <2> QED  BY <1>2, <2>1, <2>2, SteadyLinks DEF SameEntries
<1>6. CASE ProcessAbort
  <2>1. UNCHANGED <<ctx, active, esp>>
    BY <1>3, <1>6 DEF ProcessAbort
  <2> QED  BY <1>2, <2>1, SteadyLinks DEF SameEntries
<1>7. CASE ProcessNewData
  <2> DEFINE e == ctx[ev.ctx].sendArg
  <2>1. /\ UNCHANGED <<ctx, active>>
        /\ esp' = IF e = NoEsp THEN esp ELSE [esp EXCEPT ![e].hold = FALSE]
    BY <1>7 DEF ProcessNewData
  <2> HIDE DEF e
  <2>2. \A f \in Esp : esp'[f].st = esp[f].st /\ esp'[f].reverse = esp[f].reverse
    BY <2>1 DEF TypeOK, Espconn
  <2> QED  BY <1>2, <2>1, <2>2, SteadyLinks DEF SameEntries
<1> QED  BY <1>4, <1>5, <1>6, <1>7 DEF MessageProcessor

-----------------------------------------------------------------------------
LEMMA InitLinks == Init => LInv
PROOF
<1> SUFFICES ASSUME Init PROVE Linked
  BY InitStreams DEF LInv
<1>1. DOMAIN active = {} /\ DOMAIN evq = {} /\ Alive = {} /\ Opening = {}
  BY DEF Init, Alive, Opening
<1>2. \A c \in Ctx : ctx[c] = FreeContext
  BY DEF Init
<1>3. \A e \in Esp : esp[e].reverse = NoCtx
  BY DEF Init
<1> QED
  BY <1>1, <1>2, <1>3
  DEF FreeContext, Linked, OpeningLinked, NotNotified, AliveLinked, AddressedAlive,
      SendArgUsed, OverdueIsDead, NewUnlinked, NoMetadata, ListedAlive

LEMMA NextKeepsLinks == ASSUME Punctual, LInv, [Next]_vars PROVE LInv'
PROOF
<1>1. Linked /\ TypeOK /\ IInv' /\ TypeOK' /\ OneEntry(active)
  BY NextKeepsStreams DEF LInv, IInv, Streams, Queues
<1> SUFFICES Linked'
  BY <1>1 DEF LInv
<1>2. ASSUME NEW e \in Esp, Callback(e) PROVE Linked'
  BY <1>1, <1>2, ConnectLinks, ServerConnectLinks, ReceiveLinks, SentLinks,
     DisconnectedLinks, ReconnectLinks DEF Callback
<1>3. ASSUME NEW c \in Ctx, CoreCall(c) \/ CloseTimesOut(c) PROVE Linked'
  BY <1>1, <1>3, OpenKeeps, SendLinks, CoreClosesLinks, TimeOutLinks DEF CoreCall
<1>4. CASE MessageProcessor
  BY <1>1, <1>4, MessageProcessorLinks
<1>5. CASE UNCHANGED vars
  <2>1. UNCHANGED <<ctx, esp, active, evq>>
    BY <1>5 DEF vars
  <2> QED  BY <1>1, <2>1, SamePosts, SteadyLinks DEF SameEntries
<1> QED  BY <1>2, <1>3, <1>4, <1>5 DEF Next

(* However connections are opened, accepted, refused, closed and lost, by  *)
(* either side, for any number of contexts, with a full event queue, no    *)
(* memory for an entry or a failing espconn_send: an entry of the list     *)
(* belongs to a living connection that is the one of its context.  So the  *)
(* queue length the IPC task waits on counts only data that can be sent.   *)
THEOREM EntriesStayAlive ==
    ASSUME Faults \cap {"late_stack", "early_close", "stale_event"} = {}
    PROVE  Spec => []EntriesAlive
PROOF
<1>1. LInv => EntriesAlive
  <2> SUFFICES ASSUME LInv, NEW i \in DOMAIN active
               PROVE  LET e == active[i].esp
                      IN  /\ esp[e].st \in {"UP", "DISCONNECTING"}
                          /\ ctx[esp[e].reverse].st # "FREE"
                          /\ ctx[esp[e].reverse].sendArg = e
                          /\ \A j \in DOMAIN active : active[j].esp = e => j = i
    BY DEF EntriesAlive
  <2>1. active[i].esp \in Alive /\ esp[active[i].esp].reverse # NoCtx
    BY DEF LInv, Linked, ListedAlive
  <2>2. OneEntry(active)
    BY DEF LInv, IInv, Streams, Queues
  <2> QED  BY <2>1, <2>2 DEF LInv, Linked, AliveLinked, Alive, OneEntry
<1>2. LInv /\ [Next]_vars => LInv'
  BY NextKeepsLinks DEF Punctual
<1> QED  BY <1>1, <1>2, InitLinks, PTL DEF Spec

-----------------------------------------------------------------------------
(***************************************************************************)
(* Receive flow control.  A connection the SDK holds data back on has an   *)
(* event queued that names its context; taking the event releases it.      *)
(***************************************************************************)
Announces(ev, cs, e) == ev.type = "NEW_DATA" /\ ev.ctx \in Ctx /\ cs[ev.ctx].sendArg = e
Announced(q, cs, e) == \E i \in DOMAIN q : Announces(q[i], cs, e)

HeldAnnounced == \A e \in Alive : esp[e].hold => Announced(evq, ctx, e)
UnusedUnheld == \A e \in Esp : esp[e].st \in {"NONE", "CONNECTING"} => ~esp[e].hold
HInv == LInv /\ HeldAnnounced /\ UnusedUnheld

(* A step that takes no event and starts no hold.                          *)
KeepsHolds ==
    /\ \A e \in Esp : /\ esp'[e].hold => esp[e].hold
                      /\ e \in Alive' /\ esp[e].hold => e \in Alive
                      /\ esp'[e].st \in {"NONE", "CONNECTING"}
                            => esp[e].st \in {"NONE", "CONNECTING"}
    /\ \A i \in DOMAIN evq : /\ i \in DOMAIN evq' /\ evq'[i] = evq[i]
                             /\ evq[i].ctx \in Ctx =>
                                   ctx'[evq[i].ctx].sendArg = ctx[evq[i].ctx].sendArg

LEMMA KeepsHoldsSuffices ==
    ASSUME HInv, KeepsHolds PROVE HeldAnnounced' /\ UnusedUnheld'
PROOF
<1>1. ASSUME NEW e \in Alive', esp'[e].hold PROVE Announced(evq', ctx', e)
  <2>1. e \in Esp
    BY DEF Alive
  <2>2. e \in Alive /\ esp[e].hold
    BY <1>1, <2>1 DEF KeepsHolds
  <2>3. PICK i \in DOMAIN evq : Announces(evq[i], ctx, e)
    BY <2>2 DEF HInv, HeldAnnounced, Announced
  <2>4. i \in DOMAIN evq' /\ Announces(evq'[i], ctx', e)
    BY <2>3 DEF KeepsHolds, Announces
  <2> QED  BY <2>4 DEF Announced
<1>2. UnusedUnheld'
  BY DEF HInv, UnusedUnheld, KeepsHolds
<1> QED  BY <1>1, <1>2 DEF HeldAnnounced

LEMMA NotifyAppends ==
    ASSUME TypeOK, NEW type, NEW c, NEW meta, NEW about, Notify(type, c, meta, about)
    PROVE  /\ \A i \in DOMAIN evq : i \in DOMAIN evq' /\ evq'[i] = evq[i]
           /\ "full_queue" \notin Faults =>
                 \E i \in DOMAIN evq' : evq'[i].type = type /\ evq'[i].ctx = c
PROOF
<1> DEFINE ev == [type |-> type, ctx |-> c, metadata |-> NoEsp, about |-> about]
<1>1. ev.type = type /\ ev.ctx = c
  OBVIOUS
<1>2. \/ evq' = Append(evq, ev)
      \/ "full_queue" \in Faults /\ evq' = evq
  BY DEF Notify
<1>3. evq \in Seq(Event)
  BY DEF TypeOK
<1> HIDE DEF ev
<1>4. CASE evq' = Append(evq, ev)
  <2>1. \A i \in DOMAIN evq : i \in DOMAIN evq' /\ evq'[i] = evq[i]
    BY <1>3, <1>4
  <2>2. Len(evq) + 1 \in DOMAIN evq' /\ evq'[Len(evq) + 1] = ev
    BY <1>3, <1>4
  <2> QED  BY <1>1, <2>1, <2>2
<1> QED  BY <1>2, <1>4

(* The actions that leave send_arg, and what is held, alone.               *)
LEMMA QuietStepHolds ==
    ASSUME HInv, \A i \in DOMAIN evq : i \in DOMAIN evq' /\ evq'[i] = evq[i],
           \A c \in Ctx : ctx'[c].sendArg = ctx[c].sendArg,
           \A e \in Esp : /\ esp'[e].hold = esp[e].hold
                          /\ \/ esp'[e].st = esp[e].st
                             \/ esp[e].st = "UP" /\ esp'[e].st = "DISCONNECTING"
                             \/ esp'[e].st \in {"GONE", "ERROR"}
                             \/ esp[e].st = "NONE" /\ esp'[e].st = "UP"
    PROVE  HeldAnnounced' /\ UnusedUnheld'
PROOF
<1>1. ASSUME NEW e \in Esp, e \in Alive', esp[e].hold PROVE e \in Alive
  BY <1>1 DEF HInv, UnusedUnheld, Alive
<1>2. KeepsHolds
  BY <1>1 DEF KeepsHolds
<1> QED  BY <1>2, KeepsHoldsSuffices

LEMMA DiscardKeepsSendArg ==
    ASSUME TypeOK, NEW c \in Ctx, Discard(c)
    PROVE  \A d \in Ctx : ctx'[d].sendArg = ctx[d].sendArg
PROOF
  BY DEF TypeOK, Context, Discard

LEMMA DisconnectKeepsHolds ==
    ASSUME TypeOK, NEW f \in Esp \cup {NoEsp}, esp' = Disconnect(f)
    PROVE  \A e \in Esp : /\ esp'[e].hold = esp[e].hold
                          /\ \/ esp'[e].st = esp[e].st
                             \/ esp[e].st = "UP" /\ esp'[e].st = "DISCONNECTING"
PROOF
  BY DEF TypeOK, Espconn, Disconnect

LEMMA CloseKeepsHolds ==
    ASSUME TypeOK, NEW c \in Ctx, wish_close_connection(c)
    PROVE  /\ \A d \in Ctx : ctx'[d].sendArg = ctx[d].sendArg
           /\ \A e \in Esp : /\ esp'[e].hold = esp[e].hold
                             /\ \/ esp'[e].st = esp[e].st
                                \/ esp[e].st = "UP" /\ esp'[e].st = "DISCONNECTING"
PROOF
<1>1. ctx[c].sendArg \in Esp \cup {NoEsp}
  BY DEF TypeOK, Context
<1>2. CASE Discard(c) /\ UNCHANGED esp
  BY <1>2, DiscardKeepsSendArg
<1>3. CASE ctx' = [ctx EXCEPT ![c].st = "CLOSING"] /\ esp' = Disconnect(ctx[c].sendArg)
  <2>1. \A d \in Ctx : ctx'[d].sendArg = ctx[d].sendArg
    BY <1>3 DEF TypeOK, Context
  <2> QED  BY <1>1, <1>3, <2>1, DisconnectKeepsHolds
<1> QED  BY <1>2, <1>3 DEF wish_close_connection

(* A context without a queued event gets an espconn, or a new start.       *)
LEMMA ContextStartHolds ==
    ASSUME HInv, NEW c, UNCHANGED evq, NEW e \in Esp,
           \A i \in DOMAIN evq : evq[i].ctx # c,
           \A d \in Ctx \ {c} : ctx'[d] = ctx[d],
           \A f \in Esp \ {e} : esp'[f] = esp[f],
           ~esp'[e].hold
    PROVE  HeldAnnounced' /\ UnusedUnheld'
PROOF
<1>1. Alive \ {e} = Alive' \ {e}
  BY DEF Alive
<1>3. ASSUME NEW f \in Alive', esp'[f].hold PROVE Announced(evq', ctx', f)
  <2>1. f \in Esp /\ f # e
    BY <1>3 DEF Alive
  <2>2. f \in Alive /\ esp[f].hold
    BY <1>1, <1>3, <2>1
  <2>3. PICK i \in DOMAIN evq : Announces(evq[i], ctx, f)
    BY <2>2 DEF HInv, HeldAnnounced, Announced
  <2>4. ctx'[evq[i].ctx] = ctx[evq[i].ctx]
    BY <2>3 DEF Announces
  <2> QED  BY <2>3, <2>4 DEF Announces, Announced
<1>4. UnusedUnheld'
  BY DEF HInv, UnusedUnheld
<1> QED  BY <1>3, <1>4 DEF HeldAnnounced

LEMMA ReceiveHolds ==
    ASSUME HInv, "full_queue" \notin Faults, NEW e \in Esp, user_tcp_recv_cb(e)
    PROVE  HeldAnnounced' /\ UnusedUnheld'
PROOF
<1>1. TypeOK /\ Linked
  BY DEF HInv, LInv, IInv
<1>2. PICK c \in Identified(e) :
          \/ Notify("CLOSING", c, NoEsp, e) /\ UNCHANGED esp
          \/ Notify("NEW_DATA", c, NoEsp, e) /\ esp' = [esp EXCEPT ![e].hold = TRUE]
  BY DEF user_tcp_recv_cb
<1>3. UNCHANGED ctx /\ \A i \in DOMAIN evq : i \in DOMAIN evq' /\ evq'[i] = evq[i]
  BY <1>1, <1>2, NotifyAppends DEF user_tcp_recv_cb
<1>4. CASE UNCHANGED esp
  BY <1>3, <1>4, QuietStepHolds
<1>5. CASE Notify("NEW_DATA", c, NoEsp, e) /\ esp' = [esp EXCEPT ![e].hold = TRUE]
  <2>1. /\ \A f \in Esp : esp'[f].st = esp[f].st /\ (f # e => esp'[f] = esp[f])
        /\ esp[e].st = "UP"
    BY <1>1, <1>5 DEF TypeOK, Espconn, user_tcp_recv_cb
  <2>2. Alive' = Alive
    BY <2>1 DEF Alive
  <2>3. Announced(evq', ctx', e)
    <3>1. c \in Ctx /\ ctx[c].addr = e /\ e # NoEsp
      BY <1>2, NullAssumption DEF Identified
    <3>2. e \in Alive /\ esp[e].reverse = c
      BY <1>1, <3>1 DEF Linked, AddressedAlive
    <3>3. ctx[c].sendArg = e
      BY <1>1, <3>1, <3>2, NullAssumption DEF Linked, AliveLinked
    <3>4. PICK i \in DOMAIN evq' : evq'[i].type = "NEW_DATA" /\ evq'[i].ctx = c
      BY <1>1, <1>5, NotifyAppends
    <3> QED  BY <1>3, <3>1, <3>3, <3>4 DEF Announced, Announces
  <2>4. ASSUME NEW f \in Alive', esp'[f].hold, f # e PROVE Announced(evq', ctx', f)
    <3>1. f \in Alive /\ esp[f].hold
      BY <2>1, <2>2, <2>4 DEF Alive
    <3>2. PICK i \in DOMAIN evq : Announces(evq[i], ctx, f)
      BY <3>1 DEF HInv, HeldAnnounced, Announced
    <3> QED  BY <1>3, <3>2 DEF Announces, Announced
  <2>5. UnusedUnheld'
    BY <2>1 DEF HInv, UnusedUnheld
  <2> QED  BY <2>3, <2>4, <2>5 DEF HeldAnnounced
<1> QED  BY <1>2, <1>4, <1>5

LEMMA CallbackHolds ==
    ASSUME HInv, Punctual, "full_queue" \notin Faults, NEW e \in Esp, Callback(e)
    PROVE  HeldAnnounced' /\ UnusedUnheld'
PROOF
<1>1. TypeOK /\ Linked
  BY DEF HInv, LInv, IInv
<1> DEFINE Quiet == \A i \in DOMAIN evq : i \in DOMAIN evq' /\ evq'[i] = evq[i]
           SendArgs == \A c \in Ctx : ctx'[c].sendArg = ctx[c].sendArg
<1>2. ASSUME NEW c, NEW context, Register(c, e, context)
      PROVE  \A d \in Ctx \ {c} : ctx'[d] = ctx[d]
  BY <1>1, <1>2 DEF Register, TypeOK
<1>3. CASE user_tcp_connect_cb(e)
  <2>1. e \in Opening /\ UNCHANGED evq
    BY <1>3 DEF user_tcp_connect_cb, Opening
  <2>2. \A i \in DOMAIN evq : evq[i].ctx # esp[e].reverse
    BY <1>1, <2>1 DEF Linked, NotNotified
  <2>3. \A d \in Ctx \ {esp[e].reverse} : ctx'[d] = ctx[d]
    BY <1>2, <1>3 DEF user_tcp_connect_cb
  <2>4. ~esp[e].hold
    BY <1>3 DEF user_tcp_connect_cb, HInv, UnusedUnheld
  <2>5. (\A f \in Esp \ {e} : esp'[f] = esp[f]) /\ ~esp'[e].hold
    BY <1>1, <1>3, <2>4 DEF user_tcp_connect_cb, TypeOK, Espconn
  <2> QED  BY <2>1, <2>2, <2>3, <2>5, ContextStartHolds
<1>4. CASE user_tcp_server_connect_cb(e)
  <2>1. ~esp[e].hold /\ esp[e].st = "NONE"
    BY <1>4 DEF user_tcp_server_connect_cb, HInv, UnusedUnheld
  <2>2. ASSUME NEW c \in Ctx, CanInit(c), UNCHANGED evq,
               esp' = [esp EXCEPT ![e].st = "UP", ![e].reverse = c],
               Register(c, e, [FreeContext EXCEPT !.st = "OPEN"])
        PROVE  HeldAnnounced' /\ UnusedUnheld'
    <3>1. \A i \in DOMAIN evq : evq[i].ctx # c
      BY <2>2 DEF CanInit, Punctual
    <3>2. \A d \in Ctx \ {c} : ctx'[d] = ctx[d]
      BY <1>2, <2>2
    <3>3. (\A f \in Esp \ {e} : esp'[f] = esp[f]) /\ ~esp'[e].hold
      BY <1>1, <2>1, <2>2 DEF TypeOK, Espconn
    <3> QED  BY <2>2, <3>1, <3>2, <3>3, ContextStartHolds
  <2>3. CASE /\ esp' = [esp EXCEPT ![e].st = "UP"]
             /\ Notify("CLOSING", NoCtx, e, e)
             /\ UNCHANGED <<ctx, active>>
    <3>1. Quiet
      BY <1>1, <2>3, NotifyAppends
    <3>2. \A f \in Esp : /\ esp'[f].hold = esp[f].hold
                         /\ \/ esp'[f].st = esp[f].st
                            \/ esp[f].st = "NONE" /\ esp'[f].st = "UP"
      BY <1>1, <2>1, <2>3 DEF TypeOK, Espconn
    <3> QED  BY <2>3, <3>1, <3>2, QuietStepHolds
  <2> QED  BY <1>4, <2>2, <2>3 DEF user_tcp_server_connect_cb
<1>5. CASE user_tcp_recv_cb(e)
  BY <1>5, ReceiveHolds
<1>6. CASE user_tcp_sent_cb(e)
  <2>1. UNCHANGED <<ctx, esp, evq>>
    BY <1>1, <1>6, SentCases
  <2> QED  BY <2>1, QuietStepHolds
<1>7. CASE user_tcp_discon_cb(e) \/ user_tcp_recon_cb(e)
  <2>1. Quiet
    BY <1>1, <1>7, NotifyAppends DEF user_tcp_discon_cb, user_tcp_recon_cb
  <2>2. PICK st \in {"GONE", "ERROR"} : esp' = [esp EXCEPT ![e].st = st]
    BY <1>7 DEF user_tcp_discon_cb, user_tcp_recon_cb
  <2>3. \A f \in Esp : /\ esp'[f].hold = esp[f].hold
                       /\ \/ esp'[f].st = esp[f].st
                          \/ esp'[f].st \in {"GONE", "ERROR"}
    BY <1>1, <2>2 DEF TypeOK, Espconn
  <2>4. esp[e].reverse \in Ctx \cup {NoCtx} /\ Identified(e) \subseteq Ctx
    BY <1>1 DEF TypeOK, Espconn, Identified
  <2>5. UNCHANGED ctx \/ \E c \in Ctx : Discard(c)
    BY <1>7, <2>4 DEF user_tcp_discon_cb, user_tcp_recon_cb
  <2>6. SendArgs
    BY <1>1, <2>5, DiscardKeepsSendArg
  <2> QED  BY <2>1, <2>3, <2>6, QuietStepHolds
<1> QED  BY <1>3, <1>4, <1>5, <1>6, <1>7 DEF Callback

LEMMA CoreCallHolds ==
    ASSUME HInv, Punctual, NEW c \in Ctx, CoreCall(c) \/ CloseTimesOut(c)
    PROVE  HeldAnnounced' /\ UnusedUnheld'
PROOF
<1>1. TypeOK
  BY DEF HInv, LInv, IInv
<1>2. ASSUME NEW e \in Esp, wish_open_connection(c, e) PROVE HeldAnnounced' /\ UnusedUnheld'
  <2>1. UNCHANGED evq /\ \A i \in DOMAIN evq : evq[i].ctx # c
    BY <1>2 DEF wish_open_connection, CanInit, Punctual
  <2>2. \A d \in Ctx \ {c} : ctx'[d] = ctx[d]
    BY <1>1, <1>2 DEF wish_open_connection, TypeOK
  <2>3. (\A f \in Esp \ {e} : esp'[f] = esp[f]) /\ ~esp'[e].hold
    BY <1>1, <1>2 DEF wish_open_connection, TypeOK
  <2> QED  BY <2>1, <2>2, <2>3, ContextStartHolds
<1>3. CASE my_send_data(c)
  <2>1. UNCHANGED <<ctx, esp>>
    BY <1>1, <1>3, SendDataCases
  <2>2. \A i \in DOMAIN evq : i \in DOMAIN evq' /\ evq'[i] = evq[i]
    BY <1>1, <1>3, NotifyAppends DEF my_send_data, SendNow, Queue
  <2> QED  BY <2>1, <2>2, QuietStepHolds
<1>4. CASE CoreCloses(c)
  BY <1>1, <1>4, CloseKeepsHolds, QuietStepHolds DEF CoreCloses
<1>5. CASE CloseTimesOut(c)
  <2>1. UNCHANGED <<esp, evq>> /\ \A d \in Ctx : ctx'[d].sendArg = ctx[d].sendArg
    BY <1>1, <1>5 DEF CloseTimesOut, TypeOK, Context
  <2> QED  BY <2>1, QuietStepHolds
<1> QED  BY <1>2, <1>3, <1>4, <1>5 DEF CoreCall

LEMMA MessageProcessorHolds ==
    ASSUME HInv, MessageProcessor
    PROVE  HeldAnnounced' /\ UnusedUnheld'
PROOF
<1> DEFINE ev == Head(evq)
<1>1. TypeOK /\ Linked
  BY DEF HInv, LInv, IInv
<1>2. evq # <<>> /\ evq' = Tail(evq)
  BY DEF MessageProcessor, ProcessClosing, ProcessAbort, ProcessNewData, Take
<1>3. evq \in Seq(Event)
  BY <1>1 DEF TypeOK
<1>4. /\ ev = evq[1] /\ 1 \in DOMAIN evq
      /\ \A i \in DOMAIN evq : i # 1 => i - 1 \in DOMAIN evq' /\ evq'[i - 1] = evq[i]
  BY <1>2, <1>3
<1>5. ev.ctx \in Ctx \cup {NoCtx} /\ ev.metadata = NoEsp
  <2>1. ev.ctx \in Ctx \cup {NoCtx}
    BY <1>1, <1>2, EventType DEF Event
  <2> HIDE DEF ev
  <2> QED  BY <1>1, <1>4, <2>1 DEF Linked, NoMetadata
<1> HIDE DEF ev
<1>6. \A c \in Ctx : ctx'[c].sendArg = ctx[c].sendArg
  <2>1. UNCHANGED ctx \/ \E c \in Ctx : wish_close_connection(c)
    BY <1>5 DEF MessageProcessor, ProcessClosing, ProcessAbort, ProcessNewData, ev
  <2> QED  BY <1>1, <2>1, CloseKeepsHolds
<1>7. \A e \in Esp : /\ esp'[e].hold => esp[e].hold
                     /\ \/ esp'[e].st = esp[e].st
                        \/ esp[e].st = "UP" /\ esp'[e].st = "DISCONNECTING"
  <2>1. CASE ProcessClosing
    <3>1. CASE ev.ctx # NoCtx
      BY <1>1, <1>5, <2>1, <3>1, CloseKeepsHolds DEF ProcessClosing, ev
    <3>2. CASE ev.ctx = NoCtx
      BY <1>1, <1>5, <2>1, <3>2, DisconnectKeepsHolds DEF ProcessClosing, ev
    <3> QED  BY <3>1, <3>2
  <2>2. CASE ProcessAbort
    BY <1>5, <2>2 DEF ProcessAbort, ev
  <2>3. CASE ProcessNewData
    BY <1>1, <2>3 DEF ProcessNewData, TypeOK, Espconn
  <2> QED  BY <2>1, <2>2, <2>3 DEF MessageProcessor
<1>8. ASSUME NEW e \in Esp, Announces(ev, ctx, e), esp'[e].hold
      PROVE  FALSE
  <2>1. ProcessNewData
    BY <1>8 DEF Announces, MessageProcessor, ProcessClosing, ProcessAbort, Take, ev
  <2>2. ctx[ev.ctx].sendArg = e /\ e # NoEsp
    BY <1>8, NullAssumption DEF Announces
  <2>3. esp' = [esp EXCEPT ![e].hold = FALSE]
    BY <2>1, <2>2 DEF ProcessNewData, ev
  <2> QED  BY <1>1, <1>8, <2>3 DEF TypeOK, Espconn
<1>9. ASSUME NEW e \in Alive', esp'[e].hold PROVE Announced(evq', ctx', e)
  <2>1. e \in Esp
    BY DEF Alive
  <2>2. e \in Alive /\ esp[e].hold
    BY <1>7, <1>9, <2>1 DEF Alive
  <2>3. PICK i \in DOMAIN evq : Announces(evq[i], ctx, e)
    BY <2>2 DEF HInv, HeldAnnounced, Announced
  <2>4. i # 1
    BY <1>4, <1>8, <1>9, <2>1, <2>3
  <2>5. Announces(evq[i], ctx', e)
    BY <1>6, <2>3 DEF Announces
  <2> QED  BY <1>4, <2>4, <2>5 DEF Announced, Announces
<1>10. UnusedUnheld'
  BY <1>7 DEF HInv, UnusedUnheld
<1> QED  BY <1>9, <1>10 DEF HeldAnnounced

(* Whatever arrives, is processed, closed or lost, on any number of        *)
(* connections, also without memory or when espconn_send fails: the SDK    *)
(* never holds data back on a connection whose release nobody will ask     *)
(* for.  It may when the queue of TASK_EVENT_QUEUE_LEN events is full: the *)
(* post is refused, and the hold remains (user_tcp.c:91-94).               *)
THEOREM HeldIsReleased ==
    ASSUME Faults \cap {"late_stack", "early_close", "stale_event", "full_queue"} = {}
    PROVE  Spec => []HeldIsPending
PROOF
<1>1. Punctual /\ "full_queue" \notin Faults
  BY DEF Punctual
<1>2. Init => HInv
  <2>1. Init => HeldAnnounced /\ UnusedUnheld
    BY DEF Init, HeldAnnounced, UnusedUnheld, Alive
  <2> QED  BY <2>1, InitLinks DEF HInv
<1>3. HInv /\ [Next]_vars => HInv'
  <2> SUFFICES ASSUME HInv, [Next]_vars PROVE HInv'
    OBVIOUS
  <2>1. LInv'
    BY <1>1, NextKeepsLinks DEF HInv
  <2>2. HeldAnnounced' /\ UnusedUnheld'
    <3>1. CASE UNCHANGED vars
      BY <3>1, QuietStepHolds DEF vars
    <3> QED
      BY <1>1, <3>1, CallbackHolds, CoreCallHolds, MessageProcessorHolds DEF Next
  <2> QED  BY <2>1, <2>2 DEF HInv
<1>4. HInv => HeldIsPending
  BY DEF HInv, HeldAnnounced, Announced, Announces, HeldIsPending, Alive
<1> QED  BY <1>2, <1>3, <1>4, PTL DEF Spec

-----------------------------------------------------------------------------
(***************************************************************************)
(* The stream of a connection.  What was accepted for it is what the SDK   *)
(* has confirmed followed by the FIFO.  The entry is busy while the head   *)
(* of its FIFO is with the SDK, or was refused by it in a sent callback.   *)
(* Nothing is said of an entry whose FIFO was freed by the end of another  *)
(* connection; it stays marked, and no other entry is touched by it.       *)
(***************************************************************************)
Flow(entry, acc, w, n) ==
    /\ n <= Len(w) /\ Len(acc) = n + Len(entry.fifo)
    /\ \A k \in 1..n : acc[k] = w[k]
    /\ \A k \in 1..Len(entry.fifo) : acc[n + k] = entry.fifo[k]
    /\ ~entry.busy => Len(w) = n
    /\ entry.busy => /\ Len(entry.fifo) > 0
                     /\ Len(w) > n => Len(w) = n + 1 /\ w[n + 1] = entry.fifo[1]

Flows ==
    \A i \in DOMAIN active :
        LET e == active[i].esp
        IN  active[i].robbed \/ Flow(active[i], accepted[e], wire[e], acked[e])

UnusedSilent ==
    \A e \in Esp : esp[e].st \in {"NONE", "CONNECTING"} =>
        accepted[e] = <<>> /\ wire[e] = <<>> /\ acked[e] = 0

FInv == LInv /\ Flows /\ UnusedSilent

LEMMA FlowIsStream ==
    ASSUME NEW en \in Entry, NEW acc \in Seq(Data), NEW w \in Seq(Data), NEW n \in Nat,
           Flow(en, acc, w, n)
    PROVE  acc = SubSeq(w, 1, n) \o en.fifo
PROOF
<1> DEFINE q == en.fifo
           h == SubSeq(w, 1, n)
<1>1. q \in Seq(Data) /\ Len(q) \in Nat /\ n <= Len(w) /\ Len(acc) = n + Len(q)
  BY DEF Flow, Entry
<1>2. h \in Seq(Data) /\ Len(h) = n /\ \A k \in 1..n : h[k] = w[k]
  BY <1>1
<1>3. /\ \A k \in 1..n : acc[k] = w[k]
      /\ \A k \in 1..Len(q) : acc[n + k] = q[k]
  BY DEF Flow
<1> HIDE DEF q, h
<1> SUFFICES acc = h \o q
  BY DEF q, h
<1>4. h \o q \in Seq(Data) /\ Len(h \o q) = Len(h) + Len(q)
  BY <1>1, <1>2, ConcatProperties
<1>5. ASSUME NEW k \in 1..Len(acc) PROVE acc[k] = (h \o q)[k]
  <2>0. k \in 1..Len(h) + Len(q) /\ k \in Nat
    BY <1>1, <1>2
  <2>1. (h \o q)[k] = IF k <= Len(h) THEN h[k] ELSE q[k - Len(h)]
    BY <1>1, <1>2, <2>0, ConcatProperties
  <2>2. CASE k <= n
    BY <1>2, <1>3, <2>1, <2>2
  <2>3. CASE k > n
    <3>1. k - n \in 1..Len(q) /\ n + (k - n) = k
      BY <1>1, <2>3
    <3>2. acc[k] = q[k - n]
      BY <1>3, <3>1
    <3> QED  BY <1>2, <2>1, <2>3, <3>2
  <2> QED  BY <2>0, <2>2, <2>3
<1>6. Len(h \o q) = Len(acc)
  BY <1>1, <1>2, <1>4
<1> DEFINE r == h \o q
<1> HIDE DEF r
<1>7. r \in Seq(Data) /\ Len(r) = Len(acc) /\ \A k \in 1..Len(acc) : acc[k] = r[k]
  BY <1>4, <1>5, <1>6 DEF r
<1> QED  BY <1>7, SeqEqual DEF r

(* An entry when a datum joins it, is given to the SDK, and is confirmed.  *)
LEMMA FlowQueued ==
    ASSUME NEW en \in Entry, NEW acc \in Seq(Data), NEW w \in Seq(Data), NEW n \in Nat,
           Flow(en, acc, w, n), NEW new \in Entry, NEW d \in Data,
           new.fifo = Append(en.fifo, d), new.busy = en.busy
    PROVE  Flow(new, Append(acc, d), w, n)
PROOF
<1>1. en.fifo \in Seq(Data) /\ Len(acc) = n + Len(en.fifo)
  BY DEF Flow, Entry
<1>2. /\ Len(new.fifo) = Len(en.fifo) + 1
      /\ \A k \in 1..Len(en.fifo) : new.fifo[k] = en.fifo[k]
      /\ new.fifo[Len(en.fifo) + 1] = d
  BY <1>1
<1>3. /\ Len(Append(acc, d)) = Len(acc) + 1
      /\ \A k \in 1..Len(acc) : Append(acc, d)[k] = acc[k]
      /\ Append(acc, d)[Len(acc) + 1] = d
  OBVIOUS
<1> DEFINE acc2 == Append(acc, d)
<1> HIDE DEF acc2
<1>4. /\ Len(acc2) = Len(acc) + 1 /\ acc2[Len(acc) + 1] = d
      /\ \A k \in 1..Len(acc) : acc2[k] = acc[k]
  BY <1>3 DEF acc2
<1>5. Flow(new, acc2, w, n)
  <2>1. Len(acc2) = n + Len(new.fifo) /\ n <= Len(w)
    BY <1>1, <1>2, <1>4 DEF Flow
  <2>2. \A k \in 1..n : acc2[k] = w[k]
    BY <1>1, <1>4 DEF Flow
  <2>3. ASSUME NEW k \in 1..Len(new.fifo) PROVE acc2[n + k] = new.fifo[k]
    <3>1. CASE k = Len(en.fifo) + 1
      BY <1>1, <1>2, <1>4, <3>1
    <3>2. CASE k \in 1..Len(en.fifo)
      <4>1. n + k \in 1..Len(acc)
        BY <1>1, <3>2
      <4> QED  BY <1>2, <1>4, <3>2, <4>1 DEF Flow
    <3> QED  BY <1>1, <1>2, <3>1, <3>2
  <2>4. /\ ~new.busy => Len(w) = n
        /\ new.busy => /\ Len(new.fifo) > 0
                       /\ Len(w) > n => Len(w) = n + 1 /\ w[n + 1] = new.fifo[1]
    BY <1>1, <1>2 DEF Flow
  <2> QED  BY <2>1, <2>2, <2>3, <2>4 DEF Flow
<1> QED  BY <1>5 DEF acc2

(* The head of the FIFO is given to the SDK.                               *)
LEMMA FlowGiven ==
    ASSUME NEW en \in Entry, NEW acc, NEW w \in Seq(Data), NEW n \in Nat,
           Flow(en, acc, w, n), Len(w) = n, NEW new \in Entry, NEW d \in Data,
           new.fifo = en.fifo, new.busy, en.fifo # <<>>, d = Head(en.fifo)
    PROVE  Flow(new, acc, Append(w, d), n)
PROOF
<1>1. en.fifo \in Seq(Data) /\ Len(en.fifo) > 0 /\ d = en.fifo[1]
  BY DEF Entry
<1> DEFINE w2 == Append(w, d)
<1>2. Len(w2) = n + 1 /\ w2[n + 1] = d /\ \A k \in 1..n : w2[k] = w[k]
  OBVIOUS
<1> HIDE DEF w2
<1>3. Flow(new, acc, w2, n)
  BY <1>1, <1>2 DEF Flow
<1> QED  BY <1>3 DEF w2

(* The SDK has confirmed the head of the FIFO.                             *)
LEMMA FlowConfirmed ==
    ASSUME NEW en \in Entry, NEW acc \in Seq(Data), NEW w \in Seq(Data), NEW n \in Nat,
           Flow(en, acc, w, n), en.busy, n < Len(w), NEW new \in Entry,
           new.fifo = Tail(en.fifo), new.busy <=> new.fifo # <<>>
    PROVE  Flow(new, acc, w, n + 1) /\ Len(w) = n + 1
PROOF
<1>1. en.fifo \in Seq(Data) /\ en.fifo # <<>> /\ new.fifo \in Seq(Data)
  BY DEF Flow, Entry
<1>2. Len(w) = n + 1 /\ w[n + 1] = en.fifo[1] /\ Len(acc) = n + Len(en.fifo)
  BY DEF Flow
<1>3. Len(new.fifo) = Len(en.fifo) - 1 /\ \A k \in 1..Len(new.fifo) : new.fifo[k] = en.fifo[k + 1]
  BY <1>1
<1>4. acc[n + 1] = en.fifo[1]
  BY <1>1 DEF Flow
<1>5. \A k \in 1..n + 1 : acc[k] = w[k]
  BY <1>2, <1>4 DEF Flow
<1>6. ASSUME NEW k \in 1..Len(new.fifo) PROVE acc[n + 1 + k] = new.fifo[k]
  <2>1. k + 1 \in 1..Len(en.fifo) /\ n + (k + 1) = n + 1 + k
    BY <1>1, <1>3
  <2> QED  BY <1>3, <2>1 DEF Flow
<1>7. new.busy => Len(new.fifo) > 0
  BY <1>1
<1> DEFINE a == Len(en.fifo)
           b == Len(new.fifo)
           l == Len(w)
<1>8. n + 1 <= l /\ Len(acc) = n + 1 + b
  <2>1. a \in Nat /\ b \in Nat /\ b = a - 1 /\ l = n + 1 /\ Len(acc) = n + a
    BY <1>1, <1>2, <1>3
  <2> HIDE DEF a, b, l
  <2> QED  BY <2>1
<1>9. ~new.busy => l = n + 1
  BY <1>2
<1>10. new.busy => Len(new.fifo) > 0 /\ ~(Len(w) > n + 1)
  BY <1>2, <1>7
<1> QED  BY <1>2, <1>5, <1>6, <1>8, <1>9, <1>10 DEF Flow

-----------------------------------------------------------------------------
LEMMA FlowTypes ==
    ASSUME TypeOK
    PROVE  /\ \A e \in Esp : /\ accepted[e] \in Seq(Data) /\ wire[e] \in Seq(Data)
                             /\ acked[e] \in Nat
           /\ active \in Seq(Entry)
           /\ \A i \in DOMAIN active :
                 /\ active[i] \in Entry /\ active[i].esp \in Esp
                 /\ active[i].busy \in BOOLEAN /\ active[i].fifo \in Seq(Data)
PROOF
<1>1. active \in Seq(Entry)
  BY DEF TypeOK
<1>2. \A i \in DOMAIN active : i \in 1..Len(active)
  BY <1>1
<1>3. \A i \in DOMAIN active :
        /\ active[i] \in Entry /\ active[i].esp \in Esp
        /\ active[i].busy \in BOOLEAN /\ active[i].fifo \in Seq(Data)
  BY <1>2, EntryType
<1> QED  BY <1>1, <1>3 DEF TypeOK

(* The entry the code finds for a context is that of its connection.       *)
LEMMA EntryOfContext ==
    ASSUME LInv, NEW i \in DOMAIN active, NEW c \in Ctx, esp[active[i].esp].reverse = c
    PROVE  ctx[c].sendArg = active[i].esp /\ active[i].esp \in Alive
PROOF
<1>1. TypeOK /\ Linked
  BY DEF LInv, IInv
<1>2. active[i].esp \in Alive
  BY <1>1 DEF Linked, ListedAlive
<1> QED  BY <1>1, <1>2, NullAssumption DEF Linked, AliveLinked

LEMMA FoundEntry ==
    ASSUME LInv, NEW c \in Ctx, Matching(c) # {}
    PROVE  /\ FirstMatching(c) \in DOMAIN active
           /\ active[FirstMatching(c)].esp = ctx[c].sendArg
           /\ active[FirstMatching(c)].esp \in Alive
PROOF
<1> DEFINE i == FirstMatching(c)
<1>1. Matching(c) \in SUBSET Nat
  BY DEF Matching, LInv, IInv, TypeOK
<1>2. i \in Matching(c)
  BY <1>1, MinInSet DEF FirstMatching
<1> HIDE DEF i
<1>3. i \in DOMAIN active /\ esp[active[i].esp].reverse = c
  BY <1>2 DEF Matching
<1>4. active[i].esp = ctx[c].sendArg /\ active[i].esp \in Alive
  BY <1>3, EntryOfContext
<1> QED  BY <1>3, <1>4 DEF i

(* Steps that change no FIFO.                                              *)
SilentBefore == \A e \in Esp : esp'[e].st \in {"NONE", "CONNECTING"} =>
                                esp[e].st \in {"NONE", "CONNECTING"}

LEMMA QuietStepFlows ==
    ASSUME FInv, UNCHANGED hist, SilentBefore, active' = active
    PROVE  Flows' /\ UnusedSilent'
PROOF
  BY DEF FInv, Flows, UnusedSilent, SilentBefore, hist

(* The end of a connection: each entry left is as it was, or marked.       *)
LEMMA DiscardFlows ==
    ASSUME FInv, UNCHANGED hist, SilentBefore, NEW c, Discard(c)
    PROVE  Flows' /\ UnusedSilent'
PROOF
<1>1. TypeOK /\ active' = Cleanup(c)
  BY DEF FInv, LInv, IInv, Discard
<1>2. PICK m, s : /\ Shrinks(active, Cleanup(c), m, s)
                  /\ \A i \in DOMAIN Cleanup(c) : Spared(active[m[i]], Cleanup(c)[i])
  BY <1>1, CleanupShrinks
<1>3. ASSUME NEW i \in DOMAIN active', ~active'[i].robbed
      PROVE  LET e == active'[i].esp IN Flow(active'[i], accepted[e], wire[e], acked[e])
  <2> DEFINE old == active[m[i]]
             new == active'[i]
  <2>1. m[i] \in DOMAIN active /\ new.esp = old.esp
    BY <1>1, <1>2 DEF Shrinks
  <2>2. ~old.robbed /\ new.fifo = old.fifo /\ new.busy = old.busy
    BY <1>1, <1>2, <1>3 DEF Spared
  <2>3. Flow(old, accepted[old.esp], wire[old.esp], acked[old.esp])
    BY <2>1, <2>2 DEF FInv, Flows
  <2> HIDE DEF old, new
  <2>4. Flow(new, accepted[new.esp], wire[new.esp], acked[new.esp])
    BY <2>1, <2>2, <2>3 DEF Flow
  <2> QED  BY <2>4 DEF new
<1>4. Flows'
  BY <1>3 DEF Flows, hist
<1>5. UnusedSilent'
  BY DEF FInv, UnusedSilent, SilentBefore, hist
<1> QED  BY <1>4, <1>5

LEMMA RegisterFlows ==
    ASSUME FInv, UNCHANGED hist, SilentBefore, NEW e \in Esp, NEW c, NEW context,
           esp[e].st \in {"NONE", "CONNECTING"}, Register(c, e, context)
    PROVE  Flows' /\ UnusedSilent'
PROOF
<1> DEFINE new == [esp |-> e, busy |-> FALSE, fifo |-> <<>>, robbed |-> FALSE]
<1>1. CASE active' = active
  BY <1>1, QuietStepFlows
<1>2. CASE active' = Append(active, new)
  <2>1. active \in Seq(Entry)
    BY DEF FInv, LInv, IInv, TypeOK
  <2>2. ASSUME NEW i \in DOMAIN active'
        PROVE  (i \in DOMAIN active /\ active'[i] = active[i]) \/ active'[i] = new
    BY <1>2, <2>1
  <2>3. accepted[e] = <<>> /\ wire[e] = <<>> /\ acked[e] = 0
    BY DEF FInv, UnusedSilent
  <2>4. Flow(new, accepted[e], wire[e], acked[e])
    BY <2>3 DEF Flow
  <2>5. new.esp = e
    OBVIOUS
  <2> HIDE DEF new
  <2>6. ASSUME NEW i \in DOMAIN active'
        PROVE  LET f == active'[i].esp
               IN  active'[i].robbed \/ Flow(active'[i], accepted'[f], wire'[f], acked'[f])
    <3>1. UNCHANGED <<accepted, wire, acked>>
      BY DEF hist
    <3>2. CASE i \in DOMAIN active /\ active'[i] = active[i]
      BY <3>1, <3>2 DEF FInv, Flows
    <3>3. CASE active'[i] = new
      BY <2>4, <2>5, <3>1, <3>3
    <3> QED  BY <2>2, <3>2, <3>3
  <2>7. UnusedSilent'
    BY DEF FInv, UnusedSilent, SilentBefore, hist
  <2> QED  BY <2>6, <2>7 DEF Flows
<1> QED  BY <1>1, <1>2 DEF Register

(* What becomes of an entry and of the data of its connection; nothing     *)
(* else changes.                                                           *)
EntryBecomes(i, entry, e, acc, w, n) ==
    /\ DOMAIN active' = DOMAIN active
    /\ active'[i] = entry /\ entry.esp = e /\ entry.robbed = active[i].robbed
    /\ \A j \in DOMAIN active : j # i => active'[j] = active[j]
    /\ \A f \in Esp \ {e} : /\ accepted'[f] = accepted[f] /\ wire'[f] = wire[f]
                             /\ acked'[f] = acked[f]
    /\ accepted'[e] = acc /\ wire'[e] = w /\ acked'[e] = n

LEMMA EntryStepFlows ==
    ASSUME FInv, UNCHANGED esp, NEW i \in DOMAIN active,
           NEW entry, NEW acc, NEW w, NEW n,
           EntryBecomes(i, entry, active[i].esp, acc, w, n),
           active[i].robbed \/ Flow(entry, acc, w, n)
    PROVE  Flows' /\ UnusedSilent'
PROOF
<1>1. TypeOK /\ Linked /\ OneEntry(active)
  BY DEF FInv, LInv, IInv, Streams, Queues
<1>2. active[i].esp \in Alive
  BY <1>1 DEF Linked, ListedAlive
<1>3. ASSUME NEW j \in DOMAIN active, j # i
      PROVE  LET e == active'[j].esp
             IN  active'[j].robbed \/ Flow(active'[j], accepted'[e], wire'[e], acked'[e])
  <2>1. active'[j] = active[j] /\ active[j].esp # active[i].esp /\ active[j].esp \in Esp
    BY <1>1, <1>3, FlowTypes DEF EntryBecomes, OneEntry
  <2> QED  BY <1>3, <2>1 DEF FInv, Flows, EntryBecomes
<1>4. Flows'
  BY <1>3 DEF Flows, EntryBecomes
<1>5. UnusedSilent'
  BY <1>2 DEF FInv, UnusedSilent, EntryBecomes, Alive
<1> QED  BY <1>4, <1>5

LEMMA SendFlows ==
    ASSUME FInv, NEW c \in Ctx, my_send_data(c)
    PROVE  Flows' /\ UnusedSilent'
PROOF
<1> DEFINE d == Datum(c)
           e == ctx[c].sendArg
           i == SendEntry(c)
<1>1. TypeOK /\ Linked /\ LInv
  BY DEF FInv, LInv, IInv
<1>2. /\ d \in Data /\ d.of = e /\ e \in Esp
      /\ UNCHANGED <<ctx, esp, acked>>
  BY <1>1, SendDataCases DEF Datum
<1>3. esp[e].reverse = c /\ esp[e].st \notin {"NONE", "CONNECTING"}
  BY <1>1, <1>2, NullAssumption DEF Linked, SendArgUsed
<1>4. accepted \in [Esp -> Seq(Data)] /\ wire \in [Esp -> Seq(Data)] /\ acked \in [Esp -> Nat]
  BY <1>1 DEF TypeOK
<1>5. \/ /\ Matching(esp[e].reverse) = {}
         /\ accepted' = [accepted EXCEPT ![e] = Append(@, d)]
         /\ UNCHANGED <<active, wire>>
      \/ /\ i \in DOMAIN active /\ active[i].esp = e
         /\ \/ active[i].busy /\ Queue(i, d, TRUE) /\ UNCHANGED wire
            \/ ~active[i].busy /\ \E r \in SendResults(active[i].esp) : SendNow(i, d, r)
  <2>1. \/ /\ Matching(esp[d.of].reverse) = {}
           /\ accepted' = [accepted EXCEPT ![d.of] = Append(@, d)]
           /\ UNCHANGED <<active, wire>>
        \/ /\ Matching(esp[d.of].reverse) # {} /\ i \in 1..Len(active)
           /\ \/ active[i].busy /\ Queue(i, d, TRUE) /\ UNCHANGED wire
              \/ ~active[i].busy /\ \E r \in SendResults(active[i].esp) : SendNow(i, d, r)
    BY <1>1, SendDataCases
  <2>2. Matching(c) # {} => i \in DOMAIN active /\ active[i].esp = e
    BY <1>1, <1>3, FoundEntry DEF SendEntry
  <2> HIDE DEF d, e, i
  <2> QED  BY <1>2, <1>3, <2>1, <2>2
<1> HIDE DEF d, e, i
<1>6. CASE /\ Matching(esp[e].reverse) = {}
           /\ accepted' = [accepted EXCEPT ![e] = Append(@, d)]
           /\ UNCHANGED <<active, wire>>
  <2>1. \A j \in DOMAIN active : active[j].esp # e /\ active[j].esp \in Esp
    BY <1>1, <1>6, FlowTypes DEF Matching
  <2>2. \A f \in Esp : f # e => accepted'[f] = accepted[f]
    BY <1>4, <1>6
  <2> QED  BY <1>2, <1>3, <1>6, <2>1, <2>2 DEF FInv, Flows, UnusedSilent
<1>7. ASSUME i \in DOMAIN active, active[i].esp = e, NEW b \in BOOLEAN, Queue(i, d, b),
             \/ UNCHANGED wire /\ b = active[i].busy
             \/ /\ ~active[i].busy /\ b
                /\ wire' = [wire EXCEPT ![e] = Append(@, Head(Append(active[i].fifo, d)))]
      PROVE  Flows' /\ UnusedSilent'
  <2> DEFINE q == Append(active[i].fifo, d)
             entry == [active[i] EXCEPT !.fifo = q, !.busy = b]
             acc == Append(accepted[e], d)
  <2>1. /\ active \in Seq(Entry) /\ active[i] \in Entry
        /\ active[i].esp = e /\ active[i].fifo \in Seq(Data)
    BY <1>1, <1>7, FlowTypes
  <2>2. q \in Seq(Data) /\ q # <<>>
    BY <1>2, <2>1
  <2>3. /\ entry \in Entry /\ entry.esp = e /\ entry.fifo = q /\ entry.busy = b
        /\ entry.robbed = active[i].robbed
    BY <2>1, <2>2 DEF Entry
  <2>4. DOMAIN active' = DOMAIN active /\ active'[i] = entry
        /\ \A j \in DOMAIN active : j # i => active'[j] = active[j]
    BY <1>7, <2>1 DEF Queue
  <2>5. accepted' = [accepted EXCEPT ![e] = acc]
    BY <1>2, <1>7 DEF Queue
  <2>6. accepted'[e] = acc /\ \A f \in Esp \ {e} : accepted'[f] = accepted[f]
    BY <1>2, <1>4, <2>5
  <2>7. active[i].robbed \/ Flow(active[i], accepted[e], wire[e], acked[e])
    BY <1>7, <2>1 DEF FInv, Flows
  <2>8. /\ accepted[e] \in Seq(Data) /\ wire[e] \in Seq(Data) /\ acked[e] \in Nat
    BY <1>2, <1>4
  <2>9. CASE UNCHANGED wire /\ b = active[i].busy
    <3>1. active[i].robbed \/ Flow(entry, acc, wire[e], acked[e])
      <4> HIDE DEF entry
      <4> QED  BY <1>2, <2>1, <2>3, <2>7, <2>8, <2>9, FlowQueued
    <3>2. EntryBecomes(i, entry, e, acc, wire[e], acked[e])
      <4> HIDE DEF entry, acc
      <4> QED  BY <1>2, <2>3, <2>4, <2>6, <2>9 DEF EntryBecomes
    <3> HIDE DEF entry, acc
    <3> QED  BY <1>2, <1>7, <2>1, <3>1, <3>2, EntryStepFlows
  <2>10. CASE /\ ~active[i].busy /\ b
              /\ wire' = [wire EXCEPT ![e] = Append(@, Head(q))]
    <3> DEFINE idle == [active[i] EXCEPT !.fifo = q]
               h == Head(q)
               w == Append(wire[e], h)
    <3>1. /\ idle \in Entry /\ idle.esp = e /\ idle.fifo = q /\ ~idle.busy
          /\ idle.busy = active[i].busy
      BY <2>1, <2>2, <2>10 DEF Entry
    <3>2. active[i].robbed \/ Flow(idle, acc, wire[e], acked[e])
      <4> HIDE DEF idle
      <4> QED  BY <1>2, <2>1, <2>7, <2>8, <3>1, FlowQueued
    <3>3. active[i].robbed \/ Len(wire[e]) = acked[e]
      BY <2>7, <2>10 DEF Flow
    <3>4. h \in Data
      BY <2>2
    <3>5. active[i].robbed \/ Flow(entry, acc, w, acked[e])
      <4> HIDE DEF idle, entry, acc, h, q
      <4> SUFFICES h = Head(q)
        BY <2>2, <2>3, <2>8, <2>10, <3>1, <3>2, <3>3, <3>4, FlowGiven
      <4> QED  BY DEF h
    <3>6. wire'[e] = w /\ \A f \in Esp \ {e} : wire'[f] = wire[f]
      <4> HIDE DEF h
      <4>1. wire' = [wire EXCEPT ![e] = Append(wire[e], h)]
        BY <2>10 DEF h
      <4> QED  BY <1>2, <1>4, <4>1
    <3>7. EntryBecomes(i, entry, e, acc, w, acked[e])
      <4> HIDE DEF entry, acc, w
      <4> QED  BY <1>2, <2>3, <2>4, <2>6, <3>6 DEF EntryBecomes
    <3> HIDE DEF entry, acc, w
    <3> QED  BY <1>2, <1>7, <2>1, <3>5, <3>7, EntryStepFlows
  <2> QED  BY <1>7, <2>9, <2>10
<1>8. CASE i \in DOMAIN active /\ active[i].esp = e /\ active[i].busy /\ Queue(i, d, TRUE) /\ UNCHANGED wire
  BY <1>7, <1>8
<1>9. CASE /\ i \in DOMAIN active /\ active[i].esp = e /\ ~active[i].busy
           /\ \E r \in SendResults(active[i].esp) : SendNow(i, d, r)
  <2>1. active[i].esp = e /\ active[i].busy \in BOOLEAN
    BY <1>1, <1>9, FlowTypes
  <2>2. CASE UNCHANGED <<active, accepted, wire>>
    <3>1. UNCHANGED hist /\ SilentBefore
      BY <1>2, <2>2 DEF hist, SilentBefore
    <3> QED  BY <2>2, <3>1, QuietStepFlows
  <2>3. CASE Queue(i, d, FALSE) /\ UNCHANGED wire
    BY <1>7, <1>9, <2>1, <2>3
  <2>4. CASE /\ Queue(i, d, TRUE)
             /\ wire' = [wire EXCEPT ![active[i].esp] = Append(@, Head(Append(active[i].fifo, d)))]
    BY <1>7, <1>9, <2>1, <2>4
  <2> QED  BY <1>9, <2>2, <2>3, <2>4 DEF SendNow
<1> QED  BY <1>5, <1>6, <1>8, <1>9

LEMMA SentFlows ==
    ASSUME FInv, NEW e \in Esp, user_tcp_sent_cb(e)
    PROVE  Flows' /\ UnusedSilent'
PROOF
<1> DEFINE i == FirstMatching(esp[e].reverse)
<1>1. TypeOK /\ Linked /\ LInv
  BY DEF FInv, LInv, IInv
<1>2. /\ UNCHANGED <<ctx, esp, evq, accepted>>
      /\ acked' = [acked EXCEPT ![e] = @ + 1]
      /\ acked[e] < Len(wire[e]) /\ e \in Alive
  BY <1>1, SentCases DEF user_tcp_sent_cb, Alive
<1>3. accepted \in [Esp -> Seq(Data)] /\ wire \in [Esp -> Seq(Data)] /\ acked \in [Esp -> Nat]
  BY <1>1 DEF TypeOK
<1>4. acked'[e] = acked[e] + 1 /\ \A f \in Esp \ {e} : acked'[f] = acked[f]
  BY <1>2, <1>3
<1>5. esp[e].reverse # NoCtx => esp[e].reverse \in Ctx /\ ctx[esp[e].reverse].sendArg = e
  BY <1>1, <1>2 DEF Linked, AliveLinked, TypeOK, Espconn
<1>6. CASE ~Busy(esp[e].reverse) /\ UNCHANGED <<active, wire>>
  <2>1. ASSUME NEW j \in DOMAIN active, active[j].esp = e PROVE active[j].robbed
    <3>1. esp[e].reverse # NoCtx
      BY <1>1, <2>1 DEF Linked, ListedAlive
    <3>2. j \in Matching(esp[e].reverse)
      BY <2>1 DEF Matching
    <3>3. i \in DOMAIN active /\ active[i].esp = e
      <4>1. Matching(esp[e].reverse) # {}
        BY <3>2
      <4> QED  BY <1>1, <1>5, <3>1, <4>1, FoundEntry
    <3>4. i = j
      <4> HIDE DEF i
      <4> QED  BY <2>1, <3>3 DEF FInv, LInv, IInv, Streams, Queues, OneEntry
    <3>5. ~active[j].busy
      BY <1>6, <3>2, <3>4 DEF Busy
    <3>6. active[j].robbed \/ Len(wire[e]) = acked[e]
      BY <2>1, <3>5 DEF FInv, Flows, Flow
    <3> QED  BY <1>2, <1>3, <3>6
  <2>2. \A j \in DOMAIN active : active[j].robbed \/ active[j].esp \in Esp \ {e}
    BY <1>1, <2>1, FlowTypes
  <2>3. Flows'
    BY <1>2, <1>4, <1>6, <2>2 DEF FInv, Flows
  <2>4. UnusedSilent'
    BY <1>2, <1>4, <1>6 DEF FInv, UnusedSilent, Alive
  <2> QED  BY <2>3, <2>4
<1>7. ASSUME Busy(esp[e].reverse), NEW entry, NEW w, i \in DOMAIN active,
             DOMAIN active' = DOMAIN active, active'[i] = entry, entry.esp = active[i].esp,
             entry.robbed = active[i].robbed,
             \A j \in DOMAIN active : j # i => active'[j] = active[j],
             wire'[e] = w, \A f \in Esp \ {e} : wire'[f] = wire[f],
             active[i].esp = e,
             active[i].robbed \/ Flow(entry, accepted[e], w, acked[e] + 1)
      PROVE  Flows' /\ UnusedSilent'
  <2>1. EntryBecomes(i, entry, e, accepted[e], w, acked[e] + 1)
    <3> HIDE DEF i
    <3> QED  BY <1>2, <1>4, <1>7 DEF EntryBecomes
  <2> HIDE DEF i
  <2> QED  BY <1>2, <1>7, <2>1, EntryStepFlows
<1>8. ASSUME Busy(esp[e].reverse), i \in 1..Len(active), active[i].busy
      PROVE  /\ i \in DOMAIN active /\ active[i] \in Entry /\ active \in Seq(Entry)
             /\ active[i].esp = e /\ active[i].fifo \in Seq(Data)
             /\ \/ active[i].robbed
                \/ /\ active[i].fifo # <<>>
                   /\ Flow(active[i], accepted[e], wire[e], acked[e])
  <2>1. i \in DOMAIN active /\ active[i] \in Entry /\ active \in Seq(Entry)
        /\ active[i].fifo \in Seq(Data)
    BY <1>1, <1>8, FlowTypes
  <2>2. Matching(NoCtx) = {}
    BY <1>1 DEF Linked, ListedAlive, Matching
  <2>3. esp[e].reverse # NoCtx
    BY <1>8, <2>2 DEF Busy
  <2>4. active[i].esp = e
    BY <1>1, <1>5, <1>8, <2>3, FoundEntry DEF Busy
  <2>5. active[i].robbed \/ Flow(active[i], accepted[e], wire[e], acked[e])
    BY <2>1, <2>4 DEF FInv, Flows
  <2>6. active[i].robbed \/ active[i].fifo # <<>>
    BY <1>8, <2>1, <2>5 DEF Flow
  <2> HIDE DEF i
  <2> QED  BY <2>1, <2>4, <2>5, <2>6
<1>9. ASSUME NEW entry \in Entry, Busy(esp[e].reverse), i \in 1..Len(active), active[i].busy,
             entry.fifo = Rest(i), entry.busy <=> entry.fifo # <<>>, ~active[i].robbed
      PROVE  Flow(entry, accepted[e], wire[e], acked[e] + 1) /\ Len(wire[e]) = acked[e] + 1
  <2>1. entry.fifo = Tail(active[i].fifo)
    BY <1>8, <1>9 DEF Rest
  <2>2. /\ accepted[e] \in Seq(Data) /\ wire[e] \in Seq(Data) /\ acked[e] \in Nat
    BY <1>3
  <2>3. Flow(active[i], accepted[e], wire[e], acked[e]) /\ active[i] \in Entry
    BY <1>8, <1>9
  <2> DEFINE en == active[i]
             n == acked[e]
             w == wire[e]
  <2>4. n < Len(w) /\ en.busy /\ Flow(en, accepted[e], w, n) /\ en \in Entry
    BY <1>2, <1>9, <2>3
  <2> HIDE DEF i, en, n, w
  <2>5. n \in Nat /\ w \in Seq(Data) /\ entry.fifo = Tail(en.fifo)
    BY <2>1, <2>2 DEF en, n, w
  <2>6. Flow(entry, accepted[e], w, n + 1) /\ Len(w) = n + 1
    BY <1>9, <2>2, <2>4, <2>5, FlowConfirmed
  <2> QED  BY <2>6 DEF n, w
<1>10. CASE /\ Busy(esp[e].reverse) /\ i \in 1..Len(active) /\ active[i].busy
            /\ Rest(i) = <<>>
            /\ active' = [active EXCEPT ![i].fifo = <<>>, ![i].busy = FALSE]
            /\ UNCHANGED wire
  <2> DEFINE entry == [active[i] EXCEPT !.fifo = <<>>, !.busy = FALSE]
  <2>1. /\ i \in DOMAIN active /\ active[i] \in Entry /\ active \in Seq(Entry)
        /\ active[i].esp = e
    BY <1>8, <1>10
  <2> HIDE DEF i
  <2>2. <<>> \in Seq(Data)
    OBVIOUS
  <2>3. entry \in Entry /\ entry.esp = active[i].esp /\ entry.fifo = <<>> /\ ~entry.busy
        /\ entry.robbed = active[i].robbed
    BY <2>1, <2>2 DEF Entry
  <2>4. DOMAIN active' = DOMAIN active /\ active'[i] = entry
        /\ \A j \in DOMAIN active : j # i => active'[j] = active[j]
    BY <1>10, <2>1
  <2> HIDE DEF entry
  <2>5. active[i].robbed \/ Flow(entry, accepted[e], wire[e], acked[e] + 1)
    BY <1>9, <1>10, <2>3 DEF i
  <2> QED  BY <1>7, <1>10, <2>1, <2>3, <2>4, <2>5 DEF i
<1>11. ASSUME Busy(esp[e].reverse), i \in 1..Len(active), active[i].busy,
              Rest(i) # <<>>, Rest(i) \in Seq(Data), NEW r, Continue(i, Rest(i), r)
       PROVE  Flows' /\ UnusedSilent'
  <2> DEFINE entry == [active[i] EXCEPT !.fifo = Rest(i)]
  <2>1. /\ i \in DOMAIN active /\ active[i] \in Entry /\ active \in Seq(Entry)
        /\ active[i].esp = e
    BY <1>8, <1>11
  <2> HIDE DEF i
  <2>2. entry \in Entry /\ entry.esp = active[i].esp /\ entry.fifo = Rest(i)
        /\ entry.busy = active[i].busy /\ entry.robbed = active[i].robbed
    BY <1>11, <2>1 DEF Entry
  <2>3. DOMAIN active' = DOMAIN active /\ active'[i] = entry
        /\ \A j \in DOMAIN active : j # i => active'[j] = active[j]
    BY <1>11, <2>1 DEF Continue
  <2>4. \/ active[i].robbed
        \/ Flow(entry, accepted[e], wire[e], acked[e] + 1) /\ Len(wire[e]) = acked[e] + 1
    <3> HIDE DEF entry
    <3> QED  BY <1>9, <1>11, <2>2 DEF i
  <2>5. CASE wire' = wire
    <3> HIDE DEF entry
    <3> QED  BY <1>7, <1>11, <2>1, <2>2, <2>3, <2>4, <2>5 DEF i
  <2>6. CASE wire' = [wire EXCEPT ![active[i].esp] = Append(@, Head(Rest(i)))]
    <3> DEFINE h == Head(Rest(i))
               w == Append(wire[e], h)
    <3>1. h \in Data
      BY <1>11
    <3>2. wire' = [wire EXCEPT ![e] = w]
      BY <2>1, <2>6
    <3>3. wire'[e] = w /\ \A f \in Esp \ {e} : wire'[f] = wire[f]
      <4> HIDE DEF w
      <4> QED  BY <1>3, <3>2
    <3>4. active[i].robbed \/ Flow(entry, accepted[e], w, acked[e] + 1)
      <4> SUFFICES ASSUME ~active[i].robbed PROVE Flow(entry, accepted[e], w, acked[e] + 1)
        OBVIOUS
      <4>1. wire[e] \in Seq(Data) /\ acked[e] + 1 \in Nat
        BY <1>3
      <4>2. h = Head(entry.fifo) /\ entry.fifo # <<>>
        BY <1>11, <2>2
      <4> DEFINE n == acked[e] + 1
      <4> HIDE DEF h, entry, n
      <4>3. n \in Nat /\ Len(wire[e]) = n /\ Flow(entry, accepted[e], wire[e], n)
        BY <2>4, <4>1 DEF n
      <4>4. Flow(entry, accepted[e], Append(wire[e], h), n)
        BY <1>11, <2>2, <3>1, <4>1, <4>2, <4>3, FlowGiven
      <4> QED  BY <4>4 DEF n
    <3> HIDE DEF entry, w
    <3> QED  BY <1>7, <1>11, <2>1, <2>2, <2>3, <3>3, <3>4 DEF i
  <2> QED  BY <1>11, <2>5, <2>6 DEF Continue
<1>12. \/ ~Busy(esp[e].reverse) /\ UNCHANGED <<active, wire>>
       \/ /\ Busy(esp[e].reverse)
          /\ i \in 1..Len(active) /\ active[i].busy
          /\ Rest(i) \in Seq(Data)
          /\ \/ /\ Rest(i) = <<>>
                /\ active' = [active EXCEPT ![i].fifo = <<>>, ![i].busy = FALSE]
                /\ UNCHANGED wire
             \/ /\ Rest(i) # <<>>
                /\ \E r \in SendResults(active[i].esp) : Continue(i, Rest(i), r)
  BY <1>1, SentCases
<1> HIDE DEF i
<1> QED  BY <1>6, <1>10, <1>11, <1>12

(* The other actions.                                                      *)
LEMMA CallbackFlows ==
    ASSUME FInv, NEW e \in Esp, Callback(e)
    PROVE  Flows' /\ UnusedSilent'
PROOF
<1>1. TypeOK /\ Linked
  BY DEF FInv, LInv, IInv
<1>2. CASE user_tcp_connect_cb(e)
  <2>1. UNCHANGED hist /\ SilentBefore /\ esp[e].st = "CONNECTING"
    BY <1>1, <1>2 DEF user_tcp_connect_cb, SilentBefore, TypeOK, Espconn
  <2> QED  BY <1>2, <2>1, RegisterFlows DEF user_tcp_connect_cb
<1>3. CASE user_tcp_server_connect_cb(e)
  <2>1. UNCHANGED hist /\ SilentBefore /\ esp[e].st = "NONE"
    BY <1>1, <1>3 DEF user_tcp_server_connect_cb, SilentBefore, TypeOK, Espconn
  <2> QED  BY <1>3, <2>1, RegisterFlows, QuietStepFlows DEF user_tcp_server_connect_cb
<1>4. CASE user_tcp_recv_cb(e)
  <2>1. UNCHANGED <<active, hist>> /\ SilentBefore
    BY <1>1, <1>4 DEF user_tcp_recv_cb, SilentBefore, TypeOK, Espconn
  <2> QED  BY <2>1, QuietStepFlows
<1>5. CASE user_tcp_discon_cb(e) \/ user_tcp_recon_cb(e)
  <2>1. PICK st \in {"GONE", "ERROR"} : esp' = [esp EXCEPT ![e].st = st]
    BY <1>5 DEF user_tcp_discon_cb, user_tcp_recon_cb
  <2>2. UNCHANGED hist /\ SilentBefore
    BY <1>1, <1>5, <2>1 DEF user_tcp_discon_cb, user_tcp_recon_cb, SilentBefore, TypeOK, Espconn
  <2>3. esp[e].reverse \in Ctx \cup {NoCtx} /\ Identified(e) \subseteq Ctx
    BY <1>1 DEF TypeOK, Espconn, Identified
  <2>4. UNCHANGED active \/ \E c \in Ctx : Discard(c)
    BY <1>5, <2>3 DEF user_tcp_discon_cb, user_tcp_recon_cb
  <2> QED  BY <2>2, <2>4, DiscardFlows, QuietStepFlows
<1> QED  BY <1>2, <1>3, <1>4, <1>5, SentFlows DEF Callback

LEMMA CloseFlows ==
    ASSUME FInv, NEW c \in Ctx, wish_close_connection(c), UNCHANGED hist
    PROVE  Flows' /\ UnusedSilent'
PROOF
<1>1. TypeOK /\ ctx[c].sendArg \in Esp \cup {NoEsp}
  BY DEF FInv, LInv, IInv, TypeOK, Context
<1>2. SilentBefore
  <2>1. esp' = esp \/ esp' = Disconnect(ctx[c].sendArg)
    BY DEF wish_close_connection
  <2> QED  BY <1>1, <2>1, DisconnectKeepsHolds DEF SilentBefore
<1>3. UNCHANGED active \/ Discard(c)
  BY DEF wish_close_connection
<1> QED  BY <1>2, <1>3, DiscardFlows, QuietStepFlows

LEMMA CoreCallFlows ==
    ASSUME FInv, NEW c \in Ctx, CoreCall(c) \/ CloseTimesOut(c)
    PROVE  Flows' /\ UnusedSilent'
PROOF
<1>1. TypeOK
  BY DEF FInv, LInv, IInv
<1>2. ASSUME NEW e \in Esp, wish_open_connection(c, e) PROVE Flows' /\ UnusedSilent'
  <2>1. UNCHANGED <<active, hist>> /\ SilentBefore
    BY <1>1, <1>2 DEF wish_open_connection, SilentBefore, TypeOK
  <2> QED  BY <2>1, QuietStepFlows
<1>3. CASE CoreCloses(c)
  BY <1>3, CloseFlows DEF CoreCloses
<1>4. CASE CloseTimesOut(c)
  <2>1. UNCHANGED <<active, hist>> /\ SilentBefore
    BY <1>4 DEF CloseTimesOut, SilentBefore
  <2> QED  BY <2>1, QuietStepFlows
<1> QED  BY <1>2, <1>3, <1>4, SendFlows DEF CoreCall

LEMMA MessageProcessorFlows ==
    ASSUME FInv, MessageProcessor
    PROVE  Flows' /\ UnusedSilent'
PROOF
<1> DEFINE ev == Head(evq)
<1>1. TypeOK /\ Linked
  BY DEF FInv, LInv, IInv
<1>2. evq # <<>> /\ UNCHANGED hist
  BY DEF MessageProcessor, ProcessClosing, ProcessAbort, ProcessNewData, Take
<1>3. ev.ctx \in Ctx \cup {NoCtx} /\ ev.metadata \in Esp \cup {NoEsp}
  BY <1>1, <1>2, EventType DEF Event
<1> HIDE DEF ev
<1>4. CASE ProcessClosing /\ ev.ctx # NoCtx
  BY <1>2, <1>3, <1>4, CloseFlows DEF ProcessClosing, ev
<1>5. CASE ProcessClosing /\ ev.ctx = NoCtx
  <2>1. UNCHANGED active /\ esp' = Disconnect(ev.metadata)
    BY <1>5 DEF ProcessClosing, ev
  <2>2. SilentBefore
    BY <1>1, <1>3, <2>1, DisconnectKeepsHolds DEF SilentBefore
  <2> QED  BY <1>2, <2>1, <2>2, QuietStepFlows
<1>6. CASE ProcessAbort
  <2>1. UNCHANGED active /\ SilentBefore
    BY <1>1, <1>3, <1>6 DEF ProcessAbort, SilentBefore, TypeOK, Espconn, ev
  <2> QED  BY <1>2, <2>1, QuietStepFlows
<1>7. CASE ProcessNewData
  <2>1. UNCHANGED active /\ SilentBefore
    BY <1>1, <1>7 DEF ProcessNewData, SilentBefore, TypeOK, Espconn
  <2> QED  BY <1>2, <2>1, QuietStepFlows
<1> QED  BY <1>4, <1>5, <1>6, <1>7 DEF MessageProcessor

(* However connections come up, fail and are closed, for any number of     *)
(* contexts, with a full event queue, without memory for an entry, and     *)
(* whatever espconn_send answers and when the sent callbacks come: what    *)
(* was accepted for the connection of an entry is what the SDK confirmed   *)
(* followed by the FIFO, nothing missing, doubled or out of order.  It is  *)
(* otherwise for one reason only, an entry whose FIFO cleanup_active_conn  *)
(* has freed while it stood at the head of the list and another connection *)
(* ended (user_tcp.c:213-214).                                             *)
THEOREM StreamStaysIntact ==
    ASSUME Faults \cap {"late_stack", "early_close", "stale_event"} = {}
    PROVE  Spec => []StreamIntact
PROOF
<1>1. Punctual
  BY DEF Punctual
<1>2. Init => FInv
  <2>1. Init => Flows /\ UnusedSilent
    BY DEF Init, Flows, UnusedSilent
  <2> QED  BY <2>1, InitLinks DEF FInv
<1>3. FInv /\ [Next]_vars => FInv'
  <2> SUFFICES ASSUME FInv, [Next]_vars PROVE FInv'
    OBVIOUS
  <2>1. LInv'
    BY <1>1, NextKeepsLinks DEF FInv
  <2>2. Flows' /\ UnusedSilent'
    <3>1. CASE UNCHANGED vars
      BY <3>1, QuietStepFlows DEF vars, hist, SilentBefore
    <3> QED
      BY <1>1, <3>1, CallbackFlows, CoreCallFlows, MessageProcessorFlows DEF Next
  <2> QED  BY <2>1, <2>2 DEF FInv
<1>4. FInv => StreamIntact
  <2> SUFFICES ASSUME FInv, NEW i \in DOMAIN active, ~active[i].robbed
               PROVE  LET e == active[i].esp
                      IN  accepted[e] = SubSeq(wire[e], 1, acked[e]) \o active[i].fifo
    BY DEF StreamIntact
  <2> DEFINE e == active[i].esp
  <2>1. TypeOK /\ Flow(active[i], accepted[e], wire[e], acked[e])
    BY DEF FInv, LInv, IInv, Flows
  <2> QED  BY <2>1, FlowTypes, FlowIsStream
<1> QED  BY <1>2, <1>3, <1>4, PTL DEF Spec

=============================================================================
