------------------------------ MODULE TcpConn ------------------------------
(***************************************************************************)
(* port/esp8266/user_tcp.c and user_task.c: the TCP connections of the     *)
(* Wish core on top of the SDK's espconn API.                              *)
(*                                                                         *)
(* Three kinds of state refer to one connection: the core's context, the   *)
(* espconn of the SDK and an entry of the list of active connections with  *)
(* the FIFO of data to send.  They refer to each other through pointers:   *)
(* context.send_arg, espconn.reverse, entry.espconn.  Callbacks of the     *)
(* SDK, calls of the core and the message processor task change them, each *)
(* running to completion.                                                  *)
(*                                                                         *)
(* Outside src/ and modelled from how the code uses it: the SDK (what      *)
(* espconn_send returns, which callbacks come and when) and the core (when *)
(* it opens, closes and sends; TCP_DISCONNECTED frees the context).        *)
(***************************************************************************)
EXTENDS Naturals, SequencesExt

CONSTANTS
    Ctx,             \* the pool of Wish contexts (wish_connection_t)
    Esp,             \* bound: the espconns of a behaviour, each used once
    NoCtx, NoEsp,    \* NULL
    EventQueueLen,   \* TASK_EVENT_QUEUE_LEN
    MaxData,         \* bound: data items accepted for one espconn
    Faults           \* what the environment may do

(* late_stack: a disconnect callback may come more than 5 s after the      *)
(* request.  early_close: the core may close a context whose connection is *)
(* still being opened.  stale_event: a context may be reused while an      *)
(* event about its previous connection is queued.  full_queue: the event   *)
(* queue may overflow.  no_memory: os_malloc may fail.  send_full,         *)
(* send_error: espconn_send may return ESPCONN_MAXNUM, another error.      *)
FaultKinds == {"late_stack", "early_close", "stale_event", "full_queue",
               "no_memory", "send_full", "send_error"}

ASSUME FaultsAssumption == Faults \subseteq FaultKinds
ASSUME NullAssumption == NoCtx \notin Ctx /\ NoEsp \notin Esp
ASSUME BoundsAssumption == EventQueueLen \in Nat \ {0} /\ MaxData \in Nat

VARIABLES
    ctx,        \* context -> its state, send_arg, addresses, close timeout
    esp,        \* espconn -> its state, kind, reverse pointer, receive hold
    active,     \* active_conn_head: the list of entries
    evq,        \* the event queue of the message processor task
    crashed,    \* a NULL pointer was dereferenced: the chip resets
    accepted,   \* history: espconn -> data for which my_send_data returned 0
    wire,       \* history: espconn -> data given to espconn_send with success
    acked       \* history: espconn -> number of sent callbacks

hist == <<accepted, wire, acked>>
vars == <<ctx, esp, active, evq, crashed, accepted, wire, acked>>

(* The n-th datum the core sends on the connection of an espconn. *)
Data == [of : Esp, n : 1..MaxData]

(* robbed is history: the FIFO was emptied when another connection ended.  *)
Entry == [esp : Esp, busy : BOOLEAN, fifo : Seq(Data), robbed : BOOLEAN]

(* addr is the espconn whose addresses and ports the context has copied.   *)
(* metadata is what the receiver of the event sees; about, which no code   *)
(* reads, is the espconn the event was meant for.                          *)
Context == [st : {"FREE", "OPEN", "CLOSING"}, sendArg : Esp \cup {NoEsp},
            addr : Esp \cup {NoEsp}, overdue : BOOLEAN]
Espconn == [st : {"NONE", "CONNECTING", "UP", "DISCONNECTING", "ERROR", "GONE"},
            client : BOOLEAN, reverse : Ctx \cup {NoCtx}, hold : BOOLEAN]
Event == [type : {"CLOSING", "ABORT", "NEW_DATA"}, ctx : Ctx \cup {NoCtx},
          metadata : Esp \cup {NoEsp}, about : Esp \cup {NoEsp}]

FreeContext == [st |-> "FREE", sendArg |-> NoEsp, addr |-> NoEsp,
                overdue |-> FALSE]

TypeOK ==
    /\ ctx \in [Ctx -> Context]
    /\ esp \in [Esp -> Espconn]
    /\ active \in Seq(Entry)
    /\ evq \in Seq(Event) /\ Len(evq) <= EventQueueLen
    /\ crashed \in BOOLEAN
    /\ accepted \in [Esp -> Seq(Data)]
    /\ wire \in [Esp -> Seq(Data)]
    /\ acked \in [Esp -> Nat]

Init ==
    /\ ctx = [c \in Ctx |-> FreeContext]
    /\ esp = [e \in Esp |-> [st |-> "NONE", client |-> FALSE,
                             reverse |-> NoCtx, hold |-> FALSE]]
    /\ active = <<>>
    /\ evq = <<>>
    /\ crashed = FALSE
    /\ accepted = [e \in Esp |-> <<>>]
    /\ wire = [e \in Esp |-> <<>>]
    /\ acked = [e \in Esp |-> 0]

-----------------------------------------------------------------------------
(* wish_message_processor_notify: only the type and the context of an      *)
(* event are posted, and a post to a full queue is silently refused.       *)
NotifyUnbounded(type, c, meta, about) ==     \* mutant: no limit
    evq' = Append(evq, [type |-> type, ctx |-> c, metadata |-> NoEsp, about |-> about])

Notify(type, c, meta, about) ==
    /\ "full_queue" \in Faults \/ Len(evq) < EventQueueLen
    /\ evq' = IF Len(evq) < EventQueueLen
              THEN Append(evq, [type |-> type, ctx |-> c,
                                metadata |-> NoEsp, about |-> about])
              ELSE evq

(* The entries whose espconn has c as its reverse pointer; the code takes  *)
(* the first of them.                                                      *)
Matching(c) == {i \in DOMAIN active : esp[active[i].esp].reverse = c}
FirstMatching(c) == Min(Matching(c))
Busy(c) == Matching(c) # {} /\ active[FirstMatching(c)].busy

(* cleanup_active_conn: the data freed is that of the head of the list.    *)
Emptied(entry) == [entry EXCEPT !.fifo = <<>>, !.robbed = @ \/ entry.fifo # <<>>]

Cleanup(c) ==
    IF Matching(c) = {} THEN active
    ELSE RemoveAt([active EXCEPT ![1] = Emptied(@)], FirstMatching(c))

(* The core frees the context when it is told TCP_DISCONNECTED.  Its       *)
(* send_arg stays until the context is initialised again.                  *)
DiscardContextOnly(c) ==                     \* mutant: no cleanup_active_conn
    /\ active' = active
    /\ ctx' = [ctx EXCEPT ![c].st = "FREE", ![c].addr = NoEsp, ![c].overdue = FALSE]

Discard(c) ==
    /\ active' = Cleanup(c)
    /\ ctx' = [ctx EXCEPT ![c].st = "FREE", ![c].addr = NoEsp,
                          ![c].overdue = FALSE]

(* espconn_disconnect: refused, without effect, unless e is connected. *)
Disconnect(e) ==
    IF e # NoEsp /\ esp[e].st = "UP"
    THEN [esp EXCEPT ![e].st = "DISCONNECTING"] ELSE esp

(* wish_connection_init: a free context, cleared. *)
CanInit(c) ==
    /\ ctx[c].st = "FREE"
    /\ "stale_event" \in Faults \/ \A i \in DOMAIN evq : evq[i].ctx # c

(* wish_identify_context: the context with the addresses of e. *)
Identified(e) == {c \in Ctx : ctx[c].st # "FREE" /\ ctx[c].addr = e}

(* What espconn_send may return. *)
SendResults(e) ==
    IF esp[e].st \in {"UP", "DISCONNECTING"}
    THEN {"OK"} \cup (IF "send_full" \in Faults THEN {"MAXNUM"} ELSE {})
                \cup (IF "send_error" \in Faults THEN {"ERROR"} ELSE {})
    ELSE {"ERROR"}

-----------------------------------------------------------------------------
(* wish_open_connection, user_connect_tcp *)
wish_open_connection(c, e) ==
    /\ CanInit(c)
    /\ esp[e].st = "NONE"
    /\ ctx' = [ctx EXCEPT ![c] = [FreeContext EXCEPT !.st = "OPEN"]]
    /\ esp' = [esp EXCEPT ![e] = [st |-> "CONNECTING", client |-> TRUE,
                                  reverse |-> c, hold |-> FALSE]]
    /\ UNCHANGED <<active, evq, crashed, hist>>

(* The end of both connect callbacks: the context learns its espconn, and  *)
(* a list entry is appended if there is memory for it.                     *)
Register(c, e, context) ==
    /\ ctx' = [ctx EXCEPT ![c] = [context EXCEPT !.sendArg = e, !.addr = e]]
    /\ \/ active' = Append(active, [esp |-> e, busy |-> FALSE, fifo |-> <<>>,
                                    robbed |-> FALSE])
       \/ "no_memory" \in Faults /\ active' = active

user_tcp_connect_cb(e) ==
    /\ esp[e].st = "CONNECTING"
    /\ esp' = [esp EXCEPT ![e].st = "UP"]
    /\ Register(esp[e].reverse, e, ctx[esp[e].reverse])
    /\ UNCHANGED <<evq, crashed, hist>>

user_tcp_server_connect_cb(e) ==
    /\ esp[e].st = "NONE"
    /\ \/ \E c \in Ctx :
            /\ CanInit(c)
            /\ esp' = [esp EXCEPT ![e].st = "UP", ![e].reverse = c]
            /\ Register(c, e, [FreeContext EXCEPT !.st = "OPEN"])
            /\ UNCHANGED <<evq, crashed, hist>>
       \/ /\ \A c \in Ctx : ctx[c].st # "FREE"
          /\ esp' = [esp EXCEPT ![e].st = "UP"]
          /\ Notify("CLOSING", NoCtx, e, e)
          /\ UNCHANGED <<ctx, active, crashed, hist>>

-----------------------------------------------------------------------------
(* my_send_data found the i-th entry: datum d joins its FIFO.  The caller  *)
(* gets 0: from now on it counts on the datum being sent.                  *)
QueueIdle(i, d, busy) ==                     \* mutant: busy never set
    /\ active' = [active EXCEPT ![i].fifo = Append(@, d)]
    /\ accepted' = [accepted EXCEPT ![d.of] = Append(@, d)]
    /\ UNCHANGED evq

Queue(i, d, busy) ==
    /\ active' = [active EXCEPT ![i].fifo = Append(@, d), ![i].busy = busy]
    /\ accepted' = [accepted EXCEPT ![d.of] = Append(@, d)]
    /\ UNCHANGED evq

(* The entry is idle: the head of the FIFO, which is d unless an earlier   *)
(* espconn_send was refused, is given to the SDK at once.                  *)
SendNow(i, d, result) ==
    LET head == Head(Append(active[i].fifo, d))
    IN  \/ /\ result = "OK"
           /\ Queue(i, d, TRUE)
           /\ wire' = [wire EXCEPT ![active[i].esp] = Append(@, head)]
        \/ /\ result = "MAXNUM"
           /\ Queue(i, d, FALSE)
           /\ UNCHANGED wire
        \/ /\ result = "ERROR"
           /\ Notify("CLOSING", esp[d.of].reverse, NoEsp, d.of)
           /\ UNCHANGED <<active, accepted, wire>>

(* The core sends on an open context.  Without a matching entry the datum  *)
(* is leaked, and 0 returned all the same; when an os_malloc fails, -1 is  *)
(* returned and nothing else happens, which is a stuttering step here.     *)
my_send_data(c) ==
    LET e == ctx[c].sendArg
        d == [of |-> e, n |-> Len(accepted[e]) + 1]
        i == FirstMatching(esp[e].reverse)
    IN  /\ ctx[c].st = "OPEN" /\ e # NoEsp /\ Len(accepted[e]) < MaxData
        /\ \/ /\ Matching(esp[e].reverse) = {}
              /\ accepted' = [accepted EXCEPT ![e] = Append(@, d)]
              /\ UNCHANGED <<active, evq, wire>>
           \/ /\ Matching(esp[e].reverse) # {}
              /\ IF active[i].busy
                 THEN Queue(i, d, TRUE) /\ UNCHANGED wire
                 ELSE \E r \in SendResults(active[i].esp) : SendNow(i, d, r)
        /\ UNCHANGED <<ctx, esp, crashed, acked>>

(* sent_cb has removed the head of the FIFO of the i-th entry; rest is     *)
(* what remains.  An unrecoverable error deletes and frees a NULL element: *)
(* the chip resets instead of dropping the datum.                          *)
ContinueDropping(i, rest, result) ==         \* mutant: MAXNUM drops the datum
    /\ active' = [active EXCEPT ![i].fifo = IF result = "MAXNUM" THEN Tail(rest) ELSE rest]
    /\ crashed' = (result = "ERROR")
    /\ wire' = IF result = "OK"
               THEN [wire EXCEPT ![active[i].esp] = Append(@, Head(rest))] ELSE wire

Continue(i, rest, result) ==
    /\ active' = [active EXCEPT ![i].fifo = rest]
    /\ crashed' = (result = "ERROR")
    /\ wire' = IF result = "OK"
               THEN [wire EXCEPT ![active[i].esp] = Append(@, Head(rest))]
               ELSE wire

(* The SDK reports a datum of e as sent.  The code finds the entry by the  *)
(* context of e, and takes the head of its FIFO for the datum.             *)
user_tcp_sent_cb(e) ==
    LET i == FirstMatching(esp[e].reverse)
        rest == IF active[i].fifo = <<>> THEN <<>> ELSE Tail(active[i].fifo)
    IN  /\ esp[e].st \in {"UP", "DISCONNECTING"}
        /\ acked[e] < Len(wire[e])
        /\ acked' = [acked EXCEPT ![e] = @ + 1]
        /\ \/ /\ ~Busy(esp[e].reverse)
              /\ UNCHANGED <<active, wire, crashed>>
           \/ /\ Busy(esp[e].reverse)
              /\ IF rest = <<>>
                 THEN /\ active' = [active EXCEPT ![i].fifo = rest, ![i].busy = FALSE]
                      /\ UNCHANGED <<wire, crashed>>
                 ELSE \E r \in SendResults(active[i].esp) : Continue(i, rest, r)
        /\ UNCHANGED <<ctx, esp, evq, accepted>>

-----------------------------------------------------------------------------
(* Data arrives.  If it fits, it is fed to the core and the SDK is told to *)
(* hold further data back; if not, the connection is flagged for closure.  *)
user_tcp_recv_cb(e) ==
    /\ esp[e].st = "UP" /\ esp[e].reverse # NoCtx
    /\ \E c \in Identified(e) :
          \/ /\ Notify("CLOSING", c, NoEsp, e)
             /\ UNCHANGED esp
          \/ /\ Notify("NEW_DATA", c, NoEsp, e)
             /\ esp' = [esp EXCEPT ![e].hold = TRUE]
    /\ UNCHANGED <<ctx, active, crashed, hist>>

(* user_tcp_discon_cb, user_tcp_server_discon_cb: the connection is down,  *)
(* on request or by the peer.  The espconn is freed, by the callback for a *)
(* client and by the SDK for a server connection.  The callback of a       *)
(* client frees it before it reads reverse (lines 237-246); the model lets *)
(* it read what was there, which is what it finds while the freeing and    *)
(* the printing in between allocate nothing.                               *)
user_tcp_discon_cb(e) ==
    /\ esp[e].st \in {"UP", "DISCONNECTING"}
    /\ esp' = [esp EXCEPT ![e].st = "GONE"]
    /\ IF esp[e].reverse = NoCtx
       THEN UNCHANGED <<ctx, active>>
       ELSE Discard(esp[e].reverse)
    /\ UNCHANGED <<evq, crashed, hist>>

(* user_tcp_recon_cb, user_tcp_server_recon_cb: a connection attempt or a  *)
(* connection failed.  The espconn of a client is left to the message      *)
(* processor; the context is looked up by addresses, which a context still *)
(* being opened does not have.                                             *)
user_tcp_recon_cb(e) ==
    /\ esp[e].st \in {"CONNECTING", "UP", "DISCONNECTING"}
    /\ esp' = [esp EXCEPT ![e].st = IF esp[e].client THEN "ERROR" ELSE "GONE"]
    /\ Notify("ABORT", NoCtx, e, e)
    /\ IF Identified(e) = {}
       THEN UNCHANGED <<ctx, active>>
       ELSE \E c \in Identified(e) : Discard(c)
    /\ UNCHANGED <<crashed, hist>>

-----------------------------------------------------------------------------
(* wish_close_connection: ask the SDK to disconnect and wait for the       *)
(* callback; discard a context that has no espconn, or whose callback has  *)
(* not come for 5 seconds.                                                 *)
CloseRestartsTimeout(c) ==                   \* mutant: timestamp of the last call
    IF ctx[c].sendArg = NoEsp THEN Discard(c) /\ UNCHANGED esp
    ELSE /\ ctx' = [ctx EXCEPT ![c].st = "CLOSING", ![c].overdue = FALSE]
         /\ esp' = Disconnect(ctx[c].sendArg)
         /\ UNCHANGED active

wish_close_connection(c) ==
    \/ /\ ctx[c].st = "CLOSING" /\ ctx[c].overdue
       /\ Discard(c)
       /\ UNCHANGED esp
    \/ /\ ~(ctx[c].st = "CLOSING" /\ ctx[c].overdue)
       /\ ctx[c].sendArg # NoEsp
       /\ ctx' = [ctx EXCEPT ![c].st = "CLOSING"]
       /\ esp' = Disconnect(ctx[c].sendArg)
       /\ UNCHANGED active
    \/ /\ ~(ctx[c].st = "CLOSING" /\ ctx[c].overdue)
       /\ ctx[c].sendArg = NoEsp
       /\ Discard(c)
       /\ UNCHANGED esp

(* The core closes a connection: it has timed out, a user asked for it, or *)
(* it is closing already and this is the periodic retry.                   *)
CoreCloses(c) ==
    /\ ctx[c].st # "FREE"
    /\ \/ "early_close" \in Faults
       \/ \A e \in Esp : ~(esp[e].st = "CONNECTING" /\ esp[e].reverse = c)
    /\ wish_close_connection(c)
    /\ UNCHANGED <<evq, crashed, hist>>

(* 5 seconds pass after the close request. *)
CloseTimesOut(c) ==
    /\ ctx[c].st = "CLOSING" /\ ~ctx[c].overdue
    /\ \/ "late_stack" \in Faults
       \/ ctx[c].sendArg = NoEsp
       \/ esp[ctx[c].sendArg].st \notin {"UP", "DISCONNECTING"}
    /\ ctx' = [ctx EXCEPT ![c].overdue = TRUE]
    /\ UNCHANGED <<esp, active, evq, crashed, hist>>

-----------------------------------------------------------------------------
(* my_message_processor_task takes the first event of its queue. *)
Take(type) ==
    /\ evq # <<>> /\ Head(evq).type = type
    /\ evq' = Tail(evq)
    /\ UNCHANGED <<crashed, hist>>

(* A closing request names a context, which the core closes, or carries    *)
(* the espconn of a connection that was not accepted.                      *)
ProcessClosing ==
    /\ Take("CLOSING")
    /\ LET ev == Head(evq)
       IN  IF ev.ctx # NoCtx THEN wish_close_connection(ev.ctx)
           ELSE esp' = Disconnect(ev.metadata) /\ UNCHANGED <<ctx, active>>

(* An abort request carries the espconn to be freed. *)
ProcessAbort ==
    /\ Take("ABORT")
    /\ LET e == Head(evq).metadata
       IN  esp' = IF e = NoEsp THEN esp ELSE [esp EXCEPT ![e].st = "GONE"]
    /\ UNCHANGED <<ctx, active>>

(* The core consumes the data received; the SDK may deliver more. *)
ProcessWithoutUnhold ==                      \* mutant: no espconn_recv_unhold
    Take("NEW_DATA") /\ UNCHANGED <<ctx, esp, active>>

ProcessNewData ==
    /\ Take("NEW_DATA")
    /\ LET e == ctx[Head(evq).ctx].sendArg
       IN  esp' = IF e = NoEsp THEN esp ELSE [esp EXCEPT ![e].hold = FALSE]
    /\ UNCHANGED <<ctx, active>>

MessageProcessor == ProcessClosing \/ ProcessAbort \/ ProcessNewData

(* A callback of the SDK about espconn e. *)
Callback(e) ==
    \/ user_tcp_connect_cb(e)
    \/ user_tcp_server_connect_cb(e)
    \/ user_tcp_recv_cb(e)
    \/ user_tcp_sent_cb(e)
    \/ user_tcp_discon_cb(e)
    \/ user_tcp_recon_cb(e)

(* A call of the core about context c. *)
CoreCall(c) ==
    \/ \E e \in Esp : wish_open_connection(c, e)
    \/ my_send_data(c)
    \/ CoreCloses(c)

Next ==
    /\ ~crashed
    /\ \/ \E e \in Esp : Callback(e)
       \/ \E c \in Ctx : CoreCall(c) \/ CloseTimesOut(c)
       \/ MessageProcessor

Spec == Init /\ [][Next]_vars

(* ETS runs the message processor when it has an event, the core retries   *)
(* the closing of a context every second and time passes, the SDK answers  *)
(* a disconnect request (unless late_stack) and reports what it has sent.  *)
Retry(c) == ctx[c].st = "CLOSING" /\ CoreCloses(c)
Answer(e) == /\ "late_stack" \notin Faults
             /\ esp[e].st = "DISCONNECTING" /\ user_tcp_discon_cb(e)

Fairness ==
    /\ WF_vars(~crashed /\ MessageProcessor)
    /\ \A c \in Ctx : /\ WF_vars(~crashed /\ Retry(c))
                      /\ WF_vars(~crashed /\ CloseTimesOut(c))
    /\ \A e \in Esp : /\ WF_vars(~crashed /\ user_tcp_sent_cb(e))
                      /\ WF_vars(~crashed /\ Answer(e))

FairSpec == Spec /\ Fairness

(* What user_get_send_queue_len returns: the IPC task waits for zero. *)
user_get_send_queue_len ==
    FoldLeft(LAMBDA n, entry : n + Len(entry.fifo), 0, active)

-----------------------------------------------------------------------------
(* Whatever the environment does, a datum is given to the SDK at most once *)
(* and never before one accepted earlier for the same connection: the list *)
(* keeps a datum at the head of its FIFO from the call of espconn_send to  *)
(* the sent callback (user_tcp.c:152-173, 369-381).                        *)
SentOnceInOrder ==
    \A e, f \in Esp : \A i \in DOMAIN wire[e], j \in DOMAIN wire[f] :
        /\ e # f => wire[e][i] # wire[f][j]
        /\ e = f /\ i < j /\ wire[e][i].of = wire[e][j].of
              => wire[e][i].n < wire[e][j].n

(* An entry of the list belongs to a living connection, the only one of    *)
(* its context; otherwise the send queue length the IPC task waits on      *)
(* would count data nobody will ever send (user_tcp.c:204-224, 116-126).   *)
EntriesAlive ==
    \A i \in DOMAIN active :
        LET e == active[i].esp
        IN  /\ esp[e].st \in {"UP", "DISCONNECTING"}
            /\ ctx[esp[e].reverse].st # "FREE"
            /\ ctx[esp[e].reverse].sendArg = e
            /\ \A j \in DOMAIN active : active[j].esp = e => j = i

(* What my_send_data accepted has been sent or is in the FIFO, complete    *)
(* and in order, as long as the connection is up (user_tcp.c:342-344).     *)
(* There is one way to lose data: the end of another connection frees the  *)
(* FIFO of the head of the list (213-214).                                 *)
StreamIntact ==
    \A i \in DOMAIN active :
        LET e == active[i].esp
        IN  active[i].robbed
            \/ accepted[e] = SubSeq(wire[e], 1, acked[e]) \o active[i].fifo

(* A connection on which the SDK holds data back has a NEW_DATA event on   *)
(* the way that will release it (user_tcp.c:91-94, user_task.c:59).        *)
HeldIsPending ==
    \A e \in Esp :
        esp[e].st = "UP" /\ esp[e].hold =>
            \E i \in DOMAIN evq : /\ evq[i].type = "NEW_DATA"
                                  /\ ctx[evq[i].ctx].sendArg = e

(* A context that is being closed becomes free, even if the SDK never      *)
(* calls back: that is what the 5 second limit is for (lines 768-797).     *)
CloseCompletes ==
    \A c \in Ctx : ctx[c].st = "CLOSING" ~> ctx[c].st # "CLOSING" \/ crashed

-----------------------------------------------------------------------------
(* The SDK has no datum of e, so no sent callback of e will come.          *)
InFlight(e) == Len(wire[e]) - acked[e]

(* Data wait that no callback will send on: espconn_send has refused the   *)
(* head of the FIFO, in a sent callback, which leaves the entry busy and   *)
(* has later data only queued (177, 371), or in my_send_data (384).        *)
Refused(entry) == entry.fifo # <<>> /\ InFlight(entry.esp) = 0
Stalled == \E i \in DOMAIN active : Refused(active[i])

-----------------------------------------------------------------------------
(* What comments in the code say and the code does not do.                 *)

(* user_tcp.c:178-179, "Buffers are currently full, can send later", "send *)
(* buffers full, will retry": data that were refused in a sent callback    *)
(* are tried again, or go with their connection.                           *)
RefusedIsRetried ==
    \A e \in Esp :
        (\E i \in DOMAIN active : /\ active[i].esp = e /\ active[i].busy
                                  /\ Refused(active[i]))
        ~> \/ \A i \in DOMAIN active : active[i].esp = e => ~Refused(active[i])
           \/ crashed

(* user_tcp.c:152, "Cannot be NULL in this situation": the FIFO of a busy  *)
(* connection holds the datum whose sent callback is due.                  *)
SentCallbackHasData ==
    \A e \in Esp :
        InFlight(e) > 0 /\ Busy(esp[e].reverse) =>
            active[FirstMatching(esp[e].reverse)].fifo # <<>>
=============================================================================
