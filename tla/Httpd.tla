-------------------------------- MODULE Httpd --------------------------------
(***************************************************************************)
(* libesphttpd/core/httpd.c with its NonOS platform layer: a web server    *)
(* whose only thread is the callbacks of the SDK, with the handlers        *)
(* ("CGIs") of the captive portal, of static files, of firmware uploads    *)
(* and of websockets.                                                      *)
(*                                                                         *)
(* A callback is a function from the state of the server to its next       *)
(* state.  What is sent is a sequence of parts <<n, kind, k>> of the       *)
(* answer to the n-th request of a connection; its wording is not          *)
(* modelled, nor the failure of malloc.                                    *)
(*                                                                         *)
(* Outside src/: the SDK sends one buffer at a time, reports when it is    *)
(* acknowledged, and reports the end of a connection once.  A client waits *)
(* for an answer before it asks again; its request may come in pieces.     *)
(***************************************************************************)
EXTENDS Integers, Sequences, FiniteSets, SequencesExt

CONSTANTS
    Peers,          \* clients: pairs of address and port
    NoPeer,
    MaxConn,        \* HTTPD_MAX_CONNECTIONS
    MaxBacklog,     \* HTTPD_MAX_BACKLOG_SIZE, in buffers
    PostLen,        \* HTTPD_MAX_POST_LEN, in units of a body
    Table,          \* builtInUrls: a sequence of [urls, cgi]
    Requests,       \* what each client may ask: a set of [url, host, post, keep, body, upgrade]
    Files,          \* the urls that are files of the file system
    FullFiles,      \* those with a length that is a multiple of what a read asks for, 1024
    Blocks,         \* parts a file is read in
    MaxRequests,    \* bound: requests of each client's connection
    MaxFrames       \* bound: frames each client, or the application to it, sends over websockets

\* The handlers of the modelled table, and what httpd.c:560-567 falls back on.
Cgis == {"page", "file", "upload", "socket", "other", "404"}
Request == [url : STRING, host : STRING, post : BOOLEAN, keep : BOOLEAN, body : Nat,
            upgrade : BOOLEAN]

ASSUME HttpdAssumption ==
    /\ {MaxConn, MaxBacklog, PostLen, Blocks} \subseteq Nat \ {0}
    /\ {MaxRequests, MaxFrames} \subseteq [Peers -> Nat]
    /\ NoPeer \notin Peers
    /\ Table \in Seq([urls : SUBSET STRING, cgi : Cgis])
    /\ Requests \in [Peers -> SUBSET Request]

\* The first entry of the table for this url is an upload.
IsUploaded(url) == \E k \in DOMAIN Table :
    /\ url \in Table[k].urls /\ Table[k].cgi = "upload"
    /\ \A j \in 1 .. k - 1 : url \notin Table[j].urls

\* A request that becomes a websocket.
IsSocket(req) == req.url = "socket" /\ req.upgrade

\* How the server is used: websockets have the url "socket" to themselves and are opened by a GET,
\* and a body longer than HTTPD_MAX_POST_LEN is for an upload.  Any other CGI is done when the first
\* part of such a body is there, and httpdRecvCb takes the rest for the headers of a next request.
ASSUME ClientAssumption ==
    /\ \A k \in DOMAIN Table : /\ Table[k].cgi = "socket" => Table[k].urls = {"socket"}
                               /\ "socket" \in Table[k].urls => Table[k].cgi = "socket"
    /\ \A p \in Peers : \A req \in Requests[p] :
          /\ req.body <= PostLen \/ IsUploaded(req.url)
          /\ req.url = "socket" => /\ req.body = 0
                                   /\ \E k \in DOMAIN Table : Table[k].cgi = "socket"

VARIABLES
    conn,       \* connData: the slots of the pool
    tcp,        \* the connections as the SDK has them
    handles,    \* what the CGIs have allocated: open files, uploads, websockets
    sockets,    \* llStart: the slots of the websockets, in order
    answer      \* history: what each connection was to receive

vars == <<conn, tcp, handles, sockets, answer>>

Slots  == 1 .. MaxConn
Handle == 1 .. MaxConn
NoRequest == [url |-> "none", host |-> "own", post |-> FALSE, keep |-> FALSE, body |-> 0,
              upgrade |-> FALSE]

FreeSlot == [peer |-> NoPeer, up |-> FALSE, len |-> -1, received |-> 0, buffered |-> 0,
             flags |-> {}, cgi |-> "none", data |-> 0, at |-> 0, recvHdl |-> FALSE,
             n |-> 0, req |-> NoRequest, buf |-> <<>>, backlog |-> <<>>]
NoTcp == [state |-> "NONE", out |-> <<>>, got |-> <<>>, coming |-> <<>>, asked |-> NoRequest,
          n |-> 0, frames |-> 0]

Init ==
    /\ conn = [i \in Slots |-> FreeSlot]          \* httpdInit
    /\ tcp = [p \in Peers |-> NoTcp]
    /\ handles = {} /\ sockets = <<>>
    /\ answer = [p \in Peers |-> <<>>]

Now == [conn |-> conn, tcp |-> tcp, handles |-> handles, sockets |-> sockets,
        answer |-> answer, res |-> "MORE"]
Becomes(s) ==
    /\ conn' = s.conn /\ tcp' = s.tcp /\ handles' = s.handles
    /\ sockets' = s.sockets /\ answer' = s.answer

Find(p) == {i \in Slots : conn[i].peer = p}
SlotOf(p) == CHOOSE i \in Find(p) : TRUE

-----------------------------------------------------------------------------
(* Sending.                                                                *)
SendData(s, i, kind, k) == [s EXCEPT !.conn[i].buf = Append(@, <<s.conn[i].n, kind, k>>)]
httpdSend(s, i, kind) == SendData(s, i, kind, 0)

\* espconn_sent refuses while it has something to send.
CanSend(s, p) == s.tcp[p].state = "UP" /\ s.tcp[p].out = <<>>

httpdFlushSendBuffer(s, i) ==
    LET c    == s.conn[i]
        last == IF {"chunked", "body"} \subseteq c.flags /\ c.cgi = "none"
                THEN <<<<c.n, "end", 0>>>> ELSE <<>>
        data == c.buf \o last
        sent == [s EXCEPT !.conn[i].buf = <<>>, !.answer[c.peer] = @ \o data]
    IN IF ~c.up \/ data = <<>> THEN s
       ELSE IF CanSend(s, c.peer) THEN [sent EXCEPT !.tcp[c.peer].out = data]
       ELSE IF Len(c.backlog) = MaxBacklog THEN [s EXCEPT !.conn[i].buf = <<>>]
       ELSE [sent EXCEPT !.conn[i].backlog = Append(@, data)]

Response(s, i) == [httpdSend(s, i, "head") EXCEPT !.conn[i].flags = @ \cup {"body"}]
Result(s, res) == [s EXCEPT !.res = res]

-----------------------------------------------------------------------------
(* The CGIs.  Each is also called with no connection, to clean up.         *)
Alloc(s, i) ==
    LET h == CHOOSE g \in Handle \ s.handles : TRUE
    IN [s EXCEPT !.handles = @ \cup {h}, !.conn[i].data = h, !.conn[i].at = 0]
\* Freeing what is not allocated shows as handle 0.
Release(s, i) ==
    [s EXCEPT !.handles = IF s.conn[i].data \in @ THEN @ \ {s.conn[i].data} ELSE @ \cup {0}]

cgiGenerateCaptivePortalLoginPage(s, i) ==
    LET c == s.conn[i] IN
    Result(IF ~c.up THEN s
           ELSE IF c.req.post THEN Response(s, i)
           ELSE httpdSend(Response(s, i), i, "page"), "DONE")

cgiNotFound(s, i) ==
    Result(IF s.conn[i].up THEN httpdSend(Response(s, i), i, "404") ELSE s, "DONE")

\* To a client that asked for another host: hostName, which a byte of a body resets to NULL.
HostName(c) == IF c.received = 0 THEN c.req.host ELSE "none"
httpdRedirect(s, i) == httpdSend(Response(s, i), i, "moved")

cgiRedirectToHostname(s, i) ==
    LET c == s.conn[i]
    IN IF ~c.up THEN Result(s, "DONE")
       ELSE IF HostName(c) # "other" THEN Result(s, "NOTFOUND")
       ELSE Result(httpdRedirect(s, i), "DONE")

\* The file system image.  Only clients that accept what a file is compressed with ask for it.
\* Each read gives a full block until one is short; when the length is a multiple of a block, the
\* file ends with a read that gives nothing.
espFsOpen(s, i) == IF s.conn[i].req.url \in Files THEN Alloc(s, i) ELSE s
ReadLen(c) == IF c.at >= Blocks THEN "nothing"
              ELSE IF c.at + 1 = Blocks /\ c.req.url \notin FullFiles THEN "short" ELSE "full"
espFsRead(s, i) == [SendData(s, i, "block", s.conn[i].at) EXCEPT !.conn[i].at = @ + 1]
espFsClose(s, i) == Release(s, i)

cgiEspFsHook(s, i) ==
    LET c == s.conn[i]
        opened == espFsOpen(s, i)
        read == IF ReadLen(c) = "nothing" THEN s ELSE espFsRead(s, i)
    IN IF ~c.up THEN Result(espFsClose(s, i), "DONE")
       ELSE IF c.data = 0
       THEN IF opened.conn[i].data = 0 THEN Result(s, "NOTFOUND")
            ELSE Result(Response(opened, i), "MORE")
       ELSE IF ReadLen(c) = "full" THEN Result(read, "MORE")
       ELSE Result(espFsClose(read, i), "DONE")

\* What is written to flash is not modelled; at counts the units of the body that were taken.
cgiUploadFirmware(s, i) ==
    LET c     == s.conn[i]
        ready == IF c.data = 0 THEN Alloc(s, i) ELSE s
        taken == [ready EXCEPT !.conn[i].at = @ + c.buffered]
    IN IF ~c.up THEN Result(IF c.data = 0 THEN s ELSE Release(s, i), "DONE")
       ELSE IF c.len = c.received
       THEN Result(Release(SendData(Response(taken, i), i, "stored", taken.conn[i].at), i), "DONE")
       ELSE Result(taken, "MORE")

websockFree(s, i) ==
    LET freed == Release(s, i)
    IN [freed EXCEPT !.sockets = RemoveFirst(@, i), !.conn[i].data = 0]

cgiWebsocket(s, i) ==
    LET c == s.conn[i]
        upgraded == [s EXCEPT !.conn[i].flags = @ \ {"chunked"}]
    IN IF ~c.up THEN Result(IF c.data # 0 THEN websockFree(s, i) ELSE s, "DONE")
       ELSE IF c.data # 0 THEN Result(s, "MORE")
       ELSE IF ~c.req.upgrade THEN Result(Response(s, i), "DONE")       \* with the code 500
       ELSE Result([Response(Alloc(upgraded, i), i) EXCEPT !.conn[i].recvHdl = TRUE,
                                                           !.sockets = Append(@, i)], "MORE")

Call(s, i, cgi) ==
    CASE cgi = "page"   -> cgiGenerateCaptivePortalLoginPage(s, i)
      [] cgi = "file"   -> cgiEspFsHook(s, i)
      [] cgi = "upload" -> cgiUploadFirmware(s, i)
      [] cgi = "socket" -> cgiWebsocket(s, i)
      [] cgi = "other"  -> cgiRedirectToHostname(s, i)
      [] cgi = "404"    -> cgiNotFound(s, i)

\* The application or a close frame ends a websocket; at is then 1, its closedHere.
cgiWebsocketClose(s, i) ==
    [httpdFlushSendBuffer(httpdSend(s, i, "close"), i) EXCEPT !.conn[i].at = 1]

\* Frames of a websocket: a ping is answered, a close ends it, and is answered if it is not an
\* answer itself (text goes to the application; frames that break the protocol do not come).
Frame(s, i, frame) ==
    IF s.res = "DONE" THEN s
    ELSE IF frame = "ping" THEN httpdSend(s, i, "pong")
    ELSE LET closed == IF s.conn[i].at # 0 THEN s ELSE cgiWebsocketClose(s, i)
         IN Result(websockFree(closed, i), "DONE")
cgiWebSocketRecv(s, i, frames) ==
    FoldLeft(LAMBDA t, frame : Frame(t, i, frame), Result(s, "MORE"), frames)

-----------------------------------------------------------------------------
(* A request: which CGI takes it, and what happens when that is done.      *)
\* mutant: a connection that is kept does not wait for headers again
IsDoneStale(s, i) ==
    LET done == [s EXCEPT !.conn[i].cgi = "none"]
    IN IF "chunked" \in s.conn[i].flags
       THEN [httpdFlushSendBuffer(done, i) EXCEPT !.conn[i].flags = {}]
       ELSE [done EXCEPT !.conn[i].flags = @ \cup {"close"}]

httpdCgiIsDone(s, i) ==
    LET done == [s EXCEPT !.conn[i].cgi = "none"]
    IN IF "chunked" \in s.conn[i].flags
       THEN [httpdFlushSendBuffer(done, i) EXCEPT
                !.conn[i].len = -1, !.conn[i].flags = {},
                !.conn[i].buffered = 0, !.conn[i].received = 0]
       ELSE [done EXCEPT !.conn[i].flags = @ \cup {"close"}]

KeepData(s, i, cgi) == [s EXCEPT !.conn[i].cgi = cgi]       \* mutant: the data of the CGI before
Choose(s, i, cgi) == [s EXCEPT !.conn[i].cgi = cgi, !.conn[i].data = 0]

httpdProcessRequest(s, i) ==
    LET Matches(e) == s.conn[i].req.url \in e.urls
        Try(t, e) ==
            IF t.res # "NOTFOUND" \/ ~Matches(e) THEN t
            ELSE Call(Choose(t, i, e.cgi), i, e.cgi)
        tried == FoldLeft(Try, Result(s, "NOTFOUND"), Table)
        found == IF tried.res # "NOTFOUND" THEN tried
                 ELSE cgiNotFound([tried EXCEPT !.conn[i].cgi = "404"], i)
    IN IF found.res = "MORE" THEN httpdFlushSendBuffer(found, i) ELSE httpdCgiIsDone(found, i)

httpdParseHeaders(s, i, req) ==
    [s EXCEPT !.conn[i].n = @ + 1, !.conn[i].req = req, !.conn[i].len = req.body,
              !.conn[i].flags = @ \cup (IF req.keep THEN {"chunked"} ELSE {})]

-----------------------------------------------------------------------------
(* httpdRecvCb.  A unit of data is the last byte of the headers (those     *)
(* before are only kept), a unit of a body, or a frame of a websocket.     *)
Headers(s, i, req) ==
    LET parsed == httpdParseHeaders(s, i, req)
    IN IF req.body = 0 THEN httpdProcessRequest(parsed, i) ELSE parsed

PostByte(s, i) ==
    LET more == [s EXCEPT !.conn[i].buffered = @ + 1, !.conn[i].received = @ + 1]
        c    == more.conn[i]
        size == IF c.len > PostLen THEN PostLen ELSE c.len
        cgi  == Call(more, i, c.cgi)
        ran  == IF c.cgi = "none" THEN httpdProcessRequest(more, i)
                ELSE IF cgi.res = "DONE" THEN httpdCgiIsDone(cgi, i) ELSE cgi
    IN IF c.buffered >= size \/ c.received = c.len
       THEN [ran EXCEPT !.conn[i].buffered = 0] ELSE more

\* recvHdl gets all the rest of the data, or the rest is ignored.
Rest(s, i, units) ==
    LET done == cgiWebSocketRecv(s, i, units)
    IN IF ~s.conn[i].recvHdl THEN s
       ELSE IF done.res = "DONE" THEN httpdCgiIsDone(done, i) ELSE done

Received(s, i, units, req) ==
    LET one(acc, k) ==
            LET c == acc.s.conn[i] IN
            IF acc.over THEN acc
            ELSE IF c.len < 0 THEN [acc EXCEPT !.s = Headers(acc.s, i, req)]
            ELSE IF c.len # 0 THEN [acc EXCEPT !.s = PostByte(acc.s, i)]
            ELSE [s |-> Rest(acc.s, i, SubSeq(units, k, Len(units))), over |-> c.recvHdl]
        all == FoldLeft(one, [s |-> s, over |-> FALSE], [k \in 1 .. Len(units) |-> k])
    IN httpdFlushSendBuffer(all.s, i)

CanReceive(p) == tcp[p].state \in {"UP", "CLOSING"} /\ tcp[p].coming # <<>>
httpdRecvCb(p) ==
    /\ CanReceive(p)
    /\ \E len \in 1 .. Len(tcp[p].coming) :
          LET i     == SlotOf(p)
              units == SubSeq(tcp[p].coming, 1, len)
              left  == SubSeq(tcp[p].coming, len + 1, Len(tcp[p].coming))
              s     == [Now EXCEPT !.tcp[p].coming = left, !.conn[i].buf = <<>>]
          IN \E next \in {Received(s, i, units, tcp[p].asked)} : Becomes(next)

-----------------------------------------------------------------------------
(* The other callbacks.                                                    *)
httpdConnectCb(p) ==
    /\ tcp[p].state = "NONE" /\ Find(NoPeer) # {}
    /\ LET i == CHOOSE j \in Find(NoPeer) : \A k \in Find(NoPeer) : j <= k
       IN conn' = [conn EXCEPT ![i] = [FreeSlot EXCEPT !.peer = p, !.up = TRUE]]
    /\ tcp' = [tcp EXCEPT ![p] = [NoTcp EXCEPT !.state = "UP"]]
    /\ answer' = [answer EXCEPT ![p] = <<>>]
    /\ UNCHANGED <<handles, sockets>>

BacklogLast(s, i) ==                        \* mutant: the newest goes first
    [s EXCEPT !.tcp[s.conn[i].peer].out = Last(s.conn[i].backlog), !.conn[i].backlog = Front(@)]
SendBacklog(s, i) ==
    [s EXCEPT !.tcp[s.conn[i].peer].out = Head(s.conn[i].backlog), !.conn[i].backlog = Tail(@)]

httpdContinue(s, i) ==
    LET c   == s.conn[i]
        cgi == Call([s EXCEPT !.conn[i].buf = <<>>], i, c.cgi)
    IN IF c.backlog # <<>> THEN SendBacklog(s, i)
       ELSE IF "close" \in c.flags THEN [s EXCEPT !.tcp[c.peer].state = "CLOSING"]
       ELSE IF c.cgi = "none" THEN s
       ELSE httpdFlushSendBuffer(IF cgi.res = "MORE" THEN cgi ELSE httpdCgiIsDone(cgi, i), i)

CanReport(p) == tcp[p].state = "UP" /\ tcp[p].out # <<>>
httpdSentCb(p) ==
    /\ CanReport(p)
    /\ LET s == [Now EXCEPT !.tcp[p].got = @ \o tcp[p].out, !.tcp[p].out = <<>>]
       IN \E next \in {httpdContinue(s, SlotOf(p))} : Becomes(next)

CleanUpNever(s, i) == s                     \* mutant: the CGI is not told
CleanUp(s, i) == IF s.conn[i].cgi = "none" THEN s ELSE Call(s, i, s.conn[i].cgi)

httpdRetireConn(s, i) == [s EXCEPT !.conn[i] = FreeSlot]

\* The client, the network or espconn_disconnect has ended the connection.
httpdDisconCb(p) ==
    /\ tcp[p].state \in {"UP", "CLOSING"}
    /\ LET i == SlotOf(p)
           s == [Now EXCEPT !.conn[i].up = FALSE, !.tcp[p] = NoTcp, !.answer[p] = <<>>]
       IN \E next \in {httpdRetireConn(CleanUp(s, i), i)} : Becomes(next)

\* The application sends to every websocket.
cgiWebsockBroadcast ==
    LET Send(s, i) ==
            httpdFlushSendBuffer(httpdSend([s EXCEPT !.conn[i].buf = <<>>], i, "text"), i)
    IN /\ sockets # <<>>
       /\ \A k \in 1 .. Len(sockets) : tcp[conn[sockets[k]].peer].frames < MaxFrames[conn[sockets[k]].peer]
       /\ LET s == FoldLeft(Send, Now, sockets)
              Counted(p) == \E k \in 1 .. Len(sockets) : conn[sockets[k]].peer = p
          IN Becomes([s EXCEPT !.tcp = [p \in Peers |->
                        IF Counted(p) THEN [s.tcp[p] EXCEPT !.frames = @ + 1] ELSE s.tcp[p]]])

\* The application closes a websocket.
CloseSocket(p) ==
    \E k \in 1 .. Len(sockets) :
        LET i == sockets[k]
            closed == cgiWebsocketClose([Now EXCEPT !.conn[i].buf = <<>>], i)
        IN /\ conn[i].peer = p /\ conn[i].at = 0 /\ tcp[p].frames < MaxFrames[p]
           /\ Becomes([closed EXCEPT !.tcp[p].frames = @ + 1])

-----------------------------------------------------------------------------
(* The clients.                                                            *)
Answered(p) == tcp[p].n = 0 \/ (tcp[p].asked.keep /\ <<tcp[p].n, "end", 0>> \in ToSet(tcp[p].got))

Ask(p) ==
    /\ tcp[p].state = "UP" /\ tcp[p].n < MaxRequests[p]
    /\ Answered(p) /\ tcp[p].out = <<>>
    /\ \E req \in Requests[p] :
          tcp' = [tcp EXCEPT ![p].asked = req, ![p].n = @ + 1,
                             ![p].coming = <<"headers">> \o [k \in 1 .. req.body |-> "body"]]
    /\ UNCHANGED <<conn, handles, sockets, answer>>

\* A client whose websocket is open sends frames, and none after a close.
SendFrame(p) ==
    /\ tcp[p].state = "UP" /\ IsSocket(tcp[p].asked) /\ tcp[p].frames < MaxFrames[p]
    /\ <<tcp[p].n, "head", 0>> \in ToSet(tcp[p].got)
    /\ "close" \notin ToSet(tcp[p].coming)
    /\ \E frame \in {"ping", "close"} :
          tcp' = [tcp EXCEPT ![p].coming = Append(@, frame), ![p].frames =
                      IF frame = "close" THEN MaxFrames[p] ELSE @ + 1]
    /\ UNCHANGED <<conn, handles, sockets, answer>>

Callback(p) == httpdConnectCb(p) \/ httpdRecvCb(p) \/ httpdSentCb(p) \/ httpdDisconCb(p)

Next ==
    \/ \E p \in Peers : Callback(p) \/ Ask(p) \/ SendFrame(p) \/ CloseSocket(p)
    \/ cgiWebsockBroadcast

Spec == Init /\ [][Next]_vars

\* The SDK delivers, reports what was acknowledged, and ends what it was told to end: weak fairness,
\* written out because the guards say what is enabled.
Fairness ==
    \A p \in Peers :
        /\ []<>~CanReceive(p) \/ []<><<httpdRecvCb(p)>>_vars
        /\ []<>~CanReport(p)  \/ []<><<httpdSentCb(p)>>_vars
        /\ []<>(tcp[p].state # "CLOSING") \/ []<><<httpdDisconCb(p)>>_vars
FairSpec == Spec /\ Fairness

-----------------------------------------------------------------------------
\* What a client got, what is on its way and what waits in the backlog is, in this order, all that
\* was to be sent to it (but for what a full backlog drops): a buffer never overtakes another,
\* though sending is tried before the backlog is looked at (httpd.c:403-429, 470-479).
StreamKept ==
    \A i \in Slots : conn[i].up =>
        LET t == tcp[conn[i].peer]
        IN t.got \o t.out \o FlattenSeq(conn[i].backlog) = answer[conn[i].peer]

\* Every request is answered by one answer, whole and in its turn: a head, then its parts, and
\* only then the head of the next, with nothing left of the request before; an upload answers with
\* all that was uploaded (httpd.c:433-451, 519-574).
OneAnswerEach ==
    \A p \in Peers :
        LET First(k) == k = 1 \/ answer[p][k - 1][1] < answer[p][k][1]
        IN /\ \A k \in 1 .. Len(answer[p]) : (answer[p][k][2] = "head") <=> First(k)
           /\ \A k \in 1 .. Len(answer[p]) - 1 : answer[p][k][1] <= answer[p][k + 1][1]
           /\ \A k \in 1 .. Len(answer[p]) :
                 answer[p][k][2] = "stored" /\ answer[p][k][1] = tcp[p].n =>
                     answer[p][k][3] = tcp[p].asked.body

\* A slot of the pool is in use for each connection, and no other; what the CGIs have allocated is
\* what the connections still use, so nothing is leaked nor freed twice when a connection ends at
\* any moment (httpd.c:108-125, 782-794).
PoolExact ==
    /\ \A p \in Peers : Cardinality(Find(p)) = (IF tcp[p].state = "NONE" THEN 0 ELSE 1)
    /\ handles = {conn[i].data : i \in {j \in Slots : conn[j].cgi # "none"}} \ {0}
    /\ ToSet(sockets) = {i \in Slots : conn[i].cgi = "socket"}

\* A request that is in is answered, to its end; and the connection is closed if it is not kept,
\* unless it became a websocket (httpd.c:481-486, 447-450).  One case is left out, and never
\* closed: a file that ends with a read of nothing.  Its last call is done without sending, and
\* HFL_DISCONAFTERSENT waits for a sent callback that does not come (httpdespfs.c:85-90).
RequestsServed ==
    \A p \in Peers :
        LET asked  == tcp[p].asked
            socket == IsSocket(asked)
        IN /\ (tcp[p].n > 0 ~> Answered(p) \/ ~asked.keep \/ socket)
           /\ (tcp[p].n > 0 /\ ~asked.keep /\ asked.url \notin FullFiles ~>
                    tcp[p].state = "NONE" \/ socket)
=============================================================================
