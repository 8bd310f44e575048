-------------------------- MODULE HttpdServeProofs --------------------------
(***************************************************************************)
(* What the callbacks of the web server do to one connection: whatever     *)
(* arrives on it, in whatever pieces, its requests are answered one after  *)
(* the other.                                                              *)
(*                                                                         *)
(* A connection is at rest, waits for the parts of a request (Calling,     *)
(* Gathering), sends a file (Reading), has a websocket (Open) or is being  *)
(* closed (Ending). Each says what its slot holds, what the client may     *)
(* still send and where in which answer what was written stops; none of    *)
(* them would be kept without the others. Serving is their disjunction.    *)
(*                                                                         *)
(* A callback is a composition of functions from server to server. During  *)
(* says where slot i stands between two of them, when the send buffer is   *)
(* not flushed yet, and After where it stands once it is; both say too     *)
(* what of the handles and of the list of websockets is its own (Uses),    *)
(* and that all else is as the callback found it (Beside). Each function   *)
(* has a lemma named ..Serves that takes During or After to During or      *)
(* After.                                                                  *)
(***************************************************************************)
EXTENDS HttpdProofs

LEMMA IntoTwice ==
    ASSUME NEW s \in State, NEW i \in Slots, NEW c, NEW h, NEW q, NEW r,
           NEW d, NEW g, NEW p, NEW e
    PROVE  Into(Into(s, i, c, h, q, r), i, d, g, p, e) = Into(s, i, d, g, p, e)
PROOF
  BY DEF Into, State

LEMMA ResponseIs ==
    ASSUME NEW s \in State, NEW i \in Slots, NEW c \in Slot, NEW h, NEW q, NEW r
    PROVE  Response(Into(s, i, c, h, q, r), i) = Into(s, i, Headed(c), h, q, r)
PROOF
<1> DEFINE d == Said(c, "head", 0)
<1>1. [Into(s, i, d, h, q, r) EXCEPT !.conn[i].flags = @ \cup {"body"}]
         = Into(s, i, [d EXCEPT !.flags = @ \cup {"body"}], h, q, r)
  <2> HIDE DEF d
  <2> QED  BY DEF Into, State
<1>2. [d EXCEPT !.flags = @ \cup {"body"}] = Headed(c)
  BY DEF Said, Headed, Slot
<1>3. httpdSend(Into(s, i, c, h, q, r), i, "head") = Into(s, i, d, h, q, r)
  BY SendIs
<1> QED  BY <1>1, <1>2, <1>3 DEF Response

LEMMA ResultIs ==
    ASSUME NEW s \in State, NEW i \in Slots, NEW c, NEW h, NEW q, NEW r, NEW e
    PROVE  Result(Into(s, i, c, h, q, r), e) = Into(s, i, c, h, q, e)
PROOF
  BY DEF Result, Into, State

Allocates(s, i, c, h, q, r) ==
    \E f \in Handle \ h : Alloc(Into(s, i, c, h, q, r), i) = Into(s, i, Owning(c, f), h \cup {f}, q, r)
LEMMA AllocIs ==
    ASSUME NEW s \in State, NEW i \in Slots, NEW c \in Slot, NEW h \in Heap,
           NEW q \in Seq(Slots), NEW r \in Res, Handle \ h # {}
    PROVE  Allocates(s, i, c, h, q, r)
PROOF
<1> DEFINE f == CHOOSE g \in Handle \ h : TRUE
<1>1. f \in Handle \ h
  OBVIOUS
<1>2. Into(s, i, c, h, q, r).handles = h
  BY IntoIs
<1>3. Alloc(Into(s, i, c, h, q, r), i)
         = [Into(s, i, c, h, q, r) EXCEPT !.handles = @ \cup {f}, !.conn[i].data = f, !.conn[i].at = 0]
  BY <1>2 DEF Alloc
<1> HIDE DEF f
<1> DEFINE x == Into(s, i, c, h, q, r)
           c1 == [c EXCEPT !.data = f]
<1>4. [x EXCEPT !.handles = @ \cup {f}] = Into(s, i, c, h \cup {f}, q, r)
  BY DEF Into, State
<1>5. [Into(s, i, c, h \cup {f}, q, r) EXCEPT !.conn[i].data = f] = Into(s, i, c1, h \cup {f}, q, r)
  BY DEF Into, State
<1>6. [Into(s, i, c1, h \cup {f}, q, r) EXCEPT !.conn[i].at = 0]
         = Into(s, i, [c1 EXCEPT !.at = 0], h \cup {f}, q, r)
  <2> HIDE DEF c1
  <2> QED  BY DEF Into, State
<1>7. [c1 EXCEPT !.at = 0] = [c EXCEPT !.data = f, !.at = 0]
  OBVIOUS
<1>8. [x EXCEPT !.handles = @ \cup {f}, !.conn[i].data = f, !.conn[i].at = 0]
         = [[[x EXCEPT !.handles = @ \cup {f}] EXCEPT !.conn[i].data = f] EXCEPT !.conn[i].at = 0]
  OBVIOUS
<1>9. [x EXCEPT !.handles = @ \cup {f}, !.conn[i].data = f, !.conn[i].at = 0]
         = Into(s, i, [c EXCEPT !.data = f, !.at = 0], h \cup {f}, q, r)
  <2> HIDE DEF x, c1
  <2> QED  BY <1>4, <1>5, <1>6, <1>7, <1>8
<1> QED  BY <1>1, <1>3, <1>9 DEF Owning, Allocates

LEMMA ReleaseIs ==
    ASSUME NEW s \in State, NEW i \in Slots, NEW c, NEW h, NEW q, NEW r, c.data \in h
    PROVE  Release(Into(s, i, c, h, q, r), i) = Into(s, i, c, h \ {c.data}, q, r)
PROOF
  BY DEF Release, Into, State

(* The first call of a CGI for a request.                                  *)
Kept(req) == IF req.keep THEN {"chunked"} ELSE {}
Fresh(c) == c.up /\ c.flags = Kept(c.req) /\ c.buf = <<>> /\ ~c.recvHdl

Same(c, d) ==
    /\ d.peer = c.peer /\ d.up = c.up /\ d.len = c.len /\ d.received = c.received
    /\ d.buffered = c.buffered /\ d.n = c.n /\ d.req = c.req /\ d.backlog = c.backlog
    /\ d.cgi = c.cgi

AnswerTo(c, b) ==
    /\ b \in Seq(Part) /\ b # <<>> /\ b[1] = <<c.n, "head", 0>>
    /\ \A k \in 2 .. Len(b) : /\ b[k][1] = c.n /\ b[k][2] \notin {"head", "end"}
                              /\ b[k][2] = "stored" => b[k][3] = c.received

Refuses(c, d, e) ==
    /\ e = "NOTFOUND" /\ d.buf = <<>> /\ d.flags = Kept(c.req) /\ ~d.recvHdl
    /\ d.cgi \notin {"upload", "socket"}
Answers(c, d, e) ==
    /\ e = "DONE" /\ AnswerTo(c, d.buf) /\ d.flags = Kept(c.req) \cup {"body"} /\ ~d.recvHdl
    /\ d.cgi = "socket" => ~IsSocket(c.req)
    /\ d.cgi = "upload" => c.len = c.received
Reads(c, d, e) ==
    /\ e = "MORE" /\ d.cgi = "file" /\ d.buf = <<<<c.n, "head", 0>>>>
    /\ d.flags = Kept(c.req) \cup {"body"} /\ ~d.recvHdl
Takes(c, d, e) ==
    /\ e = "MORE" /\ d.cgi = "upload" /\ d.buf = <<>> /\ d.flags = Kept(c.req) /\ ~d.recvHdl
    /\ d.at = c.buffered /\ c.len # c.received
Opens(c, d, e) ==
    /\ e = "MORE" /\ d.cgi = "socket" /\ d.buf = <<<<c.n, "head", 0>>>>
    /\ d.flags = {"body"} /\ d.recvHdl
Holds(d, h, h2) == d.data \in Handle \ h /\ h2 = h \cup {d.data}

Served(c, h, q, i, d, h2, q2, e) ==
    \/ (Refuses(c, d, e) \/ Answers(c, d, e)) /\ h2 = h /\ q2 = q
    \/ (Reads(c, d, e) \/ Takes(c, d, e)) /\ Holds(d, h, h2) /\ q2 = q
    \/ Opens(c, d, e) /\ Holds(d, h, h2) /\ q2 = Append(q, i)
ServedIn(s, i, c, h, q, x) ==
    \E d \in Slot, h2 \in Heap, q2 \in Seq(Slots), e \in Res :
       x = Into(s, i, d, h2, q2, e) /\ Same(c, d) /\ Served(c, h, q, i, d, h2, q2, e)

LEMMA ServedBy ==
    ASSUME NEW s, NEW i, NEW c, NEW h, NEW q, NEW d \in Slot, NEW h2 \in Heap,
           NEW q2 \in Seq(Slots), NEW e \in Res, NEW x, x = Into(s, i, d, h2, q2, e), Same(c, d),
           Served(c, h, q, i, d, h2, q2, e)
    PROVE  ServedIn(s, i, c, h, q, x)
PROOF
  BY DEF ServedIn

LEMMA HeadedFields ==
    ASSUME NEW c \in Slot, Fresh(c)
    PROVE  /\ Headed(c).buf = <<<<c.n, "head", 0>>>>
           /\ Headed(c).flags = Kept(c.req) \cup {"body"}
           /\ ~Headed(c).recvHdl /\ Same(c, Headed(c))
           /\ Headed(c).cgi = c.cgi /\ Headed(c).data = c.data /\ Headed(c).at = c.at
           /\ AnswerTo(c, Headed(c).buf)
PROOF
<1>1. Append(<<>>, <<c.n, "head", 0>>) = <<<<c.n, "head", 0>>>>
  OBVIOUS
<1>2. /\ Headed(c).buf = <<<<c.n, "head", 0>>>>
      /\ Headed(c).flags = Kept(c.req) \cup {"body"}
      /\ ~Headed(c).recvHdl
      /\ Headed(c).cgi = c.cgi /\ Headed(c).data = c.data /\ Headed(c).at = c.at
  BY <1>1 DEF Headed, Fresh, Slot
<1>3. Same(c, Headed(c))
  BY DEF Headed, Same, Slot
<1>4. <<c.n, "head", 0>> \in Part
  <2>1. c.n \in Nat
    BY DEF Slot
  <2> QED  BY <2>1, HeadIs
<1>5. AnswerTo(c, <<<<c.n, "head", 0>>>>)
  <2> DEFINE x == <<c.n, "head", 0>>
  <2>1. x \in Part
    BY <1>4
  <2> HIDE DEF x
  <2>2. <<x>> \in Seq(Part) /\ Len(<<x>>) = 1 /\ <<x>>[1] = x /\ <<x>> # <<>>
    BY <2>1
  <2>3. ~\E k \in 2 .. Len(<<x>>) : TRUE
    BY <2>2
  <2> QED  BY <2>2, <2>3 DEF AnswerTo, x
<1> QED  BY <1>2, <1>3, <1>5

LEMMA SaidFields ==
    ASSUME NEW c \in Slot, NEW d \in Slot, Same(c, d), AnswerTo(c, d.buf), NEW kind \in Kinds,
           NEW k \in Nat, kind \notin {"head", "end"}, kind = "stored" => k = c.received
    PROVE  /\ Same(c, Said(d, kind, k)) /\ AnswerTo(c, Said(d, kind, k).buf)
           /\ Said(d, kind, k).cgi = d.cgi /\ Said(d, kind, k).data = d.data
           /\ Said(d, kind, k).flags = d.flags /\ Said(d, kind, k).recvHdl = d.recvHdl
           /\ Said(d, kind, k).at = d.at
PROOF
<1> DEFINE x == <<d.n, kind, k>>
           b == Append(d.buf, x)
<1>1. /\ Said(d, kind, k).buf = b
      /\ Said(d, kind, k).cgi = d.cgi /\ Said(d, kind, k).data = d.data
      /\ Said(d, kind, k).flags = d.flags /\ Said(d, kind, k).recvHdl = d.recvHdl
      /\ Said(d, kind, k).at = d.at
  BY DEF Said, Slot
<1>2. Same(c, Said(d, kind, k))
  BY DEF Said, Slot, Same
<1>3. x \in Part /\ x[1] = c.n /\ x[2] = kind /\ x[3] = k
  BY DEF Part, Slot, Same
<1> HIDE DEF x
<1>4. /\ d.buf \in Seq(Part) /\ d.buf # <<>> /\ d.buf[1] = <<c.n, "head", 0>>
      /\ \A j \in 2 .. Len(d.buf) : /\ d.buf[j][1] = c.n /\ d.buf[j][2] \notin {"head", "end"}
                                    /\ d.buf[j][2] = "stored" => d.buf[j][3] = c.received
  BY DEF AnswerTo
<1>5. /\ b \in Seq(Part) /\ b # <<>> /\ Len(b) = Len(d.buf) + 1 /\ b[Len(d.buf) + 1] = x
      /\ \A j \in 1 .. Len(d.buf) : b[j] = d.buf[j]
  BY <1>3, <1>4, AppendProperties
<1>6. Len(d.buf) \in Nat /\ Len(d.buf) >= 1
  BY <1>4
<1> HIDE DEF b
<1>7. b[1] = <<c.n, "head", 0>>
  BY <1>4, <1>5, <1>6
<1>8. ASSUME NEW j \in 2 .. Len(b)
      PROVE  /\ b[j][1] = c.n /\ b[j][2] \notin {"head", "end"}
             /\ b[j][2] = "stored" => b[j][3] = c.received
  <2>1. CASE j = Len(d.buf) + 1
    BY <1>3, <1>5, <2>1
  <2>2. CASE j # Len(d.buf) + 1
    <3>1. j \in 2 .. Len(d.buf) /\ j \in 1 .. Len(d.buf)
      BY <1>5, <1>6, <2>2
    <3> QED  BY <1>4, <1>5, <3>1
  <2> QED  BY <2>1, <2>2
<1>9. AnswerTo(c, b)
  BY <1>5, <1>7, <1>8 DEF AnswerTo
<1> QED  BY <1>1, <1>2, <1>9

LEMMA HeadSent ==
    ASSUME NEW s \in State, NEW i \in Slots, NEW c \in Slot, NEW h, NEW q, NEW r, Fresh(c),
           c.cgi \notin {"upload", "socket"}
    PROVE  /\ Response(Into(s, i, c, h, q, r), i) = Into(s, i, Headed(c), h, q, r)
           /\ Headed(c) \in Slot /\ Same(c, Headed(c)) /\ Answers(c, Headed(c), "DONE")
PROOF
<1>1. Headed(c) \in Slot
  BY SaidType DEF Kinds
<1>2. /\ Same(c, Headed(c)) /\ Answers(c, Headed(c), "DONE")
  BY HeadedFields DEF Answers
<1> QED  BY <1>1, <1>2, ResponseIs

LEMMA AnswerSent ==
    ASSUME NEW s \in State, NEW i \in Slots, NEW c \in Slot, NEW h, NEW q, NEW r, Fresh(c),
           c.cgi \notin {"upload", "socket"}, NEW kind \in {"page", "404", "moved"}
    PROVE  \E d \in Slot :
              /\ httpdSend(Response(Into(s, i, c, h, q, r), i), i, kind) = Into(s, i, d, h, q, r)
              /\ Same(c, d) /\ Answers(c, d, "DONE")
PROOF
<1> DEFINE b == Headed(c)
           d == Said(b, kind, 0)
<1>1. /\ Response(Into(s, i, c, h, q, r), i) = Into(s, i, b, h, q, r)
      /\ b \in Slot /\ Same(c, b) /\ Answers(c, b, "DONE")
  BY HeadSent
<1>2. AnswerTo(c, b.buf) /\ b.cgi = c.cgi
  BY HeadedFields
<1>3. kind \in Kinds /\ kind \notin {"head", "end"} /\ kind # "stored" /\ 0 \in Nat
  BY DEF Kinds
<1> HIDE DEF b
<1>4. httpdSend(Into(s, i, b, h, q, r), i, kind) = Into(s, i, d, h, q, r)
  BY <1>1, SendIs
<1>5. d \in Slot
  BY <1>1, <1>3, SaidType
<1>6. Same(c, d) /\ AnswerTo(c, d.buf) /\ d.cgi = c.cgi /\ d.flags = b.flags /\ d.recvHdl = b.recvHdl
  BY <1>1, <1>2, <1>3, SaidFields
<1>7. Answers(c, d, "DONE")
  BY <1>1, <1>2, <1>6 DEF Answers
<1> HIDE DEF d
<1> QED  BY <1>1, <1>4, <1>5, <1>6, <1>7

LEMMA PageServes ==
    ASSUME NEW s \in State, NEW i \in Slots, NEW c \in Slot, NEW h \in Heap,
           NEW q \in Seq(Slots), NEW r, Fresh(c), c.cgi \notin {"upload", "socket"}
    PROVE  ServedIn(s, i, c, h, q, cgiGenerateCaptivePortalLoginPage(Into(s, i, c, h, q, r), i))
PROOF
<1> DEFINE x == Into(s, i, c, h, q, r)
<1>1. x.conn[i] = c /\ c.up
  BY IntoIs DEF Fresh
<1>2. \A d : Result(Into(s, i, d, h, q, r), "DONE") = Into(s, i, d, h, q, "DONE")
  BY ResultIs
<1>3. /\ Response(x, i) = Into(s, i, Headed(c), h, q, r)
      /\ Headed(c) \in Slot /\ Same(c, Headed(c)) /\ Answers(c, Headed(c), "DONE")
  BY HeadSent
<1>4. PICK d \in Slot : /\ httpdSend(Response(x, i), i, "page") = Into(s, i, d, h, q, r)
                        /\ Same(c, d) /\ Answers(c, d, "DONE")
  BY AnswerSent
<1> HIDE DEF x
<1> DEFINE b == IF c.req.post THEN Headed(c) ELSE d
<1>5. cgiGenerateCaptivePortalLoginPage(x, i) = Into(s, i, b, h, q, "DONE")
  BY <1>1, <1>2, <1>3, <1>4 DEF cgiGenerateCaptivePortalLoginPage
<1>6. b \in Slot /\ Same(c, b) /\ Answers(c, b, "DONE") /\ "DONE" \in Res
  BY <1>3, <1>4 DEF Res
<1> HIDE DEF b
<1>7. Served(c, h, q, i, b, h, q, "DONE")
  BY <1>6 DEF Served
<1>8. ServedIn(s, i, c, h, q, cgiGenerateCaptivePortalLoginPage(x, i))
  BY <1>5, <1>6, <1>7, ServedBy
<1> QED  BY <1>8 DEF x

LEMMA NotFoundServes ==
    ASSUME NEW s \in State, NEW i \in Slots, NEW c \in Slot, NEW h \in Heap,
           NEW q \in Seq(Slots), NEW r, Fresh(c), c.cgi \notin {"upload", "socket"}
    PROVE  \E d \in Slot : /\ cgiNotFound(Into(s, i, c, h, q, r), i) = Into(s, i, d, h, q, "DONE")
                           /\ Same(c, d) /\ Answers(c, d, "DONE")
PROOF
<1> DEFINE x == Into(s, i, c, h, q, r)
<1>1. x.conn[i] = c /\ c.up
  BY IntoIs DEF Fresh
<1>2. PICK d \in Slot : /\ httpdSend(Response(x, i), i, "404") = Into(s, i, d, h, q, r)
                        /\ Same(c, d) /\ Answers(c, d, "DONE")
  BY AnswerSent
<1>3. Result(Into(s, i, d, h, q, r), "DONE") = Into(s, i, d, h, q, "DONE")
  BY ResultIs
<1> HIDE DEF x
<1>4. cgiNotFound(x, i) = Into(s, i, d, h, q, "DONE")
  BY <1>1, <1>2, <1>3 DEF cgiNotFound
<1> QED  BY <1>2, <1>4 DEF x

LEMMA RedirectServes ==
    ASSUME NEW s \in State, NEW i \in Slots, NEW c \in Slot, NEW h \in Heap,
           NEW q \in Seq(Slots), NEW r, Fresh(c), c.cgi \notin {"upload", "socket"}
    PROVE  ServedIn(s, i, c, h, q, cgiRedirectToHostname(Into(s, i, c, h, q, r), i))
PROOF
<1> DEFINE x == Into(s, i, c, h, q, r)
           y == cgiRedirectToHostname(x, i)
<1> SUFFICES ServedIn(s, i, c, h, q, y)
  OBVIOUS
<1>1. x.conn[i] = c /\ c.up
  BY IntoIs DEF Fresh
<1>2. PICK d \in Slot : /\ httpdSend(Response(x, i), i, "moved") = Into(s, i, d, h, q, r)
                        /\ Same(c, d) /\ Answers(c, d, "DONE")
  BY AnswerSent
<1>3. /\ Result(Into(s, i, d, h, q, r), "DONE") = Into(s, i, d, h, q, "DONE")
      /\ Result(x, "NOTFOUND") = Into(s, i, c, h, q, "NOTFOUND")
  BY ResultIs
<1>4. "NOTFOUND" \in Res /\ "DONE" \in Res
  BY DEF Res
<1>5. Same(c, c) /\ Served(c, h, q, i, c, h, q, "NOTFOUND") /\ Served(c, h, q, i, d, h, q, "DONE")
  BY <1>2 DEF Same, Served, Refuses, Fresh
<1> HIDE DEF x
<1>6. y = Into(s, i, c, h, q, "NOTFOUND") \/ y = Into(s, i, d, h, q, "DONE")
  BY <1>1, <1>2, <1>3 DEF cgiRedirectToHostname, httpdRedirect
<1> HIDE DEF y
<1>7. CASE y = Into(s, i, c, h, q, "NOTFOUND")
  BY <1>4, <1>5, <1>7, ServedBy
<1>8. CASE y = Into(s, i, d, h, q, "DONE")
  BY <1>2, <1>4, <1>5, <1>8, ServedBy
<1> QED  BY <1>6, <1>7, <1>8

LEMMA AllocServes ==
    ASSUME NEW c \in Slot, NEW f \in Handle
    PROVE  /\ Owning(c, f) \in Slot /\ Same(c, Owning(c, f))
           /\ Fresh(c) => Fresh(Owning(c, f))
           /\ Owning(c, f).data = f /\ Owning(c, f).at = 0 /\ Owning(c, f).cgi = c.cgi
           /\ Owning(c, f).flags = c.flags /\ Owning(c, f).buf = c.buf
           /\ Owning(c, f).recvHdl = c.recvHdl
PROOF
  BY DEF Slot, Same, Fresh, Data, Owning

LEMMA FileServes ==
    ASSUME NEW s \in State, NEW i \in Slots, NEW c \in Slot, NEW h \in Heap,
           NEW q \in Seq(Slots), NEW r \in Res, Fresh(c), c.cgi = "file", c.data = 0, Handle \ h # {}
    PROVE  ServedIn(s, i, c, h, q, cgiEspFsHook(Into(s, i, c, h, q, r), i))
PROOF
<1> DEFINE x == Into(s, i, c, h, q, r)
           y == cgiEspFsHook(x, i)
<1> SUFFICES ServedIn(s, i, c, h, q, y)
  OBVIOUS
<1>1. x.conn[i] = c /\ c.up /\ c.data = 0
  BY IntoIs DEF Fresh
<1>2. "NOTFOUND" \in Res /\ "MORE" \in Res
  BY DEF Res
<1>3. CASE c.req.url \in Files
  <2>1. PICK f \in Handle \ h : Alloc(x, i) = Into(s, i, Owning(c, f), h \cup {f}, q, r)
    BY AllocIs, SMTT(40) DEF Allocates
  <2> DEFINE a == Owning(c, f)
             g == h \cup {f}
             b == Headed(a)
  <2>2. f \in Handle /\ f # 0 /\ g \in Heap
    BY DEF Handle, Data, Heap
  <2>3. a \in Slot /\ Same(c, a) /\ Fresh(a) /\ a.data = f /\ a.cgi = "file"
    BY <2>2, AllocServes
  <2> HIDE DEF a, g
  <2>4. Into(s, i, a, g, q, r).conn[i] = a
    BY IntoIs
  <2>5. /\ Response(Into(s, i, a, g, q, r), i) = Into(s, i, b, g, q, r)
        /\ b \in Slot /\ Same(a, b)
    BY <2>3, HeadSent
  <2>6. Result(Into(s, i, b, g, q, r), "MORE") = Into(s, i, b, g, q, "MORE")
    BY ResultIs
  <2>7. /\ b.buf = <<<<a.n, "head", 0>>>> /\ b.flags = Kept(a.req) \cup {"body"} /\ ~b.recvHdl
        /\ b.cgi = "file" /\ b.data = f
    BY <2>3, HeadedFields
  <2> HIDE DEF b, x
  <2>8. Alloc(x, i) = Into(s, i, a, g, q, r)
    BY <2>1 DEF a, g
  <2>9. y = Into(s, i, b, g, q, "MORE")
    BY <1>1, <1>3, <2>2, <2>3, <2>4, <2>5, <2>6, <2>8 DEF cgiEspFsHook, espFsOpen
  <2>10. Same(c, b) /\ a.n = c.n /\ a.req = c.req
    BY <2>3, <2>5 DEF Same
  <2>11. Served(c, h, q, i, b, g, q, "MORE")
    BY <2>2, <2>7, <2>10 DEF Served, Reads, Holds, g
  <2> HIDE DEF y
  <2> QED  BY <1>2, <2>2, <2>5, <2>9, <2>10, <2>11, ServedBy
<1>4. CASE c.req.url \notin Files
  <2>1. Result(x, "NOTFOUND") = Into(s, i, c, h, q, "NOTFOUND")
    BY ResultIs
  <2>2. Same(c, c) /\ Served(c, h, q, i, c, h, q, "NOTFOUND")
    BY DEF Same, Served, Refuses, Fresh
  <2> HIDE DEF x
  <2>3. y = Into(s, i, c, h, q, "NOTFOUND")
    BY <1>1, <1>4, <2>1 DEF cgiEspFsHook, espFsOpen
  <2> HIDE DEF y
  <2> QED  BY <1>2, <2>2, <2>3, ServedBy
<1> QED  BY <1>3, <1>4

(* An upload, in its first call or in a later one.                         *)
Taken(c) == [c EXCEPT !.at = @ + c.buffered]

LEMMA TakenIs ==
    ASSUME NEW c \in Slot
    PROVE  /\ Taken(c) \in Slot /\ Same(c, Taken(c)) /\ (Fresh(c) => Fresh(Taken(c)))
           /\ Taken(c).at = c.at + c.buffered /\ Taken(c).data = c.data /\ Taken(c).cgi = c.cgi
           /\ Taken(c).flags = c.flags /\ Taken(c).buf = c.buf /\ Taken(c).recvHdl = c.recvHdl
PROOF
<1>1. c.at + c.buffered \in Nat
  BY DEF Slot
<1> QED  BY <1>1 DEF Taken, Slot, Same, Fresh

LEMMA TakeIs ==
    ASSUME NEW s \in State, NEW i \in Slots, NEW c \in Slot, NEW h, NEW q, NEW r, NEW b, b = c.buffered
    PROVE  [Into(s, i, c, h, q, r) EXCEPT !.conn[i].at = @ + b] = Into(s, i, Taken(c), h, q, r)
PROOF
<1>1. [Into(s, i, c, h, q, r) EXCEPT !.conn[i].at = @ + b] = Into(s, i, [c EXCEPT !.at = @ + b], h, q, r)
  BY ZenonT(60) DEF Into, State
<1> QED  BY <1>1 DEF Taken

CanStore(c, h) ==
    Fresh(c) /\ c.cgi = "upload" /\ c.len = c.received /\ c.at = c.received /\ c.data \in h
Stores(s, i, c, h, q, r) ==
    \E d \in Slot :
       /\ Release(SendData(Response(Into(s, i, c, h, q, r), i), i, "stored", c.at), i)
              = Into(s, i, d, h \ {c.data}, q, r)
       /\ Same(c, d) /\ Answers(c, d, "DONE")
LEMMA StoredSent ==
    ASSUME NEW s \in State, NEW i \in Slots, NEW c \in Slot, NEW h, NEW q, NEW r, CanStore(c, h)
    PROVE  Stores(s, i, c, h, q, r)
PROOF
<1> USE DEF CanStore
<1> DEFINE b == Headed(c)
           d == Said(b, "stored", c.at)
<1>1. /\ Response(Into(s, i, c, h, q, r), i) = Into(s, i, b, h, q, r)
      /\ b \in Slot
  <2>1. b \in Slot
    BY SaidType DEF Kinds
  <2> QED  BY <2>1, ResponseIs
<1>2. /\ Same(c, b) /\ AnswerTo(c, b.buf) /\ b.cgi = c.cgi /\ b.data = c.data
      /\ b.flags = Kept(c.req) \cup {"body"} /\ ~b.recvHdl
  BY HeadedFields
<1>3. "stored" \in Kinds /\ "stored" \notin {"head", "end"} /\ c.at \in Nat
  BY DEF Kinds, Slot
<1> HIDE DEF b
<1>4. SendData(Into(s, i, b, h, q, r), i, "stored", c.at) = Into(s, i, d, h, q, r)
  BY <1>1, SendIs
<1>5. d \in Slot
  BY <1>1, <1>3, SaidType
<1>6. /\ Same(c, d) /\ AnswerTo(c, d.buf) /\ d.cgi = c.cgi /\ d.flags = b.flags
      /\ d.recvHdl = b.recvHdl /\ d.data = c.data
  BY <1>1, <1>2, <1>3, SaidFields
<1>7. Answers(c, d, "DONE")
  BY <1>2, <1>6 DEF Answers
<1> HIDE DEF d
<1>8. Release(Into(s, i, d, h, q, r), i) = Into(s, i, d, h \ {c.data}, q, r)
  BY <1>6, ReleaseIs
<1> QED  BY <1>1, <1>4, <1>5, <1>6, <1>7, <1>8 DEF Stores

LEMMA UploadServes ==
    ASSUME NEW s \in State, NEW i \in Slots, NEW c \in Slot, NEW h \in Heap,
           NEW q \in Seq(Slots), NEW r \in Res, Fresh(c), c.cgi = "upload", c.data = 0,
           c.buffered = c.received, Handle \ h # {}
    PROVE  ServedIn(s, i, c, h, q, cgiUploadFirmware(Into(s, i, c, h, q, r), i))
PROOF
<1> DEFINE x == Into(s, i, c, h, q, r)
           y == cgiUploadFirmware(x, i)
<1> SUFFICES ServedIn(s, i, c, h, q, y)
  OBVIOUS
<1>1. x.conn[i] = c /\ c.up
  BY IntoIs DEF Fresh
<1>2. "DONE" \in Res /\ "MORE" \in Res
  BY DEF Res
<1>3. PICK f \in Handle \ h : Alloc(Into(s, i, c, h, q, r), i) = Into(s, i, Owning(c, f), h \cup {f}, q, r)
  <2>1. Allocates(s, i, c, h, q, r)
    BY AllocIs
  <2> QED  BY <2>1 DEF Allocates
<1> DEFINE o == Owning(c, f)
           a == Taken(o)
           g == h \cup {f}
<1>4. f \in Handle /\ f # 0 /\ g \in Heap /\ f \in g /\ g \ {f} = h
  BY DEF Handle, Data, Heap
<1>5. o \in Slot /\ Same(c, o) /\ Fresh(o) /\ o.data = f /\ o.at = 0 /\ o.cgi = "upload"
  BY <1>4, AllocServes
<1> HIDE DEF o, g, x
<1>6. /\ a \in Slot /\ Same(o, a) /\ Fresh(a) /\ a.at = o.at + o.buffered /\ a.data = f
      /\ a.cgi = "upload" /\ a.flags = o.flags /\ a.buf = o.buf /\ a.recvHdl = o.recvHdl
  BY <1>5, TakenIs
<1>7. /\ Same(c, a) /\ a.n = c.n /\ a.req = c.req /\ a.buffered = c.buffered /\ a.len = c.len
      /\ a.received = c.received /\ o.buffered = c.buffered
  BY <1>5, <1>6 DEF Same
<1>8. a.at = c.buffered
  BY <1>5, <1>6, <1>7 DEF Slot
<1>9. [Alloc(x, i) EXCEPT !.conn[i].at = @ + c.buffered] = Into(s, i, a, g, q, r)
  <2>1. [Into(s, i, o, g, q, r) EXCEPT !.conn[i].at = @ + c.buffered] = Into(s, i, a, g, q, r)
    BY <1>5, <1>7, TakeIs
  <2>2. Alloc(x, i) = Into(s, i, o, g, q, r)
    BY <1>3 DEF o, g, x
  <2> QED  BY <2>1, <2>2
<1> HIDE DEF a
<1>10. Into(s, i, a, g, q, r).conn[i] = a
  BY IntoIs
<1>11. CASE c.len = c.received
  <2>1. PICK d \in Slot :
           /\ Release(SendData(Response(Into(s, i, a, g, q, r), i), i, "stored", a.at), i)
                  = Into(s, i, d, g \ {a.data}, q, r)
           /\ Same(a, d) /\ Answers(a, d, "DONE")
    <3>1. CanStore(a, g)
      BY <1>4, <1>6, <1>7, <1>8, <1>11 DEF g, CanStore
    <3>2. s \in State /\ i \in Slots /\ a \in Slot
      BY <1>6
    <3>3. Stores(s, i, a, g, q, r)
      BY ONLY <3>1, <3>2, StoredSent
    <3> QED  BY <3>3 DEF Stores
  <2>2. Result(Into(s, i, d, h, q, r), "DONE") = Into(s, i, d, h, q, "DONE")
    BY ResultIs
  <2>3. y = Into(s, i, d, h, q, "DONE")
    <3>1. g \ {a.data} = h
      BY <1>4, <1>6
    <3> QED  BY <1>1, <1>9, <1>10, <1>11, <2>1, <2>2, <3>1 DEF cgiUploadFirmware
  <2>4. Same(c, d) /\ Served(c, h, q, i, d, h, q, "DONE")
    BY <1>7, <2>1 DEF Same, Served, Answers, AnswerTo
  <2> HIDE DEF y
  <2> QED  BY <1>2, <2>3, <2>4, ServedBy
<1>12. CASE c.len # c.received
  <2>1. Result(Into(s, i, a, g, q, r), "MORE") = Into(s, i, a, g, q, "MORE")
    BY ResultIs
  <2>2. y = Into(s, i, a, g, q, "MORE")
    BY <1>1, <1>9, <1>12, <2>1 DEF cgiUploadFirmware
  <2>3. Served(c, h, q, i, a, g, q, "MORE")
    BY <1>4, <1>6, <1>7, <1>8, <1>12 DEF Served, Takes, Holds, Fresh, g
  <2> HIDE DEF y
  <2> QED  BY <1>2, <1>4, <1>6, <1>7, <2>2, <2>3, ServedBy
<1> QED  BY <1>11, <1>12

(* What was written to a connection: the answers, whole and in turn.       *)
Whole(A) ==
    /\ \A k \in 1 .. Len(A) : (A[k][2] = "head") <=> (k = 1 \/ A[k - 1][1] < A[k][1])
    /\ \A k \in 1 .. Len(A) - 1 : A[k][1] <= A[k + 1][1]
UpTo(A, n)   == \A k \in 1 .. Len(A) : A[k][1] <= n
Before(A, n) == \A k \in 1 .. Len(A) : A[k][1] < n
Begun(A, n)  == A # <<>> /\ A[Len(A)][1] = n
NoEnd(A, n)  == \A k \in 1 .. Len(A) : A[k][1] = n => A[k][2] # "end"
Stored(A, n, b) == \A k \in 1 .. Len(A) : A[k][1] = n /\ A[k][2] = "stored" => A[k][3] = b

\* More parts of the answer to request n, the first of them its head.
Continues(A, n, b) ==
    /\ UpTo(A, n) /\ (Before(A, n) \/ Begun(A, n))
    /\ \A k \in 1 .. Len(b) : b[k][1] = n /\ (b[k][2] = "head" <=> k = 1 /\ Before(A, n))

LEMMA CatIs ==
    ASSUME NEW P, NEW A \in Seq(P), NEW b \in Seq(P)
    PROVE  /\ A \o b \in Seq(P) /\ Len(A \o b) = Len(A) + Len(b)
           /\ \A k \in 1 .. Len(A) : (A \o b)[k] = A[k]
           /\ \A k \in 1 .. Len(b) : (A \o b)[Len(A) + k] = b[k]
           /\ Len(A) \in Nat /\ Len(b) \in Nat
PROOF
  OBVIOUS

(* Where a part of both is, in one or in the other.                        *)
LEMMA CatPart ==
    ASSUME NEW P, NEW A \in Seq(P), NEW b \in Seq(P), NEW k \in 1 .. Len(A \o b)
    PROVE  \/ k \in 1 .. Len(A) /\ (A \o b)[k] = A[k]
           \/ \E j \in 1 .. Len(b) : k = Len(A) + j /\ (A \o b)[k] = b[j]
PROOF
<1>1. k \in 1 .. Len(A) \/ (k - Len(A) \in 1 .. Len(b) /\ k = Len(A) + (k - Len(A)))
  BY CatIs
<1> QED  BY <1>1, CatIs

LEMMA PartNumber ==
    ASSUME NEW A \in Seq(Part), NEW k \in 1 .. Len(A)
    PROVE  A[k] \in Part /\ A[k][1] \in Nat /\ A[k][2] \in Kinds /\ A[k][3] \in Nat
PROOF
<1>1. A[k] \in Part
  OBVIOUS
<1> QED  BY <1>1 DEF Part

LEMMA WholeCat ==
    ASSUME NEW A \in Seq(Part), NEW b \in Seq(Part), NEW n \in Nat, Whole(A), Continues(A, n, b), b # <<>>
    PROVE  Whole(A \o b) /\ Begun(A \o b, n) /\ UpTo(A \o b, n)
PROOF
<1> DEFINE C == A \o b
           l == Len(A)
           m == Len(b)
<1>1. /\ Len(C) = l + m /\ l \in Nat /\ m \in Nat /\ m >= 1
      /\ \A k \in 1 .. l : C[k] = A[k]
      /\ \A k \in 1 .. m : C[l + k] = b[k]
      /\ C # <<>>
  BY CatIs
<1>2. \A k \in 1 .. l : A[k][1] \in Nat /\ A[k][1] <= n
  BY PartNumber DEF Continues, UpTo
<1>3. \A k \in 1 .. m : b[k][1] = n /\ (b[k][2] = "head" <=> k = 1 /\ Before(A, n))
  BY DEF Continues
<1>4. /\ \A k \in 1 .. l : (A[k][2] = "head") <=> (k = 1 \/ A[k - 1][1] < A[k][1])
      /\ \A k \in 1 .. l - 1 : A[k][1] <= A[k + 1][1]
  BY DEF Whole
<1>5. (Before(A, n) /\ \A k \in 1 .. l : A[k][1] < n) \/ (~Before(A, n) /\ l >= 1 /\ A[l][1] = n)
  <2>1. CASE Before(A, n)
    BY <2>1 DEF Before
  <2>2. CASE ~Before(A, n)
    <3>1. Begun(A, n)
      BY <2>2 DEF Continues
    <3> QED  BY <2>2, <3>1 DEF Begun
  <2> QED  BY <2>1, <2>2
<1> HIDE DEF C, l, m
<1>6. ASSUME NEW k \in 1 .. Len(C)
      PROVE  (C[k][2] = "head") <=> (k = 1 \/ C[k - 1][1] < C[k][1])
  <2>1. CASE k <= l
    <3>1. k \in 1 .. l /\ (k # 1 => k - 1 \in 1 .. l)
      BY <1>1, <2>1
    <3>2. C[k] = A[k] /\ (k # 1 => C[k - 1] = A[k - 1])
      BY <1>1, <3>1
    <3> QED  BY <1>4, <3>1, <3>2
  <2>2. CASE k = l + 1
    <3>1. C[k] = b[1] /\ 1 \in 1 .. m
      BY <1>1, <2>2
    <3>2. (C[k][2] = "head" <=> Before(A, n)) /\ C[k][1] = n
      BY <1>3, <3>1
    <3>3. CASE l = 0
      <4>1. Before(A, n) /\ k = 1
        BY <1>1, <1>5, <2>2, <3>3
      <4> QED  BY <3>2, <4>1
    <3>4. CASE l # 0
      <4>1. C[k - 1] = A[l] /\ l \in 1 .. l /\ k # 1
        BY <1>1, <2>2, <3>4
      <4>2. A[l][1] \in Nat /\ (Before(A, n) <=> A[l][1] < n)
        BY <1>2, <1>5, <4>1
      <4> QED  BY <3>2, <4>1, <4>2
    <3> QED  BY <3>3, <3>4
  <2>3. CASE k > l + 1
    <3>1. k - l \in 1 .. m /\ k - 1 - l \in 1 .. m /\ k = l + (k - l) /\ k - 1 = l + (k - 1 - l)
          /\ k # 1 /\ k - l # 1
      BY <1>1, <2>3
    <3>2. C[k] = b[k - l] /\ C[k - 1] = b[k - 1 - l]
      BY <1>1, <3>1
    <3>3. C[k][1] = n /\ C[k - 1][1] = n /\ C[k][2] # "head"
      BY <1>3, <3>1, <3>2
    <3> QED  BY <3>1, <3>3
  <2> QED  BY <1>1, <2>1, <2>2, <2>3
<1>7. ASSUME NEW k \in 1 .. Len(C)
      PROVE  C[k][1] \in Nat /\ C[k][1] <= n /\ (k > l => C[k][1] = n)
  <2>1. CASE k <= l
    BY <1>1, <1>2, <2>1
  <2>2. CASE k > l
    <3>1. k - l \in 1 .. m /\ k = l + (k - l)
      BY <1>1, <2>2
    <3> QED  BY <1>1, <1>3, <3>1, SMTT(40)
  <2> QED  BY <1>1, <2>1, <2>2
<1>8. ASSUME NEW k \in 1 .. Len(C) - 1
      PROVE  C[k][1] <= C[k + 1][1]
  <2>1. k \in 1 .. Len(C) /\ k + 1 \in 1 .. Len(C)
    BY <1>1
  <2>2. CASE k + 1 <= l
    <3>1. k \in 1 .. l - 1 /\ C[k] = A[k] /\ C[k + 1] = A[k + 1]
      BY <1>1, <2>1, <2>2
    <3> QED  BY <1>4, <3>1
  <2>3. CASE k + 1 > l
    BY <1>7, <2>1, <2>3
  <2> QED  BY <1>1, <2>2, <2>3
<1>9. Whole(C)
  BY <1>6, <1>8 DEF Whole
<1>10. Begun(C, n)
  <2>1. Len(C) \in 1 .. Len(C) /\ Len(C) > l
    BY <1>1
  <2> QED  BY <1>1, <1>7, <2>1 DEF Begun
<1>11. UpTo(C, n)
  BY <1>7 DEF UpTo
<1> QED  BY <1>9, <1>10, <1>11 DEF C

LEMMA NoEndCat ==
    ASSUME NEW A \in Seq(Part), NEW b \in Seq(Part), NEW n, NoEnd(A, n), NoEnd(b, n)
    PROVE  NoEnd(A \o b, n)
PROOF
<1> SUFFICES ASSUME NEW k \in 1 .. Len(A \o b), (A \o b)[k][1] = n
             PROVE  (A \o b)[k][2] # "end"
  BY DEF NoEnd
<1> QED  BY CatPart DEF NoEnd

LEMMA StoredCat ==
    ASSUME NEW A \in Seq(Part), NEW b \in Seq(Part), NEW n, NEW v, Stored(A, n, v), Stored(b, n, v)
    PROVE  Stored(A \o b, n, v)
PROOF
<1> SUFFICES ASSUME NEW k \in 1 .. Len(A \o b), (A \o b)[k][1] = n, (A \o b)[k][2] = "stored"
             PROVE  (A \o b)[k][3] = v
  BY DEF Stored
<1> QED  BY CatPart DEF Stored

(* What is written up to a request says nothing of the next.               *)
LEMMA BeforeIs ==
    ASSUME NEW A \in Seq(Part), NEW n \in Nat, Before(A, n)
    PROVE  UpTo(A, n) /\ NoEnd(A, n) /\ \A v : Stored(A, n, v)
PROOF
<1>1. \A k \in 1 .. Len(A) : A[k][1] \in Nat /\ A[k][1] < n
  BY PartNumber DEF Before
<1> QED  BY <1>1 DEF UpTo, NoEnd, Stored

LEMMA UpToIs ==
    ASSUME NEW A \in Seq(Part), NEW n \in Nat, UpTo(A, n)
    PROVE  Before(A, n + 1)
PROOF
<1>1. \A k \in 1 .. Len(A) : A[k][1] \in Nat /\ A[k][1] <= n
  BY PartNumber DEF UpTo
<1> QED  BY <1>1 DEF Before

(* What a connection is at, seen from its slot c, from what the SDK and    *)
(* its client have of it, t, from what was written to it, A, and from the  *)
(* units that are still to come, u.                                        *)
Bodies(b) == [k \in 1 .. b |-> "body"]
Blank(c) == /\ c.len = -1 /\ c.cgi = "none" /\ c.flags = {} /\ c.received = 0
            /\ c.buffered = 0 /\ ~c.recvHdl
Resting(c, t, A, u) ==
    Blank(c) /\ t.state = "UP" /\ u = <<>> /\ c.n = t.n /\ ~IsSocket(t.asked) /\ UpTo(A, c.n)
Calling(p, c, t, A, u) ==
    /\ Blank(c) /\ c.buf = <<>> /\ t.state = "UP" /\ t.n = c.n + 1 /\ t.out = <<>>
    /\ t.asked \in Requests[p] /\ u = <<"headers">> \o Bodies(t.asked.body) /\ UpTo(A, c.n)
Gathering(p, c, t, A, u) ==
    /\ c.req = t.asked /\ t.asked \in Requests[p] /\ c.n > 0 /\ c.n = t.n /\ c.buf = <<>>
    /\ c.len = c.req.body /\ c.received < c.len /\ u = Bodies(c.len - c.received)
    /\ c.flags = Kept(c.req) /\ ~c.recvHdl /\ t.state = "UP" /\ t.out = <<>>
    /\ Before(A, c.n)
    /\ \/ c.cgi = "none" /\ c.buffered = c.received /\ c.received < PostLen
       \/ c.cgi = "upload" /\ c.at + c.buffered = c.received
Answering(c, t, A) ==
    c.len >= 0 /\ c.n > 0 /\ c.n = t.n /\ Begun(A, c.n) /\ UpTo(A, c.n) /\ NoEnd(A, c.n)
Reading(c, t, A, u) ==
    /\ Answering(c, t, A)
    /\ c.cgi = "file" /\ c.flags = {"body"} \cup Kept(c.req) /\ ~c.recvHdl
    /\ t.state = "UP" /\ ~IsSocket(t.asked) /\ u = <<>>
FramesTo(p, t, u) ==
    \A k \in 1 .. Len(u) : \/ u[k] = "ping"
                           \/ u[k] = "close" /\ k = Len(u) /\ t.frames >= MaxFrames[p]
Open(p, c, t, A, u) ==
    /\ Answering(c, t, A)
    /\ c.cgi = "socket" /\ c.flags = {"body"} /\ c.recvHdl /\ c.len = 0
    /\ t.state = "UP" /\ FramesTo(p, t, u)
Ending(p, c, t, A, u) ==
    /\ Answering(c, t, A)
    /\ c.cgi = "none" /\ c.flags = {"body", "close"}
    /\ t.state \in {"UP", "CLOSING"} /\ (IsSocket(t.asked) => t.frames >= MaxFrames[p])
    /\ u = <<>>
Quiet(p, c, t, A, u) == Calling(p, c, t, A, u) \/ Gathering(p, c, t, A, u)
Talking(p, c, t, A, u) ==
    Resting(c, t, A, u) \/ Reading(c, t, A, u) \/ Open(p, c, t, A, u) \/ Ending(p, c, t, A, u)
Proper(t, A) == Whole(A) /\ Stored(A, t.n, t.asked.body)
Serving(p, c, t, A, u) == Proper(t, A) /\ (Quiet(p, c, t, A, u) \/ Talking(p, c, t, A, u))

(* In a callback: what is in the buffer counts as written, if it will be sent. *)
Ready(t) == t.state = "UP" /\ t.out = <<>>
InCall(p, c, t, A, u) ==
    /\ Serving(p, c, t, A \o c.buf, u)
    /\ c.buf = <<>> \/ Ready(t) \/ Serving(p, c, t, A, u)

\* What a flush leaves of the slot and of the SDK's connection.
AlikeSlot(c, d) ==
    /\ d.peer = c.peer /\ d.up = c.up /\ d.len = c.len /\ d.received = c.received
    /\ d.buffered = c.buffered /\ d.n = c.n /\ d.req = c.req /\ d.flags = c.flags
    /\ d.cgi = c.cgi /\ d.data = c.data /\ d.at = c.at /\ d.recvHdl = c.recvHdl
AlikeTcp(t, v) ==
    v.state = t.state /\ v.coming = t.coming /\ v.asked = t.asked /\ v.n = t.n /\ v.frames = t.frames

LEMMA TalkingAlike ==
    ASSUME NEW p, NEW c, NEW d, NEW t, NEW v, NEW A, NEW u, Proper(t, A), Talking(p, c, t, A, u),
           AlikeSlot(c, d), AlikeTcp(t, v)
    PROVE  Proper(v, A) /\ Talking(p, d, v, A, u)
PROOF
<1>1. Proper(v, A)
  BY DEF Proper, AlikeTcp
<1>2. CASE Resting(c, t, A, u)
  BY <1>1, <1>2 DEF Talking, Resting, Blank, AlikeSlot, AlikeTcp
<1>3. CASE Reading(c, t, A, u)
  BY <1>1, <1>3 DEF Talking, Reading, Answering, AlikeSlot, AlikeTcp
<1>4. CASE Open(p, c, t, A, u)
  <2>1. FramesTo(p, v, u)
    BY <1>4 DEF Open, FramesTo, AlikeTcp
  <2> QED  BY <1>1, <1>4, <2>1 DEF Talking, Open, Answering, AlikeSlot, AlikeTcp
<1>5. CASE Ending(p, c, t, A, u)
  BY <1>1, <1>5 DEF Talking, Ending, Answering, AlikeSlot, AlikeTcp
<1> QED  BY <1>1, <1>2, <1>3, <1>4, <1>5 DEF Talking

(* The last part of a chunked answer is only sent when the request is done. *)
LEMMA ServingLast ==
    ASSUME NEW p, NEW c, NEW t, NEW A, NEW u, Serving(p, c, t, A, u)
    PROVE  /\ LastPart(c) = <<>>
           /\ c.buf # <<>> => Talking(p, c, t, A, u)
PROOF
<1>1. "body" \in c.flags => c.cgi # "none" \/ "chunked" \notin c.flags
  BY DEF Serving, Quiet, Talking, Resting, Calling, Gathering, Reading, Open, Ending, Blank, Kept
<1> QED  BY <1>1 DEF LastPart, Serving, Quiet, Calling, Gathering

LEMMA InCallSent ==
    ASSUME NEW p, NEW c \in Slot, NEW d, NEW t, NEW v, NEW A \in Seq(Part), NEW u,
           InCall(p, c, t, A, u), c.buf # <<>>, AlikeSlot(c, d), AlikeTcp(t, v)
    PROVE  Serving(p, d, v, A \o Flushed(c), u)
PROOF
<1>1. Serving(p, c, t, A \o c.buf, u)
  BY DEF InCall
<1>2. LastPart(c) = <<>> /\ Talking(p, c, t, A \o c.buf, u)
  BY <1>1, ServingLast
<1>3. Flushed(c) = c.buf
  <2>1. c.buf \in Seq(Part)
    BY DEF Slot
  <2> QED  BY <1>2, <2>1, JoinNothing DEF Flushed
<1> QED  BY <1>1, <1>2, <1>3, TalkingAlike DEF Serving

LEMMA InCallDropped ==
    ASSUME NEW p, NEW c, NEW d, NEW t, NEW A, NEW u, InCall(p, c, t, A, u), c.buf # <<>>, ~Ready(t),
           AlikeSlot(c, d)
    PROVE  Serving(p, d, t, A, u)
PROOF
<1>1. Serving(p, c, t, A, u)
  BY DEF InCall
<1>2. Talking(p, c, t, A, u) /\ AlikeTcp(t, t)
  BY <1>1, ServingLast DEF AlikeTcp
<1> QED  BY <1>1, <1>2, TalkingAlike DEF Serving

LEMMA InCallEmpty ==
    ASSUME NEW p, NEW c, NEW t, NEW A \in Seq(Part), NEW u, InCall(p, c, t, A, u), c.buf = <<>>
    PROVE  Serving(p, c, t, A, u) /\ Flushed(c) = <<>>
PROOF
<1>1. A \o c.buf = A
  BY JoinNothing
<1>2. Serving(p, c, t, A, u)
  BY <1>1 DEF InCall
<1>3. LastPart(c) = <<>>
  BY <1>2, ServingLast
<1>4. <<>> \o <<>> = <<>>
  OBVIOUS
<1> QED  BY <1>2, <1>3, <1>4 DEF Flushed

(* What an answer adds.                                                    *)
Plain(b, n) == \A k \in 1 .. Len(b) : b[k][1] = n /\ b[k][2] \notin {"head", "end", "stored"}

LEMMA AnswerMore ==
    ASSUME NEW c \in Slot, NEW t, NEW A \in Seq(Part), NEW b \in Seq(Part),
           Proper(t, A), Answering(c, t, A), Plain(b, c.n)
    PROVE  Proper(t, A \o b) /\ Answering(c, t, A \o b)
PROOF
<1>1. CASE b = <<>>
  BY <1>1, JoinNothing
<1>2. CASE b # <<>>
  <2>1. c.n \in Nat /\ t.n = c.n
    BY DEF Slot, Answering
  <2>2. Whole(A) /\ Stored(A, c.n, t.asked.body) /\ NoEnd(A, c.n) /\ UpTo(A, c.n) /\ Begun(A, c.n)
    BY <2>1 DEF Proper, Answering
  <2>3. ~Before(A, c.n)
    <3>1. Len(A) \in 1 .. Len(A) /\ A[Len(A)][1] = c.n
      BY <2>2 DEF Begun
    <3> QED  BY <2>1, <3>1 DEF Before
  <2>4. Continues(A, c.n, b)
    BY <2>2, <2>3 DEF Continues, Plain
  <2>5. NoEnd(b, c.n) /\ Stored(b, c.n, t.asked.body)
    BY DEF NoEnd, Stored, Plain
  <2>6. Whole(A \o b) /\ Begun(A \o b, c.n) /\ UpTo(A \o b, c.n)
    BY <1>2, <2>1, <2>2, <2>4, WholeCat
  <2>7. NoEnd(A \o b, c.n)
    BY <2>2, <2>5, NoEndCat
  <2>8. Stored(A \o b, c.n, t.asked.body)
    BY <2>2, <2>5, StoredCat
  <2> QED  BY <2>1, <2>6, <2>7, <2>8 DEF Proper, Answering
<1> QED  BY <1>1, <1>2

LEMMA AnswerBegins ==
    ASSUME NEW c \in Slot, NEW t, NEW A \in Seq(Part), NEW b, Whole(A), Before(A, c.n), c.n > 0,
           c.n = t.n, c.len >= 0, AnswerTo(c, b), c.received = t.asked.body
    PROVE  Proper(t, A \o b) /\ Answering(c, t, A \o b)
PROOF
<1>1. c.n \in Nat /\ UpTo(A, c.n) /\ NoEnd(A, c.n) /\ Stored(A, c.n, t.asked.body)
  <2>1. c.n \in Nat
    BY DEF Slot
  <2> QED  BY <2>1, BeforeIs
<1>2. b \in Seq(Part) /\ b # <<>>
  BY DEF AnswerTo
<1>3. \A k \in 1 .. Len(b) :
         /\ b[k][1] = c.n /\ (b[k][2] = "head" <=> k = 1)
         /\ b[k][2] # "end"
         /\ b[k][2] = "stored" => b[k][3] = t.asked.body
  <2> SUFFICES ASSUME NEW k \in 1 .. Len(b)
               PROVE  /\ b[k][1] = c.n /\ (b[k][2] = "head" <=> k = 1)
                      /\ b[k][2] # "end"
                      /\ b[k][2] = "stored" => b[k][3] = t.asked.body
    OBVIOUS
  <2>1. CASE k = 1
    BY <2>1 DEF AnswerTo
  <2>2. CASE k # 1
    <3>1. k \in 2 .. Len(b)
      BY <1>2, <2>2
    <3> QED  BY <2>2, <3>1 DEF AnswerTo
  <2> QED  BY <2>1, <2>2
<1>4. Continues(A, c.n, b) /\ NoEnd(b, c.n) /\ Stored(b, c.n, t.asked.body)
  BY <1>1, <1>3 DEF Continues, NoEnd, Stored
<1>5. Whole(A \o b) /\ Begun(A \o b, c.n) /\ UpTo(A \o b, c.n)
  BY <1>1, <1>2, <1>4, WholeCat
<1>6. NoEnd(A \o b, c.n) /\ Stored(A \o b, c.n, t.asked.body)
  BY <1>1, <1>2, <1>4, NoEndCat, StoredCat
<1> QED  BY <1>5, <1>6 DEF Proper, Answering

(* The part that ends a chunked answer.                                    *)
LEMMA AnswerEnds ==
    ASSUME NEW c \in Slot, NEW t, NEW A \in Seq(Part), Proper(t, A), Answering(c, t, A)
    PROVE  LET e == <<<<c.n, "end", 0>>>>
           IN e \in Seq(Part) /\ Proper(t, A \o e) /\ UpTo(A \o e, c.n)
PROOF
<1> DEFINE x == <<c.n, "end", 0>>
           e == <<x>>
<1>1. c.n \in Nat /\ t.n = c.n
  BY DEF Slot, Answering
<1>2. x \in Part /\ x[1] = c.n /\ x[2] = "end"
  BY <1>1 DEF Part, Kinds
<1> HIDE DEF x
<1>3. e \in Seq(Part) /\ Len(e) = 1 /\ e[1] = x /\ e # <<>>
  BY <1>2
<1> HIDE DEF e
<1>4. Whole(A) /\ Stored(A, c.n, t.asked.body) /\ UpTo(A, c.n) /\ Begun(A, c.n)
  BY <1>1 DEF Proper, Answering
<1>5. ~Before(A, c.n)
  <2>1. Len(A) \in 1 .. Len(A) /\ A[Len(A)][1] = c.n
    BY <1>4 DEF Begun
  <2> QED  BY <1>1, <2>1 DEF Before
<1>6. Continues(A, c.n, e) /\ Stored(e, c.n, t.asked.body)
  BY <1>2, <1>3, <1>4, <1>5 DEF Continues, Stored
<1>7. Whole(A \o e) /\ UpTo(A \o e, c.n) /\ Stored(A \o e, c.n, t.asked.body)
  BY <1>1, <1>3, <1>4, <1>6, WholeCat, StoredCat
<1>8. e \in Seq(Part) /\ Proper(t, A \o e) /\ UpTo(A \o e, c.n)
  BY <1>1, <1>3, <1>7 DEF Proper
<1> QED  BY <1>8 DEF e, x

(* What a callback for slot i leaves alone of server b.                    *)
Beside(b, i, x) ==
    /\ \A j \in Slots \ {i} : x.conn[j] = b.conn[j]
    /\ x.conn[i].peer = b.conn[i].peer /\ x.conn[i].up = b.conn[i].up
    /\ \A q \in Peers \ {b.conn[i].peer} : x.tcp[q] = b.tcp[q] /\ x.answer[q] = b.answer[q]
    /\ AlikeTcp(b.tcp[b.conn[i].peer], x.tcp[b.conn[i].peer])

(* The websockets in order, each once; what slot i uses, when the others   *)
(* have the handles H and the websockets S.                                *)
Lists(q, S) ==
    /\ q \in Seq(Slots) /\ ToSet(q) = S
    /\ \A k, l \in 1 .. Len(q) : q[k] = q[l] => k = l
Uses(c, i, h, q, H, S) ==
    \/ c.cgi = "none" /\ h = H /\ Lists(q, S)
    \/ c.cgi \in {"file", "upload"} /\ Holds(c, H, h) /\ Lists(q, S)
    \/ c.cgi = "socket" /\ Holds(c, H, h) /\ Lists(q, S \cup {i})

TcpOf(s, i) == s.tcp[s.conn[i].peer]
Sent(s, i) == s.answer[s.conn[i].peer]
\* In a callback for slot i, with b as it was found; and once the buffer is flushed.
Runs(b, i, x, H, S) ==
    /\ Good(x) /\ x.conn[i].up /\ Beside(b, i, x)
    /\ Uses(x.conn[i], i, x.handles, x.sockets, H, S)
During(b, i, x, H, S, u) ==
    Runs(b, i, x, H, S) /\ InCall(x.conn[i].peer, x.conn[i], TcpOf(x, i), Sent(x, i), u)
After(b, i, x, H, S, u) ==
    /\ Runs(b, i, x, H, S) /\ x.conn[i].buf = <<>>
    /\ Serving(x.conn[i].peer, x.conn[i], TcpOf(x, i), Sent(x, i), u)

LEMMA AlikeTcpIs ==
    ASSUME NEW t, NEW v, NEW w
    PROVE  AlikeTcp(t, t) /\ (AlikeTcp(t, v) /\ AlikeTcp(v, w) => AlikeTcp(t, w))
PROOF
  BY DEF AlikeTcp

LEMMA BesideTwice ==
    ASSUME NEW b, NEW i, NEW x, NEW y, Beside(b, i, x), Beside(x, i, y)
    PROVE  Beside(b, i, y)
PROOF
<1>1. x.conn[i].peer = b.conn[i].peer
  BY DEF Beside
<1>2. AlikeTcp(b.tcp[b.conn[i].peer], y.tcp[b.conn[i].peer])
  BY <1>1, AlikeTcpIs DEF Beside
<1> QED  BY <1>1, <1>2 DEF Beside

LEMMA BesideSelf == ASSUME NEW b, NEW i PROVE Beside(b, i, b)
PROOF
  BY AlikeTcpIs DEF Beside

LEMMA BesideInto ==
    ASSUME NEW s \in State, NEW i \in Slots, NEW c, NEW h, NEW q, NEW r, c.peer = s.conn[i].peer,
           c.up = s.conn[i].up
    PROVE  Beside(s, i, Into(s, i, c, h, q, r))
PROOF
<1>1. AlikeTcp(s.tcp[s.conn[i].peer], s.tcp[s.conn[i].peer])
  BY AlikeTcpIs
<1> QED  BY <1>1, IntoIs, IntoElsewhere DEF Beside

LEMMA WriteIs ==
    ASSUME NEW s \in State, NEW i \in Slots, NEW d
    PROVE  [s EXCEPT !.conn[i] = d] = Into(s, i, d, s.handles, s.sockets, s.res)
PROOF
  BY DEF Into, State

LEMMA PutFields ==
    ASSUME NEW s \in State, NEW i \in Slots, NEW d, NEW t, NEW A, s.conn[i].peer \in Peers
    PROVE  /\ Put(s, i, d, t, A).conn[i] = d
           /\ Put(s, i, d, t, A).tcp[s.conn[i].peer] = t
           /\ Put(s, i, d, t, A).answer[s.conn[i].peer] = A
           /\ Put(s, i, d, t, A).handles = s.handles
           /\ Put(s, i, d, t, A).sockets = s.sockets
           /\ Put(s, i, d, t, A).res = s.res
PROOF
  BY DEF Put, State

LEMMA PutBeside ==
    ASSUME NEW s \in State, NEW i \in Slots, NEW d, NEW t, NEW A, s.conn[i].peer \in Peers,
           d.peer = s.conn[i].peer, d.up = s.conn[i].up, AlikeTcp(s.tcp[s.conn[i].peer], t)
    PROVE  Beside(s, i, Put(s, i, d, t, A))
PROOF
<1> DEFINE x == Put(s, i, d, t, A)
<1>1. /\ \A j \in Slots \ {i} : x.conn[j] = s.conn[j]
      /\ \A q \in Peers \ {s.conn[i].peer} : x.tcp[q] = s.tcp[q] /\ x.answer[q] = s.answer[q]
  BY DEF Put, State
<1>2. x.conn[i] = d /\ x.tcp[s.conn[i].peer] = t
  BY PutFields
<1> HIDE DEF x
<1>3. Beside(s, i, x)
  BY <1>1, <1>2 DEF Beside
<1> QED  BY <1>3 DEF x

(* Flushing.                                                               *)
Flushes(s, i, x, u) ==
    /\ Beside(s, i, x) /\ AlikeSlot(s.conn[i], x.conn[i]) /\ x.conn[i].buf = <<>>
    /\ x.handles = s.handles /\ x.sockets = s.sockets /\ x.res = s.res
    /\ Serving(x.conn[i].peer, x.conn[i], TcpOf(x, i), Sent(x, i), u)

LEMMA BuffersAlike ==
    ASSUME NEW c \in Slot, NEW data
    PROVE  /\ AlikeSlot(c, Emptied(c)) /\ Emptied(c).buf = <<>>
           /\ AlikeSlot(c, Queued(c, data)) /\ Queued(c, data).buf = <<>>
           /\ Emptied(c).peer = c.peer /\ Emptied(c).up = c.up
           /\ Queued(c, data).peer = c.peer /\ Queued(c, data).up = c.up
PROOF
  BY DEF AlikeSlot, Emptied, Queued, Slot

LEMMA SendingAlike == ASSUME NEW t \in Tcp, NEW data PROVE AlikeTcp(t, Sending(t, data))
PROOF
  BY DEF AlikeTcp, Sending, Tcp

LEMMA FlushServes ==
    ASSUME NEW s, NEW i \in Slots, Good(s), s.conn[i].up, NEW u,
           InCall(s.conn[i].peer, s.conn[i], TcpOf(s, i), Sent(s, i), u)
    PROVE  Flushes(s, i, httpdFlushSendBuffer(s, i), u)
PROOF
<1> DEFINE c == s.conn[i]
           p == c.peer
           t == s.tcp[p]
           A == s.answer[p]
           x == httpdFlushSendBuffer(s, i)
<1> SUFFICES Flushes(s, i, x, u)
  OBVIOUS
<1>1. s \in State /\ p \in Peers /\ c \in Slot /\ t \in Tcp /\ A \in Seq(Part)
  BY GoodSlot DEF Good
<1>2. InCall(p, c, t, A, u)
  BY DEF TcpOf, Sent
<1>3. \/ (~c.up \/ Flushed(c) = <<>>) /\ x = s
      \/ /\ c.up /\ Flushed(c) # <<>> /\ t.state = "UP" /\ t.out = <<>>
         /\ x = Put(s, i, Emptied(c), Sending(t, Flushed(c)), A \o Flushed(c))
      \/ /\ c.up /\ Flushed(c) # <<>> /\ ~(t.state = "UP" /\ t.out = <<>>)
         /\ Len(c.backlog) = MaxBacklog
         /\ x = [s EXCEPT !.conn[i] = Emptied(c)]
      \/ /\ c.up /\ Flushed(c) # <<>> /\ ~(t.state = "UP" /\ t.out = <<>>)
         /\ Len(c.backlog) # MaxBacklog
         /\ x = Put(s, i, Queued(c, Flushed(c)), t, A \o Flushed(c))
  BY <1>1, FlushIs
<1>4. c.buf = <<>> => Serving(p, c, t, A, u) /\ Flushed(c) = <<>>
  BY <1>1, <1>2, InCallEmpty
<1>5. c.buf # <<>> => Flushed(c) # <<>>
  <2>1. c.buf # <<>> => LastPart(c) = <<>>
    BY <1>2, ServingLast DEF InCall
  <2>2. c.buf \in Seq(Part)
    BY <1>1 DEF Slot
  <2>3. c.buf \o <<>> = c.buf
    BY <2>2, JoinNothing
  <2> QED  BY <2>1, <2>3 DEF Flushed
<1>6. /\ AlikeSlot(c, Emptied(c)) /\ Emptied(c).buf = <<>>
      /\ AlikeSlot(c, Queued(c, Flushed(c))) /\ Queued(c, Flushed(c)).buf = <<>>
      /\ Emptied(c).peer = p /\ Emptied(c).up = c.up
      /\ Queued(c, Flushed(c)).peer = p /\ Queued(c, Flushed(c)).up = c.up
  BY <1>1, BuffersAlike
<1>7. c.up
  OBVIOUS
<1> HIDE DEF x
<1>8. CASE c.buf = <<>>
  <2>1. x = s
    BY <1>3, <1>4, <1>8
  <2>2. AlikeSlot(c, c)
    BY DEF AlikeSlot
  <2> QED  BY <1>4, <1>8, <2>1, <2>2, BesideSelf DEF Flushes, TcpOf, Sent
<1>9. CASE c.buf # <<>> /\ t.state = "UP" /\ t.out = <<>>
  <2> DEFINE d == Emptied(c)
             v == Sending(t, Flushed(c))
             B == A \o Flushed(c)
  <2>1. x = Put(s, i, d, v, B)
    BY <1>3, <1>5, <1>7, <1>9
  <2>2. AlikeTcp(t, v)
    BY <1>1, SendingAlike
  <2>3. Serving(p, d, v, B, u)
    BY <1>1, <1>2, <1>6, <1>9, <2>2, InCallSent
  <2> HIDE DEF d, v, B
  <2>4. /\ x.conn[i] = d /\ x.tcp[p] = v /\ x.answer[p] = B
        /\ x.handles = s.handles /\ x.sockets = s.sockets /\ x.res = s.res
    BY <1>1, <2>1, PutFields
  <2>5. Beside(s, i, x)
    BY <1>1, <1>6, <2>1, <2>2, PutBeside DEF d
  <2> QED  BY <1>6, <2>3, <2>4, <2>5 DEF Flushes, TcpOf, Sent, d
<1>10. CASE c.buf # <<>> /\ ~(t.state = "UP" /\ t.out = <<>>)
  <2>1. \/ x = [s EXCEPT !.conn[i] = Emptied(c)]
        \/ x = Put(s, i, Queued(c, Flushed(c)), t, A \o Flushed(c))
    BY <1>3, <1>5, <1>7, <1>10
  <2>2. CASE x = [s EXCEPT !.conn[i] = Emptied(c)]
    <3> DEFINE d == Emptied(c)
    <3>1. Serving(p, d, t, A, u)
      BY <1>2, <1>6, <1>10, InCallDropped DEF Ready
    <3>2. x = Into(s, i, d, s.handles, s.sockets, s.res)
      BY <1>1, <2>2, WriteIs
    <3> HIDE DEF d
    <3>3. /\ x.conn[i] = d /\ x.tcp = s.tcp /\ x.answer = s.answer
          /\ x.handles = s.handles /\ x.sockets = s.sockets /\ x.res = s.res
      BY <1>1, <3>2, IntoIs
    <3>4. Beside(s, i, x)
      BY <1>1, <1>6, <3>2, BesideInto DEF d
    <3> QED  BY <1>6, <3>1, <3>3, <3>4 DEF Flushes, TcpOf, Sent, d
  <2>3. CASE x = Put(s, i, Queued(c, Flushed(c)), t, A \o Flushed(c))
    <3> DEFINE d == Queued(c, Flushed(c))
               B == A \o Flushed(c)
    <3>1. AlikeTcp(t, t)
      BY AlikeTcpIs
    <3>2. Serving(p, d, t, B, u)
      BY <1>1, <1>2, <1>6, <1>10, <3>1, InCallSent
    <3>3. x = Put(s, i, d, t, B)
      BY <2>3
    <3> HIDE DEF d, B
    <3>4. /\ x.conn[i] = d /\ x.tcp[p] = t /\ x.answer[p] = B
          /\ x.handles = s.handles /\ x.sockets = s.sockets /\ x.res = s.res
      BY <1>1, <3>3, PutFields, SMTT(40)
    <3>5. Beside(s, i, x)
      BY <1>1, <1>6, <3>1, <3>3, PutBeside DEF d
    <3> QED  BY <1>6, <3>2, <3>4, <3>5 DEF Flushes, TcpOf, Sent, d
  <2> QED  BY <2>1, <2>2, <2>3
<1> QED  BY <1>8, <1>9, <1>10

LEMMA FlushAfter ==
    ASSUME NEW b, NEW i \in Slots, NEW s, NEW H, NEW S, NEW u, During(b, i, s, H, S, u)
    PROVE  After(b, i, httpdFlushSendBuffer(s, i), H, S, u)
PROOF
<1> DEFINE x == httpdFlushSendBuffer(s, i)
<1>1. Good(s) /\ s.conn[i].up /\ Beside(b, i, s) /\ Uses(s.conn[i], i, s.handles, s.sockets, H, S)
  BY DEF During, Runs
<1>2. Flushes(s, i, x, u)
  BY <1>1, FlushServes DEF During
<1>3. Good(x)
  BY <1>1, GoodFlush
<1> HIDE DEF x
<1>4. Beside(b, i, x)
  BY <1>1, <1>2, BesideTwice DEF Flushes
<1>5. x.conn[i].up /\ Uses(x.conn[i], i, x.handles, x.sockets, H, S)
  BY <1>1, <1>2 DEF Flushes, AlikeSlot, Uses, Holds
<1>6. After(b, i, x, H, S, u)
  BY <1>2, <1>3, <1>4, <1>5 DEF After, Runs, Flushes
<1> QED  BY <1>6 DEF x

(* A request whose CGI is done: its handle is free, its answer is written  *)
(* or in the buffer, and what is in the buffer can be sent.                *)
Finished(p, c, t, A) ==
    /\ Proper(t, A \o c.buf) /\ Answering(c, t, A \o c.buf) /\ t.state = "UP"
    /\ \/ c.flags = {"chunked", "body"} /\ Ready(t) /\ ~c.recvHdl /\ ~IsSocket(t.asked)
       \/ /\ c.flags = {"body"}
          /\ c.buf = <<>> \/ Ready(t) \/ (Proper(t, A) /\ Answering(c, t, A))
          /\ IsSocket(t.asked) => t.frames >= MaxFrames[p]
Finishing(b, i, x, H, S) ==
    /\ Good(x) /\ x.conn[i].up /\ Beside(b, i, x) /\ x.handles = H /\ Lists(x.sockets, S)
    /\ Finished(x.conn[i].peer, x.conn[i], TcpOf(x, i), Sent(x, i))

Closed(c) == [c EXCEPT !.cgi = "none", !.flags = @ \cup {"close"}]

LEMMA IdleFields ==
    ASSUME NEW c \in Slot
    PROVE  /\ Idle(c) \in Slot /\ Idle(c).cgi = "none" /\ Idle(c).flags = c.flags
           /\ Idle(c).buf = c.buf /\ Idle(c).n = c.n /\ Idle(c).recvHdl = c.recvHdl
           /\ Idle(c).peer = c.peer /\ Idle(c).up = c.up
PROOF
<1>1. Idle(c) \in Slot
  BY WritesType DEF Cgis, Asked
<1> QED  BY <1>1 DEF Idle, Slot

LEMMA RenewedFields ==
    ASSUME NEW c \in Slot
    PROVE  /\ Renewed(c).len = -1 /\ Renewed(c).flags = {} /\ Renewed(c).buffered = 0
           /\ Renewed(c).received = 0 /\ Renewed(c).cgi = c.cgi /\ Renewed(c).n = c.n
           /\ Renewed(c).recvHdl = c.recvHdl /\ Renewed(c).buf = c.buf
           /\ Renewed(c).peer = c.peer /\ Renewed(c).up = c.up
PROOF
  BY DEF Renewed, Slot

LEMMA EmptiedFields ==
    ASSUME NEW c \in Slot
    PROVE  /\ Emptied(c) \in Slot /\ Emptied(c).cgi = c.cgi /\ Emptied(c).n = c.n
           /\ Emptied(c).recvHdl = c.recvHdl /\ Emptied(c).buf = <<>>
           /\ Emptied(c).peer = c.peer /\ Emptied(c).up = c.up
PROOF
<1>1. Emptied(c) \in Slot
  BY EmptiedIs DEF Slot
<1> QED  BY <1>1 DEF Emptied, Slot

LEMMA ClosedFields ==
    ASSUME NEW c \in Slot
    PROVE  /\ Closed(c).cgi = "none" /\ Closed(c).flags = c.flags \cup {"close"}
           /\ Closed(c).len = c.len /\ Closed(c).n = c.n /\ Closed(c).buf = c.buf
           /\ Closed(c).peer = c.peer /\ Closed(c).up = c.up
PROOF
  BY DEF Closed, Slot

LEMMA JoinTwice ==
    ASSUME NEW x \in Seq(Part), NEW y \in Seq(Part), NEW z \in Seq(Part)
    PROVE  x \o (y \o z) = (x \o y) \o z
PROOF
  BY CatCat, SMTT(40) DEF Cat

LEMMA RenewIs ==
    ASSUME NEW s \in State, NEW i \in Slots
    PROVE  [s EXCEPT !.conn[i].len = -1, !.conn[i].flags = {}, !.conn[i].buffered = 0,
                     !.conn[i].received = 0] = [s EXCEPT !.conn[i] = Renewed(s.conn[i])]
PROOF
  BY ZenonT(60) DEF Renewed, State

LEMMA CloseIs ==
    ASSUME NEW s \in State, NEW i \in Slots, NEW c, NEW h, NEW q, NEW r
    PROVE  [Into(s, i, c, h, q, r) EXCEPT !.conn[i].flags = @ \cup {"close"}]
              = Into(s, i, [c EXCEPT !.flags = @ \cup {"close"}], h, q, r)
PROOF
  BY DEF Into, State

\* A chunked answer gets its last part, and the slot waits for the next request.
LEMMA DoneChunked ==
    ASSUME NEW b, NEW i \in Slots, NEW s, NEW H, NEW S, Finishing(b, i, s, H, S),
           s.conn[i].flags = {"chunked", "body"}
    PROVE  During(b, i, httpdCgiIsDone(s, i), H, S, <<>>)
PROOF
<1> DEFINE c == s.conn[i]
           p == c.peer
           t == s.tcp[p]
           A == s.answer[p]
           y == httpdCgiIsDone(s, i)
           x == [s EXCEPT !.conn[i] = Idle(c)]
           d == Idle(c)
           e == <<<<c.n, "end", 0>>>>
           f == httpdFlushSendBuffer(x, i)
<1> SUFFICES During(b, i, y, H, S, <<>>)
  OBVIOUS
<1>1. Good(s) /\ c.up /\ Beside(b, i, s) /\ s.handles = H /\ Lists(s.sockets, S)
  BY DEF Finishing
<1>2. s \in State /\ p \in Peers /\ c \in Slot /\ t \in Tcp /\ A \in Seq(Part)
  BY <1>1, GoodSlot DEF Good
<1>3. Finished(p, c, t, A)
  BY DEF Finishing, TcpOf, Sent
<1>4. /\ Proper(t, A \o c.buf) /\ Answering(c, t, A \o c.buf) /\ t.state = "UP" /\ t.out = <<>>
      /\ ~c.recvHdl /\ ~IsSocket(t.asked)
  <2>1. {"chunked", "body"} # {"body"}
    OBVIOUS
  <2> QED  BY <1>3, <2>1 DEF Finished, Ready
<1>5. Good(y)
  BY <1>1, GoodDone
<1>6. /\ d \in Slot /\ d.cgi = "none" /\ d.flags = c.flags /\ d.buf = c.buf /\ d.n = c.n
      /\ d.recvHdl = c.recvHdl /\ d.peer = p /\ d.up = c.up
  BY <1>2, IdleFields
<1>7. x = Into(s, i, d, s.handles, s.sockets, s.res)
  BY <1>2, WriteIs
<1>8. Good(x)
  BY <1>1, <1>2, GoodWrite, WritesType DEF Cgis, Asked
<1>9. y = [f EXCEPT !.conn[i].len = -1, !.conn[i].flags = {}, !.conn[i].buffered = 0,
                    !.conn[i].received = 0]
  BY <1>2, WritesAre, ZenonT(60) DEF httpdCgiIsDone
<1> HIDE DEF y, d, x
<1>10. /\ x.conn[i] = d /\ x.tcp = s.tcp /\ x.answer = s.answer
       /\ x.handles = s.handles /\ x.sockets = s.sockets /\ x \in State
  BY <1>2, <1>7, <1>8, IntoIs DEF Good
<1>11. Beside(s, i, x)
  BY <1>2, <1>6, <1>7, BesideInto
<1>12. e \in Seq(Part) /\ Proper(t, (A \o c.buf) \o e) /\ UpTo((A \o c.buf) \o e, c.n)
  <2>1. A \o c.buf \in Seq(Part)
    BY <1>2 DEF Slot
  <2> QED  BY <1>2, <1>4, <2>1, AnswerEnds
<1>13. Flushed(d) = c.buf \o e
  BY <1>6 DEF Flushed, LastPart
<1>14. A \o Flushed(d) = (A \o c.buf) \o e
  <2>1. c.buf \in Seq(Part)
    BY <1>2 DEF Slot
  <2> HIDE DEF e
  <2>2. A \o (c.buf \o e) = (A \o c.buf) \o e
    BY <1>2, <1>12, <2>1, JoinTwice
  <2> QED  BY <1>13, <2>2
<1>15. Flushed(d) # <<>> /\ Flushed(d) \in Seq(Part)
  <2>1. c.buf \in Seq(Part) /\ Len(e) = 1
    BY <1>2 DEF Slot
  <2>2. Len(c.buf \o e) = Len(c.buf) + 1 /\ Len(c.buf) \in Nat
    BY <1>12, <2>1, CatIs
  <2>3. Flushed(d) \in Seq(Part)
    BY <1>6, FlushedType
  <2> HIDE DEF e
  <2> QED  BY <1>13, <2>2, <2>3, SMTT(40)
<1> HIDE DEF e
<1> DEFINE g == Emptied(d)
           v == Sending(t, Flushed(d))
           B == A \o Flushed(d)
<1>16. f = Put(x, i, g, v, B)
  <2>1. d = x.conn[i] /\ t = x.tcp[d.peer] /\ A = x.answer[d.peer] /\ d.up
    BY <1>1, <1>6, <1>10
  <2> QED  BY <1>2, <1>4, <1>6, <1>10, <1>15, <2>1, FlushIs, SMTT(40)
<1>17. /\ g \in Slot /\ g.cgi = "none" /\ g.n = c.n /\ ~g.recvHdl /\ g.buf = <<>> /\ g.peer = p /\ g.up
  BY <1>1, <1>4, <1>6, EmptiedFields
<1>18. AlikeTcp(t, v)
  BY <1>2, SendingAlike
<1> HIDE DEF g, v, B, f
<1>19. /\ f.conn[i] = g /\ f.tcp[p] = v /\ f.answer[p] = B
       /\ f.handles = s.handles /\ f.sockets = s.sockets
  BY <1>2, <1>6, <1>10, <1>16, PutFields
<1>20. f \in State
  <2>1. Good(f)
    BY <1>8, GoodFlush DEF f
  <2> QED  BY <2>1 DEF Good
<1>21. Beside(x, i, f)
  BY <1>1, <1>2, <1>6, <1>10, <1>16, <1>17, <1>18, PutBeside
<1> DEFINE k == Renewed(g)
<1>22. y = [f EXCEPT !.conn[i] = k]
  <2>1. y = [f EXCEPT !.conn[i] = Renewed(f.conn[i])]
    BY <1>9, <1>20, RenewIs
  <2> QED  BY <2>1, <1>19
<1>23. /\ k.len = -1 /\ k.flags = {} /\ k.buffered = 0 /\ k.received = 0 /\ k.cgi = "none"
       /\ k.n = c.n /\ ~k.recvHdl /\ k.buf = <<>> /\ k.peer = p /\ k.up
  BY <1>17, RenewedFields
<1> HIDE DEF k
<1>24. y = Into(f, i, k, f.handles, f.sockets, f.res)
  BY <1>20, <1>22, WriteIs
<1>25. /\ y.conn[i] = k /\ y.tcp[p] = v /\ y.answer[p] = B /\ y.handles = H /\ y.sockets = s.sockets
  BY <1>1, <1>19, <1>20, <1>24, IntoIs
<1>26. Beside(f, i, y)
  BY <1>17, <1>19, <1>20, <1>23, <1>24, BesideInto
<1>27. Beside(b, i, y)
  <2>1. Beside(b, i, x)
    BY <1>1, <1>11, BesideTwice
  <2>2. Beside(b, i, f)
    BY <2>1, <1>21, BesideTwice
  <2> QED  BY <2>2, <1>26, BesideTwice
<1>28. Proper(v, B) /\ UpTo(B, c.n)
  BY <1>12, <1>14, <1>18 DEF Proper, AlikeTcp, B
<1>29. Resting(k, v, B, <<>>)
  BY <1>4, <1>18, <1>23, <1>28 DEF Resting, Blank, AlikeTcp, Answering
<1>30. InCall(p, k, v, B, <<>>)
  <2>1. B \in Seq(Part)
    BY <1>2, <1>15 DEF B
  <2>2. B \o k.buf = B
    BY <1>23, <2>1, JoinNothing
  <2> QED  BY <1>23, <1>28, <1>29, <2>2 DEF InCall, Serving, Talking
<1>31. Runs(b, i, y, H, S)
  BY <1>1, <1>5, <1>23, <1>25, <1>27 DEF Runs, Uses
<1> QED  BY <1>23, <1>25, <1>30, <1>31 DEF During, TcpOf, Sent

LEMMA DonePlain ==
    ASSUME NEW b, NEW i \in Slots, NEW s, NEW H, NEW S, Finishing(b, i, s, H, S),
           s.conn[i].flags = {"body"}
    PROVE  During(b, i, httpdCgiIsDone(s, i), H, S, <<>>)
PROOF
<1> DEFINE c == s.conn[i]
           p == c.peer
           t == s.tcp[p]
           A == s.answer[p]
           y == httpdCgiIsDone(s, i)
           d == Closed(c)
<1> SUFFICES During(b, i, y, H, S, <<>>)
  OBVIOUS
<1>1. Good(s) /\ c.up /\ Beside(b, i, s) /\ s.handles = H /\ Lists(s.sockets, S)
  BY DEF Finishing
<1>2. s \in State /\ p \in Peers /\ c \in Slot /\ t \in Tcp /\ A \in Seq(Part)
  BY <1>1, GoodSlot DEF Good
<1>3. Finished(p, c, t, A)
  BY DEF Finishing, TcpOf, Sent
<1>4. /\ Proper(t, A \o c.buf) /\ Answering(c, t, A \o c.buf) /\ t.state = "UP"
      /\ c.buf = <<>> \/ Ready(t) \/ (Proper(t, A) /\ Answering(c, t, A))
      /\ IsSocket(t.asked) => t.frames >= MaxFrames[p]
  BY <1>3 DEF Finished
<1>5. Good(y)
  BY <1>1, GoodDone
<1>6. y = Into(s, i, d, s.handles, s.sockets, s.res)
  <2> DEFINE x == [s EXCEPT !.conn[i].cgi = "none"]
  <2>1. y = [x EXCEPT !.conn[i].flags = @ \cup {"close"}]
    BY DEF httpdCgiIsDone
  <2>2. x = Into(s, i, Idle(c), s.handles, s.sockets, s.res)
    <3>1. x = [s EXCEPT !.conn[i] = Idle(c)]
      BY <1>2 DEF Idle, State
    <3> HIDE DEF x
    <3> QED  BY <1>2, <3>1, WriteIs
  <2>3. [Idle(c) EXCEPT !.flags = @ \cup {"close"}] = d
    BY <1>2 DEF Closed, Idle, Slot
  <2> DEFINE e == Idle(c)
  <2>4. [Into(s, i, e, s.handles, s.sockets, s.res) EXCEPT !.conn[i].flags = @ \cup {"close"}]
           = Into(s, i, [e EXCEPT !.flags = @ \cup {"close"}], s.handles, s.sockets, s.res)
    BY <1>2, CloseIs
  <2> HIDE DEF x, d, y, e
  <2>5. y = [Into(s, i, e, s.handles, s.sockets, s.res) EXCEPT !.conn[i].flags = @ \cup {"close"}]
    BY ONLY <2>1, <2>2 DEF e
  <2>6. [e EXCEPT !.flags = @ \cup {"close"}] = d
    BY ONLY <2>3 DEF e
  <2> QED  BY ONLY <2>4, <2>5, <2>6
<1>7. /\ d.cgi = "none" /\ d.flags = {"body", "close"} /\ d.len = c.len /\ d.n = c.n
      /\ d.buf = c.buf /\ d.peer = p /\ d.up = c.up
  <2>1. {"body"} \cup {"close"} = {"body", "close"}
    OBVIOUS
  <2> QED  BY <1>2, <2>1, ClosedFields
<1> HIDE DEF y, d
<1>8. /\ y.conn[i] = d /\ y.tcp = s.tcp /\ y.answer = s.answer /\ y.handles = H
      /\ y.sockets = s.sockets
  BY <1>1, <1>2, <1>6, IntoIs
<1>9. Beside(b, i, y)
  BY <1>1, <1>2, <1>6, <1>7, BesideInto, BesideTwice, ZenonT(60)
<1>10. Ending(p, d, t, A \o d.buf, <<>>)
  BY <1>4, <1>7 DEF Ending, Answering
<1>11. InCall(p, d, t, A, <<>>)
  <2>1. Serving(p, d, t, A \o d.buf, <<>>)
    BY <1>4, <1>7, <1>10 DEF Serving, Talking
  <2>2. Proper(t, A) /\ Answering(c, t, A) => Serving(p, d, t, A, <<>>)
    BY <1>4, <1>7 DEF Serving, Talking, Ending, Answering
  <2> QED  BY <1>4, <1>7, <2>1, <2>2 DEF InCall
<1>12. Runs(b, i, y, H, S)
  BY <1>1, <1>5, <1>7, <1>8, <1>9 DEF Runs, Uses
<1> QED  BY <1>7, <1>8, <1>11, <1>12 DEF During, TcpOf, Sent

LEMMA DoneServes ==
    ASSUME NEW b, NEW i \in Slots, NEW s, NEW H, NEW S, Finishing(b, i, s, H, S)
    PROVE  During(b, i, httpdCgiIsDone(s, i), H, S, <<>>)
PROOF
<1>1. s.conn[i].flags = {"chunked", "body"} \/ s.conn[i].flags = {"body"}
  BY DEF Finishing, Finished
<1> QED  BY <1>1, DoneChunked, DonePlain

Upgraded(c) == [c EXCEPT !.flags = @ \ {"chunked"}]
Opened(c) == [c EXCEPT !.recvHdl = TRUE]

LEMMA UpgradeIs ==
    ASSUME NEW s \in State, NEW i \in Slots, NEW c, NEW h, NEW q, NEW r
    PROVE  [Into(s, i, c, h, q, r) EXCEPT !.conn[i].flags = @ \ {"chunked"}]
              = Into(s, i, Upgraded(c), h, q, r)
PROOF
  BY DEF Into, State, Upgraded

Opening(x, i) == [x EXCEPT !.conn[i].recvHdl = TRUE, !.sockets = Append(@, i)]
LEMMA OpenIs ==
    ASSUME NEW s \in State, NEW i \in Slots, NEW c, NEW h, NEW q, NEW r
    PROVE  Opening(Into(s, i, c, h, q, r), i) = Into(s, i, Opened(c), h, Append(q, i), r)
PROOF
<1>1. [Into(s, i, c, h, q, r) EXCEPT !.conn[i].recvHdl = TRUE] = Into(s, i, Opened(c), h, q, r)
  BY DEF Into, State, Opened
<1>2. [Into(s, i, Opened(c), h, q, r) EXCEPT !.sockets = Append(@, i)]
         = Into(s, i, Opened(c), h, Append(q, i), r)
  BY DEF Into, State
<1>3. [Into(s, i, c, h, q, r) EXCEPT !.conn[i].recvHdl = TRUE, !.sockets = Append(@, i)]
         = [[Into(s, i, c, h, q, r) EXCEPT !.conn[i].recvHdl = TRUE] EXCEPT !.sockets = Append(@, i)]
  OBVIOUS
<1> QED  BY <1>1, <1>2, <1>3 DEF Opening

LEMMA UpgradedFields ==
    ASSUME NEW c \in Slot, Fresh(c)
    PROVE  /\ Upgraded(c) \in Slot /\ Same(c, Upgraded(c)) /\ Upgraded(c).flags = {}
           /\ Upgraded(c).buf = <<>>
PROOF
<1>1. c.flags \ {"chunked"} = {} /\ {} \in SUBSET {"chunked", "body", "close"}
  BY DEF Fresh, Kept
<1> QED  BY <1>1 DEF Upgraded, Slot, Same, Fresh

LEMMA OpenedFields ==
    ASSUME NEW c \in Slot, c.flags = {}, c.buf = <<>>
    PROVE  LET d == Opened(Headed(c))
           IN /\ d \in Slot /\ Same(c, d) /\ d.buf = <<<<c.n, "head", 0>>>> /\ d.flags = {"body"}
              /\ d.recvHdl /\ d.data = c.data
PROOF
<1> DEFINE b == Headed(c)
           d == Opened(b)
<1>1. b \in Slot
  BY SaidType DEF Kinds
<1>2. b.buf = <<<<c.n, "head", 0>>>> /\ b.flags = {"body"} /\ Same(c, b) /\ b.data = c.data
  <2>1. Append(<<>>, <<c.n, "head", 0>>) = <<<<c.n, "head", 0>>>> /\ {} \cup {"body"} = {"body"}
    OBVIOUS
  <2> QED  BY <2>1 DEF Headed, Slot, Same
<1> HIDE DEF b
<1>3. d \in Slot /\ Same(c, d) /\ d.buf = b.buf /\ d.flags = b.flags /\ d.recvHdl /\ d.data = b.data
  BY <1>1, <1>2 DEF Opened, Slot, Same
<1> HIDE DEF d
<1>4. /\ d \in Slot /\ Same(c, d) /\ d.buf = <<<<c.n, "head", 0>>>> /\ d.flags = {"body"}
      /\ d.recvHdl /\ d.data = c.data
  BY <1>2, <1>3
<1> QED  BY <1>4 DEF d, b

\* A request for a websocket is refused, or opens one.
LEMMA SocketRefuses ==
    ASSUME NEW s \in State, NEW i \in Slots, NEW c \in Slot, NEW h \in Heap,
           NEW q \in Seq(Slots), NEW r, Fresh(c), c.cgi = "socket", ~IsSocket(c.req)
    PROVE  ServedIn(s, i, c, h, q, Result(Response(Into(s, i, c, h, q, r), i), "DONE"))
PROOF
<1> DEFINE b == Headed(c)
<1>1. b \in Slot
  BY SaidType DEF Kinds
<1>2. Same(c, b) /\ Answers(c, b, "DONE") /\ "DONE" \in Res
  BY HeadedFields DEF Answers, Res
<1>3. Response(Into(s, i, c, h, q, r), i) = Into(s, i, b, h, q, r)
  BY ResponseIs
<1> HIDE DEF b
<1>4. Result(Into(s, i, b, h, q, r), "DONE") = Into(s, i, b, h, q, "DONE")
  BY ResultIs
<1>5. Served(c, h, q, i, b, h, q, "DONE")
  BY <1>2 DEF Served
<1>6. Result(Response(Into(s, i, c, h, q, r), i), "DONE") = Into(s, i, b, h, q, "DONE")
  BY <1>3, <1>4
<1> QED  BY <1>1, <1>2, <1>5, <1>6, ServedBy

LEMMA SocketServes ==
    ASSUME NEW s \in State, NEW i \in Slots, NEW c \in Slot, NEW h \in Heap,
           NEW q \in Seq(Slots), NEW r \in Res, Fresh(c), c.cgi = "socket", c.data = 0, Handle \ h # {}
    PROVE  ServedIn(s, i, c, h, q, cgiWebsocket(Into(s, i, c, h, q, r), i))
PROOF
<1> DEFINE x == Into(s, i, c, h, q, r)
           y == cgiWebsocket(x, i)
           v == Upgraded(c)
<1> SUFFICES ServedIn(s, i, c, h, q, y)
  OBVIOUS
<1>1. x.conn[i] = c /\ c.up /\ c.data = 0
  BY IntoIs DEF Fresh
<1>16. CASE ~c.req.upgrade
  <2>1. ServedIn(s, i, c, h, q, Result(Response(x, i), "DONE"))
    BY <1>16, SocketRefuses DEF IsSocket
  <2> HIDE DEF x
  <2>2. y = Result(Response(x, i), "DONE")
    BY <1>1, <1>16 DEF cgiWebsocket
  <2> HIDE DEF y
  <2> QED  BY <2>1, <2>2
<1>17. SUFFICES ASSUME c.req.upgrade PROVE ServedIn(s, i, c, h, q, y)
  BY <1>16
<1>2. v \in Slot /\ Same(c, v) /\ v.flags = {} /\ v.buf = <<>>
  BY UpgradedFields
<1>3. [x EXCEPT !.conn[i].flags = @ \ {"chunked"}] = Into(s, i, v, h, q, r)
  BY UpgradeIs
<1> HIDE DEF v
<1>4. PICK f \in Handle \ h : Alloc(Into(s, i, v, h, q, r), i) = Into(s, i, Owning(v, f), h \cup {f}, q, r)
  <2>1. Allocates(s, i, v, h, q, r)
    BY <1>2, AllocIs
  <2> QED  BY <2>1 DEF Allocates
<1> DEFINE o == Owning(v, f)
           g == h \cup {f}
           b == Headed(o)
           d == Opened(b)
           q2 == Append(q, i)
<1>5. f \in Handle /\ g \in Heap /\ f \notin h /\ q2 \in Seq(Slots) /\ "MORE" \in Res
  BY DEF Handle, Data, Heap, Res
<1>6. /\ o \in Slot /\ Same(v, o) /\ o.data = f /\ o.flags = {} /\ o.buf = <<>>
  BY <1>2, <1>5, AllocServes
<1>7. Alloc(Into(s, i, v, h, q, r), i) = Into(s, i, o, g, q, r)
  BY <1>4
<1> HIDE DEF o, g
<1>8. Response(Into(s, i, o, g, q, r), i) = Into(s, i, b, g, q, r)
  BY <1>6, ResponseIs
<1>9. /\ d \in Slot /\ Same(o, d) /\ d.buf = <<<<o.n, "head", 0>>>> /\ d.flags = {"body"}
      /\ d.recvHdl /\ d.data = o.data
  BY <1>6, OpenedFields
<1>10. Opening(Into(s, i, b, g, q, r), i) = Into(s, i, d, g, q2, r)
  BY OpenIs
<1>11. Result(Into(s, i, d, g, q2, r), "MORE") = Into(s, i, d, g, q2, "MORE")
  BY ResultIs
<1> HIDE DEF b, d, x, q2
<1>12. y = Into(s, i, d, g, q2, "MORE")
  BY <1>1, <1>3, <1>7, <1>8, <1>10, <1>11, <1>17 DEF cgiWebsocket, Opening
<1>13. Same(c, d) /\ o.n = c.n
  BY <1>2, <1>6, <1>9 DEF Same
<1>14. Opens(c, d, "MORE") /\ Holds(d, h, g)
  BY <1>5, <1>6, <1>9, <1>13 DEF Opens, Holds, Same, g
<1>15. Served(c, h, q, i, d, g, q2, "MORE")
  BY <1>14 DEF Served, q2
<1> HIDE DEF y
<1> QED  BY <1>5, <1>9, <1>12, <1>13, <1>15, ServedBy

(* Any CGI of the Table.                                                   *)
LEMMA CallServes ==
    ASSUME NEW s \in State, NEW i \in Slots, NEW c \in Slot, NEW h \in Heap,
           NEW q \in Seq(Slots), NEW r \in Res, Fresh(c), c.cgi \in Cgis, c.data = 0,
           c.buffered = c.received, Handle \ h # {}
    PROVE  ServedIn(s, i, c, h, q, Call(Into(s, i, c, h, q, r), i, c.cgi))
PROOF
<1> DEFINE x == Into(s, i, c, h, q, r)
           y == Call(x, i, c.cgi)
<1> SUFFICES ServedIn(s, i, c, h, q, y)
  OBVIOUS
<1>1. CASE c.cgi = "page"
  <2>1. c.cgi \notin {"upload", "socket"} /\ y = cgiGenerateCaptivePortalLoginPage(x, i)
    BY <1>1 DEF Call
  <2> QED  BY <2>1, PageServes
<1>2. CASE c.cgi = "file"
  <2>1. y = cgiEspFsHook(x, i)
    BY <1>2 DEF Call
  <2> QED  BY <1>2, <2>1, FileServes
<1>3. CASE c.cgi = "upload"
  <2>1. y = cgiUploadFirmware(x, i)
    BY <1>3 DEF Call
  <2> QED  BY <1>3, <2>1, UploadServes
<1>4. CASE c.cgi = "socket"
  <2>1. y = cgiWebsocket(x, i)
    BY <1>4 DEF Call
  <2> QED  BY <1>4, <2>1, SocketServes
<1>5. CASE c.cgi = "other"
  <2>1. c.cgi \notin {"upload", "socket"} /\ y = cgiRedirectToHostname(x, i)
    BY <1>5 DEF Call
  <2> QED  BY <2>1, RedirectServes
<1>6. CASE c.cgi = "404"
  <2>1. c.cgi \notin {"upload", "socket"} /\ y = cgiNotFound(x, i)
    BY <1>6 DEF Call
  <2>2. PICK d \in Slot : y = Into(s, i, d, h, q, "DONE") /\ Same(c, d) /\ Answers(c, d, "DONE")
    BY <2>1, NotFoundServes
  <2>3. Served(c, h, q, i, d, h, q, "DONE") /\ "DONE" \in Res
    BY <2>2 DEF Served, Res
  <2> HIDE DEF y
  <2> QED  BY <2>2, <2>3, ServedBy
<1> QED  BY <1>1, <1>2, <1>3, <1>4, <1>5, <1>6 DEF Cgis

(* The search of the Table for the request of slot i, c before it.         *)
SameRequest(c, d) ==
    /\ d.peer = c.peer /\ d.up = c.up /\ d.len = c.len /\ d.received = c.received
    /\ d.buffered = c.buffered /\ d.n = c.n /\ d.req = c.req /\ d.backlog = c.backlog
\* No entry up to the k-th was one that always takes its urls.
Passes(k, url) ==
    \A j \in 1 .. k : url \in Table[j].urls => Table[j].cgi \notin {"upload", "socket"}
Passed(c, k, d) == SameRequest(c, d) /\ Fresh(d) /\ Passes(k, c.req.url)
Found(c, h, q, i, d, h2, q2, e) ==
    /\ SameRequest(c, d) /\ e # "NOTFOUND" /\ Served(d, h, q, i, d, h2, q2, e)
    /\ c.req.url = "socket" <=> d.cgi = "socket"
    /\ c.len # c.received /\ IsUploaded(c.req.url) => e = "MORE" /\ d.cgi = "upload"
PassedIn(s, i, c, h, q, k, x) == \E d \in Slot : x = Into(s, i, d, h, q, "NOTFOUND") /\ Passed(c, k, d)
FoundIn(s, i, c, h, q, x) ==
    \E d \in Slot, h2 \in Heap, q2 \in Seq(Slots), e \in Res :
       x = Into(s, i, d, h2, q2, e) /\ Found(c, h, q, i, d, h2, q2, e)
Searched(s, i, c, h, q, k, x) == PassedIn(s, i, c, h, q, k, x) \/ FoundIn(s, i, c, h, q, x)

LEMMA TableHas ==
    ASSUME NEW k \in 1 .. Len(Table)
    PROVE  /\ Table[k].cgi \in Cgis
           /\ "socket" \in Table[k].urls <=> Table[k].cgi = "socket"
           /\ Table[k].cgi = "socket" => Table[k].urls = {"socket"}
PROOF
<1>1. k \in DOMAIN Table
  BY TableIs
<1>2. /\ Table[k].cgi = "socket" => Table[k].urls = {"socket"}
      /\ "socket" \in Table[k].urls => Table[k].cgi = "socket"
  BY <1>1, ClientAssumption
<1> QED  BY <1>2, TableIs

LEMMA ChosenIs ==
    ASSUME NEW c \in Slot, NEW cgi \in Cgis
    PROVE  /\ Chosen(c, cgi) \in Slot /\ Chosen(c, cgi).cgi = cgi /\ Chosen(c, cgi).data = 0
           /\ SameRequest(c, Chosen(c, cgi)) /\ (Fresh(c) => Fresh(Chosen(c, cgi)))
PROOF
<1>1. Chosen(c, cgi) \in Slot
  BY WritesType DEF Asked
<1> QED  BY <1>1 DEF Chosen, SameRequest, Fresh, Slot

LEMMA SameRequestIs ==
    ASSUME NEW c, NEW d, NEW e, SameRequest(c, d)
    PROVE  /\ SameRequest(d, e) => SameRequest(c, e)
           /\ Same(d, e) => SameRequest(c, e) /\ SameRequest(d, e)
PROOF
  BY DEF SameRequest, Same

\* What serves a slot serves it as far as its request goes.
LEMMA ServedAs ==
    ASSUME NEW c, NEW d, NEW h, NEW q, NEW i, NEW h2, NEW q2, NEW e,
           Served(c, h, q, i, d, h2, q2, e), SameRequest(c, d)
    PROVE  Served(d, h, q, i, d, h2, q2, e)
PROOF
<1>1. c.n = d.n /\ c.req = d.req /\ c.len = d.len /\ c.received = d.received /\ c.buffered = d.buffered
  BY DEF SameRequest
<1>2. Refuses(c, d, e) => Refuses(d, d, e)
  BY <1>1 DEF Refuses
<1>3. Answers(c, d, e) => Answers(d, d, e)
  BY <1>1 DEF Answers, AnswerTo
<1>4. Reads(c, d, e) => Reads(d, d, e)
  BY <1>1 DEF Reads
<1>5. Takes(c, d, e) => Takes(d, d, e)
  BY <1>1 DEF Takes
<1>6. Opens(c, d, e) => Opens(d, d, e)
  BY <1>1 DEF Opens
<1> QED  BY <1>2, <1>3, <1>4, <1>5, <1>6 DEF Served

LEMMA PassesNext ==
    ASSUME NEW k \in Nat, NEW url, Passes(k - 1, url), k >= 1,
           url \in Table[k].urls => Table[k].cgi \notin {"upload", "socket"}
    PROVE  Passes(k, url)
PROOF
<1>1. \A j \in 1 .. k : j \in 1 .. k - 1 \/ j = k
  OBVIOUS
<1> QED  BY <1>1 DEF Passes

\* An upload is found by its own entry.
LEMMA UploadPassed ==
    ASSUME NEW k \in 1 .. Len(Table), NEW url, Passes(k - 1, url), url \in Table[k].urls,
           IsUploaded(url)
    PROVE  Table[k].cgi = "upload"
PROOF
<1>1. PICK j \in DOMAIN Table : /\ url \in Table[j].urls /\ Table[j].cgi = "upload"
                                /\ \A m \in 1 .. j - 1 : url \notin Table[m].urls
  BY DEF IsUploaded
<1>2. j \in 1 .. Len(Table) /\ Len(Table) \in Nat
  BY TableIs
<1>3. j \notin 1 .. k - 1
  BY <1>1 DEF Passes
<1>4. k \notin 1 .. j - 1
  BY <1>1
<1>5. j = k
  BY <1>2, <1>3, <1>4
<1> QED  BY <1>1, <1>5

LEMMA TryFinds ==
    ASSUME NEW s \in State, NEW i \in Slots, NEW c \in Slot, NEW h \in Heap, NEW q \in Seq(Slots),
           Handle \ h # {}, c.buffered = c.received, NEW k \in 1 .. Len(Table), NEW t,
           Searched(s, i, c, h, q, k - 1, t)
    PROVE  Searched(s, i, c, h, q, k, TryOn(t, i, c.req.url, Table[k]))
PROOF
<1> DEFINE url == c.req.url
           g == Table[k].cgi
           y == TryOn(t, i, url, Table[k])
<1> SUFFICES Searched(s, i, c, h, q, k, y)
  OBVIOUS
<1>1. CASE FoundIn(s, i, c, h, q, t)
  <2>1. t.res # "NOTFOUND"
    <3>1. PICK d \in Slot, h2 \in Heap, q2 \in Seq(Slots), e \in Res :
             t = Into(s, i, d, h2, q2, e) /\ Found(c, h, q, i, d, h2, q2, e)
      BY <1>1 DEF FoundIn
    <3>2. t.res = e
      BY <3>1, IntoIs
    <3> QED  BY <3>1, <3>2 DEF Found
  <2>2. y = t
    BY <2>1 DEF TryOn
  <2> QED  BY <1>1, <2>2 DEF Searched
<1>2. CASE PassedIn(s, i, c, h, q, k - 1, t)
  <2>1. PICK b \in Slot : t = Into(s, i, b, h, q, "NOTFOUND") /\ Passed(c, k - 1, b)
    BY <1>2 DEF PassedIn
  <2>2. SameRequest(c, b) /\ Fresh(b) /\ Passes(k - 1, url) /\ k \in Nat /\ k >= 1
    BY <2>1 DEF Passed
  <2>3. CASE url \notin Table[k].urls
    <3>1. y = t
      BY <2>3 DEF TryOn
    <3>2. Passes(k, url)
      BY <2>2, <2>3, PassesNext
    <3>3. Passed(c, k, b)
      BY <2>2, <3>2 DEF Passed
    <3>4. PassedIn(s, i, c, h, q, k, y)
      BY <2>1, <3>1, <3>3 DEF PassedIn
    <3> QED  BY <3>4 DEF Searched
  <2>4. CASE url \in Table[k].urls
    <3> DEFINE a == Chosen(b, g)
    <3>1. g \in Cgis /\ (url = "socket" <=> g = "socket")
      <4>1. "socket" \in Table[k].urls <=> g = "socket"
        BY TableHas
      <4>2. g = "socket" => Table[k].urls = {"socket"}
        BY TableHas
      <4> QED  BY <2>4, <4>1, <4>2, TableHas
    <3>2. a \in Slot /\ a.cgi = g /\ a.data = 0 /\ SameRequest(b, a) /\ Fresh(a)
      BY <2>2, <3>1, ChosenIs
    <3>3. SameRequest(c, a) /\ a.buffered = a.received /\ a.len = c.len /\ a.received = c.received
      BY <2>2, <3>2 DEF SameRequest
    <3>4. y = Call(Into(s, i, a, h, q, "NOTFOUND"), i, g)
      <4>1. t.res = "NOTFOUND" /\ t.conn[i] = b
        BY <2>1, IntoIs
      <4>2. Choose(t, i, g) = Into(s, i, a, h, q, "NOTFOUND")
        <5>1. t \in State
          BY <2>1, IntoType DEF Res
        <5>2. Choose(t, i, g) = [t EXCEPT !.conn[i] = a]
          BY <4>1, <5>1, ChooseIs
        <5> HIDE DEF a
        <5>3. [t EXCEPT !.conn[i] = a] = Into(s, i, a, h, q, "NOTFOUND")
          BY <2>1 DEF Into, State
        <5> QED  BY <5>2, <5>3
      <4> HIDE DEF a
      <4> QED  BY <2>4, <4>1, <4>2 DEF TryOn
    <3> HIDE DEF a
    <3>5. "NOTFOUND" \in Res
      BY DEF Res
    <3>6. ServedIn(s, i, a, h, q, y)
      BY <3>1, <3>2, <3>3, <3>4, <3>5, CallServes
    <3>7. PICK d \in Slot, h2 \in Heap, q2 \in Seq(Slots), e \in Res :
             y = Into(s, i, d, h2, q2, e) /\ Same(a, d) /\ Served(a, h, q, i, d, h2, q2, e)
      BY <3>6 DEF ServedIn
    <3>8. SameRequest(c, d) /\ SameRequest(a, d) /\ d.cgi = g
      BY <3>2, <3>3, <3>7, SameRequestIs DEF Same
    <3>9. Served(d, h, q, i, d, h2, q2, e)
      BY <3>7, <3>8, ServedAs
    <3>10. CASE e = "NOTFOUND"
      <4>1. Refuses(d, d, e) /\ h2 = h /\ q2 = q
        BY <3>9, <3>10 DEF Served, Answers, Reads, Takes, Opens
      <4>2. g \notin {"upload", "socket"} /\ Fresh(d)
        BY <2>2, <3>8, <4>1 DEF Refuses, Fresh, SameRequest
      <4>3. Passes(k, url)
        BY <2>2, <4>2, PassesNext
      <4>4. Passed(c, k, d)
        BY <3>8, <4>2, <4>3 DEF Passed
      <4>5. PassedIn(s, i, c, h, q, k, y)
        BY <3>7, <3>10, <4>1, <4>4 DEF PassedIn
      <4> QED  BY <4>5 DEF Searched
    <3>11. CASE e # "NOTFOUND"
      <4>1. c.len # c.received /\ IsUploaded(url) => e = "MORE" /\ g = "upload"
        <5>1. IsUploaded(url) => g = "upload"
          BY <2>2, <2>4, UploadPassed
        <5>2. c.len # c.received => d.len # d.received
          BY <3>8 DEF SameRequest
        <5>3. g = "upload" /\ d.len # d.received => e = "MORE"
          BY <3>8, <3>9, <3>11 DEF Served, Refuses, Answers, Reads, Takes, Opens
        <5> QED  BY <5>1, <5>2, <5>3
      <4>2. Found(c, h, q, i, d, h2, q2, e)
        BY <3>1, <3>8, <3>9, <3>11, <4>1 DEF Found
      <4>3. FoundIn(s, i, c, h, q, y)
        BY <3>7, <4>2 DEF FoundIn
      <4> QED  BY <4>3 DEF Searched
    <3> QED  BY <3>10, <3>11
  <2> QED  BY <2>3, <2>4
<1> QED  BY <1>1, <1>2 DEF Searched

LEMMA TriedFinds ==
    ASSUME NEW s, NEW i \in Slots, Good(s), NEW c, c = s.conn[i], Fresh(c), c.buffered = c.received,
           NEW h, h = s.handles, NEW q, q = s.sockets, Handle \ h # {}
    PROVE  Searched(s, i, c, h, q, Len(Table), Tried(Result(s, "NOTFOUND"), i, c.req.url))
PROOF
<1> DEFINE n == Len(Table)
           url == c.req.url
           z == Result(s, "NOTFOUND")
           Q == [k \in 0 .. n |-> {t \in Goods : Searched(s, i, c, h, q, k, t)}]
<1>1. s \in State /\ c \in Slot /\ h \in Heap /\ q \in Seq(Slots)
  BY GoodsAre, StateFields
<1>2. n \in Nat /\ DOMAIN Table = 1 .. n
  BY TableIs
<1>3. z \in Goods /\ Searched(s, i, c, h, q, 0, z)
  <2>1. s = Into(s, i, c, h, q, s.res)
    BY <1>1, StateFields
  <2>2. z = Into(s, i, c, h, q, "NOTFOUND")
    BY <1>1, <2>1, ResultIs
  <2>3. Good(z)
    BY <1>1, KeepsResult, GoodKeeps DEF Res
  <2>4. Passed(c, 0, c)
    BY DEF Passed, SameRequest, Passes
  <2>5. PassedIn(s, i, c, h, q, 0, z)
    BY <1>1, <2>2, <2>4 DEF PassedIn
  <2> QED  BY <2>3, <2>5, GoodsAre DEF Searched
<1> HIDE DEF z
<1>4. \A k \in 1 .. n : \A t \in Goods : TryOn(t, i, url, Table[k]) \in Goods
  BY GoodsAre, TableIs, GoodTry
<1>5. ASSUME NEW k \in 1 .. n, NEW t \in Goods, t \in Q[k - 1]
      PROVE  TryOn(t, i, url, Table[k]) \in Q[k]
  <2>1. k - 1 \in 0 .. n /\ k \in 0 .. n
    BY <1>2
  <2>2. Searched(s, i, c, h, q, k - 1, t)
    BY <1>5, <2>1
  <2>3. Searched(s, i, c, h, q, k, TryOn(t, i, url, Table[k]))
    BY <1>1, <2>2, TryFinds
  <2>4. TryOn(t, i, url, Table[k]) \in Goods
    BY <1>4
  <2> QED  BY <2>1, <2>3, <2>4
<1>6. z \in Q[0] /\ n \in 0 .. n /\ Q[n] = {t \in Goods : Searched(s, i, c, h, q, n, t)}
  BY <1>2, <1>3
<1>7. \A k \in 1 .. n : \A t \in Goods : t \in Q[k - 1] => TryOn(t, i, url, Table[k]) \in Q[k]
  BY <1>5
<1> HIDE DEF Q, n
<1>8. Tried(z, i, url) \in Q[n]
  BY <1>2, <1>3, <1>4, <1>6, <1>7, TriedKeeps
<1> QED  BY <1>6, <1>8 DEF z, n

Nameless(t, i) == [t EXCEPT !.conn[i].cgi = "404"]
FoundBy(t, i) == IF t.res # "NOTFOUND" THEN t ELSE cgiNotFound(Nameless(t, i), i)

LEMMA NamelessIs ==
    ASSUME NEW s \in State, NEW i \in Slots, NEW c, NEW h, NEW q, NEW r
    PROVE  Nameless(Into(s, i, c, h, q, r), i) = Into(s, i, [c EXCEPT !.cgi = "404"], h, q, r)
PROOF
  BY DEF Into, State, Nameless

LEMMA SearchFinds ==
    ASSUME NEW s, NEW i \in Slots, Good(s), NEW c, c = s.conn[i], Fresh(c), c.buffered = c.received,
           NEW h, h = s.handles, NEW q, q = s.sockets, Handle \ h # {},
           NEW p \in Peers, c.req \in Requests[p],
           NEW t, t = Tried(Result(s, "NOTFOUND"), i, c.req.url)
    PROVE  FoundIn(s, i, c, h, q, FoundBy(t, i))
PROOF
<1> DEFINE url == c.req.url
<1>1. s \in State /\ c \in Slot /\ h \in Heap /\ q \in Seq(Slots)
  BY GoodsAre, StateFields
<1>2. Searched(s, i, c, h, q, Len(Table), t)
  BY TriedFinds
<1>3. CASE FoundIn(s, i, c, h, q, t)
  <2>1. PICK d \in Slot, h2 \in Heap, q2 \in Seq(Slots), e \in Res :
           t = Into(s, i, d, h2, q2, e) /\ Found(c, h, q, i, d, h2, q2, e)
    BY <1>3 DEF FoundIn
  <2>2. t.res # "NOTFOUND"
    BY <1>1, <2>1, IntoIs DEF Found
  <2> QED  BY <1>3, <2>2 DEF FoundBy
<1>4. CASE PassedIn(s, i, c, h, q, Len(Table), t)
  <2>1. PICK b \in Slot : t = Into(s, i, b, h, q, "NOTFOUND") /\ Passed(c, Len(Table), b)
    BY <1>4 DEF PassedIn
  <2> DEFINE a == [b EXCEPT !.cgi = "404"]
  <2>2. SameRequest(c, b) /\ Fresh(b) /\ Passes(Len(Table), url)
    BY <2>1 DEF Passed
  <2>3. a \in Slot /\ a.cgi = "404" /\ SameRequest(b, a) /\ Fresh(a)
    BY <2>2 DEF Slot, Cgis, SameRequest, Fresh
  <2>4. Nameless(t, i) = Into(s, i, a, h, q, "NOTFOUND")
    BY <1>1, <2>1, NamelessIs
  <2> HIDE DEF a
  <2>5. t.res = "NOTFOUND"
    BY <1>1, <2>1, IntoIs
  <2>6. FoundBy(t, i) = cgiNotFound(Into(s, i, a, h, q, "NOTFOUND"), i)
    BY <2>4, <2>5 DEF FoundBy
  <2>7. a.cgi \notin {"upload", "socket"}
    BY <2>3
  <2>8. PICK d \in Slot : /\ cgiNotFound(Into(s, i, a, h, q, "NOTFOUND"), i) = Into(s, i, d, h, q, "DONE")
                          /\ Same(a, d) /\ Answers(a, d, "DONE")
    BY <1>1, <2>3, <2>7, NotFoundServes
  <2>9. SameRequest(c, d) /\ SameRequest(a, d) /\ d.cgi = "404"
    BY <2>2, <2>3, <2>8, SameRequestIs DEF Same
  <2>10. Served(d, h, q, i, d, h, q, "DONE")
    <3>1. Served(a, h, q, i, d, h, q, "DONE")
      BY <2>8 DEF Served
    <3> QED  BY <2>9, <3>1, ServedAs
  <2>11. \A j \in DOMAIN Table : j \in 1 .. Len(Table)
    BY TableIs
  <2>12. url # "socket"
    <3> SUFFICES ASSUME url = "socket" PROVE FALSE
      OBVIOUS
    <3>1. PICK k \in DOMAIN Table : Table[k].cgi = "socket"
      BY ClientAssumption
    <3>2. "socket" \in Table[k].urls
      BY <2>11, <3>1, TableHas
    <3> QED  BY <2>2, <2>11, <3>1, <3>2 DEF Passes
  <2>13. ~IsUploaded(url)
    BY <2>2, <2>11 DEF Passes, IsUploaded
  <2>14. Found(c, h, q, i, d, h, q, "DONE")
    BY <2>9, <2>10, <2>12, <2>13 DEF Found
  <2> QED  BY <1>1, <2>6, <2>8, <2>14 DEF FoundIn, Res
<1> QED  BY <1>2, <1>3, <1>4 DEF Searched

(* Websockets come and go.                                                 *)
LEMMA ListsAppend ==
    ASSUME NEW q, NEW S, NEW i \in Slots, Lists(q, S), i \notin S
    PROVE  Lists(Append(q, i), S \cup {i})
PROOF
<1> DEFINE r == Append(q, i)
           n == Len(q)
<1>1. q \in Seq(Slots) /\ ToSet(q) = S /\ \A k, l \in 1 .. n : q[k] = q[l] => k = l
  BY DEF Lists
<1>2. /\ r \in Seq(Slots) /\ Len(r) = n + 1 /\ n \in Nat /\ r[n + 1] = i
      /\ \A k \in 1 .. n : r[k] = q[k]
      /\ DOMAIN r = 1 .. n + 1 /\ DOMAIN q = 1 .. n
  BY <1>1
<1>3. \A k \in 1 .. n : q[k] \in S
  BY <1>1, <1>2 DEF ToSet
<1> HIDE DEF r, n
<1>4. ToSet(r) = S \cup {i}
  <2>1. \A x : x \in ToSet(r) <=> \E k \in 1 .. n + 1 : r[k] = x
    BY <1>2 DEF ToSet
  <2>2. \A x : x \in S <=> \E k \in 1 .. n : q[k] = x
    BY <1>1, <1>2 DEF ToSet
  <2>3. ASSUME NEW x, \E k \in 1 .. n + 1 : r[k] = x
        PROVE  x \in S \cup {i}
    <3>1. PICK k \in 1 .. n + 1 : r[k] = x
      BY <2>3
    <3>2. k \in 1 .. n \/ k = n + 1
      BY <1>2
    <3> QED  BY <1>2, <2>2, <3>1, <3>2
  <2>4. ASSUME NEW x \in S \cup {i}
        PROVE  \E k \in 1 .. n + 1 : r[k] = x
    <3>1. CASE x = i
      <4>1. n + 1 \in 1 .. n + 1
        BY <1>2
      <4> QED  BY <1>2, <3>1, <4>1
    <3>2. CASE x \in S
      <4>1. PICK k \in 1 .. n : q[k] = x
        BY <2>2, <3>2
      <4>2. k \in 1 .. n + 1
        BY <1>2
      <4> QED  BY <1>2, <4>1, <4>2
    <3> QED  BY <3>1, <3>2
  <2> QED  BY <2>1, <2>3, <2>4
<1>5. ASSUME NEW k \in 1 .. n + 1, NEW l \in 1 .. n + 1, r[k] = r[l]
      PROVE  k = l
  <2>1. (k \in 1 .. n \/ k = n + 1) /\ (l \in 1 .. n \/ l = n + 1)
    BY <1>2
  <2>2. CASE k \in 1 .. n /\ l \in 1 .. n
    BY <1>1, <1>2, <1>5, <2>2 DEF n
  <2>3. CASE k = n + 1 /\ l \in 1 .. n
    BY <1>2, <1>3, <1>5, <2>3
  <2>4. CASE k \in 1 .. n /\ l = n + 1
    BY <1>2, <1>3, <1>5, <2>4
  <2> QED  BY <2>1, <2>2, <2>3, <2>4
<1> QED  BY <1>2, <1>4, <1>5 DEF Lists, r

(* httpdProcessRequest, once a request is in or as much of it as is gathered. *)
Begins(p, c, t, A) ==
    /\ Fresh(c) /\ c.req = t.asked /\ t.asked \in Requests[p] /\ c.n > 0 /\ c.n = t.n
    /\ c.len = c.req.body /\ c.received <= c.len
    /\ c.len # c.received => IsUploaded(c.req.url)
    /\ Ready(t) /\ Whole(A) /\ Before(A, c.n)
\* An upload has taken what is gathered and waits for more.
Stocked(p, c, t, A) ==
    /\ c.req = t.asked /\ t.asked \in Requests[p] /\ c.n > 0 /\ c.n = t.n /\ c.buf = <<>>
    /\ c.len = c.req.body /\ c.received < c.len /\ c.flags = Kept(c.req) /\ ~c.recvHdl
    /\ Ready(t) /\ Whole(A) /\ Before(A, c.n) /\ c.cgi = "upload" /\ c.at = c.received
Stocking(b, i, x, H, S) ==
    Runs(b, i, x, H, S) /\ Stocked(x.conn[i].peer, x.conn[i], TcpOf(x, i), Sent(x, i))

LEMMA HeadAnswers ==
    ASSUME NEW c \in Slot PROVE AnswerTo(c, <<<<c.n, "head", 0>>>>)
PROOF
<1> DEFINE x == <<c.n, "head", 0>>
<1>1. x \in Part
  BY HeadIs DEF Slot
<1> HIDE DEF x
<1>2. <<x>> \in Seq(Part) /\ Len(<<x>>) = 1 /\ <<x>>[1] = x /\ <<x>> # <<>>
  BY <1>1
<1>3. ~\E k \in 2 .. Len(<<x>>) : TRUE
  BY <1>2
<1> QED  BY <1>2, <1>3 DEF AnswerTo, x

LEMMA AnswersFinish ==
    ASSUME NEW p, NEW c, NEW d \in Slot, NEW t, NEW A \in Seq(Part), Begins(p, c, t, A),
           SameRequest(c, d), Answers(d, d, "DONE"), c.len = c.received, ~IsSocket(c.req)
    PROVE  Finished(p, d, t, A)
PROOF
<1>1. /\ d.n = t.n /\ d.n > 0 /\ d.len = d.received /\ d.req = t.asked /\ d.received = t.asked.body
      /\ Whole(A) /\ Before(A, d.n) /\ Ready(t) /\ ~IsSocket(t.asked)
  BY DEF Begins, SameRequest
<1>2. d.len >= 0
  BY <1>1 DEF Slot
<1>3. AnswerTo(d, d.buf) /\ d.flags = Kept(d.req) \cup {"body"} /\ ~d.recvHdl
  BY DEF Answers
<1>4. Proper(t, A \o d.buf) /\ Answering(d, t, A \o d.buf)
  BY <1>1, <1>2, <1>3, AnswerBegins
<1>5. d.flags = {"chunked", "body"} \/ d.flags = {"body"}
  BY <1>3 DEF Kept
<1> QED  BY <1>1, <1>3, <1>4, <1>5 DEF Finished, Ready

LEMMA ReadsInCall ==
    ASSUME NEW p, NEW c, NEW d \in Slot, NEW t, NEW A \in Seq(Part), Begins(p, c, t, A),
           SameRequest(c, d), Reads(d, d, "MORE"), c.len = c.received, ~IsSocket(c.req)
    PROVE  InCall(p, d, t, A, <<>>)
PROOF
<1>1. /\ d.n = t.n /\ d.n > 0 /\ d.len = d.received /\ d.req = t.asked /\ d.received = t.asked.body
      /\ Whole(A) /\ Before(A, d.n) /\ Ready(t) /\ ~IsSocket(t.asked)
  BY DEF Begins, SameRequest
<1>2. d.len >= 0
  BY <1>1 DEF Slot
<1>3. d.cgi = "file" /\ d.flags = {"body"} \cup Kept(d.req) /\ ~d.recvHdl
  BY DEF Reads
<1>4. AnswerTo(d, d.buf)
  BY HeadAnswers DEF Reads
<1>5. Proper(t, A \o d.buf) /\ Answering(d, t, A \o d.buf)
  BY <1>1, <1>2, <1>4, AnswerBegins
<1>6. Reading(d, t, A \o d.buf, <<>>)
  BY <1>1, <1>3, <1>5 DEF Reading, Ready
<1> QED  BY <1>1, <1>5, <1>6 DEF InCall, Serving, Talking

LEMMA OpensInCall ==
    ASSUME NEW p, NEW c, NEW d \in Slot, NEW t, NEW A \in Seq(Part), Begins(p, c, t, A),
           SameRequest(c, d), Opens(d, d, "MORE"), c.len = 0, c.len = c.received
    PROVE  InCall(p, d, t, A, <<>>)
PROOF
<1>1. /\ d.n = t.n /\ d.n > 0 /\ d.len = 0 /\ d.received = t.asked.body
      /\ Whole(A) /\ Before(A, d.n) /\ Ready(t)
  BY DEF Begins, SameRequest
<1>2. d.cgi = "socket" /\ d.flags = {"body"} /\ d.recvHdl
  BY DEF Opens
<1>3. AnswerTo(d, d.buf)
  BY HeadAnswers DEF Opens
<1>4. Proper(t, A \o d.buf) /\ Answering(d, t, A \o d.buf)
  BY <1>1, <1>3, AnswerBegins
<1>5. FramesTo(p, t, <<>>)
  BY DEF FramesTo
<1>6. Open(p, d, t, A \o d.buf, <<>>)
  BY <1>1, <1>2, <1>4, <1>5 DEF Open, Ready
<1> QED  BY <1>1, <1>4, <1>6 DEF InCall, Serving, Talking

LEMMA TakesStocked ==
    ASSUME NEW p, NEW c, NEW d \in Slot, NEW t, NEW A, Begins(p, c, t, A),
           SameRequest(c, d), Takes(d, d, "MORE"), c.buffered = c.received
    PROVE  Stocked(p, d, t, A)
PROOF
<1>1. d.received < d.len
  BY DEF Begins, SameRequest, Takes, Slot
<1>2. d.at = d.received
  BY DEF SameRequest, Takes
<1> QED  BY <1>1, <1>2 DEF Begins, SameRequest, Takes, Stocked

LEMMA AfterDuring ==
    ASSUME NEW b, NEW i \in Slots, NEW x, NEW H, NEW S, NEW u, After(b, i, x, H, S, u)
    PROVE  During(b, i, x, H, S, u)
PROOF
<1>1. Sent(x, i) \in Seq(Part)
  BY GoodSlot DEF After, Runs, Sent
<1>2. Sent(x, i) \o <<>> = Sent(x, i)
  BY <1>1, JoinNothing
<1> QED  BY <1>2 DEF After, During, InCall

LEMMA ProcessServes ==
    ASSUME NEW b, NEW i \in Slots, NEW s, Good(s), s.conn[i].up, Beside(b, i, s),
           NEW H, H = s.handles, NEW S, Lists(s.sockets, S), Handle \ H # {}, i \notin S,
           Begins(s.conn[i].peer, s.conn[i], TcpOf(s, i), Sent(s, i)),
           s.conn[i].buffered = s.conn[i].received
    PROVE  LET x == httpdProcessRequest(s, i)
           IN /\ s.conn[i].len = s.conn[i].received => During(b, i, x, H, S, <<>>)
              /\ s.conn[i].len # s.conn[i].received =>
                    Stocking(b, i, x, H, S) /\ SameRequest(s.conn[i], x.conn[i])
PROOF
<1> DEFINE c == s.conn[i]
           p == c.peer
           t == s.tcp[p]
           A == s.answer[p]
           q == s.sockets
           x == httpdProcessRequest(s, i)
           w == Tried(Result(s, "NOTFOUND"), i, c.req.url)
           f == FoundBy(w, i)
           Goal == /\ c.len = c.received => During(b, i, x, H, S, <<>>)
                   /\ c.len # c.received => Stocking(b, i, x, H, S) /\ SameRequest(c, x.conn[i])
<1> SUFFICES Goal
  OBVIOUS
<1>1. s \in State /\ p \in Peers /\ c \in Slot /\ t \in Tcp /\ A \in Seq(Part) /\ H \in Heap /\ q \in Seq(Slots)
  BY GoodSlot, StateFields DEF Good
<1>2. Begins(p, c, t, A)
  BY DEF TcpOf, Sent
<1>3. Fresh(c) /\ c.buffered = c.received /\ c.req \in Requests[p]
  BY <1>2 DEF Begins
<1>4. FoundIn(s, i, c, H, q, f)
  BY <1>1, <1>3, SearchFinds
<1>5. x = IF f.res = "MORE" THEN httpdFlushSendBuffer(f, i) ELSE httpdCgiIsDone(f, i)
  BY ProcessIs DEF ProcessedBy, FoundBy, Nameless
<1>6. Good(f)
  <2>1. Good(w)
    <3>1. Good(Result(s, "NOTFOUND"))
      BY <1>1, KeepsResult, GoodKeeps DEF Res
    <3> QED  BY <3>1, GoodTried
  <2>2. w \in State
    BY <2>1 DEF Good
  <2> HIDE DEF w
  <2>3. Good(Nameless(w, i))
    <3> DEFINE a == [w.conn[i] EXCEPT !.cgi = "404"]
    <3>1. a \in Slot /\ Ends(w.conn[i], a)
      <4>1. "404" \in Cgis /\ NoRequest \in Asked /\ w.conn[i] \in Slot
        BY <2>2, StateFields DEF Cgis, Asked
      <4> QED  BY <4>1, WritesType
    <3>2. Nameless(w, i) = [w EXCEPT !.conn[i] = a]
      BY <2>2 DEF State, Nameless
    <3> HIDE DEF a
    <3> QED  BY <2>1, <3>1, <3>2, GoodWrite
  <2>4. Nameless(w, i) \in State
    BY <2>3 DEF Good
  <2> QED  BY <2>1, <2>3, <2>4, KeepsNotFound, GoodKeeps DEF FoundBy
<1> HIDE DEF x, f
<1>7. PICK d \in Slot, h2 \in Heap, q2 \in Seq(Slots), e \in Res :
         f = Into(s, i, d, h2, q2, e) /\ Found(c, H, q, i, d, h2, q2, e)
  BY <1>4 DEF FoundIn
<1>8. /\ SameRequest(c, d) /\ e # "NOTFOUND" /\ Served(d, H, q, i, d, h2, q2, e)
      /\ c.req.url = "socket" <=> d.cgi = "socket"
      /\ c.len # c.received => e = "MORE" /\ d.cgi = "upload"
  BY <1>2, <1>7 DEF Found, Begins
<1>9. /\ f.conn[i] = d /\ f.tcp = s.tcp /\ f.answer = s.answer /\ f.handles = h2
      /\ f.sockets = q2 /\ f.res = e
  BY <1>1, <1>7, IntoIs
<1>10. d.peer = p /\ d.up
  BY <1>3, <1>8 DEF SameRequest, Fresh
<1>11. Beside(b, i, f)
  <2>1. Beside(s, i, f)
    BY <1>1, <1>3, <1>7, <1>10, BesideInto DEF Fresh
  <2> QED  BY <2>1, BesideTwice
<1>12. CASE Answers(d, d, e) /\ h2 = H /\ q2 = q
  <2>1. e = "DONE" /\ c.len = c.received /\ ~IsSocket(c.req)
    BY <1>8, <1>12 DEF Answers, IsSocket, SameRequest
  <2>2. Finished(p, d, t, A)
    BY <1>1, <1>2, <1>8, <1>12, <2>1, AnswersFinish
  <2>3. Finishing(b, i, f, H, S)
    BY <1>6, <1>9, <1>10, <1>11, <1>12, <2>2 DEF Finishing, TcpOf, Sent
  <2>4. x = httpdCgiIsDone(f, i)
    BY <1>5, <1>9, <2>1
  <2> QED  BY <2>1, <2>3, <2>4, DoneServes
<1>13. CASE e = "MORE" /\ c.len = c.received /\ InCall(p, d, t, A, <<>>) /\ Uses(d, i, h2, q2, H, S)
  <2>1. During(b, i, f, H, S, <<>>)
    BY <1>6, <1>9, <1>10, <1>11, <1>13 DEF During, Runs, TcpOf, Sent
  <2>2. After(b, i, x, H, S, <<>>)
    BY <1>5, <1>9, <1>13, <2>1, FlushAfter
  <2> QED  BY <1>13, <2>2, AfterDuring
<1>14. CASE Reads(d, d, e) /\ Holds(d, H, h2) /\ q2 = q
  <2>1. e = "MORE" /\ c.len = c.received /\ ~IsSocket(c.req) /\ d.cgi = "file"
    BY <1>8, <1>14 DEF Reads, IsSocket
  <2>2. InCall(p, d, t, A, <<>>)
    BY <1>1, <1>2, <1>8, <1>14, <2>1, ReadsInCall
  <2>3. Uses(d, i, h2, q2, H, S)
    BY <1>14, <2>1 DEF Uses
  <2> QED  BY <1>13, <2>1, <2>2, <2>3
<1>15. CASE Opens(d, d, e) /\ Holds(d, H, h2) /\ q2 = Append(q, i)
  <2>1. e = "MORE" /\ c.req.url = "socket" /\ d.cgi = "socket"
    BY <1>8, <1>15 DEF Opens
  <2>2. c.len = 0 /\ c.len = c.received
    <3>1. c.req.body = 0
      BY <1>1, <1>3, <2>1, ClientAssumption
    <3>2. c.received \in Nat
      BY <1>1 DEF Slot
    <3>3. c.len = c.req.body /\ c.received <= c.len
      BY <1>2 DEF Begins
    <3> QED  BY <3>1, <3>2, <3>3
  <2>3. InCall(p, d, t, A, <<>>)
    BY <1>1, <1>2, <1>8, <1>15, <2>1, <2>2, OpensInCall
  <2>4. Lists(q2, S \cup {i})
    BY <1>15, ListsAppend
  <2>5. Uses(d, i, h2, q2, H, S)
    BY <1>15, <2>1, <2>4 DEF Uses
  <2> QED  BY <1>13, <2>1, <2>2, <2>3, <2>5
<1>16. CASE Takes(d, d, e) /\ Holds(d, H, h2) /\ q2 = q
  <2>1. e = "MORE" /\ d.cgi = "upload" /\ c.len # c.received /\ d.buf = <<>>
    BY <1>8, <1>16 DEF Takes, SameRequest
  <2>2. Stocked(p, d, t, A)
    BY <1>2, <1>3, <1>8, <1>16, <2>1, TakesStocked
  <2>3. x = f
    <3>1. x = httpdFlushSendBuffer(f, i)
      BY <1>5, <1>9, <2>1
    <3>2. Flushed(d) = <<>>
      <4>1. <<>> \o <<>> = <<>>
        OBVIOUS
      <4> QED  BY <2>1, <4>1 DEF Flushed, LastPart
    <3>3. d = f.conn[i] /\ f \in State
      BY <1>6, <1>9 DEF Good
    <3> QED  BY <1>1, <1>10, <3>1, <3>2, <3>3, FlushIs
  <2>4. Uses(d, i, h2, q2, H, S)
    BY <1>16, <2>1 DEF Uses
  <2>5. Stocking(b, i, f, H, S)
    BY <1>6, <1>9, <1>10, <1>11, <2>2, <2>4 DEF Stocking, Runs, TcpOf, Sent
  <2> QED  BY <1>8, <1>9, <2>1, <2>3, <2>5
<1> QED  BY <1>8, <1>12, <1>14, <1>15, <1>16 DEF Served, Refuses

(* What is to come.                                                        *)
From(u, k) == SubSeq(u, k, Len(u))

LEMMA BodiesAre ==
    ASSUME NEW m \in Nat
    PROVE  /\ Bodies(m) \in Seq({"body"}) /\ Len(Bodies(m)) = m
           /\ m = 0 => Bodies(m) = <<>>
           /\ m > 0 => Bodies(m) # <<>> /\ Tail(Bodies(m)) = Bodies(m - 1)
PROOF
<1>1. Bodies(m) \in Seq({"body"}) /\ Len(Bodies(m)) = m
  BY DEF Bodies
<1>2. m = 0 => Bodies(m) = <<>>
  BY <1>1
<1>3. m > 0 => Bodies(m) # <<>>
  BY <1>1
<1>4. ASSUME m > 0 PROVE Tail(Bodies(m)) = Bodies(m - 1)
  BY <1>4 DEF Bodies
<1> QED  BY <1>1, <1>2, <1>3, <1>4

LEMMA CallIs ==
    ASSUME NEW m \in Nat
    PROVE  <<"headers">> \o Bodies(m) # <<>> /\ Tail(<<"headers">> \o Bodies(m)) = Bodies(m)
PROOF
<1>1. Bodies(m) \in Seq({"body"})
  BY BodiesAre
<1> DEFINE B == Bodies(m)
<1> HIDE DEF B
<1>2. B \in Seq({"headers", "body"})
  BY <1>1 DEF B
<1>3. <<"headers">> \o B # <<>> /\ Tail(<<"headers">> \o B) = B
  BY <1>2
<1> QED  BY <1>3 DEF B

(* A flag of the slot, written.                                            *)
Parsing(s, i, req) == httpdParseHeaders(s, i, req)
Feeding(s, i) == [s EXCEPT !.conn[i].buffered = @ + 1, !.conn[i].received = @ + 1]
Draining(s, i) == [s EXCEPT !.conn[i].buffered = 0]

LEMMA WritesInto ==
    ASSUME NEW s \in State, NEW i \in Slots, NEW req
    PROVE  /\ httpdParseHeaders(s, i, req)
                 = Into(s, i, Parsed(s.conn[i], req), s.handles, s.sockets, s.res)
           /\ Feeding(s, i) = Into(s, i, Fed(s.conn[i]), s.handles, s.sockets, s.res)
           /\ Draining(s, i) = Into(s, i, Drained(s.conn[i]), s.handles, s.sockets, s.res)
PROOF
<1>1. httpdParseHeaders(s, i, req) = Into(s, i, Parsed(s.conn[i], req), s.handles, s.sockets, s.res)
  <2>1. httpdParseHeaders(s, i, req) = [s EXCEPT !.conn[i] = Parsed(s.conn[i], req)]
    BY ParseIs
  <2> QED  BY <2>1, WriteIs
<1>2. Feeding(s, i) = Into(s, i, Fed(s.conn[i]), s.handles, s.sockets, s.res)
  <2>1. Feeding(s, i) = [s EXCEPT !.conn[i] = Fed(s.conn[i])]
    BY DEF Feeding, Fed, State
  <2> QED  BY <2>1, WriteIs
<1>3. Draining(s, i) = Into(s, i, Drained(s.conn[i]), s.handles, s.sockets, s.res)
  <2>1. Draining(s, i) = [s EXCEPT !.conn[i] = Drained(s.conn[i])]
    BY DEF Draining, Drained, State
  <2> QED  BY <2>1, WriteIs
<1> QED  BY <1>1, <1>2, <1>3

LEMMA ParsedFields ==
    ASSUME NEW c \in Slot, NEW req \in Request
    PROVE  LET d == Parsed(c, req)
           IN /\ d \in Slot /\ d.n = c.n + 1 /\ d.req = req /\ d.len = req.body
              /\ d.flags = c.flags \cup Kept(req) /\ d.peer = c.peer /\ d.up = c.up
              /\ d.received = c.received /\ d.buffered = c.buffered /\ d.buf = c.buf
              /\ d.recvHdl = c.recvHdl /\ d.cgi = c.cgi /\ d.backlog = c.backlog /\ d.data = c.data
PROOF
<1>1. Parsed(c, req) \in Slot
  BY WritesType DEF Asked, Cgis
<1> QED  BY <1>1 DEF Parsed, Slot, Kept

LEMMA FedFields ==
    ASSUME NEW c \in Slot
    PROVE  LET d == Fed(c)
           IN /\ d \in Slot /\ d.received = c.received + 1 /\ d.buffered = c.buffered + 1
              /\ d.n = c.n /\ d.req = c.req /\ d.len = c.len
              /\ d.flags = c.flags /\ d.peer = c.peer /\ d.up = c.up /\ d.at = c.at /\ d.buf = c.buf
              /\ d.recvHdl = c.recvHdl /\ d.cgi = c.cgi /\ d.backlog = c.backlog /\ d.data = c.data
PROOF
<1>1. Fed(c) \in Slot
  BY WritesType DEF Asked, Cgis
<1> QED  BY <1>1 DEF Fed, Slot

LEMMA DrainedFields ==
    ASSUME NEW c \in Slot
    PROVE  LET d == Drained(c)
           IN /\ d \in Slot /\ d.received = c.received /\ d.buffered = 0
              /\ d.n = c.n /\ d.req = c.req /\ d.len = c.len
              /\ d.flags = c.flags /\ d.peer = c.peer /\ d.up = c.up /\ d.at = c.at /\ d.buf = c.buf
              /\ d.recvHdl = c.recvHdl /\ d.cgi = c.cgi /\ d.backlog = c.backlog /\ d.data = c.data
PROOF
<1>1. Drained(c) \in Slot
  BY WritesType DEF Asked, Cgis
<1> QED  BY <1>1 DEF Drained, Slot

LEMMA RequestIs ==
    ASSUME NEW p \in Peers, NEW req, req \in Requests[p]
    PROVE  /\ req \in Request /\ req.body \in Nat
           /\ req.body <= PostLen \/ IsUploaded(req.url)
           /\ req.body > 0 => ~IsSocket(req)
PROOF
<1>1. req \in Request
  BY HttpdAssumption
<1>2. req.body \in Nat
  BY <1>1 DEF Request
<1> QED  BY <1>1, <1>2, ClientAssumption DEF IsSocket

\* The slot written in a callback: what it is at, and what it uses, if these stay.
LEMMA WriteRuns ==
    ASSUME NEW b, NEW i \in Slots, NEW s, NEW H, NEW S, Runs(b, i, s, H, S), NEW d \in Slot,
           Ends(s.conn[i], d), d.cgi = s.conn[i].cgi, d.data = s.conn[i].data,
           NEW x, x = Into(s, i, d, s.handles, s.sockets, s.res)
    PROVE  /\ Runs(b, i, x, H, S) /\ x.conn[i] = d /\ TcpOf(x, i) = TcpOf(s, i)
           /\ Sent(x, i) = Sent(s, i) /\ x.handles = s.handles /\ x.sockets = s.sockets
PROOF
<1>1. Good(s) /\ s.conn[i].up /\ Beside(b, i, s) /\ Uses(s.conn[i], i, s.handles, s.sockets, H, S)
  BY DEF Runs
<1>2. s \in State /\ d.peer = s.conn[i].peer /\ d.up = s.conn[i].up
  BY <1>1 DEF Good, Ends
<1>3. /\ x.conn[i] = d /\ x.tcp = s.tcp /\ x.answer = s.answer
      /\ x.handles = s.handles /\ x.sockets = s.sockets
  BY <1>2, IntoIs
<1>4. Good(x)
  <2>1. x = [s EXCEPT !.conn[i] = d]
    BY <1>2, WriteIs
  <2> HIDE DEF Ends
  <2> QED  BY <1>1, <2>1, GoodWrite
<1>5. Beside(b, i, x)
  BY <1>1, <1>2, BesideInto, BesideTwice
<1>6. Uses(d, i, x.handles, x.sockets, H, S)
  BY <1>1, <1>3 DEF Uses, Holds
<1> QED  BY <1>1, <1>2, <1>3, <1>4, <1>5, <1>6 DEF Runs, TcpOf, Sent

\* What a unit of data finds: headers for a slot that waits for them, a body, or a frame.
LEMMA UnitFinds ==
    ASSUME NEW p, NEW c \in Slot, NEW t, NEW A \in Seq(Part), NEW u, InCall(p, c, t, A, u), u # <<>>
    PROVE  /\ c.len < 0 => Calling(p, c, t, A, u) /\ Proper(t, A)
           /\ c.len > 0 => Gathering(p, c, t, A, u) /\ Proper(t, A)
           /\ c.len = 0 => Open(p, c, t, A \o c.buf, u)
PROOF
<1>1. c.len \in Int /\ c.received \in Nat
  BY DEF Slot
<1>2. A \o <<>> = A
  BY JoinNothing
<1> DEFINE B == A \o c.buf
<1>3. Proper(t, B) /\ (Calling(p, c, t, B, u) \/ Gathering(p, c, t, B, u) \/ Open(p, c, t, B, u))
  BY DEF InCall, Serving, Quiet, Talking, Resting, Reading, Ending
<1>4. CASE Calling(p, c, t, B, u)
  <2>1. c.len = -1 /\ c.buf = <<>>
    BY <1>4 DEF Calling, Blank
  <2> QED  BY <1>2, <1>3, <1>4, <2>1
<1>5. CASE Gathering(p, c, t, B, u)
  <2>1. c.received < c.len /\ c.buf = <<>>
    BY <1>5 DEF Gathering
  <2> QED  BY <1>1, <1>2, <1>3, <1>5, <2>1
<1>6. CASE Open(p, c, t, B, u)
  <2>1. c.len = 0
    BY <1>6 DEF Open
  <2> QED  BY <1>6, <2>1
<1> QED  BY <1>3, <1>4, <1>5, <1>6

LEMMA QuietInCall ==
    ASSUME NEW p, NEW c, NEW t, NEW A \in Seq(Part), NEW u, Proper(t, A), Quiet(p, c, t, A, u), c.buf = <<>>
    PROVE  InCall(p, c, t, A, u)
PROOF
<1>1. A \o <<>> = A
  BY JoinNothing
<1> QED  BY <1>1 DEF InCall, Serving

(* The headers are in.                                                     *)
LEMMA ParsedBegins ==
    ASSUME NEW p \in Peers, NEW c \in Slot, NEW t \in Tcp, NEW A \in Seq(Part), NEW u, c.up,
           Calling(p, c, t, A, u), Proper(t, A), NEW d, d = Parsed(c, t.asked)
    PROVE  /\ d \in Slot /\ Ends(c, d) /\ d.cgi = c.cgi /\ d.data = c.data /\ c.cgi = "none"
           /\ Tail(u) = Bodies(t.asked.body) /\ t.asked.body \in Nat /\ t.asked \in Request
           /\ t.asked.body = 0 => /\ Begins(p, d, t, A) /\ d.buffered = d.received
                                  /\ d.len = d.received /\ Bodies(t.asked.body) = <<>>
           /\ t.asked.body > 0 => Gathering(p, d, t, A, Bodies(t.asked.body)) /\ d.buf = <<>>
PROOF
<1>1. /\ t.asked \in Requests[p] /\ t.state = "UP" /\ t.out = <<>> /\ t.n = c.n + 1
      /\ u = <<"headers">> \o Bodies(t.asked.body) /\ UpTo(A, c.n) /\ c.buf = <<>>
      /\ c.len = -1 /\ c.cgi = "none" /\ c.flags = {} /\ c.received = 0 /\ c.buffered = 0 /\ ~c.recvHdl
  BY DEF Calling, Blank
<1>2. t.asked \in Request /\ t.asked.body \in Nat
  BY <1>1, RequestIs
<1>3. /\ d \in Slot /\ d.n = c.n + 1 /\ d.req = t.asked /\ d.len = t.asked.body
      /\ d.flags = Kept(t.asked) /\ d.peer = c.peer /\ d.up = c.up /\ d.received = 0
      /\ d.buffered = 0 /\ d.buf = <<>> /\ ~d.recvHdl /\ d.cgi = c.cgi /\ d.backlog = c.backlog
      /\ d.data = c.data
  <2>1. {} \cup Kept(t.asked) = Kept(t.asked)
    OBVIOUS
  <2>2. /\ d \in Slot /\ d.n = c.n + 1 /\ d.req = t.asked /\ d.len = t.asked.body
        /\ d.flags = c.flags \cup Kept(t.asked) /\ d.peer = c.peer /\ d.up = c.up
        /\ d.received = c.received /\ d.buffered = c.buffered /\ d.buf = c.buf
        /\ d.recvHdl = c.recvHdl /\ d.cgi = c.cgi /\ d.backlog = c.backlog /\ d.data = c.data
    BY <1>2, ParsedFields
  <2> QED  BY <1>1, <2>1, <2>2
<1>4. c.n \in Nat
  BY DEF Slot
<1>5. Before(A, d.n) /\ d.n > 0 /\ d.n = t.n /\ Whole(A)
  BY <1>1, <1>3, <1>4, UpToIs DEF Proper
<1>6. Tail(u) = Bodies(t.asked.body) /\ (t.asked.body = 0 => Bodies(t.asked.body) = <<>>)
  BY <1>1, <1>2, CallIs, BodiesAre
<1>7. t.asked.body = 0 => Begins(p, d, t, A)
  BY <1>1, <1>2, <1>3, <1>5 DEF Begins, Fresh, Ready
<1>8. ASSUME t.asked.body > 0 PROVE Gathering(p, d, t, A, Bodies(t.asked.body))
  <2>1. 0 < PostLen
    BY HttpdAssumption
  <2>2. d.len - d.received = t.asked.body /\ d.received < d.len
    BY <1>2, <1>3, <1>8
  <2> QED  BY <1>1, <1>3, <1>5, <2>1, <2>2 DEF Gathering
<1> QED  BY <1>1, <1>2, <1>3, <1>6, <1>7, <1>8 DEF Ends

LEMMA HeadersServes ==
    ASSUME NEW b, NEW i \in Slots, NEW s, NEW H, NEW S, NEW u, Runs(b, i, s, H, S),
           Calling(s.conn[i].peer, s.conn[i], TcpOf(s, i), Sent(s, i), u),
           Proper(TcpOf(s, i), Sent(s, i)), i \notin S, Handle \ H # {}
    PROVE  During(b, i, Headers(s, i, TcpOf(s, i).asked), H, S, Tail(u))
PROOF
<1> DEFINE c == s.conn[i]
           p == c.peer
           t == TcpOf(s, i)
           A == Sent(s, i)
           d == Parsed(c, t.asked)
           x == httpdParseHeaders(s, i, t.asked)
<1>1. Good(s) /\ c.up
  BY DEF Runs
<1>2. s \in State /\ p \in Peers /\ c \in Slot /\ t \in Tcp /\ A \in Seq(Part)
  BY <1>1, GoodSlot DEF Good, TcpOf, Sent
<1>3. /\ d \in Slot /\ Ends(c, d) /\ d.cgi = c.cgi /\ d.data = c.data /\ c.cgi = "none"
      /\ Tail(u) = Bodies(t.asked.body) /\ t.asked.body \in Nat /\ t.asked \in Request
      /\ t.asked.body = 0 => /\ Begins(p, d, t, A) /\ d.buffered = d.received
                             /\ d.len = d.received /\ Bodies(t.asked.body) = <<>>
      /\ t.asked.body > 0 => Gathering(p, d, t, A, Bodies(t.asked.body)) /\ d.buf = <<>>
  <2> HIDE DEF c, t, A
  <2> QED  BY <1>1, <1>2, ParsedBegins DEF c, t, A
<1>4. x = Into(s, i, d, s.handles, s.sockets, s.res)
  BY <1>2, WritesInto
<1> HIDE DEF d, x
<1>5. /\ Runs(b, i, x, H, S) /\ x.conn[i] = d /\ TcpOf(x, i) = t /\ Sent(x, i) = A
      /\ x.handles = s.handles /\ x.sockets = s.sockets
  BY <1>3, <1>4, WriteRuns
<1>6. d.peer = p /\ d.up
  BY <1>1, <1>3 DEF Ends
<1>7. CASE t.asked.body = 0
  <2>1. /\ Good(x) /\ x.conn[i].up /\ Beside(b, i, x) /\ H = x.handles /\ Lists(x.sockets, S)
    BY <1>3, <1>5 DEF Runs, Uses
  <2>2. Begins(x.conn[i].peer, x.conn[i], TcpOf(x, i), Sent(x, i))
    BY <1>3, <1>5, <1>6, <1>7
  <2>3. x.conn[i].buffered = x.conn[i].received /\ x.conn[i].len = x.conn[i].received
    BY <1>3, <1>5, <1>7
  <2>4. During(b, i, httpdProcessRequest(x, i), H, S, <<>>)
    BY <2>1, <2>2, <2>3, ProcessServes
  <2>5. Headers(s, i, t.asked) = httpdProcessRequest(x, i)
    BY <1>7 DEF Headers, x
  <2> QED  BY <1>3, <1>7, <2>4, <2>5
<1>8. CASE t.asked.body > 0
  <2>1. InCall(p, d, t, A, Bodies(t.asked.body))
    BY <1>2, <1>3, <1>8, QuietInCall DEF Quiet
  <2>2. During(b, i, x, H, S, Bodies(t.asked.body))
    BY <1>5, <1>6, <2>1 DEF During
  <2>3. Headers(s, i, t.asked) = x
    BY <1>8 DEF Headers, x
  <2> QED  BY <1>3, <2>2, <2>3
<1> QED  BY <1>3, <1>7, <1>8

(* A unit of the body.                                                     *)
Size(c) == IF c.len > PostLen THEN PostLen ELSE c.len
Enough(c) == c.buffered >= Size(c) \/ c.received = c.len
\* Enough of a body is gathered for its CGI.
Calls(p, c, t, A) ==
    /\ Begins(p, c, t, A) /\ c.received > 0
    /\ \/ c.cgi = "none" /\ c.buffered = c.received
       \/ c.cgi = "upload" /\ c.at + c.buffered = c.received
\* The name of a CGI is all that is looked at, so the server it is called on is given apart.
Ran(m, i) ==
    LET c == m.conn[i]
        cgi == Call(m, i, c.cgi)
    IN IF c.cgi = "none" THEN httpdProcessRequest(m, i)
       ELSE IF cgi.res = "DONE" THEN httpdCgiIsDone(cgi, i) ELSE cgi

LEMMA PostIs ==
    ASSUME NEW s, NEW i
    PROVE  PostByte(s, i) = IF Enough(Feeding(s, i).conn[i])
                            THEN Draining(Ran(Feeding(s, i), i), i) ELSE Feeding(s, i)
PROOF
  BY DEF PostByte, Enough, Size, Feeding, Draining, Ran

LEMMA FedBegins ==
    ASSUME NEW p \in Peers, NEW c \in Slot, NEW t \in Tcp, NEW A \in Seq(Part), NEW u, c.up,
           Gathering(p, c, t, A, u), Proper(t, A), NEW d, d = Fed(c)
    PROVE  /\ d \in Slot /\ Ends(c, d) /\ d.cgi = c.cgi /\ d.data = c.data /\ d.buf = <<>>
           /\ Tail(u) = Bodies(d.len - d.received)
           /\ d.len = d.received => Bodies(d.len - d.received) = <<>>
           /\ ~Enough(d) => Gathering(p, d, t, A, Tail(u))
           /\ Enough(d) => Calls(p, d, t, A)
PROOF
<1>1. /\ t.asked \in Requests[p] /\ t.state = "UP" /\ t.out = <<>> /\ c.n = t.n /\ c.n > 0
      /\ c.req = t.asked /\ c.buf = <<>> /\ c.len = c.req.body /\ c.received < c.len
      /\ u = Bodies(c.len - c.received) /\ Before(A, c.n) /\ ~c.recvHdl
      /\ c.flags = Kept(c.req)
      /\ \/ c.cgi = "none" /\ c.buffered = c.received /\ c.received < PostLen
         \/ c.cgi = "upload" /\ c.at + c.buffered = c.received
  BY DEF Gathering
<1>2. /\ c.received \in Nat /\ c.buffered \in Nat /\ c.at \in Nat /\ c.len \in Int /\ c.n \in Nat
      /\ PostLen \in Nat
  BY HttpdAssumption DEF Slot
<1>3. /\ d \in Slot /\ d.received = c.received + 1 /\ d.buffered = c.buffered + 1
      /\ d.n = c.n /\ d.req = c.req /\ d.len = c.len
      /\ d.flags = c.flags /\ d.peer = c.peer /\ d.up = c.up /\ d.at = c.at /\ d.buf = c.buf
      /\ d.recvHdl = c.recvHdl /\ d.cgi = c.cgi /\ d.backlog = c.backlog /\ d.data = c.data
  BY FedFields
<1>4. Tail(u) = Bodies(d.len - d.received) /\ d.received <= d.len
      /\ (d.len = d.received => Bodies(d.len - d.received) = <<>>)
  <2>1. c.len - c.received \in Nat /\ c.len - c.received > 0
    BY <1>1, <1>2
  <2>2. (c.len - c.received) - 1 = d.len - d.received
    BY <1>2, <1>3
  <2>3. Tail(u) = Bodies(d.len - d.received)
    BY <1>1, <2>1, <2>2, BodiesAre
  <2>4. d.received <= d.len
    BY <1>1, <1>2, <1>3
  <2>5. d.len = d.received => d.len - d.received = 0
    BY <1>2, <1>3
  <2>6. 0 \in Nat
    OBVIOUS
  <2>7. Bodies(0) = <<>>
    BY ONLY <2>6, BodiesAre
  <2>8. d.len = d.received => Bodies(d.len - d.received) = <<>>
    BY <2>5, <2>7
  <2> QED  BY <2>3, <2>4, <2>8
<1>5. ASSUME ~Enough(d) PROVE Gathering(p, d, t, A, Tail(u))
  <2>1. d.received < d.len /\ d.buffered < Size(d)
    BY <1>2, <1>3, <1>4, <1>5 DEF Enough, Size
  <2>2. d.cgi = "none" => d.buffered = d.received /\ d.received < PostLen
    BY <1>1, <1>2, <1>3, <2>1 DEF Size
  <2>3. ASSUME d.cgi = "upload" PROVE d.at + d.buffered = d.received
    <3>1. c.at + c.buffered = c.received
      BY <1>1, <1>3, <2>3
    <3> QED  BY <1>2, <1>3, <3>1
  <2> QED  BY <1>1, <1>3, <1>4, <2>1, <2>2, <2>3 DEF Gathering
<1>6. ASSUME Enough(d) PROVE Calls(p, d, t, A)
  <2>1. d.len # d.received => IsUploaded(d.req.url)
    <3>1. /\ d.len \in Int /\ d.received \in Nat /\ d.buffered \in Nat /\ d.at \in Nat
          /\ PostLen \in Nat /\ d.received <= d.len
      BY ONLY <1>2, <1>3, <1>4
    <3>2. d.len # d.received => d.buffered >= Size(d)
      BY ONLY <1>6 DEF Enough
    <3>3. d.len # d.received /\ d.cgi = "none" => d.len > PostLen
      <4>1. d.cgi = "none" => d.buffered = d.received
        BY ONLY <1>1, <1>3
      <4> QED  BY ONLY <3>1, <3>2, <4>1 DEF Size
    <3>4. d.len # d.received /\ d.cgi = "upload" => d.len > PostLen
      <4>1. ASSUME d.cgi = "upload" PROVE d.at + d.buffered = d.received
        <5>1. c.at + c.buffered = c.received
          BY ONLY <1>1, <1>3, <4>1
        <5> QED  BY ONLY <1>2, <1>3, <5>1
      <4>2. ASSUME d.at + d.buffered = d.received PROVE d.buffered <= d.received
        BY ONLY <3>1, <4>2
      <4> QED  BY ONLY <3>1, <3>2, <4>1, <4>2 DEF Size
    <3>5. d.req.body <= PostLen \/ IsUploaded(d.req.url)
      BY <1>1, <1>3, RequestIs
    <3> QED  BY <1>1, <1>2, <1>3, <3>3, <3>4, <3>5
  <2>2. Begins(p, d, t, A)
    BY <1>1, <1>3, <1>4, <2>1 DEF Begins, Fresh, Ready, Proper
  <2>3. d.received > 0
    BY <1>2, <1>3
  <2>4. \/ d.cgi = "none" /\ d.buffered = d.received
        \/ d.cgi = "upload" /\ d.at + d.buffered = d.received
    <3>1. CASE c.cgi = "none" /\ c.buffered = c.received
      <4>1. d.buffered = d.received
        BY <1>3, <3>1
      <4> QED  BY <1>3, <3>1, <4>1
    <3>2. CASE c.cgi = "upload" /\ c.at + c.buffered = c.received
      <4>1. d.at + d.buffered = d.received
        BY <1>2, <1>3, <3>2
      <4> QED  BY <1>3, <3>2, <4>1
    <3> QED  BY <1>1, <3>1, <3>2
  <2> QED  BY <2>2, <2>3, <2>4 DEF Calls
<1> QED  BY <1>1, <1>3, <1>4, <1>5, <1>6 DEF Ends

(* What was gathered is drained.                                           *)
LEMMA DrainedServes ==
    ASSUME NEW p \in Peers, NEW c \in Slot, NEW t, NEW B, Serving(p, c, t, B, <<>>)
    PROVE  Serving(p, Drained(c), t, B, <<>>)
PROOF
<1> DEFINE d == Drained(c)
<1>1. /\ d.received = c.received /\ d.buffered = 0 /\ d.n = c.n /\ d.len = c.len
      /\ d.flags = c.flags /\ d.recvHdl = c.recvHdl /\ d.cgi = c.cgi
  BY DrainedFields
<1>2. ~Calling(p, c, t, B, <<>>)
  <2>1. ASSUME Calling(p, c, t, B, <<>>) PROVE FALSE
    <3>1. t.asked \in Requests[p] /\ <<>> = <<"headers">> \o Bodies(t.asked.body)
      BY <2>1 DEF Calling
    <3>2. t.asked.body \in Nat
      BY <3>1, RequestIs
    <3> QED  BY <3>1, <3>2, CallIs
  <2> QED  BY <2>1
<1>3. ~Gathering(p, c, t, B, <<>>)
  <2>1. ASSUME Gathering(p, c, t, B, <<>>) PROVE FALSE
    <3>1. c.len - c.received \in Nat /\ c.len - c.received > 0
      BY <2>1 DEF Gathering, Slot
    <3>2. Bodies(c.len - c.received) # <<>>
      BY <3>1, BodiesAre
    <3> QED  BY <2>1, <3>2 DEF Gathering
  <2> QED  BY <2>1
<1> HIDE DEF d
<1>4. Talking(p, d, t, B, <<>>)
  <2>1. Answering(c, t, B) => Answering(d, t, B)
    BY <1>1 DEF Answering
  <2>2. Resting(c, t, B, <<>>) => Resting(d, t, B, <<>>)
    BY <1>1 DEF Resting, Blank
  <2>3. ASSUME Reading(c, t, B, <<>>) PROVE Reading(d, t, B, <<>>)
    <3>1. d.req = c.req
      BY DrainedFields DEF d
    <3> QED  BY <1>1, <2>1, <2>3, <3>1 DEF Reading, Kept
  <2>4. Open(p, c, t, B, <<>>) => Open(p, d, t, B, <<>>)
    BY <1>1, <2>1 DEF Open
  <2>5. Ending(p, c, t, B, <<>>) => Ending(p, d, t, B, <<>>)
    BY <1>1, <2>1 DEF Ending
  <2> QED  BY <1>2, <1>3, <2>2, <2>3, <2>4, <2>5 DEF Serving, Quiet, Talking
<1> QED  BY <1>4 DEF Serving, d

LEMMA DrainServes ==
    ASSUME NEW b, NEW i \in Slots, NEW s, NEW H, NEW S, During(b, i, s, H, S, <<>>)
    PROVE  During(b, i, Draining(s, i), H, S, <<>>)
PROOF
<1> DEFINE c == s.conn[i]
           d == Drained(c)
           x == Draining(s, i)
<1>1. Runs(b, i, s, H, S) /\ s \in State /\ c \in Slot /\ c.peer \in Peers
  BY GoodSlot DEF During, Runs, Good
<1>2. /\ d \in Slot /\ Ends(c, d) /\ d.cgi = c.cgi /\ d.data = c.data /\ d.buf = c.buf /\ d.peer = c.peer
  BY <1>1, DrainedFields DEF Ends
<1>3. x = Into(s, i, d, s.handles, s.sockets, s.res)
  BY <1>1, WritesInto
<1>4. InCall(c.peer, d, TcpOf(s, i), Sent(s, i), <<>>)
  <2> DEFINE p == c.peer
             t == TcpOf(s, i)
             A == Sent(s, i)
  <2>1. InCall(p, c, t, A, <<>>) /\ p \in Peers /\ c \in Slot
    BY <1>1 DEF During
  <2> HIDE DEF c, p, t, A, d
  <2>2. Serving(p, d, t, A \o c.buf, <<>>)
    BY <2>1, DrainedServes DEF InCall, d
  <2>3. Serving(p, c, t, A, <<>>) => Serving(p, d, t, A, <<>>)
    BY <2>1, DrainedServes DEF d
  <2>4. InCall(p, d, t, A, <<>>)
    BY <1>2, <2>1, <2>2, <2>3 DEF InCall
  <2> QED  BY <2>4 DEF p, t, A
<1> HIDE DEF d, x
<1>5. /\ Runs(b, i, x, H, S) /\ x.conn[i] = d /\ TcpOf(x, i) = TcpOf(s, i) /\ Sent(x, i) = Sent(s, i)
  BY <1>1, <1>2, <1>3, WriteRuns
<1> QED  BY <1>2, <1>4, <1>5 DEF During, x

\* What is taken of an upload that has more to come.
LEMMA StockServes ==
    ASSUME NEW b, NEW i \in Slots, NEW s, NEW H, NEW S, Stocking(b, i, s, H, S)
    PROVE  During(b, i, Draining(s, i), H, S, Bodies(s.conn[i].len - s.conn[i].received))
PROOF
<1> DEFINE c == s.conn[i]
           d == Drained(c)
           p == c.peer
           t == TcpOf(s, i)
           A == Sent(s, i)
           x == Draining(s, i)
           u == Bodies(c.len - c.received)
<1>1. Runs(b, i, s, H, S) /\ s \in State /\ c \in Slot /\ A \in Seq(Part)
  BY GoodSlot DEF Stocking, Runs, Good, Sent
<1>2. /\ d \in Slot /\ Ends(c, d) /\ d.cgi = c.cgi /\ d.data = c.data /\ d.buf = c.buf /\ d.peer = c.peer
      /\ d.received = c.received /\ d.buffered = 0 /\ d.n = c.n /\ d.req = c.req /\ d.len = c.len
      /\ d.flags = c.flags /\ d.at = c.at /\ d.recvHdl = c.recvHdl
  BY <1>1, DrainedFields DEF Ends
<1>3. x = Into(s, i, d, s.handles, s.sockets, s.res)
  BY <1>1, WritesInto
<1>4. Stocked(p, c, t, A)
  BY DEF Stocking
<1> HIDE DEF d, x
<1>5. /\ Runs(b, i, x, H, S) /\ x.conn[i] = d /\ TcpOf(x, i) = t /\ Sent(x, i) = A
  BY <1>1, <1>2, <1>3, WriteRuns
<1> HIDE DEF c, p, t, A
<1>6. Gathering(p, d, t, A, u) /\ d.buf = <<>>
  <2>1. d.at + d.buffered = d.received
    BY <1>1, <1>2, <1>4 DEF Stocked, Slot
  <2> QED  BY <1>2, <1>4, <2>1 DEF Stocked, Gathering, Ready
<1>7. Proper(t, A)
  <2>1. c.n \in Nat /\ c.n = t.n /\ Whole(A) /\ Before(A, c.n)
    BY <1>1, <1>4 DEF Stocked, Slot
  <2> QED  BY <1>1, <2>1, BeforeIs DEF Proper
<1>8. InCall(p, d, t, A, u)
  BY <1>1, <1>6, <1>7, QuietInCall DEF Quiet
<1> QED  BY <1>2, <1>5, <1>8 DEF During, c, p, x

(* A later call of cgiUploadFirmware.                                      *)
UploadEnds(s, i, c, x) ==
    \E d \in Slot : /\ x = Into(s, i, d, s.handles \ {c.data}, s.sockets, "DONE")
                    /\ Same(c, d) /\ Answers(d, d, "DONE")
LEMMA UploadMore ==
    ASSUME NEW s \in State, NEW i \in Slots, NEW c \in Slot, c = s.conn[i], Fresh(c),
           c.cgi = "upload", c.data \in s.handles, c.data # 0, c.at + c.buffered = c.received
    PROVE  LET x == cgiUploadFirmware(s, i)
           IN /\ c.len # c.received => x = Into(s, i, Taken(c), s.handles, s.sockets, "MORE")
              /\ c.len = c.received => UploadEnds(s, i, c, x)
PROOF
<1> DEFINE h == s.handles
           q == s.sockets
           r == s.res
           a == Taken(c)
           x == cgiUploadFirmware(s, i)
           Goal == /\ c.len # c.received => x = Into(s, i, a, h, q, "MORE")
                   /\ c.len = c.received => UploadEnds(s, i, c, x)
<1> SUFFICES Goal
  OBVIOUS
<1>1. c.up /\ s = Into(s, i, c, h, q, r)
  BY StateFields DEF Fresh
<1>2. /\ a \in Slot /\ Same(c, a) /\ Fresh(a) /\ a.at = c.at + c.buffered /\ a.data = c.data
      /\ a.cgi = "upload"
  BY TakenIs
<1> HIDE DEF a, h, q, r, x
<1>3. [s EXCEPT !.conn[i].at = @ + c.buffered] = Into(s, i, a, h, q, r)
  <2>1. [Into(s, i, c, h, q, r) EXCEPT !.conn[i].at = @ + c.buffered] = Into(s, i, a, h, q, r)
    BY TakeIs DEF a
  <2> QED  BY <1>1, <2>1
<1>4. Into(s, i, a, h, q, r).conn[i] = a
  BY IntoIs
<1>5. a.len = c.len /\ a.received = c.received
  BY <1>2 DEF Same
<1>6. ASSUME c.len # c.received PROVE x = Into(s, i, a, h, q, "MORE")
  <2>1. Result(Into(s, i, a, h, q, r), "MORE") = Into(s, i, a, h, q, "MORE")
    BY ResultIs
  <2> QED  BY <1>1, <1>3, <1>6, <2>1 DEF cgiUploadFirmware, x
<1>7. ASSUME c.len = c.received PROVE UploadEnds(s, i, c, x)
  <2>1. CanStore(a, h)
    BY <1>2, <1>5, <1>7 DEF CanStore, h
  <2>2. Stores(s, i, a, h, q, r)
    <3>1. s \in State /\ i \in Slots /\ a \in Slot
      BY <1>2
    <3> QED  BY ONLY <2>1, <3>1, StoredSent
  <2>3. PICK d \in Slot :
           /\ Release(SendData(Response(Into(s, i, a, h, q, r), i), i, "stored", a.at), i)
                  = Into(s, i, d, h \ {a.data}, q, r)
           /\ Same(a, d) /\ Answers(a, d, "DONE")
    BY <2>2 DEF Stores
  <2>4. Result(Into(s, i, d, h \ {c.data}, q, r), "DONE") = Into(s, i, d, h \ {c.data}, q, "DONE")
    BY ResultIs
  <2>5. x = Into(s, i, d, h \ {c.data}, q, "DONE")
    BY <1>1, <1>2, <1>3, <1>4, <1>7, <2>3, <2>4, ZenonT(60) DEF cgiUploadFirmware, x
  <2>6. Same(c, d) /\ Answers(d, d, "DONE")
    BY <1>2, <2>3 DEF Same, Answers, AnswerTo
  <2> QED  BY <2>5, <2>6 DEF UploadEnds, h, q
<1> QED  BY <1>6, <1>7

LEMMA HeldIs ==
    ASSUME NEW c, NEW H, NEW h, Holds(c, H, h)
    PROVE  c.data \in Handle /\ c.data # 0 /\ c.data \in h /\ h \ {c.data} = H
PROOF
<1>1. c.data \in Handle \ H /\ h = H \cup {c.data}
  BY DEF Holds
<1>2. c.data # 0
  BY <1>1 DEF Handle
<1> QED  BY <1>1, <1>2

LEMMA RanServes ==
    ASSUME NEW b, NEW i \in Slots, NEW m, NEW H, NEW S, Runs(b, i, m, H, S),
           Calls(m.conn[i].peer, m.conn[i], TcpOf(m, i), Sent(m, i)), i \notin S, Handle \ H # {}
    PROVE  LET c == m.conn[i]
               x == Ran(m, i)
           IN /\ c.len = c.received => During(b, i, x, H, S, <<>>)
              /\ c.len # c.received => Stocking(b, i, x, H, S) /\ SameRequest(c, x.conn[i])
PROOF
<1> DEFINE c == m.conn[i]
           p == c.peer
           t == TcpOf(m, i)
           A == Sent(m, i)
           x == Ran(m, i)
           Goal == /\ c.len = c.received => During(b, i, x, H, S, <<>>)
                   /\ c.len # c.received => Stocking(b, i, x, H, S) /\ SameRequest(c, x.conn[i])
<1> SUFFICES Goal
  OBVIOUS
<1>1. Good(m) /\ c.up /\ Beside(b, i, m) /\ Uses(c, i, m.handles, m.sockets, H, S)
  BY DEF Runs
<1>2. m \in State /\ p \in Peers /\ c \in Slot /\ t \in Tcp /\ A \in Seq(Part)
  BY <1>1, GoodSlot DEF Good, TcpOf, Sent
<1>3. /\ Begins(p, c, t, A) /\ c.received > 0
      /\ \/ c.cgi = "none" /\ c.buffered = c.received
         \/ c.cgi = "upload" /\ c.at + c.buffered = c.received
  BY DEF Calls
<1>4. CASE c.cgi = "none" /\ c.buffered = c.received
  <2>1. H = m.handles /\ Lists(m.sockets, S)
    BY <1>1, <1>4 DEF Uses
  <2>2. x = httpdProcessRequest(m, i)
    BY <1>4 DEF Ran
  <2>3. Begins(m.conn[i].peer, m.conn[i], TcpOf(m, i), Sent(m, i))
    BY <1>3
  <2> HIDE DEF x
  <2> QED  BY <1>1, <1>4, <2>1, <2>2, <2>3, ProcessServes
<1>5. CASE c.cgi = "upload" /\ c.at + c.buffered = c.received
  <2> DEFINE g == Call(m, i, "upload")
  <2>1. Holds(c, H, m.handles) /\ Lists(m.sockets, S)
    BY <1>1, <1>5 DEF Uses
  <2>2. c.data \in m.handles /\ c.data # 0 /\ m.handles \ {c.data} = H
    BY <2>1, HeldIs
  <2>3. g = cgiUploadFirmware(m, i)
    BY DEF Call
  <2>4. Good(g)
    BY <1>1, GoodCall DEF Cgis
  <2>5. x = IF g.res = "DONE" THEN httpdCgiIsDone(g, i) ELSE g
    BY <1>5 DEF Ran
  <2>6. Fresh(c)
    BY <1>3 DEF Begins
  <2> HIDE DEF g, x
  <2>7. /\ c.len # c.received => g = Into(m, i, Taken(c), m.handles, m.sockets, "MORE")
        /\ c.len = c.received => UploadEnds(m, i, c, g)
    BY <1>2, <1>5, <2>2, <2>3, <2>6, UploadMore
  <2>8. CASE c.len = c.received
    <3>1. PICK d \in Slot : /\ g = Into(m, i, d, H, m.sockets, "DONE")
                            /\ Same(c, d) /\ Answers(d, d, "DONE")
      BY <2>2, <2>7, <2>8 DEF UploadEnds
    <3>2. /\ g.conn[i] = d /\ g.tcp = m.tcp /\ g.answer = m.answer /\ g.handles = H
          /\ g.sockets = m.sockets /\ g.res = "DONE"
      BY <1>2, <3>1, IntoIs
    <3>3. d.peer = p /\ d.up /\ SameRequest(c, d)
      BY <1>1, <3>1 DEF Same, SameRequest
    <3>4. Beside(b, i, g)
      BY <1>1, <1>2, <3>1, <3>3, BesideInto, BesideTwice
    <3>5. ~IsSocket(c.req)
      <4>1. c.req \in Requests[p] /\ c.len = c.req.body
        BY <1>3 DEF Begins
      <4>2. c.req.body > 0
        BY <1>3, <2>8, <4>1
      <4> QED  BY <1>2, <4>1, <4>2, RequestIs
    <3>6. Finished(p, d, t, A)
      BY <1>2, <1>3, <2>8, <3>1, <3>3, <3>5, AnswersFinish
    <3>7. Finishing(b, i, g, H, S)
      BY <2>1, <2>4, <3>2, <3>3, <3>4, <3>6 DEF Finishing, TcpOf, Sent
    <3>8. During(b, i, httpdCgiIsDone(g, i), H, S, <<>>)
      BY <3>7, DoneServes
    <3> QED  BY <2>5, <2>8, <3>2, <3>8
  <2>9. CASE c.len # c.received
    <3> DEFINE a == Taken(c)
    <3>1. /\ a \in Slot /\ Same(c, a) /\ a.at = c.at + c.buffered /\ a.data = c.data /\ a.cgi = c.cgi
          /\ a.flags = c.flags /\ a.buf = c.buf /\ a.recvHdl = c.recvHdl
      BY <1>2, TakenIs
    <3>2. g = Into(m, i, a, m.handles, m.sockets, "MORE")
      BY <2>7, <2>9
    <3> HIDE DEF a
    <3>3. /\ g.conn[i] = a /\ g.tcp = m.tcp /\ g.answer = m.answer /\ g.handles = m.handles
          /\ g.sockets = m.sockets /\ g.res = "MORE"
      BY <1>2, <3>2, IntoIs
    <3>4. a.peer = p /\ a.up /\ SameRequest(c, a)
      BY <1>1, <3>1 DEF Same, SameRequest
    <3>5. Beside(b, i, g)
      BY <1>1, <1>2, <3>2, <3>4, BesideInto, BesideTwice
    <3>6. Uses(a, i, m.handles, m.sockets, H, S)
      BY <1>5, <2>1, <3>1 DEF Uses, Holds
    <3>7. Runs(b, i, g, H, S)
      BY <2>4, <3>3, <3>4, <3>5, <3>6 DEF Runs
    <3>8. Stocked(p, a, t, A)
      <4>1. a.received < a.len
        BY <1>2, <1>3, <2>9, <3>4 DEF Begins, SameRequest, Slot
      <4>2. a.at = a.received
        BY <1>5, <3>1, <3>4 DEF SameRequest
      <4> QED  BY <1>3, <1>5, <2>6, <3>1, <3>4, <4>1, <4>2 DEF Begins, Stocked, SameRequest, Fresh
    <3>9. Stocking(b, i, g, H, S)
      BY <3>3, <3>4, <3>7, <3>8 DEF Stocking, TcpOf, Sent
    <3> QED  BY <2>5, <2>9, <3>3, <3>4, <3>9
  <2> QED  BY <2>8, <2>9
<1> QED  BY <1>3, <1>4, <1>5

LEMMA PostServes ==
    ASSUME NEW b, NEW i \in Slots, NEW s, NEW H, NEW S, NEW u, Runs(b, i, s, H, S),
           Gathering(s.conn[i].peer, s.conn[i], TcpOf(s, i), Sent(s, i), u),
           Proper(TcpOf(s, i), Sent(s, i)), i \notin S, Handle \ H # {}
    PROVE  During(b, i, PostByte(s, i), H, S, Tail(u))
PROOF
<1> DEFINE c == s.conn[i]
           p == c.peer
           t == TcpOf(s, i)
           A == Sent(s, i)
           d == Fed(c)
           m == Feeding(s, i)
           x == Ran(m, i)
<1>1. Good(s) /\ c.up
  BY DEF Runs
<1>2. s \in State /\ p \in Peers /\ c \in Slot /\ t \in Tcp /\ A \in Seq(Part)
  BY <1>1, GoodSlot DEF Good, TcpOf, Sent
<1>3. /\ d \in Slot /\ Ends(c, d) /\ d.cgi = c.cgi /\ d.data = c.data /\ d.buf = <<>>
      /\ Tail(u) = Bodies(d.len - d.received)
      /\ d.len = d.received => Bodies(d.len - d.received) = <<>>
      /\ ~Enough(d) => Gathering(p, d, t, A, Tail(u))
      /\ Enough(d) => Calls(p, d, t, A)
  <2> HIDE DEF c, t, A
  <2> QED  BY <1>1, <1>2, FedBegins DEF c, t, A
<1>4. m = Into(s, i, d, s.handles, s.sockets, s.res)
  BY <1>2, WritesInto
<1> HIDE DEF d, m
<1>5. /\ Runs(b, i, m, H, S) /\ m.conn[i] = d /\ TcpOf(m, i) = t /\ Sent(m, i) = A
  BY <1>3, <1>4, WriteRuns
<1>6. d.peer = p /\ d.up
  BY <1>1, <1>3 DEF Ends
<1>7. PostByte(s, i) = IF Enough(d) THEN Draining(x, i) ELSE m
  BY <1>5, PostIs DEF m, x
<1>8. CASE ~Enough(d)
  <2>1. InCall(p, d, t, A, Tail(u))
    BY <1>2, <1>3, <1>8, QuietInCall DEF Quiet
  <2>2. During(b, i, m, H, S, Tail(u))
    BY <1>5, <1>6, <2>1 DEF During
  <2> QED  BY <1>7, <1>8, <2>2
<1>9. CASE Enough(d)
  <2>1. Calls(m.conn[i].peer, m.conn[i], TcpOf(m, i), Sent(m, i))
    BY <1>3, <1>5, <1>6, <1>9
  <2>2. /\ d.len = d.received => During(b, i, x, H, S, <<>>)
        /\ d.len # d.received => Stocking(b, i, x, H, S) /\ SameRequest(d, x.conn[i])
    BY <1>5, <2>1, RanServes
  <2> HIDE DEF x
  <2>3. CASE d.len = d.received
    <3>1. During(b, i, Draining(x, i), H, S, <<>>)
      BY <2>2, <2>3, DrainServes
    <3> QED  BY <1>3, <1>7, <1>9, <2>3, <3>1
  <2>4. CASE d.len # d.received
    <3>1. During(b, i, Draining(x, i), H, S, Bodies(x.conn[i].len - x.conn[i].received))
      BY <2>2, <2>4, StockServes
    <3>2. x.conn[i].len = d.len /\ x.conn[i].received = d.received
      BY <2>2, <2>4 DEF SameRequest
    <3> QED  BY <1>3, <1>7, <1>9, <3>1, <3>2
  <2> QED  BY <2>3, <2>4
<1> QED  BY <1>8, <1>9

=============================================================================
