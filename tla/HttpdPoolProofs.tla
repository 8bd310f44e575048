-------------------------- MODULE HttpdPoolProofs --------------------------
(***************************************************************************)
(* Every request to the web server gets one answer, whole and in its turn, *)
(* and its pool, its handles and its websockets are exact, for any pool,   *)
(* table of urls, limits and requests.                                     *)
(*                                                                         *)
(* ServerInv joins what HttpdServeProofs says of one connection (Tended)   *)
(* with what they share: the pool (Pooled) has a handle of its own for     *)
(* each slot whose CGI is not done, allocates no others, and lists each    *)
(* websocket once. Neither half is inductive. That a CGI frees the right   *)
(* handle, once, is known from where its request stands; and that where a  *)
(* request stands is not disturbed by the callback of another, from the    *)
(* handles being its own.                                                  *)
(*                                                                         *)
(* The lemmas named ..Sound take ServerInv through each action. Those      *)
(* about callbacks are short: nothing but its own slot is changed          *)
(* (Beside), so After for this slot is ServerInv for the server            *)
(* (AfterSound).                                                           *)
(***************************************************************************)
EXTENDS HttpdServeProofs

Without(q, m) == SubSeq(q, 1, m - 1) \o SubSeq(q, m + 1, Len(q))
LEMMA WithoutPart ==
    ASSUME NEW P, NEW q \in Seq(P), NEW m \in 1 .. Len(q), NEW r, r = Without(q, m)
    PROVE  /\ r \in Seq(P) /\ Len(r) = Len(q) - 1 /\ Len(q) \in Nat
           /\ \A k \in 1 .. Len(r) : r[k] = IF k < m THEN q[k] ELSE q[k + 1]
PROOF
<1> DEFINE n == Len(q)
           x == SubSeq(q, 1, m - 1)
           y == SubSeq(q, m + 1, n)
<1>1. n \in Nat /\ m \in Nat /\ m >= 1 /\ m <= n
  OBVIOUS
<1>2. x \in Seq(P) /\ Len(x) = m - 1 /\ \A k \in 1 .. m - 1 : x[k] = q[k]
  BY <1>1
<1>3. y \in Seq(P) /\ Len(y) = n - m /\ \A k \in 1 .. n - m : y[k] = q[m + k]
  BY <1>1
<1> HIDE DEF x, y, n
<1>4. /\ x \o y \in Seq(P) /\ Len(x \o y) = Len(x) + Len(y)
      /\ \A k \in 1 .. Len(x) : (x \o y)[k] = x[k]
      /\ \A k \in 1 .. Len(y) : (x \o y)[Len(x) + k] = y[k]
  <2>1. x \in Seq(P) /\ y \in Seq(P)
    BY <1>2, <1>3
  <2> QED  BY ONLY <2>1, CatIs
<1>5. r = x \o y
  BY DEF Without, x, y, n
<1>0. Len(r) = n - 1
  <2>1. Len(r) = (m - 1) + (n - m)
    BY <1>2, <1>3, <1>4, <1>5, Zenon
  <2> QED  BY ONLY <1>1, <2>1
<1>6. ASSUME NEW k \in 1 .. Len(r) PROVE r[k] = IF k < m THEN q[k] ELSE q[k + 1]
  <2>0. k \in 1 .. n - 1
    BY <1>0, Zenon
  <2>1. k \in Nat /\ k >= 1 /\ k <= n - 1
    BY ONLY <1>1, <2>0
  <2>2. CASE k < m
    <3>1. k \in 1 .. m - 1 /\ k \in 1 .. Len(x)
      BY <1>1, <1>2, <2>1, <2>2
    <3> QED  BY <1>2, <1>4, <1>5, <2>2, <3>1
  <2>3. CASE ~(k < m)
    <3> DEFINE l == k - (m - 1)
    <3>1. l \in 1 .. n - m /\ l \in 1 .. Len(y) /\ Len(x) + l = k /\ m + l = k + 1
      BY <1>1, <1>2, <1>3, <2>1, <2>3
    <3> HIDE DEF l
    <3> QED  BY <1>3, <1>4, <1>5, <2>3, <3>1
  <2> QED  BY <2>2, <2>3
<1> QED  BY <1>0, <1>1, <1>4, <1>5, <1>6 DEF n

LEMMA RemoveIs ==
    ASSUME NEW q, NEW i \in Slots, NEW T, Lists(q, T), NEW m \in 1 .. Len(q), q[m] = i
    PROVE  RemoveFirst(q, i) = Without(q, m)
PROOF
<1> DEFINE I == {k \in 1 .. Len(q) : q[k] = i}
<1>1. I = {m} /\ m \in Int
  BY DEF Lists
<1>2. Min(I) = m
  <2> HIDE DEF I
  <2>1. \A x \in I : x = m
    BY <1>1
  <2>2. m \in I /\ \A y \in I : m <= y
    BY <1>1
  <2> QED  BY <2>1, <2>2 DEF Min
<1>3. SelectInSeq(q, LAMBDA v : v = i) = m
  BY <1>1, <1>2 DEF SelectInSeq, I
<1> QED  BY <1>3 DEF RemoveFirst, RemoveAt, Without

LEMMA ListsRemove ==
    ASSUME NEW q, NEW S, NEW i \in Slots, Lists(q, S \cup {i}), i \notin S
    PROVE  Lists(RemoveFirst(q, i), S)
PROOF
<1> DEFINE n == Len(q)
           r == RemoveFirst(q, i)
<1>1. q \in Seq(Slots) /\ ToSet(q) = S \cup {i} /\ (\A k, l \in 1 .. n : q[k] = q[l] => k = l) /\ n \in Nat
  BY DEF Lists
<1>2. \A x : x \in S \cup {i} <=> \E k \in 1 .. n : q[k] = x
  <2>1. DOMAIN q = 1 .. n
    BY <1>1
  <2> QED  BY <1>1, <2>1 DEF ToSet
<1>3. PICK m \in 1 .. n : q[m] = i
  BY <1>2
<1>4. r = Without(q, m)
  BY <1>3, RemoveIs
<1> HIDE DEF r
<1>5. /\ r \in Seq(Slots) /\ Len(r) = n - 1
      /\ \A k \in 1 .. Len(r) : r[k] = IF k < m THEN q[k] ELSE q[k + 1]
  <2>1. q \in Seq(Slots) /\ m \in 1 .. Len(q)
    BY <1>1
  <2> QED  BY ONLY <1>4, <2>1, WithoutPart DEF n
<1> HIDE DEF n
<1> DEFINE up(k) == IF k < m THEN k ELSE k + 1
<1>6. ASSUME NEW k \in 1 .. n - 1
      PROVE  up(k) \in 1 .. n /\ up(k) # m /\ r[k] = q[up(k)]
  <2>1. k \in Nat /\ k >= 1 /\ k <= n - 1 /\ m \in Nat
    BY <1>1
  <2>2. r[k] = IF k < m THEN q[k] ELSE q[k + 1]
    BY <1>5
  <2> QED  BY <1>1, <2>1, <2>2
<1>7. ASSUME NEW k \in 1 .. n - 1, NEW l \in 1 .. n - 1, r[k] = r[l] PROVE k = l
  <2>1. up(k) = up(l)
    <3> HIDE DEF up
    <3> QED  BY <1>1, <1>6, <1>7
  <2> QED  BY <1>1, <2>1
<1>8. ToSet(r) = S
  <2>1. DOMAIN r = 1 .. n - 1
    BY <1>1, <1>5
  <2>2. \A x : x \in ToSet(r) <=> \E k \in 1 .. n - 1 : r[k] = x
    BY <2>1 DEF ToSet
  <2>3. ASSUME NEW k \in 1 .. n - 1 PROVE r[k] \in S
    <3> HIDE DEF up
    <3>1. up(k) \in 1 .. n /\ up(k) # m /\ r[k] = q[up(k)]
      BY <1>6
    <3>2. q[up(k)] # i
      BY <1>1, <1>3, <3>1
    <3>3. q[up(k)] \in S \cup {i}
      BY <1>2, <3>1
    <3> QED  BY <3>1, <3>2, <3>3
  <2>4. ASSUME NEW x \in S PROVE \E k \in 1 .. n - 1 : r[k] = x
    <3>1. PICK l \in 1 .. n : q[l] = x
      BY <1>2
    <3>2. l # m
      BY <1>3, <3>1
    <3>3. PICK k \in 1 .. n - 1 : up(k) = l
      <4>1. CASE l < m
        <5>1. l \in 1 .. n - 1 /\ up(l) = l
          BY <1>1, <4>1
        <5> QED  BY <5>1
      <4>2. CASE ~(l < m)
        <5>1. l - 1 \in 1 .. n - 1 /\ up(l - 1) = l
          BY <1>1, <3>2, <4>2
        <5> HIDE DEF up
        <5> QED  BY <5>1
      <4> QED  BY <4>1, <4>2
    <3> HIDE DEF up
    <3>4. r[k] = x
      BY <1>6, <3>1, <3>3
    <3> QED  BY <3>4
  <2> QED  BY <2>2, <2>3, <2>4
<1> HIDE DEF up
<1>9. Lists(r, S)
  BY <1>5, <1>7, <1>8 DEF Lists
<1> QED  BY <1>9 DEF r

\* What a callback writes of slot i, of the handles and of the websockets.
WrittenTo(b, i, s, d, h, q, r, x) ==
    /\ Good(x) /\ x.conn[i] = d /\ d.up /\ d.peer = s.conn[i].peer /\ Beside(b, i, x)
    /\ TcpOf(x, i) = TcpOf(s, i) /\ Sent(x, i) = Sent(s, i) /\ x.handles = h
    /\ x.sockets = q /\ x.res = r
LEMMA IntoRuns ==
    ASSUME NEW b, NEW i \in Slots, NEW s, Good(s), s.conn[i].up, Beside(b, i, s),
           NEW d \in Slot, Ends(s.conn[i], d), NEW h \in Heap, NEW q \in Seq(Slots), NEW r \in Res
    PROVE  WrittenTo(b, i, s, d, h, q, r, Into(s, i, d, h, q, r))
PROOF
<1> DEFINE x == Into(s, i, d, h, q, r)
<1>1. s \in State /\ d.up /\ d.peer = s.conn[i].peer /\ d.up = s.conn[i].up
  BY DEF Good, Ends
<1>2. /\ x.conn[i] = d /\ x.tcp = s.tcp /\ x.handles = h /\ x.sockets = q /\ x.answer = s.answer
      /\ x.res = r
  BY <1>1, IntoIs
<1>3. Good(x)
  BY <1>1, KeepsWrite, GoodKeeps
<1>4. Beside(b, i, x)
  BY <1>1, BesideInto, BesideTwice
<1> HIDE DEF x
<1>5. WrittenTo(b, i, s, d, h, q, r, x)
  BY <1>1, <1>2, <1>3, <1>4 DEF WrittenTo, TcpOf, Sent
<1> QED  BY <1>5 DEF x

(* Frames.                                                                 *)
Unit == {"headers", "body", "ping", "close"}

LEMMA FramesTail ==
    ASSUME NEW p, NEW t, NEW u \in Seq(Unit), u # <<>>, FramesTo(p, t, u)
    PROVE  /\ FramesTo(p, t, Tail(u))
           /\ \/ Head(u) = "ping"
              \/ Head(u) = "close" /\ Tail(u) = <<>> /\ t.frames >= MaxFrames[p]
PROOF
<1> DEFINE v == Tail(u)
<1>1. /\ Head(u) = u[1] /\ v \in Seq(Unit) /\ Len(v) = Len(u) - 1 /\ Len(u) \in Nat /\ Len(u) > 0
      /\ \A k \in 1 .. Len(v) : v[k] = u[k + 1]
  OBVIOUS
<1>2. 1 = Len(u) => v = <<>>
  <2>1. Len(v) = 0 => v = <<>>
    <3> HIDE DEF v
    <3> QED  BY <1>1
  <2> QED  BY <1>1, <2>1
<1> HIDE DEF v
<1>3. FramesTo(p, t, v)
  <2> SUFFICES ASSUME NEW k \in 1 .. Len(v)
               PROVE  v[k] = "ping" \/ (v[k] = "close" /\ k = Len(v) /\ t.frames >= MaxFrames[p])
    BY DEF FramesTo
  <2>1. k + 1 \in 1 .. Len(u) /\ (k + 1 = Len(u) => k = Len(v)) /\ v[k] = u[k + 1]
    BY <1>1
  <2>2. \/ u[k + 1] = "ping"
        \/ u[k + 1] = "close" /\ k + 1 = Len(u) /\ t.frames >= MaxFrames[p]
    BY <2>1 DEF FramesTo
  <2> QED  BY <2>1, <2>2
<1>4. u[1] = "ping" \/ (u[1] = "close" /\ 1 = Len(u) /\ t.frames >= MaxFrames[p])
  <2>1. 1 \in 1 .. Len(u)
    BY <1>1
  <2> QED  BY <2>1 DEF FramesTo
<1> QED  BY <1>1, <1>2, <1>3, <1>4 DEF v

LEMMA OpenPhase ==
    ASSUME NEW p, NEW c, NEW t, NEW A, NEW u, Serving(p, c, t, A, u), c.cgi = "socket"
    PROVE  Proper(t, A) /\ Open(p, c, t, A, u)
PROOF
<1>1. Proper(t, A) /\ (Quiet(p, c, t, A, u) \/ Talking(p, c, t, A, u))
  BY DEF Serving
<1>2. ~Quiet(p, c, t, A, u)
  BY DEF Quiet, Calling, Gathering, Blank
<1>3. ~Resting(c, t, A, u) /\ ~Reading(c, t, A, u) /\ ~Ending(p, c, t, A, u)
  BY DEF Resting, Blank, Reading, Ending
<1> QED  BY <1>1, <1>2, <1>3 DEF Talking

LEMMA OpenServing ==
    ASSUME NEW p, NEW c, NEW t, NEW A, NEW u, Proper(t, A), Open(p, c, t, A, u)
    PROVE  Serving(p, c, t, A, u)
PROOF
  BY DEF Serving, Talking

LEMMA SaidIs ==
    ASSUME NEW c \in Slot, NEW kind \in Kinds, NEW k \in Nat
    PROVE  LET d == Said(c, kind, k)
               e == <<c.n, kind, k>>
           IN /\ d \in Slot /\ Ends(c, d) /\ d.cgi = c.cgi /\ d.data = c.data /\ d.len = c.len
              /\ d.n = c.n /\ d.flags = c.flags /\ d.recvHdl = c.recvHdl /\ d.peer = c.peer
              /\ d.up = c.up /\ <<e>> \in Seq(Part) /\ c.buf \in Seq(Part)
              /\ d.buf = c.buf \o <<e>> /\ d.buf # <<>>
PROOF
<1> DEFINE d == Said(c, kind, k)
           e == <<c.n, kind, k>>
<1>1. d \in Slot
  BY SaidType
<1>2. c.n \in Nat /\ c.buf \in Seq(Part)
  BY DEF Slot
<1>3. e \in Part
  BY <1>2, PartIs
<1>4. d.buf = Append(c.buf, e)
  BY DEF Said, Slot
<1> HIDE DEF e
<1>5. Append(c.buf, e) = c.buf \o <<e>> /\ Append(c.buf, e) # <<>> /\ <<e>> \in Seq(Part)
  BY <1>2, <1>3
<1>6. /\ Ends(c, d) /\ d.cgi = c.cgi /\ d.data = c.data /\ d.len = c.len
      /\ d.n = c.n /\ d.flags = c.flags /\ d.recvHdl = c.recvHdl /\ d.peer = c.peer /\ d.up = c.up
  BY DEF Said, Slot, Ends
<1> QED  BY <1>1, <1>2, <1>4, <1>5, <1>6 DEF e

LEMMA InCallSays ==
    ASSUME NEW p, NEW c \in Slot, NEW t, NEW A \in Seq(Part), NEW u, NEW v, InCall(p, c, t, A, u),
           c.cgi = "socket", FramesTo(p, t, v), NEW kind \in {"pong", "close", "text"}
    PROVE  InCall(p, Said(c, kind, 0), t, A, v)
PROOF
<1> DEFINE d == Said(c, kind, 0)
           e == <<c.n, kind, 0>>
<1>1. /\ d \in Slot /\ d.cgi = c.cgi /\ d.len = c.len /\ d.n = c.n /\ d.flags = c.flags
      /\ d.recvHdl = c.recvHdl /\ <<e>> \in Seq(Part) /\ c.buf \in Seq(Part)
      /\ d.buf = c.buf \o <<e>>
  <2>1. kind \in Kinds /\ 0 \in Nat
    BY DEF Kinds
  <2> QED  BY ONLY <2>1, c \in Slot, SaidIs
<1>2. Plain(<<e>>, c.n)
  BY DEF Plain
<1> HIDE DEF d, e
<1>3. A \o d.buf = (A \o c.buf) \o <<e>> /\ A \o c.buf \in Seq(Part)
  <2> DEFINE z == <<e>>
  <2>1. z \in Seq(Part) /\ c.buf \in Seq(Part) /\ d.buf = c.buf \o z
    BY <1>1
  <2> HIDE DEF z
  <2>2. A \o (c.buf \o z) = (A \o c.buf) \o z
    BY <2>1, JoinTwice
  <2>3. A \o c.buf \in Seq(Part)
    BY <2>1, CatIs
  <2> QED  BY <2>1, <2>2, <2>3 DEF z
<1>4. Proper(t, A \o c.buf) /\ Open(p, c, t, A \o c.buf, u)
  BY OpenPhase DEF InCall
<1>5. Proper(t, A \o d.buf) /\ Answering(c, t, A \o d.buf)
  BY <1>1, <1>2, <1>3, <1>4, AnswerMore DEF Open
<1>6. \A B : Answering(c, t, B) => Answering(d, t, B)
  BY <1>1 DEF Answering
<1>7. Open(p, d, t, A \o d.buf, v)
  BY <1>1, <1>4, <1>5, <1>6 DEF Open
<1>8. Serving(p, d, t, A \o d.buf, v)
  BY <1>5, <1>7, OpenServing
<1>9. Ready(t) \/ Serving(p, c, t, A, u)
  <2>1. c.buf = <<>> => A \o c.buf = A
    BY JoinNothing
  <2> QED  BY <2>1 DEF InCall
<1>10. ASSUME Serving(p, c, t, A, u) PROVE Serving(p, d, t, A, v)
  <2>1. Proper(t, A) /\ Open(p, c, t, A, u)
    BY <1>10, OpenPhase
  <2>2. Open(p, d, t, A, v)
    BY <1>1, <1>6, <2>1 DEF Open
  <2> QED  BY <2>1, <2>2, OpenServing
<1> QED  BY <1>8, <1>9, <1>10 DEF InCall, d

Wired(b, i, x, H, S, u) == During(b, i, x, H, S, u) /\ x.conn[i].cgi = "socket"

LEMMA SaysServes ==
    ASSUME NEW b, NEW i \in Slots, NEW s, NEW H, NEW S, NEW u, NEW v, Wired(b, i, s, H, S, u),
           FramesTo(s.conn[i].peer, TcpOf(s, i), v), NEW kind \in {"pong", "close", "text"}
    PROVE  LET x == httpdSend(s, i, kind)
           IN /\ Wired(b, i, x, H, S, v) /\ x.res = s.res /\ TcpOf(x, i) = TcpOf(s, i)
              /\ x.conn[i].peer = s.conn[i].peer
PROOF
<1> DEFINE c == s.conn[i]
           d == Said(c, kind, 0)
           x == httpdSend(s, i, kind)
<1>1. /\ Good(s) /\ c.up /\ Beside(b, i, s) /\ Uses(c, i, s.handles, s.sockets, H, S)
      /\ InCall(c.peer, c, TcpOf(s, i), Sent(s, i), u) /\ c.cgi = "socket"
  BY DEF Wired, During, Runs
<1>2. /\ s \in State /\ c \in Slot /\ s.handles \in Heap /\ s.sockets \in Seq(Slots) /\ s.res \in Res
      /\ Sent(s, i) \in Seq(Part) /\ s = Into(s, i, c, s.handles, s.sockets, s.res)
  BY <1>1, GoodSlot, StateFields DEF Good, Sent
<1>3. x = Into(s, i, d, s.handles, s.sockets, s.res)
  <2>1. httpdSend(Into(s, i, c, s.handles, s.sockets, s.res), i, kind)
           = Into(s, i, d, s.handles, s.sockets, s.res)
    BY <1>2, SendIs
  <2> QED  BY <1>2, <2>1
<1>4. InCall(c.peer, d, TcpOf(s, i), Sent(s, i), v)
  <2> DEFINE p == c.peer
             t == TcpOf(s, i)
             A == Sent(s, i)
  <2>1. InCall(p, c, t, A, u) /\ FramesTo(p, t, v) /\ c \in Slot /\ A \in Seq(Part) /\ c.cgi = "socket"
    BY <1>1, <1>2
  <2> HIDE DEF p, t, A, c
  <2>2. InCall(p, Said(c, kind, 0), t, A, v)
    BY <2>1, InCallSays
  <2> QED  BY <2>2 DEF p, t, A
<1>5. d \in Slot /\ Ends(c, d) /\ d.cgi = c.cgi /\ d.data = c.data /\ d.peer = c.peer
  <2>1. kind \in Kinds /\ 0 \in Nat
    BY DEF Kinds
  <2> QED  BY <1>2, <2>1, SaidIs
<1> HIDE DEF d, x
<1>6. Uses(d, i, s.handles, s.sockets, H, S)
  BY <1>1, <1>5 DEF Uses, Holds
<1>7. /\ x.conn[i] = d /\ TcpOf(x, i) = TcpOf(s, i) /\ Sent(x, i) = Sent(s, i) /\ x.res = s.res
      /\ Runs(b, i, x, H, S)
  <2>1. WrittenTo(b, i, s, d, s.handles, s.sockets, s.res, x)
    BY <1>1, <1>2, <1>3, <1>5, IntoRuns
  <2> QED  BY <1>6, <2>1 DEF WrittenTo, Runs
<1> QED  BY <1>1, <1>4, <1>5, <1>7 DEF Wired, During, x

\* A websocket is at the same, whatever frames may come.
LEMMA WiredFor ==
    ASSUME NEW b, NEW i \in Slots, NEW s, NEW H, NEW S, NEW u, NEW v, Wired(b, i, s, H, S, u),
           FramesTo(s.conn[i].peer, TcpOf(s, i), v)
    PROVE  Wired(b, i, s, H, S, v)
PROOF
<1> DEFINE c == s.conn[i]
           p == c.peer
           t == TcpOf(s, i)
           A == Sent(s, i)
<1>1. Runs(b, i, s, H, S) /\ InCall(p, c, t, A, u) /\ c.cgi = "socket" /\ FramesTo(p, t, v)
  BY DEF Wired, During
<1>2. InCall(p, c, t, A, v)
  <2> HIDE DEF c, p, t, A
  <2>1. \A B : Serving(p, c, t, B, u) => Serving(p, c, t, B, v)
    <3> SUFFICES ASSUME NEW B, Serving(p, c, t, B, u) PROVE Serving(p, c, t, B, v)
      OBVIOUS
    <3>1. Proper(t, B) /\ Open(p, c, t, B, u)
      BY <1>1, OpenPhase
    <3>2. Open(p, c, t, B, v)
      BY <1>1, <3>1 DEF Open
    <3> QED  BY <3>1, <3>2, OpenServing
  <2> QED  BY <1>1, <2>1 DEF InCall
<1> QED  BY <1>1, <1>2 DEF Wired, During

(* The end of a websocket.                                                 *)
FreedSlot(c) == [c EXCEPT !.data = 0]
LEMMA FreeIs ==
    ASSUME NEW s \in State, NEW i \in Slots, NEW c, c = s.conn[i], c.data \in s.handles
    PROVE  websockFree(s, i)
              = Into(s, i, FreedSlot(c), s.handles \ {c.data}, RemoveFirst(s.sockets, i), s.res)
PROOF
<1> DEFINE g == s.handles \ {c.data}
           w == RemoveFirst(s.sockets, i)
<1>1. Release(s, i) = Into(s, i, c, g, s.sockets, s.res)
  <2>1. s = Into(s, i, c, s.handles, s.sockets, s.res)
    BY StateFields
  <2>2. Release(Into(s, i, c, s.handles, s.sockets, s.res), i) = Into(s, i, c, g, s.sockets, s.res)
    BY ReleaseIs
  <2> QED  BY <2>1, <2>2
<1>2. Into(s, i, c, g, s.sockets, s.res).sockets = s.sockets
  BY IntoIs
<1>3. websockFree(s, i) = [Into(s, i, c, g, s.sockets, s.res)
                              EXCEPT !.sockets = RemoveFirst(@, i), !.conn[i].data = 0]
  BY <1>1 DEF websockFree
<1> HIDE DEF g
<1>4. [Into(s, i, c, g, s.sockets, s.res) EXCEPT !.sockets = RemoveFirst(@, i), !.conn[i].data = 0]
          = Into(s, i, FreedSlot(c), g, w, s.res)
  BY ZenonT(60) DEF Into, State, FreedSlot
<1> QED  BY <1>3, <1>4 DEF g

LEMMA FreedFields ==
    ASSUME NEW c \in Slot
    PROVE  LET d == FreedSlot(c)
           IN /\ d \in Slot /\ Ends(c, d) /\ d.cgi = c.cgi /\ d.len = c.len /\ d.n = c.n
              /\ d.flags = c.flags /\ d.recvHdl = c.recvHdl /\ d.peer = c.peer /\ d.up = c.up
              /\ d.buf = c.buf
PROOF
<1>1. 0 \in Data
  BY DEF Data
<1> QED  BY <1>1 DEF FreedSlot, Slot, Ends

LEMMA FreeServes ==
    ASSUME NEW b, NEW i \in Slots, NEW y, NEW H \in Heap, NEW S, Wired(b, i, y, H, S, <<>>), i \notin S,
           TcpOf(y, i).frames >= MaxFrames[y.conn[i].peer]
    PROVE  Finishing(b, i, Result(websockFree(y, i), "DONE"), H, S)
PROOF
<1> DEFINE c == y.conn[i]
           d == FreedSlot(c)
           w == RemoveFirst(y.sockets, i)
           x == Result(websockFree(y, i), "DONE")
<1>1. /\ Good(y) /\ c.up /\ Beside(b, i, y) /\ Uses(c, i, y.handles, y.sockets, H, S) /\ c.cgi = "socket"
      /\ InCall(c.peer, c, TcpOf(y, i), Sent(y, i), <<>>)
  BY DEF Wired, During, Runs
<1>2. /\ y \in State /\ c \in Slot /\ Sent(y, i) \in Seq(Part)
  BY <1>1, GoodSlot DEF Good, Sent
<1>3. Holds(c, H, y.handles) /\ Lists(y.sockets, S \cup {i})
  BY <1>1 DEF Uses
<1>4. c.data \in y.handles /\ y.handles \ {c.data} = H
  BY <1>3, HeldIs
<1>5. Lists(w, S) /\ w \in Seq(Slots)
  <2>1. Lists(w, S)
    BY <1>3, ListsRemove
  <2> QED  BY <2>1 DEF Lists
<1>6. d \in Slot /\ Ends(c, d) /\ d.len = c.len /\ d.n = c.n /\ d.flags = c.flags /\ d.buf = c.buf
      /\ d.peer = c.peer /\ d.up = c.up
  BY <1>2, FreedFields
<1>7. x = Into(y, i, d, H, w, "DONE")
  <2>1. websockFree(y, i) = Into(y, i, d, H, w, y.res)
    BY <1>2, <1>4, FreeIs
  <2> HIDE DEF d, w
  <2>2. Result(Into(y, i, d, H, w, y.res), "DONE") = Into(y, i, d, H, w, "DONE")
    BY <1>2, ResultIs
  <2> QED  BY <2>1, <2>2
<1> HIDE DEF d, w, x
<1>8. "DONE" \in Res
  BY DEF Res
<1>9. /\ Good(x) /\ x.conn[i] = d /\ d.up /\ d.peer = c.peer /\ Beside(b, i, x)
      /\ TcpOf(x, i) = TcpOf(y, i) /\ Sent(x, i) = Sent(y, i) /\ x.handles = H /\ x.sockets = w
  <2>1. WrittenTo(b, i, y, d, H, w, "DONE", x)
    BY <1>1, <1>5, <1>6, <1>7, <1>8, IntoRuns
  <2> QED  BY <2>1 DEF WrittenTo
<1>10. Finished(c.peer, d, TcpOf(y, i), Sent(y, i))
  <2> DEFINE t == TcpOf(y, i)
             A == Sent(y, i)
             p == c.peer
  <2>1. /\ Serving(p, c, t, A \o c.buf, <<>>) /\ c.cgi = "socket" /\ t.frames >= MaxFrames[p]
        /\ c.buf = <<>> \/ Ready(t) \/ Serving(p, c, t, A, <<>>)
    BY <1>1 DEF InCall
  <2>2. d.len = c.len /\ d.n = c.n /\ d.flags = c.flags /\ d.buf = c.buf
    BY <1>6
  <2> HIDE DEF t, A, p, c
  <2>3. Proper(t, A \o d.buf) /\ Open(p, c, t, A \o d.buf, <<>>)
    BY <2>1, <2>2, OpenPhase
  <2>4. Answering(d, t, A \o d.buf) /\ d.flags = {"body"} /\ t.state = "UP"
    BY <2>2, <2>3 DEF Open, Answering
  <2>5. Serving(p, c, t, A, <<>>) => Proper(t, A) /\ Answering(d, t, A)
    BY <2>1, <2>2, OpenPhase DEF Open, Answering
  <2>6. Finished(p, d, t, A)
    BY <2>1, <2>2, <2>3, <2>4, <2>5 DEF Finished
  <2> QED  BY <2>6 DEF t, A, p
<1> QED  BY <1>5, <1>9, <1>10 DEF Finishing, x

\* The server closes a websocket: it is marked, and waits for the client to do the same.
LEMMA MarkServes ==
    ASSUME NEW b, NEW i \in Slots, NEW s, NEW H, NEW S, NEW u, After(b, i, s, H, S, u),
           s.conn[i].cgi = "socket", NEW x, x = GoodMark(s, i)
    PROVE  /\ After(b, i, x, H, S, u) /\ x.conn[i].cgi = "socket" /\ TcpOf(x, i) = TcpOf(s, i)
           /\ x.conn[i].peer = s.conn[i].peer
PROOF
<1> DEFINE c == s.conn[i]
           d == [c EXCEPT !.at = 1]
           p == c.peer
           t == TcpOf(s, i)
           A == Sent(s, i)
<1>1. /\ Good(s) /\ c.up /\ Beside(b, i, s) /\ Uses(c, i, s.handles, s.sockets, H, S)
      /\ Serving(p, c, t, A, u) /\ c.cgi = "socket" /\ c.buf = <<>>
  BY DEF After, Runs
<1>2. s \in State /\ c \in Slot /\ s.handles \in Heap /\ s.sockets \in Seq(Slots) /\ s.res \in Res
  BY <1>1, StateFields DEF Good
<1>3. /\ d \in Slot /\ Ends(c, d) /\ d.cgi = c.cgi /\ d.data = c.data /\ d.buf = c.buf /\ d.len = c.len
      /\ d.n = c.n /\ d.flags = c.flags /\ d.recvHdl = c.recvHdl /\ d.peer = c.peer
  BY <1>2 DEF Slot, Ends
<1>4. x = [s EXCEPT !.conn[i] = d]
  BY <1>2 DEF GoodMark, State
<1> HIDE DEF d
<1>5. x = Into(s, i, d, s.handles, s.sockets, s.res)
  BY <1>2, <1>4, WriteIs
<1>6. WrittenTo(b, i, s, d, s.handles, s.sockets, s.res, x)
  BY <1>1, <1>2, <1>3, <1>5, IntoRuns
<1>7. Uses(d, i, s.handles, s.sockets, H, S)
  BY <1>1, <1>3 DEF Uses, Holds
<1>8. Runs(b, i, x, H, S) /\ x.conn[i] = d /\ TcpOf(x, i) = t /\ Sent(x, i) = A
  BY <1>3, <1>6, <1>7 DEF WrittenTo, Runs
<1>9. Serving(p, d, t, A, u)
  <2> HIDE DEF c, p, t, A
  <2>1. Proper(t, A) /\ Open(p, c, t, A, u)
    BY <1>1, OpenPhase
  <2>2. Open(p, d, t, A, u)
    BY <1>3, <2>1 DEF Open, Answering
  <2> QED  BY <2>1, <2>2, OpenServing
<1> QED  BY <1>1, <1>3, <1>8, <1>9 DEF After

SocketClosed(b, i, s, x, H, S, v) ==
    /\ After(b, i, x, H, S, v) /\ Wired(b, i, x, H, S, v) /\ x.conn[i].peer = s.conn[i].peer
    /\ TcpOf(x, i).frames = TcpOf(s, i).frames
LEMMA SocketCloses ==
    ASSUME NEW b, NEW i \in Slots, NEW s, NEW H, NEW S, NEW u, NEW v, Wired(b, i, s, H, S, u),
           FramesTo(s.conn[i].peer, TcpOf(s, i), v)
    PROVE  SocketClosed(b, i, s, cgiWebsocketClose(s, i), H, S, v)
PROOF
<1> DEFINE m == httpdSend(s, i, "close")
           f == httpdFlushSendBuffer(m, i)
           x == GoodMark(f, i)
<1>1. /\ Wired(b, i, m, H, S, v) /\ TcpOf(m, i) = TcpOf(s, i)
      /\ m.conn[i].peer = s.conn[i].peer
  BY SaysServes
<1> HIDE DEF m
<1>2. m.conn[i].up /\ Good(m)
  BY <1>1 DEF Wired, During, Runs
<1>3. After(b, i, f, H, S, v)
  BY <1>1, FlushAfter DEF Wired
<1>4. Flushes(m, i, f, v)
  BY <1>1, <1>2, FlushServes DEF Wired, During, Runs
<1> HIDE DEF f
<1>5. f.conn[i].cgi = "socket" /\ f.conn[i].peer = s.conn[i].peer /\ TcpOf(f, i).frames = TcpOf(s, i).frames
  BY <1>1, <1>4 DEF Flushes, AlikeSlot, Beside, AlikeTcp, TcpOf, Wired
<1> HIDE DEF x
<1>6. /\ After(b, i, x, H, S, v) /\ x.conn[i].cgi = "socket" /\ TcpOf(x, i) = TcpOf(f, i)
      /\ x.conn[i].peer = f.conn[i].peer
  BY <1>3, <1>5, MarkServes DEF x
<1>7. Wired(b, i, x, H, S, v)
  BY <1>6, AfterDuring DEF Wired
<1>8. cgiWebsocketClose(s, i) = x
  BY DEF cgiWebsocketClose, GoodMark, m, f, x
<1> QED  BY <1>5, <1>6, <1>7, <1>8 DEF SocketClosed

LEMMA FromIs ==
    ASSUME NEW U \in Seq(Unit), NEW k \in 1 .. Len(U) + 1
    PROVE  /\ From(U, k) \in Seq(Unit) /\ From(U, 1) = U
           /\ k <= Len(U) => /\ From(U, k) # <<>> /\ Head(From(U, k)) = U[k]
                             /\ Tail(From(U, k)) = From(U, k + 1)
PROOF
<1>1. From(U, k) \in Seq(Unit) /\ From(U, 1) = U
  BY DEF From
<1>2. ASSUME k <= Len(U) PROVE From(U, k) # <<>> /\ Head(From(U, k)) = U[k]
  <2>1. Len(From(U, k)) = Len(U) - k + 1 /\ From(U, k)[1] = U[k] /\ Len(U) \in Nat /\ k \in Nat
    BY <1>2 DEF From
  <2>2. From(U, k) # <<>>
    BY <1>2, <2>1
  <2> QED  BY <1>1, <2>1, <2>2
<1>3. ASSUME k <= Len(U) PROVE Tail(From(U, k)) = From(U, k + 1)
  BY <1>3 DEF From
<1> QED  BY <1>1, <1>2, <1>3

FramesAt(b, i, x, H, S, u) ==
    \/ x.res # "DONE" /\ Wired(b, i, x, H, S, u)
    \/ x.res = "DONE" /\ Finishing(b, i, x, H, S) /\ u = <<>>

LEMMA FrameServes ==
    ASSUME NEW b, NEW i \in Slots, NEW s, NEW H \in Heap, NEW S, i \notin S, NEW u \in Seq(Unit), u # <<>>,
           FramesAt(b, i, s, H, S, u)
    PROVE  FramesAt(b, i, Frame(s, i, Head(u)), H, S, Tail(u))
PROOF
<1> DEFINE p == s.conn[i].peer
           t == TcpOf(s, i)
<1>1. s.res # "DONE" /\ Wired(b, i, s, H, S, u)
  BY DEF FramesAt
<1>2. Open(p, s.conn[i], t, Sent(s, i) \o s.conn[i].buf, u)
  BY <1>1, OpenPhase DEF Wired, During, InCall
<1>3. /\ FramesTo(p, t, Tail(u))
      /\ \/ Head(u) = "ping"
         \/ Head(u) = "close" /\ Tail(u) = <<>> /\ t.frames >= MaxFrames[p]
  <2>1. FramesTo(p, t, u)
    BY <1>2 DEF Open
  <2> HIDE DEF p, t
  <2> QED  BY <2>1, FramesTail
<1>4. CASE Head(u) = "ping"
  <2> DEFINE x == httpdSend(s, i, "pong")
  <2>1. Wired(b, i, x, H, S, Tail(u)) /\ x.res = s.res
    BY <1>1, <1>3, SaysServes, SMTT(40)
  <2>2. Frame(s, i, Head(u)) = x
    BY <1>1, <1>4 DEF Frame
  <2> HIDE DEF x
  <2> QED  BY <1>1, <2>1, <2>2 DEF FramesAt
<1>5. CASE Head(u) = "close" /\ Tail(u) = <<>> /\ t.frames >= MaxFrames[p]
  <2> DEFINE y == IF s.conn[i].at # 0 THEN s ELSE cgiWebsocketClose(s, i)
             z == websockFree(y, i)
             x == Result(z, "DONE")
  <2>1. Wired(b, i, y, H, S, <<>>) /\ TcpOf(y, i).frames = t.frames /\ y.conn[i].peer = p
    <3>1. FramesTo(p, t, <<>>)
      BY DEF FramesTo
    <3>2. CASE s.conn[i].at = 0
      <4>1. SocketClosed(b, i, s, cgiWebsocketClose(s, i), H, S, <<>>)
        BY <1>1, <3>1, SocketCloses
      <4> QED  BY <3>2, <4>1 DEF SocketClosed
    <3>3. CASE s.conn[i].at # 0
      <4>1. Wired(b, i, s, H, S, <<>>)
        BY <1>1, <3>1, WiredFor
      <4> QED  BY <3>3, <4>1
    <3> QED  BY <3>2, <3>3
  <2>2. Frame(s, i, Head(u)) = x
    BY <1>1, <1>5 DEF Frame
  <2> HIDE DEF y
  <2>3. x.res = "DONE"
    <3>1. z \in State
      BY <2>1, KeepsFree DEF Wired, During, Runs, Good, Keeps
    <3> HIDE DEF z
    <3> QED  BY <3>1, KeepsResult DEF Res
  <2>4. Finishing(b, i, x, H, S)
    BY <1>5, <2>1, FreeServes
  <2> HIDE DEF x
  <2> QED  BY <1>5, <2>2, <2>3, <2>4 DEF FramesAt
<1> QED  BY <1>3, <1>4, <1>5

LEMMA ResultWired ==
    ASSUME NEW b, NEW i \in Slots, NEW s, NEW H, NEW S, NEW u, NEW r \in Res, Wired(b, i, s, H, S, u)
    PROVE  Wired(b, i, Result(s, r), H, S, u) /\ Result(s, r).res = r
PROOF
<1> DEFINE c == s.conn[i]
           x == Result(s, r)
<1>1. Good(s) /\ c.up /\ Beside(b, i, s) /\ Uses(c, i, s.handles, s.sockets, H, S)
  BY DEF Wired, During, Runs
<1>2. /\ s \in State /\ c \in Slot /\ s.handles \in Heap /\ s.sockets \in Seq(Slots)
      /\ s = Into(s, i, c, s.handles, s.sockets, s.res)
  BY <1>1, StateFields DEF Good
<1>3. x = Into(s, i, c, s.handles, s.sockets, r)
  <2>1. Result(Into(s, i, c, s.handles, s.sockets, s.res), r) = Into(s, i, c, s.handles, s.sockets, r)
    BY <1>2, ResultIs
  <2> QED  BY <1>2, <2>1
<1>4. Ends(c, c)
  BY DEF Ends
<1> HIDE DEF x
<1>5. WrittenTo(b, i, s, c, s.handles, s.sockets, r, x)
  BY <1>1, <1>2, <1>3, <1>4, IntoRuns
<1>6. Wired(b, i, x, H, S, u) /\ x.res = r
  BY <1>1, <1>5 DEF WrittenTo, Wired, During, Runs
<1> QED  BY <1>6 DEF x

\* All the rest of what came, k being where it begins and n where it ends.
LEMMA RestServes ==
    ASSUME NEW b, NEW i \in Slots, NEW s, NEW H \in Heap, NEW S, i \notin S, NEW U \in Seq(Unit),
           NEW n \in 1 .. Len(U), NEW k \in 1 .. n, Wired(b, i, s, H, S, From(U, k)),
           NEW W \in Seq(Unit), Len(W) = n - k + 1, \A j \in 1 .. Len(W) : W[j] = U[k + j - 1]
    PROVE  During(b, i, Rest(s, i, W), H, S, From(U, n + 1))
PROOF
<1> DEFINE m == Len(W)
           V == {x \in State : Good(x)}
           z == Result(s, "MORE")
           At(j) == {x \in V : FramesAt(b, i, x, H, S, From(U, k + j))}
           Q == [j \in 0 .. m |-> At(j)]
           x == Framed(z, i, W)
<1>1. n \in Nat /\ k \in Nat /\ m \in Nat /\ DOMAIN W = 1 .. m /\ k + m = n + 1 /\ Len(U) \in Nat
      /\ k + 0 = k /\ n <= Len(U) /\ k >= 1
  OBVIOUS
<1>2. Wired(b, i, z, H, S, From(U, k)) /\ z.res = "MORE" /\ z \in V
  <2>1. Wired(b, i, z, H, S, From(U, k)) /\ z.res = "MORE"
    BY ResultWired DEF Res
  <2> HIDE DEF z
  <2> QED  BY <2>1 DEF Wired, During, Runs, Good
<1>3. z \in Q[0]
  <2> HIDE DEF z
  <2>1. z \in At(0)
    BY <1>1, <1>2 DEF FramesAt
  <2>2. 0 \in 0 .. m
    BY <1>1
  <2> HIDE DEF At
  <2> QED  BY <2>1, <2>2
<1>4. ASSUME NEW j \in 1 .. m, NEW y \in V PROVE Frame(y, i, W[j]) \in V
  BY GoodFrame DEF Good
<1>5. ASSUME NEW j \in 1 .. m, NEW y \in V, y \in Q[j - 1] PROVE Frame(y, i, W[j]) \in Q[j]
  <2>1. /\ j \in Nat /\ j - 1 \in 0 .. m /\ j \in 0 .. m /\ k + (j - 1) \in 1 .. Len(U) + 1
        /\ k + (j - 1) <= Len(U) /\ (k + (j - 1)) + 1 = k + j /\ k + j - 1 = k + (j - 1)
    BY <1>1
  <2> DEFINE l == k + (j - 1)
             u == From(U, l)
  <2>2. u \in Seq(Unit) /\ u # <<>> /\ Head(u) = U[l] /\ Tail(u) = From(U, k + j)
    <3> HIDE DEF l
    <3>1. l \in 1 .. Len(U) + 1 /\ l <= Len(U) /\ l + 1 = k + j
      BY <2>1 DEF l
    <3>2. /\ From(U, l) \in Seq(Unit) /\ From(U, l) # <<>> /\ Head(From(U, l)) = U[l]
          /\ Tail(From(U, l)) = From(U, l + 1)
      <4>1. U \in Seq(Unit)
        OBVIOUS
      <4> QED  BY ONLY <3>1, <4>1, FromIs
    <3> QED  BY <3>1, <3>2
  <2>3. W[j] = Head(u)
    BY <2>1, <2>2
  <2>4. y \in At(j - 1)
    <3> HIDE DEF At
    <3> QED  BY <1>5, <2>1
  <2>5. FramesAt(b, i, y, H, S, u)
    BY <2>4
  <2> HIDE DEF u, l
  <2>6. FramesAt(b, i, Frame(y, i, W[j]), H, S, From(U, k + j))
    BY <2>2, <2>3, <2>5, FrameServes
  <2>7. Frame(y, i, W[j]) \in At(j)
    BY <1>4, <2>6
  <2> HIDE DEF At
  <2> QED  BY <2>1, <2>7
<1> HIDE DEF z
<1>6. x \in Q[m] /\ x \in V
  <2> HIDE DEF V, Q, m
  <2> QED  BY <1>1, <1>2, <1>3, <1>4, <1>5, FramedKeeps
<1>7. FramesAt(b, i, x, H, S, From(U, n + 1))
  <2>1. m \in 0 .. m
    BY <1>1
  <2>2. x \in At(m)
    <3> HIDE DEF At, m
    <3> QED  BY <1>6, <2>1
  <2> HIDE DEF m, x
  <2>3. FramesAt(b, i, x, H, S, From(U, k + m))
    BY <2>2
  <2> QED  BY <1>1, <2>3
<1>8. s.conn[i].recvHdl
  <2>1. InCall(s.conn[i].peer, s.conn[i], TcpOf(s, i), Sent(s, i), From(U, k)) /\ s.conn[i].cgi = "socket"
    BY DEF Wired, During
  <2> QED  BY <2>1, OpenPhase DEF InCall, Open
<1>9. Rest(s, i, W) = IF x.res = "DONE" THEN httpdCgiIsDone(x, i) ELSE x
  BY <1>8 DEF Rest, cgiWebSocketRecv, Framed, z
<1> HIDE DEF x
<1>10. CASE x.res # "DONE"
  BY <1>7, <1>9, <1>10 DEF FramesAt, Wired
<1>11. CASE x.res = "DONE"
  <2>1. Finishing(b, i, x, H, S) /\ From(U, n + 1) = <<>>
    BY <1>7, <1>11 DEF FramesAt
  <2>2. During(b, i, httpdCgiIsDone(x, i), H, S, <<>>)
    BY <2>1, DoneServes
  <2> QED  BY <1>9, <1>11, <2>1, <2>2
<1> QED  BY <1>10, <1>11

(* httpdRecvCb: of U, what is to come, the first n units are now here.     *)
UnitsAt(b, i, acc, H, S, U, n, k) ==
    During(b, i, acc.s, H, S, IF acc.over THEN From(U, n + 1) ELSE From(U, k + 1))
AskedOf(b, i) == b.tcp[b.conn[i].peer].asked

LEMMA AskedStays ==
    ASSUME NEW b, NEW i, NEW s, Beside(b, i, s) PROVE TcpOf(s, i).asked = AskedOf(b, i)
PROOF
  BY DEF Beside, AlikeTcp, TcpOf, AskedOf

LEMMA UnitsLeft ==
    ASSUME NEW U \in Seq(Unit), NEW n \in 1 .. Len(U), NEW k \in 1 .. n, NEW units, units = SubSeq(U, 1, n)
    PROVE  LET W == SubSeq(units, k, Len(units))
           IN W \in Seq(Unit) /\ Len(W) = n - k + 1 /\ \A j \in 1 .. Len(W) : W[j] = U[k + j - 1]
PROOF
<1>1. units \in Seq(Unit) /\ Len(units) = n /\ (\A j \in 1 .. n : units[j] = U[j]) /\ n \in Nat /\ k \in Nat
  OBVIOUS
<1> DEFINE W == SubSeq(units, k, Len(units))
<1>2. W \in Seq(Unit) /\ Len(W) = n - k + 1 /\ \A j \in 1 .. n - k + 1 : W[j] = units[k + j - 1]
  BY <1>1, SMTT(40)
<1> HIDE DEF W
<1>3. ASSUME NEW j \in 1 .. Len(W) PROVE W[j] = U[k + j - 1]
  <2>1. j \in 1 .. n - k + 1 /\ k + j - 1 \in 1 .. n
    BY <1>1, <1>2
  <2> QED  BY <1>1, <1>2, <2>1
<1> QED  BY <1>2, <1>3 DEF W

LEMMA UnitServes ==
    ASSUME NEW b, NEW i \in Slots, NEW acc \in Accs, NEW H \in Heap, NEW S, i \notin S, Handle \ H # {},
           NEW U \in Seq(Unit), NEW n \in 1 .. Len(U), NEW k \in 1 .. n,
           UnitsAt(b, i, acc, H, S, U, n, k - 1)
    PROVE  UnitsAt(b, i, UnitOn(acc, k, i, SubSeq(U, 1, n), AskedOf(b, i)), H, S, U, n, k)
PROOF
<1> DEFINE s == acc.s
           c == s.conn[i]
           t == TcpOf(s, i)
           A == Sent(s, i)
           u == From(U, k)
           units == SubSeq(U, 1, n)
           req == AskedOf(b, i)
           W == SubSeq(units, k, Len(units))
           x == UnitOn(acc, k, i, units, req)
<1>1. k \in Nat /\ (k - 1) + 1 = k /\ k \in 1 .. Len(U) + 1 /\ k <= Len(U) /\ acc.over \in BOOLEAN
  BY DEF Accs
<1>2. CASE acc.over
  <2>1. x = acc
    BY <1>2 DEF UnitOn
  <2> HIDE DEF x
  <2> QED  BY <1>2, <2>1 DEF UnitsAt, x
<1>3. CASE ~acc.over
  <2>1. During(b, i, s, H, S, u)
    BY <1>1, <1>3 DEF UnitsAt
  <2>2. u \in Seq(Unit) /\ u # <<>> /\ Tail(u) = From(U, k + 1)
    <3>1. U \in Seq(Unit) /\ k \in 1 .. Len(U) + 1 /\ k <= Len(U)
      BY <1>1
    <3> QED  BY ONLY <3>1, FromIs
  <2>3. /\ Runs(b, i, s, H, S) /\ Good(s) /\ Beside(b, i, s) /\ c \in Slot /\ A \in Seq(Part)
        /\ InCall(c.peer, c, t, A, u)
    BY <2>1, GoodSlot DEF During, Runs, Sent
  <2>4. t.asked = req
    BY <2>3, AskedStays
  <2>5. acc = [s |-> s, over |-> FALSE] /\ \A y : [acc EXCEPT !.s = y].s = y /\ ~[acc EXCEPT !.s = y].over
    BY <1>3 DEF Accs
  <2>6. c.len \in Int
    BY <2>3 DEF Slot
  <2> HIDE DEF c, t, A, u, s
  <2>7. /\ c.len < 0 => Calling(c.peer, c, t, A, u) /\ Proper(t, A)
        /\ c.len > 0 => Gathering(c.peer, c, t, A, u) /\ Proper(t, A)
        /\ c.len = 0 => Open(c.peer, c, t, A \o c.buf, u)
    BY <2>2, <2>3, UnitFinds
  <2>8. CASE c.len < 0
    <3>1. During(b, i, Headers(s, i, t.asked), H, S, Tail(u))
      BY <2>3, <2>7, <2>8, HeadersServes DEF c, t, A
    <3>2. x = [acc EXCEPT !.s = Headers(s, i, req)]
      BY <1>3, <2>8 DEF UnitOn, c, s
    <3>3. x.s = Headers(s, i, req) /\ ~x.over
      BY <2>5, <3>2
    <3> HIDE DEF x
    <3>4. During(b, i, x.s, H, S, From(U, k + 1)) /\ ~x.over
      BY <2>2, <2>4, <3>1, <3>3
    <3> QED  BY <3>4 DEF UnitsAt, x
  <2>9. CASE c.len > 0
    <3>1. During(b, i, PostByte(s, i), H, S, Tail(u))
      BY <2>3, <2>7, <2>9, PostServes DEF c, t, A
    <3>2. x = [acc EXCEPT !.s = PostByte(s, i)]
      BY <1>3, <2>6, <2>9 DEF UnitOn, c, s
    <3>3. x.s = PostByte(s, i) /\ ~x.over
      BY <2>5, <3>2
    <3> HIDE DEF x
    <3>4. During(b, i, x.s, H, S, From(U, k + 1)) /\ ~x.over
      BY <2>2, <3>1, <3>3
    <3> QED  BY <3>4 DEF UnitsAt, x
  <2>10. CASE c.len = 0
    <3>1. c.cgi = "socket" /\ c.recvHdl
      BY <2>7, <2>10 DEF Open
    <3>2. Wired(b, i, s, H, S, From(U, k))
      BY <2>1, <3>1 DEF Wired, c, u
    <3>3. W \in Seq(Unit) /\ Len(W) = n - k + 1 /\ \A j \in 1 .. Len(W) : W[j] = U[k + j - 1]
      BY UnitsLeft
    <3> HIDE DEF W
    <3>4. During(b, i, Rest(s, i, W), H, S, From(U, n + 1))
      BY <3>2, <3>3, RestServes
    <3>5. x = [s |-> Rest(s, i, W), over |-> TRUE]
      <4>1. x = [s |-> Rest(s, i, W), over |-> c.recvHdl]
        BY <1>3, <2>6, <2>10 DEF UnitOn, c, s, W
      <4>2. c.recvHdl = TRUE
        BY <2>3, <3>1 DEF Slot
      <4> QED  BY <4>1, <4>2
    <3>6. x.s = Rest(s, i, W) /\ x.over
      BY <3>5
    <3> HIDE DEF x
    <3> QED  BY <3>4, <3>6 DEF UnitsAt, x
  <2> QED  BY <2>6, <2>8, <2>9, <2>10
<1> QED  BY <1>2, <1>3

LEMMA ReceivedServes ==
    ASSUME NEW b, NEW i \in Slots, NEW s, NEW H \in Heap, NEW S, i \notin S, Handle \ H # {},
           NEW U \in Seq(Unit), NEW n \in 1 .. Len(U), During(b, i, s, H, S, U), AskedOf(b, i) \in Asked
    PROVE  After(b, i, Received(s, i, SubSeq(U, 1, n), AskedOf(b, i)), H, S, From(U, n + 1))
PROOF
<1> DEFINE units == SubSeq(U, 1, n)
           req == AskedOf(b, i)
           ks == [k \in 1 .. n |-> k]
           a == [s |-> s, over |-> FALSE]
           At(k) == {x \in Accs : UnitsAt(b, i, x, H, S, U, n, k)}
           Q == [k \in 0 .. n |-> At(k)]
           all == UnitsTaken(a, i, units, req, ks)
<1>1. /\ n \in Nat /\ units \in Seq(Unit) /\ Len(units) = n /\ DOMAIN ks = 1 .. n
      /\ \A k \in 1 .. n : ks[k] = k
  OBVIOUS
<1>2. a \in Accs
  BY GoodsAre DEF Accs, During, Runs
<1>3. a \in Q[0]
  <2>1. From(U, 0 + 1) = U
    <3>1. 1 \in 1 .. Len(U) + 1 /\ 0 + 1 = 1
      OBVIOUS
    <3> QED  BY <3>1, FromIs
  <2>2. a.s = s /\ ~a.over
    OBVIOUS
  <2> HIDE DEF a
  <2>3. a \in At(0)
    BY <1>2, <2>1, <2>2 DEF UnitsAt
  <2>4. 0 \in 0 .. n
    BY <1>1
  <2> HIDE DEF At
  <2> QED  BY <2>3, <2>4
<1>4. ASSUME NEW k \in 1 .. n, NEW x \in Accs PROVE UnitOn(x, ks[k], i, units, req) \in Accs
  <2> HIDE DEF units, req, ks
  <2> QED  BY <1>1, GoodUnit DEF req
<1>5. ASSUME NEW k \in 1 .. n, NEW x \in Accs, x \in Q[k - 1] PROVE UnitOn(x, ks[k], i, units, req) \in Q[k]
  <2>1. k - 1 \in 0 .. n /\ k \in 0 .. n /\ ks[k] = k
    BY <1>1
  <2>2. x \in At(k - 1)
    <3> HIDE DEF At
    <3> QED  BY <1>5, <2>1
  <2>3. UnitsAt(b, i, x, H, S, U, n, k - 1)
    BY <2>2
  <2>4. UnitsAt(b, i, UnitOn(x, k, i, units, req), H, S, U, n, k)
    BY <2>3, UnitServes
  <2> DEFINE y == UnitOn(x, k, i, units, req)
  <2>5. y \in Accs
    <3> HIDE DEF units, req
    <3> QED  BY <1>4, <2>1
  <2> HIDE DEF units, req, y, ks
  <2>6. y \in At(k)
    BY <2>4, <2>5 DEF y
  <2> HIDE DEF At
  <2> QED  BY <2>1, <2>6 DEF y
<1>6. all \in Q[n] /\ all \in Accs
  <2> HIDE DEF Q, ks, a, units, req
  <2> QED  BY <1>1, <1>2, <1>3, <1>4, <1>5, UnitsKeeps
<1>7. Received(s, i, units, req) = httpdFlushSendBuffer(all.s, i)
  BY <1>1 DEF Received, UnitsTaken, UnitOn
<1> HIDE DEF all
<1>8. During(b, i, all.s, H, S, From(U, n + 1))
  <2>1. n \in 0 .. n
    BY <1>1
  <2>2. all \in At(n)
    <3> HIDE DEF At
    <3> QED  BY <1>6, <2>1
  <2>3. UnitsAt(b, i, all, H, S, U, n, n)
    BY <2>2
  <2> QED  BY <2>3 DEF UnitsAt
<1> HIDE DEF units, req
<1>9. After(b, i, httpdFlushSendBuffer(all.s, i), H, S, From(U, n + 1))
  BY <1>8, FlushAfter
<1> QED  BY <1>7, <1>9 DEF units, req

(* The whole server: the pool, and what each connection is at.             *)
Busy(s)  == {j \in Slots : s.conn[j].cgi # "none"}
Wires(s) == {j \in Slots : s.conn[j].cgi = "socket"}
Owned(s, J) == {s.conn[j].data : j \in J}
Pooled(s) ==
    /\ \A j \in Slots : s.conn[j].peer = NoPeer => s.conn[j].cgi = "none"
    /\ \A j \in Busy(s) : s.conn[j].data \in Handle
    /\ \A j, k \in Busy(s) : s.conn[j].data = s.conn[k].data => j = k
    /\ s.handles = Owned(s, Busy(s))
    /\ Lists(s.sockets, Wires(s))
TendedAt(s, j) ==
    /\ s.conn[j].buf = <<>>
    /\ Serving(s.conn[j].peer, s.conn[j], TcpOf(s, j), Sent(s, j), TcpOf(s, j).coming)
Tended(s) == \A j \in Slots : s.conn[j].up => TendedAt(s, j)
Silent(s) == \A p \in Peers : s.tcp[p].state = "NONE" => s.answer[p] = <<>>
Sound(s)  == Good(s) /\ Pooled(s) /\ Tended(s) /\ Silent(s)

\* What the other slots use; and a server in which only slot i, of client p, is not as it was in b.
HeldBeside(b, i) == Owned(b, Busy(b) \ {i})
WiredBeside(b, i) == Wires(b) \ {i}
Aside(b, i, p, x) ==
    /\ \A j \in Slots \ {i} : x.conn[j] = b.conn[j] /\ b.conn[j].peer # p
    /\ \A q \in Peers \ {p} : x.tcp[q] = b.tcp[q] /\ x.answer[q] = b.answer[q]

\* There are no more handles in use than other slots, so one is free for slot i.
LEMMA HandleFree ==
    ASSUME NEW b, NEW i \in Slots PROVE Handle \ HeldBeside(b, i) # {}
PROOF
<1> DEFINE J == Slots \ {i}
           f == [j \in J |-> b.conn[j].data]
           H == HeldBeside(b, i)
<1>1. MaxConn \in Nat
  BY HttpdAssumption
<1>2. IsFiniteSet(Slots) /\ Cardinality(Slots) = MaxConn
  <2>1. IsFiniteSet(1 .. MaxConn) /\ Cardinality(1 .. MaxConn) = IF 1 > MaxConn THEN 0 ELSE MaxConn - 1 + 1
    BY <1>1, FS_Interval
  <2>2. MaxConn # 0
    BY HttpdAssumption
  <2> QED  BY <1>1, <2>1, <2>2 DEF Slots
<1>3. IsFiniteSet(J) /\ Cardinality(J) = MaxConn - 1
  BY <1>1, <1>2, FS_RemoveElement
<1>4. SUFFICES ASSUME Handle \subseteq H PROVE FALSE
  OBVIOUS
<1>5. H \subseteq {f[j] : j \in J}
  BY DEF HeldBeside, Owned, Busy
<1>6. IsFiniteSet({f[j] : j \in J}) /\ Cardinality({f[j] : j \in J}) <= Cardinality(J)
  <2> DEFINE T == {f[j] : j \in J}
  <2>1. f \in Surjection(J, T)
    BY DEF Surjection
  <2> HIDE DEF f, T, J
  <2> QED  BY <1>3, <2>1, FS_Surjection DEF T
<1>7. Cardinality(Handle) <= Cardinality({f[j] : j \in J})
  <2>1. Handle \subseteq {f[j] : j \in J}
    BY <1>4, <1>5
  <2> HIDE DEF f, J
  <2> QED  BY <1>6, <2>1, FS_Subset
<1>8. Cardinality(Handle) = MaxConn
  BY <1>2 DEF Handle, Slots
<1> HIDE DEF J, f
<1>9. Cardinality({f[j] : j \in J}) \in Nat
  BY <1>6, FS_CardinalityType
<1> QED  BY <1>1, <1>3, <1>6, <1>7, <1>8, <1>9

LEMMA PoolSplit ==
    ASSUME NEW b, Sound(b), NEW i \in Slots
    PROVE  /\ Uses(b.conn[i], i, b.handles, b.sockets, HeldBeside(b, i), WiredBeside(b, i))
           /\ HeldBeside(b, i) \in Heap /\ i \notin WiredBeside(b, i)
           /\ Handle \ HeldBeside(b, i) # {}
PROOF
<1> DEFINE c == b.conn[i]
           H == HeldBeside(b, i)
           S == WiredBeside(b, i)
<1>1. Pooled(b) /\ b \in State
  BY DEF Sound, Good
<1>2. H \in Heap
  <2>1. \A j \in Busy(b) : b.conn[j].data \in Data
    BY <1>1 DEF Pooled, Data
  <2> QED  BY <2>1 DEF HeldBeside, Owned, Heap
<1>3. CASE c.cgi = "none"
  <2>1. Busy(b) \ {i} = Busy(b) /\ Wires(b) \ {i} = Wires(b)
    BY <1>3 DEF Busy, Wires
  <2>2. b.handles = H /\ Lists(b.sockets, S)
    BY <1>1, <2>1 DEF Pooled, HeldBeside, WiredBeside
  <2> QED  BY <1>2, <1>3, <2>2, HandleFree DEF Uses, WiredBeside
<1>4. CASE c.cgi # "none"
  <2>1. i \in Busy(b)
    BY <1>4 DEF Busy
  <2>2. c.data \in Handle /\ c.data \notin H /\ b.handles = H \cup {c.data}
    <3>1. c.data \notin H
      BY <1>1, <2>1 DEF Pooled, HeldBeside, Owned
    <3>2. b.handles = H \cup {c.data}
      BY <1>1, <2>1 DEF Pooled, HeldBeside, Owned
    <3> QED  BY <1>1, <2>1, <3>1, <3>2 DEF Pooled
  <2>3. Holds(c, H, b.handles)
    BY <2>2 DEF Holds
  <2>4. c.cgi = "socket" => S \cup {i} = Wires(b)
    BY DEF Wires, WiredBeside
  <2>5. c.cgi # "socket" => S = Wires(b)
    BY DEF Wires, WiredBeside
  <2> HIDE DEF c
  <2>6. c.cgi = "socket" => Lists(b.sockets, S \cup {i})
    BY <1>1, <2>4 DEF Pooled
  <2>7. c.cgi # "socket" => Lists(b.sockets, S)
    BY <1>1, <2>5 DEF Pooled
  <2>8. c.cgi \in {"file", "upload", "socket"}
    <3>1. c.up
      <4>1. c.peer # NoPeer
        BY <1>1, <1>4 DEF Pooled, c
      <4> QED  BY <4>1 DEF Sound, Good, Linked, c
    <3>2. Serving(c.peer, c, TcpOf(b, i), Sent(b, i), TcpOf(b, i).coming)
      BY <3>1 DEF Sound, Tended, TendedAt, c
    <3> QED  BY <1>4, <3>2 DEF Serving, Quiet, Talking, Calling, Gathering, Resting, Reading, Open, Ending, Blank
  <2> QED  BY <1>2, <2>3, <2>6, <2>7, <2>8, HandleFree DEF Uses, WiredBeside, c
<1> QED  BY <1>3, <1>4

LEMMA PoolJoin ==
    ASSUME NEW b, Sound(b), NEW i \in Slots, NEW p, NEW x, Good(x), Aside(b, i, p, x),
           Uses(x.conn[i], i, x.handles, x.sockets, HeldBeside(b, i), WiredBeside(b, i)),
           x.conn[i].peer = NoPeer => x.conn[i].cgi = "none",
           x.conn[i].up => TendedAt(x, i), x.tcp[p].state = "NONE" => x.answer[p] = <<>>
    PROVE  Sound(x)
PROOF
<1> DEFINE c == x.conn[i]
           H == HeldBeside(b, i)
           S == WiredBeside(b, i)
<1>1. Pooled(b) /\ b \in State /\ Tended(b) /\ Silent(b)
  BY DEF Sound, Good
<1>2. \A j \in Slots \ {i} : x.conn[j] = b.conn[j] /\ b.conn[j].peer # p
  BY DEF Aside
<1>3. Busy(x) \ {i} = Busy(b) \ {i} /\ Wires(x) \ {i} = S
  BY <1>2 DEF Busy, Wires, WiredBeside
<1>4. H = {x.conn[j].data : j \in Busy(x) \ {i}}
  <2>1. \A j \in Busy(b) \ {i} : x.conn[j].data = b.conn[j].data
    BY <1>2 DEF Busy
  <2> QED  BY <1>3, <2>1 DEF HeldBeside, Owned
<1>5. \A j \in Busy(x) \ {i} : j \in Busy(b) /\ x.conn[j].data = b.conn[j].data
  BY <1>2, <1>3 DEF Busy
<1>6. \A j \in Slots : x.conn[j].peer = NoPeer => x.conn[j].cgi = "none"
  BY <1>1, <1>2 DEF Pooled
<1>7. Pooled(x)
  <2>1. CASE c.cgi = "none"
    <3>1. Busy(x) \ {i} = Busy(x) /\ Wires(x) = S
      BY <1>3, <2>1 DEF Busy, Wires
    <3>2. x.handles = H /\ Lists(x.sockets, S)
      BY <2>1 DEF Uses
    <3>3. x.handles = Owned(x, Busy(x))
      BY <1>4, <3>1, <3>2 DEF Owned
    <3>4. \A j \in Busy(x) : x.conn[j].data \in Handle
      BY <1>1, <1>5, <3>1 DEF Pooled
    <3>5. \A j, k \in Busy(x) : x.conn[j].data = x.conn[k].data => j = k
      <4>1. \A j, k \in Busy(b) : b.conn[j].data = b.conn[k].data => j = k
        BY <1>1 DEF Pooled
      <4>2. \A j \in Busy(x) : j \in Busy(b) /\ x.conn[j].data = b.conn[j].data
        BY <1>5, <3>1
      <4> QED  BY <4>1, <4>2
    <3> QED  BY <1>6, <3>1, <3>2, <3>3, <3>4, <3>5 DEF Pooled
  <2>2. CASE c.cgi # "none"
    <3>1. Holds(c, H, x.handles)
      BY <2>2 DEF Uses
    <3>2. c.data \in Handle /\ c.data \notin H /\ x.handles = H \cup {c.data}
      BY <3>1 DEF Holds
    <3>3. i \in Busy(x) /\ Busy(x) = (Busy(x) \ {i}) \cup {i}
      BY <2>2 DEF Busy
    <3>4. x.handles = Owned(x, Busy(x))
      BY <1>4, <3>2, <3>3 DEF Owned
    <3>5. \A j \in Busy(x) : x.conn[j].data \in Handle
      BY <1>1, <1>5, <3>2 DEF Pooled
    <3>6. \A j, k \in Busy(x) : x.conn[j].data = x.conn[k].data => j = k
      <4>1. \A j, k \in Busy(b) : b.conn[j].data = b.conn[k].data => j = k
        BY <1>1 DEF Pooled
      <4>2. \A j \in Busy(x) \ {i} : x.conn[j].data # c.data
        BY <1>4, <3>2
      <4> QED  BY <1>5, <4>1, <4>2
    <3>7. Lists(x.sockets, Wires(x))
      <4>1. CASE c.cgi = "socket"
        <5>1. Wires(x) = S \cup {i}
          BY <1>3, <4>1 DEF Wires
        <5> QED  BY <4>1, <5>1 DEF Uses
      <4>2. CASE c.cgi # "socket"
        <5>1. Wires(x) = S
          BY <1>3, <4>2 DEF Wires
        <5> QED  BY <2>2, <4>2, <5>1 DEF Uses
      <4> QED  BY <4>1, <4>2
    <3> QED  BY <1>6, <3>4, <3>5, <3>6, <3>7 DEF Pooled
  <2> QED  BY <2>1, <2>2
<1>8. Tended(x)
  <2> SUFFICES ASSUME NEW j \in Slots, x.conn[j].up PROVE TendedAt(x, j)
    BY DEF Tended
  <2>1. CASE j = i
    BY <2>1
  <2>2. CASE j # i
    <3>1. x.conn[j] = b.conn[j] /\ b.conn[j].peer # p
      BY <1>2, <2>2
    <3>2. b.conn[j].peer \in Peers
      <4>1. Good(b) /\ b.conn[j].up
        BY <3>1 DEF Sound
      <4> QED  BY <4>1, GoodSlot
    <3>3. TcpOf(x, j) = TcpOf(b, j) /\ Sent(x, j) = Sent(b, j)
      BY <3>1, <3>2 DEF Aside, TcpOf, Sent
    <3>4. TendedAt(b, j)
      BY <1>1, <3>1 DEF Tended
    <3> QED  BY <3>1, <3>3, <3>4 DEF TendedAt
  <2> QED  BY <2>1, <2>2
<1>9. Silent(x)
  BY <1>1 DEF Silent, Aside
<1> QED  BY <1>7, <1>8, <1>9 DEF Sound

ServerInv == Sound(Now)

LEMMA BecomesSound ==
    ASSUME NEW s, Sound(s), Becomes(s) PROVE ServerInv'
PROOF
<1> DEFINE x == Snap(s.conn, s.tcp, s.handles, s.sockets, s.answer)
<1>1. Good(x)
  BY SnapIs DEF Sound
<1>2. /\ x.conn = s.conn /\ x.tcp = s.tcp /\ x.handles = s.handles /\ x.sockets = s.sockets
      /\ x.answer = s.answer
  BY DEF Snap
<1>3. Now' = x
  BY DEF Now, Becomes, Snap
<1> HIDE DEF x
<1>4. Sound(x)
  BY <1>1, <1>2 DEF Sound, Pooled, Tended, Silent, TendedAt, TcpOf, Sent, Busy, Wires, Owned
<1>5. Sound(Now')
  BY <1>3, <1>4
<1> QED  BY <1>5 DEF ServerInv

LEMMA AfterSound ==
    ASSUME NEW b, Sound(b), NEW i \in Slots, NEW p \in Peers, NEW s, Aside(b, i, p, s),
           s.conn[i].peer = p, NEW x,
           After(s, i, x, HeldBeside(b, i), WiredBeside(b, i), TcpOf(s, i).coming)
    PROVE  Sound(x)
PROOF
<1> DEFINE H == HeldBeside(b, i)
           S == WiredBeside(b, i)
<1>1. /\ Good(x) /\ x.conn[i].up /\ Beside(s, i, x) /\ Uses(x.conn[i], i, x.handles, x.sockets, H, S)
      /\ x.conn[i].buf = <<>>
      /\ Serving(x.conn[i].peer, x.conn[i], TcpOf(x, i), Sent(x, i), TcpOf(s, i).coming)
  BY DEF After, Runs
<1>2. x.conn[i].peer = p /\ TcpOf(x, i).coming = TcpOf(s, i).coming
  BY <1>1 DEF Beside, TcpOf, AlikeTcp
<1>3. TendedAt(x, i)
  BY <1>1, <1>2 DEF TendedAt
<1>4. Aside(b, i, p, x)
  BY <1>1 DEF Aside, Beside
<1>5. x.tcp[p].state # "NONE" /\ x.conn[i].peer # NoPeer
  BY <1>1, <1>2, HttpdAssumption, GoodSlot
<1> QED  BY <1>1, <1>3, <1>4, <1>5, PoolJoin

\* What is still to come of the SDK says nothing of what a connection is at but for the units.
SameTcp(t, v) ==
    v.state = t.state /\ v.out = t.out /\ v.asked = t.asked /\ v.n = t.n /\ v.frames = t.frames
LEMMA ServingOther ==
    ASSUME NEW p, NEW c, NEW d, NEW t, NEW v, NEW A, NEW u, Serving(p, c, t, A, u), SameTcp(t, v),
           AlikeSlot(c, d), d.buf = c.buf
    PROVE  Serving(p, d, v, A, u)
PROOF
<1>1. Proper(v, A)
  BY DEF Serving, Proper, SameTcp
<1>2. Answering(c, t, A) => Answering(d, v, A)
  BY DEF Answering, SameTcp, AlikeSlot
<1>3. Calling(p, c, t, A, u) => Calling(p, d, v, A, u)
  BY DEF Calling, SameTcp, AlikeSlot, Blank
<1>4. Gathering(p, c, t, A, u) => Gathering(p, d, v, A, u)
  BY DEF Gathering, SameTcp, AlikeSlot
<1>5. Resting(c, t, A, u) => Resting(d, v, A, u)
  BY DEF Resting, SameTcp, AlikeSlot, Blank
<1>6. Reading(c, t, A, u) => Reading(d, v, A, u)
  BY <1>2 DEF Reading, SameTcp, AlikeSlot
<1>7. Open(p, c, t, A, u) => Open(p, d, v, A, u)
  BY <1>2 DEF Open, SameTcp, AlikeSlot, FramesTo
<1>8. Ending(p, c, t, A, u) => Ending(p, d, v, A, u)
  BY <1>2 DEF Ending, SameTcp, AlikeSlot
<1> QED  BY <1>1, <1>3, <1>4, <1>5, <1>6, <1>7, <1>8 DEF Serving, Quiet, Talking

LEMMA EmptySame ==
    ASSUME NEW c \in Slot, c.buf = <<>> PROVE Emptied(c) = c
PROOF
  BY DEF Emptied, Slot

LEMMA SoundSlot ==
    ASSUME ServerInv, NEW p \in Peers, tcp[p].state # "NONE", NEW i, i = SlotOf(p)
    PROVE  /\ i \in Slots /\ conn[i].peer = p /\ conn[i].up /\ conn[i] \in Slot /\ tcp[p] \in Tcp
           /\ answer[p] \in Seq(Part) /\ conn[i].buf = <<>> /\ Good(Now) /\ GoodBut(Now, i)
           /\ Streams(conn[i], tcp[p], answer[p])
           /\ Serving(p, conn[i], tcp[p], answer[p], tcp[p].coming)
           /\ Uses(conn[i], i, handles, sockets, HeldBeside(Now, i), WiredBeside(Now, i))
           /\ HeldBeside(Now, i) \in Heap /\ i \notin WiredBeside(Now, i)
           /\ Handle \ HeldBeside(Now, i) # {}
           /\ \A j \in Slots \ {i} : conn[j].peer # p
           /\ Now \in State
PROOF
<1>1. FlowInv /\ TypeOK
  BY NowTyped DEF ServerInv, Sound, FlowInv
<1>2. i \in Slots /\ conn[i].peer = p /\ conn[i].up
  BY <1>1, SlotOfIs
<1>3. Good(Now) /\ GoodBut(Now, i) /\ Streams(conn[i], tcp[p], answer[p])
  BY <1>1, <1>2, GoodSlot, NowIs DEF FlowInv
<1>4. TendedAt(Now, i)
  BY <1>2, NowIs DEF ServerInv, Sound, Tended
<1>5. conn[i].buf = <<>> /\ Serving(p, conn[i], tcp[p], answer[p], tcp[p].coming)
  BY <1>2, <1>4, NowIs DEF TendedAt, TcpOf, Sent
<1>6. \A j \in Slots \ {i} : conn[j].peer # p
  <2>1. \A j, k \in Slots : conn[j].peer = conn[k].peer /\ conn[j].peer # NoPeer => j = k
    BY <1>3, NowIs DEF Good, Linked
  <2> QED  BY <1>2, <2>1, HttpdAssumption
<1>7. /\ Uses(Now.conn[i], i, Now.handles, Now.sockets, HeldBeside(Now, i), WiredBeside(Now, i))
      /\ HeldBeside(Now, i) \in Heap /\ i \notin WiredBeside(Now, i)
      /\ Handle \ HeldBeside(Now, i) # {}
  BY <1>2, PoolSplit DEF ServerInv
<1>8. Uses(conn[i], i, handles, sockets, HeldBeside(Now, i), WiredBeside(Now, i))
  BY <1>7, NowIs
<1>9. Now \in State
  BY <1>3 DEF Good
<1> QED  BY <1>1, <1>2, <1>3, <1>5, <1>6, <1>7, <1>8, <1>9 DEF TypeOK

LEMMA RecvSound ==
    ASSUME ServerInv, NEW p \in Peers, httpdRecvCb(p) PROVE ServerInv'
PROOF
<1> DEFINE i == SlotOf(p)
<1>1. PICK len \in 1 .. Len(tcp[p].coming) :
         LET units == SubSeq(tcp[p].coming, 1, len)
             left  == SubSeq(tcp[p].coming, len + 1, Len(tcp[p].coming))
             s     == [Now EXCEPT !.tcp[p].coming = left, !.conn[i].buf = <<>>]
         IN Becomes(Received(s, i, units, tcp[p].asked))
  BY DEF httpdRecvCb
<1> DEFINE t == tcp[p]
           c == conn[i]
           A == answer[p]
           U == t.coming
           units == SubSeq(U, 1, len)
           left == From(U, len + 1)
           v == [t EXCEPT !.coming = left]
           s == [Now EXCEPT !.tcp[p].coming = left, !.conn[i].buf = <<>>]
           x == Received(s, i, units, t.asked)
           H == HeldBeside(Now, i)
           S == WiredBeside(Now, i)
<1>2. Becomes(x)
  BY <1>1 DEF From
<1>3. t.state # "NONE"
  BY DEF httpdRecvCb, CanReceive
<1>4. /\ i \in Slots /\ c.peer = p /\ c.up /\ c \in Slot /\ t \in Tcp /\ A \in Seq(Part)
      /\ c.buf = <<>> /\ Good(Now) /\ GoodBut(Now, i) /\ Streams(c, t, A) /\ Serving(p, c, t, A, U)
      /\ Uses(c, i, handles, sockets, H, S) /\ H \in Heap /\ i \notin S /\ Handle \ H # {}
      /\ (\A j \in Slots \ {i} : conn[j].peer # p) /\ Now \in State
  <2> HIDE DEF i
  <2> QED  BY <1>3, SoundSlot DEF i
<1> HIDE DEF i
<1>5. U \in Seq(Unit) /\ t.asked \in Asked
  BY <1>4 DEF Tcp, Unit
<1>6. left \in Seq(Unit)
  <2>1. len + 1 \in 1 .. Len(U) + 1
    BY <1>5
  <2> HIDE DEF U
  <2> QED  BY <1>5, <2>1, FromIs
<1> HIDE DEF units, left
<1>7. v \in Tcp /\ v.coming = left /\ SameTcp(t, v) /\ v.got = t.got
  BY <1>4, <1>6 DEF Tcp, SameTcp, Unit
<1>8. s = Put(Now, i, c, v, A)
  <2>1. Now.conn[i].peer = p /\ Now.answer[p] = A /\ Now.conn[i] = c /\ Now.conn = conn
    BY <1>4, NowIs
  <2>2. Put(Now, i, c, v, A) = WithTcp(Now, p, v)
    <3> HIDE DEF v, A, c
    <3> QED  BY <1>4, <2>1, PutTcp, SMTT(40)
  <2>3. s = [Now EXCEPT !.conn[i] = Emptied(c), !.tcp[p] = v]
    BY DEF Now, Emptied
  <2>4. Emptied(c) = c
    BY <1>4, EmptySame
  <2>5. [Now EXCEPT !.conn[i] = c] = Now
    BY <1>4, <2>1 DEF State
  <2> HIDE DEF v
  <2>6. [Now EXCEPT !.conn[i] = c, !.tcp[p] = v] = [Now EXCEPT !.tcp[p] = v]
    BY <2>5
  <2> QED  BY <2>2, <2>3, <2>4, <2>6 DEF WithTcp
<1> HIDE DEF s, v
<1>9. /\ Good(s) /\ s.conn[i] = c /\ s.tcp[p] = v /\ s.answer[p] = A
      /\ s.handles = handles /\ s.sockets = sockets
  <2>1. Streams(c, v, A)
    BY <1>4, <1>7 DEF Streams, SameTcp
  <2>2. Now.conn[i] = c /\ v.state # "NONE"
    BY <1>3, <1>7, NowIs DEF SameTcp
  <2> HIDE DEF c, A
  <2>3. Good(s) /\ s.conn[i] = c /\ s.tcp[p] = v /\ s.answer[p] = A
    BY <1>4, <1>7, <1>8, <2>1, <2>2, PutIs
  <2>4. s.handles = handles /\ s.sockets = sockets
    BY <1>4, <1>8, <2>2, PutFields, NowIs
  <2> QED  BY <2>3, <2>4
<1>10. Aside(Now, i, p, s)
  <2>1. \A j \in Slots \ {i} : s.conn[j] = Now.conn[j]
    BY <1>4, <1>8 DEF Put, State
  <2>2. \A q \in Peers \ {p} : s.tcp[q] = Now.tcp[q] /\ s.answer[q] = Now.answer[q]
    BY <1>4, <1>8, NowIs DEF Put, State
  <2> QED  BY <1>4, <2>1, <2>2, NowIs DEF Aside
<1>11. During(s, i, s, H, S, U)
  <2>1. AlikeSlot(c, c)
    BY DEF AlikeSlot
  <2>2. Serving(p, c, v, A, U)
    BY <1>4, <1>7, <2>1, ServingOther
  <2>3. InCall(p, c, v, A, U)
    <3>1. A \o <<>> = A
      BY <1>4, JoinNothing
    <3> QED  BY <1>4, <2>2, <3>1 DEF InCall
  <2>4. TcpOf(s, i) = v /\ Sent(s, i) = A
    BY <1>4, <1>9 DEF TcpOf, Sent
  <2> HIDE DEF c, A, U, H, S
  <2> QED  BY <1>4, <1>9, <2>3, <2>4, BesideSelf DEF During, Runs
<1>12. AskedOf(s, i) = t.asked /\ TcpOf(s, i).coming = left
  BY <1>4, <1>7, <1>9 DEF AskedOf, TcpOf, SameTcp
<1>13. After(s, i, x, H, S, left)
  <2> HIDE DEF U, H, S, t
  <2>1. AskedOf(s, i) \in Asked
    BY <1>5, <1>12
  <2>2. len \in 1 .. Len(U)
    BY DEF U, t
  <2>3. After(s, i, Received(s, i, SubSeq(U, 1, len), AskedOf(s, i)), H, S, From(U, len + 1))
    BY <1>4, <1>5, <1>11, <2>1, <2>2, ReceivedServes
  <2> QED  BY <1>12, <2>3 DEF units, left
<1> HIDE DEF x
<1>14. Sound(x)
  BY <1>4, <1>9, <1>10, <1>12, <1>13, AfterSound DEF ServerInv
<1> QED  BY <1>2, <1>14, BecomesSound

(* httpdContinue: a file has its next block, and the CGI that is done is   *)
(* told so.                                                                *)
Ahead(c) == [Said(c, "block", c.at) EXCEPT !.at = @ + 1]

LEMMA ReadIs ==
    ASSUME NEW s \in State, NEW i \in Slots
    PROVE  espFsRead(s, i) = Into(s, i, Ahead(s.conn[i]), s.handles, s.sockets, s.res)
PROOF
<1> DEFINE c == s.conn[i]
           d == Said(c, "block", c.at)
<1>1. c \in Slot /\ s = Into(s, i, c, s.handles, s.sockets, s.res)
  BY StateFields
<1>2. SendData(s, i, "block", c.at) = Into(s, i, d, s.handles, s.sockets, s.res)
  <2> HIDE DEF d, c
  <2>1. SendData(Into(s, i, c, s.handles, s.sockets, s.res), i, "block", c.at)
           = Into(s, i, Said(c, "block", c.at), s.handles, s.sockets, s.res)
    BY <1>1, SendIs
  <2> QED  BY <1>1, <2>1 DEF d
<1> HIDE DEF d
<1>3. [Into(s, i, d, s.handles, s.sockets, s.res) EXCEPT !.conn[i].at = @ + 1]
         = Into(s, i, [d EXCEPT !.at = @ + 1], s.handles, s.sockets, s.res)
  BY DEF Into, State
<1> QED  BY <1>2, <1>3 DEF espFsRead, Ahead, d

LEMMA AheadFields ==
    ASSUME NEW c \in Slot, c.buf = <<>>, NEW d, d = Ahead(c)
    PROVE  /\ d \in Slot /\ Ends(c, d) /\ d.cgi = c.cgi /\ d.data = c.data /\ d.len = c.len /\ d.n = c.n
           /\ d.flags = c.flags /\ d.recvHdl = c.recvHdl /\ d.req = c.req /\ d.peer = c.peer
           /\ d.up = c.up /\ d.buf \in Seq(Part) /\ Plain(d.buf, c.n)
PROOF
<1> DEFINE e == Said(c, "block", c.at)
           m == <<c.n, "block", c.at>>
<1>1. /\ e \in Slot /\ Ends(c, e) /\ e.cgi = c.cgi /\ e.data = c.data /\ e.len = c.len
      /\ e.n = c.n /\ e.flags = c.flags /\ e.recvHdl = c.recvHdl /\ e.peer = c.peer
      /\ e.up = c.up /\ <<m>> \in Seq(Part) /\ e.buf = c.buf \o <<m>>
  <2>1. "block" \in Kinds /\ c.at \in Nat
    BY DEF Kinds, Slot
  <2> QED  BY <2>1, SaidIs
<1>2. e.req = c.req
  BY DEF Said, Slot
<1>3. e.buf = <<m>>
  <2> DEFINE z == <<m>>
  <2>1. z \in Seq(Part) /\ e.buf = <<>> \o z
    BY <1>1
  <2> HIDE DEF z
  <2>2. <<>> \o z = z
    BY <2>1, JoinNothing
  <2> QED  BY <2>1, <2>2 DEF z
<1>4. Plain(<<m>>, c.n)
  BY DEF Plain
<1> HIDE DEF e, m
<1>5. e.at + 1 \in Nat
  BY <1>1 DEF Slot
<1>6. d = [e EXCEPT !.at = @ + 1]
  BY DEF Ahead, e
<1>7. /\ d \in Slot /\ d.buf = e.buf /\ d.cgi = e.cgi /\ d.data = e.data /\ d.len = e.len /\ d.n = e.n
      /\ d.flags = e.flags /\ d.recvHdl = e.recvHdl /\ d.req = e.req /\ d.peer = e.peer
      /\ d.up = e.up /\ d.backlog = e.backlog
  <2> DEFINE a == e.at + 1
  <2>1. a \in Nat /\ d = [e EXCEPT !.at = a] /\ e \in Slot
    BY <1>1, <1>5, <1>6
  <2> HIDE DEF a
  <2> QED  BY ONLY <2>1 DEF Slot
<1> QED  BY <1>1, <1>2, <1>3, <1>4, <1>7 DEF Ends

\* What a connection that is asked for more has, before a callback for slot i.
Continuing(s, i, H, S, u) ==
    /\ Runs(s, i, s, H, S) /\ s.conn[i].buf = <<>> /\ s.conn[i].backlog = <<>>
    /\ Ready(TcpOf(s, i)) /\ Proper(TcpOf(s, i), Sent(s, i))
    /\ Talking(s.conn[i].peer, s.conn[i], TcpOf(s, i), Sent(s, i), u)
    /\ "close" \notin s.conn[i].flags

LEMMA TalkingFile ==
    ASSUME NEW p, NEW c, NEW t, NEW A, NEW u, Talking(p, c, t, A, u)
    PROVE  /\ c.cgi \in {"none", "file", "socket"}
           /\ c.cgi = "file" => Reading(c, t, A, u) /\ u = <<>>
           /\ c.cgi = "socket" => Open(p, c, t, A, u)
PROOF
  BY DEF Talking, Resting, Reading, Open, Ending, Blank

LEMMA FileContinues ==
    ASSUME NEW s, NEW i \in Slots, NEW H, NEW S, NEW u, Continuing(s, i, H, S, u),
           s.conn[i].cgi = "file"
    PROVE  LET g == cgiEspFsHook(s, i)
           IN /\ u = <<>>
              /\ g.res = "MORE" => During(s, i, g, H, S, u)
              /\ g.res # "MORE" => Finishing(s, i, g, H, S)
PROOF
<1> DEFINE c == s.conn[i]
           p == c.peer
           t == TcpOf(s, i)
           A == Sent(s, i)
           h == s.handles
           q == s.sockets
           d == IF ReadLen(c) = "nothing" THEN c ELSE Ahead(c)
           rd == IF ReadLen(c) = "nothing" THEN s ELSE espFsRead(s, i)
           g == cgiEspFsHook(s, i)
           Goal == /\ u = <<>>
                   /\ g.res = "MORE" => During(s, i, g, H, S, u)
                   /\ g.res # "MORE" => Finishing(s, i, g, H, S)
<1> SUFFICES Goal
  OBVIOUS
<1>1. /\ Good(s) /\ c.up /\ Beside(s, i, s) /\ Uses(c, i, h, q, H, S) /\ c.buf = <<>>
      /\ Ready(t) /\ Proper(t, A) /\ Talking(p, c, t, A, u)
  BY DEF Continuing, Runs
<1>2. /\ s \in State /\ c \in Slot /\ h \in Heap /\ q \in Seq(Slots) /\ s.res \in Res
      /\ A \in Seq(Part)
  BY <1>1, GoodSlot, StateFields DEF Good, Sent
<1>3. Reading(c, t, A, u) /\ u = <<>> /\ c.cgi = "file"
  BY <1>1, TalkingFile
<1>4. Holds(c, H, h) /\ Lists(q, S)
  BY <1>1, <1>3 DEF Uses
<1>5. c.data # 0 /\ c.data \in h /\ h \ {c.data} = H
  BY <1>4, HeldIs
<1>6. rd = Into(s, i, d, h, q, s.res)
  <2>1. s = Into(s, i, c, h, q, s.res) /\ espFsRead(s, i) = Into(s, i, Ahead(c), h, q, s.res)
    BY <1>2, ReadIs, StateFields
  <2> QED  BY <2>1
<1>7. /\ d \in Slot /\ Ends(c, d) /\ d.cgi = c.cgi /\ d.data = c.data /\ d.len = c.len /\ d.n = c.n
      /\ d.flags = c.flags /\ d.recvHdl = c.recvHdl /\ d.req = c.req /\ d.peer = p
      /\ d.up = c.up /\ d.buf \in Seq(Part) /\ Plain(d.buf, c.n)
  <2>1. ReadLen(c) = "nothing" => d = c /\ Ends(c, c) /\ Plain(<<>>, c.n)
    BY DEF Ends, Plain
  <2>2. ReadLen(c) # "nothing" => d = Ahead(c)
    OBVIOUS
  <2> HIDE DEF d
  <2>3. CASE ReadLen(c) = "nothing"
    <3>1. c.buf \in Seq(Part) /\ Plain(c.buf, c.n)
      BY <1>1, <1>2, <2>1, <2>3 DEF Slot
    <3> QED  BY <1>2, <2>1, <2>3, <3>1
  <2>4. CASE ReadLen(c) # "nothing"
    BY <1>1, <1>2, <2>2, <2>4, AheadFields
  <2> QED  BY <2>3, <2>4
<1> HIDE DEF d, rd, g
<1>8. Proper(t, A \o d.buf) /\ Answering(d, t, A \o d.buf)
  <2>1. Answering(c, t, A)
    BY <1>3 DEF Reading
  <2>2. Proper(t, A \o d.buf) /\ Answering(c, t, A \o d.buf)
    <3> HIDE DEF c, t, A
    <3> QED  BY <1>1, <1>2, <1>7, <2>1, AnswerMore
  <2> QED  BY <1>7, <2>2 DEF Answering
<1>9. Reading(d, t, A \o d.buf, <<>>)
  BY <1>3, <1>7, <1>8 DEF Reading
<1>10. rd.conn[i] = d
  BY <1>2, <1>6, IntoIs
<1>11. CASE ReadLen(c) = "full"
  <2>1. g = Into(s, i, d, h, q, "MORE")
    <3>1. Result(Into(s, i, d, h, q, s.res), "MORE") = Into(s, i, d, h, q, "MORE")
      BY <1>2, ResultIs
    <3> QED  BY <1>1, <1>5, <1>6, <1>11, <3>1 DEF cgiEspFsHook, rd, g
  <2>2. "MORE" \in Res
    BY DEF Res
  <2>3. WrittenTo(s, i, s, d, h, q, "MORE", g)
    BY <1>1, <1>2, <1>7, <2>1, <2>2, IntoRuns
  <2>4. InCall(p, d, t, A, u)
    BY <1>1, <1>3, <1>8, <1>9 DEF InCall, Serving, Talking
  <2>5. Uses(d, i, h, q, H, S)
    BY <1>3, <1>4, <1>7 DEF Uses, Holds
  <2>6. During(s, i, g, H, S, u)
    BY <1>7, <2>3, <2>4, <2>5 DEF During, Runs, WrittenTo
  <2> QED  BY <1>3, <2>3, <2>6 DEF WrittenTo
<1>12. CASE ReadLen(c) # "full"
  <2>1. g = Into(s, i, d, H, q, "DONE")
    <3>1. d.data \in h /\ h \ {d.data} = H
      BY <1>5, <1>7
    <3>2. Release(Into(s, i, d, h, q, s.res), i) = Into(s, i, d, H, q, s.res)
      BY <1>2, <3>1, ReleaseIs
    <3>3. Result(Into(s, i, d, H, q, s.res), "DONE") = Into(s, i, d, H, q, "DONE")
      BY <1>2, ResultIs
    <3> QED  BY <1>1, <1>5, <1>6, <1>12, <3>2, <3>3 DEF cgiEspFsHook, espFsClose, rd, g
  <2>2. "DONE" \in Res /\ H \in Heap
    BY <1>2, <1>5 DEF Res, Heap
  <2>3. WrittenTo(s, i, s, d, H, q, "DONE", g)
    BY <1>1, <1>2, <1>7, <2>1, <2>2, IntoRuns
  <2>4. Finished(p, d, t, A)
    <3>1. d.flags = {"chunked", "body"} \/ d.flags = {"body"}
      BY <1>9 DEF Reading, Kept
    <3>2. ~IsSocket(t.asked) /\ ~d.recvHdl
      BY <1>9 DEF Reading
    <3> QED  BY <1>1, <1>8, <3>1, <3>2 DEF Finished, Ready
  <2>5. Finishing(s, i, g, H, S)
    BY <1>4, <1>7, <2>3, <2>4 DEF Finishing, WrittenTo
  <2> QED  BY <1>3, <2>3, <2>5 DEF WrittenTo
<1> QED  BY <1>11, <1>12

LEMMA ContinueServes ==
    ASSUME NEW s, NEW i \in Slots, NEW H, NEW S, NEW u, Continuing(s, i, H, S, u)
    PROVE  After(s, i, httpdContinue(s, i), H, S, u)
PROOF
<1> DEFINE c == s.conn[i]
           p == c.peer
           t == TcpOf(s, i)
           A == Sent(s, i)
           e == [s EXCEPT !.conn[i].buf = <<>>]
           g == Call(e, i, c.cgi)
           m == IF g.res = "MORE" THEN g ELSE httpdCgiIsDone(g, i)
<1>1. /\ Runs(s, i, s, H, S) /\ s \in State /\ c \in Slot /\ c.buf = <<>> /\ c.backlog = <<>>
      /\ Ready(t) /\ Proper(t, A) /\ Talking(p, c, t, A, u) /\ "close" \notin c.flags
      /\ A \in Seq(Part) /\ c.up
  BY GoodSlot, StateFields DEF Continuing, Runs, Good, Sent
<1>2. e = s
  <2>1. e = [s EXCEPT !.conn[i] = Emptied(c)]
    BY <1>1 DEF Emptied, State
  <2>2. Emptied(c) = c
    BY <1>1, EmptySame
  <2> HIDE DEF e
  <2> QED  BY <1>1, <2>1, <2>2 DEF State
<1>3. httpdContinue(s, i) = IF c.cgi = "none" THEN s ELSE httpdFlushSendBuffer(m, i)
  BY <1>1 DEF httpdContinue
<1> HIDE DEF e
<1>4. Serving(p, c, t, A, u)
  BY <1>1 DEF Serving
<1>5. During(s, i, s, H, S, u)
  <2>1. InCall(p, c, t, A, u)
    <3>1. A \o <<>> = A
      BY <1>1, JoinNothing
    <3> QED  BY <1>1, <1>4, <3>1 DEF InCall
  <2> QED  BY <1>1, <2>1 DEF During
<1>6. CASE c.cgi = "none"
  BY <1>1, <1>3, <1>4, <1>6 DEF After
<1>7. CASE c.cgi = "file"
  <2>1. g = cgiEspFsHook(s, i)
    BY <1>2, <1>7 DEF Call
  <2>2. /\ u = <<>>
        /\ g.res = "MORE" => During(s, i, g, H, S, u)
        /\ g.res # "MORE" => Finishing(s, i, g, H, S)
    BY <1>7, <2>1, FileContinues
  <2> HIDE DEF g
  <2>3. During(s, i, m, H, S, u)
    BY <2>2, DoneServes
  <2> HIDE DEF m
  <2>4. After(s, i, httpdFlushSendBuffer(m, i), H, S, u)
    BY <2>3, FlushAfter
  <2> QED  BY <1>3, <1>7, <2>4
<1>8. CASE c.cgi = "socket"
  <2>1. c.data # 0
    <3>1. Holds(c, H, s.handles)
      BY <1>1, <1>8 DEF Runs, Uses
    <3> QED  BY <3>1, HeldIs
  <2>2. g = Result(s, "MORE")
    BY <1>1, <1>2, <1>8, <2>1 DEF Call, cgiWebsocket
  <2>3. During(s, i, g, H, S, u) /\ g.res = "MORE"
    <3>1. "MORE" \in Res
      BY DEF Res
    <3>2. Wired(s, i, s, H, S, u)
      BY <1>5, <1>8 DEF Wired
    <3>3. Wired(s, i, Result(s, "MORE"), H, S, u) /\ Result(s, "MORE").res = "MORE"
      BY <3>1, <3>2, ResultWired
    <3> QED  BY <2>2, <3>3 DEF Wired
  <2> HIDE DEF g
  <2>4. After(s, i, httpdFlushSendBuffer(m, i), H, S, u)
    <3>1. m = g
      BY <2>3
    <3> HIDE DEF m
    <3> QED  BY <2>3, <3>1, FlushAfter
  <2> QED  BY <1>3, <1>8, <2>4
<1>9. c.cgi \in {"none", "file", "socket"}
  BY <1>1, TalkingFile
<1> QED  BY <1>6, <1>7, <1>8, <1>9

\* An action that only writes the slot of a connection, and what the SDK has of it.
WritesOne(i, d, p, v) ==
    /\ conn' = [conn EXCEPT ![i] = d] /\ tcp' = [tcp EXCEPT ![p] = v]
    /\ handles' = handles /\ sockets' = sockets /\ answer' = answer
LEMMA OnlyOne ==
    ASSUME ServerInv, FlowInv', NEW p \in Peers, tcp[p].state # "NONE", NEW i, i = SlotOf(p),
           NEW d, NEW v, WritesOne(i, d, p, v),
           d.peer = p, d.cgi = conn[i].cgi, d.data = conn[i].data, d.buf = <<>>,
           v.state # "NONE", Serving(p, d, v, answer[p], v.coming)
    PROVE  ServerInv'
PROOF
<1> DEFINE x == Snap([conn EXCEPT ![i] = d], [tcp EXCEPT ![p] = v], handles, sockets, answer)
           H == HeldBeside(Now, i)
           S == WiredBeside(Now, i)
<1>1. Now' = x
  BY DEF Now, Snap, WritesOne
<1>2. Good(x)
  <2>1. Good(Now')
    BY DEF FlowInv
  <2> HIDE DEF x
  <2> QED  BY <1>1, <2>1
<1>3. /\ i \in Slots /\ conn[i].peer = p /\ Uses(conn[i], i, handles, sockets, H, S)
      /\ (\A j \in Slots \ {i} : conn[j].peer # p) /\ Now \in State
  BY SoundSlot
<1>4. /\ x.conn = [conn EXCEPT ![i] = d] /\ x.tcp = [tcp EXCEPT ![p] = v] /\ x.handles = handles
      /\ x.sockets = sockets /\ x.answer = answer
  BY DEF Snap
<1> HIDE DEF x, H, S
<1>5. conn \in [Slots -> Slot] /\ tcp \in [Peers -> Tcp]
  BY <1>3, NowIs DEF State
<1>6. x.conn[i] = d /\ x.tcp[p] = v /\ x.answer[p] = answer[p]
  BY <1>3, <1>4, <1>5
<1>7. Aside(Now, i, p, x)
  BY <1>3, <1>4, <1>5, NowIs DEF Aside
<1>8. Uses(x.conn[i], i, x.handles, x.sockets, H, S)
  BY <1>3, <1>4, <1>6 DEF Uses, Holds
<1>9. TendedAt(x, i)
  BY <1>6 DEF TendedAt, TcpOf, Sent
<1>10. Sound(x)
  BY <1>2, <1>3, <1>6, <1>7, <1>8, <1>9, HttpdAssumption, PoolJoin DEF ServerInv, H, S
<1>11. Sound(Now')
  BY <1>1, <1>10
<1> QED  BY <1>11 DEF ServerInv

\* A report finds a connection that was written to.
LEMMA ReportFinds ==
    ASSUME NEW p, NEW c, NEW t, NEW A, NEW u, Serving(p, c, t, A, u), t.out # <<>>, NEW d, NEW v,
           AlikeSlot(c, d), AlikeTcp(t, v)
    PROVE  Proper(v, A) /\ Talking(p, d, v, A, u) /\ Serving(p, d, v, A, u)
PROOF
<1>1. Proper(t, A) /\ Talking(p, c, t, A, u)
  BY DEF Serving, Quiet, Calling, Gathering
<1>2. Proper(v, A) /\ Talking(p, d, v, A, u)
  BY <1>1, TalkingAlike
<1> QED  BY <1>2 DEF Serving

\* An answer that is all sent ends its connection.
LEMMA ClosingServes ==
    ASSUME NEW p, NEW c, NEW t, NEW A, NEW u, Proper(t, A), Talking(p, c, t, A, u), "close" \in c.flags,
           NEW v, v.state = "CLOSING", v.asked = t.asked, v.n = t.n, v.frames = t.frames
    PROVE  Serving(p, c, v, A, u)
PROOF
<1>1. Ending(p, c, t, A, u)
  BY DEF Talking, Resting, Reading, Open, Blank, Kept
<1>2. Ending(p, c, v, A, u)
  BY <1>1 DEF Ending, Answering
<1>3. Proper(v, A)
  BY DEF Proper
<1> QED  BY <1>2, <1>3 DEF Serving, Talking

LEMMA SentSound ==
    ASSUME ServerInv, NEW p \in Peers, httpdSentCb(p) PROVE ServerInv'
PROOF
<1> DEFINE i == SlotOf(p)
           t == tcp[p]
           c == conn[i]
           A == answer[p]
           u == [t EXCEPT !.got = @ \o t.out, !.out = <<>>]
           s == [Now EXCEPT !.tcp[p].got = @ \o tcp[p].out, !.tcp[p].out = <<>>]
           x == httpdContinue(s, i)
           H == HeldBeside(Now, i)
           S == WiredBeside(Now, i)
<1>1. t.state = "UP" /\ t.out # <<>> /\ Becomes(x)
  BY DEF httpdSentCb, CanReport
<1>2. FlowInv'
  BY SentGood DEF ServerInv, Sound, FlowInv
<1>3. /\ i \in Slots /\ c.peer = p /\ c.up /\ c \in Slot /\ t \in Tcp /\ A \in Seq(Part)
      /\ c.buf = <<>> /\ Good(Now) /\ GoodBut(Now, i) /\ Streams(c, t, A)
      /\ Serving(p, c, t, A, t.coming)
      /\ Uses(c, i, handles, sockets, H, S) /\ (\A j \in Slots \ {i} : conn[j].peer # p)
      /\ Now \in State
  <2> HIDE DEF i
  <2> QED  BY <1>1, SoundSlot DEF i
<1> HIDE DEF i
<1>4. conn \in [Slots -> Slot] /\ tcp \in [Peers -> Tcp] /\ answer \in [Peers -> Seq(Part)]
  BY <1>3, NowIs DEF State
<1>5. u \in Tcp /\ u.got = t.got \o t.out /\ u.out = <<>> /\ u.state = "UP" /\ AlikeTcp(t, u)
  <2>1. u \in Tcp /\ u.got = t.got \o t.out /\ u.out = <<>> /\ u.state = "UP"
    <3> HIDE DEF t
    <3> QED  BY <1>1, <1>3, ReportedIs
  <2>2. AlikeTcp(t, u)
    BY <1>3 DEF AlikeTcp, Tcp
  <2> QED  BY <2>1, <2>2
<1>6. /\ s.conn = conn /\ s.tcp = [tcp EXCEPT ![p] = u] /\ s.answer = answer
      /\ s.handles = handles /\ s.sockets = sockets
  BY DEF Now
<1>7. s = [Now EXCEPT !.tcp[p] = u]
  BY DEF Now
<1> HIDE DEF s, u
<1>8. s.conn[i] = c /\ s.tcp[p] = u /\ s.answer[p] = A /\ TcpOf(s, i) = u /\ Sent(s, i) = A
  BY <1>3, <1>4, <1>6 DEF TcpOf, Sent
<1>9. AlikeSlot(c, c)
  BY DEF AlikeSlot
<1>10. Proper(u, A) /\ Talking(p, c, u, A, t.coming) /\ u.coming = t.coming
  BY <1>1, <1>3, <1>5, <1>9, ReportFinds DEF AlikeTcp
<1>11. CASE c.backlog # <<>>
  <2> DEFINE d == [c EXCEPT !.backlog = Tail(@)]
             v == [u EXCEPT !.out = Head(c.backlog)]
  <2>1. x = [s EXCEPT !.tcp[p].out = Head(c.backlog), !.conn[i].backlog = Tail(@)]
    BY <1>3, <1>8, <1>11 DEF httpdContinue, SendBacklog
  <2>2. conn' = [conn EXCEPT ![i] = d] /\ tcp' = [tcp EXCEPT ![p] = v]
    <3> HIDE DEF x
    <3>1. x.conn = [s.conn EXCEPT ![i].backlog = Tail(@)] /\ x.tcp = [s.tcp EXCEPT ![p].out = Head(c.backlog)]
      <4>1. s = [Now EXCEPT !.tcp = s.tcp]
        BY <1>6, <1>7 DEF Now
      <4> QED  BY <2>1, <4>1 DEF Now
    <3>2. x.conn = [conn EXCEPT ![i] = d]
      BY <1>6, <3>1
    <3>3. x.tcp = [tcp EXCEPT ![p] = v]
      <4>1. x.tcp = [s.tcp EXCEPT ![p] = v]
        BY <1>8, <3>1
      <4> HIDE DEF v
      <4> QED  BY <1>4, <1>6, <4>1
    <3> QED  BY <1>1, <3>2, <3>3 DEF Becomes
  <2>3. handles' = handles /\ sockets' = sockets /\ answer' = answer
    <3> HIDE DEF x
    <3>1. x.handles = s.handles /\ x.sockets = s.sockets /\ x.answer = s.answer
      <4>1. s = [Now EXCEPT !.tcp = s.tcp]
        BY <1>6, <1>7 DEF Now
      <4> QED  BY <2>1, <4>1 DEF Now
    <3> QED  BY <1>1, <1>6, <3>1 DEF Becomes
  <2>4. /\ d.peer = p /\ d.cgi = c.cgi /\ d.data = c.data /\ d.buf = <<>> /\ AlikeSlot(c, d)
    <3> HIDE DEF c
    <3> QED  BY <1>3 DEF AlikeSlot, Slot
  <2>5. v.state # "NONE" /\ v.coming = t.coming /\ AlikeTcp(t, v)
    <3>1. AlikeTcp(u, v) /\ v.state = u.state
      <4> HIDE DEF c
      <4> QED  BY <1>5 DEF AlikeTcp, Tcp
    <3> HIDE DEF v
    <3>2. AlikeTcp(t, v)
      BY <1>5, <3>1, AlikeTcpIs
    <3> QED  BY <1>1, <3>2 DEF AlikeTcp
  <2> HIDE DEF d, v
  <2>6. Serving(p, d, v, A, t.coming)
    BY <1>1, <1>3, <2>4, <2>5, ReportFinds
  <2>7. i = SlotOf(p) /\ WritesOne(i, d, p, v)
    BY <2>2, <2>3 DEF WritesOne, i
  <2> HIDE DEF x
  <2> QED  BY <1>1, <1>2, <2>4, <2>5, <2>6, <2>7, OnlyOne
<1>12. CASE c.backlog = <<>> /\ "close" \in c.flags
  <2> DEFINE v == [u EXCEPT !.state = "CLOSING"]
  <2>1. x = [s EXCEPT !.tcp[p].state = "CLOSING"]
    BY <1>3, <1>8, <1>12 DEF httpdContinue
  <2>2. conn' = conn /\ tcp' = [tcp EXCEPT ![p] = v] /\ handles' = handles /\ sockets' = sockets
        /\ answer' = answer
    <3> HIDE DEF x
    <3>1. x.conn = s.conn /\ x.tcp = [s.tcp EXCEPT ![p].state = "CLOSING"]
          /\ x.handles = s.handles /\ x.sockets = s.sockets /\ x.answer = s.answer
      <4>1. s = [Now EXCEPT !.tcp = s.tcp]
        BY <1>6, <1>7 DEF Now
      <4> QED  BY <2>1, <4>1 DEF Now
    <3>2. x.tcp = [tcp EXCEPT ![p] = v]
      <4>1. x.tcp = [s.tcp EXCEPT ![p] = v]
        BY <1>8, <3>1
      <4> HIDE DEF v
      <4> QED  BY <1>4, <1>6, <4>1
    <3> QED  BY <1>1, <1>6, <3>1, <3>2 DEF Becomes
  <2>3. conn' = [conn EXCEPT ![i] = c]
    BY <1>3, <1>4, <2>2
  <2>4. /\ v.state = "CLOSING" /\ v.coming = t.coming /\ v.asked = u.asked /\ v.n = u.n
        /\ v.frames = u.frames
    <3>1. /\ v.state = "CLOSING" /\ v.coming = u.coming /\ v.asked = u.asked /\ v.n = u.n
          /\ v.frames = u.frames
      BY <1>5 DEF Tcp
    <3> QED  BY <1>10, <3>1
  <2> HIDE DEF v
  <2>5. Serving(p, c, v, A, t.coming)
    BY <1>10, <1>12, <2>4, ClosingServes
  <2>6. i = SlotOf(p) /\ v.state # "NONE" /\ WritesOne(i, c, p, v)
    BY <2>2, <2>3, <2>4 DEF WritesOne, i
  <2> HIDE DEF x
  <2> QED  BY <1>1, <1>2, <1>3, <2>4, <2>5, <2>6, OnlyOne
<1>13. CASE c.backlog = <<>> /\ "close" \notin c.flags
  <2>1. s = Put(Now, i, c, u, A)
    <3>1. Now.conn[i] = c /\ Now.answer[p] = A
      BY NowIs
    <3> HIDE DEF c, A
    <3>2. Put(Now, i, c, u, A) = WithTcp(Now, p, u)
      BY <1>3, <3>1, PutTcp, SMTT(40)
    <3> QED  BY <1>7, <3>2 DEF WithTcp
  <2>2. Streams(c, u, A)
    <3>1. u.got \o u.out = t.got \o t.out
      <4>1. t.got \o t.out \in Seq(Part)
        BY <1>3, ConcatProperties DEF Tcp
      <4> QED  BY <1>5, <4>1, JoinNothing
    <3> QED  BY <1>3, <1>13, <3>1 DEF Streams
  <2>3. Good(s)
    <3>1. Now.conn[i] = c /\ u.state # "NONE"
      BY <1>5, NowIs
    <3> HIDE DEF c, A
    <3> QED  BY <1>3, <1>5, <2>1, <2>2, <3>1, PutIs
  <2>4. Continuing(s, i, H, S, t.coming)
    <3>1. Runs(s, i, s, H, S)
      BY <1>3, <1>6, <1>8, <2>3, BesideSelf DEF Runs
    <3>2. Ready(u)
      BY <1>5 DEF Ready
    <3> QED  BY <1>3, <1>8, <1>10, <1>13, <3>1, <3>2 DEF Continuing
  <2>5. After(s, i, x, H, S, t.coming)
    BY <1>3, <2>4, ContinueServes
  <2>6. Aside(Now, i, p, s)
    BY <1>3, <1>4, <1>6, NowIs DEF Aside
  <2>7. TcpOf(s, i).coming = t.coming /\ s.conn[i].peer = p
    BY <1>3, <1>8, <1>10
  <2> HIDE DEF x
  <2>8. Sound(x)
    BY <1>3, <2>5, <2>6, <2>7, AfterSound DEF ServerInv
  <2> QED  BY <1>1, <2>8, BecomesSound
<1> QED  BY <1>11, <1>12, <1>13

(* The clients ask.                                                        *)
\* What a client got is in what was written to it.
LEMMA GotIs ==
    ASSUME NEW c \in Slot, NEW t \in Tcp, NEW A \in Seq(Part), Streams(c, t, A), NEW e,
           e \in ToSet(t.got)
    PROVE  \E k \in 1 .. Len(A) : A[k] = e
PROOF
<1> DEFINE g == t.got
           f == t.out
           w == FlattenSeq(c.backlog)
<1>1. g \in Seq(Part) /\ f \in Seq(Part) /\ w \in Seq(Part)
  BY FlattenType DEF Slot, Tcp
<1>2. (g \o f) \o w = A
  BY DEF Streams
<1>3. PICK k \in 1 .. Len(g) : g[k] = e
  BY <1>1 DEF ToSet
<1> HIDE DEF g, f, w
<1>4. g \o f \in Seq(Part) /\ Len(g \o f) = Len(g) + Len(f) /\ (g \o f)[k] = g[k]
      /\ Len(f) \in Nat /\ Len(g) \in Nat
  BY <1>1, CatIs
<1> DEFINE m == g \o f
<1>5. k \in 1 .. Len(m)
  BY <1>4
<1> HIDE DEF m
<1>6. (m \o w)[k] = m[k] /\ Len(m \o w) = Len(m) + Len(w) /\ Len(w) \in Nat
  BY <1>1, <1>4, <1>5, CatIs DEF m
<1>7. A[k] = e /\ k \in 1 .. Len(A)
  BY <1>2, <1>3, <1>4, <1>5, <1>6 DEF m
<1> QED  BY <1>7

LEMMA AskRests ==
    ASSUME NEW p, NEW c \in Slot, NEW t \in Tcp, NEW A \in Seq(Part), NEW u, Serving(p, c, t, A, u),
           t.n = 0 \/ \E k \in 1 .. Len(A) : A[k] = <<t.n, "end", 0>>
    PROVE  Resting(c, t, A, u)
PROOF
<1>1. c.n \in Nat /\ t.n \in Nat
  BY DEF Slot, Tcp
<1>2. CASE t.n = 0
  BY <1>1, <1>2 DEF Serving, Quiet, Talking, Calling, Gathering, Reading, Open, Ending, Answering
<1>3. ASSUME NEW k \in 1 .. Len(A), A[k] = <<t.n, "end", 0>> PROVE Resting(c, t, A, u)
  <2>1. A[k][1] = t.n /\ A[k][2] = "end"
    BY <1>3
  <2>2. ~(UpTo(A, c.n) /\ t.n = c.n + 1)
    BY <1>1, <2>1 DEF UpTo
  <2>3. ~(Before(A, c.n) /\ t.n = c.n)
    BY <1>1, <2>1 DEF Before
  <2>4. ~Answering(c, t, A)
    BY <2>1 DEF Answering, NoEnd
  <2> QED  BY <2>2, <2>3, <2>4 DEF Serving, Quiet, Talking, Calling, Gathering, Reading, Open, Ending
<1> QED  BY <1>2, <1>3

LEMMA AskCalls ==
    ASSUME NEW p \in Peers, NEW c \in Slot, NEW t \in Tcp, NEW A \in Seq(Part), NEW u,
           Proper(t, A), Resting(c, t, A, u), c.buf = <<>>, t.out = <<>>, NEW v, v.state = "UP",
           v.asked \in Requests[p], v.n = t.n + 1, v.out = <<>>,
           v.coming = <<"headers">> \o Bodies(v.asked.body)
    PROVE  Serving(p, c, v, A, v.coming)
PROOF
<1>1. c.n \in Nat /\ t.n = c.n /\ UpTo(A, c.n) /\ Blank(c)
  BY DEF Resting, Slot
<1>2. Calling(p, c, v, A, v.coming)
  BY <1>1 DEF Calling
<1>3. Stored(A, v.n, v.asked.body)
  <2>1. \A k \in 1 .. Len(A) : A[k][1] # c.n + 1
    BY <1>1, PartNumber DEF UpTo
  <2> QED  BY <1>1, <2>1 DEF Stored
<1> QED  BY <1>2, <1>3 DEF Serving, Proper, Quiet

LEMMA AskSound ==
    ASSUME ServerInv, NEW p \in Peers, Ask(p) PROVE ServerInv'
PROOF
<1> DEFINE i == SlotOf(p)
           t == tcp[p]
           c == conn[i]
           A == answer[p]
<1>1. PICK req \in Requests[p] :
         tcp' = [tcp EXCEPT ![p].asked = req, ![p].n = @ + 1,
                            ![p].coming = <<"headers">> \o [k \in 1 .. req.body |-> "body"]]
  BY DEF Ask
<1> DEFINE w == <<"headers">> \o Bodies(req.body)
           v == [t EXCEPT !.asked = req, !.n = @ + 1, !.coming = w]
<1>2. /\ t.state = "UP" /\ Answered(p) /\ t.out = <<>>
      /\ conn' = conn /\ handles' = handles /\ sockets' = sockets /\ answer' = answer
  BY DEF Ask
<1>3. FlowInv'
  BY AskGood DEF ServerInv, Sound, FlowInv
<1>4. /\ i \in Slots /\ c.peer = p /\ c \in Slot /\ t \in Tcp /\ A \in Seq(Part)
      /\ c.buf = <<>> /\ Streams(c, t, A) /\ Serving(p, c, t, A, t.coming) /\ Now \in State
  <2> HIDE DEF i
  <2> QED  BY <1>2, SoundSlot DEF i
<1>5. conn \in [Slots -> Slot] /\ tcp \in [Peers -> Tcp]
  BY <1>4, NowIs DEF State
<1>6. tcp' = [tcp EXCEPT ![p] = v]
  <2>1. w = <<"headers">> \o [k \in 1 .. req.body |-> "body"]
    BY DEF Bodies
  <2> HIDE DEF w
  <2> QED  BY <1>1, <1>5, <2>1
<1> HIDE DEF i, w
<1>7. /\ v.state = "UP" /\ v.asked = req /\ v.n = t.n + 1 /\ v.out = <<>> /\ v.coming = w
  <2> HIDE DEF t
  <2> QED  BY <1>2, <1>4 DEF Tcp
<1>8. t.n = 0 \/ \E k \in 1 .. Len(A) : A[k] = <<t.n, "end", 0>>
  <2>1. CASE <<t.n, "end", 0>> \in ToSet(t.got)
    <3> DEFINE e == <<t.n, "end", 0>>
    <3>1. /\ e \in ToSet(t.got) /\ c \in Slot /\ t \in Tcp /\ A \in Seq(Part)
          /\ Streams(c, t, A)
      BY <1>4, <2>1
    <3> HIDE DEF e, c, t, A
    <3>2. \E k \in 1 .. Len(A) : A[k] = e
      BY ONLY <3>1, GotIs, SMTT(40)
    <3> QED  BY <3>2 DEF e
  <2> QED  BY <1>2, <2>1 DEF Answered
<1> HIDE DEF v
<1>9. Serving(p, c, v, A, v.coming)
  <2> HIDE DEF c, t, A
  <2>1. Resting(c, t, A, t.coming)
    BY <1>4, <1>8, AskRests
  <2>2. Proper(t, A)
    BY <1>4 DEF Serving
  <2>3. v.asked \in Requests[p] /\ v.coming = <<"headers">> \o Bodies(v.asked.body)
    BY <1>7 DEF w
  <2> QED  BY <1>2, <1>4, <1>7, <2>1, <2>2, <2>3, AskCalls
<1>10. conn' = [conn EXCEPT ![i] = c]
  BY <1>2, <1>4, <1>5
<1>11. i = SlotOf(p) /\ v.state # "NONE" /\ WritesOne(i, c, p, v)
  BY <1>2, <1>6, <1>7, <1>10 DEF WritesOne, i
<1> QED  BY <1>2, <1>3, <1>4, <1>9, <1>11, OnlyOne

(* A frame is sent to a websocket that is open.                            *)
LEMMA FrameOpen ==
    ASSUME NEW p \in Peers, NEW c \in Slot, NEW t \in Tcp, NEW A \in Seq(Part), NEW u,
           Serving(p, c, t, A, u), IsSocket(t.asked), t.frames < MaxFrames[p],
           \E k \in 1 .. Len(A) : A[k] = <<t.n, "head", 0>>
    PROVE  Open(p, c, t, A, u)
PROOF
<1>1. c.n \in Nat /\ t.n \in Nat /\ t.frames \in Nat /\ MaxFrames[p] \in Nat
  BY HttpdAssumption DEF Slot, Tcp
<1>2. PICK k \in 1 .. Len(A) : A[k] = <<t.n, "head", 0>>
  OBVIOUS
<1>3. A[k][1] = t.n
  BY <1>2
<1>4. ~(UpTo(A, c.n) /\ t.n = c.n + 1)
  BY <1>1, <1>3 DEF UpTo
<1>5. ~(Before(A, c.n) /\ t.n = c.n)
  BY <1>1, <1>3 DEF Before
<1>6. ~(t.frames >= MaxFrames[p])
  BY <1>1
<1> QED  BY <1>4, <1>5, <1>6 DEF Serving, Quiet, Talking, Calling, Gathering, Resting, Reading, Ending

LEMMA FramesMore ==
    ASSUME NEW p \in Peers, NEW t \in Tcp, FramesTo(p, t, t.coming), "close" \notin ToSet(t.coming),
           NEW frame \in {"ping", "close"}, NEW v, v.coming = Append(t.coming, frame),
           frame = "close" => v.frames = MaxFrames[p]
    PROVE  FramesTo(p, v, v.coming)
PROOF
<1> DEFINE U == t.coming
           w == Append(U, frame)
<1>1. U \in Seq(Unit) /\ frame \in Unit /\ MaxFrames[p] \in Nat
  BY HttpdAssumption DEF Tcp, Unit
<1>2. Len(w) = Len(U) + 1 /\ Len(U) \in Nat /\ w[Len(U) + 1] = frame
      /\ \A k \in 1 .. Len(U) : w[k] = U[k]
  <2> HIDE DEF U
  <2> QED  BY <1>1
<1>3. \A k \in 1 .. Len(U) : U[k] = "ping"
  BY <1>1 DEF FramesTo, ToSet
<1> HIDE DEF w
<1>4. ASSUME NEW k \in 1 .. Len(w)
      PROVE  w[k] = "ping" \/ (w[k] = "close" /\ k = Len(w) /\ v.frames >= MaxFrames[p])
  <2>1. CASE k \in 1 .. Len(U)
    BY <1>2, <1>3, <2>1
  <2>2. CASE k = Len(w)
    BY <1>1, <1>2, <2>2
  <2> QED  BY <1>2, <2>1, <2>2
<1>5. v.coming = w
  BY DEF w
<1> QED  BY <1>4, <1>5 DEF FramesTo

LEMMA SendFrameSound ==
    ASSUME ServerInv, NEW p \in Peers, SendFrame(p) PROVE ServerInv'
PROOF
<1> DEFINE i == SlotOf(p)
           t == tcp[p]
           c == conn[i]
           A == answer[p]
<1>1. PICK frame \in {"ping", "close"} :
         tcp' = [tcp EXCEPT ![p].coming = Append(@, frame), ![p].frames =
                     IF frame = "close" THEN MaxFrames[p] ELSE @ + 1]
  BY DEF SendFrame
<1> DEFINE m == IF frame = "close" THEN MaxFrames[p] ELSE t.frames + 1
           v == [t EXCEPT !.coming = Append(t.coming, frame), !.frames = m]
<1>2. /\ t.state = "UP" /\ IsSocket(t.asked) /\ t.frames < MaxFrames[p]
      /\ <<t.n, "head", 0>> \in ToSet(t.got) /\ "close" \notin ToSet(t.coming)
      /\ conn' = conn /\ handles' = handles /\ sockets' = sockets /\ answer' = answer
  BY DEF SendFrame
<1>3. FlowInv'
  BY SendFrameGood DEF ServerInv, Sound, FlowInv
<1>4. /\ i \in Slots /\ c.peer = p /\ c \in Slot /\ t \in Tcp /\ A \in Seq(Part)
      /\ c.buf = <<>> /\ Streams(c, t, A) /\ Serving(p, c, t, A, t.coming) /\ Now \in State
  <2> HIDE DEF i
  <2> QED  BY <1>2, SoundSlot DEF i
<1>5. conn \in [Slots -> Slot] /\ tcp \in [Peers -> Tcp]
  BY <1>4, NowIs DEF State
<1>6. tcp' = [tcp EXCEPT ![p] = v]
  BY <1>1, <1>5
<1> HIDE DEF i
<1>7. /\ v.state = "UP" /\ v.asked = t.asked /\ v.n = t.n /\ v.coming = Append(t.coming, frame)
      /\ v.frames = m
  <2> HIDE DEF t, m
  <2> QED  BY <1>2, <1>4 DEF Tcp
<1>8. \E k \in 1 .. Len(A) : A[k] = <<t.n, "head", 0>>
  <2> DEFINE e == <<t.n, "head", 0>>
  <2>1. e \in ToSet(t.got)
    BY <1>2
  <2> HIDE DEF e, c, t, A
  <2>2. \E k \in 1 .. Len(A) : A[k] = e
    BY <1>4, <2>1, GotIs
  <2> QED  BY <2>2 DEF e
<1> HIDE DEF v
<1>9. Serving(p, c, v, A, v.coming)
  <2>1. frame = "close" => v.frames = MaxFrames[p]
    BY <1>7
  <2> HIDE DEF c, t, A, m
  <2>2. Open(p, c, t, A, t.coming) /\ Proper(t, A)
    BY <1>2, <1>4, <1>8, FrameOpen DEF Serving
  <2>3. FramesTo(p, v, v.coming)
    BY <1>2, <1>4, <1>7, <2>1, <2>2, FramesMore DEF Open
  <2>4. Open(p, c, v, A, v.coming)
    BY <1>7, <2>2, <2>3 DEF Open, Answering
  <2>5. Proper(v, A)
    BY <1>7, <2>2 DEF Proper
  <2> QED  BY <2>4, <2>5, OpenServing
<1>10. conn' = [conn EXCEPT ![i] = c]
  BY <1>2, <1>4, <1>5
<1>11. i = SlotOf(p) /\ v.state # "NONE" /\ WritesOne(i, c, p, v)
  BY <1>2, <1>6, <1>7, <1>10 DEF WritesOne, i
<1> QED  BY <1>2, <1>3, <1>4, <1>9, <1>11, OnlyOne

(* Connections come and go.                                                *)
LEMMA FreshSlot ==
    ASSUME NEW p \in Peers, NEW d, d = [FreeSlot EXCEPT !.peer = p, !.up = TRUE], NEW t,
           t = [NoTcp EXCEPT !.state = "UP"]
    PROVE  /\ d.peer = p /\ d.up /\ d.buf = <<>> /\ d.cgi = "none" /\ t.state = "UP"
           /\ Serving(p, d, t, <<>>, t.coming)
PROOF
<1>1. /\ d.peer = p /\ d.up /\ d.buf = <<>> /\ d.cgi = "none" /\ d.len = -1 /\ d.flags = {}
      /\ d.received = 0 /\ d.buffered = 0 /\ ~d.recvHdl /\ d.n = 0
  BY DEF FreeSlot
<1>2. t.state = "UP" /\ t.coming = <<>> /\ t.n = 0 /\ t.asked.url = "none"
  BY DEF NoTcp, NoRequest
<1>3. Len(<<>>) = 0 /\ 1 .. Len(<<>>) = {}
  OBVIOUS
<1>4. Resting(d, t, <<>>, t.coming)
  BY <1>1, <1>2, <1>3 DEF Resting, Blank, UpTo, IsSocket
<1>5. Proper(t, <<>>)
  <2>1. 1 .. Len(<<>>) - 1 = {}
    BY <1>3
  <2> QED  BY <1>3, <2>1 DEF Proper, Whole, Stored
<1> QED  BY <1>1, <1>2, <1>4, <1>5 DEF Serving, Talking

\* An action that writes a slot for client p, and what was to be sent to it.
WritesBoth(i, d, p, v) ==
    /\ conn' = [conn EXCEPT ![i] = d] /\ tcp' = [tcp EXCEPT ![p] = v]
    /\ answer' = [answer EXCEPT ![p] = <<>>]
LEMMA OnlyBoth ==
    ASSUME ServerInv, FlowInv', NEW p \in Peers, NEW i \in Slots, \A j \in Slots \ {i} : conn[j].peer # p,
           NEW d, NEW v, WritesBoth(i, d, p, v), NEW H, H = HeldBeside(Now, i),
           NEW S, S = WiredBeside(Now, i), handles' = H, Lists(sockets', S), d.cgi = "none",
           d.up => d.buf = <<>> /\ d.peer = p /\ Serving(p, d, v, <<>>, v.coming)
    PROVE  ServerInv'
PROOF
<1> DEFINE x == Now'
<1>1. /\ x.conn = conn' /\ x.tcp = tcp' /\ x.handles = handles' /\ x.sockets = sockets'
      /\ x.answer = answer'
  BY DEF Now
<1>2. Good(x)
  BY DEF FlowInv
<1>3. Now \in State
  BY DEF ServerInv, Sound, Good
<1>4. conn \in [Slots -> Slot] /\ tcp \in [Peers -> Tcp] /\ answer \in [Peers -> Seq(Part)]
  BY <1>3, NowIs DEF State
<1> HIDE DEF x
<1>5. x.conn[i] = d /\ x.tcp[p] = v /\ x.answer[p] = <<>>
  BY <1>1, <1>4 DEF WritesBoth
<1>6. Aside(Now, i, p, x)
  BY <1>1, <1>4, NowIs DEF Aside, WritesBoth
<1>7. Uses(x.conn[i], i, x.handles, x.sockets, H, S)
  BY <1>1, <1>5 DEF Uses
<1>8. x.conn[i].up => TendedAt(x, i)
  BY <1>5 DEF TendedAt, TcpOf, Sent
<1>9. Sound(x)
  BY <1>2, <1>5, <1>6, <1>7, <1>8, PoolJoin DEF ServerInv
<1>10. Sound(Now')
  BY <1>9 DEF x
<1> QED  BY <1>10 DEF ServerInv

LEMMA ConnectSound ==
    ASSUME ServerInv, NEW p \in Peers, httpdConnectCb(p) PROVE ServerInv'
PROOF
<1> DEFINE Free == Find(NoPeer)
           i == CHOOSE j \in Free : \A k \in Free : j <= k
           d == [FreeSlot EXCEPT !.peer = p, !.up = TRUE]
           t == [NoTcp EXCEPT !.state = "UP"]
           H == HeldBeside(Now, i)
           S == WiredBeside(Now, i)
<1>1. /\ tcp[p].state = "NONE" /\ Free # {} /\ conn' = [conn EXCEPT ![i] = d]
      /\ tcp' = [tcp EXCEPT ![p] = t] /\ answer' = [answer EXCEPT ![p] = <<>>]
      /\ handles' = handles /\ sockets' = sockets
  BY DEF httpdConnectCb
<1>2. i \in Slots /\ conn[i].peer = NoPeer
  <2>1. Free \subseteq Slots /\ Free \in SUBSET Nat
    BY DEF Find, Slots
  <2>2. \E j \in Free : \A k \in Free : j <= k
    <3> HIDE DEF Free
    <3> QED  BY <1>1, <2>1, LeastOf
  <2>3. i \in Free
    <3> HIDE DEF Free
    <3> QED  BY <2>2
  <2> HIDE DEF i
  <2> QED  BY <2>3 DEF Find
<1>3. d.peer = p /\ d.up /\ d.buf = <<>> /\ d.cgi = "none" /\ Serving(p, d, t, <<>>, t.coming)
  BY FreshSlot, ZenonT(60)
<1> HIDE DEF i, d, t
<1>4. FlowInv'
  BY ConnectGood DEF ServerInv, Sound, FlowInv
<1>5. handles' = H /\ Lists(sockets', S)
  <2>1. conn[i].cgi = "none"
    BY <1>2, NowIs DEF ServerInv, Sound, Pooled
  <2>2. Uses(Now.conn[i], i, Now.handles, Now.sockets, H, S)
    BY <1>2, PoolSplit DEF ServerInv
  <2> QED  BY <1>1, <2>1, <2>2, NowIs DEF Uses
<1>6. \A j \in Slots \ {i} : conn[j].peer # p
  <2>1. Linked(Now)
    BY DEF ServerInv, Sound, Good
  <2> QED  BY <1>1, <2>1, NowIs DEF Linked
<1>7. WritesBoth(i, d, p, t)
  BY <1>1 DEF WritesBoth
<1> QED  BY <1>2, <1>3, <1>4, <1>5, <1>6, <1>7, OnlyBoth

\* The CGI of slot i is told that its connection is gone.
Cleaned(s, i, x, H, S) ==
    /\ \A j \in Slots \ {i} : x.conn[j] = s.conn[j]
    /\ x.tcp = s.tcp /\ x.answer = s.answer /\ x.handles = H /\ Lists(x.sockets, S) /\ x \in State
LEMMA IntoCleaned ==
    ASSUME NEW s \in State, NEW i \in Slots, NEW d \in Slot, NEW H \in Heap, NEW S, NEW q, Lists(q, S),
           NEW r \in Res, NEW x, x = Into(s, i, d, H, q, r)
    PROVE  Cleaned(s, i, x, H, S)
PROOF
<1>1. q \in Seq(Slots)
  BY DEF Lists
<1>2. x \in State /\ x.tcp = s.tcp /\ x.answer = s.answer /\ x.handles = H /\ x.sockets = q
  BY <1>1, IntoIs, IntoType
<1>3. \A j \in Slots \ {i} : x.conn[j] = s.conn[j]
  BY IntoElsewhere
<1> QED  BY <1>2, <1>3 DEF Cleaned

LEMMA CleanUpCleans ==
    ASSUME NEW s \in State, NEW i \in Slots, ~s.conn[i].up, NEW H \in Heap, NEW S, i \notin S,
           Uses(s.conn[i], i, s.handles, s.sockets, H, S)
    PROVE  Cleaned(s, i, CleanUp(s, i), H, S)
PROOF
<1> DEFINE c == s.conn[i]
           h == s.handles
           q == s.sockets
           x == CleanUp(s, i)
<1>1. c \in Slot /\ s.res \in Res /\ s = Into(s, i, c, h, q, s.res) /\ "DONE" \in Res
  BY StateFields DEF Res
<1>2. CASE c.cgi = "none"
  <2>1. x = s /\ h = H /\ Lists(q, S)
    BY <1>2 DEF CleanUp, Uses
  <2> QED  BY <2>1 DEF Cleaned
<1>3. ASSUME c.cgi # "none" PROVE c.data # 0 /\ c.data \in h /\ h \ {c.data} = H
  <2>1. Holds(c, H, h)
    BY <1>3 DEF Uses
  <2> QED  BY <2>1, HeldIs
<1>4. CASE c.cgi \in {"file", "upload"}
  <2>1. Lists(q, S) /\ c.cgi # "none" /\ c.data # 0 /\ c.data \in h /\ h \ {c.data} = H
    BY <1>3, <1>4 DEF Uses
  <2>2. Release(s, i) = Into(s, i, c, H, q, s.res)
    BY <1>1, <2>1, ReleaseIs
  <2>3. Result(Into(s, i, c, H, q, s.res), "DONE") = Into(s, i, c, H, q, "DONE")
    BY ResultIs
  <2>4. x = Result(Release(s, i), "DONE")
    BY <1>4, <2>1 DEF CleanUp, Call, cgiEspFsHook, espFsClose, cgiUploadFirmware
  <2>5. x = Into(s, i, c, H, q, "DONE")
    BY <2>2, <2>3, <2>4
  <2> HIDE DEF x
  <2> QED  BY <1>1, <2>1, <2>5, IntoCleaned DEF x
<1>5. CASE c.cgi = "socket"
  <2> DEFINE w == RemoveFirst(q, i)
             d == FreedSlot(c)
  <2>1. Lists(q, S \cup {i}) /\ c.data # 0 /\ c.data \in h /\ h \ {c.data} = H
    BY <1>3, <1>5 DEF Uses
  <2>2. websockFree(s, i) = Into(s, i, d, H, w, s.res)
    BY <2>1, FreeIs
  <2>3. d \in Slot
    BY <1>1, FreedFields
  <2>4. Lists(w, S)
    BY <2>1, ListsRemove
  <2> HIDE DEF w, d
  <2>5. Result(Into(s, i, d, H, w, s.res), "DONE") = Into(s, i, d, H, w, "DONE")
    BY ResultIs
  <2>6. x = Result(websockFree(s, i), "DONE")
    BY <1>5, <2>1 DEF CleanUp, Call, cgiWebsocket
  <2>7. x = Into(s, i, d, H, w, "DONE")
    BY <2>2, <2>5, <2>6
  <2> HIDE DEF x
  <2> QED  BY <1>1, <2>3, <2>4, <2>7, IntoCleaned DEF x
<1> QED  BY <1>2, <1>4, <1>5 DEF Uses

LEMMA DisconSound ==
    ASSUME ServerInv, NEW p \in Peers, httpdDisconCb(p) PROVE ServerInv'
PROOF
<1> DEFINE i == SlotOf(p)
           s == Discon(Now, i, p)
           x == CleanUp(s, i)
           y == httpdRetireConn(x, i)
           H == HeldBeside(Now, i)
           S == WiredBeside(Now, i)
           c == conn[i]
<1>1. tcp[p].state # "NONE" /\ Becomes(y)
  BY DEF httpdDisconCb, Discon
<1>2. FlowInv'
  BY DisconGood DEF ServerInv, Sound, FlowInv
<1>3. /\ i \in Slots /\ c.peer = p /\ c \in Slot /\ Uses(c, i, handles, sockets, H, S)
      /\ H \in Heap /\ i \notin S /\ (\A j \in Slots \ {i} : conn[j].peer # p) /\ Now \in State
  <2> HIDE DEF i
  <2> QED  BY <1>1, SoundSlot DEF i
<1> HIDE DEF i
<1>4. conn \in [Slots -> Slot] /\ tcp \in [Peers -> Tcp] /\ answer \in [Peers -> Seq(Part)]
  BY <1>3, NowIs DEF State
<1>5. /\ s.conn = [conn EXCEPT ![i].up = FALSE] /\ s.tcp = [tcp EXCEPT ![p] = NoTcp]
      /\ s.answer = [answer EXCEPT ![p] = <<>>] /\ s.handles = handles /\ s.sockets = sockets
  BY DEF Discon, Now
<1>6. s \in State
  BY <1>3, EndedIs
<1> HIDE DEF s
<1>7. s.conn[i] = [c EXCEPT !.up = FALSE] /\ \A j \in Slots \ {i} : s.conn[j] = conn[j]
  BY <1>3, <1>4, <1>5
<1>8. ~s.conn[i].up /\ s.conn[i].cgi = c.cgi /\ s.conn[i].data = c.data
  <2> HIDE DEF c
  <2> QED  BY <1>3, <1>7 DEF Slot
<1>9. Uses(s.conn[i], i, s.handles, s.sockets, H, S)
  BY <1>3, <1>5, <1>8 DEF Uses, Holds
<1>10. Cleaned(s, i, x, H, S)
  <2> HIDE DEF H, S
  <2> QED  BY <1>3, <1>6, <1>8, <1>9, CleanUpCleans
<1> HIDE DEF x
<1>11. /\ x.tcp = s.tcp /\ x.answer = s.answer /\ x.handles = H /\ Lists(x.sockets, S)
       /\ x.conn \in [Slots -> Slot] /\ x \in State /\ \A j \in Slots \ {i} : x.conn[j] = s.conn[j]
  BY <1>10 DEF Cleaned, State
<1>12. /\ y.conn = [x.conn EXCEPT ![i] = FreeSlot] /\ y.tcp = x.tcp /\ y.answer = x.answer
       /\ y.handles = x.handles /\ y.sockets = x.sockets
  BY <1>11 DEF httpdRetireConn, State
<1> HIDE DEF y
<1>13. y.conn = [conn EXCEPT ![i] = FreeSlot]
  <2>1. \A j \in Slots \ {i} : x.conn[j] = conn[j]
    BY <1>7, <1>11
  <2> HIDE DEF c
  <2> QED  BY <1>4, <1>11, <1>12, <2>1
<1>14. WritesBoth(i, FreeSlot, p, NoTcp) /\ handles' = H /\ Lists(sockets', S)
  BY <1>1, <1>5, <1>11, <1>12, <1>13 DEF Becomes, WritesBoth
<1>15. FreeSlot.cgi = "none" /\ ~FreeSlot.up
  BY DEF FreeSlot
<1> QED  BY <1>2, <1>3, <1>14, <1>15, OnlyBoth

(* The application sends to every websocket.                               *)
\* A websocket between two callbacks, as a callback would find it.
WireAt(s, i) ==
    /\ Wired(s, i, s, HeldBeside(s, i), WiredBeside(s, i), TcpOf(s, i).coming)
    /\ FramesTo(s.conn[i].peer, TcpOf(s, i), TcpOf(s, i).coming)
    /\ Aside(s, i, s.conn[i].peer, s) /\ s.conn[i].peer \in Peers
    /\ [s EXCEPT !.conn[i].buf = <<>>] = s
LEMMA WireIs ==
    ASSUME NEW s, Sound(s), NEW i \in Wires(s) PROVE WireAt(s, i) /\ i \in Slots
PROOF
<1> DEFINE c == s.conn[i]
           p == c.peer
           H == HeldBeside(s, i)
           S == WiredBeside(s, i)
           u == TcpOf(s, i).coming
           e == [s EXCEPT !.conn[i].buf = <<>>]
<1>1. i \in Slots /\ c.cgi = "socket" /\ Good(s) /\ s \in State /\ c \in Slot
  BY StateFields DEF Wires, Sound, Good
<1>2. c.up
  <2>1. p # NoPeer
    BY <1>1 DEF Sound, Pooled
  <2> QED  BY <1>1, <2>1 DEF Good, Linked
<1>3. c.buf = <<>> /\ Serving(p, c, TcpOf(s, i), Sent(s, i), u)
  BY <1>1, <1>2 DEF Sound, Tended, TendedAt
<1>4. Uses(c, i, s.handles, s.sockets, H, S)
  BY <1>1, PoolSplit
<1>5. p \in Peers /\ Sent(s, i) \in Seq(Part)
  BY <1>1, <1>2, GoodSlot DEF Sent
<1>6. e = s
  <2>1. e = [s EXCEPT !.conn[i] = Emptied(c)]
    BY <1>1 DEF Emptied, State
  <2>2. Emptied(c) = c
    BY <1>1, <1>3, EmptySame
  <2> HIDE DEF e
  <2> QED  BY <1>1, <2>1, <2>2 DEF State
<1>7. Wired(s, i, s, H, S, u)
  <2>1. Sent(s, i) \o <<>> = Sent(s, i)
    BY <1>5, JoinNothing
  <2>2. InCall(p, c, TcpOf(s, i), Sent(s, i), u)
    BY <1>3, <2>1 DEF InCall
  <2> QED  BY <1>1, <1>2, <1>4, <2>2, BesideSelf DEF Wired, During, Runs
<1>8. FramesTo(p, TcpOf(s, i), u)
  BY <1>1, <1>3, OpenPhase DEF Open
<1>9. Aside(s, i, p, s)
  <2>1. \A j, k \in Slots : s.conn[j].peer = s.conn[k].peer /\ s.conn[j].peer # NoPeer => j = k
    BY <1>1 DEF Good, Linked
  <2>2. \A j \in Slots \ {i} : s.conn[j].peer # p
    BY <1>1, <1>5, <2>1, HttpdAssumption
  <2> QED  BY <2>2 DEF Aside
<1> QED  BY <1>1, <1>5, <1>6, <1>7, <1>8, <1>9 DEF WireAt

LEMMA SendOnSound ==
    ASSUME NEW s, Sound(s), NEW i \in Wires(s)
    PROVE  Sound(SendOn(s, i)) /\ SendOn(s, i).sockets = s.sockets
PROOF
<1> DEFINE c == s.conn[i]
           p == c.peer
           H == HeldBeside(s, i)
           S == WiredBeside(s, i)
           u == TcpOf(s, i).coming
           m == httpdSend(s, i, "text")
           x == httpdFlushSendBuffer(m, i)
<1>1. i \in Slots /\ Good(s) /\ s \in State /\ c \in Slot
  BY StateFields DEF Wires, Sound, Good
<1>2. /\ Wired(s, i, s, H, S, u) /\ FramesTo(p, TcpOf(s, i), u) /\ Aside(s, i, p, s)
      /\ p \in Peers /\ [s EXCEPT !.conn[i].buf = <<>>] = s
  BY WireIs DEF WireAt
<1>3. SendOn(s, i) = x
  BY <1>2 DEF SendOn
<1> HIDE DEF u, H, S
<1>4. Wired(s, i, m, H, S, u)
  <2>1. "text" \in {"pong", "close", "text"}
    OBVIOUS
  <2> QED  BY <1>1, <1>2, <2>1, SaysServes
<1>5. m.sockets = s.sockets
  <2>1. httpdSend(Into(s, i, c, s.handles, s.sockets, s.res), i, "text")
           = Into(s, i, Said(c, "text", 0), s.handles, s.sockets, s.res)
    BY <1>1, SendIs
  <2>2. s = Into(s, i, c, s.handles, s.sockets, s.res)
    BY <1>1, StateFields
  <2> HIDE DEF c
  <2> QED  BY <1>1, <2>1, <2>2, IntoIs
<1> HIDE DEF m
<1>6. After(s, i, x, H, S, u)
  BY <1>1, <1>4, FlushAfter DEF Wired
<1>7. x.sockets = m.sockets
  <2>1. Flushes(m, i, x, u)
    BY <1>1, <1>4, FlushServes DEF Wired, During, Runs
  <2> QED  BY <2>1 DEF Flushes
<1> HIDE DEF x
<1>8. Sound(x)
  BY <1>1, <1>2, <1>6, AfterSound DEF u, H, S
<1> QED  BY <1>3, <1>5, <1>7, <1>8

LEMMA SentToAllSound ==
    ASSUME NEW s, Sound(s), NEW q, q = s.sockets PROVE Sound(SentToAll(s, q))
PROOF
<1> DEFINE n == Len(q)
           V == {x \in Goods : Sound(x) /\ x.sockets = q}
           Q == [k \in Nat |-> V]
<1>1. q \in Seq(Slots)
  BY DEF Sound, Good, State
<1>2. n \in Nat /\ DOMAIN q = 1 .. n
  BY <1>1
<1>3. ASSUME NEW k \in 1 .. n, NEW x \in V PROVE SendOn(x, q[k]) \in V
  <2>1. Sound(x) /\ x.sockets = q
    BY <1>3
  <2>2. q[k] \in Wires(x)
    <3>1. q[k] \in ToSet(q)
      BY <1>1 DEF ToSet
    <3> QED  BY <2>1, <3>1 DEF Sound, Pooled, Lists
  <2>3. Sound(SendOn(x, q[k])) /\ SendOn(x, q[k]).sockets = q
    BY <2>1, <2>2, SendOnSound
  <2>4. SendOn(x, q[k]) \in Goods
    BY <2>3, GoodsAre DEF Sound
  <2> QED  BY <2>3, <2>4
<1>4. s \in V /\ s \in Q[0]
  BY GoodsAre DEF Sound
<1>5. \A k \in 1 .. n : Q[k - 1] = V /\ Q[k] = V
  <2> HIDE DEF V
  <2> QED  BY <1>2
<1> HIDE DEF n, Q, V
<1>6. \A k \in 1 .. n : \A x \in V : SendOn(x, q[k]) \in V
  BY <1>3
<1>7. \A k \in 1 .. n : \A x \in V : x \in Q[k - 1] => SendOn(x, q[k]) \in Q[k]
  BY <1>5, <1>6
<1>8. SentToAll(s, q) \in V
  BY <1>2, <1>4, <1>6, <1>7, SentKeeps
<1> QED  BY <1>8 DEF V

\* A client with more frames behind it is at what it was at.
MoreFrames(t, v) ==
    /\ v.state = t.state /\ v.out = t.out /\ v.got = t.got /\ v.asked = t.asked /\ v.n = t.n
    /\ v.coming = t.coming /\ v.frames >= t.frames
LEMMA ServingMore ==
    ASSUME NEW p \in Peers, NEW c, NEW t \in Tcp, NEW v \in Tcp, NEW A, NEW u, Serving(p, c, t, A, u),
           MoreFrames(t, v)
    PROVE  Serving(p, c, v, A, u)
PROOF
<1>1. t.frames \in Nat /\ v.frames \in Nat /\ MaxFrames[p] \in Nat
  BY HttpdAssumption DEF Tcp
<1>2. t.frames >= MaxFrames[p] => v.frames >= MaxFrames[p]
  BY <1>1 DEF MoreFrames
<1>3. Proper(v, A)
  BY DEF Serving, Proper, MoreFrames
<1>4. Answering(c, t, A) => Answering(c, v, A)
  BY DEF Answering, MoreFrames
<1>5. Calling(p, c, t, A, u) => Calling(p, c, v, A, u)
  BY DEF Calling, MoreFrames
<1>6. Gathering(p, c, t, A, u) => Gathering(p, c, v, A, u)
  BY DEF Gathering, MoreFrames
<1>7. Resting(c, t, A, u) => Resting(c, v, A, u)
  BY DEF Resting, MoreFrames
<1>8. Reading(c, t, A, u) => Reading(c, v, A, u)
  BY <1>4 DEF Reading, MoreFrames
<1>9. Open(p, c, t, A, u) => Open(p, c, v, A, u)
  BY <1>2, <1>4 DEF Open, MoreFrames, FramesTo
<1>10. Ending(p, c, t, A, u) => Ending(p, c, v, A, u)
  BY <1>2, <1>4 DEF Ending, MoreFrames
<1> QED  BY <1>3, <1>5, <1>6, <1>7, <1>8, <1>9, <1>10 DEF Serving, Quiet, Talking

LEMMA FramesSound ==
    ASSUME NEW s, Sound(s), NEW f \in [Peers -> Tcp], \A p \in Peers : MoreFrames(s.tcp[p], f[p])
    PROVE  Sound([s EXCEPT !.tcp = f])
PROOF
<1> DEFINE x == [s EXCEPT !.tcp = f]
<1>1. s \in State /\ Good(s)
  BY DEF Sound, Good
<1>2. Good(x)
  <2>1. \A p \in Peers : SameFlow(s.tcp[p], f[p])
    BY DEF SameFlow, MoreFrames
  <2> QED  BY <1>1, <2>1, GoodTcp
<1>3. /\ x.conn = s.conn /\ x.tcp = f /\ x.handles = s.handles /\ x.sockets = s.sockets
      /\ x.answer = s.answer
  BY <1>1 DEF State
<1> HIDE DEF x
<1>4. Pooled(x)
  BY <1>3 DEF Sound, Pooled, Busy, Wires, Owned
<1>5. Silent(x)
  BY <1>3 DEF Sound, Silent, MoreFrames
<1>6. ASSUME NEW j \in Slots, x.conn[j].up PROVE TendedAt(x, j)
  <2> DEFINE c == s.conn[j]
             p == c.peer
  <2>1. c.up /\ p \in Peers
    <3>1. c.up
      BY <1>3, <1>6
    <3> QED  BY <1>1, <3>1, GoodSlot
  <2>2. TendedAt(s, j)
    BY <2>1 DEF Sound, Tended
  <2>3. s.tcp[p] \in Tcp /\ f[p] \in Tcp /\ MoreFrames(s.tcp[p], f[p])
    BY <1>1, <2>1 DEF State
  <2>4. TcpOf(s, j) = s.tcp[p] /\ TcpOf(x, j) = f[p] /\ Sent(x, j) = Sent(s, j) /\ x.conn[j] = c
    BY <1>3 DEF TcpOf, Sent
  <2>5. f[p].coming = s.tcp[p].coming
    BY <2>3 DEF MoreFrames
  <2>6. c.buf = <<>> /\ Serving(p, c, s.tcp[p], Sent(s, j), s.tcp[p].coming)
    BY <2>2, <2>4 DEF TendedAt
  <2> HIDE DEF c, p
  <2>7. Serving(p, c, f[p], Sent(s, j), s.tcp[p].coming)
    BY <2>1, <2>3, <2>6, ServingMore
  <2>8. x.conn[j].peer = p
    BY <2>4 DEF p
  <2> QED  BY <2>4, <2>5, <2>6, <2>7, <2>8 DEF TendedAt
<1>7. Tended(x)
  BY <1>6 DEF Tended
<1>8. Sound(x)
  BY <1>2, <1>4, <1>5, <1>7 DEF Sound
<1> QED  BY <1>8 DEF x

LEMMA BroadcastSound == ASSUME ServerInv, cgiWebsockBroadcast PROVE ServerInv'
PROOF
<1> DEFINE s == SentToAll(Now, sockets)
           Counted(p) == \E k \in 1 .. Len(sockets) : conn[sockets[k]].peer = p
           f == [p \in Peers |-> IF Counted(p) THEN [s.tcp[p] EXCEPT !.frames = @ + 1] ELSE s.tcp[p]]
<1>1. Becomes([s EXCEPT !.tcp = f])
  BY DEF cgiWebsockBroadcast, SentToAll, SendOn
<1>2. Sound(s) /\ s \in State
  <2>1. Sound(s)
    BY SentToAllSound, NowIs DEF ServerInv
  <2> QED  BY <2>1 DEF Sound, Good
<1> HIDE DEF s
<1>3. ASSUME NEW t \in Tcp PROVE [t EXCEPT !.frames = @ + 1] \in Tcp /\ MoreFrames(t, [t EXCEPT !.frames = @ + 1])
  <2> DEFINE m == t.frames + 1
  <2>1. m \in Nat /\ m >= t.frames
    BY DEF Tcp
  <2> HIDE DEF m
  <2>2. [t EXCEPT !.frames = m] \in Tcp /\ MoreFrames(t, [t EXCEPT !.frames = m])
    BY <2>1 DEF Tcp, MoreFrames
  <2> QED  BY <2>2 DEF m
<1>4. f \in [Peers -> Tcp] /\ \A p \in Peers : MoreFrames(s.tcp[p], f[p])
  <2>1. \A p \in Peers : s.tcp[p] \in Tcp
    BY <1>2 DEF State
  <2> HIDE DEF Counted
  <2>2. ASSUME NEW p \in Peers PROVE f[p] \in Tcp /\ MoreFrames(s.tcp[p], f[p])
    <3>1. [s.tcp[p] EXCEPT !.frames = @ + 1] \in Tcp /\ MoreFrames(s.tcp[p], [s.tcp[p] EXCEPT !.frames = @ + 1])
      BY <1>3, <2>1
    <3>2. MoreFrames(s.tcp[p], s.tcp[p])
      <4>1. s.tcp[p].frames \in Nat
        BY <2>1 DEF Tcp
      <4> QED  BY <4>1 DEF MoreFrames
    <3>3. f[p] = IF Counted(p) THEN [s.tcp[p] EXCEPT !.frames = @ + 1] ELSE s.tcp[p]
      OBVIOUS
    <3> HIDE DEF f
    <3> QED  BY <2>1, <3>1, <3>2, <3>3
  <2>3. f = [p \in Peers |-> f[p]]
    OBVIOUS
  <2> HIDE DEF f
  <2> QED  BY <2>2, <2>3
<1> HIDE DEF f
<1>5. Sound([s EXCEPT !.tcp = f])
  BY <1>2, <1>4, FramesSound
<1> QED  BY <1>1, <1>5, BecomesSound

\* The application closes a websocket.
LEMMA FrameMoreSound ==
    ASSUME NEW s, NEW p \in Peers, Sound(s) PROVE Sound(FrameMore(s, p))
PROOF
<1> DEFINE t == s.tcp[p]
           m == t.frames + 1
           u == [t EXCEPT !.frames = m]
           f == [s.tcp EXCEPT ![p] = u]
<1>1. s \in State /\ s.tcp \in [Peers -> Tcp] /\ t \in Tcp
  BY DEF Sound, Good, State
<1>2. m \in Nat /\ m >= t.frames
  BY <1>1 DEF Tcp
<1>3. FrameMore(s, p) = [s EXCEPT !.tcp = f]
  BY <1>1 DEF FrameMore, State
<1> HIDE DEF m
<1>4. u \in Tcp /\ MoreFrames(t, u)
  <2> HIDE DEF t
  <2> QED  BY <1>1, <1>2 DEF Tcp, MoreFrames
<1> HIDE DEF u
<1>5. ASSUME NEW o \in Peers PROVE MoreFrames(s.tcp[o], f[o])
  <2>1. s.tcp[o].frames \in Nat
    BY <1>1 DEF Tcp
  <2>2. MoreFrames(s.tcp[o], s.tcp[o])
    BY <2>1 DEF MoreFrames
  <2> QED  BY <1>1, <1>4, <2>2
<1>6. f \in [Peers -> Tcp]
  BY <1>1, <1>4
<1> HIDE DEF f
<1> QED  BY <1>3, <1>5, <1>6, FramesSound

LEMMA CloseSocketSound ==
    ASSUME ServerInv, NEW p \in Peers, CloseSocket(p) PROVE ServerInv'
PROOF
<1>1. PICK k \in 1 .. Len(sockets) :
         Becomes([cgiWebsocketClose([Now EXCEPT !.conn[sockets[k]].buf = <<>>], sockets[k])
                    EXCEPT !.tcp[p].frames = @ + 1])
  BY DEF CloseSocket
<1> DEFINE i == sockets[k]
           s == Now
           x == cgiWebsocketClose(s, i)
           H == HeldBeside(s, i)
           S == WiredBeside(s, i)
           u == TcpOf(s, i).coming
<1>2. Sound(s) /\ s.sockets = sockets
  BY NowIs DEF ServerInv
<1>3. i \in Wires(s)
  <2>1. s.sockets \in Seq(Slots)
    BY <1>2 DEF Sound, Good, State
  <2>2. i \in ToSet(s.sockets)
    BY <1>2, <2>1 DEF ToSet
  <2> QED  BY <1>2, <2>2 DEF Sound, Pooled, Lists
<1> HIDE DEF i
<1>4. WireAt(s, i) /\ i \in Slots
  BY <1>2, <1>3, WireIs
<1>5. Becomes(FrameMore(x, p))
  BY <1>1, <1>4 DEF FrameMore, WireAt, i
<1> HIDE DEF s, H, S, u
<1>6. After(s, i, x, H, S, u)
  <2>1. Wired(s, i, s, H, S, u) /\ FramesTo(s.conn[i].peer, TcpOf(s, i), u)
    BY <1>4 DEF WireAt, H, S, u
  <2>2. SocketClosed(s, i, s, cgiWebsocketClose(s, i), H, S, u)
    BY <1>4, <2>1, SocketCloses
  <2> QED  BY <2>2 DEF SocketClosed
<1>7. Sound(x)
  <2>1. Aside(s, i, s.conn[i].peer, s) /\ s.conn[i].peer \in Peers
    BY <1>4 DEF WireAt
  <2> HIDE DEF x
  <2> QED  BY <1>2, <1>4, <1>6, <2>1, AfterSound DEF H, S, u
<1> HIDE DEF x
<1>8. Sound(FrameMore(x, p))
  BY <1>7, FrameMoreSound
<1> QED  BY <1>5, <1>8, BecomesSound

LEMMA InitSound == ASSUME Init PROVE ServerInv
PROOF
<1>1. Good(Now)
  BY InitGood DEF FlowInv
<1>2. /\ Now.conn = [i \in Slots |-> FreeSlot] /\ Now.tcp = [p \in Peers |-> NoTcp]
      /\ Now.handles = {} /\ Now.sockets = <<>> /\ Now.answer = [p \in Peers |-> <<>>]
  BY NowIs DEF Init
<1>3. FreeSlot.cgi = "none" /\ ~FreeSlot.up
  BY DEF FreeSlot
<1>4. Busy(Now) = {} /\ Wires(Now) = {}
  BY <1>2, <1>3 DEF Busy, Wires
<1>5. Lists(<<>>, {})
  <2>1. <<>> \in Seq(Slots) /\ 1 .. Len(<<>>) = {} /\ DOMAIN <<>> = {}
    OBVIOUS
  <2> QED  BY <2>1 DEF Lists, ToSet
<1>6. Pooled(Now)
  BY <1>2, <1>3, <1>4, <1>5 DEF Pooled, Owned
<1>7. Tended(Now) /\ Silent(Now)
  BY <1>2, <1>3 DEF Tended, Silent
<1> QED  BY <1>1, <1>6, <1>7 DEF ServerInv, Sound

LEMMA NextSound == ServerInv /\ [Next]_vars => ServerInv'
PROOF
<1>1. ASSUME ServerInv, UNCHANGED vars PROVE ServerInv'
  <2>1. Now' = Now
    BY <1>1 DEF vars, Now
  <2>2. Sound(Now')
    BY <1>1, <2>1 DEF ServerInv
  <2> QED  BY <2>2 DEF ServerInv
<1>2. ASSUME ServerInv, NEW p \in Peers, Callback(p) PROVE ServerInv'
  BY <1>2, ConnectSound, RecvSound, SentSound, DisconSound DEF Callback
<1>3. ASSUME ServerInv, NEW p \in Peers, Ask(p) \/ SendFrame(p) \/ CloseSocket(p) PROVE ServerInv'
  BY <1>3, AskSound, SendFrameSound, CloseSocketSound
<1>4. ASSUME ServerInv, cgiWebsockBroadcast PROVE ServerInv'
  BY <1>4, BroadcastSound
<1> QED  BY <1>1, <1>2, <1>3, <1>4 DEF Next

LEMMA SoundAnswers == ASSUME ServerInv PROVE OneAnswerEach
PROOF
<1>1. ASSUME NEW p \in Peers
      PROVE  Whole(answer[p]) /\ Stored(answer[p], tcp[p].n, tcp[p].asked.body)
  <2>1. CASE tcp[p].state = "NONE"
    <3>1. answer[p] = <<>>
      BY <2>1, NowIs DEF ServerInv, Sound, Silent
    <3>2. 1 .. Len(<<>>) = {} /\ 1 .. Len(<<>>) - 1 = {}
      OBVIOUS
    <3> QED  BY <3>1, <3>2 DEF Whole, Stored
  <2>2. CASE tcp[p].state # "NONE"
    <3> DEFINE i == SlotOf(p)
    <3>1. Serving(p, conn[i], tcp[p], answer[p], tcp[p].coming)
      <4> HIDE DEF i
      <4> QED  BY <2>2, SoundSlot DEF i
    <3> QED  BY <3>1 DEF Serving, Proper
  <2> QED  BY <2>1, <2>2
<1> QED  BY <1>1 DEF OneAnswerEach, Whole, Stored

LEMMA SoundPool == ASSUME ServerInv PROVE PoolExact
PROOF
<1>1. Linked(Now) /\ Pooled(Now)
  BY DEF ServerInv, Sound, Good
<1>2. ASSUME NEW p \in Peers
      PROVE  Cardinality(Find(p)) = IF tcp[p].state = "NONE" THEN 0 ELSE 1
  <2>1. tcp[p].state # "NONE" <=> \E i \in Slots : conn[i].peer = p
    BY <1>1, NowIs DEF Linked
  <2>2. CASE tcp[p].state = "NONE"
    <3>1. Find(p) = {}
      BY <2>1, <2>2 DEF Find
    <3> QED  BY <2>2, <3>1, FS_EmptySet
  <2>3. CASE tcp[p].state # "NONE"
    <3>1. PICK i \in Slots : conn[i].peer = p
      BY <2>1, <2>3
    <3>2. \A j, k \in Slots : conn[j].peer = conn[k].peer /\ conn[j].peer # NoPeer => j = k
      BY <1>1, NowIs DEF Linked
    <3>3. Find(p) = {i}
      BY <3>1, <3>2, HttpdAssumption DEF Find
    <3> QED  BY <2>3, <3>3, FS_Singleton
  <2> QED  BY <2>2, <2>3
<1>3. handles = {conn[i].data : i \in {j \in Slots : conn[j].cgi # "none"}} \ {0}
  <2> DEFINE B == {j \in Slots : conn[j].cgi # "none"}
             D == {conn[i].data : i \in B}
  <2>1. Busy(Now) = B /\ handles = D
    BY <1>1, NowIs DEF Pooled, Busy, Owned
  <2>2. \A i \in B : conn[i].data \in Handle
    BY <1>1, <2>1, NowIs DEF Pooled
  <2>3. 0 \notin Handle
    BY HttpdAssumption DEF Handle
  <2>4. 0 \notin D
    BY <2>2, <2>3
  <2> HIDE DEF D
  <2>5. handles = D \ {0}
    BY <2>1, <2>4
  <2> QED  BY <2>5 DEF D
<1>4. ToSet(sockets) = {i \in Slots : conn[i].cgi = "socket"}
  BY <1>1, NowIs DEF Pooled, Lists, Wires
<1> QED  BY <1>2, <1>3, <1>4 DEF PoolExact

\* Whatever is asked, in whatever pieces it comes and however the SDK's reports and the end of the
\* connections fall between them, every request gets one answer, whole and in its turn, and what an
\* upload is told is stored is all of what it sent: httpdSend and httpdCgiIsDone mark the parts by the
\* state of the slot alone (httpd.c:433-451, 519-574).
THEOREM OneAnswerForEach == Spec => []OneAnswerEach
PROOF
  BY InitSound, NextSound, SoundAnswers, PTL DEF Spec

\* A slot of the pool is taken by each connection and no other, and what the CGIs have allocated is
\* what the slots still use: whenever a connection ends, in the middle of a file, an upload or a
\* websocket, its handle is freed, once (httpd.c:108-125, 782-794).
THEOREM PoolStaysExact == Spec => []PoolExact
PROOF
  BY InitSound, NextSound, SoundPool, PTL DEF Spec
=============================================================================
