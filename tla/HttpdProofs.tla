----------------------------- MODULE HttpdProofs -----------------------------
(***************************************************************************)
(* What the web server sends arrives whole and in order, for any pool of   *)
(* connections, table of urls, requests and limits.                        *)
(*                                                                         *)
(* StreamKept is not inductive: that a buffer is sent at once only when no *)
(* other waits is not in the code of httpdFlushSendBuffer, which does not  *)
(* look at the backlog.  It follows from what the callbacks keep: while a  *)
(* connection is up, something waits in the backlog only as long as the    *)
(* SDK has something to report.  Good adds that (Streams), and that each   *)
(* connection of the SDK has one slot (Linked).  A CGI is a function from  *)
(* server to server; Keeps says what of it matters here, so that each is   *)
(* looked at once, however often it is called in a callback.               *)
(***************************************************************************)
EXTENDS Httpd, FiniteSetTheorems, SequenceTheorems, WellFoundedInduction, TLAPS

(* Counting up: a set with 0 and the successors of its numbers has them all. *)
LEMMA CountUp ==
    ASSUME NEW S, 0 \in S, \A k \in Nat : k \in S => k + 1 \in S
    PROVE  \A k \in Nat : k \in S
PROOF
<1> DEFINE Less == {ss \in Nat \X Nat : ss[1] < ss[2]}
           T == {k \in Nat : k \notin S}
<1> SUFFICES ASSUME T # {} PROVE FALSE
  OBVIOUS
<1>1. IsWellFoundedOn(Less, Nat)
  BY NatLessThanWellFounded, Zenon DEF OpToRel
<1>2. T \subseteq Nat
  OBVIOUS
<1>3. PICK c \in T : \A d \in T : ~(<<d, c>> \in Less)
  <2> HIDE DEF Less, T
  <2> QED  BY <1>1, <1>2, WFMin, Zenon
<1>4. c \in Nat /\ c # 0
  OBVIOUS
<1>5. c - 1 \in Nat /\ c - 1 < c /\ c - 1 + 1 = c
  BY <1>4
<1>6. c - 1 \notin S
  BY <1>5
<1> QED  BY <1>3, <1>4, <1>5, <1>6

LEMMA MaxOfSet ==
    ASSUME NEW n \in Nat, NEW T \in SUBSET (1 .. n), NEW m \in T, \A k \in T : k <= m
    PROVE  Max(T) = m
PROOF
<1>1. ASSUME NEW x \in T, \A y \in T : x >= y PROVE x = m
  <2>1. x \in Int /\ m \in Int /\ x >= m /\ x <= m
    BY <1>1
  <2> QED  BY <2>1
<1>2. \A y \in T : m >= y
  OBVIOUS
<1> QED  BY <1>1, <1>2 DEF Max

(* A fold over 1 .. n, as the community modules define it, step being a function. *)
IsFold(w, base, step, n) ==
    \A T \in SUBSET (1 .. n) : w[T] = IF T = {} THEN base ELSE step[Max(T)][w[T \ {Max(T)}]]

LEMMA FoldExists ==
    ASSUME NEW V, NEW base \in V, NEW n \in Nat, NEW step \in [1 .. n -> [V -> V]]
    PROVE  \E w \in [SUBSET (1 .. n) -> V] : IsFold(w, base, step, n)
PROOF
<1> DEFINE Ok(w, k) == \A T \in SUBSET (1 .. k) :
                          w[T] = IF T = {} THEN base ELSE step[Max(T)][w[T \ {Max(T)}]]
           S == {k \in Nat : k <= n => \E w \in [SUBSET (1 .. k) -> V] : Ok(w, k)}
<1>1. 0 \in S
  <2> DEFINE w == [T \in SUBSET (1 .. 0) |-> base]
  <2>1. SUBSET (1 .. 0) = {{}}
    OBVIOUS
  <2>2. w \in [SUBSET (1 .. 0) -> V]
    OBVIOUS
  <2>3. Ok(w, 0)
    BY <2>1
  <2> HIDE DEF w, Ok
  <2> QED  BY <2>2, <2>3
<1>2. ASSUME NEW k \in Nat, k \in S PROVE k + 1 \in S
  <2>0. SUFFICES ASSUME k + 1 <= n
                 PROVE  \E w \in [SUBSET (1 .. k + 1) -> V] : Ok(w, k + 1)
    <3> HIDE DEF Ok
    <3>1. k + 1 \in Nat
      OBVIOUS
    <3> QED  BY <3>1
  <2>1. PICK v \in [SUBSET (1 .. k) -> V] : Ok(v, k)
    <3>1. k <= n
      BY <2>0
    <3> HIDE DEF Ok
    <3> QED  BY <1>2, <3>1
  <2> DEFINE w == [T \in SUBSET (1 .. k + 1) |->
                      IF T \in SUBSET (1 .. k) THEN v[T]
                      ELSE step[k + 1][v[T \ {k + 1}]]]
  <2>2. ASSUME NEW T \in SUBSET (1 .. k + 1), T \notin SUBSET (1 .. k)
        PROVE  /\ T # {} /\ Max(T) = k + 1 /\ T \ {k + 1} \in SUBSET (1 .. k)
               /\ w[T] = step[k + 1][v[T \ {k + 1}]]
    <3>1. k + 1 \in T
      BY <2>2
    <3>2. \A j \in T : j <= k + 1
      OBVIOUS
    <3>3. k + 1 \in Nat
      OBVIOUS
    <3>4. Max(T) = k + 1
      BY <3>1, <3>2, <3>3, MaxOfSet
    <3> QED  BY <3>1, <3>4, <2>2
  <2>3. w \in [SUBSET (1 .. k + 1) -> V]
    <3>1. ASSUME NEW T \in SUBSET (1 .. k + 1) PROVE w[T] \in V
      <4>1. CASE T \in SUBSET (1 .. k)
        BY <4>1
      <4>2. CASE T \notin SUBSET (1 .. k)
        <5>1. v[T \ {k + 1}] \in V
          BY <2>2, <4>2
        <5>2. k + 1 \in 1 .. n
          BY <2>0
        <5>3. step[k + 1][v[T \ {k + 1}]] \in V
          BY <5>1, <5>2
        <5> QED  BY <5>3, <2>2, <4>2
      <4> QED  BY <4>1, <4>2
    <3> QED  BY <3>1
  <2>4. ASSUME NEW T \in SUBSET (1 .. k + 1)
        PROVE  w[T] = IF T = {} THEN base ELSE step[Max(T)][w[T \ {Max(T)}]]
    <3>1. CASE T \in SUBSET (1 .. k)
      <4>1. w[T] = v[T] /\ T \ {Max(T)} \in SUBSET (1 .. k)
        BY <3>1
      <4>2. T \ {Max(T)} \in SUBSET (1 .. k + 1)
        BY <4>1
      <4>3. w[T \ {Max(T)}] = v[T \ {Max(T)}]
        BY <4>1, <4>2
      <4>4. v[T] = IF T = {} THEN base ELSE step[Max(T)][v[T \ {Max(T)}]]
        BY <2>1, <3>1
      <4> HIDE DEF w
      <4> QED  BY <4>1, <4>3, <4>4
    <3>2. CASE T \notin SUBSET (1 .. k)
      <4>1. T \ {k + 1} \in SUBSET (1 .. k + 1)
        OBVIOUS
      <4>2. w[T \ {k + 1}] = v[T \ {k + 1}]
        BY <2>2, <3>2, <4>1
      <4>3. T # {} /\ Max(T) = k + 1 /\ w[T] = step[k + 1][v[T \ {k + 1}]]
        BY <2>2, <3>2
      <4> HIDE DEF w
      <4> QED  BY <4>2, <4>3
    <3> QED  BY <3>1, <3>2
  <2> HIDE DEF w
  <2> QED  BY <2>3, <2>4
<1>3. n \in S
  <2> HIDE DEF S
  <2> QED  BY <1>1, <1>2, CountUp
<1>4. PICK w \in [SUBSET (1 .. n) -> V] : Ok(w, n)
  <2>1. n <= n
    OBVIOUS
  <2> HIDE DEF Ok
  <2> QED  BY <1>3, <2>1
<1> QED  BY <1>4 DEF IsFold

-----------------------------------------------------------------------------
(* Joining sequences: FlattenSeq and its parts.                            *)
IsJoin(f, b, n) == \A i \in 1 .. n : f[i] = IF i = 1 THEN b[i] ELSE f[i - 1] \o b[i]
SameTo(b, d, n) == \A i \in 1 .. n : b[i] = d[i]

LEMMA JoinsType ==
    ASSUME NEW P, NEW n \in Nat, NEW b, \A i \in 1 .. n : b[i] \in Seq(P), NEW f,
           \A i \in 1 .. n : f[i] = IF i = 1 THEN b[i] ELSE f[i - 1] \o b[i]
    PROVE  \A i \in 1 .. n : f[i] \in Seq(P)
PROOF
<1> DEFINE T == {k \in Nat : k \in 1 .. n => f[k] \in Seq(P)}
<1>1. 0 \in T
  OBVIOUS
<1>2. ASSUME NEW k \in Nat, k \in T PROVE k + 1 \in T
  <2>1. SUFFICES ASSUME k + 1 \in 1 .. n PROVE f[k + 1] \in Seq(P)
    OBVIOUS
  <2> DEFINE j == k + 1
  <2>2. j \in 1 .. n /\ b[j] \in Seq(P) /\ j - 1 = k
    BY <2>1
  <2>3. f[j] = IF j = 1 THEN b[j] ELSE f[j - 1] \o b[j]
    BY <2>2
  <2>4. k # 0 => f[k] \in Seq(P)
    BY <1>2, <2>2
  <2>5. k = 0 <=> j = 1
    OBVIOUS
  <2> HIDE DEF j
  <2>6. f[j] \in Seq(P)
    BY <2>2, <2>3, <2>4, <2>5
  <2> QED  BY <2>6 DEF j
<1>3. \A k \in Nat : k \in T
  <2> HIDE DEF T
  <2> QED  BY <1>1, <1>2, CountUp
<1> QED  BY <1>3

LEMMA FlattenIs ==
    ASSUME NEW P, NEW b \in Seq(Seq(P)), b # <<>>
    PROVE  \E f : /\ f \in [1 .. Len(b) -> Seq(P)]
                  /\ \A i \in 1 .. Len(b) : f[i] = IF i = 1 THEN b[i] ELSE f[i - 1] \o b[i]
                  /\ FlattenSeq(b) = f[Len(b)]
PROOF
<1> DEFINE n == Len(b)
           Ok(w, k) == \A i \in 1 .. k : w[i] = IF i = 1 THEN b[i] ELSE w[i - 1] \o b[i]
           S == {k \in Nat : k <= n => \E w \in [1 .. k -> Seq(P)] : Ok(w, k)}
<1>0. n \in Nat /\ n # 0 /\ \A i \in 1 .. n : b[i] \in Seq(P)
  OBVIOUS
<1>1. 0 \in S
  <2> DEFINE w == [i \in 1 .. 0 |-> <<>>]
  <2>1. w \in [1 .. 0 -> Seq(P)] /\ Ok(w, 0)
    OBVIOUS
  <2> HIDE DEF w, Ok
  <2> QED  BY <2>1
<1>2. ASSUME NEW k \in Nat, k \in S PROVE k + 1 \in S
  <2>0. SUFFICES ASSUME k + 1 <= n
                 PROVE  \E w \in [1 .. k + 1 -> Seq(P)] : Ok(w, k + 1)
    <3> HIDE DEF Ok
    <3>1. k + 1 \in Nat
      OBVIOUS
    <3> QED  BY <3>1
  <2>1. PICK v \in [1 .. k -> Seq(P)] : Ok(v, k)
    <3>1. k <= n
      BY <2>0, <1>0
    <3> HIDE DEF Ok
    <3> QED  BY <1>2, <3>1
  <2> DEFINE w == [i \in 1 .. k + 1 |->
                      IF i \in 1 .. k THEN v[i] ELSE IF i = 1 THEN b[i] ELSE v[i - 1] \o b[i]]
  <2>2. ASSUME NEW i \in 1 .. k + 1
        PROVE  w[i] \in Seq(P) /\ w[i] = IF i = 1 THEN b[i] ELSE w[i - 1] \o b[i]
    <3>1. b[i] \in Seq(P)
      BY <1>0, <2>0
    <3>2. CASE i \in 1 .. k
      <4>1. w[i] = v[i] /\ (i # 1 => w[i - 1] = v[i - 1])
        BY <3>2
      <4>2. v[i] \in Seq(P) /\ v[i] = IF i = 1 THEN b[i] ELSE v[i - 1] \o b[i]
        BY <2>1, <3>2
      <4> HIDE DEF w
      <4> QED  BY <4>1, <4>2
    <3>3. CASE i \notin 1 .. k
      <4>1. i = k + 1
        BY <3>3
      <4>2. CASE i = 1
        BY <3>1, <3>3, <4>2
      <4>3. CASE i # 1
        <5>1. i - 1 \in 1 .. k /\ i - 1 \in 1 .. k + 1
          BY <4>1, <4>3
        <5>2. w[i] = v[i - 1] \o b[i] /\ w[i - 1] = v[i - 1] /\ v[i - 1] \in Seq(P)
          BY <5>1, <4>3, <3>3
        <5> HIDE DEF w
        <5>3. w[i] \in Seq(P)
          BY <5>2, <3>1, ConcatProperties, ZenonT(60)
        <5>4. w[i] = w[i - 1] \o b[i]
          BY <5>2, Zenon
        <5> QED  BY <5>3, <5>4, <4>3, Zenon
      <4> QED  BY <4>2, <4>3
    <3> QED  BY <3>2, <3>3
  <2>3. w \in [1 .. k + 1 -> Seq(P)]
    BY <2>2
  <2>4. Ok(w, k + 1)
    BY <2>2
  <2> HIDE DEF w, Ok
  <2> QED  BY <2>3, <2>4
<1>3. n \in S
  <2> HIDE DEF S, n
  <2> QED  BY <1>0, <1>1, <1>2, CountUp
<1>4. PICK w \in [1 .. n -> Seq(P)] : Ok(w, n)
  <2>1. n <= n
    BY <1>0
  <2> HIDE DEF Ok, n
  <2> QED  BY <1>3, <2>1
<1> DEFINE flat == CHOOSE flatten : flatten = [i \in 1 .. Len(b) |->
                        IF i = 1 THEN b[i] ELSE flatten[i - 1] \o b[i]]
<1>5. w = [i \in 1 .. Len(b) |-> IF i = 1 THEN b[i] ELSE w[i - 1] \o b[i]]
  BY <1>4
<1>6. flat = [i \in 1 .. Len(b) |-> IF i = 1 THEN b[i] ELSE flat[i - 1] \o b[i]]
  BY <1>5
<1>7. FlattenSeq(b) = flat[Len(b)]
  BY <1>0 DEF FlattenSeq
<1>8. \A i \in 1 .. Len(b) : flat[i] = IF i = 1 THEN b[i] ELSE flat[i - 1] \o b[i]
  <2> HIDE DEF flat
  <2> QED  BY <1>6
<1>9. flat \in [1 .. Len(b) -> Seq(P)]
  <2> HIDE DEF flat
  <2>1. \A k \in 1 .. Len(b) : flat[k] \in Seq(P)
    BY <1>0, <1>8, JoinsType
  <2> QED  BY <1>6, <2>1
<1> HIDE DEF flat
<1> QED  BY <1>7, <1>8, <1>9

LEMMA JoinsAgree ==
    ASSUME NEW n \in Nat, NEW b, NEW d, SameTo(b, d, n), NEW f, NEW g,
           IsJoin(f, b, n), IsJoin(g, d, n)
    PROVE  SameTo(f, g, n)
PROOF
<1> USE DEF SameTo, IsJoin
<1> DEFINE T == {k \in Nat : k \in 1 .. n => f[k] = g[k]}
<1>1. 0 \in T
  OBVIOUS
<1>2. ASSUME NEW k \in Nat, k \in T PROVE k + 1 \in T
  <2>1. SUFFICES ASSUME k + 1 \in 1 .. n PROVE f[k + 1] = g[k + 1]
    OBVIOUS
  <2> DEFINE j == k + 1
  <2>2. j \in 1 .. n /\ b[j] = d[j] /\ j - 1 = k
    BY <2>1
  <2>3. /\ f[j] = IF j = 1 THEN b[j] ELSE f[j - 1] \o b[j]
        /\ g[j] = IF j = 1 THEN d[j] ELSE g[j - 1] \o d[j]
    BY <2>2
  <2>4. k # 0 => f[k] = g[k]
    BY <1>2, <2>2
  <2>5. k = 0 <=> j = 1
    OBVIOUS
  <2> HIDE DEF j
  <2>6. f[j] = g[j]
    BY <2>2, <2>3, <2>4, <2>5
  <2> QED  BY <2>6 DEF j
<1>3. \A k \in Nat : k \in T
  <2> HIDE DEF T
  <2> QED  BY <1>1, <1>2, CountUp
<1> QED  BY <1>3

LEMMA FlattenNone == FlattenSeq(<<>>) = <<>>
PROOF
  BY DEF FlattenSeq

LEMMA FlattenOne == ASSUME NEW P, NEW d \in Seq(P) PROVE FlattenSeq(<<d>>) = d
PROOF
<1>1. <<d>> \in Seq(Seq(P)) /\ <<d>> # <<>> /\ Len(<<d>>) = 1 /\ <<d>>[1] = d
  OBVIOUS
<1>2. PICK f : /\ f \in [1 .. Len(<<d>>) -> Seq(P)]
               /\ \A i \in 1 .. Len(<<d>>) : f[i] = IF i = 1 THEN <<d>>[i] ELSE f[i - 1] \o <<d>>[i]
               /\ FlattenSeq(<<d>>) = f[Len(<<d>>)]
  BY <1>1, FlattenIs
<1>3. 1 \in 1 .. 1
  OBVIOUS
<1>4. f[1] = d
  BY <1>1, <1>2, <1>3
<1> QED  BY <1>1, <1>2, <1>4

LEMMA FlattenType ==
    ASSUME NEW P, NEW b \in Seq(Seq(P)) PROVE FlattenSeq(b) \in Seq(P)
PROOF
<1>1. CASE b = <<>>
  BY <1>1, FlattenNone, EmptySeq
<1>2. CASE b # <<>>
  <2>1. PICK f \in [1 .. Len(b) -> Seq(P)] : FlattenSeq(b) = f[Len(b)]
    BY <1>2, FlattenIs
  <2>2. Len(b) \in 1 .. Len(b)
    BY <1>2
  <2> QED  BY <2>1, <2>2
<1> QED  BY <1>1, <1>2

LEMMA OneElement ==
    ASSUME NEW S, NEW d \in Seq(S), Len(d) = 1 PROVE 1 \in 1 .. Len(d) /\ d # <<>>
PROOF
  OBVIOUS

(* What is joined last is at the end, and what is joined first is in front. *)
LEMMA FlattenAppend ==
    ASSUME NEW P, NEW b \in Seq(Seq(P)), NEW d \in Seq(P)
    PROVE  FlattenSeq(Append(b, d)) = FlattenSeq(b) \o d
PROOF
<1> DEFINE e == Append(b, d)
           n == Len(b)
<1>1. /\ n \in Nat /\ e \in Seq(Seq(P)) /\ e # <<>> /\ Len(e) = n + 1 /\ e[n + 1] = d
      /\ \A i \in 1 .. n : e[i] = b[i]
  BY AppendProperties
<1> HIDE DEF e
<1>2. PICK g : /\ g \in [1 .. Len(e) -> Seq(P)]
               /\ \A i \in 1 .. Len(e) : g[i] = IF i = 1 THEN e[i] ELSE g[i - 1] \o e[i]
               /\ FlattenSeq(e) = g[Len(e)]
  BY <1>1, FlattenIs
<1>3. CASE n = 0
  <2>1. b = <<>> /\ 1 \in 1 .. Len(e) /\ Len(e) = 1
    BY <1>1, <1>3
  <2>3. FlattenSeq(b) = <<>>
    BY <2>1, FlattenNone
  <2>2. g[1] = e[1] /\ e[1] = d
    BY <1>1, <1>2, <1>3, <2>1
  <2> QED  BY <1>2, <2>1, <2>2, <2>3 DEF e
<1>4. CASE n # 0
  <2>1. PICK f : /\ f \in [1 .. n -> Seq(P)]
                 /\ \A i \in 1 .. n : f[i] = IF i = 1 THEN b[i] ELSE f[i - 1] \o b[i]
                 /\ FlattenSeq(b) = f[n]
    <3>1. b # <<>>
      BY <1>4
    <3> QED  BY <3>1, FlattenIs
  <2>2. SameTo(b, e, n) /\ IsJoin(g, e, n) /\ IsJoin(f, b, n)
    <3> HIDE DEF n
    <3>1. \A i \in 1 .. n : i \in 1 .. Len(e)
      BY <1>1
    <3>2. \A i \in 1 .. n : g[i] = IF i = 1 THEN e[i] ELSE g[i - 1] \o e[i]
      BY <1>2, <3>1, Zenon
    <3>3. \A i \in 1 .. n : b[i] = e[i]
      BY <1>1
    <3> QED  BY <2>1, <3>2, <3>3 DEF SameTo, IsJoin
  <2>3. \A i \in 1 .. n : f[i] = g[i]
    <3> HIDE DEF n
    <3>1. SameTo(f, g, n)
      BY <1>1, <2>2, JoinsAgree
    <3> QED  BY <3>1 DEF SameTo
  <2> DEFINE m == n + 1
  <2>4. m \in 1 .. Len(e) /\ m # 1 /\ m - 1 = n /\ n \in 1 .. n /\ e[m] = d /\ Len(e) = m
    BY <1>1, <1>4
  <2> HIDE DEF m, n
  <2>5. g[m] = g[n] \o d
    BY <1>2, <2>4
  <2> QED  BY <1>2, <2>1, <2>3, <2>4, <2>5 DEF e
<1> QED  BY <1>3, <1>4

LEMMA FlattenHead ==
    ASSUME NEW P, NEW b \in Seq(Seq(P)), b # <<>>
    PROVE  FlattenSeq(b) = Head(b) \o FlattenSeq(Tail(b))
PROOF
<1> DEFINE T == {k \in Nat : \A d \in Seq(Seq(P)) : Len(d) = k + 1 =>
                                FlattenSeq(d) = Head(d) \o FlattenSeq(Tail(d))}
<1>1. 0 \in T
  <2>1. SUFFICES ASSUME NEW d \in Seq(Seq(P)), Len(d) = 1
                 PROVE  FlattenSeq(d) = Head(d) \o FlattenSeq(Tail(d))
    OBVIOUS
  <2>2. d = <<d[1]>> /\ d[1] \in Seq(P) /\ Head(d) = d[1] /\ Tail(d) = <<>>
    <3>1. 1 \in 1 .. Len(d) /\ d # <<>>
      BY <2>1, OneElement
    <3>2. d[1] \in Seq(P)
      BY <3>1
    <3> DEFINE c == <<d[1]>>
    <3>3. c \in Seq(Seq(P)) /\ Len(c) = 1 /\ c[1] = d[1]
      BY <3>2
    <3> HIDE DEF c
    <3>4. c = d
      BY <2>1, <3>3, SeqEqual
    <3>5. Head(d) = d[1] /\ Tail(d) \in Seq(Seq(P)) /\ Len(Tail(d)) = 0
      BY <2>1, <3>1, HeadTailProperties
    <3> QED  BY <3>2, <3>4, <3>5, EmptySeq DEF c
  <2>4. FlattenSeq(d) = d[1]
    BY <2>2, FlattenOne
  <2> QED  BY <2>2, <2>4, FlattenNone, ConcatEmptySeq
<1>2. ASSUME NEW k \in Nat, k \in T PROVE k + 1 \in T
  <2>1. SUFFICES ASSUME NEW d \in Seq(Seq(P)), Len(d) = k + 2
                 PROVE  FlattenSeq(d) = Head(d) \o FlattenSeq(Tail(d))
    <3>1. k + 1 \in Nat /\ k + 1 + 1 = k + 2
      OBVIOUS
    <3> QED  BY <3>1
  <2> DEFINE c == Front(d)
             l == d[Len(d)]
  <2>2. c \in Seq(Seq(P)) /\ l \in Seq(P) /\ d = Append(c, l) /\ Len(c) = k + 1
    BY <2>1 DEF Front
  <2>3. Head(d) = Head(c) /\ Head(c) \in Seq(P) /\ Tail(c) \in Seq(Seq(P))
        /\ Tail(d) = Append(Tail(c), l)
    <3> HIDE DEF c, l
    <3> QED  BY <2>2
  <2> HIDE DEF c, l
  <2>4. FlattenSeq(c) = Head(c) \o FlattenSeq(Tail(c))
    BY <1>2, <2>2
  <2>5. FlattenSeq(d) = FlattenSeq(c) \o l /\ FlattenSeq(Tail(d)) = FlattenSeq(Tail(c)) \o l
    BY <2>2, <2>3, FlattenAppend
  <2>6. FlattenSeq(Tail(c)) \in Seq(P)
    BY <2>3, FlattenType
  <2>7. (Head(c) \o FlattenSeq(Tail(c))) \o l = Head(c) \o (FlattenSeq(Tail(c)) \o l)
    <3>1. Head(c) \in Seq(P) /\ FlattenSeq(Tail(c)) \in Seq(P) /\ l \in Seq(P)
      BY <2>2, <2>3, <2>6
    <3> DEFINE x == Head(c)
               y == FlattenSeq(Tail(c))
    <3> HIDE DEF x, y
    <3>2. x \in Seq(P) /\ y \in Seq(P) /\ l \in Seq(P)
      BY <3>1 DEF x, y
    <3>3. (x \o y) \o l = x \o (y \o l)
      <4> HIDE DEF T
      <4> QED  BY <3>2, ConcatAssociative, SMTT(30)
    <3> QED  BY <3>3 DEF x, y
  <2> HIDE DEF T
  <2> QED  BY <2>3, <2>4, <2>5, <2>7, Zenon
<1>3. \A k \in Nat : k \in T
  <2> HIDE DEF T
  <2> QED  BY <1>1, <1>2, CountUp
<1>4. Len(b) - 1 \in Nat /\ Len(b) = Len(b) - 1 + 1
  OBVIOUS
<1> QED  BY <1>3, <1>4

-----------------------------------------------------------------------------
(* Types.                                                                  *)
Kinds == {"head", "page", "404", "moved", "block", "stored", "pong", "close", "text", "end"}
Part == Nat \X Kinds \X Nat
Asked == Request \cup {NoRequest}
\* Where every handle is taken Alloc gives any value: streams do not depend on there being one.
Data == Handle \cup {0, CHOOSE g \in {} : TRUE}
Slot == [peer : Peers \cup {NoPeer}, up : BOOLEAN, len : Int, received : Nat, buffered : Nat,
         flags : SUBSET {"chunked", "body", "close"}, cgi : Cgis \cup {"none"}, data : Data,
         at : Nat, recvHdl : BOOLEAN, n : Nat, req : Asked, buf : Seq(Part),
         backlog : Seq(Seq(Part))]
Tcp == [state : {"NONE", "UP", "CLOSING"}, out : Seq(Part), got : Seq(Part),
        coming : Seq({"headers", "body", "ping", "close"}), asked : Asked, n : Nat, frames : Nat]
Heap == SUBSET Data
State == [conn : [Slots -> Slot], tcp : [Peers -> Tcp], handles : Heap,
          sockets : Seq(Slots), answer : [Peers -> Seq(Part)], res : {"MORE", "DONE", "NOTFOUND"}]

Res == {"MORE", "DONE", "NOTFOUND"}

(* The server once the CGI of slot i has made c of the slot.               *)
Into(s, i, c, h, q, r) == [s EXCEPT !.conn[i] = c, !.handles = h, !.sockets = q, !.res = r]

LEMMA IntoIs ==
    ASSUME NEW s \in State, NEW i \in Slots, NEW c, NEW h, NEW q, NEW r
    PROVE  /\ Into(s, i, c, h, q, r).conn[i] = c
           /\ Into(s, i, c, h, q, r).tcp = s.tcp
           /\ Into(s, i, c, h, q, r).handles = h
           /\ Into(s, i, c, h, q, r).sockets = q
           /\ Into(s, i, c, h, q, r).answer = s.answer
           /\ Into(s, i, c, h, q, r).res = r
PROOF
  BY DEF Into, State

LEMMA IntoType ==
    ASSUME NEW s \in State, NEW i \in Slots, NEW c \in Slot, NEW h \in Heap,
           NEW q \in Seq(Slots), NEW r \in Res
    PROVE  Into(s, i, c, h, q, r) \in State
PROOF
  BY DEF Into, State, Res

LEMMA IntoElsewhere ==
    ASSUME NEW s \in State, NEW i \in Slots, NEW c, NEW h, NEW q, NEW r, NEW j \in Slots, j # i
    PROVE  Into(s, i, c, h, q, r).conn[j] = s.conn[j]
PROOF
  BY DEF Into, State

LEMMA StateFields ==
    ASSUME NEW s \in State, NEW i \in Slots
    PROVE  /\ s.conn[i] \in Slot /\ s.handles \in Heap /\ s.sockets \in Seq(Slots)
           /\ s.res \in Res
           /\ s = Into(s, i, s.conn[i], s.handles, s.sockets, s.res)
PROOF
  BY DEF Into, State, Res

-----------------------------------------------------------------------------
(* What the CGIs are made of.                                              *)
Said(c, kind, k) == [c EXCEPT !.buf = Append(@, <<c.n, kind, k>>)]
Headed(c) == [c EXCEPT !.buf = Append(@, <<c.n, "head", 0>>), !.flags = @ \cup {"body"}]

LEMMA SlotSays ==
    ASSUME NEW c \in Slot, NEW buf \in Seq(Part), NEW flags \in SUBSET {"chunked", "body", "close"}
    PROVE  [c EXCEPT !.buf = buf] \in Slot /\ [c EXCEPT !.buf = buf, !.flags = flags] \in Slot
PROOF
  BY DEF Slot

LEMMA PartIs == ASSUME NEW n \in Nat, NEW kind \in Kinds, NEW k \in Nat PROVE <<n, kind, k>> \in Part
PROOF
  BY DEF Part

LEMMA HeadIs == ASSUME NEW n \in Nat PROVE <<n, "head", 0>> \in Part
PROOF
<1>1. "head" \in Kinds /\ 0 \in Nat
  BY DEF Kinds
<1> QED  BY <1>1, PartIs

LEMMA SaidType ==
    ASSUME NEW c \in Slot, NEW kind \in Kinds, NEW k \in Nat
    PROVE  Said(c, kind, k) \in Slot /\ Headed(c) \in Slot
PROOF
<1>1. c.n \in Nat /\ c.buf \in Seq(Part) /\ c.flags \in SUBSET {"chunked", "body", "close"}
  BY DEF Slot
<1>2. <<c.n, kind, k>> \in Part /\ <<c.n, "head", 0>> \in Part
  BY <1>1, PartIs, HeadIs
<1>3. Append(c.buf, <<c.n, kind, k>>) \in Seq(Part) /\ Append(c.buf, <<c.n, "head", 0>>) \in Seq(Part)
  BY <1>1, <1>2
<1>4. c.flags \cup {"body"} \in SUBSET {"chunked", "body", "close"}
  BY <1>1
<1> QED  BY <1>3, <1>4, SlotSays DEF Said, Headed

LEMMA SendIs ==
    ASSUME NEW s \in State, NEW i \in Slots, NEW c \in Slot, NEW h, NEW q, NEW r, NEW kind, NEW k
    PROVE  /\ SendData(Into(s, i, c, h, q, r), i, kind, k) = Into(s, i, Said(c, kind, k), h, q, r)
           /\ httpdSend(Into(s, i, c, h, q, r), i, kind) = Into(s, i, Said(c, kind, 0), h, q, r)
PROOF
<1>1. ASSUME NEW m
      PROVE  SendData(Into(s, i, c, h, q, r), i, kind, m) = Into(s, i, Said(c, kind, m), h, q, r)
  BY ZenonT(60) DEF SendData, Said, Into, State
<1> QED  BY <1>1 DEF httpdSend

Owning(c, f) == [c EXCEPT !.data = f, !.at = 0]

-----------------------------------------------------------------------------
LEMMA LeastOf ==
    ASSUME NEW I \in SUBSET Nat, I # {} PROVE \E m \in I : \A k \in I : m <= k
PROOF
<1> SUFFICES ASSUME \A m \in I : \E k \in I : ~(m <= k) PROVE FALSE
  OBVIOUS
<1>1. \A n \in Nat : n \notin I \/ \E k \in I : k < n
  OBVIOUS
<1> DEFINE U == {n \in Nat : \A k \in 0 .. n : k \notin I}
<1>2. 0 \in U
  BY <1>1
<1>3. ASSUME NEW n \in Nat, n \in U PROVE n + 1 \in U
  <2>1. n + 1 \notin I
    <3>1. \A k \in I : ~(k < n + 1)
      <4>1. \A k \in I : k < n + 1 => k \in 0 .. n
        OBVIOUS
      <4> QED  BY <1>3, <4>1
    <3> QED  BY <1>1, <3>1
  <2>2. \A k \in 0 .. n + 1 : k \in 0 .. n \/ k = n + 1
    OBVIOUS
  <2> QED  BY <1>3, <2>1, <2>2
<1>4. \A n \in Nat : n \in U
  <2> HIDE DEF U
  <2> QED  BY <1>2, <1>3, CountUp
<1>5. \A n \in Nat : n \notin I
  BY <1>4
<1> QED  BY <1>5

(* What the CGIs leave alone: who a slot belongs to, its backlog, what the SDK has. *)
Ends(c, d) == d.peer = c.peer /\ d.up = c.up /\ d.backlog = c.backlog
SameEnds(s, x) == \A j \in Slots : Ends(s.conn[j], x.conn[j])
Keeps(s, x) == x \in State /\ x.tcp = s.tcp /\ x.answer = s.answer /\ SameEnds(s, x)

LEMMA KeepsWrite ==
    ASSUME NEW s \in State, NEW i \in Slots, NEW d \in Slot, Ends(s.conn[i], d), NEW h \in Heap,
           NEW q \in Seq(Slots), NEW r \in Res
    PROVE  Keeps(s, Into(s, i, d, h, q, r))
PROOF
<1> DEFINE x == Into(s, i, d, h, q, r)
<1>1. x \in State /\ x.tcp = s.tcp /\ x.answer = s.answer /\ x.conn[i] = d
  BY IntoIs, IntoType
<1>2. ASSUME NEW j \in Slots PROVE Ends(s.conn[j], x.conn[j])
  <2>1. CASE j = i
    BY <1>1, <2>1
  <2>2. CASE j # i
    <3>1. x.conn[j] = s.conn[j]
      BY <2>2, IntoElsewhere
    <3> QED  BY <3>1 DEF Ends
  <2> QED  BY <2>1, <2>2
<1> QED  BY <1>1, <1>2 DEF Keeps, SameEnds

LEMMA KeepsTwice ==
    ASSUME NEW s, NEW x, NEW y, Keeps(s, x), Keeps(x, y) PROVE Keeps(s, y)
PROOF
  BY DEF Keeps, SameEnds, Ends

LEMMA KeepsAll == ASSUME NEW s \in State PROVE Keeps(s, s)
PROOF
  BY DEF Keeps, SameEnds, Ends

LEMMA KeepsSend ==
    ASSUME NEW s \in State, NEW i \in Slots, NEW kind \in Kinds, NEW k \in Nat
    PROVE  Keeps(s, SendData(s, i, kind, k)) /\ Keeps(s, httpdSend(s, i, kind))
PROOF
<1>1. ASSUME NEW m \in Nat PROVE Keeps(s, SendData(s, i, kind, m))
  <2> DEFINE c == s.conn[i]
             h == s.handles
             q == s.sockets
             r == s.res
  <2>1. c \in Slot /\ h \in Heap /\ q \in Seq(Slots) /\ r \in Res /\ s = Into(s, i, c, h, q, r)
    BY StateFields
  <2>2. Said(c, kind, m) \in Slot
    BY <2>1, SaidType
  <2>3. Ends(c, Said(c, kind, m))
    <3> HIDE DEF c
    <3> QED  BY <2>1 DEF Said, Ends, Slot
  <2>4. Keeps(s, Into(s, i, Said(c, kind, m), h, q, r))
    BY <2>1, <2>2, <2>3, KeepsWrite
  <2> HIDE DEF c, h, q, r
  <2>5. SendData(Into(s, i, c, h, q, r), i, kind, m) = Into(s, i, Said(c, kind, m), h, q, r)
    BY <2>1, SendIs
  <2> QED  BY <2>1, <2>4, <2>5
<1> QED  BY <1>1 DEF httpdSend

\* A field of the slot, or the result, written.
LEMMA KeepsSlot ==
    ASSUME NEW s \in State, NEW i \in Slots, NEW d \in Slot, Ends(s.conn[i], d)
    PROVE  Keeps(s, [s EXCEPT !.conn[i] = d])
PROOF
<1>1. [s EXCEPT !.conn[i] = d] = Into(s, i, d, s.handles, s.sockets, s.res)
  BY DEF Into, State
<1> QED  BY <1>1, StateFields, KeepsWrite

LEMMA KeepsResult ==
    ASSUME NEW s \in State, NEW r \in Res PROVE Keeps(s, Result(s, r)) /\ Result(s, r).res = r
PROOF
<1> DEFINE x == [s EXCEPT !.res = r]
<1>1. x \in State /\ x.res = r
  BY DEF State, Res
<1>2. x.tcp = s.tcp /\ x.answer = s.answer /\ x.conn = s.conn
  BY DEF State
<1> HIDE DEF x
<1>3. Keeps(s, x)
  BY <1>1, <1>2 DEF Keeps, SameEnds, Ends
<1> QED  BY <1>1, <1>3 DEF Result, x

LEMMA KeepsFlags ==
    ASSUME NEW s \in State, NEW i \in Slots, NEW f, f \in SUBSET {"chunked", "body", "close"}
    PROVE  Keeps(s, [s EXCEPT !.conn[i].flags = f])
PROOF
<1>1. [s EXCEPT !.conn[i].flags = f] = [s EXCEPT !.conn[i] = [s.conn[i] EXCEPT !.flags = f]]
  BY DEF State
<1>2. ASSUME NEW c \in Slot
      PROVE  [c EXCEPT !.flags = f] \in Slot /\ Ends(c, [c EXCEPT !.flags = f])
  BY DEF Slot, Ends
<1>3. [s.conn[i] EXCEPT !.flags = f] \in Slot /\ Ends(s.conn[i], [s.conn[i] EXCEPT !.flags = f])
  BY <1>2, StateFields
<1> QED  BY <1>1, <1>3, KeepsSlot

LEMMA KeepsResponse ==
    ASSUME NEW s \in State, NEW i \in Slots PROVE Keeps(s, Response(s, i))
PROOF
<1> DEFINE x == httpdSend(s, i, "head")
<1>1. Keeps(s, x)
  BY KeepsSend DEF Kinds
<1>2. x \in State
  BY <1>1 DEF Keeps
<1> HIDE DEF x
<1>3. Keeps(x, [x EXCEPT !.conn[i].flags = x.conn[i].flags \cup {"body"}])
  <2>1. x.conn[i].flags \cup {"body"} \in SUBSET {"chunked", "body", "close"}
    BY <1>2 DEF State, Slot
  <2> QED  BY <1>2, <2>1, KeepsFlags
<1>4. [x EXCEPT !.conn[i].flags = x.conn[i].flags \cup {"body"}] = [x EXCEPT !.conn[i].flags = @ \cup {"body"}]
  OBVIOUS
<1> QED  BY <1>1, <1>3, <1>4, KeepsTwice DEF Response, x

LEMMA KeepsAlloc ==
    ASSUME NEW s \in State, NEW i \in Slots PROVE Keeps(s, Alloc(s, i))
PROOF
<1> DEFINE f == CHOOSE g \in Handle \ s.handles : TRUE
           d == Owning(s.conn[i], f)
<1>1. f \in Data
  <2>1. CASE Handle \ s.handles = {}
    BY <2>1 DEF Data
  <2>2. CASE Handle \ s.handles # {}
    BY <2>2 DEF Data
  <2> QED  BY <2>1, <2>2
<1>2. Alloc(s, i) = [s EXCEPT !.handles = @ \cup {f}, !.conn[i].data = f, !.conn[i].at = 0]
  BY DEF Alloc
<1> HIDE DEF f
<1>3. [s EXCEPT !.handles = @ \cup {f}, !.conn[i].data = f, !.conn[i].at = 0]
         = Into(s, i, d, s.handles \cup {f}, s.sockets, s.res)
  BY DEF Into, Owning, State
<1>4. d \in Slot /\ Ends(s.conn[i], d)
  <2> DEFINE c == s.conn[i]
  <2>1. c \in Slot
    BY StateFields
  <2> HIDE DEF c
  <2>2. Owning(c, f) \in Slot /\ Ends(c, Owning(c, f))
    BY <1>1, <2>1 DEF Owning, Slot, Ends
  <2> QED  BY <2>2 DEF c
<1>5. s.handles \cup {f} \in Heap
  BY <1>1, StateFields DEF Heap
<1> QED  BY <1>2, <1>3, <1>4, <1>5, StateFields, KeepsWrite

LEMMA KeepsRelease ==
    ASSUME NEW s \in State, NEW i \in Slots PROVE Keeps(s, Release(s, i))
PROOF
<1> DEFINE h == IF s.conn[i].data \in s.handles THEN s.handles \ {s.conn[i].data} ELSE s.handles \cup {0}
<1>1. h \in Heap
  BY DEF State, Heap, Data
<1>2. Release(s, i) = [s EXCEPT !.handles = h]
  BY DEF Release
<1> HIDE DEF h
<1>3. Keeps(s, [s EXCEPT !.handles = h])
  BY <1>1 DEF Keeps, SameEnds, Ends, State
<1> QED  BY <1>2, <1>3

LEMMA KeepsAt ==
    ASSUME NEW s \in State, NEW i \in Slots, NEW b \in Nat
    PROVE  Keeps(s, [s EXCEPT !.conn[i].at = @ + b])
PROOF
<1>1. [s EXCEPT !.conn[i].at = @ + b] = [s EXCEPT !.conn[i] = [s.conn[i] EXCEPT !.at = @ + b]]
  BY DEF State
<1>2. ASSUME NEW c \in Slot
      PROVE  [c EXCEPT !.at = @ + b] \in Slot /\ Ends(c, [c EXCEPT !.at = @ + b])
  <2> DEFINE a == c.at + b
  <2>1. a \in Nat
    BY DEF Slot
  <2> HIDE DEF a
  <2>2. [c EXCEPT !.at = a] \in Slot /\ Ends(c, [c EXCEPT !.at = a])
    BY <2>1 DEF Slot, Ends
  <2> QED  BY <2>2 DEF a
<1>3. [s.conn[i] EXCEPT !.at = @ + b] \in Slot /\ Ends(s.conn[i], [s.conn[i] EXCEPT !.at = @ + b])
  BY <1>2, StateFields
<1> QED  BY <1>1, <1>3, KeepsSlot

-----------------------------------------------------------------------------
(* Each CGI, called for a connection or to clean up.                       *)
LEMMA KeepsPage ==
    ASSUME NEW s \in State, NEW i \in Slots
    PROVE  Keeps(s, cgiGenerateCaptivePortalLoginPage(s, i))
PROOF
<1> DEFINE x == Response(s, i)
           y == httpdSend(x, i, "page")
<1>1. Keeps(s, x) /\ x \in State
  BY KeepsResponse DEF Keeps
<1> HIDE DEF x
<1>2. Keeps(s, y) /\ y \in State
  <2>1. Keeps(x, y)
    BY <1>1, KeepsSend DEF Kinds
  <2> QED  BY <1>1, <2>1, KeepsTwice DEF Keeps
<1> HIDE DEF y
<1>3. "DONE" \in Res
  BY DEF Res
<1>4. Keeps(s, Result(s, "DONE")) /\ Keeps(s, Result(x, "DONE")) /\ Keeps(s, Result(y, "DONE"))
  BY <1>1, <1>2, <1>3, KeepsResult, KeepsTwice
<1> QED  BY <1>4 DEF cgiGenerateCaptivePortalLoginPage, x, y

LEMMA KeepsNotFound ==
    ASSUME NEW s \in State, NEW i \in Slots PROVE Keeps(s, cgiNotFound(s, i))
PROOF
<1> DEFINE x == Response(s, i)
           y == httpdSend(x, i, "404")
<1>1. Keeps(s, x) /\ x \in State
  BY KeepsResponse DEF Keeps
<1> HIDE DEF x
<1>2. Keeps(s, y) /\ y \in State
  <2>1. Keeps(x, y)
    BY <1>1, KeepsSend DEF Kinds
  <2> QED  BY <1>1, <2>1, KeepsTwice DEF Keeps
<1> HIDE DEF y
<1>3. "DONE" \in Res
  BY DEF Res
<1>4. Keeps(s, Result(s, "DONE")) /\ Keeps(s, Result(y, "DONE"))
  BY <1>2, <1>3, KeepsResult, KeepsTwice
<1> QED  BY <1>4 DEF cgiNotFound, x, y

LEMMA KeepsRedirect ==
    ASSUME NEW s \in State, NEW i \in Slots PROVE Keeps(s, cgiRedirectToHostname(s, i))
PROOF
<1> DEFINE x == Response(s, i)
           y == httpdSend(x, i, "moved")
<1>1. Keeps(s, x) /\ x \in State
  BY KeepsResponse DEF Keeps
<1> HIDE DEF x
<1>2. Keeps(s, y) /\ y \in State
  <2>1. Keeps(x, y)
    BY <1>1, KeepsSend DEF Kinds
  <2> QED  BY <1>1, <2>1, KeepsTwice DEF Keeps
<1> HIDE DEF y
<1>3. "DONE" \in Res /\ "NOTFOUND" \in Res
  BY DEF Res
<1>4. /\ Keeps(s, Result(s, "DONE")) /\ Keeps(s, Result(s, "NOTFOUND"))
      /\ Keeps(s, Result(y, "DONE"))
  BY <1>2, <1>3, KeepsResult, KeepsTwice
<1> QED  BY <1>4 DEF cgiRedirectToHostname, httpdRedirect, x, y

LEMMA KeepsFile ==
    ASSUME NEW s \in State, NEW i \in Slots PROVE Keeps(s, cgiEspFsHook(s, i))
PROOF
<1> DEFINE o == espFsOpen(s, i)
           x == Response(o, i)
           b == SendData(s, i, "block", s.conn[i].at)
           e == espFsRead(s, i)
           r == IF ReadLen(s.conn[i]) = "nothing" THEN s ELSE e
           y == espFsClose(r, i)
           z == espFsClose(s, i)
<1>1. Keeps(s, o) /\ o \in State
  BY KeepsAlloc, KeepsAll DEF espFsOpen, Keeps
<1> HIDE DEF o
<1>2. Keeps(s, x) /\ x \in State
  BY <1>1, KeepsResponse, KeepsTwice DEF Keeps
<1> HIDE DEF x
<1>3. Keeps(s, b) /\ b \in State
  <2>1. s.conn[i].at \in Nat /\ "block" \in Kinds
    BY StateFields DEF Slot, Kinds
  <2> QED  BY <2>1, KeepsSend DEF Keeps
<1>4. Keeps(s, r) /\ r \in State
  <2> HIDE DEF b
  <2>1. Keeps(b, [b EXCEPT !.conn[i].at = @ + 1])
    BY <1>3, KeepsAt
  <2>2. e = [b EXCEPT !.conn[i].at = @ + 1]
    BY DEF espFsRead, b
  <2> HIDE DEF e
  <2>3. Keeps(s, e) /\ e \in State
    BY <1>3, <2>1, <2>2, KeepsTwice, ZenonT(60) DEF Keeps
  <2> QED  BY <2>3, KeepsAll
<1> HIDE DEF r
<1>5. Keeps(s, y) /\ y \in State /\ Keeps(s, z) /\ z \in State
  BY <1>4, KeepsRelease, KeepsTwice DEF espFsClose, Keeps
<1> HIDE DEF y, z
<1>6. "DONE" \in Res /\ "NOTFOUND" \in Res /\ "MORE" \in Res
  BY DEF Res
<1>7. /\ Keeps(s, Result(z, "DONE")) /\ Keeps(s, Result(s, "NOTFOUND"))
      /\ Keeps(s, Result(x, "MORE")) /\ Keeps(s, Result(y, "DONE")) /\ Keeps(s, Result(r, "MORE"))
  BY <1>2, <1>4, <1>5, <1>6, KeepsResult, KeepsTwice
<1> QED  BY <1>7 DEF cgiEspFsHook, o, x, e, r, y, z

LEMMA KeepsUpload ==
    ASSUME NEW s \in State, NEW i \in Slots PROVE Keeps(s, cgiUploadFirmware(s, i))
PROOF
<1> DEFINE a == IF s.conn[i].data = 0 THEN Alloc(s, i) ELSE s
           t == [a EXCEPT !.conn[i].at = @ + s.conn[i].buffered]
           x == Response(t, i)
           y == SendData(x, i, "stored", t.conn[i].at)
           z == Release(y, i)
           w == Release(s, i)
<1>1. Keeps(s, a) /\ a \in State
  BY KeepsAlloc, KeepsAll DEF Keeps
<1> HIDE DEF a
<1>2. Keeps(s, t) /\ t \in State
  <2>1. s.conn[i].buffered \in Nat
    BY StateFields DEF Slot
  <2>2. Keeps(a, t)
    BY <1>1, <2>1, KeepsAt
  <2> HIDE DEF t
  <2> QED  BY <1>1, <2>2, KeepsTwice DEF Keeps
<1> HIDE DEF t
<1>3. Keeps(s, x) /\ x \in State
  BY <1>2, KeepsResponse, KeepsTwice DEF Keeps
<1> HIDE DEF x
<1>4. Keeps(s, y) /\ y \in State
  <2>1. t.conn[i].at \in Nat /\ "stored" \in Kinds
    BY <1>2, StateFields DEF Slot, Kinds
  <2> QED  BY <1>3, <2>1, KeepsSend, KeepsTwice DEF Keeps
<1> HIDE DEF y
<1>5. Keeps(s, z) /\ z \in State /\ Keeps(s, w) /\ w \in State
  BY <1>4, KeepsRelease, KeepsTwice DEF Keeps
<1> HIDE DEF z, w
<1>6. "DONE" \in Res /\ "MORE" \in Res
  BY DEF Res
<1>7. /\ Keeps(s, Result(z, "DONE")) /\ Keeps(s, Result(s, "DONE"))
      /\ Keeps(s, Result(t, "MORE")) /\ Keeps(s, Result(w, "DONE"))
  BY <1>2, <1>5, <1>6, KeepsResult, KeepsTwice
<1> QED  BY <1>7 DEF cgiUploadFirmware, a, t, x, y, z, w

LEMMA RemoveFirstType ==
    ASSUME NEW S, NEW q \in Seq(S), NEW e PROVE RemoveFirst(q, e) \in Seq(S)
PROOF
<1> DEFINE I == {k \in 1 .. Len(q) : q[k] = e}
<1>1. CASE ~\E k \in 1 .. Len(q) : q[k] = e
  BY <1>1 DEF RemoveFirst
<1>2. CASE \E k \in 1 .. Len(q) : q[k] = e
  <2>1. I # {} /\ I \in SUBSET (1 .. Len(q)) /\ I \subseteq Nat
    BY <1>2
  <2>2. PICK m \in I : \A k \in I : m <= k
    <3> HIDE DEF I
    <3>1. \E m \in I : \A k \in I : m <= k
      BY <2>1, LeastOf
    <3> QED  BY <3>1
  <2>3. Min(I) = m
    <3> HIDE DEF I
    <3>1. ASSUME NEW x \in I, \A y \in I : x <= y PROVE x = m
      BY <2>1, <2>2, <3>1
    <3> QED  BY <2>2, <3>1 DEF Min
  <2>4. RemoveFirst(q, e) = SubSeq(q, 1, m - 1) \o SubSeq(q, m + 1, Len(q))
    <3> HIDE DEF I
    <3>1. SelectInSeq(q, LAMBDA v : v = e) = m
      BY <2>1, <2>3 DEF SelectInSeq, I
    <3> QED  BY <1>2, <3>1 DEF RemoveFirst, RemoveAt
  <2>5. SubSeq(q, 1, m - 1) \in Seq(S) /\ SubSeq(q, m + 1, Len(q)) \in Seq(S)
    OBVIOUS
  <2> QED  BY <2>4, <2>5
<1> QED  BY <1>1, <1>2

LEMMA KeepsHeap ==
    ASSUME NEW s \in State, NEW i \in Slots, NEW q \in Seq(Slots), NEW d \in Slot,
           Ends(s.conn[i], d)
    PROVE  Keeps(s, [s EXCEPT !.sockets = q, !.conn[i] = d])
PROOF
<1>1. [s EXCEPT !.sockets = q, !.conn[i] = d] = Into(s, i, d, s.handles, q, s.res)
  BY DEF Into, State
<1> QED  BY <1>1, StateFields, KeepsWrite

LEMMA KeepsFree ==
    ASSUME NEW s \in State, NEW i \in Slots PROVE Keeps(s, websockFree(s, i))
PROOF
<1> DEFINE x == Release(s, i)
           q == RemoveFirst(x.sockets, i)
           d == [x.conn[i] EXCEPT !.data = 0]
<1>1. Keeps(s, x) /\ x \in State
  BY KeepsRelease DEF Keeps
<1>2. websockFree(s, i) = [x EXCEPT !.sockets = q, !.conn[i].data = 0]
  BY DEF websockFree
<1> HIDE DEF x
<1>3. q \in Seq(Slots)
  BY <1>1, StateFields, RemoveFirstType
<1>4. d \in Slot /\ Ends(x.conn[i], d)
  <2>1. ASSUME NEW c \in Slot PROVE [c EXCEPT !.data = 0] \in Slot /\ Ends(c, [c EXCEPT !.data = 0])
    BY DEF Slot, Ends, Data
  <2> QED  BY <1>1, <2>1, StateFields
<1> HIDE DEF q
<1>5. [x EXCEPT !.sockets = q, !.conn[i].data = 0] = [x EXCEPT !.sockets = q, !.conn[i] = d]
  BY <1>1 DEF State
<1> HIDE DEF d
<1>6. Keeps(x, [x EXCEPT !.sockets = q, !.conn[i] = d])
  BY <1>1, <1>3, <1>4, KeepsHeap
<1> QED  BY <1>1, <1>2, <1>5, <1>6, KeepsTwice

LEMMA KeepsSocket ==
    ASSUME NEW s \in State, NEW i \in Slots PROVE Keeps(s, cgiWebsocket(s, i))
PROOF
<1> DEFINE u == [s EXCEPT !.conn[i].flags = @ \ {"chunked"}]
           a == Alloc(u, i)
           x == Response(a, i)
           q == Append(x.sockets, i)
           d == [x.conn[i] EXCEPT !.recvHdl = TRUE]
           y == [x EXCEPT !.sockets = q, !.conn[i] = d]
           w == websockFree(s, i)
           v == Response(s, i)
<1>1. Keeps(s, u) /\ u \in State
  <2>1. s.conn[i].flags \ {"chunked"} \in SUBSET {"chunked", "body", "close"}
    BY StateFields DEF Slot
  <2>2. u = [s EXCEPT !.conn[i].flags = s.conn[i].flags \ {"chunked"}]
    OBVIOUS
  <2> HIDE DEF u
  <2> QED  BY <2>1, <2>2, KeepsFlags DEF Keeps
<1> HIDE DEF u
<1>2. Keeps(s, a) /\ a \in State
  BY <1>1, KeepsAlloc, KeepsTwice DEF Keeps
<1> HIDE DEF a
<1>3. Keeps(s, x) /\ x \in State
  BY <1>2, KeepsResponse, KeepsTwice DEF Keeps
<1> HIDE DEF x
<1>4. q \in Seq(Slots)
  BY <1>3, StateFields
<1>5. d \in Slot /\ Ends(x.conn[i], d)
  <2>1. ASSUME NEW c \in Slot
        PROVE  [c EXCEPT !.recvHdl = TRUE] \in Slot /\ Ends(c, [c EXCEPT !.recvHdl = TRUE])
    BY DEF Slot, Ends
  <2> QED  BY <1>3, <2>1, StateFields
<1>6. [x EXCEPT !.conn[i].recvHdl = TRUE, !.sockets = Append(@, i)] = y
  BY <1>3 DEF State
<1>7. Keeps(s, y) /\ y \in State
  <2> HIDE DEF q, d
  <2>1. Keeps(x, y)
    BY <1>3, <1>4, <1>5, KeepsHeap
  <2> HIDE DEF y
  <2> QED  BY <1>3, <2>1, KeepsTwice DEF Keeps
<1> HIDE DEF y
<1>8. Keeps(s, w) /\ w \in State
  BY KeepsFree DEF Keeps
<1> HIDE DEF w
<1>12. Keeps(s, v) /\ v \in State
  BY KeepsResponse DEF Keeps
<1> HIDE DEF v
<1>9. "DONE" \in Res /\ "MORE" \in Res
  BY DEF Res
<1>10. /\ Keeps(s, Result(w, "DONE")) /\ Keeps(s, Result(s, "DONE")) /\ Keeps(s, Result(v, "DONE"))
       /\ Keeps(s, Result(s, "MORE")) /\ Keeps(s, Result(y, "MORE"))
  BY <1>7, <1>8, <1>9, <1>12, KeepsResult, KeepsTwice
<1>11. cgiWebsocket(s, i) \in {Result(w, "DONE"), Result(s, "DONE"), Result(v, "DONE"),
                               Result(s, "MORE"), Result(y, "MORE")}
  BY <1>6 DEF cgiWebsocket, v, w, x, a, u
<1> QED  BY <1>10, <1>11

LEMMA KeepsCall ==
    ASSUME NEW s \in State, NEW i \in Slots, NEW cgi \in Cgis PROVE Keeps(s, Call(s, i, cgi))
PROOF
  BY KeepsPage, KeepsFile, KeepsUpload, KeepsSocket, KeepsRedirect, KeepsNotFound DEF Call, Cgis

-----------------------------------------------------------------------------
Linked(s) ==
    /\ \A i \in Slots : s.conn[i].up <=> s.conn[i].peer # NoPeer
    /\ \A i, j \in Slots : s.conn[i].peer = s.conn[j].peer /\ s.conn[i].peer # NoPeer => i = j
    /\ \A p \in Peers : s.tcp[p].state # "NONE" <=> \E i \in Slots : s.conn[i].peer = p
Streams(c, t, A) ==
    /\ t.got \o t.out \o FlattenSeq(c.backlog) = A
    /\ \A k \in 1 .. Len(c.backlog) : c.backlog[k] # <<>>
    /\ t.state = "UP" /\ c.backlog # <<>> => t.out # <<>>
Flowing(s) ==
    \A i \in Slots : s.conn[i].up =>
        Streams(s.conn[i], s.tcp[s.conn[i].peer], s.answer[s.conn[i].peer])
Good(s) == s \in State /\ Linked(s) /\ Flowing(s)

LEMMA StreamsEnds ==
    ASSUME NEW c, NEW d, NEW t, NEW A, Ends(c, d), Streams(c, t, A) PROVE Streams(d, t, A)
PROOF
  BY DEF Streams, Ends

LEMMA GoodKeeps == ASSUME NEW s, NEW x, Good(s), Keeps(s, x) PROVE Good(x)
PROOF
<1>1. /\ x \in State /\ x.tcp = s.tcp /\ x.answer = s.answer
      /\ \A j \in Slots : /\ x.conn[j].peer = s.conn[j].peer /\ x.conn[j].up = s.conn[j].up
                           /\ Ends(s.conn[j], x.conn[j])
  BY DEF Keeps, SameEnds, Ends
<1>2. Linked(x)
  BY <1>1 DEF Good, Linked
<1>3. Flowing(x)
  BY <1>1, StreamsEnds DEF Good, Flowing
<1> QED  BY <1>1, <1>2, <1>3 DEF Good

(* One connection, written: its slot, what the SDK has of it, what was to be sent. *)
Put(s, i, d, t, A) ==
    [s EXCEPT !.conn[i] = d, !.tcp[s.conn[i].peer] = t, !.answer[s.conn[i].peer] = A]
FlowsBut(s, i) ==
    \A j \in Slots \ {i} : s.conn[j].up =>
        Streams(s.conn[j], s.tcp[s.conn[j].peer], s.answer[s.conn[j].peer])
GoodBut(s, i) == s \in State /\ Linked(s) /\ s.conn[i].up /\ FlowsBut(s, i)

LEMMA GoodSlot ==
    ASSUME NEW s, NEW i \in Slots, Good(s), s.conn[i].up
    PROVE  /\ GoodBut(s, i) /\ s.conn[i].peer \in Peers /\ s.conn[i] \in Slot
           /\ s.tcp[s.conn[i].peer] \in Tcp /\ s.answer[s.conn[i].peer] \in Seq(Part)
           /\ Streams(s.conn[i], s.tcp[s.conn[i].peer], s.answer[s.conn[i].peer])
           /\ s.tcp[s.conn[i].peer].state # "NONE"
PROOF
<1>1. s \in State /\ Linked(s) /\ s.conn[i] \in Slot
  BY StateFields DEF Good
<1>2. s.conn[i].peer \in Peers
  BY <1>1 DEF Linked, Slot
<1>3. s.tcp[s.conn[i].peer] \in Tcp /\ s.answer[s.conn[i].peer] \in Seq(Part)
  BY <1>1, <1>2 DEF State
<1> QED  BY <1>1, <1>2, <1>3 DEF Good, GoodBut, Flowing, FlowsBut, Linked

LEMMA PutIs ==
    ASSUME NEW s, NEW i \in Slots, GoodBut(s, i), NEW d \in Slot, NEW t \in Tcp,
           NEW A \in Seq(Part), d.peer = s.conn[i].peer, d.up, t.state # "NONE"
    PROVE  /\ GoodBut(Put(s, i, d, t, A), i) /\ s.conn[i].peer \in Peers
           /\ Put(s, i, d, t, A).conn[i] = d
           /\ Put(s, i, d, t, A).tcp[d.peer] = t /\ Put(s, i, d, t, A).answer[d.peer] = A
           /\ Streams(d, t, A) => Good(Put(s, i, d, t, A))
           /\ Put(s, i, d, t, A).res = s.res
PROOF
<1> DEFINE x == Put(s, i, d, t, A)
           p == s.conn[i].peer
<1>1. s \in State /\ Linked(s) /\ s.conn[i] \in Slot /\ s.conn[i].up /\ FlowsBut(s, i)
  BY StateFields DEF GoodBut
<1>2. p \in Peers
  BY <1>1 DEF Linked, Slot
<1> HIDE DEF p
<1>3. x = [s EXCEPT !.conn[i] = d, !.tcp[p] = t, !.answer[p] = A]
  BY DEF Put, p
<1>4. /\ x.conn = [s.conn EXCEPT ![i] = d] /\ x.tcp = [s.tcp EXCEPT ![p] = t]
      /\ x.answer = [s.answer EXCEPT ![p] = A] /\ x.res = s.res
  BY <1>1, <1>3 DEF State
<1>5. x \in State
  <2>1. /\ [s.conn EXCEPT ![i] = d] \in [Slots -> Slot] /\ [s.tcp EXCEPT ![p] = t] \in [Peers -> Tcp]
        /\ [s.answer EXCEPT ![p] = A] \in [Peers -> Seq(Part)]
    BY <1>1, <1>2 DEF State
  <2> DEFINE f == [s.conn EXCEPT ![i] = d]
             g == [s.tcp EXCEPT ![p] = t]
             e == [s.answer EXCEPT ![p] = A]
  <2> HIDE DEF f, g, e
  <2>2. f \in [Slots -> Slot] /\ g \in [Peers -> Tcp] /\ e \in [Peers -> Seq(Part)]
    BY <2>1 DEF f, g, e
  <2>3. [s EXCEPT !.conn = f, !.tcp = g, !.answer = e] \in State
    BY <1>1, <2>2 DEF State
  <2>4. x = [s EXCEPT !.conn = f, !.tcp = g, !.answer = e]
    BY <1>3 DEF f, g, e
  <2> QED  BY <2>3, <2>4
<1> HIDE DEF x
<1>6. /\ x.conn[i] = d /\ x.tcp[p] = t /\ x.answer[p] = A
      /\ \A j \in Slots : j # i => x.conn[j] = s.conn[j]
      /\ \A o \in Peers : o # p => x.tcp[o] = s.tcp[o] /\ x.answer[o] = s.answer[o]
  BY <1>1, <1>2, <1>4 DEF State
<1>7. /\ \A j \in Slots : x.conn[j].peer = s.conn[j].peer /\ x.conn[j].up = s.conn[j].up
  BY <1>1, <1>6 DEF p, Slot
<1>8. s.tcp[p].state # "NONE"
  BY <1>1, <1>2 DEF Linked, p
<1>9. Linked(x)
  <2>1. \A o \in Peers : x.tcp[o].state # "NONE" <=> s.tcp[o].state # "NONE"
    BY <1>6, <1>8
  <2> QED  BY <1>1, <1>7, <2>1 DEF Linked
<1>10. ASSUME NEW j \in Slots \ {i}, x.conn[j].up
       PROVE  Streams(x.conn[j], x.tcp[x.conn[j].peer], x.answer[x.conn[j].peer])
  <2>1. x.conn[j] = s.conn[j] /\ s.conn[j].up /\ j \in Slots /\ j # i
    BY <1>6, <1>10
  <2>2. s.conn[j].peer \in Peers /\ s.conn[j].peer # p
    <3>1. s.conn[j].peer # NoPeer /\ s.conn[j] \in Slot
      BY <1>1, <2>1, StateFields DEF Linked
    <3>2. s.conn[j].peer # s.conn[i].peer
      BY <1>1, <2>1, <3>1 DEF Linked
    <3> QED  BY <3>1, <3>2 DEF Slot, p
  <2>3. Streams(s.conn[j], s.tcp[s.conn[j].peer], s.answer[s.conn[j].peer])
    BY <1>1, <2>1 DEF FlowsBut
  <2> QED  BY <1>6, <2>1, <2>2, <2>3
<1>11. GoodBut(x, i)
  BY <1>5, <1>6, <1>9, <1>10 DEF GoodBut, FlowsBut
<1>12. ASSUME Streams(d, t, A) PROVE Good(x)
  <2>1. ASSUME NEW j \in Slots, x.conn[j].up
        PROVE  Streams(x.conn[j], x.tcp[x.conn[j].peer], x.answer[x.conn[j].peer])
    <3>1. CASE j = i
      BY <1>6, <1>12, <3>1 DEF p
    <3>2. CASE j # i
      BY <1>10, <2>1, <3>2
    <3> QED  BY <3>1, <3>2
  <2> QED  BY <1>5, <1>9, <2>1 DEF Good, Flowing
<1> QED  BY <1>2, <1>4, <1>6, <1>11, <1>12 DEF x, p

-----------------------------------------------------------------------------
(* Sending.                                                                *)
LEMMA JoinNothing == ASSUME NEW P, NEW x \in Seq(P) PROVE x \o <<>> = x /\ <<>> \o x = x
PROOF
  OBVIOUS

Cat(x, y) == x \o y
LEMMA CatCat ==
    ASSUME NEW P, NEW x \in Seq(P), NEW y \in Seq(P), NEW z \in Seq(P)
    PROVE  Cat(Cat(x, y), z) = Cat(x, Cat(y, z))
PROOF
  BY DEF Cat

LEMMA CatMore ==
    ASSUME NEW P, NEW g \in Seq(P), NEW f \in Seq(P), NEW d \in Seq(P), NEW A, NEW e,
           Cat(g, f) = A, e = Cat(f, d)
    PROVE  Cat(g, e) = Cat(A, d)
PROOF
  BY CatCat

LEMMA StreamsSent ==
    ASSUME NEW c \in Slot, NEW d \in Slot, NEW t \in Tcp, NEW u \in Tcp, NEW A \in Seq(Part),
           NEW data \in Seq(Part), Streams(c, t, A), t.state = "UP", t.out = <<>>, data # <<>>,
           d.backlog = c.backlog, u.got = t.got, u.out = data
    PROVE  Streams(d, u, A \o data)
PROOF
<1>1. c.backlog = <<>>
  BY DEF Streams
<1>2. t.got \in Seq(Part)
  BY DEF Tcp
<1>3. t.got = A
  BY <1>1, <1>2, FlattenNone, JoinNothing DEF Streams
<1>4. u.got \o u.out \o FlattenSeq(d.backlog) = A \o data
  <2>1. A \o data \in Seq(Part) /\ FlattenSeq(d.backlog) = <<>>
    BY <1>1, FlattenNone, ConcatProperties
  <2> DEFINE x == A \o data
  <2>2. x \o <<>> = x
    <3> HIDE DEF x
    <3>1. x \in Seq(Part)
      BY <2>1 DEF x
    <3> QED  BY <3>1, JoinNothing
  <2> QED  BY <1>3, <2>1, <2>2
<1>5. ~\E k \in 1 .. Len(d.backlog) : TRUE
  BY <1>1
<1> QED  BY <1>1, <1>4, <1>5 DEF Streams

LEMMA StreamsQueued ==
    ASSUME NEW c \in Slot, NEW d \in Slot, NEW t \in Tcp, NEW A \in Seq(Part),
           NEW data \in Seq(Part), Streams(c, t, A), ~(t.state = "UP" /\ t.out = <<>>), data # <<>>,
           d.backlog = Append(c.backlog, data)
    PROVE  Streams(d, t, A \o data)
PROOF
<1> DEFINE b == c.backlog
           e == Append(b, data)
<1>1. b \in Seq(Seq(Part)) /\ t.got \in Seq(Part) /\ t.out \in Seq(Part)
  BY DEF Slot, Tcp
<1> HIDE DEF b
<1>2. FlattenSeq(e) = FlattenSeq(b) \o data /\ FlattenSeq(b) \in Seq(Part)
  BY <1>1, FlattenAppend, FlattenType
<1>3. /\ t.got \o t.out \o FlattenSeq(b) = A
      /\ \A k \in 1 .. Len(b) : b[k] # <<>>
  BY DEF Streams, b
<1>4. t.got \o t.out \o FlattenSeq(e) = A \o data
  <2> DEFINE g == t.got \o t.out
             f == FlattenSeq(b)
  <2>1. g \in Seq(Part) /\ f \in Seq(Part)
    BY <1>1, <1>2, ConcatProperties
  <2>2. Cat(g, f) = A /\ FlattenSeq(e) = Cat(f, data)
    BY <1>2, <1>3 DEF Cat
  <2> HIDE DEF g, f, e
  <2>3. Cat(g, FlattenSeq(e)) = Cat(A, data)
    BY <2>1, <2>2, CatMore
  <2> QED  BY <2>3 DEF g, Cat
<1>5. \A k \in 1 .. Len(e) : e[k] # <<>>
  <2>1. /\ Len(b) \in Nat /\ Len(e) = Len(b) + 1 /\ e[Len(b) + 1] = data
        /\ \A k \in 1 .. Len(b) : e[k] = b[k]
    BY <1>1, AppendProperties
  <2> HIDE DEF e
  <2>2. \A k \in 1 .. Len(e) : k \in 1 .. Len(b) \/ k = Len(b) + 1
    BY <2>1
  <2> QED  BY <1>3, <2>1, <2>2
<1> QED  BY <1>4, <1>5 DEF Streams, b

-----------------------------------------------------------------------------
(* Folds: the search of the Table, the frames and units that came, the sockets. *)
LEMMA GreatestOf ==
    ASSUME NEW n \in Nat, NEW T \in SUBSET (1 .. n), T # {} PROVE Max(T) \in T
PROOF
<1> DEFINE I == {n - k : k \in T}
<1>1. I \in SUBSET Nat /\ I # {}
  <2>1. \A k \in T : n - k \in Nat
    OBVIOUS
  <2> QED  BY <2>1
<1>2. PICK m \in I : \A k \in I : m <= k
  <2> HIDE DEF I
  <2> QED  BY <1>1, LeastOf
<1>3. PICK g \in T : m = n - g
  OBVIOUS
<1>4. \A k \in T : k <= g
  <2> SUFFICES ASSUME NEW k \in T PROVE k <= g
    OBVIOUS
  <2>1. n - k \in I
    OBVIOUS
  <2>2. m <= n - k
    BY <1>2, <2>1
  <2>3. k \in Int /\ g \in Int
    OBVIOUS
  <2> QED  BY <1>3, <2>2, <2>3
<1>5. Max(T) = g
  <2> HIDE DEF I
  <2> QED  BY <1>4, MaxOfSet
<1> QED  BY <1>5

(* A fold over 1 .. n that is followed step by step.                       *)
Follows(it, base, step, V, n) ==
    /\ it[{}] = base
    /\ \A k \in 1 .. n : it[1 .. k - 1] \in V => it[1 .. k] = step[k][it[1 .. k - 1]]

LEMMA FollowsKeeps ==
    ASSUME NEW V, NEW base \in V, NEW n \in Nat, NEW step \in [1 .. n -> [V -> V]],
           NEW it, Follows(it, base, step, V, n), NEW Q, base \in Q[0],
           \A k \in 1 .. n : \A x \in V : x \in Q[k - 1] => step[k][x] \in Q[k]
    PROVE  it[1 .. n] \in Q[n] /\ it[1 .. n] \in V
PROOF
<1> DEFINE S == {k \in Nat : k <= n => it[1 .. k] \in Q[k] /\ it[1 .. k] \in V}
<1>1. 0 \in S
  <2>1. 1 .. 0 = {}
    OBVIOUS
  <2> QED  BY <2>1 DEF Follows
<1>2. ASSUME NEW k \in Nat, k \in S PROVE k + 1 \in S
  <2> SUFFICES ASSUME k + 1 <= n PROVE it[1 .. k + 1] \in Q[k + 1] /\ it[1 .. k + 1] \in V
    OBVIOUS
  <2>1. k + 1 \in 1 .. n /\ k + 1 - 1 = k /\ it[1 .. k] \in Q[k] /\ it[1 .. k] \in V
    BY <1>2
  <2>2. it[1 .. k + 1] = step[k + 1][it[1 .. k]]
    BY <2>1 DEF Follows
  <2> QED  BY <2>1, <2>2
<1>3. n \in S
  <2> HIDE DEF S
  <2> QED  BY <1>1, <1>2, CountUp
<1> QED  BY <1>3

(* The function of a fold's definition, as far as its values are in V.     *)
Iterates(it, base, step, V, n) ==
    \A T \in SUBSET (1 .. n) :
        IF T = {} THEN it[T] = base
        ELSE it[T \ {Max(T)}] \in V => it[T] = step[Max(T)][it[T \ {Max(T)}]]

LEMMA IteratesFollows ==
    ASSUME NEW V, NEW base, NEW n \in Nat, NEW step, NEW it, Iterates(it, base, step, V, n)
    PROVE  Follows(it, base, step, V, n)
PROOF
<1>1. it[{}] = base
  <2>1. {} \in SUBSET (1 .. n)
    OBVIOUS
  <2> QED  BY <2>1 DEF Iterates
<1>2. ASSUME NEW k \in 1 .. n, it[1 .. k - 1] \in V PROVE it[1 .. k] = step[k][it[1 .. k - 1]]
  <2> DEFINE T == 1 .. k
  <2>1. /\ T \in SUBSET (1 .. n) /\ k \in T /\ \A j \in T : j <= k
        /\ T \ {k} = 1 .. k - 1
    <3>1. \A j \in 1 .. k : j \in 1 .. n /\ j <= k
      OBVIOUS
    <3>2. k \in 1 .. k /\ (1 .. k) \ {k} = 1 .. k - 1
      OBVIOUS
    <3> QED  BY <3>1, <3>2
  <2> HIDE DEF T
  <2>2. Max(T) = k
    BY <2>1, MaxOfSet
  <2>3. it[T] = step[k][it[1 .. k - 1]]
    BY <1>2, <2>1, <2>2 DEF Iterates
  <2> QED  BY <2>3 DEF T
<1> QED  BY <1>1, <1>2 DEF Follows

TryOn(t, i, url, e) ==
    IF t.res # "NOTFOUND" \/ url \notin e.urls THEN t
    ELSE Call(Choose(t, i, e.cgi), i, e.cgi)
Tried(s, i, url) == FoldLeft(LAMBDA t, e : TryOn(t, i, url, e), s, Table)

LEMMA TriedKeeps ==
    ASSUME NEW i, NEW url, NEW V, NEW s \in V, NEW n \in Nat, DOMAIN Table = 1 .. n,
           \A k \in 1 .. n : \A t \in V : TryOn(t, i, url, Table[k]) \in V,
           NEW Q, s \in Q[0],
           \A k \in 1 .. n : \A t \in V : t \in Q[k - 1] => TryOn(t, i, url, Table[k]) \in Q[k]
    PROVE  Tried(s, i, url) \in Q[n] /\ Tried(s, i, url) \in V
PROOF
<1> DEFINE step == [k \in 1 .. n |-> [t \in V |-> TryOn(t, i, url, Table[k])]]
           R(f) == [T \in SUBSET (1 .. n) |-> IF T = {} THEN s
                                   ELSE TryOn(f[T \ {Max(T)}], i, url, Table[Max(T)])]
           it == CHOOSE f : f = R(f)
<1>1. /\ step \in [1 .. n -> [V -> V]]
      /\ \A k \in 1 .. n : \A t \in V : step[k][t] = TryOn(t, i, url, Table[k])
  OBVIOUS
<1>2. Tried(s, i, url) = it[1 .. n]
  BY DEF Tried, FoldLeft, MapThenFoldSet
<1>3. \A T \in SUBSET (1 .. n) : T # {} => Max(T) \in T /\ Max(T) \in 1 .. n
  BY GreatestOf
<1>4. \E w : w = R(w)
  <2> HIDE DEF step
  <2>1. PICK w \in [SUBSET (1 .. n) -> V] : IsFold(w, s, step, n)
    BY <1>1, FoldExists
  <2>2. \A T \in SUBSET (1 .. n) : w[T] = IF T = {} THEN s ELSE step[Max(T)][w[T \ {Max(T)}]]
    BY <2>1 DEF IsFold
  <2>3. ASSUME NEW T \in SUBSET (1 .. n)
        PROVE  w[T] = R(w)[T]
    <3>1. T # {} => w[T \ {Max(T)}] \in V
      OBVIOUS
    <3> QED  BY <1>1, <1>3, <2>2, <3>1
  <2>4. w = R(w)
    BY <2>3
  <2> HIDE DEF R
  <2> QED  BY <2>4
<1>5. it = R(it)
  <2> HIDE DEF R
  <2> QED  BY <1>4
<1>6. Iterates(it, s, step, V, n)
  <2> SUFFICES ASSUME NEW T \in SUBSET (1 .. n)
               PROVE  IF T = {} THEN it[T] = s
                      ELSE it[T \ {Max(T)}] \in V => it[T] = step[Max(T)][it[T \ {Max(T)}]]
    BY DEF Iterates
  <2>1. it[T] = IF T = {} THEN s ELSE TryOn(it[T \ {Max(T)}], i, url, Table[Max(T)])
    <3> HIDE DEF it
    <3> QED  BY <1>5
  <2> HIDE DEF it, step
  <2> QED  BY <1>1, <1>3, <2>1
<1> HIDE DEF it, step
<1>7. \A k \in 1 .. n : \A x \in V : x \in Q[k - 1] => step[k][x] \in Q[k]
  BY <1>1
<1>8. it[1 .. n] \in Q[n] /\ it[1 .. n] \in V
  BY <1>1, <1>6, <1>7, IteratesFollows, FollowsKeeps, ZenonT(60)
<1> QED  BY <1>2, <1>8

Framed(s, i, frames) == FoldLeft(LAMBDA t, frame : Frame(t, i, frame), s, frames)

LEMMA FramedKeeps ==
    ASSUME NEW i, NEW frames, NEW V, NEW s \in V, NEW n \in Nat, DOMAIN frames = 1 .. n,
           \A k \in 1 .. n : \A t \in V : Frame(t, i, frames[k]) \in V,
           NEW Q, s \in Q[0],
           \A k \in 1 .. n : \A t \in V : t \in Q[k - 1] => Frame(t, i, frames[k]) \in Q[k]
    PROVE  Framed(s, i, frames) \in Q[n] /\ Framed(s, i, frames) \in V
PROOF
<1> DEFINE step == [k \in 1 .. n |-> [t \in V |-> Frame(t, i, frames[k])]]
           R(f) == [T \in SUBSET (1 .. n) |-> IF T = {} THEN s
                                   ELSE Frame(f[T \ {Max(T)}], i, frames[Max(T)])]
           it == CHOOSE f : f = R(f)
<1>1. /\ step \in [1 .. n -> [V -> V]]
      /\ \A k \in 1 .. n : \A t \in V : step[k][t] = Frame(t, i, frames[k])
  OBVIOUS
<1>2. Framed(s, i, frames) = it[1 .. n]
  BY DEF Framed, FoldLeft, MapThenFoldSet
<1>3. \A T \in SUBSET (1 .. n) : T # {} => Max(T) \in T /\ Max(T) \in 1 .. n
  BY GreatestOf
<1>4. \E w : w = R(w)
  <2> HIDE DEF step
  <2>1. PICK w \in [SUBSET (1 .. n) -> V] : IsFold(w, s, step, n)
    BY <1>1, FoldExists
  <2>2. \A T \in SUBSET (1 .. n) : w[T] = IF T = {} THEN s ELSE step[Max(T)][w[T \ {Max(T)}]]
    BY <2>1 DEF IsFold
  <2>3. ASSUME NEW T \in SUBSET (1 .. n)
        PROVE  w[T] = R(w)[T]
    <3>1. T # {} => w[T \ {Max(T)}] \in V
      OBVIOUS
    <3> QED  BY <1>1, <1>3, <2>2, <3>1
  <2>4. w = R(w)
    BY <2>3
  <2> HIDE DEF R
  <2> QED  BY <2>4
<1>5. it = R(it)
  <2> HIDE DEF R
  <2> QED  BY <1>4
<1>6. Iterates(it, s, step, V, n)
  <2> SUFFICES ASSUME NEW T \in SUBSET (1 .. n)
               PROVE  IF T = {} THEN it[T] = s
                      ELSE it[T \ {Max(T)}] \in V => it[T] = step[Max(T)][it[T \ {Max(T)}]]
    BY DEF Iterates
  <2>1. it[T] = IF T = {} THEN s ELSE Frame(it[T \ {Max(T)}], i, frames[Max(T)])
    <3> HIDE DEF it
    <3> QED  BY <1>5
  <2> HIDE DEF it, step
  <2> QED  BY <1>1, <1>3, <2>1
<1> HIDE DEF it, step
<1>7. \A k \in 1 .. n : \A x \in V : x \in Q[k - 1] => step[k][x] \in Q[k]
  BY <1>1
<1>8. it[1 .. n] \in Q[n] /\ it[1 .. n] \in V
  BY <1>1, <1>6, <1>7, IteratesFollows, FollowsKeeps, ZenonT(60)
<1> QED  BY <1>2, <1>8

UnitOn(acc, k, i, units, req) ==
    LET c == acc.s.conn[i] IN
    IF acc.over THEN acc
    ELSE IF c.len < 0 THEN [acc EXCEPT !.s = Headers(acc.s, i, req)]
    ELSE IF c.len # 0 THEN [acc EXCEPT !.s = PostByte(acc.s, i)]
    ELSE [s |-> Rest(acc.s, i, SubSeq(units, k, Len(units))), over |-> c.recvHdl]
UnitsTaken(s, i, units, req, ks) == FoldLeft(LAMBDA acc, k : UnitOn(acc, k, i, units, req), s, ks)

LEMMA UnitsKeeps ==
    ASSUME NEW i, NEW units, NEW req, NEW ks, NEW V, NEW s \in V, NEW n \in Nat, DOMAIN ks = 1 .. n,
           \A k \in 1 .. n : \A t \in V : UnitOn(t, ks[k], i, units, req) \in V,
           NEW Q, s \in Q[0],
           \A k \in 1 .. n : \A t \in V : t \in Q[k - 1] => UnitOn(t, ks[k], i, units, req) \in Q[k]
    PROVE  UnitsTaken(s, i, units, req, ks) \in Q[n] /\ UnitsTaken(s, i, units, req, ks) \in V
PROOF
<1> DEFINE step == [k \in 1 .. n |-> [t \in V |-> UnitOn(t, ks[k], i, units, req)]]
           R(f) == [T \in SUBSET (1 .. n) |-> IF T = {} THEN s
                                   ELSE UnitOn(f[T \ {Max(T)}], ks[Max(T)], i, units, req)]
           it == CHOOSE f : f = R(f)
<1>1. /\ step \in [1 .. n -> [V -> V]]
      /\ \A k \in 1 .. n : \A t \in V : step[k][t] = UnitOn(t, ks[k], i, units, req)
  OBVIOUS
<1>2. UnitsTaken(s, i, units, req, ks) = it[1 .. n]
  BY DEF UnitsTaken, FoldLeft, MapThenFoldSet
<1>3. \A T \in SUBSET (1 .. n) : T # {} => Max(T) \in T /\ Max(T) \in 1 .. n
  BY GreatestOf
<1>4. \E w : w = R(w)
  <2> HIDE DEF step
  <2>1. PICK w \in [SUBSET (1 .. n) -> V] : IsFold(w, s, step, n)
    BY <1>1, FoldExists
  <2>2. \A T \in SUBSET (1 .. n) : w[T] = IF T = {} THEN s ELSE step[Max(T)][w[T \ {Max(T)}]]
    BY <2>1 DEF IsFold
  <2>3. ASSUME NEW T \in SUBSET (1 .. n)
        PROVE  w[T] = R(w)[T]
    <3>1. T # {} => w[T \ {Max(T)}] \in V
      OBVIOUS
    <3> QED  BY <1>1, <1>3, <2>2, <3>1
  <2>4. w = R(w)
    BY <2>3
  <2> HIDE DEF R
  <2> QED  BY <2>4
<1>5. it = R(it)
  <2> HIDE DEF R
  <2> QED  BY <1>4
<1>6. Iterates(it, s, step, V, n)
  <2> SUFFICES ASSUME NEW T \in SUBSET (1 .. n)
               PROVE  IF T = {} THEN it[T] = s
                      ELSE it[T \ {Max(T)}] \in V => it[T] = step[Max(T)][it[T \ {Max(T)}]]
    BY DEF Iterates
  <2>1. it[T] = IF T = {} THEN s ELSE UnitOn(it[T \ {Max(T)}], ks[Max(T)], i, units, req)
    <3> HIDE DEF it
    <3> QED  BY <1>5
  <2> HIDE DEF it, step
  <2> QED  BY <1>1, <1>3, <2>1
<1> HIDE DEF it, step
<1>7. \A k \in 1 .. n : \A x \in V : x \in Q[k - 1] => step[k][x] \in Q[k]
  BY <1>1
<1>8. it[1 .. n] \in Q[n] /\ it[1 .. n] \in V
  BY <1>1, <1>6, <1>7, IteratesFollows, FollowsKeeps, ZenonT(60)
<1> QED  BY <1>2, <1>8

SendOn(s, i) ==
    httpdFlushSendBuffer(httpdSend([s EXCEPT !.conn[i].buf = <<>>], i, "text"), i)
SentToAll(s, q) == FoldLeft(SendOn, s, q)

LEMMA SentKeeps ==
    ASSUME NEW q, NEW V, NEW s \in V, NEW n \in Nat, DOMAIN q = 1 .. n,
           \A k \in 1 .. n : \A t \in V : SendOn(t, q[k]) \in V,
           NEW Q, s \in Q[0],
           \A k \in 1 .. n : \A t \in V : t \in Q[k - 1] => SendOn(t, q[k]) \in Q[k]
    PROVE  SentToAll(s, q) \in Q[n] /\ SentToAll(s, q) \in V
PROOF
<1> DEFINE step == [k \in 1 .. n |-> [t \in V |-> SendOn(t, q[k])]]
           R(f) == [T \in SUBSET (1 .. n) |-> IF T = {} THEN s
                                   ELSE SendOn(f[T \ {Max(T)}], q[Max(T)])]
           it == CHOOSE f : f = R(f)
<1>1. /\ step \in [1 .. n -> [V -> V]]
      /\ \A k \in 1 .. n : \A t \in V : step[k][t] = SendOn(t, q[k])
  OBVIOUS
<1>2. SentToAll(s, q) = it[1 .. n]
  BY DEF SentToAll, FoldLeft, MapThenFoldSet
<1>3. \A T \in SUBSET (1 .. n) : T # {} => Max(T) \in T /\ Max(T) \in 1 .. n
  BY GreatestOf
<1>4. \E w : w = R(w)
  <2> HIDE DEF step
  <2>1. PICK w \in [SUBSET (1 .. n) -> V] : IsFold(w, s, step, n)
    BY <1>1, FoldExists
  <2>2. \A T \in SUBSET (1 .. n) : w[T] = IF T = {} THEN s ELSE step[Max(T)][w[T \ {Max(T)}]]
    BY <2>1 DEF IsFold
  <2>3. ASSUME NEW T \in SUBSET (1 .. n)
        PROVE  w[T] = R(w)[T]
    <3>1. T # {} => w[T \ {Max(T)}] \in V
      OBVIOUS
    <3> QED  BY <1>1, <1>3, <2>2, <3>1
  <2>4. w = R(w)
    BY <2>3
  <2> HIDE DEF R
  <2> QED  BY <2>4
<1>5. it = R(it)
  <2> HIDE DEF R
  <2> QED  BY <1>4
<1>6. Iterates(it, s, step, V, n)
  <2> SUFFICES ASSUME NEW T \in SUBSET (1 .. n)
               PROVE  IF T = {} THEN it[T] = s
                      ELSE it[T \ {Max(T)}] \in V => it[T] = step[Max(T)][it[T \ {Max(T)}]]
    BY DEF Iterates
  <2>1. it[T] = IF T = {} THEN s ELSE SendOn(it[T \ {Max(T)}], q[Max(T)])
    <3> HIDE DEF it
    <3> QED  BY <1>5
  <2> HIDE DEF it, step
  <2> QED  BY <1>1, <1>3, <2>1
<1> HIDE DEF it, step
<1>7. \A k \in 1 .. n : \A x \in V : x \in Q[k - 1] => step[k][x] \in Q[k]
  BY <1>1
<1>8. it[1 .. n] \in Q[n] /\ it[1 .. n] \in V
  BY <1>1, <1>6, <1>7, IteratesFollows, FollowsKeeps, ZenonT(60)
<1> QED  BY <1>2, <1>8

-----------------------------------------------------------------------------
(* httpdFlushSendBuffer.                                                   *)
LastPart(c) == IF {"chunked", "body"} \subseteq c.flags /\ c.cgi = "none"
               THEN <<<<c.n, "end", 0>>>> ELSE <<>>
Flushed(c) == c.buf \o LastPart(c)
Emptied(c) == [c EXCEPT !.buf = <<>>]
Queued(c, data) == [c EXCEPT !.buf = <<>>, !.backlog = Append(@, data)]
Sending(t, data) == [t EXCEPT !.out = data]

LEMMA FlushedType == ASSUME NEW c \in Slot PROVE Flushed(c) \in Seq(Part)
PROOF
<1>1. "end" \in Kinds /\ 0 \in Nat /\ c.n \in Nat /\ c.buf \in Seq(Part)
  BY DEF Kinds, Slot
<1>2. <<c.n, "end", 0>> \in Part
  BY <1>1, PartIs
<1>3. LastPart(c) \in Seq(Part)
  <2> DEFINE x == <<c.n, "end", 0>>
  <2>1. <<x>> \in Seq(Part) /\ <<>> \in Seq(Part)
    <3> HIDE DEF x
    <3>1. x \in Part
      BY <1>2 DEF x
    <3> QED  BY <3>1
  <2> QED  BY <2>1 DEF LastPart
<1> QED  BY <1>1, <1>3, ConcatProperties DEF Flushed

LEMMA EmptiedIs ==
    ASSUME NEW c \in Slot, NEW data \in Seq(Part)
    PROVE  /\ Emptied(c) \in Slot /\ Ends(c, Emptied(c)) /\ Queued(c, data) \in Slot
           /\ Queued(c, data).peer = c.peer /\ Queued(c, data).up = c.up
           /\ Queued(c, data).backlog = Append(c.backlog, data)
PROOF
<1>1. c.backlog \in Seq(Seq(Part)) /\ Append(c.backlog, data) \in Seq(Seq(Part))
  BY DEF Slot
<1>2. <<>> \in Seq(Part)
  OBVIOUS
<1> QED  BY <1>1, <1>2 DEF Emptied, Queued, Slot, Ends

LEMMA SendingIs ==
    ASSUME NEW t \in Tcp, NEW data \in Seq(Part)
    PROVE  /\ Sending(t, data) \in Tcp /\ Sending(t, data).got = t.got
           /\ Sending(t, data).out = data /\ Sending(t, data).state = t.state
PROOF
  BY DEF Sending, Tcp

\* What httpdFlushSendBuffer does: nothing, or it sends, or drops, or queues.
LEMMA FlushIs ==
    ASSUME NEW s \in State, NEW i \in Slots, NEW c, c = s.conn[i], NEW t, t = s.tcp[c.peer],
           NEW A, A = s.answer[c.peer], NEW x, x = httpdFlushSendBuffer(s, i),
           c.up => c.peer \in Peers
    PROVE  \/ (~c.up \/ Flushed(c) = <<>>) /\ x = s
           \/ /\ c.up /\ Flushed(c) # <<>> /\ t.state = "UP" /\ t.out = <<>>
              /\ x = Put(s, i, Emptied(c), Sending(t, Flushed(c)), A \o Flushed(c))
           \/ /\ c.up /\ Flushed(c) # <<>> /\ ~(t.state = "UP" /\ t.out = <<>>)
              /\ Len(c.backlog) = MaxBacklog
              /\ x = [s EXCEPT !.conn[i] = Emptied(c)]
           \/ /\ c.up /\ Flushed(c) # <<>> /\ ~(t.state = "UP" /\ t.out = <<>>)
              /\ Len(c.backlog) # MaxBacklog
              /\ x = Put(s, i, Queued(c, Flushed(c)), t, A \o Flushed(c))
PROOF
<1> DEFINE p == c.peer
           d == Flushed(c)
           sent == [s EXCEPT !.conn[i].buf = <<>>, !.answer[p] = @ \o d]
<1>1. x = IF ~c.up \/ d = <<>> THEN s
          ELSE IF t.state = "UP" /\ t.out = <<>> THEN [sent EXCEPT !.tcp[p].out = d]
          ELSE IF Len(c.backlog) = MaxBacklog THEN [s EXCEPT !.conn[i].buf = <<>>]
          ELSE [sent EXCEPT !.conn[i].backlog = Append(@, d)]
  BY ZenonT(200) DEF httpdFlushSendBuffer, CanSend, Flushed, LastPart
<1> HIDE DEF d
<1>2. [s EXCEPT !.conn[i].buf = <<>>] = [s EXCEPT !.conn[i] = Emptied(c)]
  BY DEF Emptied, State
<1>3. ASSUME c.up PROVE [sent EXCEPT !.tcp[p].out = d] = Put(s, i, Emptied(c), Sending(t, d), A \o d)
  <2> HIDE DEF p
  <2>1. p \in Peers /\ p = c.peer
    BY <1>3 DEF p
  <2>2. sent = [s EXCEPT !.conn[i] = Emptied(c), !.answer[p] = A \o d]
    BY <2>1 DEF Emptied, State
  <2>3. [sent EXCEPT !.tcp[p].out = d]
          = [s EXCEPT !.conn[i] = Emptied(c), !.answer[p] = A \o d, !.tcp[p] = Sending(t, d)]
    <3> HIDE DEF sent
    <3>1. sent.tcp = s.tcp
      BY <2>2 DEF State
    <3> QED  BY <2>1, <2>2, <3>1 DEF Sending, State
  <2> HIDE DEF sent
  <2> QED  BY <2>1, <2>3 DEF Put, State
<1>4. ASSUME c.up
      PROVE  [sent EXCEPT !.conn[i].backlog = Append(@, d)] = Put(s, i, Queued(c, d), t, A \o d)
  <2> HIDE DEF p
  <2>1. p \in Peers /\ p = c.peer
    BY <1>4 DEF p
  <2>2. sent = [s EXCEPT !.conn[i] = Emptied(c), !.answer[p] = A \o d]
    BY <2>1 DEF Emptied, State
  <2>3. [sent EXCEPT !.conn[i].backlog = Append(@, d)]
          = [s EXCEPT !.conn[i] = Queued(c, d), !.answer[p] = A \o d]
    <3>1. sent.conn[i] = Emptied(c) /\ Emptied(c).backlog = c.backlog
      <4> HIDE DEF sent
      <4> QED  BY <2>2, ZenonT(60) DEF State, Emptied, Slot
    <3>2. [Emptied(c) EXCEPT !.backlog = Append(c.backlog, d)] = Queued(c, d)
      BY DEF Emptied, Queued
    <3> HIDE DEF sent
    <3> QED  BY <2>2, <3>1, <3>2, ZenonT(60) DEF State
  <2>4. s.tcp = [s.tcp EXCEPT ![p] = t]
    BY <2>1 DEF State
  <2> HIDE DEF sent
  <2>5. [s EXCEPT !.conn[i] = Queued(c, d), !.answer[p] = A \o d]
           = [s EXCEPT !.conn[i] = Queued(c, d), !.tcp = s.tcp, !.answer[p] = A \o d]
    BY DEF State
  <2>6. [s EXCEPT !.conn[i] = Queued(c, d), !.tcp[p] = t, !.answer[p] = A \o d]
           = [s EXCEPT !.conn[i] = Queued(c, d), !.tcp = s.tcp, !.answer[p] = A \o d]
    BY <2>4
  <2> QED  BY <2>1, <2>3, <2>5, <2>6 DEF Put
<1> HIDE DEF sent
<1> QED  BY <1>1, <1>2, <1>3, <1>4 DEF d

LEMMA GoodFlush ==
    ASSUME NEW s, NEW i \in Slots, Good(s) PROVE Good(httpdFlushSendBuffer(s, i))
PROOF
<1> DEFINE c == s.conn[i]
           t == s.tcp[c.peer]
           A == s.answer[c.peer]
           d == Flushed(c)
           x == httpdFlushSendBuffer(s, i)
<1>1. s \in State /\ c \in Slot /\ (c.up => c.peer \in Peers) /\ d \in Seq(Part)
  BY StateFields, GoodSlot, FlushedType DEF Good
<1>2. CASE ~c.up \/ d = <<>>
  BY <1>1, <1>2, FlushIs
<1>3. CASE c.up /\ d # <<>>
  <2>1. /\ GoodBut(s, i) /\ t \in Tcp /\ A \in Seq(Part) /\ Streams(c, t, A) /\ t.state # "NONE"
    BY <1>3, GoodSlot
  <2> HIDE DEF c, t, A, d
  <2>2. A \o d \in Seq(Part)
    BY <1>1, <2>1, ConcatProperties
  <2>3. /\ Emptied(c) \in Slot /\ Ends(c, Emptied(c)) /\ Queued(c, d) \in Slot
        /\ Queued(c, d).peer = c.peer /\ Queued(c, d).up = c.up
        /\ Queued(c, d).backlog = Append(c.backlog, d)
    BY <1>1, EmptiedIs
  <2>4. /\ Sending(t, d) \in Tcp /\ Sending(t, d).got = t.got /\ Sending(t, d).out = d
        /\ Sending(t, d).state = t.state
    BY <1>1, <2>1, SendingIs
  <2>5. ASSUME t.state = "UP", t.out = <<>> PROVE Good(Put(s, i, Emptied(c), Sending(t, d), A \o d))
    <3>1. Streams(Emptied(c), Sending(t, d), A \o d)
      BY <1>1, <1>3, <2>1, <2>3, <2>4, <2>5, StreamsSent DEF Ends
    <3> QED  BY <1>3, <2>1, <2>2, <2>3, <2>4, <3>1, PutIs DEF Ends, c
  <2>6. ASSUME ~(t.state = "UP" /\ t.out = <<>>) PROVE Good(Put(s, i, Queued(c, d), t, A \o d))
    <3>1. Streams(Queued(c, d), t, A \o d)
      BY <1>1, <1>3, <2>1, <2>3, <2>6, StreamsQueued
    <3> QED  BY <1>3, <2>1, <2>2, <2>3, <3>1, PutIs DEF c
  <2>7. Good([s EXCEPT !.conn[i] = Emptied(c)])
    <3> DEFINE e == Emptied(c)
    <3>1. e \in Slot /\ Ends(s.conn[i], e)
      BY <2>3 DEF c
    <3> HIDE DEF e
    <3>2. Keeps(s, [s EXCEPT !.conn[i] = e])
      BY <1>1, <3>1, KeepsSlot
    <3> QED  BY <3>2, GoodKeeps DEF e
  <2>8. \/ x = Put(s, i, Emptied(c), Sending(t, d), A \o d) /\ t.state = "UP" /\ t.out = <<>>
        \/ x = Put(s, i, Queued(c, d), t, A \o d) /\ ~(t.state = "UP" /\ t.out = <<>>)
        \/ x = [s EXCEPT !.conn[i] = Emptied(c)]
    BY <1>1, <1>3, FlushIs DEF c, t, A, d
  <2> HIDE DEF x
  <2>9. Good(x)
    BY <2>5, <2>6, <2>7, <2>8
  <2> QED  BY <2>9 DEF x
<1> QED  BY <1>2, <1>3

-----------------------------------------------------------------------------
(* The slot as the parser and the end of a request write it.               *)
Idle(c) == [c EXCEPT !.cgi = "none"]
Chosen(c, cgi) == [c EXCEPT !.cgi = cgi, !.data = 0]
Renewed(c) == [c EXCEPT !.len = -1, !.flags = {}, !.buffered = 0, !.received = 0]
Parsed(c, req) == [c EXCEPT !.n = @ + 1, !.req = req, !.len = req.body,
                            !.flags = @ \cup (IF req.keep THEN {"chunked"} ELSE {})]
Fed(c) == [c EXCEPT !.buffered = @ + 1, !.received = @ + 1]
Drained(c) == [c EXCEPT !.buffered = 0]

LEMMA WritesType ==
    ASSUME NEW c \in Slot, NEW cgi \in Cgis, NEW req \in Asked
    PROVE  /\ Idle(c) \in Slot /\ Ends(c, Idle(c))
           /\ Chosen(c, cgi) \in Slot /\ Ends(c, Chosen(c, cgi))
           /\ [c EXCEPT !.cgi = cgi] \in Slot /\ Ends(c, [c EXCEPT !.cgi = cgi])
           /\ Renewed(c) \in Slot /\ Ends(c, Renewed(c))
           /\ Parsed(c, req) \in Slot /\ Ends(c, Parsed(c, req))
           /\ Fed(c) \in Slot /\ Ends(c, Fed(c))
           /\ Drained(c) \in Slot /\ Ends(c, Drained(c))
PROOF
<1>1. Idle(c) \in Slot /\ Ends(c, Idle(c))
  BY DEF Idle, Slot, Ends
<1>2. Chosen(c, cgi) \in Slot /\ Ends(c, Chosen(c, cgi))
  BY DEF Chosen, Slot, Ends, Data
<1>3. [c EXCEPT !.cgi = cgi] \in Slot /\ Ends(c, [c EXCEPT !.cgi = cgi])
  BY DEF Slot, Ends
<1>4. Renewed(c) \in Slot /\ Ends(c, Renewed(c))
  <2> DEFINE m == -1
  <2>1. m \in Int
    OBVIOUS
  <2> HIDE DEF m
  <2>2. /\ [c EXCEPT !.len = m, !.flags = {}, !.buffered = 0, !.received = 0] \in Slot
        /\ Ends(c, [c EXCEPT !.len = m, !.flags = {}, !.buffered = 0, !.received = 0])
    BY <2>1 DEF Slot, Ends
  <2> QED  BY <2>2 DEF Renewed, m
<1>5. Parsed(c, req) \in Slot /\ Ends(c, Parsed(c, req))
  <2> DEFINE n == c.n + 1
             len == req.body
             f == c.flags \cup (IF req.keep THEN {"chunked"} ELSE {})
  <2>1. n \in Nat /\ len \in Int /\ f \in SUBSET {"chunked", "body", "close"}
    BY DEF Slot, Asked, Request, NoRequest
  <2> HIDE DEF n, len, f
  <2>2. /\ [c EXCEPT !.n = n, !.req = req, !.len = len, !.flags = f] \in Slot
        /\ Ends(c, [c EXCEPT !.n = n, !.req = req, !.len = len, !.flags = f])
    BY <2>1 DEF Slot, Ends
  <2> QED  BY <2>2 DEF Parsed, n, len, f
<1>6. Fed(c) \in Slot /\ Ends(c, Fed(c))
  <2> DEFINE b == c.buffered + 1
             r == c.received + 1
  <2>1. b \in Nat /\ r \in Nat
    BY DEF Slot
  <2> HIDE DEF b, r
  <2>2. [c EXCEPT !.buffered = b, !.received = r] \in Slot /\ Ends(c, [c EXCEPT !.buffered = b, !.received = r])
    BY <2>1 DEF Slot, Ends
  <2> QED  BY <2>2 DEF Fed, b, r
<1>7. Drained(c) \in Slot /\ Ends(c, Drained(c))
  BY DEF Drained, Slot, Ends
<1> QED  BY <1>1, <1>2, <1>3, <1>4, <1>5, <1>6, <1>7

LEMMA ChooseIs ==
    ASSUME NEW s \in State, NEW i \in Slots, NEW cgi
    PROVE  Choose(s, i, cgi) = [s EXCEPT !.conn[i] = Chosen(s.conn[i], cgi)]
PROOF
  BY DEF Choose, Chosen, State

LEMMA ParseIs ==
    ASSUME NEW s \in State, NEW i \in Slots, NEW req
    PROVE  httpdParseHeaders(s, i, req) = [s EXCEPT !.conn[i] = Parsed(s.conn[i], req)]
PROOF
<1> DEFINE c == s.conn[i]
           n == c.n + 1
           f == c.flags \cup (IF req.keep THEN {"chunked"} ELSE {})
           x == [s EXCEPT !.conn[i].n = n]
           y == [x EXCEPT !.conn[i].req = req]
           z == [y EXCEPT !.conn[i].len = req.body]
           d == [c EXCEPT !.n = n]
           e == [d EXCEPT !.req = req]
           g == [e EXCEPT !.len = req.body]
<1>1. c \in Slot
  BY StateFields
<1>2. Parsed(c, req) = [g EXCEPT !.flags = f]
  <2>1. g.flags = c.flags
    BY <1>1 DEF Slot
  <2> QED  BY <2>1 DEF Parsed
<1>3. x = [s EXCEPT !.conn[i] = d]
  BY DEF State
<1>4. y = [s EXCEPT !.conn[i] = e]
  <2> HIDE DEF x, d
  <2> QED  BY <1>3 DEF State
<1>5. z = [s EXCEPT !.conn[i] = g]
  <2> HIDE DEF y, e
  <2> QED  BY <1>4 DEF State
<1>6. z.conn[i] = g /\ g.flags = c.flags
  <2>1. g.flags = c.flags
    BY <1>1 DEF Slot
  <2> HIDE DEF z, g
  <2> QED  BY <1>5, <2>1 DEF State
<1>7. httpdParseHeaders(s, i, req) = [z EXCEPT !.conn[i].flags = f]
  BY DEF httpdParseHeaders
<1>8. [z EXCEPT !.conn[i].flags = f] = [s EXCEPT !.conn[i] = [g EXCEPT !.flags = f]]
  <2> HIDE DEF z, g, f
  <2> QED  BY <1>5 DEF State
<1> QED  BY <1>2, <1>7, <1>8

LEMMA WritesAre ==
    ASSUME NEW s \in State, NEW i \in Slots
    PROVE  /\ [s EXCEPT !.conn[i].cgi = "none"] = [s EXCEPT !.conn[i] = Idle(s.conn[i])]
           /\ [s EXCEPT !.conn[i].buffered = @ + 1, !.conn[i].received = @ + 1]
                 = [s EXCEPT !.conn[i] = Fed(s.conn[i])]
           /\ [s EXCEPT !.conn[i].buffered = 0] = [s EXCEPT !.conn[i] = Drained(s.conn[i])]
           /\ [s EXCEPT !.conn[i].len = -1, !.conn[i].flags = {}, !.conn[i].buffered = 0,
                        !.conn[i].received = 0] = [s EXCEPT !.conn[i] = Renewed(s.conn[i])]
PROOF
<1>1. [s EXCEPT !.conn[i].cgi = "none"] = [s EXCEPT !.conn[i] = Idle(s.conn[i])]
  BY DEF Idle, State
<1>4. [s EXCEPT !.conn[i].buffered = @ + 1, !.conn[i].received = @ + 1]
                 = [s EXCEPT !.conn[i] = Fed(s.conn[i])]
  BY DEF Fed, State
<1>5. [s EXCEPT !.conn[i].buffered = 0] = [s EXCEPT !.conn[i] = Drained(s.conn[i])]
  BY DEF Drained, State
<1>6. [s EXCEPT !.conn[i].len = -1, !.conn[i].flags = {}, !.conn[i].buffered = 0,
                !.conn[i].received = 0] = [s EXCEPT !.conn[i] = Renewed(s.conn[i])]
  BY ZenonT(60) DEF Renewed, State
<1> QED  BY <1>1, <1>4, <1>5, <1>6

-----------------------------------------------------------------------------
(* httpdCgiIsDone, httpdProcessRequest, httpdRecvCb.                       *)
Goods == {s \in State : Good(s)}
LEMMA GoodsAre == ASSUME NEW s PROVE (s \in Goods <=> Good(s)) /\ (Good(s) => s \in State)
PROOF
  BY DEF Goods, Good

LEMMA GoodWrite ==
    ASSUME NEW s, NEW i \in Slots, Good(s), NEW d \in Slot, Ends(s.conn[i], d)
    PROVE  Good([s EXCEPT !.conn[i] = d])
PROOF
  BY GoodsAre, KeepsSlot, GoodKeeps

LEMMA GoodCall ==
    ASSUME NEW s, NEW i \in Slots, Good(s), NEW cgi \in Cgis PROVE Good(Call(s, i, cgi))
PROOF
  BY GoodsAre, KeepsCall, GoodKeeps

(* The end of a request, and the search for the CGI of the next.           *)
LEMMA GoodDone ==
    ASSUME NEW s, NEW i \in Slots, Good(s) PROVE Good(httpdCgiIsDone(s, i))
PROOF
<1> DEFINE d == [s EXCEPT !.conn[i].cgi = "none"]
           f == httpdFlushSendBuffer(d, i)
           e == [f EXCEPT !.conn[i].len = -1, !.conn[i].flags = {}, !.conn[i].buffered = 0,
                          !.conn[i].received = 0]
           g == d.conn[i].flags \cup {"close"}
           h == [d EXCEPT !.conn[i].flags = g]
<1>1. Good(d) /\ d \in State
  <2> DEFINE c == Idle(s.conn[i])
  <2>1. s \in State /\ s.conn[i] \in Slot
    BY GoodsAre, StateFields
  <2>2. c \in Slot /\ Ends(s.conn[i], c) /\ d = [s EXCEPT !.conn[i] = c]
    <3>1. "page" \in Cgis /\ NoRequest \in Asked
      BY DEF Cgis, Asked
    <3> QED  BY <2>1, <3>1, WritesType, WritesAre
  <2> HIDE DEF c, d
  <2> QED  BY <2>2, GoodWrite, GoodsAre
<1> HIDE DEF d
<1>2. Good(f) /\ f \in State
  BY <1>1, GoodFlush, GoodsAre
<1> HIDE DEF f
<1>3. Good(e)
  <2> DEFINE c == Renewed(f.conn[i])
  <2>1. f.conn[i] \in Slot
    BY <1>2, StateFields
  <2>2. c \in Slot /\ Ends(f.conn[i], c) /\ e = [f EXCEPT !.conn[i] = c]
    <3>1. "page" \in Cgis /\ NoRequest \in Asked
      BY DEF Cgis, Asked
    <3> QED  BY <1>2, <2>1, <3>1, WritesType, WritesAre
  <2> HIDE DEF c, e
  <2> QED  BY <1>2, <2>2, GoodWrite
<1>4. Good(h)
  <2>1. g \in SUBSET {"chunked", "body", "close"}
    BY <1>1, StateFields DEF Slot
  <2> HIDE DEF g
  <2> QED  BY <1>1, <2>1, KeepsFlags, GoodKeeps
<1>5. httpdCgiIsDone(s, i) = IF "chunked" \in s.conn[i].flags THEN e ELSE h
  BY DEF httpdCgiIsDone, d, f
<1> HIDE DEF e, h
<1> QED  BY <1>3, <1>4, <1>5

LEMMA GoodTry ==
    ASSUME NEW t, NEW i \in Slots, Good(t), NEW url, NEW e, e.cgi \in Cgis PROVE Good(TryOn(t, i, url, e))
PROOF
<1> DEFINE g == e.cgi
           c == Chosen(t.conn[i], g)
           x == Choose(t, i, g)
<1>1. t \in State /\ t.conn[i] \in Slot /\ g \in Cgis
  BY GoodsAre, StateFields
<1> HIDE DEF g
<1>2. c \in Slot /\ Ends(t.conn[i], c) /\ x = [t EXCEPT !.conn[i] = c]
  <2>1. NoRequest \in Asked
    BY DEF Asked
  <2>2. c \in Slot /\ Ends(t.conn[i], c)
    BY <1>1, <2>1, WritesType
  <2>3. x = [t EXCEPT !.conn[i] = c]
    BY <1>1, ChooseIs
  <2> QED  BY <2>2, <2>3
<1>3. Good(x)
  <2> HIDE DEF c, x
  <2> QED  BY <1>2, GoodWrite
<1>4. Good(Call(x, i, g))
  <2> HIDE DEF x
  <2> QED  BY <1>1, <1>3, GoodCall
<1> QED  BY <1>4 DEF TryOn, g

LEMMA TableIs ==
    /\ Len(Table) \in Nat /\ DOMAIN Table = 1 .. Len(Table)
    /\ \A k \in 1 .. Len(Table) : Table[k].cgi \in Cgis
PROOF
<1> DEFINE E == [urls : SUBSET STRING, cgi : Cgis]
<1>1. Table \in Seq(E)
  BY HttpdAssumption
<1>2. \A e \in E : e.cgi \in Cgis
  OBVIOUS
<1> HIDE DEF E
<1> QED  BY <1>1, <1>2

LEMMA GoodTried ==
    ASSUME NEW s, NEW i \in Slots, Good(s), NEW url PROVE Good(Tried(s, i, url))
PROOF
<1> DEFINE n == Len(Table)
           Q == [k \in 0 .. n |-> Goods]
<1>1. s \in Goods /\ n \in Nat /\ DOMAIN Table = 1 .. n
  BY GoodsAre, TableIs
<1>2. \A k \in 1 .. n : \A t \in Goods : TryOn(t, i, url, Table[k]) \in Goods
  BY GoodsAre, TableIs, GoodTry
<1>3. s \in Q[0] /\ \A k \in 1 .. n : Q[k] = Goods
  BY <1>1
<1>4. \A k \in 1 .. n : \A t \in Goods : t \in Q[k - 1] => TryOn(t, i, url, Table[k]) \in Q[k]
  BY <1>2, <1>3
<1> HIDE DEF Q, n
<1>5. Tried(s, i, url) \in Goods
  BY <1>1, <1>2, <1>3, <1>4, TriedKeeps
<1> QED  BY <1>5, GoodsAre

ProcessedBy(s, i, t) ==
    LET found == IF t.res # "NOTFOUND" THEN t
                 ELSE cgiNotFound([t EXCEPT !.conn[i].cgi = "404"], i)
    IN IF found.res = "MORE" THEN httpdFlushSendBuffer(found, i) ELSE httpdCgiIsDone(found, i)
LEMMA ProcessIs ==
    ASSUME NEW s, NEW i
    PROVE  httpdProcessRequest(s, i) = ProcessedBy(s, i, Tried(Result(s, "NOTFOUND"), i, s.conn[i].req.url))
PROOF
  BY DEF httpdProcessRequest, ProcessedBy, Tried, TryOn

LEMMA GoodProcess ==
    ASSUME NEW s, NEW i \in Slots, Good(s) PROVE Good(httpdProcessRequest(s, i))
PROOF
<1> DEFINE t == Tried(Result(s, "NOTFOUND"), i, s.conn[i].req.url)
           x == [t EXCEPT !.conn[i].cgi = "404"]
           f == IF t.res # "NOTFOUND" THEN t ELSE cgiNotFound(x, i)
<1>1. Good(t) /\ t \in State
  <2>1. Good(Result(s, "NOTFOUND"))
    BY GoodsAre, KeepsResult, GoodKeeps DEF Res
  <2> QED  BY <2>1, GoodTried, GoodsAre
<1> HIDE DEF t
<1>2. Good(x) /\ x \in State
  <2> DEFINE c == [t.conn[i] EXCEPT !.cgi = "404"]
  <2>1. c \in Slot /\ Ends(t.conn[i], c)
    <3>1. "404" \in Cgis /\ NoRequest \in Asked /\ t.conn[i] \in Slot
      BY <1>1, StateFields DEF Cgis, Asked
    <3> QED  BY <3>1, WritesType
  <2>2. x = [t EXCEPT !.conn[i] = c]
    BY <1>1 DEF State
  <2> HIDE DEF c, x
  <2> QED  BY <1>1, <2>1, <2>2, GoodWrite, GoodsAre
<1> HIDE DEF x
<1>3. Good(f)
  BY <1>1, <1>2, KeepsNotFound, GoodKeeps
<1> HIDE DEF f
<1>4. Good(httpdFlushSendBuffer(f, i)) /\ Good(httpdCgiIsDone(f, i))
  BY <1>3, GoodFlush, GoodDone
<1>5. httpdProcessRequest(s, i)
        = IF f.res = "MORE" THEN httpdFlushSendBuffer(f, i) ELSE httpdCgiIsDone(f, i)
  BY ProcessIs DEF ProcessedBy, f, t, x
<1> QED  BY <1>4, <1>5

-----------------------------------------------------------------------------
(* What is received.                                                       *)
LEMMA GoodHeaders ==
    ASSUME NEW s, NEW i \in Slots, Good(s), NEW req \in Asked PROVE Good(Headers(s, i, req))
PROOF
<1> DEFINE x == httpdParseHeaders(s, i, req)
           c == Parsed(s.conn[i], req)
<1>1. s \in State /\ s.conn[i] \in Slot
  BY GoodsAre, StateFields
<1>2. c \in Slot /\ Ends(s.conn[i], c) /\ x = [s EXCEPT !.conn[i] = c]
  <2>1. "page" \in Cgis
    BY DEF Cgis
  <2>2. c \in Slot /\ Ends(s.conn[i], c)
    BY <1>1, <2>1, WritesType
  <2>3. x = [s EXCEPT !.conn[i] = c]
    BY <1>1, ParseIs
  <2> QED  BY <2>2, <2>3
<1>3. Good(x)
  <2> HIDE DEF c, x
  <2> QED  BY <1>2, GoodWrite
<1> HIDE DEF x
<1>4. Good(httpdProcessRequest(x, i))
  BY <1>3, GoodProcess
<1> QED  BY <1>3, <1>4 DEF Headers, x

LEMMA GoodPost ==
    ASSUME NEW s, NEW i \in Slots, Good(s) PROVE Good(PostByte(s, i))
PROOF
<1> DEFINE m == [s EXCEPT !.conn[i].buffered = @ + 1, !.conn[i].received = @ + 1]
           c == m.conn[i]
           size == IF c.len > PostLen THEN PostLen ELSE c.len
           g == Call(m, i, c.cgi)
           r == IF c.cgi = "none" THEN httpdProcessRequest(m, i)
                ELSE IF g.res = "DONE" THEN httpdCgiIsDone(g, i) ELSE g
           x == [r EXCEPT !.conn[i].buffered = 0]
<1>1. s \in State /\ s.conn[i] \in Slot /\ "page" \in Cgis /\ NoRequest \in Asked
  BY GoodsAre, StateFields DEF Cgis, Asked
<1>2. Good(m) /\ m \in State
  <2> DEFINE d == Fed(s.conn[i])
  <2>1. d \in Slot /\ Ends(s.conn[i], d) /\ m = [s EXCEPT !.conn[i] = d]
    BY <1>1, WritesType, WritesAre
  <2> HIDE DEF d, m
  <2> QED  BY <2>1, GoodWrite, GoodsAre
<1> HIDE DEF m
<1>3. c.cgi # "none" => c.cgi \in Cgis
  <2>1. c \in Slot
    BY <1>2, StateFields
  <2> QED  BY <2>1 DEF Slot
<1>4. c.cgi # "none" => Good(g) /\ Good(httpdCgiIsDone(g, i))
  <2> HIDE DEF c
  <2>1. c.cgi # "none" => Good(g)
    BY <1>2, <1>3, GoodCall
  <2> HIDE DEF g
  <2> QED  BY <2>1, GoodDone
<1>5. Good(r) /\ r \in State
  <2>1. Good(httpdProcessRequest(m, i))
    BY <1>2, GoodProcess
  <2>2. Good(r)
    <3> HIDE DEF c, g
    <3> QED  BY <1>4, <2>1
  <2> HIDE DEF r
  <2> QED  BY <2>2, GoodsAre
<1>6. PostByte(s, i) = IF c.buffered >= size \/ c.received = c.len THEN x ELSE m
  BY DEF PostByte, m
<1> HIDE DEF r
<1>7. Good(x)
  <2> DEFINE d == Drained(r.conn[i])
  <2>1. d \in Slot /\ Ends(r.conn[i], d) /\ x = [r EXCEPT !.conn[i] = d]
    <3>1. r.conn[i] \in Slot
      BY <1>5, StateFields
    <3> QED  BY <1>1, <1>5, <3>1, WritesType, WritesAre, ZenonT(60)
  <2> HIDE DEF d, x
  <2> QED  BY <1>5, <2>1, GoodWrite
<1> HIDE DEF x, c, size
<1> QED  BY <1>2, <1>6, <1>7

GoodMark(s, i) == [s EXCEPT !.conn[i].at = 1]
LEMMA GoodMarked ==
    ASSUME NEW s, NEW i \in Slots, Good(s) PROVE Good(GoodMark(s, i)) /\ GoodMark(s, i) \in State
PROOF
<1>1. s \in State /\ s.conn[i] \in Slot
  BY GoodsAre, StateFields
<1>2. [s EXCEPT !.conn[i].at = 1] = [s EXCEPT !.conn[i] = [s.conn[i] EXCEPT !.at = 1]]
  BY <1>1 DEF State
<1>3. ASSUME NEW c \in Slot PROVE [c EXCEPT !.at = 1] \in Slot /\ Ends(c, [c EXCEPT !.at = 1])
  BY DEF Slot, Ends
<1>4. Good([s EXCEPT !.conn[i] = [s.conn[i] EXCEPT !.at = 1]])
  BY <1>1, <1>3, GoodWrite
<1> QED  BY <1>2, <1>4, GoodsAre DEF GoodMark

LEMMA GoodSocketClose ==
    ASSUME NEW s, NEW i \in Slots, Good(s) PROVE Good(cgiWebsocketClose(s, i))
PROOF
<1> DEFINE b == httpdSend(s, i, "close")
           c == httpdFlushSendBuffer(b, i)
<1>1. Good(b)
  <2>1. "close" \in Kinds /\ 0 \in Nat
    BY DEF Kinds
  <2> QED  BY <2>1, GoodsAre, KeepsSend, GoodKeeps
<1> HIDE DEF b
<1>2. Good(c) /\ c \in State
  BY <1>1, GoodFlush, GoodsAre
<1> HIDE DEF c
<1>3. Good(GoodMark(c, i))
  BY <1>2, GoodMarked
<1>4. cgiWebsocketClose(s, i) = GoodMark(c, i)
  BY DEF cgiWebsocketClose, GoodMark, b, c
<1> QED  BY <1>3, <1>4

LEMMA GoodFrame ==
    ASSUME NEW s, NEW i \in Slots, Good(s), NEW frame PROVE Good(Frame(s, i, frame))
PROOF
<1> DEFINE a == httpdSend(s, i, "pong")
           c == IF s.conn[i].at # 0 THEN s ELSE cgiWebsocketClose(s, i)
           d == websockFree(c, i)
           e == Result(d, "DONE")
<1>1. Good(a)
  <2>1. "pong" \in Kinds /\ 0 \in Nat
    BY DEF Kinds
  <2> QED  BY <2>1, GoodsAre, KeepsSend, GoodKeeps
<1> HIDE DEF a
<1>2. Good(c) /\ c \in State
  BY GoodSocketClose, GoodsAre
<1> HIDE DEF c
<1>3. Good(d) /\ d \in State
  BY <1>2, KeepsFree, GoodKeeps, GoodsAre
<1> HIDE DEF d
<1>4. Good(e)
  BY <1>3, KeepsResult, GoodKeeps DEF Res
<1> HIDE DEF e
<1>5. Frame(s, i, frame) = IF s.res = "DONE" THEN s ELSE IF frame = "ping" THEN a ELSE e
  BY DEF Frame, a, c, d, e
<1> QED  BY <1>1, <1>4, <1>5

LEMMA GoodRest ==
    ASSUME NEW s, NEW i \in Slots, Good(s), NEW S, NEW frames \in Seq(S) PROVE Good(Rest(s, i, frames))
PROOF
<1> DEFINE n == Len(frames)
           Q == [k \in 0 .. n |-> Goods]
           r == Result(s, "MORE")
           f == Framed(r, i, frames)
<1>1. r \in Goods /\ n \in Nat /\ DOMAIN frames = 1 .. n
  BY GoodsAre, KeepsResult, GoodKeeps DEF Res
<1>2. \A k \in 1 .. n : \A t \in Goods : Frame(t, i, frames[k]) \in Goods
  BY GoodsAre, GoodFrame
<1>3. r \in Q[0] /\ \A k \in 1 .. n : Q[k] = Goods
  BY <1>1
<1>4. \A k \in 1 .. n : \A t \in Goods : t \in Q[k - 1] => Frame(t, i, frames[k]) \in Q[k]
  BY <1>2, <1>3
<1>5. f \in Goods
  <2> HIDE DEF Q, n, r
  <2> QED  BY <1>1, <1>2, <1>3, <1>4, FramedKeeps
<1> HIDE DEF f
<1>6. Good(f) /\ Good(httpdCgiIsDone(f, i))
  BY <1>5, GoodsAre, GoodDone
<1>7. Rest(s, i, frames) = IF ~s.conn[i].recvHdl THEN s
                           ELSE IF f.res = "DONE" THEN httpdCgiIsDone(f, i) ELSE f
  BY DEF Rest, cgiWebSocketRecv, Framed, f
<1> QED  BY <1>6, <1>7

Accs == [s : Goods, over : BOOLEAN]
LEMMA GoodUnit ==
    ASSUME NEW acc \in Accs, NEW i \in Slots, NEW S, NEW units \in Seq(S), NEW k \in 1 .. Len(units),
           NEW req \in Asked
    PROVE  UnitOn(acc, k, i, units, req) \in Accs
PROOF
<1> DEFINE s == acc.s
           c == s.conn[i]
           u == SubSeq(units, k, Len(units))
<1>1. Good(s) /\ s \in State /\ c.recvHdl \in BOOLEAN /\ c.len \in Int
  <2>1. Good(s) /\ s \in State
    BY GoodsAre DEF Accs
  <2> QED  BY <2>1, StateFields DEF Slot
<1>2. u \in Seq(S)
  OBVIOUS
<1>3. Good(Headers(s, i, req)) /\ Good(PostByte(s, i)) /\ Good(Rest(s, i, u))
  <2> HIDE DEF s, u
  <2> QED  BY <1>1, <1>2, GoodHeaders, GoodPost, GoodRest
<1>4. Headers(s, i, req) \in Goods /\ PostByte(s, i) \in Goods /\ Rest(s, i, u) \in Goods
  BY <1>3, GoodsAre
<1>5. ASSUME NEW h \in Goods PROVE [acc EXCEPT !.s = h] \in Accs
  BY DEF Accs
<1>6. ASSUME NEW h \in Goods PROVE [s |-> h, over |-> c.recvHdl] \in Accs
  BY <1>1 DEF Accs
<1> QED  BY <1>4, <1>5, <1>6 DEF UnitOn

LEMMA GoodReceived ==
    ASSUME NEW s, NEW i \in Slots, Good(s), NEW S, NEW units \in Seq(S), NEW req \in Asked
    PROVE  Good(Received(s, i, units, req))
PROOF
<1> DEFINE n == Len(units)
           ks == [k \in 1 .. n |-> k]
           Q == [k \in 0 .. n |-> Accs]
           b == [s |-> s, over |-> FALSE]
           all == UnitsTaken(b, i, units, req, ks)
<1>1. b \in Accs /\ n \in Nat /\ DOMAIN ks = 1 .. n /\ \A k \in 1 .. n : ks[k] = k
  BY GoodsAre DEF Accs
<1>2. \A k \in 1 .. n : \A t \in Accs : UnitOn(t, ks[k], i, units, req) \in Accs
  BY <1>1, GoodUnit
<1>3. b \in Q[0] /\ \A k \in 1 .. n : Q[k] = Accs
  BY <1>1
<1>4. \A k \in 1 .. n : \A t \in Accs : t \in Q[k - 1] => UnitOn(t, ks[k], i, units, req) \in Q[k]
  BY <1>2, <1>3
<1>5. all \in Accs
  <2> HIDE DEF Q, n, b, ks
  <2> QED  BY <1>1, <1>2, <1>3, <1>4, UnitsKeeps
<1>6. Received(s, i, units, req) = httpdFlushSendBuffer(all.s, i)
  BY DEF Received, UnitsTaken, UnitOn
<1> HIDE DEF all
<1>7. Good(all.s)
  BY <1>5, GoodsAre DEF Accs
<1> QED  BY <1>6, <1>7, GoodFlush

-----------------------------------------------------------------------------
(* The SDK's connections, one that comes and one that goes.                *)
Snap(c, t, h, q, a) == [conn |-> c, tcp |-> t, handles |-> h, sockets |-> q, answer |-> a, res |-> "MORE"]

LEMMA SnapIs ==
    ASSUME NEW s, Good(s) PROVE Good(Snap(s.conn, s.tcp, s.handles, s.sockets, s.answer))
PROOF
<1>1. s \in State /\ Good(Result(s, "MORE"))
  BY GoodsAre, KeepsResult, GoodKeeps DEF Res
<1>2. Snap(s.conn, s.tcp, s.handles, s.sockets, s.answer) = Result(s, "MORE")
  <2> DEFINE x == [s EXCEPT !.res = "MORE"]
             y == Snap(s.conn, s.tcp, s.handles, s.sockets, s.answer)
  <2>1. x \in State
    <3>1. x = Result(s, "MORE")
      BY DEF Result
    <3> HIDE DEF x
    <3> QED  BY <1>1, <3>1, GoodsAre
  <2>2. /\ x.conn = s.conn /\ x.tcp = s.tcp /\ x.handles = s.handles /\ x.sockets = s.sockets
        /\ x.answer = s.answer /\ x.res = "MORE"
    BY <1>1 DEF State
  <2> HIDE DEF x
  <2>3. y \in State
    BY <2>1, <2>2 DEF State, Snap
  <2>4. x = y
    BY <2>1, <2>2, <2>3 DEF State, Snap
  <2> QED  BY <2>4 DEF Result, x
<1> QED  BY <1>1, <1>2

(* What of the SDK's connections the streams are not about.                *)
SameFlow(t, u) == u.state = t.state /\ u.got = t.got /\ u.out = t.out
LEMMA GoodTcp ==
    ASSUME NEW s, Good(s), NEW f \in [Peers -> Tcp], \A p \in Peers : SameFlow(s.tcp[p], f[p])
    PROVE  Good([s EXCEPT !.tcp = f])
PROOF
<1> DEFINE x == [s EXCEPT !.tcp = f]
<1>1. s \in State /\ Linked(s) /\ Flowing(s)
  BY DEF Good
<1>2. x \in State /\ x.conn = s.conn /\ x.answer = s.answer /\ x.tcp = f
  BY <1>1 DEF State
<1> HIDE DEF x
<1>3. Linked(x)
  BY <1>1, <1>2 DEF Linked, SameFlow
<1>4. ASSUME NEW i \in Slots, x.conn[i].up
      PROVE  Streams(x.conn[i], x.tcp[x.conn[i].peer], x.answer[x.conn[i].peer])
  <2>1. s.conn[i].peer \in Peers
    BY <1>1, <1>2, <1>4, GoodSlot
  <2>2. Streams(s.conn[i], s.tcp[s.conn[i].peer], s.answer[s.conn[i].peer])
    BY <1>1, <1>2, <1>4 DEF Flowing
  <2> QED  BY <1>2, <2>1, <2>2 DEF SameFlow, Streams
<1> QED  BY <1>2, <1>3, <1>4 DEF Good, Flowing, x

LEMMA FreeSlotType == FreeSlot \in Slot /\ NoTcp \in Tcp
PROOF
<1>1. FreeSlot \in Slot
  <2> DEFINE m == -1
  <2>1. m \in Int
    OBVIOUS
  <2> HIDE DEF m
  <2>2. <<>> \in Seq(Part) /\ <<>> \in Seq(Seq(Part)) /\ 0 \in Data /\ NoRequest \in Asked
    BY DEF Data, Asked
  <2>3. [peer |-> NoPeer, up |-> FALSE, len |-> m, received |-> 0, buffered |-> 0,
             flags |-> {}, cgi |-> "none", data |-> 0, at |-> 0, recvHdl |-> FALSE,
             n |-> 0, req |-> NoRequest, buf |-> <<>>, backlog |-> <<>>] \in Slot
    BY <2>1, <2>2 DEF Slot
  <2> QED  BY <2>3 DEF FreeSlot, m
<1>2. NoTcp \in Tcp
  <2>1. <<>> \in Seq(Part) /\ <<>> \in Seq({"headers", "body", "ping", "close"}) /\ NoRequest \in Asked
    BY DEF Asked
  <2> QED  BY <2>1 DEF NoTcp, Tcp
<1> QED  BY <1>1, <1>2

\* A connection accepted, or retired.
Accepted(s, i, p, d, t) == [s EXCEPT !.conn[i] = d, !.tcp[p] = t, !.answer[p] = <<>>]
LEMMA GoodConnect ==
    ASSUME NEW s, Good(s), NEW i \in Slots, s.conn[i].peer = NoPeer, NEW p \in Peers,
           s.tcp[p].state = "NONE", NEW d \in Slot, d.peer = p, d.up, d.backlog = <<>>,
           NEW t \in Tcp, t.state = "UP", t.got = <<>>, t.out = <<>>
    PROVE  Good(Accepted(s, i, p, d, t))
PROOF
<1> DEFINE x == [s EXCEPT !.conn[i] = d, !.tcp[p] = t, !.answer[p] = <<>>]
<1>0. NoPeer \notin Peers
  BY HttpdAssumption
<1>1. s \in State /\ Linked(s) /\ Flowing(s)
  BY DEF Good
<1>2. /\ [s.conn EXCEPT ![i] = d] \in [Slots -> Slot] /\ [s.tcp EXCEPT ![p] = t] \in [Peers -> Tcp]
      /\ [s.answer EXCEPT ![p] = <<>>] \in [Peers -> Seq(Part)]
  BY <1>1 DEF State
<1>3. x \in State
  <2> DEFINE f == [s.conn EXCEPT ![i] = d]
             g == [s.tcp EXCEPT ![p] = t]
             e == [s.answer EXCEPT ![p] = <<>>]
  <2>1. f \in [Slots -> Slot] /\ g \in [Peers -> Tcp] /\ e \in [Peers -> Seq(Part)]
    BY <1>2
  <2>2. x = [s EXCEPT !.conn = f, !.tcp = g, !.answer = e]
    OBVIOUS
  <2> HIDE DEF f, g, e, x
  <2> QED  BY <1>1, <2>1, <2>2 DEF State
<1>4. /\ x.conn[i] = d /\ \A j \in Slots : j # i => x.conn[j] = s.conn[j]
      /\ x.tcp[p] = t /\ \A o \in Peers : o # p => x.tcp[o] = s.tcp[o]
      /\ x.answer[p] = <<>> /\ \A o \in Peers : o # p => x.answer[o] = s.answer[o]
  BY <1>1 DEF State
<1> HIDE DEF x
<1>5. \A j \in Slots : s.conn[j].peer # p
  BY <1>1 DEF Linked
<1>6. Linked(x)
  <2>1. \A j \in Slots : x.conn[j].up <=> x.conn[j].peer # NoPeer
    BY <1>0, <1>1, <1>4 DEF Linked
  <2>2. \A j, k \in Slots : x.conn[j].peer = x.conn[k].peer /\ x.conn[j].peer # NoPeer => j = k
    BY <1>1, <1>4, <1>5 DEF Linked
  <2>3. \A o \in Peers : x.tcp[o].state # "NONE" <=> \E j \in Slots : x.conn[j].peer = o
    <3> TAKE o \in Peers
    <3>1. CASE o = p
      BY <1>4, <3>1
    <3>2. CASE o # p
      <4>1. \A j \in Slots : x.conn[j].peer = o <=> s.conn[j].peer = o
        BY <1>0, <1>4, <3>2
      <4> QED  BY <1>1, <1>4, <3>2, <4>1 DEF Linked
    <3> QED  BY <3>1, <3>2
  <2> QED  BY <2>1, <2>2, <2>3 DEF Linked
<1>7. ASSUME NEW j \in Slots, x.conn[j].up
      PROVE  Streams(x.conn[j], x.tcp[x.conn[j].peer], x.answer[x.conn[j].peer])
  <2>1. CASE j = i
    <3>1. <<>> \o <<>> \o <<>> = <<>> /\ ~\E k \in 1 .. Len(<<>>) : TRUE
      OBVIOUS
    <3> QED  BY <1>4, <2>1, <3>1, FlattenNone, ZenonT(60) DEF Streams
  <2>2. CASE j # i
    <3>1. x.conn[j] = s.conn[j] /\ s.conn[j].peer \in Peers /\ s.conn[j].peer # p
      BY <1>4, <1>5, <1>7, <2>2, GoodSlot
    <3>2. Streams(s.conn[j], s.tcp[s.conn[j].peer], s.answer[s.conn[j].peer])
      BY <1>1, <1>7, <3>1 DEF Flowing
    <3> QED  BY <1>4, <3>1, <3>2
  <2> QED  BY <2>1, <2>2
<1> QED  BY <1>3, <1>6, <1>7 DEF Good, Flowing, x, Accepted

Discon(s, i, p) == [s EXCEPT !.conn[i].up = FALSE, !.tcp[p] = NoTcp, !.answer[p] = <<>>]
LEMMA GoodRetire ==
    ASSUME NEW s, Good(s), NEW i \in Slots, NEW p \in Peers, s.conn[i].peer = p,
           NEW x, Keeps(Discon(s, i, p), x)
    PROVE  Good(httpdRetireConn(x, i))
PROOF
<1> DEFINE z == Discon(s, i, p)
           y == httpdRetireConn(x, i)
<1>0. NoPeer \notin Peers /\ FreeSlot \in Slot /\ FreeSlot.peer = NoPeer /\ ~FreeSlot.up
  BY HttpdAssumption, FreeSlotType DEF FreeSlot
<1>1. s \in State /\ Linked(s) /\ Flowing(s)
  BY DEF Good
<1>2. /\ \A j \in Slots : j # i => z.conn[j] = s.conn[j]
      /\ z.tcp[p].state = "NONE" /\ \A o \in Peers : o # p => z.tcp[o] = s.tcp[o]
      /\ \A o \in Peers : o # p => z.answer[o] = s.answer[o]
  <2>1. NoTcp.state = "NONE"
    BY DEF NoTcp
  <2> HIDE DEF z
  <2>2. z.conn = [s.conn EXCEPT ![i].up = FALSE] /\ z.tcp = [s.tcp EXCEPT ![p] = NoTcp]
        /\ z.answer = [s.answer EXCEPT ![p] = <<>>]
    BY <1>1 DEF State, Discon, z
  <2> QED  BY <1>1, <2>1, <2>2 DEF State
<1> HIDE DEF z
<1>3. x \in State /\ x.tcp = z.tcp /\ x.answer = z.answer /\ \A j \in Slots : Ends(z.conn[j], x.conn[j])
  BY DEF Keeps, SameEnds, z
<1>4. /\ y \in State /\ y.conn[i] = FreeSlot /\ \A j \in Slots : j # i => y.conn[j] = x.conn[j]
      /\ y.tcp = z.tcp /\ y.answer = z.answer
  <2>1. y = [x EXCEPT !.conn[i] = FreeSlot]
    BY DEF httpdRetireConn
  <2> HIDE DEF y
  <2>2. y \in State
    BY <1>0, <1>3, <2>1 DEF State
  <2> QED  BY <1>3, <2>1, <2>2 DEF State
<1> HIDE DEF y
<1>5. \A j \in Slots : j # i => Ends(s.conn[j], y.conn[j])
  BY <1>2, <1>3, <1>4
<1>6. \A j \in Slots : j # i => y.conn[j].peer = s.conn[j].peer /\ y.conn[j].up = s.conn[j].up
  BY <1>5 DEF Ends
<1>7. \A j \in Slots : s.conn[j].peer = p => j = i
  BY <1>0, <1>1 DEF Linked
<1>8. Linked(y)
  <2>1. \A j \in Slots : y.conn[j].up <=> y.conn[j].peer # NoPeer
    BY <1>0, <1>1, <1>4, <1>6 DEF Linked
  <2>2. \A j, k \in Slots : y.conn[j].peer = y.conn[k].peer /\ y.conn[j].peer # NoPeer => j = k
    BY <1>0, <1>1, <1>4, <1>6 DEF Linked
  <2>3. \A o \in Peers : y.tcp[o].state # "NONE" <=> \E j \in Slots : y.conn[j].peer = o
    <3> TAKE o \in Peers
    <3>1. CASE o = p
      BY <1>0, <1>2, <1>4, <1>6, <1>7, <3>1
    <3>2. CASE o # p
      <4>1. \A j \in Slots : y.conn[j].peer = o <=> s.conn[j].peer = o
        BY <1>0, <1>4, <1>6, <3>2
      <4> QED  BY <1>1, <1>2, <1>4, <3>2, <4>1 DEF Linked
    <3> QED  BY <3>1, <3>2
  <2> QED  BY <2>1, <2>2, <2>3 DEF Linked
<1>9. ASSUME NEW j \in Slots, y.conn[j].up
      PROVE  Streams(y.conn[j], y.tcp[y.conn[j].peer], y.answer[y.conn[j].peer])
  <2>1. j # i
    BY <1>0, <1>4, <1>9
  <2>2. s.conn[j].up /\ s.conn[j].peer \in Peers /\ s.conn[j].peer # p /\ y.conn[j].peer = s.conn[j].peer
    BY <1>6, <1>7, <1>9, <2>1, GoodSlot
  <2>3. Streams(s.conn[j], s.tcp[s.conn[j].peer], s.answer[s.conn[j].peer])
    BY <1>1, <2>2 DEF Flowing
  <2>4. Streams(y.conn[j], s.tcp[s.conn[j].peer], s.answer[s.conn[j].peer])
    BY <1>5, <2>1, <2>3, StreamsEnds
  <2> QED  BY <1>2, <1>4, <2>2, <2>4
<1> QED  BY <1>4, <1>8, <1>9 DEF Good, Flowing, y

-----------------------------------------------------------------------------
(* The actions.                                                            *)
\* The variables as they appear in a server, and the inductive invariant.
TypeOK ==
    /\ conn \in [Slots -> Slot] /\ tcp \in [Peers -> Tcp] /\ handles \in Heap
    /\ sockets \in Seq(Slots) /\ answer \in [Peers -> Seq(Part)]
FlowInv == Good(Now)

LEMMA NowIs ==
    /\ Now = Snap(conn, tcp, handles, sockets, answer)
    /\ Now.conn = conn /\ Now.tcp = tcp /\ Now.handles = handles /\ Now.sockets = sockets
    /\ Now.answer = answer
PROOF
  BY DEF Now, Snap

LEMMA BecomesGood ==
    ASSUME NEW s, Good(s), Becomes(s) PROVE FlowInv'
PROOF
<1>1. Good(Snap(s.conn, s.tcp, s.handles, s.sockets, s.answer))
  BY SnapIs
<1>2. Now' = Snap(s.conn, s.tcp, s.handles, s.sockets, s.answer)
  BY DEF Now, Snap, Becomes
<1>3. Good(Now')
  BY <1>1, <1>2
<1> QED  BY <1>3 DEF FlowInv

LEMMA SlotOfIs ==
    ASSUME FlowInv, NEW p \in Peers, tcp[p].state # "NONE"
    PROVE  SlotOf(p) \in Slots /\ conn[SlotOf(p)].peer = p /\ conn[SlotOf(p)].up
PROOF
<1>1. Linked(Now)
  BY DEF FlowInv, Good
<1>2. PICK i \in Slots : conn[i].peer = p
  BY <1>1, NowIs DEF Linked
<1>3. SlotOf(p) \in Slots /\ conn[SlotOf(p)].peer = p
  BY <1>2 DEF SlotOf, Find
<1>4. p # NoPeer
  BY HttpdAssumption
<1> HIDE DEF SlotOf
<1>5. conn[SlotOf(p)].up
  BY <1>1, <1>3, <1>4, NowIs DEF Linked
<1> QED  BY <1>3, <1>5

LEMMA InitGood == Init => FlowInv
PROOF
<1> SUFFICES ASSUME Init PROVE Good(Now)
  BY DEF FlowInv
<1>0. /\ FreeSlot \in Slot /\ FreeSlot.peer = NoPeer /\ ~FreeSlot.up /\ NoTcp \in Tcp
      /\ NoTcp.state = "NONE" /\ NoPeer \notin Peers
  BY FreeSlotType, HttpdAssumption DEF FreeSlot, NoTcp
<1>1. /\ conn = [i \in Slots |-> FreeSlot] /\ tcp = [p \in Peers |-> NoTcp] /\ handles = {}
      /\ sockets = <<>> /\ answer = [p \in Peers |-> <<>>]
  BY DEF Init
<1>2. Now \in State
  <2>1. conn \in [Slots -> Slot] /\ tcp \in [Peers -> Tcp] /\ handles \in Heap
        /\ sockets \in Seq(Slots)
    BY <1>0, <1>1 DEF Heap
  <2>2. answer \in [Peers -> Seq(Part)]
    BY <1>1
  <2> QED  BY <2>1, <2>2 DEF Now, State
<1>3. \A i \in Slots : conn[i] = FreeSlot
  BY <1>1
<1>4. Linked(Now)
  BY <1>0, <1>1, <1>3, NowIs DEF Linked
<1>5. Flowing(Now)
  BY <1>0, <1>3, NowIs DEF Flowing
<1> QED  BY <1>2, <1>4, <1>5 DEF Good

LEMMA ConnectGood ==
    ASSUME FlowInv, NEW p \in Peers, httpdConnectCb(p) PROVE FlowInv'
PROOF
<1> DEFINE Free == Find(NoPeer)
           i == CHOOSE j \in Free : \A k \in Free : j <= k
           d == [FreeSlot EXCEPT !.peer = p, !.up = TRUE]
           t == [NoTcp EXCEPT !.state = "UP"]
           x == Accepted(Now, i, p, d, t)
<1>1. /\ tcp[p].state = "NONE" /\ Free # {} /\ conn' = [conn EXCEPT ![i] = d]
      /\ tcp' = [tcp EXCEPT ![p] = t] /\ answer' = [answer EXCEPT ![p] = <<>>]
      /\ handles' = handles /\ sockets' = sockets
  BY DEF httpdConnectCb
<1>2. i \in Slots /\ conn[i].peer = NoPeer
  <2>1. Free \subseteq Slots /\ Free \in SUBSET Nat
    BY DEF Find, Slots
  <2>2. \E j \in Free : \A k \in Free : j <= k
    <3> HIDE DEF Free
    <3> QED  BY <1>1, <2>1, LeastOf
  <2>3. i \in Free
    <3> HIDE DEF Free
    <3> QED  BY <2>2
  <2> HIDE DEF i
  <2> QED  BY <2>3 DEF Find
<1>3. /\ d \in Slot /\ d.peer = p /\ d.up /\ d.backlog = <<>> /\ t \in Tcp /\ t.state = "UP"
      /\ t.got = <<>> /\ t.out = <<>>
  <2>1. FreeSlot \in Slot /\ NoTcp \in Tcp /\ FreeSlot.backlog = <<>> /\ NoTcp.got = <<>> /\ NoTcp.out = <<>>
    BY FreeSlotType DEF FreeSlot, NoTcp
  <2> QED  BY <2>1 DEF Slot, Tcp
<1> HIDE DEF i, d, t
<1>4. Good(x)
  BY <1>1, <1>2, <1>3, NowIs, GoodConnect DEF FlowInv
<1>5. Becomes(x)
  BY <1>1 DEF Becomes, Now, Accepted
<1> QED  BY <1>4, <1>5, BecomesGood

LEMMA TcpGood ==
    ASSUME FlowInv, NEW f \in [Peers -> Tcp], \A p \in Peers : SameFlow(tcp[p], f[p]), tcp' = f,
           UNCHANGED <<conn, handles, sockets, answer>>
    PROVE  FlowInv'
PROOF
<1>1. Good([Now EXCEPT !.tcp = f])
  BY GoodTcp, NowIs DEF FlowInv
<1>2. Becomes([Now EXCEPT !.tcp = f])
  BY DEF Becomes, Now
<1> QED  BY <1>1, <1>2, BecomesGood

LEMMA NowTyped == ASSUME FlowInv PROVE TypeOK
PROOF
<1>1. Now \in State
  BY DEF FlowInv, Good
<1> QED  BY <1>1, NowIs DEF State, TypeOK

LEMMA AskGood ==
    ASSUME FlowInv, NEW p \in Peers, Ask(p) PROVE FlowInv'
PROOF
<1>1. PICK req \in Requests[p] :
         tcp' = [tcp EXCEPT ![p].asked = req, ![p].n = @ + 1,
                            ![p].coming = <<"headers">> \o [k \in 1 .. req.body |-> "body"]]
  BY DEF Ask
<1> DEFINE com == <<"headers">> \o [k \in 1 .. req.body |-> "body"]
           t == tcp[p]
           n == t.n + 1
           u == [t EXCEPT !.asked = req, !.n = n, !.coming = com]
           f == [tcp EXCEPT ![p] = u]
<1>2. tcp \in [Peers -> Tcp]
  BY NowTyped DEF TypeOK
<1>3. req \in Asked /\ req.body \in Nat
  <2>1. req \in Request
    BY HttpdAssumption
  <2> QED  BY <2>1 DEF Request, Asked
<1>4. com \in Seq({"headers", "body", "ping", "close"})
  <2>1. [k \in 1 .. req.body |-> "body"] \in Seq({"headers", "body", "ping", "close"})
    BY <1>3
  <2>2. <<"headers">> \in Seq({"headers", "body", "ping", "close"})
    OBVIOUS
  <2> QED  BY <2>1, <2>2, ConcatProperties
<1>5. t \in Tcp /\ n \in Nat
  BY <1>2 DEF Tcp
<1>6. tcp' = f
  BY <1>1, <1>2
<1> HIDE DEF com, n
<1>7. u \in Tcp /\ SameFlow(t, u)
  BY <1>3, <1>4, <1>5 DEF Tcp, SameFlow
<1> HIDE DEF u
<1>8. f \in [Peers -> Tcp] /\ \A o \in Peers : SameFlow(tcp[o], f[o])
  BY <1>2, <1>7 DEF SameFlow
<1>9. UNCHANGED <<conn, handles, sockets, answer>>
  BY DEF Ask
<1> HIDE DEF f
<1> QED  BY <1>6, <1>8, <1>9, TcpGood

LEMMA SendFrameGood ==
    ASSUME FlowInv, NEW p \in Peers, SendFrame(p) PROVE FlowInv'
PROOF
<1>1. PICK frame \in {"ping", "close"} :
         tcp' = [tcp EXCEPT ![p].coming = Append(@, frame), ![p].frames =
                      IF frame = "close" THEN MaxFrames[p] ELSE @ + 1]
  BY DEF SendFrame
<1> DEFINE t == tcp[p]
           com == Append(t.coming, frame)
           n == IF frame = "close" THEN MaxFrames[p] ELSE t.frames + 1
           u == [t EXCEPT !.coming = com, !.frames = n]
           f == [tcp EXCEPT ![p] = u]
<1>2. tcp \in [Peers -> Tcp]
  BY NowTyped DEF TypeOK
<1>3. t \in Tcp /\ t.frames \in Nat /\ com \in Seq({"headers", "body", "ping", "close"})
  BY <1>2 DEF Tcp
<1>4. n \in Nat
  BY <1>3, HttpdAssumption
<1>5. tcp' = f
  BY <1>1, <1>2
<1> HIDE DEF com, n
<1>6. u \in Tcp /\ SameFlow(t, u)
  BY <1>3, <1>4 DEF Tcp, SameFlow
<1> HIDE DEF u
<1>7. f \in [Peers -> Tcp] /\ \A o \in Peers : SameFlow(tcp[o], f[o])
  BY <1>2, <1>6 DEF SameFlow
<1>8. UNCHANGED <<conn, handles, sockets, answer>>
  BY DEF SendFrame
<1> HIDE DEF f
<1> QED  BY <1>5, <1>7, <1>8, TcpGood

WithSlot(s, i, d, p, u) == [s EXCEPT !.conn[i] = d, !.tcp[p] = u]
WithTcp(s, p, u) == [s EXCEPT !.tcp[p] = u]
LEMMA PutTcp ==
    ASSUME NEW s \in State, NEW i \in Slots, NEW p \in Peers, s.conn[i].peer = p, NEW d, NEW u,
           NEW A, A = s.answer[p]
    PROVE  /\ Put(s, i, d, u, A) = WithSlot(s, i, d, p, u)
           /\ d = s.conn[i] => Put(s, i, d, u, A) = WithTcp(s, p, u)
PROOF
<1>1. [s.answer EXCEPT ![p] = s.answer[p]] = s.answer /\ [s.conn EXCEPT ![i] = s.conn[i]] = s.conn
  BY DEF State
<1>2. ASSUME NEW e PROVE Put(s, i, e, u, s.answer[p]) = [s EXCEPT !.conn[i] = e, !.tcp[p] = u]
  <2>1. Put(s, i, e, u, s.answer[p]) = [s EXCEPT !.conn[i] = e, !.tcp[p] = u, !.answer = s.answer]
    BY <1>1 DEF Put
  <2>2. [s EXCEPT !.conn[i] = e, !.tcp[p] = u, !.answer = s.answer] = [s EXCEPT !.conn[i] = e, !.tcp[p] = u]
    BY DEF State
  <2> QED  BY <2>1, <2>2
<1>3. [s EXCEPT !.conn[i] = s.conn[i], !.tcp[p] = u] = [s EXCEPT !.tcp[p] = u]
  <2>1. [s EXCEPT !.conn = s.conn, !.tcp[p] = u] = [s EXCEPT !.tcp[p] = u]
    BY DEF State
  <2> QED  BY <1>1, <2>1
<1> QED  BY <1>2, <1>3 DEF WithSlot, WithTcp

LEMMA RecvGood ==
    ASSUME FlowInv, NEW p \in Peers, httpdRecvCb(p) PROVE FlowInv'
PROOF
<1> DEFINE i == SlotOf(p)
           C == {"headers", "body", "ping", "close"}
<1>1. PICK len \in 1 .. Len(tcp[p].coming) :
         LET units == SubSeq(tcp[p].coming, 1, len)
             left  == SubSeq(tcp[p].coming, len + 1, Len(tcp[p].coming))
             s     == [Now EXCEPT !.tcp[p].coming = left, !.conn[i].buf = <<>>]
         IN Becomes(Received(s, i, units, tcp[p].asked))
  BY DEF httpdRecvCb
<1> DEFINE t == tcp[p]
           c == conn[i]
           units == SubSeq(t.coming, 1, len)
           left == SubSeq(t.coming, len + 1, Len(t.coming))
           u == [t EXCEPT !.coming = left]
           s == [Now EXCEPT !.tcp[p].coming = left, !.conn[i].buf = <<>>]
<1>2. TypeOK /\ Good(Now)
  BY NowTyped DEF FlowInv
<1>3. t \in Tcp /\ t.coming \in Seq(C) /\ t.asked \in Asked
  BY <1>2 DEF TypeOK, Tcp
<1>4. units \in Seq(C) /\ left \in Seq(C)
  BY <1>3
<1>5. i \in Slots /\ c.peer = p /\ c.up /\ c \in Slot
  <2>1. tcp[p].state # "NONE"
    BY DEF httpdRecvCb, CanReceive
  <2> HIDE DEF i
  <2>2. i \in Slots /\ conn[i].peer = p /\ conn[i].up
    BY <2>1, SlotOfIs DEF i
  <2> QED  BY <1>2, <2>2 DEF TypeOK
<1> HIDE DEF i
<1>6. Becomes(Received(s, i, units, t.asked))
  BY <1>1
<1> HIDE DEF units, left
<1>7. Good(s)
  <2>1. u \in Tcp /\ SameFlow(t, u)
    BY <1>3, <1>4 DEF Tcp, SameFlow
  <2>2. GoodBut(Now, i) /\ Streams(c, t, answer[p]) /\ t.state # "NONE" /\ answer[p] \in Seq(Part)
    BY <1>2, <1>5, GoodSlot, NowIs
  <2>3. Emptied(c) \in Slot /\ Ends(c, Emptied(c))
    <3>1. <<>> \in Seq(Part)
      OBVIOUS
    <3> HIDE DEF c
    <3> QED  BY <1>5, <3>1, EmptiedIs
  <2>4. Streams(Emptied(c), u, answer[p])
    BY <2>1, <2>2, <2>3 DEF Streams, SameFlow, Ends
  <2>5. s = Put(Now, i, Emptied(c), u, answer[p])
    <3> DEFINE A == answer[p]
    <3>1. Now \in State /\ Now.conn[i].peer = p /\ Now.answer[p] = A
      BY <1>2, <1>5, GoodsAre, NowIs
    <3>2. Put(Now, i, Emptied(c), u, A) = WithSlot(Now, i, Emptied(c), p, u)
      <4> HIDE DEF u, A, c
      <4> QED  BY <1>5, <3>1, PutTcp
    <3>4. s = [Now EXCEPT !.conn[i] = Emptied(c), !.tcp[p] = u]
      BY DEF Now, Emptied
    <3> QED  BY <3>2, <3>4 DEF WithSlot
  <2> HIDE DEF s, u
  <2>6. Emptied(c).peer = Now.conn[i].peer /\ Emptied(c).up /\ u.state # "NONE"
    BY <1>5, <2>1, <2>2, <2>3, NowIs DEF Ends, SameFlow
  <2> QED  BY <1>5, <2>1, <2>2, <2>3, <2>4, <2>5, <2>6, PutIs
<1> HIDE DEF s, C
<1>8. Good(Received(s, i, units, t.asked))
  BY <1>3, <1>4, <1>5, <1>7, GoodReceived
<1> QED  BY <1>6, <1>8, BecomesGood

LEMMA StreamsNext ==
    ASSUME NEW c \in Slot, NEW d \in Slot, NEW t \in Tcp, NEW u \in Tcp, NEW A, Streams(c, t, A),
           c.backlog # <<>>, d.backlog = Tail(c.backlog), u.got = t.got \o t.out,
           u.out = Head(c.backlog)
    PROVE  Streams(d, u, A)
PROOF
<1> DEFINE b == c.backlog
<1>1. b \in Seq(Seq(Part)) /\ t.got \in Seq(Part) /\ t.out \in Seq(Part)
  BY DEF Slot, Tcp
<1>2. /\ Head(b) \in Seq(Part) /\ Tail(b) \in Seq(Seq(Part)) /\ Head(b) = b[1] /\ Len(b) \in Nat
      /\ Len(b) # 0 /\ Len(Tail(b)) = Len(b) - 1 /\ \A k \in 1 .. Len(b) - 1 : Tail(b)[k] = b[k + 1]
  <2> HIDE DEF b
  <2>1. b # <<>>
    BY DEF b
  <2> QED  BY <1>1, <2>1
<1>3. FlattenSeq(b) = Head(b) \o FlattenSeq(Tail(b)) /\ FlattenSeq(Tail(b)) \in Seq(Part)
  BY <1>1, <1>2, FlattenHead, FlattenType
<1> HIDE DEF b
<1>4. /\ t.got \o t.out \o FlattenSeq(b) = A /\ \A k \in 1 .. Len(b) : b[k] # <<>>
  BY DEF Streams, b
<1>5. u.got \o u.out \o FlattenSeq(d.backlog) = A
  <2> DEFINE g == t.got \o t.out
             h == Head(b)
             f == FlattenSeq(Tail(b))
  <2>1. g \in Seq(Part) /\ h \in Seq(Part) /\ f \in Seq(Part)
    BY <1>1, <1>2, <1>3, ConcatProperties
  <2>2. Cat(g, Cat(h, f)) = A
    BY <1>3, <1>4 DEF Cat
  <2>3. u.got = g /\ u.out = h /\ FlattenSeq(d.backlog) = f
    BY DEF b
  <2> HIDE DEF g, h, f
  <2>4. Cat(Cat(g, h), f) = Cat(g, Cat(h, f))
    BY <2>1, CatCat
  <2>5. Cat(Cat(u.got, u.out), FlattenSeq(d.backlog)) = A
    BY <2>2, <2>3, <2>4
  <2> QED  BY <2>5 DEF Cat
<1>6. \A k \in 1 .. Len(d.backlog) : d.backlog[k] # <<>>
  <2>1. d.backlog = Tail(b)
    BY DEF b
  <2>2. \A k \in 1 .. Len(b) - 1 : k + 1 \in 1 .. Len(b)
    BY <1>2
  <2> QED  BY <1>2, <1>4, <2>1, <2>2, ZenonT(60)
<1>7. u.out # <<>>
  <2>1. 1 \in 1 .. Len(b) /\ u.out = b[1]
    BY <1>2 DEF b
  <2> QED  BY <1>4, <2>1
<1> QED  BY <1>5, <1>6, <1>7 DEF Streams

LEMMA GoodContinue ==
    ASSUME NEW s, NEW i \in Slots, Good(s), s.conn[i].backlog = <<>>,
           s.tcp[s.conn[i].peer].state = "UP", s.conn[i].up
    PROVE  Good(httpdContinue(s, i))
PROOF
<1> DEFINE c == s.conn[i]
           e == [s EXCEPT !.conn[i].buf = <<>>]
           g == Call(e, i, c.cgi)
           m == IF g.res = "MORE" THEN g ELSE httpdCgiIsDone(g, i)
           k == [s EXCEPT !.tcp[c.peer].state = "CLOSING"]
<1>1. /\ s \in State /\ c \in Slot /\ GoodBut(s, i) /\ c.peer \in Peers
      /\ s.tcp[c.peer] \in Tcp /\ s.answer[c.peer] \in Seq(Part)
      /\ Streams(c, s.tcp[c.peer], s.answer[c.peer])
  BY GoodsAre, GoodSlot
<1>2. Good(e)
  <2> DEFINE d == Emptied(c)
  <2>1. d \in Slot /\ Ends(c, d)
    <3>1. <<>> \in Seq(Part)
      OBVIOUS
    <3> HIDE DEF c
    <3> QED  BY <1>1, <3>1, EmptiedIs
  <2>2. e = [s EXCEPT !.conn[i] = d]
    BY <1>1 DEF Emptied, State
  <2> HIDE DEF d, e
  <2> QED  BY <2>1, <2>2, GoodWrite
<1> HIDE DEF e
<1>3. c.cgi # "none" => Good(httpdFlushSendBuffer(m, i))
  <2> SUFFICES ASSUME c.cgi # "none" PROVE Good(httpdFlushSendBuffer(m, i))
    OBVIOUS
  <2>1. c.cgi \in Cgis
    BY <1>1 DEF Slot
  <2> HIDE DEF c
  <2>2. Good(g)
    BY <1>2, <2>1, GoodCall
  <2> HIDE DEF g
  <2>3. Good(m)
    BY <2>2, GoodDone
  <2> HIDE DEF m
  <2> QED  BY <2>3, GoodFlush
<1>4. Good(k)
  <2> DEFINE t == s.tcp[c.peer]
             A == s.answer[c.peer]
             u == [t EXCEPT !.state = "CLOSING"]
  <2>1. u \in Tcp /\ u.got = t.got /\ u.out = t.out /\ u.state = "CLOSING"
    <3> HIDE DEF c
    <3> QED  BY <1>1 DEF Tcp
  <2>2. Streams(c, u, A)
    BY <1>1, <2>1 DEF Streams
  <2>3. k = Put(s, i, c, u, A)
    <3>1. /\ [s EXCEPT !.conn[i] = s.conn[i], !.tcp[c.peer] = u, !.answer[c.peer] = A]
                = [s EXCEPT !.tcp[c.peer] = u]
      <4>1. [s.conn EXCEPT ![i] = s.conn[i]] = s.conn /\ [s.answer EXCEPT ![c.peer] = A] = s.answer
        BY <1>1 DEF State
      <4> HIDE DEF A, c, u
      <4>2. [s EXCEPT !.conn = s.conn, !.tcp[c.peer] = u, !.answer = s.answer] = [s EXCEPT !.tcp[c.peer] = u]
        BY <1>1 DEF State
      <4> QED  BY <4>1, <4>2
    <3>2. k = [s EXCEPT !.tcp[c.peer] = u]
      <4> HIDE DEF c
      <4> QED  BY <1>1 DEF State
    <3> QED  BY <3>1, <3>2 DEF Put
  <2> HIDE DEF k, u
  <2> QED  BY <1>1, <2>1, <2>2, <2>3, PutIs
<1>5. httpdContinue(s, i) = IF "close" \in c.flags THEN k ELSE IF c.cgi = "none" THEN s
                            ELSE httpdFlushSendBuffer(m, i)
  BY DEF httpdContinue, e
<1> HIDE DEF c, m, k
<1> QED  BY <1>3, <1>4, <1>5

LEMMA ReportedIs ==
    ASSUME NEW t \in Tcp
    PROVE  /\ [t EXCEPT !.got = @ \o t.out, !.out = <<>>] \in Tcp
           /\ [t EXCEPT !.got = @ \o t.out, !.out = <<>>].got = t.got \o t.out
           /\ [t EXCEPT !.got = @ \o t.out, !.out = <<>>].out = <<>>
           /\ [t EXCEPT !.got = @ \o t.out, !.out = <<>>].state = t.state
PROOF
<1> DEFINE g == t.got \o t.out
<1>1. g \in Seq(Part) /\ <<>> \in Seq(Part)
  BY ConcatProperties DEF Tcp
<1> HIDE DEF g
<1>2. /\ [t EXCEPT !.got = g, !.out = <<>>] \in Tcp
      /\ [t EXCEPT !.got = g, !.out = <<>>].got = g /\ [t EXCEPT !.got = g, !.out = <<>>].out = <<>>
      /\ [t EXCEPT !.got = g, !.out = <<>>].state = t.state
  BY <1>1 DEF Tcp
<1> QED  BY <1>2 DEF g

LEMMA SentGood ==
    ASSUME FlowInv, NEW p \in Peers, httpdSentCb(p) PROVE FlowInv'
PROOF
<1> DEFINE i == SlotOf(p)
           t == tcp[p]
           c == conn[i]
           u == [t EXCEPT !.got = @ \o t.out, !.out = <<>>]
           s == [Now EXCEPT !.tcp[p].got = @ \o tcp[p].out, !.tcp[p].out = <<>>]
           A == answer[p]
<1>1. t.state = "UP" /\ Becomes(httpdContinue(s, i))
  BY DEF httpdSentCb, CanReport
<1>2. TypeOK /\ Good(Now)
  BY NowTyped DEF FlowInv
<1>3. i \in Slots /\ c.peer = p /\ c.up
  BY <1>1, SlotOfIs
<1> HIDE DEF i
<1>4. t \in Tcp /\ c \in Slot /\ A \in Seq(Part)
  BY <1>2, <1>3 DEF TypeOK
<1>5. /\ u \in Tcp /\ u.got = t.got \o t.out /\ u.out = <<>> /\ u.state = "UP"
  <2> HIDE DEF t
  <2> QED  BY <1>1, <1>4, ReportedIs
<1>6. GoodBut(Now, i) /\ Streams(c, t, A)
  BY <1>2, <1>3, GoodSlot, NowIs
<1>7. s = [Now EXCEPT !.tcp[p] = u]
  BY DEF Now
<1> HIDE DEF s, u
<1>8. /\ s.conn = conn /\ s.tcp = [tcp EXCEPT ![p] = u] /\ s.answer = answer
      /\ s.handles = handles /\ s.sockets = sockets /\ s.res = "MORE"
  BY <1>7 DEF Now
<1>9. s = Put(Now, i, c, u, A)
  <2>1. Now \in State /\ Now.conn[i] = c /\ Now.answer[p] = A
    BY <1>2, GoodsAre, NowIs
  <2> HIDE DEF c, A
  <2>2. Put(Now, i, c, u, A) = WithTcp(Now, p, u)
    BY <1>3, <2>1, PutTcp
  <2> QED  BY <1>7, <2>2 DEF WithTcp
<1>10. GoodBut(s, i) /\ s.conn[i] = c /\ s.tcp[p] = u /\ s.answer[p] = A
  <2>1. Now.conn[i] = c
    BY NowIs
  <2> HIDE DEF c, A
  <2> QED  BY <1>3, <1>4, <1>5, <1>6, <1>9, <2>1, PutIs
<1>11. CASE c.backlog = <<>>
  <2>1. Streams(c, u, A)
    <3>1. u.got \o u.out = t.got \o t.out
      <4>1. t.got \o t.out \in Seq(Part)
        BY <1>4, ConcatProperties DEF Tcp
      <4> QED  BY <1>5, <4>1, JoinNothing
    <3> QED  BY <1>6, <1>11, <3>1 DEF Streams
  <2>2. Good(s)
    <3>1. Now.conn[i] = c
      BY NowIs
    <3> HIDE DEF c, A
    <3> QED  BY <1>3, <1>4, <1>5, <1>6, <1>9, <2>1, <3>1, PutIs
  <2>3. Good(httpdContinue(s, i))
    <3> HIDE DEF c, A
    <3> QED  BY <1>3, <1>5, <1>10, <1>11, <2>2, GoodContinue
  <2> QED  BY <1>1, <2>3, BecomesGood
<1>12. CASE c.backlog # <<>>
  <2> DEFINE d == [c EXCEPT !.backlog = Tail(c.backlog)]
             v == Sending(u, Head(c.backlog))
  <2>1. httpdContinue(s, i) = SendBacklog(s, i)
    BY <1>10, <1>12 DEF httpdContinue
  <2>2. Tail(c.backlog) \in Seq(Seq(Part)) /\ Head(c.backlog) \in Seq(Part)
    <3>1. c.backlog \in Seq(Seq(Part))
      BY <1>4 DEF Slot
    <3> QED  BY <1>12, <3>1
  <2>3. d \in Slot /\ d.peer = p /\ d.up /\ d.backlog = Tail(c.backlog)
    <3> HIDE DEF c
    <3> QED  BY <1>3, <1>4, <2>2 DEF Slot
  <2>4. v \in Tcp /\ v.got = t.got \o t.out /\ v.out = Head(c.backlog) /\ v.state = "UP"
    <3> HIDE DEF c
    <3> QED  BY <1>5, <2>2, SendingIs
  <2>5. Streams(d, v, A)
    <3> HIDE DEF c, d, v, t, A
    <3> QED  BY <1>4, <1>6, <1>12, <2>3, <2>4, StreamsNext
  <2>6. SendBacklog(s, i) = Put(s, i, d, v, A)
    <3>1. [s.answer EXCEPT ![p] = A] = s.answer
      BY <1>2, <1>8 DEF TypeOK
    <3>2. SendBacklog(s, i) = [s EXCEPT !.tcp[p] = v, !.conn[i] = d]
      <4>1. s \in State
        BY <1>10 DEF GoodBut
      <4> HIDE DEF A
      <4> QED  BY <1>3, <1>10, <4>1 DEF SendBacklog, Sending, State
    <3>3. Put(s, i, d, v, A) = [s EXCEPT !.conn[i] = d, !.tcp[p] = v, !.answer[p] = A]
      BY <1>3, <1>10 DEF Put
    <3>4. [s EXCEPT !.conn[i] = d, !.tcp[p] = v, !.answer[p] = A] = [s EXCEPT !.tcp[p] = v, !.conn[i] = d]
      <4>1. s \in State
        BY <1>10 DEF GoodBut
      <4> HIDE DEF d, v, A
      <4> QED  BY <3>1, <4>1 DEF State
    <3> QED  BY <3>2, <3>3, <3>4
  <2>7. Good(SendBacklog(s, i))
    <3>1. d.peer = s.conn[i].peer
      BY <1>3, <1>10, <2>3
    <3> HIDE DEF d, v, A, c
    <3> QED  BY <1>3, <1>4, <1>10, <2>3, <2>4, <2>5, <2>6, <3>1, PutIs
  <2> QED  BY <1>1, <2>1, <2>7, BecomesGood
<1> QED  BY <1>11, <1>12

\* The end of a connection.
LEMMA EndedIs ==
    ASSUME NEW s \in State, NEW i \in Slots, NEW p \in Peers
    PROVE  Discon(s, i, p) \in State /\ Discon(s, i, p).conn[i].peer = s.conn[i].peer
PROOF
<1> DEFINE c == s.conn[i]
           d == [c EXCEPT !.up = FALSE]
           f == [s.conn EXCEPT ![i] = d]
           g == [s.tcp EXCEPT ![p] = NoTcp]
           e == [s.answer EXCEPT ![p] = <<>>]
<1>1. d \in Slot /\ d.peer = c.peer
  <2>1. c \in Slot
    BY StateFields
  <2> HIDE DEF c
  <2> QED  BY <2>1 DEF Slot
<1>2. f \in [Slots -> Slot] /\ g \in [Peers -> Tcp] /\ e \in [Peers -> Seq(Part)] /\ f[i] = d
  <2>1. <<>> \in Seq(Part) /\ s.conn \in [Slots -> Slot] /\ s.tcp \in [Peers -> Tcp]
        /\ s.answer \in [Peers -> Seq(Part)]
    BY DEF State
  <2> HIDE DEF d
  <2> QED  BY <1>1, <2>1, FreeSlotType
<1>3. Discon(s, i, p) = [s EXCEPT !.conn = f, !.tcp = g, !.answer = e]
  BY DEF Discon
<1> HIDE DEF f, g, e
<1>4. [s EXCEPT !.conn = f, !.tcp = g, !.answer = e] \in State
      /\ [s EXCEPT !.conn = f, !.tcp = g, !.answer = e].conn = f
  BY <1>2 DEF State
<1> QED  BY <1>1, <1>2, <1>3, <1>4

LEMMA DisconGood ==
    ASSUME FlowInv, NEW p \in Peers, httpdDisconCb(p) PROVE FlowInv'
PROOF
<1> DEFINE i == SlotOf(p)
           s == Discon(Now, i, p)
           x == CleanUp(s, i)
<1>1. tcp[p].state # "NONE" /\ Becomes(httpdRetireConn(x, i))
  BY DEF httpdDisconCb, Discon
<1>2. i \in Slots /\ Now.conn[i].peer = p
  BY <1>1, SlotOfIs, NowIs
<1> HIDE DEF i
<1>3. Good(Now) /\ Now \in State
  BY GoodsAre DEF FlowInv
<1>4. s \in State
  BY <1>2, <1>3, EndedIs
<1> HIDE DEF s
<1>5. Keeps(s, x)
  <2>1. s.conn[i].cgi = "none" \/ s.conn[i].cgi \in Cgis
    BY <1>2, <1>4, StateFields DEF Slot
  <2>2. Keeps(s, s) /\ (s.conn[i].cgi \in Cgis => Keeps(s, Call(s, i, s.conn[i].cgi)))
    BY <1>2, <1>4, KeepsAll, KeepsCall
  <2> QED  BY <2>1, <2>2 DEF CleanUp
<1> HIDE DEF x
<1>6. Good(httpdRetireConn(x, i))
  BY <1>2, <1>3, <1>5, GoodRetire DEF s
<1> QED  BY <1>1, <1>6, BecomesGood

LEMMA SendOnGood == ASSUME NEW s, NEW i \in Slots, Good(s) PROVE Good(SendOn(s, i))
PROOF
<1> DEFINE c == s.conn[i]
           e == [s EXCEPT !.conn[i].buf = <<>>]
           x == httpdSend(e, i, "text")
<1>1. s \in State /\ c \in Slot
  BY GoodsAre, StateFields
<1>2. Good(e)
  <2> DEFINE d == Emptied(c)
  <2>1. d \in Slot /\ Ends(c, d)
    <3>1. <<>> \in Seq(Part)
      OBVIOUS
    <3> HIDE DEF c
    <3> QED  BY <1>1, <3>1, EmptiedIs
  <2>2. e = [s EXCEPT !.conn[i] = d]
    BY <1>1 DEF Emptied, State
  <2> HIDE DEF d, e
  <2> QED  BY <2>1, <2>2, GoodWrite
<1> HIDE DEF e
<1>3. Good(x)
  <2>1. e \in State /\ "text" \in Kinds
    BY <1>2, GoodsAre DEF Kinds
  <2> QED  BY <1>2, <2>1, KeepsSend, GoodKeeps
<1>4. SendOn(s, i) = httpdFlushSendBuffer(x, i)
  BY DEF SendOn, e
<1> HIDE DEF x
<1> QED  BY <1>3, <1>4, GoodFlush

LEMMA SentToAllGood ==
    ASSUME NEW s, Good(s), NEW q \in Seq(Slots) PROVE Good(SentToAll(s, q))
PROOF
<1> DEFINE n == Len(q)
           Q == [k \in Nat |-> Goods]
<1>1. n \in Nat /\ DOMAIN q = 1 .. n /\ \A k \in 1 .. n : q[k] \in Slots
  OBVIOUS
<1>2. \A t : t \in Goods <=> Good(t)
  BY GoodsAre
<1>3. \A k \in 1 .. n : \A t \in Goods : SendOn(t, q[k]) \in Goods
  BY <1>1, <1>2, SendOnGood
<1>4. s \in Goods /\ s \in Q[0]
  BY <1>2
<1>5. \A k \in 1 .. n : \A t \in Goods : t \in Q[k - 1] => SendOn(t, q[k]) \in Q[k]
  BY <1>1, <1>3
<1> HIDE DEF n, Q
<1>6. SentToAll(s, q) \in Goods
  BY <1>1, <1>3, <1>4, <1>5, SentKeeps
<1> QED  BY <1>2, <1>6

LEMMA BroadcastGood == ASSUME FlowInv, cgiWebsockBroadcast PROVE FlowInv'
PROOF
<1> DEFINE s == SentToAll(Now, sockets)
           Counted(p) == \E k \in 1 .. Len(sockets) : conn[sockets[k]].peer = p
           f == [p \in Peers |-> IF Counted(p) THEN [s.tcp[p] EXCEPT !.frames = @ + 1] ELSE s.tcp[p]]
<1>1. Becomes([s EXCEPT !.tcp = f])
  BY DEF cgiWebsockBroadcast, SentToAll, SendOn
<1>2. Good(s) /\ s \in State
  BY NowTyped, SentToAllGood, GoodsAre DEF FlowInv, TypeOK
<1> HIDE DEF s
<1>3. ASSUME NEW t \in Tcp PROVE [t EXCEPT !.frames = @ + 1] \in Tcp /\ SameFlow(t, [t EXCEPT !.frames = @ + 1])
  <2> DEFINE m == t.frames + 1
  <2>1. m \in Nat
    BY DEF Tcp
  <2> HIDE DEF m
  <2>2. [t EXCEPT !.frames = m] \in Tcp /\ SameFlow(t, [t EXCEPT !.frames = m])
    BY <2>1 DEF Tcp, SameFlow
  <2> QED  BY <2>2 DEF m
<1>4. f \in [Peers -> Tcp] /\ \A p \in Peers : SameFlow(s.tcp[p], f[p])
  <2>1. \A p \in Peers : s.tcp[p] \in Tcp
    BY <1>2 DEF State
  <2> HIDE DEF Counted
  <2>2. ASSUME NEW p \in Peers PROVE f[p] \in Tcp /\ SameFlow(s.tcp[p], f[p])
    <3>1. [s.tcp[p] EXCEPT !.frames = @ + 1] \in Tcp /\ SameFlow(s.tcp[p], [s.tcp[p] EXCEPT !.frames = @ + 1])
      BY <1>3, <2>1
    <3>2. SameFlow(s.tcp[p], s.tcp[p])
      BY DEF SameFlow
    <3>3. f[p] = IF Counted(p) THEN [s.tcp[p] EXCEPT !.frames = @ + 1] ELSE s.tcp[p]
      OBVIOUS
    <3> HIDE DEF f
    <3> QED  BY <2>1, <3>1, <3>2, <3>3
  <2>3. f = [p \in Peers |-> f[p]]
    OBVIOUS
  <2> HIDE DEF f
  <2> QED  BY <2>2, <2>3
<1> HIDE DEF f
<1>5. Good([s EXCEPT !.tcp = f])
  BY <1>2, <1>4, GoodTcp
<1> QED  BY <1>1, <1>5, BecomesGood

LEMMA GoodEmptied ==
    ASSUME NEW s, NEW i \in Slots, Good(s) PROVE Good([s EXCEPT !.conn[i].buf = <<>>])
PROOF
<1> DEFINE c == s.conn[i]
           d == Emptied(c)
<1>1. s \in State /\ c \in Slot
  BY GoodsAre, StateFields
<1>2. d \in Slot /\ Ends(c, d)
  <2>1. <<>> \in Seq(Part)
    OBVIOUS
  <2> HIDE DEF c
  <2> QED  BY <1>1, <2>1, EmptiedIs
<1>3. [s EXCEPT !.conn[i].buf = <<>>] = [s EXCEPT !.conn[i] = d]
  BY <1>1 DEF Emptied, State
<1> HIDE DEF d
<1> QED  BY <1>2, <1>3, GoodWrite

\* The bound on frames counts one more.
FrameMore(s, p) == [s EXCEPT !.tcp[p].frames = @ + 1]
LEMMA FrameMoreGood ==
    ASSUME NEW s, NEW p \in Peers, Good(s) PROVE Good(FrameMore(s, p))
PROOF
<1> DEFINE t == s.tcp[p]
           m == t.frames + 1
           u == [t EXCEPT !.frames = m]
           f == [s.tcp EXCEPT ![p] = u]
<1>1. s \in State /\ s.tcp \in [Peers -> Tcp] /\ t \in Tcp
  BY GoodsAre DEF State
<1>2. m \in Nat
  BY <1>1 DEF Tcp
<1>3. FrameMore(s, p) = [s EXCEPT !.tcp = f]
  BY <1>1 DEF FrameMore, State
<1> HIDE DEF m
<1>4. u \in Tcp /\ SameFlow(t, u)
  <2> HIDE DEF t
  <2> QED  BY <1>1, <1>2 DEF Tcp, SameFlow
<1> HIDE DEF u
<1>5. f \in [Peers -> Tcp] /\ \A o \in Peers : SameFlow(s.tcp[o], f[o])
  BY <1>1, <1>4 DEF SameFlow
<1> HIDE DEF f
<1> QED  BY <1>3, <1>5, GoodTcp

LEMMA CloseSocketGood ==
    ASSUME FlowInv, NEW p \in Peers, CloseSocket(p) PROVE FlowInv'
PROOF
<1>1. PICK k \in 1 .. Len(sockets) :
         Becomes([cgiWebsocketClose([Now EXCEPT !.conn[sockets[k]].buf = <<>>], sockets[k])
                    EXCEPT !.tcp[p].frames = @ + 1])
  BY DEF CloseSocket
<1> DEFINE i == sockets[k]
           s == [Now EXCEPT !.conn[i].buf = <<>>]
           c == cgiWebsocketClose(s, i)
<1>2. i \in Slots
  BY NowTyped DEF TypeOK
<1>3. Becomes(FrameMore(c, p))
  BY <1>1 DEF FrameMore
<1> HIDE DEF i
<1>4. Good(s)
  BY <1>2, GoodEmptied DEF FlowInv
<1> HIDE DEF s
<1>5. Good(c)
  BY <1>2, <1>4, GoodSocketClose
<1> HIDE DEF c
<1>6. Good(FrameMore(c, p))
  BY <1>5, FrameMoreGood
<1> QED  BY <1>3, <1>6, BecomesGood

LEMMA NextGood == FlowInv /\ [Next]_vars => FlowInv'
PROOF
<1>1. CASE UNCHANGED vars
  BY <1>1 DEF vars, FlowInv, Now
<1>2. ASSUME FlowInv, NEW p \in Peers, Callback(p) PROVE FlowInv'
  BY <1>2, ConnectGood, RecvGood, SentGood, DisconGood DEF Callback
<1>3. ASSUME FlowInv, NEW p \in Peers, Ask(p) \/ SendFrame(p) \/ CloseSocket(p) PROVE FlowInv'
  BY <1>3, AskGood, SendFrameGood, CloseSocketGood
<1>4. ASSUME FlowInv, cgiWebsockBroadcast PROVE FlowInv'
  BY <1>4, BroadcastGood
<1> QED  BY <1>1, <1>2, <1>3, <1>4 DEF Next

\* Whatever the callbacks, the clients and the application do, what a client got, what is on its way
\* and what waits in the backlog is in this order all that was to be sent to it, although
\* httpdFlushSendBuffer tries to send before it looks at the backlog (httpd.c:403-429, 470-479).
THEOREM StreamsKept == Spec => []StreamKept
PROOF
<1>1. FlowInv => StreamKept
  BY NowIs DEF FlowInv, Good, Flowing, Streams, StreamKept
<1> QED  BY InitGood, NextGood, <1>1, PTL DEF Spec
=============================================================================
