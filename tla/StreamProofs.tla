----------------------------- MODULE StreamProofs -----------------------------
(***************************************************************************)
(* Theorems about the byte streams of a connection: a read never lands on  *)
(* bytes that are still to be processed, and the responses reach the       *)
(* socket whole and in the order of their requests; for any requests, any  *)
(* size of the buffers and any way to cut the stream.  What is dispatched  *)
(* is what the parser makes of one piece of the text; so what holds of the *)
(* parser on every piece holds of the connection.                          *)
(***************************************************************************)
EXTENDS Stream, TLAPS, SequenceTheorems

Buffers(S) == [data : Seq(S), r : Nat, w : Nat]

-----------------------------------------------------------------------------
(* What every reachable state satisfies.                                   *)

\* The read buffer is used from its beginning only: it holds the last bytes taken from the
\* socket, and is empty wherever a read may follow, unless it is full.
Reading ==
    /\ sent \in Nat /\ got \in Nat /\ got <= sent
    /\ rbuf \in Buffers(Nat \cup {Zero})
    /\ rbuf.r = kCheapPrepend /\ rbuf.r <= rbuf.w /\ rbuf.w <= Len(rbuf.data)
    /\ rbuf.w - rbuf.r <= got
    /\ \A i \in 1..rbuf.w - rbuf.r : rbuf.data[rbuf.r + i] = got - (rbuf.w - rbuf.r) + i
    /\ pc \in {"read", "wait"} /\ rbuf.w < Len(rbuf.data) => rbuf.w = rbuf.r
    /\ pc = "execute" => rbuf.r < rbuf.w
    /\ pc = "output" => rbuf.r = rbuf.w

\* The write buffer holds what is left of a response.  It is back at its beginning when it is
\* empty, as it is outside output().
WriteIndices(b) ==
    /\ kCheapPrepend <= b.r /\ b.r <= b.w /\ b.w <= Len(b.data)
    /\ b.r = b.w => b.r = kCheapPrepend

Writing ==
    peer.protocol = "HTTP" =>
        /\ \E S : /\ Zero \in S /\ out \in Seq(S) /\ wbuf \in Buffers(S)
                  /\ answered \in Seq(S)
        /\ WriteIndices(wbuf)
        /\ pc \notin {"output", "stuck"} => wbuf.r = wbuf.w

\* The requests answered were taken from the socket one after the other, and before what the
\* read buffer holds now.
Answering ==
    peer.protocol = "HTTP" =>
        /\ \A i \in 1..Len(answered) :
              answered[i].at \in Nat /\ answered[i].at <= got - (rbuf.w - rbuf.r)
        /\ \A i, j \in 1..Len(answered) : i < j => answered[i].at < answered[j].at
        /\ InARow(out \o Content(wbuf), Responses)

StreamInv == Reading /\ Writing /\ Answering


-----------------------------------------------------------------------------
(* The members of the buffer, as they are used here.                       *)

\* The first of two numbers.
LEMMA MinOfTwo ==
    ASSUME NEW a \in Nat, NEW b \in Nat
    PROVE  Min({a, b}) \in Nat /\ Min({a, b}) <= a /\ Min({a, b}) <= b
BY DEF Min

\* The content of a buffer is what lies between its indices.
LEMMA ContentShape ==
    ASSUME NEW S, NEW b \in Buffers(S), b.r <= b.w, b.w <= Len(b.data)
    PROVE  /\ Content(b) \in Seq(S) /\ Len(Content(b)) = b.w - b.r
           /\ \A i \in 1..b.w - b.r : Content(b)[i] = b.data[b.r + i]
BY DEF Buffers, Content

\* Retrieving everything puts the indices back and leaves the bytes where they are.
LEMMA RetrieveAllIs ==
    ASSUME NEW S, NEW b \in Buffers(S)
    PROVE  RetrieveAll(b) = [data |-> b.data, r |-> kCheapPrepend, w |-> kCheapPrepend]
<1> DEFINE c == RetrieveAll(b)
<1>1. c \in [data : {b.data}, r : {kCheapPrepend}, w : {kCheapPrepend}]
  BY DEF RetrieveAll, Buffers
<1> HIDE DEF c
<1>2. c = [data |-> c.data, r |-> c.r, w |-> c.w]
  BY <1>1
<1>3. c.data = b.data /\ c.r = kCheapPrepend /\ c.w = kCheapPrepend
  BY <1>1
<1> QED BY <1>2, <1>3 DEF c

\* Put replaces the bytes it is given, and no others.
LEMMA PutShape ==
    ASSUME NEW S, NEW d \in Seq(S), NEW at \in Nat, NEW s \in Seq(S)
    PROVE  /\ Put(d, at, s) \in Seq(S) /\ Len(Put(d, at, s)) = Len(d)
           /\ \A i \in 1..Len(d) :
                 Put(d, at, s)[i] = IF i > at /\ i <= at + Len(s) THEN s[i - at] ELSE d[i]
<1>1. ASSUME NEW i \in 1..Len(d)
      PROVE  (IF i > at /\ i <= at + Len(s) THEN s[i - at] ELSE d[i]) \in S
  <2>1. CASE i > at /\ i <= at + Len(s)
    <3>1. i - at \in 1..Len(s)
      BY <2>1
    <3> QED BY <2>1, <3>1
  <2>2. CASE ~(i > at /\ i <= at + Len(s))
    BY <2>2
  <2> QED BY <2>1, <2>2
<1>2. Put(d, at, s) \in [1..Len(d) -> S]
  BY <1>1 DEF Put
<1> QED BY <1>2 DEF Put

\* What is appended to an empty buffer is its content.
LEMMA AppendToEmpty ==
    ASSUME NEW S, Zero \in S, NEW b \in Buffers(S), WriteIndices(b), b.r = b.w,
           NEW s \in Seq(S)
    PROVE  LET c == AppendBytes(b, s)
           IN  c \in Buffers(S) /\ WriteIndices(c) /\ Content(c) = s
<1> DEFINE e == EnsureWriteable(b, Len(s))
           d == Put(e.data, kCheapPrepend, s)
           c == AppendBytes(b, s)
<1> USE PrependAssumption
<1>1. /\ b.data \in Seq(S) /\ b.r = kCheapPrepend /\ b.w = kCheapPrepend
      /\ b.w <= Len(b.data) /\ Len(s) \in Nat /\ Len(b.data) \in Nat
  BY DEF Buffers, WriteIndices
<1>2. /\ e.data \in Seq(S) /\ kCheapPrepend + Len(s) <= Len(e.data)
      /\ e = [data |-> e.data, r |-> kCheapPrepend, w |-> kCheapPrepend]
  <2>1. CASE WriteableBytes(b) < Len(s)
    <3> DEFINE v == [i \in 1..b.w + Len(s) |-> IF i <= Len(b.data) THEN b.data[i] ELSE Zero]
    <3>1. v \in Seq(S) /\ Len(v) = kCheapPrepend + Len(s)
      BY <1>1
    <3>2. e = [b EXCEPT !.data = v]
      BY <1>1, <2>1 DEF EnsureWriteable, MakeSpace, WriteableBytes, PrependableBytes
    <3> HIDE DEF v, e
    <3>3. e = [data |-> v, r |-> kCheapPrepend, w |-> kCheapPrepend]
      BY <1>1, <3>2 DEF Buffers
    <3> QED BY <3>1, <3>3
  <2>2. CASE ~(WriteableBytes(b) < Len(s))
    <3>1. e = b
      BY <2>2 DEF EnsureWriteable
    <3> HIDE DEF e
    <3> QED BY <1>1, <2>2, <3>1 DEF WriteableBytes, Buffers
  <2> QED BY <2>1, <2>2
<1>3. c = [e EXCEPT !.data = Put(e.data, e.w, s), !.w = @ + Len(s)]
  BY DEF AppendBytes
<1> HIDE DEF c, e
<1>4. c = [data |-> d, r |-> kCheapPrepend, w |-> kCheapPrepend + Len(s)]
  <2>1. e \in Buffers(S) /\ e.r = kCheapPrepend /\ e.w = kCheapPrepend
    BY <1>1, <1>2 DEF Buffers
  <2>2. c = [e EXCEPT !.data = d, !.w = kCheapPrepend + Len(s)]
    BY <1>3, <2>1
  <2> HIDE DEF d
  <2> QED BY <2>1, <2>2 DEF Buffers
<1>5. /\ d \in Seq(S) /\ Len(d) = Len(e.data)
      /\ \A i \in 1..Len(e.data) :
            d[i] = IF i > kCheapPrepend /\ i <= kCheapPrepend + Len(s)
                   THEN s[i - kCheapPrepend] ELSE e.data[i]
  BY <1>2, PutShape
<1> HIDE DEF d
<1>6. c \in Buffers(S) /\ WriteIndices(c)
  BY <1>1, <1>2, <1>4, <1>5 DEF Buffers, WriteIndices
<1>7. ASSUME NEW i \in 1..Len(s) PROVE d[kCheapPrepend + i] = s[i]
  <2> DEFINE j == kCheapPrepend + i
  <2>1. /\ j \in 1..Len(e.data) /\ j > kCheapPrepend /\ j <= kCheapPrepend + Len(s)
        /\ j - kCheapPrepend = i
    BY <1>1, <1>2
  <2> HIDE DEF j
  <2>2. d[j] = s[i]
    BY <1>5, <2>1
  <2> QED BY <2>2 DEF j
<1>8. /\ Content(c) \in Seq(S) /\ Len(Content(c)) = Len(s)
      /\ \A i \in 1..Len(s) : Content(c)[i] = d[kCheapPrepend + i]
  <2>1. c.r = kCheapPrepend /\ c.w = kCheapPrepend + Len(s) /\ c.data = d
    BY <1>4
  <2>2. c.w - c.r = Len(s) /\ c.r <= c.w /\ c.w <= Len(c.data)
    BY <1>1, <1>2, <1>5, <2>1
  <2> QED BY <1>6, <2>1, <2>2, ContentShape
<1>9. Content(c) = s
  BY <1>7, <1>8, SeqEqual
<1> QED BY <1>6, <1>9 DEF c

\* What a write takes is gone from the front, and nothing else is.
LEMMA RetrieveSome ==
    ASSUME NEW S, NEW b \in Buffers(S), WriteIndices(b), NEW n \in 1..b.w - b.r
    PROVE  LET c == Retrieve(b, n)
           IN  /\ c \in Buffers(S) /\ WriteIndices(c)
               /\ Content(b) = SubSeq(Content(b), 1, n) \o Content(c)
               /\ SubSeq(Content(b), 1, n) \in Seq(S)
<1> DEFINE c == Retrieve(b, n)
           x == Content(b)
           m == b.w - b.r
<1> USE PrependAssumption
<1>1. /\ b.data \in Seq(S) /\ b.r \in Nat /\ b.w \in Nat /\ m \in Nat /\ n \in Nat /\ n <= m
      /\ b.r <= b.w /\ b.w <= Len(b.data) /\ kCheapPrepend <= b.r
  BY DEF Buffers, WriteIndices
<1>2. x \in Seq(S) /\ Len(x) = m /\ \A i \in 1..m : x[i] = b.data[b.r + i]
  BY <1>1, ContentShape
<1> HIDE DEF x
<1>3. /\ SubSeq(x, 1, n) \in Seq(S) /\ Len(SubSeq(x, 1, n)) = n
      /\ \A i \in 1..n : SubSeq(x, 1, n)[i] = x[i]
  BY <1>1, <1>2
<1>4. CASE n < m
  <2>1. c = [data |-> b.data, r |-> b.r + n, w |-> b.w]
    BY <1>4 DEF Retrieve, ReadableBytes, Buffers
  <2> HIDE DEF c
  <2>2. c \in Buffers(S) /\ WriteIndices(c) /\ c.r = b.r + n /\ c.w = b.w
    BY <1>1, <1>4, <2>1 DEF Buffers, WriteIndices
  <2>3. /\ Content(c) \in Seq(S) /\ Len(Content(c)) = m - n
        /\ \A i \in 1..m - n : Content(c)[i] = b.data[b.r + n + i]
    <3>1. c.w - c.r = m - n /\ c.r <= c.w /\ c.w <= Len(c.data)
      BY <1>1, <1>4, <2>1
    <3> QED BY <2>1, <2>2, <3>1, ContentShape
  <2> DEFINE a == SubSeq(x, 1, n)
             z == Content(c)
  <2>4. /\ a \o z \in Seq(S) /\ Len(a \o z) = m
        /\ \A i \in 1..m : (a \o z)[i] = IF i <= n THEN a[i] ELSE z[i - n]
    <3>1. Len(a) + Len(z) = m /\ Len(a) = n
      BY <1>1, <1>3, <2>3
    <3> QED BY <1>3, <2>3, <3>1, ConcatProperties
  <2> DEFINE y == a \o z
  <2> HIDE DEF y, a, z
  <2>5. ASSUME NEW i \in 1..m PROVE y[i] = x[i]
    <3>1. CASE i <= n
      <4>1. i \in 1..n
        BY <3>1
      <4> QED BY <1>3, <2>4, <3>1, <4>1 DEF y, a
    <3>2. CASE ~(i <= n)
      <4> DEFINE k == i - n
      <4>1. k \in 1..m - n
        BY <1>1, <3>2
      <4>2. n + k = i
        BY <1>1
      <4>3. b.r + n + k = b.r + i
        <5>1. k \in Nat
          BY <1>1, <4>1
        <5> HIDE DEF k
        <5> QED BY <1>1, <4>2, <5>1
      <4> HIDE DEF k
      <4>4. z[k] = b.data[b.r + i]
        BY <2>3, <4>1, <4>3 DEF z
      <4>5. y[i] = z[k]
        BY <2>4, <3>2 DEF y, k
      <4> QED BY <1>2, <4>4, <4>5
    <3> QED BY <3>1, <3>2
  <2>6. y = x
    BY <1>2, <2>4, <2>5, SeqEqual DEF y
  <2> QED BY <1>3, <2>2, <2>6 DEF y, a, z, c, x
<1>5. CASE ~(n < m)
  <2>1. c = [data |-> b.data, r |-> kCheapPrepend, w |-> kCheapPrepend]
    BY <1>5, RetrieveAllIs DEF Retrieve, ReadableBytes
  <2> HIDE DEF c
  <2>2. c \in Buffers(S) /\ WriteIndices(c)
    BY <1>1, <2>1 DEF Buffers, WriteIndices
  <2>3. Content(c) = <<>>
    <3>1. c.r = kCheapPrepend /\ c.w = kCheapPrepend /\ c.w <= Len(c.data)
      BY <1>1, <2>1
    <3>2. Content(c) \in Seq(S) /\ Len(Content(c)) = 0
      BY <2>2, <3>1, ContentShape
    <3> QED BY <3>2
  <2>4. SubSeq(x, 1, n) = x
    <3>1. n = m
      BY <1>1, <1>5
    <3> QED BY <1>2, <1>3, <3>1, SeqEqual
  <2>5. x \o <<>> = x
    BY <1>2, ConcatEmptySeq
  <2> QED BY <1>3, <2>2, <2>3, <2>4, <2>5 DEF c, x
<1> QED BY <1>4, <1>5

\* encode() gives a sequence.
LEMMA EncodeIs ==
    ASSUME NEW res
    PROVE  \E S : Encode(res) \in Seq(S)
<1> DEFINE first == <<res.version, res.code, res.info>>
           h == res.header
           S == {first, CRLF, res.body, <<"Connection", h["Connection"]>>,
                 <<"Content-Length", h["Content-Length"]>>, <<"Content-Type", h["Content-Type"]>>}
           Line(name) == IF name \in DOMAIN h THEN <<<<name, h[name]>>>> ELSE <<>>
           a == Line("Connection")
           b == Line("Content-Length")
           c == Line("Content-Type")
           f == <<first>>
           e == <<CRLF, res.body>>
<1>1. a \in Seq(S) /\ b \in Seq(S) /\ c \in Seq(S)
  OBVIOUS
<1>2. f \in Seq(S) /\ e \in Seq(S)
  OBVIOUS
<1>3. Encode(res) = f \o (a \o b \o c) \o e
  BY DEF Encode, ToHttpString
<1> HIDE DEF a, b, c, S, f, e
<1>4. f \o (a \o b \o c) \o e \in Seq(S)
  BY <1>1, <1>2, ConcatProperties
<1> QED BY <1>3, <1>4

-----------------------------------------------------------------------------
(* Parts in a row.                                                         *)

\* A piece of a sequence is the same piece of a longer one.
LEMMA PieceOfLonger ==
    ASSUME NEW S, NEW s \in Seq(S), NEW e \in Seq(S), NEW a \in 0..Len(s), NEW b \in 0..Len(s)
    PROVE  SubSeq(s \o e, a + 1, b) = SubSeq(s, a + 1, b)
<1> DEFINE t == s \o e
<1>1. /\ t \in Seq(S) /\ Len(t) = Len(s) + Len(e)
      /\ \A i \in 1..Len(s) : t[i] = s[i]
  BY ConcatProperties
<1>2. a \in Nat /\ b \in Nat /\ Len(s) \in Nat
  OBVIOUS
<1> HIDE DEF t
<1> DEFINE x == SubSeq(t, a + 1, b)
           y == SubSeq(s, a + 1, b)
<1>3. /\ x \in Seq(S) /\ Len(x) = IF a + 1 <= b THEN b - a ELSE 0
      /\ \A i \in 1..b - a : x[i] = t[a + i]
  BY <1>1, <1>2
<1>4. /\ y \in Seq(S) /\ Len(y) = IF a + 1 <= b THEN b - a ELSE 0
      /\ \A i \in 1..b - a : y[i] = s[a + i]
  BY <1>2
<1> HIDE DEF x, y
<1>5. ASSUME NEW i \in 1..Len(x) PROVE x[i] = y[i]
  <2>1. i \in 1..b - a /\ a + i \in 1..Len(s)
    BY <1>2, <1>3
  <2> QED BY <1>1, <1>3, <1>4, <2>1
<1>6. x = y
  BY <1>3, <1>4, <1>5, SeqEqual
<1> QED BY <1>6 DEF t, x, y

\* What was put behind a sequence is what follows it.
LEMMA PieceBehind ==
    ASSUME NEW S, NEW s \in Seq(S), NEW e \in Seq(S)
    PROVE  SubSeq(s \o e, Len(s) + 1, Len(s \o e)) = e
<1> DEFINE t == s \o e
           x == SubSeq(t, Len(s) + 1, Len(t))
<1>1. /\ t \in Seq(S) /\ Len(t) = Len(s) + Len(e)
      /\ \A i \in 1..Len(s) + Len(e) : t[i] = IF i <= Len(s) THEN s[i] ELSE e[i - Len(s)]
      /\ Len(s) \in Nat /\ Len(e) \in Nat
  BY ConcatProperties
<1> HIDE DEF t
<1>2. x \in Seq(S) /\ Len(x) = Len(e) /\ \A i \in 1..Len(e) : x[i] = t[Len(s) + i]
  BY <1>1
<1> HIDE DEF x
<1>3. ASSUME NEW i \in 1..Len(e) PROVE x[i] = e[i]
  <2> DEFINE j == Len(s) + i
  <2>1. j \in 1..Len(s) + Len(e) /\ ~(j <= Len(s)) /\ j - Len(s) = i
    BY <1>1
  <2> HIDE DEF j
  <2>2. t[j] = e[i]
    BY <1>1, <2>1
  <2> QED BY <1>2, <2>2 DEF j
<1>4. x = e
  BY <1>2, <1>3, SeqEqual
<1> QED BY <1>4 DEF x, t

\* One part more.
LEMMA RowAppend ==
    ASSUME NEW S, NEW s \in Seq(S), NEW e \in Seq(S), NEW p, NEW q, NEW n \in Nat,
           Len(p) = n, Len(q) = n + 1, q[n + 1] = e, \A i \in 1..n : q[i] = p[i],
           InARow(s, p)
    PROVE  InARow(s \o e, q)
<1> DEFINE t == s \o e
<1>1. PICK ends \in [0..n -> 0..Len(s)] :
         /\ ends[0] = 0 /\ ends[n] = Len(s)
         /\ \A i \in 1..n :
               ends[i - 1] <= ends[i] /\ SubSeq(s, ends[i - 1] + 1, ends[i]) = p[i]
  BY DEF InARow
<1>2. Len(t) = Len(s) + Len(e) /\ Len(s) \in Nat /\ Len(e) \in Nat
  BY ConcatProperties
<1>3. SubSeq(t, Len(s) + 1, Len(t)) = e
  BY PieceBehind
<1>4. \A a, b \in 0..Len(s) : SubSeq(t, a + 1, b) = SubSeq(s, a + 1, b)
  BY PieceOfLonger
<1> HIDE DEF t
<1> DEFINE more == [i \in 0..n + 1 |-> IF i = n + 1 THEN Len(t) ELSE ends[i]]
<1>5. \A i \in 0..n : ends[i] \in 0..Len(s) /\ more[i] = ends[i]
  OBVIOUS
<1>6. more[n + 1] = Len(t)
  OBVIOUS
<1>7. more \in [0..n + 1 -> 0..Len(t)]
  <2>1. \A i \in 0..n + 1 : (IF i = n + 1 THEN Len(t) ELSE ends[i]) \in 0..Len(t)
    BY <1>2, <1>5
  <2> QED BY <2>1
<1> HIDE DEF more
<1>8. ASSUME NEW i \in 1..n + 1
      PROVE  more[i - 1] <= more[i] /\ SubSeq(t, more[i - 1] + 1, more[i]) = q[i]
  <2>1. CASE i = n + 1
    <3>1. i - 1 = n /\ n \in 0..n
      BY <2>1
    <3>2. more[i - 1] = Len(s) /\ more[i] = Len(t)
      BY <1>1, <1>5, <1>6, <2>1, <3>1
    <3> QED BY <1>2, <1>3, <2>1, <3>2
  <2>2. CASE i # n + 1
    <3>1. i \in 1..n /\ i \in 0..n /\ i - 1 \in 0..n
      BY <2>2
    <3>2. /\ more[i] = ends[i] /\ more[i - 1] = ends[i - 1]
          /\ ends[i] \in 0..Len(s) /\ ends[i - 1] \in 0..Len(s)
      BY <1>5, <3>1
    <3>3. SubSeq(t, ends[i - 1] + 1, ends[i]) = SubSeq(s, ends[i - 1] + 1, ends[i])
      BY <1>4, <3>2
    <3> QED BY <1>1, <3>1, <3>2, <3>3
  <2> QED BY <2>1, <2>2
<1>9. more[0] = 0
  BY <1>1, <1>5
<1>10. Len(q) = n + 1 /\ more[Len(q)] = Len(t)
  BY <1>6
<1>11. InARow(t, q)
  BY <1>7, <1>8, <1>9, <1>10 DEF InARow
<1> QED BY <1>11 DEF t

-----------------------------------------------------------------------------
(* The steps: the read buffer.                                             *)

\* A read takes what there is, as far as there is room.
LEMMA ChunkIs ==
    ASSUME Reading
    PROVE  Chunk \in Nat /\ Chunk <= Len(rbuf.data) - rbuf.w /\ Chunk <= sent - got
<1>1. WriteableBytes(rbuf) \in Nat /\ sent - got \in Nat
      /\ WriteableBytes(rbuf) = Len(rbuf.data) - rbuf.w
  BY DEF Reading, Buffers, WriteableBytes
<1> QED BY <1>1, MinOfTwo DEF Chunk

\* What a read takes is then the content of the buffer, which was empty.
LEMMA TakeIs ==
    ASSUME Reading, pc \in {"read", "wait"}, Chunk > 0, TakeChunk, sent' = sent
    PROVE  Reading' /\ pc' \in {"read", "execute"} /\ got' = got + (rbuf'.w - rbuf'.r)
           /\ got' \in Nat /\ rbuf.w = rbuf.r
<1> DEFINE n == Chunk
           bytes == [i \in 1..n |-> got + i]
           B == Nat \cup {Zero}
           d == Put(rbuf.data, rbuf.r, bytes)
<1> USE PrependAssumption
<1>1. n \in Nat /\ n > 0 /\ n <= Len(rbuf.data) - rbuf.w /\ n <= sent - got
  BY ChunkIs
<1>2. /\ rbuf \in Buffers(B) /\ rbuf.data \in Seq(B) /\ Len(rbuf.data) \in Nat
      /\ rbuf.r = kCheapPrepend /\ rbuf.w \in Nat /\ got \in Nat /\ sent \in Nat
  BY DEF Reading, Buffers
<1>3. rbuf.w = rbuf.r
  BY <1>1, <1>2 DEF Reading
<1>4. got' = got + n /\ pc' = IF n = WriteableBytes(rbuf) THEN "read" ELSE "execute"
  BY DEF TakeChunk
<1>5. rbuf' = HasWritten([rbuf EXCEPT !.data = d], n)
  BY DEF TakeChunk
<1>6. bytes \in Seq(B) /\ Len(bytes) = n /\ \A i \in 1..n : bytes[i] = got + i
  BY <1>1, <1>2
<1> HIDE DEF n, bytes, B
<1>7. /\ d \in Seq(B) /\ Len(d) = Len(rbuf.data)
      /\ \A i \in 1..Len(rbuf.data) :
            d[i] = IF i > rbuf.r /\ i <= rbuf.r + Len(bytes)
                   THEN bytes[i - rbuf.r] ELSE rbuf.data[i]
  <2>1. rbuf.r \in Nat /\ rbuf.data \in Seq(B) /\ bytes \in Seq(B)
    BY <1>2, <1>6
  <2> QED BY <2>1, PutShape
<1> HIDE DEF d
<1>8. d \in Seq(B) /\ Len(d) = Len(rbuf.data)
  BY <1>7
<1>9. n \in Nat /\ kCheapPrepend \in Nat /\ kCheapPrepend + n <= Len(d)
  BY <1>1, <1>2, <1>3, <1>8
<1>10. rbuf' = [data |-> d, r |-> kCheapPrepend, w |-> kCheapPrepend + n]
  <2> DEFINE c == [rbuf EXCEPT !.data = d]
  <2>1. c = [data |-> d, r |-> kCheapPrepend, w |-> kCheapPrepend]
    BY <1>2, <1>3 DEF Buffers
  <2> HIDE DEF c
  <2>2. n <= WriteableBytes(c)
    BY <1>2, <1>8, <1>9, <2>1 DEF WriteableBytes
  <2>3. rbuf' = [c EXCEPT !.w = @ + n]
    BY <1>5, <2>2 DEF HasWritten, c
  <2> QED BY <2>1, <2>3
<1>11. ASSUME NEW i \in 1..n PROVE d[kCheapPrepend + i] = got + i
  <2> DEFINE j == kCheapPrepend + i
  <2>1. /\ j \in 1..Len(rbuf.data) /\ j > rbuf.r /\ j <= rbuf.r + Len(bytes)
        /\ j - rbuf.r = i
    BY <1>1, <1>2, <1>3, <1>6
  <2> HIDE DEF j
  <2>2. d[j] = bytes[i]
    BY <1>7, <2>1
  <2> QED BY <1>6, <2>2 DEF j
<1>12. /\ rbuf'.data = d /\ rbuf'.r = kCheapPrepend /\ rbuf'.w = kCheapPrepend + n
       /\ rbuf'.w - rbuf'.r = n /\ got' - n = got
  BY <1>1, <1>2, <1>4, <1>10
<1>13. rbuf' \in Buffers(B)
  BY <1>10, <1>8, <1>9 DEF Buffers
<1>14. pc' = "read" => ~(rbuf'.w < Len(rbuf'.data))
  <2>1. WriteableBytes(rbuf) = Len(d) - kCheapPrepend
    BY <1>2, <1>3, <1>8 DEF WriteableBytes
  <2> QED BY <1>2, <1>4, <1>12, <1>8, <1>9, <2>1
<1>15. pc' \in {"read", "execute"}
  BY <1>4
<1>16. /\ sent' \in Nat /\ got' \in Nat /\ got' <= sent'
       /\ rbuf'.r <= rbuf'.w /\ rbuf'.w <= Len(rbuf'.data) /\ rbuf'.w - rbuf'.r <= got'
       /\ rbuf'.r < rbuf'.w
  <2>1. sent' \in Nat /\ got' \in Nat /\ got' <= sent'
    BY <1>1, <1>2, <1>4
  <2>2. rbuf'.r < rbuf'.w /\ rbuf'.r <= rbuf'.w
    BY <1>1, <1>12, <1>9
  <2>3. rbuf'.w - rbuf'.r <= got'
    BY <1>2, <1>4, <1>12, <1>9
  <2> QED BY <1>12, <1>9, <2>1, <2>2, <2>3
<1>17. \A i \in 1..rbuf'.w - rbuf'.r :
          rbuf'.data[rbuf'.r + i] = got' - (rbuf'.w - rbuf'.r) + i
  BY <1>11, <1>12
<1>18. Reading'
  BY <1>12, <1>13, <1>14, <1>15, <1>16, <1>17 DEF Reading, B
<1> QED BY <1>3, <1>4, <1>12, <1>15, <1>16, <1>18

\* Once the buffer is retrieved whole, a read may follow.
LEMMA EmptiedIs ==
    ASSUME Reading, rbuf' = RetrieveAll(rbuf), UNCHANGED <<sent, got>>, pc' # "execute"
    PROVE  Reading' /\ rbuf'.w = rbuf'.r
<1>1. rbuf' = [data |-> rbuf.data, r |-> kCheapPrepend, w |-> kCheapPrepend]
  BY RetrieveAllIs DEF Reading
<1>2. kCheapPrepend <= Len(rbuf.data) /\ kCheapPrepend \in Nat
  BY PrependAssumption DEF Reading, Buffers
<1> QED BY <1>1, <1>2 DEF Reading, Buffers

\* A new connection has an empty buffer.
LEMMA ReadingInit == Init => Reading
<1> SUFFICES ASSUME Init PROVE Reading
  OBVIOUS
<1>1. peer.size \in Nat
  BY PeersAssumption DEF Init
<1>2. rbuf = NewBuffer(peer.size)
  BY DEF Init
<1> DEFINE d == [i \in 1..kCheapPrepend + peer.size |-> Zero]
<1>3. d \in Seq(Nat \cup {Zero}) /\ Len(d) = kCheapPrepend + peer.size
  BY <1>1, PrependAssumption
<1>4. rbuf = [data |-> d, r |-> kCheapPrepend, w |-> kCheapPrepend]
  BY <1>2 DEF NewBuffer
<1> HIDE DEF d
<1> QED BY <1>1, <1>3, <1>4, PrependAssumption DEF Init, Reading, Buffers

\* Whoever takes a step, the read buffer is left as Reading says.
LEMMA ReadingNext == Reading /\ Next => Reading'
<1> SUFFICES ASSUME Reading, Next PROVE Reading'
  OBVIOUS
<1>1. CASE Send
  <2>1. sent' >= sent /\ sent' \in Nat
    <3>1. PICK n \in sent + 1..Min({peer.most, Len(Text)}) : sent' = n
      BY <1>1 DEF Send
    <3>2. n \in Int /\ n >= sent + 1
      OBVIOUS
    <3> QED BY <3>1, <3>2 DEF Reading
  <2>2. UNCHANGED <<got, rbuf, pc>>
    BY <1>1 DEF Send
  <2> QED BY <2>1, <2>2 DEF Reading
<1>2. CASE ReadNow \/ ReadAgain
  BY <1>2, TakeIs DEF ReadNow, ReadAgain
<1>3. CASE Echo
  <2>1. rbuf' = RetrieveAll(rbuf) /\ UNCHANGED <<sent, got>> /\ pc' = "read"
    BY <1>3 DEF Echo
  <2> QED BY <2>1, EmptiedIs
<1>4. CASE Dispatch
  <2>1. rbuf' = RetrieveAll(rbuf) /\ UNCHANGED <<sent, got>> /\ pc' = "output"
    BY <1>4 DEF Dispatch
  <2> QED BY <2>1, EmptiedIs
<1>5. CASE Terminate
  <2>1. rbuf' = RetrieveAll(rbuf) /\ UNCHANGED <<sent, got>> /\ pc' = "terminated"
    BY <1>5 DEF Terminate
  <2> QED BY <2>1, EmptiedIs
<1>6. CASE PeerCloses \/ ReadWait \/ ReadNothing \/ Output \/ OutputEnd \/ WriteBlocks
  BY <1>6 DEF PeerCloses, ReadWait, ReadNothing, Output, OutputEnd, WriteBlocks, Reading
<1> QED BY <1>1, <1>2, <1>3, <1>4, <1>5, <1>6 DEF Next

\* A step that changes nothing changes the read buffer's state in nothing.
LEMMA ReadingStutter == Reading /\ UNCHANGED vars => Reading'
BY DEF Reading, vars

\* The code behind pc = "read" reads at peek() (tcpConnection.cc:104), but for any size of
\* the buffer and any cut of the stream there is then nothing at peek(), or no room.
THEOREM ReadsIntoEmptyBufferHolds == Spec => []ReadsIntoEmptyBuffer
<1>1. Reading => ReadsIntoEmptyBuffer
  BY DEF Reading, Buffers, ReadsIntoEmptyBuffer, WriteableBytes, ReadableBytes
<1> QED BY <1>1, ReadingInit, ReadingNext, ReadingStutter, PTL DEF Spec

-----------------------------------------------------------------------------
(* The steps: the write buffer.                                            *)

\* A dispatch answers nothing, or puts one response into the write buffer, which was empty.
LEMMA DispatchIs ==
    ASSUME Writing, Dispatch, peer.protocol = "HTTP"
    PROVE  \/ UNCHANGED <<wbuf, answered>>
           \/ \E T, x, e :
                 /\ Zero \in T /\ out \in Seq(T) /\ answered \in Seq(T) /\ x \in T
                 /\ e \in Seq(T) /\ e = Encode(Respond(x.request)) /\ x.at = Content(rbuf)[1]
                 /\ wbuf' \in Buffers(T) /\ WriteIndices(wbuf') /\ Content(wbuf') = e
                 /\ Content(wbuf) = <<>> /\ answered' = Append(answered, x)
<1> SUFFICES ASSUME ~ UNCHANGED <<wbuf, answered>>
             PROVE  \E T, x, e :
                 /\ Zero \in T /\ out \in Seq(T) /\ answered \in Seq(T) /\ x \in T
                 /\ e \in Seq(T) /\ e = Encode(Respond(x.request)) /\ x.at = Content(rbuf)[1]
                 /\ wbuf' \in Buffers(T) /\ WriteIndices(wbuf') /\ Content(wbuf') = e
                 /\ Content(wbuf) = <<>> /\ answered' = Append(answered, x)
  OBVIOUS
<1>1. PICK req :
         /\ wbuf' = AppendBytes(wbuf, Encode(Respond(req)))
         /\ answered' = Append(answered, [at |-> Content(rbuf)[1], request |-> req])
  BY DEF Dispatch
<1> DEFINE e == Encode(Respond(req))
           x == [at |-> Content(rbuf)[1], request |-> req]
<1>2. PICK S : /\ Zero \in S /\ out \in Seq(S) /\ wbuf \in Buffers(S) /\ answered \in Seq(S)
  BY DEF Writing
<1>3. WriteIndices(wbuf) /\ wbuf.r = wbuf.w
  BY DEF Writing, Dispatch
<1>4. PICK E : e \in Seq(E)
  BY EncodeIs
<1>5. e = Encode(Respond(x.request)) /\ x.at = Content(rbuf)[1]
  OBVIOUS
<1> HIDE DEF e, x
<1> DEFINE T == S \cup E \cup {x}
<1>6. /\ Zero \in T /\ x \in T /\ out \in Seq(T) /\ e \in Seq(T) /\ answered \in Seq(T)
      /\ wbuf.data \in Seq(T)
  <2>1. S \subseteq T /\ E \subseteq T /\ Zero \in T /\ x \in T
    BY <1>2
  <2>2. wbuf.data \in Seq(S)
    BY <1>2 DEF Buffers
  <2> HIDE DEF T
  <2>3. Seq(S) \subseteq Seq(T) /\ Seq(E) \subseteq Seq(T)
    BY <2>1, SeqMonotonic
  <2> QED BY <1>2, <1>4, <2>1, <2>2, <2>3
<1> HIDE DEF T
<1>7. wbuf \in Buffers(T)
  BY <1>2, <1>6 DEF Buffers
<1>8. wbuf' = AppendBytes(wbuf, e) /\ answered' = Append(answered, x)
  BY <1>1 DEF e, x
<1>9. wbuf' \in Buffers(T) /\ WriteIndices(wbuf') /\ Content(wbuf') = e
  BY <1>3, <1>6, <1>7, <1>8, AppendToEmpty
<1>10. Content(wbuf) = <<>>
  <2>1. wbuf.r <= wbuf.w /\ wbuf.w <= Len(wbuf.data) /\ wbuf.w - wbuf.r = 0
    BY <1>3, <1>7 DEF WriteIndices, Buffers
  <2>2. Content(wbuf) \in Seq(T) /\ Len(Content(wbuf)) = 0
    BY <1>7, <2>1, ContentShape
  <2> QED BY <2>2
<1> QED BY <1>5, <1>6, <1>8, <1>9, <1>10

\* A write moves bytes from the front of the buffer to the end of what the socket has taken.
LEMMA OutputIs ==
    ASSUME Writing, Output, peer.protocol = "HTTP"
    PROVE  /\ WriteIndices(wbuf')
           /\ \E S : /\ Zero \in S /\ out' \in Seq(S) /\ wbuf' \in Buffers(S)
                     /\ answered \in Seq(S)
           /\ out' \o Content(wbuf') = out \o Content(wbuf)
<1>1. PICK S : Zero \in S /\ out \in Seq(S) /\ wbuf \in Buffers(S) /\ answered \in Seq(S)
  BY DEF Writing
<1>2. WriteIndices(wbuf)
  BY DEF Writing
<1>3. PICK n \in 1..ReadableBytes(wbuf) :
         out' = out \o SubSeq(Content(wbuf), 1, n) /\ wbuf' = Retrieve(wbuf, n)
  BY DEF Output
<1>4. n \in 1..wbuf.w - wbuf.r
  BY DEF ReadableBytes
<1> DEFINE a == SubSeq(Content(wbuf), 1, n)
           z == Content(wbuf')
<1>5. wbuf' \in Buffers(S) /\ WriteIndices(wbuf') /\ Content(wbuf) = a \o z /\ a \in Seq(S)
  BY <1>1, <1>2, <1>3, <1>4, RetrieveSome
<1>6. z \in Seq(S)
  <2>1. wbuf'.r <= wbuf'.w /\ wbuf'.w <= Len(wbuf'.data)
    BY <1>5 DEF WriteIndices
  <2> QED BY <1>5, <2>1, ContentShape
<1>7. out' = out \o a
  BY <1>3
<1> HIDE DEF a, z
<1>8. out' \in Seq(S)
  BY <1>1, <1>5, <1>7, ConcatProperties
<1>9. (out \o a) \o z = out \o (a \o z)
  <2>1. out \in Seq(S) /\ a \in Seq(S) /\ z \in Seq(S)
    BY <1>1, <1>5, <1>6
  <2> QED BY ONLY <2>1, ConcatAssociative
<1>10. out' \o Content(wbuf') = out \o Content(wbuf)
  BY <1>5, <1>7, <1>9 DEF z
<1> QED BY <1>1, <1>5, <1>8, <1>10

\* Nobody changes which connection it is.
LEMMA PeerStays == Next => peer' = peer
BY DEF Next, Send, PeerCloses, ReadNow, ReadWait, ReadAgain, ReadNothing, Echo, Dispatch,
       Terminate, Output, OutputEnd, WriteBlocks

\* A new connection has nothing to write.
LEMMA WritingInit == Init => Writing
<1> SUFFICES ASSUME Init PROVE Writing
  OBVIOUS
<1>1. peer.size \in Nat
  BY PeersAssumption DEF Init
<1> DEFINE d == [i \in 1..kCheapPrepend + peer.size |-> Zero]
           S == {Zero}
<1>2. d \in Seq(S) /\ Len(d) = kCheapPrepend + peer.size /\ Zero \in S
  BY <1>1, PrependAssumption
<1>3. wbuf = [data |-> d, r |-> kCheapPrepend, w |-> kCheapPrepend]
  BY DEF Init, NewBuffer
<1>4. out \in Seq(S) /\ answered \in Seq(S)
  BY DEF Init
<1> HIDE DEF d, S
<1>5. wbuf \in Buffers(S) /\ WriteIndices(wbuf) /\ wbuf.r = wbuf.w
  BY <1>1, <1>2, <1>3, PrependAssumption DEF Buffers, WriteIndices
<1> QED BY <1>2, <1>4, <1>5 DEF Writing

\* Whoever takes a step, the write buffer is left as Writing says.
LEMMA WritingNext == Writing /\ Next => Writing'
<1> SUFFICES ASSUME Writing, Next, peer.protocol = "HTTP" PROVE Writing'
  BY PeerStays DEF Writing
<1>1. CASE Dispatch
  <2>1. pc' = "output" /\ out' = out /\ pc = "execute"
    BY <1>1 DEF Dispatch
  <2>2. CASE UNCHANGED <<wbuf, answered>>
    BY <2>1, <2>2 DEF Writing
  <2>3. CASE ~ UNCHANGED <<wbuf, answered>>
    <3>1. PICK T, x, e :
             /\ Zero \in T /\ out \in Seq(T) /\ answered \in Seq(T) /\ x \in T
             /\ wbuf' \in Buffers(T) /\ WriteIndices(wbuf') /\ answered' = Append(answered, x)
      BY <1>1, <2>3, DispatchIs
    <3>2. answered' \in Seq(T)
      BY <3>1
    <3> QED BY <2>1, <3>1, <3>2 DEF Writing
  <2> QED BY <2>2, <2>3
<1>2. CASE Output
  <2>1. pc' = "output" /\ answered' = answered
    BY <1>2 DEF Output
  <2> QED BY <1>2, <2>1, OutputIs DEF Writing
<1>3. CASE OutputEnd
  <2>1. UNCHANGED <<out, wbuf, answered>> /\ wbuf.w - wbuf.r = 0
    BY <1>3 DEF OutputEnd, ReadableBytes
  <2>2. wbuf.r = wbuf.w
    BY <2>1 DEF Writing, Buffers
  <2> QED BY <2>1, <2>2 DEF Writing
<1>4. CASE ReadNow \/ ReadAgain
  BY <1>4 DEF ReadNow, ReadAgain, TakeChunk, Writing
<1>5. CASE Send \/ PeerCloses \/ ReadWait \/ ReadNothing \/ WriteBlocks
  BY <1>5 DEF Send, PeerCloses, ReadWait, ReadNothing, WriteBlocks, Writing
<1>6. CASE Terminate
  BY <1>6 DEF Terminate, Writing
<1>7. CASE Echo
  BY <1>7 DEF Echo
<1> QED BY <1>1, <1>2, <1>3, <1>4, <1>5, <1>6, <1>7 DEF Next

-----------------------------------------------------------------------------
(* The steps: the answers.                                                 *)

\* While no answer is given and nothing is written, only the read buffer's place in the stream
\* moves, and forward.
LEMMA AnsweringQuiet ==
    ASSUME Answering, Reading, UNCHANGED <<peer, answered, out, wbuf>>,
           got - (rbuf.w - rbuf.r) <= got' - (rbuf'.w - rbuf'.r), Reading'
    PROVE  Answering'
<1>1. Responses' = Responses
  BY DEF Responses
<1>2. /\ got - (rbuf.w - rbuf.r) \in Int /\ got' - (rbuf'.w - rbuf'.r) \in Int
  BY DEF Reading, Buffers
<1>3. Content(wbuf)' = Content(wbuf)
  BY DEF Content
<1> QED BY <1>1, <1>2, <1>3 DEF Answering

\* A dispatch adds its answer behind the others.
LEMMA AnsweringDispatch ==
    ASSUME Answering, Reading, Writing, Dispatch, Reading', peer' = peer
    PROVE  Answering'
<1> SUFFICES ASSUME peer.protocol = "HTTP" PROVE Answering'
  BY DEF Answering
<1> DEFINE k == rbuf.w - rbuf.r
<1>1. /\ got' = got /\ out' = out /\ rbuf' = RetrieveAll(rbuf) /\ pc = "execute"
      /\ pc' = "output" /\ sent' = sent
  BY DEF Dispatch
<1>2. rbuf'.w = rbuf'.r /\ rbuf'.w \in Nat
  BY <1>1, EmptiedIs DEF Reading, Buffers
<1>3. got \in Nat /\ k \in Nat /\ k > 0 /\ k <= got /\ got' - (rbuf'.w - rbuf'.r) = got
  BY <1>1, <1>2 DEF Reading, Buffers
<1>4. CASE UNCHANGED <<wbuf, answered>>
  BY <1>1, <1>3, <1>4, AnsweringQuiet
<1>5. CASE ~ UNCHANGED <<wbuf, answered>>
  <2>1. PICK T, x, e :
           /\ Zero \in T /\ out \in Seq(T) /\ answered \in Seq(T) /\ x \in T
           /\ e \in Seq(T) /\ e = Encode(Respond(x.request)) /\ x.at = Content(rbuf)[1]
           /\ wbuf' \in Buffers(T) /\ WriteIndices(wbuf') /\ Content(wbuf') = e
           /\ Content(wbuf) = <<>> /\ answered' = Append(answered, x)
    BY <1>5, DispatchIs
  <2> DEFINE n == Len(answered)
  <2>2. /\ n \in Nat /\ Len(answered') = n + 1 /\ answered'[n + 1] = x
        /\ \A i \in 1..n : answered'[i] = answered[i]
    BY <2>1, AppendProperties
  <2>3. x.at = got - k + 1
    <3>1. /\ Content(rbuf)[1] = rbuf.data[rbuf.r + 1] /\ 1 \in 1..k
      <4>1. rbuf \in Buffers(Nat \cup {Zero}) /\ rbuf.r <= rbuf.w /\ rbuf.w <= Len(rbuf.data)
        BY DEF Reading
      <4> QED BY <1>3, <4>1, ContentShape
    <3>2. rbuf.data[rbuf.r + 1] = got - k + 1
      BY <1>3, <3>1 DEF Reading
    <3> QED BY <2>1, <3>1, <3>2
  <2> HIDE DEF n
  <2>4. \A i \in 1..n : answered[i].at \in Nat /\ answered[i].at <= got - k
    BY DEF Answering, n
  <2>5. \A i, j \in 1..n : i < j => answered[i].at < answered[j].at
    BY DEF Answering, n
  <2> HIDE DEF k
  <2>6. ASSUME NEW i \in 1..n + 1
        PROVE  answered'[i].at \in Nat /\ answered'[i].at <= got
    <3>1. CASE i = n + 1
      BY <1>3, <2>2, <2>3, <3>1
    <3>2. CASE i # n + 1
      <4>1. i \in 1..n
        BY <2>2, <3>2
      <4> QED BY <1>3, <2>2, <2>4, <4>1
    <3> QED BY <3>1, <3>2
  <2>7. ASSUME NEW i \in 1..n + 1, NEW j \in 1..n + 1, i < j
        PROVE  answered'[i].at < answered'[j].at
    <3>1. i \in 1..n /\ answered'[i] = answered[i]
      BY <2>2, <2>7
    <3>2. CASE j = n + 1
      BY <1>3, <2>2, <2>3, <2>4, <3>1, <3>2
    <3>3. CASE j # n + 1
      <4>1. j \in 1..n
        BY <2>2, <3>3
      <4> QED BY <2>2, <2>5, <2>7, <3>1, <4>1
    <3> QED BY <3>2, <3>3
  <2>8. InARow(out' \o Content(wbuf'), Responses')
    <3> DEFINE p == Responses
               q == Responses'
    <3>1. InARow(out, p)
      <4>1. InARow(out \o Content(wbuf), p)
        BY DEF Answering
      <4>2. out \o <<>> = out
        BY <2>1, ConcatEmptySeq
      <4> HIDE DEF p
      <4> QED BY <2>1, <4>1, <4>2
    <3>2. Len(p) = n /\ \A i \in 1..n : p[i] = Encode(Respond(answered[i].request))
      BY <2>2 DEF Responses, n
    <3>3. Len(q) = n + 1 /\ \A i \in 1..n + 1 : q[i] = Encode(Respond(answered'[i].request))
      BY <2>2 DEF Responses
    <3> HIDE DEF p, q
    <3>4. q[n + 1] = e
      BY <2>1, <2>2, <3>3
    <3>5. \A i \in 1..n : q[i] = p[i]
      BY <2>2, <3>2, <3>3
    <3>6. InARow(out \o e, q)
      BY <2>1, <2>2, <3>1, <3>2, <3>3, <3>4, <3>5, RowAppend
    <3> QED BY <1>1, <2>1, <3>6 DEF q
  <2> QED BY <1>3, <2>2, <2>6, <2>7, <2>8 DEF Answering
<1> QED BY <1>4, <1>5

\* Before the first request there is nothing to answer.
LEMMA AnsweringInit == Init => Answering
<1> SUFFICES ASSUME Init PROVE Answering
  OBVIOUS
<1>1. answered = <<>> /\ out = <<>>
  BY DEF Init
<1>2. Len(Responses) = 0
  BY <1>1 DEF Responses
<1>3. Content(wbuf) = <<>>
  <2>1. wbuf = rbuf
    BY DEF Init
  <2>2. /\ rbuf \in Buffers(Nat \cup {Zero}) /\ rbuf.r <= rbuf.w /\ rbuf.w <= Len(rbuf.data)
        /\ rbuf.w - rbuf.r = 0
    <3>1. got = 0
      BY DEF Init
    <3> QED BY <3>1, ReadingInit DEF Reading, Buffers
  <2>3. Content(rbuf) \in Seq(Nat \cup {Zero}) /\ Len(Content(rbuf)) = 0
    BY <2>2, ContentShape
  <2> QED BY <2>1, <2>3
<1>4. InARow(<<>> \o <<>>, Responses)
  <2> DEFINE ends == [i \in 0..0 |-> 0]
             t == <<>> \o <<>>
  <2>1. Len(t) = 0
    OBVIOUS
  <2>2. ends \in [0..Len(Responses) -> 0..Len(t)] /\ ends[0] = 0
    BY <1>2, <2>1
  <2>3. 1..Len(Responses) = {}
    BY <1>2
  <2> HIDE DEF ends, t
  <2>4. InARow(t, Responses)
    BY <1>2, <2>1, <2>2, <2>3 DEF InARow
  <2> QED BY <2>4 DEF t
<1> QED BY <1>1, <1>3, <1>4 DEF Answering

\* Whoever takes a step, the answers are left as Answering says.
LEMMA AnsweringNext == Reading /\ Writing /\ Answering /\ Next => Answering'
<1> SUFFICES ASSUME Reading, Writing, Answering, Next PROVE Answering'
  OBVIOUS
<1>1. Reading' /\ peer' = peer
  BY ReadingNext, PeerStays
<1>2. got \in Nat /\ rbuf.w \in Nat /\ rbuf.r \in Nat /\ rbuf.r <= rbuf.w
  BY DEF Reading, Buffers
<1>3. CASE ReadNow \/ ReadAgain
  <2>1. /\ UNCHANGED <<answered, out, wbuf>>
        /\ got' = got + (rbuf'.w - rbuf'.r) /\ rbuf.w = rbuf.r
    BY <1>3, TakeIs DEF ReadNow, ReadAgain
  <2>2. rbuf'.w \in Nat /\ rbuf'.r \in Nat
    BY <1>1 DEF Reading, Buffers
  <2>3. got - (rbuf.w - rbuf.r) <= got' - (rbuf'.w - rbuf'.r)
    BY <1>2, <2>1, <2>2
  <2> QED BY <1>1, <2>1, <2>3, AnsweringQuiet
<1>4. CASE Dispatch
  BY <1>1, <1>4, AnsweringDispatch
<1>5. CASE Output
  <2>1. UNCHANGED <<answered, got, rbuf>>
    BY <1>5 DEF Output
  <2>2. Responses' = Responses
    BY <2>1 DEF Responses
  <2>3. peer.protocol = "HTTP" => out' \o Content(wbuf)' = out \o Content(wbuf)
    BY <1>5, OutputIs
  <2> QED BY <1>1, <2>1, <2>2, <2>3 DEF Answering
<1>6. CASE Send \/ PeerCloses \/ ReadWait \/ ReadNothing \/ OutputEnd \/ WriteBlocks
  <2>1. UNCHANGED <<answered, out, wbuf, got, rbuf>>
    BY <1>6 DEF Send, PeerCloses, ReadWait, ReadNothing, OutputEnd, WriteBlocks
  <2>2. got - (rbuf.w - rbuf.r) <= got' - (rbuf'.w - rbuf'.r)
    BY <1>2, <2>1
  <2> QED BY <1>1, <2>1, <2>2, AnsweringQuiet
<1>7. CASE Terminate
  <2>1. /\ UNCHANGED <<answered, out, wbuf, sent, got>>
        /\ rbuf' = RetrieveAll(rbuf) /\ pc' = "terminated"
    BY <1>7 DEF Terminate
  <2>2. rbuf'.w = rbuf'.r /\ rbuf'.w \in Nat
    BY <1>1, <2>1, EmptiedIs DEF Reading, Buffers
  <2>3. got - (rbuf.w - rbuf.r) <= got' - (rbuf'.w - rbuf'.r)
    BY <1>2, <2>1, <2>2
  <2> QED BY <1>1, <2>1, <2>3, AnsweringQuiet
<1>8. CASE Echo
  BY <1>1, <1>8 DEF Echo, Answering
<1> QED BY <1>3, <1>4, <1>5, <1>6, <1>7, <1>8 DEF Next

\* What every reachable state of a connection's buffers and streams satisfies.
THEOREM StreamInvariant == Spec => []StreamInv
<1>1. Init => StreamInv
  BY ReadingInit, WritingInit, AnsweringInit DEF StreamInv
<1>2. StreamInv /\ [Next]_vars => StreamInv'
  <2>1. StreamInv /\ Next => StreamInv'
    BY ReadingNext, WritingNext, AnsweringNext DEF StreamInv
  <2>2. StreamInv /\ UNCHANGED vars => StreamInv'
    <3> SUFFICES ASSUME StreamInv, UNCHANGED vars PROVE StreamInv'
      OBVIOUS
    <3>1. Responses' = Responses /\ Content(wbuf)' = Content(wbuf)
      BY DEF Responses, Content, vars
    <3>2. Reading'
      BY ReadingStutter DEF StreamInv
    <3>3. Writing'
      BY DEF StreamInv, Writing, vars
    <3>4. Answering'
      BY <3>1 DEF StreamInv, Answering, vars
    <3> QED BY <3>2, <3>3, <3>4 DEF StreamInv
  <2> QED BY <2>1, <2>2
<1> QED BY <1>1, <1>2, PTL DEF Spec

\* The socket gets the responses of the requests dispatched, each whole and in their order,
\* for any requests, any size of the buffers and any partial writes (tcpConnection.cc:207),
\* and no part of the stream is answered twice.
THEOREM ResponsesWholeHolds == Spec => []ResponsesWhole
<1>1. StreamInv => ResponsesWhole
  BY DEF StreamInv, Answering, ResponsesWhole
<1> QED BY <1>1, StreamInvariant, PTL

-----------------------------------------------------------------------------
(* What is dispatched.                                                     *)

\* Only an HTTP connection answers, and what it answers is what decode() makes of a piece of
\* the text that has been taken from the socket, from the byte the buffer began at.
Parsing ==
    /\ peer.protocol # "HTTP" => answered = <<>>
    /\ \A i \in 1..Len(answered) :
          \E j \in answered[i].at..got :
             /\ answered[i].at \in 1..got
             /\ answered[i].request \in Decode(Piece(peer, answered[i].at, j))

\* What a dispatch looks at is the piece of the text that was taken last.
LEMMA DispatchedIsPiece ==
    ASSUME Reading, Dispatch
    PROVE  LET a == Content(rbuf)[1]
           IN  /\ a \in 1..got /\ Received = Piece(peer, a, got)
               /\ ReadableBytes(rbuf) = got - a + 1
<1> DEFINE k == rbuf.w - rbuf.r
           a == Content(rbuf)[1]
<1>1. k \in Nat /\ k > 0 /\ got \in Nat /\ k <= got
  BY DEF Reading, Buffers, Dispatch
<1>2. \A i \in 1..k : Content(rbuf)[i] = rbuf.data[rbuf.r + i]
  <2>1. rbuf \in Buffers(Nat \cup {Zero}) /\ rbuf.r <= rbuf.w /\ rbuf.w <= Len(rbuf.data)
    BY DEF Reading
  <2> QED BY <2>1, ContentShape
<1>3. \A i \in 1..k : Content(rbuf)[i] = got - k + i
  BY <1>2 DEF Reading
<1>4. ReadableBytes(rbuf) = k
  BY DEF ReadableBytes
<1> HIDE DEF k
<1>5. a = got - k + 1
  BY <1>1, <1>3
<1>6. a \in 1..got /\ k = got - a + 1
  BY <1>1, <1>5
<1>7. \A i \in 1..k : Content(rbuf)[i] = a + i - 1
  BY <1>1, <1>3, <1>5
<1> HIDE DEF a
<1>8. Received = [i \in 1..k |-> TextOf(peer)[a + i - 1]]
  BY <1>4, <1>7 DEF Received, Text
<1>9. Received = Piece(peer, a, got)
  BY <1>6, <1>8 DEF Piece
<1> QED BY <1>4, <1>6, <1>9 DEF a

\* Whoever takes a step, only pieces of the text are answered.
LEMMA ParsingNext == Reading /\ Writing /\ Parsing /\ Next => Parsing'
<1> SUFFICES ASSUME Reading, Writing, Parsing, Next PROVE Parsing'
  OBVIOUS
<1>1. peer' = peer
  BY PeerStays
<1>2. got \in Nat
  BY DEF Reading
<1>3. ASSUME answered' = answered, got' \in Nat, got <= got' PROVE Parsing'
  <2>1. ASSUME NEW i \in 1..Len(answered)
        PROVE  \E j \in answered[i].at..got' :
                  /\ answered[i].at \in 1..got'
                  /\ answered[i].request \in Decode(Piece(peer, answered[i].at, j))
    <3>1. PICK j \in answered[i].at..got :
             /\ answered[i].at \in 1..got
             /\ answered[i].request \in Decode(Piece(peer, answered[i].at, j))
      BY DEF Parsing
    <3>2. j \in answered[i].at..got' /\ answered[i].at \in 1..got'
      BY <1>2, <1>3, <3>1
    <3> QED BY <3>1, <3>2
  <2> QED BY <1>1, <1>3, <2>1 DEF Parsing
<1>4. CASE ReadNow \/ ReadAgain
  <2>1. answered' = answered /\ got' = got + Chunk
    BY <1>4 DEF ReadNow, ReadAgain, TakeChunk
  <2>2. Chunk \in Nat
    BY ChunkIs
  <2> QED BY <1>2, <1>3, <2>1, <2>2
<1>5. CASE Dispatch
  <2> DEFINE a == Content(rbuf)[1]
  <2>1. a \in 1..got /\ Received = Piece(peer, a, got) /\ got' = got /\ peer.protocol = "HTTP"
    BY <1>5, DispatchedIsPiece DEF Dispatch
  <2>2. CASE Decode(Received) = {}
    <3>1. answered' = answered
      BY <1>5, <2>2 DEF Dispatch
    <3> QED BY <1>2, <1>3, <2>1, <3>1
  <2>3. CASE Decode(Received) # {}
    <3>1. PICK req \in Decode(Received) :
             answered' = Append(answered, [at |-> a, request |-> req])
      BY <1>5, <2>3 DEF Dispatch
    <3> DEFINE x == [at |-> a, request |-> req]
    <3>2. x.at = a /\ x.request = req
      OBVIOUS
    <3> HIDE DEF x, a
    <3>3. answered' = Append(answered, x)
      BY <3>1 DEF x
    <3>4. PICK S : answered \in Seq(S)
      BY <2>1 DEF Writing
    <3> DEFINE n == Len(answered)
    <3>5. /\ n \in Nat /\ Len(answered') = n + 1 /\ answered'[n + 1] = x
          /\ \A i \in 1..n : answered'[i] = answered[i]
      BY <3>3, <3>4, AppendProperties
    <3>6. ASSUME NEW i \in 1..n + 1
          PROVE  \E j \in answered'[i].at..got :
                    /\ answered'[i].at \in 1..got
                    /\ answered'[i].request \in Decode(Piece(peer, answered'[i].at, j))
      <4>1. CASE i = n + 1
        <5>1. answered'[i] = x /\ got \in a..got
          BY <1>2, <2>1, <3>5, <4>1
        <5> QED BY <2>1, <3>1, <3>2, <5>1
      <4>2. CASE i # n + 1
        <5>1. i \in 1..n
          BY <3>5, <4>2
        <5> QED BY <3>5, <5>1 DEF Parsing
      <4> QED BY <4>1, <4>2
    <3> QED BY <1>1, <2>1, <3>5, <3>6 DEF Parsing
  <2> QED BY <2>2, <2>3
<1>6. CASE \/ Send \/ PeerCloses \/ ReadWait \/ ReadNothing
           \/ Echo \/ Terminate \/ Output \/ OutputEnd \/ WriteBlocks
  <2>1. UNCHANGED <<answered, got>>
    BY <1>6 DEF Send, PeerCloses, ReadWait, ReadNothing, Echo, Terminate, Output, OutputEnd,
           WriteBlocks
  <2> QED BY <1>2, <1>3, <2>1
<1> QED BY <1>4, <1>5, <1>6 DEF Next

\* However the network cuts the stream, and whatever the peer sends, what is dispatched is
\* what decode() makes of one piece of the text, without a gap, and of nothing else.
THEOREM OnlyPiecesAreParsed == Spec => []Parsing
<1>1. Init => Parsing
  BY DEF Init, Parsing
<1>2. Parsing /\ UNCHANGED vars => Parsing'
  BY DEF Parsing, vars
<1>3. StreamInv => Reading /\ Writing
  BY DEF StreamInv
<1> QED BY <1>1, <1>2, <1>3, ParsingNext, StreamInvariant, PTL DEF Spec

-----------------------------------------------------------------------------
(* From the parser to the connection.                                      *)

\* The peer's text is one that decode() understands piece by piece.
Speaking == peer.protocol = "HTTP" => WellSpoken(peer)

\* No more arrives than the peer has.
Arrived ==
    peer \in Peers /\ (Len(Text) \in Nat => sent \in Nat /\ sent <= Len(Text))

\* A peer sends its text and no more.
LEMMA ArrivedNext == Arrived /\ [Next]_vars => Arrived'
<1> SUFFICES ASSUME Arrived, [Next]_vars PROVE Arrived'
  OBVIOUS
<1>1. peer' = peer
  BY PeerStays DEF vars
<1>2. CASE Send
  <2>1. PICK n \in sent + 1..Min({peer.most, Len(Text)}) : sent' = n
    BY <1>2 DEF Send
  <2>2. Len(Text) \in Nat =>
           Min({peer.most, Len(Text)}) \in Nat /\ Min({peer.most, Len(Text)}) <= Len(Text)
    BY MinOfTwo, PeersAssumption DEF Arrived
  <2> QED BY <1>1, <2>1, <2>2 DEF Arrived, Text
<1>3. CASE sent' = sent
  BY <1>1, <1>3 DEF Arrived, Text
<1> QED BY <1>2, <1>3 DEF Next, vars, PeerCloses, ReadNow, ReadWait, ReadAgain, ReadNothing,
       Echo, Dispatch, Terminate, Output, OutputEnd, WriteBlocks

\* Before anything is sent one knows of the peer's text whether it is understood, and it stays
\* the text.
LEMMA Spoken ==
    /\ Init /\ PiecesUnderstood => Arrived /\ Speaking
    /\ Speaking /\ [Next]_vars => Speaking'
<1>1. Init /\ PiecesUnderstood => Arrived /\ Speaking
  BY DEF Init, PiecesUnderstood, Arrived, Speaking
<1>2. [Next]_vars => peer' = peer
  BY PeerStays DEF vars
<1> QED BY <1>1, <1>2 DEF Speaking

\* What is not a request of the peer is never dispatched (httpCodec.cc:42), for any peer of whose
\* text decode() understands every piece: whatever the size of the buffer, and however often
\* and wherever the network cuts the text.
THEOREM ParsedAsSentHolds == Spec /\ []PiecesUnderstood => []ParsedAsSent
<1>1. StreamInv /\ Parsing /\ Arrived /\ Speaking => ParsedAsSent
  <2> SUFFICES ASSUME StreamInv, Parsing, Arrived, Speaking, NEW i \in DOMAIN answered
               PROVE  \/ answered[i].request = NewRequest
                      \/ \E q \in DOMAIN peer.requests :
                            /\ answered[i].at = Begins(peer, q)
                            /\ IsAsSent(answered[i].request, peer.requests[q])
    BY DEF ParsedAsSent
  <2>1. peer.protocol = "HTTP"
    BY DEF Parsing
  <2>2. i \in 1..Len(answered)
    BY <2>1 DEF StreamInv, Writing
  <2> DEFINE a == answered[i].at
             req == answered[i].request
  <2>3. PICK j \in a..got : a \in 1..got /\ req \in Decode(Piece(peer, a, j))
    BY <2>2 DEF Parsing
  <2>4. Len(TextOf(peer)) \in Nat /\ got \in Nat /\ got <= Len(TextOf(peer))
    BY <2>1 DEF StreamInv, Reading, Arrived, Speaking, WellSpoken, Text
  <2> HIDE DEF a, req
  <2>5. a \in 1..Len(TextOf(peer)) /\ j \in a..Len(TextOf(peer))
    BY <2>3, <2>4
  <2>6. Understood(peer, a, j)
    BY <2>1, <2>5 DEF Speaking, WellSpoken
  <2> QED BY <2>3, <2>6 DEF Understood, a, req
<1> QED BY <1>1, Spoken, ArrivedNext, StreamInvariant, OnlyPiecesAreParsed, PTL DEF Spec

\* And for such a peer a request that is whole when it is dispatched is answered, whatever
\* came with it (httpCodec.cc:76).
THEOREM WholeIsAnsweredHolds == Spec /\ []PiecesUnderstood => WholeIsAnswered
<1> DEFINE Answered ==
             pc = "execute" /\ pc' = "output" =>
               \A q \in DOMAIN peer.requests :
                   /\ Content(rbuf)[1] = Begins(peer, q)
                   /\ ReadableBytes(rbuf) >= Len(Format(peer.requests[q]))
                   /\ peer.requests[q].header # <<>>
                   => Len(answered') = Len(answered) + 1
<1>1. StreamInv /\ Arrived /\ Speaking /\ [Next]_vars => [Answered]_vars
  <2> SUFFICES ASSUME StreamInv, Arrived, Speaking, Next, pc = "execute", pc' = "output",
                      NEW q \in DOMAIN peer.requests,
                      Content(rbuf)[1] = Begins(peer, q),
                      ReadableBytes(rbuf) >= Len(Format(peer.requests[q])),
                      peer.requests[q].header # <<>>
               PROVE  Len(answered') = Len(answered) + 1
    OBVIOUS
  <2>1. Dispatch /\ peer.protocol = "HTTP"
    BY DEF Next, Send, PeerCloses, ReadNow, ReadWait, ReadAgain, ReadNothing, Echo, Dispatch,
           Terminate, Output, OutputEnd, WriteBlocks
  <2> DEFINE a == Content(rbuf)[1]
  <2>2. a \in 1..got /\ Received = Piece(peer, a, got) /\ ReadableBytes(rbuf) = got - a + 1
    BY <2>1, DispatchedIsPiece DEF StreamInv
  <2>3. Len(TextOf(peer)) \in Nat /\ got \in Nat /\ got <= Len(TextOf(peer))
    BY <2>1 DEF StreamInv, Reading, Arrived, Speaking, WellSpoken, Text
  <2>4. PICK S : answered \in Seq(S)
    BY <2>1 DEF StreamInv, Writing
  <2>5. Decode(Received) # {} =>
           \E req : answered' = Append(answered, [at |-> a, request |-> req])
    BY <2>1 DEF Dispatch
  <2> HIDE DEF a
  <2>6. a \in 1..Len(TextOf(peer)) /\ got \in a..Len(TextOf(peer))
    BY <2>2, <2>3
  <2>7. Decode(Received) # {}
    <3>1. Understood(peer, a, got)
      BY <2>1, <2>6 DEF Speaking, WellSpoken
    <3>2. ~Throws(Received)
      BY <2>1 DEF Dispatch
    <3> QED BY <2>2, <3>1, <3>2 DEF Understood, a
  <2>8. PICK req : answered' = Append(answered, [at |-> a, request |-> req])
    BY <2>5, <2>7
  <2> QED BY <2>4, <2>8, AppendProperties
<1>2. [][Answered]_vars => WholeIsAnswered
  BY DEF WholeIsAnswered
<1> HIDE DEF Answered
<1> QED BY <1>1, <1>2, Spoken, ArrivedNext, StreamInvariant, PTL DEF Spec

=============================================================================
