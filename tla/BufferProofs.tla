----------------------------- MODULE BufferProofs -----------------------------
(***************************************************************************)
(* Theorems about the buffer: its indices stay in order, making room makes *)
(* it, and the buffer is a FIFO of bytes; for every set of bytes, prefix   *)
(* room, initial size and bounds.                                          *)
(*                                                                         *)
(* Every member is looked at once, by a lemma that says what it does to    *)
(* the invariant and to the content; the theorems only put them together.  *)
(***************************************************************************)
EXTENDS BufferUse, Integers, TLAPS

Buffers == [data : Seq(Bytes), r : Nat, w : Nat]

\* The inductive invariant.  The write index never gets below kCheapPrepend: without that
\* the resize to w + n could leave a vector shorter than the prefix.
Good(b) ==
    /\ b \in Buffers
    /\ b.r <= b.w
    /\ b.w <= Len(b.data)
    /\ kCheapPrepend <= b.w

-----------------------------------------------------------------------------
(* Sequences.                                                              *)

\* Sequences of one length are equal when their elements are.
LEMMA SeqEqual ==
    ASSUME NEW S, NEW s \in Seq(S), NEW t \in Seq(S), Len(s) = Len(t),
           \A i \in 1..Len(s) : s[i] = t[i]
    PROVE  s = t
OBVIOUS

\* Put replaces the elements it is given, and no others.
LEMMA PutShape ==
    ASSUME NEW d \in Seq(Bytes), NEW at \in Nat, NEW s \in Seq(Bytes)
    PROVE  /\ Put(d, at, s) \in Seq(Bytes)
           /\ Len(Put(d, at, s)) = Len(d)
           /\ \A i \in 1..Len(d) :
                 Put(d, at, s)[i] = IF i > at /\ i <= at + Len(s) THEN s[i - at] ELSE d[i]
<1> DEFINE p == Put(d, at, s)
<1>1. ASSUME NEW i \in 1..Len(d)
      PROVE  (IF i > at /\ i <= at + Len(s) THEN s[i - at] ELSE d[i]) \in Bytes
  <2>1. CASE i > at /\ i <= at + Len(s)
    <3>1. i - at \in 1..Len(s)
      BY <2>1
    <3> QED BY <2>1, <3>1
  <2>2. CASE ~(i > at /\ i <= at + Len(s))
    BY <2>2
  <2> QED BY <2>1, <2>2
<1>2. p \in [1..Len(d) -> Bytes]
  BY <1>1 DEF Put
<1> QED BY <1>2 DEF Put

\* The content is what lies between the indices.
LEMMA ContentShape ==
    ASSUME NEW b, Good(b)
    PROVE  /\ Content(b) \in Seq(Bytes)
           /\ Len(Content(b)) = b.w - b.r
           /\ \A i \in 1..b.w - b.r : Content(b)[i] = b.data[b.r + i]
BY DEF Good, Buffers, Content

\* A buffer's content is known from its elements.
LEMMA ContentIs ==
    ASSUME NEW b, Good(b), NEW t \in Seq(Bytes), Len(t) = b.w - b.r,
           \A i \in 1..b.w - b.r : b.data[b.r + i] = t[i]
    PROVE  Content(b) = t
BY ContentShape, SeqEqual

\* The elements of a concatenation.
LEMMA ConcatShape ==
    ASSUME NEW s \in Seq(Bytes), NEW t \in Seq(Bytes)
    PROVE  /\ s \o t \in Seq(Bytes)
           /\ Len(s \o t) = Len(s) + Len(t)
           /\ \A i \in 1..Len(s) : (s \o t)[i] = s[i]
           /\ \A i \in 1..Len(t) : (s \o t)[Len(s) + i] = t[i]
OBVIOUS

\* The elements of what follows the n-th.
LEMMA SuffixShape ==
    ASSUME NEW s \in Seq(Bytes), NEW n \in 0..Len(s)
    PROVE  /\ SubSeq(s, n + 1, Len(s)) \in Seq(Bytes)
           /\ Len(SubSeq(s, n + 1, Len(s))) = Len(s) - n
           /\ \A i \in 1..Len(s) - n : SubSeq(s, n + 1, Len(s))[i] = s[n + i]
OBVIOUS

\* A buffer of which two fields are changed.
LEMMA TwoFields ==
    ASSUME NEW b \in Buffers, NEW d, NEW w
    PROVE  [b EXCEPT !.data = d, !.w = w] = [data |-> d, r |-> b.r, w |-> w]
<1> DEFINE c == [b EXCEPT !.data = d, !.w = w]
<1>1. c.data = d /\ c.w = w /\ c.r = b.r
  BY DEF Buffers
<1>2. c \in [data : {d}, r : {b.r}, w : {w}]
  BY DEF Buffers
<1> HIDE DEF c
<1>3. c = [data |-> c.data, r |-> c.r, w |-> c.w]
  BY <1>2
<1> QED BY <1>1, <1>3 DEF c

-----------------------------------------------------------------------------
(* The members.                                                            *)

\* A new buffer is empty.
LEMMA NewGood ==
    ASSUME NEW n \in Nat
    PROVE  Good(NewBuffer(n)) /\ Content(NewBuffer(n)) = <<>>
<1> DEFINE b == NewBuffer(n)
<1>1. b.data \in Seq(Bytes) /\ Len(b.data) = kCheapPrepend + n
  BY ByteAssumption, PrependAssumption DEF NewBuffer
<1>2. Good(b)
  BY <1>1, PrependAssumption DEF Good, Buffers, NewBuffer
<1>3. Len(Content(b)) = 0 /\ Content(b) \in Seq(Bytes)
  BY <1>2, ContentShape, PrependAssumption DEF NewBuffer
<1> QED BY <1>2, <1>3

\* Retrieving n bytes drops the first n, or all there are.
LEMMA RetrieveGood ==
    ASSUME NEW b, Good(b), NEW n \in Nat
    PROVE  /\ Good(Retrieve(b, n))
           /\ n <= ReadableBytes(b) =>
                 Content(Retrieve(b, n)) = SubSeq(Content(b), n + 1, Len(Content(b)))
           /\ n > ReadableBytes(b) => Content(Retrieve(b, n)) = <<>>
<1> DEFINE c == Retrieve(b, n)
           t == SubSeq(Content(b), n + 1, Len(Content(b)))
<1>0. /\ Content(b) \in Seq(Bytes) /\ Len(Content(b)) = b.w - b.r
      /\ \A i \in 1..b.w - b.r : Content(b)[i] = b.data[b.r + i]
  BY ContentShape
<1>9. b.r \in Nat /\ b.w \in Nat /\ b.r <= b.w
  BY DEF Good, Buffers
<1>1. CASE n < ReadableBytes(b)
  <2>0. n < b.w - b.r
    BY <1>1 DEF ReadableBytes
  <2>1. c = [data |-> b.data, r |-> b.r + n, w |-> b.w]
    BY <1>1 DEF Retrieve, Good, Buffers
  <2> HIDE DEF c
  <2>2. Good(c)
    BY <2>0, <2>1 DEF Good, Buffers
  <2>3. /\ t \in Seq(Bytes) /\ Len(t) = b.w - b.r - n
        /\ \A i \in 1..b.w - b.r - n : t[i] = Content(b)[n + i]
    BY <1>0, <1>9, <2>0, SuffixShape
  <2> HIDE DEF t
  <2>4. \A i \in 1..c.w - c.r : c.data[c.r + i] = t[i]
    <3> TAKE i \in 1..c.w - c.r
    <3>1. i \in 1..b.w - b.r - n /\ n + i \in 1..b.w - b.r /\ c.r + i = b.r + (n + i)
      BY <1>9, <2>0, <2>1
    <3> QED BY <1>0, <2>1, <2>3, <3>1
  <2>5. Len(t) = c.w - c.r
    BY <1>9, <2>1, <2>3
  <2>6. Content(c) = t
    BY <2>2, <2>3, <2>4, <2>5, ContentIs
  <2>7. ~(n > ReadableBytes(b))
    BY <1>1, <1>9 DEF ReadableBytes
  <2> QED BY <2>2, <2>6, <2>7 DEF c, t
<1>2. CASE ~(n < ReadableBytes(b))
  <2>1. c = [data |-> b.data, r |-> kCheapPrepend, w |-> kCheapPrepend]
    BY <1>2 DEF Retrieve, RetrieveAll, Good, Buffers
  <2>2. Good(c)
    BY <2>1, PrependAssumption DEF Good, Buffers
  <2>3. Content(c) = <<>>
    BY <2>1, <2>2, ContentShape, PrependAssumption
  <2>4. n <= ReadableBytes(b) => SubSeq(Content(b), n + 1, Len(Content(b))) = <<>>
    BY <1>0, <1>2 DEF ReadableBytes, Good, Buffers
  <2> QED BY <2>2, <2>3, <2>4
<1> QED BY <1>1, <1>2

\* Room is made, nothing that is in the buffer changes, and what moves moves to the front.
LEMMA MakeSpaceGood ==
    ASSUME NEW b, Good(b), NEW n \in Nat, WriteableBytes(b) < n
    PROVE  /\ Good(MakeSpace(b, n))
           /\ Content(MakeSpace(b, n)) = Content(b)
           /\ WriteableBytes(MakeSpace(b, n)) >= n
           /\ MakeSpace(b, n).r <= b.r
<1> DEFINE c == MakeSpace(b, n)
           m == b.w - b.r
<1> USE PrependAssumption
<1>0. /\ Content(b) \in Seq(Bytes) /\ Len(Content(b)) = m
      /\ \A i \in 1..m : Content(b)[i] = b.data[b.r + i]
  BY ContentShape
<1>9. /\ b.data \in Seq(Bytes) /\ b.r \in Nat /\ b.w \in Nat /\ m \in Nat
      /\ b.w <= Len(b.data)
  BY DEF Good, Buffers
<1>1. CASE WriteableBytes(b) + PrependableBytes(b) < n + kCheapPrepend
  <2> DEFINE d == [i \in 1..b.w + n |-> IF i <= Len(b.data) THEN b.data[i] ELSE Zero]
  <2>1. d \in Seq(Bytes) /\ Len(d) = b.w + n
    BY ByteAssumption, SMTT(30) DEF Good, Buffers
  <2>2. c = [data |-> d, r |-> b.r, w |-> b.w]
    BY <1>1 DEF MakeSpace, Good, Buffers
  <2>3. Good(c) /\ WriteableBytes(c) >= n
    BY <2>1, <2>2 DEF Good, Buffers, WriteableBytes
  <2>4. \A i \in 1..m : d[b.r + i] = b.data[b.r + i]
    BY DEF Good, Buffers
  <2> HIDE DEF c, d
  <2>5. Content(c) = Content(b)
    BY <1>0, <2>2, <2>3, <2>4, ContentIs
  <2> QED BY <1>9, <2>2, <2>3, <2>5 DEF c
<1>2. CASE ~(WriteableBytes(b) + PrependableBytes(b) < n + kCheapPrepend)
  <2> DEFINE d == Put(b.data, kCheapPrepend, Content(b))
  <2>1. kCheapPrepend + m <= Len(b.data) /\ kCheapPrepend <= b.r
    BY <1>2, <1>9, SMTT(30) DEF WriteableBytes, PrependableBytes
  <2>2. /\ d \in Seq(Bytes) /\ Len(d) = Len(b.data)
        /\ \A i \in 1..Len(b.data) :
              d[i] = IF i > kCheapPrepend /\ i <= kCheapPrepend + m
                     THEN Content(b)[i - kCheapPrepend] ELSE b.data[i]
    <3>1. /\ d \in Seq(Bytes) /\ Len(d) = Len(b.data)
          /\ \A i \in 1..Len(b.data) :
                d[i] = IF i > kCheapPrepend /\ i <= kCheapPrepend + Len(Content(b))
                       THEN Content(b)[i - kCheapPrepend] ELSE b.data[i]
      BY <1>0, <1>9, PutShape
    <3> QED BY <1>0, <3>1
  <2>3. c = [data |-> d, r |-> kCheapPrepend, w |-> kCheapPrepend + m]
    BY <1>2 DEF MakeSpace, ReadableBytes
  <2> HIDE DEF c, d
  <2>4. Good(c)
    BY <1>9, <2>1, <2>2, <2>3 DEF Good, Buffers
  <2>5. \A i \in 1..m : d[kCheapPrepend + i] = Content(b)[i]
    <3> TAKE i \in 1..m
    <3>1. /\ kCheapPrepend + i \in 1..Len(b.data)
          /\ kCheapPrepend + i > kCheapPrepend /\ kCheapPrepend + i <= kCheapPrepend + m
          /\ (kCheapPrepend + i) - kCheapPrepend = i
      BY <1>9, <2>1
    <3> QED BY <2>2, <3>1
  <2>6. c.w - c.r = m
    BY <1>9, <2>3
  <2>7. Content(c) = Content(b)
    BY <1>0, <2>3, <2>4, <2>5, <2>6, ContentIs
  <2>8. WriteableBytes(c) >= n
    BY <1>2, <1>9, <2>2, <2>3, SMTT(30) DEF WriteableBytes, PrependableBytes
  <2> QED BY <2>1, <2>3, <2>4, <2>7, <2>8 DEF c
<1> QED BY <1>1, <1>2

\* Writing s behind what is there, when there is room.
LEMMA WriteGood ==
    ASSUME NEW b, Good(b), NEW s \in Seq(Bytes), Len(s) <= WriteableBytes(b)
    PROVE  LET c == [b EXCEPT !.data = Put(b.data, b.w, s), !.w = @ + Len(s)]
           IN  Good(c) /\ Content(c) = Content(b) \o s
<1> DEFINE c == [b EXCEPT !.data = Put(b.data, b.w, s), !.w = @ + Len(s)]
           d == Put(b.data, b.w, s)
           m == b.w - b.r
           t == Content(b) \o s
<1>0. /\ Content(b) \in Seq(Bytes) /\ Len(Content(b)) = m
      /\ \A i \in 1..m : Content(b)[i] = b.data[b.r + i]
  BY ContentShape
<1>9. /\ b.data \in Seq(Bytes) /\ b.r \in Nat /\ b.w \in Nat /\ m \in Nat
      /\ Len(s) \in Nat /\ Len(b.data) \in Nat /\ b.w = b.r + m
      /\ b.w + Len(s) <= Len(b.data)
  BY DEF Good, Buffers, WriteableBytes
<1>1. c = [data |-> d, r |-> b.r, w |-> b.w + Len(s)]
  BY TwoFields DEF Good
<1>2. /\ d \in Seq(Bytes) /\ Len(d) = Len(b.data)
      /\ \A i \in 1..Len(b.data) :
            d[i] = IF i > b.w /\ i <= b.w + Len(s) THEN s[i - b.w] ELSE b.data[i]
  BY <1>9, PutShape
<1> HIDE DEF c, d
<1>3. Good(c)
  BY <1>9, <1>1, <1>2, PrependAssumption DEF Good, Buffers
<1> HIDE DEF m
<1>4. /\ t \in Seq(Bytes) /\ Len(t) = m + Len(s)
      /\ \A i \in 1..m : t[i] = Content(b)[i]
      /\ \A i \in 1..Len(s) : t[m + i] = s[i]
  <2>1. /\ t \in Seq(Bytes) /\ Len(t) = Len(Content(b)) + Len(s)
        /\ \A i \in 1..Len(Content(b)) : t[i] = Content(b)[i]
        /\ \A i \in 1..Len(s) : t[Len(Content(b)) + i] = s[i]
    BY <1>0, ConcatShape
  <2> QED BY <1>0, <2>1
<1> HIDE DEF t
<1>5. ASSUME NEW i \in 1..m + Len(s) PROVE d[b.r + i] = t[i]
  <2>1. CASE i <= m
    <3>1. i \in 1..m /\ b.r + i \in 1..Len(b.data) /\ ~(b.r + i > b.w)
      BY <1>9, <2>1, SMTT(30)
    <3> QED BY <1>0, <1>2, <1>4, <3>1
  <2>2. CASE i > m
    <3>1. i - m \in 1..Len(s) /\ m + (i - m) = i
      BY <1>9, <2>2
    <3>2. b.r + i > b.w /\ b.r + i <= b.w + Len(s) /\ b.r + i - b.w = i - m
      BY <1>9, <2>2, SMTT(30)
    <3>3. b.r + i \in 1..Len(b.data)
      BY <1>9, SMTT(30)
    <3>4. d[b.r + i] = s[i - m]
      <4> DEFINE j == b.r + i
      <4>1. j \in 1..Len(b.data) /\ j > b.w /\ j <= b.w + Len(s) /\ j - b.w = i - m
        BY <1>9, <3>2, <3>3
      <4> HIDE DEF j
      <4>2. d[j] = s[j - b.w]
        BY <1>2, <4>1
      <4> QED BY <4>1, <4>2 DEF j
    <3>5. t[m + (i - m)] = s[i - m]
      BY <1>4, <3>1
    <3> QED BY <3>1, <3>4, <3>5
  <2> QED BY <1>9, <2>1, <2>2
<1>6. c.w - c.r = m + Len(s) /\ c.r = b.r /\ c.data = d
  BY <1>9, <1>1
<1>7. Content(c) = t
  BY <1>3, <1>4, <1>5, <1>6, ContentIs
<1> QED BY <1>3, <1>7 DEF c, t

\* Appending appends.
LEMMA AppendGood ==
    ASSUME NEW b, Good(b), NEW s \in Seq(Bytes)
    PROVE  Good(AppendBytes(b, s)) /\ Content(AppendBytes(b, s)) = Content(b) \o s
<1> DEFINE e == EnsureWriteable(b, Len(s))
<1>1. Good(e) /\ Content(e) = Content(b) /\ Len(s) <= WriteableBytes(e)
  <2>1. CASE WriteableBytes(b) < Len(s)
    <3>1. Good(e) /\ Content(e) = Content(b) /\ WriteableBytes(e) >= Len(s)
      BY <2>1, MakeSpaceGood DEF EnsureWriteable
    <3>2. WriteableBytes(e) \in Int
      BY <3>1 DEF WriteableBytes, Good, Buffers
    <3> QED BY <3>1, <3>2
  <2>2. CASE ~(WriteableBytes(b) < Len(s))
    BY <2>2 DEF EnsureWriteable, WriteableBytes, Good, Buffers
  <2> QED BY <2>1, <2>2
<1> QED BY <1>1, WriteGood DEF AppendBytes

\* Bytes put behind the write index do not change what is there; counting n of them adds n,
\* or nothing when there is no room for as many.
LEMMA HasWrittenGood ==
    ASSUME NEW b, Good(b), NEW s \in Seq(Bytes), NEW n \in Nat
    PROVE  LET c == HasWritten([b EXCEPT !.data = Put(@, b.w, s)], n)
           IN  /\ Good(c)
               /\ \/ Content(c) = Content(b)
                  \/ \E t \in [1..n -> Bytes] : Content(c) = Content(b) \o t
<1> DEFINE d == Put(b.data, b.w, s)
           e == [b EXCEPT !.data = d]
           c == HasWritten(e, n)
           m == b.w - b.r
<1>0. /\ Content(b) \in Seq(Bytes) /\ Len(Content(b)) = m
      /\ \A i \in 1..m : Content(b)[i] = b.data[b.r + i]
  BY ContentShape
<1>1. /\ b.data \in Seq(Bytes) /\ b.r \in Nat /\ b.w \in Nat /\ m \in Nat
      /\ Len(b.data) \in Nat /\ b.w = b.r + m /\ b.w <= Len(b.data)
  BY DEF Good, Buffers
<1>2. /\ d \in Seq(Bytes) /\ Len(d) = Len(b.data)
      /\ \A i \in 1..Len(b.data) :
            d[i] = IF i > b.w /\ i <= b.w + Len(s) THEN s[i - b.w] ELSE b.data[i]
  BY <1>1, PutShape
<1>3. ASSUME NEW i \in 1..m PROVE d[b.r + i] = Content(b)[i]
  <2>1. b.r + i \in 1..Len(b.data) /\ ~(b.r + i > b.w)
    BY <1>1
  <2> QED BY <1>0, <1>2, <2>1
<1> HIDE DEF d, m
<1>4. e = [data |-> d, r |-> b.r, w |-> b.w]
  BY DEF Good, Buffers
<1> HIDE DEF e
<1>5. Good(e) /\ Content(e) = Content(b)
  <2>1. Good(e)
    BY <1>2, <1>4 DEF Good, Buffers
  <2>2. e.w - e.r = m /\ e.r = b.r /\ e.data = d
    BY <1>1, <1>4
  <2>3. Content(e) = Content(b)
    BY <1>0, <1>3, <2>1, <2>2, ContentIs
  <2> QED BY <2>1, <2>3
<1>6. CASE n <= WriteableBytes(e)
  <2> DEFINE t == [i \in 1..n |-> d[b.w + i]]
             x == Content(b) \o t
  <2>1. b.w + n <= Len(b.data)
    BY <1>1, <1>2, <1>4, <1>6 DEF WriteableBytes
  <2>2. t \in [1..n -> Bytes] /\ t \in Seq(Bytes) /\ Len(t) = n
    <3>1. ASSUME NEW i \in 1..n PROVE d[b.w + i] \in Bytes
      <4>1. b.w + i \in 1..Len(d)
        BY <1>1, <1>2, <2>1
      <4> QED BY <1>2, <4>1
    <3> QED BY <3>1
  <2>3. c = [data |-> d, r |-> b.r, w |-> b.w + n]
    BY <1>4, <1>6 DEF HasWritten
  <2>4. \A i \in 1..n : t[i] = d[b.w + i]
    OBVIOUS
  <2> HIDE DEF c, t
  <2>5. Good(c) /\ c.w - c.r = m + n /\ c.r = b.r /\ c.data = d
    <3>1. c.data = d /\ c.r = b.r /\ c.w = b.w + n
      BY <2>3
    <3>2. c.w \in Nat /\ c.r <= c.w /\ c.w <= Len(c.data) /\ kCheapPrepend <= c.w
      BY <1>1, <1>2, <2>1, <3>1, PrependAssumption DEF Good
    <3>3. c \in Buffers
      BY <1>1, <1>2, <2>3, <3>1, <3>2 DEF Buffers
    <3>4. c.w - c.r = m + n
      BY <1>1, <3>1
    <3> QED BY <3>1, <3>2, <3>3, <3>4 DEF Good
  <2>6. /\ x \in Seq(Bytes) /\ Len(x) = m + n
        /\ \A i \in 1..m : x[i] = Content(b)[i]
        /\ \A i \in 1..n : x[m + i] = t[i]
    <3>1. /\ x \in Seq(Bytes) /\ Len(x) = Len(Content(b)) + Len(t)
          /\ \A i \in 1..Len(Content(b)) : x[i] = Content(b)[i]
          /\ \A i \in 1..Len(t) : x[Len(Content(b)) + i] = t[i]
      BY <1>0, <2>2, ConcatShape
    <3> QED BY <1>0, <2>2, <3>1
  <2> HIDE DEF x
  <2>7. ASSUME NEW i \in 1..m + n PROVE d[b.r + i] = x[i]
    <3>1. CASE i <= m
      <4>1. i \in 1..m
        BY <1>1, <3>1
      <4> QED BY <1>3, <2>6, <4>1
    <3>2. CASE i > m
      <4> DEFINE j == i - m
      <4>1. j \in 1..n /\ m + j = i /\ b.w + j = b.r + i
        BY <1>1, <3>2
      <4> HIDE DEF j
      <4> QED BY <2>4, <2>6, <4>1
    <3> QED BY <1>1, <3>1, <3>2
  <2>8. Content(c) = x
    BY <2>5, <2>6, <2>7, ContentIs
  <2> QED BY <2>2, <2>5, <2>8 DEF c, x, d, e
<1>7. CASE ~(n <= WriteableBytes(e))
  <2>1. c = e
    BY <1>7 DEF HasWritten
  <2> QED BY <1>5, <2>1 DEF c, d, e
<1> QED BY <1>6, <1>7

\* Prepending puts the prefix in front, or does nothing.
LEMMA PrependGood ==
    ASSUME NEW b, Good(b), NEW s \in Seq(Bytes)
    PROVE  /\ Good(Prepend(b, s))
           /\ \/ Content(Prepend(b, s)) = s \o Content(b)
              \/ Content(Prepend(b, s)) = Content(b)
<1> DEFINE c == Prepend(b, s)
           d == Put(b.data, b.r - Len(s), s)
           m == b.w - b.r
           t == s \o Content(b)
<1>1. CASE Len(s) <= PrependableBytes(b)
  <2>0. /\ Content(b) \in Seq(Bytes) /\ Len(Content(b)) = m
        /\ \A i \in 1..m : Content(b)[i] = b.data[b.r + i]
    BY ContentShape
  <2>9. /\ b.data \in Seq(Bytes) /\ b.r \in Nat /\ b.w \in Nat /\ m \in Nat
        /\ Len(s) \in Nat /\ Len(b.data) \in Nat /\ b.w = b.r + m
        /\ b.w <= Len(b.data) /\ b.r - Len(s) \in Nat
    BY <1>1 DEF PrependableBytes, Good, Buffers
  <2>1. c = [data |-> d, r |-> b.r - Len(s), w |-> b.w]
    BY <1>1 DEF Prepend, Good, Buffers
  <2>2. /\ d \in Seq(Bytes) /\ Len(d) = Len(b.data)
        /\ \A i \in 1..Len(b.data) :
              d[i] = IF i > b.r - Len(s) /\ i <= b.r - Len(s) + Len(s)
                     THEN s[i - (b.r - Len(s))] ELSE b.data[i]
    <3> DEFINE at == b.r - Len(s)
    <3>1. at \in Nat
      BY <2>9
    <3> HIDE DEF at
    <3>2. /\ Put(b.data, at, s) \in Seq(Bytes) /\ Len(Put(b.data, at, s)) = Len(b.data)
          /\ \A i \in 1..Len(b.data) :
                Put(b.data, at, s)[i] = IF i > at /\ i <= at + Len(s)
                                        THEN s[i - at] ELSE b.data[i]
      BY <2>9, <3>1, PutShape
    <3> QED BY <3>2 DEF at
  <2> HIDE DEF c, d
  <2>3. Good(c)
    BY <2>9, <2>1, <2>2 DEF Good, Buffers
  <2> HIDE DEF m
  <2>4. /\ t \in Seq(Bytes) /\ Len(t) = Len(s) + m
        /\ \A i \in 1..Len(s) : t[i] = s[i]
        /\ \A i \in 1..m : t[Len(s) + i] = Content(b)[i]
    <3>1. /\ t \in Seq(Bytes) /\ Len(t) = Len(s) + Len(Content(b))
          /\ \A i \in 1..Len(s) : t[i] = s[i]
          /\ \A i \in 1..Len(Content(b)) : t[Len(s) + i] = Content(b)[i]
      BY <2>0, ConcatShape
    <3> QED BY <2>0, <3>1
  <2> HIDE DEF t
  <2>5. ASSUME NEW i \in 1..Len(s) + m PROVE d[b.r - Len(s) + i] = t[i]
    <3> DEFINE j == b.r - Len(s) + i
    <3>1. j \in 1..Len(b.data)
      <4>1. b.r + m <= Len(b.data) /\ b.r - Len(s) >= 0
        BY <2>9
      <4>2. b.r \in Nat /\ Len(s) \in Nat /\ m \in Nat /\ Len(b.data) \in Nat
        BY <2>9
      <4> QED BY <4>1, <4>2
    <3>2. CASE i <= Len(s)
      <4>1. /\ i \in 1..Len(s) /\ j > b.r - Len(s) /\ j <= b.r - Len(s) + Len(s)
            /\ j - (b.r - Len(s)) = i
        <5>1. i \in 1..Len(s) /\ b.r \in Nat /\ Len(s) \in Nat
          BY <2>9, <3>2
        <5> QED BY <5>1
      <4> QED BY <2>2, <2>4, <3>1, <4>1
    <3>3. CASE i > Len(s)
      <4>1. /\ ~(j <= b.r - Len(s) + Len(s)) /\ i - Len(s) \in 1..m
            /\ Len(s) + (i - Len(s)) = i /\ j = b.r + (i - Len(s))
        BY <2>9, <3>3, SMTT(30)
      <4> HIDE DEF j
      <4>2. d[j] = b.data[j]
        BY <2>2, <3>1, <4>1
      <4>3. t[i] = Content(b)[i - Len(s)]
        BY <2>4, <4>1
      <4> QED BY <2>0, <4>1, <4>2, <4>3 DEF j
    <3> QED BY <2>9, <3>2, <3>3
  <2>6. c.w - c.r = Len(s) + m /\ c.r = b.r - Len(s) /\ c.data = d
    BY <2>9, <2>1
  <2>7. Content(c) = t
    BY <2>3, <2>4, <2>5, <2>6, ContentIs
  <2> QED BY <2>3, <2>7 DEF c, t
<1>2. CASE ~(Len(s) <= PrependableBytes(b))
  BY <1>2 DEF Prepend
<1> QED BY <1>1, <1>2

-----------------------------------------------------------------------------
(* The theorems.                                                           *)

\* The strings of a call are sequences of bytes.
LEMMA StringsAreSeqs == \A s \in Strings : s \in Seq(Bytes)
BY DEF Strings

\* And the empty one is among them.
LEMMA EmptyIsString == <<>> \in Strings
<1>1. <<>> \in [1..0 -> Bytes] /\ 0 \in 0..MaxLen
  BY SizeAssumption
<1> QED BY <1>1 DEF Strings

\* A sequence whose elements are the first ones of another is its prefix.
LEMMA PrefixIs ==
    ASSUME NEW s \in Seq(Bytes), NEW t \in Seq(Bytes), Len(s) <= Len(t),
           \A i \in 1..Len(s) : s[i] = t[i]
    PROVE  s = SubSeq(t, 1, Len(s))
OBVIOUS

\* The elements of a part.
LEMMA PartShape ==
    ASSUME NEW s \in Seq(Bytes), NEW r \in Nat, NEW n \in Nat, r + n <= Len(s)
    PROVE  /\ SubSeq(s, r + 1, r + n) \in Seq(Bytes)
           /\ Len(SubSeq(s, r + 1, r + n)) = n
           /\ \A i \in 1..n : SubSeq(s, r + 1, r + n)[i] = s[r + i]
OBVIOUS

\* A string of n bytes from peek() on begins with what is there, whatever n is.
LEMMA StringShape ==
    ASSUME NEW b, Good(b), NEW n \in Nat,
           NEW beyond \in [1..b.r + n - Len(b.data) -> Bytes]
    PROVE  LET s == SubSeq(b.data \o beyond, b.r + 1, b.r + n)
           IN  /\ s \in Seq(Bytes) /\ Len(s) = n
               /\ \A i \in 1..n : i <= ReadableBytes(b) => s[i] = Content(b)[i]
<1> DEFINE l == b.r + n - Len(b.data)
           d == b.data \o beyond
           s == SubSeq(d, b.r + 1, b.r + n)
<1>1. /\ b.data \in Seq(Bytes) /\ b.r \in Nat /\ b.w \in Nat /\ Len(b.data) \in Nat
      /\ b.r <= b.w /\ b.w <= Len(b.data)
  BY DEF Good, Buffers
<1>2. /\ beyond \in Seq(Bytes) /\ Len(b.data) + Len(beyond) >= b.r + n
  <2>1. CASE l > 0
    <3>1. l \in Nat /\ beyond \in [1..l -> Bytes]
      BY <1>1, <2>1
    <3> HIDE DEF l
    <3>2. beyond \in Seq(Bytes) /\ Len(beyond) = l
      BY <3>1
    <3> QED BY <1>1, <3>2 DEF l
  <2>2. CASE ~(l > 0)
    <3>1. l \in Int /\ beyond \in [1..l -> Bytes]
      BY <1>1
    <3> HIDE DEF l
    <3>2. beyond \in [1..0 -> Bytes]
      <4>1. 1..l = 1..0
        BY <2>2, <3>1
      <4> QED BY <3>1, <4>1, Zenon
    <3>3. beyond \in Seq(Bytes) /\ Len(beyond) = 0
      BY <3>2
    <3> QED BY <1>1, <2>2, <3>1, <3>3 DEF l
  <2> QED BY <2>1, <2>2
<1>3. /\ d \in Seq(Bytes) /\ Len(d) = Len(b.data) + Len(beyond)
      /\ \A i \in 1..Len(b.data) : d[i] = b.data[i]
  BY <1>1, <1>2, ConcatShape
<1> HIDE DEF d
<1>4. s \in Seq(Bytes) /\ Len(s) = n /\ \A i \in 1..n : s[i] = d[b.r + i]
  <2>1. b.r + n <= Len(d) /\ b.r \in Nat /\ n \in Nat /\ d \in Seq(Bytes)
    BY <1>1, <1>2, <1>3
  <2> QED BY ONLY <2>1, PartShape
<1> HIDE DEF s
<1>5. ASSUME NEW i \in 1..n, i <= ReadableBytes(b) PROVE s[i] = Content(b)[i]
  <2>1. i \in 1..b.w - b.r /\ b.r + i \in 1..Len(b.data)
    BY <1>1, <1>5 DEF ReadableBytes
  <2>2. Content(b)[i] = b.data[b.r + i]
    BY <2>1, ContentShape
  <2> QED BY <1>3, <1>4, <2>1, <2>2
<1> QED BY <1>4, <1>5 DEF s, d

\* The invariant holds of the new buffer.
LEMMA GoodInit == Init => Good(buf)
BY NewGood, SizeAssumption DEF Init

\* Every call keeps it.
LEMMA GoodNext == Good(buf) /\ [Next]_<<buf, result>> => Good(buf)'
<1> SUFFICES ASSUME Good(buf), [Next]_<<buf, result>> PROVE Good(buf')
  OBVIOUS
<1>1. ASSUME NEW s \in Strings, Append1(s) PROVE Good(buf')
  BY <1>1, StringsAreSeqs, AppendGood DEF Append1
<1>2. ASSUME NEW s \in Strings, Prepend1(s) PROVE Good(buf')
  BY <1>2, StringsAreSeqs, PrependGood DEF Prepend1
<1>3. ASSUME NEW n \in 0..MaxSize, Retrieve1(n) PROVE Good(buf')
  BY <1>3, RetrieveGood DEF Retrieve1
<1>4. ASSUME NEW n \in 0..MaxSize, RetrieveAsString(n) PROVE Good(buf')
  BY <1>4, RetrieveGood DEF RetrieveAsString
<1>5. ASSUME NEW s \in Strings, NEW n \in 0..MaxLen, HasWritten1(s, n) PROVE Good(buf')
  <2>1. s \in Seq(Bytes) /\ n \in Nat
    BY StringsAreSeqs
  <2> QED BY <1>5, <2>1, HasWrittenGood DEF HasWritten1
<1>6. CASE UNCHANGED <<buf, result>>
  BY <1>6
<1> QED BY <1>1, <1>2, <1>3, <1>4, <1>5, <1>6 DEF Next

\* So it always holds.
LEMMA AlwaysGood == Spec => []Good(buf)
BY GoodInit, GoodNext, PTL DEF Spec

\* The indices never cross nor leave the vector (buffer.h:65, 110).
THEOREM IndicesHold == Spec => []IndicesInOrder
<1>1. Good(buf) => IndicesInOrder
  BY PrependAssumption DEF Good, Buffers, IndicesInOrder
<1> QED BY <1>1, AlwaysGood, PTL

\* makeSpace makes the room it is asked for, and std::copy moves to the front only
\* (buffer.h:133-146).
THEOREM SpaceHolds == Spec => []SpaceIsMade
<1>1. Good(buf) => SpaceIsMade
  BY MakeSpaceGood, SizeAssumption DEF SpaceIsMade
<1> QED BY <1>1, AlwaysGood, PTL

\* A new buffer is an empty FIFO.
LEMMA FifoInit == Init => Fifo!Init
BY NewGood, SizeAssumption DEF Init, Fifo!Init

\* Every call is a step of the FIFO or leaves it alone.
LEMMA FifoNext ==
    Good(buf) /\ [Next]_<<buf, result>> => [Fifo!Next]_<<Content(buf), result>>
<1> SUFFICES ASSUME Good(buf), [Next]_<<buf, result>>
             PROVE  Fifo!Next \/ UNCHANGED <<Content(buf), result>>
  OBVIOUS
<1>0. Len(Content(buf)) = ReadableBytes(buf) /\ Content(buf) \in Seq(Bytes)
  BY ContentShape DEF ReadableBytes
<1>1. ASSUME NEW s \in Strings, Append1(s) PROVE Fifo!Next
  <2>1. Fifo!Write(s)
    BY <1>1, StringsAreSeqs, AppendGood DEF Append1, Fifo!Write
  <2> QED BY <2>1 DEF Fifo!Next, Fifo!Strings, Strings
<1>2. ASSUME NEW s \in Strings, Prepend1(s) PROVE Fifo!Next
  <2>1. Fifo!PutBack(s)
    BY <1>2, StringsAreSeqs, PrependGood DEF Prepend1, Fifo!PutBack
  <2> QED BY <2>1 DEF Fifo!Next, Fifo!Strings, Strings
<1>3. ASSUME NEW n \in 0..MaxSize, Retrieve1(n) PROVE Fifo!Next
  <2>1. CASE n <= ReadableBytes(buf)
    <3>1. Content(buf') = SubSeq(Content(buf), n + 1, Len(Content(buf)))
      BY <1>3, <2>1, RetrieveGood, SMTT(30) DEF Retrieve1
    <3>2. Fifo!Drop(n) /\ n \in 0..Len(Content(buf))
      BY <1>0, <1>3, <2>1, <3>1 DEF Retrieve1, Fifo!Drop
    <3> QED BY <3>2 DEF Fifo!Next
  <2>2. CASE n > ReadableBytes(buf)
    <3>1. Content(buf)' = SubSeq(Content(buf), Len(Content(buf)) + 1, Len(Content(buf)))
      BY <1>0, <1>3, <2>2, RetrieveGood, SMTT(30) DEF Retrieve1
    <3>2. Fifo!Drop(Len(Content(buf)))
      BY <1>3, <3>1 DEF Retrieve1, Fifo!Drop
    <3> QED BY <1>0, <3>2 DEF Fifo!Next
  <2> QED BY <2>1, <2>2 DEF Good, Buffers, ReadableBytes
<1>4. ASSUME NEW n \in 0..MaxSize, RetrieveAsString(n) PROVE Fifo!Next
  <2> DEFINE k == ReadableBytes(buf)
  <2>1. k \in Nat /\ n \in Nat /\ Len(Content(buf)) = k
    BY <1>0 DEF Good, Buffers, ReadableBytes
  <2>2. buf' = Retrieve(buf, n)
    BY <1>4 DEF RetrieveAsString
  <2>3. /\ result' \in Seq(Bytes) /\ Len(result') = n
        /\ \A i \in 1..n : i <= k => result'[i] = Content(buf)[i]
    <3>1. PICK beyond \in [1..buf.r + n - Len(buf.data) -> Bytes] :
             result' = SubSeq(buf.data \o beyond, buf.r + 1, buf.r + n)
      BY <1>4 DEF RetrieveAsString
    <3> QED BY ONLY <2>1, <3>1, Good(buf), StringShape
  <2>4. CASE n <= k
    <3>1. Content(buf') = SubSeq(Content(buf), n + 1, Len(Content(buf)))
      <4>1. n \in Nat /\ n <= ReadableBytes(buf)
        BY <2>1, <2>4
      <4>2. Content(Retrieve(buf, n)) = SubSeq(Content(buf), n + 1, Len(Content(buf)))
        BY ONLY <4>1, Good(buf), RetrieveGood
      <4> QED BY <2>2, <4>2
    <3>2. result' = SubSeq(Content(buf), 1, n)
      <4>1. \A i \in 1..n : result'[i] = Content(buf)[i]
        BY <2>1, <2>3, <2>4
      <4> QED BY <1>0, <2>1, <2>3, <2>4, <4>1, PrefixIs
    <3>3. Fifo!Take(n) /\ n \in 0..Len(Content(buf))
      BY <2>1, <2>4, <3>1, <3>2 DEF Fifo!Take
    <3> QED BY <3>3 DEF Fifo!Next
  <2>5. CASE n > k
    <3>1. Content(buf') = <<>>
      BY <2>1, <2>2, <2>5, RetrieveGood
    <3>2. \A i \in 1..k : Content(buf)[i] = result'[i]
      BY <2>1, <2>3, <2>5
    <3>3. Content(buf) = SubSeq(result', 1, k)
      BY <1>0, <2>1, <2>3, <2>5, <3>2, PrefixIs
    <3>4. Fifo!TakeBeyond
      BY <2>1, <2>3, <2>5, <3>1, <3>3 DEF Fifo!TakeBeyond
    <3> QED BY <3>4 DEF Fifo!Next
  <2> QED BY <2>1, <2>4, <2>5
<1>5. ASSUME NEW s \in Strings, NEW n \in 0..MaxLen, HasWritten1(s, n) PROVE Fifo!Next
  <2>1. s \in Seq(Bytes) /\ n \in Nat /\ result' = <<>>
    BY <1>5, StringsAreSeqs DEF HasWritten1
  <2>2. \/ Content(buf') = Content(buf)
        \/ \E t \in [1..n -> Bytes] : Content(buf') = Content(buf) \o t
    BY <1>5, <2>1, HasWrittenGood DEF HasWritten1
  <2>3. CASE Content(buf') = Content(buf)
    <3>1. Fifo!PutBack(<<>>) /\ <<>> \in Strings
      BY <2>1, <2>3, EmptyIsString DEF Fifo!PutBack
    <3> QED BY <3>1 DEF Fifo!Next, Fifo!Strings, Strings
  <2>4. CASE \E t \in [1..n -> Bytes] : Content(buf') = Content(buf) \o t
    <3>1. PICK t \in [1..n -> Bytes] : Content(buf') = Content(buf) \o t
      BY <2>4
    <3>2. Fifo!Write(t) /\ t \in Strings
      BY <2>1, <3>1 DEF Fifo!Write, Strings
    <3> QED BY <3>2 DEF Fifo!Next, Fifo!Strings, Strings
  <2> QED BY <2>2, <2>3, <2>4
<1>6. CASE UNCHANGED <<buf, result>>
  BY <1>6 DEF Content
<1> QED BY <1>1, <1>2, <1>3, <1>4, <1>5, <1>6 DEF Next

\* The buffer implements the abstract FIFO: the content is what ByteFifo says, through
\* prefixes, partial reads and both kinds of making room.
THEOREM BufferIsFifo == Spec => IsFifo
BY FifoInit, FifoNext, AlwaysGood, PTL DEF Spec, IsFifo, Fifo!Spec

=============================================================================
