----------------------------- MODULE LoggerProofs -----------------------------
(***************************************************************************)
(* Theorems about the logger: no message is lost or doubled on its way     *)
(* through the containers and the threads' hands, the file gets them in    *)
(* order until the logger is stopped, and the files rotate in order; for   *)
(* any messages, any limit of a file and any number of days.               *)
(***************************************************************************)
EXTENDS Logger, TLAPS, FiniteSetTheorems, SequenceTheorems

-----------------------------------------------------------------------------
(* The batches of the queue in a row: a recursive function.                *)

\* What holds of zero, and of every successor, holds of all numbers: for sets, since a
\* proof cannot name the theorem about predicates.
LEMMA Induct ==
    ASSUME NEW S, 0 \in S, \A n \in Nat : n \in S => n + 1 \in S
    PROVE  Nat \subseteq S
<1> DEFINE T == {0..n : n \in Nat \ S}
<1> SUFFICES ASSUME T # {} PROVE FALSE
  OBVIOUS
<1>1. T \subseteq FiniteSubsetsOf(Nat)
  <2>1. \A n \in Nat : IsFiniteSet(0..n) /\ 0..n \subseteq Nat
    BY FS_Interval
  <2> QED BY <2>1 DEF FiniteSubsetsOf
<1>2. PICK X \in T : \A Y \in T : <<Y, X>> \notin StrictSubsetOrdering(Nat)
  <2> HIDE DEF T
  <2> QED BY <1>1, FS_StrictSubsetOrderingWellFounded, WFMin
<1>3. PICK n \in Nat \ S : X = 0..n
  OBVIOUS
<1>4. PICK m \in Nat \ S : n = m + 1
  <2>1. n # 0
    BY <1>3
  <2>2. n - 1 \in Nat /\ n = (n - 1) + 1
    BY <1>3, <2>1
  <2> QED BY <1>3, <2>2
<1>5. <<0..m, X>> \in StrictSubsetOrdering(Nat)
  <2>1. 0..m \subseteq 0..n /\ n \in 0..n /\ n \notin 0..m /\ 0..n \subseteq Nat
    BY <1>3, <1>4
  <2> QED BY <2>1, <1>3 DEF StrictSubsetOrdering
<1> QED BY <1>2, <1>4, <1>5

\* f holds what the first n batches of q are in a row, and so for each number below n.
Steps(f, q, n) ==
    /\ DOMAIN f = 0..n /\ f = [i \in 0..n |-> f[i]]
    /\ f[0] = <<>>
    /\ \A i \in 1..n : f[i] = f[i - 1] \o q[i]

\* f with one value more.
Longer(f, n, x) == [i \in 0..n + 1 |-> IF i = n + 1 THEN x ELSE f[i]]

\* It has the new value at its end, and the old ones before.
LEMMA LongerIs ==
    ASSUME NEW n \in Nat, NEW f, NEW x
    PROVE  LET g == Longer(f, n, x)
           IN  /\ DOMAIN g = 0..n + 1 /\ g = [i \in 0..n + 1 |-> g[i]]
               /\ g[n + 1] = x /\ \A i \in 0..n : g[i] = f[i]
BY DEF Longer

\* The next step.
LEMMA NextStep ==
    ASSUME NEW n \in Nat, NEW f, NEW q, Steps(f, q, n)
    PROVE  Steps(Longer(f, n, f[n] \o q[n + 1]), q, n + 1)
<1> DEFINE x == f[n] \o q[n + 1]
           g == Longer(f, n, x)
<1>1. g[n + 1] = x
  <2> HIDE DEF x
  <2> QED BY LongerIs
<1>2. /\ DOMAIN g = 0..n + 1 /\ g = [i \in 0..n + 1 |-> g[i]]
      /\ \A i \in 0..n : g[i] = f[i]
  <2> HIDE DEF x
  <2> QED BY LongerIs
<1> HIDE DEF g
<1>3. ASSUME NEW i \in 1..n + 1 PROVE g[i] = g[i - 1] \o q[i]
  <2>1. CASE i = n + 1
    <3>1. i - 1 = n /\ n \in 0..n
      BY <2>1
    <3> QED BY <1>1, <1>2, <2>1, <3>1
  <2>2. CASE i # n + 1
    <3>1. i \in 1..n /\ i \in 0..n /\ i - 1 \in 0..n
      BY <2>2
    <3>2. g[i] = f[i] /\ g[i - 1] = f[i - 1]
      BY <1>2, <3>1
    <3>3. f[i] = f[i - 1] \o q[i]
      BY <3>1 DEF Steps
    <3> QED BY <3>2, <3>3
  <2> QED BY <2>1, <2>2
<1>4. g[0] = <<>>
  <2>1. 0 \in 0..n
    OBVIOUS
  <2> QED BY <1>2, <2>1 DEF Steps
<1> QED BY <1>2, <1>3, <1>4 DEF Steps, g

\* Such a function there is, and its values are sequences.
LEMMA StepsExist ==
    ASSUME NEW S, NEW q \in Seq(Seq(S))
    PROVE  \E f : Steps(f, q, Len(q)) /\ \A i \in 0..Len(q) : f[i] \in Seq(S)
<1> DEFINE Good(f, n) == Steps(f, q, n) /\ \A i \in 0..n : f[i] \in Seq(S)
           N == {n \in Nat : n <= Len(q) => \E f : Good(f, n)}
<1>1. 0 \in N
  <2> DEFINE f == [i \in 0..0 |-> <<>>]
  <2>1. /\ DOMAIN f = 0..0 /\ f = [i \in 0..0 |-> f[i]] /\ f[0] = <<>>
        /\ \A i \in 0..0 : f[i] \in Seq(S)
    OBVIOUS
  <2> HIDE DEF f
  <2>2. Good(f, 0)
    BY <2>1 DEF Steps
  <2> QED BY <2>2
<1>2. ASSUME NEW n \in Nat, n \in N PROVE n + 1 \in N
  <2> SUFFICES ASSUME n + 1 <= Len(q) PROVE \E f : Good(f, n + 1)
    <3> HIDE DEF Good
    <3> QED OBVIOUS
  <2>1. n <= Len(q) /\ q[n + 1] \in Seq(S)
    OBVIOUS
  <2>2. PICK f : Good(f, n)
    <3> HIDE DEF Good
    <3> QED BY <1>2, <2>1
  <2> DEFINE x == f[n] \o q[n + 1]
  <2>3. x \in Seq(S)
    <3>1. f[n] \in Seq(S)
      BY <2>2
    <3> QED BY <2>1, <3>1
  <2>4. Steps(Longer(f, n, x), q, n + 1)
    BY <2>2, NextStep
  <2> HIDE DEF x
  <2>5. \A i \in 0..n + 1 : Longer(f, n, x)[i] \in Seq(S)
    <3> DEFINE g == Longer(f, n, x)
    <3>1. g[n + 1] = x /\ \A i \in 0..n : g[i] = f[i]
      BY LongerIs
    <3> HIDE DEF g
    <3>2. \A i \in 0..n + 1 : i = n + 1 \/ i \in 0..n
      OBVIOUS
    <3>3. \A i \in 0..n : f[i] \in Seq(S)
      BY <2>2
    <3>4. \A i \in 0..n + 1 : g[i] \in Seq(S)
      BY <2>3, <3>1, <3>2, <3>3
    <3> QED BY <3>4 DEF g
  <2> QED BY <2>4, <2>5 DEF x
<1>3. Len(q) \in N
  <2>1. Nat \subseteq N
    <3> HIDE DEF N
    <3> QED BY <1>1, <1>2, Induct
  <2> HIDE DEF N
  <2> QED BY <2>1
<1>4. \E f : Good(f, Len(q))
  <2> HIDE DEF Good
  <2> QED BY <1>3
<1> QED BY <1>4

\* And it is the one the definition of Flat means.
LEMMA FlatIs ==
    ASSUME NEW S, NEW q \in Seq(Seq(S)), NEW f, Steps(f, q, Len(q))
    PROVE  Flat(q) = f[Len(q)]
<1> DEFINE IsFlat(g) == g = [i \in 0..Len(q) |-> IF i = 0 THEN <<>> ELSE g[i - 1] \o q[i]]
           g == CHOOSE h : IsFlat(h)
<1>1. Len(q) \in Nat
  OBVIOUS
<1>2. IsFlat(f)
  <2>1. \A i \in 0..Len(q) : f[i] = IF i = 0 THEN <<>> ELSE f[i - 1] \o q[i]
    <3> SUFFICES ASSUME NEW i \in 0..Len(q)
                 PROVE  f[i] = IF i = 0 THEN <<>> ELSE f[i - 1] \o q[i]
      OBVIOUS
    <3>1. i = 0 \/ i \in 1..Len(q)
      BY <1>1
    <3> QED BY <3>1 DEF Steps
  <2>2. [i \in 0..Len(q) |-> f[i]] =
            [i \in 0..Len(q) |-> IF i = 0 THEN <<>> ELSE f[i - 1] \o q[i]]
    BY <2>1, Zenon
  <2>3. f = [i \in 0..Len(q) |-> f[i]]
    BY DEF Steps
  <2> QED BY <2>2, <2>3, Zenon
<1>3. IsFlat(g)
  <2> HIDE DEF IsFlat
  <2> QED BY <1>2, Zenon
<1>4. Flat(q) = g[Len(q)]
  BY DEF Flat
<1>5. \A i \in 0..Len(q) : g[i] = IF i = 0 THEN <<>> ELSE g[i - 1] \o q[i]
  <2> HIDE DEF g
  <2> QED BY <1>3, Zenon
<1> HIDE DEF g
<1> DEFINE N == {n \in Nat : n <= Len(q) => g[n] = f[n]}
<1>6. 0 \in N
  <2>1. 0 \in 0..Len(q)
    BY <1>1
  <2> QED BY <1>5, <2>1 DEF Steps
<1>7. ASSUME NEW n \in Nat, n \in N PROVE n + 1 \in N
  <2> SUFFICES ASSUME n + 1 <= Len(q) PROVE g[n + 1] = f[n + 1]
    OBVIOUS
  <2>1. /\ n + 1 \in 1..Len(q) /\ n + 1 \in 0..Len(q) /\ (n + 1) - 1 = n /\ n + 1 # 0
        /\ n <= Len(q)
    BY <1>1
  <2>2. g[n + 1] = g[n] \o q[n + 1]
    BY <1>5, <2>1
  <2>3. f[n + 1] = f[n] \o q[n + 1]
    <3>1. f[n + 1] = f[(n + 1) - 1] \o q[n + 1]
      BY <2>1 DEF Steps
    <3> QED BY <2>1, <3>1
  <2>4. g[n] = f[n]
    BY <1>7, <2>1
  <2> QED BY <2>2, <2>3, <2>4
<1>8. Len(q) \in N
  <2>1. Nat \subseteq N
    <3> HIDE DEF N
    <3> QED BY <1>6, <1>7, Induct
  <2> HIDE DEF N
  <2> QED BY <1>1, <2>1
<1>9. g[Len(q)] = f[Len(q)]
  BY <1>1, <1>8
<1> QED BY <1>4, <1>9

\* The batches in a row are a sequence of messages, with nothing in an empty queue.
LEMMA FlatType ==
    ASSUME NEW S, NEW q \in Seq(Seq(S))
    PROVE  Flat(q) \in Seq(S) /\ (q = <<>> => Flat(q) = <<>>)
<1>1. PICK f : Steps(f, q, Len(q)) /\ \A i \in 0..Len(q) : f[i] \in Seq(S)
  BY StepsExist
<1>2. Flat(q) = f[Len(q)]
  BY <1>1, FlatIs
<1>3. q = <<>> => f[Len(q)] = <<>>
  BY <1>1 DEF Steps
<1> QED BY <1>1, <1>2, <1>3

\* A batch more at the end.
LEMMA FlatAppend ==
    ASSUME NEW S, NEW q \in Seq(Seq(S)), NEW b \in Seq(S)
    PROVE  Flat(Append(q, b)) = Flat(q) \o b
<1> DEFINE n == Len(q)
           r == Append(q, b)
<1>1. PICK f : Steps(f, q, n) /\ \A i \in 0..n : f[i] \in Seq(S)
  BY StepsExist
<1>2. /\ r \in Seq(Seq(S)) /\ Len(r) = n + 1 /\ r[n + 1] = b /\ n \in Nat
      /\ \A i \in 1..n : r[i] = q[i]
  OBVIOUS
<1>3. Flat(q) = f[n]
  BY <1>1, FlatIs
<1> HIDE DEF r, n
<1>4. Steps(f, r, n)
  BY <1>1, <1>2 DEF Steps
<1>5. Steps(Longer(f, n, f[n] \o r[n + 1]), r, n + 1)
  BY <1>2, <1>4, NextStep
<1>6. Flat(r) = Longer(f, n, f[n] \o r[n + 1])[n + 1]
  BY <1>2, <1>5, FlatIs
<1>7. Longer(f, n, f[n] \o r[n + 1])[n + 1] = f[n] \o r[n + 1]
  <2> DEFINE x == f[n] \o r[n + 1]
  <2> HIDE DEF x
  <2>1. Longer(f, n, x)[n + 1] = x
    BY <1>2, LongerIs
  <2> QED BY <2>1 DEF x
<1> QED BY <1>2, <1>3, <1>6, <1>7 DEF r

\* Concatenation is associative.
LEMMA Assoc ==
    ASSUME NEW S, NEW a \in Seq(S), NEW b \in Seq(S), NEW c \in Seq(S)
    PROVE  (a \o b) \o c = a \o (b \o c)
OBVIOUS

\* The first batch, and then the others.
LEMMA FlatTail ==
    ASSUME NEW S, NEW q \in Seq(Seq(S)), q # <<>>
    PROVE  Flat(q) = Head(q) \o Flat(Tail(q))
<1> DEFINE t == Tail(q)
           h == Head(q)
           n == Len(t)
<1>1. /\ t \in Seq(Seq(S)) /\ h \in Seq(S) /\ h = q[1] /\ n \in Nat /\ Len(q) = n + 1
      /\ \A i \in 1..n : t[i] = q[i + 1] /\ t[i] \in Seq(S)
  OBVIOUS
<1> HIDE DEF t, h
<1>2. PICK f : Steps(f, t, n) /\ \A i \in 0..n : f[i] \in Seq(S)
  BY <1>1, StepsExist
<1>3. Flat(t) = f[n]
  BY <1>1, <1>2, FlatIs
<1> HIDE DEF n
<1> DEFINE g == [i \in 0..n + 1 |-> IF i = 0 THEN <<>> ELSE h \o f[i - 1]]
<1>4. /\ DOMAIN g = 0..n + 1 /\ g = [i \in 0..n + 1 |-> g[i]]
  OBVIOUS
<1>5. g[0] = <<>>
  BY <1>1
<1>6. ASSUME NEW i \in 1..n + 1 PROVE g[i] = h \o f[i - 1]
  <2>1. i \in 0..n + 1 /\ i # 0
    BY <1>1
  <2> QED BY <2>1, Zenon
<1> HIDE DEF g
<1>7. ASSUME NEW i \in 1..n + 1 PROVE g[i] = g[i - 1] \o q[i]
  <2>1. CASE i = 1
    <3>1. f[i - 1] = <<>> /\ g[i - 1] = <<>> /\ q[i] = h
      BY <1>1, <1>2, <1>5, <2>1 DEF Steps
    <3>2. h \o <<>> = h /\ <<>> \o h = h
      BY <1>1
    <3> QED BY <1>6, <3>1, <3>2
  <2>2. CASE i # 1
    <3>1. PICK j \in 1..n : i = j + 1
      <4>1. i - 1 \in 1..n /\ i = (i - 1) + 1
        BY <1>1, <2>2
      <4> QED BY <4>1
    <3>2. j \in 1..n + 1 /\ j - 1 \in 0..n /\ i - 1 = j
      BY <1>1, <3>1
    <3>3. g[j] = h \o f[j - 1]
      BY <1>6, <3>2
    <3>4. g[i] = h \o f[j]
      BY <1>6, <3>2
    <3>5. f[j] = f[j - 1] \o t[j]
      BY <1>2, <3>1 DEF Steps
    <3>6. t[j] = q[i] /\ t[j] \in Seq(S) /\ f[j - 1] \in Seq(S)
      BY <1>1, <1>2, <3>1, <3>2
    <3>7. (h \o f[j - 1]) \o t[j] = h \o (f[j - 1] \o t[j])
      <4> DEFINE a == f[j - 1]
                 b == t[j]
      <4>1. a \in Seq(S) /\ b \in Seq(S) /\ h \in Seq(S)
        BY <1>1, <3>6
      <4> HIDE DEF a, b
      <4>2. (h \o a) \o b = h \o (a \o b)
        BY <4>1, SMTT(30)
      <4> QED BY <4>2 DEF a, b
    <3> QED BY <3>2, <3>3, <3>4, <3>5, <3>6, <3>7
  <2> QED BY <2>1, <2>2
<1>8. Steps(g, q, n + 1)
  BY <1>4, <1>5, <1>7 DEF Steps
<1>9. Flat(q) = g[n + 1]
  BY <1>1, <1>8, FlatIs
<1>10. g[n + 1] = h \o f[n]
  <2>1. n + 1 \in 1..n + 1 /\ (n + 1) - 1 = n
    BY <1>1
  <2> QED BY <1>6, <2>1
<1> QED BY <1>3, <1>9, <1>10 DEF t, h

-----------------------------------------------------------------------------
(* What every reachable state satisfies.                                   *)

File == Nat \X Nat

\* The containers and the threads' hands hold messages.
Types ==
    /\ buffer \in Seq(Msgs) /\ cbatch \in Seq(Msgs) /\ sbatch \in Seq(Msgs)
    /\ wbatch \in Seq(Msgs) /\ logged \in Seq(Msgs)
    /\ queue \in Seq(Seq(Msgs))
    /\ written \in Seq([msg : Msgs, file : File])
    /\ day \in Nat /\ date \in Nat /\ no \in Nat
    /\ handle # NoFile => handle = <<date, no>>

\* A thread has a batch in hand only between taking it and giving it away: what makes it
\* safe to overwrite tmp.
Hands ==
    /\ cbatch # <<>> => cpc = "push"
    /\ sbatch # <<>> => spc = "push"
    /\ wbatch # <<>> => wpc = "write"

HandsInv == Types /\ Hands

\* The messages, counted container by container.
Counted ==
    /\ Len(logged) = Len(Written) + Len(wbatch) + Len(Queued) + Len(cbatch) + Len(sbatch)
                       + Len(buffer)
    /\ Range(logged) = Range(Written) \cup Range(wbatch) \cup Range(Queued)
                         \cup Range(cbatch) \cup Range(sbatch) \cup Range(buffer)

\* The name of today's file is not behind any file written; a number is used only after
\* the number before it is full, of the files written and of the one to be opened.
Full(f) == f[2] > 0 => SizeOf(<<f[1], f[2] - 1>>) > MaxSize
Named ==
    /\ date <= day
    /\ Full(<<date, no>>)
    /\ \A i \in 1..Len(written) :
          /\ Before(written[i].file, <<date, no>>)
          /\ Full(written[i].file)
    /\ \A i \in 1..Len(written) - 1 : Before(written[i].file, written[i + 1].file)

-----------------------------------------------------------------------------
(* The steps.                                                              *)

\* A batch pushed is behind the others, also when it is empty.
LEMMA PushBatchIs ==
    ASSUME HandsInv, NEW b \in Seq(Msgs), PushBatch(b)
    PROVE  queue' \in Seq(Seq(Msgs)) /\ Flat(queue') = Flat(queue) \o b
<1>1. queue \in Seq(Seq(Msgs))
  BY DEF HandsInv, Types
<1>2. CASE b = <<>>
  <2>1. queue' = queue
    BY <1>2 DEF PushBatch
  <2>2. Flat(queue) \in Seq(Msgs)
    BY <1>1, FlatType
  <2>3. Flat(queue) \o <<>> = Flat(queue)
    BY <2>2, ConcatEmptySeq
  <2> QED BY <1>1, <1>2, <2>1, <2>3
<1>3. CASE b # <<>>
  <2>1. queue' = Append(queue, b)
    BY <1>3 DEF PushBatch
  <2>2. queue' \in Seq(Seq(Msgs))
    BY <1>1, <2>1
  <2> QED BY <1>1, <2>1, <2>2, FlatAppend
<1> QED BY <1>2, <1>3

\* The file a batch goes to: today's, under its number or under the next one if it is full.
LEMMA WriteIs ==
    ASSUME HandsInv, WriterWrite
    PROVE  \E g \in File :
              /\ \/ g = <<day, NumberToday>>
                 \/ g = <<day, NumberToday + 1>> /\ SizeOf(<<day, NumberToday>>) > MaxSize
              /\ NumberToday \in Nat
              /\ date' = g[1] /\ no' = g[2] /\ handle' \in {NoFile, g}
              /\ written' = written \o
                    [i \in 1..Len(wbatch) |-> [msg |-> wbatch[i], file |-> g]]
<1> DEFINE reopen == day # date \/ handle = NoFile
           f == IF reopen THEN <<day, NumberToday>> ELSE handle
           g == IF SizeOf(f) > MaxSize THEN <<day, NumberToday + 1>> ELSE f
<1>1. NumberToday \in Nat /\ day \in Nat
  BY DEF HandsInv, Types, NumberToday
<1>2. f = <<day, NumberToday>>
  BY DEF HandsInv, Types, NumberToday
<1>3. /\ date' = day /\ no' = g[2] /\ handle' = IF isStop THEN NoFile ELSE g
      /\ written' = written \o [i \in 1..Len(wbatch) |-> [msg |-> wbatch[i], file |-> g]]
  BY DEF WriterWrite
<1> HIDE DEF f
<1>4. g \in File /\ g[1] = day
  BY <1>1, <1>2 DEF File
<1>5. \/ g = <<day, NumberToday>>
      \/ g = <<day, NumberToday + 1>> /\ SizeOf(<<day, NumberToday>>) > MaxSize
  BY <1>2
<1> HIDE DEF g
<1>6. handle' \in {NoFile, g}
  BY <1>3
<1> QED BY <1>1, <1>3, <1>4, <1>5, <1>6

\* The messages of the records written.
LEMMA MessagesOf ==
    ASSUME NEW w \in Seq([msg : Msgs, file : File]), NEW x,
           x = [i \in 1..Len(w) |-> w[i].msg]
    PROVE  x \in Seq(Msgs) /\ Len(x) = Len(w) /\ \A i \in 1..Len(w) : x[i] = w[i].msg
<1>1. Len(w) \in Nat /\ \A i \in 1..Len(w) : w[i] \in [msg : Msgs, file : File]
  <2> DEFINE R == [msg : Msgs, file : File]
  <2>1. w \in Seq(R)
    OBVIOUS
  <2> HIDE DEF R
  <2>2. Len(w) \in Nat /\ \A i \in 1..Len(w) : w[i] \in R
    BY <2>1
  <2> QED BY <2>2 DEF R
<1>2. \A i \in 1..Len(w) : w[i].msg \in Msgs
  BY <1>1
<1> QED BY <1>1, <1>2

\* What has been written stays, and what is added is of the file g.
LEMMA WrittenGrows ==
    ASSUME HandsInv, NEW g \in File,
           written' = written \o [i \in 1..Len(wbatch) |-> [msg |-> wbatch[i], file |-> g]]
    PROVE  /\ written' \in Seq([msg : Msgs, file : File])
           /\ Len(written') = Len(written) + Len(wbatch)
           /\ Len(written) \in Nat /\ Len(wbatch) \in Nat /\ Len(written') \in Nat
           /\ Len(written) <= Len(written')
           /\ \A i \in 1..Len(written) : written'[i] = written[i]
           /\ \A i \in 1..Len(written') : i > Len(written) =>
                 written'[i] = [msg |-> wbatch[i - Len(written)], file |-> g]
<1> DEFINE w == [i \in 1..Len(wbatch) |-> [msg |-> wbatch[i], file |-> g]]
           R == [msg : Msgs, file : File]
<1>1. wbatch \in Seq(Msgs) /\ written \in Seq(R)
  BY DEF HandsInv, Types
<1>2. \A i \in 1..Len(wbatch) : wbatch[i] \in Msgs
  BY <1>1
<1>3. /\ w \in Seq(R) /\ Len(w) = Len(wbatch)
      /\ \A i \in 1..Len(wbatch) : w[i] = [msg |-> wbatch[i], file |-> g]
  BY <1>1, <1>2
<1> HIDE DEF w, R
<1>4. /\ written' \in Seq(R)
      /\ Len(written') = Len(written) + Len(w)
      /\ \A i \in 1..Len(written) + Len(w) :
            written'[i] = IF i <= Len(written) THEN written[i] ELSE w[i - Len(written)]
  BY <1>1, <1>3, ConcatProperties DEF w
<1>5. Len(written) \in Nat /\ Len(wbatch) \in Nat
  BY <1>1
<1>6. \A i \in 1..Len(written) : written'[i] = written[i]
  BY <1>3, <1>4, <1>5
<1>7. ASSUME NEW i \in 1..Len(written'), i > Len(written)
      PROVE  written'[i] = [msg |-> wbatch[i - Len(written)], file |-> g]
  <2>1. i - Len(written) \in 1..Len(wbatch)
    BY <1>3, <1>4, <1>5, <1>7
  <2>2. written'[i] = w[i - Len(written)]
    BY <1>4, <1>5, <1>7
  <2> QED BY <1>3, <2>1, <2>2
<1> QED BY <1>3, <1>4, <1>5, <1>6, <1>7 DEF R

\* The records written of a batch, in its order.
LEMMA WrittenIs ==
    ASSUME HandsInv, NEW g \in File,
           written' = written \o [i \in 1..Len(wbatch) |-> [msg |-> wbatch[i], file |-> g]]
    PROVE  /\ written' \in Seq([msg : Msgs, file : File])
           /\ Written' = Written \o wbatch
<1>1. /\ written' \in Seq([msg : Msgs, file : File])
      /\ Len(written') = Len(written) + Len(wbatch)
      /\ Len(written) \in Nat /\ Len(wbatch) \in Nat
      /\ \A i \in 1..Len(written) : written'[i] = written[i]
      /\ \A i \in 1..Len(written') : i > Len(written) =>
            written'[i] = [msg |-> wbatch[i - Len(written)], file |-> g]
  BY WrittenGrows
<1>2. wbatch \in Seq(Msgs) /\ written \in Seq([msg : Msgs, file : File])
  BY DEF HandsInv, Types
<1>3. Written \in Seq(Msgs) /\ Len(Written) = Len(written)
      /\ \A i \in 1..Len(written) : Written[i] = written[i].msg
  BY <1>2, MessagesOf DEF Written
<1>4. Written' \in Seq(Msgs) /\ Len(Written') = Len(written')
      /\ \A i \in 1..Len(written') : Written'[i] = written'[i].msg
  BY <1>1, MessagesOf DEF Written
<1> DEFINE x == Written \o wbatch
<1>5. /\ x \in Seq(Msgs) /\ Len(x) = Len(Written) + Len(wbatch)
      /\ \A i \in 1..Len(Written) + Len(wbatch) :
            x[i] = IF i <= Len(Written) THEN Written[i] ELSE wbatch[i - Len(Written)]
  BY <1>2, <1>3, ConcatProperties
<1> HIDE DEF x
<1>6. ASSUME NEW i \in 1..Len(written') PROVE Written'[i] = x[i]
  <2>1. CASE i <= Len(written)
    <3>1. i \in 1..Len(written)
      BY <1>1, <2>1
    <3> QED BY <1>1, <1>3, <1>4, <1>5, <2>1, <3>1, ZenonT(60)
  <2>2. CASE ~(i <= Len(written))
    <3>1. Written'[i] = wbatch[i - Len(written)]
      <4>1. Written'[i] = written'[i].msg
        BY <1>4
      <4>2. written'[i] = [msg |-> wbatch[i - Len(written)], file |-> g]
        BY <1>1, <2>2
      <4> QED BY <4>1, <4>2
    <3>2. x[i] = wbatch[i - Len(written)]
      BY <1>1, <1>3, <1>5, <2>2
    <3> QED BY <3>1, <3>2
  <2> QED BY <2>1, <2>2
<1>7. Written' = x
  BY <1>1, <1>3, <1>4, <1>5, <1>6, SeqEqual
<1> QED BY <1>1, <1>7 DEF x

\* In the beginning everything is empty.
LEMMA HandsInit == Init => HandsInv
<1>1. \A S : <<>> \in Seq(S)
  BY EmptySeq
<1> QED BY <1>1 DEF Init, HandsInv, Types, Hands, File

\* The types stay while the variables do.
LEMMA HandsStutter == HandsInv /\ UNCHANGED vars => HandsInv'
BY DEF vars, HandsInv, Types, Hands

\* Every step of every thread keeps the types, and fills no hand that is not empty.
LEMMA HandsNext == HandsInv /\ Next => HandsInv'
<1> SUFFICES ASSUME HandsInv, Next PROVE HandsInv'
  OBVIOUS
<1>e. <<>> \in Seq(Msgs)
  BY EmptySeq
<1> USE DEF HandsInv, Types, Hands, writer, files
<1>1. ASSUME NEW m \in Msgs, Push(m) PROVE HandsInv'
  BY <1>1 DEF Push
<1>2. CASE CollectStart
  BY <1>2 DEF CollectStart
<1>3. CASE CollectTest
  BY <1>3 DEF CollectTest
<1>4. CASE CollectSwap
  BY <1>4, <1>e DEF CollectSwap
<1>5. CASE CollectPush
  <2>1. queue' \in Seq(Seq(Msgs))
    BY <1>5, PushBatchIs DEF CollectPush
  <2> QED BY <1>5, <1>e, <2>1 DEF CollectPush
<1>6. CASE CollectSignal
  BY <1>6 DEF CollectSignal, Signal
<1>7. CASE StopBegin
  BY <1>7 DEF StopBegin
<1>8. CASE StopSwap
  BY <1>8, <1>e DEF StopSwap
<1>9. CASE StopPush
  <2>1. queue' \in Seq(Seq(Msgs))
    BY <1>9, PushBatchIs DEF StopPush
  <2> QED BY <1>9, <1>e, <2>1 DEF StopPush
<1>10. CASE StopSignal
  BY <1>10 DEF StopSignal, Signal
<1>11. CASE JoinCollector
  BY <1>11 DEF JoinCollector
<1>12. CASE AsyncStop
  BY <1>12 DEF AsyncStop
<1>13. CASE AsyncSignal
  BY <1>13 DEF AsyncSignal, Signal
<1>14. CASE JoinWriter
  BY <1>14 DEF JoinWriter
<1>15. CASE WriterWait
  BY <1>15 DEF WriterWait
<1>16. CASE WriterSleep
  BY <1>16 DEF WriterSleep
<1>17. CASE WriterEnd
  BY <1>17 DEF WriterEnd
<1>18. CASE WriterTake
  <2>1. Head(queue) \in Seq(Msgs) /\ Tail(queue) \in Seq(Seq(Msgs))
    BY <1>18 DEF WriterTake
  <2> QED BY <1>18, <2>1 DEF WriterTake
<1>19. CASE WriterWrite
  <2>1. PICK g \in File :
          /\ date' = g[1] /\ no' = g[2] /\ handle' \in {NoFile, g}
          /\ written' = written \o
                [i \in 1..Len(wbatch) |-> [msg |-> wbatch[i], file |-> g]]
    BY <1>19, WriteIs
  <2>2. written' \in Seq([msg : Msgs, file : File])
    BY <2>1, WrittenIs
  <2>3. g[1] \in Nat /\ g[2] \in Nat /\ g = <<g[1], g[2]>>
    BY DEF File
  <2> QED BY <1>19, <1>e, <2>1, <2>2, <2>3 DEF WriterWrite
<1>20. CASE SpuriousWakeup
  BY <1>20 DEF SpuriousWakeup
<1>21. CASE NextDay
  BY <1>21 DEF NextDay
<1> QED BY <1>1, <1>2, <1>3, <1>4, <1>5, <1>6, <1>7, <1>8, <1>9, <1>10, <1>11, <1>12, <1>13,
           <1>14, <1>15, <1>16, <1>17, <1>18, <1>19, <1>20, <1>21
    DEF Next, Collector, Stopper, Writer

\* The containers and the hands hold messages, and a hand is empty when it is filled.
THEOREM HandsInvariant == Spec => []HandsInv
BY HandsInit, HandsStutter, HandsNext, PTL DEF Spec

-----------------------------------------------------------------------------
(* No message is lost or doubled.                                          *)

\* What is written and what is queued, as sequences of messages.
LEMMA InRows ==
    ASSUME HandsInv
    PROVE  Written \in Seq(Msgs) /\ Queued \in Seq(Msgs)
<1>1. written \in Seq([msg : Msgs, file : File]) /\ queue \in Seq(Seq(Msgs))
  BY DEF HandsInv, Types
<1>2. Written \in Seq(Msgs)
  BY <1>1, MessagesOf DEF Written
<1>3. Queued \in Seq(Msgs)
  BY <1>1, FlatType DEF Queued
<1> QED BY <1>2, <1>3

\* How many and which messages two sequences in a row have.
LEMMA CountConcat ==
    ASSUME NEW a \in Seq(Msgs), NEW b \in Seq(Msgs)
    PROVE  /\ a \o b \in Seq(Msgs)
           /\ Len(a \o b) = Len(a) + Len(b)
           /\ Range(a \o b) = Range(a) \cup Range(b)
BY ConcatProperties, RangeConcatenation

\* And a sequence and one message more.
LEMMA CountAppend ==
    ASSUME NEW a \in Seq(Msgs), NEW m \in Msgs
    PROVE  Len(Append(a, m)) = Len(a) + 1 /\ Range(Append(a, m)) = Range(a) \cup {m}
<1>1. Append(a, m) = a \o <<m>> /\ <<m>> \in Seq(Msgs)
  BY AppendIsConcat
<1>2. Range(<<m>>) = {m}
  <2> DEFINE s == <<m>>
  <2>1. DOMAIN s = {1} /\ s[1] = m
    OBVIOUS
  <2> HIDE DEF s
  <2>2. Range(s) = {m}
    BY <2>1 DEF Range
  <2> QED BY <2>2 DEF s
<1>3. Len(<<m>>) = 1
  OBVIOUS
<1> HIDE DEF Range
<1> QED BY <1>1, <1>2, <1>3, CountConcat, ZenonT(60)

\* And an empty one.
LEMMA CountEmpty ==
    <<>> \in Seq(Msgs) /\ Len(<<>>) = 0 /\ Range(<<>>) = {}
BY DEF Range

\* In the beginning there is nothing to count.
LEMMA CountedInit == Init => Counted
<1> SUFFICES ASSUME Init PROVE Counted
  OBVIOUS
<1>1. Written = <<>>
  BY DEF Init, Written
<1>2. Queued = <<>>
  <2>1. queue = <<>> /\ queue \in Seq(Seq(Msgs))
    BY DEF Init
  <2> QED BY <2>1, FlatType DEF Queued
<1> QED BY <1>1, <1>2, CountEmpty DEF Init, Counted

\* What is written and queued stays so while the two sequences stay.
LEMMA RowsStay ==
    (written' = written => Written' = Written) /\ (queue' = queue => Queued' = Queued)
BY DEF Written, Queued

\* The count stays while the variables do.
LEMMA CountedStutter == Counted /\ UNCHANGED vars => Counted'
BY RowsStay DEF vars, Counted

\* Every step moves messages from one place to another, or adds one that is logged.
LEMMA CountedNext == HandsInv /\ Counted /\ Next => Counted'
<1> SUFFICES ASSUME HandsInv, Counted, Next PROVE Counted'
  OBVIOUS
<1>t. /\ Written \in Seq(Msgs) /\ Queued \in Seq(Msgs)
      /\ buffer \in Seq(Msgs) /\ cbatch \in Seq(Msgs) /\ sbatch \in Seq(Msgs)
      /\ wbatch \in Seq(Msgs) /\ logged \in Seq(Msgs) /\ queue \in Seq(Seq(Msgs))
  BY InRows DEF HandsInv, Types
<1>n. /\ Len(Written) \in Nat /\ Len(Queued) \in Nat /\ Len(buffer) \in Nat
      /\ Len(cbatch) \in Nat /\ Len(sbatch) \in Nat /\ Len(wbatch) \in Nat
      /\ Len(logged) \in Nat
  BY <1>t, LenProperties
<1>h. /\ cbatch # <<>> => cpc = "push"
      /\ sbatch # <<>> => spc = "push"
      /\ wbatch # <<>> => wpc = "write"
  BY DEF HandsInv, Hands
<1>c. /\ Len(logged) = Len(Written) + Len(wbatch) + Len(Queued) + Len(cbatch) + Len(sbatch)
                         + Len(buffer)
      /\ Range(logged) = Range(Written) \cup Range(wbatch) \cup Range(Queued)
                           \cup Range(cbatch) \cup Range(sbatch) \cup Range(buffer)
  BY DEF Counted
<1>s. ASSUME UNCHANGED <<buffer, cbatch, sbatch, wbatch, queue, written, logged>>
      PROVE  Counted'
  BY <1>s, RowsStay DEF Counted
<1> USE DEF writer, files
<1>1. ASSUME NEW m \in Msgs, Push(m) PROVE Counted'
  <2>1. /\ buffer' = Append(buffer, m) /\ logged' = Append(logged, m)
        /\ UNCHANGED <<cbatch, sbatch, wbatch>> /\ Written' = Written /\ Queued' = Queued
    BY <1>1, RowsStay DEF Push
  <2>2. Len(buffer') = Len(buffer) + 1 /\ Range(buffer') = Range(buffer) \cup {m}
    BY <1>t, <2>1, CountAppend
  <2>3. Len(logged') = Len(logged) + 1 /\ Range(logged') = Range(logged) \cup {m}
    BY <1>t, <2>1, CountAppend
  <2> QED BY <1>c, <1>n, <2>1, <2>2, <2>3 DEF Counted
<1>2. CASE CollectSwap
  <2>1. /\ cbatch = <<>> /\ cbatch' = buffer /\ buffer' = <<>>
        /\ UNCHANGED <<sbatch, wbatch, logged>> /\ Written' = Written /\ Queued' = Queued
    BY <1>2, <1>h, RowsStay DEF CollectSwap
  <2> QED BY <1>c, <1>n, <2>1, CountEmpty DEF Counted
<1>3. CASE StopSwap
  <2>1. /\ sbatch = <<>> /\ sbatch' = buffer /\ buffer' = <<>>
        /\ UNCHANGED <<cbatch, wbatch, logged>> /\ Written' = Written /\ Queued' = Queued
    BY <1>3, <1>h, RowsStay DEF StopSwap
  <2> QED BY <1>c, <1>n, <2>1, CountEmpty DEF Counted
<1>4. CASE CollectPush
  <2>1. /\ cbatch' = <<>>
        /\ UNCHANGED <<buffer, sbatch, wbatch, logged>> /\ Written' = Written
    BY <1>4, RowsStay DEF CollectPush
  <2>2. Queued' = Queued \o cbatch
    BY <1>4, <1>t, PushBatchIs DEF CollectPush, Queued
  <2>3. Len(Queued') = Len(Queued) + Len(cbatch)
        /\ Range(Queued') = Range(Queued) \cup Range(cbatch)
    BY <1>t, <2>2, CountConcat
  <2> QED BY <1>c, <1>n, <2>1, <2>3, CountEmpty DEF Counted
<1>5. CASE StopPush
  <2>1. /\ sbatch' = <<>>
        /\ UNCHANGED <<buffer, cbatch, wbatch, logged>> /\ Written' = Written
    BY <1>5, RowsStay DEF StopPush
  <2>2. Queued' = Queued \o sbatch
    BY <1>5, <1>t, PushBatchIs DEF StopPush, Queued
  <2>3. Len(Queued') = Len(Queued) + Len(sbatch)
        /\ Range(Queued') = Range(Queued) \cup Range(sbatch)
    BY <1>t, <2>2, CountConcat
  <2> QED BY <1>c, <1>n, <2>1, <2>3, CountEmpty DEF Counted
<1>6. CASE WriterTake
  <2>1. /\ wbatch = <<>> /\ queue # <<>> /\ wbatch' = Head(queue) /\ queue' = Tail(queue)
        /\ UNCHANGED <<buffer, cbatch, sbatch, logged>> /\ Written' = Written
    BY <1>6, <1>h, RowsStay DEF WriterTake
  <2>2. wbatch' \in Seq(Msgs) /\ queue' \in Seq(Seq(Msgs))
    BY <1>t, <2>1
  <2>3. Queued = wbatch' \o Queued'
    BY <1>t, <2>1, FlatTail DEF Queued
  <2>4. Queued' \in Seq(Msgs)
    BY <2>2, FlatType DEF Queued
  <2>5. Len(Queued) = Len(wbatch') + Len(Queued')
        /\ Range(Queued) = Range(wbatch') \cup Range(Queued')
    BY <2>2, <2>3, <2>4, CountConcat
  <2>6. Len(wbatch') \in Nat /\ Len(Queued') \in Nat
    BY <2>2, <2>4, LenProperties
  <2> QED BY <1>c, <1>n, <2>1, <2>5, <2>6, CountEmpty DEF Counted
<1>7. CASE WriterWrite
  <2>1. wbatch' = <<>> /\ UNCHANGED <<buffer, cbatch, sbatch, queue, logged>>
    BY <1>7 DEF WriterWrite
  <2>2. Queued' = Queued
    BY <2>1, RowsStay
  <2>3. Written' = Written \o wbatch
    BY <1>7, WriteIs, WrittenIs
  <2>4. Len(Written') = Len(Written) + Len(wbatch)
        /\ Range(Written') = Range(Written) \cup Range(wbatch)
    BY <1>t, <2>3, CountConcat
  <2> QED BY <1>c, <1>n, <2>1, <2>2, <2>4, CountEmpty DEF Counted
<1>8. CASE CollectStart \/ CollectTest \/ CollectSignal
  BY <1>8, <1>s DEF CollectStart, CollectTest, CollectSignal
<1>9. CASE StopBegin \/ StopSignal \/ JoinCollector \/ AsyncStop \/ AsyncSignal \/ JoinWriter
  BY <1>9, <1>s DEF StopBegin, StopSignal, JoinCollector, AsyncStop, AsyncSignal, JoinWriter
<1>10. CASE WriterWait \/ WriterSleep \/ WriterEnd \/ SpuriousWakeup \/ NextDay
  BY <1>10, <1>s DEF WriterWait, WriterSleep, WriterEnd, SpuriousWakeup, NextDay
<1> QED BY <1>1, <1>2, <1>3, <1>4, <1>5, <1>6, <1>7, <1>8, <1>9, <1>10
    DEF Next, Collector, Stopper, Writer

\* Counted container by container, the messages are those that were logged.
LEMMA Conserved == HandsInv /\ Counted => MessagesConserved
<1> SUFFICES ASSUME HandsInv, Counted PROVE MessagesConserved
  OBVIOUS
<1>1. /\ Written \in Seq(Msgs) /\ Queued \in Seq(Msgs)
      /\ buffer \in Seq(Msgs) /\ cbatch \in Seq(Msgs) /\ sbatch \in Seq(Msgs)
      /\ wbatch \in Seq(Msgs)
  BY InRows DEF HandsInv, Types
<1> DEFINE a == Written \o wbatch
           b == a \o Queued
           c == b \o cbatch
           d == c \o sbatch
           e == d \o buffer
<1>2. /\ a \in Seq(Msgs) /\ Len(a) = Len(Written) + Len(wbatch)
      /\ Range(a) = Range(Written) \cup Range(wbatch)
  BY <1>1, CountConcat
<1> HIDE DEF a
<1>3. /\ b \in Seq(Msgs) /\ Len(b) = Len(a) + Len(Queued)
      /\ Range(b) = Range(a) \cup Range(Queued)
  BY <1>1, <1>2, CountConcat
<1> HIDE DEF b
<1>4. c \in Seq(Msgs) /\ Len(c) = Len(b) + Len(cbatch) /\ Range(c) = Range(b) \cup Range(cbatch)
  BY <1>1, <1>3, CountConcat
<1> HIDE DEF c
<1>5. d \in Seq(Msgs) /\ Len(d) = Len(c) + Len(sbatch) /\ Range(d) = Range(c) \cup Range(sbatch)
  BY <1>1, <1>4, CountConcat
<1> HIDE DEF d
<1>6. Len(e) = Len(d) + Len(buffer) /\ Range(e) = Range(d) \cup Range(buffer)
  BY <1>1, <1>5, CountConcat
<1> HIDE DEF e
<1>7. Len(e) = Len(logged)
  BY <1>2, <1>3, <1>4, <1>5, <1>6 DEF Counted
<1>8. Range(e) = Range(logged)
  BY <1>2, <1>3, <1>4, <1>5, <1>6 DEF Counted
<1>9. e = Written \o wbatch \o Queued \o cbatch \o sbatch \o buffer
  BY DEF a, b, c, d, e
<1> QED BY <1>7, <1>8, <1>9, Zenon DEF MessagesConserved

\* No message is lost or doubled on its way to the file, in any order of the threads.
THEOREM MessagesConservedHolds == Spec => []MessagesConserved
<1>1. Spec => []Counted
  BY HandsInvariant, CountedInit, CountedStutter, CountedNext, PTL DEF Spec
<1> QED BY <1>1, HandsInvariant, Conserved, PTL

-----------------------------------------------------------------------------
(* The file gets the messages in order.                                    *)

\* The buffer, taken by the collector, keeps its place in the row.
LEMMA RowSwap ==
    ASSUME NEW a \in Seq(Msgs), NEW u \in Seq(Msgs)
    PROVE  a \o u \o <<>> = a \o <<>> \o u
<1>1. a \o <<>> = a
  BY ConcatEmptySeq
<1>2. a \o u \in Seq(Msgs)
  BY ConcatProperties
<1>3. (a \o u) \o <<>> = a \o u
  BY <1>2, ConcatEmptySeq
<1> QED BY <1>1, <1>3

\* So does the collector's batch, put at the end of the queue.
LEMMA RowPush ==
    ASSUME NEW a \in Seq(Msgs), NEW q \in Seq(Msgs), NEW c \in Seq(Msgs)
    PROVE  a \o (q \o c) \o <<>> = a \o q \o c
<1>1. a \o (q \o c) = (a \o q) \o c
  BY Assoc, SMTT(30)
<1>2. (a \o q) \o c \in Seq(Msgs)
  BY ConcatProperties
<1>3. ((a \o q) \o c) \o <<>> = (a \o q) \o c
  BY <1>2, ConcatEmptySeq
<1> QED BY <1>1, <1>3

\* So does the first batch of the queue, taken by the writer.
LEMMA RowTake ==
    ASSUME NEW w \in Seq(Msgs), NEW h \in Seq(Msgs), NEW q \in Seq(Msgs)
    PROVE  w \o h \o q = w \o <<>> \o (h \o q)
<1>1. w \o <<>> = w
  BY ConcatEmptySeq
<1>2. (w \o h) \o q = w \o (h \o q)
  BY Assoc
<1> QED BY <1>1, <1>2

\* In the beginning there is nothing to order.
LEMMA OrderInit == Init => FileInOrder
<1> SUFFICES ASSUME Init PROVE FileInOrder
  OBVIOUS
<1>1. Written = <<>>
  BY DEF Init, Written
<1>2. Queued = <<>>
  <2>1. queue = <<>> /\ queue \in Seq(Seq(Msgs))
    BY DEF Init
  <2> QED BY <2>1, FlatType DEF Queued
<1>3. <<>> \o <<>> = <<>>
  BY CountEmpty, ConcatEmptySeq
<1>4. buffer = <<>> /\ cbatch = <<>> /\ wbatch = <<>> /\ logged = <<>>
  BY DEF Init
<1> QED BY <1>1, <1>2, <1>3, <1>4 DEF FileInOrder

\* The order stays while the variables do.
LEMMA OrderStutter == FileInOrder /\ UNCHANGED vars => FileInOrder'
<1> SUFFICES ASSUME FileInOrder, UNCHANGED vars PROVE FileInOrder'
  OBVIOUS
<1>1. Written' = Written /\ Queued' = Queued
  BY RowsStay DEF vars
<1> QED BY <1>1 DEF vars, FileInOrder

\* While the stopping thread has not begun, every step leaves the row of messages as it is.
LEMMA OrderNext == HandsInv /\ FileInOrder /\ Next => FileInOrder'
<1> SUFFICES ASSUME HandsInv, FileInOrder, Next PROVE FileInOrder'
  OBVIOUS
<1> SUFFICES ASSUME spc = "running", spc' = "running" PROVE FileInOrder'
  <2>1. spc # "running" => spc' # "running"
    BY DEF Next, Collector, Stopper, Writer, Push, CollectStart, CollectTest, CollectSwap,
           CollectPush, CollectSignal, StopBegin, StopSwap, StopPush, StopSignal,
           JoinCollector, AsyncStop, AsyncSignal, JoinWriter, WriterWait, WriterSleep,
           WriterEnd, WriterTake, WriterWrite, SpuriousWakeup, NextDay, writer
  <2> QED BY <2>1 DEF FileInOrder
<1>t. /\ Written \in Seq(Msgs) /\ Queued \in Seq(Msgs)
      /\ buffer \in Seq(Msgs) /\ cbatch \in Seq(Msgs)
      /\ wbatch \in Seq(Msgs) /\ logged \in Seq(Msgs) /\ queue \in Seq(Seq(Msgs))
  BY InRows DEF HandsInv, Types
<1>h. (cbatch # <<>> => cpc = "push") /\ (wbatch # <<>> => wpc = "write")
  BY DEF HandsInv, Hands
<1>o. Written \o wbatch \o Queued \o cbatch \o buffer = logged
  BY DEF FileInOrder
<1>a. Written \o wbatch \in Seq(Msgs)
  BY <1>t, ConcatProperties
<1>b. Written \o wbatch \o Queued \in Seq(Msgs)
  BY <1>t, <1>a, ConcatProperties
<1>c. Written \o wbatch \o Queued \o cbatch \in Seq(Msgs)
  BY <1>t, <1>b, ConcatProperties
<1>s. ASSUME UNCHANGED <<buffer, cbatch, wbatch, queue, written, logged>>
      PROVE  FileInOrder'
  BY <1>s, <1>o, RowsStay DEF FileInOrder
<1> USE DEF writer, files
<1>1. ASSUME NEW m \in Msgs, Push(m) PROVE FileInOrder'
  <2>1. /\ buffer' = Append(buffer, m) /\ logged' = Append(logged, m)
        /\ UNCHANGED <<cbatch, wbatch>> /\ Written' = Written /\ Queued' = Queued
    BY <1>1, RowsStay DEF Push
  <2> DEFINE x == Written \o wbatch \o Queued \o cbatch
  <2>2. x \in Seq(Msgs) /\ x \o buffer = logged
    BY <1>c, <1>o
  <2>3. x \o buffer' = logged'
    <3> HIDE DEF x
    <3>1. buffer' = buffer \o <<m>> /\ <<m>> \in Seq(Msgs)
      BY <1>t, <2>1, AppendIsConcat
    <3>2. logged' = logged \o <<m>>
      BY <1>t, <2>1, AppendIsConcat
    <3>3. (x \o buffer) \o <<m>> = x \o (buffer \o <<m>>)
      <4> DEFINE e == <<m>>
      <4>1. x \in Seq(Msgs) /\ buffer \in Seq(Msgs) /\ e \in Seq(Msgs)
        BY <1>t, <2>2, <3>1
      <4> HIDE DEF e
      <4>2. (x \o buffer) \o e = x \o (buffer \o e)
        BY <4>1, Assoc
      <4> QED BY <4>2 DEF e
    <3> QED BY <2>2, <3>1, <3>2, <3>3
  <2> QED BY <2>1, <2>3, Zenon DEF FileInOrder
<1>2. CASE CollectSwap
  <2>1. /\ cbatch = <<>> /\ cbatch' = buffer /\ buffer' = <<>>
        /\ UNCHANGED <<wbatch, logged>> /\ Written' = Written /\ Queued' = Queued
    BY <1>2, <1>h, RowsStay DEF CollectSwap
  <2> DEFINE x == Written \o wbatch \o Queued
  <2>2. x \o cbatch' \o buffer' = logged'
    <3>1. x \in Seq(Msgs) /\ x \o cbatch \o buffer = logged
      BY <1>b, <1>o
    <3> HIDE DEF x
    <3>2. x \o buffer \o <<>> = x \o <<>> \o buffer
      BY <1>t, <3>1, RowSwap
    <3> QED BY <2>1, <3>1, <3>2
  <2> QED BY <2>1, <2>2, Zenon DEF FileInOrder
<1>3. CASE CollectPush
  <2>1. cbatch' = <<>> /\ UNCHANGED <<buffer, wbatch, logged>> /\ Written' = Written
    BY <1>3, RowsStay DEF CollectPush
  <2>2. Queued' = Queued \o cbatch
    BY <1>3, <1>t, PushBatchIs DEF CollectPush, Queued
  <2> DEFINE x == Written \o wbatch
  <2>3. x \o Queued' \o cbatch' \o buffer' = logged'
    <3>1. x \in Seq(Msgs) /\ x \o Queued \o cbatch \o buffer = logged
      BY <1>a, <1>o
    <3> HIDE DEF x
    <3>2. x \o (Queued \o cbatch) \o <<>> = x \o Queued \o cbatch
      BY <1>t, <3>1, RowPush, ZenonT(60)
    <3> QED BY <2>1, <2>2, <3>1, <3>2
  <2> QED BY <2>1, <2>3, Zenon DEF FileInOrder
<1>4. CASE WriterTake
  <2>1. /\ wbatch = <<>> /\ queue # <<>> /\ wbatch' = Head(queue) /\ queue' = Tail(queue)
        /\ UNCHANGED <<buffer, cbatch, logged>> /\ Written' = Written
    BY <1>4, <1>h, RowsStay DEF WriterTake
  <2>2. wbatch' \in Seq(Msgs) /\ queue' \in Seq(Seq(Msgs))
    BY <1>t, <2>1
  <2>3. Queued = wbatch' \o Queued'
    BY <1>t, <2>1, FlatTail DEF Queued
  <2>4. Queued' \in Seq(Msgs)
    BY <2>2, FlatType DEF Queued
  <2>5. Written \o wbatch' \o Queued' = Written \o <<>> \o (wbatch' \o Queued')
    <3> DEFINE h == wbatch'
               k == Queued'
    <3>1. Written \in Seq(Msgs) /\ h \in Seq(Msgs) /\ k \in Seq(Msgs)
      BY <1>t, <2>2, <2>4
    <3> HIDE DEF h, k
    <3>2. Written \o h \o k = Written \o <<>> \o (h \o k)
      BY <3>1, RowTake
    <3> QED BY <3>2 DEF h, k
  <2>6. Written \o wbatch' \o Queued' = Written \o wbatch \o Queued
    BY <2>1, <2>3, <2>5
  <2> QED BY <1>o, <2>1, <2>6 DEF FileInOrder
<1>5. CASE WriterWrite
  <2>1. wbatch' = <<>> /\ UNCHANGED <<buffer, cbatch, queue, logged>>
    BY <1>5 DEF WriterWrite
  <2>2. Queued' = Queued
    BY <2>1, RowsStay
  <2>3. Written' = Written \o wbatch
    BY <1>5, WriteIs, WrittenIs
  <2>4. Written' \o wbatch' = Written \o wbatch
    BY <1>a, <2>1, <2>3, ConcatEmptySeq
  <2> QED BY <1>o, <2>1, <2>2, <2>4 DEF FileInOrder
<1>6. CASE CollectStart \/ CollectTest \/ CollectSignal
  BY <1>6, <1>s DEF CollectStart, CollectTest, CollectSignal
<1>7. CASE StopBegin \/ Stopper
  BY <1>7 DEF Stopper, StopBegin, StopSwap, StopPush, StopSignal, JoinCollector, AsyncStop,
              AsyncSignal, JoinWriter
<1>8. CASE WriterWait \/ WriterSleep \/ WriterEnd \/ SpuriousWakeup \/ NextDay
  BY <1>8, <1>s DEF WriterWait, WriterSleep, WriterEnd, SpuriousWakeup, NextDay
<1> QED BY <1>1, <1>2, <1>3, <1>4, <1>5, <1>6, <1>7, <1>8
    DEF Next, Collector, Writer

\* Until the logger is stopped, the file gets the messages as they were logged.
THEOREM FileInOrderHolds == Spec => []FileInOrder
BY HandsInvariant, OrderInit, OrderStutter, OrderNext, PTL DEF Spec

-----------------------------------------------------------------------------
(* The files rotate in order.                                              *)

\* A file never gets smaller.
LEMMA SizeGrows ==
    ASSUME HandsInv, NEW g \in File,
           written' = written \o [i \in 1..Len(wbatch) |-> [msg |-> wbatch[i], file |-> g]]
    PROVE  \A f : SizeOf(f) > MaxSize =>
                     Cardinality({i \in 1..Len(written') : written'[i].file = f}) > MaxSize
<1> SUFFICES ASSUME NEW f, SizeOf(f) > MaxSize
             PROVE  Cardinality({i \in 1..Len(written') : written'[i].file = f}) > MaxSize
  OBVIOUS
<1> DEFINE A == {i \in 1..Len(written) : written[i].file = f}
           B == {i \in 1..Len(written') : written'[i].file = f}
<1>1. /\ Len(written) \in Nat /\ Len(written') \in Nat /\ Len(written) <= Len(written')
      /\ \A i \in 1..Len(written) : written'[i] = written[i]
  BY WrittenGrows
<1>2. A \subseteq B
  BY <1>1
<1>3. IsFiniteSet(B)
  <2>1. IsFiniteSet(1..Len(written'))
    BY <1>1, FS_Interval
  <2> QED BY <2>1, FS_Subset
<1>4. Cardinality(A) \in Nat /\ Cardinality(B) \in Nat /\ Cardinality(A) <= Cardinality(B)
  BY <1>2, <1>3, FS_Subset, FS_CardinalityType
<1>5. Cardinality(A) > MaxSize
  BY DEF SizeOf
<1> HIDE DEF A, B
<1>6. Cardinality(B) > MaxSize
  BY <1>4, <1>5, SizeAssumption
<1> QED BY <1>6 DEF B

\* In the beginning no file is written.
LEMMA NamedInit == Init => Named
<1> SUFFICES ASSUME Init PROVE Named
  OBVIOUS
<1>1. date = 0 /\ day = 1 /\ no = 0 /\ written = <<>> /\ Len(written) = 0
  BY DEF Init
<1> QED BY <1>1 DEF Named, Full

\* The names stay while the variables do.
LEMMA NamedStutter == Named /\ UNCHANGED vars => Named'
<1> SUFFICES ASSUME Named, UNCHANGED vars PROVE Named'
  OBVIOUS
<1>1. written' = written /\ date' = date /\ no' = no /\ day' = day
  BY DEF vars
<1> QED BY <1>1 DEF Named, Full, SizeOf, Before

\* A batch goes to a file that is not before any other, and whose number was due.
LEMMA NamedWrite == HandsInv /\ Named /\ WriterWrite => Named'
<1> SUFFICES ASSUME HandsInv, Named, WriterWrite PROVE Named'
  OBVIOUS
<1>t. /\ day \in Nat /\ date \in Nat /\ no \in Nat
      /\ \A i \in 1..Len(written) : written[i].file \in File
  <2>1. written \in Seq([msg : Msgs, file : File])
    BY DEF HandsInv, Types
  <2>2. \A i \in 1..Len(written) : written[i] \in [msg : Msgs, file : File]
    BY <2>1, ElementOfSeq
  <2> QED BY <2>2 DEF HandsInv, Types
<1>1. PICK g \in File :
        /\ \/ g = <<day, NumberToday>>
           \/ g = <<day, NumberToday + 1>> /\ SizeOf(<<day, NumberToday>>) > MaxSize
        /\ NumberToday \in Nat
        /\ date' = g[1] /\ no' = g[2]
        /\ written' = written \o [i \in 1..Len(wbatch) |-> [msg |-> wbatch[i], file |-> g]]
  BY WriteIs
<1>2. /\ Len(written) \in Nat /\ Len(written') \in Nat /\ Len(written) <= Len(written')
      /\ \A i \in 1..Len(written) : written'[i] = written[i]
      /\ \A i \in 1..Len(written') : i > Len(written) => written'[i].file = g
  BY <1>1, WrittenGrows
<1> DEFINE Size(f) == Cardinality({i \in 1..Len(written') : written'[i].file = f})
<1>3. \A f : SizeOf(f) > MaxSize => Size(f) > MaxSize
  BY <1>1, SizeGrows
<1> DEFINE FullNow(f) == f[2] > 0 => Size(<<f[1], f[2] - 1>>) > MaxSize
<1>4. SUFFICES /\ date' <= day'
               /\ FullNow(<<date', no'>>)
               /\ \A i \in 1..Len(written') :
                     Before(written'[i].file, <<date', no'>>) /\ FullNow(written'[i].file)
               /\ \A i \in 1..Len(written') - 1 :
                     Before(written'[i].file, written'[i + 1].file)
  BY DEF Named, Full, SizeOf, Before
<1> HIDE DEF Size
<1>5. \A f : Full(f) => FullNow(f)
  BY <1>3 DEF Full
<1>6. <<date', no'>> = g /\ g = <<g[1], g[2]>> /\ g[1] = day /\ g[1] \in Nat /\ g[2] \in Nat
  BY <1>1 DEF File
<1>7. FullNow(g)
  <2>1. CASE g = <<day, NumberToday>>
    <3>1. CASE day # date
      BY <1>1, <1>6, <2>1, <3>1 DEF NumberToday
    <3>2. CASE day = date
      BY <1>5, <2>1, <3>2 DEF NumberToday, Named
    <3> QED BY <3>1, <3>2
  <2>2. CASE g = <<day, NumberToday + 1>> /\ SizeOf(<<day, NumberToday>>) > MaxSize
    <3>1. g[1] = day /\ g[2] - 1 = NumberToday
      BY <1>1, <2>2
    <3>2. Size(<<g[1], g[2] - 1>>) > MaxSize
      BY <1>3, <2>2, <3>1
    <3> QED BY <3>2
  <2> QED BY <1>1, <2>1, <2>2
<1>8. Before(<<date, no>>, g)
  BY <1>1, <1>t DEF Before, NumberToday, Named
<1>9. \A i \in 1..Len(written) : Before(written[i].file, g)
  BY <1>6, <1>8, <1>t DEF Before, Named, File
<1>10. Before(g, g)
  BY <1>6 DEF Before
<1>11. \A i \in 1..Len(written') : Before(written'[i].file, g)
  BY <1>2, <1>9, <1>10
<1> HIDE DEF FullNow
<1>12. \A i \in 1..Len(written') : FullNow(written'[i].file)
  <2>1. \A i \in 1..Len(written) : FullNow(written[i].file)
    BY <1>5 DEF Named
  <2> QED BY <1>2, <1>7, <2>1
<1>13. ASSUME NEW i \in 1..Len(written') - 1
       PROVE  Before(written'[i].file, written'[i + 1].file)
  <2>1. CASE i + 1 <= Len(written)
    <3>1. i \in 1..Len(written) - 1 /\ i \in 1..Len(written) /\ i + 1 \in 1..Len(written)
      BY <1>2, <2>1
    <3> QED BY <1>2, <3>1 DEF Named
  <2>2. CASE i + 1 > Len(written)
    <3>1. i \in 1..Len(written') /\ i + 1 \in 1..Len(written')
      BY <1>2
    <3> QED BY <1>2, <1>11, <2>2, <3>1
  <2> QED BY <1>2, <2>1, <2>2
<1>14. day' = day
  BY DEF WriterWrite
<1>15. date' <= day'
  BY <1>6, <1>14
<1> QED BY <1>6, <1>7, <1>11, <1>12, <1>13, <1>15

\* Only the writer and the date can disturb the names.
LEMMA NamedNext == HandsInv /\ Named /\ Next => Named'
<1> SUFFICES ASSUME HandsInv, Named, Next PROVE Named'
  OBVIOUS
<1>s. ASSUME UNCHANGED <<written, date, no>>, day' \in Nat, day' >= day
      PROVE  Named'
  <2>1. date' <= day'
    BY <1>s DEF Named, HandsInv, Types
  <2> QED BY <1>s, <2>1 DEF Named, Full, SizeOf, Before
<1>t. day \in Nat /\ day >= day
  BY DEF HandsInv, Types
<1> USE DEF writer, files
<1>1. CASE WriterWrite
  BY <1>1, NamedWrite
<1>2. CASE NextDay
  BY <1>2, <1>s, <1>t DEF NextDay
<1>3. CASE Collector \/ \E m \in Msgs : Push(m)
  BY <1>3, <1>s, <1>t DEF Push, Collector, CollectStart, CollectTest, CollectSwap, CollectPush,
                        CollectSignal
<1>4. CASE StopBegin \/ Stopper
  BY <1>4, <1>s, <1>t DEF Stopper, StopBegin, StopSwap, StopPush, StopSignal, JoinCollector,
                        AsyncStop, AsyncSignal, JoinWriter
<1>5. CASE WriterWait \/ WriterSleep \/ WriterEnd \/ WriterTake \/ SpuriousWakeup
  BY <1>5, <1>s, <1>t DEF WriterWait, WriterSleep, WriterEnd, WriterTake, SpuriousWakeup
<1> QED BY <1>1, <1>2, <1>3, <1>4, <1>5 DEF Next, Writer

\* The files written never go back, and the number goes on only from a full file.
THEOREM RotationInOrderHolds == Spec => []RotationInOrder
<1>1. Spec => []Named
  BY HandsInvariant, NamedInit, NamedStutter, NamedNext, PTL DEF Spec
<1>2. HandsInv /\ Named => RotationInOrder
  BY DEF HandsInv, Types, Named, Full, RotationInOrder
<1> QED BY <1>1, <1>2, HandsInvariant, PTL

-----------------------------------------------------------------------------
(* The logger implements the log.                                          *)

\* The members of s come in all, one right after the other.
RunOf(s, all) ==
    \E i \in 0..Len(all) : /\ i + Len(s) <= Len(all)
                           /\ \A k \in 1..Len(s) : s[k] = all[i + k]

\* No message is logged twice; every batch, wherever it is, is a run of what was logged, and
\* the buffer is the last of them; the number of the file is not more than the messages
\* written, since a batch in the writer's hands has some.
Runs ==
    /\ \A i, j \in 1..Len(logged) : logged[i] = logged[j] => i = j
    /\ RunOf(wbatch, logged) /\ RunOf(cbatch, logged) /\ RunOf(sbatch, logged)
    /\ \A i \in 1..Len(queue) : RunOf(queue[i], logged) /\ queue[i] # <<>>
    /\ Len(buffer) <= Len(logged)
    /\ \A k \in 1..Len(buffer) : buffer[k] = logged[Len(logged) - Len(buffer) + k]
    /\ wpc = "write" => wbatch # <<>>
    /\ no <= Len(written)
    /\ day \in 1..MaxDay

\* An empty batch is a run.
LEMMA RunOfNothing ==
    ASSUME NEW all, Len(all) \in Nat
    PROVE  RunOf(<<>>, all)
BY DEF RunOf

\* A run stays one when another message is logged.
LEMMA RunOfLonger ==
    ASSUME NEW all \in Seq(Msgs), NEW m \in Msgs, NEW s \in Seq(Msgs), RunOf(s, all)
    PROVE  RunOf(s, Append(all, m))
<1> DEFINE n == Len(all)
           more == Append(all, m)
<1>1. n \in Nat /\ Len(more) = n + 1 /\ \A i \in 1..n : more[i] = all[i]
  OBVIOUS
<1>2. PICK i \in 0..n : i + Len(s) <= n /\ \A k \in 1..Len(s) : s[k] = all[i + k]
  BY DEF RunOf
<1> HIDE DEF n, more
<1>3. i \in 0..Len(more) /\ i + Len(s) <= Len(more)
  BY <1>1, <1>2
<1>4. \A k \in 1..Len(s) : s[k] = more[i + k]
  <2>1. \A k \in 1..Len(s) : i + k \in 1..n
    BY <1>1, <1>2
  <2> QED BY <1>1, <1>2, <2>1
<1>5. RunOf(s, more)
  BY ONLY <1>3, <1>4 DEF RunOf
<1> QED BY <1>5 DEF more

\* The buffer is a run.
LEMMA RunOfBuffer ==
    ASSUME HandsInv, Runs
    PROVE  RunOf(buffer, logged)
<1> DEFINE i == Len(logged) - Len(buffer)
<1>1. Len(logged) \in Nat /\ Len(buffer) \in Nat
  BY DEF HandsInv, Types
<1>2. i \in 0..Len(logged) /\ i + Len(buffer) <= Len(logged)
  BY <1>1 DEF Runs
<1>3. \A k \in 1..Len(buffer) : buffer[k] = logged[i + k]
  BY DEF Runs
<1> HIDE DEF i
<1> QED BY <1>2, <1>3 DEF RunOf

\* The batches stay runs when another message is logged, which is a new one.
LEMMA RunsPush ==
    ASSUME HandsInv, Runs, NEW m \in Msgs, Push(m)
    PROVE  Runs'
<1> DEFINE n == Len(logged)
<1>1. /\ logged' = Append(logged, m) /\ buffer' = Append(buffer, m)
      /\ UNCHANGED <<wbatch, cbatch, sbatch, queue, wpc, no, written, day>>
      /\ logged \in Seq(Msgs) /\ buffer \in Seq(Msgs)
      /\ m \notin Range(logged)
  BY DEF Push, writer, files, HandsInv, Types
<1>2. /\ n \in Nat /\ Len(logged') = n + 1 /\ Len(buffer) \in Nat
      /\ \A i \in 1..n : logged'[i] = logged[i]
      /\ logged'[n + 1] = m
      /\ Len(buffer') = Len(buffer) + 1 /\ buffer'[Len(buffer) + 1] = m
      /\ \A i \in 1..Len(buffer) : buffer'[i] = buffer[i]
  BY <1>1
<1>3. \A i \in 1..n : logged[i] # m
  BY <1>1 DEF Range
<1> HIDE DEF n
<1>4. \A i, j \in 1..Len(logged') : logged'[i] = logged'[j] => i = j
  <2>1. \A i \in 1..n + 1 : i \in 1..n \/ i = n + 1
    BY <1>2
  <2>2. \A i, j \in 1..n : logged'[i] = logged'[j] => i = j
    BY <1>2 DEF Runs, n
  <2>3. \A i \in 1..n : logged'[i] # logged'[n + 1]
    BY <1>2, <1>3
  <2> QED BY <1>2, <2>1, <2>2, <2>3
<1>5. \A s \in Seq(Msgs) : RunOf(s, logged) => RunOf(s, logged')
  BY <1>1, RunOfLonger
<1>6. RunOf(wbatch', logged') /\ RunOf(cbatch', logged') /\ RunOf(sbatch', logged')
  BY <1>1, <1>5 DEF HandsInv, Types, Runs
<1>7. \A i \in 1..Len(queue') : RunOf(queue'[i], logged') /\ queue'[i] # <<>>
  <2>1. \A i \in 1..Len(queue) : queue[i] \in Seq(Msgs)
    BY DEF HandsInv, Types
  <2> QED BY <1>1, <1>5, <2>1 DEF Runs
<1>8. Len(buffer') <= Len(logged')
  BY <1>2 DEF Runs, n
<1>9. ASSUME NEW k \in 1..Len(buffer')
      PROVE  buffer'[k] = logged'[Len(logged') - Len(buffer') + k]
  <2> DEFINE x == n - Len(buffer) + k
  <2>1. Len(logged') - Len(buffer') + k = x
    BY <1>2
  <2>2. CASE k = Len(buffer) + 1
    BY <1>2, <2>1, <2>2
  <2>3. CASE k # Len(buffer) + 1
    <3>1. k \in 1..Len(buffer) /\ x \in 1..n
      BY <1>2, <2>3 DEF Runs, n
    <3>2. buffer[k] = logged[x]
      BY <3>1 DEF Runs, n
    <3> HIDE DEF x
    <3> QED BY <1>2, <2>1, <3>1, <3>2
  <2> QED BY <2>2, <2>3
<1> QED BY <1>1, <1>4, <1>6, <1>7, <1>8, <1>9 DEF Runs

\* A queue of runs, none empty, is one after a push.
LEMMA RunsQueue ==
    ASSUME HandsInv, Runs, NEW b \in Seq(Msgs), RunOf(b, logged), PushBatch(b), logged' = logged
    PROVE  \A i \in 1..Len(queue') : RunOf(queue'[i], logged') /\ queue'[i] # <<>>
<1>1. queue \in Seq(Seq(Msgs))
  BY DEF HandsInv, Types
<1>2. CASE b = <<>>
  BY <1>2 DEF PushBatch, Runs
<1>3. CASE b # <<>>
  <2>1. queue' = Append(queue, b)
    BY <1>3 DEF PushBatch
  <2>2. /\ Len(queue') = Len(queue) + 1 /\ Len(queue) \in Nat
        /\ queue'[Len(queue) + 1] = b
        /\ \A i \in 1..Len(queue) : queue'[i] = queue[i]
    BY <1>1, <2>1
  <2>3. \A i \in 1..Len(queue') : i \in 1..Len(queue) \/ i = Len(queue) + 1
    BY <2>2
  <2> QED BY <1>3, <2>2, <2>3 DEF Runs
<1> QED BY <1>2, <1>3

\* In the beginning there is nothing.
LEMMA RunsInit == Init => Runs
<1> SUFFICES ASSUME Init PROVE Runs
  OBVIOUS
<1>1. /\ logged = <<>> /\ wbatch = <<>> /\ cbatch = <<>> /\ sbatch = <<>> /\ queue = <<>>
      /\ buffer = <<>> /\ written = <<>> /\ no = 0 /\ wpc = "check" /\ day = 1
      /\ Len(<<>>) = 0
  BY DEF Init
<1>2. RunOf(<<>>, <<>>)
  BY <1>1, RunOfNothing
<1> QED BY <1>1, <1>2, SizeAssumption DEF Runs

\* The runs stay while the variables do.
LEMMA RunsStutter == Runs /\ UNCHANGED vars => Runs'
BY DEF vars, Runs

\* Every batch that is taken, queued or written is one of them.
LEMMA RunsNext == HandsInv /\ Runs /\ Next => Runs'
<1> SUFFICES ASSUME HandsInv, Runs, Next PROVE Runs'
  OBVIOUS
<1>e. RunOf(<<>>, logged) /\ Len(<<>>) = 0
  BY RunOfNothing DEF HandsInv, Types
<1>b. RunOf(buffer, logged)
  BY RunOfBuffer
<1>t. /\ cbatch \in Seq(Msgs) /\ sbatch \in Seq(Msgs) /\ Len(logged) \in Nat
      /\ queue \in Seq(Seq(Msgs))
  BY DEF HandsInv, Types
<1>s. ASSUME UNCHANGED <<logged, buffer, cbatch, sbatch, wbatch, queue, no, written, day>>,
             wpc' = "write" => wpc = "write"
      PROVE  Runs'
  BY <1>s DEF Runs
<1>1. CASE \E m \in Msgs : Push(m)
  BY <1>1, RunsPush
<1>2. CASE CollectSwap
  BY <1>2, <1>b, <1>e, <1>t DEF CollectSwap, writer, files, Runs
<1>3. CASE StopSwap
  BY <1>3, <1>b, <1>e, <1>t DEF StopSwap, writer, files, Runs
<1>4. CASE CollectPush
  <2>1. /\ PushBatch(cbatch) /\ cbatch' = <<>>
        /\ UNCHANGED <<logged, buffer, sbatch, wbatch, wpc, no, written, day>>
    BY <1>4 DEF CollectPush, writer, files
  <2>2. \A i \in 1..Len(queue') : RunOf(queue'[i], logged') /\ queue'[i] # <<>>
    BY <1>t, <2>1, RunsQueue DEF Runs
  <2>3. RunOf(wbatch', logged') /\ RunOf(cbatch', logged') /\ RunOf(sbatch', logged')
    BY <1>e, <2>1 DEF Runs
  <2> QED BY <2>1, <2>2, <2>3 DEF Runs
<1>5. CASE StopPush
  <2>1. /\ PushBatch(sbatch) /\ sbatch' = <<>>
        /\ UNCHANGED <<logged, buffer, cbatch, wbatch, wpc, no, written, day>>
    BY <1>5 DEF StopPush, writer, files
  <2>2. \A i \in 1..Len(queue') : RunOf(queue'[i], logged') /\ queue'[i] # <<>>
    BY <1>t, <2>1, RunsQueue DEF Runs
  <2>3. RunOf(wbatch', logged') /\ RunOf(cbatch', logged') /\ RunOf(sbatch', logged')
    BY <1>e, <2>1 DEF Runs
  <2> QED BY <2>1, <2>2, <2>3 DEF Runs
<1>6. CASE WriterTake
  <2>1. /\ queue # <<>> /\ wbatch' = Head(queue) /\ queue' = Tail(queue)
        /\ UNCHANGED <<logged, buffer, cbatch, sbatch, no, written, day>>
    BY <1>6 DEF WriterTake, files
  <2>2. /\ 1 \in 1..Len(queue) /\ wbatch' = queue[1] /\ Len(queue') = Len(queue) - 1
        /\ \A i \in 1..Len(queue') : queue'[i] = queue[i + 1] /\ i + 1 \in 1..Len(queue)
    BY <1>t, <2>1
  <2>3. RunOf(wbatch', logged') /\ wbatch' # <<>>
    BY <2>1, <2>2 DEF Runs
  <2>4. \A i \in 1..Len(queue') : RunOf(queue'[i], logged') /\ queue'[i] # <<>>
    BY <2>1, <2>2 DEF Runs
  <2>5. RunOf(cbatch', logged') /\ RunOf(sbatch', logged')
    BY <2>1 DEF Runs
  <2> QED BY <2>1, <2>3, <2>4, <2>5 DEF Runs
<1>7. CASE WriterWrite
  <2>1. PICK g \in File :
          /\ \/ g = <<day, NumberToday>>
             \/ g = <<day, NumberToday + 1>> /\ SizeOf(<<day, NumberToday>>) > MaxSize
          /\ NumberToday \in Nat /\ no' = g[2]
          /\ written' = written \o
                [i \in 1..Len(wbatch) |-> [msg |-> wbatch[i], file |-> g]]
    BY <1>7, WriteIs
  <2>2. Len(written') = Len(written) + Len(wbatch) /\ Len(written) \in Nat
    BY <2>1, WrittenGrows
  <2>3. Len(wbatch) >= 1
    <3>1. wbatch # <<>> /\ wbatch \in Seq(Msgs)
      BY <1>7 DEF WriterWrite, Runs, HandsInv, Types
    <3> QED BY <3>1
  <2>4. no' <= Len(written')
    <3>1. NumberToday <= no /\ no \in Nat
      BY DEF NumberToday, HandsInv, Types
    <3>2. no' <= NumberToday + 1
      BY <2>1
    <3>3. no <= Len(written) /\ no' \in Nat /\ Len(wbatch) \in Nat
      BY <2>1 DEF Runs, HandsInv, Types, File
    <3> QED BY <2>1, <2>2, <2>3, <3>1, <3>2, <3>3
  <2>5. /\ wbatch' = <<>> /\ wpc' # "write"
        /\ UNCHANGED <<logged, buffer, cbatch, sbatch, queue, day>>
    BY <1>7 DEF WriterWrite
  <2>6. RunOf(wbatch', logged') /\ RunOf(cbatch', logged') /\ RunOf(sbatch', logged')
    BY <1>e, <2>5 DEF Runs
  <2>7. \A i \in 1..Len(queue') : RunOf(queue'[i], logged') /\ queue'[i] # <<>>
    BY <2>5 DEF Runs
  <2> QED BY <2>4, <2>5, <2>6, <2>7 DEF Runs
<1>8. CASE NextDay
  <2>1. /\ UNCHANGED <<logged, buffer, cbatch, sbatch, wbatch, queue, no, written, wpc>>
        /\ day < MaxDay /\ day' = day + 1
    BY <1>8 DEF NextDay, writer, files
  <2>2. day' \in 1..MaxDay
    BY <2>1, SizeAssumption DEF Runs
  <2> QED BY <2>1, <2>2 DEF Runs
<1>9. CASE CollectStart \/ CollectTest \/ StopBegin \/ JoinCollector \/ AsyncStop \/ JoinWriter
  BY <1>9, <1>s DEF CollectStart, CollectTest, StopBegin, JoinCollector, AsyncStop, JoinWriter,
                        writer, files
<1>10. CASE CollectSignal \/ StopSignal \/ AsyncSignal
  BY <1>10, <1>s DEF CollectSignal, StopSignal, AsyncSignal, Signal, files
<1>11. CASE WriterWait \/ WriterSleep \/ WriterEnd \/ SpuriousWakeup
  BY <1>11, <1>s DEF WriterWait, WriterSleep, WriterEnd, SpuriousWakeup, files
<1> QED BY <1>1, <1>2, <1>3, <1>4, <1>5, <1>6, <1>7, <1>8, <1>9, <1>10, <1>11
    DEF Next, Collector, Stopper, Writer

\* Of two rows of the same length with the same messages, one has each once if the other has.
LEMMA OneEach ==
    ASSUME NEW w \in Seq(Msgs), NEW all \in Seq(Msgs), Len(w) = Len(all),
           Range(w) = Range(all),
           \A i, j \in 1..Len(all) : all[i] = all[j] => i = j
    PROVE  \A i, j \in 1..Len(w) : w[i] = w[j] => i = j
<1> DEFINE D == 1..Len(all)
           R == Range(all)
<1>0. Len(all) \in Nat /\ all \in [D -> Msgs] /\ w \in [D -> Msgs]
  OBVIOUS
<1>1. /\ w \in [D -> R] /\ all \in [D -> R]
      /\ R = {all[i] : i \in D} /\ R = {w[i] : i \in D}
  <2> HIDE DEF D
  <2>1. R = {all[i] : i \in D} /\ R = {w[i] : i \in D}
    BY <1>0 DEF Range
  <2> QED BY <1>0, <2>1
<1>2. IsFiniteSet(D) /\ Cardinality(D) = Len(all)
  <2> DEFINE m == Len(all)
  <2>1. m \in Nat
    BY <1>0
  <2> HIDE DEF m
  <2>2. IsFiniteSet(1..m) /\ Cardinality(1..m) = m
    <3>1. 1 \in Int /\ m \in Int /\ (IF 1 > m THEN 0 ELSE m - 1 + 1) = m
      BY <2>1
    <3>2. /\ IsFiniteSet(1..m)
          /\ Cardinality(1..m) = IF 1 > m THEN 0 ELSE m - 1 + 1
      BY ONLY <3>1, FS_Interval
    <3> QED BY <3>1, <3>2
  <2> QED BY <2>2 DEF m
<1>3. all \in Bijection(D, R)
  BY <1>1 DEF Bijection, Injection, Surjection, IsInjective
<1>4. IsFiniteSet(R) /\ Cardinality(R) = Cardinality(D)
  BY <1>2, <1>3, FS_Bijection DEF ExistsBijection
<1>5. w \in Surjection(D, R)
  BY <1>1 DEF Surjection
<1>6. w \in Injection(D, R)
  BY <1>2, <1>4, <1>5, FS_SurjSameCardinalityImpliesInj
<1> QED BY <1>1, <1>6 DEF Injection, IsInjective

\* A row of messages begins with its first part, and the second is behind it.
LEMMA Front ==
    ASSUME NEW s \in Seq(Msgs), NEW t \in Seq(Msgs)
    PROVE  /\ s \o t \in Seq(Msgs) /\ Len(s \o t) = Len(s) + Len(t)
           /\ \A i \in 1..Len(s) : (s \o t)[i] = s[i]
           /\ \A i \in 1..Len(t) : (s \o t)[Len(s) + i] = t[i]
OBVIOUS

\* No message of the batch in the writer's hands is in a file.
LEMMA NotYetWritten ==
    ASSUME HandsInv, MessagesConserved, Runs
    PROVE  \A n \in 1..Len(written), k \in 1..Len(wbatch) : written[n].msg # wbatch[k]
<1> DEFINE a == Written \o wbatch
           b == a \o Queued
           c == b \o cbatch
           d == c \o sbatch
           e == d \o buffer
<1>t. /\ Written \in Seq(Msgs) /\ Queued \in Seq(Msgs)
      /\ buffer \in Seq(Msgs) /\ cbatch \in Seq(Msgs) /\ sbatch \in Seq(Msgs)
      /\ wbatch \in Seq(Msgs) /\ logged \in Seq(Msgs)
      /\ written \in Seq([msg : Msgs, file : File])
  BY InRows DEF HandsInv, Types
<1>e. e = Written \o wbatch \o Queued \o cbatch \o sbatch \o buffer
  OBVIOUS
<1>m. Len(e) = Len(logged) /\ Range(e) = Range(logged)
  BY <1>e, Zenon DEF MessagesConserved
<1>1. /\ a \in Seq(Msgs) /\ Len(a) = Len(Written) + Len(wbatch)
      /\ \A i \in 1..Len(Written) : a[i] = Written[i]
      /\ \A k \in 1..Len(wbatch) : a[Len(Written) + k] = wbatch[k]
  BY <1>t
<1> HIDE DEF a
<1>2. b \in Seq(Msgs) /\ Len(b) = Len(a) + Len(Queued) /\ \A i \in 1..Len(a) : b[i] = a[i]
  BY Front, <1>t, <1>1
<1> HIDE DEF b
<1>3. c \in Seq(Msgs) /\ Len(c) = Len(b) + Len(cbatch) /\ \A i \in 1..Len(b) : c[i] = b[i]
  BY Front, <1>t, <1>2
<1> HIDE DEF c
<1>4. d \in Seq(Msgs) /\ Len(d) = Len(c) + Len(sbatch) /\ \A i \in 1..Len(c) : d[i] = c[i]
  BY Front, <1>t, <1>3
<1> HIDE DEF d
<1>5. e \in Seq(Msgs) /\ Len(e) = Len(d) + Len(buffer) /\ \A i \in 1..Len(d) : e[i] = d[i]
  BY Front, <1>t, <1>4
<1> HIDE DEF e
<1>6. /\ Len(a) \in Nat /\ Len(b) \in Nat /\ Len(c) \in Nat /\ Len(d) \in Nat
      /\ Len(Queued) \in Nat /\ Len(cbatch) \in Nat /\ Len(sbatch) \in Nat
      /\ Len(buffer) \in Nat /\ Len(Written) \in Nat /\ Len(wbatch) \in Nat
  <2>1. \A s \in Seq(Msgs) : Len(s) \in Nat
    OBVIOUS
  <2> QED BY <1>t, <1>1, <1>2, <1>3, <1>4, <2>1, Zenon
<1>7. \A i \in 1..Len(a) : e[i] = a[i] /\ i \in 1..Len(e)
  <2> SUFFICES ASSUME NEW i \in 1..Len(a) PROVE e[i] = a[i] /\ i \in 1..Len(e)
    OBVIOUS
  <2>1. Len(a) <= Len(b) /\ Len(b) <= Len(c) /\ Len(c) <= Len(d) /\ Len(d) <= Len(e)
    <3>1. Len(b) = Len(a) + Len(Queued) /\ Len(c) = Len(b) + Len(cbatch)
      BY <1>2, <1>3, Zenon
    <3>2. Len(d) = Len(c) + Len(sbatch) /\ Len(e) = Len(d) + Len(buffer)
      BY <1>4, <1>5, Zenon
    <3> QED BY ONLY <1>6, <3>1, <3>2
  <2>2. /\ i \in 1..Len(b) /\ i \in 1..Len(c) /\ i \in 1..Len(d) /\ i \in 1..Len(e)
    BY ONLY <1>5, <1>6, <2>1, i \in 1..Len(a)
  <2> QED BY <1>2, <1>3, <1>4, <1>5, <2>2, Zenon
<1>8. \A i, j \in 1..Len(e) : e[i] = e[j] => i = j
  BY <1>t, <1>m, <1>5, OneEach DEF Runs
<1>9. \A i, j \in 1..Len(a) : a[i] = a[j] => i = j
  BY <1>7, <1>8
<1>10. /\ Len(Written) = Len(written)
       /\ \A n \in 1..Len(written) : Written[n] = written[n].msg
  BY <1>t, MessagesOf DEF Written
<1> SUFFICES ASSUME NEW n \in 1..Len(written), NEW k \in 1..Len(wbatch)
             PROVE  written[n].msg # wbatch[k]
  OBVIOUS
<1> DEFINE i == Len(Written) + k
<1>11. n \in 1..Len(a) /\ i \in 1..Len(a) /\ n # i /\ n \in 1..Len(Written)
  BY <1>1, <1>6, <1>10
<1> QED BY <1>1, <1>9, <1>10, <1>11

\* A batch that is written is a run of what was logged, the next one while nobody stops.
LEMMA WriteIsStore ==
    ASSUME HandsInv, MessagesConserved, Len(written) + Len(wbatch) <= Len(logged),
           FileInOrder, Named, Runs, WriterWrite
    PROVE  Records!Next
<1> DEFINE n == Len(written)
<1>1. PICK g \in File :
        /\ \/ g = <<day, NumberToday>>
           \/ g = <<day, NumberToday + 1>> /\ SizeOf(<<day, NumberToday>>) > MaxSize
        /\ NumberToday \in Nat
        /\ date' = g[1] /\ no' = g[2]
        /\ written' = written \o [i \in 1..Len(wbatch) |-> [msg |-> wbatch[i], file |-> g]]
  BY WriteIs
<1>2. /\ n \in Nat /\ Len(wbatch) \in Nat /\ Len(logged) \in Nat
      /\ Len(written') = n + Len(wbatch)
  BY <1>1, WrittenGrows DEF HandsInv, Types
<1>3. PICK i \in 0..Len(logged) :
        /\ i + Len(wbatch) <= Len(logged)
        /\ \A k \in 1..Len(wbatch) : wbatch[k] = logged[i + k]
        /\ spc = "running" => i = n
  <2>1. CASE spc = "running"
    <3>1. /\ Written \in Seq(Msgs) /\ Queued \in Seq(Msgs) /\ wbatch \in Seq(Msgs)
          /\ cbatch \in Seq(Msgs) /\ buffer \in Seq(Msgs)
          /\ written \in Seq([msg : Msgs, file : File])
      BY InRows DEF HandsInv, Types
    <3> DEFINE a == Written \o wbatch
               b == a \o Queued
               c == b \o cbatch
    <3>2. Len(Written) = n
      BY <3>1, MessagesOf DEF Written
    <3>3. /\ a \in Seq(Msgs) /\ Len(a) = n + Len(wbatch)
          /\ \A k \in 1..Len(wbatch) : a[n + k] = wbatch[k]
      <4>1. /\ a \in Seq(Msgs) /\ Len(a) = Len(Written) + Len(wbatch)
            /\ \A k \in 1..Len(wbatch) : a[Len(Written) + k] = wbatch[k]
        BY Front, <3>1
      <4> HIDE DEF a, n
      <4> QED BY <3>2, <4>1
    <3> HIDE DEF a
    <3>4. /\ b \in Seq(Msgs) /\ Len(b) = Len(a) + Len(Queued)
          /\ \A k \in 1..Len(a) : b[k] = a[k]
      BY Front, <3>1, <3>3
    <3> HIDE DEF b
    <3>5. /\ c \in Seq(Msgs) /\ Len(c) = Len(b) + Len(cbatch)
          /\ \A k \in 1..Len(b) : c[k] = b[k]
      BY Front, <3>1, <3>4
    <3> HIDE DEF c
    <3>6. \A k \in 1..Len(c) : (c \o buffer)[k] = c[k]
      BY Front, <3>1, <3>5
    <3>7. c \o buffer = logged
      BY <2>1 DEF FileInOrder, a, b, c
    <3>8. Len(Queued) \in Nat /\ Len(cbatch) \in Nat /\ Len(a) \in Nat
      BY <3>1, <3>3
    <3>9. \A k \in 1..Len(wbatch) : n + k \in 1..Len(a)
      BY <1>2, <3>3
    <3>10. \A k \in 1..Len(a) : logged[k] = a[k]
      <4>1. \A k \in 1..Len(a) : k \in 1..Len(b) /\ k \in 1..Len(c)
        BY <3>4, <3>5, <3>8
      <4> QED BY <3>4, <3>5, <3>6, <3>7, <4>1
    <3>11. \A k \in 1..Len(wbatch) : wbatch[k] = logged[n + k]
      BY <3>3, <3>9, <3>10
    <3>12. n \in 0..Len(logged)
      BY <1>2
    <3> QED BY <3>11, <3>12
  <2>2. CASE spc # "running"
    BY <2>2 DEF Runs, RunOf
  <2> QED BY <2>1, <2>2
<1> DEFINE j == i + Len(wbatch)
<1>4. /\ j \in 0..Len(logged) /\ j - i = Len(wbatch)
      /\ \A k \in i + 1..j : k - i \in 1..Len(wbatch) /\ i + (k - i) = k
  BY <1>2, <1>3
<1>5. \A k \in i + 1..j, m \in 1..n : written[m].msg # logged[k]
  <2> SUFFICES ASSUME NEW k \in i + 1..j, NEW m \in 1..n PROVE written[m].msg # logged[k]
    OBVIOUS
  <2>1. k - i \in 1..Len(wbatch) /\ logged[k] = wbatch[k - i]
    BY <1>3, <1>4
  <2> QED BY <2>1, NotYetWritten
<1>6. \A m \in 1..n : Records!NotAfter(written[m].file, g)
  <2>1. /\ \A m \in 1..Len(written') : Before(written'[m].file, <<date', no'>>)
        /\ \A m \in 1..n : m \in 1..Len(written') /\ written'[m] = written[m]
        /\ <<date', no'>> = g
    <3>1. Named'
      BY NamedWrite
    <3>2. \A m \in 1..Len(written') : Before(written'[m].file, <<date', no'>>)
      BY ONLY <3>1 DEF Named, Before
    <3>3. \A m \in 1..n : m \in 1..Len(written') /\ written'[m] = written[m]
      <4>1. \A m \in 1..n : written'[m] = written[m]
        BY <1>1, WrittenGrows
      <4> QED BY <1>2, <4>1
    <3>4. <<date', no'>> = g
      BY <1>1 DEF File
    <3> QED BY <3>2, <3>3, <3>4
  <2> QED BY <2>1 DEF Before, Records!NotAfter
<1>7. written' = written \o [k \in 1..j - i |-> [msg |-> logged[i + k], file |-> g]]
  BY <1>1, <1>3, <1>4
<1>8. g \in (1..MaxDay) \X (0..Len(logged))
  <2>1. no' <= Len(written')
    <3>1. Next
      BY DEF Next, Writer
    <3>2. Runs'
      BY <3>1, RunsNext
    <3> QED BY ONLY <3>2 DEF Runs
  <2>3. no' \in Nat /\ g[1] = day
    BY <1>1 DEF File
  <2>2. g[2] \in 0..Len(logged) /\ g[1] \in 1..MaxDay /\ g = <<g[1], g[2]>>
    BY <1>1, <1>2, <2>1, <2>3 DEF Runs, File
  <2> QED BY <2>2
<1>9. logged' = logged /\ spc' = spc
  BY DEF WriterWrite
<1> HIDE DEF j
<1>10. Records!Store(i, j, g)
  BY <1>3, <1>5, <1>6, <1>7, <1>9 DEF Records!Store
<1> QED BY <1>4, <1>8, <1>10 DEF Records!Next

\* Every other step is a step of the log too, or cannot be seen there.
LEMMA StepOfLog ==
    ASSUME HandsInv, MessagesConserved, Len(written) + Len(wbatch) <= Len(logged),
           FileInOrder, Named, Runs, [Next]_vars
    PROVE  [Records!Next]_<<logged, written, spc # "running">>
<1>s. ASSUME UNCHANGED <<logged, written>>, spc' = spc \/ (spc # "running" /\ spc' # "running")
      PROVE  UNCHANGED <<logged, written, spc # "running">>
  BY <1>s
<1> USE DEF writer, files
<1>1. ASSUME NEW m \in Msgs, Push(m) PROVE Records!Next
  <2>1. /\ \A i \in 1..Len(logged) : logged[i] # m
        /\ logged' = Append(logged, m) /\ written' = written /\ spc' = spc
    BY <1>1 DEF Push, Range, HandsInv, Types
  <2> QED BY <2>1 DEF Records!Next, Records!Accept
<1>2. CASE WriterWrite
  BY <1>2, WriteIsStore
<1>3. CASE StopBegin
  <2>1. logged' = logged /\ written' = written /\ spc' # "running"
    BY <1>3 DEF StopBegin
  <2>2. Records!Stop
    BY <2>1 DEF Records!Stop
  <2> QED BY <2>2 DEF Records!Next
<1>4. CASE Collector
  BY <1>4, <1>s DEF Collector, CollectStart, CollectTest, CollectSwap, CollectPush,
                    CollectSignal
<1>5. CASE Stopper
  BY <1>5, <1>s DEF Stopper, StopSwap, StopPush, StopSignal, JoinCollector, AsyncStop,
                    AsyncSignal, JoinWriter
<1>6. CASE WriterWait \/ WriterSleep \/ WriterEnd \/ WriterTake \/ SpuriousWakeup \/ NextDay
  BY <1>6, <1>s DEF WriterWait, WriterSleep, WriterEnd, WriterTake, SpuriousWakeup, NextDay
<1>7. CASE UNCHANGED vars
  BY <1>7, <1>s DEF vars
<1> QED BY <1>1, <1>2, <1>3, <1>4, <1>5, <1>6, <1>7 DEF Next, Writer

\* The logger implements the log, whatever its threads and the stopping one do at once.
THEOREM LoggerIsLog == Spec => IsLog
<1>1. Init => Records!Init
  BY DEF Init, Records!Init
<1>2. Spec => []Counted
  BY HandsInvariant, CountedInit, CountedStutter, CountedNext, PTL DEF Spec
<1>3. Spec => []Named
  BY HandsInvariant, NamedInit, NamedStutter, NamedNext, PTL DEF Spec
<1>4. Spec => []Runs
  BY HandsInvariant, RunsInit, RunsStutter, RunsNext, PTL DEF Spec
<1>5. HandsInv /\ Counted => Len(written) + Len(wbatch) <= Len(logged)
  <2> SUFFICES ASSUME HandsInv, Counted PROVE Len(written) + Len(wbatch) <= Len(logged)
    OBVIOUS
  <2>1. Len(Written) = Len(written)
    BY MessagesOf DEF Written, HandsInv, Types
  <2>2. /\ Len(Queued) \in Nat /\ Len(cbatch) \in Nat /\ Len(sbatch) \in Nat
        /\ Len(buffer) \in Nat /\ Len(Written) \in Nat /\ Len(wbatch) \in Nat
    BY InRows DEF HandsInv, Types
  <2> QED BY <2>1, <2>2 DEF Counted
<1>6. HandsInv /\ Counted /\ FileInOrder /\ Named /\ Runs /\ [Next]_vars
        => [Records!Next]_<<logged, written, spc # "running">>
  <2> SUFFICES ASSUME HandsInv, Counted, FileInOrder, Named, Runs, [Next]_vars
               PROVE  [Records!Next]_<<logged, written, spc # "running">>
    OBVIOUS
  <2>1. MessagesConserved /\ Len(written) + Len(wbatch) <= Len(logged)
    BY <1>5, Conserved
  <2> QED BY <2>1, StepOfLog
<1> QED
  BY <1>1, <1>2, <1>3, <1>4, <1>6, HandsInvariant, FileInOrderHolds, PTL
     DEF Spec, IsLog, Records!Spec

=============================================================================
