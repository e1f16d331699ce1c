----------------------------- MODULE HooksProofs -----------------------------
(***************************************************************************)
(* Theorems about the timer of a reactor and the coroutines that wait for  *)
(* it: no event is lost or fires after its frame is gone, nobody is woken  *)
(* early, and the timerfd is armed while events are pending; for any       *)
(* number of events and coroutines, and any times.                         *)
(***************************************************************************)
EXTENDS Hooks, TLAPS, FiniteSetTheorems

-----------------------------------------------------------------------------
(* Sequences and numbers.                                                  *)

\* The members of two sequences in a row.
LEMMA Joined ==
    ASSUME NEW S, NEW a \in Seq(S), NEW b \in Seq(S)
    PROVE  /\ a \o b \in Seq(S) /\ Len(a \o b) = Len(a) + Len(b)
           /\ \A j \in 1..Len(a) : (a \o b)[j] = a[j]
           /\ \A j \in 1..Len(b) : (a \o b)[Len(a) + j] = b[j]
OBVIOUS

\* The members of a sequence with one more in position i.
LEMMA Inserted ==
    ASSUME NEW S, NEW s \in Seq(S), NEW i \in 1..(Len(s) + 1), NEW e \in S
    PROVE  /\ InsertAt(s, i, e) \in Seq(S)
           /\ Len(InsertAt(s, i, e)) = Len(s) + 1
           /\ \A j \in 1..(i - 1) : InsertAt(s, i, e)[j] = s[j]
           /\ InsertAt(s, i, e)[i] = e
           /\ \A j \in i..Len(s) : InsertAt(s, i, e)[j + 1] = s[j]
<1> DEFINE a == SubSeq(s, 1, i - 1) \o <<e>>
           b == SubSeq(s, i, Len(s))
<1>1. a \in Seq(S) /\ Len(a) = i /\ a[i] = e /\ \A j \in 1..(i - 1) : a[j] = s[j]
  OBVIOUS
<1>2. b \in Seq(S) /\ Len(b) = Len(s) - i + 1 /\ \A j \in 1..Len(b) : b[j] = s[j + i - 1]
  OBVIOUS
<1>3. InsertAt(s, i, e) = a \o b
  BY DEF InsertAt
<1> HIDE DEF a, b
<1>4. \A j \in i..Len(s) : (a \o b)[j + 1] = s[j]
  <2> SUFFICES ASSUME NEW j \in i..Len(s) PROVE (a \o b)[j + 1] = s[j]
    OBVIOUS
  <2> DEFINE k == j + 1 - i
  <2>1. k \in 1..Len(b) /\ j + 1 = Len(a) + k /\ k + i - 1 = j
    BY <1>1, <1>2
  <2>2. b[k] = s[j]
    BY <1>2, <2>1
  <2> HIDE DEF k
  <2> QED BY <2>1, <2>2, Joined
<1>5. /\ a \o b \in Seq(S) /\ Len(a \o b) = Len(s) + 1
      /\ \A j \in 1..i : (a \o b)[j] = a[j]
  BY <1>1, <1>2, Joined
<1> QED BY <1>1, <1>3, <1>4, <1>5

\* The members of a sequence without the one in position i.
LEMMA Removed ==
    ASSUME NEW S, NEW s \in Seq(S), NEW i \in 1..Len(s)
    PROVE  /\ RemoveAt(s, i) \in Seq(S)
           /\ Len(RemoveAt(s, i)) = Len(s) - 1
           /\ \A j \in 1..(i - 1) : RemoveAt(s, i)[j] = s[j]
           /\ \A j \in i..(Len(s) - 1) : RemoveAt(s, i)[j] = s[j + 1]
<1> DEFINE a == SubSeq(s, 1, i - 1)
           b == SubSeq(s, i + 1, Len(s))
<1>1. a \in Seq(S) /\ Len(a) = i - 1 /\ \A j \in 1..(i - 1) : a[j] = s[j]
  OBVIOUS
<1>2. b \in Seq(S) /\ Len(b) = Len(s) - i /\ \A j \in 1..Len(b) : b[j] = s[j + i]
  OBVIOUS
<1>3. RemoveAt(s, i) = a \o b
  BY DEF RemoveAt
<1> HIDE DEF a, b
<1>4. \A j \in i..(Len(s) - 1) : (a \o b)[j] = s[j + 1]
  <2> SUFFICES ASSUME NEW j \in i..(Len(s) - 1) PROVE (a \o b)[j] = s[j + 1]
    OBVIOUS
  <2> DEFINE k == j - (i - 1)
  <2>1. k \in 1..Len(b) /\ j = Len(a) + k /\ k + i = j + 1
    BY <1>1, <1>2
  <2>2. b[k] = s[j + 1]
    BY <1>2, <2>1
  <2> HIDE DEF k
  <2> QED BY <2>1, <2>2, Joined
<1>5. /\ a \o b \in Seq(S) /\ Len(a \o b) = Len(s) - 1
      /\ \A j \in 1..(i - 1) : (a \o b)[j] = a[j]
  <2>1. Len(a) + Len(b) = Len(s) - 1 /\ 1..(i - 1) = 1..Len(a)
    BY <1>1, <1>2
  <2>2. a \o b \in Seq(S) /\ Len(a \o b) = Len(a) + Len(b)
    BY <1>1, <1>2, Joined
  <2>3. \A j \in 1..Len(a) : (a \o b)[j] = a[j]
    BY <1>1, <1>2, Joined
  <2> QED BY <2>1, <2>2, <2>3
<1> QED BY <1>1, <1>3, <1>4, <1>5

\* A bounded set of numbers has a last one.
LEMMA MaxExists ==
    ASSUME NEW n \in Nat, NEW S, S \subseteq 0..n, S # {}
    PROVE  \E m \in S : \A k \in S : k <= m
<1> DEFINE T == {(0..n) \ (0..k) : k \in S}
<1>1. T \subseteq FiniteSubsetsOf(Nat) /\ T # {}
  <2>1. \A k \in S : IsFiniteSet((0..n) \ (0..k)) /\ (0..n) \ (0..k) \subseteq Nat
    <3>1. IsFiniteSet(0..n)
      BY FS_Interval
    <3> QED BY <3>1, FS_Subset
  <2> QED BY <2>1 DEF FiniteSubsetsOf
<1>2. PICK X \in T : \A Y \in T : <<Y, X>> \notin StrictSubsetOrdering(Nat)
  <2> HIDE DEF T
  <2> QED BY <1>1, FS_StrictSubsetOrderingWellFounded, WFMin
<1>3. PICK m \in S : X = (0..n) \ (0..m)
  OBVIOUS
<1>4. \A k \in S : k <= m
  <2> SUFFICES ASSUME NEW k \in S, k > m PROVE FALSE
    OBVIOUS
  <2> DEFINE Y == (0..n) \ (0..k)
  <2>1. Y \in T /\ Y \subseteq X /\ k \in X /\ k \notin Y /\ X \subseteq Nat /\ Y \subseteq Nat
    BY <1>3
  <2>2. <<Y, X>> \in StrictSubsetOrdering(Nat)
    BY <2>1 DEF StrictSubsetOrdering
  <2> QED BY <1>2, <2>1, <2>2
<1> QED BY <1>4

\* A set of positions that has all before each of them is an interval.
LEMMA PrefixCount ==
    ASSUME NEW n \in Nat, NEW P, P \subseteq 1..n, \A i \in P : \A j \in 1..i : j \in P
    PROVE  Cardinality(P) \in 0..n /\ P = 1..Cardinality(P)
<1>1. CASE P = {}
  BY <1>1, FS_EmptySet
<1>2. CASE P # {}
  <2>1. PICK m \in P : \A k \in P : k <= m
    <3>1. P \subseteq 0..n
      OBVIOUS
    <3> QED BY <1>2, <3>1, MaxExists
  <2>2. P = 1..m /\ m \in Nat /\ m <= n
    <3>1. \A j \in 1..m : j \in P
      BY <2>1
    <3>2. m \in Nat /\ m <= n /\ \A j \in P : j \in 1..m
      BY <2>1
    <3>3. P \subseteq 1..m /\ 1..m \subseteq P
      BY <3>1, <3>2
    <3> QED BY <3>2, <3>3
  <2>3. Cardinality(P) = m
    <3>1. Cardinality(1..m) = m
      BY <2>2, FS_Interval
    <3> QED BY <2>2, <3>1
  <2> QED BY <2>2, <2>3
<1> QED BY <1>1, <1>2

-----------------------------------------------------------------------------
(* The multimap.                                                           *)

OneEach(s) == \A i, j \in 1..Len(s) : s[i] = s[j] => i = j
Sorted(s, at) == \A i, j \in 1..Len(s) : i < j => at[s[i]] <= at[s[j]]
Occurs(e, s) == \E i \in 1..Len(s) : s[i] = e

\* Three ways to say that an event is in a sequence.
LEMMA OccursRange ==
    ASSUME NEW S, NEW s \in Seq(S), NEW e
    PROVE  (e \in Range(s) <=> Occurs(e, s)) /\ (e \in ToSet(s) <=> Occurs(e, s))
BY DEF Range, ToSet, Occurs

\* An event of its own goes where the multimap stays sorted.
LEMMA InsertKeeps ==
    ASSUME NEW s \in Seq(Events), NEW at \in [Events -> Nat], NEW e \in Events,
           OneEach(s), Sorted(s, at), ~Occurs(e, s)
    PROVE  /\ Insert(s, at, e) \in Seq(Events)
           /\ Len(Insert(s, at, e)) = Len(s) + 1
           /\ OneEach(Insert(s, at, e))
           /\ Sorted(Insert(s, at, e), at)
           /\ \A d : Occurs(d, Insert(s, at, e)) <=> d = e \/ Occurs(d, s)
<1> DEFINE n == UpTo(s, at, at[e])
           t == Insert(s, at, e)
<1>1. n \in 0..Len(s) /\ \A i \in 1..Len(s) : i <= n <=> at[s[i]] <= at[e]
  <2> DEFINE P == {i \in 1..Len(s) : at[s[i]] <= at[e]}
  <2>0. \A i \in 1..Len(s) : s[i] \in Events /\ at[s[i]] \in Nat
    OBVIOUS
  <2>1. \A i \in P : \A j \in 1..i : j \in P
    <3> SUFFICES ASSUME NEW i \in P, NEW j \in 1..i PROVE j \in P
      OBVIOUS
    <3>1. j \in 1..Len(s) /\ (j = i \/ j < i)
      OBVIOUS
    <3>2. at[s[j]] <= at[s[i]] /\ at[s[i]] <= at[e] /\ at[e] \in Nat
      BY <2>0, <3>1 DEF Sorted
    <3> QED BY <2>0, <3>1, <3>2
  <2>2. P \subseteq 1..Len(s) /\ Len(s) \in Nat
    OBVIOUS
  <2>3. n = Cardinality(P)
    BY DEF UpTo
  <2> HIDE DEF P, n
  <2>4. n \in 0..Len(s) /\ P = 1..n
    BY <2>1, <2>2, <2>3, PrefixCount
  <2> QED BY <2>4, SMTT(30) DEF P
<1> HIDE DEF n
<1>2. /\ t \in Seq(Events) /\ Len(t) = Len(s) + 1
      /\ \A j \in 1..n : t[j] = s[j]
      /\ t[n + 1] = e
      /\ \A j \in (n + 1)..Len(s) : t[j + 1] = s[j]
  <2>1. PICK i \in 1..(Len(s) + 1) : i = n + 1 /\ i - 1 = n
    BY <1>1
  <2>2. /\ InsertAt(s, i, e) \in Seq(Events) /\ Len(InsertAt(s, i, e)) = Len(s) + 1
        /\ \A j \in 1..(i - 1) : InsertAt(s, i, e)[j] = s[j]
        /\ InsertAt(s, i, e)[i] = e
        /\ \A j \in i..Len(s) : InsertAt(s, i, e)[j + 1] = s[j]
    BY Inserted
  <2>3. t = InsertAt(s, i, e)
    BY <2>1 DEF Insert, n
  <2> HIDE DEF t
  <2> QED BY <2>1, <2>2, <2>3
<1> HIDE DEF t
<1>3. /\ Len(s) \in Nat /\ n \in Nat /\ Len(t) = Len(s) + 1 /\ at[e] \in Nat
      /\ \A j \in 1..Len(s) : s[j] \in Events /\ at[s[j]] \in Nat /\ s[j] # e
  BY <1>1, <1>2 DEF Occurs
<1>4. \A j \in 1..Len(t) : j # n + 1 =>
         \E k \in 1..Len(s) : /\ t[j] = s[k]
                              /\ \/ j <= n /\ k = j
                                 \/ j > n + 1 /\ k = j - 1
  <2> SUFFICES ASSUME NEW j \in 1..Len(t), j # n + 1
               PROVE  \E k \in 1..Len(s) : /\ t[j] = s[k]
                                           /\ \/ j <= n /\ k = j
                                              \/ j > n + 1 /\ k = j - 1
    OBVIOUS
  <2>1. CASE j <= n
    <3>1. j \in 1..Len(s) /\ j \in 1..n
      BY <1>1, <1>3, <2>1
    <3> QED BY <1>2, <2>1, <3>1
  <2>2. CASE j > n + 1
    <3> DEFINE k == j - 1
    <3>1. k \in (n + 1)..Len(s) /\ k \in 1..Len(s) /\ k + 1 = j
      BY <1>1, <1>3, <2>2
    <3>2. t[k + 1] = s[k]
      BY <1>2, <3>1
    <3> QED BY <2>2, <3>1, <3>2
  <2> QED BY <1>3, <2>1, <2>2
<1>5. ASSUME NEW i \in 1..Len(t), NEW j \in 1..Len(t)
      PROVE  (t[i] = t[j] => i = j) /\ (i < j => at[t[i]] <= at[t[j]])
  <2>1. CASE i = n + 1 /\ j = n + 1
    BY <1>2, <1>3, <2>1
  <2>2. CASE i = n + 1 /\ j # n + 1
    <3>1. PICK k \in 1..Len(s) : t[j] = s[k] /\ ((j <= n /\ k = j) \/ (j > n + 1 /\ k = j - 1))
      BY <1>4, <2>2
    <3>2. i < j => at[e] <= at[s[k]]
      <4>1. i < j => ~(k <= n)
        BY <1>3, <2>2, <3>1
      <4> QED BY <1>1, <1>3, <4>1
    <3> QED BY <1>2, <1>3, <2>2, <3>1, <3>2
  <2>3. CASE i # n + 1 /\ j = n + 1
    <3>1. PICK k \in 1..Len(s) : t[i] = s[k] /\ ((i <= n /\ k = i) \/ (i > n + 1 /\ k = i - 1))
      BY <1>4, <2>3
    <3>2. i < j => at[s[k]] <= at[e]
      <4>1. i < j => k <= n
        BY <1>3, <2>3, <3>1
      <4> QED BY <1>1, <1>3, <4>1
    <3> QED BY <1>2, <1>3, <2>3, <3>1, <3>2
  <2>4. CASE i # n + 1 /\ j # n + 1
    <3>1. PICK k \in 1..Len(s) : t[i] = s[k] /\ ((i <= n /\ k = i) \/ (i > n + 1 /\ k = i - 1))
      BY <1>4, <2>4
    <3>2. PICK m \in 1..Len(s) : t[j] = s[m] /\ ((j <= n /\ m = j) \/ (j > n + 1 /\ m = j - 1))
      BY <1>4, <2>4
    <3>3. (k = m => i = j) /\ (i < j => k < m)
      BY <1>3, <3>1, <3>2
    <3>4. (s[k] = s[m] => k = m) /\ (k < m => at[s[k]] <= at[s[m]])
      BY DEF OneEach, Sorted
    <3> QED BY <3>1, <3>2, <3>3, <3>4
  <2> QED BY <2>1, <2>2, <2>3, <2>4
<1>6. OneEach(t) /\ Sorted(t, at)
  BY <1>5 DEF OneEach, Sorted
<1>7. \A d : Occurs(d, t) <=> d = e \/ Occurs(d, s)
  <2>1. ASSUME NEW d, Occurs(d, t) PROVE d = e \/ Occurs(d, s)
    <3>1. PICK j \in 1..Len(t) : t[j] = d
      BY <2>1 DEF Occurs
    <3>2. j # n + 1 => \E k \in 1..Len(s) : t[j] = s[k]
      BY <1>4
    <3> QED BY <1>2, <3>1, <3>2 DEF Occurs
  <2>2. Occurs(e, t)
    <3>1. n + 1 \in 1..Len(t)
      BY <1>1, <1>2
    <3> QED BY <1>2, <3>1 DEF Occurs
  <2>3. ASSUME NEW j \in 1..Len(s) PROVE Occurs(s[j], t)
    <3>1. CASE j <= n
      <4>1. j \in 1..n /\ j \in 1..Len(t)
        BY <1>1, <1>2, <3>1
      <4> QED BY <1>2, <4>1 DEF Occurs
    <3>2. CASE j > n
      <4>1. j \in (n + 1)..Len(s) /\ j + 1 \in 1..Len(t)
        BY <1>1, <1>2, <3>2
      <4> QED BY <1>2, <4>1 DEF Occurs
    <3> QED BY <1>1, <3>1, <3>2
  <2> QED BY <2>1, <2>2, <2>3 DEF Occurs
<1> QED BY <1>2, <1>6, <1>7 DEF t

\* An event less leaves the others as they are.
LEMMA RemoveKeeps ==
    ASSUME NEW s \in Seq(Events), NEW at \in [Events -> Nat], NEW i \in 1..Len(s),
           OneEach(s), Sorted(s, at)
    PROVE  /\ RemoveAt(s, i) \in Seq(Events)
           /\ OneEach(RemoveAt(s, i))
           /\ Sorted(RemoveAt(s, i), at)
           /\ \A d : Occurs(d, RemoveAt(s, i)) <=> d # s[i] /\ Occurs(d, s)
<1> DEFINE t == RemoveAt(s, i)
<1>1. /\ t \in Seq(Events) /\ Len(t) = Len(s) - 1
      /\ \A j \in 1..(i - 1) : t[j] = s[j]
      /\ \A j \in i..(Len(s) - 1) : t[j] = s[j + 1]
  BY Removed
<1> HIDE DEF t
<1>0. Len(s) \in Nat /\ i \in Nat /\ Len(t) \in Nat /\ \A j \in 1..Len(s) : s[j] \in Events
  BY <1>1
<1>2. \A j \in 1..Len(t) : \E k \in 1..Len(s) :
         k # i /\ t[j] = s[k] /\ ((j < i /\ k = j) \/ (j >= i /\ k = j + 1))
  <2> SUFFICES ASSUME NEW j \in 1..Len(t)
               PROVE  \E k \in 1..Len(s) :
                         k # i /\ t[j] = s[k] /\ ((j < i /\ k = j) \/ (j >= i /\ k = j + 1))
    OBVIOUS
  <2>1. CASE j < i
    <3>1. j \in 1..(i - 1) /\ j \in 1..Len(s)
      BY <1>0, <1>1, <2>1
    <3> QED BY <1>1, <2>1, <3>1
  <2>2. CASE ~(j < i)
    <3>1. j \in i..(Len(s) - 1) /\ j + 1 \in 1..Len(s) /\ j + 1 # i
      BY <1>0, <1>1, <2>2, SMTT(30)
    <3> QED BY <1>1, <2>2, <3>1
  <2> QED BY <2>1, <2>2
<1>3. ASSUME NEW k \in 1..Len(s), k # i
      PROVE  \E j \in 1..Len(t) : t[j] = s[k]
  <2>1. CASE k < i
    <3>1. k \in 1..(i - 1) /\ k \in 1..Len(t)
      BY <1>0, <1>1, <2>1
    <3> QED BY <1>1, <3>1
  <2>2. CASE k > i
    <3> DEFINE j == k - 1
    <3>1. j \in i..(Len(s) - 1) /\ j \in 1..Len(t) /\ j + 1 = k
      BY <1>0, <1>1, <2>2
    <3>2. t[j] = s[k]
      BY <1>1, <3>1
    <3> QED BY <3>1, <3>2
  <2> QED BY <1>0, <1>3, <2>1, <2>2
<1>4. ASSUME NEW j \in 1..Len(t), NEW k \in 1..Len(t)
      PROVE  (t[j] = t[k] => j = k) /\ (j < k => at[t[j]] <= at[t[k]])
  <2>1. PICK x \in 1..Len(s) : t[j] = s[x] /\ ((j < i /\ x = j) \/ (j >= i /\ x = j + 1))
    BY <1>2
  <2>2. PICK y \in 1..Len(s) : t[k] = s[y] /\ ((k < i /\ y = k) \/ (k >= i /\ y = k + 1))
    BY <1>2
  <2>3. (x = y => j = k) /\ (j < k => x < y)
    BY <1>0, <2>1, <2>2, SMTT(30)
  <2>4. t[j] = t[k] => x = y
    BY <2>1, <2>2 DEF OneEach
  <2>5. x < y => at[t[j]] <= at[t[k]]
    BY <2>1, <2>2 DEF Sorted
  <2> QED BY <2>3, <2>4, <2>5
<1>5. ASSUME NEW d PROVE Occurs(d, t) <=> d # s[i] /\ Occurs(d, s)
  <2>1. ASSUME Occurs(d, t) PROVE d # s[i] /\ Occurs(d, s)
    <3>1. PICK j \in 1..Len(t) : t[j] = d
      BY <2>1 DEF Occurs
    <3>2. PICK k \in 1..Len(s) : k # i /\ t[j] = s[k]
      BY <1>2
    <3>3. s[k] # s[i]
      BY <3>2 DEF OneEach
    <3> QED BY <3>1, <3>2, <3>3 DEF Occurs
  <2>2. ASSUME d # s[i], Occurs(d, s) PROVE Occurs(d, t)
    BY <1>3, <2>2 DEF Occurs
  <2> QED BY <2>1, <2>2
<1>6. OneEach(t) /\ Sorted(t, at)
  BY <1>4 DEF OneEach, Sorted
<1> QED BY <1>1, <1>5, <1>6 DEF t

\* A sequence is made of its beginning and its rest.
LEMMA Divided ==
    ASSUME NEW s \in Seq(Events), NEW n \in 0..Len(s), OneEach(s)
    PROVE  LET a == SubSeq(s, 1, n)
               b == SubSeq(s, n + 1, Len(s))
           IN  /\ a \in Seq(Events) /\ Len(a) = n /\ \A i \in 1..n : a[i] = s[i]
               /\ b \in Seq(Events)
               /\ OneEach(a) /\ OneEach(b)
               /\ \A at \in [Events -> Nat] : Sorted(s, at) => Sorted(b, at)
               /\ \A d : Occurs(d, s) <=> Occurs(d, a) \/ Occurs(d, b)
               /\ \A d : ~(Occurs(d, a) /\ Occurs(d, b))
<1> DEFINE a == SubSeq(s, 1, n)
           b == SubSeq(s, n + 1, Len(s))
<1>1. /\ a \in Seq(Events) /\ Len(a) = n /\ \A i \in 1..n : a[i] = s[i]
      /\ b \in Seq(Events) /\ Len(b) = Len(s) - n /\ \A i \in 1..Len(b) : b[i] = s[i + n]
      /\ Len(s) \in Nat /\ n \in Nat /\ n <= Len(s)
  OBVIOUS
<1> HIDE DEF a, b
<1>2. \A i \in 1..Len(b) : i + n \in 1..Len(s) /\ i + n > n
  BY <1>1
<1>3. \A i \in 1..n : i \in 1..Len(s) /\ i <= n
  BY <1>1
<1>4. OneEach(a)
  BY <1>1, <1>3 DEF OneEach
<1>5. OneEach(b)
  <2> SUFFICES ASSUME NEW i \in 1..Len(b), NEW j \in 1..Len(b), b[i] = b[j] PROVE i = j
    BY DEF OneEach
  <2>1. i + n = j + n
    BY <1>1, <1>2, ZenonT(60) DEF OneEach
  <2> QED BY <1>1, <2>1
<1>6. ASSUME NEW at \in [Events -> Nat], Sorted(s, at) PROVE Sorted(b, at)
  <2> SUFFICES ASSUME NEW i \in 1..Len(b), NEW j \in 1..Len(b), i < j
               PROVE  at[b[i]] <= at[b[j]]
    BY DEF Sorted
  <2>1. i + n < j + n
    BY <1>1
  <2> QED BY <1>1, <1>2, <1>6, <2>1 DEF Sorted
<1>7. ASSUME NEW d, Occurs(d, s) PROVE Occurs(d, a) \/ Occurs(d, b)
  <2>1. PICK i \in 1..Len(s) : s[i] = d
    BY <1>7 DEF Occurs
  <2>2. CASE i <= n
    <3>1. i \in 1..n
      BY <1>1, <2>2
    <3> QED BY <1>1, <2>1, <3>1 DEF Occurs
  <2>3. CASE i > n
    <3>1. i - n \in 1..Len(b) /\ (i - n) + n = i
      BY <1>1, <2>3
    <3>2. b[i - n] = s[i]
      BY <1>1, <3>1
    <3> QED BY <2>1, <3>1, <3>2 DEF Occurs
  <2> QED BY <1>1, <2>2, <2>3
<1>8. ASSUME NEW d, Occurs(d, a) \/ Occurs(d, b) PROVE Occurs(d, s)
  BY <1>1, <1>2, <1>3, <1>8 DEF Occurs
<1>9. ASSUME NEW d, Occurs(d, a), Occurs(d, b) PROVE FALSE
  <2>1. PICK i \in 1..n : s[i] = d
    BY <1>1, <1>9 DEF Occurs
  <2>2. PICK j \in 1..Len(b) : s[j + n] = d
    BY <1>1, <1>9 DEF Occurs
  <2>3. i = j + n
    BY <1>2, <1>3, <2>1, <2>2 DEF OneEach
  <2> QED BY <1>2, <1>3, <2>3
<1> QED BY <1>1, <1>4, <1>5, <1>6, <1>7, <1>8, <1>9 DEF a, b

\* The first of a sequence, and the rest.
LEMMA Shortened ==
    ASSUME NEW s \in Seq(Events), s # <<>>
    PROVE  /\ Head(s) \in Events /\ Occurs(Head(s), s)
           /\ Tail(s) \in Seq(Events)
           /\ \A d : Occurs(d, s) <=> d = Head(s) \/ Occurs(d, Tail(s))
           /\ OneEach(s) => OneEach(Tail(s)) /\ ~Occurs(Head(s), Tail(s))
<1> DEFINE t == Tail(s)
<1>1. /\ t \in Seq(Events) /\ Len(t) = Len(s) - 1 /\ \A i \in 1..Len(t) : t[i] = s[i + 1]
      /\ Head(s) = s[1] /\ 1 \in 1..Len(s) /\ Len(s) \in Nat /\ Head(s) \in Events
  OBVIOUS
<1> HIDE DEF t
<1>2. \A i \in 1..Len(t) : i + 1 \in 1..Len(s) /\ i + 1 # 1
  BY <1>1
<1>3. \A i \in 1..Len(s) : i # 1 => \E j \in 1..Len(t) : t[j] = s[i]
  <2> SUFFICES ASSUME NEW i \in 1..Len(s), i # 1 PROVE \E j \in 1..Len(t) : t[j] = s[i]
    OBVIOUS
  <2>1. i - 1 \in 1..Len(t) /\ (i - 1) + 1 = i
    BY <1>1
  <2>2. t[i - 1] = s[i]
    BY <1>1, <2>1
  <2> QED BY <2>1, <2>2
<1>4. \A d : Occurs(d, s) <=> d = Head(s) \/ Occurs(d, t)
  BY <1>1, <1>2, <1>3, SMTT(30) DEF Occurs
<1>5. OneEach(s) => OneEach(t) /\ ~Occurs(Head(s), t)
  <2>1. ASSUME OneEach(s), NEW i \in 1..Len(t), NEW j \in 1..Len(t), t[i] = t[j] PROVE i = j
    <3>1. i + 1 = j + 1
      BY <1>1, <1>2, <2>1 DEF OneEach
    <3> QED BY <1>1, <3>1
  <2>2. ASSUME OneEach(s), NEW i \in 1..Len(t) PROVE t[i] # Head(s)
    BY <1>1, <1>2, <2>2 DEF OneEach
  <2> QED BY <2>1, <2>2 DEF OneEach, Occurs
<1> QED BY <1>1, <1>4, <1>5 DEF t, Occurs

-----------------------------------------------------------------------------
(* The timer.                                                              *)

TimerTypes ==
    /\ now \in Nat
    /\ pending \in Seq(Events)
    /\ arrive \in [Events -> Nat]
    /\ interval \in [Events -> Nat]
    /\ armed \in Nat \cup {Off}
    /\ pc \in {"idle", "task", "reset", "collect", "again", "run"}
    /\ back \in {"idle", "task", "run"}
    /\ seen \in Nat /\ seen <= now
    /\ again \in Seq(Events)
    /\ todo \in Seq(Events)
    /\ state \in [Events -> {"new", "added", "collected", "deleted"}]

\* A pending event was added and not deleted, and is where its time belongs; a repeated one
\* that was collected is not pending until it goes back.
Placed ==
    /\ OneEach(pending) /\ Sorted(pending, arrive)
    /\ \A e \in Events : Occurs(e, pending) => state[e] = "added"
    /\ OneEach(again)
    /\ pc # "again" => again = <<>>
    /\ \A e \in Repeated : Occurs(e, again) => state[e] = "added" /\ ~Occurs(e, pending)

\* A collected task is due.  Its event is not pending unless it is repeated, and if it was
\* deleted that was after it had been collected.
Collected ==
    /\ OneEach(todo)
    /\ \A e \in Events : Occurs(e, todo) =>
          /\ state[e] # "new"
          /\ e \notin Repeated => state[e] \in {"collected", "deleted"} /\ arrive[e] <= now
          /\ state[e] = "deleted" => e \in late

NotLost ==
    \A e \in Events :
        state[e] = "added" /\ e \notin victims =>
            Occurs(e, pending) \/ (e \in Repeated /\ Occurs(e, again))

TimerInv == TimerTypes /\ Placed /\ Collected /\ NotLost

\* Steps in which no event moves.
LEMMA NoneMoves ==
    ASSUME TimerInv, TimerTypes',
           UNCHANGED <<pending, arrive, again, todo, state, victims, late>>,
           now' >= now,
           pc' = "again" \/ pc # "again" \/ again = <<>>
    PROVE  TimerInv'
<1>1. Placed'
  BY DEF TimerInv, Placed
<1>2. Collected'
  BY DEF TimerInv, TimerTypes, Collected
<1>3. NotLost'
  BY DEF TimerInv, NotLost
<1> QED BY <1>1, <1>2, <1>3 DEF TimerInv

\* Steps that leave the events where they are, at the times they have.
LEMMA StillKeeps ==
    ASSUME TimerInv,
           \/ ResetArriveTime \/ Tick \/ Report \/ OnTimer \/ AfterRepeat
           \/ TaskReturn \/ OnTimerEnd
    PROVE  TimerInv'
<1> USE DEF TimerInv, TimerTypes, timerfd, control, hist
<1>1. CASE ResetArriveTime
  <2>1. \A i \in 1..Len(pending) : arrive[pending[i]] \in Nat
    OBVIOUS
  <2>2. pending # <<>> => Len(pending) \in 1..Len(pending)
    OBVIOUS
  <2>3. armed' \in Nat \cup {Off}
    BY <1>1, <2>1, <2>2 DEF ResetArriveTime
  <2> QED BY <1>1, <2>3, NoneMoves DEF ResetArriveTime
<1>2. CASE Tick
  BY <1>2, NoneMoves DEF Tick
<1>3. CASE Report
  BY <1>3, NoneMoves DEF Report
<1>4. CASE OnTimer
  BY <1>4, NoneMoves DEF OnTimer
<1>5. CASE AfterRepeat
  BY <1>5, NoneMoves DEF AfterRepeat
<1>6. CASE TaskReturn
  BY <1>6, NoneMoves DEF TaskReturn
<1>7. CASE OnTimerEnd
  BY <1>7, NoneMoves DEF OnTimerEnd
<1> QED BY <1>1, <1>2, <1>3, <1>4, <1>5, <1>6, <1>7

\* A new event is put among the others.
LEMMA AddKeeps ==
    ASSUME TimerInv, NEW e \in Events, NEW i \in Nat, AddTimerEvent(e, i)
    PROVE  /\ TimerInv' /\ \A d : Occurs(d, pending') <=> d = e \/ Occurs(d, pending)
           /\ UNCHANGED <<todo, now>>
           /\ state' = [state EXCEPT ![e] = "added"]
           /\ arrive' = [arrive EXCEPT ![e] = now + i]
<1>1. /\ state[e] = "new" /\ Calling
      /\ state' = [state EXCEPT ![e] = "added"]
      /\ interval' = [interval EXCEPT ![e] = i]
      /\ arrive' = [arrive EXCEPT ![e] = now + i]
      /\ pending' = Insert(pending, arrive', e)
      /\ pc' \in {pc, "reset"} /\ back' \in {back, pc}
      /\ UNCHANGED <<now, armed, seen, again, todo, victims, late>>
  BY DEF AddTimerEvent, timerfd
<1>2. ~Occurs(e, pending) /\ ~Occurs(e, todo)
  BY <1>1 DEF TimerInv, Placed, Collected
<1>3. /\ arrive' \in [Events -> Nat]
      /\ arrive'[e] = now + i /\ \A d \in Events \ {e} : arrive'[d] = arrive[d]
      /\ state' \in [Events -> {"new", "added", "collected", "deleted"}]
      /\ state'[e] = "added" /\ \A d \in Events \ {e} : state'[d] = state[d]
  BY <1>1 DEF TimerInv, TimerTypes
<1>4. Sorted(pending, arrive')
  <2>1. \A j \in 1..Len(pending) : pending[j] \in Events \ {e}
    BY <1>2 DEF TimerInv, TimerTypes, Occurs
  <2> QED BY <1>3, <2>1 DEF TimerInv, Placed, Sorted
<1>5. /\ pending' \in Seq(Events) /\ OneEach(pending') /\ Sorted(pending', arrive')
      /\ \A d : Occurs(d, pending') <=> d = e \/ Occurs(d, pending)
  BY <1>1, <1>2, <1>3, <1>4, InsertKeeps DEF TimerInv, TimerTypes, Placed
<1>6. TimerTypes'
  BY <1>1, <1>3, <1>5 DEF TimerInv, TimerTypes, Calling
<1>7. again = <<>> /\ \A d : ~Occurs(d, again)
  BY <1>1 DEF TimerInv, Placed, Calling, Occurs
<1>8. Placed'
  BY <1>1, <1>3, <1>5, <1>7 DEF TimerInv, Placed
<1>9. Collected' /\ NotLost'
  BY <1>1, <1>2, <1>3, <1>5 DEF TimerInv, Collected, NotLost
<1> QED BY <1>1, <1>5, <1>6, <1>8, <1>9 DEF TimerInv

\* Deleting an event erases it, or another one, or none.
LEMMA DelKeeps ==
    ASSUME TimerInv, NEW e \in Events, DelTimerEvent(e)
    PROVE  /\ TimerInv' /\ \A d : Occurs(d, pending') => Occurs(d, pending)
           /\ UNCHANGED <<arrive, todo, now>>
           /\ state' = [state EXCEPT ![e] = "deleted"]
<1> DEFINE i == ErasedPosition(e)
<1>1. /\ state[e] \in {"added", "collected"} /\ Calling
      /\ state' = [state EXCEPT ![e] = "deleted"]
      /\ i <= Len(pending) => /\ pending' = RemoveAt(pending, i)
                              /\ victims' = victims \cup ({pending[i]} \ {e})
      /\ ~(i <= Len(pending)) => UNCHANGED <<pending, victims>>
      /\ late' = IF e \in Range(todo) THEN late \cup {e} ELSE late
      /\ UNCHANGED <<now, arrive, interval, armed, pc, back, seen, again, todo>>
  BY DEF DelTimerEvent, timerfd, control
<1>2. i \in Nat \ {0} /\ (Occurs(e, pending) => i <= Len(pending) /\ pending[i] = e)
  <2>1. CASE Occurs(e, pending)
    <3>1. \E j \in 1..Len(pending) : pending[j] = e
      BY <2>1 DEF Occurs
    <3>2. e \in Range(pending)
      BY <2>1, OccursRange DEF TimerInv, TimerTypes
    <3>3. i = CHOOSE j \in 1..Len(pending) : pending[j] = e
      BY <3>2 DEF ErasedPosition
    <3> HIDE DEF i
    <3>4. i \in 1..Len(pending) /\ pending[i] = e
      BY <3>1, <3>3
    <3> QED BY <3>4 DEF TimerInv, TimerTypes
  <2>2. CASE ~Occurs(e, pending)
    <3> DEFINE P == {j \in 1..Len(pending) : arrive[pending[j]] <= arrive[e]}
    <3>1. IsFiniteSet(P)
      <4>1. IsFiniteSet(1..Len(pending))
        BY FS_Interval DEF TimerInv, TimerTypes
      <4> QED BY <4>1, FS_Subset
    <3>2. Cardinality(P) \in Nat
      BY <3>1, FS_CardinalityType
    <3>3. e \notin Range(pending)
      BY <2>2, OccursRange DEF TimerInv, TimerTypes
    <3>4. i = Cardinality(P) + 1
      BY <3>3 DEF ErasedPosition, UpTo
    <3> HIDE DEF P, i
    <3> QED BY <2>2, <3>2, <3>4
  <2> QED BY <2>1, <2>2
<1> HIDE DEF i
<1>3. /\ pending' \in Seq(Events) /\ OneEach(pending') /\ Sorted(pending', arrive)
      /\ \A d : Occurs(d, pending') => Occurs(d, pending) /\ d # e
      /\ \A d : d # e /\ Occurs(d, pending) => d \in victims' \/ Occurs(d, pending')
      /\ victims \subseteq victims'
  <2>0. pending \in Seq(Events) /\ arrive \in [Events -> Nat]
        /\ OneEach(pending) /\ Sorted(pending, arrive) /\ Len(pending) \in Nat
    BY DEF TimerInv, TimerTypes, Placed
  <2>1. CASE i <= Len(pending)
    <3>1. i \in 1..Len(pending)
      BY <1>2, <2>0, <2>1
    <3>2. /\ pending' \in Seq(Events) /\ OneEach(pending') /\ Sorted(pending', arrive)
          /\ \A d : Occurs(d, pending') <=> d # pending[i] /\ Occurs(d, pending)
      BY <1>1, <2>0, <2>1, <3>1, RemoveKeeps
    <3> QED BY <1>1, <1>2, <2>1, <3>2
  <2>2. CASE ~(i <= Len(pending))
    BY <1>1, <1>2, <2>0, <2>2
  <2> QED BY <2>1, <2>2
<1>4. /\ state' \in [Events -> {"new", "added", "collected", "deleted"}]
      /\ state'[e] = "deleted" /\ \A d \in Events \ {e} : state'[d] = state[d]
  BY <1>1 DEF TimerInv, TimerTypes
<1>5. TimerTypes'
  BY <1>1, <1>3, <1>4 DEF TimerInv, TimerTypes
<1>6. again = <<>> /\ \A d : ~Occurs(d, again)
  BY <1>1 DEF TimerInv, Placed, Calling, Occurs
<1>7. Placed'
  BY <1>1, <1>3, <1>4, <1>6 DEF TimerInv, Placed
<1>8. Collected'
  <2>1. e \in Range(todo) <=> Occurs(e, todo)
    BY OccursRange DEF TimerInv, TimerTypes
  <2>2. late \subseteq late' /\ (Occurs(e, todo) => e \in late')
    BY <1>1, <2>1
  <2>3. Occurs(e, todo) /\ e \notin Repeated => arrive[e] <= now
    BY DEF TimerInv, Collected
  <2> SUFFICES ASSUME NEW d \in Events, Occurs(d, todo)
               PROVE  /\ state'[d] # "new"
                      /\ d \notin Repeated =>
                           state'[d] \in {"collected", "deleted"} /\ arrive[d] <= now
                      /\ state'[d] = "deleted" => d \in late'
    BY <1>1 DEF TimerInv, Collected
  <2>4. CASE d = e
    BY <1>4, <2>2, <2>3, <2>4
  <2>5. CASE d # e
    BY <1>4, <2>2, <2>5 DEF TimerInv, Collected
  <2> QED BY <2>4, <2>5
<1>9. NotLost'
  BY <1>1, <1>3, <1>4, <1>6 DEF TimerInv, NotLost
<1> QED BY <1>1, <1>3, <1>5, <1>7, <1>8, <1>9 DEF TimerInv

\* The collected events are the first of the multimap, and due.
LEMMA CollectKeeps ==
    ASSUME TimerInv, Collect
    PROVE  /\ TimerInv'
           /\ \A d : Occurs(d, pending') \/ Occurs(d, todo') => Occurs(d, pending)
           /\ UNCHANGED <<arrive, now>>
           /\ \A d \in Events : state'[d] # "new" <=> state[d] # "new"
<1> DEFINE n == DueCount
<1>1. /\ pc = "collect" /\ pc' = "again"
      /\ again' = SubSeq(pending, 1, n)
      /\ todo' = SubSeq(pending, 1, n)
      /\ pending' = SubSeq(pending, n + 1, Len(pending))
      /\ state' = [e \in Events |->
                     IF e \in Range(todo') \ Repeated THEN "collected" ELSE state[e]]
      /\ UNCHANGED <<now, arrive, interval, armed, back, seen, victims, late>>
  BY DEF Collect, timerfd
<1>2. n \in 0..Len(pending) /\ \A i \in 1..n : arrive[pending[i]] <= seen
  <2>1. Len(pending) \in Nat /\ Due \subseteq 0..Len(pending) /\ 0 \in Due
    BY DEF TimerInv, TimerTypes, Due
  <2>2. \E k \in Due : \A m \in Due : m <= k
    <3> HIDE DEF Due
    <3>1. Due # {}
      BY <2>1
    <3> QED BY <2>1, <3>1, MaxExists
  <2>3. n \in Due
    BY <2>2 DEF DueCount
  <2> HIDE DEF n
  <2> QED BY <2>3 DEF Due
<1> HIDE DEF n
<1>3. /\ again' = todo' /\ todo' \in Seq(Events)
      /\ Len(todo') = n /\ \A i \in 1..n : todo'[i] = pending[i]
      /\ pending' \in Seq(Events)
      /\ OneEach(todo') /\ OneEach(pending')
      /\ Sorted(pending', arrive)
      /\ \A d : Occurs(d, pending) <=> Occurs(d, todo') \/ Occurs(d, pending')
      /\ \A d : ~(Occurs(d, todo') /\ Occurs(d, pending'))
  <2>1. pending \in Seq(Events) /\ OneEach(pending) /\ Sorted(pending, arrive)
        /\ arrive \in [Events -> Nat]
    BY DEF TimerInv, TimerTypes, Placed
  <2> QED BY <1>1, <1>2, <2>1, Divided
<1>4. \A d \in Events : d \in Range(todo') <=> Occurs(d, todo')
  BY <1>3, OccursRange
<1>5. \A d \in Events : Occurs(d, pending) => state[d] = "added"
  BY DEF TimerInv, Placed
<1>6. \A d \in Events : Occurs(d, todo') => arrive[d] <= now
  <2> SUFFICES ASSUME NEW d \in Events, NEW i \in 1..n, pending[i] = d PROVE arrive[d] <= now
    BY <1>3 DEF Occurs
  <2> QED BY <1>2 DEF TimerInv, TimerTypes
<1>7. TimerTypes'
  <2>1. state' \in [Events -> {"new", "added", "collected", "deleted"}]
    BY <1>1 DEF TimerInv, TimerTypes
  <2> QED BY <1>1, <1>3, <2>1 DEF TimerInv, TimerTypes
<1>8. \A d \in Events : state'[d] =
         IF Occurs(d, todo') /\ d \notin Repeated THEN "collected" ELSE state[d]
  BY <1>1, <1>4
<1>9. Placed'
  BY <1>1, <1>3, <1>5, <1>8, RepeatedAssumption DEF Placed
<1>10. Collected'
  BY <1>1, <1>3, <1>5, <1>6, <1>8 DEF Collected
<1>11. NotLost'
  <2>1. \A d : ~Occurs(d, again)
    BY <1>1 DEF TimerInv, Placed, Occurs
  <2> QED BY <1>1, <1>3, <1>8, <2>1 DEF TimerInv, NotLost
<1> QED BY <1>1, <1>3, <1>5, <1>7, <1>8, <1>9, <1>10, <1>11 DEF TimerInv

\* A repeated event goes back among the others, with another time.
LEMMA RepeatKeeps ==
    ASSUME TimerInv, Repeat
    PROVE  /\ TimerInv'
           /\ \A d : Occurs(d, pending') => d \in Repeated \/ Occurs(d, pending)
           /\ \A d \in Events \ Repeated : arrive'[d] = arrive[d]
           /\ UNCHANGED <<todo, now, state>>
<1> DEFINE e == Head(again)
<1>1. /\ pc = "again" /\ again # <<>>
      /\ e \in Repeated => /\ arrive' = [arrive EXCEPT ![e] = now + interval[e]]
                           /\ pending' = Insert(pending, arrive', e)
      /\ e \notin Repeated => UNCHANGED <<arrive, pending>>
      /\ again' = Tail(again)
      /\ UNCHANGED <<now, interval, armed, pc, back, seen, todo, state, victims, late>>
  BY DEF Repeat, timerfd, hist
<1>2. /\ e \in Events /\ Occurs(e, again) /\ again' \in Seq(Events) /\ OneEach(again')
      /\ \A d : Occurs(d, again) <=> d = e \/ Occurs(d, again')
      /\ ~Occurs(e, again')
  BY <1>1, Shortened DEF TimerInv, TimerTypes, Placed
<1> HIDE DEF e
<1>3. CASE e \notin Repeated
  <2>1. TimerTypes'
    BY <1>1, <1>2, <1>3 DEF TimerInv, TimerTypes
  <2>2. Placed'
    BY <1>1, <1>2, <1>3 DEF TimerInv, Placed
  <2>3. Collected'
    BY <1>1, <1>3 DEF TimerInv, Collected
  <2>4. NotLost'
    BY <1>1, <1>2, <1>3 DEF TimerInv, NotLost
  <2> QED BY <1>1, <1>3, <2>1, <2>2, <2>3, <2>4 DEF TimerInv
<1>4. CASE e \in Repeated
  <2>1. ~Occurs(e, pending) /\ state[e] = "added"
    BY <1>2, <1>4 DEF TimerInv, Placed
  <2>2. /\ arrive' \in [Events -> Nat]
        /\ \A d \in Events \ {e} : arrive'[d] = arrive[d]
    BY <1>1, <1>2, <1>4 DEF TimerInv, TimerTypes
  <2>3. Sorted(pending, arrive')
    <3>1. \A j \in 1..Len(pending) : pending[j] \in Events \ {e}
      BY <2>1 DEF TimerInv, TimerTypes, Occurs
    <3> QED BY <2>2, <3>1 DEF TimerInv, Placed, Sorted
  <2>4. /\ pending' \in Seq(Events) /\ OneEach(pending') /\ Sorted(pending', arrive')
        /\ \A d : Occurs(d, pending') <=> d = e \/ Occurs(d, pending)
    <3>1. pending \in Seq(Events) /\ OneEach(pending) /\ e \in Events
      BY <1>2 DEF TimerInv, TimerTypes, Placed
    <3>2. pending' = Insert(pending, arrive', e)
      BY <1>1, <1>4
    <3> QED BY <2>1, <2>2, <2>3, <3>1, <3>2, InsertKeeps
  <2>5. TimerTypes'
    BY <1>1, <1>2, <2>2, <2>4 DEF TimerInv, TimerTypes
  <2>6. Placed'
    BY <1>1, <1>2, <2>1, <2>4 DEF TimerInv, Placed
  <2>7. Collected'
    BY <1>1, <1>4, <2>2 DEF TimerInv, Collected
  <2>8. NotLost'
    BY <1>1, <1>2, <2>4 DEF TimerInv, NotLost
  <2> QED BY <1>1, <1>4, <2>2, <2>4, <2>5, <2>6, <2>7, <2>8 DEF TimerInv
<1> QED BY <1>3, <1>4

\* A task leaves the collected ones when it is run.
LEMMA RunTaskKeeps ==
    ASSUME TimerInv, RunTask
    PROVE  /\ TimerInv' /\ UNCHANGED <<pending, arrive, now, state>>
           /\ Head(todo) \in Events /\ Occurs(Head(todo), todo) /\ ~Occurs(Head(todo), todo')
           /\ \A d : Occurs(d, todo') => Occurs(d, todo)
<1>1. /\ pc = "run" /\ pc' = "task" /\ todo # <<>> /\ todo' = Tail(todo)
      /\ UNCHANGED <<now, pending, arrive, interval, armed, back, seen, again, state,
                     victims, late>>
  BY DEF RunTask, timerfd, hist
<1>2. /\ Head(todo) \in Events /\ Occurs(Head(todo), todo) /\ ~Occurs(Head(todo), todo')
      /\ todo' \in Seq(Events) /\ OneEach(todo')
      /\ \A d : Occurs(d, todo') => Occurs(d, todo)
  BY <1>1, Shortened DEF TimerInv, TimerTypes, Collected
<1>3. TimerTypes' /\ Placed' /\ Collected' /\ NotLost'
  <2>1. TimerTypes'
    BY <1>1, <1>2 DEF TimerInv, TimerTypes
  <2>2. Placed'
    BY <1>1 DEF TimerInv, Placed
  <2>3. Collected'
    BY <1>1, <1>2 DEF TimerInv, Collected
  <2>4. NotLost'
    BY <1>1 DEF TimerInv, NotLost
  <2> QED BY <2>1, <2>2, <2>3, <2>4
<1> QED BY <1>1, <1>2, <1>3 DEF TimerInv

\* In the beginning there are no events.
LEMMA TimerInit == Init => TimerInv
<1> SUFFICES ASSUME Init PROVE TimerInv
  OBVIOUS
<1>1. TimerTypes
  BY DEF Init, TimerTypes
<1>2. \A d : ~Occurs(d, <<>>)
  BY DEF Occurs
<1>3. Placed /\ Collected /\ NotLost
  BY <1>2, RepeatedAssumption DEF Init, Placed, Collected, NotLost, OneEach, Sorted
<1> QED BY <1>1, <1>3 DEF TimerInv

-----------------------------------------------------------------------------
(* The coroutines.                                                         *)

HookTypes ==
    /\ cur \in Coroutines \cup {Nobody}
    /\ call \in [Coroutines -> {"new", "running", "sleep", "connect", "connecting", "over"}]
    /\ tevent \in [Coroutines -> Events \cup {Nobody}]
    /\ isTimeout \in [Coroutines -> BOOLEAN]
    /\ cor \in [Events -> Coroutines \cup {Nobody}]

InCall == {"sleep", "connect", "connecting"}

\* The events of the hooks are not new, so no later call gets one of them again.
Used ==
    /\ \A c \in Coroutines :
          call[c] \in InCall => tevent[c] \in HookEvents /\ state[tevent[c]] # "new"
    /\ \A e \in Events : cor[e] # Nobody => e \in HookEvents /\ state[e] # "new"

\* A coroutine runs where the thread calls out, and it alone is between the steps of a call.
\* It is back in a connect only because of the time-out.
Turn ==
    /\ cur # Nobody => \/ pc \in {"idle", "task"}
                       \/ pc = "reset" /\ back \in {"idle", "task"}
    /\ \A c \in Coroutines :
          /\ cur = c => call[c] \in InCall \cup {"running"}
          /\ call[c] \in {"running", "connect"} => cur = c
          /\ cur = c /\ call[c] = "connecting" => isTimeout[c]

Frames ==
    \A e \in Events :
        cor[e] # Nobody /\ (Occurs(e, pending) \/ Occurs(e, todo)) =>
            /\ tevent[cor[e]] = e
            /\ call[cor[e]] \in InCall
            /\ ~isTimeout[cor[e]]

\* The flag is set no earlier than the event of the call.
InTime ==
    \A c \in Coroutines :
        call[c] \in InCall /\ isTimeout[c] => arrive[tevent[c]] <= now

\* TimerArmed, also where the loop is in a task or between two.
Armed ==
    /\ expired \in BOOLEAN /\ reported \in BOOLEAN /\ stalled \in BOOLEAN
    /\ pc \in {"idle", "run", "task"} /\ pending # <<>> /\ ~stalled =>
          armed # Off \/ expired \/ reported

HooksInv == TimerInv /\ HookTypes /\ Used /\ Turn /\ Frames /\ InTime /\ Armed

\* Steps of the timer in which no coroutine takes part.
LEMMA QuietKeeps ==
    ASSUME HooksInv, TimerInv', Armed', UNCHANGED coroutines,
           \A d \in HookEvents : Occurs(d, pending') \/ Occurs(d, todo')
                                   => Occurs(d, pending) \/ Occurs(d, todo),
           \A d \in HookEvents : state[d] # "new" => state'[d] # "new" /\ arrive'[d] = arrive[d],
           now' >= now,
           \/ cur = Nobody
           \/ pc' \in {"idle", "task"}
           \/ pc' = "reset" /\ back' \in {"idle", "task"}
    PROVE  HooksInv'
<1>1. HookTypes' /\ Turn'
  BY DEF HooksInv, HookTypes, Turn, coroutines
<1>2. Used'
  BY DEF HooksInv, Used, coroutines
<1>3. Frames'
  BY DEF HooksInv, Used, Frames, coroutines
<1>4. InTime'
  <2> SUFFICES ASSUME NEW c \in Coroutines, call[c] \in InCall, isTimeout[c]
               PROVE  arrive'[tevent[c]] <= now'
    BY DEF InTime, coroutines
  <2>1. tevent[c] \in Events /\ arrive'[tevent[c]] = arrive[tevent[c]]
    BY HookAssumption DEF HooksInv, Used
  <2>2. arrive[tevent[c]] <= now
    BY DEF HooksInv, InTime
  <2>3. now \in Nat /\ now' \in Nat /\ arrive[tevent[c]] \in Nat
    BY <2>1 DEF HooksInv, TimerInv, TimerTypes
  <2> QED BY <2>1, <2>2, <2>3
<1> QED BY <1>1, <1>2, <1>3, <1>4 DEF HooksInv

\* The loop and onTimer.
LEMMA MainKeeps ==
    ASSUME HooksInv, MainStep
    PROVE  HooksInv'
<1>1. TimerInv /\ cur = Nobody /\ UNCHANGED coroutines /\ stalled' = stalled
  BY DEF HooksInv, MainStep
<1>2. CASE Report \/ OnTimer \/ AfterRepeat \/ TaskReturn \/ OnTimerEnd
  <2>1. TimerInv'
    BY <1>1, <1>2, StillKeeps
  <2>2. UNCHANGED <<pending, todo, state, arrive, now>>
    BY <1>2 DEF Report, OnTimer, AfterRepeat, TaskReturn, OnTimerEnd, hist
  <2>3. Armed'
    <3> USE DEF HooksInv, Armed, timerfd
    <3>1. CASE Report
      BY <1>1, <3>1 DEF Report
    <3>2. CASE OnTimer
      BY <1>1, <3>2 DEF OnTimer
    <3>3. CASE AfterRepeat
      BY <1>1, <3>3 DEF AfterRepeat
    <3>4. CASE TaskReturn
      BY <1>1, <3>4 DEF TaskReturn
    <3>5. CASE OnTimerEnd
      BY <1>1, <3>5 DEF OnTimerEnd
    <3> QED BY <1>2, <3>1, <3>2, <3>3, <3>4, <3>5
  <2>4. now' >= now
    BY <2>2 DEF HooksInv, TimerInv, TimerTypes
  <2> QED BY <1>1, <2>1, <2>2, <2>3, <2>4, QuietKeeps
<1>3. CASE Collect
  <2>1. /\ TimerInv'
        /\ \A d : Occurs(d, pending') \/ Occurs(d, todo') => Occurs(d, pending)
        /\ UNCHANGED <<arrive, now>>
        /\ \A d \in Events : state'[d] # "new" <=> state[d] # "new"
    BY <1>1, <1>3, CollectKeeps
  <2>2. Armed'
    BY <1>1, <1>3 DEF Collect, HooksInv, Armed, timerfd
  <2>3. now' >= now
    BY <2>1 DEF HooksInv, TimerInv, TimerTypes
  <2> QED BY <1>1, <2>1, <2>2, <2>3, QuietKeeps, HookAssumption
<1>4. CASE Repeat
  <2>1. /\ TimerInv'
        /\ \A d : Occurs(d, pending') => d \in Repeated \/ Occurs(d, pending)
        /\ \A d \in Events \ Repeated : arrive'[d] = arrive[d]
        /\ UNCHANGED <<todo, now, state>>
    BY <1>1, <1>4, RepeatKeeps
  <2>2. Armed'
    BY <1>1, <1>4 DEF Repeat, HooksInv, Armed, timerfd
  <2>3. now' >= now
    BY <2>1 DEF HooksInv, TimerInv, TimerTypes
  <2> QED BY <1>1, <2>1, <2>2, <2>3, QuietKeeps, HookAssumption
<1> QED BY <1>2, <1>3, <1>4 DEF MainStep

\* The clock and resetArriveTime.
LEMMA ClockKeeps ==
    ASSUME HooksInv, TickStep \/ Reset
    PROVE  HooksInv'
<1>1. TimerInv'
  BY StillKeeps DEF HooksInv, TickStep, Reset
<1>2. UNCHANGED <<pending, todo, state, arrive, coroutines>> /\ now' >= now
  BY DEF TickStep, Tick, Reset, ResetArriveTime, hist, control, HooksInv, TimerInv, TimerTypes
<1>3. Armed'
  <2>1. CASE TickStep
    BY <2>1 DEF TickStep, Tick, HooksInv, Armed, timerfd, control
  <2>2. CASE Reset
    <3>1. CASE pending = <<>>
      BY <2>2, <3>1 DEF Reset, ResetArriveTime, HooksInv, Armed, timerfd
    <3>2. CASE pending # <<>>
      <4> DEFINE last == arrive[pending[Len(pending)]]
      <4>1. last \in Nat /\ now \in Nat /\ Off \notin Nat
        <5>1. pending[Len(pending)] \in Events
          BY <3>2 DEF HooksInv, TimerInv, TimerTypes
        <5> QED BY <5>1, TimeAssumption DEF HooksInv, TimerInv, TimerTypes
      <4>2. stalled' \in BOOLEAN /\ (stalled' <=> last <= now)
        BY <2>2, <3>2 DEF Reset, Last
      <4>3. /\ last < now => UNCHANGED <<armed, expired>>
            /\ ~(last < now) => /\ armed' = IF last = now THEN Off ELSE last
                                /\ expired' = FALSE
            /\ reported' = reported
        BY <2>2, <3>2 DEF Reset, ResetArriveTime, timerfd
      <4> HIDE DEF last
      <4>4. expired' \in BOOLEAN /\ reported' \in BOOLEAN
        BY <4>3 DEF HooksInv, Armed
      <4>5. ~(last <= now) => armed' # Off
        BY <4>1, <4>3
      <4> QED BY <4>2, <4>4, <4>5 DEF Armed
    <3> QED BY <3>1, <3>2
  <2> QED BY <2>1, <2>2
<1>4. \/ cur = Nobody
      \/ pc' \in {"idle", "task"}
      \/ pc' = "reset" /\ back' \in {"idle", "task"}
  BY DEF TickStep, Tick, Reset, ResetArriveTime, control, HooksInv, Turn
<1> QED BY <1>1, <1>2, <1>3, <1>4, QuietKeeps

\* The timerfd stays armed when an event is added or deleted.
LEMMA ArmedKeeps ==
    ASSUME HooksInv, stalled' = stalled, NEW e \in Events,
           (\E i \in Nat : AddTimerEvent(e, i)) \/ DelTimerEvent(e)
    PROVE  Armed' /\ (\/ pc' \in {"idle", "task"}
                      \/ pc' = "reset" /\ back' \in {"idle", "task"})
<1>1. CASE \E i \in Nat : AddTimerEvent(e, i)
  <2>1. \/ pc' = "reset" /\ back' = pc
        \/ pending # <<>> /\ UNCHANGED <<pc, back>>
    BY <1>1 DEF AddTimerEvent
  <2>2. Calling /\ UNCHANGED <<armed, expired, reported>>
    BY <1>1 DEF AddTimerEvent, timerfd
  <2> QED BY <2>1, <2>2 DEF HooksInv, Armed, Calling
<1>2. CASE DelTimerEvent(e)
  <2>1. Calling /\ UNCHANGED <<armed, expired, reported, pc, back>>
    BY <1>2 DEF DelTimerEvent, timerfd, control
  <2>2. pending' # <<>> => pending # <<>>
    <3>1. pending' \in Seq(Events) /\ \A d : Occurs(d, pending') => Occurs(d, pending)
      BY <1>2, DelKeeps DEF HooksInv, TimerInv, TimerTypes
    <3>2. pending' # <<>> => Occurs(pending'[1], pending')
      <4>1. pending' # <<>> => 1 \in 1..Len(pending')
        BY <3>1
      <4> QED BY <4>1 DEF Occurs
    <3>3. pending = <<>> => \A d : ~Occurs(d, pending)
      BY DEF Occurs
    <3> QED BY <3>1, <3>2, <3>3
  <2> QED BY <2>1, <2>2 DEF HooksInv, Armed, Calling
<1> QED BY <1>1, <1>2

\* Code that has events of its own.
LEMMA OtherKeeps ==
    ASSUME HooksInv, OtherAdd \/ OtherDelete
    PROVE  HooksInv'
<1>1. CASE OtherAdd
  <2>1. PICK e \in Events \ HookEvents, i \in Intervals : AddTimerEvent(e, i)
    BY <1>1 DEF OtherAdd
  <2>2. i \in Nat
    BY TimeAssumption
  <2>3. /\ TimerInv' /\ \A d : Occurs(d, pending') <=> d = e \/ Occurs(d, pending)
        /\ UNCHANGED <<todo, now>>
        /\ state' = [state EXCEPT ![e] = "added"]
        /\ arrive' = [arrive EXCEPT ![e] = now + i]
    BY <2>1, <2>2, AddKeeps DEF HooksInv
  <2>4. \A d \in HookEvents : state'[d] = state[d] /\ arrive'[d] = arrive[d]
    BY <2>3, HookAssumption DEF HooksInv, TimerInv, TimerTypes
  <2>5. UNCHANGED <<coroutines, stalled>>
    BY <1>1 DEF OtherAdd
  <2>6. now' >= now
    BY <2>3 DEF HooksInv, TimerInv, TimerTypes
  <2> QED BY <2>1, <2>2, <2>3, <2>4, <2>5, <2>6, ArmedKeeps, QuietKeeps
<1>2. CASE OtherDelete
  <2>1. PICK e \in Events \ HookEvents : DelTimerEvent(e)
    BY <1>2 DEF OtherDelete
  <2>2. /\ TimerInv' /\ \A d : Occurs(d, pending') => Occurs(d, pending)
        /\ UNCHANGED <<arrive, todo, now>>
        /\ state' = [state EXCEPT ![e] = "deleted"]
    BY <2>1, DelKeeps DEF HooksInv
  <2>3. \A d \in HookEvents : state'[d] = state[d]
    BY <2>2, HookAssumption DEF HooksInv, TimerInv, TimerTypes
  <2>4. UNCHANGED <<coroutines, stalled>>
    BY <1>2 DEF OtherDelete
  <2>5. now' >= now
    BY <2>2 DEF HooksInv, TimerInv, TimerTypes
  <2> QED BY <2>1, <2>2, <2>3, <2>4, <2>5, ArmedKeeps, QuietKeeps
<1> QED BY <1>1, <1>2

\* Steps of a coroutine that leave the timer as it is.
LEMMA CoroutineKeeps ==
    ASSUME HooksInv, NEW c \in Coroutines,
           Begin(c) \/ Finish(c) \/ SleepLoop(c) \/ ConnectYield(c) \/ DispatchOther(c)
    PROVE  HooksInv'
<1>1. UNCHANGED <<vars, tevent, isTimeout, cor, stalled>>
  BY DEF Begin, Finish, SleepLoop, ConnectYield, DispatchOther
<1>2. TimerInv'
  BY <1>1 DEF HooksInv, TimerInv, TimerTypes, Placed, Collected, NotLost, vars
<1>3. Armed'
  BY <1>1 DEF HooksInv, Armed, vars
<1>4. HookTypes'
  BY <1>1 DEF HooksInv, HookTypes, Begin, Finish, SleepLoop, ConnectYield, DispatchOther
<1>5. c # Nobody
  BY HookAssumption
<1>6. /\ Used' /\ Turn' /\ Frames' /\ InTime'
  <2> USE <1>1, <1>5 DEF HooksInv, HookTypes, InCall, vars
  <2>1. CASE Begin(c)
    <3>1. pc = "idle" /\ cur = Nobody /\ call[c] = "new" /\ cur' = c
          /\ call' = [call EXCEPT ![c] = "running"]
      BY <2>1 DEF Begin
    <3>2. Used' /\ InTime'
      BY <3>1 DEF Used, InTime
    <3>3. Turn'
      BY <3>1, HookAssumption DEF Turn
    <3>4. Frames'
      BY <3>1 DEF Frames
    <3> QED BY <3>2, <3>3, <3>4
  <2>2. CASE Finish(c)
    <3>1. cur = c /\ call[c] = "running" /\ cur' = Nobody
          /\ call' = [call EXCEPT ![c] = "over"]
      BY <2>2 DEF Finish, Running
    <3>2. Used' /\ InTime'
      BY <3>1 DEF Used, InTime
    <3>3. Turn'
      BY <3>1, HookAssumption DEF Turn
    <3>4. Frames'
      BY <3>1 DEF Frames
    <3> QED BY <3>2, <3>3, <3>4
  <2>3. CASE SleepLoop(c) /\ isTimeout[c]
    <3>1. cur = c /\ call[c] = "sleep" /\ cur' = cur
          /\ call' = [call EXCEPT ![c] = "running"]
      BY <2>3 DEF SleepLoop
    <3>2. Used' /\ InTime'
      BY <3>1 DEF Used, InTime
    <3>3. Turn'
      BY <3>1, HookAssumption DEF Turn
    <3>4. Frames'
      BY <2>3, <3>1 DEF Frames
    <3> QED BY <3>2, <3>3, <3>4
  <2>4. CASE SleepLoop(c) /\ ~isTimeout[c]
    <3>1. cur = c /\ call[c] = "sleep" /\ cur' = Nobody /\ call' = call
      BY <2>4 DEF SleepLoop
    <3>2. Used' /\ InTime'
      BY <3>1 DEF Used, InTime
    <3>3. Turn'
      BY <3>1, HookAssumption DEF Turn
    <3>4. Frames'
      BY <3>1 DEF Frames
    <3> QED BY <3>2, <3>3, <3>4
  <2>5. CASE ConnectYield(c)
    <3>1. cur = c /\ call[c] = "connect" /\ cur' = Nobody
          /\ call' = [call EXCEPT ![c] = "connecting"]
      BY <2>5 DEF ConnectYield
    <3>2. Used' /\ InTime'
      BY <3>1 DEF Used, InTime
    <3>3. Turn'
      BY <3>1, HookAssumption DEF Turn
    <3>4. Frames'
      BY <3>1 DEF Frames
    <3> QED BY <3>2, <3>3, <3>4
  <2>6. CASE DispatchOther(c)
    <3>1. UNCHANGED <<cur, call>>
      BY <2>6 DEF DispatchOther
    <3> QED BY <3>1 DEF Used, Turn, Frames, InTime
  <2> QED BY <2>1, <2>2, <2>3, <2>4, <2>5, <2>6
<1> QED BY <1>2, <1>3, <1>4, <1>6 DEF HooksInv

\* A hook waits for an event that no coroutine has had before.
LEMMA HookKeeps ==
    ASSUME HooksInv, NEW c \in Coroutines, SleepHook(c) \/ ConnectHook(c)
    PROVE  HooksInv'
<1>1. PICK e \in Fresh, i \in Nat :
         /\ AddTimerEvent(e, i)
         /\ tevent' = [tevent EXCEPT ![c] = e]
         /\ isTimeout' = [isTimeout EXCEPT ![c] = FALSE]
         /\ cor' = [cor EXCEPT ![e] = c]
  BY TimeAssumption, HookAssumption DEF SleepHook, ConnectHook, AddHookEvent
<1>2. /\ cur = c /\ call[c] = "running" /\ cur' = cur /\ stalled' = stalled
      /\ \E to \in {"sleep", "connect"} : call' = [call EXCEPT ![c] = to]
  BY DEF SleepHook, ConnectHook, Running
<1>3. e \in HookEvents /\ e \in Events /\ state[e] = "new" /\ c # Nobody
  BY <1>1, HookAssumption DEF Fresh
<1>4. /\ TimerInv' /\ \A d : Occurs(d, pending') <=> d = e \/ Occurs(d, pending)
      /\ todo' = todo /\ now' = now
      /\ state' = [state EXCEPT ![e] = "added"]
      /\ arrive' = [arrive EXCEPT ![e] = now + i]
  BY <1>1, <1>3, AddKeeps DEF HooksInv
<1>5. Armed' /\ (\/ pc' \in {"idle", "task"}
                 \/ pc' = "reset" /\ back' \in {"idle", "task"})
  BY <1>1, <1>2, <1>3, ArmedKeeps
<1>6. /\ state'[e] = "added" /\ \A d \in Events \ {e} : state'[d] = state[d]
      /\ \A d \in Events \ {e} : arrive'[d] = arrive[d]
  BY <1>3, <1>4 DEF HooksInv, TimerInv, TimerTypes
<1>7. HookTypes'
  BY <1>1, <1>2, <1>3 DEF HooksInv, HookTypes
<1>8. /\ tevent'[c] = e /\ ~isTimeout'[c] /\ cor'[e] = c
      /\ call'[c] \in {"sleep", "connect"}
      /\ \A b \in Coroutines \ {c} : /\ tevent'[b] = tevent[b] /\ isTimeout'[b] = isTimeout[b]
                                     /\ call'[b] = call[b]
      /\ \A d \in Events \ {e} : cor'[d] = cor[d]
  BY <1>1, <1>2, <1>3 DEF HooksInv, HookTypes
<1>9. \A b \in Coroutines : call[b] \in InCall => tevent[b] \in HookEvents /\ tevent[b] \in Events \ {e}
  BY <1>3, HookAssumption DEF HooksInv, Used
<1>10. Used'
  <2>1. ASSUME NEW b \in Coroutines, call'[b] \in InCall
        PROVE  tevent'[b] \in HookEvents /\ state'[tevent'[b]] # "new"
    <3>1. CASE b = c
      BY <1>3, <1>6, <1>8, <3>1
    <3>2. CASE b # c
      BY <1>6, <1>8, <1>9, <2>1, <3>2 DEF HooksInv, Used
    <3> QED BY <3>1, <3>2
  <2>2. ASSUME NEW d \in Events, cor'[d] # Nobody
        PROVE  d \in HookEvents /\ state'[d] # "new"
    BY <1>3, <1>6, <1>8, <2>2 DEF HooksInv, Used
  <2> QED BY <2>1, <2>2 DEF Used
<1>11. Turn'
  BY <1>2, <1>5, <1>8 DEF HooksInv, Turn, InCall
<1>12. Frames'
  <2> SUFFICES ASSUME NEW d \in Events, cor'[d] # Nobody,
                      Occurs(d, pending') \/ Occurs(d, todo')
               PROVE  /\ tevent'[cor'[d]] = d /\ call'[cor'[d]] \in InCall
                      /\ ~isTimeout'[cor'[d]]
    BY DEF Frames
  <2>1. CASE d = e
    BY <1>8, <2>1 DEF InCall
  <2>2. CASE d # e
    <3>1. cor[d] \in Coroutines /\ cor[d] # Nobody /\ cor'[d] = cor[d]
      BY <1>8, <2>2 DEF HooksInv, HookTypes
    <3>2. /\ tevent[cor[d]] = d /\ call[cor[d]] \in InCall /\ ~isTimeout[cor[d]]
      BY <1>4, <2>2, <3>1 DEF HooksInv, Frames
    <3>3. cor[d] # c
      BY <1>2, <3>2 DEF InCall
    <3> QED BY <1>8, <3>1, <3>2, <3>3
  <2> QED BY <2>1, <2>2
<1>13. InTime'
  <2> SUFFICES ASSUME NEW b \in Coroutines, call'[b] \in InCall, isTimeout'[b]
               PROVE  arrive'[tevent'[b]] <= now'
    BY DEF InTime
  <2>1. b # c
    BY <1>8
  <2> QED BY <1>4, <1>6, <1>8, <1>9, <2>1 DEF HooksInv, InTime
<1> QED BY <1>4, <1>5, <1>7, <1>10, <1>11, <1>12, <1>13 DEF HooksInv

\* A connect that is over gives up its event.
LEMMA BackKeeps ==
    ASSUME HooksInv, NEW c \in Coroutines, ConnectBack(c)
    PROVE  HooksInv'
<1>1. /\ cur = c /\ call[c] = "connecting" /\ DelTimerEvent(tevent[c])
      /\ call' = [call EXCEPT ![c] = "running"]
      /\ UNCHANGED <<cur, tevent, isTimeout, cor, stalled>>
  BY DEF ConnectBack
<1>2. tevent[c] \in Events /\ isTimeout[c] /\ c # Nobody
  BY <1>1, HookAssumption DEF HooksInv, Used, Turn, InCall
<1>3. /\ TimerInv' /\ \A d : Occurs(d, pending') => Occurs(d, pending)
      /\ arrive' = arrive /\ todo' = todo /\ now' = now
      /\ state' = [state EXCEPT ![tevent[c]] = "deleted"]
  BY <1>1, <1>2, DelKeeps DEF HooksInv
<1>4. Armed' /\ (\/ pc' \in {"idle", "task"}
                 \/ pc' = "reset" /\ back' \in {"idle", "task"})
  BY <1>1, <1>2, ArmedKeeps
<1>5. \A d \in Events : state[d] # "new" => state'[d] # "new"
  BY <1>3 DEF HooksInv, TimerInv, TimerTypes
<1>6. HookTypes' /\ call'[c] = "running" /\ \A b \in Coroutines \ {c} : call'[b] = call[b]
  BY <1>1 DEF HooksInv, HookTypes
<1>7. Used'
  BY <1>1, <1>5, <1>6, HookAssumption DEF HooksInv, Used, InCall
<1>8. Turn'
  BY <1>1, <1>4, <1>6 DEF HooksInv, Turn, InCall
<1>9. Frames'
  BY <1>1, <1>2, <1>3, <1>6 DEF HooksInv, Frames, HookTypes
<1>10. InTime'
  BY <1>1, <1>3, <1>6 DEF HooksInv, InTime, InCall
<1> QED BY <1>3, <1>4, <1>6, <1>7, <1>8, <1>9, <1>10 DEF HooksInv

\* A task that is a time-out resumes the coroutine of its event, in its time.
LEMMA TimeoutKeeps ==
    ASSUME HooksInv, TimeoutCallback
    PROVE  HooksInv'
<1> DEFINE e == Head(todo)
           c == cor[e]
<1>1. /\ RunTask
      /\ IF c = Nobody THEN UNCHANGED <<cur, isTimeout>>
                       ELSE cur' = c /\ isTimeout' = [isTimeout EXCEPT ![c] = TRUE]
      /\ UNCHANGED <<call, tevent, cor, stalled>>
  BY DEF TimeoutCallback
<1>2. pc = "run" /\ pc' = "task" /\ UNCHANGED <<armed, expired, reported>> /\ cur = Nobody
  BY <1>1 DEF RunTask, timerfd, HooksInv, Turn
<1>3. /\ TimerInv' /\ pending' = pending /\ arrive' = arrive /\ now' = now /\ state' = state
      /\ e \in Events /\ Occurs(e, todo) /\ ~Occurs(e, todo')
      /\ \A d : Occurs(d, todo') => Occurs(d, todo)
  BY <1>1, RunTaskKeeps DEF HooksInv
<1> HIDE DEF e
<1>4. Armed'
  BY <1>1, <1>2, <1>3 DEF HooksInv, Armed
<1>5. c \in Coroutines \cup {Nobody} /\ Nobody \notin Coroutines
  BY <1>3, HookAssumption DEF HooksInv, HookTypes
<1>6. CASE c = Nobody
  <2>1. UNCHANGED <<cur, isTimeout, call, tevent, cor>>
    BY <1>1, <1>6
  <2>2. HookTypes' /\ Used' /\ Turn' /\ Frames' /\ InTime'
    BY <1>2, <1>3, <2>1 DEF HooksInv, HookTypes, Used, Turn, Frames, InTime
  <2> QED BY <1>3, <1>4, <2>2 DEF HooksInv
<1>7. CASE c \in Coroutines
  <2>1. c # Nobody /\ cur' = c /\ isTimeout' = [isTimeout EXCEPT ![c] = TRUE]
    BY <1>1, <1>5, <1>7
  <2>2. /\ isTimeout'[c] = TRUE /\ \A b \in Coroutines \ {c} : isTimeout'[b] = isTimeout[b]
        /\ HookTypes'
    BY <1>1, <1>7, <2>1 DEF HooksInv, HookTypes
  <2>3. tevent[c] = e /\ call[c] \in {"sleep", "connecting"}
    BY <1>2, <1>3, <1>7, <2>1 DEF HooksInv, Frames, Turn, InCall
  <2>4. e \notin Repeated /\ arrive[e] <= now /\ ~Occurs(e, pending)
    <3>1. e \in HookEvents
      BY <1>3, <2>1 DEF HooksInv, Used
    <3>2. e \notin Repeated
      BY <3>1, HookAssumption
    <3> QED BY <1>3, <3>2 DEF HooksInv, TimerInv, Collected, Placed
  <2>5. Used'
    BY <1>1, <1>3 DEF HooksInv, Used
  <2>6. Turn'
    BY <1>1, <1>2, <2>1, <2>2, <2>3, HookAssumption DEF HooksInv, Turn, InCall
  <2>7. Frames'
    <3> SUFFICES ASSUME NEW d \in Events, cor[d] # Nobody,
                        Occurs(d, pending) \/ Occurs(d, todo')
                 PROVE  /\ tevent[cor[d]] = d /\ call[cor[d]] \in InCall
                        /\ ~isTimeout'[cor[d]]
      BY <1>1, <1>3 DEF Frames
    <3>1. /\ tevent[cor[d]] = d /\ call[cor[d]] \in InCall /\ ~isTimeout[cor[d]]
          /\ cor[d] \in Coroutines
      BY <1>3 DEF HooksInv, Frames, HookTypes
    <3>2. d # e
      BY <1>3, <2>4
    <3>3. cor[d] # c
      BY <2>3, <3>1, <3>2
    <3> QED BY <2>2, <3>1, <3>3
  <2>8. InTime'
    <3> SUFFICES ASSUME NEW b \in Coroutines, call[b] \in InCall, isTimeout'[b]
                 PROVE  arrive[tevent[b]] <= now
      BY <1>1, <1>3 DEF InTime
    <3>1. CASE b = c
      BY <2>3, <2>4, <3>1
    <3>2. CASE b # c
      BY <2>2, <3>2 DEF HooksInv, InTime
    <3> QED BY <3>1, <3>2
  <2> QED BY <1>3, <1>4, <2>2, <2>5, <2>6, <2>7, <2>8 DEF HooksInv
<1> QED BY <1>5, <1>6, <1>7

-----------------------------------------------------------------------------
(* Theorems.                                                               *)

\* In the beginning no coroutine is in a hook.
LEMMA HooksInit == HInit => HooksInv
<1> SUFFICES ASSUME HInit PROVE HooksInv
  OBVIOUS
<1>1. TimerInv
  BY TimerInit DEF HInit
<1>2. HookTypes /\ Used /\ InTime
  BY DEF HInit, HookTypes, Used, InTime, InCall
<1>4. Turn
  BY HookAssumption DEF HInit, Turn, InCall
<1>3. Frames /\ Armed
  BY DEF HInit, Init, Frames, Armed, HookTypes
<1> QED BY <1>1, <1>2, <1>3, <1>4 DEF HooksInv

\* Every step of the timer and of the coroutines keeps the invariant.
LEMMA HooksNext == HooksInv /\ [HNext]_hvars => HooksInv'
<1> SUFFICES ASSUME HooksInv, [HNext]_hvars PROVE HooksInv'
  OBVIOUS
<1>1. CASE UNCHANGED hvars
  <2>1. TimerInv'
    BY <1>1 DEF HooksInv, TimerInv, TimerTypes, Placed, Collected, NotLost, hvars, vars
  <2>2. HookTypes' /\ Used' /\ Turn' /\ Frames' /\ InTime' /\ Armed'
    BY <1>1 DEF HooksInv, HookTypes, Used, Turn, Frames, InTime, Armed, hvars, vars, coroutines
  <2> QED BY <2>1, <2>2 DEF HooksInv
<1>2. ASSUME NEW c \in Coroutines,
             \/ Begin(c) \/ SleepHook(c) \/ ConnectHook(c) \/ DispatchOther(c)
             \/ SleepLoop(c) \/ ConnectYield(c) \/ ConnectBack(c) \/ Finish(c)
      PROVE  HooksInv'
  BY <1>2, CoroutineKeeps, HookKeeps, BackKeeps
<1>3. CASE OtherAdd \/ OtherDelete
  BY <1>3, OtherKeeps
<1>4. CASE MainStep
  BY <1>4, MainKeeps
<1>5. CASE TimeoutCallback
  BY <1>5, TimeoutKeeps
<1>6. CASE Reset \/ TickStep
  BY <1>6, ClockKeeps
<1> QED BY <1>1, <1>2, <1>3, <1>4, <1>5, <1>6 DEF HNext, ThreadStep

\* The inductive invariant holds in every state of the timer and the hooks over it.
THEOREM HooksInvariant == HSpec => []HooksInv
BY HooksInit, HooksNext, PTL DEF HSpec

\* The time-out callback never writes to the stack of a coroutine that has left the call
\* (coroutineHook.cc:88, 188), whatever else is added and deleted at the timer.
THEOREM FrameAliveHolds == HSpec => []FrameAlive
<1>1. HooksInv => FrameAlive
  <2> SUFFICES ASSUME HooksInv, NEW e \in Events, cor[e] # Nobody,
                      e \in ToSet(pending) \cup ToSet(todo)
               PROVE  /\ tevent[cor[e]] = e
                      /\ call[cor[e]] \in {"sleep", "connect", "connecting"}
                      /\ ~isTimeout[cor[e]]
    BY DEF FrameAlive
  <2>1. Occurs(e, pending) \/ Occurs(e, todo)
    BY OccursRange DEF HooksInv, TimerInv, TimerTypes
  <2> QED BY <2>1 DEF HooksInv, Frames, InCall
<1> QED BY <1>1, HooksInvariant, PTL

\* The timerfd is armed while an event is pending, or its expiry is being handled.
THEOREM TimerArmedHolds == HSpec => []TimerArmed
<1>1. HooksInv => TimerArmed
  BY DEF HooksInv, Armed, TimerArmed
<1> QED BY <1>1, HooksInvariant, PTL

\* No sleep and no connect returns before its time.
THEOREM NotWokenEarlyHolds == HSpec => NotWokenEarly
<1> DEFINE OnTime == \A c \in Coroutines :
                        call[c] \in {"sleep", "connecting"} /\ call'[c] = "running" =>
                            now >= arrive[tevent[c]]
<1>1. HooksInv /\ [HNext]_hvars => [OnTime]_hvars
  <2> SUFFICES ASSUME HooksInv, HNext, NEW c \in Coroutines,
                      call[c] \in {"sleep", "connecting"}, call'[c] = "running"
               PROVE  now >= arrive[tevent[c]]
    OBVIOUS
  <2>1. call'[c] # call[c]
    OBVIOUS
  <2>2. ASSUME NEW b \in Coroutines,
               \/ Begin(b) \/ SleepHook(b) \/ ConnectHook(b) \/ DispatchOther(b)
               \/ ConnectYield(b) \/ Finish(b)
        PROVE  FALSE
    BY <2>1, <2>2 DEF Begin, SleepHook, ConnectHook, DispatchOther, ConnectYield, Finish,
                      Running, HooksInv, HookTypes
  <2>3. ASSUME NEW b \in Coroutines, SleepLoop(b) \/ ConnectBack(b)
        PROVE  b = c /\ isTimeout[c]
    BY <2>1, <2>3 DEF SleepLoop, ConnectBack, HooksInv, HookTypes, Turn
  <2>4. ~(OtherAdd \/ OtherDelete \/ MainStep \/ TimeoutCallback \/ Reset \/ TickStep)
    BY <2>1 DEF OtherAdd, OtherDelete, MainStep, TimeoutCallback, Reset, TickStep, coroutines
  <2>5. isTimeout[c]
    BY <2>2, <2>3, <2>4 DEF HNext, ThreadStep
  <2>6. arrive[tevent[c]] <= now /\ tevent[c] \in Events
    BY <2>5, HookAssumption DEF HooksInv, InTime, Used, InCall
  <2> QED BY <2>6 DEF HooksInv, TimerInv, TimerTypes
<1>2. HSpec => [][OnTime]_hvars
  <2> HIDE DEF OnTime
  <2> QED BY <1>1, HooksInvariant, PTL DEF HSpec
<1> QED BY <1>2 DEF NotWokenEarly

\* At most one position of a sequence of different members holds an event.
LEMMA OnePosition ==
    ASSUME NEW n \in Nat, NEW P, P \subseteq 1..n, \A i, j \in P : i = j
    PROVE  /\ Cardinality(P) \in {0, 1}
           /\ Cardinality(P) = 0 <=> P = {}
<1>1. CASE P = {}
  BY <1>1, FS_EmptySet
<1>2. CASE P # {}
  <2>1. PICK i \in P : P = {i}
    BY <1>2
  <2>2. Cardinality({i}) = 1
    BY FS_Singleton
  <2> QED BY <1>2, <2>1, <2>2
<1> QED BY <1>1, <1>2

\* The invariant of the timer says that no event is lost or in two places ...
LEMMA Conserves ==
    ASSUME TimerInv
    PROVE  EventsConserved
<1> SUFFICES ASSUME NEW e \in Events
             PROVE  LET inPending == {i \in 1..Len(pending) : pending[i] = e}
                        inAgain == {i \in 1..Len(again) : again[i] = e /\ e \in Repeated}
                    IN  /\ Cardinality(inPending) + Cardinality(inAgain) <= 1
                        /\ state[e] = "added" /\ e \notin victims =>
                              inPending \cup inAgain # {}
  BY DEF EventsConserved
<1> DEFINE inPending == {i \in 1..Len(pending) : pending[i] = e}
           inAgain == {i \in 1..Len(again) : again[i] = e /\ e \in Repeated}
<1>1. /\ pending \in Seq(Events) /\ again \in Seq(Events) /\ OneEach(pending) /\ OneEach(again)
      /\ Len(pending) \in Nat /\ Len(again) \in Nat
  BY DEF TimerInv, TimerTypes, Placed
<1>2. /\ inPending \subseteq 1..Len(pending) /\ \A i, j \in inPending : i = j
      /\ inAgain \subseteq 1..Len(again) /\ \A i, j \in inAgain : i = j
  BY <1>1 DEF OneEach
<1>3. /\ inPending # {} <=> Occurs(e, pending)
      /\ inAgain # {} <=> e \in Repeated /\ Occurs(e, again)
  BY DEF Occurs
<1> HIDE DEF inPending, inAgain
<1>4. /\ Cardinality(inPending) \in {0, 1} /\ (Cardinality(inPending) = 0 <=> inPending = {})
      /\ Cardinality(inAgain) \in {0, 1} /\ (Cardinality(inAgain) = 0 <=> inAgain = {})
  BY <1>1, <1>2, OnePosition
<1>5. inPending = {} \/ inAgain = {}
  BY <1>3 DEF TimerInv, Placed
<1>6. state[e] = "added" /\ e \notin victims => inPending \cup inAgain # {}
  BY <1>3 DEF TimerInv, NotLost
<1> QED BY <1>4, <1>5, <1>6 DEF inPending, inAgain

\* ... and that a deleted event is not pending, and runs only if it had been collected.
LEMMA StaysDeleted ==
    ASSUME TimerInv
    PROVE  DeletedStaysDeleted
<1> SUFFICES ASSUME NEW e \in Events, state[e] = "deleted"
             PROVE  e \notin Range(pending) /\ (e \in Range(todo) => e \in late)
  BY DEF DeletedStaysDeleted
<1>1. (e \in Range(pending) <=> Occurs(e, pending)) /\ (e \in Range(todo) <=> Occurs(e, todo))
  BY OccursRange DEF TimerInv, TimerTypes
<1> QED BY <1>1 DEF TimerInv, Placed, Collected

\* The timer keeps its invariant with any callers, those of the hooks among them.
LEMMA TimerNext == TimerInv /\ [Next]_vars => TimerInv'
<1> SUFFICES ASSUME TimerInv, [Next]_vars PROVE TimerInv'
  OBVIOUS
<1>1. CASE \E e \in Events, i \in Intervals : AddTimerEvent(e, i)
  BY <1>1, AddKeeps, TimeAssumption
<1>2. CASE \E e \in Events : DelTimerEvent(e)
  BY <1>2, DelKeeps
<1>3. CASE \/ ResetArriveTime \/ Tick \/ Report \/ OnTimer \/ AfterRepeat
           \/ TaskReturn \/ OnTimerEnd
  BY <1>3, StillKeeps
<1>4. CASE Collect \/ Repeat \/ RunTask
  BY <1>4, CollectKeeps, RepeatKeeps, RunTaskKeeps
<1>5. CASE UNCHANGED vars
  BY <1>5 DEF vars, TimerInv, TimerTypes, Placed, Collected, NotLost
<1> QED BY <1>1, <1>2, <1>3, <1>4, <1>5 DEF Next

\* The timer by itself, called in any order by anything: no event is lost or in two places,
\* the multimap stays sorted, and deleted events stay deleted.
THEOREM TimerHolds == Spec => [](EventsConserved /\ PendingSorted /\ DeletedStaysDeleted)
<1>1. TimerInv => EventsConserved /\ PendingSorted /\ DeletedStaysDeleted
  BY Conserves, StaysDeleted DEF TimerInv, Placed, Sorted, PendingSorted
<1> QED BY <1>1, TimerInit, TimerNext, PTL DEF Spec

\* No event is lost between the multimap and the vectors of onTimer, nor in two places.
THEOREM EventsConservedHolds == HSpec => []EventsConserved
BY Conserves, HooksInvariant, PTL DEF HooksInv

\* The multimap is sorted by the time of its events, also after resetTime.
THEOREM PendingSortedHolds == HSpec => []PendingSorted
<1>1. HooksInv => PendingSorted
  BY DEF HooksInv, TimerInv, Placed, Sorted, PendingSorted
<1> QED BY <1>1, HooksInvariant, PTL

\* Deleted events are not pending, and run only if they had been collected.
THEOREM DeletedStaysDeletedHolds == HSpec => []DeletedStaysDeleted
BY StaysDeleted, HooksInvariant, PTL DEF HooksInv

=============================================================================
