---------------------------- MODULE AcceptorProofs ----------------------------
(***************************************************************************)
(* Theorems about the server's start and its coroutine pool: no stack has  *)
(* two users, a stack is marked exactly while somebody holds it, and each  *)
(* thread loops on its own reactor; for any number of users, coroutines    *)
(* and threads.                                                            *)
(***************************************************************************)
EXTENDS Acceptor, TLAPS, FiniteSetTheorems

-----------------------------------------------------------------------------
(* The first of some numbers: the pool is searched from its beginning.     *)

\* Of some numbers the first is one.
LEMMA MinMember ==
    ASSUME NEW S, S \subseteq Nat, S # {}
    PROVE  Min(S) \in S
<1> DEFINE T == {0..n : n \in S}
<1>1. T \subseteq FiniteSubsetsOf(Nat) /\ T # {}
  <2>1. \A n \in S : IsFiniteSet(0..n) /\ 0..n \subseteq Nat
    BY FS_Interval
  <2> QED BY <2>1 DEF FiniteSubsetsOf
<1>2. PICK X \in T : \A Y \in T : <<Y, X>> \notin StrictSubsetOrdering(Nat)
  <2> HIDE DEF T
  <2> QED BY <1>1, FS_StrictSubsetOrderingWellFounded, WFMin
<1>3. PICK n \in S : X = 0..n
  OBVIOUS
<1>4. \A m \in S : n <= m
  <2> SUFFICES ASSUME NEW m \in S, m < n PROVE FALSE
    OBVIOUS
  <2>1. 0..m \in T /\ 0..m \subseteq 0..n /\ n \in 0..n /\ n \notin 0..m /\ n \in Nat
    OBVIOUS
  <2>2. 0..m \subseteq Nat /\ 0..n \subseteq Nat
    OBVIOUS
  <2>3. <<0..m, X>> \in StrictSubsetOrdering(Nat)
    BY <1>3, <2>1, <2>2 DEF StrictSubsetOrdering
  <2> QED BY <1>2, <2>1, <2>3
<1> QED BY <1>4 DEF Min

-----------------------------------------------------------------------------
(* The coroutine pool.                                                     *)

Stages == {"none", "ready", "running", "returned", "over", "abandoned"}

PoolTypes ==
    /\ taken \in [Slots -> BOOLEAN]
    /\ inCo \in [Slots -> BOOLEAN]
    /\ bits \in Seq([Slots -> BOOLEAN])
    /\ stack \in [Users -> ((0..Len(bits)) \X Slots) \cup {None}]
    /\ pc \in [Users -> Stages]
    /\ gaveBack \in [Users -> BOOLEAN]

\* A user has a stack from the moment it takes one; it gives back only a coroutine that it
\* will not resume any more, and m_is_in_cofunc is set in the middle of the function.
Staged ==
    \A u \in Users :
        /\ pc[u] = "none" <=> stack[u] = None
        /\ gaveBack[u] => IF u \in Connections THEN pc[u] \in {"running", "abandoned"}
                                               ELSE pc[u] = "over"
        /\ pc[u] \in {"running", "abandoned"} /\ stack[u][1] = 0 => inCo[stack[u][2]]

Marked(m, i) == IF m = 0 THEN taken[i] ELSE bits[m][i]

Blocks == 0..Len(bits)

Holds(u, s) == stack[u] = s /\ ~gaveBack[u]

\* A stack is marked while somebody holds it, and has one holder then.
Held ==
    /\ \A u \in Users, m \in Blocks, i \in Slots : Holds(u, <<m, i>>) => Marked(m, i)
    /\ \A u, v \in Users, m \in Blocks, i \in Slots :
          Holds(u, <<m, i>>) /\ Holds(v, <<m, i>>) => u = v
    /\ \A m \in Blocks, i \in Slots : Marked(m, i) => \E u \in Users : Holds(u, <<m, i>>)

PoolInv == PoolTypes /\ Staged /\ Held /\ SlotExclusive

\* What a user is given: a stack that is not marked and, if made in advance, not in use;
\* it is marked, and nothing is changed of any other.
Given(u, m, i) ==
    /\ pc[u] = "none"
    /\ stack' = [stack EXCEPT ![u] = <<m, i>>]
    /\ pc' = [pc EXCEPT ![u] = "ready"]
    /\ UNCHANGED <<inCo, gaveBack>>
    /\ taken' \in [Slots -> BOOLEAN]
    /\ bits' \in Seq([Slots -> BOOLEAN])
    /\ Blocks \subseteq Blocks'
    /\ m \in Blocks' /\ i \in Slots
    /\ Marked(m, i)'
    /\ \A k \in Blocks, j \in Slots : ~(k = m /\ j = i) => (Marked(k, j)' <=> Marked(k, j))
    /\ \A k \in Blocks' \ Blocks, j \in Slots : ~(k = m /\ j = i) => ~Marked(k, j)'
    /\ m \in Blocks => ~Marked(m, i)
    /\ m = 0 => ~inCo[i]

\* Whichever way getCoroutineInstance finds a coroutine.
LEMMA GetStackGives ==
    ASSUME PoolInv, NEW u \in Users, GetStack(u)
    PROVE  \E m, i : Given(u, m, i)
<1>0. /\ taken \in [Slots -> BOOLEAN]
      /\ bits \in Seq([Slots -> BOOLEAN])
      /\ Len(bits) \in Nat
      /\ \A m \in 1..Len(bits) : bits[m] \in [Slots -> BOOLEAN]
      /\ Slots \subseteq Nat /\ 1 \in Slots
  BY PoolAssumption DEF PoolInv, PoolTypes, Slots
<1>1. CASE GetSlot(u)
  <2>1. PICK i \in Slots : i = Min(FreeSlots) /\ ~taken[i] /\ ~inCo[i]
    <3>1. FreeSlots \subseteq Nat /\ FreeSlots # {}
      BY <1>0, <1>1 DEF FreeSlots, GetSlot
    <3>2. Min(FreeSlots) \in FreeSlots
      BY <3>1, MinMember
    <3> QED BY <3>2 DEF FreeSlots
  <2>2. /\ pc[u] = "none"
        /\ stack' = [stack EXCEPT ![u] = <<0, i>>]
        /\ pc' = [pc EXCEPT ![u] = "ready"]
        /\ taken' = [taken EXCEPT ![i] = TRUE]
        /\ UNCHANGED <<inCo, bits, gaveBack>>
    BY <1>1, <2>1 DEF GetSlot, Receive
  <2>3. /\ taken' \in [Slots -> BOOLEAN] /\ taken'[i]
        /\ \A j \in Slots : j # i => taken'[j] = taken[j]
    BY <1>0, <2>2
  <2>4. Blocks' = Blocks /\ 0 \in Blocks
    BY <1>0, <2>2 DEF Blocks
  <2>5. /\ Marked(0, i)' /\ ~Marked(0, i)
        /\ \A k \in Blocks, j \in Slots : ~(k = 0 /\ j = i) => (Marked(k, j)' <=> Marked(k, j))
    BY <2>1, <2>2, <2>3 DEF Marked
  <2>6. Given(u, 0, i)
    BY <1>0, <2>1, <2>2, <2>3, <2>4, <2>5 DEF Given
  <2> QED BY <2>6
<1>2. CASE GetBlock(u)
  <2>1. PICK m \in 1..Len(bits) : m = Min(Open) /\ \E j \in Slots : ~bits[m][j]
    <3>1. Open \subseteq Nat /\ Open # {}
      BY <1>0, <1>2 DEF Open, GetBlock
    <3>2. Min(Open) \in Open
      BY <3>1, MinMember
    <3> QED BY <3>2 DEF Open
  <2>2. PICK i \in Slots : i = Min(FreeBlocks(m)) /\ ~bits[m][i]
    <3>1. FreeBlocks(m) \subseteq Nat /\ FreeBlocks(m) # {}
      BY <1>0, <2>1 DEF FreeBlocks
    <3>2. Min(FreeBlocks(m)) \in FreeBlocks(m)
      BY <3>1, MinMember
    <3> QED BY <3>2 DEF FreeBlocks
  <2>3. /\ pc[u] = "none"
        /\ stack' = [stack EXCEPT ![u] = <<m, i>>]
        /\ pc' = [pc EXCEPT ![u] = "ready"]
        /\ bits' = [bits EXCEPT ![m][i] = TRUE]
        /\ UNCHANGED <<inCo, taken, gaveBack>>
    BY <1>2, <2>1, <2>2 DEF GetBlock, Receive
  <2>4. PICK b \in [Slots -> BOOLEAN] :
           /\ bits' = [bits EXCEPT ![m] = b]
           /\ b[i]
           /\ \A j \in Slots : j # i => b[j] = bits[m][j]
    <3> DEFINE b == [bits[m] EXCEPT ![i] = TRUE]
    <3>1. b \in [Slots -> BOOLEAN] /\ b[i] /\ \A j \in Slots : j # i => b[j] = bits[m][j]
      BY <1>0, <2>1
    <3>2. bits' = [bits EXCEPT ![m] = b]
      BY <2>3
    <3> QED BY <3>1, <3>2
  <2>5. /\ bits' \in Seq([Slots -> BOOLEAN]) /\ Len(bits') = Len(bits)
        /\ bits'[m] = b
        /\ \A k \in 1..Len(bits) : k # m => bits'[k] = bits[k]
    BY <1>0, <2>1, <2>4
  <2>6. Blocks' = Blocks /\ m \in Blocks /\ m # 0
    BY <1>0, <2>1, <2>5 DEF Blocks
  <2>7. /\ Marked(m, i)' /\ ~Marked(m, i)
        /\ \A k \in Blocks, j \in Slots : ~(k = m /\ j = i) => (Marked(k, j)' <=> Marked(k, j))
    <3>1. /\ Marked(m, i)' /\ ~Marked(m, i)
          /\ \A j \in Slots : j # i => (Marked(m, j)' <=> Marked(m, j))
      BY <2>2, <2>4, <2>5, <2>6 DEF Marked
    <3>2. \A k \in Blocks, j \in Slots : k # m => (Marked(k, j)' <=> Marked(k, j))
      BY <1>0, <2>3, <2>5 DEF Marked, Blocks
    <3> QED BY <3>1, <3>2
  <2>8. Given(u, m, i)
    BY <1>0, <2>1, <2>2, <2>3, <2>5, <2>6, <2>7 DEF Given
  <2> QED BY <2>8
<1>3. CASE Grow(u)
  <2>0. PICK m \in Nat : m = Len(bits) + 1
    BY <1>0
  <2>1. /\ pc[u] = "none"
        /\ stack' = [stack EXCEPT ![u] = <<m, 1>>]
        /\ pc' = [pc EXCEPT ![u] = "ready"]
        /\ bits' = Append(bits, [i \in Slots |-> i = 1])
        /\ UNCHANGED <<inCo, taken, gaveBack>>
    BY <1>3, <2>0 DEF Grow, Receive
  <2>2. /\ bits' \in Seq([Slots -> BOOLEAN]) /\ Len(bits') = m
        /\ bits'[m] = [i \in Slots |-> i = 1]
        /\ \A k \in 1..Len(bits) : bits'[k] = bits[k]
    BY <1>0, <2>0, <2>1
  <2>3. Given(u, m, 1)
    <3>1. Blocks' \ Blocks = {m} /\ Blocks \subseteq Blocks' /\ m \in Blocks' /\ m # 0
      BY <1>0, <2>0, <2>2 DEF Blocks
    <3>2. /\ Marked(m, 1)' /\ \A j \in Slots : j # 1 => ~Marked(m, j)'
      <4>1. bits'[m][1] /\ \A j \in Slots : j # 1 => ~bits'[m][j]
        BY <1>0, <2>0, <2>2
      <4> QED BY <3>1, <4>1 DEF Marked
    <3>3. \A k \in Blocks, j \in Slots : Marked(k, j)' <=> Marked(k, j)
      BY <1>0, <2>1, <2>0, <2>2 DEF Marked, Blocks
    <3>4. /\ taken' \in [Slots -> BOOLEAN]
          /\ m \notin Blocks
          /\ \A k \in Blocks' \ Blocks : k = m
      BY <1>0, <2>1, <2>0, <2>2, <3>1 DEF Blocks
    <3> QED BY <1>0, <2>1, <2>0, <2>2, <3>1, <3>2, <3>3, <3>4 DEF Given
  <2> QED BY <2>3
<1> QED BY <1>1, <1>2, <1>3 DEF GetStack

\* A user that is given a stack is the only one on it.
LEMMA TakeKeeps ==
    ASSUME PoolInv, NEW u \in Users, GetStack(u)
    PROVE  PoolInv'
<1>1. PICK m, i : Given(u, m, i)
  BY GetStackGives
<1>2. /\ \A v \in Users \ {u} : /\ stack'[v] = stack[v] /\ pc'[v] = pc[v]
                               /\ gaveBack'[v] = gaveBack[v]
      /\ stack'[u] = <<m, i>> /\ pc'[u] = "ready"
      /\ UNCHANGED <<inCo, gaveBack>>
  BY <1>1 DEF Given, PoolInv, PoolTypes
<1>3. pc[u] = "none" /\ ~gaveBack[u] /\ <<m, i>> # None /\ m \in Nat /\ i \in Nat
  <2>1. m \in Nat /\ i \in Nat
    BY <1>1 DEF Given, Blocks, Slots
  <2>2. ~gaveBack[u]
    BY <1>1 DEF Given, PoolInv, Staged
  <2> QED BY <1>1, <2>1, <2>2, NoneAssumption DEF Given
<1>4. Blocks \subseteq Blocks' /\ m \in Blocks' /\ i \in Slots
  BY <1>1 DEF Given
<1>5. ASSUME NEW v \in Users \ {u}, stack[v] = <<m, i>>
      PROVE  m \in Blocks
  <2>1. stack[v] \in (Blocks \X Slots) \cup {None}
    BY DEF PoolInv, PoolTypes, Blocks
  <2> QED BY <1>3, <1>5, <2>1
<1>6. PoolTypes'
  <2>1. /\ taken' \in [Slots -> BOOLEAN] /\ inCo' \in [Slots -> BOOLEAN]
        /\ bits' \in Seq([Slots -> BOOLEAN])
        /\ pc' \in [Users -> Stages] /\ gaveBack' \in [Users -> BOOLEAN]
    BY <1>1 DEF Given, PoolInv, PoolTypes, Stages
  <2>2. stack' \in [Users -> (Blocks' \X Slots) \cup {None}]
    <3>1. stack \in [Users -> (Blocks' \X Slots) \cup {None}]
      BY <1>4 DEF PoolInv, PoolTypes, Blocks
    <3> QED BY <1>1, <1>4, <3>1 DEF Given
  <2> QED BY <2>1, <2>2 DEF PoolTypes, Blocks
<1>7. Staged'
  BY <1>2, <1>3 DEF PoolInv, Staged
<1>8. ASSUME NEW v \in Users \ {u}, Holds(v, <<m, i>>) PROVE FALSE
  <2>1. m \in Blocks
    BY <1>5, <1>8 DEF Holds
  <2>2. Marked(m, i)
    BY <1>4, <1>8, <2>1 DEF PoolInv, Held
  <2> QED BY <1>1, <2>1, <2>2 DEF Given
<1>9. \A s : \A v \in Users \ {u} : Holds(v, s)' <=> Holds(v, s)
  BY <1>2 DEF Holds
<1>10. \A k \in Nat, j \in Nat : Holds(u, <<k, j>>)' <=> k = m /\ j = i
  BY <1>2, <1>3 DEF Holds
<1>11. \A v \in Users, k \in Blocks', j \in Slots : Holds(v, <<k, j>>) => k \in Blocks
  <2> SUFFICES ASSUME NEW v \in Users, NEW k \in Blocks', NEW j \in Slots, Holds(v, <<k, j>>)
               PROVE  k \in Blocks
    OBVIOUS
  <2>1. stack[v] \in (Blocks \X Slots) \cup {None}
    BY DEF PoolInv, PoolTypes, Blocks
  <2>2. stack[v] = <<k, j>> /\ k \in Nat /\ j \in Nat
    BY DEF Holds, Blocks, Slots
  <2> QED BY <2>1, <2>2, NoneAssumption
<1>12. Held'
  <2>0. \A k \in Blocks', j \in Slots : k \in Nat /\ j \in Nat
    BY DEF Blocks, Slots
  <2>1. ASSUME NEW v \in Users, NEW k \in Blocks', NEW j \in Slots, Holds(v, <<k, j>>)'
        PROVE  Marked(k, j)'
    <3>1. CASE v = u
      BY <1>1, <1>10, <2>0, <2>1, <3>1 DEF Given
    <3>2. CASE v # u
      <4>1. Holds(v, <<k, j>>) /\ k \in Blocks
        BY <1>9, <1>11, <2>1, <3>2
      <4>2. Marked(k, j) /\ ~(k = m /\ j = i)
        BY <1>8, <3>2, <4>1 DEF PoolInv, Held
      <4> QED BY <1>1, <4>1, <4>2 DEF Given
    <3> QED BY <3>1, <3>2
  <2>2. ASSUME NEW v \in Users, NEW w \in Users, NEW k \in Blocks', NEW j \in Slots,
               Holds(v, <<k, j>>)', Holds(w, <<k, j>>)'
        PROVE  v = w
    <3>1. CASE v = u \/ w = u
      BY <1>8, <1>9, <1>10, <2>0, <2>2, <3>1
    <3>2. CASE v # u /\ w # u
      BY <1>9, <1>11, <2>2, <3>2 DEF PoolInv, Held
    <3> QED BY <3>1, <3>2
  <2>3. ASSUME NEW k \in Blocks', NEW j \in Slots, Marked(k, j)'
        PROVE  \E v \in Users : Holds(v, <<k, j>>)'
    <3>1. CASE k = m /\ j = i
      BY <1>10, <2>0, <3>1
    <3>2. CASE ~(k = m /\ j = i)
      <4>1. k \in Blocks /\ Marked(k, j)
        BY <1>1, <2>3, <3>2 DEF Given
      <4>2. PICK v \in Users : Holds(v, <<k, j>>)
        BY <4>1 DEF PoolInv, Held
      <4>3. v # u
        <5>1. stack[u] = None
          BY <1>3 DEF PoolInv, Staged
        <5>2. stack[v] = <<k, j>> /\ <<k, j>> # None
          BY <2>0, <4>2, NoneAssumption DEF Holds
        <5> QED BY <5>1, <5>2
      <4> QED BY <1>9, <4>2, <4>3
    <3> QED BY <3>1, <3>2
  <2> QED BY <2>1, <2>2, <2>3 DEF Held
<1>13. ASSUME NEW v \in Users \ {u}, stack[v] = <<m, i>>, m = 0 PROVE ~Occupies(v)
  <2>1. ~inCo[i] /\ ~Holds(v, <<m, i>>)
    BY <1>1, <1>8, <1>13 DEF Given
  <2>2. pc[v] \notin {"running", "abandoned"}
    BY <1>13, <2>1 DEF PoolInv, Staged
  <2>3. gaveBack[v]
    BY <1>13, <2>1 DEF Holds
  <2> QED BY <2>2, <2>3 DEF Occupies, PoolInv, Staged
<1>14. SlotExclusive'
  <2>1. \A v \in Users \ {u} : Occupies(v)' = Occupies(v)
    BY <1>2 DEF Occupies
  <2> SUFFICES ASSUME NEW v \in Users, NEW w \in Users, v # w, stack'[v] = stack'[w],
                      stack'[v] # None, stack'[v][1] = 0
               PROVE  ~(Occupies(v)' /\ Occupies(w)')
    BY DEF SlotExclusive
  <2>2. CASE v = u
    BY <1>2, <1>13, <2>1, <2>2
  <2>3. CASE w = u
    BY <1>2, <1>13, <2>1, <2>3
  <2>4. CASE v # u /\ w # u
    BY <1>2, <2>1, <2>4 DEF PoolInv, SlotExclusive
  <2> QED BY <2>2, <2>3, <2>4
<1> QED BY <1>6, <1>7, <1>12, <1>14 DEF PoolInv

\* The stacks stay with those who have them while a coroutine goes on.
LEMMA HeldStill ==
    ASSUME Held, UNCHANGED <<taken, bits, stack, gaveBack>>
    PROVE  Held'
<1>1. /\ \A s : \A v \in Users : Holds(v, s)' <=> Holds(v, s)
      /\ Blocks' = Blocks
      /\ \A m \in Blocks, i \in Slots : Marked(m, i)' <=> Marked(m, i)
  BY DEF Holds, Marked, Blocks
<1> QED BY <1>1 DEF Held

\* What a step of one coroutine does to its own function is all it does: the others on
\* their stacks, and the marks of being in a function, stay.
LEMMA StepKeeps ==
    ASSUME PoolInv, NEW u \in Users, NEW x \in Stages \ {"none"},
           Occupies(u),
           UNCHANGED <<taken, bits, stack, gaveBack>>,
           pc' = [pc EXCEPT ![u] = x],
           inCo' \in [Slots -> BOOLEAN],
           \A j \in Slots : inCo[j] => inCo'[j] \/ stack[u] = <<0, j>>,
           stack[u][1] = 0 /\ x \in {"running", "abandoned"} => inCo'[stack[u][2]],
           gaveBack[u] => u \in Connections /\ x \in {"running", "abandoned"}
    PROVE  PoolInv'
<1>1. /\ pc'[u] = x /\ \A v \in Users \ {u} : pc'[v] = pc[v]
      /\ pc[u] # "none" /\ x # "none"
  BY DEF PoolInv, PoolTypes, Occupies
<1>2. PoolTypes'
  BY DEF PoolInv, PoolTypes
<1>3. Held'
  BY HeldStill DEF PoolInv
<1>4. Staged'
  <2> SUFFICES ASSUME NEW v \in Users
               PROVE  /\ pc'[v] = "none" <=> stack[v] = None
                      /\ gaveBack[v] =>
                            IF v \in Connections THEN pc'[v] \in {"running", "abandoned"}
                                                 ELSE pc'[v] = "over"
                      /\ pc'[v] \in {"running", "abandoned"} /\ stack[v][1] = 0 =>
                            inCo'[stack[v][2]]
    BY DEF Staged
  <2>1. CASE v = u
    BY <1>1, <2>1 DEF PoolInv, Staged
  <2>2. CASE v # u
    <3>1. ASSUME pc[v] \in {"running", "abandoned"}, stack[v][1] = 0
          PROVE  inCo'[stack[v][2]]
      <4>1. PICK j \in Slots : stack[v] = <<0, j>>
        <5>1. stack[v] \in ((0..Len(bits)) \X Slots) \cup {None} /\ stack[v] # None
          BY <3>1 DEF PoolInv, PoolTypes, Staged
        <5> QED BY <3>1, <5>1
      <4>2. inCo[j] /\ <<0, j>> # None
        <5>1. <<0, j>> # None
          BY NoneAssumption DEF Slots
        <5>2. inCo[j]
          BY <3>1, <4>1 DEF PoolInv, Staged
        <5> QED BY <5>1, <5>2
      <4>3. stack[u] # <<0, j>>
        <5>1. Occupies(v)
          BY <3>1 DEF Occupies
        <5> QED BY <2>2, <4>1, <4>2, <5>1 DEF PoolInv, SlotExclusive
      <4> QED BY <4>1, <4>2, <4>3
    <3> QED BY <1>1, <2>2, <3>1 DEF PoolInv, Staged
  <2> QED BY <2>1, <2>2
<1>5. SlotExclusive'
  <2>1. \A v \in Users : Occupies(v)' => Occupies(v)
    BY <1>1 DEF Occupies
  <2> QED BY <2>1 DEF PoolInv, SlotExclusive
<1> QED BY <1>2, <1>3, <1>4, <1>5 DEF PoolInv

\* The function is entered, returns, yields for good, or yields in its middle for good.
LEMMA FunctionKeeps ==
    ASSUME PoolInv, NEW u \in Users, Enter(u) \/ Return(u) \/ LastYield(u) \/ Abandon(u)
    PROVE  PoolInv'
<1>1. Occupies(u) /\ UNCHANGED <<taken, bits, stack, gaveBack>>
  BY DEF Enter, Return, LastYield, Abandon, Occupies
<1>2. PICK m, j : stack[u] = <<m, j>> /\ j \in Slots
  BY <1>1 DEF PoolInv, PoolTypes, Staged, Occupies
<1>3. inCo \in [Slots -> BOOLEAN]
  BY DEF PoolInv, PoolTypes
<1>4. gaveBack[u] => u \in Connections /\ pc[u] = "running"
  BY DEF PoolInv, Staged, Enter, Return, LastYield, Abandon
<1>5. CASE Enter(u)
  <2>1. pc' = [pc EXCEPT ![u] = "running"] /\ ~gaveBack[u]
    BY <1>4, <1>5 DEF Enter
  <2>2. /\ inCo' \in [Slots -> BOOLEAN]
        /\ \A k \in Slots : inCo[k] => inCo'[k]
        /\ stack[u][1] = 0 => inCo'[stack[u][2]]
    BY <1>2, <1>3, <1>5 DEF Enter, SetInCo
  <2> QED BY <1>1, <2>1, <2>2, StepKeeps DEF Stages
<1>6. CASE Return(u)
  <2>1. pc' = [pc EXCEPT ![u] = "returned"] /\ ~gaveBack[u]
    BY <1>4, <1>6 DEF Return
  <2>2. /\ inCo' \in [Slots -> BOOLEAN]
        /\ \A k \in Slots : inCo[k] => inCo'[k] \/ stack[u] = <<0, k>>
    BY <1>2, <1>3, <1>6 DEF Return, SetInCo
  <2> QED BY <1>1, <2>1, <2>2, StepKeeps DEF Stages
<1>7. CASE LastYield(u)
  <2>1. pc' = [pc EXCEPT ![u] = "over"] /\ ~gaveBack[u] /\ inCo' = inCo
    BY <1>4, <1>7 DEF LastYield
  <2> QED BY <1>1, <1>3, <2>1, StepKeeps DEF Stages
<1>8. CASE Abandon(u)
  <2>1. /\ pc' = [pc EXCEPT ![u] = "abandoned"] /\ inCo' = inCo
        /\ stack[u][1] = 0 => inCo[stack[u][2]]
    BY <1>8 DEF Abandon, PoolInv, Staged
  <2> QED BY <1>1, <1>3, <1>4, <2>1, StepKeeps DEF Stages
<1> QED BY <1>5, <1>6, <1>7, <1>8

\* A stack that is given back has no holder left, and is not marked.
LEMMA BackKeeps ==
    ASSUME PoolInv, NEW u \in Users, BackCoroutine(u)
    PROVE  PoolInv'
<1>1. /\ ~gaveBack[u]
      /\ gaveBack' = [gaveBack EXCEPT ![u] = TRUE]
      /\ IF u \in Connections THEN pc[u] \in {"running", "abandoned"} ELSE pc[u] = "over"
      /\ UNCHANGED <<inCo, stack, pc>>
  BY DEF BackCoroutine
<1>2. PICK m \in Blocks, i \in Slots : stack[u] = <<m, i>>
  <2>1. stack[u] \in (Blocks \X Slots) \cup {None} /\ stack[u] # None
    BY <1>1 DEF PoolInv, PoolTypes, Staged, Blocks
  <2> QED BY <2>1
<1>3. /\ taken' \in [Slots -> BOOLEAN] /\ bits' \in Seq([Slots -> BOOLEAN])
      /\ Blocks' = Blocks
      /\ ~Marked(m, i)'
      /\ \A k \in Blocks, j \in Slots : ~(k = m /\ j = i) => (Marked(k, j)' <=> Marked(k, j))
  <2>0. /\ taken \in [Slots -> BOOLEAN]
        /\ bits \in Seq([Slots -> BOOLEAN])
        /\ Len(bits) \in Nat
        /\ \A k \in 1..Len(bits) : bits[k] \in [Slots -> BOOLEAN]
    BY DEF PoolInv, PoolTypes
  <2>1. CASE m = 0
    <3>1. taken' = [taken EXCEPT ![i] = FALSE] /\ bits' = bits
      BY <1>2, <2>1 DEF BackCoroutine
    <3> QED BY <2>0, <2>1, <3>1 DEF Marked, Blocks
  <2>2. CASE m # 0
    <3>0. m \in 1..Len(bits)
      BY <2>0, <2>2 DEF Blocks
    <3>1. bits' = [bits EXCEPT ![m][i] = FALSE] /\ taken' = taken
      BY <1>2, <2>2 DEF BackCoroutine
    <3>2. PICK b \in [Slots -> BOOLEAN] :
             /\ bits' = [bits EXCEPT ![m] = b]
             /\ ~b[i]
             /\ \A j \in Slots : j # i => b[j] = bits[m][j]
      <4> DEFINE b == [bits[m] EXCEPT ![i] = FALSE]
      <4>1. b \in [Slots -> BOOLEAN] /\ ~b[i] /\ \A j \in Slots : j # i => b[j] = bits[m][j]
        BY <2>0, <3>0
      <4>2. bits' = [bits EXCEPT ![m] = b]
        BY <3>1
      <4> QED BY <4>1, <4>2
    <3>3. /\ bits' \in Seq([Slots -> BOOLEAN]) /\ Len(bits') = Len(bits)
          /\ bits'[m] = b
          /\ \A k \in 1..Len(bits) : k # m => bits'[k] = bits[k]
      BY <2>0, <3>0, <3>2
    <3>4. ~Marked(m, i)'
      BY <2>2, <3>2, <3>3 DEF Marked
    <3>5. \A j \in Slots : j # i => (Marked(m, j)' <=> Marked(m, j))
      BY <2>2, <3>2, <3>3 DEF Marked
    <3>6. \A k \in Blocks, j \in Slots : k # m => (Marked(k, j)' <=> Marked(k, j))
      BY <2>0, <3>1, <3>3 DEF Marked, Blocks
    <3> QED BY <2>0, <3>1, <3>3, <3>4, <3>5, <3>6 DEF Blocks
  <2> QED BY <2>1, <2>2
<1>4. PoolTypes'
  BY <1>1, <1>3 DEF PoolInv, PoolTypes, Blocks
<1>5. Staged'
  BY <1>1 DEF PoolInv, PoolTypes, Staged
<1>6. SlotExclusive'
  BY <1>1 DEF PoolInv, SlotExclusive, Occupies
<1>7. /\ \A s : \A v \in Users \ {u} : Holds(v, s)' <=> Holds(v, s)
      /\ \A s : ~Holds(u, s)'
      /\ Holds(u, <<m, i>>)
  BY <1>1, <1>2 DEF Holds, PoolInv, PoolTypes
<1>8. \A k \in Blocks, j \in Slots, v \in Users \ {u} :
         Holds(v, <<k, j>>) => ~(k = m /\ j = i)
  BY <1>7 DEF PoolInv, Held
<1>9. \A k \in Blocks, j \in Slots : Holds(u, <<k, j>>) => k = m /\ j = i
  BY <1>2 DEF Holds
<1>10. Held'
  BY <1>3, <1>7, <1>8, <1>9 DEF PoolInv, Held
<1> QED BY <1>4, <1>5, <1>6, <1>10 DEF PoolInv

\* In the beginning nobody has a stack and none is marked.
LEMMA PoolInit == Init => PoolInv
<1> SUFFICES ASSUME Init PROVE PoolInv
  OBVIOUS
<1>1. PoolTypes
  BY DEF Init, PoolTypes, Stages
<1>2. Staged /\ SlotExclusive
  BY DEF Init, Staged, SlotExclusive
<1>3. Held
  <2>1. \A m \in Blocks, i \in Slots : m = 0 /\ ~Marked(m, i) /\ <<m, i>> # None
    BY NoneAssumption DEF Init, Blocks, Slots, Marked
  <2> QED BY <2>1 DEF Init, Held, Holds
<1> QED BY <1>1, <1>2, <1>3 DEF PoolInv

\* Every call of the pool and every step of a coroutine keeps the invariant.
LEMMA PoolNext == PoolInv /\ [Next]_vars => PoolInv'
<1> SUFFICES ASSUME PoolInv, [Next]_vars PROVE PoolInv'
  OBVIOUS
<1>1. CASE UNCHANGED vars
  <2>1. Held'
    BY <1>1, HeldStill DEF vars, PoolInv
  <2>2. PoolTypes' /\ Staged'
    BY <1>1 DEF vars, PoolInv, PoolTypes, Staged
  <2>3. SlotExclusive'
    BY <1>1 DEF vars, PoolInv, SlotExclusive, Occupies
  <2> QED BY <2>1, <2>2, <2>3 DEF PoolInv
<1>2. ASSUME NEW u \in Users,
             \/ GetSlot(u) \/ GetBlock(u) \/ Grow(u)
             \/ Enter(u) \/ Return(u) \/ LastYield(u) \/ Abandon(u)
             \/ BackCoroutine(u)
      PROVE  PoolInv'
  BY <1>2, TakeKeeps, FunctionKeeps, BackKeeps DEF GetStack
<1> QED BY <1>1, <1>2 DEF Next

\* In every state of the pool, whoever uses it.
THEOREM PoolInvariant == Spec => []PoolInv
BY PoolInit, PoolNext, PTL DEF Spec

-----------------------------------------------------------------------------
(* The threads.                                                            *)

Up(i) == tpc[i] \in {"wait", "enter", "loop", "ended"}

ThreadTypes ==
    /\ mpc \in {"create", "init", "built", "resume", "post", "loop", "stop", "join", "gone"}
    /\ next \in Threads
    /\ tpc \in [Threads -> {"none", "main", "keep", "post", "wait", "enter", "loop", "ended"}]
    /\ reactorPtr \in Threads \cup {Null}
    /\ reactor \in [Threads -> Threads \cup {Null}]
    /\ initSem \in [Threads -> BOOLEAN]

\* The threads come up one after the other: the one that comes up is the last to have
\* written t_reactor_ptr.
InTurn ==
    \A i \in Threads :
        /\ mpc = "create" => IF i < next THEN Up(i) ELSE tpc[i] = "none"
        /\ mpc = "init" => /\ i < next => Up(i)
                           /\ i > next => tpc[i] = "none"
        /\ mpc \notin {"create", "init"} => Up(i)
        /\ initSem[i] => Up(i)

Published ==
    \A i \in Threads :
        /\ tpc[i] \notin {"none", "main"} => reactorPtr \in Threads
        /\ tpc[i] = "keep" => reactorPtr = i
        /\ tpc[i] \in {"post", "wait", "enter", "loop"} => reactor[i] = i

ThreadInv == ThreadTypes /\ InTurn /\ Published

\* Once its semaphore is posted a thread is up, and stays up.
LEMMA ThreadKeeps ==
    ASSUME ThreadInv, NEW i \in Threads, ThreadStep(i)
    PROVE  ThreadInv' /\ mpc' = mpc /\ \A j \in Threads : Up(j) => Up(j)'
<1>0. /\ ThreadTypes /\ InTurn /\ Published
      /\ tpc \in [Threads -> {"none", "main", "keep", "post", "wait", "enter", "loop", "ended"}]
      /\ reactor \in [Threads -> Threads \cup {Null}]
      /\ initSem \in [Threads -> BOOLEAN]
      /\ Threads \subseteq Nat /\ next \in Nat
  BY SizeAssumption DEF ThreadInv, ThreadTypes, Threads
<1>1. CASE NewReactor(i)
  <2>1. \A j \in Threads \ {i} : tpc[j] # "keep"
    <3>1. mpc = "init" /\ next = i
      BY <1>0, <1>1 DEF InTurn, Up, NewReactor
    <3> QED BY <1>0, <3>1 DEF InTurn, Up
  <2>2. Published'
    BY <1>0, <1>1, <2>1 DEF Published, NewReactor
  <2>3. InTurn' /\ ThreadTypes' /\ mpc' = mpc /\ \A j \in Threads : Up(j) => Up(j)'
    BY <1>0, <1>1 DEF InTurn, Up, ThreadTypes, NewReactor
  <2> QED BY <2>2, <2>3 DEF ThreadInv
<1>2. CASE KeepReactor(i)
  BY <1>0, <1>2 DEF ThreadInv, Published, InTurn, Up, ThreadTypes, KeepReactor
<1>3. CASE PostInit(i)
  BY <1>0, <1>3 DEF ThreadInv, Published, InTurn, Up, ThreadTypes, PostInit
<1>4. CASE EnterLoop(i)
  BY <1>0, <1>4 DEF ThreadInv, Published, InTurn, Up, ThreadTypes, EnterLoop
<1>5. CASE ResetStop(i)
  BY <1>0, <1>5 DEF ThreadInv, Published, InTurn, Up, ThreadTypes, ResetStop
<1>6. CASE LeaveLoop(i)
  BY <1>0, <1>6 DEF ThreadInv, Published, InTurn, Up, ThreadTypes, LeaveLoop
<1> QED BY <1>1, <1>2, <1>3, <1>4, <1>5, <1>6 DEF ThreadStep

\* The constructor of a thread returns when it is up; the destructor takes the reactor of
\* a thread that has ended.
LEMMA PoolStepKeeps ==
    ASSUME ThreadInv, PoolStep
    PROVE  /\ ThreadInv' /\ \A j \in Threads : Up(j) => Up(j)'
           /\ mpc \notin {"create", "init", "built", "resume"} =>
                 mpc' \notin {"create", "init", "built", "resume"}
<1>0. /\ ThreadTypes /\ InTurn /\ Published
      /\ tpc \in [Threads -> {"none", "main", "keep", "post", "wait", "enter", "loop", "ended"}]
      /\ reactor \in [Threads -> Threads \cup {Null}]
      /\ initSem \in [Threads -> BOOLEAN]
      /\ next \in Threads /\ next \in Nat /\ Size \in Nat /\ Size > 0
      /\ \A i : i \in Threads <=> i \in Nat /\ 1 <= i /\ i <= Size
  BY SizeAssumption DEF ThreadInv, ThreadTypes, Threads
<1>1. CASE CreateThread
  <2>1. tpc[next] = "none" /\ tpc' = [tpc EXCEPT ![next] = "main"]
        /\ mpc = "create" /\ mpc' = "init"
        /\ UNCHANGED <<next, reactorPtr, reactor, initSem>>
    BY <1>0, <1>1 DEF InTurn, CreateThread
  <2>2. /\ tpc'[next] = "main"
        /\ \A j \in Threads : j # next => tpc'[j] = tpc[j]
    BY <1>0, <2>1
  <2>3. InTurn' /\ \A j \in Threads : Up(j) => Up(j)'
    BY <1>0, <2>1, <2>2 DEF InTurn, Up
  <2>4. Published'
    BY <1>0, <2>1, <2>2 DEF Published
  <2>5. ThreadTypes'
    BY <1>0, <2>1 DEF ThreadTypes
  <2> QED BY <2>1, <2>3, <2>4, <2>5 DEF ThreadInv
<1>2. CASE AwaitInit
  <2>1. /\ mpc = "init" /\ Up(next)
        /\ initSem' = [initSem EXCEPT ![next] = FALSE]
        /\ IF next = Size THEN mpc' = "built" /\ next' = 1
                          ELSE mpc' = "create" /\ next' = next + 1
        /\ UNCHANGED <<tpc, reactorPtr, reactor>>
    BY <1>0, <1>2 DEF InTurn, AwaitInit, Advance
  <2>2. \A j \in Threads : Up(j)' = Up(j) /\ (initSem'[j] => initSem[j])
    BY <1>0, <2>1 DEF Up
  <2>3. next' \in Threads
    BY <1>0, <2>1
  <2>4. InTurn'
    BY <1>0, <2>1, <2>2, <2>3 DEF InTurn
  <2>5. Published' /\ ThreadTypes'
    BY <1>0, <2>1, <2>3 DEF Published, ThreadTypes
  <2> QED BY <2>1, <2>2, <2>4, <2>5 DEF ThreadInv
<1>3. CASE PostStart
  <2>1. /\ mpc = "post" /\ mpc' \in {"post", "loop"} /\ next' \in Threads
        /\ UNCHANGED <<tpc, reactorPtr, reactor, initSem>>
    BY <1>0, <1>3 DEF PostStart, Advance
  <2> QED BY <1>0, <2>1 DEF ThreadInv, InTurn, Published, ThreadTypes, Up
<1>4. CASE StopThread
  <2>1. /\ mpc = "stop" /\ mpc' = "join"
        /\ UNCHANGED <<next, tpc, reactorPtr, reactor, initSem>>
    BY <1>4 DEF StopThread
  <2> QED BY <1>0, <2>1 DEF ThreadInv, InTurn, Published, ThreadTypes, Up
<1>5. CASE JoinThread
  <2>1. /\ mpc = "join" /\ tpc[next] = "ended"
        /\ reactor' = [reactor EXCEPT ![next] = Null]
        /\ mpc' \in {"stop", "gone"} /\ next' \in Threads
        /\ UNCHANGED <<tpc, reactorPtr, initSem>>
    BY <1>0, <1>5 DEF JoinThread, Advance
  <2> QED BY <1>0, <2>1 DEF ThreadInv, InTurn, Published, ThreadTypes, Up
<1> QED BY <1>1, <1>2, <1>3, <1>4, <1>5 DEF PoolStep

-----------------------------------------------------------------------------
(* The acceptor.                                                           *)

Early == {"create", "init", "built", "resume"}

AcceptTypes ==
    /\ acc \in {"none", "running", "waiting", "again", "idle"}
    /\ turn \in Threads
    /\ backlog \in Nat
    /\ arrived \in Nat
    /\ ioThread \in [Clients -> Threads \cup {Null}]
    /\ given \in [Clients -> Threads \cup {Null}]

\* The acceptor does not run before all threads are up, and gives connections to these.
GivenUp ==
    /\ acc # "none" => mpc \notin Early
    /\ \A u \in Clients :
          given[u] # Null => ioThread[u] \in Threads /\ given[u] \in Threads /\ Up(given[u])

Started == {u \in Clients : pc[u] # "none"}

\* A connection the kernel has ready is one for which there is a client yet.
Counted ==
    /\ Cardinality(Started) + backlog <= arrived
    /\ arrived <= Cardinality(Clients)

AcceptInv == PoolInv /\ ThreadInv /\ AcceptTypes /\ GivenUp /\ Counted

\* The clients can be counted.
LEMMA ClientsFinite == IsFiniteSet(Clients) /\ Clients \subseteq Users
<1>1. IsFiniteSet(Clients)
  BY AcceptAssumption, FS_Subset DEF Clients
<1> QED BY <1>1, UserAssumption DEF Clients

\* Steps of a coroutine that has a stack start none.
LEMMA NoneStarted ==
    ASSUME PoolInv, NEW u \in Users,
           Enter(u) \/ Return(u) \/ LastYield(u) \/ Abandon(u) \/ BackCoroutine(u)
    PROVE  [Next]_vars /\ Started' = Started
<1>1. Next
  BY DEF Next
<1>2. \A v \in Users : pc'[v] = "none" <=> pc[v] = "none"
  BY DEF PoolInv, PoolTypes, Enter, Return, LastYield, Abandon, BackCoroutine
<1>3. Started' = Started
  BY <1>2, ClientsFinite DEF Started
<1> QED BY <1>1, <1>3

\* A user that takes a stack takes a step of the pool, and has not started before.
LEMMA OneStarted ==
    ASSUME PoolInv, NEW u \in Users, GetStack(u)
    PROVE  /\ [Next]_vars
           /\ u \notin Clients => Started' = Started
           /\ u \in Clients => Started' = Started \cup {u} /\ u \notin Started
<1>1. Next
  BY DEF Next, GetStack
<1>2. pc[u] = "none" /\ pc' = [pc EXCEPT ![u] = "ready"]
  BY DEF GetStack, GetSlot, GetBlock, Grow, Receive
<1>3. pc'[u] = "ready" /\ \A v \in Users \ {u} : pc'[v] = pc[v]
  BY <1>2 DEF PoolInv, PoolTypes
<1> QED BY <1>1, <1>2, <1>3, ClientsFinite DEF Started

\* What the acceptor has to do with is as it was: the steps of the others.
LEMMA AcceptStill ==
    ASSUME AcceptInv, PoolInv', ThreadInv',
           Started' = Started,
           \A i \in Threads : Up(i) => Up(i)',
           mpc \notin Early => mpc' \notin Early,
           UNCHANGED avars
    PROVE  AcceptInv'
<1>1. AcceptTypes' /\ GivenUp' /\ Counted'
  BY DEF AcceptInv, AcceptTypes, GivenUp, Counted, avars
<1> QED BY <1>1 DEF AcceptInv

\* A step that leaves the threads alone keeps what is known of them.
LEMMA ThreadStill ==
    ASSUME ThreadInv, UNCHANGED tvars
    PROVE  ThreadInv' /\ mpc' = mpc /\ \A i \in Threads : Up(i)' = Up(i)
BY DEF tvars, ThreadInv, ThreadTypes, InTurn, Published, Up

\* The main thread goes on after the construction, or to the end.
LEMMA MainOn ==
    ASSUME ThreadInv,
           \/ mpc = "built" /\ mpc' = "resume"
           \/ mpc = "resume" /\ mpc' = "post"
           \/ mpc = "loop" /\ mpc' = "stop",
           UNCHANGED <<next, tpc, reactorPtr, reactor, initSem>>
    PROVE  ThreadInv' /\ \A i \in Threads : Up(i)' = Up(i)
BY DEF ThreadInv, ThreadTypes, InTurn, Published, Up

\* There is a client for the connection that is accepted, and its loop is up.
LEMMA AcceptOneKeeps ==
    ASSUME AcceptInv, AcceptOne
    PROVE  AcceptInv' /\ [Next]_vars
<1>1. PICK u : u = CHOOSE x \in Clients : pc[x] = "none"
  OBVIOUS
<1>2. /\ backlog > 0 /\ backlog' = backlog - 1
      /\ GetStack(u)
      /\ ioThread' = [ioThread EXCEPT ![u] = turn]
      /\ given' = [given EXCEPT ![u] = reactorPtr]
      /\ AdvanceTurn
      /\ acc # "none" /\ acc' = "running"
      /\ UNCHANGED <<tvars, arrived>>
  BY <1>1 DEF AcceptOne, NewConnection, InitServer
<1>3. IsFiniteSet(Started) /\ Cardinality(Started) \in Nat /\ Started \subseteq Clients
  <2>1. Started \subseteq Clients
    BY DEF Started
  <2> QED BY <2>1, ClientsFinite, FS_Subset, FS_CardinalityType
<1>4. u \in Clients /\ u \in Users
  <2>1. Started # Clients
    BY <1>2, <1>3 DEF AcceptInv, AcceptTypes, Counted
  <2>2. \E x \in Clients : pc[x] = "none"
    BY <1>3, <2>1 DEF Started
  <2> QED BY <1>1, <2>2, ClientsFinite
<1>5. PoolInv' /\ [Next]_vars /\ Started' = Started \cup {u} /\ u \notin Started
  BY <1>2, <1>4, OneStarted, TakeKeeps DEF AcceptInv
<1>6. ThreadInv' /\ mpc' = mpc /\ \A i \in Threads : Up(i)' = Up(i)
  BY <1>2, ThreadStill DEF AcceptInv
<1>7. Counted'
  <2>1. Cardinality(Started') = Cardinality(Started) + 1
    BY <1>3, <1>5, FS_AddElement
  <2> QED BY <1>2, <1>3, <2>1 DEF AcceptInv, AcceptTypes, Counted
<1>8. reactorPtr \in Threads /\ Up(reactorPtr) /\ mpc \notin Early /\ turn \in Threads
  <2>1. mpc \notin Early /\ turn \in Threads
    BY <1>2 DEF AcceptInv, AcceptTypes, GivenUp
  <2>2. \A i \in Threads : Up(i)
    BY <2>1 DEF AcceptInv, ThreadInv, InTurn, Early
  <2>3. reactorPtr \in Threads
    BY <2>1, <2>2 DEF AcceptInv, ThreadInv, Published, Up
  <2> QED BY <2>1, <2>2, <2>3
<1>9. AcceptTypes'
  <2>1. turn' \in Threads
    BY <1>2, <1>8, SizeAssumption DEF AdvanceTurn, Threads
  <2> QED BY <1>2, <1>4, <1>8, <2>1 DEF AcceptInv, AcceptTypes
<1>10. GivenUp'
  BY <1>2, <1>4, <1>6, <1>8 DEF AcceptInv, AcceptTypes, GivenUp
<1> QED BY <1>5, <1>6, <1>7, <1>9, <1>10 DEF AcceptInv

\* The other steps of the acceptor, and what the network does.
LEMMA AcceptorKeeps ==
    ASSUME AcceptInv, WakeAcceptor \/ AcceptWait \/ AcceptFails \/ Arrive \/ Abort
    PROVE  AcceptInv' /\ [Next]_vars
<1>1. /\ UNCHANGED <<vars, tvars, turn, ioThread, given>>
      /\ acc' # "none" => acc # "none"
      /\ acc' \in {"none", "running", "waiting", "again", "idle"}
  BY DEF WakeAcceptor, AcceptWait, AcceptFails, Arrive, Abort, AcceptInv, AcceptTypes
<1>2. PoolInv' /\ Started' = Started
  BY <1>1, PoolNext DEF AcceptInv, Started, vars
<1>3. ThreadInv' /\ mpc' = mpc /\ \A i \in Threads : Up(i)' = Up(i)
  BY <1>1, ThreadStill DEF AcceptInv
<1>4. Cardinality(Started) \in Nat /\ Cardinality(Clients) \in Nat
  <2>1. Started \subseteq Clients
    BY DEF Started
  <2> QED BY <2>1, ClientsFinite, FS_Subset, FS_CardinalityType
<1>5. Counted' /\ backlog' \in Nat /\ arrived' \in Nat
  BY <1>2, <1>4
  DEF AcceptInv, AcceptTypes, Counted, WakeAcceptor, AcceptWait, AcceptFails, Arrive, Abort
<1>6. AcceptTypes' /\ GivenUp'
  BY <1>1, <1>3, <1>5 DEF AcceptInv, AcceptTypes, GivenUp
<1> QED BY <1>1, <1>2, <1>3, <1>5, <1>6 DEF AcceptInv

\* The main thread with its pool of threads, its own coroutine and the other users.
LEMMA MainKeeps ==
    ASSUME AcceptInv,
           \/ GetAcceptCor \/ ResumeAcceptCor \/ MainPool \/ Leave
           \/ \E u \in Users : MainUser(u)
    PROVE  AcceptInv' /\ [Next]_vars
<1> USE AcceptAssumption, UserAssumption
<1>0. PoolInv /\ ThreadInv /\ AcceptCor \in Users /\ AcceptCor \notin Clients
  BY DEF AcceptInv, Clients
<1>1. CASE GetAcceptCor
  <2>1. PoolInv' /\ [Next]_vars /\ Started' = Started
    BY <1>0, <1>1, OneStarted, TakeKeeps DEF GetAcceptCor
  <2>2. ThreadInv' /\ \A i \in Threads : Up(i)' = Up(i)
    BY <1>0, <1>1, MainOn DEF GetAcceptCor
  <2> QED BY <1>1, <2>1, <2>2, AcceptStill DEF GetAcceptCor, Early
<1>2. CASE ResumeAcceptCor
  <2>1. PoolInv' /\ [Next]_vars /\ Started' = Started
    BY <1>0, <1>2, NoneStarted, FunctionKeeps DEF ResumeAcceptCor
  <2>2. ThreadInv' /\ \A i \in Threads : Up(i)' = Up(i)
    BY <1>0, <1>2, MainOn DEF ResumeAcceptCor
  <2>3. AcceptTypes' /\ Counted' /\ GivenUp'
    BY <1>2, <2>1, <2>2
    DEF ResumeAcceptCor, AcceptInv, AcceptTypes, Counted, GivenUp, Early
  <2> QED BY <2>1, <2>2, <2>3 DEF AcceptInv
<1>3. CASE MainPool
  <2>1. /\ ThreadInv' /\ \A i \in Threads : Up(i) => Up(i)'
        /\ mpc \notin Early => mpc' \notin Early
    BY <1>0, <1>3, PoolStepKeeps DEF MainPool, Early
  <2>2. PoolInv' /\ [Next]_vars /\ Started' = Started /\ UNCHANGED avars
    BY <1>0, <1>3, PoolNext DEF MainPool, Started, vars
  <2> QED BY <2>1, <2>2, AcceptStill
<1>4. CASE Leave
  <2>1. PoolInv' /\ [Next]_vars /\ Started' = Started
    BY <1>0, <1>4, NoneStarted, BackKeeps DEF Leave
  <2>2. ThreadInv' /\ \A i \in Threads : Up(i)' = Up(i)
    BY <1>0, <1>4, MainOn DEF Leave
  <2> QED BY <1>4, <2>1, <2>2, AcceptStill DEF Leave, Early
<1>5. ASSUME NEW u \in Users, MainUser(u) PROVE AcceptInv' /\ [Next]_vars
  <2>1. PoolInv' /\ [Next]_vars /\ Started' = Started
    BY <1>0, <1>5, OneStarted, NoneStarted, TakeKeeps, FunctionKeeps, BackKeeps
    DEF MainUser, Clients
  <2>2. ThreadInv' /\ mpc' = mpc /\ \A i \in Threads : Up(i)' = Up(i)
    BY <1>0, <1>5, ThreadStill DEF MainUser
  <2> QED BY <1>5, <2>1, <2>2, AcceptStill DEF MainUser
<1> QED BY <1>1, <1>2, <1>3, <1>4, <1>5

\* The IO threads, and the coroutines they run.
LEMMA IOKeeps ==
    ASSUME AcceptInv, NEW i \in Threads,
           \/ IOStep(i)
           \/ \E u \in Clients : RunConnection(i, u) \/ EndConnection(i, u)
    PROVE  AcceptInv' /\ [Next]_vars
<1>0. PoolInv /\ ThreadInv
  BY DEF AcceptInv
<1>1. CASE IOStep(i)
  <2>1. ThreadInv' /\ mpc' = mpc /\ \A j \in Threads : Up(j) => Up(j)'
    BY <1>0, <1>1, ThreadKeeps DEF IOStep
  <2>2. PoolInv' /\ [Next]_vars /\ Started' = Started /\ UNCHANGED avars
    BY <1>0, <1>1, PoolNext DEF IOStep, Started, vars
  <2> QED BY <2>1, <2>2, AcceptStill
<1>2. ASSUME NEW u \in Clients, RunConnection(i, u) \/ EndConnection(i, u)
      PROVE  AcceptInv' /\ [Next]_vars
  <2>1. PoolInv' /\ [Next]_vars /\ Started' = Started
    BY <1>0, <1>2, ClientsFinite, NoneStarted, FunctionKeeps DEF RunConnection, EndConnection
  <2>2. ThreadInv' /\ mpc' = mpc /\ \A j \in Threads : Up(j)' = Up(j)
    BY <1>0, <1>2, ThreadStill DEF RunConnection, EndConnection
  <2> QED BY <1>2, <2>1, <2>2, AcceptStill DEF RunConnection, EndConnection
<1> QED BY <1>1, <1>2

\* In the beginning no thread is there and nobody has arrived.
LEMMA AcceptInit == AInit => AcceptInv
<1> SUFFICES ASSUME AInit PROVE AcceptInv
  OBVIOUS
<1>1. PoolInv
  BY PoolInit DEF AInit
<1>2. ThreadInv
  BY SizeAssumption
  DEF AInit, TInit, ThreadInv, ThreadTypes, InTurn, Published, Up, Threads
<1>3. AcceptTypes /\ GivenUp
  BY SizeAssumption DEF AInit, AcceptTypes, GivenUp, Threads
<1>4. Counted
  <2>1. Started = {}
    BY ClientsFinite DEF AInit, Init, Started
  <2> QED BY <2>1, FS_EmptySet, FS_CardinalityType, ClientsFinite DEF AInit, Counted
<1> QED BY <1>1, <1>2, <1>3, <1>4 DEF AcceptInv

\* Every step keeps the invariant, and is a step of the pool or none of it.
LEMMA AcceptNext == AcceptInv /\ [ANext]_allvars => AcceptInv' /\ [Next]_vars
<1> SUFFICES ASSUME AcceptInv, [ANext]_allvars PROVE AcceptInv' /\ [Next]_vars
  OBVIOUS
<1>1. CASE UNCHANGED allvars
  <2>1. UNCHANGED <<vars, tvars, avars>>
    BY <1>1 DEF allvars
  <2>2. PoolInv' /\ Started' = Started
    BY <2>1, PoolNext DEF AcceptInv, Started, vars
  <2>3. ThreadInv' /\ mpc' = mpc /\ \A i \in Threads : Up(i)' = Up(i)
    BY <2>1, ThreadStill DEF AcceptInv
  <2> QED BY <2>1, <2>2, <2>3, AcceptStill
<1>2. CASE ANext
  BY <1>2, AcceptOneKeeps, AcceptorKeeps, MainKeeps, IOKeeps DEF ANext, MainStep
<1> QED BY <1>1, <1>2

\* The inductive invariant of the server's start, its acceptor and its pool.
THEOREM AcceptInvariant == ASpec => []AcceptInv
BY AcceptInit, AcceptNext, PTL DEF ASpec

\* The server uses the pool as module CoroutinePool says it may be used: whatever the main
\* thread and the IO threads do is a step of the pool, or none.
THEOREM PoolUsed == ASpec => Spec
<1>1. AInit => Init
  BY DEF AInit
<1> QED BY <1>1, AcceptInvariant, AcceptNext, PTL DEF ASpec, Spec

-----------------------------------------------------------------------------
(* What the runs check.                                                    *)

\* No two users run on one stack of those made in advance, nor does one run on the stack of
\* a coroutine that was left in the middle of its function, however early a connection
\* gives its coroutine back (coroutinePool.cc:44).
THEOREM SlotExclusiveHolds == ASpec => []SlotExclusive
<1>1. AcceptInv => SlotExclusive
  BY DEF AcceptInv, PoolInv
<1> QED BY <1>1, AcceptInvariant, PTL

\* A stack is marked as used while one user has it that has not given it back: none leaks,
\* and none is handed out twice (coroutinePool.cc, memory.cc).
THEOREM MarkedIffHeldHolds == ASpec => []MarkedIffHeld
<1>1. ASSUME PoolInv, NEW m \in Blocks, NEW i \in Slots
      PROVE  Cardinality({u \in Users : stack[u] = <<m, i>> /\ ~gaveBack[u]})
                = IF Marked(m, i) THEN 1 ELSE 0
  <2> DEFINE H == {u \in Users : stack[u] = <<m, i>> /\ ~gaveBack[u]}
  <2>1. /\ \A u, v \in H : u = v
        /\ H # {} <=> Marked(m, i)
    BY <1>1 DEF PoolInv, Held, Holds
  <2> HIDE DEF H
  <2>2. H = {} => Cardinality(H) = 0
    BY FS_EmptySet
  <2>3. ASSUME NEW u \in H PROVE Cardinality(H) = 1
    <3>1. H = {u}
      BY <2>1
    <3> QED BY <3>1, FS_Singleton
  <2>4. Cardinality(H) = IF Marked(m, i) THEN 1 ELSE 0
    BY <2>1, <2>2, <2>3
  <2> QED BY <2>4 DEF H
<1>2. PoolInv => MarkedIffHeld
  <2> SUFFICES ASSUME PoolInv PROVE MarkedIffHeld
    OBVIOUS
  <2>1. \A i \in Slots :
           Cardinality({u \in Users : stack[u] = <<0, i>> /\ ~gaveBack[u]})
              = IF taken[i] THEN 1 ELSE 0
    <3>1. 0 \in Blocks /\ \A i \in Slots : Marked(0, i) <=> taken[i]
      BY DEF PoolInv, PoolTypes, Blocks, Marked
    <3> QED BY <1>1, <3>1
  <2>2. \A m \in 1..Len(bits), i \in Slots :
           Cardinality({u \in Users : stack[u] = <<m, i>> /\ ~gaveBack[u]})
              = IF bits[m][i] THEN 1 ELSE 0
    <3>1. \A m \in 1..Len(bits) : m \in Blocks /\ m # 0
      BY DEF PoolInv, PoolTypes, Blocks
    <3>2. \A m \in 1..Len(bits), i \in Slots : Marked(m, i) <=> bits[m][i]
      BY <3>1 DEF Marked
    <3> QED BY <1>1, <3>1, <3>2
  <2> QED BY <2>1, <2>2 DEF MarkedIffHeld
<1>3. AcceptInv => MarkedIffHeld
  BY <1>2 DEF AcceptInv
<1> QED BY <1>3, AcceptInvariant, PTL

\* Each thread loops on the reactor it has built, though all of them publish theirs through
\* one variable; and the loop a connection is given to is up, even if the connection was
\* accepted before the threads were started (ioThread.cc:8, tcpServer.cc).
THEOREM OwnReactorHolds == ASpec => []OwnReactor
<1>1. AcceptInv => OwnReactor
  BY DEF AcceptInv, ThreadInv, Published, GivenUp, Up, OwnReactor
<1> QED BY <1>1, AcceptInvariant, PTL

=============================================================================
