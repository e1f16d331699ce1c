----------------------------- MODULE ServerProofs -----------------------------
(***************************************************************************)
(* Theorems about the connections: who may use a descriptor number, who    *)
(* owns an open socket, and that the wheel times out an idle connection    *)
(* exactly in time, and no other; for every set of connections and         *)
(* numbers, any size of the wheel and any number of queued refreshes.      *)
(***************************************************************************)
EXTENDS Server, TLAPS

\* The places of a coroutine at which it may still use its number.
Using == {"queued", "input", "refresh", "answer", "stuck", "clear", "close"}

\* The wheel, the tasks and the main thread's own variables do not matter here.
SocketTypes ==
    /\ sock \in [Fds -> Conns \cup {None}]
    /\ fdOf \in [Conns -> Fds \cup {None}]
    /\ client \in [Fds -> Conns \cup {None}]
    /\ state \in [Conns -> {"none", "Connected", "HalfClosing", "Closed"}]
    /\ freed \in [Conns -> BOOLEAN]
    /\ pc \in [Conns -> Using \cup {"none", "closed", "leave", "parked"}]

\* A coroutine that uses a number has the socket behind it.
Owns == \A k \in Conns : pc[k] \in Using => fdOf[k] \in Fds /\ sock[fdOf[k]] = k

\* A socket is that of a connection still at work, which is in the table and alive; m_state
\* being Closed, which lets the sweep destroy it, comes after the close.
Owned ==
    \A fd \in Fds :
        sock[fd] # None =>
            /\ fdOf[sock[fd]] = fd
            /\ pc[sock[fd]] \in Using
            /\ state[sock[fd]] \notin {"none", "Closed"}
            /\ client[fd] = sock[fd]
            /\ ~freed[sock[fd]]

\* The table has a connection under its own number only: the one that is destroyed when a
\* number is given out again (addClient) is not at work under another.
Tabled ==
    \A fd \in Fds :
        client[fd] # None => fdOf[client[fd]] = fd /\ state[client[fd]] # "none"

\* A connection that is still to be accepted has left no trace.
Unused == \A k \in Conns : state[k] = "none" => pc[k] = "none" /\ ~freed[k]

SocketInv == SocketTypes /\ Owns /\ Owned /\ Tabled /\ Unused

-----------------------------------------------------------------------------

\* Nothing is open at first.
LEMMA SocketInit == Init => SocketInv
BY NoneAssumption
   DEF Init, SocketInv, SocketTypes, Owns, Owned, Tabled, Unused, Using

\* A step of the main thread that touches nothing but its own variables, or a coroutine's
\* that goes from one place to another at which it owns as much as before.
LEMMA Elsewhere ==
    ASSUME SocketInv, UNCHANGED <<sock, fdOf, client, state, freed>>,
           pc' = pc \/ \E k \in Conns : \E to \in Using :
                          pc[k] \in Using /\ pc' = [pc EXCEPT ![k] = to]
    PROVE  SocketInv'
<1>1. SocketTypes'
  BY DEF SocketInv, SocketTypes
<1>2. \A k \in Conns : pc'[k] \in Using <=> pc[k] \in Using
  BY DEF SocketInv, SocketTypes
<1>3. \A k \in Conns : pc[k] = "none" => pc'[k] = "none"
  BY DEF SocketInv, SocketTypes, Using
<1> QED BY <1>1, <1>2, <1>3, NoneAssumption
        DEF SocketInv, SocketTypes, Owns, Owned, Tabled, Unused

\* The number is free, so that the connection the table still has under it is over.
LEMMA AcceptKeeps ==
    ASSUME SocketInv, NEW k \in Conns, NEW fd \in Fds, Accept(k, fd)
    PROVE  SocketInv'
<1> USE NoneAssumption DEF Accept, SocketInv, SocketTypes
<1>1. SocketTypes'
  BY DEF Using
<1>2. pc[k] = "none" /\ ~freed[k] /\ \A g \in Fds : client[g] # k /\ sock[g] # k
  BY DEF Unused, Tabled, Owned
<1>3. Owns'
  BY <1>2 DEF Owns, Using
<1>4. Owned'
  <2> SUFFICES ASSUME NEW g \in Fds, sock'[g] # None
               PROVE  /\ fdOf'[sock'[g]] = g /\ pc'[sock'[g]] \in Using
                      /\ state'[sock'[g]] \notin {"none", "Closed"}
                      /\ client'[g] = sock'[g] /\ ~freed'[sock'[g]]
    BY DEF Owned
  <2>1. CASE g = fd
    BY <1>2, <2>1 DEF Using
  <2>2. CASE g # fd
    <3>1. sock'[g] = sock[g] /\ sock[g] \in Conns /\ sock[g] # k
      BY <1>2, <2>2
    <3>2. client[fd] # sock[g]
      BY <2>2, <3>1 DEF Owned, Tabled
    <3> QED BY <2>2, <3>1, <3>2 DEF Owned
  <2> QED BY <2>1, <2>2
<1>5. Tabled'
  BY <1>2 DEF Tabled
<1>6. Unused'
  BY <1>2 DEF Unused, Tabled
<1> QED BY <1>1, <1>3, <1>4, <1>5, <1>6

\* Only a connection that is Closed, and so owns nothing, is destroyed.
LEMMA SweepKeeps ==
    ASSUME SocketInv, NEW fd \in Fds, SweepEntry(fd)
    PROVE  SocketInv'
<1> USE NoneAssumption DEF SocketInv, SocketTypes
<1>1. CASE state[client[fd]] = "Closed"
  <2>1. /\ freed' = [freed EXCEPT ![client[fd]] = TRUE]
        /\ client' = [client EXCEPT ![fd] = None]
        /\ UNCHANGED <<sock, fdOf, state, pc>>
    BY <1>1 DEF SweepEntry
  <2>2. sock[fd] = None
    BY <1>1 DEF Owned
  <2>3. \A g \in Fds : sock[g] # None => sock[g] # client[fd]
    BY <1>1 DEF Owned
  <2>4. SocketTypes' /\ Owns' /\ Tabled'
    BY <2>1 DEF Owns, Tabled
  <2>5. Owned'
    BY <2>1, <2>2, <2>3 DEF Owned
  <2>6. Unused'
    BY <1>1, <2>1 DEF Unused
  <2> QED BY <2>4, <2>5, <2>6
<1>2. CASE state[client[fd]] # "Closed"
  BY <1>2, Elsewhere DEF SweepEntry
<1> QED BY <1>1, <1>2

\* HalfClosing may be written over any state, Closed too.
LEMMA HalfKeeps ==
    ASSUME SocketInv, ShutdownState
    PROVE  SocketInv'
<1> USE NoneAssumption DEF SocketInv, SocketTypes
<1>1. /\ \A k \in Conns : state'[k] = state[k] \/ state'[k] = "HalfClosing"
      /\ UNCHANGED <<sock, fdOf, client, freed, pc>>
      /\ SocketTypes'
  BY DEF ShutdownState
<1> QED BY <1>1 DEF Owns, Owned, Tabled, Unused

\* The number is given back by its owner, and only then may another get it.
LEMMA CloseKeeps ==
    ASSUME SocketInv, NEW k \in Conns, CloseSocket(k)
    PROVE  SocketInv'
<1> USE NoneAssumption DEF SocketInv, SocketTypes
<1>1. /\ pc[k] = "close" /\ pc' = [pc EXCEPT ![k] = "closed"]
      /\ sock' = [sock EXCEPT ![fdOf[k]] = None]
      /\ UNCHANGED <<fdOf, client, state, freed>>
  BY DEF CloseSocket, Goto
<1>2. fdOf[k] \in Fds /\ sock[fdOf[k]] = k
  BY <1>1 DEF Owns, Using
<1>3. SocketTypes'
  BY <1>1
<1>4. Owns'
  BY <1>1, <1>2 DEF Owns, Using
<1>5. Owned'
  BY <1>1, <1>2 DEF Owned, Using
<1>6. Tabled' /\ Unused'
  BY <1>1 DEF Tabled, Unused
<1> QED BY <1>3, <1>4, <1>5, <1>6

\* The two steps after the close: the connection owns nothing any more.
LEMMA LeaveKeeps ==
    ASSUME SocketInv, NEW k \in Conns, SetClosed(k) \/ Leave(k)
    PROVE  SocketInv'
<1> USE NoneAssumption DEF SocketInv, SocketTypes
<1>1. /\ pc[k] \in {"closed", "leave"}
      /\ pc' = [pc EXCEPT ![k] = "leave"] \/ pc' = [pc EXCEPT ![k] = "parked"]
      /\ state' = [state EXCEPT ![k] = "Closed"] \/ state' = state
      /\ UNCHANGED <<sock, fdOf, client, freed>>
  BY DEF SetClosed, Leave, Goto
<1>2. \A fd \in Fds : sock[fd] # k
  BY <1>1 DEF Owned, Using
<1>3. SocketTypes'
  BY <1>1
<1>4. Owns'
  BY <1>1 DEF Owns, Using
<1>5. Owned'
  BY <1>1, <1>2 DEF Owned
<1>6. Tabled'
  BY <1>1 DEF Tabled
<1>7. Unused'
  BY <1>1 DEF Unused
<1> QED BY <1>3, <1>4, <1>5, <1>6, <1>7

\* One case for each kind of step.
LEMMA SocketNext == SocketInv /\ [Next]_vars => SocketInv'
<1> SUFFICES ASSUME SocketInv, [Next]_vars PROVE SocketInv'
  OBVIOUS
<1>1. ASSUME NEW k \in Conns, NEW fd \in Fds, Accept(k, fd) PROVE SocketInv'
  BY <1>1, AcceptKeeps
<1>2. CASE SweepBegin \/ Fresh \/ Turn
  BY <1>2, Elsewhere DEF SweepBegin, Fresh, Turn, conns
<1>3. CASE Expire
  <2>1. ASSUME NEW fd \in Fds, SweepEntry(fd) PROVE SocketInv'
    BY <2>1, SweepKeeps
  <2>2. ASSUME NEW k \in Conns, DropSlot(k) PROVE SocketInv'
    BY <2>2, Elsewhere DEF DropSlot, conns
  <2>3. CASE TurnEnd \/ ShutdownCheck \/ ShutdownSocket
    BY <2>3, Elsewhere DEF TurnEnd, ShutdownCheck, ShutdownSocket, conns
  <2>4. CASE ShutdownState
    BY <2>4, HalfKeeps
  <2> QED BY <1>3, <2>1, <2>2, <2>3, <2>4 DEF Expire
<1>4. ASSUME NEW k \in Conns, Io(k) PROVE SocketInv'
  <2>1. CASE \/ Start(k) \/ ReadEnd(k) \/ Refresh(k) \/ Answer(k) \/ AnswerBlocks(k)
             \/ Unregister(k)
    BY <2>1, Elsewhere
       DEF Start, ReadEnd, Refresh, Answer, AnswerBlocks, Unregister, Goto, Using
  <2>2. CASE CloseSocket(k)
    BY <2>2, CloseKeeps
  <2>3. CASE SetClosed(k) \/ Leave(k)
    BY <2>3, LeaveKeeps
  <2> QED BY <1>4, <2>1, <2>2, <2>3 DEF Io
<1>5. ASSUME NEW k \in Conns, ReadData(k) \/ PeerCloses(k) PROVE SocketInv'
  BY <1>5, Elsewhere DEF ReadData, PeerCloses, Goto, Using
<1>6. CASE UNCHANGED vars
  BY <1>6, Elsewhere DEF vars
<1> QED BY <1>1, <1>2, <1>3, <1>4, <1>5, <1>6 DEF Next

\* The inductive invariant of numbers, sockets and the table.
THEOREM SocketInvariant == Spec => []SocketInv
BY SocketInit, SocketNext, PTL DEF Spec

\* Nobody ever reads, writes, unregisters or closes another connection's socket through
\* its own old number (tcpConnection.cc:246-250).
THEOREM UsesOwnSocketHolds == Spec => []UsesOwnSocket
<1>1. SocketInv => UsesOwnSocket
  BY DEF SocketInv, Owns, Using, UsesOwnSocket
<1> QED BY <1>1, SocketInvariant, PTL

\* No open socket is without its connection object.
THEOREM SocketHasConnectionHolds == Spec => []SocketHasConnection
<1>1. SocketInv => SocketHasConnection
  BY DEF SocketInv, Owned, SocketHasConnection
<1> QED BY <1>1, SocketInvariant, PTL

-----------------------------------------------------------------------------
(* The wheel.                                                              *)

WheelTypes ==
    /\ wheel \in [1..Buckets -> SUBSET Conns]
    /\ mtasks \in Seq(Conns)
    /\ age \in [Conns -> 0..Buckets]
    /\ mpc \in {"loop", "sweep", "expire", "check", "half", "shut"}
    /\ expiring \subseteq Conns
    /\ mpc \in {"check", "half", "shut"} => mcur \in Conns

\* The newest copy of a connection's slot is in the bucket for its age, and no copy is in a
\* bucket that goes later: this is what makes "the last copy is gone" mean "all the turns
\* have passed".  A copy in the bucket being destroyed is the last one or not the newest.
OnTime ==
    \A k \in Conns :
        /\ \A b \in 1..Buckets :
              k \in wheel[b] => age[k] <= Buckets - b /\ k \in wheel[Buckets - age[k]]
        /\ k \in expiring /\ age[k] < Buckets => k \in wheel[Buckets - age[k]]

Phase ==
    /\ mpc \in {"loop", "sweep"} => expiring = {}
    /\ mpc = "check" => age[mcur] = Buckets

WheelInv == WheelTypes /\ OnTime /\ Phase

\* A turn moves every bucket one place to the front.
LEMMA TurnShape ==
    ASSUME NEW w \in [1..Buckets -> SUBSET Conns]
    PROVE  LET v == Append(Tail(w), {})
           IN  /\ v \in [1..Buckets -> SUBSET Conns]
               /\ Head(w) = w[1]
               /\ v[Buckets] = {}
               /\ \A b \in 1..Buckets - 1 : v[b] = w[b + 1]
<1> USE BucketAssumption
<1> DEFINE v == Append(Tail(w), {})
<1>1. w \in Seq(SUBSET Conns) /\ Len(w) = Buckets /\ w # <<>>
  OBVIOUS
<1>2. /\ Tail(w) \in Seq(SUBSET Conns) /\ Len(Tail(w)) = Buckets - 1
      /\ \A b \in 1..Buckets - 1 : Tail(w)[b] = w[b + 1]
  BY <1>1
<1>3. v \in Seq(SUBSET Conns) /\ Len(v) = Buckets
  BY <1>2
<1>4. v \in [1..Buckets -> SUBSET Conns]
  <2>1. v \in [1..Len(v) -> SUBSET Conns]
    <3> HIDE DEF v
    <3> QED BY <1>3
  <2> QED BY <1>3, <2>1, Zenon
<1>5. v[Buckets] = {} /\ \A b \in 1..Buckets - 1 : v[b] = Tail(w)[b]
  BY <1>2
<1> QED BY <1>1, <1>2, <1>4, <1>5

\* What is queued stays queued until it is the oldest.
LEMMA RangeOfTasks ==
    ASSUME NEW s \in Seq(Conns)
    PROVE  /\ \A k \in Conns : Range(Append(s, k)) = Range(s) \cup {k}
           /\ s # <<>> => Range(s) = {Head(s)} \cup Range(Tail(s))
<1>1. ASSUME NEW k \in Conns PROVE {k} \cup Range(s) \subseteq Range(Append(s, k))
  <2>1. k \in Range(Append(s, k))
    BY DEF Range
  <2>2. Range(s) \subseteq Range(Append(s, k))
    BY DEF Range
  <2> QED BY <2>1, <2>2
<1>2. ASSUME NEW k \in Conns PROVE Range(Append(s, k)) \subseteq {k} \cup Range(s)
  <2>1. /\ DOMAIN Append(s, k) = 1..Len(s) + 1 /\ Append(s, k)[Len(s) + 1] = k
        /\ \A i \in 1..Len(s) : Append(s, k)[i] = s[i]
    OBVIOUS
  <2> QED BY <2>1 DEF Range
<1>3. ASSUME s # <<>> PROVE Range(s) \subseteq {Head(s)} \cup Range(Tail(s))
  <2> SUFFICES ASSUME NEW i \in 1..Len(s) PROVE s[i] \in {Head(s)} \cup Range(Tail(s))
    BY DEF Range
  <2>1. CASE i = 1
    BY <1>3, <2>1
  <2>2. CASE i # 1
    <3>1. i - 1 \in 1..Len(s) - 1 /\ Len(Tail(s)) = Len(s) - 1
      BY <1>3, <2>2
    <3>2. DOMAIN Tail(s) = 1..Len(s) - 1 /\ Tail(s)[i - 1] = s[(i - 1) + 1]
      BY <1>3, <3>1
    <3>3. (i - 1) + 1 = i
      OBVIOUS
    <3> QED BY <3>1, <3>2, <3>3 DEF Range
  <2> QED BY <2>1, <2>2
<1>4. ASSUME s # <<>> PROVE {Head(s)} \cup Range(Tail(s)) \subseteq Range(s)
  <2>1. \A i \in 1..Len(Tail(s)) : Tail(s)[i] = s[i + 1] /\ i + 1 \in 1..Len(s)
    BY <1>4
  <2> QED BY <1>4, <2>1 DEF Range
<1> QED BY <1>1, <1>2, <1>3, <1>4

\* The wheel is empty at first.
LEMMA WheelInit == Init => WheelInv
BY BucketAssumption DEF Init, WheelInv, WheelTypes, OnTime, Phase

\* A refresh makes a newest copy, in the last bucket.
LEMMA FreshKeeps ==
    ASSUME WheelInv, Fresh
    PROVE  WheelInv'
<1> USE BucketAssumption DEF WheelInv, WheelTypes
<1> DEFINE h == Head(mtasks)
<1>1. /\ h \in Conns /\ Tail(mtasks) \in Seq(Conns)
      /\ wheel' = [wheel EXCEPT ![Buckets] = @ \cup {h}]
      /\ age' = [age EXCEPT ![h] = 0] /\ mtasks' = Tail(mtasks)
      /\ mpc = "loop" /\ UNCHANGED <<mpc, mcur, expiring>>
  BY DEF Fresh, main
<1> HIDE DEF h
<1>2. WheelTypes'
  BY <1>1
<1>3. OnTime'
  <2> SUFFICES ASSUME NEW k \in Conns
               PROVE  /\ \A b \in 1..Buckets :
                            k \in wheel'[b] => /\ age'[k] <= Buckets - b
                                               /\ k \in wheel'[Buckets - age'[k]]
                      /\ k \in expiring' /\ age'[k] < Buckets =>
                            k \in wheel'[Buckets - age'[k]]
    BY DEF OnTime
  <2>1. CASE k = h
    BY <1>1, <2>1
  <2>2. CASE k # h
    BY <1>1, <2>2 DEF OnTime
  <2> QED BY <2>1, <2>2
<1>4. Phase'
  BY <1>1 DEF Phase
<1> QED BY <1>2, <1>3, <1>4

\* A turn makes every connection older by one, and moves every copy with it.
LEMMA TurnKeeps ==
    ASSUME WheelInv, Turn
    PROVE  WheelInv'
<1> USE BucketAssumption DEF WheelInv, WheelTypes
<1>1. /\ mpc' = "expire" /\ expiring' = wheel[1] /\ mtasks' = mtasks
      /\ age' = [k \in Conns |-> IF age[k] < Buckets THEN age[k] + 1 ELSE age[k]]
      /\ wheel' \in [1..Buckets -> SUBSET Conns]
      /\ wheel'[Buckets] = {}
      /\ \A b \in 1..Buckets - 1 : wheel'[b] = wheel[b + 1]
  BY TurnShape DEF Turn
<1>2. WheelTypes'
  BY <1>1
<1>3. OnTime'
  <2> SUFFICES ASSUME NEW k \in Conns
               PROVE  /\ \A b \in 1..Buckets :
                            k \in wheel'[b] => /\ age'[k] <= Buckets - b
                                               /\ k \in wheel'[Buckets - age'[k]]
                      /\ k \in expiring' /\ age'[k] < Buckets =>
                            k \in wheel'[Buckets - age'[k]]
    BY DEF OnTime
  <2>1. ASSUME NEW b \in 1..Buckets, k \in wheel'[b]
        PROVE  age'[k] <= Buckets - b /\ k \in wheel'[Buckets - age'[k]]
    <3>1. b \in 1..Buckets - 1 /\ k \in wheel[b + 1]
      BY <1>1, <2>1
    <3>2. age[k] <= Buckets - (b + 1) /\ k \in wheel[Buckets - age[k]]
      BY <3>1 DEF OnTime
    <3>3. age'[k] = age[k] + 1 /\ Buckets - age'[k] \in 1..Buckets - 1
      BY <1>1, <3>1, <3>2
    <3>4. wheel'[Buckets - age'[k]] = wheel[(Buckets - age'[k]) + 1]
      BY <1>1, <3>3
    <3>5. (Buckets - age'[k]) + 1 = Buckets - age[k]
      BY <3>3
    <3> QED BY <3>1, <3>2, <3>3, <3>4, <3>5
  <2>2. ASSUME k \in expiring', age'[k] < Buckets
        PROVE  k \in wheel'[Buckets - age'[k]]
    <3>1. k \in wheel[1]
      BY <1>1, <2>2
    <3>2. age[k] <= Buckets - 1 /\ k \in wheel[Buckets - age[k]]
      BY <3>1 DEF OnTime
    <3>3. age'[k] = age[k] + 1 /\ Buckets - age'[k] \in 1..Buckets - 1
      BY <1>1, <2>2, <3>2
    <3>4. wheel'[Buckets - age'[k]] = wheel[(Buckets - age'[k]) + 1]
      BY <1>1, <3>3
    <3>5. (Buckets - age'[k]) + 1 = Buckets - age[k]
      BY <3>3
    <3> QED BY <3>2, <3>4, <3>5
  <2> QED BY <2>1, <2>2
<1>4. Phase'
  BY <1>1 DEF Phase
<1> QED BY <1>2, <1>3, <1>4

\* A copy of the bucket being destroyed goes; the last one is of the full age.
LEMMA DropKeeps ==
    ASSUME WheelInv, NEW k \in Conns, DropSlot(k)
    PROVE  WheelInv'
<1> USE BucketAssumption DEF WheelInv, WheelTypes
<1>1. /\ k \in expiring /\ expiring' = expiring \ {k} /\ mpc = "expire"
      /\ UNCHANGED <<wheel, mtasks, age>>
      /\ mpc' = mpc \/ (mpc' = "check" /\ mcur' = k /\ ~SlotElsewhere(k))
  BY DEF DropSlot, timing
<1>2. WheelTypes'
  BY <1>1
<1>3. OnTime'
  BY <1>1 DEF OnTime
<1>4. ~SlotElsewhere(k) => age[k] = Buckets
  <2>1. age[k] < Buckets => k \in wheel[Buckets - age[k]] /\ Buckets - age[k] \in 1..Buckets
    BY <1>1 DEF OnTime
  <2> QED BY <2>1 DEF SlotElsewhere
<1>5. Phase'
  BY <1>1, <1>4 DEF Phase
<1> QED BY <1>2, <1>3, <1>5

\* The other steps leave the wheel alone; some queue a refresh.
LEMMA OthersKeep ==
    ASSUME WheelInv, UNCHANGED <<wheel, age, expiring>>,
           mtasks' \in Seq(Conns),
           mpc' \in {"loop", "sweep", "expire", "half", "shut"} \/ mpc' = mpc,
           mpc' \in {"loop", "sweep"} => expiring = {},
           mpc' \in {"check", "half", "shut"} => mpc \in {"check", "half", "shut"},
           mcur' = mcur
    PROVE  WheelInv'
BY DEF WheelInv, WheelTypes, OnTime, Phase

\* One case for each kind of step.
LEMMA WheelNext == WheelInv /\ [Next]_vars => WheelInv'
<1> SUFFICES ASSUME WheelInv, [Next]_vars PROVE WheelInv'
  OBVIOUS
<1> USE DEF main, conns, timing
<1>1. ASSUME NEW k \in Conns, NEW fd \in Fds, Accept(k, fd) PROVE WheelInv'
  BY <1>1, OthersKeep DEF Accept, WheelInv, WheelTypes, Phase
<1>2. CASE SweepBegin
  BY <1>2, OthersKeep DEF SweepBegin, WheelInv, WheelTypes, Phase
<1>3. CASE Fresh
  BY <1>3, FreshKeeps
<1>4. CASE Turn
  BY <1>4, TurnKeeps
<1>5. CASE Expire
  <2>1. ASSUME NEW fd \in Fds, SweepEntry(fd) PROVE WheelInv'
    BY <2>1, OthersKeep DEF SweepEntry, WheelInv, WheelTypes, Phase
  <2>2. ASSUME NEW k \in Conns, DropSlot(k) PROVE WheelInv'
    BY <2>2, DropKeeps
  <2>3. CASE TurnEnd \/ ShutdownCheck \/ ShutdownState \/ ShutdownSocket
    BY <2>3, OthersKeep
       DEF TurnEnd, ShutdownCheck, ShutdownState, ShutdownSocket, WheelInv, WheelTypes
  <2> QED BY <1>5, <2>1, <2>2, <2>3 DEF Expire
<1>6. ASSUME NEW k \in Conns, Io(k) \/ ReadData(k) \/ PeerCloses(k) PROVE WheelInv'
  <2>1. UNCHANGED <<wheel, age, expiring, mpc, mcur>> /\ mtasks' \in Seq(Conns)
    <3>1. CASE Refresh(k)
      BY <3>1, SMTT(30) DEF Refresh, WheelInv, WheelTypes
    <3>2. CASE Start(k) \/ ReadEnd(k) \/ ReadData(k) \/ PeerCloses(k)
      BY <3>2 DEF Start, ReadEnd, ReadData, PeerCloses, WheelInv, WheelTypes
    <3>3. CASE Answer(k) \/ AnswerBlocks(k) \/ Unregister(k)
      BY <3>3 DEF Answer, AnswerBlocks, Unregister, WheelInv, WheelTypes
    <3>4. CASE CloseSocket(k) \/ SetClosed(k) \/ Leave(k)
      BY <3>4 DEF CloseSocket, SetClosed, Leave, WheelInv, WheelTypes
    <3> QED BY <1>6, <3>1, <3>2, <3>3, <3>4 DEF Io
  <2> QED BY <2>1, OthersKeep DEF WheelInv, WheelTypes, Phase
<1>7. CASE UNCHANGED vars
  BY <1>7, OthersKeep DEF vars, WheelInv, WheelTypes, Phase
<1> QED BY <1>1, <1>2, <1>3, <1>4, <1>5, <1>6, <1>7 DEF Next

\* The inductive invariant of the wheel.
THEOREM WheelInvariant == Spec => []WheelInv
BY WheelInit, WheelNext, PTL DEF Spec

\* No connection is timed out before all the buckets have gone by (timeWheel.cc:25-35).
THEOREM NotTimedOutEarlyHolds == Spec => []NotTimedOutEarly
<1>1. WheelInv => NotTimedOutEarly
  BY DEF WheelInv, Phase, NotTimedOutEarly
<1> QED BY <1>1, WheelInvariant, PTL

-----------------------------------------------------------------------------
(* Nobody is forgotten.                                                    *)

\* Where the main thread has k on its way to or from the wheel.
Watched(k) ==
    \/ k \in Range(mtasks)
    \/ k \in expiring
    \/ mpc \in {"check", "half"} /\ mcur = k
    \/ age[k] < Buckets /\ k \in wheel[Buckets - age[k]]

Open(k) == state[k] = "Connected" /\ \E fd \in Fds : sock[fd] = k

AllWatched == \A k \in Conns : Open(k) => Watched(k)

\* What steps that touch neither the wheel nor its queue may do: no connection is opened,
\* none that is watched only because it is being shut down stays Connected.
LEMMA WatchKept ==
    ASSUME WheelInv, AllWatched, UNCHANGED <<wheel, age, expiring>>,
           mtasks' \in Seq(Conns), Range(mtasks) \subseteq Range(mtasks'),
           \A k \in Conns : Open(k)' => Open(k) \/ k \in Range(mtasks'),
           \A k \in Conns : mpc \in {"check", "half"} /\ mcur = k /\ Open(k)'
                              => mpc' \in {"check", "half"} /\ mcur' = k
    PROVE  AllWatched'
BY DEF AllWatched, Watched

\* A refresh that is taken becomes a copy in the wheel.
LEMMA WatchFresh ==
    ASSUME WheelInv, AllWatched, Fresh
    PROVE  AllWatched'
<1> USE BucketAssumption DEF WheelInv, WheelTypes
<1> DEFINE h == Head(mtasks)
<1>1. /\ h \in Conns /\ mpc = "loop"
      /\ wheel' = [wheel EXCEPT ![Buckets] = @ \cup {h}]
      /\ age' = [age EXCEPT ![h] = 0] /\ mtasks' = Tail(mtasks)
      /\ UNCHANGED <<state, sock, mpc, mcur, expiring>>
      /\ Range(mtasks) \subseteq {h} \cup Range(mtasks')
  BY RangeOfTasks DEF Fresh, main, conns
<1> HIDE DEF h
<1> SUFFICES ASSUME NEW k \in Conns, Open(k)' PROVE Watched(k)'
  BY DEF AllWatched
<1>2. Open(k)
  BY <1>1 DEF Open
<1>3. CASE k = h
  BY <1>1, <1>3 DEF Watched
<1>4. CASE k # h
  BY <1>1, <1>2, <1>4 DEF AllWatched, Watched
<1> QED BY <1>3, <1>4

\* A turn loses no copy: the first bucket is the one being destroyed now.
LEMMA WatchTurn ==
    ASSUME WheelInv, AllWatched, Turn
    PROVE  AllWatched'
<1> USE BucketAssumption DEF WheelInv, WheelTypes
<1>1. /\ mpc = "loop" /\ expiring' = wheel[1] /\ mtasks' = mtasks /\ expiring = {}
      /\ age' = [k \in Conns |-> IF age[k] < Buckets THEN age[k] + 1 ELSE age[k]]
      /\ \A b \in 1..Buckets - 1 : wheel'[b] = wheel[b + 1]
      /\ UNCHANGED <<state, sock>>
  BY TurnShape DEF Turn, Phase, conns
<1> SUFFICES ASSUME NEW k \in Conns, Open(k)' PROVE Watched(k)'
  BY DEF AllWatched
<1>2. Open(k)
  BY <1>1 DEF Open
<1>3. CASE k \in Range(mtasks)
  BY <1>1, <1>3 DEF Watched
<1>4. CASE age[k] < Buckets /\ k \in wheel[Buckets - age[k]]
  <2>1. CASE age[k] = Buckets - 1
    BY <1>1, <1>4, <2>1 DEF Watched
  <2>2. CASE age[k] # Buckets - 1
    <3>1. age'[k] = age[k] + 1 /\ age'[k] < Buckets /\ Buckets - age'[k] \in 1..Buckets - 1
      BY <1>1, <1>4, <2>2
    <3>2. wheel'[Buckets - age'[k]] = wheel[(Buckets - age'[k]) + 1]
      BY <1>1, <3>1
    <3>3. (Buckets - age'[k]) + 1 = Buckets - age[k]
      BY <3>1
    <3> QED BY <1>4, <3>1, <3>2, <3>3 DEF Watched
  <2> QED BY <2>1, <2>2
<1> QED BY <1>1, <1>2, <1>3, <1>4 DEF AllWatched, Watched

\* A copy that goes was not the last, or the connection is gone, or it is now being shut
\* down.
LEMMA WatchDrop ==
    ASSUME SocketInv, WheelInv, AllWatched, NEW j \in Conns, DropSlot(j)
    PROVE  AllWatched'
<1> USE BucketAssumption DEF WheelInv, WheelTypes
<1>1. /\ j \in expiring /\ expiring' = expiring \ {j} /\ mpc = "expire"
      /\ UNCHANGED <<wheel, mtasks, age, state, sock>>
      /\ SlotElsewhere(j) \/ freed[j] \/ (mpc' = "check" /\ mcur' = j)
  BY DEF DropSlot, timing, conns
<1> SUFFICES ASSUME NEW k \in Conns, Open(k)' PROVE Watched(k)'
  BY DEF AllWatched
<1>2. Open(k)
  BY <1>1 DEF Open
<1>3. CASE k = j
  <2>1. ~freed[k]
    BY <1>2, NoneAssumption DEF Open, SocketInv, Owned
  <2>2. CASE SlotElsewhere(k)
    <3>1. CASE k \in Range(mtasks)
      BY <1>1, <3>1 DEF Watched
    <3>2. ASSUME NEW b \in 1..Buckets, k \in wheel[b] PROVE Watched(k)'
      <4>1. age[k] <= Buckets - b /\ k \in wheel[Buckets - age[k]]
        BY <3>2 DEF OnTime
      <4> QED BY <1>1, <4>1 DEF Watched
    <3> QED BY <2>2, <3>1, <3>2 DEF SlotElsewhere
  <2>3. CASE mpc' = "check" /\ mcur' = k
    BY <2>3 DEF Watched
  <2> QED BY <1>1, <1>3, <2>1, <2>2, <2>3
<1>4. CASE k # j
  BY <1>1, <1>2, <1>4 DEF AllWatched, Watched
<1> QED BY <1>3, <1>4

\* No connection is open at first.
LEMMA WatchInit == Init => AllWatched
BY DEF Init, AllWatched, Open

\* One case for each kind of step.
LEMMA WatchNext ==
    SocketInv /\ WheelInv /\ AllWatched /\ [Next]_vars => AllWatched'
<1> SUFFICES ASSUME SocketInv, WheelInv, AllWatched, [Next]_vars PROVE AllWatched'
  OBVIOUS
<1> USE DEF main, conns, timing
<1>0. mtasks \in Seq(Conns)
  BY DEF WheelInv, WheelTypes
<1>1. ASSUME NEW k \in Conns, NEW fd \in Fds, Accept(k, fd) PROVE AllWatched'
  <2>1. /\ mtasks' = Append(mtasks, k) /\ mpc = "loop" /\ UNCHANGED <<wheel, age, expiring>>
        /\ \A j \in Conns : j # k /\ Open(j)' => Open(j)
    BY <1>1 DEF Accept, Open, SocketInv, SocketTypes
  <2>2. /\ mtasks' \in Seq(Conns) /\ Range(mtasks) \subseteq Range(mtasks')
        /\ k \in Range(mtasks')
    BY <1>0, <2>1, RangeOfTasks
  <2> QED BY <2>1, <2>2, WatchKept
<1>2. CASE SweepBegin
  BY <1>0, <1>2, WatchKept DEF SweepBegin, Open
<1>3. CASE Fresh
  BY <1>3, WatchFresh
<1>4. CASE Turn
  BY <1>4, WatchTurn
<1>5. CASE Expire
  <2>1. ASSUME NEW fd \in Fds, SweepEntry(fd) PROVE AllWatched'
    <3>1. UNCHANGED <<wheel, age, expiring, mtasks, state, sock>> /\ mpc = "sweep"
      BY <2>1 DEF SweepEntry
    <3> QED BY <1>0, <3>1, WatchKept DEF Open
  <2>2. ASSUME NEW k \in Conns, DropSlot(k) PROVE AllWatched'
    BY <2>2, WatchDrop
  <2>3. CASE TurnEnd
    BY <1>0, <2>3, WatchKept DEF TurnEnd, Open
  <2>4. CASE ShutdownCheck
    BY <1>0, <2>4, WatchKept DEF ShutdownCheck, Open
  <2>5. CASE ShutdownState
    <3>1. /\ UNCHANGED <<wheel, age, expiring, mtasks, sock>> /\ mpc = "half"
          /\ \A k \in Conns : /\ state'[k] = state[k] \/ state'[k] = "HalfClosing"
                              /\ mcur = k => state'[k] = "HalfClosing"
      BY <2>5 DEF ShutdownState, SocketInv, SocketTypes
    <3> QED BY <1>0, <3>1, WatchKept DEF Open
  <2>6. CASE ShutdownSocket
    BY <1>0, <2>6, WatchKept DEF ShutdownSocket, Open
  <2> QED BY <1>5, <2>1, <2>2, <2>3, <2>4, <2>5, <2>6 DEF Expire
<1>6. ASSUME NEW k \in Conns, Refresh(k) PROVE AllWatched'
  <2>1. /\ UNCHANGED <<wheel, age, expiring, state, sock, mpc, mcur>>
        /\ mtasks' = mtasks \/ mtasks' = Append(mtasks, k)
    BY <1>6 DEF Refresh
  <2>2. mtasks' \in Seq(Conns) /\ Range(mtasks) \subseteq Range(mtasks')
    <3>1. CASE mtasks' = mtasks
      BY <1>0, <3>1, Zenon
    <3>2. CASE mtasks' = Append(mtasks, k)
      <4>1. Append(mtasks, k) \in Seq(Conns)
        BY <1>0
      <4>2. Range(mtasks) \subseteq Range(Append(mtasks, k))
        BY <1>0, RangeOfTasks
      <4> QED BY <3>2, <4>1, <4>2, Zenon
    <3> QED BY <2>1, <3>1, <3>2
  <2> QED BY <2>1, <2>2, WatchKept DEF Open
<1>7. ASSUME NEW k \in Conns,
             \/ Start(k) \/ ReadEnd(k) \/ Answer(k) \/ AnswerBlocks(k) \/ Unregister(k)
             \/ CloseSocket(k) \/ SetClosed(k) \/ Leave(k) \/ ReadData(k) \/ PeerCloses(k)
      PROVE  AllWatched'
  <2>1. UNCHANGED <<wheel, age, expiring, mtasks, mpc, mcur>>
    BY <1>7 DEF Start, ReadEnd, Answer, AnswerBlocks, Unregister, CloseSocket, SetClosed,
                Leave, ReadData, PeerCloses
  <2>2. \A j \in Conns : Open(j)' => Open(j)
    <3>1. CASE CloseSocket(k)
      BY <3>1, NoneAssumption DEF CloseSocket, Open, SocketInv, SocketTypes
    <3>2. CASE SetClosed(k)
      BY <3>2 DEF SetClosed, Open, SocketInv, SocketTypes
    <3>3. CASE ~CloseSocket(k) /\ ~SetClosed(k)
      BY <1>7, <3>3
         DEF Start, ReadEnd, Answer, AnswerBlocks, Unregister, Leave, ReadData, PeerCloses,
             Open
    <3> QED BY <3>1, <3>2, <3>3
  <2> QED BY <1>0, <2>1, <2>2, WatchKept
<1>8. CASE UNCHANGED vars
  BY <1>0, <1>8, WatchKept DEF vars, Open
<1> QED BY <1>1, <1>2, <1>3, <1>4, <1>5, <1>6, <1>7, <1>8 DEF Next, Io

\* And none is forgotten: an open connection can always still be timed out.
THEOREM IdleIsWatchedHolds == Spec => []IdleIsWatched
<1>1. SocketInv /\ AllWatched => IdleIsWatched
  <2> SUFFICES ASSUME SocketInv, AllWatched, NEW fd \in Fds, sock[fd] # None,
                      state[sock[fd]] = "Connected"
               PROVE  Watched(sock[fd])
    BY DEF IdleIsWatched, Watched
  <2>1. sock[fd] \in Conns /\ Open(sock[fd])
    BY DEF SocketInv, SocketTypes, Open
  <2> QED BY <2>1 DEF AllWatched
<1> QED BY <1>1, WatchInit, WatchNext, SocketInvariant, WheelInvariant, PTL DEF Spec

-----------------------------------------------------------------------------
(* The time-out reaches its own connection.                                *)

\* The table has every connection that has not been destroyed.
Kept ==
    \A k \in Conns :
        state[k] # "none" /\ ~freed[k] => fdOf[k] \in Fds /\ client[fdOf[k]] = k

\* Only an accepted connection has a slot.
Entered == \A k \in Conns : SlotAlive(k) => state[k] # "none"

\* While the main thread is in shutdownConnection it accepts nothing, so that the number of
\* the connection is its own or free.
Targeted ==
    mpc \in {"check", "half", "shut"} =>
        /\ fdOf[mcur] \in Fds /\ sock[fdOf[mcur]] \in {mcur, None}
        /\ state[mcur] # "none"

TimeoutInv == Kept /\ Entered /\ Targeted

\* A step that accepts, destroys and times out nobody.
LEMMA TimeoutStays ==
    ASSUME SocketInv, TimeoutInv, WheelInv,
           UNCHANGED <<fdOf, client, freed>>,
           \A fd \in Fds : sock'[fd] \in {sock[fd], None},
           \A k \in Conns : state'[k] = "none" <=> state[k] = "none",
           \A k \in Conns : SlotAlive(k)' => state[k] # "none",
           mpc' \in {"check", "half", "shut"} =>
               mpc \in {"check", "half", "shut"} /\ mcur' = mcur
    PROVE  TimeoutInv'
<1>1. Kept'
  BY DEF TimeoutInv, Kept
<1>2. Entered'
  BY DEF Entered
<1>3. Targeted'
  BY DEF TimeoutInv, Targeted, WheelInv, WheelTypes
<1> QED BY <1>1, <1>2, <1>3 DEF TimeoutInv

\* A new connection takes the place of the one the table had, which is destroyed.
LEMMA TimeoutAccept ==
    ASSUME SocketInv, WheelInv, TimeoutInv, NEW k \in Conns, NEW fd \in Fds, Accept(k, fd)
    PROVE  TimeoutInv'
<1>1. /\ mpc = "loop" /\ state[k] = "none"
      /\ fdOf' = [fdOf EXCEPT ![k] = fd]
      /\ client' = [client EXCEPT ![fd] = k]
      /\ freed' = [j \in Conns |-> freed[j] \/ j = client[fd]]
      /\ state' = [state EXCEPT ![k] = "Connected"]
      /\ mtasks' = Append(mtasks, k)
      /\ UNCHANGED <<wheel, mpc, expiring>>
  BY DEF Accept, main
<1>2. /\ fdOf'[k] = fd /\ client'[fd] = k /\ state'[k] = "Connected"
      /\ \A j \in Conns \ {k} : fdOf'[j] = fdOf[j] /\ state'[j] = state[j]
      /\ \A g \in Fds \ {fd} : client'[g] = client[g]
  BY <1>1 DEF SocketInv, SocketTypes
<1>3. Kept'
  <2> SUFFICES ASSUME NEW j \in Conns, state'[j] # "none", ~freed'[j]
               PROVE  fdOf'[j] \in Fds /\ client'[fdOf'[j]] = j
    BY DEF Kept
  <2>1. CASE j = k
    BY <1>2, <2>1
  <2>2. CASE j # k
    <3>1. fdOf[j] \in Fds /\ client[fdOf[j]] = j /\ j # client[fd]
      BY <1>1, <1>2, <2>2 DEF TimeoutInv, Kept
    <3> QED BY <1>2, <2>2, <3>1
  <2> QED BY <2>1, <2>2
<1>4. Entered'
  <2> SUFFICES ASSUME NEW j \in Conns, j # k, SlotAlive(j)' PROVE SlotAlive(j)
    BY <1>2 DEF TimeoutInv, Entered
  <2>1. j \in Range(mtasks') => j \in Range(mtasks)
    <3>1. mtasks \in Seq(Conns)
      BY DEF WheelInv, WheelTypes
    <3> QED BY <1>1, <3>1 DEF Range
  <2> QED BY <1>1, <2>1 DEF SlotAlive, SlotElsewhere
<1>5. Targeted'
  BY <1>1 DEF Targeted
<1> QED BY <1>3, <1>4, <1>5 DEF TimeoutInv

\* A connection that the sweep destroys leaves the table.
LEMMA TimeoutSweep ==
    ASSUME SocketInv, WheelInv, TimeoutInv, NEW fd \in Fds, SweepEntry(fd)
    PROVE  TimeoutInv'
<1>1. UNCHANGED <<sock, fdOf, state, wheel, mtasks, expiring>> /\ mpc' \in {"loop", "sweep"}
  BY DEF SweepEntry, timing
<1>2. \/ freed' = [freed EXCEPT ![client[fd]] = TRUE] /\ client' = [client EXCEPT ![fd] = None]
      \/ UNCHANGED <<freed, client>>
  BY DEF SweepEntry
<1>3. Kept'
  BY <1>1, <1>2, NoneAssumption DEF TimeoutInv, Kept, SocketInv, SocketTypes
<1>4. Entered' /\ Targeted'
  BY <1>1 DEF TimeoutInv, Entered, Targeted, SlotAlive, SlotElsewhere
<1> QED BY <1>3, <1>4 DEF TimeoutInv

\* The slots move, and none appears for a connection that had none, except at a refresh.
LEMMA TimeoutWheel ==
    ASSUME SocketInv, WheelInv, TimeoutInv, Fresh \/ Turn \/ \E k \in Conns : DropSlot(k)
    PROVE  TimeoutInv'
<1>0. /\ wheel \in [1..Buckets -> SUBSET Conns] /\ mtasks \in Seq(Conns)
      /\ \A k \in Conns : SlotAlive(k) => state[k] # "none"
  BY DEF WheelInv, WheelTypes, TimeoutInv, Entered
<1>1. CASE Fresh
  <2>1. Head(mtasks) \in Range(mtasks) /\ Range(Tail(mtasks)) \subseteq Range(mtasks)
    BY <1>0, <1>1, RangeOfTasks DEF Fresh
  <2>2. \A k \in Conns : SlotAlive(k)' => SlotAlive(k)
    BY <1>0, <1>1, <2>1 DEF Fresh, SlotAlive, SlotElsewhere, main
  <2> QED BY <1>0, <1>1, <2>2, TimeoutStays DEF Fresh, conns, main
<1>2. CASE Turn
  <2>1. \A k \in Conns : SlotAlive(k)' => SlotAlive(k)
    <3>1. /\ expiring' = wheel[1] /\ wheel'[Buckets] = {}
          /\ \A b \in 1..Buckets - 1 : wheel'[b] = wheel[b + 1]
      BY <1>0, <1>2, TurnShape DEF Turn
    <3>2. \A b \in 1..Buckets : b = Buckets \/ (b \in 1..Buckets - 1 /\ b + 1 \in 1..Buckets)
      BY BucketAssumption
    <3>3. 1 \in 1..Buckets /\ mtasks' = mtasks
      BY <1>2, BucketAssumption DEF Turn
    <3> QED BY <3>1, <3>2, <3>3 DEF SlotAlive, SlotElsewhere
  <2> QED BY <1>0, <1>2, <2>1, TimeoutStays DEF Turn, conns
<1>3. ASSUME NEW k \in Conns, DropSlot(k) PROVE TimeoutInv'
  <2>1. /\ k \in expiring /\ expiring' = expiring \ {k}
        /\ UNCHANGED <<sock, fdOf, client, state, freed, wheel, mtasks>>
    BY <1>3 DEF DropSlot, conns, timing
  <2>2. \A j \in Conns : SlotAlive(j)' => SlotAlive(j)
    BY <2>1 DEF SlotAlive, SlotElsewhere
  <2>3. CASE SlotElsewhere(k) \/ freed[k]
    BY <1>0, <1>3, <2>1, <2>2, <2>3, TimeoutStays DEF DropSlot
  <2>4. CASE ~(SlotElsewhere(k) \/ freed[k])
    <3>1. mcur' = k /\ state[k] # "none"
      BY <1>0, <1>3, <2>1, <2>4 DEF DropSlot, SlotAlive
    <3>2. fdOf[k] \in Fds /\ client[fdOf[k]] = k
      BY <2>4, <3>1 DEF TimeoutInv, Kept
    <3>3. sock[fdOf[k]] \in {k, None}
      BY <3>2 DEF SocketInv, Owned
    <3>4. Targeted'
      BY <2>1, <3>1, <3>2, <3>3 DEF Targeted
    <3>5. Kept' /\ Entered'
      BY <1>0, <2>1, <2>2 DEF TimeoutInv, Kept, Entered
    <3> QED BY <3>4, <3>5 DEF TimeoutInv
  <2> QED BY <2>3, <2>4
<1> QED BY <1>1, <1>2, <1>3

\* The rest of the main thread, and the coroutines.
LEMMA TimeoutRest ==
    ASSUME SocketInv, WheelInv, TimeoutInv,
           \/ SweepBegin \/ TurnEnd \/ ShutdownCheck \/ ShutdownState \/ ShutdownSocket
           \/ UNCHANGED vars
           \/ \E k \in Conns : Io(k) \/ ReadData(k) \/ PeerCloses(k)
    PROVE  TimeoutInv'
<1>0. /\ mtasks \in Seq(Conns) /\ \A k \in Conns : SlotAlive(k) => state[k] # "none"
      /\ mpc \in {"check", "half", "shut"} => mcur \in Conns
  BY DEF WheelInv, WheelTypes, TimeoutInv, Entered
<1>1. CASE SweepBegin \/ TurnEnd \/ ShutdownCheck \/ ShutdownSocket \/ UNCHANGED vars
  <2>1. /\ UNCHANGED <<sock, fdOf, client, state, freed, wheel, mtasks, expiring>>
        /\ mpc' \in {"check", "half", "shut"} =>
              mpc \in {"check", "half", "shut"} /\ mcur' = mcur
    BY <1>1 DEF SweepBegin, TurnEnd, ShutdownCheck, ShutdownSocket, vars, conns, timing
  <2>2. \A k \in Conns : SlotAlive(k)' => state[k] # "none"
    BY <1>0, <2>1 DEF SlotAlive, SlotElsewhere
  <2> QED BY <2>1, <2>2, TimeoutStays
<1>2. CASE ShutdownState
  <2>1. /\ UNCHANGED <<sock, fdOf, client, freed, wheel, mtasks, expiring, mcur>>
        /\ mpc = "half" /\ state' = [state EXCEPT ![mcur] = "HalfClosing"]
    BY <1>2 DEF ShutdownState, timing
  <2>2. state[mcur] # "none"
    BY <2>1 DEF TimeoutInv, Targeted
  <2>3. \A k \in Conns : state'[k] = "none" <=> state[k] = "none"
    BY <2>1, <2>2 DEF SocketInv, SocketTypes
  <2>4. \A k \in Conns : SlotAlive(k)' => state[k] # "none"
    BY <1>0, <2>1 DEF SlotAlive, SlotElsewhere
  <2> QED BY <2>1, <2>3, <2>4, TimeoutStays
<1>3. ASSUME NEW k \in Conns, Io(k) \/ ReadData(k) \/ PeerCloses(k) PROVE TimeoutInv'
  <2>1. /\ UNCHANGED <<fdOf, client, freed, wheel, expiring, mpc, mcur>>
        /\ \/ sock' = sock
           \/ sock' = [sock EXCEPT ![fdOf[k]] = None]
        /\ \/ state' = state
           \/ pc[k] = "closed" /\ state' = [state EXCEPT ![k] = "Closed"]
        /\ \/ mtasks' = mtasks
           \/ pc[k] = "refresh" /\ mtasks' = Append(mtasks, k)
    BY <1>3 DEF Io, ReadData, PeerCloses, Start, ReadEnd, Refresh, Answer, AnswerBlocks,
                Unregister, CloseSocket, SetClosed, Leave, Goto, main, timing
  <2>2. pc[k] \in {"closed", "refresh"} => state[k] # "none"
    BY DEF SocketInv, Unused
  <2>3. \A fd \in Fds : sock'[fd] \in {sock[fd], None}
    BY <2>1 DEF SocketInv, SocketTypes
  <2>4. \A j \in Conns : state'[j] = "none" <=> state[j] = "none"
    BY <2>1, <2>2 DEF SocketInv, SocketTypes
  <2>5. \A j \in Conns : SlotAlive(j)' => state[j] # "none"
    <3>1. \A j \in Conns : j \in Range(mtasks') =>
             j \in Range(mtasks) \/ (j = k /\ pc[k] = "refresh")
      BY <1>0, <2>1 DEF Range
    <3> QED BY <1>0, <2>1, <2>2, <3>1 DEF SlotAlive, SlotElsewhere
  <2> QED BY <2>1, <2>3, <2>4, <2>5, TimeoutStays
<1> QED BY <1>1, <1>2, <1>3

\* The time-out of a connection never shuts down the socket of another that has got its
\* number (tcpConnection.cc:53-62): only the main thread gives the number to another.
THEOREM ShutdownHitsOwnHolds == Spec => []ShutdownHitsOwn
<1>1. Init => TimeoutInv
  BY DEF Init, TimeoutInv, Kept, Entered, Targeted, SlotAlive, SlotElsewhere, Range
<1>2. SocketInv /\ WheelInv /\ TimeoutInv /\ [Next]_vars => TimeoutInv'
  BY TimeoutAccept, TimeoutSweep, TimeoutWheel, TimeoutRest DEF Next, Expire
<1>3. TimeoutInv => ShutdownHitsOwn
  BY DEF TimeoutInv, Targeted, ShutdownHitsOwn
<1> QED BY <1>1, <1>2, <1>3, SocketInvariant, WheelInvariant, PTL DEF Spec

-----------------------------------------------------------------------------
(* Types.                                                                  *)

\* What the two invariants above do not mention.
OtherTypes ==
    /\ ended \in [Conns -> BOOLEAN]
    /\ mcur \in Conns \cup {None}
    /\ entries \subseteq Fds

\* Every step keeps them.
LEMMA OtherTypesNext == OtherTypes /\ [Next]_vars => OtherTypes'
<1> SUFFICES ASSUME OtherTypes, [Next]_vars PROVE OtherTypes'
  OBVIOUS
<1> USE DEF main, conns, timing, OtherTypes
<1>1. ASSUME NEW k \in Conns, NEW fd \in Fds, Accept(k, fd) PROVE OtherTypes'
  BY <1>1 DEF Accept
<1>2. CASE SweepBegin \/ Fresh \/ Turn
  BY <1>2 DEF SweepBegin, Fresh, Turn
<1>3. CASE Expire
  BY <1>3 DEF Expire, SweepEntry, DropSlot, TurnEnd, ShutdownCheck, ShutdownState,
              ShutdownSocket
<1>4. ASSUME NEW k \in Conns,
             \/ Refresh(k) \/ Start(k) \/ ReadEnd(k) \/ Answer(k) \/ AnswerBlocks(k)
             \/ Unregister(k) \/ CloseSocket(k) \/ SetClosed(k) \/ Leave(k)
             \/ ReadData(k) \/ PeerCloses(k)
      PROVE  OtherTypes'
  BY <1>4 DEF Refresh, Start, ReadEnd, Answer, AnswerBlocks, Unregister, CloseSocket,
              SetClosed, Leave, ReadData, PeerCloses
<1>5. CASE UNCHANGED vars
  BY <1>5 DEF vars
<1> QED BY <1>1, <1>2, <1>3, <1>4, <1>5 DEF Next, Io

\* Every variable keeps its type: no member of the table, the wheel or the queue is ever
\* something else than a connection.
THEOREM TypeCorrect == Spec => []TypeOK
<1>1. Init => OtherTypes
  BY DEF Init, OtherTypes
<1>2. SocketInv /\ WheelInv /\ OtherTypes => TypeOK
  BY DEF SocketInv, SocketTypes, WheelInv, WheelTypes, OtherTypes, TypeOK, Using
<1> QED BY <1>1, <1>2, OtherTypesNext, SocketInvariant, WheelInvariant, PTL DEF Spec

-----------------------------------------------------------------------------
(* A timer for each connection.                                            *)

\* A refresh that arrives puts the connection's timer back; the tasks behind it may hold
\* another.
LEMMA FreshRestarts ==
    ASSUME WheelInv, Fresh
    PROVE  \E k \in Conns : Idle!Restart(k)
<1> USE BucketAssumption DEF WheelInv, WheelTypes
<1> DEFINE h == Head(mtasks)
<1>1. /\ h \in Conns /\ h \in Range(mtasks)
      /\ wheel' = [wheel EXCEPT ![Buckets] = @ \cup {h}]
      /\ age' = [age EXCEPT ![h] = 0] /\ mtasks' = Tail(mtasks)
      /\ mpc = "loop" /\ UNCHANGED <<mpc, mcur, expiring, freed>>
  BY DEF Fresh, main, conns, Range
<1>2. Range(mtasks') = Range(mtasks) \/ Range(mtasks') = Range(mtasks) \ {h}
  <2>1. Range(mtasks) = {h} \cup Range(mtasks')
    BY <1>1, RangeOfTasks DEF Fresh
  <2> QED BY <2>1
<1> HIDE DEF h
<1>3. Timed' = Timed \cup {h}
  <2>1. h \in Timed'
    BY <1>1 DEF Timed
  <2>2. ASSUME NEW k \in Conns, k # h PROVE k \in Timed' <=> k \in Timed
    BY <1>1, <2>2 DEF Timed
  <2> QED BY <1>1, <2>1, <2>2 DEF Timed
<1>4. Due = {} /\ Due' = {} /\ Target = None /\ Target' = None /\ Gone' = Gone
  BY <1>1 DEF Due, Target, Gone, Phase
<1>5. Idle!Restart(h)
  BY <1>1, <1>2, <1>3, <1>4 DEF Idle!Restart, Idle!Free, Timed, Due, Target, Gone
<1> QED BY <1>1, <1>5 DEF Idle!Restart, Idle!Free

\* A turn makes every timer go on, and those whose time is up are in the bucket that goes.
LEMMA TurnTurns ==
    ASSUME WheelInv, Turn
    PROVE  Idle!Turn
<1> USE BucketAssumption DEF WheelInv, WheelTypes
<1>1. /\ mpc = "loop" /\ mpc' = "expire" /\ expiring' = wheel[1]
      /\ UNCHANGED <<mtasks, freed>>
      /\ age' = [k \in Conns |-> IF age[k] < Buckets THEN age[k] + 1 ELSE age[k]]
      /\ wheel'[Buckets] = {}
      /\ \A b \in 1..Buckets - 1 : wheel'[b] = wheel[b + 1]
  BY TurnShape DEF Turn, conns
<1>2. Due' = {k \in Timed : age'[k] = Buckets}
  <2> SUFFICES ASSUME NEW k \in Conns, age'[k] = Buckets
               PROVE  k \in wheel[1] <=> k \in Timed
    BY <1>1 DEF Due, Timed
  <2>1. age[k] \in {Buckets - 1, Buckets}
    BY <1>1
  <2>2. k \in wheel[1] => age[k] <= Buckets - 1
    BY DEF OnTime
  <2>3. Buckets - (Buckets - 1) = 1
    OBVIOUS
  <2> QED BY <2>1, <2>2, <2>3 DEF Timed
<1>3. Timed' = Timed \ Due'
  <2> SUFFICES ASSUME NEW k \in Conns
               PROVE  k \in Timed' <=> k \in Timed /\ age'[k] # Buckets
    BY <1>2 DEF Timed
  <2>1. CASE age[k] + 1 < Buckets
    <3> DEFINE b == Buckets - age'[k]
    <3>0. age'[k] = age[k] + 1 /\ age[k] \in Nat
      BY <1>1, <2>1
    <3>1. b \in 1..Buckets - 1 /\ b + 1 = Buckets - age[k]
      BY <2>1, <3>0
    <3>2. wheel'[b] = wheel[Buckets - age[k]]
      BY <1>1, <3>1
    <3> QED BY <2>1, <3>0, <3>1, <3>2 DEF Timed
  <2>2. CASE ~(age[k] + 1 < Buckets)
    BY <1>1, <2>2 DEF Timed
  <2> QED BY <2>1, <2>2
<1>4. Due = {} /\ Target = None /\ Target' = None /\ Gone' = Gone
  BY <1>1 DEF Due, Target, Gone, Phase
<1> QED BY <1>1, <1>2, <1>3, <1>4 DEF Idle!Turn, Idle!Free, Timed, Due, Target, Gone

\* A copy of a slot that goes is an old one, and nothing happens; or it is the newest, and
\* only a refresh that is under way saves the connection.
LEMMA DropDecides ==
    ASSUME WheelInv, NEW k \in Conns, DropSlot(k)
    PROVE  Idle!Decide(k) \/ UNCHANGED <<age, Timed, Range(mtasks), Due, Target, Gone>>
<1> USE BucketAssumption DEF WheelInv, WheelTypes
<1>1. /\ k \in expiring /\ expiring' = expiring \ {k} /\ mpc = "expire"
      /\ UNCHANGED <<wheel, mtasks, age, freed>>
      /\ IF SlotElsewhere(k) \/ freed[k] THEN UNCHANGED <<mpc, mcur>>
         ELSE mpc' = "check" /\ mcur' = k
  BY DEF DropSlot, timing, conns
<1>2. UNCHANGED <<age, Timed, Range(mtasks), Gone>> /\ Target = None /\ Due' = Due \ {k}
  BY <1>1 DEF Timed, Target, Gone, Due
<1>3. CASE age[k] = Buckets
  <2>1. SlotElsewhere(k) <=> k \in Range(mtasks)
    BY <1>3 DEF SlotElsewhere, OnTime
  <2>2. Target' = IF k \in Range(mtasks) \cup Gone THEN None ELSE k
    BY <1>1, <2>1 DEF Target, Gone
  <2>3. k \in Due
    BY <1>1, <1>3 DEF Due
  <2> QED BY <1>2, <2>2, <2>3 DEF Idle!Decide, Timed, Due, Target, Gone
<1>4. CASE age[k] # Buckets
  <2>1. age[k] < Buckets /\ k \in wheel[Buckets - age[k]]
    BY <1>1, <1>4 DEF OnTime
  <2>2. SlotElsewhere(k)
    BY <2>1 DEF SlotElsewhere
  <2>3. Target' = Target /\ k \notin Due
    BY <1>1, <1>4, <2>2 DEF Target, Due
  <2> QED BY <1>2, <2>3
<1> QED BY <1>3, <1>4


\* A step that leaves the wheel alone queues a refresh at most, or ends a time-out.
LEMMA OthersTouch ==
    ASSUME WheelInv, UNCHANGED <<wheel, age, expiring>>, Gone \subseteq Gone',
           \/ /\ mtasks' = mtasks \/ \E k \in Conns : mtasks' = Append(mtasks, k)
              /\ Target' = Target
           \/ UNCHANGED <<mtasks, freed>> /\ Target' = None
    PROVE  [Idle!Next]_(Idle!vars)
<1>1. UNCHANGED <<age, Timed, Due>>
  BY DEF Timed, Due
<1>2. CASE mtasks' = mtasks /\ Target' = Target
  <2>1. Range(mtasks') = Range(mtasks)
    BY <1>2
  <2> QED BY <1>1, <1>2, <2>1
          DEF Idle!Next, Idle!Vanish, Timed, Due, Target, Gone
<1>3. ASSUME NEW k \in Conns, mtasks' = Append(mtasks, k), Target' = Target
      PROVE  Idle!Next
  <2>1. Range(mtasks') = Range(mtasks) \cup {k}
    BY <1>3, RangeOfTasks DEF WheelInv, WheelTypes
  <2> QED BY <1>1, <1>3, <2>1 DEF Idle!Next, Idle!Touch, Timed, Due, Target, Gone
<1>4. CASE UNCHANGED <<mtasks, freed>> /\ Target' = None
  <2>1. Range(mtasks') = Range(mtasks) /\ Gone' = Gone
    BY <1>4 DEF Gone
  <2> QED BY <1>1, <1>4, <2>1 DEF Idle!Next, Idle!Finish, Timed, Due, Target, Gone
<1> QED BY <1>2, <1>3, <1>4

\* Every step of the server is one of the timers, or none of their business.
LEMMA IdleStep ==
    SocketInv /\ WheelInv /\ [Next]_vars => [Idle!Next]_(Idle!vars)
<1> SUFFICES ASSUME SocketInv, WheelInv, [Next]_vars PROVE [Idle!Next]_(Idle!vars)
  OBVIOUS
<1> USE DEF main, conns, timing
<1>0. freed \in [Conns -> BOOLEAN]
  BY DEF SocketInv, SocketTypes
<1>1. ASSUME NEW k \in Conns, NEW fd \in Fds, Accept(k, fd)
      PROVE  [Idle!Next]_(Idle!vars)
  <2>1. /\ UNCHANGED <<wheel, age, expiring, mpc, mcur>> /\ mtasks' = Append(mtasks, k)
        /\ freed' = [j \in Conns |-> freed[j] \/ j = client[fd]]
    BY <1>1 DEF Accept
  <2> QED BY <2>1, OthersTouch DEF Target, Gone
<1>2. CASE Fresh
  BY <1>2, FreshRestarts DEF Idle!Next
<1>3. CASE Turn
  BY <1>3, TurnTurns DEF Idle!Next
<1>4. ASSUME NEW fd \in Fds, SweepEntry(fd) PROVE [Idle!Next]_(Idle!vars)
  <2>1. /\ UNCHANGED <<wheel, age, expiring, mcur, mtasks>>
        /\ mpc = "sweep" /\ mpc' \in {"loop", "sweep"}
        /\ freed' = freed \/ freed' = [freed EXCEPT ![client[fd]] = TRUE]
    BY <1>4 DEF SweepEntry
  <2> QED BY <1>0, <2>1, OthersTouch DEF Target, Gone
<1>5. ASSUME NEW k \in Conns, DropSlot(k) PROVE [Idle!Next]_(Idle!vars)
  <2>1. CASE Idle!Decide(k)
    BY <2>1 DEF Idle!Next
  <2>2. CASE UNCHANGED <<age, Timed, Range(mtasks), Due, Target, Gone>>
    BY <2>2 DEF Idle!vars, Timed, Due, Target, Gone
  <2> QED BY <1>5, <2>1, <2>2, DropDecides
<1>6. CASE SweepBegin \/ TurnEnd \/ ShutdownCheck \/ ShutdownState \/ ShutdownSocket
  <2>1. /\ UNCHANGED <<wheel, age, expiring, mcur, mtasks, freed>>
        /\ mpc' = mpc \/ mpc' \notin {"check", "half", "shut"}
           \/ (mpc \in {"check", "half"} /\ mpc' \in {"half", "shut"})
    BY <1>6 DEF SweepBegin, TurnEnd, ShutdownCheck, ShutdownState, ShutdownSocket
  <2>2. Target' = Target \/ Target' = None
    BY <2>1 DEF Target
  <2> QED BY <2>1, <2>2, OthersTouch DEF Gone
<1>7. ASSUME NEW k \in Conns, Io(k) \/ ReadData(k) \/ PeerCloses(k)
      PROVE  [Idle!Next]_(Idle!vars)
  <2>1. /\ UNCHANGED <<freed, wheel, age, expiring, mpc, mcur>>
        /\ mtasks' = mtasks \/ mtasks' = Append(mtasks, k)
    BY <1>7 DEF Io, ReadData, PeerCloses, Start, ReadEnd, Refresh, Answer, AnswerBlocks,
                Unregister, CloseSocket, SetClosed, Leave, Goto
  <2> QED BY <2>1, OthersTouch DEF Target, Gone
<1>8. CASE UNCHANGED vars
  BY <1>8, OthersTouch DEF vars, Target, Gone
<1> QED BY <1>1, <1>2, <1>3, <1>4, <1>5, <1>6, <1>7, <1>8 DEF Next, Expire

\* The buckets, the copies of the slots in them and the refreshes under way are, for every
\* connection, a timer of its own: it is timed out after as many turns without use as there
\* are buckets, neither before nor after (timeWheel.cc:25-41).
THEOREM ServerIsIdleTimer == Spec => IsIdleTimer
<1>1. Init => Idle!Init
  BY BucketAssumption DEF Init, Idle!Init, Range, Timed, Due, Target, Gone
<1>2. SocketInv /\ WheelInv /\ [Next]_vars => [Idle!Next]_(Idle!vars)
  BY IdleStep
<1> QED BY <1>1, <1>2, SocketInvariant, WheelInvariant, PTL DEF Spec, IsIdleTimer, Idle!Spec

=============================================================================
