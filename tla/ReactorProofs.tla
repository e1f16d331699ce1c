---------------------------- MODULE ReactorProofs ----------------------------
(***************************************************************************)
(* Proofs about the reactor for any number of clients, tasks and           *)
(* descriptors: type correctness, that no wake-up is lost, that each       *)
(* descriptor is registered as was asked, that every task is in one place, *)
(* in its order, and that those who hand in tasks see the mailbox of       *)
(* module Mailbox.                                                         *)
(***************************************************************************)
EXTENDS Reactor, TLAPS, FiniteSetTheorems

-----------------------------------------------------------------------------
(* Facts about sequences.                                                  *)

\* The elements of a sequence over S are in S; appending adds one of them.
LEMMA RangeAppend ==
    ASSUME NEW S, NEW s \in Seq(S), NEW x \in S
    PROVE  /\ Range(s) \subseteq S
           /\ Range(Append(s, x)) = Range(s) \cup {x}
<1>1. DOMAIN s = 1..Len(s) /\ DOMAIN Append(s, x) = 1..Len(s) + 1 /\ Len(s) \in Nat
  OBVIOUS
<1>2. \A i \in 1..Len(s) : Append(s, x)[i] = s[i] /\ s[i] \in S
  OBVIOUS
<1>3. Append(s, x)[Len(s) + 1] = x
  OBVIOUS
<1> QED BY <1>1, <1>2, <1>3 DEF Range

\* The vector of PushTasks is a sequence of tasks.
LEMMA VectorType ==
    ASSUME NEW v \in Vectors
    PROVE  v \in Seq(Tasks) /\ Range(v) \subseteq Tasks
<1>1. PICK n \in 0..MaxVector : v \in [1..n -> Tasks]
  BY DEF Vectors
<1>2. n \in Nat
  BY <1>1, BoundAssumption
<1>3. v \in Seq(Tasks)
  BY <1>1, <1>2
<1>4. Range(v) \subseteq Tasks
  BY <1>3 DEF Range
<1> QED BY <1>3, <1>4

\* A sequence of tasks is one of tasks and callbacks, in front of another such too.
LEMMA VectorFront ==
    ASSUME NEW v \in Seq(Tasks), NEW s \in Seq(Tasks \cup Fds)
    PROVE  v \o s \in Seq(Tasks \cup Fds)
<1>1. v \in Seq(Tasks \cup Fds)
  OBVIOUS
<1> QED BY <1>1

-----------------------------------------------------------------------------
(* Type correctness.                                                       *)

\* The initial state is well typed.
LEMMA TypeInit == Init => TypeOK
<1> SUFFICES ASSUME Init PROVE TypeOK
  OBVIOUS
<1>1. tasks \in Seq(Tasks \cup Fds) /\ batch \in Seq(Tasks \cup Fds)
  BY DEF Init
<1>2. dels \in Seq(Fds) /\ accepted \in Seq(Tasks) /\ ran \in Seq(Tasks)
  BY DEF Init
<1>3. /\ adds \in [Fds -> Masks \cup {None}]
      /\ reg \in [Fds -> Masks \cup {None}]
      /\ asked \subseteq Fds
      /\ word \in [Fds -> Masks \cup {None}]
      /\ cpc \in [Clients -> {"idle", "wake", "write", "check", "stop"}]
  BY DEF Init
<1>4. ready \subseteq Fds \X Reports /\ vectored \subseteq Tasks
  BY DEF Init
<1> QED BY <1>1, <1>2, <1>3, <1>4 DEF Init, TypeOK

\* Every step of a client keeps the types.
LEMMA TypeClient ==
    ASSUME TypeOK, NEW c \in Clients, ClientCall(c) \/ ClientStep(c)
    PROVE  TypeOK'
<1> USE DEF TypeOK, ToWakeup, Counts, hist, local, flags, mail, UserCode
<1>1. CASE \E t \in Tasks : AddTask(c, t)
  BY <1>1 DEF AddTask, PushTask
<1>2. CASE \E v \in Vectors : AddTasks(c, v)
  <2>1. PICK v \in Vectors : AddTasks(c, v)
    BY <1>2
  <2>2. v \o tasks \in Seq(Tasks \cup Fds) /\ Range(v) \subseteq Tasks
    BY VectorType, VectorFront
  <2> QED BY <2>1, <2>2 DEF AddTasks, PushTasks
<1>3. CASE \E fd \in Fds, e \in Masks : AddEvent(c, fd, e)
  BY <1>3 DEF AddEvent
<1>4. CASE \E fd \in Fds : DelEvent(c, fd)
  BY <1>4 DEF DelEvent
<1>5. CASE StopCheck(c)
  BY <1>5 DEF StopCheck
<1>6. CASE WakeCheck(c)
  BY <1>6 DEF WakeCheck
<1>7. CASE WakeWrite(c)
  BY <1>7 DEF WakeWrite
<1>8. CASE StopSet(c)
  BY <1>8 DEF StopSet
<1>9. CASE StopCheckLooping(c)
  BY <1>9 DEF StopCheckLooping
<1> QED BY <1>1, <1>2, <1>3, <1>4, <1>5, <1>6, <1>7, <1>8, <1>9 DEF ClientCall, ClientStep

\* Every step of the loop thread outside user code keeps the types.
LEMMA TypeLoop ==
    ASSUME TypeOK, LoopEnter \/ LoopStep \/ Poll \/ EpollTimeout
    PROVE  TypeOK'
<1> USE DEF TypeOK, Counts, hist, local, flags, mail, UserCode
<1>1. CASE LoopEnter
  BY <1>1 DEF LoopEnter
<1>2. CASE LoopReset
  BY <1>2 DEF LoopReset
<1>3. CASE LoopTop
  BY <1>3 DEF LoopTop
<1>4. CASE LoopExit
  BY <1>4 DEF LoopExit
<1>5. CASE TakeTasks
  BY <1>5 DEF TakeTasks
<1>6. CASE RunTask
  BY <1>6 DEF RunTask
<1>7. CASE EnterPoll
  BY <1>7 DEF EnterPoll
<1>8. CASE DrainWake
  BY <1>8 DEF DrainWake
<1>9. CASE \E fd \in Fds : DispatchOther(fd)
  BY <1>9 DEF DispatchOther
<1>10. CASE DispatchTimer
  BY <1>10 DEF DispatchTimer
<1>11. CASE \E fd \in Fds : DispatchRead(fd)
  BY <1>11 DEF DispatchRead
<1>12. CASE SweepFds
  BY <1>12 DEF SweepFds
<1>13. CASE UserReturn
  BY <1>13 DEF UserReturn
<1>14. CASE Poll
  <2>. PICK S \in SUBSET Fds : \E rep \in [S -> Reports] : EpollReturn(rep)
    BY <1>14 DEF Poll
  <2>1. PICK rep \in [S -> Reports] : EpollReturn(rep)
    OBVIOUS
  <2>2. ready' \subseteq Fds \X Reports
    BY <2>1 DEF EpollReturn
  <2> QED BY <2>1, <2>2 DEF EpollReturn
<1>15. CASE EpollTimeout
  BY <1>15 DEF EpollTimeout
<1> QED
  BY <1>1, <1>2, <1>3, <1>4, <1>5, <1>6, <1>7, <1>8, <1>9, <1>10, <1>11, <1>12, <1>13,
     <1>14, <1>15 DEF LoopStep

\* Every call made by a callback keeps the types.
LEMMA TypeUser ==
    ASSUME TypeOK, UserCall
    PROVE  TypeOK'
<1> USE DEF TypeOK, Counts, hist, local, flags, mail, UserCode
<1>1. CASE \E t \in Tasks : LoopAddTask(t)
  BY <1>1 DEF LoopAddTask, PushTask
<1>2. CASE \E v \in Vectors : LoopAddTasks(v)
  <2>1. PICK v \in Vectors : LoopAddTasks(v)
    BY <1>2
  <2>2. v \o tasks \in Seq(Tasks \cup Fds) /\ Range(v) \subseteq Tasks
    BY VectorType, VectorFront
  <2> QED BY <2>1, <2>2 DEF LoopAddTasks, PushTasks
<1>3. CASE \E fd \in Fds, e \in Masks : LoopAddEvent(fd, e)
  BY <1>3 DEF LoopAddEvent
<1>4. CASE \E fd \in Fds : LoopDelEvent(fd)
  BY <1>4 DEF LoopDelEvent
<1>5. CASE LoopStop
  BY <1>5 DEF LoopStop
<1> QED BY <1>1, <1>2, <1>3, <1>4, <1>5 DEF UserCall

\* The variables always have their types.
THEOREM TypeCorrect == Spec => []TypeOK
<1>1. TypeOK /\ [Next]_vars => TypeOK'
  <2> SUFFICES ASSUME TypeOK, [Next]_vars PROVE TypeOK'
    OBVIOUS
  <2>1. CASE UNCHANGED vars
    BY <2>1 DEF TypeOK, vars, UserCode
  <2>2. CASE Next
    BY <2>2, TypeClient, TypeLoop, TypeUser DEF Next
  <2> QED BY <2>1, <2>2
<1> QED BY <1>1, TypeInit, PTL DEF Spec

-----------------------------------------------------------------------------
(* No wake-up is lost.                                                     *)

\* A client that fills the mailbox is, after the step, one that is waking the loop.
LEMMA ToWakeupWakes ==
    ASSUME TypeOK, NEW c \in Clients, ToWakeup(c)
    PROVE  Waking'
BY DEF TypeOK, ToWakeup, Waking

\* A client that is waking and does not move still is.
LEMMA WakingStays ==
    ASSUME TypeOK, Waking, cpc' = cpc
    PROVE  Waking'
BY DEF Waking

\* A step of a client keeps the invariant: it fills the mailbox on its way to wakeup(),
\* or it ends wakeup() having written, or having found the loop not running.
LEMMA WakeClient ==
    ASSUME TypeOK, WakeInv, NEW c \in Clients, ClientCall(c) \/ ClientStep(c)
    PROVE  WakeInv'
<1> USE DEF WakeInv, FdsPending, hist, local, flags, mail
<1>1. CASE \E t \in Tasks : AddTask(c, t)
  BY <1>1, ToWakeupWakes DEF AddTask
<1>2. CASE \E v \in Vectors : AddTasks(c, v)
  BY <1>2, ToWakeupWakes DEF AddTasks
<1>3. CASE \E fd \in Fds, e \in Masks : AddEvent(c, fd, e)
  BY <1>3, ToWakeupWakes DEF AddEvent
<1>4. CASE \E fd \in Fds : DelEvent(c, fd)
  BY <1>4, ToWakeupWakes DEF DelEvent
<1>5. CASE StopCheck(c)
  <2>1. Waking => Waking'
    BY <1>5 DEF TypeOK, StopCheck, Waking
  <2> QED BY <1>5, <2>1 DEF StopCheck
<1>6. CASE WakeCheck(c)
  <2>1. looping /\ Waking => Waking'
    BY <1>6 DEF TypeOK, WakeCheck, Waking
  <2>2. CASE looping
    BY <1>6, <2>1, <2>2 DEF WakeCheck
  <2>3. CASE ~looping
    BY <1>6, <2>3 DEF WakeCheck
  <2> QED BY <2>2, <2>3
<1>7. CASE WakeWrite(c)
  BY <1>7 DEF WakeWrite
<1>8. CASE StopSet(c)
  <2>1. Waking'
    BY <1>8 DEF TypeOK, StopSet, Waking
  <2> QED BY <1>8, <2>1 DEF StopSet
<1>9. CASE StopCheckLooping(c)
  <2>1. Waking => Waking'
    BY <1>9 DEF TypeOK, StopCheckLooping, Waking
  <2> QED BY <1>9, <2>1 DEF StopCheckLooping
<1> QED BY <1>1, <1>2, <1>3, <1>4, <1>5, <1>6, <1>7, <1>8, <1>9 DEF ClientCall, ClientStep

\* A step of the loop thread keeps it: the two swaps empty what they claim, and between
\* them only the dispatch, which claims nothing, drains the eventfd.
LEMMA WakeLoop ==
    ASSUME TypeOK, WakeInv, LoopEnter \/ LoopStep \/ Poll \/ EpollTimeout
    PROVE  WakeInv'
<1> USE DEF WakeInv, FdsPending, hist, local, flags, mail
<1>0. cpc' = cpc => (Waking <=> Waking')
  BY DEF Waking
<1>1. CASE LoopEnter
  BY <1>1 DEF LoopEnter
<1>2. CASE LoopReset
  BY <1>2, <1>0 DEF LoopReset, TypeOK
<1>3. CASE LoopTop
  BY <1>3, <1>0 DEF LoopTop
<1>4. CASE LoopExit
  BY <1>4 DEF LoopExit
<1>5. CASE TakeTasks
  BY <1>5, <1>0 DEF TakeTasks
<1>6. CASE RunTask
  BY <1>6, <1>0 DEF RunTask
<1>7. CASE EnterPoll
  BY <1>7, <1>0 DEF EnterPoll
<1>8. CASE DrainWake
  BY <1>8 DEF DrainWake
<1>9. CASE \E fd \in Fds : DispatchOther(fd)
  BY <1>9 DEF DispatchOther
<1>10. CASE DispatchTimer
  BY <1>10 DEF DispatchTimer
<1>11. CASE \E fd \in Fds : DispatchRead(fd)
  BY <1>11 DEF DispatchRead
<1>12. CASE SweepFds
  <2>1. ~FdsPending'
    BY <1>12 DEF SweepFds
  <2> QED BY <1>12, <2>1 DEF SweepFds
<1>13. CASE UserReturn
  BY <1>13, <1>0 DEF UserReturn, UserCode
<1>14. CASE Poll
  <2>1. looping' = looping /\ lpc = "poll" /\ lpc' = "dispatch"
    BY <1>14 DEF Poll, EpollReturn
  <2> QED BY <2>1
<1>15. CASE EpollTimeout
  BY <1>15 DEF EpollTimeout
<1> QED
  BY <1>1, <1>2, <1>3, <1>4, <1>5, <1>6, <1>7, <1>8, <1>9, <1>10, <1>11, <1>12, <1>13,
     <1>14, <1>15 DEF LoopStep

\* A call made by a callback keeps it: what it queues, it wakes the loop for.
LEMMA WakeUser ==
    ASSUME TypeOK, WakeInv, UserCall
    PROVE  WakeInv'
<1> USE DEF WakeInv, FdsPending, hist, local, flags, mail, UserCode
<1>0. cpc' = cpc => (Waking <=> Waking')
  BY DEF Waking
<1>1. CASE \E t \in Tasks : LoopAddTask(t)
  BY <1>1 DEF LoopAddTask
<1>2. CASE \E v \in Vectors : LoopAddTasks(v)
  BY <1>2 DEF LoopAddTasks
<1>3. CASE \E fd \in Fds, e \in Masks : LoopAddEvent(fd, e)
  BY <1>3, <1>0 DEF LoopAddEvent
<1>4. CASE \E fd \in Fds : LoopDelEvent(fd)
  BY <1>4, <1>0 DEF LoopDelEvent
<1>5. CASE LoopStop
  BY <1>5 DEF LoopStop
<1> QED BY <1>1, <1>2, <1>3, <1>4, <1>5 DEF UserCall

\* The inductive invariant holds of the reactor.
THEOREM WakeInvariant == Spec => []WakeInv
<1>1. Init => WakeInv
  BY DEF Init, WakeInv
<1>2. TypeOK /\ WakeInv /\ [Next]_vars => WakeInv'
  <2> SUFFICES ASSUME TypeOK, WakeInv, [Next]_vars PROVE WakeInv'
    OBVIOUS
  <2>1. CASE UNCHANGED vars
    BY <2>1 DEF WakeInv, Waking, FdsPending, vars
  <2>2. CASE Next
    BY <2>2, WakeClient, WakeLoop, WakeUser DEF Next
  <2> QED BY <2>1, <2>2
<1> QED BY <1>1, <1>2, TypeCorrect, PTL DEF Spec

\* The loop never sleeps on a task, a request or a stop that nobody is waking it for.
THEOREM NoLostWakeupHolds == Spec => []NoLostWakeup
<1>1. WakeInv => NoLostWakeup
  BY DEF WakeInv, NoLostWakeup
<1> QED BY <1>1, WakeInvariant, PTL

-----------------------------------------------------------------------------
(* Each descriptor is registered as the call that counts has asked.        *)

\* A descriptor that nobody outside has asked about since the sweep is in no queue and is
\* registered as its word says; of another a deletion that is queued, or else the addition
\* that is, has the word.
Worded ==
    \A fd \in Fds :
        /\ fd \notin asked => /\ adds[fd] = None
                             /\ fd \notin Range(dels)
                             /\ reg[fd] = word[fd]
        /\ fd \in asked /\ fd \in Range(dels) => word[fd] = None
        /\ fd \in asked /\ fd \notin Range(dels) =>
              adds[fd] # None /\ adds[fd] = word[fd]

\* The sweep gives each descriptor what its word says: all the additions, then all the
\* deletions.
LEMMA SweepObeys ==
    ASSUME TypeOK, Worded, SweepFds
    PROVE  Worded'
<1> SUFFICES ASSUME NEW fd \in Fds
             PROVE  adds'[fd] = None /\ fd \notin Range(dels') /\ reg'[fd] = word'[fd]
  BY DEF Worded, SweepFds
<1>1. adds'[fd] = None /\ fd \notin Range(dels') /\ word' = word
  BY DEF SweepFds, Range
<1>2. reg'[fd] = word[fd]
  BY DEF SweepFds, Worded
<1> QED BY <1>1, <1>2

\* An addition that finds its descriptor in no queue gets the word.
LEMMA AdditionCounts ==
    ASSUME TypeOK, Worded, NEW c \in Clients, NEW fd \in Fds, NEW e \in Masks,
           AddEvent(c, fd, e)
    PROVE  Worded'
BY MaskAssumption DEF Worded, TypeOK, Counts, AddEvent, local

\* A deletion gets the word always.
LEMMA DeletionCounts ==
    ASSUME TypeOK, Worded, NEW c \in Clients, NEW fd \in Fds, DelEvent(c, fd)
    PROVE  Worded'
<1>1. Range(dels') = Range(dels) \cup {fd}
  BY RangeAppend DEF DelEvent, TypeOK
<1> QED BY <1>1 DEF Worded, TypeOK, DelEvent, local

\* What the loop thread does at once gets the word unless its descriptor is in a queue.
LEMMA LoopCounts ==
    ASSUME TypeOK, Worded, NEW fd \in Fds,
           \/ \E e \in Masks : LoopAddEvent(fd, e)
           \/ LoopDelEvent(fd) \/ DispatchOther(fd)
    PROVE  Worded'
<1> USE DEF Worded, TypeOK, Counts, mail
<1>1. CASE \E e \in Masks : LoopAddEvent(fd, e)
  BY <1>1 DEF LoopAddEvent
<1>2. CASE LoopDelEvent(fd)
  BY <1>2 DEF LoopDelEvent
<1>3. CASE DispatchOther(fd)
  BY <1>3 DEF DispatchOther
<1> QED BY <1>1, <1>2, <1>3

\* Each descriptor is registered as the call that counts has asked.
THEOREM RegisteredAsAskedHolds == Spec => []RegisteredAsAsked
<1>1. Init => Worded
  BY DEF Init, Worded, Range
<1>2. TypeOK /\ Worded /\ [Next]_vars => Worded'
  <2> SUFFICES ASSUME TypeOK, Worded, [Next]_vars PROVE Worded'
    OBVIOUS
  <2>1. CASE SweepFds
    BY <2>1, SweepObeys
  <2>2. ASSUME NEW c \in Clients, NEW fd \in Fds, NEW e \in Masks, AddEvent(c, fd, e)
        PROVE  Worded'
    BY <2>2, AdditionCounts
  <2>3. ASSUME NEW c \in Clients, NEW fd \in Fds, DelEvent(c, fd) PROVE Worded'
    BY <2>3, DeletionCounts
  <2>4. ASSUME NEW fd \in Fds, NEW e \in Masks, LoopAddEvent(fd, e) PROVE Worded'
    BY <2>4, LoopCounts
  <2>5. ASSUME NEW fd \in Fds, LoopDelEvent(fd) \/ DispatchOther(fd) PROVE Worded'
    BY <2>5, LoopCounts
  <2>6. CASE UNCHANGED <<reg, adds, dels, asked, word>>
    BY <2>6 DEF Worded
  <2>7. ASSUME NEW c \in Clients, ClientCall(c) \/ ClientStep(c) PROVE Worded'
    BY <2>2, <2>3, <2>6, <2>7 DEF ClientCall, ClientStep, AddTask, AddTasks, StopCheck,
       StopCheckLooping, WakeCheck, WakeWrite, StopSet, flags, mail, local, hist
  <2>8. CASE UserCall
    BY <2>4, <2>5, <2>6, <2>8 DEF UserCall, LoopAddTask, LoopAddTasks, LoopStop, flags,
       mail, local, hist
  <2>9. CASE LoopStep
    BY <2>1, <2>5, <2>6, <2>9 DEF LoopStep, LoopReset, LoopTop, LoopExit, TakeTasks,
       RunTask, EnterPoll, DrainWake, DispatchTimer, DispatchRead, UserReturn, flags,
       mail, local, hist
  <2>10. CASE LoopEnter \/ Poll \/ EpollTimeout
    BY <2>6, <2>10 DEF LoopEnter, Poll, EpollReturn, EpollTimeout, flags, mail, local,
       hist
  <2>11. CASE UNCHANGED vars
    BY <2>6, <2>11 DEF vars
  <2> QED BY <2>7, <2>8, <2>9, <2>10, <2>11 DEF Next
<1>3. Worded => RegisteredAsAsked
  BY DEF Worded, RegisteredAsAsked
<1> QED BY <1>1, <1>2, <1>3, TypeCorrect, PTL DEF Spec

-----------------------------------------------------------------------------
(* Every task is in one place, in its order.                               *)

Occurs(x, s) == \E i \in 1..Len(s) : s[i] = x

\* Where x may come before y: a task does not come twice, and two tasks that were queued
\* one at a time, in the order acc, come in this order.
Before(acc, x, y) ==
    /\ x \in Tasks => x # y
    /\ \A k, l \in 1..Len(acc) : acc[k] = x /\ acc[l] = y => k < l

Ordered(acc, s) == \A i, j \in 1..Len(s) : i < j => Before(acc, s[i], s[j])
Across(acc, s, t) == \A x, y : Occurs(x, s) /\ Occurs(y, t) => Before(acc, x, y)

\* Two sequences in a row have the members of both, and are in order if each is and the
\* members of the first may come before those of the second.
LEMMA InARow ==
    ASSUME NEW S, NEW s \in Seq(S), NEW t \in Seq(S), NEW acc
    PROVE  /\ s \o t \in Seq(S)
           /\ \A x : Occurs(x, s \o t) <=> Occurs(x, s) \/ Occurs(x, t)
           /\ Ordered(acc, s) /\ Ordered(acc, t) /\ Across(acc, s, t) => Ordered(acc, s \o t)
<1> DEFINE w == s \o t
<1>1. /\ w \in Seq(S) /\ Len(w) = Len(s) + Len(t) /\ Len(s) \in Nat /\ Len(t) \in Nat
      /\ \A i \in 1..Len(s) : w[i] = s[i]
      /\ \A i \in 1..Len(t) : w[Len(s) + i] = t[i]
  OBVIOUS
<1> HIDE DEF w
<1>2. \A i \in 1..Len(w) : \/ i \in 1..Len(s) /\ w[i] = s[i]
                           \/ i - Len(s) \in 1..Len(t) /\ w[i] = t[i - Len(s)]
  <2> SUFFICES ASSUME NEW i \in 1..Len(w), ~(i <= Len(s))
               PROVE  i - Len(s) \in 1..Len(t) /\ w[i] = t[i - Len(s)]
    BY <1>1
  <2> DEFINE j == i - Len(s)
  <2>1. j \in 1..Len(t) /\ Len(s) + j = i
    BY <1>1
  <2>2. w[Len(s) + j] = t[j]
    BY <1>1, <2>1
  <2> QED BY <2>1, <2>2
<1>3. ASSUME NEW x PROVE Occurs(x, w) <=> Occurs(x, s) \/ Occurs(x, t)
  <2>1. Occurs(x, w) => Occurs(x, s) \/ Occurs(x, t)
    BY <1>2 DEF Occurs
  <2>2. Occurs(x, s) => Occurs(x, w)
    <3>1. \A i \in 1..Len(s) : i \in 1..Len(w)
      BY <1>1
    <3> QED BY <1>1, <3>1 DEF Occurs
  <2>3. Occurs(x, t) => Occurs(x, w)
    <3>1. \A i \in 1..Len(t) : Len(s) + i \in 1..Len(w)
      BY <1>1
    <3> QED BY <1>1, <3>1 DEF Occurs
  <2> QED BY <2>1, <2>2, <2>3
<1>4. ASSUME Ordered(acc, s), Ordered(acc, t), Across(acc, s, t),
             NEW i \in 1..Len(w), NEW j \in 1..Len(w), i < j
      PROVE  Before(acc, w[i], w[j])
  <2>1. CASE i \in 1..Len(s) /\ j \in 1..Len(s)
    BY <1>1, <1>4, <2>1 DEF Ordered
  <2>2. CASE i \in 1..Len(s) /\ j \notin 1..Len(s)
    <3>1. Occurs(w[i], s) /\ Occurs(w[j], t)
      BY <1>2, <2>2 DEF Occurs
    <3> QED BY <1>4, <3>1 DEF Across
  <2>3. CASE i \notin 1..Len(s)
    <3>1. /\ i - Len(s) \in 1..Len(t) /\ w[i] = t[i - Len(s)]
          /\ j - Len(s) \in 1..Len(t) /\ w[j] = t[j - Len(s)]
          /\ i - Len(s) < j - Len(s)
      <4>1. j \notin 1..Len(s)
        BY <1>1, <1>4, <2>3
      <4> QED BY <1>1, <1>2, <1>4, <2>3, <4>1
    <3> QED BY <1>4, <3>1 DEF Ordered
  <2> QED BY <2>1, <2>2, <2>3
<1> QED BY <1>1, <1>3, <1>4 DEF w, Ordered

\* The first of a sequence in order may come before the rest, which is in order.
LEMMA FirstOut ==
    ASSUME NEW S, NEW s \in Seq(S), s # <<>>, NEW acc
    PROVE  /\ Tail(s) \in Seq(S) /\ Head(s) \in S
           /\ \A x : Occurs(x, s) <=> x = Head(s) \/ Occurs(x, Tail(s))
           /\ Ordered(acc, s) => /\ Ordered(acc, Tail(s))
                                 /\ \A y : Occurs(y, Tail(s)) => Before(acc, Head(s), y)
<1> DEFINE t == Tail(s)
<1>1. /\ t \in Seq(S) /\ Len(t) = Len(s) - 1 /\ \A i \in 1..Len(t) : t[i] = s[i + 1]
      /\ Head(s) = s[1] /\ 1 \in 1..Len(s) /\ Len(s) \in Nat /\ Head(s) \in S
  OBVIOUS
<1> HIDE DEF t
<1>2. \A i \in 1..Len(t) : i + 1 \in 1..Len(s) /\ 1 < i + 1
  BY <1>1
<1>3. \A i \in 1..Len(s) : i # 1 => \E j \in 1..Len(t) : t[j] = s[i]
  <2> SUFFICES ASSUME NEW i \in 1..Len(s), i # 1 PROVE \E j \in 1..Len(t) : t[j] = s[i]
    OBVIOUS
  <2>1. i - 1 \in 1..Len(t) /\ (i - 1) + 1 = i
    BY <1>1
  <2>2. t[i - 1] = s[i]
    BY <1>1, <2>1
  <2> QED BY <2>1, <2>2
<1>4. \A x : Occurs(x, s) <=> x = Head(s) \/ Occurs(x, t)
  BY <1>1, <1>2, <1>3, ZenonT(60) DEF Occurs
<1>5. ASSUME Ordered(acc, s), NEW y, Occurs(y, t) PROVE Before(acc, Head(s), y)
  BY <1>1, <1>2, <1>5 DEF Ordered, Occurs
<1>6. ASSUME Ordered(acc, s) PROVE Ordered(acc, t)
  <2> SUFFICES ASSUME NEW i \in 1..Len(t), NEW j \in 1..Len(t), i < j
               PROVE  Before(acc, t[i], t[j])
    BY DEF Ordered
  <2>1. i + 1 < j + 1
    BY <1>1
  <2> QED BY <1>1, <1>2, <1>6, <2>1 DEF Ordered
<1> QED BY <1>1, <1>4, <1>5, <1>6 DEF t

\* A last member that every other may come before.
LEMMA LastIn ==
    ASSUME NEW S, NEW s \in Seq(S), NEW x \in S, NEW acc
    PROVE  /\ Append(s, x) \in Seq(S)
           /\ \A y : Occurs(y, Append(s, x)) <=> y = x \/ Occurs(y, s)
           /\ Ordered(acc, s) /\ (\A y : Occurs(y, s) => Before(acc, y, x))
                => Ordered(acc, Append(s, x))
<1>1. Append(s, x) = s \o <<x>> /\ <<x>> \in Seq(S)
  OBVIOUS
<1>2. \A y : Occurs(y, <<x>>) <=> y = x
  BY DEF Occurs
<1>3. Ordered(acc, <<x>>)
  BY DEF Ordered
<1>4. (\A y : Occurs(y, s) => Before(acc, y, x)) => Across(acc, s, <<x>>)
  BY <1>2 DEF Across
<1> DEFINE b == <<x>>
<1>5. /\ s \o b \in Seq(S)
      /\ \A y : Occurs(y, s \o b) <=> Occurs(y, s) \/ Occurs(y, b)
      /\ Ordered(acc, s) /\ Ordered(acc, b) /\ Across(acc, s, b) => Ordered(acc, s \o b)
  <2> HIDE DEF b
  <2>1. b \in Seq(S)
    BY <1>1 DEF b
  <2> QED BY <2>1, InARow
<1> QED BY <1>1, <1>2, <1>3, <1>4, <1>5

\* A task that has not been queued before is the last in the order.
LEMMA Later ==
    ASSUME NEW acc \in Seq(Tasks), NEW t \in Tasks, ~Occurs(t, acc)
    PROVE  \A x, y : x # t /\ (y = t \/ Before(acc, x, y)) => Before(Append(acc, t), x, y)
<1> SUFFICES ASSUME NEW x, NEW y, x # t, y = t \/ Before(acc, x, y)
             PROVE  Before(Append(acc, t), x, y)
  OBVIOUS
<1> DEFINE a == Append(acc, t)
<1>1. /\ Len(a) = Len(acc) + 1 /\ Len(acc) \in Nat /\ a[Len(acc) + 1] = t
      /\ \A k \in 1..Len(acc) : a[k] = acc[k] /\ acc[k] # t
  BY DEF Occurs
<1> HIDE DEF a
<1>2. \A k \in 1..Len(a) : k \in 1..Len(acc) \/ k = Len(acc) + 1
  BY <1>1
<1>3. x \in Tasks => x # y
  BY DEF Before
<1>4. ASSUME NEW k \in 1..Len(a), NEW l \in 1..Len(a), a[k] = x, a[l] = y
      PROVE  k < l
  <2>1. k \in 1..Len(acc) /\ acc[k] = x
    BY <1>1, <1>2, <1>4
  <2>2. CASE y = t
    <3>1. l = Len(acc) + 1
      BY <1>1, <1>2, <1>4, <2>2
    <3> QED BY <1>1, <2>1, <3>1
  <2>3. CASE y # t
    <3>1. l \in 1..Len(acc) /\ acc[l] = y
      BY <1>1, <1>2, <1>4, <2>3
    <3> QED BY <2>1, <2>3, <3>1 DEF Before
  <2> QED BY <2>2, <2>3
<1> QED BY <1>3, <1>4 DEF Before, a

\* The members of a vector that addTask takes are different from each other.
LEMMA VectorDistinct ==
    ASSUME NEW v \in Seq(Tasks), Cardinality(Range(v)) = Len(v)
    PROVE  \A i, j \in 1..Len(v) : v[i] = v[j] => i = j
<1>1. /\ v \in [1..Len(v) -> Range(v)] /\ Len(v) \in Nat
      /\ \A x \in Range(v) : \E i \in 1..Len(v) : v[i] = x
  BY DEF Range
<1>2. v \in Surjection(1..Len(v), Range(v))
  BY <1>1 DEF Surjection
<1>3. IsFiniteSet(1..Len(v)) /\ Cardinality(1..Len(v)) = Len(v)
  BY <1>1, FS_Interval
<1>4. v \in Injection(1..Len(v), Range(v))
  BY <1>2, <1>3, FS_SurjSameCardinalityImpliesInj
<1> QED BY <1>1, <1>4 DEF Injection, IsInjective

\* The tasks started, the rest of the batch and the queue together hold every submitted
\* task once, the ones queued one at a time in their order; and the loop takes the queue
\* only when the batch is used up.
PlaceInv ==
    /\ \A t \in Tasks :
          t \in Submitted <=> Occurs(t, ran) \/ Occurs(t, batch) \/ Occurs(t, tasks)
    /\ Ordered(accepted, ran) /\ Ordered(accepted, batch) /\ Ordered(accepted, tasks)
    /\ Across(accepted, ran, batch)
    /\ Across(accepted, ran, tasks)
    /\ Across(accepted, batch, tasks)
    /\ batch # <<>> => lpc \in {"run", "task"}

\* One more task at the end of the queue.
LEMMA PlacePush ==
    ASSUME TypeOK, PlaceInv, NEW t \in Tasks, PushTask(t),
           UNCHANGED <<ran, batch, vectored, lpc>>
    PROVE  PlaceInv'
<1>0. /\ tasks \in Seq(Tasks \cup Fds) /\ accepted \in Seq(Tasks)
      /\ Range(accepted) \subseteq Tasks
  BY DEF TypeOK, Range
<1>1. /\ t \notin Range(accepted) /\ t \notin vectored
      /\ tasks' = Append(tasks, t) /\ accepted' = Append(accepted, t)
  BY DEF PushTask, Fresh, Submitted
<1>2. Submitted' = Submitted \cup {t}
  BY <1>0, <1>1, RangeAppend DEF Submitted
<1>3. ~Occurs(t, accepted)
  BY <1>0, <1>1 DEF Occurs, Range
<1>4. ~Occurs(t, ran) /\ ~Occurs(t, batch) /\ ~Occurs(t, tasks)
  BY <1>1 DEF PlaceInv, Submitted
<1>5. \A x, y : x # t /\ (y = t \/ Before(accepted, x, y)) => Before(accepted', x, y)
  BY <1>0, <1>1, <1>3, Later
<1>6. ASSUME NEW s, Ordered(accepted, s), ~Occurs(t, s) PROVE Ordered(accepted', s)
  BY <1>5, <1>6 DEF Ordered, Occurs
<1>7. /\ \A y : Occurs(y, tasks') <=> y = t \/ Occurs(y, tasks)
      /\ Ordered(accepted', tasks')
  <2>1. Ordered(accepted', tasks)
    BY <1>4, <1>6 DEF PlaceInv
  <2>2. \A y : Occurs(y, tasks) => Before(accepted', y, t)
    BY <1>4, <1>5
  <2>3. t \in Tasks \cup Fds
    OBVIOUS
  <2> QED BY <1>0, <1>1, <2>1, <2>2, <2>3, LastIn
<1>8. Ordered(accepted', ran) /\ Ordered(accepted', batch)
  BY <1>4, <1>6 DEF PlaceInv
<1>9. /\ Across(accepted', ran, batch) /\ Across(accepted', ran, tasks')
      /\ Across(accepted', batch, tasks')
  BY <1>4, <1>5, <1>7 DEF PlaceInv, Across
<1> QED BY <1>2, <1>7, <1>8, <1>9 DEF PlaceInv

\* A vector of tasks in front of the queue.
LEMMA PlaceVector ==
    ASSUME TypeOK, PlaceInv, NEW v \in Vectors, PushTasks(v),
           UNCHANGED <<ran, batch, accepted, lpc>>
    PROVE  PlaceInv'
<1>0. /\ tasks \in Seq(Tasks \cup Fds) /\ v \in Seq(Tasks \cup Fds) /\ v \in Seq(Tasks)
      /\ Range(v) \subseteq Tasks
  BY VectorType DEF TypeOK
<1>1. /\ tasks' = v \o tasks /\ vectored' = vectored \cup Range(v)
      /\ \A x \in Range(v) : x \notin Submitted
      /\ Cardinality(Range(v)) = Len(v)
  BY DEF PushTasks, Fresh
<1>2. \A x : Occurs(x, v) <=> x \in Range(v)
  BY <1>0 DEF Occurs, Range
<1>3. \A x \in Range(v) : ~Occurs(x, accepted) /\ x \in Tasks
                          /\ ~Occurs(x, ran) /\ ~Occurs(x, batch) /\ ~Occurs(x, tasks)
  <2>1. \A x : Occurs(x, accepted) => x \in Range(accepted)
    BY DEF TypeOK, Occurs, Range
  <2> QED BY <1>0, <1>1, <2>1 DEF PlaceInv, Submitted
<1>4. \A x, y : x # y /\ (x \in Range(v) \/ y \in Range(v)) => Before(accepted, x, y)
  BY <1>3 DEF Before, Occurs
<1>5. Ordered(accepted, v)
  <2> SUFFICES ASSUME NEW i \in 1..Len(v), NEW j \in 1..Len(v), i < j
               PROVE  Before(accepted, v[i], v[j])
    BY DEF Ordered
  <2>1. v[i] # v[j]
    BY <1>0, <1>1, VectorDistinct
  <2>2. v[i] \in Range(v)
    BY <1>0 DEF Range
  <2> QED BY <1>4, <2>1, <2>2
<1>6. Across(accepted, v, tasks)
  BY <1>2, <1>3, <1>4 DEF Across
<1>7. /\ \A x : Occurs(x, tasks') <=> Occurs(x, v) \/ Occurs(x, tasks)
      /\ Ordered(accepted, tasks')
  BY <1>0, <1>1, <1>5, <1>6, InARow DEF PlaceInv
<1>8. Across(accepted, ran, tasks') /\ Across(accepted, batch, tasks')
  BY <1>2, <1>3, <1>4, <1>7 DEF PlaceInv, Across
<1>9. \A t \in Tasks :
         t \in Submitted' <=> Occurs(t, ran) \/ Occurs(t, batch) \/ Occurs(t, tasks')
  BY <1>1, <1>2, <1>7 DEF PlaceInv, Submitted
<1> QED BY <1>7, <1>8, <1>9 DEF PlaceInv

\* The swap, the start of a task and the queueing of a read callback.
LEMMA PlaceLoop ==
    ASSUME TypeOK, PlaceInv, TakeTasks \/ RunTask \/ \E fd \in Fds : DispatchRead(fd)
    PROVE  PlaceInv'
<1>0. /\ tasks \in Seq(Tasks \cup Fds) /\ batch \in Seq(Tasks \cup Fds) /\ ran \in Seq(Tasks)
      /\ accepted \in Seq(Tasks)
  BY DEF TypeOK
<1>1. CASE TakeTasks
  <2>1. /\ batch' = tasks /\ tasks' = <<>> /\ lpc' = "run" /\ batch = <<>>
        /\ UNCHANGED <<ran, accepted, vectored>>
    BY <1>1 DEF TakeTasks, PlaceInv, hist
  <2>2. \A x : ~Occurs(x, <<>>)
    BY DEF Occurs
  <2>3. Ordered(accepted, <<>>)
    BY DEF Ordered
  <2> QED BY <2>1, <2>2, <2>3 DEF PlaceInv, Across, Submitted
<1>2. CASE RunTask
  <2> DEFINE x == Head(batch)
  <2>1. /\ batch # <<>> /\ batch' = Tail(batch) /\ lpc' = "task"
        /\ x \in Tasks => ran' = Append(ran, x)
        /\ x \notin Tasks => ran' = ran
        /\ UNCHANGED <<tasks, accepted, vectored>>
    BY <1>2 DEF RunTask, mail
  <2>2. /\ x \in Tasks \cup Fds
        /\ \A y : Occurs(y, batch) <=> y = x \/ Occurs(y, batch')
        /\ Ordered(accepted, batch')
        /\ \A y : Occurs(y, batch') => Before(accepted, x, y)
    BY <1>0, <2>1, FirstOut DEF PlaceInv
  <2> HIDE DEF x
  <2>3. Occurs(x, batch)
    BY <2>2
  <2>4. CASE x \notin Tasks
    BY <2>1, <2>2, <2>4 DEF PlaceInv, Across, Submitted
  <2>5. CASE x \in Tasks
    <3>1. \A y : Occurs(y, ran) => Before(accepted, y, x)
      BY <2>3 DEF PlaceInv, Across
    <3>2. /\ \A y : Occurs(y, ran') <=> y = x \/ Occurs(y, ran)
          /\ Ordered(accepted, ran')
      <4>1. ran' = Append(ran, x) /\ ran \in Seq(Tasks) /\ Ordered(accepted, ran)
        BY <1>0, <2>1, <2>5 DEF PlaceInv
      <4> QED BY <2>5, <3>1, <4>1, LastIn
    <3>3. Across(accepted, ran', batch') /\ Across(accepted, ran', tasks)
      BY <2>2, <3>2 DEF PlaceInv, Across
    <3>4. Across(accepted, batch', tasks)
      BY <2>2 DEF PlaceInv, Across
    <3> QED BY <2>1, <2>2, <3>2, <3>3, <3>4 DEF PlaceInv, Submitted
  <2> QED BY <2>4, <2>5
<1>3. ASSUME NEW fd \in Fds, DispatchRead(fd) PROVE PlaceInv'
  <2>1. tasks' = Append(tasks, fd) /\ UNCHANGED <<ran, batch, accepted, vectored, lpc>>
    BY <1>3 DEF DispatchRead, hist
  <2>2. fd \in Tasks \cup Fds /\ fd \notin Tasks
    BY DisjointAssumption
  <2>3. \A x : Before(accepted, x, fd)
    BY <1>0, <2>2 DEF Before
  <2>4. /\ \A y : Occurs(y, tasks') <=> y = fd \/ Occurs(y, tasks)
        /\ Ordered(accepted, tasks')
    BY <1>0, <2>1, <2>2, <2>3, LastIn DEF PlaceInv
  <2>5. Across(accepted, ran, tasks') /\ Across(accepted, batch, tasks')
    BY <2>3, <2>4 DEF PlaceInv, Across
  <2> QED BY <2>1, <2>2, <2>4, <2>5 DEF PlaceInv, Submitted
<1> QED BY <1>1, <1>2, <1>3

\* The inductive invariant holds of the reactor.
THEOREM PlaceInvariant == Spec => []PlaceInv
<1>1. Init => PlaceInv
  BY DEF Init, PlaceInv, Ordered, Across, Occurs, Submitted, Range
<1>2. TypeOK /\ PlaceInv /\ [Next]_vars => PlaceInv'
  <2> SUFFICES ASSUME TypeOK, PlaceInv, [Next]_vars PROVE PlaceInv'
    OBVIOUS
  <2>1. ASSUME UNCHANGED <<ran, batch, tasks, accepted, vectored>>,
               batch # <<>> /\ lpc \in {"run", "task"} => lpc' \in {"run", "task"}
        PROVE  PlaceInv'
    BY <2>1 DEF PlaceInv, Submitted
  <2>2. ASSUME NEW c \in Clients, ClientCall(c) \/ ClientStep(c) PROVE PlaceInv'
    <3>1. CASE \E t \in Tasks : AddTask(c, t)
      BY <3>1, PlacePush DEF AddTask, local
    <3>2. CASE \E v \in Vectors : AddTasks(c, v)
      BY <3>2, PlaceVector DEF AddTasks, local
    <3>3. CASE \/ \E fd \in Fds, e \in Masks : AddEvent(c, fd, e)
               \/ \E fd \in Fds : DelEvent(c, fd)
               \/ StopCheck(c) \/ ClientStep(c)
      BY <2>1, <3>3 DEF AddEvent, DelEvent, StopCheck, StopCheckLooping, ClientStep,
         WakeCheck, WakeWrite, StopSet, flags, mail, local, hist
    <3> QED BY <2>2, <3>1, <3>2, <3>3 DEF ClientCall
  <2>3. CASE UserCall
    <3>1. CASE \E t \in Tasks : LoopAddTask(t)
      BY <3>1, PlacePush DEF LoopAddTask, local
    <3>2. CASE \E v \in Vectors : LoopAddTasks(v)
      BY <3>2, PlaceVector DEF LoopAddTasks, local
    <3>3. CASE \/ \E fd \in Fds, e \in Masks : LoopAddEvent(fd, e)
               \/ \E fd \in Fds : LoopDelEvent(fd)
               \/ LoopStop
      BY <2>1, <3>3 DEF LoopAddEvent, LoopDelEvent, LoopStop, mail, local, hist
    <3> QED BY <2>3, <3>1, <3>2, <3>3 DEF UserCall
  <2>4. CASE TakeTasks \/ RunTask \/ \E fd \in Fds : DispatchRead(fd)
    BY <2>4, PlaceLoop
  <2>5. CASE \/ LoopEnter \/ LoopReset \/ LoopTop \/ LoopExit \/ DrainWake \/ DispatchTimer
             \/ (\E fd \in Fds : DispatchOther(fd)) \/ SweepFds \/ EpollTimeout
    BY <2>1, <2>5 DEF LoopEnter, LoopReset, LoopTop, LoopExit, DrainWake, DispatchTimer,
       DispatchOther, SweepFds, EpollTimeout, mail, local, hist, flags
  <2>6. CASE Poll \/ EnterPoll \/ UserReturn
    BY <2>1, <2>6 DEF Poll, EpollReturn, EnterPoll, UserReturn, UserCode, mail, local, hist
  <2>7. CASE UNCHANGED vars
    BY <2>1, <2>7 DEF vars
  <2> QED BY <2>2, <2>3, <2>4, <2>5, <2>6, <2>7 DEF Next, LoopStep
<1> QED BY <1>1, <1>2, TypeCorrect, PTL DEF Spec

\* The tasks that have been started, the rest of the batch and the queue, in a row.
LEMMA Whole ==
    ASSUME TypeOK, PlaceInv
    PROVE  LET whole == ran \o batch \o tasks
           IN  /\ whole \in Seq(Tasks \cup Fds)
               /\ \A t \in Tasks : t \in Submitted <=> Occurs(t, whole)
               /\ Ordered(accepted, whole)
<1> DEFINE S == Tasks \cup Fds
           first == ran \o batch
<1>1. ran \in Seq(S) /\ batch \in Seq(S) /\ tasks \in Seq(S)
  BY DEF TypeOK
<1>2. /\ first \in Seq(S) /\ Ordered(accepted, first)
      /\ \A x : Occurs(x, first) <=> Occurs(x, ran) \/ Occurs(x, batch)
  BY <1>1, InARow DEF PlaceInv
<1> HIDE DEF first
<1>3. Across(accepted, first, tasks)
  BY <1>2 DEF PlaceInv, Across
<1>4. /\ first \o tasks \in Seq(S) /\ Ordered(accepted, first \o tasks)
      /\ \A x : Occurs(x, first \o tasks) <=> Occurs(x, first) \/ Occurs(x, tasks)
  BY <1>1, <1>2, <1>3, InARow DEF PlaceInv
<1>5. \A t \in Tasks : t \in Submitted <=> Occurs(t, first \o tasks)
  BY <1>2, <1>4 DEF PlaceInv
<1> QED BY <1>4, <1>5 DEF first

\* Every submitted task is in exactly one place, whatever calls and swaps overlap.
THEOREM TasksExactlyOnceHolds == Spec => []TasksExactlyOnce
<1>1. TypeOK /\ PlaceInv => TasksExactlyOnce
  <2> SUFFICES ASSUME TypeOK, PlaceInv PROVE TasksExactlyOnce
    OBVIOUS
  <2> DEFINE whole == ran \o batch \o tasks
  <2>1. /\ whole \in Seq(Tasks \cup Fds) /\ Ordered(accepted, whole)
        /\ \A t \in Tasks : t \in Submitted <=> Occurs(t, whole)
    BY Whole
  <2> HIDE DEF whole
  <2>2. ASSUME NEW t \in Tasks
        PROVE  Cardinality({i \in 1..Len(whole) : whole[i] = t}) =
                   IF t \in Submitted THEN 1 ELSE 0
    <3> DEFINE P == {i \in 1..Len(whole) : whole[i] = t}
    <3>1. CASE t \notin Submitted
      <4>1. P = {}
        BY <2>1, <3>1 DEF Occurs
      <4> QED BY <3>1, <4>1, FS_EmptySet
    <3>2. CASE t \in Submitted
      <4>1. PICK i \in 1..Len(whole) : whole[i] = t
        BY <2>1, <3>2 DEF Occurs
      <4>2. ASSUME NEW j \in P PROVE j = i
        <5>1. j \in 1..Len(whole) /\ whole[j] = t /\ Len(whole) \in Nat
          BY <2>1
        <5>2. ~(i < j) /\ ~(j < i)
          BY <2>1, <4>1, <5>1 DEF Ordered, Before
        <5> QED BY <5>1, <5>2
      <4>3. P = {i}
        BY <4>1, <4>2
      <4>4. Cardinality({i}) = 1
        BY FS_Singleton
      <4> QED BY <3>2, <4>3, <4>4
    <3> QED BY <3>1, <3>2
  <2> QED BY <2>2 DEF TasksExactlyOnce, whole
<1> QED BY <1>1, PlaceInvariant, TypeCorrect, PTL

\* Tasks queued one at a time start in the order in which they were queued.
THEOREM TasksInOrderHolds == Spec => []TasksInOrder
<1>1. TypeOK /\ PlaceInv => TasksInOrder
  <2> SUFFICES ASSUME TypeOK, PlaceInv PROVE TasksInOrder
    OBVIOUS
  <2> DEFINE whole == ran \o batch \o tasks
  <2>1. Ordered(accepted, whole)
    BY Whole
  <2> HIDE DEF whole
  <2>2. \A i, j \in 1..Len(whole) : \A k, l \in 1..Len(accepted) :
            i < j /\ whole[i] = accepted[k] /\ whole[j] = accepted[l] => k < l
    BY <2>1 DEF Ordered, Before
  <2> QED BY <2>2 DEF TasksInOrder, whole
<1> QED BY <1>1, PlaceInvariant, TypeCorrect, PTL

-----------------------------------------------------------------------------
(* The reactor is the mailbox of module Mailbox.                           *)

AcceptedOnce == \A k, l \in 1..Len(accepted) : accepted[k] = accepted[l] => k = l

\* No task is handed in twice.
LEMMA AcceptedOnceStep ==
    ASSUME NEW acc \in Seq(Tasks), NEW t \in Tasks, t \notin Range(acc),
           \A k, l \in 1..Len(acc) : acc[k] = acc[l] => k = l
    PROVE  \A k, l \in 1..Len(Append(acc, t)) :
               Append(acc, t)[k] = Append(acc, t)[l] => k = l
<1> DEFINE a == Append(acc, t)
<1>1. /\ Len(a) = Len(acc) + 1 /\ Len(acc) \in Nat /\ a[Len(acc) + 1] = t
      /\ \A k \in 1..Len(acc) : a[k] = acc[k] /\ acc[k] # t
  BY DEF Range
<1> HIDE DEF a
<1>2. \A k \in 1..Len(a) : k \in 1..Len(acc) \/ k = Len(acc) + 1
  BY <1>1
<1>3. ASSUME NEW k \in 1..Len(a), NEW l \in 1..Len(a), a[k] = a[l] PROVE k = l
  BY <1>1, <1>2, <1>3
<1> QED BY <1>3 DEF a

\* What a step does to the tasks handed in and started, the only variables of the mailbox.
LEMMA MailboxSteps ==
    ASSUME [Next]_vars
    PROVE  \/ UNCHANGED <<accepted, vectored, ran>>
           \/ \E t \in Tasks : PushTask(t) /\ UNCHANGED <<vectored, ran>>
           \/ \E v \in Vectors : PushTasks(v) /\ UNCHANGED <<accepted, ran>>
           \/ RunTask /\ UNCHANGED <<accepted, vectored>>
<1> USE DEF hist, flags, mail, local
<1>1. ASSUME NEW c \in Clients, ClientCall(c) \/ ClientStep(c)
      PROVE  \/ UNCHANGED <<accepted, vectored, ran>>
             \/ \E t \in Tasks : PushTask(t) /\ UNCHANGED <<vectored, ran>>
             \/ \E v \in Vectors : PushTasks(v) /\ UNCHANGED <<accepted, ran>>
  BY <1>1 DEF ClientCall, ClientStep, AddTask, AddTasks, AddEvent, DelEvent, StopCheck,
     StopCheckLooping, WakeCheck, WakeWrite, StopSet
<1>2. CASE UserCall
  BY <1>2 DEF UserCall, LoopAddTask, LoopAddTasks, LoopAddEvent, LoopDelEvent, LoopStop
<1>3. CASE LoopStep
  <2>1. CASE RunTask
    BY <2>1 DEF RunTask
  <2>2. CASE ~RunTask
    BY <1>3, <2>2 DEF LoopStep, LoopReset, LoopTop, LoopExit, TakeTasks, EnterPoll, DrainWake,
       DispatchOther, DispatchTimer, DispatchRead, SweepFds, UserReturn
  <2> QED BY <2>1, <2>2
<1>4. CASE LoopEnter \/ Poll \/ EpollTimeout
  BY <1>4 DEF LoopEnter, Poll, EpollReturn, EpollTimeout
<1>5. CASE UNCHANGED vars
  BY <1>5 DEF vars
<1> QED BY <1>1, <1>2, <1>3, <1>4, <1>5 DEF Next

\* The task the loop starts is handed in, not started yet, and all that was handed in
\* before it, one at a time as it was, has been started: it is neither behind it in the
\* batch nor in the queue.
LEMMA RunIsStart ==
    ASSUME TypeOK, PlaceInv, AcceptedOnce, RunTask, UNCHANGED <<accepted, vectored>>,
           Head(batch) \in Tasks
    PROVE  Box!Start(Head(batch))
<1> DEFINE t == Head(batch)
<1>1. /\ ran' = Append(ran, t) /\ t \in Tasks /\ batch # <<>>
      /\ batch \in Seq(Tasks \cup Fds) /\ ran \in Seq(Tasks) /\ accepted \in Seq(Tasks)
  BY DEF RunTask, TypeOK
<1>2. /\ \A x : Occurs(x, batch) <=> x = t \/ Occurs(x, Tail(batch))
      /\ \A y : Occurs(y, Tail(batch)) => Before(accepted, t, y)
  BY <1>1, FirstOut DEF PlaceInv
<1> HIDE DEF t
<1>3. t \in Submitted
  BY <1>1, <1>2 DEF PlaceInv
<1>4. \A x : Occurs(x, ran) <=> x \in Range(ran)
  BY <1>1 DEF Occurs, Range
<1>5. ~Occurs(t, ran)
  BY <1>1, <1>2 DEF PlaceInv, Across, Before
<1>6. ASSUME NEW k \in DOMAIN accepted, NEW l \in DOMAIN accepted, l < k, accepted[k] = t
      PROVE  accepted[l] \in Range(ran)
  <2>1. /\ k \in 1..Len(accepted) /\ l \in 1..Len(accepted) /\ k \in Nat /\ l \in Nat
        /\ accepted[l] \in Tasks /\ accepted[l] \in Submitted
    BY <1>1 DEF Submitted, Range
  <2>2. accepted[l] # t
    BY <1>6, <2>1 DEF AcceptedOnce
  <2>3. ~Before(accepted, t, accepted[l])
    BY <1>6, <2>1 DEF Before
  <2>4. ~Occurs(accepted[l], batch)
    BY <1>2, <2>2, <2>3
  <2>5. ~Occurs(accepted[l], tasks)
    BY <1>2, <2>3 DEF PlaceInv, Across
  <2> QED BY <1>4, <2>1, <2>4, <2>5 DEF PlaceInv
<1>7. Box!InTurn(t)
  BY <1>6 DEF Box!InTurn, Box!Range, Range
<1> QED BY <1>1, <1>3, <1>4, <1>5, <1>7 DEF Box!Start, Box!Known, Box!Range, Submitted, Range, t

\* Every step of the reactor is a step of the mailbox or leaves it as it is.
LEMMA MailboxStep ==
    ASSUME TypeOK, PlaceInv, AcceptedOnce, [Next]_vars
    PROVE  [Box!Next]_<<accepted, vectored, ran>> /\ AcceptedOnce'
<1>0. accepted \in Seq(Tasks)
  BY DEF TypeOK
<1>1. CASE UNCHANGED <<accepted, vectored, ran>>
  BY <1>1 DEF AcceptedOnce
<1>2. ASSUME NEW t \in Tasks, PushTask(t), UNCHANGED <<vectored, ran>>
      PROVE  Box!Next /\ AcceptedOnce'
  <2>1. t \notin Range(accepted) \cup vectored /\ accepted' = Append(accepted, t)
    BY <1>2 DEF PushTask, Fresh, Submitted
  <2>2. AcceptedOnce'
    BY <1>0, <2>1, AcceptedOnceStep DEF AcceptedOnce
  <2> QED BY <1>2, <2>1, <2>2 DEF Box!Next, Box!AddTask, Box!Known, Box!Range, Range
<1>3. ASSUME NEW v \in Vectors, PushTasks(v), UNCHANGED <<accepted, ran>>
      PROVE  Box!Next /\ AcceptedOnce'
  <2>1. Range(v) \in SUBSET Tasks /\ Range(v) \cap (Range(accepted) \cup vectored) = {}
    BY <1>3, VectorType DEF PushTasks, Fresh, Submitted
  <2>2. Box!AddTasks(Range(v))
    BY <1>3, <2>1 DEF PushTasks, Box!AddTasks, Box!Known, Box!Range, Range
  <2> QED BY <1>3, <2>1, <2>2 DEF Box!Next, AcceptedOnce
<1>4. ASSUME RunTask, UNCHANGED <<accepted, vectored>>
      PROVE  [Box!Next]_<<accepted, vectored, ran>> /\ AcceptedOnce'
  <2>1. AcceptedOnce'
    BY <1>4 DEF AcceptedOnce
  <2>2. CASE Head(batch) \in Tasks
    BY <1>4, <2>1, <2>2, RunIsStart DEF Box!Next
  <2>3. CASE Head(batch) \notin Tasks
    BY <1>4, <2>1, <2>3 DEF RunTask
  <2> QED BY <2>2, <2>3
<1> QED BY <1>1, <1>2, <1>3, <1>4, MailboxSteps

\* Those who hand in tasks see a mailbox that starts each at most once and the ones
\* handed in one at a time in their order, however calls and swaps overlap.
THEOREM ReactorIsMailbox == Spec => IsMailbox
<1>1. Init => AcceptedOnce /\ Box!Init
  BY DEF Init, AcceptedOnce, Box!Init
<1>2. TypeOK /\ PlaceInv /\ AcceptedOnce /\ [Next]_vars
        => [Box!Next]_<<accepted, vectored, ran>> /\ AcceptedOnce'
  BY MailboxStep
<1> QED BY <1>1, <1>2, TypeCorrect, PlaceInvariant, PTL DEF Spec, IsMailbox, Box!Spec

=============================================================================
