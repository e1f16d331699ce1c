--------------------------- MODULE SchedulerProofs ---------------------------
(***************************************************************************)
(* Theorems about the coroutines on their loops: one resume at a time, one *)
(* home for each descriptor, no coroutine left behind in the shared queue, *)
(* and no reader resumed without something to read; for any number of      *)
(* threads and coroutines.                                                 *)
(***************************************************************************)
EXTENDS Scheduler, TLAPS, FiniteSetTheorems

-----------------------------------------------------------------------------
(* The inductive invariant.                                                *)

Events == {"IN", "OUT"}

Types ==
    /\ lpc \in [Reactors -> {"top", "pop", "make", "run", "poll", "dispatch"}]
    /\ cur \in [Reactors -> Conns \cup {Nobody}]
    /\ firCor \in [Reactors -> Conns \cup {Nobody}]
    /\ ready \in [Reactors -> SUBSET (Conns \X {"read", "other"})]
    /\ tasks \in [Reactors -> SUBSET Conns]
    /\ batch \in [Reactors -> SUBSET Conns]
    /\ mask \in [Reactors -> [Conns -> (SUBSET Events) \cup {Nobody}]]
    /\ queue \in Seq(Conns)
    /\ st \in [Conns -> {"none", "new", "running", "read", "write", "closed"}]
    /\ owner \in [Conns -> Reactors \cup {Nobody}]
    /\ listen \in [Conns -> SUBSET Events]
    /\ inbox \in [Conns -> {"nothing", "data", "end"}]
    /\ type \in [Reactors -> {"Main", "Sub"}]

\* What an FdEvent listens for is what its coroutine waits for; where the descriptor is
\* registered it is registered for that, and only with the loop of its m_reactor; before
\* it is accepted it has none.
Registered ==
    \A c \in Conns :
        /\ listen[c] = Waits(c)
        /\ st[c] = "none" => owner[c] = Nobody
        /\ \A r \in Reactors : mask[r][c] # Nobody => mask[r][c] = Waits(c) /\ owner[c] = r

\* A coroutine that runs, or was accepted and has not run yet, belongs to its loop.
Started ==
    \A r \in Reactors, c \in Conns :
        /\ cur[r] = c => st[c] = "running" /\ owner[c] = r
        /\ c \in tasks[r] \cup batch[r] => st[c] = "new" /\ owner[c] = r
        /\ ~(c \in tasks[r] /\ c \in batch[r])

\* Reading, with something to read.
Satisfied(c) == st[c] = "read" /\ Readable(c)

\* A reader that a loop is about to resume belongs to that loop, and is either reported or
\* fir_cor.  Both are left behind before the loop polls again.
Reported ==
    \A r \in Reactors, c \in Conns :
        /\ firCor[r] = c => Satisfied(c) /\ owner[c] = r /\ lpc[r] \in {"dispatch", "top"}
        /\ <<c, "read">> \in ready[r] =>
              Satisfied(c) /\ owner[c] = r /\ lpc[r] = "dispatch" /\ firCor[r] # c

\* A reader in the shared queue belongs to nobody, and is there once.
HandedOver ==
    /\ \A i \in 1..Len(queue) : Satisfied(queue[i]) /\ owner[queue[i]] = Nobody
    /\ \A i, j \in 1..Len(queue) : queue[i] = queue[j] => i = j

ResumeInv == Types /\ Registered /\ Started /\ Reported /\ HandedOver

-----------------------------------------------------------------------------
(* What the two switches do to the registration.                           *)

\* Coming back from Yield a coroutine stops listening where it is now at home.
LEMMA ResumeEffect ==
    ASSUME ResumeInv, NEW r \in Reactors, NEW c \in Conns, st[c] \in {"new", "read"},
           owner[c] \in {r, Nobody}, Resume(r, c, r)
    PROVE  /\ cur' = [cur EXCEPT ![r] = c]
           /\ st' = [st EXCEPT ![c] = "running"]
           /\ owner' = [owner EXCEPT ![c] = r]
           /\ listen' \in [Conns -> SUBSET Events]
           /\ mask' \in [Reactors -> [Conns -> (SUBSET Events) \cup {Nobody}]]
           /\ Registered'
<1>0. /\ Registered
      /\ cur \in [Reactors -> Conns \cup {Nobody}]
      /\ st \in [Conns -> {"none", "new", "running", "read", "write", "closed"}]
      /\ owner \in [Conns -> Reactors \cup {Nobody}]
      /\ listen \in [Conns -> SUBSET Events]
      /\ mask \in [Reactors -> [Conns -> (SUBSET Events) \cup {Nobody}]]
      /\ Nobody \notin Reactors /\ Nobody # {}
  BY NobodyAssumption DEF ResumeInv, Types
<1>1. /\ cur' = [cur EXCEPT ![r] = c]
      /\ st' = [st EXCEPT ![c] = "running"]
      /\ owner' = [owner EXCEPT ![c] = r]
      /\ DelListenEvents(c, r, Waits(c))
  BY DEF Resume
<1>2. st'[c] = "running" /\ \A d \in Conns \ {c} : st'[d] = st[d] /\ owner'[d] = owner[d]
  BY <1>0, <1>1
<1>3. Waits(c)' = {} /\ \A d \in Conns \ {c} : Waits(d)' = Waits(d)
  BY <1>2 DEF Waits
<1>4. CASE st[c] = "new"
  <2>1. Waits(c) = {}
    BY <1>0, <1>4 DEF Waits
  <2>2. UNCHANGED <<listen, mask>>
    BY <1>1, <2>1 DEF DelListenEvents
  <2>3. \A q \in Reactors : mask[q][c] # Nobody => mask[q][c] = {} /\ q = r
    BY <1>0, <2>1 DEF Registered
  <2>4. Registered'
    <3>1. /\ listen'[c] = Waits(c)'
          /\ \A q \in Reactors : mask'[q][c] # Nobody => mask'[q][c] = Waits(c)' /\ owner'[c] = q
      BY <1>0, <1>1, <1>3, <2>1, <2>2, <2>3 DEF Registered
    <3>2. ASSUME NEW d \in Conns \ {c}
          PROVE  /\ listen'[d] = Waits(d)'
                 /\ st'[d] = "none" => owner'[d] = Nobody
                 /\ \A q \in Reactors : mask'[q][d] # Nobody => mask'[q][d] = Waits(d)' /\ owner'[d] = q
      BY <1>0, <1>2, <1>3, <2>2 DEF Registered
    <3> QED BY <1>2, <3>1, <3>2 DEF Registered
  <2> QED BY <1>0, <1>1, <2>2, <2>4
<1>5. CASE st[c] = "read"
  <2>1. Waits(c) = {"IN"} /\ listen[c] = {"IN"}
    BY <1>0, <1>5 DEF Waits, Registered
  <2>2. listen' = [listen EXCEPT ![c] = {}] /\ mask' = [mask EXCEPT ![r][c] = {}]
    BY <1>1, <2>1 DEF DelListenEvents, UpdateToReactor
  <2>3. \A q \in Reactors \ {r} : mask[q][c] = Nobody /\ mask'[q][c] = Nobody
    BY <1>0, <2>2 DEF Registered
  <2>4. /\ listen' \in [Conns -> SUBSET Events]
        /\ mask' \in [Reactors -> [Conns -> (SUBSET Events) \cup {Nobody}]]
    BY <1>0, <2>2
  <2>5. Registered'
    BY <1>0, <1>1, <1>2, <1>3, <2>2, <2>3 DEF Registered
  <2> QED BY <1>1, <2>4, <2>5
<1> QED BY <1>4, <1>5

\* Before it yields it is registered, for what it waits for, where it runs.
LEMMA SuspendEffect ==
    ASSUME ResumeInv, NEW r \in Reactors, NEW c \in Conns, Running(r, c),
           NEW ev, NEW state,
           (ev = "IN" /\ state = "read") \/ (ev = "OUT" /\ state = "write"),
           Suspend(r, c, ev, state)
    PROVE  /\ owner' = owner
           /\ st' = [st EXCEPT ![c] = state]
           /\ cur' = [cur EXCEPT ![r] = Nobody]
           /\ listen' \in [Conns -> SUBSET Events]
           /\ mask' \in [Reactors -> [Conns -> (SUBSET Events) \cup {Nobody}]]
           /\ Registered'
<1> USE NobodyAssumption DEF ResumeInv, Types, Running
<1>1. /\ owner' = [owner EXCEPT ![c] = r]
      /\ st' = [st EXCEPT ![c] = state]
      /\ cur' = [cur EXCEPT ![r] = Nobody]
      /\ AddListenEvents(c, r, {ev})
  BY DEF Suspend
<1>2. owner[c] = r
  BY DEF Started
<1>3. owner' = owner
  BY <1>1, <1>2
<1>4. listen[c] = {}
  BY DEF Registered, Waits
<1>5. listen' = [listen EXCEPT ![c] = {ev}] /\ mask' = [mask EXCEPT ![r][c] = {ev}]
  <2>1. ~({ev} \subseteq listen[c]) /\ listen[c] \cup {ev} = {ev}
    BY <1>4
  <2> QED BY <1>1, <2>1 DEF AddListenEvents, UpdateToReactor
<1>6. Waits(c)' = {ev} /\ \A d \in Conns \ {c} : Waits(d)' = Waits(d)
  BY <1>1 DEF Waits
<1>7. \A q \in Reactors \ {r} : mask[q][c] = Nobody /\ mask'[q][c] = Nobody
  BY <1>2, <1>5 DEF Registered
<1>8. Registered'
  <2>1. st'[c] # "none" /\ \A d \in Conns \ {c} : st'[d] = st[d]
    BY <1>1
  <2> QED BY <1>2, <1>3, <1>5, <1>6, <1>7, <2>1 DEF Registered
<1>9. /\ listen' \in [Conns -> SUBSET Events]
      /\ mask' \in [Reactors -> [Conns -> (SUBSET Events) \cup {Nobody}]]
  BY <1>5 DEF Events
<1> QED BY <1>1, <1>3, <1>8, <1>9

-----------------------------------------------------------------------------
(* Steps that neither resume nor suspend a coroutine.                      *)

\* Nothing about the coroutines and their registrations changes.
Still == UNCHANGED <<cur, mask, st, owner, listen>>

\* Such a step leaves the registrations in order.
LEMMA RegisteredStill ==
    ASSUME Registered, Still
    PROVE  Registered'
BY DEF Registered, Still, Waits

\* The loop goes from one place to another, without leaving a promise behind.
LEMMA LoopKeeps ==
    ASSUME ResumeInv, NEW r \in Reactors,
           \/ MakeQueue(r) \/ StoreQueue(r) \/ TakeTasks(r) \/ EnterPoll(r)
           \/ PollTimeout(r) \/ DispatchEnd(r)
    PROVE  ResumeInv'
<1> USE DEF ResumeInv, Types, Started, Reported, HandedOver, Satisfied, Readable, At, Goto,
            shared, socks
<1>1. Still => Registered'
  BY RegisteredStill
<1>2. CASE MakeQueue(r)
  BY <1>1, <1>2 DEF MakeQueue, Still
<1>3. CASE StoreQueue(r)
  BY <1>1, <1>3 DEF StoreQueue, Still
<1>4. CASE TakeTasks(r)
  BY <1>1, <1>4 DEF TakeTasks, Still
<1>5. CASE EnterPoll(r)
  BY <1>1, <1>5 DEF EnterPoll, Still
<1>6. CASE PollTimeout(r)
  BY <1>1, <1>6 DEF PollTimeout, Still
<1>7. CASE DispatchEnd(r)
  BY <1>1, <1>7 DEF DispatchEnd, Still
<1> QED BY <1>2, <1>3, <1>4, <1>5, <1>6, <1>7

\* What epoll_wait reports as readable is waiting to read, at home here, with something to
\* read, and is not promised a resume: not by this loop, which has just given up fir_cor.
LEMMA PollKeeps ==
    ASSUME ResumeInv, NEW r \in Reactors, Poll(r)
    PROVE  ResumeInv'
<1> USE NobodyAssumption
<1>1. ASSUME NEW c \in Conns, <<c, "read">> \in Reportable(r)
      PROVE  Satisfied(c) /\ owner[c] = r /\ firCor[r] # c
  <2>1. mask[r][c] = {"IN"} /\ Readable(c)
    BY <1>1 DEF Reportable
  <2>2. Waits(c) = {"IN"} /\ owner[c] = r
    BY <2>1 DEF ResumeInv, Registered
  <2>3. st[c] = "read"
    BY <2>2 DEF Waits
  <2>4. firCor[r] # c
    BY DEF ResumeInv, Reported, Poll, At
  <2> QED BY <2>1, <2>2, <2>3, <2>4 DEF Satisfied
<1>2. Reportable(r) \subseteq Conns \X {"read", "other"}
  BY DEF Reportable
<1>3. Registered'
  BY RegisteredStill DEF ResumeInv, Poll, Still
<1>4. Types' /\ Started' /\ HandedOver'
  BY <1>2 DEF Poll, Goto, At, ResumeInv, Types, Started, HandedOver, Satisfied, Readable,
     shared, socks
<1>5. Reported'
  <2>1. /\ ready' = [ready EXCEPT ![r] = Reportable(r)]
        /\ lpc' = [lpc EXCEPT ![r] = "dispatch"]
        /\ UNCHANGED <<firCor, owner, st, inbox>>
    BY DEF Poll, Goto, socks
  <2>2. \A c \in Conns : firCor[r] # c
    BY DEF ResumeInv, Reported, Poll, At
  <2>3. \A c \in Conns : Satisfied(c)' = Satisfied(c)
    BY <2>1 DEF Satisfied, Readable
  <2>4. lpc'[r] = "dispatch" /\ ready'[r] = Reportable(r)
    BY <2>1 DEF ResumeInv, Types
  <2>5. \A q \in Reactors \ {r} : lpc'[q] = lpc[q] /\ ready'[q] = ready[q]
    BY <2>1 DEF ResumeInv, Types
  <2> SUFFICES ASSUME NEW q \in Reactors, NEW d \in Conns
               PROVE  /\ firCor'[q] = d => Satisfied(d)' /\ owner'[d] = q
                                             /\ lpc'[q] \in {"dispatch", "top"}
                      /\ <<d, "read">> \in ready'[q] =>
                            Satisfied(d)' /\ owner'[d] = q /\ lpc'[q] = "dispatch"
                                          /\ firCor'[q] # d
    BY DEF Reported
  <2>6. CASE q = r
    BY <1>1, <2>1, <2>2, <2>3, <2>4, <2>6
  <2>7. CASE q # r
    BY <2>1, <2>3, <2>5, <2>7 DEF ResumeInv, Reported
  <2> QED BY <2>6, <2>7
<1> QED BY <1>3, <1>4, <1>5 DEF ResumeInv

\* The dispatch of a report that is not read: the descriptor leaves the loop.
LEMMA OtherKeeps ==
    ASSUME ResumeInv, NEW r \in Reactors, NEW c \in Conns, DispatchOther(r, c)
    PROVE  ResumeInv'
<1> USE DEF DispatchOther, TakeReport, Unregister, At, shared, socks
<1>1. Registered'
  BY DEF ResumeInv, Types, Registered, Waits
<1>2. Types' /\ Started' /\ Reported' /\ HandedOver'
  BY DEF ResumeInv, Types, Started, Reported, HandedOver, Satisfied, Readable
<1> QED BY <1>1, <1>2 DEF ResumeInv

\* The first reported reader becomes fir_cor.
LEMMA FirstKeeps ==
    ASSUME ResumeInv, NEW r \in Reactors, NEW c \in Conns, DispatchFirst(r, c)
    PROVE  ResumeInv'
<1> USE DEF DispatchFirst, TakeReport, At, shared, socks
<1>1. Registered'
  BY RegisteredStill DEF ResumeInv, Still
<1>2. Types' /\ Started' /\ Reported' /\ HandedOver'
  BY NobodyAssumption DEF ResumeInv, Types, Started, Reported, HandedOver, Satisfied,
     Readable
<1> QED BY <1>1, <1>2 DEF ResumeInv

\* The others go to the queue.  They are at home nowhere then, so that nobody else can hold
\* a promise, and are not in the queue yet.
LEMMA QueueKeeps ==
    ASSUME ResumeInv, NEW r \in Reactors, NEW c \in Conns, DispatchQueue(r, c)
    PROVE  ResumeInv'
<1> USE NobodyAssumption DEF DispatchQueue, TakeReport, Unregister, At, shared, socks
<1>1. Satisfied(c) /\ owner[c] = r
  BY DEF ResumeInv, Reported
<1>2. Registered'
  <2>1. \A q \in Reactors : mask'[q][c] = Nobody
    BY <1>1 DEF ResumeInv, Types, Registered
  <2>2. \A d \in Conns : Waits(d)' = Waits(d)
    BY DEF Waits
  <2> QED BY <2>1, <2>2 DEF ResumeInv, Types, Registered
<1>3. Types' /\ Started'
  BY <1>1 DEF ResumeInv, Types, Started, Satisfied
<1>4. Reported'
  <2>1. \A q \in Reactors : firCor[q] # c /\ <<c, "read">> \notin ready'[q]
    BY <1>1 DEF ResumeInv, Types, Reported
  <2>2. \A d \in Conns \ {c} : (Satisfied(d) => Satisfied(d)') /\ owner'[d] = owner[d]
    BY DEF ResumeInv, Types, Satisfied, Readable
  <2>3. \A q \in Reactors : ready'[q] \subseteq ready[q]
    BY DEF ResumeInv, Types
  <2>4. UNCHANGED <<lpc, firCor>>
    OBVIOUS
  <2> SUFFICES ASSUME NEW q \in Reactors, NEW d \in Conns,
                      firCor'[q] = d \/ <<d, "read">> \in ready'[q]
               PROVE  /\ Satisfied(d)' /\ owner'[d] = q
                      /\ firCor'[q] = d => lpc'[q] \in {"dispatch", "top"}
                      /\ <<d, "read">> \in ready'[q] => lpc'[q] = "dispatch" /\ firCor'[q] # d
    BY ZenonT(60) DEF Reported
  <2>5. d # c
    BY <2>1, <2>4
  <2> QED BY <2>2, <2>3, <2>4, <2>5 DEF ResumeInv, Reported
<1>5. HandedOver'
  <2>1. Len(queue') = Len(queue) + 1 /\ queue'[Len(queue')] = c
    BY DEF ResumeInv, Types
  <2>2. \A i \in 1..Len(queue) : queue'[i] = queue[i] /\ queue[i] \in Conns /\ queue[i] # c
    BY <1>1 DEF ResumeInv, Types, HandedOver
  <2>3. \A i \in 1..Len(queue) : Satisfied(queue[i])' /\ owner'[queue[i]] = Nobody
    BY <2>2, ZenonT(60) DEF ResumeInv, Types, HandedOver, Satisfied, Readable
  <2>4. Satisfied(c)' /\ owner'[c] = Nobody
    BY <1>1 DEF ResumeInv, Types, Satisfied, Readable
  <2> QED BY <2>1, <2>2, <2>3, <2>4 DEF ResumeInv, Types, HandedOver
<1> QED BY <1>2, <1>3, <1>4, <1>5 DEF ResumeInv

-----------------------------------------------------------------------------
(* Steps that resume a coroutine: whoever held the promise has given it up *)
(* in the same step.                                                       *)

\* The top of the loop resumes fir_cor.
LEMMA TopKeeps ==
    ASSUME ResumeInv, NEW r \in Reactors, LoopTop(r)
    PROVE  ResumeInv'
<1> USE NobodyAssumption DEF LoopTop, At, Goto, shared, socks
<1>1. CASE firCor[r] = Nobody
  <2>1. Registered'
    BY <1>1, RegisteredStill DEF ResumeInv, Still
  <2>2. Types' /\ Started' /\ Reported' /\ HandedOver'
    BY <1>1 DEF ResumeInv, Types, Started, Reported, HandedOver, Satisfied, Readable
  <2> QED BY <2>1, <2>2 DEF ResumeInv
<1>2. ASSUME NEW c \in Conns, firCor[r] = c PROVE ResumeInv'
  <2>1. Satisfied(c) /\ owner[c] = r
    BY <1>2 DEF ResumeInv, Reported
  <2>2. Resume(r, c, r)
    BY <1>2, <2>1
  <2>3. /\ cur' = [cur EXCEPT ![r] = c]
        /\ st' = [st EXCEPT ![c] = "running"]
        /\ owner' = [owner EXCEPT ![c] = r]
        /\ listen' \in [Conns -> SUBSET Events]
        /\ mask' \in [Reactors -> [Conns -> (SUBSET Events) \cup {Nobody}]]
        /\ Registered'
    BY <2>1, <2>2, ResumeEffect DEF Satisfied
  <2>4. Types' /\ Started'
    BY <1>2, <2>1, <2>3 DEF ResumeInv, Types, Started, Satisfied
  <2>5. Reported' /\ HandedOver'
    BY <1>2, <2>1, <2>3 DEF ResumeInv, Types, Reported, HandedOver, Satisfied, Readable
  <2> QED BY <2>3, <2>4, <2>5 DEF ResumeInv
<1> QED BY <1>1, <1>2 DEF ResumeInv, Types

\* An IO thread resumes the first coroutine of the shared queue.
LEMMA PopKeeps ==
    ASSUME ResumeInv, NEW r \in Reactors, Pop(r)
    PROVE  ResumeInv'
<1> DEFINE c == Head(queue)
<1> USE NobodyAssumption DEF Pop, At, shared, socks
<1>0. c = queue[1] /\ 1 \in 1..Len(queue) /\ c \in Conns
  BY DEF ResumeInv, Types
<1>1. Satisfied(c) /\ owner[c] = Nobody /\ Resume(r, c, r)
  BY <1>0 DEF ResumeInv, HandedOver
<1>2. /\ queue' \in Seq(Conns)
      /\ Len(queue') = Len(queue) - 1
      /\ \A i \in 1..Len(queue') : i + 1 \in 1..Len(queue) /\ queue'[i] = queue[i + 1]
  BY DEF ResumeInv, Types
<1>3. \A i \in 1..Len(queue') : queue'[i] \in Conns \ {c}
  BY <1>0, <1>2 DEF ResumeInv, Types, HandedOver
<1> HIDE DEF c
<1>4. /\ cur' = [cur EXCEPT ![r] = c]
      /\ st' = [st EXCEPT ![c] = "running"]
      /\ owner' = [owner EXCEPT ![c] = r]
      /\ listen' \in [Conns -> SUBSET Events]
      /\ mask' \in [Reactors -> [Conns -> (SUBSET Events) \cup {Nobody}]]
      /\ Registered'
  BY <1>0, <1>1, ResumeEffect DEF Satisfied
<1>5. Types' /\ Started'
  BY <1>0, <1>1, <1>2, <1>4 DEF ResumeInv, Types, Started, Satisfied
<1>6. Reported'
  <2>1. \A q \in Reactors : firCor[q] # c /\ <<c, "read">> \notin ready[q]
    BY <1>0, <1>1 DEF ResumeInv, Reported
  <2>2. \A d \in Conns \ {c} : (Satisfied(d) => Satisfied(d)') /\ owner'[d] = owner[d]
    BY <1>4 DEF ResumeInv, Types, Satisfied, Readable
  <2> QED BY <1>0, <2>1, <2>2, ZenonT(60) DEF ResumeInv, Reported
<1>7. HandedOver'
  BY <1>2, <1>3, <1>4 DEF ResumeInv, Types, HandedOver, Satisfied, Readable
<1> QED BY <1>4, <1>5, <1>6, <1>7 DEF ResumeInv

\* A loop runs the task of a coroutine that was given to it.
LEMMA RunTaskKeeps ==
    ASSUME ResumeInv, NEW r \in Reactors, NEW c \in Conns, RunTask(r, c)
    PROVE  ResumeInv'
<1> USE NobodyAssumption DEF RunTask, At, shared, socks
<1>1. st[c] = "new" /\ owner[c] = r /\ Resume(r, c, r)
  BY DEF ResumeInv, Started
<1>2. /\ cur' = [cur EXCEPT ![r] = c]
      /\ st' = [st EXCEPT ![c] = "running"]
      /\ owner' = [owner EXCEPT ![c] = r]
      /\ listen' \in [Conns -> SUBSET Events]
      /\ mask' \in [Reactors -> [Conns -> (SUBSET Events) \cup {Nobody}]]
      /\ Registered'
  BY <1>1, ResumeEffect
<1>3. Types' /\ Started'
  BY <1>1, <1>2 DEF ResumeInv, Types, Started
<1>4. Reported' /\ HandedOver'
  BY <1>1, <1>2 DEF ResumeInv, Types, Reported, HandedOver, Satisfied, Readable
<1> QED BY <1>2, <1>3, <1>4 DEF ResumeInv

\* The main reactor resumes a coroutine of the batch at once, and forgets fir_cor.
LEMMA NowKeeps ==
    ASSUME ResumeInv, NEW r \in Reactors, NEW c \in Conns, DispatchNow(r, c)
    PROVE  ResumeInv'
<1> USE NobodyAssumption DEF DispatchNow, TakeReport, At, shared, socks
<1>1. Satisfied(c) /\ owner[c] = r /\ firCor[r] # c /\ Resume(r, c, r)
  BY DEF ResumeInv, Reported
<1>2. /\ cur' = [cur EXCEPT ![r] = c]
      /\ st' = [st EXCEPT ![c] = "running"]
      /\ owner' = [owner EXCEPT ![c] = r]
      /\ listen' \in [Conns -> SUBSET Events]
      /\ mask' \in [Reactors -> [Conns -> (SUBSET Events) \cup {Nobody}]]
      /\ Registered'
  BY <1>1, ResumeEffect DEF Satisfied
<1>3. Types' /\ Started'
  BY <1>1, <1>2 DEF ResumeInv, Types, Started, Satisfied
<1>4. Reported' /\ HandedOver'
  BY <1>1, <1>2 DEF ResumeInv, Types, Reported, HandedOver, Satisfied, Readable
<1> QED BY <1>2, <1>3, <1>4 DEF ResumeInv

-----------------------------------------------------------------------------
(* Steps of a coroutine, of the acceptor and of the network.               *)

\* A coroutine that runs is at home on its thread, and nobody has promised to resume it.
LEMMA RunningAlone ==
    ASSUME ResumeInv, NEW r \in Reactors, NEW c \in Conns, Running(r, c)
    PROVE  /\ owner[c] = r
           /\ ~Satisfied(c)
           /\ \A q \in Reactors : firCor[q] # c /\ <<c, "read">> \notin ready[q]
           /\ \A q \in Reactors : c \notin tasks[q] /\ c \notin batch[q]
           /\ \A i \in 1..Len(queue) : queue[i] # c
           /\ \A q \in Reactors : cur[q] = c => q = r
BY DEF ResumeInv, Started, Reported, HandedOver, Satisfied, Running

\* A system call that is done at once takes from the socket, and changes nothing else.
LEMMA NowStays ==
    ASSUME ResumeInv, NEW r \in Reactors, NEW c \in Conns, ReadNow(r, c) \/ WriteNow(r, c)
    PROVE  ResumeInv'
<1>1. Running(r, c)
  BY DEF ReadNow, WriteNow
<1>2. /\ UNCHANGED <<loops, mask, shared, st, owner, listen>>
      /\ inbox' \in [Conns -> {"nothing", "data", "end"}]
      /\ \A d \in Conns \ {c} : inbox'[d] = inbox[d]
  <2>1. owner[c] = r /\ owner \in [Conns -> Reactors \cup {Nobody}]
    BY <1>1, RunningAlone DEF ResumeInv, Types
  <2>2. [owner EXCEPT ![c] = r] = owner
    BY <2>1
  <2>3. inbox \in [Conns -> {"nothing", "data", "end"}]
    BY DEF ResumeInv, Types
  <2>4. CASE ReadNow(r, c)
    BY <2>2, <2>3, <2>4 DEF ReadNow
  <2>5. CASE WriteNow(r, c)
    BY <2>2, <2>3, <2>5 DEF WriteNow
  <2> QED BY <2>4, <2>5
<1>3. Registered'
  BY <1>2, RegisteredStill DEF ResumeInv, Still, loops
<1>4. \A d \in Conns : Satisfied(d) => Satisfied(d)'
  <2>1. ~Satisfied(c)
    BY <1>1, RunningAlone
  <2>2. \A d \in Conns \ {c} : Satisfied(d) => Satisfied(d)'
    BY <1>2 DEF Satisfied, Readable
  <2> QED BY <2>1, <2>2
<1>5. Types' /\ Started'
  BY <1>2, <1>4 DEF ResumeInv, Types, Started, loops, shared
<1>6. Reported' /\ HandedOver'
  BY <1>2, <1>4 DEF ResumeInv, Types, Reported, HandedOver, loops, shared
<1> QED BY <1>3, <1>5, <1>6 DEF ResumeInv

\* A coroutine that gives its thread back was promised nothing, and is promised nothing by
\* that: what the other coroutines are promised stays as it is.
LEMMA OthersKept ==
    ASSUME ResumeInv, NEW r \in Reactors, NEW c \in Conns, Running(r, c),
           NEW state \in {"read", "write", "closed"},
           owner' = owner,
           st' = [st EXCEPT ![c] = state],
           cur' = [cur EXCEPT ![r] = Nobody],
           listen' \in [Conns -> SUBSET Events],
           mask' \in [Reactors -> [Conns -> (SUBSET Events) \cup {Nobody}]],
           UNCHANGED <<lpc, firCor, ready, tasks, batch, shared, socks>>
    PROVE  Types' /\ Started' /\ Reported' /\ HandedOver'
<1>1. Types'
  BY DEF ResumeInv, Types, shared, socks
<1>2. \A d \in Conns \ {c} : st'[d] = st[d] /\ (Satisfied(d) => Satisfied(d)')
  BY DEF ResumeInv, Types, Satisfied, Readable, socks
<1>3. /\ owner[c] = r
      /\ \A q \in Reactors : firCor[q] # c /\ <<c, "read">> \notin ready[q]
      /\ \A q \in Reactors : c \notin tasks[q] /\ c \notin batch[q]
      /\ \A i \in 1..Len(queue) : queue[i] # c
      /\ \A q \in Reactors : cur[q] = c => q = r
  BY RunningAlone
<1>4. /\ cur'[r] = Nobody
      /\ \A q \in Reactors \ {r} : cur'[q] = cur[q]
  BY DEF ResumeInv, Types
<1>5. Nobody \notin Conns
  BY NobodyAssumption
<1>6. Started'
  BY <1>2, <1>3, <1>4, <1>5 DEF ResumeInv, Started
<1>7. Reported'
  BY <1>2, <1>3 DEF ResumeInv, Reported
<1>8. HandedOver'
  <2>1. \A i \in 1..Len(queue) : queue[i] \in Conns \ {c}
    BY <1>3 DEF ResumeInv, Types
  <2> QED BY <1>2, <2>1 DEF ResumeInv, HandedOver, shared
<1> QED BY <1>1, <1>6, <1>7, <1>8

\* One that waits is registered for what it waits for.
LEMMA WaitKeeps ==
    ASSUME ResumeInv, NEW r \in Reactors, NEW c \in Conns, ReadWait(r, c) \/ WriteWait(r, c)
    PROVE  ResumeInv'
<1>1. Running(r, c)
  BY DEF ReadWait, WriteWait
<1>2. ASSUME NEW ev, NEW state,
             (ev = "IN" /\ state = "read") \/ (ev = "OUT" /\ state = "write"),
             Suspend(r, c, ev, state),
             UNCHANGED <<lpc, firCor, ready, tasks, batch, shared, socks>>
      PROVE  ResumeInv'
  <2>1. /\ owner' = owner
        /\ st' = [st EXCEPT ![c] = state]
        /\ cur' = [cur EXCEPT ![r] = Nobody]
        /\ listen' \in [Conns -> SUBSET Events]
        /\ mask' \in [Reactors -> [Conns -> (SUBSET Events) \cup {Nobody}]]
        /\ Registered'
    BY <1>1, <1>2, SuspendEffect
  <2>2. state \in {"read", "write", "closed"}
    BY <1>2
  <2>3. Types' /\ Started' /\ Reported' /\ HandedOver'
    BY <1>1, <1>2, <2>1, <2>2, OthersKept
  <2> QED BY <2>1, <2>3 DEF ResumeInv
<1>3. CASE ReadWait(r, c)
  BY <1>2, <1>3 DEF ReadWait
<1>4. CASE WriteWait(r, c)
  BY <1>2, <1>4 DEF WriteWait
<1> QED BY <1>3, <1>4

\* One that closes is not registered any more.
LEMMA CloseKeeps ==
    ASSUME ResumeInv, NEW r \in Reactors, NEW c \in Conns, Close(r, c)
    PROVE  ResumeInv'
<1>1. Running(r, c) /\ owner[c] = r /\ owner[c] # Nobody
  BY NobodyAssumption, RunningAlone DEF Close
<1>2. /\ owner' = owner
      /\ mask' = [mask EXCEPT ![r][c] = Nobody]
      /\ listen' = [listen EXCEPT ![c] = {}]
      /\ st' = [st EXCEPT ![c] = "closed"]
      /\ cur' = [cur EXCEPT ![r] = Nobody]
      /\ UNCHANGED <<lpc, firCor, ready, tasks, batch, shared, socks>>
  <2>1. owner' = [owner EXCEPT ![c] = r]
    BY <1>1 DEF Close, UnregisterFromReactor
  <2>2. owner' = owner
    BY <1>1, <2>1 DEF ResumeInv, Types
  <2> QED BY <1>1, <2>2 DEF Close, UnregisterFromReactor
<1>3. Registered'
  <2>0. st \in [Conns -> {"none", "new", "running", "read", "write", "closed"}]
    BY DEF ResumeInv, Types
  <2>1. /\ Waits(c)' = {} /\ st'[c] # "none"
        /\ \A d \in Conns \ {c} : Waits(d)' = Waits(d) /\ st'[d] = st[d]
    BY <1>2, <2>0 DEF Waits
  <2>2. \A q \in Reactors : mask'[q][c] = Nobody
    BY <1>1, <1>2 DEF ResumeInv, Types, Registered
  <2>3. /\ listen'[c] = {} /\ \A d \in Conns \ {c} : listen'[d] = listen[d]
        /\ \A q \in Reactors, d \in Conns \ {c} : mask'[q][d] = mask[q][d]
    BY <1>2 DEF ResumeInv, Types
  <2>4. owner' = owner
    BY <1>2
  <2> SUFFICES ASSUME NEW d \in Conns
               PROVE  /\ listen'[d] = Waits(d)'
                      /\ st'[d] = "none" => owner'[d] = Nobody
                      /\ \A q \in Reactors :
                            mask'[q][d] # Nobody => mask'[q][d] = Waits(d)' /\ owner'[d] = q
    BY DEF Registered
  <2>5. CASE d = c
    BY <2>1, <2>2, <2>3, <2>5
  <2>6. CASE d # c
    BY <2>1, <2>3, <2>4, <2>6 DEF ResumeInv, Registered
  <2> QED BY <2>5, <2>6
<1>4. /\ listen' \in [Conns -> SUBSET Events]
      /\ mask' \in [Reactors -> [Conns -> (SUBSET Events) \cup {Nobody}]]
  BY <1>2 DEF ResumeInv, Types
<1>5. Types' /\ Started' /\ Reported' /\ HandedOver'
  BY <1>1, <1>2, <1>4, OthersKept
<1> QED BY <1>3, <1>5 DEF ResumeInv

\* A new coroutine is given to one loop.
LEMMA AcceptKeeps ==
    ASSUME ResumeInv, NEW r \in Reactors, NEW c \in Conns, Accept(r, c)
    PROVE  ResumeInv'
<1> USE NobodyAssumption DEF Accept, shared, socks
<1>1. Registered'
  <2>1. \A d \in Conns : Waits(d)' = Waits(d)
    BY DEF Waits, ResumeInv, Types
  <2>2. st'[c] = "new" /\ \A d \in Conns \ {c} : st'[d] = st[d] /\ owner'[d] = owner[d]
    BY DEF ResumeInv, Types
  <2>3. \A q \in Reactors : mask'[q][c] = Nobody
    BY DEF ResumeInv, Registered
  <2>4. UNCHANGED <<listen, mask>>
    OBVIOUS
  <2> QED BY <2>1, <2>2, <2>3, <2>4 DEF ResumeInv, Registered
<1>2. Types' /\ Started'
  BY DEF ResumeInv, Types, Started
<1>3. Reported' /\ HandedOver'
  BY DEF ResumeInv, Types, Reported, HandedOver, Satisfied, Readable
<1> QED BY <1>1, <1>2, <1>3 DEF ResumeInv

\* What arrives can only satisfy a reader.
LEMMA NetworkKeeps ==
    ASSUME ResumeInv, NEW c \in Conns, DataArrives(c) \/ SpaceFrees(c)
    PROVE  ResumeInv'
<1>1. UNCHANGED <<loops, mask, shared, st, owner, listen>>
  BY DEF DataArrives, SpaceFrees
<1>2. /\ inbox' \in [Conns -> {"nothing", "data", "end"}]
      /\ \A d \in Conns : inbox[d] # "nothing" => inbox'[d] # "nothing"
  <2>1. inbox \in [Conns -> {"nothing", "data", "end"}]
    BY DEF ResumeInv, Types
  <2>2. CASE DataArrives(c)
    BY <2>1, <2>2 DEF DataArrives
  <2>3. CASE SpaceFrees(c)
    BY <2>1, <2>3 DEF SpaceFrees
  <2> QED BY <2>2, <2>3
<1>3. Registered'
  BY <1>1, RegisteredStill DEF ResumeInv, Still, loops
<1>4. \A d \in Conns : Satisfied(d) => Satisfied(d)'
  BY <1>1, <1>2 DEF Satisfied, Readable
<1>5. Types' /\ Started'
  BY <1>1, <1>2 DEF ResumeInv, Types, Started, loops, shared
<1>6. Reported' /\ HandedOver'
  BY <1>1, <1>4 DEF ResumeInv, Types, Reported, HandedOver, loops, shared
<1> QED BY <1>3, <1>5, <1>6 DEF ResumeInv

-----------------------------------------------------------------------------
(* The invariant holds in every state.                                     *)

\* In the beginning no coroutine runs or waits.
LEMMA ResumeInit == Init => ResumeInv
<1> SUFFICES ASSUME Init PROVE ResumeInv
  OBVIOUS
<1> USE NobodyAssumption DEF Init
<1>1. Types
  BY DEF Types, Events
<1>2. Registered /\ Started
  BY DEF Registered, Started, Waits
<1>3. Reported /\ HandedOver
  BY DEF Reported, HandedOver
<1> QED BY <1>1, <1>2, <1>3 DEF ResumeInv

\* The invariant stays while the variables do.
LEMMA ResumeStutter == ResumeInv /\ UNCHANGED vars => ResumeInv'
<1> SUFFICES ASSUME ResumeInv, UNCHANGED vars PROVE ResumeInv'
  OBVIOUS
<1> USE DEF ResumeInv, vars
<1>1. Types' /\ Started' /\ HandedOver'
  BY DEF Types, Started, HandedOver, Satisfied, Readable
<1>2. Reported' /\ Registered'
  BY DEF Reported, Registered, Satisfied, Readable, Waits
<1> QED BY <1>1, <1>2

\* Every step of a loop, a coroutine and the peers keeps the invariant.
LEMMA ResumeNext == ResumeInv /\ Next => ResumeInv'
<1> SUFFICES ASSUME ResumeInv, Next PROVE ResumeInv'
  OBVIOUS
<1>1. ASSUME NEW r \in Reactors, LoopStep(r) \/ PollTimeout(r) PROVE ResumeInv'
  <2>1. CASE \/ MakeQueue(r) \/ StoreQueue(r) \/ TakeTasks(r) \/ EnterPoll(r)
             \/ PollTimeout(r) \/ DispatchEnd(r)
    BY <2>1, LoopKeeps
  <2>2. CASE LoopTop(r) \/ Pop(r) \/ Poll(r)
    BY <2>2, TopKeeps, PopKeeps, PollKeeps
  <2>3. ASSUME NEW c \in Conns,
               \/ RunTask(r, c) \/ DispatchOther(r, c) \/ DispatchFirst(r, c)
               \/ DispatchQueue(r, c) \/ DispatchNow(r, c)
        PROVE  ResumeInv'
    BY <2>3, RunTaskKeeps, OtherKeeps, FirstKeeps, QueueKeeps, NowKeeps
  <2> QED BY <1>1, <2>1, <2>2, <2>3 DEF LoopStep
<1>2. ASSUME NEW r \in Reactors, NEW c \in Conns,
             ReadNow(r, c) \/ WriteNow(r, c) \/ GiveBack(r, c) \/ Accept(r, c)
      PROVE  ResumeInv'
  BY <1>2, NowStays, WaitKeeps, CloseKeeps, AcceptKeeps DEF GiveBack
<1>3. ASSUME NEW c \in Conns, DataArrives(c) \/ SpaceFrees(c) PROVE ResumeInv'
  BY <1>3, NetworkKeeps
<1> QED BY <1>1, <1>2, <1>3 DEF Next

\* The inductive invariant of the coroutines, their registrations and the shared queue.
THEOREM ResumeInvariant == Spec => []ResumeInv
<1>1. ResumeInv /\ [Next]_vars => ResumeInv'
  BY ResumeNext, ResumeStutter
<1> QED BY ResumeInit, <1>1, PTL DEF Spec

-----------------------------------------------------------------------------
(* One resume at a time, in one place.                                     *)

\* A set whose members are all the same has at most one.
LEMMA AtMostOne ==
    ASSUME NEW S, \A x, y \in S : x = y
    PROVE  Cardinality(S) \in {0, 1} /\ (Cardinality(S) = 1 => S # {})
<1>1. CASE S = {}
  BY <1>1, FS_EmptySet
<1>2. ASSUME NEW x \in S PROVE Cardinality(S) = 1
  <2>1. S = {x}
    OBVIOUS
  <2> QED BY <2>1, FS_Singleton
<1> QED BY <1>1, <1>2

\* The promises to resume one coroutine are kept in one place, and there are none while it
\* runs.
LEMMA PendingOnce ==
    ASSUME ResumeInv, NEW c \in Conns
    PROVE  /\ \A p, q \in Pending(c) : p = q
           /\ st[c] = "running" => Pending(c) = {}
<1>1. \A p \in Pending(c) :
         \/ st[c] = "read" /\ \E r \in Reactors : p = <<"fir", r>> /\ owner[c] = r
         \/ st[c] = "new" /\ \E r \in Reactors :
                                /\ owner[c] = r
                                /\ \/ p = <<"task", r>> /\ c \in tasks[r]
                                   \/ p = <<"batch", r>> /\ c \in batch[r]
         \/ /\ st[c] = "read"
            /\ owner[c] = Nobody
            /\ \E i \in 1..Len(queue) : p = <<"queue", i>> /\ queue[i] = c
  <2>1. \A p \in Pending(c) :
           \/ \E r \in Reactors : p = <<"fir", r>> /\ firCor[r] = c
           \/ \E r \in Reactors : p = <<"task", r>> /\ c \in tasks[r]
           \/ \E r \in Reactors : p = <<"batch", r>> /\ c \in batch[r]
           \/ \E i \in 1..Len(queue) : p = <<"queue", i>> /\ queue[i] = c
    BY DEF Pending
  <2>2. \A r \in Reactors : firCor[r] = c => st[c] = "read" /\ owner[c] = r
    BY ZenonT(60) DEF ResumeInv, Reported, Satisfied
  <2>3. \A r \in Reactors : c \in tasks[r] \cup batch[r] => st[c] = "new" /\ owner[c] = r
    BY DEF ResumeInv, Started
  <2>4. \A i \in 1..Len(queue) : queue[i] = c => st[c] = "read" /\ owner[c] = Nobody
    BY DEF ResumeInv, HandedOver, Satisfied
  <2> QED BY <2>1, <2>2, <2>3, <2>4
<1>2. \A r \in Reactors : ~(c \in tasks[r] /\ c \in batch[r])
  BY DEF ResumeInv, Started
<1>3. \A i, j \in 1..Len(queue) : queue[i] = queue[j] => i = j
  BY DEF ResumeInv, HandedOver
<1>4. Nobody \notin Reactors
  BY NobodyAssumption
<1>5. ASSUME NEW p \in Pending(c), NEW q \in Pending(c) PROVE p = q
  <2>1. CASE st[c] = "new"
    BY <1>1, <1>2, <2>1
  <2>2. CASE st[c] = "read" /\ owner[c] = Nobody
    BY <1>1, <1>3, <1>4, <2>2
  <2>3. CASE st[c] = "read" /\ owner[c] # Nobody
    BY <1>1, <2>3
  <2> QED BY <1>1, <2>1, <2>2, <2>3
<1> QED BY <1>1, <1>5

\* A coroutine runs on at most one thread, and nobody holds a promise to resume it while it
\* runs; a suspended one is promised one resume at most: fir_cor, the tasks of a loop and
\* the shared queue never both have it, though the queue takes it from one thread to
\* another (reactor.cc, coroutineHook.cc).
THEOREM OneResumeHolds == Spec => []OneResume
<1>1. ResumeInv => OneResume
  <2> SUFFICES ASSUME ResumeInv, NEW c \in Conns
               PROVE  Cardinality({r \in Reactors : cur[r] = c}) + Cardinality(Pending(c)) <= 1
    BY DEF OneResume
  <2> DEFINE on == {r \in Reactors : cur[r] = c}
  <2>1. /\ \A q, r \in on : q = r
        /\ on # {} => st[c] = "running"
    BY DEF ResumeInv, Started
  <2>2. /\ \A p, q \in Pending(c) : p = q
        /\ st[c] = "running" => Pending(c) = {}
    BY PendingOnce
  <2> HIDE DEF on
  <2>3. Cardinality(on) \in {0, 1} /\ (Cardinality(on) = 1 => on # {})
    BY <2>1, AtMostOne
  <2>4. Cardinality(Pending(c)) \in {0, 1} /\ (Cardinality(Pending(c)) = 1 => Pending(c) # {})
    BY <2>2, AtMostOne
  <2>5. Cardinality(on) + Cardinality(Pending(c)) <= 1
    BY <2>1, <2>2, <2>3, <2>4
  <2> QED BY <2>5 DEF on
<1> QED BY <1>1, ResumeInvariant, PTL

\* A descriptor is registered with one loop at most, the m_reactor of its FdEvent; so that
\* the hook, coming back on another thread, finds its registration where it looks for it
\* (coroutineHook.cc, fdEvent.cc).
THEOREM OneHomeHolds == Spec => []OneHome
<1>1. ResumeInv => OneHome
  BY DEF ResumeInv, Registered, OneHome
<1> QED BY <1>1, ResumeInvariant, PTL

-----------------------------------------------------------------------------
(* Who resumes a reader, and when.                                         *)

\* A resume of a coroutine that is due one touches no other.
LEMMA OnlyDueResumed ==
    ASSUME ResumeInv, NEW r, NEW c \in Conns, NEW own, Resume(r, c, own),
           st[c] = "read" => Readable(c)
    PROVE  \A d \in Conns : st[d] = "read" /\ st'[d] # "read" => Readable(d)
BY DEF Resume, ResumeInv, Types

\* Each of the ways to resume a coroutine finds something to read on its socket, if it was
\* waiting for that: also after it was handed to another thread, or kept in fir_cor, in the
\* meantime (reactor.cc; tcpConnection.cc closes a connection that reads nothing).
THEOREM ResumedWithDataHolds == Spec => ResumedWithData
<1> DEFINE Due == \A c \in Conns : st[c] = "read" /\ st'[c] # "read" => Readable(c)
<1>1. ResumeInv /\ Next => Due
  <2> SUFFICES ASSUME ResumeInv, Next PROVE Due
    OBVIOUS
  <2>1. CASE st' = st
    BY <2>1
  <2>2. ASSUME NEW r \in Reactors, LoopTop(r) PROVE Due
    <3>1. CASE firCor[r] = Nobody
      BY <2>1, <2>2, <3>1 DEF LoopTop
    <3>2. CASE firCor[r] # Nobody
      <4>1. firCor[r] \in Conns /\ Satisfied(firCor[r])
        <5>1. firCor[r] \in Conns
          BY <3>2 DEF ResumeInv, Types
        <5> QED BY <5>1 DEF ResumeInv, Reported
      <4> QED BY <2>2, <3>2, <4>1, OnlyDueResumed DEF LoopTop, Satisfied
    <3> QED BY <3>1, <3>2
  <2>3. ASSUME NEW r \in Reactors, Pop(r) PROVE Due
    <3>1. Head(queue) \in Conns /\ Satisfied(Head(queue))
      BY <2>3 DEF Pop, ResumeInv, Types, HandedOver
    <3> QED BY <2>3, <3>1, OnlyDueResumed DEF Pop, Satisfied
  <2>4. ASSUME NEW r \in Reactors, NEW c \in Conns, RunTask(r, c) PROVE Due
    BY <2>4, OnlyDueResumed DEF RunTask, ResumeInv, Started
  <2>5. ASSUME NEW r \in Reactors, NEW c \in Conns, DispatchNow(r, c) PROVE Due
    BY <2>5, OnlyDueResumed DEF DispatchNow, TakeReport, ResumeInv, Reported, Satisfied
  <2>6. ASSUME NEW r \in Reactors, NEW c \in Conns, GiveBack(r, c) \/ Accept(r, c) PROVE Due
    <3>1. st[c] # "read" /\ \E s : st' = [st EXCEPT ![c] = s]
      BY <2>6 DEF GiveBack, ReadWait, WriteWait, Close, Suspend, Running, Accept
    <3> QED BY <3>1 DEF ResumeInv, Types
  <2> QED
    BY <2>1, <2>2, <2>3, <2>4, <2>5, <2>6
    DEF Next, LoopStep, MakeQueue, StoreQueue, TakeTasks, EnterPoll, Poll, PollTimeout,
        DispatchOther, DispatchFirst, DispatchQueue, DispatchEnd, ReadNow, WriteNow,
        DataArrives, SpaceFrees
<1>2. ResumeInv /\ [Next]_vars => [Due]_vars
  BY <1>1
<1> QED BY <1>2, ResumeInvariant, PTL DEF Spec, ResumedWithData

-----------------------------------------------------------------------------
(* The shared queue.                                                       *)

\* While a coroutine is in the shared queue some IO thread is on its way to look at it: the
\* one that pushed it has still to go through the top of its loop, and a loop that leaves
\* the queue has seen it empty (reactor.cc:164).
THEOREM QueueNotStrandedHolds == Spec => []QueueNotStranded
<1> DEFINE Looks(r) == type[r] = "Sub" /\ lpc[r] \in {"dispatch", "top", "pop", "make"}
<1>1. Init => QueueNotStranded
  BY DEF Init, QueueNotStranded
<1>2. ResumeInv /\ QueueNotStranded /\ Next => QueueNotStranded'
  <2> SUFFICES ASSUME ResumeInv, QueueNotStranded, Next, queue' # <<>>
               PROVE  \E r \in Reactors : Looks(r)'
    BY DEF QueueNotStranded
  <2>0. lpc \in [Reactors -> {"top", "pop", "make", "run", "poll", "dispatch"}]
    BY DEF ResumeInv, Types
  <2>1. CASE queue' = queue /\ type' = type /\ \A r \in Reactors : Looks(r) => Looks(r)'
    BY <2>1 DEF QueueNotStranded
  <2>2. ASSUME NEW r \in Reactors, LoopStep(r) \/ PollTimeout(r)
        PROVE  \E q \in Reactors : Looks(q)'
    <3>1. CASE LoopTop(r) \/ MakeQueue(r) \/ DispatchEnd(r) \/ Poll(r) \/ PollTimeout(r)
      BY <2>0, <2>1, <3>1 DEF LoopTop, MakeQueue, DispatchEnd, Poll, PollTimeout, Goto, At,
         shared
    <3>2. CASE StoreQueue(r)
      BY <3>2 DEF StoreQueue
    <3>3. CASE Pop(r)
      BY <3>3 DEF Pop, At
    <3>4. CASE TakeTasks(r)
      <4>1. type[r] = "Main"
        BY <3>4 DEF TakeTasks, shared
      <4> QED BY <2>0, <2>1, <3>4, <4>1 DEF TakeTasks, Goto, At, shared
    <3>5. CASE EnterPoll(r)
      BY <2>0, <2>1, <3>5 DEF EnterPoll, Goto, At, shared
    <3>6. ASSUME NEW c \in Conns, RunTask(r, c) \/ DispatchOther(r, c) \/ DispatchFirst(r, c)
                                  \/ DispatchNow(r, c)
          PROVE  \E q \in Reactors : Looks(q)'
      BY <2>1, <3>6 DEF RunTask, DispatchOther, DispatchFirst, DispatchNow, TakeReport, shared
    <3>7. ASSUME NEW c \in Conns, DispatchQueue(r, c)
          PROVE  \E q \in Reactors : Looks(q)'
      BY <3>7 DEF DispatchQueue, TakeReport, At
    <3> QED BY <2>2, <3>1, <3>2, <3>3, <3>4, <3>5, <3>6, <3>7 DEF LoopStep
  <2>3. ASSUME NEW r \in Reactors, NEW c \in Conns,
               ReadNow(r, c) \/ WriteNow(r, c) \/ GiveBack(r, c) \/ Accept(r, c)
        PROVE  \E q \in Reactors : Looks(q)'
    BY <2>1, <2>3 DEF ReadNow, WriteNow, GiveBack, ReadWait, WriteWait, Close, Accept, loops,
       shared
  <2>4. ASSUME NEW c \in Conns, DataArrives(c) \/ SpaceFrees(c)
        PROVE  \E q \in Reactors : Looks(q)'
    BY <2>1, <2>4 DEF DataArrives, SpaceFrees, loops, shared
  <2> QED BY <2>2, <2>3, <2>4 DEF Next
<1>3. QueueNotStranded /\ UNCHANGED vars => QueueNotStranded'
  BY DEF QueueNotStranded, vars
<1> QED BY <1>1, <1>2, <1>3, ResumeInvariant, PTL DEF Spec

=============================================================================
