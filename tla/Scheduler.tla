------------------------------ MODULE Scheduler ------------------------------
(***************************************************************************)
(* Coroutines waiting for their sockets, on the loops of several threads:  *)
(* read_hook and write_hook (coroutineHook/coroutineHook.cc), the dispatch *)
(* of an event to the coroutine of its FdEvent, fir_cor, and the process-  *)
(* wide CoroutineTaskQueue through which one IO thread hands a ready       *)
(* coroutine to another (net/reactor.cc).                                  *)
(*                                                                         *)
(* One descriptor belongs to one coroutine, and both have one name here.   *)
(* What a thread does between two points where another thread can see it   *)
(* is one step: registrations of a loop are touched by its thread only.    *)
(* The mailbox of a loop is in module Reactor; here only its coroutines    *)
(* (addCoroutine) matter.                                                  *)
(*                                                                         *)
(* Operators named Bug... are mistakes the code might have had, each kept  *)
(* before the definition it would replace.  No specification uses them.    *)
(***************************************************************************)
EXTENDS Naturals, Sequences, FiniteSets, Functions

CONSTANTS
    Reactors,    \* one per thread
    Conns,       \* the coroutines, each with the descriptor it reads and writes
    Nobody       \* a null pointer

ASSUME NobodyAssumption ==
    /\ Nobody \notin Reactors \cup Conns
    /\ \A events \in SUBSET {"IN", "OUT"} : Nobody # events

VARIABLES
    lpc,         \* where the loop of each thread is
    cur,         \* t_cur_coroutine of each thread, Nobody for the main coroutine
    firCor,      \* fir_cor of each loop
    ready,       \* the events of re_events not looked at yet
    tasks,       \* coroutines given to addCoroutine, not taken by the loop yet
    batch,       \* those the loop has taken
    mask,        \* per reactor and descriptor: registered event mask, or Nobody
    queue,       \* CoroutineTaskQueue::m_task
    made,        \* t_coroutine_task_queue is not null
    st,          \* what each coroutine is doing
    owner,       \* m_reactor of each FdEvent
    listen,      \* m_listen_events of each FdEvent
    inbox,       \* what a read of the socket finds: nothing, data, or the end of file
    writable,    \* the socket would take at least one byte
    type         \* m_reactor_type of each reactor

\* History: entries of a queue object that was replaced by another.
VARIABLE lost

loops == <<lpc, cur, firCor, ready, tasks, batch>>
shared == <<queue, made, lost, type>>
socks == <<inbox, writable>>
vars == <<lpc, cur, firCor, ready, tasks, batch, mask, queue, made, st, owner, listen,
          inbox, writable, type, lost>>

Init ==
    /\ lpc = [r \in Reactors |-> "top"]
    /\ cur = [r \in Reactors |-> Nobody]
    /\ firCor = [r \in Reactors |-> Nobody]
    /\ ready = [r \in Reactors |-> {}]
    /\ tasks = [r \in Reactors |-> {}]
    /\ batch = [r \in Reactors |-> {}]
    /\ mask = [r \in Reactors |-> [c \in Conns |-> Nobody]]
    /\ queue = <<>>
    /\ made = FALSE
    /\ st = [c \in Conns |-> "none"]
    /\ owner = [c \in Conns |-> Nobody]
    /\ listen = [c \in Conns |-> {}]
    /\ inbox = [c \in Conns |-> "nothing"]
    /\ writable = [c \in Conns |-> FALSE]
    /\ type \in [Reactors -> {"Main", "Sub"}]
    /\ \A q, r \in Reactors : type[q] = "Main" /\ type[r] = "Main" => q = r
    /\ lost = {}

-----------------------------------------------------------------------------
(* Resuming and suspending.                                                *)

\* The event a suspended coroutine waits for.
Waits(c) == IF st[c] = "read" THEN {"IN"} ELSE IF st[c] = "write" THEN {"OUT"} ELSE {}

\* updateToReactor: the loop registers the events, at once when its own thread asks.
UpdateToReactor(c, reactor, events) ==
    /\ listen' = [listen EXCEPT ![c] = events]
    /\ mask' = [mask EXCEPT ![reactor][c] = events]

AddListenEvents(c, reactor, events) ==
    IF events \subseteq listen[c] THEN UNCHANGED <<listen, mask>>
    ELSE UpdateToReactor(c, reactor, listen[c] \cup events)

DelListenEvents(c, reactor, events) ==
    IF listen[c] \cap events = {} THEN UNCHANGED <<listen, mask>>
    ELSE UpdateToReactor(c, reactor, listen[c] \ events)

\* delEvent, with m_reactor as it is or, after a hand-off, that of this thread r.
UnregisterFromReactor(r, c) ==
    LET reactor == IF owner[c] = Nobody THEN r ELSE owner[c]
    IN  /\ owner' = [owner EXCEPT ![c] = reactor]
        /\ mask' = [mask EXCEPT ![reactor][c] = Nobody]
        /\ listen' = [listen EXCEPT ![c] = {}]

\* Coroutine::Resume on the thread of r, and what the coroutine does before anyone else can
\* see it: coming back from Yield the hook removes its event.  own is m_reactor at that
\* moment, the reactor of the thread that now runs.  A closed coroutine has
\* m_can_resume false and is left alone.
Resume(r, c, own) ==
    IF st[c] = "closed" THEN UNCHANGED <<cur, st, owner, listen, mask>>
    ELSE /\ cur' = [cur EXCEPT ![r] = c]
         /\ st' = [st EXCEPT ![c] = "running"]
         /\ owner' = [owner EXCEPT ![c] = own]
         /\ DelListenEvents(c, own, Waits(c))

\* setReactor, toEpoll and Yield: the descriptor is registered with this thread's loop.
Suspend(r, c, ev, state) ==
    /\ owner' = [owner EXCEPT ![c] = r]
    /\ AddListenEvents(c, r, {ev})
    /\ st' = [st EXCEPT ![c] = state]
    /\ cur' = [cur EXCEPT ![r] = Nobody]

-----------------------------------------------------------------------------
(* The loop of r.  It runs only while its thread is in the main coroutine. *)

At(r, pc) == lpc[r] = pc /\ cur[r] = Nobody
Goto(r, pc) == lpc' = [lpc EXCEPT ![r] = pc]

\* Mistake: fir_cor is kept.
BugLoopTop(r) ==
    /\ At(r, "top")
    /\ Goto(r, "pop")
    /\ IF firCor[r] = Nobody THEN UNCHANGED <<cur, st, owner, listen, mask>>
       ELSE Resume(r, firCor[r], owner[firCor[r]])
    /\ UNCHANGED <<firCor, ready, tasks, batch, shared, socks>>

LoopTop(r) ==
    /\ At(r, "top")
    /\ Goto(r, "pop")
    /\ firCor' = [firCor EXCEPT ![r] = Nobody]
    /\ IF firCor[r] = Nobody THEN UNCHANGED <<cur, st, owner, listen, mask>>
       ELSE Resume(r, firCor[r], owner[firCor[r]])
    /\ UNCHANGED <<ready, tasks, batch, shared, socks>>

\* GetCoroutineTaskQueue finds a null pointer and allocates...
MakeQueue(r) ==
    /\ At(r, "pop")
    /\ type[r] = "Sub"
    /\ ~made
    /\ Goto(r, "make")
    /\ UNCHANGED <<cur, firCor, ready, tasks, batch, mask, shared, st, owner, listen, socks>>

\* ...and stores, over whatever another thread has stored and used in between.
StoreQueue(r) ==
    /\ At(r, "make")
    /\ made' = TRUE
    /\ queue' = <<>>
    /\ lost' = lost \cup Range(queue)
    /\ Goto(r, "pop")
    /\ UNCHANGED <<cur, firCor, ready, tasks, batch, mask, st, owner, listen, type, socks>>

\* Mistake: front() without pop().
BugPop(r) ==
    /\ At(r, "pop")
    /\ type[r] = "Sub"
    /\ made
    /\ queue # <<>>
    /\ Resume(r, Head(queue), r)
    /\ UNCHANGED <<lpc, firCor, ready, tasks, batch, shared, socks>>

Pop(r) ==
    /\ At(r, "pop")
    /\ type[r] = "Sub"
    /\ made
    /\ queue # <<>>
    /\ queue' = Tail(queue)
    /\ Resume(r, Head(queue), r)
    /\ UNCHANGED <<lpc, firCor, ready, tasks, batch, made, lost, type, socks>>

\* Mistake: the loop goes on before the queue is empty.
BugTakeTasks(r) ==
    /\ At(r, "pop")
    /\ type[r] = "Main" \/ made
    /\ batch' = [batch EXCEPT ![r] = tasks[r]]
    /\ tasks' = [tasks EXCEPT ![r] = {}]
    /\ Goto(r, "run")
    /\ UNCHANGED <<cur, firCor, ready, mask, shared, st, owner, listen, socks>>

\* The queue is empty, or this is the main reactor, which does not look: the loop goes on
\* to swap the tasks.
TakeTasks(r) ==
    /\ At(r, "pop")
    /\ type[r] = "Main" \/ (made /\ queue = <<>>)
    /\ batch' = [batch EXCEPT ![r] = tasks[r]]
    /\ tasks' = [tasks EXCEPT ![r] = {}]
    /\ Goto(r, "run")
    /\ UNCHANGED <<cur, firCor, ready, mask, shared, st, owner, listen, socks>>

RunTask(r, c) ==
    /\ At(r, "run")
    /\ c \in batch[r]
    /\ batch' = [batch EXCEPT ![r] = @ \ {c}]
    /\ Resume(r, c, owner[c])
    /\ UNCHANGED <<lpc, firCor, ready, tasks, shared, socks>>

EnterPoll(r) ==
    /\ At(r, "run")
    /\ batch[r] = {}
    /\ Goto(r, "poll")
    /\ UNCHANGED <<cur, firCor, ready, tasks, batch, mask, shared, st, owner, listen, socks>>

Readable(c) == inbox[c] # "nothing"

\* What the kernel reports: a mask of EPOLLIN alone is reported as such ("read"), a mask
\* with EPOLLOUT, on a writable socket, never is ("other").
Reportable(r) ==
    {<<c, "read">> : c \in {x \in Conns : mask[r][x] = {"IN"} /\ Readable(x)}}
      \cup
    {<<c, "other">> : c \in {x \in Conns : /\ mask[r][x] # Nobody
                                          /\ "OUT" \in mask[r][x]
                                          /\ writable[x]}}

\* epoll_wait returns with everything that is ready, fewer than MAX_EVENTS descriptors.
Poll(r) ==
    /\ At(r, "poll")
    /\ Reportable(r) # {} \/ tasks[r] # {}
    /\ ready' = [ready EXCEPT ![r] = Reportable(r)]
    /\ Goto(r, "dispatch")
    /\ UNCHANGED <<cur, firCor, tasks, batch, mask, shared, st, owner, listen, socks>>

\* The ten seconds of epoll_wait have passed.
PollTimeout(r) ==
    /\ At(r, "poll")
    /\ Reportable(r) = {}
    /\ Goto(r, "dispatch")
    /\ UNCHANGED <<cur, firCor, ready, tasks, batch, mask, shared, st, owner, listen, socks>>

TakeReport(r, c, what) ==
    /\ At(r, "dispatch")
    /\ <<c, what>> \in ready[r]
    /\ ready' = [ready EXCEPT ![r] = @ \ {<<c, what>>}]

Unregister(r, c) == mask' = [mask EXCEPT ![r][c] = Nobody]

\* Anything but a plain EPOLLIN: the descriptor is taken out of the loop.
DispatchOther(r, c) ==
    /\ TakeReport(r, c, "other")
    /\ Unregister(r, c)
    /\ UNCHANGED <<lpc, cur, firCor, tasks, batch, shared, st, owner, listen, socks>>

\* The first coroutine of the batch is kept for the top of the loop.
DispatchFirst(r, c) ==
    /\ TakeReport(r, c, "read")
    /\ firCor[r] = Nobody
    /\ firCor' = [firCor EXCEPT ![r] = c]
    /\ UNCHANGED <<lpc, cur, tasks, batch, mask, shared, st, owner, listen, socks>>

\* Mistake: the descriptor stays registered.
BugDispatchQueue(r, c) ==
    /\ type[r] = "Sub"
    /\ TakeReport(r, c, "read")
    /\ firCor[r] # Nobody
    /\ owner' = [owner EXCEPT ![c] = Nobody]
    /\ queue' = Append(queue, c)
    /\ UNCHANGED <<lpc, cur, firCor, tasks, batch, mask, made, lost, type, st, listen, socks>>

\* On an IO thread the others go to the queue, for whichever thread pops them.
DispatchQueue(r, c) ==
    /\ type[r] = "Sub"
    /\ TakeReport(r, c, "read")
    /\ firCor[r] # Nobody
    /\ Unregister(r, c)
    /\ owner' = [owner EXCEPT ![c] = Nobody]
    /\ queue' = Append(queue, c)
    /\ UNCHANGED <<lpc, cur, firCor, tasks, batch, made, lost, type, st, listen, socks>>

\* On the main thread they are resumed at once, and fir_cor is forgotten.
DispatchNow(r, c) ==
    /\ type[r] = "Main"
    /\ TakeReport(r, c, "read")
    /\ firCor[r] # Nobody
    /\ firCor' = [firCor EXCEPT ![r] = Nobody]
    /\ Resume(r, c, owner[c])
    /\ UNCHANGED <<lpc, tasks, batch, shared, socks>>

DispatchEnd(r) ==
    /\ At(r, "dispatch")
    /\ ready[r] = {}
    /\ Goto(r, "top")
    /\ UNCHANGED <<cur, firCor, ready, tasks, batch, mask, shared, st, owner, listen, socks>>

-----------------------------------------------------------------------------
(* The coroutine c, on the thread that runs it.                            *)

Running(r, c) == cur[r] = c /\ st[c] = "running"

\* The first system call of the hook gives data: the hook returns without a switch.
ReadNow(r, c) ==
    /\ Running(r, c)
    /\ inbox[c] = "data"
    /\ \E more \in {"nothing", "data"} : inbox' = [inbox EXCEPT ![c] = more]
    /\ owner' = [owner EXCEPT ![c] = r]
    /\ UNCHANGED <<loops, mask, shared, st, listen, writable>>

\* A first read that gives nothing waits, at the end of the file too.
ReadWait(r, c) ==
    /\ Running(r, c)
    /\ inbox[c] # "data"
    /\ Suspend(r, c, "IN", "read")
    /\ UNCHANGED <<lpc, firCor, ready, tasks, batch, shared, socks>>

WriteNow(r, c) ==
    /\ Running(r, c)
    /\ writable[c]
    /\ \E more \in BOOLEAN : writable' = [writable EXCEPT ![c] = more]
    /\ owner' = [owner EXCEPT ![c] = r]
    /\ UNCHANGED <<loops, mask, shared, st, listen, inbox>>

WriteWait(r, c) ==
    /\ Running(r, c)
    /\ ~writable[c]
    /\ Suspend(r, c, "OUT", "write")
    /\ UNCHANGED <<lpc, firCor, ready, tasks, batch, shared, socks>>

\* clearClient, then setCanResume(false) and Yield, at the end of the connection.
Close(r, c) ==
    /\ Running(r, c)
    /\ UnregisterFromReactor(r, c)
    /\ st' = [st EXCEPT ![c] = "closed"]
    /\ cur' = [cur EXCEPT ![r] = Nobody]
    /\ UNCHANGED <<lpc, firCor, ready, tasks, batch, shared, socks>>

-----------------------------------------------------------------------------
(* The rest of the process and the network.                                *)

\* The acceptor builds a connection and gives its coroutine to a loop (initServer).
Accept(r, c) ==
    /\ st[c] = "none"
    /\ st' = [st EXCEPT ![c] = "new"]
    /\ owner' = [owner EXCEPT ![c] = r]
    /\ tasks' = [tasks EXCEPT ![r] = @ \cup {c}]
    /\ UNCHANGED <<lpc, cur, firCor, ready, batch, mask, shared, listen, socks>>

\* Data, or the end of the stream once the data before it has been read.
DataArrives(c) ==
    /\ st[c] \notin {"none", "closed"}
    /\ inbox[c] = "nothing"
    /\ \E what \in {"data", "end"} : inbox' = [inbox EXCEPT ![c] = what]
    /\ UNCHANGED <<loops, mask, shared, st, owner, listen, writable>>

SpaceFrees(c) ==
    /\ st[c] \notin {"none", "closed"}
    /\ writable' = [writable EXCEPT ![c] = TRUE]
    /\ UNCHANGED <<loops, mask, shared, st, owner, listen, inbox>>

LoopStep(r) ==
    \/ LoopTop(r) \/ MakeQueue(r) \/ StoreQueue(r) \/ Pop(r) \/ TakeTasks(r)
    \/ \E c \in Conns : RunTask(r, c)
    \/ EnterPoll(r) \/ Poll(r)
    \/ \E c \in Conns : \/ DispatchOther(r, c) \/ DispatchFirst(r, c)
                        \/ DispatchQueue(r, c) \/ DispatchNow(r, c)
    \/ DispatchEnd(r)

\* The steps by which a coroutine gives its thread back.
GiveBack(r, c) == ReadWait(r, c) \/ WriteWait(r, c) \/ Close(r, c)

Next ==
    \/ \E r \in Reactors : LoopStep(r) \/ PollTimeout(r)
    \/ \E r \in Reactors, c \in Conns :
          ReadNow(r, c) \/ WriteNow(r, c) \/ GiveBack(r, c) \/ Accept(r, c)
    \/ \E c \in Conns : DataArrives(c) \/ SpaceFrees(c)

Spec == Init /\ [][Next]_vars

\* Every thread that can run is run, and a coroutine does not keep its thread for ever.
\* Nothing is assumed of the network or of the timeout of epoll_wait.
Fairness ==
    /\ \A r \in Reactors : WF_vars(LoopStep(r))
    /\ \A r \in Reactors, c \in Conns : WF_vars(GiveBack(r, c))

FairSpec == Spec /\ Fairness

-----------------------------------------------------------------------------
(* Properties.                                                             *)

\* The promises to resume c that some thread still holds.
Pending(c) ==
    {<<"fir", r>> : r \in {x \in Reactors : firCor[x] = c}}
      \cup {<<"task", r>> : r \in {x \in Reactors : c \in tasks[x]}}
      \cup {<<"batch", r>> : r \in {x \in Reactors : c \in batch[x]}}
      \cup {<<"queue", i>> : i \in {x \in 1..Len(queue) : queue[x] = c}}

\* A coroutine runs on at most one thread, and while it runs nobody holds a promise to
\* resume it; a suspended one is promised at most one resume.  A second resume would enter
\* one stack from two threads.  It rests on DispatchQueue unregistering before the push.
OneResume ==
    \A c \in Conns :
        LET on == {r \in Reactors : cur[r] = c}
        IN  Cardinality(on) + Cardinality(Pending(c)) <= 1

\* A descriptor is registered with at most one loop, and that is the m_reactor its FdEvent
\* has: delListenEvents after a hand-off acts on the loop of the thread it runs on.
OneHome ==
    \A c \in Conns : \A r \in Reactors :
        mask[r][c] # Nobody => /\ owner[c] = r
                               /\ \A q \in Reactors \ {r} : mask[q][c] = Nobody

\* A coroutine waiting to read is resumed only with something to read.  input() takes a
\* failing second read for the end of the connection (tcpConnection.cc:110) and closes it.
ResumedWithData ==
    [][\A c \in Conns : st[c] = "read" /\ st'[c] # "read" => Readable(c)]_vars

\* A coroutine in the shared queue is never left behind: push() wakes nobody, so some IO
\* thread is between its dispatch and its next look at the queue.
QueueNotStranded ==
    queue # <<>> =>
        \E r \in Reactors :
            type[r] = "Sub" /\ lpc[r] \in {"dispatch", "top", "pop", "make"}

\* A coroutine waiting to read on a readable socket is resumed, without the help of the
\* ten-second timeout, though it may be handed from one IO thread to another; unless it was
\* in a task queue that a second thread replaced (reactor.cc:364), or waits on the main
\* reactor, which may forget fir_cor in every round (reactor.cc:221).
ReadersResumed ==
    \A c \in Conns :
        st[c] = "read" /\ Readable(c) ~>
            \/ st[c] # "read"
            \/ c \in lost
            \/ \E r \in Reactors : type[r] = "Main" /\ r = owner[c]

\* What write_hook announces, "write func yield back, now to call sys write"
\* (coroutineHook.cc:167): a coroutine waiting to write comes back once its socket is
\* writable.
WritersResumed ==
    \A c \in Conns : (st[c] = "write" /\ writable[c]) ~> st[c] # "write"

=============================================================================
