------------------------------- MODULE Reactor -------------------------------
(***************************************************************************)
(* The event loop of one thread (net/reactor.cc): the mailbox other        *)
(* threads fill (tasks, descriptors to add, descriptors to delete), the    *)
(* eventfd that is meant to get the loop out of epoll_wait, the dispatch   *)
(* of the reported events, and stop().                                     *)
(*                                                                         *)
(* The mutex m_mutex only guards the three containers, so every critical   *)
(* section is one step.  m_stop_flag and m_is_looping are plain bools read *)
(* and written without it: each access is a step of its own.               *)
(*                                                                         *)
(* The descriptors here have an FdEvent without a coroutine; events of a   *)
(* suspended coroutine are the subject of module Scheduler.                *)
(*                                                                         *)
(* Operators named Bug... are mistakes the code might have had, each kept  *)
(* before the definition it would replace.  No specification uses them.    *)
(***************************************************************************)
EXTENDS Naturals, Sequences, FiniteSets, Functions

CONSTANTS
    Clients,     \* the threads that call the reactor from outside its loop
    Tasks,       \* the closures handed to addTask, each submitted once
    Fds,         \* the descriptors that may be registered
    TimerFd,     \* m_timer_fd: its read callback is run inside the dispatch
    Masks,       \* the event masks callers ask for, sets of EPOLLIN and EPOLLOUT
    None,        \* no mask: the descriptor is not there
    MaxDel,      \* bound on the length of m_pending_del_fds
    MaxVector,   \* bound on the length of a vector given to addTask
    MaxEvents    \* size of re_events (MAX_EVENTS, 10 in the code)

ASSUME TimerAssumption == TimerFd \in Fds
ASSUME MaskAssumption == Masks \subseteq SUBSET {"IN", "OUT"} /\ None \notin Masks
ASSUME BoundAssumption == MaxDel \in Nat /\ MaxVector \in Nat /\ MaxEvents \in Nat \ {0}
ASSUME DisjointAssumption == Tasks \cap Fds = {}

VARIABLES
    looping,     \* m_is_looping
    stopFlag,    \* m_stop_flag
    tasks,       \* m_pending_tasks; a descriptor stands for its read callback
    adds,        \* m_pending_add_fds, None where the map has no entry
    dels,        \* m_pending_del_fds
    wakeFd,      \* the eventfd counter is not zero
    reg,         \* m_fds and the kernel's interest list: fd -> event mask
    lpc,         \* where the loop thread is
    batch,       \* tmp_tasks, what is left of it
    ready,       \* the events of re_events not looked at yet
    wakeReady,   \* re_events still holds the one of m_wake_fd
    cpc          \* where each client is

\* History, read by the properties only.
VARIABLES
    accepted,    \* tasks submitted one by one, in the order they were queued
    vectored,    \* tasks submitted in a vector
    ran,         \* tasks started, in order
    swept,       \* the running loop() has emptied adds and dels at least once
    asked,       \* descriptors about which a call came from outside since the last sweep
    word         \* what the call that counts has said of each descriptor

mail == <<tasks, adds, dels>>
flags == <<looping, stopFlag, wakeFd>>
local == <<reg, batch, ready, wakeReady>>
hist == <<accepted, vectored, ran, swept, asked, word>>
vars == <<looping, stopFlag, tasks, adds, dels, wakeFd, reg, lpc, batch, ready,
          wakeReady, cpc, accepted, vectored, ran, swept, asked, word>>

\* What epoll_wait says of a descriptor: EPOLLIN without EPOLLOUT, or anything else.
Reports == {"read", "other"}

UserCode == {"task", "timercb"}       \* the loop thread is inside a callback

Submitted == Range(accepted) \cup vectored

Init ==
    /\ looping = FALSE
    /\ stopFlag = FALSE
    /\ tasks = <<>>
    /\ adds = [fd \in Fds |-> None]
    /\ dels = <<>>
    /\ wakeFd = FALSE
    /\ reg = [fd \in Fds |-> None]
    /\ lpc = "idle"
    /\ batch = <<>>
    /\ ready = {}
    /\ wakeReady = FALSE
    /\ cpc = [c \in Clients |-> "idle"]
    /\ accepted = <<>>
    /\ vectored = {}
    /\ ran = <<>>
    /\ swept = FALSE
    /\ asked = {}
    /\ word = [fd \in Fds |-> None]

-----------------------------------------------------------------------------
(* The mailbox operations, shared by the callers on either side.           *)

Fresh(t) == t \notin Submitted

\* Mistake: the task goes in front.
BugPushTask(t) ==
    /\ Fresh(t)
    /\ tasks' = <<t>> \o tasks
    /\ accepted' = Append(accepted, t)

PushTask(t) ==
    /\ Fresh(t)
    /\ tasks' = Append(tasks, t)
    /\ accepted' = Append(accepted, t)

\* std::vector::insert(begin(), ...): the vector goes in front.
Vectors == UNION {[1..n -> Tasks] : n \in 0..MaxVector}

PushTasks(v) ==
    /\ Cardinality(Range(v)) = Len(v)
    /\ \A t \in Range(v) : Fresh(t)
    /\ tasks' = v \o tasks
    /\ vectored' = vectored \cup Range(v)

\* History: a call about fd counts unless another, from outside, is still queued.  Of those
\* only a deletion takes the word from the one that has it.
Counts(fd, m) == word' = [word EXCEPT ![fd] = IF fd \in asked THEN @ ELSE m]

-----------------------------------------------------------------------------
(* Calls from other threads: the container is filled under the lock, then  *)
(* wakeup() reads m_is_looping and writes the eventfd, without it.         *)

ToWakeup(c) ==
    /\ cpc[c] = "idle"
    /\ cpc' = [cpc EXCEPT ![c] = "wake"]

\* Mistake: no wakeup().
BugAddTask(c, t) ==
    /\ cpc[c] = "idle"
    /\ PushTask(t)
    /\ UNCHANGED <<flags, adds, dels, lpc, local, cpc, vectored, ran, swept, asked, word>>

AddTask(c, t) ==
    /\ ToWakeup(c)
    /\ PushTask(t)
    /\ UNCHANGED <<flags, adds, dels, lpc, local, vectored, ran, swept, asked, word>>

AddTasks(c, v) ==
    /\ ToWakeup(c)
    /\ PushTasks(v)
    /\ UNCHANGED <<flags, adds, dels, lpc, local, accepted, ran, swept, asked, word>>

\* std::map::insert leaves an entry that is already there as it is.
AddEvent(c, fd, e) ==
    /\ ToWakeup(c)
    /\ adds' = [adds EXCEPT ![fd] = IF @ = None THEN e ELSE @]
    /\ Counts(fd, e)
    /\ asked' = asked \cup {fd}
    /\ UNCHANGED <<flags, tasks, dels, lpc, local, accepted, vectored, ran, swept>>

DelEvent(c, fd) ==
    /\ ToWakeup(c)
    /\ Len(dels) < MaxDel
    /\ dels' = Append(dels, fd)
    /\ word' = [word EXCEPT ![fd] = None]
    /\ asked' = asked \cup {fd}
    /\ UNCHANGED <<flags, tasks, adds, lpc, local, accepted, vectored, ran, swept>>

WakeCheck(c) ==
    /\ cpc[c] = "wake"
    /\ cpc' = [cpc EXCEPT ![c] = IF looping THEN "write" ELSE "idle"]
    /\ UNCHANGED <<flags, mail, lpc, local, hist>>

\* Mistake: the write to the eventfd fails unnoticed.
BugWakeWrite(c) ==
    /\ cpc[c] = "write"
    /\ cpc' = [cpc EXCEPT ![c] = "idle"]
    /\ UNCHANGED <<flags, mail, lpc, local, hist>>

WakeWrite(c) ==
    /\ cpc[c] = "write"
    /\ wakeFd' = TRUE
    /\ cpc' = [cpc EXCEPT ![c] = "idle"]
    /\ UNCHANGED <<looping, stopFlag, mail, lpc, local, hist>>

\* stop() does nothing unless it finds the loop not stopped...
StopCheck(c) ==
    /\ cpc[c] = "idle"
    /\ ~stopFlag
    /\ cpc' = [cpc EXCEPT ![c] = "check"]
    /\ UNCHANGED <<flags, mail, lpc, local, hist>>

\* ...and running: the second plain variable is read after the first.
StopCheckLooping(c) ==
    /\ cpc[c] = "check"
    /\ cpc' = [cpc EXCEPT ![c] = IF looping THEN "stop" ELSE "idle"]
    /\ UNCHANGED <<flags, mail, lpc, local, hist>>

\* Mistake: the flag without wakeup().
BugStopSet(c) ==
    /\ cpc[c] = "stop"
    /\ stopFlag' = TRUE
    /\ cpc' = [cpc EXCEPT ![c] = "idle"]
    /\ UNCHANGED <<looping, wakeFd, mail, lpc, local, hist>>

StopSet(c) ==
    /\ cpc[c] = "stop"
    /\ stopFlag' = TRUE
    /\ cpc' = [cpc EXCEPT ![c] = "wake"]
    /\ UNCHANGED <<looping, wakeFd, mail, lpc, local, hist>>

-----------------------------------------------------------------------------
(* The loop.                                                               *)

LoopEnter ==
    /\ lpc = "idle"
    /\ looping' = TRUE
    /\ lpc' = "enter"
    /\ swept' = FALSE
    /\ UNCHANGED <<stopFlag, wakeFd, mail, local, cpc, accepted, vectored, ran, asked, word>>

LoopReset ==
    /\ lpc = "enter"
    /\ stopFlag' = FALSE
    /\ lpc' = "top"
    /\ UNCHANGED <<looping, wakeFd, mail, local, cpc, hist>>

LoopTop ==
    /\ lpc = "top"
    /\ lpc' = IF stopFlag THEN "exit" ELSE "take"
    /\ UNCHANGED <<flags, mail, local, cpc, hist>>

LoopExit ==
    /\ lpc = "exit"
    /\ looping' = FALSE
    /\ lpc' = "idle"
    /\ UNCHANGED <<stopFlag, wakeFd, mail, local, cpc, hist>>

\* Mistake: the tasks are copied, not swapped.
BugTakeTasks ==
    /\ lpc = "take"
    /\ batch' = tasks
    /\ lpc' = "run"
    /\ UNCHANGED <<flags, mail, reg, ready, wakeReady, cpc, hist>>

TakeTasks ==
    /\ lpc = "take"
    /\ batch' = tasks
    /\ tasks' = <<>>
    /\ lpc' = "run"
    /\ UNCHANGED <<flags, adds, dels, reg, ready, wakeReady, cpc, hist>>

RunTask ==
    /\ lpc = "run"
    /\ batch # <<>>
    /\ batch' = Tail(batch)
    /\ ran' = IF Head(batch) \in Tasks THEN Append(ran, Head(batch)) ELSE ran
    /\ lpc' = "task"
    /\ UNCHANGED <<flags, mail, reg, ready, wakeReady, cpc, accepted, vectored, swept,
                   asked, word>>

EnterPoll ==
    /\ lpc = "run"
    /\ batch = <<>>
    /\ lpc' = "poll"
    /\ UNCHANGED <<flags, mail, local, cpc, hist>>

\* The reports the kernel may give for what is registered; the timer's only reads.
CanReport(fd, r) ==
    /\ reg[fd] # None
    /\ r = "read" => "IN" \in reg[fd]
    /\ r = "other" => fd # TimerFd

\* epoll_wait returns some of the descriptors that are ready, at most MaxEvents; the
\* eventfd is level-triggered too, and is left out only of a full batch.
EpollReturn(rep) ==
    /\ lpc = "poll"
    /\ \A fd \in DOMAIN rep : CanReport(fd, rep[fd])
    /\ Cardinality(DOMAIN rep) <= MaxEvents
    /\ ready' = {<<fd, rep[fd]>> : fd \in DOMAIN rep}
    /\ wakeReady' = (wakeFd /\ Cardinality(DOMAIN rep) < MaxEvents)
    /\ ready' # {} \/ wakeReady'
    /\ lpc' = "dispatch"
    /\ UNCHANGED <<flags, mail, reg, batch, cpc, hist>>

\* t_max_epoll_timeout has passed, or a signal: rt <= 0.
EpollTimeout ==
    /\ lpc = "poll"
    /\ ~wakeFd
    /\ lpc' = "dispatch"
    /\ UNCHANGED <<flags, mail, local, cpc, hist>>

DrainWake ==
    /\ lpc = "dispatch"
    /\ wakeReady
    /\ wakeFd' = FALSE
    /\ wakeReady' = FALSE
    /\ UNCHANGED <<looping, stopFlag, mail, lpc, reg, batch, ready, cpc, hist>>

\* Any report but a plain EPOLLIN, so every EPOLLOUT, unregisters the descriptor.
DispatchOther(fd) ==
    /\ lpc = "dispatch"
    /\ <<fd, "other">> \in ready
    /\ reg' = [reg EXCEPT ![fd] = None]
    /\ Counts(fd, None)
    /\ ready' = ready \ {<<fd, "other">>}
    /\ UNCHANGED <<flags, mail, lpc, batch, wakeReady, cpc, accepted, vectored, ran, swept,
                   asked>>

DispatchTimer ==
    /\ lpc = "dispatch"
    /\ <<TimerFd, "read">> \in ready
    /\ ready' = ready \ {<<TimerFd, "read">>}
    /\ lpc' = "timercb"
    /\ UNCHANGED <<flags, mail, reg, batch, wakeReady, cpc, hist>>

\* The read callback is queued, to run in the next round.
DispatchRead(fd) ==
    /\ lpc = "dispatch"
    /\ fd # TimerFd
    /\ <<fd, "read">> \in ready
    /\ tasks' = Append(tasks, fd)
    /\ ready' = ready \ {<<fd, "read">>}
    /\ UNCHANGED <<flags, adds, dels, lpc, reg, batch, wakeReady, cpc, hist>>

\* Mistake: the dels before the adds.
BugSweepFds ==
    /\ lpc = "dispatch"
    /\ ready = {}
    /\ ~wakeReady
    /\ reg' = [fd \in Fds |->
                 IF adds[fd] # None THEN adds[fd]
                 ELSE IF fd \in Range(dels) THEN None ELSE reg[fd]]
    /\ adds' = [fd \in Fds |-> None]
    /\ dels' = <<>>
    /\ swept' = TRUE
    /\ asked' = {}
    /\ lpc' = "top"
    /\ UNCHANGED <<flags, tasks, batch, ready, wakeReady, cpc, accepted, vectored, ran,
                   word>>

\* Both containers are swapped under one lock; all the adds are applied, then all the
\* dels.  An add of a registered descriptor replaces its mask (EPOLL_CTL_MOD).
SweepFds ==
    /\ lpc = "dispatch"
    /\ ready = {}
    /\ ~wakeReady
    /\ reg' = [fd \in Fds |->
                 IF fd \in Range(dels) THEN None
                 ELSE IF adds[fd] # None THEN adds[fd] ELSE reg[fd]]
    /\ adds' = [fd \in Fds |-> None]
    /\ dels' = <<>>
    /\ swept' = TRUE
    /\ asked' = {}
    /\ lpc' = "top"
    /\ UNCHANGED <<flags, tasks, batch, ready, wakeReady, cpc, accepted, vectored, ran,
                   word>>

-----------------------------------------------------------------------------
(* Calls made by a callback on the loop thread.  addEvent and delEvent act *)
(* at once there; the wakeup() of the others finds m_is_looping set.       *)

LoopAddTask(t) ==
    /\ lpc \in UserCode
    /\ PushTask(t)
    /\ wakeFd' = TRUE
    /\ UNCHANGED <<looping, stopFlag, adds, dels, lpc, local, cpc, vectored, ran, swept,
                   asked, word>>

LoopAddTasks(v) ==
    /\ lpc \in UserCode
    /\ PushTasks(v)
    /\ wakeFd' = TRUE
    /\ UNCHANGED <<looping, stopFlag, adds, dels, lpc, local, cpc, accepted, ran, swept,
                   asked, word>>

LoopAddEvent(fd, e) ==
    /\ lpc \in UserCode
    /\ reg' = [reg EXCEPT ![fd] = e]
    /\ Counts(fd, e)
    /\ UNCHANGED <<flags, mail, lpc, batch, ready, wakeReady, cpc, accepted, vectored, ran,
                   swept, asked>>

LoopDelEvent(fd) ==
    /\ lpc \in UserCode
    /\ reg' = [reg EXCEPT ![fd] = None]
    /\ Counts(fd, None)
    /\ UNCHANGED <<flags, mail, lpc, batch, ready, wakeReady, cpc, accepted, vectored, ran,
                   swept, asked>>

LoopStop ==
    /\ lpc \in UserCode
    /\ ~stopFlag
    /\ stopFlag' = TRUE
    /\ wakeFd' = TRUE
    /\ UNCHANGED <<looping, mail, lpc, local, cpc, hist>>

UserReturn ==
    /\ lpc \in UserCode
    /\ lpc' = IF lpc = "task" THEN "run" ELSE "dispatch"
    /\ UNCHANGED <<flags, mail, local, cpc, hist>>

-----------------------------------------------------------------------------

ClientCall(c) ==
    \/ \E t \in Tasks : AddTask(c, t)
    \/ \E v \in Vectors : AddTasks(c, v)
    \/ \E fd \in Fds, e \in Masks : AddEvent(c, fd, e)
    \/ \E fd \in Fds : DelEvent(c, fd)
    \/ StopCheck(c)

\* The rest of a call that has begun.
ClientStep(c) == WakeCheck(c) \/ WakeWrite(c) \/ StopCheckLooping(c) \/ StopSet(c)

\* One round of epoll_wait: SUBSET gives every choice of descriptors to report.
Poll == \E S \in SUBSET Fds : \E rep \in [S -> Reports] : EpollReturn(rep)

\* What the loop thread does by itself once it is in loop().
LoopStep ==
    \/ LoopReset \/ LoopTop \/ LoopExit \/ TakeTasks \/ RunTask \/ EnterPoll
    \/ DrainWake
    \/ \E fd \in Fds : DispatchOther(fd)
    \/ DispatchTimer
    \/ \E fd \in Fds : DispatchRead(fd)
    \/ SweepFds
    \/ UserReturn

UserCall ==
    \/ \E t \in Tasks : LoopAddTask(t)
    \/ \E v \in Vectors : LoopAddTasks(v)
    \/ \E fd \in Fds, e \in Masks : LoopAddEvent(fd, e)
    \/ \E fd \in Fds : LoopDelEvent(fd)
    \/ LoopStop

Next ==
    \/ LoopEnter
    \/ LoopStep
    \/ Poll
    \/ EpollTimeout
    \/ UserCall
    \/ \E c \in Clients : ClientCall(c) \/ ClientStep(c)

Spec == Init /\ [][Next]_vars

\* The operating system runs every thread that can run, and callbacks return.  Nothing
\* is assumed of the network or of EpollTimeout: epoll_wait must return only when the
\* eventfd is readable, so what is live here never waits for the ten seconds to pass.
Fairness ==
    /\ WF_vars(LoopStep \/ (wakeFd /\ Poll))
    /\ \A c \in Clients : WF_vars(ClientStep(c))

FairSpec == Spec /\ Fairness

-----------------------------------------------------------------------------
(* Properties.                                                             *)

TypeOK ==
    /\ looping \in BOOLEAN
    /\ stopFlag \in BOOLEAN
    /\ tasks \in Seq(Tasks \cup Fds)
    /\ adds \in [Fds -> Masks \cup {None}]
    /\ dels \in Seq(Fds)
    /\ wakeFd \in BOOLEAN
    /\ reg \in [Fds -> Masks \cup {None}]
    /\ lpc \in {"idle", "enter", "top", "take", "run", "poll", "dispatch", "exit"}
               \cup UserCode
    /\ batch \in Seq(Tasks \cup Fds)
    /\ ready \subseteq Fds \X Reports
    /\ wakeReady \in BOOLEAN
    /\ cpc \in [Clients -> {"idle", "wake", "write", "check", "stop"}]
    /\ accepted \in Seq(Tasks)
    /\ vectored \subseteq Tasks
    /\ ran \in Seq(Tasks)
    /\ swept \in BOOLEAN
    /\ asked \subseteq Fds
    /\ word \in [Fds -> Masks \cup {None}]

FdsPending == dels # <<>> \/ \E fd \in Fds : adds[fd] # None

\* A client whose call has not yet got past wakeup().
Waking == \E c \in Clients : cpc[c] \in {"wake", "write"}

\* The loop never sleeps in epoll_wait on work it was given: when it is there and a
\* task, a descriptor request or a stop is waiting for it, the eventfd is readable or
\* the caller is still on its way to write it.  wakeup() (reactor.cc:132) skips the
\* write when m_is_looping is false, the flag and the containers have no common lock,
\* and the loop drains the eventfd between the two swaps.  Descriptor requests queued
\* before loop() began are exempt until the first sweep: nobody wakes the loop for them.
NoLostWakeup ==
    lpc = "poll" /\ (tasks # <<>> \/ stopFlag \/ (swept /\ FdsPending))
        => wakeFd \/ Waking

\* Why: the inductive form of NoLostWakeup.  From the swap of the tasks to epoll_wait a
\* queued task has its wake-up, from the sweep to epoll_wait a queued request has, and
\* from the check of the flag to epoll_wait a stop has; looping says where wakeup()
\* would not write at all.
WakeInv ==
    /\ looping <=> lpc # "idle"
    /\ lpc = "enter" => ~swept
    /\ lpc \in {"run", "task", "poll"} /\ tasks # <<>> => wakeFd \/ Waking
    /\ lpc \in {"top", "take", "run", "task", "poll"} /\ swept /\ FdsPending
         => wakeFd \/ Waking
    /\ lpc \in {"take", "run", "task", "poll"} /\ stopFlag => wakeFd \/ Waking

\* Every submitted task is in exactly one place, and is run at most once, whatever calls
\* of addTask, of its vector overload and of the loop's swap (reactor.cc:174) overlap.
TasksExactlyOnce ==
    LET whole == ran \o batch \o tasks
    IN  \A t \in Tasks :
            Cardinality({i \in 1..Len(whole) : whole[i] = t}) =
                IF t \in Submitted THEN 1 ELSE 0

\* Tasks queued one at a time start in the order in which they were queued, although
\* vectors cut in at the front (reactor.cc:118) and the loop takes them in batches.
TasksInOrder ==
    LET whole == ran \o batch \o tasks
    IN  \A i, j \in 1..Len(whole) : \A k, l \in 1..Len(accepted) :
            i < j /\ whole[i] = accepted[k] /\ whole[j] = accepted[l] => k < l

\* Each descriptor is registered as the call that counts has asked, whatever thread made it
\* and however the calls fell between the sweeps: with nothing queued it is the last one;
\* of the calls swept together a deletion, or else the first addition, and what the loop
\* thread did in the meantime, by itself or for a callback, is undone.  So a deletion is
\* never reversed by what was asked before it, and an addition is lost to a deletion of the
\* same round only: the map that keeps its first entry and the order of the two loops at
\* reactor.cc:264-271.
RegisteredAsAsked == \A fd \in Fds \ asked : reg[fd] = word[fd]

\* Seen from those who hand in tasks, the reactor is the mailbox of module Mailbox: the
\* two queues, the swap and the wake-up are hidden, a task counts when its call has
\* queued it (reactor.cc:109, reactor.cc:118) and again when the loop starts it.
Box == INSTANCE Mailbox WITH started <- ran
IsMailbox == Box!Spec

\* A task that waits while the loop runs is started, or the loop ends, without the
\* help of the ten-second timeout of epoll_wait.
TasksAreServed ==
    \A t \in Tasks :
        t \in Range(tasks) /\ lpc # "idle" ~> t \in Range(ran) \/ lpc = "idle"

\* A stop() that sets the flag once the loop is past its prologue ends the loop.
StopEnds == stopFlag /\ lpc \notin {"idle", "enter"} ~> lpc = "idle"

=============================================================================
