-------------------------------- MODULE Server --------------------------------
(***************************************************************************)
(* The life of the accepted connections: TcpServer (tcp/tcpServer.cc), the *)
(* coroutine of each TcpConnection (tcp/tcpConnection.cc) on the IO        *)
(* threads, and the TimeWheel (timeWheel/timeWheel.cc) that closes idle    *)
(* ones.  Accepting, refreshing, expiring and clearing all happen on the   *)
(* main thread, one after the other; the coroutines run beside it.  They   *)
(* meet in m_state, in the descriptor number, which the kernel gives out   *)
(* again as soon as it is closed, and in the reference counts.             *)
(*                                                                         *)
(* What a coroutine reads and writes is abstracted: a read gives data or   *)
(* fails, an answer is written or blocks.  A connection name stands for    *)
(* one TcpConnection object, with its socket and its coroutine.            *)
(*                                                                         *)
(* Operators named Bug... are mistakes the code might have had, each kept  *)
(* before the definition it would replace.  No specification uses them.    *)
(***************************************************************************)
EXTENDS Naturals, Sequences, FiniteSets, Functions

CONSTANTS
    Conns,       \* the TcpConnection objects, each accepted at most once
    Fds,         \* descriptor numbers
    Buckets,     \* m_bucket_count, 10 in the code
    MaxTasks,    \* bound on the refresh tasks waiting for the main reactor
    None         \* no connection, no descriptor

ASSUME BucketAssumption == Buckets \in Nat \ {0} /\ MaxTasks \in Nat
ASSUME NoneAssumption == None \notin Conns \cup Fds

VARIABLES
    sock,        \* the open sockets by number: whose it is, or None
    fdOf,        \* m_fd of each connection
    client,      \* m_clients: by number, or None
    state,       \* m_state; "none" before the constructor
    freed,       \* the object has been destroyed
    ended,       \* a read of its socket gives no more data
    pc,          \* where the coroutine is
    wheel,       \* m_wheel: the connections with a slot in each bucket, front first
    mtasks,      \* the refresh tasks waiting in the main reactor, oldest first
    mpc,         \* where the main thread is
    mcur,        \* the connection it is shutting down, or None
    expiring,    \* what is left of the bucket being destroyed
    entries      \* the numbers ClearClientTimerFunc still has to look at

\* History: how often the wheel has turned since the connection was last put into it.
VARIABLE age

vars == <<sock, fdOf, client, state, freed, ended, pc, wheel, mtasks, mpc, mcur, expiring,
          entries, age>>
main == <<mpc, mcur, expiring, entries>>
conns == <<sock, fdOf, client, state, freed, ended, pc>>
timing == <<wheel, mtasks, age>>

Init ==
    /\ sock = [fd \in Fds |-> None]
    /\ fdOf = [k \in Conns |-> None]
    /\ client = [fd \in Fds |-> None]
    /\ state = [k \in Conns |-> "none"]
    /\ freed = [k \in Conns |-> FALSE]
    /\ ended = [k \in Conns |-> FALSE]
    /\ pc = [k \in Conns |-> "none"]
    /\ wheel = [b \in 1..Buckets |-> {}]
    /\ mtasks = <<>>
    /\ mpc = "loop"
    /\ mcur = None
    /\ expiring = {}
    /\ entries = {}
    /\ age = [k \in Conns |-> 0]

-----------------------------------------------------------------------------
(* The main thread: the acceptor and the table of connections.             *)

\* Mistake: on a thread of its own.
BugAccept(k, fd) ==
    /\ state[k] = "none"
    /\ sock[fd] = None
    /\ Len(mtasks) < MaxTasks
    /\ sock' = [sock EXCEPT ![fd] = k]
    /\ fdOf' = [fdOf EXCEPT ![k] = fd]
    /\ client' = [client EXCEPT ![fd] = k]
    /\ freed' = [j \in Conns |-> freed[j] \/ j = client[fd]]
    /\ state' = [state EXCEPT ![k] = "Connected"]
    /\ mtasks' = Append(mtasks, k)
    /\ pc' = [pc EXCEPT ![k] = "queued"]
    /\ UNCHANGED <<ended, wheel, main, age>>

\* The number of the new socket is free; a connection the table still holds under it is
\* destroyed (addClient).  Then initServer: a slot for the wheel, by way of a task, and the
\* coroutine, handed to its IO thread.
Accept(k, fd) ==
    /\ mpc = "loop"
    /\ state[k] = "none"
    /\ sock[fd] = None
    /\ Len(mtasks) < MaxTasks
    /\ sock' = [sock EXCEPT ![fd] = k]
    /\ fdOf' = [fdOf EXCEPT ![k] = fd]
    /\ client' = [client EXCEPT ![fd] = k]
    /\ freed' = [j \in Conns |-> freed[j] \/ j = client[fd]]
    /\ state' = [state EXCEPT ![k] = "Connected"]
    /\ mtasks' = Append(mtasks, k)
    /\ pc' = [pc EXCEPT ![k] = "queued"]
    /\ UNCHANGED <<ended, wheel, main, age>>

\* ClearClientTimerFunc goes over the table...
SweepBegin ==
    /\ mpc = "loop"
    /\ entries' = {fd \in Fds : client[fd] # None}
    /\ entries' # {}
    /\ mpc' = "sweep"
    /\ UNCHANGED <<conns, timing, mcur, expiring>>

\* ...and destroys the connections it finds Closed.
SweepEntry(fd) ==
    /\ mpc = "sweep"
    /\ fd \in entries
    /\ entries' = entries \ {fd}
    /\ mpc' = IF entries' = {} THEN "loop" ELSE "sweep"
    /\ IF state[client[fd]] = "Closed"
       THEN /\ freed' = [freed EXCEPT ![client[fd]] = TRUE]
            /\ client' = [client EXCEPT ![fd] = None]
       ELSE UNCHANGED <<freed, client>>
    /\ UNCHANGED <<sock, fdOf, state, ended, pc, timing, mcur, expiring>>

-----------------------------------------------------------------------------
(* The main thread: the time wheel.                                        *)

\* Mistake: into the bucket that goes next.
BugFresh ==
    /\ mpc = "loop"
    /\ mtasks # <<>>
    /\ wheel' = [wheel EXCEPT ![1] = @ \cup {Head(mtasks)}]
    /\ age' = [age EXCEPT ![Head(mtasks)] = 0]
    /\ mtasks' = Tail(mtasks)
    /\ UNCHANGED <<conns, main>>

\* TimeWheel::fresh, in the task of the oldest refresh: one more copy of the slot.
Fresh ==
    /\ mpc = "loop"
    /\ mtasks # <<>>
    /\ wheel' = [wheel EXCEPT ![Buckets] = @ \cup {Head(mtasks)}]
    /\ age' = [age EXCEPT ![Head(mtasks)] = 0]
    /\ mtasks' = Tail(mtasks)
    /\ UNCHANGED <<conns, main>>

\* TimeWheel::loop: the front bucket is destroyed, an empty one comes last.
Turn ==
    /\ mpc = "loop"
    /\ expiring' = Head(wheel)
    /\ wheel' = Append(Tail(wheel), {})
    /\ age' = [k \in Conns |-> IF age[k] < Buckets THEN age[k] + 1 ELSE age[k]]
    /\ mpc' = "expire"
    /\ UNCHANGED <<conns, mtasks, mcur, entries>>

\* Some other shared_ptr to the slot of k exists: a later bucket's, or a queued task's.
SlotElsewhere(k) == (\E b \in 1..Buckets : k \in wheel[b]) \/ k \in Range(mtasks)

\* m_weak_slot can still be locked.
SlotAlive(k) == SlotElsewhere(k) \/ k \in expiring

\* Mistake: the slot's destructor calls nobody.
BugDropSlot(k) ==
    /\ mpc = "expire"
    /\ k \in expiring
    /\ expiring' = expiring \ {k}
    /\ UNCHANGED <<conns, timing, mpc, mcur, entries>>

\* One copy of the bucket goes.  If it was the last one the slot's destructor calls
\* shutdownConnection, provided the connection still exists.
DropSlot(k) ==
    /\ mpc = "expire"
    /\ k \in expiring
    /\ expiring' = expiring \ {k}
    /\ IF SlotElsewhere(k) \/ freed[k]
       THEN UNCHANGED <<mpc, mcur>>
       ELSE mpc' = "check" /\ mcur' = k
    /\ UNCHANGED <<conns, timing, entries>>

TurnEnd ==
    /\ mpc = "expire"
    /\ expiring = {}
    /\ mpc' = "loop"
    /\ UNCHANGED <<conns, timing, mcur, entries, expiring>>

\* shutdownConnection: the state is read and written under separate locks.
ShutdownCheck ==
    /\ mpc = "check"
    /\ mpc' = IF state[mcur] = "Closed" THEN "expire" ELSE "half"
    /\ UNCHANGED <<conns, timing, mcur, entries, expiring>>

ShutdownState ==
    /\ mpc = "half"
    /\ state' = [state EXCEPT ![mcur] = "HalfClosing"]
    /\ mpc' = "shut"
    /\ UNCHANGED <<sock, fdOf, client, freed, ended, pc, timing, mcur, entries, expiring>>

\* Mistake: SHUT_WR only.
BugShutdownSocket ==
    /\ mpc = "shut"
    /\ mpc' = "expire"
    /\ UNCHANGED <<conns, timing, mcur, entries, expiring>>

\* ::shutdown(m_fd, SHUT_RDWR) reaches whatever socket has the number now.
ShutdownSocket ==
    /\ mpc = "shut"
    /\ ended' = [k \in Conns |-> ended[k] \/ k = sock[fdOf[mcur]]]
    /\ mpc' = "expire"
    /\ UNCHANGED <<sock, fdOf, client, state, freed, pc, timing, mcur, entries, expiring>>

-----------------------------------------------------------------------------
(* The coroutine of connection k, MainServerLoopCorFunc.                   *)

Goto(k, from, to) == pc[k] = from /\ pc' = [pc EXCEPT ![k] = to]

Start(k) ==
    /\ Goto(k, "queued", "input")
    /\ UNCHANGED <<sock, fdOf, client, state, freed, ended, timing, main>>

ReadData(k) ==
    /\ Goto(k, "input", "refresh")
    /\ ~ended[k]
    /\ UNCHANGED <<sock, fdOf, client, state, freed, ended, timing, main>>

\* read_hook returns zero or fails: close_flag.
ReadEnd(k) ==
    /\ Goto(k, "input", "clear")
    /\ ended[k]
    /\ UNCHANGED <<sock, fdOf, client, state, freed, ended, timing, main>>

\* The end of input(): another copy of the slot is on its way into the wheel, if the slot
\* has not expired.
Refresh(k) ==
    /\ Goto(k, "refresh", "answer")
    /\ IF SlotAlive(k)
       THEN Len(mtasks) < MaxTasks /\ mtasks' = Append(mtasks, k)
       ELSE UNCHANGED mtasks
    /\ UNCHANGED <<sock, fdOf, client, state, freed, ended, wheel, main, age>>

\* execute() and output() get rid of the answer.
Answer(k) ==
    /\ Goto(k, "answer", "input")
    /\ UNCHANGED <<sock, fdOf, client, state, freed, ended, timing, main>>

\* write_hook has to wait for room; the loop never resumes it (module Scheduler).
AnswerBlocks(k) ==
    /\ Goto(k, "answer", "stuck")
    /\ UNCHANGED <<sock, fdOf, client, state, freed, ended, timing, main>>

\* Mistake: the socket is closed first.
BugCloseFirst(k) ==
    /\ Goto(k, "clear", "close")
    /\ sock' = [sock EXCEPT ![fdOf[k]] = None]
    /\ UNCHANGED <<fdOf, client, state, freed, ended, timing, main>>

\* Mistake: the state is set first.
BugClosedFirst(k) ==
    /\ Goto(k, "clear", "close")
    /\ state' = [state EXCEPT ![k] = "Closed"]
    /\ UNCHANGED <<sock, fdOf, client, freed, ended, timing, main>>

\* clearClient: unregister, close, Closed...
Unregister(k) ==
    /\ Goto(k, "clear", "close")
    /\ UNCHANGED <<sock, fdOf, client, state, freed, ended, timing, main>>

CloseSocket(k) ==
    /\ Goto(k, "close", "closed")
    /\ sock' = [sock EXCEPT ![fdOf[k]] = None]
    /\ UNCHANGED <<fdOf, client, state, freed, ended, timing, main>>

SetClosed(k) ==
    /\ Goto(k, "closed", "leave")
    /\ state' = [state EXCEPT ![k] = "Closed"]
    /\ UNCHANGED <<sock, fdOf, client, freed, ended, timing, main>>

\* ...and back in input(), setCanResume(false) and Yield.
Leave(k) ==
    /\ Goto(k, "leave", "parked")
    /\ UNCHANGED <<sock, fdOf, client, state, freed, ended, timing, main>>

\* The peer closes, or the read buffer is full and the next read has no room (input() takes
\* that for the end as well).
PeerCloses(k) ==
    /\ pc[k] \notin {"none", "closed", "leave", "parked"}
    /\ ~ended[k]
    /\ ended' = [ended EXCEPT ![k] = TRUE]
    /\ UNCHANGED <<sock, fdOf, client, state, freed, pc, timing, main>>

-----------------------------------------------------------------------------

\* What the coroutine does by itself; ReadData takes a peer that sends.
Io(k) == \/ Start(k) \/ ReadEnd(k) \/ Refresh(k) \/ Answer(k) \/ AnswerBlocks(k)
         \/ Unregister(k) \/ CloseSocket(k) \/ SetClosed(k) \/ Leave(k)

\* What the main thread does once a timer event has begun.
Expire ==
    \/ \E fd \in Fds : SweepEntry(fd)
    \/ \E k \in Conns : DropSlot(k)
    \/ TurnEnd \/ ShutdownCheck \/ ShutdownState \/ ShutdownSocket

Next ==
    \/ \E k \in Conns, fd \in Fds : Accept(k, fd)
    \/ SweepBegin \/ Fresh \/ Turn \/ Expire
    \/ \E k \in Conns : Io(k) \/ ReadData(k) \/ PeerCloses(k)

Spec == Init /\ [][Next]_vars

\* Every thread that can run is run, and the main loop, which also serves its other events,
\* comes back to its tasks: hence SF for what waits for the main thread to be free, and for
\* what waits for room among the tasks, which the code has.  Nothing is assumed of the peers.
Fairness ==
    /\ \A k \in Conns : WF_vars(Io(k)) /\ SF_vars(Refresh(k))
    /\ WF_vars(Expire)
    /\ SF_vars(Fresh)

FairSpec == Spec /\ Fairness

-----------------------------------------------------------------------------
(* Properties.                                                             *)

TypeOK ==
    /\ sock \in [Fds -> Conns \cup {None}]
    /\ fdOf \in [Conns -> Fds \cup {None}]
    /\ client \in [Fds -> Conns \cup {None}]
    /\ state \in [Conns -> {"none", "Connected", "HalfClosing", "Closed"}]
    /\ freed \in [Conns -> BOOLEAN]
    /\ ended \in [Conns -> BOOLEAN]
    /\ pc \in [Conns -> {"none", "queued", "input", "refresh", "answer", "stuck", "clear",
                         "close", "closed", "leave", "parked"}]
    /\ wheel \in [1..Buckets -> SUBSET Conns]
    /\ mtasks \in Seq(Conns)
    /\ mpc \in {"loop", "sweep", "expire", "check", "half", "shut"}
    /\ mcur \in Conns \cup {None}
    /\ expiring \subseteq Conns
    /\ entries \subseteq Fds
    /\ age \in [Conns -> 0..Buckets]

\* While the coroutine of a connection may still use its descriptor number - read, write,
\* unregister, close - that number is its own socket's, although the kernel gives it out
\* again at once after ::close (tcpConnection.cc:246-250).
UsesOwnSocket ==
    \A k \in Conns :
        pc[k] \in {"queued", "input", "refresh", "answer", "stuck", "clear", "close"} =>
            sock[fdOf[k]] = k

\* The time-out of one connection never shuts down the socket of another that has got its
\* number between the check of m_state and ::shutdown (tcpConnection.cc:53-62).
ShutdownHitsOwn ==
    mpc = "shut" => sock[fdOf[mcur]] \in {mcur, None}

\* An open socket always has its connection object, alive and in the table: the
\* destructor does not close the descriptor, so otherwise nobody would.
SocketHasConnection ==
    \A fd \in Fds : sock[fd] # None => client[fd] = sock[fd] /\ ~freed[sock[fd]]

\* No connection is timed out before the wheel has turned as many times as it has buckets
\* since it was last put in: the copy of its slot that goes last is the newest.
NotTimedOutEarly ==
    mpc = "check" => age[mcur] = Buckets

\* And none is forgotten: an open connection is in the bucket for its age, or on its way
\* into the wheel, or the main thread is just timing it out, or has done so.
IdleIsWatched ==
    \A fd \in Fds :
        LET k == sock[fd]
        IN  k # None /\ state[k] = "Connected" =>
                \/ k \in Range(mtasks)
                \/ k \in expiring
                \/ mpc \in {"check", "half"} /\ mcur = k
                \/ age[k] < Buckets /\ k \in wheel[Buckets - age[k]]

\* Each connection's timer, as it would be if it had one of its own: in the bucket for the
\* connection's age, in the one being destroyed, or going off.
Timed == {k \in Conns : age[k] < Buckets /\ k \in wheel[Buckets - age[k]]}
Due == {k \in expiring : age[k] = Buckets}
Target == IF mpc \in {"check", "half", "shut"} THEN mcur ELSE None
Gone == {k \in Conns : freed[k]}

\* The wheel times a connection out exactly when it has not been used for as many turns as
\* there are buckets (timeWheel.cc:25-41), although the buckets hold several copies of its
\* slot, and refreshes are under way among the tasks of the main reactor.
Idle == INSTANCE IdleTimer WITH
    Turns <- Buckets,
    idle <- age, timed <- Timed, touched <- Range(mtasks),
    due <- Due, target <- Target, gone <- Gone

IsIdleTimer == Idle!Spec

\* A connection that was timed out ends: its coroutine sees the end of the stream and
\* closes the socket, unless it is blocked in write_hook.
TimedOutEnds ==
    \A k \in Conns : state[k] = "HalfClosing" ~> pc[k] \in {"parked", "stuck"}

\* "peer close, now yield current coroutine, wait main thread clear this TcpConnection"
\* (tcpConnection.cc:138): the object is destroyed only after its coroutine has left it.
\* m_state is Closed, and the number free, before the coroutine has yielded.
FreedAfterYield ==
    \A k \in Conns : freed[k] => pc[k] = "parked"

=============================================================================
