------------------------------- MODULE Acceptor -------------------------------
(***************************************************************************)
(* The main thread of the server: it builds the pool of IO threads (module *)
(* IOThreads), resumes the acceptor's coroutine (TcpServer::start,         *)
(* MainAcceptCorFunc in tcp/tcpServer.cc, accept_hook in                   *)
(* coroutineHook/coroutineHook.cc), starts the threads and loops.  Each    *)
(* connection takes a coroutine from the pool (module CoroutinePool) and   *)
(* is handed to the loop t_reactor_ptr points to.                          *)
(*                                                                         *)
(* Operators named Bug... are mistakes the code might have had, each kept  *)
(* before the definition it would replace.  No specification uses them.    *)
(***************************************************************************)
EXTENDS CoroutinePool, IOThreads

CONSTANT
    AcceptCor    \* the user of the pool that is m_accept_cor; it never returns either

ASSUME AcceptAssumption == AcceptCor \in Connections /\ IsFiniteSet(Connections)

Clients == Connections \ {AcceptCor}

VARIABLES
    acc,         \* what the acceptor's coroutine is doing
    backlog,     \* connections the kernel has ready to accept
    arrived,     \* how many there have been
    turn,        \* m_index of the IOThreadPool: the thread that is next
    ioThread,    \* m_io_thread of each connection
    given        \* the reactor its coroutine was given to, Null before

avars == <<acc, backlog, arrived, turn, ioThread, given>>
allvars == <<vars, tvars, avars>>

AInit ==
    /\ Init
    /\ TInit
    /\ acc = "none"
    /\ backlog = 0
    /\ arrived = 0
    /\ turn = 1
    /\ ioThread = [u \in Clients |-> Null]
    /\ given = [u \in Clients |-> Null]

-----------------------------------------------------------------------------
(* The main thread, when its main coroutine runs.                          *)

InMain == acc \notin {"running", "again"}

GetStack(u) == GetSlot(u) \/ GetBlock(u) \/ Grow(u)

\* start(): the acceptor's coroutine...
GetAcceptCor ==
    /\ mpc = "built"
    /\ GetStack(AcceptCor)
    /\ mpc' = "resume"
    /\ UNCHANGED <<next, tpc, reactorPtr, reactor, initSem, startSem, stopFlag, early, avars>>

\* ...is resumed, before the threads are started.
ResumeAcceptCor ==
    /\ mpc = "resume"
    /\ Enter(AcceptCor)
    /\ acc' = "running"
    /\ mpc' = "post"
    /\ UNCHANGED <<next, tpc, reactorPtr, reactor, initSem, startSem, stopFlag, early,
                   backlog, arrived, turn, ioThread, given>>

MainPool ==
    /\ InMain
    /\ PoolStep
    /\ UNCHANGED <<vars, avars>>

\* The loop finds the listening socket readable and resumes the acceptor (fir_cor).
WakeAcceptor ==
    /\ mpc = "loop"
    /\ acc = "waiting"
    /\ backlog > 0
    /\ acc' = "again"
    /\ UNCHANGED <<vars, tvars, backlog, arrived, turn, ioThread, given>>

\* loop() has been stopped; ~TcpServer, then the destructors of the threads.
Leave ==
    /\ mpc = "loop"
    /\ InMain
    /\ BackCoroutine(AcceptCor)
    /\ mpc' = "stop"
    /\ UNCHANGED <<next, tpc, reactorPtr, reactor, initSem, startSem, stopFlag, early, avars>>

\* Connections are cleared, and other code uses the pool, on the main thread.
MainUser(u) ==
    /\ mpc = "loop"
    /\ InMain
    /\ \/ u # AcceptCor /\ BackCoroutine(u)
       \/ u \notin Connections /\ (GetStack(u) \/ Enter(u) \/ Return(u) \/ LastYield(u))
    /\ UNCHANGED <<tvars, avars>>

-----------------------------------------------------------------------------
(* The acceptor's coroutine, on the main thread.                           *)

\* getIOThread(), in the form "the next to give".
AdvanceTurn == turn' = IF turn = Size THEN 1 ELSE turn + 1

\* The constructor: the connection remembers the thread whose turn it is...
NewConnection(u) ==
    /\ GetStack(u)
    /\ ioThread' = [ioThread EXCEPT ![u] = turn]

\* ...but its coroutine goes to the loop t_reactor_ptr points to, whatever the thread.
InitServer(u) == given' = [given EXCEPT ![u] = reactorPtr]

\* accept gives a connection: addClient and initServer, and around again.
AcceptOne ==
    /\ acc \in {"running", "again"}
    /\ backlog > 0
    /\ backlog' = backlog - 1
    /\ LET u == CHOOSE x \in Clients : pc[x] = "none"
       IN  NewConnection(u) /\ InitServer(u)
    /\ AdvanceTurn
    /\ acc' = "running"
    /\ UNCHANGED <<tvars, arrived>>

\* The first accept of accept_hook gives nothing: toEpoll and Yield.
AcceptWait ==
    /\ acc = "running"
    /\ backlog = 0
    /\ acc' = "waiting"
    /\ UNCHANGED <<vars, tvars, backlog, arrived, turn, ioThread, given>>

\* The second one gives nothing either: the descriptor has been unregistered, and
\* MainAcceptCorFunc yields without anybody who would resume it (tcpServer.cc:135).
AcceptFails ==
    /\ acc = "again"
    /\ backlog = 0
    /\ acc' = "idle"
    /\ UNCHANGED <<vars, tvars, backlog, arrived, turn, ioThread, given>>

-----------------------------------------------------------------------------
(* The IO threads and the network.                                         *)

\* The loop of thread i runs the task that resumes the coroutine of a connection.
RunConnection(i, u) ==
    /\ tpc[i] = "loop"
    /\ given[u] = i
    /\ Enter(u)
    /\ UNCHANGED <<tvars, avars>>

EndConnection(i, u) ==
    /\ tpc[i] = "loop"
    /\ given[u] = i
    /\ Abandon(u)
    /\ UNCHANGED <<tvars, avars>>

IOStep(i) == ThreadStep(i) /\ UNCHANGED <<vars, avars>>

Arrive ==
    /\ mpc \notin {"create", "init", "built"}
    /\ arrived < Cardinality(Clients)
    /\ arrived' = arrived + 1
    /\ backlog' = backlog + 1
    /\ UNCHANGED <<vars, tvars, acc, turn, ioThread, given>>

\* The peer gives up before it is accepted.
Abort ==
    /\ backlog > 0
    /\ backlog' = backlog - 1
    /\ UNCHANGED <<vars, tvars, acc, arrived, turn, ioThread, given>>

MainStep ==
    \/ GetAcceptCor \/ ResumeAcceptCor \/ MainPool \/ WakeAcceptor
    \/ AcceptOne \/ AcceptWait \/ AcceptFails

ANext ==
    \/ MainStep \/ Leave \/ Arrive \/ Abort
    \/ \E u \in Users : MainUser(u)
    \/ \E i \in Threads : IOStep(i)
    \/ \E i \in Threads, u \in Clients : RunConnection(i, u) \/ EndConnection(i, u)

\* Every thread runs, and each loop comes to the tasks it was given.
ASpec ==
    /\ AInit
    /\ [][ANext]_allvars
    /\ WF_allvars(MainStep)
    /\ \A i \in Threads : WF_allvars(IOStep(i))
    /\ \A i \in Threads, u \in Clients : WF_allvars(RunConnection(i, u))

-----------------------------------------------------------------------------
(* Properties.                                                             *)

\* Each thread loops on the reactor it has built, although all of them publish theirs
\* through one variable (ioThread.cc:8, 52); a connection remembers a thread of the pool,
\* and is given to a reactor whose thread has finished its construction, even when it is
\* accepted before the threads are started.
OwnReactor ==
    /\ \A i \in Threads : tpc[i] \in {"wait", "enter", "loop"} => reactor[i] = i
    /\ \A u \in Clients :
          given[u] # Null =>
              /\ ioThread[u] \in Threads
              /\ given[u] \in Threads
              /\ tpc[given[u]] \notin {"none", "main", "keep", "post"}

\* While the server runs, what the kernel has ready is accepted and its coroutine is run;
\* unless an accept has failed after the acceptor was resumed (tcpServer.cc:135).
ClientsServed ==
    LET Leaving == mpc \in {"stop", "join", "gone"}
    IN  /\ backlog > 0 ~> backlog = 0 \/ acc = "idle" \/ Leaving
        /\ \A u \in Clients : given[u] # Null /\ pc[u] = "ready" ~> pc[u] # "ready" \/ Leaving

\* The destructor of a started thread returns, unless stop() found its loop not running yet
\* or fell between the two first statements of loop() (reactor.cc:147).
JoinReturns ==
    \A i \in Threads : mpc = "join" /\ next = i ~> (mpc # "join" \/ next # i) \/ i \in early

=============================================================================
