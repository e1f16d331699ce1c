------------------------------ MODULE IOThreads ------------------------------
(***************************************************************************)
(* Starting and ending the threads of an IOThreadPool (tcp/ioThread.cc).   *)
(* The constructor of each waits until the new thread has built its        *)
(* reactor; the threads then wait to be started.  t_reactor_ptr is one     *)
(* variable for all of them, written by every thread as it comes up.       *)
(*                                                                         *)
(* What the main thread does between construction and destruction is left  *)
(* to the module that extends this one.                                    *)
(*                                                                         *)
(* Operators named Bug... are mistakes the code might have had, each kept  *)
(* before the definition it would replace.  No specification uses them.    *)
(***************************************************************************)
EXTENDS Naturals

CONSTANTS
    Size,        \* m_size of the pool, 10 in the code
    Null         \* a null pointer

ASSUME SizeAssumption == Size \in Nat \ {0} /\ Null \notin Nat

Threads == 1..Size

VARIABLES
    mpc,         \* where the main thread is
    next,        \* the thread it constructs, starts or destroys
    tpc,         \* where each thread is
    reactorPtr,  \* t_reactor_ptr: a reactor is named after the thread that built it
    reactor,     \* m_reactor of each IOThread
    initSem,     \* m_init_sem has been posted
    startSem,    \* m_start_sem has been posted
    stopFlag     \* m_stop_flag of each reactor

\* History: threads whose reactor was told to stop before its loop could see it.
VARIABLE early

tvars == <<mpc, next, tpc, reactorPtr, reactor, initSem, startSem, stopFlag, early>>

TInit ==
    /\ mpc = "create"
    /\ next = 1
    /\ tpc = [i \in Threads |-> "none"]
    /\ reactorPtr = Null
    /\ reactor = [i \in Threads |-> Null]
    /\ initSem = [i \in Threads |-> FALSE]
    /\ startSem = [i \in Threads |-> FALSE]
    /\ stopFlag = [i \in Threads |-> FALSE]
    /\ early = {}

-----------------------------------------------------------------------------
(* The main thread: the constructors, start() and the destructors.         *)

\* The main thread goes on with the next of its threads, or with what comes after all.
Advance(again, after) ==
    IF next = Size THEN mpc' = after /\ next' = 1
                   ELSE mpc' = again /\ next' = next + 1

CreateThread ==
    /\ mpc = "create"
    /\ tpc' = [tpc EXCEPT ![next] = "main"]
    /\ mpc' = "init"
    /\ UNCHANGED <<next, reactorPtr, reactor, initSem, startSem, stopFlag, early>>

\* Mistake: the constructor does not wait.
BugAwaitInit ==
    /\ mpc = "init"
    /\ Advance("create", "built")
    /\ UNCHANGED <<tpc, reactorPtr, reactor, initSem, startSem, stopFlag, early>>

AwaitInit ==
    /\ mpc = "init"
    /\ initSem[next]
    /\ initSem' = [initSem EXCEPT ![next] = FALSE]
    /\ Advance("create", "built")
    /\ UNCHANGED <<tpc, reactorPtr, reactor, startSem, stopFlag, early>>

\* Mistake: the last thread is not started.
BugPostStart ==
    /\ mpc = "post"
    /\ startSem' = [startSem EXCEPT ![next] = next < Size]
    /\ Advance("post", "loop")
    /\ UNCHANGED <<tpc, reactorPtr, reactor, initSem, stopFlag, early>>

PostStart ==
    /\ mpc = "post"
    /\ startSem' = [startSem EXCEPT ![next] = TRUE]
    /\ Advance("post", "loop")
    /\ UNCHANGED <<tpc, reactorPtr, reactor, initSem, stopFlag, early>>

\* Mistake: a loop is told to stop only when it is not running.
BugStopThread ==
    /\ mpc = "stop"
    /\ mpc' = "join"
    /\ stopFlag' = IF tpc[next] \notin {"enter", "loop"} THEN [stopFlag EXCEPT ![next] = TRUE]
                                                        ELSE stopFlag
    /\ early' = IF tpc[next] = "loop" THEN early ELSE early \cup {next}
    /\ UNCHANGED <<next, tpc, reactorPtr, reactor, initSem, startSem>>

\* The destructor calls stop(), which does nothing unless the loop is running, then joins.
StopThread ==
    /\ mpc = "stop"
    /\ mpc' = "join"
    /\ stopFlag' = IF tpc[next] \in {"enter", "loop"} THEN [stopFlag EXCEPT ![next] = TRUE]
                                                     ELSE stopFlag
    /\ early' = IF tpc[next] = "loop" THEN early ELSE early \cup {next}
    /\ UNCHANGED <<next, tpc, reactorPtr, reactor, initSem, startSem>>

\* The reactor is deleted; t_reactor_ptr still points to it if it was the last.
JoinThread ==
    /\ mpc = "join"
    /\ tpc[next] = "ended"
    /\ reactor' = [reactor EXCEPT ![next] = Null]
    /\ Advance("stop", "gone")
    /\ UNCHANGED <<tpc, reactorPtr, initSem, startSem, stopFlag, early>>

-----------------------------------------------------------------------------
(* IOThread::main on thread i.                                             *)

NewReactor(i) ==
    /\ tpc[i] = "main"
    /\ reactorPtr' = i
    /\ tpc' = [tpc EXCEPT ![i] = "keep"]
    /\ UNCHANGED <<mpc, next, reactor, initSem, startSem, stopFlag, early>>

\* m_reactor is read back from t_reactor_ptr.
KeepReactor(i) ==
    /\ tpc[i] = "keep"
    /\ reactor' = [reactor EXCEPT ![i] = reactorPtr]
    /\ tpc' = [tpc EXCEPT ![i] = "post"]
    /\ UNCHANGED <<mpc, next, reactorPtr, initSem, startSem, stopFlag, early>>

PostInit(i) ==
    /\ tpc[i] = "post"
    /\ initSem' = [initSem EXCEPT ![i] = TRUE]
    /\ tpc' = [tpc EXCEPT ![i] = "wait"]
    /\ UNCHANGED <<mpc, next, reactorPtr, reactor, startSem, stopFlag, early>>

\* loop() sets m_is_looping...
EnterLoop(i) ==
    /\ tpc[i] = "wait"
    /\ startSem[i]
    /\ startSem' = [startSem EXCEPT ![i] = FALSE]
    /\ tpc' = [tpc EXCEPT ![i] = "enter"]
    /\ UNCHANGED <<mpc, next, reactorPtr, reactor, initSem, stopFlag, early>>

\* ...and then clears m_stop_flag.
ResetStop(i) ==
    /\ tpc[i] = "enter"
    /\ stopFlag' = [stopFlag EXCEPT ![i] = FALSE]
    /\ tpc' = [tpc EXCEPT ![i] = "loop"]
    /\ UNCHANGED <<mpc, next, reactorPtr, reactor, initSem, startSem, early>>

LeaveLoop(i) ==
    /\ tpc[i] = "loop"
    /\ stopFlag[i]
    /\ tpc' = [tpc EXCEPT ![i] = "ended"]
    /\ UNCHANGED <<mpc, next, reactorPtr, reactor, initSem, startSem, stopFlag, early>>

PoolStep == CreateThread \/ AwaitInit \/ PostStart \/ StopThread \/ JoinThread

ThreadStep(i) ==
    \/ NewReactor(i) \/ KeepReactor(i) \/ PostInit(i)
    \/ EnterLoop(i) \/ ResetStop(i) \/ LeaveLoop(i)

=============================================================================
