------------------------------- MODULE Logger -------------------------------
(***************************************************************************)
(* The asynchronous logger (logger/log.cc): callers append to a buffer, a  *)
(* collector thread moves the buffer, every m_sync_interval, as one batch  *)
(* into the queue of AsyncLogger, whose thread writes one batch at a time  *)
(* to the current file and rotates files by date and by size.  One thread  *)
(* may stop it all (Exit, CoredumpHandler or ~Logger).                     *)
(*                                                                         *)
(* The two mutexes guard the buffer and the queue.  Both m_stop flags are  *)
(* written without them, which is where the steps below are finest.        *)
(*                                                                         *)
(* Operators named Bug... are mistakes the code might have had, each kept  *)
(* before the definition it would replace.  No specification uses them.    *)
(***************************************************************************)
EXTENDS Naturals, Sequences, FiniteSets, Functions

CONSTANTS
    Msgs,        \* the messages, each logged once
    MaxSize,     \* m_max_size, in messages
    MaxDay,      \* bound on the date
    NoFile       \* m_file_handle is null

ASSUME SizeAssumption == MaxSize \in Nat /\ MaxDay \in Nat \ {0}
ASSUME NoFileAssumption == NoFile \notin Nat \X Nat

VARIABLES
    buffer,      \* Logger::m_buffer
    stop,        \* Logger::m_stop
    cpc,         \* the collector thread
    cbatch,      \* tmp in its loopFunc
    spc,         \* the stopping thread
    sbatch,      \* tmp in its loopFunc
    queue,       \* AsyncLogger::m_tasks
    asyncStop,   \* AsyncLogger::m_stop
    wpc,         \* the writer thread (AsyncLogger::execute)
    wbatch,      \* tmp of execute
    isStop,      \* is_stop of execute
    day,         \* today
    date,        \* m_date
    no,          \* m_no
    handle       \* the open file, named by date and number, or NoFile

\* History.
VARIABLES
    logged,      \* the messages in the order they were pushed
    written      \* what was written: records of message and file, in order

writer == <<wpc, wbatch, isStop>>
files == <<date, no, handle, written>>
vars == <<buffer, stop, cpc, cbatch, spc, sbatch, queue, asyncStop, wpc, wbatch, isStop,
          day, date, no, handle, logged, written>>

Init ==
    /\ buffer = <<>>
    /\ stop = FALSE
    /\ cpc = "start"
    /\ cbatch = <<>>
    /\ spc = "running"
    /\ sbatch = <<>>
    /\ queue = <<>>
    /\ asyncStop = FALSE
    /\ wpc = "check"
    /\ wbatch = <<>>
    /\ isStop = FALSE
    /\ day = 1
    /\ date = 0
    /\ no = 0
    /\ handle = NoFile
    /\ logged = <<>>
    /\ written = <<>>

-----------------------------------------------------------------------------
(* The queue of AsyncLogger.                                               *)

\* The writer holds the mutex from its test of the queue until it is asleep.
MutexFree == wpc # "tosleep"

\* Mistake: no signal.
BugSignal == wpc' = wpc

\* pthread_cond_signal: it reaches the writer only if that is asleep already.
Signal == wpc' = IF wpc = "asleep" THEN "check" ELSE wpc

\* Mistake: the newest batch goes in front.
BugPushBatch(b) ==
    IF b = <<>> THEN UNCHANGED queue
    ELSE MutexFree /\ queue' = <<b>> \o queue

\* AsyncLogger::push up to its unlock; an empty batch is not queued and not signalled.
PushBatch(b) ==
    IF b = <<>> THEN UNCHANGED queue
    ELSE MutexFree /\ queue' = Append(queue, b)

-----------------------------------------------------------------------------
(* Logger::push, by any thread.                                            *)

Push(m) ==
    /\ m \notin Range(logged)
    /\ buffer' = Append(buffer, m)
    /\ logged' = Append(logged, m)
    /\ UNCHANGED <<stop, cpc, cbatch, spc, sbatch, queue, asyncStop, writer, day, files>>

-----------------------------------------------------------------------------
(* The collector thread.                                                   *)

\* The thread clears m_stop itself when it begins.
CollectStart ==
    /\ cpc = "start"
    /\ stop' = FALSE
    /\ cpc' = "test"
    /\ UNCHANGED <<buffer, cbatch, spc, sbatch, queue, asyncStop, writer, day, files, logged>>

CollectTest ==
    /\ cpc = "test"
    /\ cpc' = IF stop THEN "ended" ELSE "swap"
    /\ UNCHANGED <<buffer, stop, cbatch, spc, sbatch, queue, asyncStop, writer, day, files,
                   logged>>

\* After usleep, loopFunc: the swap under one mutex, the push under another.
CollectSwap ==
    /\ cpc = "swap"
    /\ cbatch' = buffer
    /\ buffer' = <<>>
    /\ cpc' = "push"
    /\ UNCHANGED <<stop, spc, sbatch, queue, asyncStop, writer, day, files, logged>>

CollectPush ==
    /\ cpc = "push"
    /\ PushBatch(cbatch)
    /\ cbatch' = <<>>
    /\ cpc' = IF cbatch = <<>> THEN "test" ELSE "signal"
    /\ UNCHANGED <<buffer, stop, spc, sbatch, asyncStop, writer, day, files, logged>>

CollectSignal ==
    /\ cpc = "signal"
    /\ Signal
    /\ cpc' = "test"
    /\ UNCHANGED <<buffer, stop, cbatch, spc, sbatch, queue, asyncStop, wbatch, isStop, day,
                   files, logged>>

-----------------------------------------------------------------------------
(* Logger::stop and then the join of the writer, as Exit, the signal       *)
(* handler and the destructor do.                                          *)

StopBegin ==
    /\ spc = "running"
    /\ stop' = TRUE
    /\ spc' = "swap"
    /\ UNCHANGED <<buffer, cpc, cbatch, sbatch, queue, asyncStop, writer, day, files, logged>>

\* Mistake: the buffer is copied, not swapped.
BugStopSwap ==
    /\ spc = "swap"
    /\ sbatch' = buffer
    /\ spc' = "push"
    /\ UNCHANGED <<buffer, stop, cpc, cbatch, queue, asyncStop, writer, day, files, logged>>

StopSwap ==
    /\ spc = "swap"
    /\ sbatch' = buffer
    /\ buffer' = <<>>
    /\ spc' = "push"
    /\ UNCHANGED <<stop, cpc, cbatch, queue, asyncStop, writer, day, files, logged>>

StopPush ==
    /\ spc = "push"
    /\ PushBatch(sbatch)
    /\ sbatch' = <<>>
    /\ spc' = IF sbatch = <<>> THEN "join" ELSE "signal"
    /\ UNCHANGED <<buffer, stop, cpc, cbatch, asyncStop, writer, day, files, logged>>

StopSignal ==
    /\ spc = "signal"
    /\ Signal
    /\ spc' = "join"
    /\ UNCHANGED <<buffer, stop, cpc, cbatch, sbatch, queue, asyncStop, wbatch, isStop, day,
                   files, logged>>

JoinCollector ==
    /\ spc = "join"
    /\ cpc = "ended"
    /\ spc' = "async"
    /\ UNCHANGED <<buffer, stop, cpc, cbatch, sbatch, queue, asyncStop, writer, day, files,
                   logged>>

\* AsyncLogger::stop takes no mutex: it may set the flag and signal while the writer is
\* between its test and its sleep.
AsyncStop ==
    /\ spc = "async"
    /\ asyncStop' = TRUE
    /\ spc' = "wake"
    /\ UNCHANGED <<buffer, stop, cpc, cbatch, sbatch, queue, writer, day, files, logged>>

AsyncSignal ==
    /\ spc = "wake"
    /\ Signal
    /\ spc' = "joinwriter"
    /\ UNCHANGED <<buffer, stop, cpc, cbatch, sbatch, queue, asyncStop, wbatch, isStop, day,
                   files, logged>>

JoinWriter ==
    /\ spc = "joinwriter"
    /\ wpc = "ended"
    /\ spc' = "ended"
    /\ UNCHANGED <<buffer, stop, cpc, cbatch, sbatch, queue, asyncStop, writer, day, files,
                   logged>>

-----------------------------------------------------------------------------
(* The writer thread.                                                      *)

WriterWait ==
    /\ wpc = "check"
    /\ queue = <<>>
    /\ ~asyncStop
    /\ wpc' = "tosleep"
    /\ UNCHANGED <<buffer, stop, cpc, cbatch, spc, sbatch, queue, asyncStop, wbatch, isStop,
                   day, files, logged>>

WriterSleep ==
    /\ wpc = "tosleep"
    /\ wpc' = "asleep"
    /\ UNCHANGED <<buffer, stop, cpc, cbatch, spc, sbatch, queue, asyncStop, wbatch, isStop,
                   day, files, logged>>

\* pthread_cond_wait may return without a signal; nothing makes it do so.
SpuriousWakeup ==
    /\ wpc = "asleep"
    /\ wpc' = "check"
    /\ UNCHANGED <<buffer, stop, cpc, cbatch, spc, sbatch, queue, asyncStop, wbatch, isStop,
                   day, files, logged>>

WriterEnd ==
    /\ wpc = "check"
    /\ queue = <<>>
    /\ asyncStop
    /\ wpc' = "ended"
    /\ isStop' = TRUE
    /\ handle' = NoFile
    /\ UNCHANGED <<buffer, stop, cpc, cbatch, spc, sbatch, queue, asyncStop, wbatch, day,
                   date, no, written, logged>>

\* One batch is taken; is_stop is what the flag was under the same mutex.
WriterTake ==
    /\ wpc = "check"
    /\ queue # <<>>
    /\ wbatch' = Head(queue)
    /\ queue' = Tail(queue)
    /\ isStop' = asyncStop
    /\ wpc' = "write"
    /\ UNCHANGED <<buffer, stop, cpc, cbatch, spc, sbatch, asyncStop, day, files, logged>>

\* What ftell gives once f is open.
SizeOf(f) == Cardinality({i \in 1..Len(written) : written[i].file = f})

\* Mistake: the number goes on.
BugNumberToday == no

\* The number of the file for today: it restarts with the date.
NumberToday == IF day # date THEN 0 ELSE no

\* A new date, or no open file, opens the file of that date; the number restarts at zero
\* with the date.  Then a file over the limit is left for the next number.
WriterWrite ==
    /\ wpc = "write"
    /\ LET reopen == day # date \/ handle = NoFile
           f == IF reopen THEN <<day, NumberToday>> ELSE handle
           g == IF SizeOf(f) > MaxSize THEN <<day, NumberToday + 1>> ELSE f
       IN  /\ date' = day
           /\ no' = g[2]
           /\ handle' = IF isStop THEN NoFile ELSE g
           /\ written' = written \o [i \in 1..Len(wbatch) |-> [msg |-> wbatch[i], file |-> g]]
    /\ wbatch' = <<>>
    /\ wpc' = IF isStop THEN "ended" ELSE "check"
    /\ UNCHANGED <<buffer, stop, cpc, cbatch, spc, sbatch, queue, asyncStop, isStop, day,
                   logged>>

NextDay ==
    /\ day < MaxDay
    /\ day' = day + 1
    /\ UNCHANGED <<buffer, stop, cpc, cbatch, spc, sbatch, queue, asyncStop, writer, files,
                   logged>>

-----------------------------------------------------------------------------

Collector == CollectStart \/ CollectTest \/ CollectSwap \/ CollectPush \/ CollectSignal
Stopper == \/ StopSwap \/ StopPush \/ StopSignal \/ JoinCollector
           \/ AsyncStop \/ AsyncSignal \/ JoinWriter
Writer == WriterWait \/ WriterSleep \/ WriterEnd \/ WriterTake \/ WriterWrite

Next ==
    \/ \E m \in Msgs : Push(m)
    \/ Collector
    \/ StopBegin \/ Stopper
    \/ Writer \/ SpuriousWakeup
    \/ NextDay

Spec == Init /\ [][Next]_vars

\* Every thread that can run is run, and one that waits for the queue's mutex gets it in
\* the end; whether anybody stops the logger is left open.
Fairness ==
    /\ WF_vars(Collector) /\ WF_vars(Stopper) /\ WF_vars(Writer)
    /\ SF_vars(CollectPush) /\ SF_vars(StopPush)

FairSpec == Spec /\ Fairness

-----------------------------------------------------------------------------
(* Properties.                                                             *)

Written == [i \in 1..Len(written) |-> written[i].msg]

\* The batches of a queue, in a row.
Flat(q) ==
    LET flat[i \in 0..Len(q)] == IF i = 0 THEN <<>> ELSE flat[i - 1] \o q[i]
    IN  flat[Len(q)]
Queued == Flat(queue)

\* No message is lost or written twice on its way through the three containers and the
\* three threads' hands: each is in exactly one of them, even while the stopping thread
\* and the collector run loopFunc (log.cc:337) at the same time.  What the writer leaves in
\* the queue when it ends is lost to the file, and is still counted here.
MessagesConserved ==
    LET whole == Written \o wbatch \o Queued \o cbatch \o sbatch \o buffer
    IN  Len(whole) = Len(logged) /\ Range(whole) = Range(logged)

\* Until somebody stops the logger the file gets the messages in the order in which they
\* were logged.
FileInOrder ==
    spc = "running" => Written \o wbatch \o Queued \o cbatch \o buffer = logged

\* A file's name, date and number, does not come after another's.
Before(f, g) == f[1] < g[1] \/ (f[1] = g[1] /\ f[2] <= g[2])

\* The writer's files: their names never go back (date, then number), and a file is left
\* for the next number only when it is over the limit; the open file has the name that
\* m_date and m_no say, through every order of date change and overflow (log.cc:223-266).
RotationInOrder ==
    /\ \A i \in 1..Len(written) - 1 : Before(written[i].file, written[i + 1].file)
    /\ handle # NoFile => handle = <<date, no>>
    /\ \A i \in 1..Len(written) :
          LET f == written[i].file
          IN  f[2] > 0 => SizeOf(<<f[1], f[2] - 1>>) > MaxSize

\* The logger is a log: a batch reaches a file as one run of what was logged, whichever of
\* the two threads in loopFunc (log.cc:337) moved it, in a file not before the others
\* (log.cc:223-266), no message twice, and the runs in order until somebody stops it.
Records == INSTANCE Log WITH
    Messages <- Msgs, Dates <- 1..MaxDay,
    accepted <- logged, records <- written, stopping <- (spc # "running")

IsLog == Records!Spec

\* A logged message reaches the file, or somebody has begun to stop the logger: the
\* writer does not sleep through the signal of a batch.
MessagesReachFile ==
    \A m \in Msgs : m \in Range(buffer) ~> m \in Range(Written) \/ spc # "running"

\* "progress received invalid signal, will exit" (log.cc:29): once stop has begun, the
\* two joins return.  They do not when the collector thread clears m_stop after it was
\* set (log.cc:310), nor when the signal of AsyncLogger::stop comes between the writer's
\* test and its sleep (log.cc:177-201).
StopReturns == spc # "running" ~> spc = "ended"

=============================================================================
