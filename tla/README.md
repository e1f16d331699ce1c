# A verification project for myutil

`myutil` is a C++ network library built from one idea: every thread runs an epoll loop (a *reactor*), every
connection is a coroutine on one of the loops, and hooked `read`/`write` calls suspend the coroutine until the loop
sees its descriptor ready. This directory holds TLA+ modules of the parts of it that are hard to test, the TLC
configurations that check them on small instances, and proofs, checked by TLAPS, of nearly every safety property for
every value of the constants.
Everything is written from the code under `src/`; the comments in the modules name the lines they are about.

To run it: `tlc -config MCServer.cfg MCServer`, and so on for the other configurations; `tlapm ReactorProofs.tla` and
so on for the proofs.

## 1. Inventory

| Component | State it keeps | Operations | Meets the others by |
|---|---|---|---|
| Reactor (`net/reactor.cc`) | pending tasks, pending adds and dels of descriptors, the eventfd, registered descriptors, `m_is_looping`, `m_stop_flag` | `addTask` (one, vector), `addCoroutine`, `addEvent`, `delEvent`, `wakeup`, `loop`, `stop` | called from every thread; runs tasks, callbacks and coroutines |
| Coroutine scheduling (`coroutineHook/`, `timer/fdEvent.cc`, part of `reactor.cc`) | each `FdEvent`'s reactor, events and coroutine; `fir_cor` of a loop; the process-wide `CoroutineTaskQueue` | `read_hook`, `write_hook`, `accept_hook`, `connect_hook`, `sleep_hook`, the dispatch, push and pop | suspends coroutines, registers descriptors, hands coroutines between IO threads |
| Timer (`timer/timer.cc`) | the multimap of pending events, the timerfd | `addTimerEvent`, `delTimerEvent`, `resetArriveTime`, `onTimer` | the reactor calls `onTimer`; tasks call back into it |
| Logger, AsyncLogger (`logger/log.cc`) | buffer, queue of batches, open file, date and number, two stop flags | `push`, `collect`, `loopFunc`, `execute`, `stop`, the joins | any thread pushes; two threads drain; one stops |
| TcpServer, TcpConnection's life, TimeWheel (`tcp/`, `timeWheel/`) | the table of connections by descriptor number, `m_state`, the wheel's buckets of slots | accept and `addClient`, `freshTcpConnection`, the wheel's turn, `shutdownConnection`, `clearClient`, `ClearClientTimerFunc` | main thread against the coroutines on IO threads, through `m_state`, descriptor numbers and reference counts |
| A connection's bytes (`tcp/tcpConnection.cc`, `http/httpCodec.cc`) | read and write buffer | `input`, `execute`, `output`, `decode` | socket on one side, codec on the other |
| Buffer (`buffer/buffer.h`) | a vector and two indices | append, prepend, retrieve, making room | used by the connection |
| CoroutinePool, Memory, Coroutine (`coroutinePool/`) | which coroutines and which blocks are in use, `m_is_in_cofunc` | `getCoroutineInstance`, `backCoroutine`, `Resume`, `Yield` | acceptor and connections take and return |
| IOThread, IOThreadPool (`tcp/ioThread.cc`) | two semaphores, a thread and its reactor, `t_reactor_ptr` for all of them | construction, `main`, `start`, `getIOThread`, destruction | built, started and destroyed by the server's main thread |
| HTTP parsing, dispatcher, servlets (`http/`) | the dispatcher's table; a request and a response while they last | parse, register, dispatch, handle, encode | called by `execute` |

Not components of their own for our purpose: `coctx_swap.S` (saves and restores registers), `mutex.h` (RAII),
`NetAddress` (conversions), the examples.

What is hard in it: flags read without the mutex that guards what they are about; one thread's descriptor unregistered
while its coroutine is handed to another; descriptor numbers the kernel gives out again at once; a timer wheel whose
refreshes are tasks queued behind its turns; coroutines that never return from their function; partial reads and
writes; a callback that holds a reference to another stack; a variable that every thread overwrites and reads back; two
stop flags and two joins. Every such place has an entry under `hazards` in `PROJECT.json`, with its line and
the properties that watch it, or the reason why none does.

What makes each part correct:

* *Reactor*: work given to the loop is done without waiting for the ten-second timeout of `epoll_wait`, exactly once,
  and in order; a descriptor is registered as the last call about it asked, or, of the calls swept together, as a
  deletion asked or else the first addition; `stop` stops.
* *Scheduling*: a stack is entered by one thread at a time; a descriptor is registered with one loop; whoever waits is
  resumed when, and only when, the socket is ready.
* *Timer and the hooks that wait for time*: nothing is lost or run after it was deleted; the order of the multimap, on
  which each of its searches relies, survives changes of the key; a callback finds the stack frame it refers to; nobody
  wakes before the time, and everybody wakes.
* *Logger*: every message reaches the file once, in order, in the right file; stopping ends.
* *Server*: a number is used only for one's own socket; every socket has an owner; an idle connection is timed out, not
  early and not never; an object outlives its coroutine.
* *Bytes, Buffer*: first in, first out, whatever the network cuts.
* *HTTP*: what is dispatched is what was sent, each part in its place; a request that is all there is answered.
* *Start, IO threads, acceptor*: each thread loops on its own reactor; what can be accepted is served; joins return.
* *Pool*: one user per stack, no leak.

## 2. The modules

| Module | Extends | What it is |
|---|---|---|
| `Mailbox` | | what a reactor promises its callers: an abstract specification |
| `Reactor` | instance of `Mailbox` | one loop and its mailbox, with the threads that call it |
| `ReactorProofs` | `Reactor` | its theorems |
| `Scheduler` | | several loops, their coroutines and the queue between them |
| `SchedulerProofs` | `Scheduler` | its theorems |
| `Timer` | | the timer of one reactor |
| `Log` | | what the logger promises who logs and who reads the files: an abstract specification |
| `Logger` | instance of `Log` | callers, collector, writer, stopper |
| `LoggerProofs` | `Logger` | its theorems |
| `IdleTimer` | | what the time wheel promises the connections: an abstract specification |
| `Server` | instance of `IdleTimer` | the main thread and the connections' coroutines |
| `ServerProofs` | `Server` | its theorems |
| `Hooks` | `Timer` | `sleep_hook` and `connect_hook` over the timer of their reactor |
| `HooksProofs` | `Hooks` | its theorems, and those about the timer in it |
| `CoroutinePool` | | who runs on which stack |
| `IOThreads` | | the threads of an `IOThreadPool`, from construction to join |
| `Acceptor` | `CoroutinePool`, `IOThreads` | the server's main thread, the acceptor's coroutine, and whom a connection is given to |
| `AcceptorProofs` | `Acceptor` | its theorems, those of the pool and of the threads among them |
| `Http` | | decode, dispatch and encode, as operators |
| `Requests` | `Http` | the peers: what they send, and what is to be made of it |
| `ByteFifo` | | what a buffer promises: an abstract specification |
| `Buffer` | | the members of `Buffer` as operators |
| `BufferUse` | `Buffer`, instance of `ByteFifo` | any sequence of calls, shown to implement `ByteFifo` |
| `BufferProofs` | `BufferUse` | its theorems, and that it implements `ByteFifo` |
| `Stream` | `Buffer`, `Requests` | `input`, `execute`, `output` over two buffers, with the codec and the dispatcher between them |
| `StreamProofs` | `Stream` | its theorems |
| `MC...` | the specification they instantiate | instances for TLC |

A model module has the same sections everywhere: constants and their named assumptions; the variables, each with the
member it stands for; history variables, which only properties read; one action per handler or statement that others can
see; `Next`, `Spec`, the fairness; the properties. Operators named `Bug...` are mistakes the code might have had. They
stand before the definition they would replace; no specification uses them. They serve to see that a property is able to
fail: putting the mistake in place of the definition must violate the property named with it in `PROJECT.json`.

How fine a step is follows from who can see it. Where a container is guarded by a mutex the critical section is one
step. Where a flag is read or written without one (`m_is_looping`, `m_stop_flag`, both `m_stop`s, `m_state` between two
locks, the pointer to the task queue), each access is a step. Between these, a thread runs as far as nobody can look.

### Reactor

`tasks`, `adds`, `dels` are the three containers; `wakeFd` says that the eventfd counter is not zero; `reg` is what
the kernel has registered; `lpc` is the place of the loop thread, `cpc` the place of each caller. A call from outside is
two or three steps: fill the container (`AddTask`, `AddTasks`, `AddEvent`, `DelEvent`), read `m_is_looping`
(`WakeCheck`), write the eventfd (`WakeWrite`). `stop` reads its two flags one after the other (`StopCheck`,
`StopCheckLooping`) and sets the one (`StopSet`) before it wakes. The loop goes `LoopTop`, `TakeTasks`, `RunTask`...,
`EnterPoll`, `EpollReturn` or `EpollTimeout`, the `Dispatch...` actions and `DrainWake` in any order, `SweepFds`. While a
callback runs (`lpc` in `UserCode`) it may make any call of its own (`Loop...` actions). A descriptor here has no
coroutine; its read callback is appended to the tasks, as the code does. Two history variables say what the calls about
descriptors asked: `asked` has those about which a call from outside is still queued, `word` what the call that counts has
said of each. `RegisteredAsAsked` compares that with the kernel's registration.

To its callers all this is a `Mailbox`, which knows nothing of batches, descriptors and wake-ups: tasks handed in singly
are started in their order, those of a vector whenever it pleases (`addTask` inserts them in front), each once, and at the
earliest when it was handed in. The mapping is to the history variables of what was handed in and what has run.

### Scheduler

Per reactor: place of the loop, current coroutine, `fir_cor`, the reports of the batch, the tasks, the registered masks.
Per coroutine: what it is doing, `m_reactor` and `m_listen_events` of its `FdEvent`, and what its socket would say.
`Resume` stands for `Coroutine::Resume` and everything up to the next point at which somebody can interfere. That
includes the hook's `delListenEvents` on coming back. `AddListenEvents`, `DelListenEvents`, `UpdateToReactor` and
`UnregisterFromReactor` are the members of `FdEvent`. The mailbox of a loop appears only as the set of coroutines given to
`addCoroutine`; `Reactor` has the rest, and `NoLostWakeup` there is why `Poll` may be taken here whenever `tasks` is not
empty. Whether one of the loops is the main one is chosen in `Init`.

### Timer

`pending` is the multimap in its order; `Insert` and `ErasedPosition` are what `emplace` and the search of
`delTimerEvent` do, the erasure of a neighbour included. The clock moves by `Tick` between any two statements, so the
three readings in one `onTimer` differ. `resetArriveTime` is the place `reset`, returning to `back`.

### Hooks

`Hooks` runs coroutines on the thread of that timer. A call of a hook constructs an event (`AddHookEvent`) and yields; its
callback (`TimeoutCallback`) sets `isTimeout` and resumes the coroutine from inside `onTimer`, and the coroutine may then
call a hook again, or add and delete events, before `onTimer` goes on. A connect that has to wait registers its descriptor
for `EPOLLOUT`, which the dispatch only unregisters (`DispatchOther`), so the coroutine always comes back through its
75-second event; `ConnectBack` then deletes that event, which has just expired. Other code has one repeated event, as the
time wheel has. `stalled` remembers that `resetArriveTime` last met only events that were due.

### Logger

Three threads: collector (`cpc`), stopper (`spc`), writer (`wpc`). `loopFunc` is run by two of them, each in the steps
swap, push, signal. `tosleep` is the writer holding the mutex between its test and its sleep: that is where a signal
without the mutex is lost. `WriterWrite` is date change, reopening, overflow and the write.

`Log` has no threads and no batches: what was logged, what is in the files, and whether somebody is stopping. One step
writes a run of consecutive messages to one file; files do not go back; and until the stop begins, a run starts where the
last one ended. From then on batches may overtake each other, but messages neither multiply nor change places within one.

### Server

The main thread's place is `mpc`: it accepts, runs a refresh task, turns the wheel or walks the table; the last two are
cut at every point where a coroutine on another thread may act. A coroutine's `pc` follows `MainServerLoopCorFunc`:
input, refresh, answer, and at the end `clearClient` in three steps (unregister, close, state) and the last yield.
`sock` is the kernel's: whose socket has the number now. The reference counts of slots are what they are for:
`SlotElsewhere` says that another copy exists.

`IdleTimer` gives every connection a timer of its own: a number of turns without use, put back by a use the main thread
has heard of. `Timed`, `Due`, `Target` and `Gone` say where such a timer is to be found in the wheel, in the bucket
being destroyed, and in the main thread.

### CoroutinePool

A stack is a pair, `<<0, i>>` made in advance or `<<m, i>>` block i of the m-th Memory. Users are connections, which
never return from their function and may be given back before they have left it, and others, which return first. The
acceptor's coroutine is one of the users.

### IOThreads, Acceptor

`mpc` is the main thread's way through the constructors (one thread at a time, each awaited), `start`, its loop, and the
destructors; `tpc` each thread's way through `IOThread::main` and the two first statements of `loop()`. `t_reactor_ptr`
is written in `NewReactor` and read back in `KeepReactor`: two steps, since other threads write it too. `Acceptor` puts the server
around it: `start()` resumes the acceptor's coroutine before it starts the threads, `accept_hook` is `AcceptOne`, or
`AcceptWait` and a second attempt, and a connection (`NewConnection`, `InitServer`) takes a stack from the pool and is given to
the reactor `t_reactor_ptr` points to. `Leave` is the end of `loop()` and `~TcpServer`.

### Buffer, BufferUse, ByteFifo

A buffer is a record of its vector and its indices. `BufferUse` calls the members in any order and with lengths the code
does not look at: `hasWritten` counts fewer or more bytes than were put behind the write index (`HasWritten1`), and
`retrieveAsString` reads on behind the content and behind the vector, where the bytes may be any. `ByteFifo` then promises that
the content comes first (`TakeBeyond`).

### Http, Stream

A request's text is a sequence of tokens, each one byte: a separator, or a word without separators. The parsers and both
split functions are operators with the code's searches and positions; `Hits` is a recursive function because what is passed
over after a hit is as long as the separator, whichever of its characters was hit. After a hit on the last byte `substr`
begins behind the end and throws (`SplitThrows`); nobody catches that, so it ends the process: `Throws` in `Http`,
`Terminate` in `Stream`. A parser that refuses gives the empty set.

In `Stream` a byte is its position in what the peer has sent, so that order and gaps can be seen;
`Text` says which token is there. `Chunk` and `TakeChunk` keep what `input` does: the room is counted from the write
index, the address is the read index. The properties say what a request should become (`AsSent`, in `Requests`) from the
peer's record of it, without any of the code's operators.

`PiecesUnderstood` is about the parser alone: it gives `decode` every piece of the text of a peer, where a run gives it the
pieces that its network and its buffer happen to make. The theorems of `StreamProofs` lead from the one to the other.

## 3. The runs

| Run | Instance | Checks |
|---|---|---|
| `reactor_tasks` | one caller, three tasks, vectors up to 2, the callbacks' own calls | tasks run exactly once; it is a `Mailbox`; they are served without the timeout; `stop` ends the loop |
| `reactor_fds` | two callers, a timer and another descriptor, one task, one queued deletion | no lost wake-up; each descriptor is registered as the call that counts has asked |
| `scheduler` | two reactors (both IO, or one main), two coroutines | one resume at a time; one home per descriptor; nothing stranded in the queue; a reader is resumed, and only with something to read |
| `scheduler_write` | one reactor, one coroutine | **violated**: a coroutine waiting to write is never resumed |
| `timer_hooks` | two coroutines, two events of hooks and a repeated one, intervals 1 and 2, clock to 3 | nothing lost, multimap sorted, deleted stays deleted; the callback's frame is alive, the timerfd armed, no waking early, sleepers wake |
| `logger` | three messages, limit 0, two dates | nothing lost or doubled, rotation in order, it is a `Log`, everything reaches a file |
| `logger_stop` | one message | **violated**: the joins of a stop return |
| `server` | two connections, two numbers, two buckets, two queued refreshes | numbers and sockets, the table, nobody forgotten, the wheel is an `IdleTimer`, a time-out ends the connection |
| `server_freed` | two connections, one number | **violated**: an object is destroyed after its coroutine has left it |
| `acceptor` | two IO threads, three connections, the acceptor and another user, pools of two, two Memory objects | one user per stack, marks are right; each thread has its own reactor; what can be accepted is served; the joins return |
| `buffer` | two byte values, strings up to 3, vector up to 7, lengths up to 7 | indices, room, and the refinement of `ByteFifo` |
| `stream` | TCP: buffer of 7, 10 bytes sent, 4 pieces; HTTP: four pairs of requests, buffers of 33, 30, 38 and 30, 3 pieces (2 for the last) | reads into empty buffers; what is dispatched is what was sent; every piece of the texts is understood, and `decode` throws at a stray end only; responses whole and in order |

Four properties are stated in the modules and proved, but in no run any more, since a property of the run says more:
`TasksInOrder` (of which `IsMailbox` is the outside view), `FileInOrder` (`IsLog`), `NotTimedOutEarly` (`IsIdleTimer`) and
`WholeIsAnswered` (`PiecesUnderstood`). All of them held on the same instances.

Why these bounds are enough to be interesting:

* A lost wake-up takes one caller and the loop; two callers are there so that one's eventfd write can be drained for
  the other's request. `MaxEvents` is 1 or 2, so a full batch, which leaves the wake-up for the next round, happens. With
  three tasks one can be in the loop's batch, one queued, and one queued in front by a vector.
* In `scheduler` two coroutines are the fewest that make a `fir_cor` and a second one of the batch; two threads the
  fewest that can pop from each other or allocate the queue twice.
* In `timer_hooks` the clock goes beyond the largest interval: every event can come due and the shorter ones repeat or be
  set again after that. Two coroutines are needed for one to wake from inside the batch in which the other's event is.
* In `logger` the limit is one the first message exceeds, so that two batches on one date reach a second file and a
  third one meets a new date with a number above zero; with a larger limit and three messages that does not happen.
* In `server` two connections and two numbers give both an immediate reuse of a number and two at once. Two buckets: a
  slot can be in both, in one, or only in a queued task.
* In `acceptor` three connections, the acceptor and another user over a pool of two use up the coroutines made in
  advance, which they abandon, and then fill a Memory and need a second one. Two threads are the fewest whose reactors can
  be taken for one another, and three connections go once around.
* The vector of 7 and the prefix of 2 let both ways of making room happen, with the ranges overlapping.
* Ten bytes are more than a full buffer of seven, in pieces of any size. In HTTP, three pieces cut a request in the middle and
  join its end to the next one's beginning. Two of the buffers hold one request and a part of the second, so the end of the
  buffer cuts too; the third holds both at once, the first of which has no headers. The requests have between them a query with
  a key given twice, a header given twice, a colon in a value, a body, a sign before its length, lower case, absolute urls with
  and without a path, no headers at all, and headers that end in a stray CR, at which `decode` throws.
* In `reactor_fds` one deletion and any number of additions can be swept together, in either order, by two callers and the
  loop's own callbacks: what is lost to what, and what is undone, all happens.

### Fairness

`Reactor`: the loop thread runs when it can, callbacks return, and a caller that has begun a call ends it. `Poll` is only
assumed when the eventfd is readable and `EpollTimeout` never, so that what is shown live does not lean on the timeout
or on the network. `Scheduler`: the loops run, a coroutine does not keep its thread for ever; again neither the network
nor the timeout. `Logger`: threads run; strong fairness for the two pushes, which compete for the mutex with a writer that
takes it again and again. `Server`: threads run; strong fairness for the refresh task, which waits for a main thread that
is busy with timer events from time to time, and for a refresh, whose room among the tasks is a bound of ours. `Hooks`: time passes and the thread
runs. `Acceptor`: the main thread and the IO threads run, and a loop comes to the tasks it was given; not the arrival of
connections, nor the end of the loop. Nothing else has fairness: peers, acceptors, clocks and stoppers may do nothing for ever. `CHECK_DEADLOCK FALSE` is set where a run
really ends: all connections over, the clock at its bound, the logger stopped.

### Where the code disagrees with itself

The three violations are in `PROJECT.json` under `findings`.

* `WritersResumed`: the dispatch takes an event with `EPOLLOUT` for an unknown one and unregisters the descriptor
  (`reactor.cc:202`); `coroutineHook.cc:167` says the coroutine will come back to write.
* `StopReturns`: the collector's first statement clears the flag a stop may already have set (`log.cc:310`), and
  `AsyncLogger::stop` signals without the mutex (`log.cc:180`); `Exit` joins both.
* `FreedAfterYield`: number and state say "closed" before the coroutine has yielded, so that the main thread can
  destroy the object under it (`tcpServer.cc:153`), against the comment at `tcpConnection.cc:138`.

The models contain more behaviour of this kind, which no line of the repository contradicts in words. The properties
that hold are stated around it, and say so:

* the main reactor forgets `fir_cor` when it resumes another coroutine of the batch (`reactor.cc:221`), which may starve a
  reader: `ReadersResumed` exempts it. An addition is lost to a deletion of the same sweep even if it came later
  (`reactor.cc:264`), and to an addition before it (`reactor.cc:81`): `RegisteredAsAsked` states the rule as it is. A task queue that a second thread replaces loses its content (`reactor.cc:364`).
* deleting an event that is no longer pending erases the next later one (`timer.cc:73`): `EventsConserved` exempts it. The
  timerfd is armed for the last event (`timer.cc:92`), not at all if that one is past (`timer.cc:94`), and is disarmed if it
  is due now (`timer.cc:98`), as after a `sleep(0)`; later events then do not arm it either, unless they come before all
  others (`timer.cc:52`). `TimerArmed` and `SleepersWake` exempt a timer that has stalled so; no property says that a timer is on time.
* a connect that has to wait comes back after 75 seconds, whatever the peer did (`reactor.cc:202`), and then deletes its own
  expired event, so that the next later one goes (`coroutineHook.cc:102`): `SleepersWake` exempts a sleeper whose event went so.
* every connection is given to the reactor of the IO thread that was built last (`ioThread.cc:71`), while it remembers another
  thread: `OwnReactor` says that the reactor is at least a complete one.
* an accept that fails after the acceptor was resumed leaves it unregistered for good (`tcpServer.cc:135`): `ClientsServed`
  exempts it. A destructor joins a thread for ever if `stop` came before the loop ran (`ioThread.cc:35`): `JoinReturns` exempts it.
* a request without headers is not found complete by itself (`httpCodec.cc:76`); if another comes in the same read, the
  other's lines are taken for its headers, and the other is lost: `IsAsSent` exempts its headers, and nothing says that it is answered. A chunk of one line is dispatched as an empty request
  (`httpCodec.cc:60`). The path of an absolute url loses its slash, so a servlet registered with one is not found (`httpCodec.cc:170`).
* headers that end in a stray CR or LF make `substr` throw `std::out_of_range` (`httpCodec.cc:253`), which nobody catches: the
  process ends. A stray one inside the headers swallows the character behind it. `PiecesUnderstood` says that decode
  throws at a stray end, and at no other piece of the texts. A negative Content-Length takes everything that came
  (`httpCodec.cc:98`); this is in `ParseContent`, but no peer sends one.
* `HalfClosing` may be written over `Closed` (`tcpConnection.cc:53-59`); the object then stays in the table until its
  number is used again.
* a partial write of an echo drops the rest (`tcpConnection.cc:162`). A read that fills the
  buffer exactly is followed by a read of nothing and the end of the connection (`tcpConnection.cc:126`). A request that
  arrives in two pieces is dropped (`httpCodec.cc:42`): `ParsedAsSent` and `ResponsesWhole` are about those that are answered.

## 4. What is proved

Eight modules hold the proofs. No theorem assumes more of the constants than the named assumptions of the modules it is
about: sets are any sets, bounds any numbers. No proof uses the fairness of a specification. An inductive invariant that goes beyond
a property is named here with what it adds, since that is what somebody who changes the code has to keep.

### `ReactorProofs`

From the four assumptions of `Reactor`: the timer is a descriptor, a mask is a set of events, the bounds are numbers,
tasks and descriptors are different things.

* `TypeCorrect`: `Spec => []TypeOK`. One lemma each for the initial state, the callers, the loop and the callbacks.
* `WakeInvariant`: `Spec => []WakeInv`, and `NoLostWakeupHolds` from it. `NoLostWakeup` is about `epoll_wait` only, and is
  not inductive: the step into `epoll_wait` would have nothing to rest on. `WakeInv` says, for each kind of work, from
  which place on in the loop a waiting item must have its wake-up: tasks from their swap on, requests from the sweep on,
  a stop from the check of the flag on. It also says that `m_is_looping` is false only where the loop has still to
  come by all three places, which is why `wakeup()` may skip the write. The critical steps are `WakeCheck` (the caller leaves
  without writing: then the loop is not looping) and `DrainWake` (the eventfd is emptied: then the loop is past `epoll_wait`
  and will take the tasks and sweep before it comes back).
* `RegisteredAsAskedHolds`: `Spec => []RegisteredAsAsked`, from `Worded`. The property is about descriptors nobody asks about at
  the moment, so the sweep would have nothing to rest on. `Worded` adds what is queued for the others: a deletion for those
  of which the word is "none", otherwise none, and the addition that is the word. The sweep is the step
  that matters: its additions come before its deletions.
* `ReactorIsMailbox`: `Spec => IsMailbox`, the refinement of `Mailbox`, from the place invariant and from what it says of the one
  step that starts a task: it is the first of the batch, so all that is in front of it in any of the sequences has run.
* `PlaceInvariant`, and `TasksExactlyOnceHolds` and `TasksInOrderHolds` from it. `PlaceInv` speaks of the three sequences
  by themselves and in pairs (what has run, the batch, the queue), where the properties speak of their concatenation and count
  in it. It adds that a batch is left only while it is being run: the swap overwrites nothing (`TakeTasks`).

### `SchedulerProofs`

From `NobodyAssumption`: the value for "none" is no reactor, no coroutine and no set of events.

* `ResumeInvariant`: `Spec => []ResumeInv`, and from it `OneResumeHolds`, `OneHomeHolds`, `ResumedWithDataHolds` (an action
  property) and `QueueNotStrandedHolds`. `OneResume` alone says nothing of who is about to be resumed, so it does not survive
  the step that resumes. The invariant says for each way to be resumed what it promises: a task or an entry of the batch is
  a new coroutine of that loop (`Started`), a report or `fir_cor` is a waiting reader of that loop with something to read,
  and not both (`Reported`), an entry of the shared queue is such a reader that belongs to nobody, and is there once
  (`HandedOver`). `Registered` ties the three records of a registration together, the kernel's, the `FdEvent`'s and what the
  coroutine waits for; it is why unregistering on the one loop before pushing suffices.
* `QueueNotStranded` is inductive together with the types: whoever pushes has still to go by the top of its loop, and a loop
  goes on from there only when it has seen the queue empty, or a fresh one. `Reported` says where a `fir_cor` can be left.

### `HooksProofs`

From the assumptions of `Timer` and `Hooks`: repeated events and hooks' events are disjoint sets of events, times are numbers, the
values for "off" and "nobody" are none of them.

* `HooksInvariant`: `HSpec => []HooksInv`. Its first part, `TimerInv`, is the timer's: the multimap is sorted and has no event
  twice (`Placed`); a task in `onTimer`'s vector is due, and its event is gone from the multimap unless it repeats
  (`Collected`); an added event is in the multimap or about to go back (`NotLost`). `PendingSortedHolds`,
  `EventsConservedHolds` and `DeletedStaysDeletedHolds` follow. That an event is collected once rests on the vector having it
  once, and this on the multimap being without repetitions through `Insert`, so the three are proved together.
* `TimerHolds`: the same three properties for `Spec` of `Timer`, in which anybody calls it in any order, not only the hooks.
* The rest is about coroutines, and gives `FrameAliveHolds`, `TimerArmedHolds` and `NotWokenEarlyHolds` (an action property).
  `FrameAlive` rests on `Frames` (while an event may fire its coroutine is in that very call and not yet timed out), which
  rests on the events being used once (`Used`), on the thread being in one place (`Turn`: a coroutine runs only where
  `onTimer` or the dispatch calls out), and on nobody being back from a connect but by its time-out. `InTime` says that
  the flag is set only once the event's time has come. `Armed` is `TimerArmed` extended to the places where the loop
  is not between two events.
* The lemmas at the beginning say what inserting into, removing from and cutting a sequence do to its order and its members.

### `LoggerProofs`

From the assumptions of `Logger`: the limits are numbers, "no file" is no name of a file.

* `HandsInvariant`: types, and that a thread has a batch in hand only between taking and giving it (`Hands`). Without it
  `MessagesConserved` is not inductive: a swap into a vector that still has messages would lose them.
* `MessagesConservedHolds`: for the lengths and the sets of messages of all the containers (`Counted`), whatever callers,
  collector, stopper and writer do at once, with `loopFunc` run by two of them.
* `FileInOrderHolds`: inductive with `Hands`. While nobody stops the logger only the collector fills the queue, so the five
  places a message goes through, in a row, are what was logged; the critical steps are the push (to the back of the queue) and the writer's taking
  (from its front).
* `RotationInOrderHolds`: with `Named`, which adds that the name to be opened next is not before any file written, not later than
  today, and that its predecessor is full. The overflow is the step that needs it.
* `LoggerIsLog`: `Spec => IsLog`, the refinement of `Log`. What it says beyond the properties is that every batch is a run of what
  was logged, also after a stop has begun, where `FileInOrder` says nothing. For this, `Runs` says it of the batch in each
  thread's hands and in the queue; `WriteIsStore` is the step that matters.
* The queue's batches in a row are a recursive function (`Flat`), about which `FlatAppend` and `FlatTail` say what the two ends do.
  They rest on an induction over sets of numbers (`Induct`) that is proved from a theorem about finite sets.

### `ServerProofs`

For every set of connections and numbers, any positive number of buckets and any bound of the queue.

* `SocketInvariant`: `Spec => []SocketInv`, from which `UsesOwnSocketHolds` and `SocketHasConnectionHolds` follow. Neither
  property is inductive: that a coroutine's number is its own (`Owns`) rests on nobody else closing it, that is on an open
  socket's connection being still at work, in the table and alive (`Owned`); that the table can destroy an entry when a
  number is given out again rests on a table entry being there under its own number only (`Tabled`), and that an
  accepted connection is new on its having left no trace (`Unused`). The critical steps are `CloseSocket`, after which
  another may get the number while this coroutine has two statements to go, and `Accept`, which destroys whatever the
  table had.
* `WheelInvariant`: `Spec => []WheelInv`, and `NotTimedOutEarlyHolds` from it. `WheelInv` says that the newest copy of a slot
  is in the bucket for its age and no copy in a later one; then "the last copy is gone" means that all buckets have passed
  since the last refresh. `age` is the history variable for it.
* `IdleIsWatchedHolds`: `Spec => []IdleIsWatched`, from `AllWatched`, which says of every open connection that it has a
  copy of its slot somewhere, or a refresh waiting, or is being shut down. It needs both invariants above: the copy that
  goes as the last one of its bucket is recognised as the last only because of `WheelInv`.
* `ServerIsIdleTimer`: `Spec => IsIdleTimer`, the refinement of `IdleTimer`, from both. A copy of a slot that goes is an old one,
  and the newest is elsewhere: no step of the timer. Or it is the newest: then the connection's time is up, no bucket has
  another, and only a refresh among the tasks saves it (`DropDecides`).
* `ShutdownHitsOwnHolds`: `Spec => []ShutdownHitsOwn`, from `TimeoutInv`: a connection that has not been destroyed is in the
  table under its number (`Kept`), so its number can pass to another only through `Accept`, which is on the thread that is
  busy shutting down (`Targeted`); and a slot that is alive was of an accepted connection (`Entered`).
* `TypeCorrect`: `Spec => []TypeOK`, which the first two invariants give but for three variables.

### `AcceptorProofs`

For any users, coroutines made in advance, threads and connections, finitely many of the last (`AcceptAssumption`: the kernel's
backlog is compared with their number).

* `PoolInvariant`: of `CoroutinePool`, `Spec => []PoolInv`. `Held` says that a stack is marked exactly while one user holds it,
  `Staged` what a user's stage says of its stack: who gives a stack back has either returned or, a connection, will not go on. For the
  coroutines made in advance `SlotExclusive` needs `m_is_in_cofunc`, which the pool looks at and the Memory does not.
* `AcceptInvariant`: `ASpec => []AcceptInv`, the pool's, the threads' (`ThreadInv`: the construction is one thread at a time, and
  until `KeepReactor` `t_reactor_ptr` is still that thread's) and the acceptor's in one. `SlotExclusiveHolds`,
  `MarkedIffHeldHolds` and `OwnReactorHolds` follow.
* `PoolUsed`: `ASpec => Spec`. The server's steps are steps of the pool or leave it alone, so what is proved of the pool
  holds in the server.

### `StreamProofs`

For any requests, any size of the buffers, any cut of the stream and any partial writes. Parsing is not opened: what is said
of responses holds whatever `Decode` and `Respond` give.

* `ReadsIntoEmptyBufferHolds`, from `Reading`: the read buffer starts at `kCheapPrepend` always and holds the last bytes taken
  from the socket, and it is empty wherever a read follows, unless it is full. The bug-prone line (reading at `peek()`) is harmless
  because of that only.
* `StreamInvariant`: `Spec => []StreamInv`, and `ResponsesWholeHolds` from it. `Writing` says that the write buffer is empty, and its
  indices back at the beginning, wherever a response is appended; `Answering` that what the socket has taken and what is left
  are the responses in a row, and that the requests answered were taken before what the read buffer holds now, so the next
  one lies behind them. Each member of the buffer has a lemma about its content.
* `OnlyPiecesAreParsed`: `Spec => []Parsing`. What is dispatched is what `Decode` makes of one piece of the peer's text, from the
  position the read buffer began at, without a gap; this rests on `Reading`.
* `ParsedAsSentHolds`: `Spec /\ []PiecesUnderstood => []ParsedAsSent`, and `WholeIsAnsweredHolds`: `Spec /\ []PiecesUnderstood =>
  WholeIsAnswered`, the latter of requests at which `decode` does not end the process. The hypothesis is about the parser and one
  text (it speaks of the time before anything is sent), and the run `stream` shows that its four HTTP peers satisfy it. It cannot be had for every peer: a request may have in its body what looks like
  another, at which the network may cut. So for these peers the two properties hold with any size of the buffer, any
  number of pieces and any cut, where the run has one buffer and at most three pieces for each.

### `BufferProofs`

For every set of bytes, every prefix room and initial size, and any bounds.

* `IndicesHold` and `SpaceHolds`, from the invariant `Good`: the indices are in order within the vector, and the write
  index is never below `kCheapPrepend`. The last part is what makes it inductive: without it the resize to w + n could
  leave a vector shorter than the prefix, and the next move would end outside it.
* `BufferIsFifo`: `Spec => IsFifo`, the refinement of `ByteFifo` under the mapping of the buffer to its content. Each
  member has a lemma that says what it does to the content (`RetrieveGood`, `MakeSpaceGood`, `AppendGood`, `HasWrittenGood`,
  `PrependGood`; `StringShape` for the string returned), and every call then is a step of the FIFO or a stutter.

### Only model-checked

* The liveness properties, which the prover has no means for: `TasksAreServed`, `StopEnds`, `ReadersResumed`, `SleepersWake`,
  `MessagesReachFile`, `TimedOutEnds`, `ClientsServed`, `JoinReturns`.
* `PiecesUnderstood`, which says what the parsers make of a text. They are folds and recursive functions over the text, searched
  by position: a proof for a class of texts would be an induction through each of them.
* The three violations.

## 5. What is not modelled

* Failures of `epoll_ctl`, `epoll_wait`, `eventfd`, `timerfd`, `fopen`, `mmap`: the code asserts or logs and goes on.
* Weak memory. The plain flags that threads share are a data race in C++; the models take the accesses as sequentially
  consistent, in any interleaving.
* The `m_coroutine` that one constructor of `FdEvent` leaves uninitialised (`fdEvent.cc:11`); the models take it to be null.
* `MAX_EVENTS` in `Scheduler`: a batch has everything that is ready. `Reactor` has the bound.
* The growth of `FdEventContainer`: it begins with a thousand entries, and grows under a write lock. The `RWMutex` itself.
* `connect_hook` on the main coroutine, which calls `connect` and goes on (`coroutineHook.cc:65`).
* A wall clock that is set back. `TimerEvent::wake` and `cancle`, which nobody calls.
* Calls of the pool from several threads. The server makes them from the main thread; the locks would not cover more
  (`memory.cc:33`).
* The lock and the `addTask` inside `freshTcpConnection` are one step: only the main thread takes what they add.
* The destruction of the coroutine pool and of the main reactor.
* In `Http`: numbers that do not fit an `int`, the servlets' fixed buffers. In `Acceptor`: other coroutines on the main reactor,
  next to which `fir_cor` may be forgotten.
* The formatting of log events; the signal handlers' re-raise.
* `appendInt32`, which is `append` of four bytes, and `peekInt32`.

## 6. What is left

* Larger instances: three reactors, three connections.
* A connection's coroutine (`Scheduler`) composed with the server that destroys it (`Server`); each knows of the other only
  what it needs.
* For which texts the parsers satisfy the hypotheses of `ParsedAsSentHolds`: no proof, see above, but more peers in `MCStream`
  would say more.
