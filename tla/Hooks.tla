-------------------------------- MODULE Hooks --------------------------------
(***************************************************************************)
(* Coroutines that wait for time: sleep_hook and connect_hook              *)
(* (coroutineHook/coroutineHook.cc) over the timer of their reactor        *)
(* (module Timer), on the reactor's thread.                                *)
(*                                                                         *)
(* The callback of a hook's event holds a reference to is_timeout, on the  *)
(* coroutine's stack, and resumes the coroutine from inside onTimer.  The  *)
(* dispatch unregisters a descriptor that has become writable instead of   *)
(* resuming its coroutine (reactor.cc:202), so the event is the only thing *)
(* that ends a connect_hook that had to wait.                              *)
(*                                                                         *)
(* Operators named Bug... are mistakes the code might have had, each kept  *)
(* before the definition it would replace.  No specification uses them.    *)
(***************************************************************************)
EXTENDS Timer

CONSTANTS
    Coroutines,
    HookEvents,      \* the events the hooks construct, one for each call
    ConnectTimeout,  \* 75 seconds in the code
    Nobody           \* the main coroutine, and a null pointer

ASSUME HookAssumption ==
    /\ HookEvents \subseteq Events \ Repeated
    /\ ConnectTimeout \in Nat
    /\ Nobody \notin Coroutines

VARIABLES
    cur,         \* t_cur_coroutine
    call,        \* what each coroutine is doing
    tevent,      \* the event of its present call
    isTimeout,   \* and the flag on its stack
    mask         \* the events its socket is registered for, Nobody when it is not

\* History: the coroutine whose hook constructed an event.
VARIABLE cor

\* History: when resetArriveTime was last called, every pending event was due.
VARIABLE stalled

coroutines == <<cur, call, tevent, isTimeout, mask, cor>>
hvars == <<vars, coroutines, stalled>>

HInit ==
    /\ Init
    /\ cur = Nobody
    /\ call = [c \in Coroutines |-> "new"]
    /\ tevent = [c \in Coroutines |-> Nobody]
    /\ isTimeout = [c \in Coroutines |-> FALSE]
    /\ mask = [c \in Coroutines |-> Nobody]
    /\ cor = [e \in Events |-> Nobody]
    /\ stalled = FALSE

-----------------------------------------------------------------------------
(* Coroutines.                                                             *)

Running(c) == cur = c /\ call[c] = "running" /\ Calling

\* The loop resumes a coroutine for the first time.
Begin(c) ==
    /\ pc = "idle"
    /\ cur = Nobody
    /\ call[c] = "new"
    /\ cur' = c
    /\ call' = [call EXCEPT ![c] = "running"]
    /\ UNCHANGED <<vars, tevent, isTimeout, mask, cor, stalled>>

\* Its function ends, or waits for something else than time.
Finish(c) ==
    /\ Running(c)
    /\ cur' = Nobody
    /\ call' = [call EXCEPT ![c] = "over"]
    /\ UNCHANGED <<vars, tevent, isTimeout, mask, cor, stalled>>

Fresh == {e \in HookEvents : state[e] = "new"}

\* Mistake: the event is repeated.
BugAddHookEvent(c, i) ==
    LET e == CHOOSE x \in Repeated : TRUE
    IN  /\ AddTimerEvent(e, i)
        /\ tevent' = [tevent EXCEPT ![c] = e]
        /\ isTimeout' = [isTimeout EXCEPT ![c] = FALSE]
        /\ cor' = [cor EXCEPT ![e] = c]

\* A hook constructs an event and adds it; it does not matter which object it gets.
AddHookEvent(c, i) ==
    LET e == CHOOSE x \in Fresh : TRUE
    IN  /\ Fresh # {}
        /\ AddTimerEvent(e, i)
        /\ tevent' = [tevent EXCEPT ![c] = e]
        /\ isTimeout' = [isTimeout EXCEPT ![c] = FALSE]
        /\ cor' = [cor EXCEPT ![e] = c]

SleepHook(c) ==
    /\ Running(c)
    /\ \E i \in Intervals : AddHookEvent(c, i)
    /\ call' = [call EXCEPT ![c] = "sleep"]
    /\ UNCHANGED <<cur, mask, stalled>>

\* Mistake: the callback sets a copy of the flag.
BugSleepLoop(c) ==
    /\ cur = c
    /\ call[c] = "sleep"
    /\ Calling
    /\ cur' = Nobody
    /\ UNCHANGED <<vars, call, tevent, isTimeout, mask, cor, stalled>>

\* The loop around Yield, entered when the event has been added and when resumed.
SleepLoop(c) ==
    /\ cur = c
    /\ call[c] = "sleep"
    /\ Calling
    /\ IF isTimeout[c] THEN call' = [call EXCEPT ![c] = "running"] /\ UNCHANGED cur
                       ELSE cur' = Nobody /\ UNCHANGED call
    /\ UNCHANGED <<vars, tevent, isTimeout, mask, cor, stalled>>

\* EINPROGRESS: toEpoll and the time-out.  A first connect that is done, or fails, at once
\* only returns.
ConnectHook(c) ==
    /\ Running(c)
    /\ AddHookEvent(c, ConnectTimeout)
    /\ mask' = [mask EXCEPT ![c] = {"OUT"}]
    /\ call' = [call EXCEPT ![c] = "connect"]
    /\ UNCHANGED <<cur, stalled>>

ConnectYield(c) ==
    /\ cur = c
    /\ call[c] = "connect"
    /\ Calling
    /\ cur' = Nobody
    /\ call' = [call EXCEPT ![c] = "connecting"]
    /\ UNCHANGED <<vars, tevent, isTimeout, mask, cor, stalled>>

\* Back from Yield: delListenEvents leaves the descriptor registered for nothing, and
\* delTimerEvent looks for an event that is in the map only if something else has resumed
\* the coroutine.  The second connect tells the caller how the attempt went.
ConnectBack(c) ==
    /\ cur = c
    /\ call[c] = "connecting"
    /\ DelTimerEvent(tevent[c])
    /\ mask' = [mask EXCEPT ![c] = {}]
    /\ call' = [call EXCEPT ![c] = "running"]
    /\ UNCHANGED <<cur, tevent, isTimeout, cor, stalled>>

-----------------------------------------------------------------------------
(* The rest of the thread, and the clock.                                  *)

\* Other code adds and deletes events of its own, from a coroutine or a callback.
OtherCode == \A c \in Coroutines : cur = c => call[c] = "running"
OtherAdd ==
    /\ OtherCode
    /\ \E e \in Events \ HookEvents, i \in Intervals : AddTimerEvent(e, i)
    /\ UNCHANGED <<coroutines, stalled>>
OtherDelete ==
    /\ OtherCode
    /\ \E e \in Events \ HookEvents : DelTimerEvent(e)
    /\ UNCHANGED <<coroutines, stalled>>

\* The dispatch of EPOLLOUT, when the connection is made or refused.
DispatchOther(c) ==
    /\ pc = "idle"
    /\ cur = Nobody
    /\ mask[c] = {"OUT"}
    /\ mask' = [mask EXCEPT ![c] = Nobody]
    /\ UNCHANGED <<vars, cur, call, tevent, isTimeout, cor, stalled>>

\* The task of a hook's event: the time-out callback, which resumes the coroutine.
TimeoutCallback ==
    /\ RunTask
    /\ LET c == cor[Head(todo)]
       IN  IF c = Nobody THEN UNCHANGED <<cur, isTimeout>>
           ELSE cur' = c /\ isTimeout' = [isTimeout EXCEPT ![c] = TRUE]
    /\ UNCHANGED <<call, tevent, mask, cor, stalled>>

Reset ==
    /\ ResetArriveTime
    /\ stalled' = (pending # <<>> /\ arrive[Last(pending)] <= now)
    /\ UNCHANGED coroutines

\* Steps of the loop and of onTimer, in the main coroutine.
MainStep ==
    /\ cur = Nobody
    /\ \/ Report \/ OnTimer \/ Collect \/ Repeat \/ AfterRepeat \/ TaskReturn \/ OnTimerEnd
    /\ UNCHANGED <<coroutines, stalled>>

TickStep == Tick /\ UNCHANGED <<coroutines, stalled>>

ThreadStep ==
    \/ MainStep
    \/ TimeoutCallback
    \/ Reset
    \/ \E c \in Coroutines :
          SleepLoop(c) \/ ConnectYield(c) \/ ConnectBack(c) \/ Finish(c)

HNext ==
    \/ \E c \in Coroutines : \/ Begin(c) \/ SleepHook(c) \/ ConnectHook(c)
                             \/ DispatchOther(c)
    \/ OtherAdd \/ OtherDelete \/ ThreadStep \/ TickStep

\* Time passes and the thread runs.
HSpec == HInit /\ [][HNext]_hvars /\ WF_hvars(ThreadStep) /\ WF_hvars(TickStep)

-----------------------------------------------------------------------------
(* Properties.                                                             *)

\* The callback of a hook's event refers to a flag on the coroutine's stack
\* (coroutineHook.cc:88, 188).  While the event may still fire, the coroutine is in the call
\* that constructed it, and has not been resumed from it.
FrameAlive ==
    \A e \in Events :
        cor[e] # Nobody /\ e \in ToSet(pending) \cup ToSet(todo) =>
            LET c == cor[e]
            IN  /\ tevent[c] = e
                /\ call[c] \in {"sleep", "connect", "connecting"}
                /\ ~isTimeout[c]

\* No call that waits for time returns before its time: not a sleep, nor a connect that
\* did not succeed at once; however events are deleted around it.
NotWokenEarly ==
    [][\A c \in Coroutines :
         call[c] \in {"sleep", "connecting"} /\ call'[c] = "running" =>
             now >= arrive[tevent[c]]]_hvars

\* While an event is pending the timerfd is armed or its expiry is being handled, so that
\* onTimer will be called; unless resetArriveTime last found every event due, when it arms
\* nothing and no later event arms it either (timer.cc:52, 92).
TimerArmed ==
    pc = "idle" /\ pending # <<>> /\ ~stalled => armed # Off \/ expired \/ reported

\* A sleeper wakes up, unless delTimerEvent erased its event instead of another
\* (timer.cc:73), or the timer has stalled, or waits for a time past the bound.
SleepersWake ==
    \A c \in Coroutines :
        call[c] = "sleep" ~> \/ call[c] # "sleep"
                             \/ tevent[c] \in victims
                             \/ stalled
                             \/ armed # Off /\ armed > MaxTime

=============================================================================
