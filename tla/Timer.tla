-------------------------------- MODULE Timer --------------------------------
(***************************************************************************)
(* The timer of one reactor (timer/timer.cc, timer/timer.h): a multimap of *)
(* pending events keyed by arrival time over one timerfd.                  *)
(*                                                                         *)
(* Every caller in the repository is on the thread of the reactor: the     *)
(* hooks add and delete events from coroutines, which run from the         *)
(* dispatch or from inside another event's task, and the server's events   *)
(* are added before loop().  So the calls do not overlap; but the clock    *)
(* moves between any two statements, and it is read three times in one     *)
(* onTimer.                                                                *)
(*                                                                         *)
(* Operators named Bug... are mistakes the code might have had, each kept  *)
(* before the definition it would replace.  No specification uses them.    *)
(***************************************************************************)
EXTENDS Naturals, Sequences, FiniteSets, SequencesExt

CONSTANTS
    Events,      \* the TimerEvent objects, each added once
    Repeated,    \* those constructed with m_is_repeated
    Intervals,   \* the intervals callers ask for, in ticks
    MaxTime,     \* bound on the clock
    Off          \* no time: the timerfd is not armed

ASSUME RepeatedAssumption == Repeated \subseteq Events
ASSUME TimeAssumption == Intervals \subseteq Nat /\ MaxTime \in Nat /\ Off \notin Nat

VARIABLES
    now,         \* what getNowMs returns
    pending,     \* m_pending_events in the order of the multimap
    arrive,      \* m_arrive_time
    interval,    \* m_interval
    cancelled,   \* m_is_cancled
    armed,       \* when the timerfd expires, or Off
    expired,     \* it has expired and has not been read or set since
    reported,    \* epoll_wait has reported it, onTimer is about to be called
    pc,          \* where the thread is
    back,        \* where resetArriveTime returns to
    seen,        \* the time onTimer has read
    again,       \* tmp: the collected events not yet looked at for repetition
    todo         \* tmp_task: the collected tasks not yet run

\* History.
VARIABLES
    state,       \* of each event: new, added, collected (one-shot), deleted
    victims,     \* events erased by a delTimerEvent of another event
    late         \* events deleted when their task was already collected

timerfd == <<armed, expired>>
control == <<pc, back, seen, again, todo, reported>>
hist == <<state, victims, late>>
vars == <<now, pending, arrive, interval, cancelled, armed, expired, reported, pc, back,
          seen, again, todo, state, victims, late>>

Init ==
    /\ now = 0
    /\ pending = <<>>
    /\ arrive = [e \in Events |-> 0]
    /\ interval = [e \in Events |-> 0]
    /\ cancelled = [e \in Events |-> FALSE]
    /\ armed = Off
    /\ expired = FALSE
    /\ reported = FALSE
    /\ pc = "idle"
    /\ back = "idle"
    /\ seen = 0
    /\ again = <<>>
    /\ todo = <<>>
    /\ state = [e \in Events |-> "new"]
    /\ victims = {}
    /\ late = {}

-----------------------------------------------------------------------------
(* The multimap.                                                           *)

\* How many events come before or at time t: the index of the last of them.
UpTo(s, at, t) == Cardinality({i \in 1..Len(s) : at[s[i]] <= t})

\* Mistake: always at the end.
BugInsert(s, at, e) == Append(s, e)

\* emplace: behind the events of the same time.
Insert(s, at, e) == InsertAt(s, UpTo(s, at, at[e]) + 1, e)

\* Mistake: the first event of that time.
BugErasedPosition(e) ==
    Cardinality({i \in 1..Len(pending) : arrive[pending[i]] < arrive[e]}) + 1

\* The position delTimerEvent erases: the event's, or, when the search between
\* lower_bound and upper_bound ends without finding it, the one it stopped at, that is the
\* first event with a later time.  Past the end there is nothing to erase.
ErasedPosition(e) ==
    IF e \in Range(pending) THEN CHOOSE i \in 1..Len(pending) : pending[i] = e
                            ELSE UpTo(pending, arrive, arrive[e]) + 1

-----------------------------------------------------------------------------
(* Calls, from a coroutine or callback ("idle") or from a task ("task").   *)

Calling == pc \in {"idle", "task"}

\* Constructor and addTimerEvent.  The timerfd is set only for an event before all others.
AddTimerEvent(e, i) ==
    /\ Calling
    /\ state[e] = "new"
    /\ state' = [state EXCEPT ![e] = "added"]
    /\ interval' = [interval EXCEPT ![e] = i]
    /\ arrive' = [arrive EXCEPT ![e] = now + i]
    /\ pending' = Insert(pending, arrive', e)
    /\ IF pending = <<>> \/ now + i < arrive[Head(pending)]
       THEN pc' = "reset" /\ back' = pc
       ELSE UNCHANGED <<pc, back>>
    /\ UNCHANGED <<now, cancelled, timerfd, seen, again, todo, reported, victims, late>>

DelTimerEvent(e) ==
    LET i == ErasedPosition(e)
    IN  /\ Calling
        /\ state[e] \in {"added", "collected"}
        /\ state' = [state EXCEPT ![e] = "deleted"]
        /\ cancelled' = [cancelled EXCEPT ![e] = TRUE]
        /\ IF i <= Len(pending)
           THEN /\ pending' = RemoveAt(pending, i)
                /\ victims' = victims \cup ({pending[i]} \ {e})
           ELSE UNCHANGED <<pending, victims>>
        /\ late' = IF e \in Range(todo) THEN late \cup {e} ELSE late
        /\ UNCHANGED <<now, arrive, interval, timerfd, control>>

\* resetArriveTime sets the timerfd to the last pending event (rbegin).  Not when that one
\* is past; and when it is due right now the interval is zero, which disarms the timerfd.
ResetArriveTime ==
    /\ pc = "reset"
    /\ pc' = back
    /\ IF pending = <<>> \/ arrive[pending[Len(pending)]] < now
       THEN UNCHANGED timerfd
       ELSE LET last == arrive[pending[Len(pending)]]
            IN  /\ armed' = IF last = now THEN Off ELSE last
                /\ expired' = FALSE
    /\ UNCHANGED <<now, pending, arrive, interval, cancelled, reported, back, seen, again,
                   todo, hist>>

-----------------------------------------------------------------------------
(* The clock and the reactor.                                              *)

Tick ==
    /\ now < MaxTime
    /\ now' = now + 1
    /\ IF armed # Off /\ armed <= now + 1
       THEN armed' = Off /\ expired' = TRUE
       ELSE UNCHANGED timerfd
    /\ UNCHANGED <<pending, arrive, interval, cancelled, control, hist>>

\* epoll_wait reports the timerfd; other events of the same batch may be handled first.
Report ==
    /\ pc = "idle"
    /\ expired
    /\ ~reported
    /\ reported' = TRUE
    /\ UNCHANGED <<now, pending, arrive, interval, cancelled, timerfd, pc, back, seen, again,
                   todo, hist>>

-----------------------------------------------------------------------------
(* onTimer.                                                                *)

OnTimer ==
    /\ pc = "idle"
    /\ reported
    /\ reported' = FALSE
    /\ expired' = FALSE
    /\ seen' = now
    /\ pc' = "collect"
    /\ UNCHANGED <<now, pending, arrive, interval, cancelled, armed, back, again, todo, hist>>

\* Mistake: an event is taken a tick early.
BugDue == {n \in 0..Len(pending) :
             \A i \in 1..n : arrive[pending[i]] <= seen + 1 /\ ~cancelled[pending[i]]}

\* The due events up to the first that is cancelled or not due.
Due == {n \in 0..Len(pending) :
          \A i \in 1..n : arrive[pending[i]] <= seen /\ ~cancelled[pending[i]]}
DueCount == CHOOSE n \in Due : \A m \in Due : m <= n

\* Mistake: the event at which the search stopped is erased too.
BugCollect ==
    /\ pc = "collect"
    /\ again' = SubSeq(pending, 1, DueCount)
    /\ todo' = SubSeq(pending, 1, DueCount)
    /\ pending' = SubSeq(pending, DueCount + 2, Len(pending))
    /\ pc' = "again"
    /\ state' = [e \in Events |->
                   IF e \in Range(todo') \ Repeated THEN "collected" ELSE state[e]]
    /\ UNCHANGED <<now, arrive, interval, cancelled, timerfd, back, seen, reported, victims,
                   late>>

Collect ==
    /\ pc = "collect"
    /\ again' = SubSeq(pending, 1, DueCount)
    /\ todo' = SubSeq(pending, 1, DueCount)
    /\ pending' = SubSeq(pending, DueCount + 1, Len(pending))
    /\ pc' = "again"
    /\ state' = [e \in Events |->
                   IF e \in Range(todo') \ Repeated THEN "collected" ELSE state[e]]
    /\ UNCHANGED <<now, arrive, interval, cancelled, timerfd, back, seen, reported, victims,
                   late>>

\* A repeated event goes back with a new time (resetTime, which also clears the
\* cancellation), without setting the timerfd.
Repeat ==
    /\ pc = "again"
    /\ again # <<>>
    /\ LET e == Head(again)
       IN  IF e \in Repeated
           THEN /\ arrive' = [arrive EXCEPT ![e] = now + interval[e]]
                /\ cancelled' = [cancelled EXCEPT ![e] = FALSE]
                /\ pending' = Insert(pending, arrive', e)
           ELSE UNCHANGED <<arrive, cancelled, pending>>
    /\ again' = Tail(again)
    /\ UNCHANGED <<now, interval, timerfd, pc, back, seen, todo, reported, hist>>

\* Mistake: the timerfd is not set again.
BugAfterRepeat ==
    /\ pc = "again"
    /\ again = <<>>
    /\ pc' = "run"
    /\ back' = "run"
    /\ UNCHANGED <<now, pending, arrive, interval, cancelled, timerfd, seen, again, todo,
                   reported, hist>>

AfterRepeat ==
    /\ pc = "again"
    /\ again = <<>>
    /\ pc' = "reset"
    /\ back' = "run"
    /\ UNCHANGED <<now, pending, arrive, interval, cancelled, timerfd, seen, again, todo,
                   reported, hist>>

\* The tasks are run without another look at the cancellation.
RunTask ==
    /\ pc = "run"
    /\ todo # <<>>
    /\ todo' = Tail(todo)
    /\ pc' = "task"
    /\ UNCHANGED <<now, pending, arrive, interval, cancelled, timerfd, back, seen, again,
                   reported, hist>>

TaskReturn ==
    /\ pc = "task"
    /\ pc' = "run"
    /\ UNCHANGED <<now, pending, arrive, interval, cancelled, timerfd, back, seen, again,
                   todo, reported, hist>>

OnTimerEnd ==
    /\ pc = "run"
    /\ todo = <<>>
    /\ pc' = "idle"
    /\ UNCHANGED <<now, pending, arrive, interval, cancelled, timerfd, back, seen, again,
                   todo, reported, hist>>

Next ==
    \/ \E e \in Events, i \in Intervals : AddTimerEvent(e, i)
    \/ \E e \in Events : DelTimerEvent(e)
    \/ ResetArriveTime \/ Tick \/ Report
    \/ OnTimer \/ Collect \/ Repeat \/ AfterRepeat \/ RunTask \/ TaskReturn \/ OnTimerEnd

Spec == Init /\ [][Next]_vars

-----------------------------------------------------------------------------
(* Properties.                                                             *)

\* An event that was added is never lost between the multimap and onTimer's two vectors:
\* until its task has been collected or somebody erased it, it is pending, or it is a
\* repeated one about to go back.  It is never in two places.  The erase of a range that
\* the collecting loop has just walked (timer.cc:141) and the re-insertion after it.
EventsConserved ==
    \A e \in Events :
        LET inPending == {i \in 1..Len(pending) : pending[i] = e}
            inAgain == {i \in 1..Len(again) : again[i] = e /\ e \in Repeated}
        IN  /\ Cardinality(inPending) + Cardinality(inAgain) <= 1
            /\ state[e] = "added" /\ e \notin victims => inPending \cup inAgain # {}

\* The multimap stays sorted by the m_arrive_time of its events, though resetTime changes
\* that member: onTimer stops at the first event that is not due, delTimerEvent searches
\* by time, and resetArriveTime takes the last.
PendingSorted ==
    \A i, j \in 1..Len(pending) : i < j => arrive[pending[i]] <= arrive[pending[j]]

\* A deleted event stays deleted: it is not pending, and its task does not run unless
\* onTimer had collected it before (then it does: tasks are not checked again).
DeletedStaysDeleted ==
    \A e \in Events :
        state[e] = "deleted" =>
            /\ e \notin Range(pending)
            /\ e \in Range(todo) => e \in late

=============================================================================
