------------------------------ MODULE IdleTimer ------------------------------
(***************************************************************************)
(* What the time wheel promises the connections: each has a timer that is  *)
(* put back whenever the connection is used, and that times it out, once,  *)
(* after exactly as many turns without use as the wheel has buckets,       *)
(* unless it is used again before the main thread gets to it, or is gone.  *)
(***************************************************************************)
EXTENDS Naturals

CONSTANTS
    Conns,
    Turns,       \* how long a connection may be idle
    None

VARIABLES
    idle,        \* for how many turns each connection has not been used
    timed,       \* the connections with a timer
    touched,     \* those whose use the main thread has not heard of yet
    due,         \* those whose time is up
    target,      \* the one being timed out, or None
    gone         \* the destroyed ones

vars == <<idle, timed, touched, due, target, gone>>

Init ==
    /\ idle = [k \in Conns |-> 0]
    /\ timed = {} /\ touched = {} /\ due = {} /\ gone = {}
    /\ target = None

\* The use of a new connection may be the end of others.
Touch(k) ==
    /\ touched' = touched \cup {k}
    /\ gone \subseteq gone'
    /\ UNCHANGED <<idle, timed, due, target>>

\* The main thread is not at it.
Free == due = {} /\ target = None

\* It hears of a use of k; another may be on its way.
Restart(k) ==
    /\ Free
    /\ k \in touched
    /\ idle' = [idle EXCEPT ![k] = 0]
    /\ timed' = timed \cup {k}
    /\ touched' \in {touched, touched \ {k}}
    /\ UNCHANGED <<due, target, gone>>

Turn ==
    /\ Free
    /\ idle' = [k \in Conns |-> IF idle[k] < Turns THEN idle[k] + 1 ELSE idle[k]]
    /\ due' = {k \in timed : idle'[k] = Turns}
    /\ timed' = timed \ due'
    /\ UNCHANGED <<touched, target, gone>>

Decide(k) ==
    /\ k \in due
    /\ target = None
    /\ due' = due \ {k}
    /\ target' = IF k \in touched \cup gone THEN None ELSE k
    /\ UNCHANGED <<idle, timed, touched, gone>>

Finish ==
    /\ target' = None
    /\ UNCHANGED <<idle, timed, touched, due, gone>>

Vanish ==
    /\ gone \subseteq gone'
    /\ UNCHANGED <<idle, timed, touched, due, target>>

Next ==
    \/ \E k \in Conns : Touch(k) \/ Restart(k) \/ Decide(k)
    \/ Turn \/ Finish \/ Vanish

Spec == Init /\ [][Next]_vars

=============================================================================
