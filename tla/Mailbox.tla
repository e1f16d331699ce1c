------------------------------- MODULE Mailbox -------------------------------
(***************************************************************************)
(* What a reactor promises those who hand it tasks: it starts every task   *)
(* at most once, none that nobody handed in, and those handed in one at a  *)
(* time in the order in which they came.  Tasks handed in together, in a   *)
(* vector, may cut in anywhere.                                            *)
(***************************************************************************)
EXTENDS Naturals, Sequences, Functions

CONSTANT
    Tasks        \* what may be handed in, each once

VARIABLES
    accepted,    \* the tasks handed in one at a time, in their order
    vectored,    \* the tasks handed in together with others
    started      \* the tasks started, in their order

Init == accepted = <<>> /\ vectored = {} /\ started = <<>>

Known == Range(accepted) \cup vectored

AddTask(t) ==
    /\ t \notin Known
    /\ accepted' = Append(accepted, t)
    /\ UNCHANGED <<vectored, started>>

AddTasks(T) ==
    /\ T \cap Known = {}
    /\ vectored' = vectored \cup T
    /\ UNCHANGED <<accepted, started>>

\* All that was handed in before t, one at a time as t was, has been started.
InTurn(t) ==
    \A k, l \in DOMAIN accepted :
        l < k /\ accepted[k] = t => accepted[l] \in Range(started)

Start(t) ==
    /\ t \in Known \ Range(started)
    /\ InTurn(t)
    /\ started' = Append(started, t)
    /\ UNCHANGED <<accepted, vectored>>

Next ==
    \/ \E t \in Tasks : AddTask(t) \/ Start(t)
    \/ \E T \in SUBSET Tasks : AddTasks(T)

Spec == Init /\ [][Next]_<<accepted, vectored, started>>

=============================================================================
