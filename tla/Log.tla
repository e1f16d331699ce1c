--------------------------------- MODULE Log ---------------------------------
(***************************************************************************)
(* What the asynchronous logger promises those who log and those who read  *)
(* its files: messages are written a run at a time, as they were logged,   *)
(* each once, in files whose names do not go back; and, until somebody     *)
(* stops the logger, the runs follow each other.                           *)
(***************************************************************************)
EXTENDS Naturals, Sequences

CONSTANTS
    Messages,    \* what may be logged, each once
    Dates        \* the dates that files may have

VARIABLES
    accepted,    \* the messages logged, in their order
    records,     \* the messages in the files, each with the date and number of its file
    stopping     \* somebody is stopping the logger

Init == accepted = <<>> /\ records = <<>> /\ stopping = FALSE

Accept(m) ==
    /\ \A i \in 1..Len(accepted) : accepted[i] # m
    /\ accepted' = Append(accepted, m)
    /\ UNCHANGED <<records, stopping>>

NotAfter(f, g) == f[1] < g[1] \/ (f[1] = g[1] /\ f[2] <= g[2])

\* The messages behind the first i, up to the j-th, go to the file f.
Store(i, j, f) ==
    /\ \A k \in i + 1..j, n \in 1..Len(records) : records[n].msg # accepted[k]
    /\ \A n \in 1..Len(records) : NotAfter(records[n].file, f)
    /\ ~stopping => i = Len(records)
    /\ records' = records \o [k \in 1..j - i |-> [msg |-> accepted[i + k], file |-> f]]
    /\ UNCHANGED <<accepted, stopping>>

Stop == stopping' = TRUE /\ UNCHANGED <<accepted, records>>

\* A number is used only after a message under the one before.
Next ==
    \/ \E m \in Messages : Accept(m)
    \/ \E i, j \in 0..Len(accepted), f \in Dates \X (0..Len(accepted)) : Store(i, j, f)
    \/ Stop

Spec == Init /\ [][Next]_<<accepted, records, stopping>>

=============================================================================
