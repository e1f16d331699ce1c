--------------------------- MODULE MCReactorTasks ---------------------------
(* The task side of the reactor: no descriptor but the timer's. *)
EXTENDS Reactor, TLC
=============================================================================
