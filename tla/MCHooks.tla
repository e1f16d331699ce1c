------------------------------ MODULE MCHooks ------------------------------
(* Small instances of the timer and the hooks that wait for it. *)
EXTENDS Hooks, TLC
=============================================================================
