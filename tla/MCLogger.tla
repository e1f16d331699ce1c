------------------------------ MODULE MCLogger ------------------------------
(* Small instances of the logger. *)
EXTENDS Logger, TLC
=============================================================================
