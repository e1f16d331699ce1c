------------------------------ MODULE MCServer ------------------------------
(* Small instances of the server. *)
EXTENDS Server, TLC
=============================================================================
