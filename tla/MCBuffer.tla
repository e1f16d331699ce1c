------------------------------ MODULE MCBuffer ------------------------------
(* Small instances of the buffer. *)
EXTENDS BufferUse, TLC
=============================================================================
