----------------------------- MODULE MCAcceptor -----------------------------
(* Small instances of the server's start and of its coroutine pool. *)
EXTENDS Acceptor, TLC
=============================================================================
