---------------------------- MODULE MCReactorFds ----------------------------
(* The descriptor side of the reactor: one descriptor, one task, two callers. *)
EXTENDS Reactor, TLC

\* Clients are interchangeable.
Symmetry == Permutations(Clients)
=============================================================================
