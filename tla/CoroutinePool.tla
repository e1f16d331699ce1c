---------------------------- MODULE CoroutinePool ----------------------------
(***************************************************************************)
(* Who runs on which stack: CoroutinePool (coroutinePool/coroutinePool.cc) *)
(* with its PoolSize coroutines made in advance, the Memory objects        *)
(* (coroutinePool/memory.cc) it adds when they are used up, and the entry  *)
(* and exit of a coroutine's function (coroutinePool/coroutine.cc).        *)
(*                                                                         *)
(* The pool is used as the server uses it.  A connection's function never  *)
(* returns: the coroutine yields inside it for the last time, and the      *)
(* connection gives it back shortly before or some time after that         *)
(* (tcpConnection.cc:36, 136-141).  Any other user's function returns, and *)
(* the coroutine is given back after that.  getCoroutineInstance holds the *)
(* pool's mutex throughout; it, and the few lines of backCoroutine, are    *)
(* one step each, since all calls come from the main thread.               *)
(*                                                                         *)
(* Operators named Bug... are mistakes the code might have had, each kept  *)
(* before the definition it would replace.  No specification uses them.    *)
(***************************************************************************)
EXTENDS Naturals, Sequences, FiniteSets, FiniteSetsExt

CONSTANTS
    Users,       \* those who take a coroutine, each once
    Connections, \* the users whose function never returns
    PoolSize,    \* m_pool_size, 100 in the code
    MaxMemory,   \* bound on the number of Memory objects added
    None         \* no stack

ASSUME UserAssumption == Connections \subseteq Users
ASSUME PoolAssumption == PoolSize \in Nat \ {0} /\ MaxMemory \in Nat
ASSUME NoneAssumption == None \notin Nat \X Nat

VARIABLES
    taken,       \* m_free_cors[i].second
    inCo,        \* m_is_in_cofunc of the coroutines made in advance
    bits,        \* m_blocks of the Memory objects added, in order
    stack,       \* of each user: <<0, i>> made in advance, <<m, i>> block i of Memory m
    pc,          \* what the user's coroutine is doing
    gaveBack     \* backCoroutine has been called

vars == <<taken, inCo, bits, stack, pc, gaveBack>>

Slots == 1..PoolSize

Init ==
    /\ taken = [i \in Slots |-> FALSE]
    /\ inCo = [i \in Slots |-> FALSE]
    /\ bits = <<>>
    /\ stack = [u \in Users |-> None]
    /\ pc = [u \in Users |-> "none"]
    /\ gaveBack = [u \in Users |-> FALSE]

-----------------------------------------------------------------------------
(* getCoroutineInstance, then setCallback.                                 *)

\* Mistake: only the mark is looked at.
BugFreeSlots == {i \in Slots : ~taken[i]}

FreeSlots == {i \in Slots : ~taken[i] /\ ~inCo[i]}

\* Memory::getBlock finds one in these.
Open == {m \in 1..Len(bits) : \E i \in Slots : ~bits[m][i]}

FreeBlocks(m) == {i \in Slots : ~bits[m][i]}

\* setCallback refuses a coroutine whose function is running; none is handed out.
Receive(u, where) ==
    /\ pc[u] = "none"
    /\ stack' = [stack EXCEPT ![u] = where]
    /\ pc' = [pc EXCEPT ![u] = "ready"]

GetSlot(u) ==
    /\ FreeSlots # {}
    /\ Receive(u, <<0, Min(FreeSlots)>>)
    /\ taken' = [taken EXCEPT ![Min(FreeSlots)] = TRUE]
    /\ UNCHANGED <<inCo, bits, gaveBack>>

GetBlock(u) ==
    /\ FreeSlots = {}
    /\ Open # {}
    /\ LET m == Min(Open)
           i == Min(FreeBlocks(m))
       IN  /\ Receive(u, <<m, i>>)
           /\ bits' = [bits EXCEPT ![m][i] = TRUE]
    /\ UNCHANGED <<taken, inCo, gaveBack>>

\* Mistake: the first block is not marked.
BugGrow(u) ==
    /\ FreeSlots = {}
    /\ Open = {}
    /\ Len(bits) < MaxMemory
    /\ Receive(u, <<Len(bits) + 1, 1>>)
    /\ bits' = Append(bits, [i \in Slots |-> FALSE])
    /\ UNCHANGED <<taken, inCo, gaveBack>>

\* A new Memory, of which the first block is used at once.
Grow(u) ==
    /\ FreeSlots = {}
    /\ Open = {}
    /\ Len(bits) < MaxMemory
    /\ Receive(u, <<Len(bits) + 1, 1>>)
    /\ bits' = Append(bits, [i \in Slots |-> i = 1])
    /\ UNCHANGED <<taken, inCo, gaveBack>>

-----------------------------------------------------------------------------
(* The coroutine: Resume enters CoFunction on its stack.                   *)

\* m_is_in_cofunc matters only for the coroutines made in advance: the others are new
\* objects each time.
SetInCo(u, value) ==
    inCo' = IF stack[u][1] = 0 THEN [inCo EXCEPT ![stack[u][2]] = value] ELSE inCo

Enter(u) ==
    /\ pc[u] = "ready"
    /\ pc' = [pc EXCEPT ![u] = "running"]
    /\ SetInCo(u, TRUE)
    /\ UNCHANGED <<taken, bits, stack, gaveBack>>

\* The function returns...
Return(u) ==
    /\ pc[u] = "running"
    /\ u \notin Connections
    /\ pc' = [pc EXCEPT ![u] = "returned"]
    /\ SetInCo(u, FALSE)
    /\ UNCHANGED <<taken, bits, stack, gaveBack>>

\* ...and CoFunction yields for good.
LastYield(u) ==
    /\ pc[u] = "returned"
    /\ pc' = [pc EXCEPT ![u] = "over"]
    /\ UNCHANGED <<taken, inCo, bits, stack, gaveBack>>

\* A connection's last Yield, inside its function.
Abandon(u) ==
    /\ pc[u] = "running"
    /\ u \in Connections
    /\ pc' = [pc EXCEPT ![u] = "abandoned"]
    /\ UNCHANGED <<taken, inCo, bits, stack, gaveBack>>

-----------------------------------------------------------------------------

\* backCoroutine.  Only the Memory that has the block is changed.
BackCoroutine(u) ==
    /\ ~gaveBack[u]
    /\ IF u \in Connections THEN pc[u] \in {"running", "abandoned"} ELSE pc[u] = "over"
    /\ gaveBack' = [gaveBack EXCEPT ![u] = TRUE]
    /\ LET m == stack[u][1]
           i == stack[u][2]
       IN  IF m = 0
           THEN taken' = [taken EXCEPT ![i] = FALSE] /\ UNCHANGED bits
           ELSE bits' = [bits EXCEPT ![m][i] = FALSE] /\ UNCHANGED taken
    /\ UNCHANGED <<inCo, stack, pc>>

Next ==
    \E u \in Users :
        \/ GetSlot(u) \/ GetBlock(u) \/ Grow(u)
        \/ Enter(u) \/ Return(u) \/ LastYield(u) \/ Abandon(u)
        \/ BackCoroutine(u)

Spec == Init /\ [][Next]_vars

-----------------------------------------------------------------------------
(* Properties.                                                             *)

\* The user's frames on its stack are still needed.
Occupies(u) == pc[u] \in {"ready", "running", "returned", "abandoned"}

\* No two users run on one stack, nor does one run on the stack of a coroutine that was
\* left in the middle of its function: for the coroutines made in advance, however early
\* a connection gives its coroutine back.  The first condition of coroutinePool.cc:44.
SlotExclusive ==
    \A u, v \in Users :
        u # v /\ stack[u] = stack[v] /\ stack[u] # None /\ stack[u][1] = 0 =>
            ~(Occupies(u) /\ Occupies(v))

\* A stack has one user at a time that has not given it back, and a stack that is marked
\* used has one: blocks do not leak, and none is handed out twice.
MarkedIffHeld ==
    LET Holders(s) == {u \in Users : stack[u] = s /\ ~gaveBack[u]}
    IN  /\ \A i \in Slots : Cardinality(Holders(<<0, i>>)) = (IF taken[i] THEN 1 ELSE 0)
        /\ \A m \in 1..Len(bits), i \in Slots :
              Cardinality(Holders(<<m, i>>)) = (IF bits[m][i] THEN 1 ELSE 0)

=============================================================================
