-------------------------------- MODULE Buffer --------------------------------
(***************************************************************************)
(* The byte buffer of a connection (buffer/buffer.h): a vector with a read *)
(* and a write index, some room in front for a prefix (kCheapPrepend), and *)
(* two ways of making room at the back.  The vector's capacity beyond its  *)
(* size is not observable.  The member functions are operators on a        *)
(* record; module BufferUse checks them under any sequence of calls.       *)
(*                                                                         *)
(* Operators named Bug... are mistakes the code might have had, each kept  *)
(* before the definition it would replace.  No specification uses them.    *)
(***************************************************************************)
EXTENDS Naturals, Sequences

CONSTANTS
    Bytes,
    Zero,            \* the byte resize() fills with
    kCheapPrepend    \* 8 in the code

ASSUME ByteAssumption == Zero \in Bytes
ASSUME PrependAssumption == kCheapPrepend \in Nat

NewBuffer(n) ==
    [data |-> [i \in 1..kCheapPrepend + n |-> Zero], r |-> kCheapPrepend, w |-> kCheapPrepend]

ReadableBytes(b) == b.w - b.r

WriteableBytes(b) == Len(b.data) - b.w

PrependableBytes(b) == b.r

\* std::copy of s to the vector, from position at on.
Put(d, at, s) ==
    [i \in 1..Len(d) |-> IF i > at /\ i <= at + Len(s) THEN s[i - at] ELSE d[i]]

Content(b) == SubSeq(b.data, b.r + 1, b.w)

RetrieveAll(b) == [b EXCEPT !.r = kCheapPrepend, !.w = kCheapPrepend]

\* Mistake: the length is not compared.
BugRetrieve(b, n) == [b EXCEPT !.r = @ + n]

Retrieve(b, n) == IF n < ReadableBytes(b) THEN [b EXCEPT !.r = @ + n] ELSE RetrieveAll(b)

\* Written behind the object's back: only counted.
HasWritten(b, n) == IF n <= WriteableBytes(b) THEN [b EXCEPT !.w = @ + n] ELSE b

\* Mistake: the room in front is counted whole.
BugMakeSpace(b, n) ==
    IF WriteableBytes(b) + PrependableBytes(b) < n
    THEN [b EXCEPT !.data = [i \in 1..b.w + n |-> IF i <= Len(b.data) THEN b.data[i] ELSE Zero]]
    ELSE [data |-> Put(b.data, kCheapPrepend, Content(b)),
          r |-> kCheapPrepend,
          w |-> kCheapPrepend + ReadableBytes(b)]

\* Mistake: the indices move, the bytes do not.
BugMoveIndices(b, n) ==
    IF WriteableBytes(b) + PrependableBytes(b) < n + kCheapPrepend
    THEN [b EXCEPT !.data = [i \in 1..b.w + n |-> IF i <= Len(b.data) THEN b.data[i] ELSE Zero]]
    ELSE [b EXCEPT !.r = kCheapPrepend, !.w = kCheapPrepend + ReadableBytes(b)]

\* The vector grows, or the readable bytes move to the front.
MakeSpace(b, n) ==
    IF WriteableBytes(b) + PrependableBytes(b) < n + kCheapPrepend
    THEN [b EXCEPT !.data = [i \in 1..b.w + n |-> IF i <= Len(b.data) THEN b.data[i] ELSE Zero]]
    ELSE [data |-> Put(b.data, kCheapPrepend, Content(b)),
          r |-> kCheapPrepend,
          w |-> kCheapPrepend + ReadableBytes(b)]

EnsureWriteable(b, n) == IF WriteableBytes(b) < n THEN MakeSpace(b, n) ELSE b

AppendBytes(b, s) ==
    LET e == EnsureWriteable(b, Len(s))
    IN  [e EXCEPT !.data = Put(e.data, e.w, s), !.w = @ + Len(s)]

\* Nothing happens when there is no room in front.
Prepend(b, s) ==
    IF Len(s) <= PrependableBytes(b)
    THEN [b EXCEPT !.data = Put(b.data, b.r - Len(s), s), !.r = @ - Len(s)]
    ELSE b

=============================================================================
