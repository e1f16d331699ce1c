------------------------------ MODULE BufferUse ------------------------------
(***************************************************************************)
(* A program that calls the members of one Buffer in any order, and what   *)
(* it may rely on.                                                         *)
(***************************************************************************)
EXTENDS Buffer

CONSTANTS
    kInitialSize,    \* 1024 in the code
    MaxSize,         \* bound on the size of the vector
    MaxLen           \* bound on the strings of one call

ASSUME SizeAssumption == kInitialSize \in Nat /\ MaxSize \in Nat /\ MaxLen \in Nat

VARIABLES buf, result

Strings == UNION {[1..n -> Bytes] : n \in 0..MaxLen}

Init == buf = NewBuffer(kInitialSize) /\ result = <<>>

Append1(s) ==
    /\ Len(AppendBytes(buf, s).data) <= MaxSize
    /\ buf' = AppendBytes(buf, s)
    /\ result' = <<>>

Prepend1(s) == buf' = Prepend(buf, s) /\ result' = <<>>

\* retrieve and retrieveAll: any length will do, a longer one takes everything.
Retrieve1(n) == buf' = Retrieve(buf, n) /\ result' = <<>>

\* s is put behind what is there, in the room beginWrite() and writeableBytes() tell of, and
\* hasWritten is told of n bytes: fewer, as many, or more than were put.
HasWritten1(s, n) ==
    /\ Len(s) <= WriteableBytes(buf)
    /\ buf' = HasWritten([buf EXCEPT !.data = Put(@, buf.w, s)], n)
    /\ result' = <<>>

\* retrieveAsString and retrieveAllAsString.  The length is not looked at: the string goes on
\* with what is behind the write index, and with any bytes behind the vector's end.
RetrieveAsString(n) ==
    /\ \E beyond \in [1..buf.r + n - Len(buf.data) -> Bytes] :
          result' = SubSeq(buf.data \o beyond, buf.r + 1, buf.r + n)
    /\ buf' = Retrieve(buf, n)

Next ==
    \/ \E s \in Strings : Append1(s) \/ Prepend1(s) \/ \E n \in 0..MaxLen : HasWritten1(s, n)
    \/ \E n \in 0..MaxSize : Retrieve1(n) \/ RetrieveAsString(n)

Spec == Init /\ [][Next]_<<buf, result>>

-----------------------------------------------------------------------------
(* Properties.                                                             *)

\* The indices never cross nor leave the vector, through every mix of prepends, which move
\* r below kCheapPrepend, partial reads and both kinds of making room: they are unsigned in
\* the code, and readableBytes() and writeableBytes() are their differences.
IndicesInOrder ==
    /\ buf.r <= buf.w
    /\ buf.w <= Len(buf.data)
    /\ kCheapPrepend <= Len(buf.data)

\* makeSpace gives the room that was asked for, and the bytes it moves move towards the
\* front: std::copy (buffer.h:143) allows an overlap in that direction only.
SpaceIsMade ==
    \A n \in 0..MaxLen :
        WriteableBytes(buf) < n =>
            LET b == MakeSpace(buf, n)
            IN  /\ WriteableBytes(b) >= n
                /\ ReadableBytes(buf) > 0 => b.r <= buf.r

\* The buffer is a queue of bytes: no call changes, loses or reorders the bytes of another.
Fifo == INSTANCE ByteFifo WITH content <- Content(buf)

IsFifo == Fifo!Spec

=============================================================================
