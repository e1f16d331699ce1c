------------------------------- MODULE ByteFifo -------------------------------
(***************************************************************************)
(* What a Buffer promises its users, as far as they look at it through its *)
(* operations: a sequence of bytes that is appended to at one end, and     *)
(* taken from, or put back to, at the other.                               *)
(***************************************************************************)
EXTENDS Naturals, Sequences

CONSTANTS Bytes, MaxLen

VARIABLES
    content,     \* the bytes written and not yet retrieved
    result       \* the bytes the last call returned

Strings == UNION {[1..n -> Bytes] : n \in 0..MaxLen}

Init == content = <<>> /\ result = <<>>

Write(s) == content' = content \o s /\ result' = <<>>

\* A prefix that does not fit is dropped.
PutBack(s) ==
    /\ content' = s \o content \/ content' = content
    /\ result' = <<>>

Take(n) ==
    /\ result' = SubSeq(content, 1, n)
    /\ content' = SubSeq(content, n + 1, Len(content))

\* Asked for more than there is: everything comes first, then other bytes, and nothing stays.
TakeBeyond ==
    /\ Len(result') > Len(content)
    /\ SubSeq(result', 1, Len(content)) = content
    /\ content' = <<>>

Drop(n) ==
    /\ content' = SubSeq(content, n + 1, Len(content))
    /\ result' = <<>>

Next ==
    \/ \E s \in Strings : Write(s) \/ PutBack(s)
    \/ \E n \in 0..Len(content) : Take(n) \/ Drop(n)
    \/ TakeBeyond

Spec == Init /\ [][Next]_<<content, result>>

=============================================================================
