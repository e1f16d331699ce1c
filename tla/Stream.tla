-------------------------------- MODULE Stream --------------------------------
(***************************************************************************)
(* The bytes of one connection: input(), execute() and output()            *)
(* (tcp/tcpConnection.cc) between the socket and the two buffers, and      *)
(* the codec and the dispatcher (module Http) in between.                  *)
(*                                                                         *)
(* A byte in the read buffer is its position in what the peer sends, which *)
(* is the text of its requests; one of a response is a line or a body.  As *)
(* TCP the server echoes.  The connection is and stays Connected.          *)
(*                                                                         *)
(* Operators named Bug... are mistakes the code might have had, each kept  *)
(* before the definition it would replace.  No specification uses them.    *)
(***************************************************************************)
EXTENDS Buffer, Requests

VARIABLES
    sent,        \* how many bytes have arrived at the socket
    pieces,      \* in how many pieces
    ended,       \* and then the peer has closed
    got,         \* how many of them the reads have taken
    rbuf,        \* m_read_buffer
    wbuf,        \* m_write_buffer
    pc,          \* where the coroutine is
    out,         \* what the socket has taken
    peer         \* which connection it is

\* History: the requests dispatched, each with the position the buffer then began at.
VARIABLE answered

vars == <<sent, pieces, ended, got, rbuf, wbuf, pc, out, peer, answered>>

Init ==
    /\ sent = 0
    /\ pieces = 0
    /\ ended = FALSE
    /\ got = 0
    /\ peer \in Peers
    /\ rbuf = NewBuffer(peer.size)
    /\ wbuf = NewBuffer(peer.size)
    /\ pc = "read"
    /\ out = <<>>
    /\ answered = <<>>

-----------------------------------------------------------------------------
(* The peer.                                                               *)

Text == TextOf(peer)

Send ==
    /\ ~ended
    /\ pieces < peer.pieces
    /\ pieces' = pieces + 1
    /\ \E n \in sent + 1..Min({peer.most, Len(Text)}) : sent' = n
    /\ UNCHANGED <<ended, got, rbuf, wbuf, pc, out, answered, peer>>

PeerCloses ==
    /\ ~ended
    /\ ended' = TRUE
    /\ UNCHANGED <<sent, pieces, got, rbuf, wbuf, pc, out, answered, peer>>

-----------------------------------------------------------------------------
(* input(): the loop around read_hook.                                     *)

\* The read is given the room behind the write index, but the address of the read index.
Chunk == Min({WriteableBytes(rbuf), sent - got})

TakeChunk ==
    /\ got' = got + Chunk
    /\ rbuf' = HasWritten([rbuf EXCEPT !.data = Put(@, rbuf.r, [i \in 1..Chunk |-> got + i])],
                          Chunk)
    /\ pc' = IF Chunk = WriteableBytes(rbuf) THEN "read" ELSE "execute"

\* The first read of the hook gives something.
ReadNow ==
    /\ pc = "read"
    /\ Chunk > 0
    /\ TakeChunk
    /\ UNCHANGED <<sent, pieces, ended, wbuf, out, answered, peer>>

\* It gives nothing, or was asked for nothing: the coroutine waits until the socket is
\* readable.
ReadWait ==
    /\ pc = "read"
    /\ Chunk = 0
    /\ pc' = "wait"
    /\ UNCHANGED <<sent, pieces, ended, got, rbuf, wbuf, out, answered, peer>>

ReadAgain ==
    /\ pc = "wait"
    /\ Chunk > 0
    /\ TakeChunk
    /\ UNCHANGED <<sent, pieces, ended, wbuf, out, answered, peer>>

\* The second read returns zero: clearClient, and the coroutine is left for good.
ReadNothing ==
    /\ pc = "wait"
    /\ (sent > got \/ ended)
    /\ Chunk = 0
    /\ pc' = "cleared"
    /\ UNCHANGED <<sent, pieces, ended, got, rbuf, wbuf, out, answered, peer>>

-----------------------------------------------------------------------------
(* execute() and output().                                                 *)

\* What the codec is given.
Received == [i \in 1..ReadableBytes(rbuf) |-> Text[Content(rbuf)[i]]]

\* One write for everything; the rest of a partial write is not tried again.
Echo ==
    /\ pc = "execute"
    /\ peer.protocol = "TCP"
    /\ \E n \in 1..ReadableBytes(rbuf) : out' = out \o SubSeq(Content(rbuf), 1, n)
    /\ rbuf' = RetrieveAll(rbuf)
    /\ pc' = "read"
    /\ UNCHANGED <<sent, pieces, ended, got, wbuf, answered, peer>>

\* Mistake: the buffer keeps a request that is not complete.
BugDispatch ==
    /\ pc = "execute"
    /\ peer.protocol = "HTTP"
    /\ ~Throws(Received)
    /\ LET found == Decode(Received)
       IN  IF found = {} THEN UNCHANGED <<rbuf, wbuf, answered>>
           ELSE \E req \in found :
                  /\ wbuf' = AppendBytes(wbuf, Encode(Respond(req)))
                  /\ answered' = Append(answered, [at |-> Content(rbuf)[1], request |-> req])
                  /\ rbuf' = RetrieveAll(rbuf)
    /\ pc' = "output"
    /\ UNCHANGED <<sent, pieces, ended, got, out, peer>>

\* decode() retrieves the whole buffer, whatever comes of it, so the loop around it ends
\* after one round.
Dispatch ==
    /\ pc = "execute"
    /\ peer.protocol = "HTTP"
    /\ ~Throws(Received)
    /\ LET found == Decode(Received)
       IN  IF found = {} THEN UNCHANGED <<wbuf, answered>>
           ELSE \E req \in found :
                  /\ wbuf' = AppendBytes(wbuf, Encode(Respond(req)))
                  /\ answered' = Append(answered, [at |-> Content(rbuf)[1], request |-> req])
    /\ rbuf' = RetrieveAll(rbuf)
    /\ pc' = "output"
    /\ UNCHANGED <<sent, pieces, ended, got, out, peer>>

\* An exception of decode() leaves the coroutine's function: std::terminate, for everybody.
Terminate ==
    /\ pc = "execute"
    /\ peer.protocol = "HTTP"
    /\ Throws(Received)
    /\ rbuf' = RetrieveAll(rbuf)
    /\ pc' = "terminated"
    /\ UNCHANGED <<sent, pieces, ended, got, wbuf, out, answered, peer>>

\* Mistake: everything is retrieved after a partial write.
BugOutput ==
    /\ pc = "output"
    /\ ReadableBytes(wbuf) > 0
    /\ \E n \in 1..ReadableBytes(wbuf) : out' = out \o SubSeq(Content(wbuf), 1, n)
    /\ wbuf' = RetrieveAll(wbuf)
    /\ UNCHANGED <<sent, pieces, ended, got, rbuf, pc, answered, peer>>

\* The loop of output(): write as much as the socket takes, until the buffer is empty.
Output ==
    /\ pc = "output"
    /\ ReadableBytes(wbuf) > 0
    /\ \E n \in 1..ReadableBytes(wbuf) :
          /\ out' = out \o SubSeq(Content(wbuf), 1, n)
          /\ wbuf' = Retrieve(wbuf, n)
    /\ UNCHANGED <<sent, pieces, ended, got, rbuf, pc, answered, peer>>

OutputEnd ==
    /\ pc = "output"
    /\ ReadableBytes(wbuf) = 0
    /\ pc' = "read"
    /\ UNCHANGED <<sent, pieces, ended, got, rbuf, wbuf, out, answered, peer>>

\* The socket has no room: write_hook waits, for ever (module Scheduler).
WriteBlocks ==
    /\ \/ pc = "execute" /\ peer.protocol = "TCP"
       \/ pc = "output" /\ ReadableBytes(wbuf) > 0
    /\ pc' = "stuck"
    /\ UNCHANGED <<sent, pieces, ended, got, rbuf, wbuf, out, answered, peer>>

Next ==
    \/ Send \/ PeerCloses
    \/ ReadNow \/ ReadWait \/ ReadAgain \/ ReadNothing
    \/ Echo \/ Dispatch \/ Terminate \/ Output \/ OutputEnd \/ WriteBlocks

Spec == Init /\ [][Next]_vars

-----------------------------------------------------------------------------
(* Properties.                                                             *)

\* A read never lands on bytes that are still to be processed, although input() reads at
\* peek(), the beginning of the readable bytes (tcpConnection.cc:104): whenever there is
\* room to read into, the buffer is empty.
ReadsIntoEmptyBuffer ==
    pc \in {"read", "wait"} /\ WriteableBytes(rbuf) > 0 => ReadableBytes(rbuf) = 0

\* The stream s is the parts, one after the other: ends says where each of them ends.
InARow(s, parts) ==
    \E ends \in [0..Len(parts) -> 0..Len(s)] :
        /\ ends[0] = 0
        /\ ends[Len(parts)] = Len(s)
        /\ \A i \in 1..Len(parts) :
              ends[i - 1] <= ends[i] /\ SubSeq(s, ends[i - 1] + 1, ends[i]) = parts[i]

Responses == [i \in 1..Len(answered) |-> Encode(Respond(answered[i].request))]

\* The responses reach the socket whole and in the order of their requests, however the
\* writes are cut (tcpConnection.cc:207); no part of the stream is answered twice.
ResponsesWhole ==
    peer.protocol = "HTTP" =>
        /\ InARow(out \o Content(wbuf), Responses)
        /\ \A i, j \in 1..Len(answered) : i < j => answered[i].at < answered[j].at

\* However the network cuts the stream, what is dispatched is a request of the peer with
\* each part as it was sent, never a piece of one taken for another: the rest of a request
\* whose beginning was dropped (httpCodec.cc:42) is not mistaken for a request.  The
\* exceptions are a chunk of one line, dispatched with nothing set (httpCodec.cc:60), and the
\* headers of a request that has none (IsAsSent).
ParsedAsSent ==
    \A i \in DOMAIN answered :
        \/ answered[i].request = NewRequest
        \/ \E q \in DOMAIN peer.requests :
              answered[i].at = Begins(peer, q) /\ IsAsSent(answered[i].request, peer.requests[q])

\* The same of the parser alone: it makes nothing else of any piece of the peer's text, also
\* of those no buffer here can hold, misses no request for what comes behind it
\* (httpCodec.cc:76), and throws at a stray end of the headers only (httpCodec.cc:253).  The
\* text is looked at before any of it is sent.
PiecesUnderstood == peer.protocol = "HTTP" /\ sent = 0 => WellSpoken(peer)

\* A request that arrives in one piece, alone or with what comes after it, is answered, if
\* the process has not ended.
\* Not one without headers, since decode() has cut off the end of the first line before it
\* looks for an empty line (httpCodec.cc:76).
WholeIsAnswered ==
    [][pc = "execute" /\ pc' = "output" =>
         \A q \in DOMAIN peer.requests :
             /\ Content(rbuf)[1] = Begins(peer, q)
             /\ ReadableBytes(rbuf) >= Len(Format(peer.requests[q]))
             /\ peer.requests[q].header # <<>>
             => Len(answered') = Len(answered) + 1]_vars

=============================================================================
