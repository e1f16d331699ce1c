------------------------------ MODULE Requests ------------------------------
(***************************************************************************)
(* The peers of a connection: the requests they send, as text, what the    *)
(* server is to make of each, and what it is to make of a piece of the     *)
(* text, which is all that decode() (module Http) ever sees.               *)
(***************************************************************************)
EXTENDS Http

CONSTANT
    Peers        \* what a connection may be: the protocol of the server, the buffer's size
                 \* (1024 in the code), the requests, and two bounds: how many bytes are
                 \* sent at most, and in how many pieces

ASSUME PeersAssumption ==
    \A p \in Peers : /\ p.protocol \in {"TCP", "HTTP"} /\ p.size \in Nat \ {0}
                    /\ p.most \in Nat /\ p.pieces \in Nat

-----------------------------------------------------------------------------
(* What a peer sends.                                                      *)

\* A request as text.  The url may be absolute.
Format(q) ==
    <<q.method, " ">>
      \o (IF q.absolute THEN <<"http", ":", "/", "/", "host">> ELSE <<>>) \o q.path
      \o (IF q.query = <<>> THEN <<>> ELSE <<"?">> \o q.query)
      \o <<" ", q.version>> \o CRLF
      \o FlattenSeq([i \in 1..Len(q.header) |->
                       q.header[i].name \o <<":">> \o q.header[i].value \o CRLF])
      \o CRLF \o q.body

\* All that a peer has to send.
TextOf(p) == FlattenSeq([i \in 1..Len(p.requests) |-> Format(p.requests[i])])

-----------------------------------------------------------------------------
(* What the server is to make of it.                                       *)

\* Where the request number i of a peer begins in what it sends.
Begins(p, i) == 1 + Len(FlattenSeq([k \in 1..i - 1 |-> Format(p.requests[k])]))

\* The last value given to a name.
LastOf(pairs, name) ==
    pairs[SelectLastInSeq(pairs, LAMBDA p : p.name = name)].value

\* What the server is to make of a request: the url without scheme, host and the slash
\* behind it, the last value of each header and of each parameter, the body of a POST.
AsSent(q) ==
    LET names == {q.header[i].name : i \in DOMAIN q.header}
        keys == {q.params[i].name : i \in DOMAIN q.params}
    IN  [method |-> IF q.method = "post" THEN "POST" ELSE q.method,
         path |-> IF q.absolute THEN Tail(q.path) ELSE q.path,
         query |-> q.query,
         version |-> IF q.version = "http/1.1" THEN <<"HTTP/1.1">> ELSE <<q.version>>,
         header |-> [n \in names \cup {<<"Content-Length">>} |->
                       IF n \in names THEN LastOf(q.header, n) ELSE <<>>],
         body |-> IF q.method = "GET" THEN <<>> ELSE q.body,
         maps |-> [n \in keys |-> LastOf(q.params, n)]]

\* A request with each part as it was sent.  One without headers has its line as it was sent,
\* but takes what comes behind it, up to the next empty line, for its headers: decode() has
\* cut off the end of the line before it looks for an empty one (httpCodec.cc:76).
IsAsSent(req, q) ==
    LET whole == AsSent(q)
    IN  IF q.header = <<>> THEN [req EXCEPT !.header = whole.header, !.body = whole.body] = whole
        ELSE req = whole

\* The text from position i to position j.
Piece(p, i, j) ==
    LET text == TextOf(p)
    IN  [k \in 1..j - i + 1 |-> text[i + k - 1]]

\* The last header ends in a single CR or LF, besides the end of its line.
StrayEnd(q) ==
    /\ q.header # <<>>
    /\ LET line == Last(q.header).name \o <<":">> \o Last(q.header).value
       IN  /\ Last(line) \in ToSet(CRLF)
           /\ Last(Front(line)) \notin ToSet(CRLF)

\* Of the piece from i to j decode() makes a request as it was sent, when it begins there,
\* and nothing else: not a part of one, nor two of them.  Of one line it makes a request with
\* nothing set.  A request that is whole is recognised, whatever comes behind it, unless it has
\* no headers; or the parser throws, at one whose headers have a stray end and nowhere else.
Understood(p, i, j) ==
    LET piece == Piece(p, i, j)
        made == Decode(piece)
    IN  /\ \A req \in made :
              \/ req = NewRequest
              \/ \E q \in DOMAIN p.requests :
                    i = Begins(p, q) /\ IsAsSent(req, p.requests[q])
        /\ Throws(piece) =>
              \E q \in DOMAIN p.requests : i = Begins(p, q) /\ StrayEnd(p.requests[q])
        /\ \A q \in DOMAIN p.requests :
              /\ i = Begins(p, q)
              /\ j - i + 1 >= Len(Format(p.requests[q]))
              /\ p.requests[q].header # <<>>
              => IF StrayEnd(p.requests[q]) THEN Throws(piece) ELSE made # {}

\* Every piece is understood.
WellSpoken(p) ==
    /\ Len(TextOf(p)) \in Nat
    /\ \A i \in 1..Len(TextOf(p)) : \A j \in i..Len(TextOf(p)) : Understood(p, i, j)

=============================================================================
