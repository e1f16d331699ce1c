------------------------------ MODULE MCStream ------------------------------
(* Small instances of a connection's byte streams. *)
EXTENDS Stream

\* A read buffer holds positions of the stream, a write buffer tokens.
Positions == Nat

\* Two servlets, the second of which comes too late for its path.
Calls == <<<<<<"/", "test">>, "First">>, <<<<"/", "test">>, "Second">>>>

H(name, value) == [name |-> <<name>>, value |-> value]

\* GET /test?id=1&id=2 with a header given twice and a colon in a value.
Echo1 ==
    [method |-> "GET", absolute |-> FALSE, path |-> <<"/", "test">>,
     query |-> <<"id", "=", "1", "&", "id", "=", "2">>,
     params |-> <<H("id", <<"1">>), H("id", <<"2">>)>>,
     version |-> "HTTP/1.1",
     header |-> <<H("Host", <<"a">>), H("Host", <<" ", "a", ":", "1">>)>>, body |-> <<>>]

\* A POST with a body, in lower case, and a sign in front of its length.
Post ==
    [method |-> "post", absolute |-> FALSE, path |-> <<"/">>, query |-> <<>>, params |-> <<>>,
     version |-> "HTTP/1.0", header |-> <<H("Content-Length", <<" ", "+", "2">>)>>,
     body |-> <<"x", "CR">>]

\* An absolute url, to its root.
Root ==
    [method |-> "GET", absolute |-> TRUE, path |-> <<"/">>, query |-> <<>>, params |-> <<>>,
     version |-> "HTTP/1.1", header |-> <<H("Connection", <<" ", "close">>)>>, body |-> <<>>]

\* No headers.
Bare ==
    [method |-> "GET", absolute |-> TRUE, path |-> <<"/", "test">>, query |-> <<>>,
     params |-> <<>>, version |-> "HTTP/1.1", header |-> <<>>, body |-> <<>>]

\* A header line with a stray end.
Stray ==
    [method |-> "GET", absolute |-> FALSE, path |-> <<"/", "test">>, query |-> <<>>,
     params |-> <<>>, version |-> "HTTP/1.1", header |-> <<H("Host", <<"a", "CR">>)>>,
     body |-> <<>>]

\* An absolute url to a path.
Absolute ==
    [method |-> "GET", absolute |-> TRUE, path |-> <<"/", "test">>, query |-> <<>>,
     params |-> <<>>, version |-> "http/1.1", header |-> <<H("Connection", <<" ", "close">>)>>,
     body |-> <<>>]

HttpPeer(size, requests) ==
    [protocol |-> "HTTP", size |-> size, requests |-> requests, most |-> 100, pieces |-> 3]

ThePeers ==
    {[protocol |-> "TCP", size |-> 7, most |-> 10, pieces |-> 4,
      requests |-> <<Post>>],
     HttpPeer(33, <<Echo1, Post>>), HttpPeer(30, <<Post, Root>>), HttpPeer(38, <<Bare, Absolute>>),
     [HttpPeer(30, <<Root, Stray>>) EXCEPT !.pieces = 2]}

=============================================================================
