--------------------------------- MODULE Http ---------------------------------
(***************************************************************************)
(* Requests and responses of the HTTP server (http/): HttpCodec::decode    *)
(* and its helpers, the dispatcher's table, the servlets and encode.       *)
(*                                                                         *)
(* The text of a request is a sequence of tokens; a token is one byte: a   *)
(* separator, or a word (a method, a name, a number) that no separator is  *)
(* part of.  A response is a sequence of lines and the body.               *)
(*                                                                         *)
(* Operators named Bug... are mistakes the code might have had, each kept  *)
(* before the definition it would replace.  No specification uses them.    *)
(***************************************************************************)
EXTENDS Integers, Sequences, SequencesExt, TLC

CONSTANT
    Registered   \* the calls of registerHttpServlet: a sequence of <<path, servlet>>

CRLF == <<"CR", "LF">>

\* A map whose operator[] gives the empty string for a missing key.
Value(map, key) == IF key \in DOMAIN map THEN map[key] ELSE <<>>

\* Where t begins in s, 0 when it does not occur.
Find(s, t) ==
    LET at == {i \in 1..Len(s) - Len(t) + 1 : SubSeq(s, i, i + Len(t) - 1) = t}
    IN  IF at = {} THEN 0 ELSE Min(at)

From(s, i) == SubSeq(s, i, Len(s))

-----------------------------------------------------------------------------
(* Splitting.                                                              *)

\* What is split: str, with a separator at its end.
Terminated(str, split) == IF IsSuffix(split, str) THEN str ELSE str \o split

\* Where a character of split is found in it (find_first_of): after a hit, as many characters
\* as split has are passed over.
Hits(str, split) ==
    LET s == Terminated(str, split)
        from[p \in 1..Len(s) + Len(split)] ==
            LET i == SelectInSubSeq(s, p, Len(s), LAMBDA c : c \in ToSet(split))
            IN  IF i = 0 THEN <<>> ELSE <<i>> \o from[i + Len(split)]
    IN  from[1]

\* The pieces in front of the hits that are not empty.
SplitStrToVector(str, split) ==
    LET s == Terminated(str, split)
        hits == Hits(str, split)
        Begin(k) == IF k = 1 THEN 1 ELSE hits[k - 1] + Len(split)
        pieces == [k \in 1..Len(hits) |-> SubSeq(s, Begin(k), hits[k] - 1)]
    IN  SelectSeq(pieces, LAMBDA piece : piece # <<>>)

\* The last hit leaves less than a separator: substr is called with a position behind the
\* end and throws.
SplitThrows(str, split) ==
    LET hits == Hits(str, split)
    IN  hits # <<>> /\ Last(hits) + Len(split) > Len(Terminated(str, split)) + 1

\* Mistake: the value begins behind the last joiner.
BugBind(map, piece, joiner) ==
    LET j == SelectLastInSeq(piece, LAMBDA c : c = joiner)
    IN  IF j <= 1 THEN map ELSE (SubSeq(piece, 1, j - 1) :> From(piece, j + 1)) @@ map

\* A piece without the joiner, or with nothing in front of it, binds nothing.
Bind(map, piece, joiner) ==
    LET j == SelectInSeq(piece, LAMBDA c : c = joiner)
    IN  IF j <= 1 THEN map ELSE (SubSeq(piece, 1, j - 1) :> From(piece, j + 1)) @@ map

\* The bindings of str; the last one of a key stays.
SplitStrToMap(str, split, joiner) ==
    IF str = <<>> THEN <<>>
    ELSE FoldLeft(LAMBDA map, piece : Bind(map, piece, joiner), <<>>,
                  SplitStrToVector(str, split))

-----------------------------------------------------------------------------
(* Decoding.                                                               *)

\* A request as it is constructed.
NewRequest ==
    [method |-> "unset", path |-> <<>>, query |-> <<>>, version |-> <<>>, header |-> <<>>,
     body |-> <<>>, maps |-> <<>>]

\* Mistake: a word is taken as it is.
BugUpper(word) == word

Upper(word) ==
    CASE word = <<"get">> -> <<"GET">>
      [] word = <<"post">> -> <<"POST">>
      [] word = <<"http/1.1">> -> <<"HTTP/1.1">>
      [] OTHER -> word

\* What follows the host of an absolute url, without the slash; nothing for the root.
AfterHost(url) ==
    LET slash == SelectInSeq(url, LAMBDA c : c = "/")
    IN  IF slash = 0 THEN <<>> ELSE From(url, slash + 1)

TakeUrl(req, url) ==
    LET i == SelectInSeq(url, LAMBDA c : c = "?")
        query == From(url, i + 1)
    IN  IF i = 0 THEN [req EXCEPT !.path = url]
        ELSE [req EXCEPT !.path = SubSeq(url, 1, i - 1), !.query = query,
                         !.maps = SplitStrToMap(query, <<"&">>, "=")]

\* The parsers of the line and the body give the set of what they make of the request:
\* nothing when they refuse.
ParseHttpRequestLine(req, str) ==
    LET s1 == SelectInSeq(str, LAMBDA c : c = " ")
        s2 == SelectLastInSeq(str, LAMBDA c : c = " ")
        method == Upper(SubSeq(str, 1, s1 - 1))
        version == Upper(From(str, s2 + 1))
        url == SubSeq(str, s1 + 1, s2 - 1)
        scheme == Find(url, <<":", "/", "/">>)
        known == [req EXCEPT !.method = method[1], !.version = version]
    IN  IF \/ s1 = s2
           \/ method \notin {<<"GET">>, <<"POST">>}
           \/ version \notin {<<"HTTP/1.1">>, <<"HTTP/1.0">>}
           \/ scheme # 0 /\ scheme + 2 >= Len(url)
        THEN {}
        ELSE {TakeUrl(known, IF scheme = 0 THEN url ELSE AfterHost(From(url, scheme + 3)))}

ParseHttpRequestHeader(req, str) ==
    IF Len(str) < 4 THEN req
    ELSE [req EXCEPT !.header = SplitStrToMap(str, CRLF, ":") @@ @]

Digits == "0" :> 0 @@ "1" :> 1 @@ "2" :> 2 @@ "3" :> 3

\* Blanks, a sign, then digits as far as they go.
Atoi(str) ==
    LET first == SelectInSeq(str, LAMBDA c : c # " ")
        sign == IF first = 0 THEN "" ELSE str[first]
        from == IF sign \in {"+", "-"} THEN first + 1 ELSE first
        to == SelectInSubSeq(str, from, Len(str), LAMBDA c : c \notin DOMAIN Digits)
        number == IF from = 0 THEN <<>>
                  ELSE SubSeq(str, from, IF to = 0 THEN Len(str) ELSE to - 1)
        value == FoldLeft(LAMBDA n, c : 10 * n + Digits[c], 0, number)
    IN  IF sign = "-" THEN 0 - value ELSE value

\* The look at Content-Length leaves an empty entry when there was none.  Only a POST
\* takes the body; with a negative length everything that is there.
ParseContent(req, rest) ==
    LET length == Atoi(Value(req.header, <<"Content-Length">>))
        looked == [req EXCEPT !.header = @ @@ (<<"Content-Length">> :> <<>>)]
        body == IF length < 0 THEN rest ELSE SubSeq(rest, 1, length)
    IN  IF Len(rest) < length THEN {}
        ELSE {IF req.method = "POST" THEN [looked EXCEPT !.body = body] ELSE looked}

\* decode() looks for the end of the line and, in what is behind it, for an empty line; what
\* it finds if both are there and the line is a request's.
Found(strs) ==
    LET i == Find(strs, CRLF)
        rest == From(strs, i + 2)
        j == Find(rest, CRLF \o CRLF)
    IN  IF i = 0 \/ i = Len(strs) - 1 \/ j = 0 THEN {}
        ELSE {[request |-> req, header |-> SubSeq(rest, 1, j - 1), rest |-> From(rest, j + 4)] :
                 req \in ParseHttpRequestLine(NewRequest, SubSeq(strs, 1, i - 1))}

\* Nobody catches what the split of the headers throws.
Throws(strs) ==
    \E found \in Found(strs) : Len(found.header) >= 4 /\ SplitThrows(found.header, CRLF)

\* decode(), on everything the buffer held.  A line that is all there is counts as a
\* request, of which nothing is set.
Decode(strs) ==
    IF Len(strs) > 1 /\ Find(strs, CRLF) = Len(strs) - 1 THEN {NewRequest}
    ELSE IF Throws(strs) THEN {}
    ELSE UNION {ParseContent(ParseHttpRequestHeader(found.request, found.header), found.rest) :
                   found \in Found(strs)}

-----------------------------------------------------------------------------
(* The dispatcher and the servlets.                                        *)

\* m_res_code is not initialised.
NewResponse == [version |-> <<>>, code |-> "unset", info |-> "", header |-> <<>>, body |-> <<>>]

\* registerServlet: the first servlet of a path stays.
RegisterServlet(table, call) == table @@ (call[1] :> call[2])

Servlets == FoldLeft(RegisterServlet, <<>>, Registered)

HttpCodeToString(code) ==
    CASE code = "200" -> "OK" [] code = "404" -> "Not Found" [] OTHER -> "UnKonw Code"

SetHttpCode(res, code) == [res EXCEPT !.code = code, !.info = HttpCodeToString(code)]

SetHeader(res, name, value) == [res EXCEPT !.header = (name :> value) @@ @]

SetHttpBody(res, body) ==
    [SetHeader(res, "Content-Length", <<ToString(Len(body))>>) EXCEPT !.body = body]

SetCommParam(req, res) ==
    [SetHeader(res, "Connection", Value(req.header, <<"Connection">>))
       EXCEPT !.version = req.version]

HandleNotFound(res) ==
    SetHeader(SetHttpBody(SetHttpCode(res, "404"), <<"404", "Not Found">>),
              "Content-Type", <<"text/html">>)

\* TestHttpServlet of the example, which shows the id of the query; or not found.
Handle(servlet, req, res) ==
    IF servlet = "NotFound" THEN HandleNotFound(res)
    ELSE SetHttpBody(SetHeader(SetHttpCode(res, "200"), "Content-Type", <<"text/html">>),
                     <<servlet>> \o Value(req.maps, <<"id">>))

\* dispatch(): for an empty path the response stays as it was constructed.
Respond(req) ==
    LET servlet == IF req.path \in DOMAIN Servlets THEN Servlets[req.path] ELSE "NotFound"
    IN  IF req.path = <<>> THEN NewResponse
        ELSE Handle(servlet, req, SetCommParam(req, NewResponse))

\* The headers come in the order of the map's keys.
ToHttpString(header) ==
    LET Line(name) == IF name \in DOMAIN header THEN <<<<name, header[name]>>>> ELSE <<>>
    IN  Line("Connection") \o Line("Content-Length") \o Line("Content-Type")

\* encode(): what is appended to the write buffer, a line or the body at a time.
Encode(res) ==
    <<<<res.version, res.code, res.info>>>> \o ToHttpString(res.header) \o <<CRLF, res.body>>

=============================================================================
