-------------------------------- MODULE Http --------------------------------
(***************************************************************************)
(* The HTTP server of spserver/sphttpmsg.cpp and spserver/sphttp.cpp: the  *)
(* parser that takes requests out of the bytes of a connection, and the    *)
(* adapter that lets the user's handler answer them.                       *)
(*                                                                         *)
(* The bytes are tokens [k, m, n]: the text of a start line (m: method, n: *)
(* parameters in its URL), of a header (m: name, n: value) or of a chunk   *)
(* size (n), a byte of content, "\r" and "\n".  The parser acts on whole   *)
(* lines only, so where a text is cut makes no difference.  A header value *)
(* is a number; Chunked, KeepAlive, FormType and Other stand for texts.    *)
(***************************************************************************)
EXTENDS Integers, Sequences, FiniteSets

LOCAL INSTANCE SequencesExt

CONSTANTS
    RequestStreams,     \* bound: sequences of requests sent on a connection
    Answers             \* bound: what the handler puts into a response

VARIABLE http

Chunked == 1
KeepAlive == 1
FormType == 1
Other == 0

Tok(k, m, n) == [k |-> k, m |-> m, n |-> n]
CR == Tok("cr", "", 0)
LF == Tok("lf", "", 0)
X == Tok("x", "", 0)
Eol == <<CR, LF>>
Times(n) == [i \in 1 .. n |-> X]

\* A request on the wire: method, parameters in the URL, headers, and content
\* in one piece or in chunks of the given sizes.
Chunk(n) == <<Tok("size", "", n)>> \o Eol \o Times(n) \o Eol
OnHttpWire(r) ==
    <<Tok("start", r.method, r.query)>> \o Eol
    \o FlattenSeq([i \in DOMAIN r.headers |->
                      <<Tok("header", r.headers[i].name, r.headers[i].value)>> \o Eol])
    \o Eol
    \o (IF r.chunks = <<>> THEN Times(r.size)
        ELSE FlattenSeq([i \in DOMAIN r.chunks |-> Chunk(r.chunks[i])])
             \o <<Tok("size", "", 0)>> \o Eol \o Eol)

-----------------------------------------------------------------------------
(* SP_HttpMessage: headers are a list, looked up from the front *)

NewHttpMessage(method) ==
    [mMethod |-> method, headers |-> <<>>, mContentLength |-> 0, mParams |-> 0]

AddHeader(msg, name, value) ==
    [msg EXCEPT !.headers = Append(@, [name |-> name, value |-> value])]
Named(msg, name) == {i \in DOMAIN msg.headers : msg.headers[i].name = name}
FirstNamed(msg, name) == CHOOSE i \in Named(msg, name) : \A j \in Named(msg, name) : i <= j
RemoveHeader(msg, name) ==
    IF Named(msg, name) = {} THEN msg
    ELSE [msg EXCEPT !.headers = RemoveAt(@, FirstNamed(msg, name))]
HasHeader(msg, name) == Named(msg, name) # {}
HeaderValue(msg, name) == msg.headers[FirstNamed(msg, name)].value
Says(msg, name, value) == HasHeader(msg, name) /\ HeaderValue(msg, name) = value

AppendContent(msg, n) == [msg EXCEPT !.mContentLength = @ + n]
AddParams(msg, n) == [msg EXCEPT !.mParams = @ + n]
IsKeepAlive(msg) ==
    Says(msg, "Proxy-Connection", KeepAlive) \/ Says(msg, "Connection", KeepAlive)

-----------------------------------------------------------------------------
(* SP_HttpMsgParser *)

NewParser == [hasMessage |-> FALSE, mMessage |-> NewHttpMessage("none"), mStatus |-> "eStartLine"]

\* The length of the first line with its "\n", 0 when that has not come.
Lfs(s) == {i \in DOMAIN s : s[i] = LF}
LineLen(s) == IF Lfs(s) = {} THEN 0 ELSE CHOOSE i \in Lfs(s) : \A j \in Lfs(s) : i <= j
Rest(s, n) == SubSeq(s, n + 1, Len(s))

ParseStartLine(p, s) ==
    IF LineLen(s) = 0 THEN p
    ELSE [hasMessage |-> TRUE, mStatus |-> "eHeader",
          mMessage |-> AddParams(NewHttpMessage(s[1].m), IF s[1].k = "start" THEN s[1].n ELSE 0)]

\* A line without ":" adds nothing.
ParseHeader(msg, s) ==
    IF LineLen(s) > 0 /\ s[1].k = "header" THEN AddHeader(msg, s[1].m, s[1].n) ELSE msg

\* The header loop of append, from token at + 1 on: a line that begins with
\* "\r" or "\n" ends the headers, whether or not the line is complete.
RECURSIVE ParseHeaders(_, _, _)
ParseHeaders(p, s, at) ==
    IF p.mStatus # "eHeader" \/ at >= Len(s) THEN [p |-> p, used |-> at]
    ELSE LET rest == Rest(s, at)
             q == [p EXCEPT !.mMessage = ParseHeader(@, rest),
                            !.mStatus = IF rest[1] \in {CR, LF} THEN "eContent" ELSE @]
         IN  IF LineLen(rest) = 0 THEN [p |-> q, used |-> at]
             ELSE ParseHeaders(q, s, at + LineLen(rest))

\* The line of the last chunk completes the message; the empty line behind it
\* is not looked at.
RECURSIVE ParseChunked(_, _)
ParseChunked(r, s) ==
    LET rest == Rest(s, r.used)
        lineLen == LineLen(rest)
        contentLen == IF lineLen > 0 /\ rest[1].k = "size" THEN rest[1].n ELSE 0
        emptyLen == LineLen(Rest(rest, lineLen + contentLen))
    IN  IF contentLen > 0 /\ Len(rest) > contentLen + lineLen /\ emptyLen > 0
        THEN ParseChunked([p |-> [r.p EXCEPT !.mMessage = AppendContent(@, contentLen)],
                           used |-> r.used + lineLen + contentLen + emptyLen], s)
        ELSE IF contentLen = 0 /\ lineLen > 0
        THEN [p |-> [r.p EXCEPT !.mStatus = "eCompleted"], used |-> r.used + lineLen]
        ELSE r

\* Fault: content is taken although not all of it has come.
ParseContentEager(r, s) ==
    LET wanted == IF HasHeader(r.p.mMessage, "Content-Length")
                  THEN HeaderValue(r.p.mMessage, "Content-Length") ELSE 0
        there == Len(s) - r.used
        n == IF there < wanted THEN there ELSE wanted
    IN  [p |-> [r.p EXCEPT !.mMessage = AppendContent(@, n), !.mStatus = "eCompleted"],
         used |-> r.used + n]

ParseContent(r, s) ==
    LET wanted == IF HasHeader(r.p.mMessage, "Content-Length")
                  THEN HeaderValue(r.p.mMessage, "Content-Length") ELSE 0
        n == IF wanted > 0 /\ Len(s) - r.used >= wanted THEN wanted ELSE 0
        msg == AppendContent(r.p.mMessage, n)
    IN  [p |-> [r.p EXCEPT !.mMessage = msg,
                           !.mStatus = IF wanted = msg.mContentLength THEN "eCompleted" ELSE @],
         used |-> r.used + n]

\* The parameters of a form; every byte of content is one.
PostProcess(p) ==
    IF p.mStatus = "eCompleted" /\ Says(p.mMessage, "Content-Type", FormType)
    THEN [p EXCEPT !.mMessage = AddParams(@, @.mContentLength)] ELSE p

AppendBytes(p, s) ==
    LET q == IF p.hasMessage THEN p ELSE ParseStartLine(p, s)
        r == ParseHeaders(q, s, IF p.hasMessage THEN 0 ELSE LineLen(s))
        c == IF r.p.mStatus # "eContent" THEN r
             ELSE IF Says(r.p.mMessage, "Transfer-Encoding", Chunked) THEN ParseChunked(r, s)
             ELSE ParseContent(r, s)
    IN  IF ~q.hasMessage \/ p.mStatus = "eCompleted" THEN [p |-> p, used |-> 0]
        ELSE [c EXCEPT !.p = PostProcess(@)]

-----------------------------------------------------------------------------
(* The connection *)

\* answered: the requests given to the handler; sent: the responses on the
\* wire, headers and content; made: what the handler made of them; cut: decode()
\* was called when the last byte there was the "\r" of an empty line.
NewConnection(reqs) ==
    [reqs |-> reqs, stream |-> FlattenSeq([i \in DOMAIN reqs |-> OnHttpWire(reqs[i])]),
     arrived |-> 0, inBuffer |-> <<>>, parser |-> NewParser, running |-> FALSE, open |-> TRUE,
     cut |-> FALSE, answered |-> <<>>, made |-> <<>>, sent |-> <<>>]

HttpInit == \E reqs \in RequestStreams : http = NewConnection(reqs)

\* A read ends anywhere.
HttpArrive(i) ==
    /\ http.open
    /\ http' = [http EXCEPT !.inBuffer = @ \o SubSeq(http.stream, http.arrived + 1, i),
                            !.arrived = i]

InEmptyLine(i) == i > 1 /\ http.stream[i - 1] = LF /\ http.stream[i] = CR

\* SP_HttpRequestDecoder::decode, called while no handler runs.
HttpDecode ==
    /\ http.open /\ ~http.running /\ http.inBuffer # <<>>
    /\ LET r == AppendBytes(http.parser, http.inBuffer)
       IN  http' = [http EXCEPT !.parser = r.p, !.inBuffer = Rest(@, r.used),
                                !.running = r.p.mStatus = "eCompleted",
                                !.cut = @ \/ InEmptyLine(http.arrived)]

\* Fault: the length is added to the one that the handler has set.
FramedTwice(msg, req) ==
    LET kept == IF IsKeepAlive(req) /\ ~HasHeader(msg, "Connection")
                THEN AddHeader(msg, "Connection", KeepAlive) ELSE msg
    IN  AddHeader(kept, "Content-Length", msg.mContentLength)

\* The headers that handle() puts into a response.
Framed(msg, req) ==
    LET kept == IF IsKeepAlive(req) /\ ~HasHeader(msg, "Connection")
                THEN AddHeader(msg, "Connection", KeepAlive) ELSE msg
        sized == IF req.mMethod = "head" THEN kept
                 ELSE AddHeader(RemoveHeader(kept, "Content-Length"), "Content-Length",
                                msg.mContentLength)
        dated == AddHeader(RemoveHeader(sized, "Date"), "Date", Other)
        typed == IF HasHeader(dated, "Content-Type") THEN dated
                 ELSE AddHeader(dated, "Content-Type", Other)
    IN  AddHeader(RemoveHeader(typed, "Server"), "Server", Other)

\* SP_HttpHandlerAdapter::handle: the handler fills a response (none of it
\* content for HEAD), the content follows the headers as a block, and the
\* connection is kept if the response says so.
HttpHandle(a) ==
    /\ http.running
    /\ LET req == http.parser.mMessage
           msg == [NewHttpMessage("none") EXCEPT !.headers = a.headers,
                       !.mContentLength = IF req.mMethod = "head" THEN 0 ELSE a.size]
           out == Framed(msg, req)
       IN  http' = [http EXCEPT
             !.running = FALSE, !.parser = NewParser,
             !.open = Says(out, "Connection", KeepAlive),
             !.answered = Append(@, req), !.made = Append(@, msg.mContentLength),
             !.sent = @ \o <<[head |-> TRUE, msg |-> out]>>
                        \o [i \in 1 .. out.mContentLength |-> [head |-> FALSE, msg |-> out]]]

HttpNext ==
    \/ \E i \in (http.arrived + 1) .. Len(http.stream) : HttpArrive(i)
    \/ HttpDecode
    \/ \E a \in Answers : HttpHandle(a)

HttpSpec == HttpInit /\ [][HttpNext]_http

-----------------------------------------------------------------------------

\* What a request says, as a message.
Meant(r) ==
    LET size == IF r.chunks = <<>> THEN r.size ELSE FoldLeft(+, 0, r.chunks)
        msg == [NewHttpMessage(r.method) EXCEPT !.headers = r.headers, !.mContentLength = size]
    IN  AddParams(msg, r.query + IF Says(msg, "Content-Type", FormType) THEN size ELSE 0)

\* Nothing of the input is left for the parser to act on.
HttpQuiet ==
    /\ http.open /\ ~http.running /\ http.arrived = Len(http.stream)
    /\ http.inBuffer = <<>> \/ AppendBytes(http.parser, http.inBuffer) =
                                   [p |-> http.parser, used |-> 0]

GivenExactly ==
    LET meant == [i \in DOMAIN http.reqs |-> Meant(http.reqs[i])]
    IN  /\ IsPrefix(http.answered, meant)
        /\ HttpQuiet => http.answered = meant

\* The empty line behind a chunked body would be taken for the next request.
OnlyLastChunked == \A i \in 1 .. (Len(http.reqs) - 1) : http.reqs[i].chunks = <<>>

\* However reads cut a connection's bytes, but for a read that ends inside the
\* empty line after the headers, and with a chunked request only at the end, the
\* handler is given the requests that were sent, in order, each with its own
\* headers, content and parameters, and all of them as long as the connection is
\* kept.
RequestsExact == ~http.cut /\ OnlyLastChunked => GivenExactly

\* The same for any cut: testhttpmsg.cpp gives the parser a request byte by byte.
RequestsWhole == OnlyLastChunked => GivenExactly

\* The lengths of the responses that a client finds in the bytes sent to it:
\* it takes the first Content-Length after each head, nothing for a HEAD (reqs:
\* the requests that the server has answered).
RECURSIVE ClientReads(_, _)
ClientReads(s, reqs) ==
    IF s = <<>> THEN <<>>
    ELSE IF ~s[1].head THEN <<-1>>
    ELSE LET n == IF reqs[1].mMethod = "head" THEN 0
                  ELSE HeaderValue(s[1].msg, "Content-Length")
         IN  <<n>> \o ClientReads(Rest(s, n + 1), Tail(reqs))

\* Whatever headers the handler sets, its own length among them, the bytes of
\* all responses on one connection come apart into the responses that were
\* made, as the requests after them are answered on the same connection.
ResponsesFramed == ClientReads(http.sent, http.answered) = http.made
=============================================================================
