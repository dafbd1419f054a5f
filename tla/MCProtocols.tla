---------------------------- MODULE MCProtocols ----------------------------
(***************************************************************************)
(* The data structures and the bytes: the TLC instances of SessionManager, *)
(* EventHeap, Buffer, Decoders, Smtp, Http, Transmit, TlsChannel,          *)
(* MatrixChannel and Tunnel in one run.  `part' says which of them this    *)
(* behaviour is about, and the others stay as they are.                    *)
(***************************************************************************)
EXTENDS SessionManager, EventHeap, Buffer, Decoders, Smtp, Http, MatrixChannel, Tunnel, TLC

CONSTANT Parts          \* the parts a behaviour may be about

VARIABLE part

heapVars == <<heap, popped>>
protocolVars == <<vars, heapVars, bufferVars, dec, smtpVars, http, transmitVars, tls, mx, tn, part>>

-----------------------------------------------------------------------------
(* The instances *)

\* SP_Session objects are interchangeable.
Symmetry == Permutations(Sessions)

\* Three events with one deadline each, three that can be armed again later
MCDeadlinesOf(i) == IF i < 4 THEN {i} ELSE {i, i + 2}

\* Text without a line end, a line end cut in two, more than one allocation
MCPieces == {<<"a">>, <<"b", "cr">>, <<"lf", "a", "b">>}

\* Every stream of up to five bytes, with every mix of line ends
MCLineStreams == UNION {[1 .. n -> {"x", "cr", "lf"}] : n \in 0 .. 5}

\* Lines that begin with a dot, or are one, after a first line that does not; no
\* text, an empty one, one that begins with a dot or with an empty line, and a
\* later mail or its terminator behind them
MCMails ==
    [lines : {<<a, b, c>> : a \in {<<"x">>, <<"x", "dot">>},
                            b \in {<<>>, <<"dot">>, <<"dot", "x">>, <<"dot", "dot">>},
                            c \in {<<>>, <<"dot">>, <<"x">>, <<"dot", "dot">>}},
     rest : {<<>>, <<"x">>, <<"x", "cr", "lf">>}]
    \cup
    [lines : {<<>>, <<<<>>>>, <<<<"dot">>>>, <<<<"dot", "x">>, <<"dot">>>>,
              <<<<>>, <<"dot">>>>, <<<<"x">>, <<"dot">>, <<"x">>>>},
     rest : {<<>>, <<"dot", "cr", "lf">>, <<"x", "cr", "lf", "dot", "cr", "lf">>}]

Field(n, v) == [name |-> n, value |-> v]

Request(method, query, headers, size, chunks) ==
    [method |-> method, query |-> query, headers |-> headers, size |-> size, chunks |-> chunks]

\* With and without a query, content, a form and keep-alive
MCRequests ==
    {Request("get", 1, <<Field("Connection", KeepAlive)>>, 0, <<>>),
     Request("head", 0, <<Field("Proxy-Connection", KeepAlive)>>, 0, <<>>),
     Request("post", 1, <<Field("Content-Length", 2), Field("Content-Type", FormType),
                          Field("Connection", KeepAlive)>>, 2, <<>>),
     Request("get", 0, <<>>, 0, <<>>)}

\* A chunked request
MCChunked ==
    Request("put", 0, <<Field("Connection", KeepAlive), Field("Transfer-Encoding", Chunked)>>,
            0, <<2, 1>>)

MCRequestStreams == (MCRequests \cup {MCChunked}) \X (MCRequests \cup {MCChunked})

\* What a handler may put into a response, header fields of its own too
MCAnswers ==
    [headers : {<<>>, <<Field("Content-Length", 3)>>,
                <<Field("Connection", KeepAlive), Field("Content-Type", Other)>>,
                <<Field("Connection", Other)>>},
     size : {0, 2}]

\* A buffer alone, an empty buffer with a block, an empty block in the middle
\* and at the end, and more blocks than one writev takes
MCLayouts == {<<2>>, <<0, 2>>, <<1, 0, 2>>, <<1, 1, 1, 0>>}

Record(kind, size) == [kind |-> kind, size |-> size]

\* A handshake of two records, then data that fit insock and receive's buffer or
\* do not, records without data, a second handshake, and ends of several kinds
MCPeerStreams ==
    LET shake == <<Record("hello", 0), Record("quiet", 0)>>
    IN  {shake \o <<Record("data", 3), Record("data", 1)>>,
         shake \o <<Record("hello", 0), Record("data", 1)>>,
         shake \o <<Record("data", 1), Record("alert", 0)>>,
         shake \o <<Record("data", 5)>>,
         <<Record("hello", 0), Record("alert", 0)>>}

-----------------------------------------------------------------------------

NoConnection == NewConnection(<<>>)
NoDecoder == NewDecoder("default", <<>>, NoMail)
NoTls == NewTls("openssl")
NoMatrix == NewMatrix(<<>>)
NoTunnel == NewTunnel(TunnelWorkers)

\* The parts a behaviour is not about start in one of their initial states.
ProtocolsInit ==
    /\ part \in Parts
    /\ Init /\ HeapInit /\ BufferInit /\ SmtpInit /\ TransmitInit
    /\ IF part = "decoder" THEN DecodersInit ELSE dec = NoDecoder
    /\ IF part = "http" THEN HttpInit ELSE http = NoConnection
    /\ IF part = "tls" THEN TlsInit ELSE tls = NoTls
    /\ IF part = "matrix" THEN MatrixInit ELSE mx = NoMatrix
    /\ IF part = "tunnel" THEN TunnelInit ELSE tn = NoTunnel

ProtocolsNext ==
    /\ UNCHANGED part
    /\ \/ part = "table" /\ Next
          /\ UNCHANGED <<heapVars, bufferVars, dec, smtpVars, http, transmitVars, tls, mx, tn>>
       \/ part = "heap" /\ HeapNext
          /\ UNCHANGED <<vars, bufferVars, dec, smtpVars, http, transmitVars, tls, mx, tn>>
       \/ part = "buffer" /\ BufferNext
          /\ UNCHANGED <<vars, heapVars, dec, smtpVars, http, transmitVars, tls, mx, tn>>
       \/ part = "decoder" /\ DecodersNext
          /\ UNCHANGED <<vars, heapVars, bufferVars, smtpVars, http, transmitVars, tls, mx, tn>>
       \/ part = "smtp" /\ SmtpNext
          /\ UNCHANGED <<vars, heapVars, bufferVars, dec, http, transmitVars, tls, mx, tn>>
       \/ part = "http" /\ HttpNext
          /\ UNCHANGED <<vars, heapVars, bufferVars, dec, smtpVars, transmitVars, tls, mx, tn>>
       \/ part = "transmit" /\ TransmitNext
          /\ UNCHANGED <<vars, heapVars, bufferVars, dec, smtpVars, http, tls, mx, tn>>
       \/ part = "tls" /\ TlsNext
          /\ UNCHANGED <<vars, heapVars, bufferVars, dec, smtpVars, http, mx, tn>>
       \/ part = "matrix" /\ MatrixNext
          /\ UNCHANGED <<vars, heapVars, bufferVars, dec, smtpVars, http, tls, tn>>
       \/ part = "tunnel" /\ TunnelNext
          /\ UNCHANGED <<vars, heapVars, bufferVars, dec, smtpVars, http, transmitVars, tls, mx>>

ProtocolsSpec == ProtocolsInit /\ [][ProtocolsNext]_protocolVars
=============================================================================
