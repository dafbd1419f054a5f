--------------------------- MODULE MatrixChannel ---------------------------
(***************************************************************************)
(* SP_MatrixsslChannel (matrixssl/spmatrixssl.cpp) over the socket layer   *)
(* sslAccept, sslRead and sslWrite of matrixssl/sslSocket.c, which keeps   *)
(* its own buffers between the socket and MatrixSSL: insock for records    *)
(* that were fetched, inbuf for decoded data that receive had no room for, *)
(* and outsock for a record that was not sent whole.                       *)
(*                                                                         *)
(* What MatrixSSL does with a record is modelled from how sslSocket.c uses *)
(* it.  On the wire a record of n bytes has length n + 1.  receive and     *)
(* write_vec pass &errno as the status of a call, so that a call which     *)
(* returns 0 leaves errno 0, and onRead and onWrite take that for an       *)
(* error: they end the session unless it is running.                       *)
(***************************************************************************)
EXTENDS TlsChannel

LOCAL INSTANCE SequencesExt

CONSTANTS
    PeerStreams,        \* sequences of records a peer may send
    HandshakeLength,    \* the records of a stream that make the handshake
    InsockSize,         \* the first size of insock: 1024
    MaxBufSize,         \* SSL_MAX_BUF_SIZE
    FullBeforeRecord    \* whether a send can find no room for the first byte

ASSUME MatrixAssumption ==
    /\ HandshakeLength \in Nat \ {0} /\ InsockSize \in Nat \ {0} /\ MaxBufSize \in Nat
    /\ FullBeforeRecord \in BOOLEAN
    /\ \A s \in PeerStreams : \A r \in DOMAIN s :
          s[r].kind \in {"data", "quiet", "hello", "alert"} /\ s[r].size \in Nat

VARIABLE mx

NewMatrix(stream) ==
    [phase |-> "new",
     peer |-> stream, closed |-> FALSE,     \* what the peer sends, and its end
     decoded |-> 0,                         \* records decoded
     insock |-> 0, insize |-> InsockSize,   \* bytes fetched but not decoded
     inbuf |-> <<>>, inBuffer |-> <<>>,
     reading |-> TRUE,                      \* the read event is armed
     outsock |-> <<>>, outBufferCount |-> 0,
     out |-> <<>>]                          \* what the socket has taken

MatrixInit == TransmitInit /\ \E s \in PeerStreams : mx = NewMatrix(s)

-----------------------------------------------------------------------------
(* sslRead *)

RecordLength(rec) == rec.size + 1

HasRecord(m) ==
    m.decoded < Len(m.peer) /\ m.insock >= RecordLength(m.peer[m.decoded + 1])

\* What the peer has sent and recv has not fetched.
Unread(m) ==
    Total([r \in 1 .. Len(m.peer) - m.decoded |-> RecordLength(m.peer[m.decoded + r])])
        - m.insock

RecordBytes(m, r) ==
    IF m.peer[r].kind = "data" THEN [i \in 1 .. m.peer[r].size |-> <<r, i>>] ELSE <<>>

Outcome(result, m) == [result |-> result, mx |-> m]

\* Fault: what did not fit is given up with the buffer.
CopyOutOnce(m) ==
    LET n == IF Len(m.inbuf) < ReceiveSize THEN Len(m.inbuf) ELSE ReceiveSize
    IN  Outcome("data", [m EXCEPT !.inBuffer = @ \o SubSeq(m.inbuf, 1, n), !.inbuf = <<>>])

\* As much of the decoded data as receive has room for; the rest stays in inbuf.
CopyOut(m) ==
    LET n == IF Len(m.inbuf) < ReceiveSize THEN Len(m.inbuf) ELSE ReceiveSize
    IN  Outcome("data", [m EXCEPT !.inBuffer = @ \o SubSeq(m.inbuf, 1, n),
                                  !.inbuf = SubSeq(m.inbuf, n + 1, Len(m.inbuf))])

Reply == <<0, 0>>
Stray == <<0, 1>>

\* SSL_SEND_RESPONSE: what the first send does not take is sent blocking; when
\* it takes nothing, its result -1 moves the start one byte to the front.
Respond(m, full) ==
    Outcome("zero", [m EXCEPT !.out = @ \o IF full THEN <<Stray, Reply>> ELSE <<Reply>>])

\* matrixSslDecode and the switch over its result.  inbuf grows until the data
\* fits (SSL_FULL); an alert or an error is met again by every later call.
DecodeRecord(m, full) ==
    LET r == m.decoded + 1
        next == [m EXCEPT !.decoded = r, !.insock = @ - RecordLength(m.peer[r])]
    IN  CASE m.peer[r].kind = "data"  -> CopyOut([next EXCEPT !.inbuf = RecordBytes(m, r)])
          [] m.peer[r].kind = "quiet" -> Outcome("zero", next)
          [] m.peer[r].kind = "hello" -> Respond(next, full)
          [] m.peer[r].kind = "alert" -> Outcome("fail", m)

\* SSL_PARTIAL: a full insock is doubled, up to a size.
PartFull(m) == m.insock = m.insize
Grown(m) == IF PartFull(m) THEN [m EXCEPT !.insize = 2 * @] ELSE m
CannotGrow(m) == PartFull(m) /\ m.insize > MaxBufSize

\* Data left over comes first, then a record that was fetched before; only
\* then, and once, k bytes are fetched.  With none, recv says that the peer has
\* closed or reset the connection, or that it would block.
SslRead(m, k, full) ==
    IF m.inbuf # <<>> THEN CopyOut(m)
    ELSE IF HasRecord(m) THEN DecodeRecord(m, full)
    ELSE IF CannotGrow(m) THEN Outcome("fail", m)
    ELSE IF k = 0 THEN Outcome(IF m.closed THEN "fail" ELSE "again", Grown(m))
    ELSE LET fetched == [Grown(m) EXCEPT !.insock = @ + k]
         IN  IF HasRecord(fetched) THEN DecodeRecord(fetched, full)
             ELSE IF CannotGrow(fetched) THEN Outcome("fail", fetched)
             ELSE Outcome("zero", Grown(fetched))

\* What recv can return: the bytes arrive bit by bit, and insock has so much room.
CanFetch(k) == k <= Unread(mx) /\ k <= Grown(mx).insize - mx.insock

-----------------------------------------------------------------------------

PeerCloses ==
    /\ ~mx.closed /\ mx' = [mx EXCEPT !.closed = TRUE]
    /\ UNCHANGED transmitVars

\* init: setBlock, sslAccept, setNonblock.  This is one turn of sslAccept's loop;
\* the descriptor blocks, so recv returns nothing only when the peer has closed.
SslAccept(k, full) ==
    /\ mx.phase = "new" /\ CanFetch(k)
    /\ k = 0 => mx.closed
    /\ full => FullBeforeRecord
    /\ LET read == SslRead(mx, k, full)
           done == read.mx.decoded >= HandshakeLength
       IN  mx' = [read.mx EXCEPT !.phase =
                    IF read.result = "fail" THEN "failed" ELSE IF done THEN "up" ELSE "new"]
    /\ UNCHANGED transmitVars

\* matrixSslNewSession fails.
NoSession ==
    /\ mx = NewMatrix(mx.peer)
    /\ mx' = [mx EXCEPT !.phase = "failed"]
    /\ UNCHANGED transmitVars

\* onRead with receive: data and EAGAIN keep the read event.  Anything else ends
\* the session or, when it is running, leaves the event to onResponse.
MatrixReceive(k, full) ==
    /\ mx.phase = "up" /\ mx.reading /\ ~writing
    /\ Unread(mx) > 0 \/ mx.closed
    /\ CanFetch(k)
    /\ full => FullBeforeRecord
    /\ LET read == SslRead(mx, k, full)
       IN  IF read.result \in {"data", "again"} THEN mx' = read.mx
           ELSE \/ mx' = [read.mx EXCEPT !.phase = "end"]
                \/ mx' = [read.mx EXCEPT !.reading = FALSE]
    /\ UNCHANGED transmitVars

-----------------------------------------------------------------------------
(* sslWrite and write_vec *)

Encoded(p) == Append(PieceBytes(p, p.len), <<p.msg, 0>>)

\* Fault: the record is encoded again although a part of it has been sent.
ToSendAgain(m, p) == m.outsock \o Encoded(p)

\* What sslWrite sends for a piece: the rest of its record, or a new one.
ToSend(m, p) == IF m.outBufferCount = 0 THEN m.outsock \o Encoded(p) ELSE m.outsock

\* The socket takes k bytes; if it takes none, outBufferCount stays as it is.
SslWrite(m, p, k) ==
    LET buf == ToSend(m, p)
    IN  [m EXCEPT !.out = @ \o SubSeq(buf, 1, k),
                  !.outsock = SubSeq(buf, k + 1, Len(buf)),
                  !.outBufferCount = IF k = 0 THEN @ ELSE IF k = Len(buf) THEN 0 ELSE p.len]

SslWriteWhole(m, p) == SslWrite(m, p, Len(ToSend(m, p)))

\* onWrite with transmit and write_vec: the pieces before i are written whole, and
\* of piece i the socket takes k bytes.  sslWrite returns 0 with errno 0 for a
\* part, which ends the session if nothing was written before.
MatrixWriteVec(i, k) ==
    /\ mx.phase = "up" /\ outList # <<>> /\ i \in DOMAIN IovArray
    /\ LET before == FoldLeft(SslWriteWhole, mx, SubSeq(IovArray, 1, i - 1))
           length == Len(ToSend(before, IovArray[i]))
           after == SslWrite(before, IovArray[i], k)
           bytes == Written(i, IF k = length THEN IovArray[i].len ELSE 0)
       IN  /\ k <= length
           /\ k = length => i = Len(IovArray)
           /\ k = 0 => FullBeforeRecord \/ before.outBufferCount > 0
           /\ IF bytes # <<>> THEN Transmitted(bytes) /\ mx' = after
              ELSE /\ writing' = FALSE
                   /\ UNCHANGED <<layout, outList, outOffset, wire, settled>>
                   /\ \/ mx' = after
                      \/ k > 0 /\ ~writing /\ mx' = [after EXCEPT !.phase = "end"]

\* The record cannot be encoded or the socket fails.
MatrixWriteFails ==
    /\ mx.phase = "up" /\ outList # <<>>
    /\ mx' = IF writing THEN mx ELSE [mx EXCEPT !.phase = "end"]
    /\ writing' = FALSE /\ UNCHANGED <<layout, outList, outOffset, wire, settled>>

\* onResponse appends a message, and arms the read event of the session the
\* response comes from.
MatrixOnResponse(lay, own) ==
    /\ mx.phase = "up" /\ Len(layout) < MaxTlsMsgs
    /\ AppendMsg(lay)
    /\ mx' = [mx EXCEPT !.reading = @ \/ own]

MatrixNext ==
    \/ PeerCloses \/ NoSession \/ MatrixWriteFails
    \/ \E k \in 0 .. 2 * mx.insize, full \in BOOLEAN :
          SslAccept(k, full) \/ MatrixReceive(k, full)
    \/ \E i \in 1 .. MaxIov, k \in 0 .. Len(mx.outsock) + LongestPiece + 1 :
          MatrixWriteVec(i, k)
    \/ \E lay \in Layouts, own \in BOOLEAN : MatrixOnResponse(lay, own)

MatrixSpec == MatrixInit /\ [][MatrixNext]_<<transmitVars, mx>>

-----------------------------------------------------------------------------
(* Properties *)

PayloadOf(bytes) == SelectSeq(bytes, LAMBDA b : b[1] > 0 /\ b[2] > 0)

\* The data in the records the peer gets are the messages, in order and once:
\* write_vec called again after a short write must neither repeat nor skip data.
MatrixStream == IsPrefix(PayloadOf(mx.out), Stream)

\* Whatever was written in part, in this transmit or in an earlier one, is the
\* record of the piece that the next write_vec offers first, and of that length,
\* or sslWrite would refuse it; and transmit has counted all the rest.
PartIsFirstPiece ==
    LET sent == PayloadOf(mx.out \o mx.outsock)
    IN  /\ mx.phase # "new" /\ mx.outBufferCount = 0 => sent = wire
        /\ mx.outBufferCount > 0 =>
              /\ IovArray # <<>> /\ mx.outBufferCount = IovArray[1].len
              /\ sent = wire \o PieceBytes(IovArray[1], IovArray[1].len)

\* The session gets the data of the records decoded so far, in order and once,
\* however they were cut by recv, by insock and by the buffer of receive.
MatrixReads ==
    mx.inBuffer \o mx.inbuf = FlattenSeq([r \in 1 .. mx.decoded |-> RecordBytes(mx, r)])

\* What the event loop and the peer rely on when a channel is a TLS channel, with
\* the three libraries of TlsChannel and with sslSocket.c.
TlsExact ==
    /\ RetrySame /\ LoopNeverBlocks /\ LateOnlyLarge
    /\ MatrixStream /\ PartIsFirstPiece /\ MatrixReads
=============================================================================
