----------------------------- MODULE TlsChannel -----------------------------
(***************************************************************************)
(* Three of the four TLS channels: SP_OpensslChannel                       *)
(* (openssl/spopenssl.cpp), SP_GnutlsChannel (gnutls/spgnutls.cpp) and     *)
(* SP_XysslChannel (xyssl/spxyssl.cpp); the fourth is in MatrixChannel.    *)
(* Each replaces init, receive and write_vec of an SP_IOChannel; transmit  *)
(* is the one of module Transmit.                                          *)
(*                                                                         *)
(* A TLS library reads whole records from the socket and keeps what        *)
(* receive did not ask for; and once a write would block, it must be       *)
(* called again with the same piece.  What a library does is modelled from *)
(* how the channels use it.                                                *)
(***************************************************************************)
EXTENDS Transmit

LOCAL INSTANCE SequencesExt

CONSTANTS
    RecordSizes,        \* sizes of the records a peer sends
    MaxRecords,         \* bound: records a peer sends
    ReceiveSize,        \* the size of the buffer in receive(): 4096
    MaxTlsMsgs          \* bound: messages appended to the outList

ASSUME TlsAssumption ==
    /\ RecordSizes \subseteq Nat \ {0} /\ ReceiveSize \in Nat \ {0}
    /\ MaxRecords \in Nat /\ MaxTlsMsgs \in Nat

VARIABLE tls

TlsLibraries == {"openssl", "gnutls", "xyssl"}

NoPiece == [msg |-> 0, from |-> 0, len |-> 0]

\* onAccept and push make the descriptor non-blocking.
NewTls(library) ==
    [library |-> library, phase |-> "new", blocking |-> FALSE,
     records |-> 0,             \* records sent so far
     socket |-> <<>>,           \* the records the socket holds
     inside |-> 0, last |-> 0,  \* bytes the library holds, of a record this long
     inBuffer |-> 0,
     retry |-> NoPiece]         \* the piece whose write would block

TlsInit == TransmitInit /\ \E lib \in TlsLibraries : tls = NewTls(lib)

Using(library, phase) == tls.library = library /\ tls.phase = phase

-----------------------------------------------------------------------------
(* init: the handshake, by the thread that runs the start task *)

Handshaken(ok, blocking) ==
    /\ tls' = [tls EXCEPT !.phase = IF ok THEN "up" ELSE "failed", !.blocking = blocking]
    /\ UNCHANGED transmitVars

\* setBlock, SSL_accept; setNonblock is reached only when it succeeds.
OpensslInit(ok) == Using("openssl", "new") /\ Handshaken(ok, ~ok)

\* setBlock, gnutls_handshake, and setNonblock as above
GnutlsInit(ok) == Using("gnutls", "new") /\ Handshaken(ok, ~ok)

\* The descriptor is left as it is: ssl_handshake is called until it does not
\* say TRY_AGAIN.
XysslInit(ok) == Using("xyssl", "new") /\ Handshaken(ok, tls.blocking)

-----------------------------------------------------------------------------
(* receive: called when the socket is readable *)

RecordArrives(n) ==
    /\ tls.phase = "up" /\ tls.records < MaxRecords
    /\ tls' = [tls EXCEPT !.records = @ + 1, !.socket = Append(@, n)]
    /\ UNCHANGED transmitVars

\* The library's read: the rest of a record before the next record.
LibraryRead(t) ==
    LET u == IF t.inside > 0 THEN t
             ELSE [t EXCEPT !.inside = Head(t.socket), !.last = Head(t.socket),
                            !.socket = Tail(@)]
        n == IF u.inside < ReceiveSize THEN u.inside ELSE ReceiveSize
    IN  [u EXCEPT !.inside = @ - n, !.inBuffer = @ + n]

Received == tls.socket # <<>> /\ tls' = LibraryRead(tls) /\ UNCHANGED transmitVars

\* A result of 0 or less, and an errno other than EAGAIN: onRead ends the session.
ReadFails == tls' = [tls EXCEPT !.phase = "end"] /\ UNCHANGED transmitVars

\* SSL_read: 0 and less is returned as it is.
OpensslReceive == Using("openssl", "up") /\ (Received \/ ReadFails)

\* gnutls_record_recv, likewise
GnutlsReceive == Using("gnutls", "up") /\ (Received \/ ReadFails)

\* ssl_read: CONN_RESET becomes 0 and every other result that is not data -1,
\* which ends the session in both cases.
XysslReceive == Using("xyssl", "up") /\ (Received \/ ReadFails)

-----------------------------------------------------------------------------
(* write_vec: one library call for each piece, up to the first short one *)

PieceBytes(p, n) == [k \in 1 .. n |-> <<p.msg, p.from + k>>]

\* The bytes written when the loop breaks at piece i, of which n were written.
Written(i, n) ==
    FlattenSeq([k \in 1 .. i |->
        PieceBytes(IovArray[k], IF k = i THEN n ELSE IovArray[k].len)])

\* The library is called with the pieces 1 .. i; the last is written in part,
\* not at all, or, when it is the last there is, whole.
TlsWriteVec(i, n) ==
    /\ tls.phase = "up" /\ outList # <<>>
    /\ i \in DOMAIN IovArray
    /\ n <= IovArray[i].len
    /\ n = IovArray[i].len => i = Len(IovArray)
    /\ tls' = [tls EXCEPT !.retry = IF n = 0 THEN IovArray[i] ELSE NoPiece]
    /\ IF Written(i, n) = <<>>
       THEN writing' = FALSE /\ UNCHANGED <<layout, outList, outOffset, wire, settled>>
       ELSE Transmitted(Written(i, n))

Whole(i, n) == i \in DOMAIN IovArray /\ n \in {0, IovArray[i].len}

\* SSL_write writes a piece or nothing of it; gnutls_record_send and ssl_write can
\* write a part.
OpensslWriteVec(i, n) == Using("openssl", "up") /\ Whole(i, n) /\ TlsWriteVec(i, n)
GnutlsWriteVec(i, n) == Using("gnutls", "up") /\ TlsWriteVec(i, n)
XysslWriteVec(i, n) == Using("xyssl", "up") /\ TlsWriteVec(i, n)

\* onResponse appends a message, between two calls of transmit.
TlsAppend(lay) ==
    /\ tls.phase = "up" /\ Len(layout) < MaxTlsMsgs
    /\ AppendMsg(lay)
    /\ UNCHANGED tls

LongestPiece == Max({0} \cup UNION {ToSet(lay) : lay \in Layouts})

TlsNext ==
    \/ \E ok \in BOOLEAN : OpensslInit(ok) \/ GnutlsInit(ok) \/ XysslInit(ok)
    \/ \E n \in RecordSizes : RecordArrives(n)
    \/ OpensslReceive \/ GnutlsReceive \/ XysslReceive
    \/ \E i \in 1 .. MaxIov, n \in 0 .. LongestPiece :
          OpensslWriteVec(i, n) \/ GnutlsWriteVec(i, n) \/ XysslWriteVec(i, n)
    \/ \E lay \in Layouts : TlsAppend(lay)

TlsSpec == TlsInit /\ [][TlsNext]_<<transmitVars, tls>>

-----------------------------------------------------------------------------
(* Properties *)

\* The piece whose write would block is the first that the next write_vec
\* offers, with the same start and length, whatever was appended meanwhile:
\* the TLS libraries accept nothing else.
RetrySame == tls.retry # NoPiece => IovArray # <<>> /\ IovArray[1] = tls.retry

\* The event loop never reads or writes a channel on a blocking descriptor.
LoopNeverBlocks == tls.phase = "up" => ~tls.blocking

\* With the socket drained, no read event comes: only the end of a record longer
\* than receive's buffer can then be inside the library.
LateOnlyLarge ==
    tls.socket = <<>> /\ tls.inside > 0 => tls.inside <= tls.last - ReceiveSize
=============================================================================
