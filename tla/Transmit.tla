------------------------------ MODULE Transmit ------------------------------
(***************************************************************************)
(* SP_IOChannel::transmit of spserver/spiochannel.cpp: the messages of a   *)
(* session's outList are written with writev, as many bytes as the socket  *)
(* takes.  A message is a buffer and a list of follow blocks; mOutOffset   *)
(* remembers how much of the first message is on the wire already.         *)
(*                                                                         *)
(* A byte is <<m, i>>, the i-th byte of message m, so that the wire shows  *)
(* what was sent, in which order.  A message is its layout: the sizes of   *)
(* its buffer and of its blocks.                                           *)
(***************************************************************************)
EXTENDS Integers, Sequences

LOCAL INSTANCE SequencesExt

CONSTANTS
    Layouts,        \* the layouts of messages: sequences of sizes
    MaxMsgs,        \* bound: messages appended to the outList
    MaxIov          \* SP_MAX_IOV

\* onResponse appends no message of size 0, and the buffer is always there.
ASSUME TransmitAssumption ==
    /\ MaxMsgs \in Nat /\ MaxIov \in Nat \ {0}
    /\ \A lay \in Layouts :
          /\ lay \in Seq(Nat) /\ lay # <<>>
          /\ \E p \in DOMAIN lay : lay[p] > 0

VARIABLES
    layout,         \* the messages appended so far, in order
    outList,        \* the session's outList: the messages not yet settled
    outOffset,      \* the session's mOutOffset
    wire,           \* the bytes the socket has taken
    settled,        \* the messages given their sid as success, in order
    writing         \* transmit is under way and calls itself again

transmitVars == <<layout, outList, outOffset, wire, settled, writing>>

-----------------------------------------------------------------------------

Total(sizes) == FoldLeft(LAMBDA x, y : x + y, 0, sizes)

\* getTotalSize()
Size(m) == Total(layout[m])

\* The pieces of a message in order: where each starts, and its size.
PiecesOf(m) ==
    [p \in DOMAIN layout[m] |->
        [msg |-> m, from |-> Total(SubSeq(layout[m], 1, p - 1)), size |-> layout[m][p]]]

OutPieces == FlattenSeq([i \in DOMAIN outList |-> PiecesOf(outList[i])])

\* Fault: the offset is not set to 0 after the first piece that is sent.
GatherStuck(acc, piece) ==
    IF Len(acc.iov) >= MaxIov THEN acc
    ELSE IF acc.off >= piece.size THEN [acc EXCEPT !.off = @ - piece.size]
    ELSE [acc EXCEPT !.iov = Append(@, [msg |-> piece.msg, from |-> piece.from + acc.off,
                                        len |-> piece.size - acc.off])]

\* One piece in the loops that fill iovArray: what mOutOffset covers is skipped.
Gather(acc, piece) ==
    IF Len(acc.iov) >= MaxIov THEN acc
    ELSE IF acc.off >= piece.size THEN [acc EXCEPT !.off = @ - piece.size]
    ELSE [iov |-> Append(acc.iov, [msg |-> piece.msg, from |-> piece.from + acc.off,
                                   len |-> piece.size - acc.off]),
          off |-> 0]

IovArray == FoldLeft(Gather, [iov |-> <<>>, off |-> outOffset], OutPieces).iov

\* The bytes iovArray points to.
IovBytes ==
    FlattenSeq([i \in DOMAIN IovArray |->
        [k \in 1 .. IovArray[i].len |-> <<IovArray[i].msg, IovArray[i].from + k>>]])

\* The first n messages of the outList are covered by offset bytes.
Covered(n, offset) == offset >= Total([i \in 1 .. n |-> Size(outList[i])])

\* How many messages the loop after write_vec takes off the outList.
Taken(offset) ==
    CHOOSE n \in 0 .. Len(outList) :
        /\ \A k \in 1 .. n : Covered(k, offset)
        /\ n < Len(outList) => ~Covered(n + 1, offset)

\* What is left of the offset, for the first message that stays.
NextOffset(len) ==
    outOffset + len - Total([i \in 1 .. Taken(outOffset + len) |-> Size(outList[i])])

-----------------------------------------------------------------------------

TransmitInit ==
    /\ layout = <<>> /\ outList = <<>> /\ outOffset = 0
    /\ wire = <<>> /\ settled = <<>> /\ writing = FALSE

\* onResponse: session->getOutList()->append( msg )
AppendMsg(lay) ==
    /\ ~writing
    /\ Len(layout) < MaxMsgs
    /\ layout' = Append(layout, lay)
    /\ outList' = Append(outList, Len(layout) + 1)
    /\ UNCHANGED <<outOffset, wire, settled, writing>>

\* write_vec has written these bytes; transmit calls itself while messages are
\* left.
Transmitted(bytes) ==
    /\ outList # <<>> /\ bytes # <<>>
    /\ LET n == Taken(outOffset + Len(bytes))
       IN  /\ settled' = settled \o SubSeq(outList, 1, n)
           /\ outList' = SubSeq(outList, n + 1, Len(outList))
           /\ writing' = (n < Len(outList))
    /\ wire' = wire \o bytes
    /\ outOffset' = NextOffset(Len(bytes))
    /\ UNCHANGED layout

\* SP_DefaultIOChannel::write_vec: the socket takes len bytes.
WriteVec(len) ==
    /\ len \in 1 .. Len(IovBytes)
    /\ Transmitted(SubSeq(IovBytes, 1, len))

\* write_vec fails or would block: transmit returns.
WriteStops ==
    /\ writing
    /\ writing' = FALSE
    /\ UNCHANGED <<layout, outList, outOffset, wire, settled>>

MaxBytes == Total([m \in DOMAIN layout |-> Size(m)])

TransmitNext ==
    \/ \E lay \in Layouts : AppendMsg(lay)
    \/ \E len \in 1 .. MaxBytes : WriteVec(len)
    \/ WriteStops

TransmitSpec == TransmitInit /\ [][TransmitNext]_transmitVars

-----------------------------------------------------------------------------
(* Properties *)

MessageBytes(m) == [i \in 1 .. Size(m) |-> <<m, i>>]

Stream == FlattenSeq([m \in DOMAIN layout |-> MessageBytes(m)])

\* However the writes are cut, over part messages, empty buffers, empty blocks
\* and more pieces than SP_MAX_IOV, the peer gets the bytes of the messages in
\* order, each once: what is on the wire is a prefix of their concatenation.
StreamExact ==
    Len(wire) <= Len(Stream) /\ wire = SubSeq(Stream, 1, Len(wire))

\* The messages leave the outList in order, mOutOffset is what the wire holds
\* of the first that is left, and that one is not complete.
OffsetExact ==
    /\ settled \o outList = [m \in DOMAIN layout |-> m]
    /\ Len(wire) = Total([i \in DOMAIN settled |-> Size(settled[i])]) + outOffset
    /\ outList = <<>> => outOffset = 0
    /\ outList # <<>> => outOffset \in 0 .. (Size(Head(outList)) - 1)

\* A session that has messages always offers writev something to write: onWrite
\* would take the return value 0 for an error.
NeverEmptyWrite == outList # <<>> => IovBytes # <<>>

\* What transmit sends, keeps and settles agrees with the messages at every step.
OutputExact == StreamExact /\ OffsetExact /\ NeverEmptyWrite
=============================================================================
