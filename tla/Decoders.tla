------------------------------ MODULE Decoders ------------------------------
(***************************************************************************)
(* The message decoders of spserver/spmsgdecoder.cpp.  The bytes of a      *)
(* connection arrive in pieces of any size and are appended to inBuffer;   *)
(* decode() is called after a read and after a response, and takes at most *)
(* one message (MultiLine: every complete line) out of inBuffer.           *)
(*                                                                         *)
(* A byte is one of "x", "dot", "cr", "lf"; a behaviour is about one       *)
(* stream and one decoder.  The chunk decoder keeps what it has read in a  *)
(* list of chunks, and looks for the terminator across the last two.       *)
(***************************************************************************)
EXTENDS Bytes

LOCAL INSTANCE SequencesExt

CONSTANTS
    LineStreams,    \* bound: the byte streams for the line decoders
    Mails,          \* bound: the mails, [lines, rest]: text lines, next bytes
    ChunkMin,       \* MAX_SIZE_PER_CHUNK - 4096: at least 5, see Straddling
    MayBeFull       \* inBuffer may be full when decode() calls getBuffer

ASSUME DecodersAssumption == ChunkMin \in Nat /\ ChunkMin >= 5 /\ MayBeFull \in BOOLEAN

VARIABLE dec

CrLf == <<"cr", "lf">>
CrLfDot == <<"cr", "lf", "dot", "cr", "lf">>
LfDot == <<"lf", "dot", "lf">>

\* A mail on the wire: a dot that begins a line is doubled, "." ends the mail.
Stuff(line) == IF line # <<>> /\ line[1] = "dot" THEN <<"dot">> \o line ELSE line
Body(lines) == FlattenSeq([i \in 1 .. (2 * Len(lines) - 1) |->
                   IF i % 2 = 0 THEN CrLf ELSE lines[(i + 1) \div 2]])
OnWire(mail) ==
    (IF mail.lines = <<>> THEN <<"dot", "cr", "lf">>
     ELSE Body([i \in DOMAIN mail.lines |-> Stuff(mail.lines[i])]) \o CrLfDot) \o mail.rest

NewDecoder(kind, stream, mail) ==
    [kind |-> kind, stream |-> stream, mail |-> mail, todo |-> stream,
     inBuffer |-> <<>>, mList |-> <<>>, out |-> <<>>]

NoMail == [lines |-> <<>>, rest |-> <<>>]

DecodersInit ==
    \/ \E kind \in {"default", "line", "multi"}, s \in LineStreams :
          dec = NewDecoder(kind, s, NoMail)
    \/ \E kind \in {"dot", "chunk"}, mail \in Mails : dec = NewDecoder(kind, OnWire(mail), mail)

Arrive(n) ==
    /\ n <= Len(dec.todo)
    /\ dec' = [dec EXCEPT !.inBuffer = @ \o SubSeq(dec.todo, 1, n), !.todo = After(@, n)]

-----------------------------------------------------------------------------
(* The decoders of lines *)

DefaultDecode ==
    /\ dec.kind = "default" /\ dec.inBuffer # <<>>
    /\ dec' = [dec EXCEPT !.out = Append(@, dec.inBuffer), !.inBuffer = <<>>]

LineDecode ==
    /\ dec.kind = "line" /\ HasLine(dec.inBuffer)
    /\ dec' = [dec EXCEPT !.out = Append(@, LineOf(dec.inBuffer)),
                          !.inBuffer = After(@, LineEnd(dec.inBuffer))]

RECURSIVE AllLines(_)
AllLines(d) ==
    IF ~HasLine(d.inBuffer) THEN d
    ELSE AllLines([d EXCEPT !.out = Append(@, LineOf(d.inBuffer)),
                            !.inBuffer = After(@, LineEnd(d.inBuffer))])

MultiLineDecode ==
    /\ dec.kind = "multi" /\ HasLine(dec.inBuffer)
    /\ dec' = AllLines(dec)

-----------------------------------------------------------------------------
(* The decoders of mails; the caller changes the decoder after a message *)

\* 'remove with the "\n.."': the first byte is never looked at.
Unstuff(s) ==
    FoldLeft(LAMBDA acc, i : IF i > 1 /\ s[i] = "dot" /\ s[i - 1] = "lf" THEN acc
                             ELSE Append(acc, s[i]),
             <<>>, [i \in 1 .. Len(s) |-> i])

FindEnd(s) == IF Find(s, CrLfDot) > 0 THEN Find(s, CrLfDot) ELSE Find(s, LfDot)

\* The bytes of the terminator at pos.  getBuffer() makes room for a 0 between
\* the search and this comparison: in a full buffer that moves the content, pos
\* points to other bytes and the answer can be either.
TermLens(s, pos) ==
    IF MayBeFull THEN {3, 5} ELSE {IF IsAt(s, pos, LfDot) THEN 3 ELSE 5}

DotTermDecode ==
    /\ dec.kind = "dot" /\ dec.out = <<>> /\ FindEnd(dec.inBuffer) > 0
    /\ LET pos == FindEnd(dec.inBuffer)
       IN  \E len \in TermLens(dec.inBuffer, pos) :
             dec' = [dec EXCEPT !.out = <<Unstuff(SubSeq(dec.inBuffer, 1, pos - 1))>>,
                                !.inBuffer = After(@, pos - 1 + len)]

\* getMsg: the chunks put together, and the list emptied.
GetMsg(d) == [d EXCEPT !.out = <<Unstuff(FlattenSeq(d.mList))>>, !.mList = <<>>]

\* Fault: the bytes before the cut are taken from one place too late.
StraddlingShort(d) ==
    SubSeq(Last(d.mList), Len(Last(d.mList)) - 2, Len(Last(d.mList))) \o Upto(d.inBuffer, 5)

\* The last five bytes of the last chunk with the first five of inBuffer.
Straddling(d) ==
    SubSeq(Last(d.mList), Len(Last(d.mList)) - 4, Len(Last(d.mList))) \o Upto(d.inBuffer, 5)

ChunkWhole ==
    LET pos == FindEnd(dec.inBuffer)
    IN  /\ pos > 0
        /\ \E len \in TermLens(dec.inBuffer, pos) :
             dec' = GetMsg([dec EXCEPT
                 !.mList = IF pos = 1 THEN @ ELSE Append(@, SubSeq(dec.inBuffer, 1, pos - 1)),
                 !.inBuffer = After(@, pos - 1 + len)])

ChunkStraddled ==
    /\ FindEnd(dec.inBuffer) = 0 /\ dec.mList # <<>>
    /\ LET pos == FindEnd(Straddling(dec))
           prevLen == 5 - (pos - 1)
           lastLen == (IF IsAt(Straddling(dec), pos, LfDot) THEN 3 ELSE 5) - prevLen
           prev == Last(dec.mList)
       IN  /\ pos > 0
           /\ dec' = GetMsg([dec EXCEPT
                 !.mList = Append(Front(@), SubSeq(prev, 1, Len(prev) - prevLen)),
                 !.inBuffer = After(@, lastLen)])

ChunkKept ==
    /\ FindEnd(dec.inBuffer) = 0
    /\ dec.mList # <<>> => FindEnd(Straddling(dec)) = 0
    /\ Len(dec.inBuffer) >= ChunkMin
    /\ dec' = [dec EXCEPT !.mList = Append(@, dec.inBuffer), !.inBuffer = <<>>]

DotTermChunkDecode ==
    /\ dec.kind = "chunk" /\ dec.out = <<>> /\ dec.inBuffer # <<>>
    /\ ChunkWhole \/ ChunkStraddled \/ ChunkKept

Decode ==
    \/ DefaultDecode \/ LineDecode \/ MultiLineDecode
    \/ DotTermDecode \/ DotTermChunkDecode

DecodersNext == (\E n \in 1 .. Len(dec.todo) : Arrive(n)) \/ Decode
DecodersSpec == DecodersInit /\ [][DecodersNext]_dec

-----------------------------------------------------------------------------

\* The non-empty lines of a stream that have their end of line.
WholeLines(s) ==
    LET starts == {i \in 1 .. Len(s) : ~IsEol(s[i]) /\ (i = 1 \/ IsEol(s[i - 1]))
                                       /\ \E j \in (i + 1) .. Len(s) : IsEol(s[j])}
        at == SetToSortSeq(starts, <)
    IN  [k \in DOMAIN at |-> LineOf(After(s, at[k] - 1))]

NonEmpty(lines) == SelectSeq(lines, LAMBDA l : l # <<>>)
Quiet == dec.todo = <<>> /\ ~HasLine(dec.inBuffer)

\* However reads cut the stream, also between "\r" and "\n", the line decoders
\* hand on the lines of the stream, whole and in order (a cut may add an empty
\* one), and in the end all of them; the default decoder loses no byte.
LinesExact ==
    /\ dec.kind \in {"line", "multi"} =>
          /\ IsPrefix(NonEmpty(dec.out), WholeLines(dec.stream))
          /\ Quiet => NonEmpty(dec.out) = WholeLines(dec.stream)
    /\ dec.kind = "default" => FlattenSeq(dec.out) \o dec.inBuffer \o dec.todo = dec.stream

NothingMore == dec.todo = <<>> /\ FindEnd(dec.inBuffer) = 0
                   /\ (dec.mList # <<>> => FindEnd(Straddling(dec)) = 0)

Text(mail) == IF mail.lines = <<>> THEN <<>> ELSE Body(mail.lines)

\* The mails that the decoders can frame: with a text, as the line end before
\* the "." is part of what they look for, and, for the chunk decoder, with no
\* terminator of a later mail behind them, for which it looks first.
CanFrame(kind, mail) ==
    /\ kind \in {"dot", "chunk"}
    /\ Text(mail) # <<>>
    /\ kind = "chunk" => FindEnd(CrLf \o mail.rest) = 0

\* However reads cut a mail, also inside its terminator, and wherever its
\* chunks end, the message is taken once it is there and the bytes after the
\* terminator stay for the next decoder.  The message is the text that was sent
\* with its extra dots taken away, unless the text begins with a dot.
MailExact ==
    CanFrame(dec.kind, dec.mail) =>
        /\ dec.out # <<>> =>
              /\ dec.inBuffer \o dec.todo = dec.mail.rest
              /\ Text(dec.mail)[1] # "dot" => dec.out = <<Text(dec.mail)>>
        /\ NothingMore => dec.out # <<>>

\* "data will be the smtp data stream, stripped of any extra '.' chars"
\* (spsmtp.hpp), whatever the text begins with.
MailStripped ==
    CanFrame(dec.kind, dec.mail) /\ dec.out # <<>> => dec.out = <<Text(dec.mail)>>
=============================================================================
