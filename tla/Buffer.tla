------------------------------- MODULE Buffer -------------------------------
(***************************************************************************)
(* The byte buffer of the Windows build, spserver/spwin32buffer.cpp (a     *)
(* copy of libevent's evbuffer), with the operations of SP_Buffer that     *)
(* call it.  The object is modelled with its memory: orig_buffer is the    *)
(* array mem, buffer points misalign bytes into it, off bytes are content  *)
(* and totallen is what was allocated.  A byte that is not content is      *)
(* "?", so that reading one shows.                                         *)
(*                                                                         *)
(* text is the reference: the sequence of bytes that the calls so far have *)
(* put in and not taken out of each buffer.                                *)
(***************************************************************************)
EXTENDS Bytes, FiniteSets

CONSTANTS
    Buffers,            \* the buffer objects
    Pieces,             \* bound: the byte sequences added by one call
    MaxText,            \* bound: bytes held by the buffers
    MinAlloc,           \* the first allocation (256 in the code)
    MaxRead,            \* EVBUFFER_MAX_READ (4096 in the code)
    PrintRoom           \* room add_vprintf asks for (64 in the code)

ASSUME BufferAssumption ==
    /\ Pieces \subseteq Seq(STRING) /\ MaxText \in Nat
    /\ MinAlloc \in Nat \ {0} /\ MaxRead \in Nat \ {0} /\ PrintRoom \in Nat \ {0}

VARIABLES bufs, text
bufferVars == <<bufs, text>>

NewBuffer == [mem |-> <<>>, misalign |-> 0, off |-> 0, totallen |-> 0]

BufferInit ==
    /\ bufs = [b \in Buffers |-> NewBuffer]
    /\ text = [b \in Buffers |-> <<>>]

Data(b) == [i \in 1 .. b.off |-> b.mem[b.misalign + i - 1]]

\* Sets the bytes that are not content to "?".
Forget(b) ==
    [b EXCEPT !.mem = [k \in 0 .. (b.totallen - 1) |->
        IF k >= b.misalign /\ k < b.misalign + b.off THEN b.mem[k] ELSE "?"]]

Align(b) ==
    Forget([b EXCEPT !.misalign = 0,
                     !.mem = [k \in 0 .. (b.totallen - 1) |->
                         IF k < b.off THEN b.mem[b.misalign + k] ELSE b.mem[k]]])

\* The least power-of-two multiple of length that is at least need.
RECURSIVE Doubled(_, _)
Doubled(length, need) == IF length < need THEN Doubled(length * 2, need) ELSE length

Realloc(b, length) ==
    [b EXCEPT !.totallen = length,
              !.mem = [k \in 0 .. (length - 1) |-> IF k < b.totallen THEN b.mem[k] ELSE "?"]]

Need(b, datlen) == b.misalign + b.off + datlen

\* Fault: the array is grown without moving the content to its start.
ExpandUnaligned(b, datlen) ==
    IF b.totallen >= Need(b, datlen) THEN b
    ELSE IF b.misalign >= datlen THEN Align(b)
    ELSE [Realloc(b, Doubled(IF b.totallen < MinAlloc THEN MinAlloc ELSE b.totallen,
                             Need(b, datlen))) EXCEPT !.misalign = 0]

\* Room for datlen bytes behind the content.  The need counts the bytes in
\* front of the content also when these are about to be given up.
Expand(b, datlen) ==
    IF b.totallen >= Need(b, datlen) THEN b
    ELSE IF b.misalign >= datlen THEN Align(b)
    ELSE Realloc(IF b.misalign > 0 THEN Align(b) ELSE b,
                 Doubled(IF b.totallen < MinAlloc THEN MinAlloc ELSE b.totallen,
                         Need(b, datlen)))

\* memcpy behind the content, then off grows.
Stored(b, data) ==
    [b EXCEPT !.off = @ + Len(data),
              !.mem = [k \in DOMAIN @ |->
                  IF k >= b.misalign + b.off /\ k < b.misalign + b.off + Len(data)
                  THEN data[k - b.misalign - b.off + 1] ELSE @[k]]]

Add(b, data) ==
    Stored(IF b.totallen < Need(b, Len(data)) THEN Expand(b, Len(data)) ELSE b, data)

Drain(b, len) ==
    Forget(IF len >= b.off THEN [b EXCEPT !.off = 0, !.misalign = 0]
           ELSE [b EXCEPT !.off = @ - len, !.misalign = @ + len])

-----------------------------------------------------------------------------
(* One action per call *)

Set(b, value, t) == bufs' = [bufs EXCEPT ![b] = value] /\ text' = [text EXCEPT ![b] = t]

CallAppend(b, data) == Set(b, Add(bufs[b], data), text[b] \o data)

\* _vsnprintf is given one byte less than there is, and fails when that is not
\* enough: the loop that would make more room is left with -1.
CallPrintf(b, data) ==
    LET v == Expand(bufs[b], PrintRoom)
        space == v.totallen - v.misalign - v.off
    IN  IF Len(data) > space - 1 THEN Set(b, v, text[b])
        ELSE Set(b, Stored(v, data), text[b] \o data)

CallErase(b, n) == Set(b, Drain(bufs[b], n), After(text[b], n))

\* remove copies out at most what there is; take(char*) asks for one byte less
\* than its array has room for.
CallTake(b, n) ==
    LET nread == IF n >= bufs[b].off THEN bufs[b].off ELSE n
    IN  Set(b, Drain(bufs[b], nread), After(text[b], n))

CallGetLine(b) ==
    /\ HasLine(Data(bufs[b]))
    /\ Set(b, Drain(bufs[b], LineEnd(Data(bufs[b]))), After(text[b], LineEnd(text[b])))

CallTruncate(b, n) ==
    /\ n < bufs[b].off
    /\ Set(b, Forget([bufs[b] EXCEPT !.off = n]), Upto(text[b], n))

\* len - getSize() is unsigned; adding it to off again makes the need right.
CallReserve(b, len) == Set(b, Expand(bufs[b], len - bufs[b].off), text[b])

\* getBuffer makes room for a final 0, which is not content.
CallGetBuffer(b) == bufs[b].totallen > 0 /\ Set(b, Expand(bufs[b], 1), text[b])

\* The content moves; an empty target swaps the two objects.
CallAddBuffer(b, c) ==
    /\ b # c
    /\ text' = [text EXCEPT ![b] = @ \o text[c], ![c] = <<>>]
    /\ bufs' = IF bufs[b].off = 0
               THEN [bufs EXCEPT ![b] = bufs[c], ![c] = bufs[b]]
               ELSE [bufs EXCEPT ![b] = Add(@, Data(bufs[c])), ![c] = Drain(@, @.off)]

\* take(): a new object gets the content, and this one the new object's.
CallTakeAll(b, c) ==
    /\ b # c
    /\ bufs' = [bufs EXCEPT ![b] = NewBuffer, ![c] = bufs[b]]
    /\ text' = [text EXCEPT ![b] = <<>>, ![c] = text[b]]

\* How much read asks for when n bytes wait in the socket and howmuch is -1.
ReadSize(b, n) ==
    IF n <= MaxRead THEN (IF n = 0 THEN MaxRead ELSE n)
    ELSE LET cut == IF n > b.totallen * 4 THEN b.totallen * 4 ELSE n
         IN  IF cut < MaxRead THEN MaxRead ELSE cut

CallRead(b, data) ==
    LET howmuch == ReadSize(bufs[b], Len(data))
    IN  Set(b, Stored(Expand(bufs[b], howmuch), Upto(data, howmuch)),
            text[b] \o Upto(data, howmuch))

\* write drains what the socket took.
CallWrite(b, n) ==
    /\ n \in 0 .. bufs[b].off
    /\ Set(b, IF n = 0 THEN bufs[b] ELSE Drain(bufs[b], n), After(text[b], n))

Held == Cardinality(UNION {{b} \X DOMAIN text[b] : b \in Buffers})

BufferNext ==
    \/ \E b \in Buffers, data \in Pieces :
          /\ Held + Len(data) <= MaxText
          /\ CallAppend(b, data) \/ CallPrintf(b, data) \/ CallRead(b, data)
    \/ \E b \in Buffers, n \in 0 .. MaxText :
          CallErase(b, n) \/ CallTake(b, n) \/ CallTruncate(b, n) \/ CallReserve(b, n)
          \/ CallWrite(b, n)
    \/ \E b \in Buffers : CallGetLine(b) \/ CallGetBuffer(b)
    \/ \E b, c \in Buffers : CallAddBuffer(b, c) \/ CallTakeAll(b, c)

BufferSpec == BufferInit /\ [][BufferNext]_bufferVars

-----------------------------------------------------------------------------

\* However calls that add, drain, align and grow follow each other, the
\* pointers stay within the memory and the content is what went in and has not
\* come out.
BufferExact ==
    \A b \in Buffers :
        /\ bufs[b].misalign + bufs[b].off <= bufs[b].totallen
        /\ Data(bufs[b]) = text[b]
=============================================================================
