-------------------------------- MODULE Bytes --------------------------------
(***************************************************************************)
(* What the buffer operations of spserver/spbuffer.cpp compute from the    *)
(* content of a buffer, taken as a sequence of bytes ("cr", "lf", ...).    *)
(***************************************************************************)
EXTENDS Integers, Sequences

IsEol(c) == c \in {"cr", "lf"}
Eols(data) == {i \in 1 .. Len(data) : IsEol(data[i])}
FirstEol(data) == CHOOSE i \in Eols(data) : \A j \in Eols(data) : i <= j

\* Fault: the byte after the end of line is drained whatever it is.
LineEndGreedy(data) == IF FirstEol(data) < Len(data) THEN FirstEol(data) + 1 ELSE FirstEol(data)

\* How much readline drains: the line with its "\r", "\n", "\r\n" or "\n\r".
LineEnd(data) ==
    LET i == FirstEol(data)
    IN  IF i < Len(data) /\ IsEol(data[i + 1]) /\ data[i + 1] # data[i] THEN i + 1 ELSE i

Upto(s, n) == SubSeq(s, 1, IF n < Len(s) THEN n ELSE Len(s))
After(s, n) == SubSeq(s, n + 1, Len(s))

\* readline: the line, and what is left; NULL is no line at all.
HasLine(data) == Eols(data) # {}
LineOf(data) == SubSeq(data, 1, FirstEol(data) - 1)

\* SP_Buffer::find: where the key begins first, 0 when it does not occur.
IsAt(s, i, key) == SubSeq(s, i, i + Len(key) - 1) = key
Found(s, key) == {i \in 1 .. (Len(s) - Len(key) + 1) : IsAt(s, i, key)}
Find(s, key) ==
    IF Found(s, key) = {} THEN 0
    ELSE CHOOSE i \in Found(s, key) : \A j \in Found(s, key) : i <= j
=============================================================================
