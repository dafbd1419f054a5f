---------------------------- MODULE SessionTable ----------------------------
(***************************************************************************)
(* SP_SessionManager of spserver/spsession.cpp: the table that resolves a  *)
(* session identifier SP_Sid_t = {mKey, mSeq} to an SP_Session object.     *)
(*                                                                         *)
(* This module holds the operations as operators on a table value m, so    *)
(* that SessionManager can study the table alone and EventServer can use   *)
(* the same table inside the event callbacks.                              *)
(*                                                                         *)
(*   m.mArray      the rows of mArray that are not NULL (row 0 never is)   *)
(*   m.mSeq        entry.mSeq of every key     (calloc: 0)                 *)
(*   m.mNext       entry.mNext of every key    (0 ends the free list)      *)
(*   m.mSession    entry.mSession of every key                             *)
(*   m.mFreeList, m.mFreeCount, m.mCount       the members of that name    *)
(***************************************************************************)
EXTENDS Integers

CONSTANTS
    ColPerRow,      \* eColPerRow, 1024 in the code
    Rows,           \* the number of rows of mArray, 64 in the code
    SeqMod,         \* mSeq is a uint16_t: 2^16 in the code
    NULL            \* the null SP_Session pointer

\* The key must fit a uint16_t and the sequence number must be able to change.
ASSUME TableAssumption ==
    /\ ColPerRow \in Nat \ {0}
    /\ Rows \in Nat /\ Rows > 1
    /\ SeqMod \in Nat /\ SeqMod > 1

Keys == ColPerRow .. (ColPerRow * Rows - 1)

Seqs == 0 .. (SeqMod - 1)

\* "int row = key / eColPerRow"
RowOf(key) == key \div ColPerRow

Table(sessions) ==
    [mArray     : SUBSET (1 .. (Rows - 1)),
     mSeq       : [Keys -> Seqs],
     mNext      : [Keys -> Keys \cup {0}],
     mSession   : [Keys -> sessions \cup {NULL}],
     mFreeList  : Keys \cup {0},
     mFreeCount : Nat,
     mCount     : Int]

EmptyTable ==
    [mArray     |-> {},
     mSeq       |-> [k \in Keys |-> 0],
     mNext      |-> [k \in Keys |-> 0],
     mSession   |-> [k \in Keys |-> NULL],
     mFreeList  |-> 0,
     mFreeCount |-> 0,
     mCount     |-> 0]

\* Fault: the search for a row stops one row early.
NullRowsShort(m) == {r \in 1 .. (Rows - 2) : r \notin m.mArray}

\* The first row, from 1 on, whose pointer is NULL.
NullRows(m) == {r \in 1 .. (Rows - 1) : r \notin m.mArray}

\* The keys of a row, and the last of them.
RowKeys(r) == (ColPerRow * r) .. (ColPerRow * r + ColPerRow - 1)
LastOf(r) == ColPerRow * r + ColPerRow - 1

\* A fresh row is threaded in key order in front of the (empty) free list.
WithRow(m, r) ==
    [m EXCEPT
        !.mArray     = @ \cup {r},
        !.mFreeCount = @ + ColPerRow,
        !.mNext      = [k \in Keys |->
                            IF k \notin RowKeys(r) THEN m.mNext[k]
                            ELSE IF k = LastOf(r) THEN m.mFreeList ELSE k + 1],
        !.mFreeList  = ColPerRow * r]

\* The row allocation at the head of allocKey.
Refilled(m) ==
    IF m.mFreeList = 0 /\ NullRows(m) # {}
    THEN WithRow(m, CHOOSE r \in NullRows(m) : \A q \in NullRows(m) : r <= q)
    ELSE m

\* allocKey pops the head of the free list; key 0 means the table is full.
AllocKeyOf(m) == Refilled(m).mFreeList

\* Fault: allocKey forgets to return the sequence number of the entry.
AllocSeqOfZero(m) == 0

AllocSeqOf(m) ==
    IF AllocKeyOf(m) = 0 THEN 0 ELSE Refilled(m).mSeq[AllocKeyOf(m)]

\* Fault: allocKey does not unlink the head it returns.
PoppedKept(m) == [m EXCEPT !.mFreeCount = @ - 1]

Popped(m) ==
    [m EXCEPT !.mFreeCount = @ - 1,
              !.mFreeList  = m.mNext[m.mFreeList]]

AllocKey(m) ==
    IF AllocKeyOf(m) = 0 THEN Refilled(m) ELSE Popped(Refilled(m))

PutAssertion(m, key, seq) ==
    /\ RowOf(key) \in m.mArray
    /\ m.mSession[key] = NULL
    /\ m.mSeq[key] = seq

Put(m, key, session) ==
    [m EXCEPT !.mSession[key] = session, !.mCount = @ + 1]

\* get() returns the entry's session and its current sequence number; every
\* caller compares the latter with the sid it holds.
Get(m, key, seq) ==
    IF key \in Keys /\ RowOf(key) \in m.mArray /\ m.mSeq[key] = seq
    THEN m.mSession[key] ELSE NULL

\* Fault: the sequence number is not advanced when a session is removed.
NextSeqSame(seq) == seq

\* mSeq++ on a uint16_t
NextSeq(seq) == IF seq = SeqMod - 1 THEN 0 ELSE seq + 1

\* Fault: the removed entry is not put back at the head of the free list.
RemoveUnlinked(m, key) ==
    IF RowOf(key) \notin m.mArray THEN m ELSE
    [m EXCEPT
        !.mSession[key] = NULL,
        !.mSeq[key]     = NextSeq(@),
        !.mNext[key]    = m.mFreeList,
        !.mFreeCount    = @ + 1,
        !.mCount        = @ - 1]

\* remove() asserts that its caller's sequence number is the entry's.
RemoveAssertion(m, key, seq) == RowOf(key) \in m.mArray => m.mSeq[key] = seq

Remove(m, key) ==
    IF RowOf(key) \notin m.mArray THEN m ELSE
    [m EXCEPT
        !.mSession[key] = NULL,
        !.mSeq[key]     = NextSeq(@),
        !.mNext[key]    = m.mFreeList,
        !.mFreeList     = key,
        !.mFreeCount    = @ + 1,
        !.mCount        = @ - 1]

\* c lists the free list of m in order, from mFreeList on, and its keys are
\* those of the set free.
FreeChain(m, c, free) ==
    /\ m.mFreeList = IF m.mFreeCount = 0 THEN 0 ELSE c[1]
    /\ \A i \in 1 .. m.mFreeCount :
          m.mNext[c[i]] = IF i = m.mFreeCount THEN 0 ELSE c[i + 1]
    /\ \A i, j \in 1 .. m.mFreeCount : c[i] = c[j] => i = j
    /\ \A i \in 1 .. m.mFreeCount : c[i] \in free
    /\ \A k \in free : \E i \in 1 .. m.mFreeCount : c[i] = k
=============================================================================
