---------------------------- MODULE CircleQueue ----------------------------
(***************************************************************************)
(* SP_CircleQueue of spserver/sputils.cpp, as operators on a queue value:  *)
(* the ring under every SP_BlockingQueue.  It grows by half and one when   *)
(* it is full.                                                             *)
(***************************************************************************)
EXTENDS Integers, Sequences

\* What malloc leaves in a fresh array.
Junk == <<"junk">>

\* The constructor
NewCircle(max) ==
    [mEntries |-> [i \in 0 .. (max - 1) |-> Junk],
     mHead |-> 0, mTail |-> 0, mCount |-> 0, mMaxCount |-> max]

\* Fault: the first chunk is copied one entry short.
HeadLenShort(q) ==
    IF q.mHead < q.mTail THEN q.mTail - q.mHead ELSE q.mCount - q.mTail - 1

\* "headLen" and "tailLen" of push
HeadLen(q) == IF q.mHead < q.mTail THEN q.mTail - q.mHead ELSE q.mCount - q.mTail
TailLen(q) == IF q.mHead < q.mTail THEN 0 ELSE q.mTail

Grown(q) ==
    LET max == (q.mMaxCount * 3) \div 2 + 1
    IN  [mEntries |-> [i \in 0 .. (max - 1) |->
                          IF i < HeadLen(q) THEN q.mEntries[q.mHead + i]
                          ELSE IF i < HeadLen(q) + TailLen(q)
                               THEN q.mEntries[i - HeadLen(q)]
                          ELSE Junk],
         mHead |-> 0, mTail |-> HeadLen(q) + TailLen(q),
         mCount |-> q.mCount, mMaxCount |-> max]

Placed(q, item) ==
    [mEntries |-> [q.mEntries EXCEPT ![q.mTail] = item],
     mHead |-> q.mHead, mTail |-> (q.mTail + 1) % q.mMaxCount,
     mCount |-> q.mCount + 1, mMaxCount |-> q.mMaxCount]

CirclePush(q, item) ==
    IF q.mCount >= q.mMaxCount THEN Placed(Grown(q), item) ELSE Placed(q, item)

\* top(), of a queue that is not empty
CircleTop(q) == q.mEntries[q.mHead]

\* pop(), of a queue that is not empty
CirclePop(q) ==
    [mEntries |-> q.mEntries,
     mHead |-> (q.mHead + 1) % q.mMaxCount, mTail |-> q.mTail,
     mCount |-> q.mCount - 1, mMaxCount |-> q.mMaxCount]

\* The items of the queue, oldest first.
CircleItems(q) ==
    [i \in 1 .. q.mCount |-> q.mEntries[(q.mHead + i - 1) % q.mMaxCount]]
=============================================================================
