------------------------------ MODULE EventHeap ------------------------------
(***************************************************************************)
(* SP_IocpEventHeap (spserver/spiocpevent.cpp): the binary heap of the     *)
(* timeouts of the Windows server.  Every event remembers its place in     *)
(* the array (mHeapIndex, -1 when it has none), by which erase finds it.   *)
(* The entries behind mCount and the deadline of an event that is out of   *)
(* the heap are never read and are kept at a neutral value.                *)
(***************************************************************************)
EXTENDS Integers

CONSTANTS
    HeapItems,          \* the SP_IocpEvent_t objects
    DeadlinesOf(_),     \* bound: the deadlines an event is armed with
    FirstReserve        \* mMaxCount after the first reserve (8 in the code)

VARIABLES
    heap,               \* the object
    popped              \* what the last call returned, if it was pop

NoEvent == 0
NoHeap == [mEntries |-> <<>>, mCount |-> 0, mMaxCount |-> 0,
           mHeapIndex |-> [i \in HeapItems |-> -1], mTimeout |-> [i \in HeapItems |-> 0]]

HeapInit == heap = NoHeap /\ popped = {}

\* The array is doubled when it is full; its entries are kept.
Reserve(h, count) ==
    LET wanted == IF h.mMaxCount = 0 THEN FirstReserve ELSE h.mMaxCount * 2
        max == IF wanted < count THEN count ELSE wanted
    IN  IF h.mMaxCount >= count THEN h
        ELSE [h EXCEPT !.mMaxCount = max,
                       !.mEntries = [k \in 0 .. (max - 1) |->
                           IF k < h.mMaxCount THEN h.mEntries[k] ELSE NoEvent]]

IsGreater(h, i, j) == h.mTimeout[i] > h.mTimeout[j]

Put1(h, k, item) == [h EXCEPT !.mEntries[k] = item, !.mHeapIndex[item] = k]

RECURSIVE ShiftUp(_, _, _)
ShiftUp(h, k, item) ==
    LET parent == (k - 1) \div 2
    IN  IF k > 0 /\ IsGreater(h, h.mEntries[parent], item)
        THEN ShiftUp(Put1(h, k, h.mEntries[parent]), parent, item)
        ELSE Put1(h, k, item)

\* The smaller child of k, 2k+2 or 2k+1; the last entry may have no brother.
MinChild(h, k) ==
    LET right == 2 * (k + 1)
    IN  IF right = h.mCount \/ IsGreater(h, h.mEntries[right], h.mEntries[right - 1])
        THEN right - 1 ELSE right

\* Fault: the item is stored where the hole ends up, without shiftUp.
RECURSIVE ShiftDownOnly(_, _, _)
ShiftDownOnly(h, k, item) ==
    IF 2 * (k + 1) <= h.mCount /\ IsGreater(h, item, h.mEntries[MinChild(h, k)])
    THEN ShiftDownOnly(Put1(h, k, h.mEntries[MinChild(h, k)]), MinChild(h, k), item)
    ELSE Put1(h, k, item)

RECURSIVE ShiftDown(_, _, _)
ShiftDown(h, k, item) ==
    IF 2 * (k + 1) <= h.mCount /\ IsGreater(h, item, h.mEntries[MinChild(h, k)])
    THEN ShiftDown(Put1(h, k, h.mEntries[MinChild(h, k)]), MinChild(h, k), item)
    ELSE ShiftUp(h, k, item)

\* Callers set mTimeout, then push an event that is not in the heap.
HeapPush(i, t) ==
    /\ heap.mHeapIndex[i] = -1
    /\ LET h == Reserve([heap EXCEPT !.mTimeout[i] = t], heap.mCount + 1)
       IN  heap' = ShiftUp([h EXCEPT !.mCount = @ + 1], heap.mCount, i)
    /\ popped' = {}

HeapTop == IF heap.mCount > 0 THEN heap.mEntries[0] ELSE NoEvent

\* The index is cleared after the shift, which may have stored the item again.
TakenOut(h, k, item) ==
    LET short == [h EXCEPT !.mCount = @ - 1]
    IN  [ShiftDown(short, k, h.mEntries[short.mCount])
           EXCEPT !.mHeapIndex[item] = -1, !.mTimeout[item] = 0,
                  !.mEntries[short.mCount] = NoEvent]

HeapPop ==
    /\ HeapTop # NoEvent
    /\ heap' = TakenOut(heap, 0, HeapTop)
    /\ popped' = {HeapTop}

HeapErase(i) ==
    /\ heap.mHeapIndex[i] # -1
    /\ heap' = TakenOut(heap, heap.mHeapIndex[i], i)
    /\ popped' = {}

HeapNext ==
    \/ \E i \in HeapItems : \E t \in DeadlinesOf(i) : HeapPush(i, t)
    \/ HeapPop
    \/ \E i \in HeapItems : HeapErase(i)

HeapSpec == HeapInit /\ [][HeapNext]_<<heap, popped>>

-----------------------------------------------------------------------------

Timers == INSTANCE TimerSet WITH
    Items <- HeapItems,
    Times <- UNION {DeadlinesOf(i) : i \in HeapItems},
    expired <- popped,
    armed <- {[item |-> i, due |-> heap.mTimeout[i]] :
                  i \in {j \in HeapItems : heap.mHeapIndex[j] # -1}}

\* The heap is a timer set, however push, pop and erase follow each other: pop
\* takes out an event with the earliest deadline and erase the event it was
\* called for, although the shift that erase begins in the middle of the array
\* may have to go up as well as down.
ImplementsTimers == Timers!TimerSetSpec
=============================================================================
