------------------------------ MODULE MsgQueue ------------------------------
(***************************************************************************)
(* spserver/event_msgqueue.c: the queue through which worker threads give  *)
(* responses to the event-loop thread.  A circular array under a mutex     *)
(* holds the messages; one byte on a socket pair wakes the loop when the   *)
(* array stops being empty.                                                *)
(*                                                                         *)
(* The byte is sent by a blocking send() inside the critical section, so a *)
(* push that must send is two steps; msgqueue_pop receives the bytes       *)
(* before it takes the lock and drops the lock around every callback.      *)
(***************************************************************************)
EXTENDS Integers, Sequences, FiniteSets, Functions

CONSTANTS
    Pushers,        \* the threads that call msgqueue_push
    MaxPush,        \* bound: calls of each of them
    InitSize,       \* array_elements at first (1024 in the code)
    MaxEntries,     \* max_entries: 0 means the array grows
    RecvMax,        \* sizeof(buf) in msgqueue_pop, 64
    SockCap         \* bytes the socket pair holds before send() blocks

ASSUME QueueAssumption ==
    /\ MaxPush \in Nat /\ InitSize \in Nat \ {0} /\ MaxEntries \in Nat
    /\ RecvMax \in Nat \ {0} /\ SockCap \in Nat
    /\ MaxEntries <= InitSize       \* array_elements = nextpow2(max_entries)

\* The n-th message of pusher p; NoItem is what malloc left in the array.
Items == Pushers \X (1 .. MaxPush)
NoItem == <<>>

VARIABLES
    cq,         \* struct circqueue
    bytes,      \* bytes in the socket pair
    lock,       \* the pusher that holds the lock in send(), or the empty set
    pushed,     \* per pusher: calls of msgqueue_push made
    pop,        \* where msgqueue_pop is: "wait", "lock" or "callback"
    taken       \* the messages given to the callback, in order

vars == <<cq, bytes, lock, pushed, pop, taken>>

-----------------------------------------------------------------------------
(* struct circqueue *)

NewQueue(size) ==
    [entries |-> [i \in 0 .. (size - 1) |-> NoItem],
     head |-> 0, tail |-> 0, count |-> 0, size |-> size]

\* "x &= array_elements - 1" for x <= array_elements, a power of two
Wrap(x, size) == IF x >= size THEN x - size ELSE x

\* Fault: circqueue_grow forgets the entries that had wrapped round.
TailChunkNone(q) == 0

\* circqueue_grow: the entries from head on, then the ones that had wrapped
\* round, at the start of an array of twice the size
HeadChunk(q) == IF q.head < q.tail THEN q.tail - q.head ELSE q.size - q.head
TailChunk(q) == IF q.head < q.tail THEN 0 ELSE q.tail

Grow(q) ==
    [entries |-> [i \in 0 .. (2 * q.size - 1) |->
                    IF i < HeadChunk(q) THEN q.entries[q.head + i]
                    ELSE IF i < HeadChunk(q) + TailChunk(q)
                         THEN q.entries[i - HeadChunk(q)]
                    ELSE NoItem],
     head |-> 0, tail |-> HeadChunk(q) + TailChunk(q),
     count |-> q.count, size |-> 2 * q.size]

\* circqueue_push_tail fails on a bounded queue that is full, and when an
\* unbounded one must grow and malloc fails.
CanPush(q) == MaxEntries = 0 \/ q.count # MaxEntries

Stored(q, v) ==
    [entries |-> [q.entries EXCEPT ![q.tail] = v],
     head |-> q.head, tail |-> Wrap(q.tail + 1, q.size),
     count |-> q.count + 1, size |-> q.size]

MustGrow(q) == MaxEntries = 0 /\ q.count = q.size

PushTail(q, v) == IF MustGrow(q) THEN Stored(Grow(q), v) ELSE Stored(q, v)

HeadItem(q) == q.entries[q.head]

PopHead(q) ==
    [entries |-> q.entries,
     head |-> Wrap(q.head + 1, q.size), tail |-> q.tail,
     count |-> q.count - 1, size |-> q.size]

-----------------------------------------------------------------------------
(* The message queue *)

Init ==
    /\ cq = NewQueue(InitSize)
    /\ bytes = 0
    /\ lock = {}
    /\ pushed = [p \in Pushers |-> 0]
    /\ pop = "wait"
    /\ taken = <<>>

\* Fault: the length is tested as if it were taken before the push.
MustWakeLate(q) == q.count = 2

\* The push leaves one message in the queue: the loop must be woken.
MustWake(q) == q.count = 1

\* msgqueue_push up to send(), or all of it when nothing is to be sent
MsgqueuePush(p) ==
    /\ lock = {}
    /\ pushed[p] < MaxPush
    /\ pushed' = [pushed EXCEPT ![p] = @ + 1]
    /\ \/ /\ CanPush(cq)
          /\ cq' = PushTail(cq, <<p, pushed[p] + 1>>)
          /\ lock' = IF MustWake(cq') THEN {p} ELSE {}
       \/ /\ ~CanPush(cq) \/ MustGrow(cq)     \* full, or malloc fails
          /\ UNCHANGED <<cq, lock>>
    /\ UNCHANGED <<bytes, pop, taken>>

\* send(), which waits for room, and unlock
SendByte(p) ==
    /\ lock = {p}
    /\ bytes < SockCap
    /\ bytes' = bytes + 1
    /\ lock' = {}
    /\ UNCHANGED <<cq, pushed, pop, taken>>

\* msgqueue_pop is called when pop_fd is readable and receives up to RecvMax
\* bytes before it locks.
PopRecv ==
    /\ pop = "wait"
    /\ bytes > 0
    /\ bytes' = IF bytes > RecvMax THEN bytes - RecvMax ELSE 0
    /\ pop' = "lock"
    /\ UNCHANGED <<cq, lock, pushed, taken>>

\* With the lock: take the oldest message and unlock for the callback ...
PopTake ==
    /\ pop = "lock"
    /\ lock = {}
    /\ cq.count # 0
    /\ taken' = Append(taken, HeadItem(cq))
    /\ cq' = PopHead(cq)
    /\ pop' = "callback"
    /\ UNCHANGED <<bytes, lock, pushed>>

\* ... or find the queue empty and return to the event loop.
PopEmpty ==
    /\ pop = "lock"
    /\ lock = {}
    /\ cq.count = 0
    /\ pop' = "wait"
    /\ UNCHANGED <<cq, bytes, lock, pushed, taken>>

\* The callback returns.
PopCallback ==
    /\ pop = "callback"
    /\ pop' = "lock"
    /\ UNCHANGED <<cq, bytes, lock, pushed, taken>>

Next ==
    \/ \E p \in Pushers : MsgqueuePush(p) \/ SendByte(p)
    \/ PopRecv \/ PopTake \/ PopEmpty \/ PopCallback

Spec == Init /\ [][Next]_vars

\* The event loop runs; a thread inside msgqueue_push gets the socket's room
\* and the free lock gets handed over.  Nobody has to call msgqueue_push.
QueueFairness ==
    /\ WF_vars(PopRecv) /\ SF_vars(PopTake) /\ SF_vars(PopEmpty)
    /\ WF_vars(PopCallback)
    /\ \A p \in Pushers : WF_vars(SendByte(p))

FairSpec == Spec /\ QueueFairness

-----------------------------------------------------------------------------
(* Properties *)

\* The messages in an array, oldest first.
Listed(q) == [i \in 1 .. q.count |-> q.entries[Wrap(q.head + i - 1, q.size)]]

Contents == Listed(cq)

Channel == INSTANCE MessageChannel WITH queue <- Contents

\* Through wrap-around and growth of the array the queue is a first-in
\* first-out channel: what msgqueue_pop gives to the callback is what
\* msgqueue_push stored, in order, once.
ImplementsChannel == Channel!Spec

\* The indices stay inside the array, tail is count places after head.
Ring(q) ==
    /\ q \in [entries : [0 .. (q.size - 1) -> Items \cup {NoItem}],
              head : Nat, tail : Nat, count : Nat, size : Nat \ {0}]
    /\ q.head < q.size /\ q.tail < q.size /\ q.count <= q.size
    /\ q.tail = Wrap(q.head + q.count, q.size)

\* circqueue_push_tail, circqueue_pop_head and circqueue_grow keep head, tail
\* and count in step with the array; a bounded queue never grows and never
\* holds more than max_entries.
RingOK ==
    /\ Ring(cq)
    /\ MaxEntries # 0 => cq.size = InitSize /\ cq.count <= MaxEntries

\* No wake-up is lost: whenever a message waits, a byte is in the socket or
\* about to be sent, or msgqueue_pop is running and will test the queue again.
NoLostWakeup ==
    cq.count > 0 => bytes > 0 \/ lock # {} \/ pop # "wait"

\* Inductive: the ring, the wake-up and the places of msgqueue_push and
\* msgqueue_pop in the code agree; every stored message is one that was pushed.
QueueInv ==
    /\ RingOK
    /\ NoLostWakeup
    /\ bytes \in Nat
    /\ lock \in {{}} \cup {{p} : p \in Pushers}
    /\ pushed \in [Pushers -> 0 .. MaxPush]
    /\ pop \in {"wait", "lock", "callback"}

\* Every message that a pusher stored is given to the callback: "onResponse
\* will add write event for this session".  (There are finitely many pushes, so
\* a queue that is empty again after each of them has given all of them out.)
AllDelivered == (cq.count > 0) ~> (cq.count = 0)
=============================================================================
