--------------------------- MODULE MsgQueueProofs ---------------------------
(***************************************************************************)
(* Proofs about event_msgqueue.c for any number of pushing threads, any    *)
(* array size and both kinds of queue (bounded and growing): the circular  *)
(* array is always well formed, no wake-up of the event loop is lost, and  *)
(* the queue implements the first-in first-out channel.                    *)
(***************************************************************************)
EXTENDS MsgQueue, SequenceTheorems, TLAPS

Values == Items \cup {NoItem}

\* Wrapping a position of the ring gives an index of the array, and a wrapped
\* position can be advanced by one or by an offset before it is wrapped again.
LEMMA WrapFacts ==
    ASSUME NEW n \in Nat \ {0}, NEW h \in 0 .. (n - 1), NEW c \in 0 .. n
    PROVE  /\ Wrap(h + c, n) \in 0 .. (n - 1)
           /\ Wrap(Wrap(h + c, n) + 1, n) \in 0 .. (n - 1)
           /\ c < n => Wrap(Wrap(h + c, n) + 1, n) = Wrap(h + c + 1, n)
           /\ c < n => Wrap(Wrap(h + 1, n) + c, n) = Wrap(h + c + 1, n)
  BY DEF Wrap

\* A well-formed ring is a record of its five fields.
LEMMA RingFields ==
    ASSUME NEW q, Ring(q)
    PROVE  /\ q = [entries |-> q.entries, head |-> q.head, tail |-> q.tail,
                   count |-> q.count, size |-> q.size]
           /\ q.size \in Nat \ {0}
           /\ q.head \in 0 .. (q.size - 1)
           /\ q.tail \in 0 .. (q.size - 1)
           /\ q.count \in 0 .. q.size
           /\ q.entries \in [0 .. (q.size - 1) -> Values]
           /\ q.tail = Wrap(q.head + q.count, q.size)
  BY DEF Ring, Values

\* The messages of a well-formed ring form a sequence of length count.
LEMMA ListedSeq ==
    ASSUME NEW q, Ring(q)
    PROVE  /\ Listed(q) \in Seq(Values)
           /\ Len(Listed(q)) = q.count
           /\ \A i \in 1 .. q.count :
                 Listed(q)[i] = q.entries[Wrap(q.head + i - 1, q.size)]
  <1>1. \A i \in 1 .. q.count : Wrap(q.head + i - 1, q.size) \in 0 .. (q.size - 1)
    BY DEF Ring, Wrap
  <1>2. \A i \in 1 .. q.count : q.entries[Wrap(q.head + i - 1, q.size)] \in Values
    BY <1>1 DEF Ring, Values
  <1>3. Listed(q) \in [1 .. q.count -> Values]
    BY <1>2 DEF Listed
  <1>4. q.count \in Nat
    BY DEF Ring
  <1>5. Listed(q) \in Seq(Values)
    BY <1>3, <1>4
  <1>6. Len(Listed(q)) = q.count
    BY <1>3, <1>4, <1>5, LenProperties
  <1> QED
    BY <1>5, <1>6 DEF Listed

\* Two well-formed rings of the same length with the same entries in order
\* list the same messages.
LEMMA ListedEqual ==
    ASSUME NEW q, Ring(q), NEW r, Ring(r), q.count = r.count,
           \A i \in 1 .. q.count :
              q.entries[Wrap(q.head + i - 1, q.size)] = r.entries[Wrap(r.head + i - 1, r.size)]
    PROVE  Listed(q) = Listed(r)
  BY DEF Listed

\* circqueue_push_tail without growth: the message goes to the end.
LEMMA StoredAppends ==
    ASSUME NEW q, Ring(q), q.count < q.size, NEW v \in Items
    PROVE  /\ Ring(Stored(q, v))
           /\ Listed(Stored(q, v)) = Append(Listed(q), v)
           /\ Stored(q, v).count = q.count + 1
           /\ Stored(q, v).size = q.size
  <1> DEFINE r == Stored(q, v)
  <1>0. /\ q.head \in Nat /\ q.tail \in Nat /\ q.count \in Nat /\ q.size \in Nat \ {0}
        /\ q.entries \in [0 .. (q.size - 1) -> Values]
        /\ q.tail \in 0 .. (q.size - 1)
    BY DEF Ring, Values
  <1>1. /\ r = [entries |-> [q.entries EXCEPT ![q.tail] = v], head |-> q.head,
                tail |-> Wrap(q.tail + 1, q.size), count |-> q.count + 1,
                size |-> q.size]
    BY DEF Stored
  <1>2. /\ r.entries = [q.entries EXCEPT ![q.tail] = v] /\ r.head = q.head
        /\ r.tail = Wrap(q.tail + 1, q.size) /\ r.count = q.count + 1
        /\ r.size = q.size
    BY <1>1
  <1>3. r.entries \in [0 .. (r.size - 1) -> Values]
    BY <1>0, <1>2 DEF Values
  <1>4. r.tail \in Nat /\ r.tail < r.size
    BY <1>2, RingFields, WrapFacts
  <1>5. r.tail = Wrap(r.head + r.count, r.size)
    BY <1>2, RingFields, WrapFacts
  <1>6. Ring(r)
    BY <1>0, <1>1, <1>2, <1>3, <1>4, <1>5 DEF Ring, Values
  <1>7. \A i \in 1 .. q.count : Wrap(q.head + i - 1, q.size) \in (0 .. (q.size - 1)) \ {q.tail}
    BY <1>0 DEF Ring, Wrap
  <1>8. \A i \in 1 .. q.count :
           r.entries[Wrap(r.head + i - 1, r.size)] = q.entries[Wrap(q.head + i - 1, q.size)]
    BY <1>0, <1>2, <1>7
  <1>9. r.entries[Wrap(r.head + r.count - 1, r.size)] = v
    <2>1. Wrap(r.head + r.count - 1, r.size) = q.tail
      BY <1>0, <1>2 DEF Ring, Wrap
    <2> QED
      BY <2>1, <1>0, <1>2
  <1>10. v \in Values
    BY DEF Values
  <1>11. /\ Append(Listed(q), v) \in Seq(Values)
         /\ Len(Append(Listed(q), v)) = q.count + 1
         /\ \A i \in 1 .. q.count : Append(Listed(q), v)[i] = Listed(q)[i]
         /\ Append(Listed(q), v)[q.count + 1] = v
    BY <1>10, ListedSeq, AppendProperties
  <1>12. /\ Listed(r) \in Seq(Values) /\ Len(Listed(r)) = q.count + 1
         /\ \A i \in 1 .. q.count + 1 :
               Listed(r)[i] = r.entries[Wrap(r.head + i - 1, r.size)]
    BY <1>2, <1>6, ListedSeq
  <1>13. \A i \in 1 .. q.count + 1 : Listed(r)[i] = Append(Listed(q), v)[i]
    <2> SUFFICES ASSUME NEW i \in 1 .. q.count + 1
                 PROVE  Listed(r)[i] = Append(Listed(q), v)[i]
      OBVIOUS
    <2>1. CASE i = q.count + 1
      BY <2>1, <1>0, <1>2, <1>9, <1>11, <1>12
    <2>2. CASE i # q.count + 1
      <3>1. i \in 1 .. q.count
        BY <2>2, <1>0
      <3> QED
        BY <3>1, <1>8, <1>11, <1>12, ListedSeq
    <2> QED
      BY <2>1, <2>2
  <1>14. Listed(r) = Append(Listed(q), v)
    BY <1>11, <1>12, <1>13, SeqEqual
  <1> QED
    BY <1>2, <1>6, <1>14

\* circqueue_grow of a full array keeps the messages and their order.
LEMMA GrowKeeps ==
    ASSUME NEW q, Ring(q), q.count = q.size
    PROVE  /\ Ring(Grow(q))
           /\ Listed(Grow(q)) = Listed(q)
           /\ Grow(q).count = q.count
           /\ Grow(q).size = 2 * q.size
  <1> DEFINE r == Grow(q)
             n == q.size
  <1>0. /\ q.head \in 0 .. (n - 1) /\ n \in Nat \ {0} /\ q.tail = q.head
        /\ q.entries \in [0 .. (n - 1) -> Values] /\ q.count = n
    BY DEF Ring, Wrap, Values
  <1>1. HeadChunk(q) = n - q.head /\ TailChunk(q) = q.head
    BY <1>0 DEF HeadChunk, TailChunk
  <1>2. /\ r.head = 0 /\ r.tail = n /\ r.count = n /\ r.size = 2 * n
        /\ r.entries = [i \in 0 .. (2 * n - 1) |->
                          IF i < n - q.head THEN q.entries[q.head + i]
                          ELSE IF i < n THEN q.entries[i - (n - q.head)] ELSE NoItem]
    BY <1>0, <1>1 DEF Grow
  <1>3. \A i \in 0 .. (2 * n - 1) :
           (IF i < n - q.head THEN q.entries[q.head + i]
            ELSE IF i < n THEN q.entries[i - (n - q.head)] ELSE NoItem) \in Values
    <2> SUFFICES ASSUME NEW i \in 0 .. (2 * n - 1)
                 PROVE  (IF i < n - q.head THEN q.entries[q.head + i]
                         ELSE IF i < n THEN q.entries[i - (n - q.head)] ELSE NoItem)
                            \in Values
      OBVIOUS
    <2> HIDE DEF r, n
    <2>1. NoItem \in Values
      BY DEF Values
    <2>2. \A k \in 0 .. (n - 1) : q.entries[k] \in Values
      BY <1>0
    <2>3. i < n - q.head => q.head + i \in 0 .. (n - 1)
      BY <1>0
    <2>4. ~(i < n - q.head) /\ i < n => i - (n - q.head) \in 0 .. (n - 1)
      BY <1>0
    <2> QED
      BY <2>1, <2>2, <2>3, <2>4
  <1>4. r.entries \in [0 .. (r.size - 1) -> Values]
    BY <1>2, <1>3
  <1>5. Ring(r)
    BY <1>0, <1>2, <1>4 DEF Ring, Wrap, Values, Grow
  <1>6. \A i \in 1 .. n :
           r.entries[Wrap(r.head + i - 1, r.size)] = q.entries[Wrap(q.head + i - 1, q.size)]
    <2> SUFFICES ASSUME NEW i \in 1 .. n
                 PROVE  r.entries[Wrap(r.head + i - 1, r.size)]
                            = q.entries[Wrap(q.head + i - 1, q.size)]
      OBVIOUS
    <2> HIDE DEF r
    <2>1. Wrap(r.head + i - 1, r.size) = i - 1 /\ i - 1 \in 0 .. (2 * n - 1) /\ i - 1 < n
      BY <1>0, <1>2 DEF Wrap
    <2>2. CASE i - 1 < n - q.head
      <3>1. Wrap(q.head + i - 1, q.size) = q.head + (i - 1)
        BY <1>0, <2>2 DEF Wrap
      <3> QED
        BY <1>2, <2>1, <2>2, <3>1
    <2>3. CASE ~(i - 1 < n - q.head)
      <3>1. Wrap(q.head + i - 1, q.size) = (i - 1) - (n - q.head)
        BY <1>0, <2>3 DEF Wrap
      <3> QED
        BY <1>2, <2>1, <2>3, <3>1
    <2> QED
      BY <2>2, <2>3
  <1>7. Listed(r) = Listed(q)
    <2> HIDE DEF r
    <2>1. r.count = q.count
      BY <1>0, <1>2
    <2> QED
      BY <1>0, <1>5, <1>6, <2>1, ListedEqual
  <1> QED
    BY <1>0, <1>2, <1>5, <1>7

\* circqueue_push_tail, with or without growth, appends the message.
LEMMA PushAppends ==
    ASSUME NEW q, Ring(q), NEW v \in Items, CanPush(q),
           MaxEntries # 0 => q.size = InitSize /\ q.count <= MaxEntries
    PROVE  /\ Ring(PushTail(q, v))
           /\ Listed(PushTail(q, v)) = Append(Listed(q), v)
           /\ PushTail(q, v).count = q.count + 1
           /\ MaxEntries # 0 => /\ PushTail(q, v).size = InitSize
                                /\ PushTail(q, v).count <= MaxEntries
  <1>0. q.count \in Nat /\ q.size \in Nat \ {0} /\ q.count <= q.size
    BY DEF Ring
  <1>1. CASE MustGrow(q)
    <2>1. MaxEntries = 0 /\ q.count = q.size
      BY <1>1 DEF MustGrow
    <2>2. /\ Ring(Grow(q)) /\ Listed(Grow(q)) = Listed(q)
          /\ Grow(q).count = q.count /\ Grow(q).size = 2 * q.size
      BY <2>1, GrowKeeps
    <2>3. Grow(q).count < Grow(q).size
      BY <1>0, <2>1, <2>2
    <2>4. PushTail(q, v) = Stored(Grow(q), v)
      BY <1>1 DEF PushTail
    <2> QED
      BY <2>1, <2>2, <2>3, <2>4, StoredAppends
  <1>2. CASE ~MustGrow(q)
    <2>1. PushTail(q, v) = Stored(q, v)
      BY <1>2 DEF PushTail
    <2>2. q.count < q.size /\ (MaxEntries # 0 => q.count < MaxEntries)
      BY <1>0, <1>2, QueueAssumption DEF MustGrow, CanPush
    <2>3. /\ Ring(Stored(q, v)) /\ Listed(Stored(q, v)) = Append(Listed(q), v)
          /\ Stored(q, v).count = q.count + 1 /\ Stored(q, v).size = q.size
      BY <2>2, StoredAppends
    <2> QED
      BY <1>0, <2>1, <2>2, <2>3, QueueAssumption
  <1> QED
    BY <1>1, <1>2

\* circqueue_pop_head takes the oldest message.
LEMMA PopTakesHead ==
    ASSUME NEW q, Ring(q), q.count # 0
    PROVE  /\ Ring(PopHead(q))
           /\ Listed(q) # <<>>
           /\ Head(Listed(q)) = HeadItem(q)
           /\ Listed(PopHead(q)) = Tail(Listed(q))
           /\ PopHead(q).count = q.count - 1
           /\ PopHead(q).size = q.size
  <1> DEFINE r == PopHead(q)
  <1>0. /\ q.head \in Nat /\ q.tail \in Nat /\ q.count \in Nat \ {0}
        /\ q.size \in Nat \ {0}
    BY DEF Ring
  <1>1. /\ r.entries = q.entries /\ r.head = Wrap(q.head + 1, q.size)
        /\ r.tail = q.tail /\ r.count = q.count - 1 /\ r.size = q.size
        /\ r = [entries |-> q.entries, head |-> Wrap(q.head + 1, q.size),
                tail |-> q.tail, count |-> q.count - 1, size |-> q.size]
    BY DEF PopHead
  <1> HIDE DEF r
  <1>2. r.tail = Wrap(r.head + r.count, r.size) /\ r.head \in Nat /\ r.head < r.size
    <2>1. q.count - 1 \in 0 .. q.size /\ q.count - 1 < q.size /\ 1 \in 0 .. q.size
      BY <1>0, RingFields
    <2>2. q.head + (q.count - 1) + 1 = q.head + q.count
      BY <1>0
    <2>3. r.tail = Wrap(r.head + r.count, r.size)
      <3> DEFINE c == q.count - 1
      <3>1. c \in 0 .. q.size /\ c < q.size /\ q.head + c + 1 = q.head + q.count
        BY <2>1, <2>2
      <3> HIDE DEF c
      <3>2. Wrap(Wrap(q.head + 1, q.size) + c, q.size) = Wrap(q.head + q.count, q.size)
        BY <3>1, RingFields, WrapFacts
      <3> QED
        BY <1>1, <3>2, RingFields DEF c
    <2>4. Wrap(q.head + 1, q.size) \in 0 .. (q.size - 1)
      BY <2>1, RingFields, WrapFacts
    <2> QED
      BY <1>0, <1>1, <2>3, <2>4
  <1>3. Ring(r)
    BY <1>0, <1>1, <1>2 DEF Ring
  <1>4. \A i \in 1 .. q.count - 1 :
           Wrap(r.head + i - 1, r.size) = Wrap(q.head + (i + 1) - 1, q.size)
    <2> SUFFICES ASSUME NEW i \in 1 .. q.count - 1
                 PROVE  Wrap(r.head + i - 1, r.size) = Wrap(q.head + (i + 1) - 1, q.size)
      OBVIOUS
    <2>1. i - 1 \in 0 .. q.size /\ i - 1 < q.size
      BY <1>0, RingFields
    <2>2. Wrap(Wrap(q.head + 1, q.size) + (i - 1), q.size) = Wrap(q.head + (i - 1) + 1, q.size)
      <3> DEFINE c == i - 1
      <3>1. c \in 0 .. q.size /\ c < q.size
        BY <2>1
      <3> HIDE DEF c
      <3>2. Wrap(Wrap(q.head + 1, q.size) + c, q.size) = Wrap(q.head + c + 1, q.size)
        BY <3>1, RingFields, WrapFacts
      <3> QED
        BY <3>2 DEF c
    <2>3. r.head + i - 1 = r.head + (i - 1) /\ q.head + (i + 1) - 1 = q.head + (i - 1) + 1
      BY <1>0, <1>2
    <2> QED
      BY <1>1, <2>2, <2>3
  <1>5. /\ Listed(q) \in Seq(Values) /\ Len(Listed(q)) = q.count
        /\ \A i \in 1 .. q.count :
              Listed(q)[i] = q.entries[Wrap(q.head + i - 1, q.size)]
    BY ListedSeq
  <1>6. Listed(q) # <<>>
    BY <1>0, <1>5, EmptySeq
  <1>7. Head(Listed(q)) = Listed(q)[1]
    BY <1>5, <1>6
  <1>8. Wrap(q.head + 1 - 1, q.size) = q.head
    BY <1>0 DEF Ring, Wrap
  <1>9. Head(Listed(q)) = HeadItem(q)
    BY <1>0, <1>5, <1>7, <1>8 DEF HeadItem
  <1>10. /\ Tail(Listed(q)) \in Seq(Values)
         /\ Len(Tail(Listed(q))) = q.count - 1
         /\ \A i \in 1 .. q.count - 1 : Tail(Listed(q))[i] = Listed(q)[i + 1]
    BY <1>5, <1>6, HeadTailProperties
  <1>11. /\ Listed(r) \in Seq(Values) /\ Len(Listed(r)) = q.count - 1
         /\ \A i \in 1 .. q.count - 1 :
               Listed(r)[i] = q.entries[Wrap(r.head + i - 1, r.size)]
    BY <1>1, <1>3, ListedSeq
  <1>12. \A i \in 1 .. q.count - 1 : Listed(r)[i] = Tail(Listed(q))[i]
    <2> SUFFICES ASSUME NEW i \in 1 .. q.count - 1
                 PROVE  Listed(r)[i] = Tail(Listed(q))[i]
      OBVIOUS
    <2>1. i + 1 \in 1 .. q.count
      BY <1>0
    <2> QED
      BY <2>1, <1>4, <1>5, <1>10, <1>11
  <1>13. Listed(r) = Tail(Listed(q))
    BY <1>10, <1>11, <1>12, SeqEqual
  <1> QED
    BY <1>1, <1>3, <1>6, <1>9, <1>13 DEF r

-----------------------------------------------------------------------------

\* A new queue satisfies the invariant and lists no message.
LEMMA QueueInvInit ==
    Init => QueueInv /\ Contents = <<>>
  <1> SUFFICES ASSUME Init PROVE QueueInv /\ Contents = <<>>
    OBVIOUS
  <1> USE QueueAssumption
  <1>1. Ring(cq) /\ cq.count = 0 /\ cq.size = InitSize
    BY DEF Init, NewQueue, Ring, Wrap
  <1>2. Contents = <<>>
    BY <1>1, ListedSeq, EmptySeq DEF Contents
  <1> QED
    BY <1>1, <1>2 DEF Init, QueueInv, RingOK, NoLostWakeup

\* msgqueue_push leaves the queue as it was or appends the new message, and
\* keeps the invariant.
LEMMA PushStep ==
    ASSUME QueueInv, NEW p \in Pushers, MsgqueuePush(p)
    PROVE  /\ QueueInv'
           /\ \/ \E v \in Items : Channel!Push(v)
              \/ UNCHANGED <<Contents, taken>>
  <1> USE QueueAssumption
  <1> DEFINE v == <<p, pushed[p] + 1>>
  <1>1. Ring(cq) /\ (MaxEntries # 0 => cq.size = InitSize /\ cq.count <= MaxEntries)
    BY DEF QueueInv, RingOK
  <1>2. pushed[p] \in 0 .. MaxPush /\ pushed[p] < MaxPush
    BY DEF QueueInv, MsgqueuePush
  <1>3. v \in Items
    BY <1>2 DEF Items
  <1>4. pushed' \in [Pushers -> 0 .. MaxPush]
    BY <1>2 DEF QueueInv, MsgqueuePush
  <1>5. lock = {} /\ UNCHANGED <<bytes, pop, taken>>
    BY DEF MsgqueuePush
  <1>6. CASE CanPush(cq) /\ cq' = PushTail(cq, v) /\ lock' = IF MustWake(cq') THEN {p} ELSE {}
    <2>1. /\ Ring(cq') /\ Listed(cq') = Append(Listed(cq), v)
          /\ cq'.count = cq.count + 1
          /\ MaxEntries # 0 => cq'.size = InitSize /\ cq'.count <= MaxEntries
      BY SMTT(30), <1>1, <1>3, <1>6, PushAppends
    <2>2. RingOK'
      BY <2>1 DEF RingOK, Ring, Wrap, Items
    <2>3. NoLostWakeup'
      <3>1. CASE cq.count = 0
        BY <3>1, <2>1, <1>6 DEF MustWake, NoLostWakeup
      <3>2. CASE cq.count # 0
        BY <3>2, <1>1, <1>5 DEF NoLostWakeup, QueueInv, Ring
      <3> QED
        BY <3>1, <3>2
    <2>4. lock' \in {{}} \cup {{x} : x \in Pushers}
      BY <1>6
    <2>5. QueueInv'
      BY <1>4, <1>5, <2>2, <2>3, <2>4 DEF QueueInv
    <2>6. Contents' = Append(Contents, v)
      BY <2>1 DEF Contents, Listed, Wrap
    <2>7. Channel!Push(v)
      BY <2>6, <1>5 DEF Channel!Push
    <2> QED
      BY <2>5, <2>7, <1>3
  <1>7. CASE UNCHANGED <<cq, lock>>
    <2>1. QueueInv'
      BY <1>4, <1>5, <1>7 DEF QueueInv, RingOK, Ring, NoLostWakeup, Wrap, Items
    <2>2. UNCHANGED <<Contents, taken>>
      BY <1>5, <1>7 DEF Contents, Listed, Wrap
    <2> QED
      BY <2>1, <2>2
  <1> QED
    BY <1>6, <1>7 DEF MsgqueuePush

\* The body of the loop of msgqueue_pop takes the oldest message.
LEMMA TakeStep ==
    ASSUME QueueInv, PopTake
    PROVE  QueueInv' /\ Channel!Take
  <1> USE QueueAssumption
  <1>1. Ring(cq) /\ (MaxEntries # 0 => cq.size = InitSize /\ cq.count <= MaxEntries)
    BY DEF QueueInv, RingOK
  <1>2. /\ cq.count # 0 /\ cq' = PopHead(cq) /\ taken' = Append(taken, HeadItem(cq))
        /\ pop' = "callback" /\ UNCHANGED <<bytes, lock, pushed>>
    BY DEF PopTake
  <1>3. /\ Ring(cq') /\ Listed(cq) # <<>> /\ Head(Listed(cq)) = HeadItem(cq)
        /\ Listed(cq') = Tail(Listed(cq))
        /\ cq'.count = cq.count - 1 /\ cq'.size = cq.size
    BY <1>1, <1>2, PopTakesHead
  <1>4. RingOK'
    BY SMTT(30), <1>1, <1>3 DEF RingOK, Ring, Wrap, Items
  <1>5. QueueInv'
    BY <1>2, <1>4 DEF QueueInv, NoLostWakeup
  <1>6. Contents' = Tail(Contents)
    BY <1>3 DEF Contents, Listed, Wrap
  <1>7. Contents # <<>> /\ taken' = Append(taken, Head(Contents))
    BY <1>2, <1>3 DEF Contents
  <1> QED
    BY <1>5, <1>6, <1>7 DEF Channel!Take

\* Every step keeps the invariant and is a step of the channel or changes
\* nothing of it.
LEMMA QueueStep ==
    ASSUME QueueInv, [Next]_vars
    PROVE  QueueInv' /\ [Channel!Next]_Channel!chanVars
  <1> USE QueueAssumption
  <1>1. CASE \E p \in Pushers : MsgqueuePush(p)
    BY <1>1, PushStep DEF Channel!Next, Channel!chanVars
  <1>2. CASE PopTake
    BY <1>2, TakeStep DEF Channel!Next
  <1>3. CASE UNCHANGED <<cq, taken>> /\ QueueInv'
    <2>1. UNCHANGED Channel!chanVars
      BY <1>3 DEF Channel!chanVars, Contents, Listed, Wrap
    <2> QED
      BY <1>3, <2>1
  <1>4. ASSUME UNCHANGED cq PROVE RingOK'
    BY <1>4 DEF QueueInv, RingOK, Ring, Wrap, Items
  <1>5. ASSUME NEW p \in Pushers, SendByte(p) PROVE UNCHANGED <<cq, taken>> /\ QueueInv'
    BY <1>5, <1>4 DEF SendByte, QueueInv, NoLostWakeup
  <1>6. CASE PopRecv
    <2>1. bytes' \in Nat
      BY <1>6 DEF PopRecv, QueueInv
    <2> QED
      BY <1>6, <1>4, <1>3, <2>1 DEF PopRecv, QueueInv, NoLostWakeup
  <1>7. CASE PopEmpty
    BY <1>7, <1>4, <1>3 DEF PopEmpty, QueueInv, NoLostWakeup
  <1>8. CASE PopCallback
    BY <1>8, <1>4, <1>3 DEF PopCallback, QueueInv, NoLostWakeup
  <1>9. CASE UNCHANGED vars
    BY <1>9, <1>4, <1>3 DEF vars, QueueInv, NoLostWakeup
  <1> QED
    BY <1>1, <1>2, <1>3, <1>5, <1>6, <1>7, <1>8, <1>9 DEF Next

-----------------------------------------------------------------------------

\* In every reachable state the circular array, the wake-up byte and the lock
\* agree.
THEOREM QueueInvariant == Spec => []QueueInv
  <1>1. Init => QueueInv
    BY QueueInvInit
  <1>2. QueueInv /\ [Next]_vars => QueueInv'
    BY QueueStep
  <1> QED
    BY <1>1, <1>2, PTL DEF Spec

\* head, tail, count and the array of the circular queue stay consistent.
THEOREM RingCorrect == Spec => []RingOK
  <1>1. QueueInv => RingOK
    BY DEF QueueInv
  <1> QED
    BY <1>1, QueueInvariant, PTL

\* A message never waits in the queue while the loop sleeps with no byte to
\* wake it.
THEOREM WakeupSafe == Spec => []NoLostWakeup
  <1>1. QueueInv => NoLostWakeup
    BY DEF QueueInv
  <1> QED
    BY <1>1, QueueInvariant, PTL

\* event_msgqueue.c implements the first-in first-out channel: wrap-around,
\* growth and failed pushes neither lose, duplicate nor reorder a message.
THEOREM FifoRefinement == Spec => ImplementsChannel
  <1>1. Init => Channel!Init
    BY QueueInvInit DEF Channel!Init, Init
  <1>2. QueueInv /\ [Next]_vars => [Channel!Next]_Channel!chanVars
    BY QueueStep
  <1>3. Spec => []QueueInv
    BY QueueInvariant
  <1> QED
    BY <1>1, <1>2, <1>3, PTL DEF Spec, ImplementsChannel, Channel!Spec
=============================================================================
