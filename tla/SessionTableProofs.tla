------------------------- MODULE SessionTableProofs -------------------------
(***************************************************************************)
(* What the operations of the session table do, proved for every number of *)
(* rows, row size, sequence width and set of sessions: allocKey, put and   *)
(* remove keep the free list a chain of exactly the keys that are free.    *)
(* SessionManagerProofs and EventServerProofs build on it.                 *)
(***************************************************************************)
EXTENDS SessionTable, FiniteSetTheorems, WellFoundedInduction, TLAPS

-----------------------------------------------------------------------------
(* Arithmetic of keys and rows *)

\* Integer division by the row size finds the row whose range holds the key.
LEMMA DivIsRow ==
    ASSUME NEW c \in Nat \ {0}, NEW k \in Nat, NEW r \in Nat
    PROVE  k \div c = r <=> (c * r <= k /\ k <= c * r + c - 1)
BY Z3

\* A row below the last one ends before the table does.
LEMMA RowFits ==
    ASSUME NEW c \in Nat \ {0}, NEW n \in Nat, NEW r \in 1 .. (n - 1)
    PROVE  c <= c * r /\ c * r + c <= c * n /\ c * r \in Nat
BY Z3

\* Keys are positive naturals; RowOf of spsession.cpp "key / eColPerRow" and
\* the range RowKeys agree.
LEMMA KeyRow ==
    ASSUME NEW k \in Keys, NEW r \in 1 .. (Rows - 1)
    PROVE  /\ k \in Nat /\ k # 0
           /\ RowOf(k) = r <=> k \in RowKeys(r)
<1>1. ColPerRow \in Nat \ {0} /\ Rows \in Nat
  BY TableAssumption
<1>2. k \in Nat /\ k # 0
  <2>1. ColPerRow * Rows \in Nat
    BY <1>1, Z3
  <2> QED BY <1>1, <2>1 DEF Keys
<1>3. ColPerRow * r \in Nat
  BY <1>1, RowFits
<1>4. r \in Nat
  BY <1>1
<1> QED
  BY <1>1, <1>2, <1>3, <1>4, DivIsRow DEF RowOf, RowKeys

\* Every key lies in a row of the table other than row 0.
LEMMA KeyHasRow ==
    \A k \in Keys : k # 0 /\ RowOf(k) \in 1 .. (Rows - 1)
<1>1. ColPerRow \in Nat \ {0} /\ Rows \in Nat
  BY TableAssumption
<1>2. ASSUME NEW c \in Nat \ {0}, NEW n \in Nat, NEW k \in c .. (c * n - 1)
      PROVE  k # 0 /\ k \div c \in 1 .. (n - 1)
  <2>1. c * n \in Nat /\ k \in Nat /\ c <= k /\ k < c * n
    BY Z3
  <2>2. k \div c \in Nat
    BY <2>1, Z3
  <2>3. c * (k \div c) <= k /\ k <= c * (k \div c) + c - 1
    BY <2>1, <2>2, DivIsRow
  <2>4. k \div c # 0
    BY <2>1, <2>3, Z3
  <2>5. k \div c < n
    <3> DEFINE r == k \div c
    <3>1. r \in Nat /\ c * r <= k /\ k < c * n
      BY <2>1, <2>2, <2>3
    <3> HIDE DEF r
    <3>2. ~(n <= r)
      BY <3>1, Z3
    <3> QED BY <3>1, <3>2 DEF r
  <2> QED BY <2>1, <2>2, <2>4, <2>5
<1> QED BY <1>1, <1>2 DEF Keys, RowOf

\* The keys of a row that can be allocated are keys of the table.
LEMMA RowKeysAreKeys ==
    ASSUME NEW r \in 1 .. (Rows - 1)
    PROVE  /\ RowKeys(r) \subseteq Keys
           /\ ColPerRow * r \in Nat
           /\ ColPerRow * r \in RowKeys(r)
           /\ LastOf(r) \in RowKeys(r)
<1>1. ColPerRow \in Nat \ {0} /\ Rows \in Nat
  BY TableAssumption
<1>2. /\ ColPerRow <= ColPerRow * r
      /\ ColPerRow * r + ColPerRow <= ColPerRow * Rows
      /\ ColPerRow * r \in Nat
  BY <1>1, RowFits
<1>3. ColPerRow * Rows \in Nat
  BY <1>1, Z3
<1> QED
  BY <1>1, <1>2, <1>3 DEF RowKeys, Keys, LastOf

-----------------------------------------------------------------------------
(* The free list *)

\* Popping the head of the free list (allocKey) leaves a chain without it.
LEMMA PopChain ==
    ASSUME NEW S, NEW m \in Table(S), NEW free,
           NEW c \in [1 .. m.mFreeCount -> Keys],
           FreeChain(m, c, free), m.mFreeList # 0
    PROVE  /\ Popped(m) \in Table(S)
           /\ m.mFreeList \in Keys
           /\ m.mFreeList \in free
           /\ \E d \in [1 .. Popped(m).mFreeCount -> Keys] :
                 FreeChain(Popped(m), d, free \ {m.mFreeList})
<1> DEFINE n == m.mFreeCount
           p == Popped(m)
           d == [i \in 1 .. (n - 1) |-> c[i + 1]]
<1>1. n \in Nat /\ n # 0 /\ m.mFreeList = c[1]
  BY DEF FreeChain, Table
<1>2. m.mFreeList \in Keys /\ m.mFreeList \in free
  BY <1>1 DEF FreeChain
<1>3. /\ p.mFreeCount = n - 1
      /\ p.mFreeList = m.mNext[c[1]]
      /\ p.mNext = m.mNext
  BY <1>1 DEF Popped, Table
<1>4. p \in Table(S)
  <2> DEFINE next == m.mNext[m.mFreeList]
  <2>1. next \in Keys \cup {0}
    BY <1>2 DEF Table
  <2>2. p = [m EXCEPT !.mFreeCount = @ - 1, !.mFreeList = next]
    BY DEF Popped
  <2> HIDE DEF next
  <2>3. p = [mArray |-> m.mArray, mSeq |-> m.mSeq, mNext |-> m.mNext,
             mSession |-> m.mSession, mFreeList |-> next,
             mFreeCount |-> m.mFreeCount - 1, mCount |-> m.mCount]
    BY <2>2 DEF Table
  <2> QED BY <1>1, <2>1, <2>3 DEF Table
<1>5. d \in [1 .. p.mFreeCount -> Keys]
  BY <1>1, <1>3
<1>6. FreeChain(p, d, free \ {m.mFreeList})
  <2>1. p.mFreeList = IF p.mFreeCount = 0 THEN 0 ELSE d[1]
    BY <1>1, <1>3 DEF FreeChain
  <2>2. \A i \in 1 .. p.mFreeCount :
           p.mNext[d[i]] = IF i = p.mFreeCount THEN 0 ELSE d[i + 1]
    BY <1>1, <1>3 DEF FreeChain
  <2>3. \A i, j \in 1 .. p.mFreeCount : d[i] = d[j] => i = j
    BY <1>1, <1>3 DEF FreeChain
  <2>4. \A i \in 1 .. p.mFreeCount : d[i] \in free \ {m.mFreeList}
    BY <1>1, <1>3 DEF FreeChain
  <2>5. ASSUME NEW k \in free \ {m.mFreeList}
        PROVE  \E i \in 1 .. p.mFreeCount : d[i] = k
    <3>1. PICK j \in 1 .. n : c[j] = k
      BY DEF FreeChain
    <3>2. j # 1
      BY <1>1, <3>1
    <3>3. j - 1 \in 1 .. p.mFreeCount /\ d[j - 1] = k
      BY <1>1, <1>3, <3>1, <3>2
    <3> QED BY <3>3
  <2> QED BY <2>1, <2>2, <2>3, <2>4, <2>5 DEF FreeChain
<1> QED BY <1>2, <1>4, <1>5, <1>6

\* remove() pushes the key it frees in front of the free list.
LEMMA PushChain ==
    ASSUME NEW S, NEW m \in Table(S), NEW free,
           NEW c \in [1 .. m.mFreeCount -> Keys],
           NEW key \in Keys,
           FreeChain(m, c, free), key \notin free, RowOf(key) \in m.mArray
    PROVE  /\ Remove(m, key) \in Table(S)
           /\ \E d \in [1 .. Remove(m, key).mFreeCount -> Keys] :
                 FreeChain(Remove(m, key), d, free \cup {key})
<1> DEFINE n == m.mFreeCount
           p == Remove(m, key)
           d == [i \in 1 .. (n + 1) |-> IF i = 1 THEN key ELSE c[i - 1]]
<1>1. n \in Nat
  BY DEF Table
<1>2. /\ p.mFreeCount = n + 1
      /\ p.mFreeList = key
      /\ p.mNext = [m.mNext EXCEPT ![key] = m.mFreeList]
  BY DEF Remove, Table
<1>3. p \in Table(S)
  <2>1. SeqMod \in Nat /\ SeqMod > 1
    BY TableAssumption
  <2>2. \A q \in Seqs : NextSeq(q) \in Seqs
    BY <2>1 DEF NextSeq, Seqs
  <2>3. p = [mArray |-> m.mArray,
             mSeq |-> [m.mSeq EXCEPT ![key] = NextSeq(@)],
             mNext |-> [m.mNext EXCEPT ![key] = m.mFreeList],
             mSession |-> [m.mSession EXCEPT ![key] = NULL],
             mFreeList |-> key,
             mFreeCount |-> m.mFreeCount + 1, mCount |-> m.mCount - 1]
    BY DEF Remove, Table
  <2> QED BY <1>1, <2>2, <2>3 DEF Table
<1>4. d \in [1 .. p.mFreeCount -> Keys]
  BY <1>1, <1>2
<1>5. FreeChain(p, d, free \cup {key})
  <2>1. p.mFreeList = IF p.mFreeCount = 0 THEN 0 ELSE d[1]
    BY <1>1, <1>2
  <2>2. ASSUME NEW i \in 1 .. p.mFreeCount
        PROVE  p.mNext[d[i]] = IF i = p.mFreeCount THEN 0 ELSE d[i + 1]
    <3>0. m.mNext \in [Keys -> Keys \cup {0}]
      BY DEF Table
    <3>1. CASE i = 1
      BY <1>1, <1>2, <3>0, <3>1 DEF FreeChain
    <3>2. CASE i # 1
      <4>1. i - 1 \in 1 .. n /\ d[i] = c[i - 1]
        BY <1>1, <1>2, <3>2
      <4>2. c[i - 1] \in Keys /\ c[i - 1] # key
        BY <4>1 DEF FreeChain
      <4>3. p.mNext[d[i]] = m.mNext[c[i - 1]]
        BY <1>2, <3>0, <4>1, <4>2
      <4>4. m.mNext[c[i - 1]] = IF i - 1 = n THEN 0 ELSE c[(i - 1) + 1]
        BY <4>1 DEF FreeChain
      <4> QED BY <1>1, <1>2, <3>2, <4>3, <4>4
    <3> QED BY <3>1, <3>2
  <2>3. \A i, j \in 1 .. p.mFreeCount : d[i] = d[j] => i = j
    BY <1>1, <1>2 DEF FreeChain
  <2>4. \A i \in 1 .. p.mFreeCount : d[i] \in free \cup {key}
    BY <1>1, <1>2 DEF FreeChain
  <2>5. ASSUME NEW k \in free \cup {key}
        PROVE  \E i \in 1 .. p.mFreeCount : d[i] = k
    <3>1. CASE k = key
      <4>1. 1 \in 1 .. p.mFreeCount /\ d[1] = k
        BY <1>1, <1>2, <3>1
      <4> QED BY <4>1
    <3>2. CASE k \in free
      <4>1. PICK j \in 1 .. n : c[j] = k
        BY <3>2 DEF FreeChain
      <4>2. j + 1 \in 1 .. p.mFreeCount /\ d[j + 1] = k
        BY <1>1, <1>2, <4>1
      <4> QED BY <4>2
    <3> QED BY <3>1, <3>2
  <2> QED BY <2>1, <2>2, <2>3, <2>4, <2>5 DEF FreeChain
<1> QED BY <1>3, <1>4, <1>5

\* A nonempty set of natural numbers has a least element.
LEMMA LeastOf ==
    ASSUME NEW S, S \subseteq Nat, S # {}
    PROVE  \E x \in S : \A y \in S : x <= y
<1> DEFINE less == OpToRel(<, Nat)
<1>1. \E x \in S : \A y \in S : ~(<<y, x>> \in less)
  <2>1. IsWellFoundedOn(less, Nat)
    BY NatLessThanWellFounded
  <2>2. ASSUME NEW R, NEW T, IsWellFoundedOn(R, Nat), T \subseteq Nat, T # {}
        PROVE  \E x \in T : \A y \in T : ~(<<y, x>> \in R)
    BY <2>2, WFMin, Zenon
  <2> HIDE DEF less
  <2> QED
    BY <2>1, <2>2, Zenon
<1>2. \A x, y \in Nat : y < x => <<y, x>> \in less
  BY DEF OpToRel
<1> HIDE DEF less
<1>3. PICK x \in S : \A y \in S : ~(<<y, x>> \in less)
  BY <1>1
<1>4. \A y \in S : ~(y < x)
  BY <1>2, <1>3
<1>5. \A y \in S : x <= y
  BY <1>4
<1> QED
  BY <1>5

\* The loop of allocKey that looks for a NULL row finds the first one.
LEMMA FirstNullRow ==
    ASSUME NEW m, NullRows(m) # {}
    PROVE  \E r \in NullRows(m) : \A q \in NullRows(m) : r <= q
<1>1. NullRows(m) \subseteq Nat
  BY TableAssumption DEF NullRows
<1> QED
  BY <1>1, LeastOf

\* The keys of the allocated rows that are not held
Avail(m, held) == {k \in Keys : RowOf(k) \in m.mArray /\ k \notin held}

\* Allocating a row when the free list is empty makes a chain of its keys; no
\* entry's session or sequence number changes.
LEMMA RefillChain ==
    ASSUME NEW S, NEW m \in Table(S), NEW held,
           \A k \in held : k \in Keys /\ RowOf(k) \in m.mArray,
           NEW c \in [1 .. m.mFreeCount -> Keys],
           FreeChain(m, c, Avail(m, held))
    PROVE  LET p == Refilled(m) IN
           /\ p \in Table(S)
           /\ p.mSeq = m.mSeq /\ p.mSession = m.mSession /\ p.mCount = m.mCount
           /\ m.mArray \subseteq p.mArray
           /\ p.mFreeList = 0 => p = m /\ NullRows(m) = {}
           /\ \E d \in [1 .. p.mFreeCount -> Keys] :
                 FreeChain(p, d, Avail(p, held))
<1> DEFINE p == Refilled(m)
<1>1. CASE ~(m.mFreeList = 0 /\ NullRows(m) # {})
  <2>1. p = m
    BY <1>1 DEF Refilled
  <2>2. p.mFreeList = 0 => NullRows(m) = {}
    BY <1>1, <2>1
  <2> HIDE DEF p
  <2>3. \E d \in [1 .. p.mFreeCount -> Keys] :
           FreeChain(p, d, Avail(p, held))
    BY <2>1
  <2> QED BY <2>1, <2>2, <2>3 DEF p
<1>2. CASE m.mFreeList = 0 /\ NullRows(m) # {}
  <2> DEFINE r == CHOOSE x \in NullRows(m) : \A q \in NullRows(m) : x <= q
             d == [i \in 1 .. ColPerRow |-> ColPerRow * r + i - 1]
  <2>1. p = WithRow(m, r)
    BY <1>2 DEF Refilled
  <2>2. r \in NullRows(m)
    BY <1>2, FirstNullRow
  <2> HIDE DEF r, p
  <2>3. r \in 1 .. (Rows - 1) /\ r \notin m.mArray
    BY <2>2 DEF NullRows
  <2>4. /\ RowKeys(r) \subseteq Keys
        /\ ColPerRow * r \in Nat
        /\ ColPerRow * r \in Keys
        /\ ColPerRow * r \in RowKeys(r)
        /\ LastOf(r) \in RowKeys(r)
    BY <2>3, RowKeysAreKeys
  <2>5. ColPerRow \in Nat \ {0}
    BY TableAssumption
  <2>6. m.mFreeCount = 0
    <3>1. m.mFreeCount \in Nat
      BY DEF Table
    <3>2. ASSUME m.mFreeCount # 0 PROVE FALSE
      <4>1. c[1] \in Keys /\ m.mFreeList = c[1]
        BY <3>1, <3>2 DEF FreeChain
      <4>2. \A k \in Keys : k # 0
        BY KeyRow, <2>3
      <4> QED BY <1>2, <4>1, <4>2
    <3> QED BY <3>2
  <2> DEFINE nxt == [k \in Keys |->
                       IF k \notin RowKeys(r) THEN m.mNext[k]
                       ELSE IF k = LastOf(r) THEN m.mFreeList ELSE k + 1]
  <2>7. nxt \in [Keys -> Keys \cup {0}]
    <3> SUFFICES ASSUME NEW k \in Keys PROVE nxt[k] \in Keys \cup {0}
      OBVIOUS
    <3>1. m.mNext[k] \in Keys \cup {0}
      BY DEF Table
    <3>2. CASE k \in RowKeys(r) /\ k # LastOf(r)
      <4>1. k + 1 \in RowKeys(r)
        BY <2>4, <2>5, <3>2 DEF RowKeys, LastOf
      <4> QED BY <2>4, <3>2, <4>1
    <3> QED BY <1>2, <3>1, <3>2
  <2>8. p = [mArray |-> m.mArray \cup {r}, mSeq |-> m.mSeq, mNext |-> nxt,
             mSession |-> m.mSession, mFreeList |-> ColPerRow * r,
             mFreeCount |-> m.mFreeCount + ColPerRow, mCount |-> m.mCount]
    <3>1. p = [m EXCEPT !.mArray = @ \cup {r}, !.mFreeCount = @ + ColPerRow,
                        !.mNext = nxt, !.mFreeList = ColPerRow * r]
      BY <2>1 DEF WithRow
    <3> HIDE DEF nxt
    <3> QED BY <3>1 DEF Table
  <2>9. \A k \in RowKeys(r) : nxt[k] = IF k = LastOf(r) THEN 0 ELSE k + 1
    BY <1>2, <2>4
  <2> HIDE DEF nxt
  <2>10. /\ p.mArray = m.mArray \cup {r} /\ p.mNext = nxt
         /\ p.mFreeList = ColPerRow * r /\ p.mFreeCount = ColPerRow
         /\ p.mSeq = m.mSeq /\ p.mSession = m.mSession /\ p.mCount = m.mCount
    BY <2>5, <2>6, <2>8
  <2>11. p \in Table(S)
    <3>1. m.mArray \cup {r} \in SUBSET (1 .. (Rows - 1))
      BY <2>3 DEF Table
    <3>2. m.mFreeCount + ColPerRow \in Nat
      BY <2>5, <2>6
    <3> QED BY <2>4, <2>7, <2>8, <3>1, <3>2 DEF Table
  <2>12. d \in [1 .. p.mFreeCount -> Keys]
    <3>1. \A i \in 1 .. ColPerRow : ColPerRow * r + i - 1 \in RowKeys(r)
      BY <2>4, <2>5 DEF RowKeys
    <3> QED BY <2>4, <2>10, <3>1
  <2>13. Avail(p, held) = RowKeys(r)
    <3>1. \A k \in Keys : RowOf(k) = r <=> k \in RowKeys(r)
      BY <2>3, KeyRow
    <3>2. \A k \in Keys : ~(RowOf(k) \in m.mArray /\ k \notin held)
      <4>1. 1 .. m.mFreeCount = {}
        BY <2>6
      <4> QED BY <4>1 DEF FreeChain, Avail
    <3>3. \A k \in Keys : RowOf(k) = r => k \notin held
      BY <2>3
    <3> QED BY <2>4, <2>10, <3>1, <3>2, <3>3 DEF Avail
  <2>14. FreeChain(p, d, RowKeys(r))
    <3>1. p.mFreeList = IF p.mFreeCount = 0 THEN 0 ELSE d[1]
      BY <2>4, <2>5, <2>10
    <3>2. \A i \in 1 .. p.mFreeCount :
             p.mNext[d[i]] = IF i = p.mFreeCount THEN 0 ELSE d[i + 1]
      <4> SUFFICES ASSUME NEW i \in 1 .. ColPerRow
                   PROVE  nxt[d[i]] = IF i = ColPerRow THEN 0 ELSE d[i + 1]
        BY <2>10
      <4>1. d[i] = ColPerRow * r + i - 1 /\ d[i] \in RowKeys(r)
        BY <2>4, <2>5 DEF RowKeys
      <4>2. d[i] = LastOf(r) <=> i = ColPerRow
        BY <2>4, <2>5, <4>1 DEF LastOf
      <4>3. i # ColPerRow => d[i + 1] = d[i] + 1
        BY <2>4, <2>5, <4>1
      <4> QED BY <2>9, <4>1, <4>2, <4>3
    <3>3. \A i, j \in 1 .. p.mFreeCount : d[i] = d[j] => i = j
      BY <2>4, <2>5, <2>10
    <3>4. \A i \in 1 .. p.mFreeCount : d[i] \in RowKeys(r)
      BY <2>4, <2>5, <2>10 DEF RowKeys
    <3>5. ASSUME NEW k \in RowKeys(r)
          PROVE  \E i \in 1 .. p.mFreeCount : d[i] = k
      <4> DEFINE i == k - ColPerRow * r + 1
      <4>1. i \in 1 .. ColPerRow /\ d[i] = k
        BY <2>4, <2>5 DEF RowKeys
      <4> QED BY <2>10, <4>1
    <3> QED BY <3>1, <3>2, <3>3, <3>4, <3>5 DEF FreeChain
  <2>15. p.mFreeList # 0
    BY <2>3, <2>4, <2>10, KeyRow
  <2>16. \E e \in [1 .. p.mFreeCount -> Keys] :
            FreeChain(p, e, Avail(p, held))
    BY <2>12, <2>13, <2>14
  <2> QED BY <2>10, <2>11, <2>15, <2>16 DEF p
<1> QED BY <1>1, <1>2

-----------------------------------------------------------------------------
(* A table whose keys are put as soon as they are allocated *)

\* The entries that are free, of the rows that there are
FreeEntries(m) == {k \in Keys : RowOf(k) \in m.mArray /\ m.mSession[k] = NULL}

\* A key is in use only in a row that was allocated, and the free list holds
\* the others.
TableOK(m, S) ==
    /\ m \in Table(S)
    /\ \A k \in Keys : m.mSession[k] # NULL => RowOf(k) \in m.mArray
    /\ \E c \in [1 .. m.mFreeCount -> Keys] : FreeChain(m, c, FreeEntries(m))

\* The constructor's table has no row.
LEMMA EmptyTableOK ==
    ASSUME NEW S
    PROVE  TableOK(EmptyTable, S)
<1> DEFINE c == [i \in 1 .. 0 |-> ColPerRow]
<1>1. 0 \in Seqs
  BY TableAssumption DEF Seqs
<1>2. EmptyTable \in Table(S)
  BY <1>1 DEF EmptyTable, Table
<1>3. FreeEntries(EmptyTable) = {}
  BY DEF FreeEntries, EmptyTable
<1>4. /\ EmptyTable.mFreeCount = 0 /\ EmptyTable.mFreeList = 0
      /\ \A k \in Keys : EmptyTable.mSession[k] = NULL
  BY DEF EmptyTable
<1>5. c \in [1 .. EmptyTable.mFreeCount -> Keys] /\ FreeChain(EmptyTable, c, {})
  BY <1>4 DEF FreeChain
<1> QED BY <1>2, <1>3, <1>4, <1>5 DEF TableOK

\* allocKey and put, as onAccept calls them: the session gets an entry that no
\* other session has, and the sid carries its sequence number.
LEMMA AllocPut ==
    ASSUME NEW S, NULL \notin S, NEW m, TableOK(m, S), AllocKeyOf(m) # 0, NEW s \in S
    PROVE  LET key == AllocKeyOf(m)
               p == Put(AllocKey(m), key, s)
           IN  /\ TableOK(p, S)
               /\ key \in Keys /\ AllocSeqOf(m) = m.mSeq[key] /\ AllocSeqOf(m) \in Seqs
               /\ m.mSession[key] = NULL
               /\ p.mSession[key] = s
               /\ \A k \in Keys : k # key => p.mSession[k] = m.mSession[k]
               /\ p.mSeq = m.mSeq
               /\ RowOf(key) \in p.mArray /\ m.mArray \subseteq p.mArray
<1> DEFINE r == Refilled(m)
           key == AllocKeyOf(m)
           q == Popped(r)
           p == Put(AllocKey(m), key, s)
           held == {k \in Keys : m.mSession[k] # NULL}
<1>1. m \in Table(S) /\ \A k \in held : k \in Keys /\ RowOf(k) \in m.mArray
  BY DEF TableOK
<1>2. FreeEntries(m) = Avail(m, held)
  BY DEF FreeEntries, Avail
<1>3. PICK c \in [1 .. m.mFreeCount -> Keys] : FreeChain(m, c, FreeEntries(m))
  BY DEF TableOK
<1> DEFINE free == Avail(r, held)
<1>4. /\ r \in Table(S)
      /\ r.mSeq = m.mSeq /\ r.mSession = m.mSession
      /\ m.mArray \subseteq r.mArray
      /\ \E d \in [1 .. r.mFreeCount -> Keys] : FreeChain(r, d, free)
  <2> HIDE DEF held
  <2>1. FreeChain(m, c, Avail(m, held))
    BY <1>2, <1>3
  <2> QED BY <1>1, <2>1, RefillChain
<1>5. key = r.mFreeList /\ key # 0 /\ AllocKey(m) = q /\ AllocSeqOf(m) = r.mSeq[key]
  BY DEF AllocKeyOf, AllocKey, AllocSeqOf
<1> HIDE DEF r, key
<1>6. /\ q \in Table(S) /\ key \in Keys /\ key \in free
      /\ \E d \in [1 .. q.mFreeCount -> Keys] : FreeChain(q, d, free \ {key})
  <2> HIDE DEF free, q
  <2>1. PICK d \in [1 .. r.mFreeCount -> Keys] : FreeChain(r, d, free)
    BY <1>4
  <2> QED BY <1>4, <1>5, <2>1, PopChain DEF q
<1>7. q.mSeq = r.mSeq /\ q.mSession = r.mSession /\ q.mArray = r.mArray
  BY <1>4 DEF Popped, Table
<1> HIDE DEF q
<1>8. p = [q EXCEPT !.mSession[key] = s, !.mCount = @ + 1]
  BY <1>5 DEF Put
<1> HIDE DEF p
<1>9. /\ p = [mArray |-> q.mArray, mSeq |-> q.mSeq, mNext |-> q.mNext,
              mSession |-> [q.mSession EXCEPT ![key] = s], mFreeList |-> q.mFreeList,
              mFreeCount |-> q.mFreeCount, mCount |-> q.mCount + 1]
  BY <1>6, <1>8 DEF Table
<1>10. p \in Table(S)
  BY <1>6, <1>9 DEF Table
<1>11. /\ p.mArray = r.mArray /\ p.mSeq = m.mSeq /\ p.mSession = [m.mSession EXCEPT ![key] = s]
       /\ p.mFreeCount = q.mFreeCount /\ p.mFreeList = q.mFreeList /\ p.mNext = q.mNext
  BY <1>4, <1>7, <1>9
<1>12. m.mSession \in [Keys -> S \cup {NULL}] /\ m.mSeq \in [Keys -> Seqs]
  BY <1>1 DEF Table
<1>13. FreeEntries(p) = free \ {key}
  BY <1>6, <1>11, <1>12 DEF FreeEntries, Avail
<1>14. \E d \in [1 .. p.mFreeCount -> Keys] : FreeChain(p, d, FreeEntries(p))
  <2>1. PICK d \in [1 .. q.mFreeCount -> Keys] : FreeChain(q, d, free \ {key})
    BY <1>6
  <2> HIDE DEF free
  <2>2. FreeChain(p, d, free \ {key})
    BY <1>11, <2>1 DEF FreeChain
  <2> QED BY <1>11, <1>13, <2>1, <2>2
<1>15. m.mSession[key] = NULL /\ RowOf(key) \in r.mArray
  BY <1>6 DEF Avail
<1>16. \A k \in Keys : p.mSession[k] # NULL => RowOf(k) \in p.mArray
  BY <1>1, <1>4, <1>11, <1>12, <1>15
<1>17. TableOK(p, S)
  BY <1>10, <1>14, <1>16 DEF TableOK
<1>18. AllocSeqOf(m) = m.mSeq[key] /\ AllocSeqOf(m) \in Seqs
  BY <1>4, <1>5, <1>6, <1>12
<1>19. p.mSession[key] = s /\ \A k \in Keys : k # key => p.mSession[k] = m.mSession[k]
  BY <1>6, <1>11, <1>12
<1> QED BY <1>4, <1>6, <1>11, <1>15, <1>17, <1>18, <1>19 DEF p, key

\* remove() of a session that is in the table gives its entry back.
LEMMA RemoveOK ==
    ASSUME NEW S, NEW m, TableOK(m, S), NEW key \in Keys, m.mSession[key] # NULL
    PROVE  LET p == Remove(m, key)
           IN  /\ TableOK(p, S)
               /\ p.mSession[key] = NULL /\ p.mSeq[key] = NextSeq(m.mSeq[key])
               /\ \A k \in Keys : k # key => p.mSession[k] = m.mSession[k]
                                             /\ p.mSeq[k] = m.mSeq[k]
               /\ p.mArray = m.mArray
<1> DEFINE p == Remove(m, key)
<1>1. m \in Table(S) /\ RowOf(key) \in m.mArray /\ key \notin FreeEntries(m)
  BY DEF TableOK, FreeEntries
<1>2. PICK c \in [1 .. m.mFreeCount -> Keys] : FreeChain(m, c, FreeEntries(m))
  BY DEF TableOK
<1>3. /\ p \in Table(S)
      /\ \E d \in [1 .. p.mFreeCount -> Keys] : FreeChain(p, d, FreeEntries(m) \cup {key})
  BY <1>1, <1>2, PushChain
<1>4. /\ p.mSession = [m.mSession EXCEPT ![key] = NULL]
      /\ p.mSeq = [m.mSeq EXCEPT ![key] = NextSeq(@)]
      /\ p.mArray = m.mArray
  BY <1>1 DEF Remove, Table
<1> HIDE DEF p
<1>5. m.mSession \in [Keys -> S \cup {NULL}]
  BY <1>1 DEF Table
<1>6. FreeEntries(p) = FreeEntries(m) \cup {key}
  BY <1>1, <1>4, <1>5 DEF FreeEntries
<1>7. \A k \in Keys : p.mSession[k] # NULL => RowOf(k) \in p.mArray
  BY <1>4, <1>5 DEF TableOK
<1>8. TableOK(p, S)
  BY <1>3, <1>6, <1>7 DEF TableOK
<1>9. m.mSeq \in [Keys -> Seqs]
  BY <1>1 DEF Table
<1>10. /\ p.mSession[key] = NULL /\ p.mSeq[key] = NextSeq(m.mSeq[key])
       /\ \A k \in Keys : k # key => p.mSession[k] = m.mSession[k] /\ p.mSeq[k] = m.mSeq[k]
  BY <1>4, <1>5, <1>9
<1> QED BY <1>4, <1>8, <1>10 DEF p

\* onAccept of the completion port removes the key it has just allocated when
\* the socket cannot be added to the port: the entry is free again, and its
\* sequence number has advanced.
LEMMA AllocRemove ==
    ASSUME NEW S, NULL \notin S, NEW m, TableOK(m, S), AllocKeyOf(m) # 0, NEW s \in S
    PROVE  LET key == AllocKeyOf(m)
               p == Remove(AllocKey(m), key)
           IN  /\ TableOK(p, S)
               /\ key \in Keys
               /\ \A k \in Keys : /\ p.mSession[k] = m.mSession[k]
                                  /\ p.mSeq[k] = IF k = key THEN NextSeq(m.mSeq[key]) ELSE m.mSeq[k]
<1> DEFINE key == AllocKeyOf(m)
           a == AllocKey(m)
           p == Remove(a, key)
           q == Put(a, key, s)
           r == Remove(q, key)
<1>1. /\ TableOK(q, S) /\ key \in Keys /\ m.mSession[key] = NULL /\ q.mSession[key] = s
      /\ \A k \in Keys : k # key => q.mSession[k] = m.mSession[k]
      /\ q.mSeq = m.mSeq /\ RowOf(key) \in q.mArray
  BY AllocPut
<1>2. /\ TableOK(r, S) /\ r.mSession[key] = NULL /\ r.mSeq[key] = NextSeq(q.mSeq[key])
      /\ \A k \in Keys : k # key => r.mSession[k] = q.mSession[k] /\ r.mSeq[k] = q.mSeq[k]
  <2> HIDE DEF key, q
  <2>1. q.mSession[key] # NULL
    BY <1>1
  <2> QED
    BY <1>1, <2>1, RemoveOK DEF r
<1>3. a \in Table(S)
  <2>1. m \in Table(S) /\ \E c \in [1 .. m.mFreeCount -> Keys] : FreeChain(m, c, FreeEntries(m))
    BY DEF TableOK
  <2> DEFINE held == {k \in Keys : m.mSession[k] # NULL}
  <2>2. FreeEntries(m) = Avail(m, held) /\ \A k \in held : k \in Keys /\ RowOf(k) \in m.mArray
    BY DEF FreeEntries, Avail, TableOK
  <2> HIDE DEF held
  <2>3. /\ Refilled(m) \in Table(S)
        /\ \E d \in [1 .. Refilled(m).mFreeCount -> Keys] :
              FreeChain(Refilled(m), d, Avail(Refilled(m), held))
    BY <2>1, <2>2, RefillChain
  <2>4. Popped(Refilled(m)) \in Table(S)
    <3>1. Refilled(m).mFreeList # 0
      BY DEF AllocKeyOf
    <3> QED
      BY <2>3, <3>1, PopChain
  <2> QED
    BY <2>4 DEF AllocKey
<1> HIDE DEF key, a
<1>4. /\ q.mArray = a.mArray /\ q.mSeq = a.mSeq /\ q.mNext = a.mNext
      /\ q.mSession = [a.mSession EXCEPT ![key] = s] /\ q.mFreeList = a.mFreeList
      /\ q.mFreeCount = a.mFreeCount
      /\ q \in Table(S)
  <2>1. q = [mArray |-> a.mArray, mSeq |-> a.mSeq, mNext |-> a.mNext,
             mSession |-> [a.mSession EXCEPT ![key] = s], mFreeList |-> a.mFreeList,
             mFreeCount |-> a.mFreeCount, mCount |-> a.mCount + 1]
    <3>1. q = [a EXCEPT !.mSession[key] = s, !.mCount = @ + 1]
      BY DEF Put
    <3> HIDE DEF q
    <3> QED
      BY <1>3, <3>1 DEF Table
  <2> HIDE DEF q
  <2>2. q \in Table(S)
    BY <1>1 DEF TableOK
  <2> QED
    BY <2>1, <2>2
<1>5. /\ p = [mArray |-> a.mArray, mSeq |-> [a.mSeq EXCEPT ![key] = NextSeq(@)],
              mNext |-> [a.mNext EXCEPT ![key] = a.mFreeList],
              mSession |-> [a.mSession EXCEPT ![key] = NULL], mFreeList |-> key,
              mFreeCount |-> a.mFreeCount + 1, mCount |-> a.mCount - 1]
  BY <1>1, <1>3, <1>4 DEF Remove, Table
<1> HIDE DEF q
<1>6. /\ r = [mArray |-> q.mArray, mSeq |-> [q.mSeq EXCEPT ![key] = NextSeq(@)],
              mNext |-> [q.mNext EXCEPT ![key] = q.mFreeList],
              mSession |-> [q.mSession EXCEPT ![key] = NULL], mFreeList |-> key,
              mFreeCount |-> q.mFreeCount + 1, mCount |-> q.mCount - 1]
  BY <1>1, <1>4 DEF Remove, Table
<1> HIDE DEF p, r
<1>7. [q.mSession EXCEPT ![key] = NULL] = [a.mSession EXCEPT ![key] = NULL]
  <2>1. a.mSession \in [Keys -> S \cup {NULL}]
    BY <1>3 DEF Table
  <2> QED
    BY <1>1, <1>4, <2>1
<1>8. /\ p.mArray = r.mArray /\ p.mSeq = r.mSeq /\ p.mNext = r.mNext /\ p.mSession = r.mSession
      /\ p.mFreeList = r.mFreeList /\ p.mFreeCount = r.mFreeCount /\ p.mCount = a.mCount - 1
  BY <1>4, <1>5, <1>6, <1>7
<1>9. p \in Table(S)
  <2>1. r \in Table(S) /\ a.mCount \in Int
    BY <1>2, <1>3 DEF TableOK, Table
  <2>2. p = [mArray |-> p.mArray, mSeq |-> p.mSeq, mNext |-> p.mNext, mSession |-> p.mSession,
             mFreeList |-> p.mFreeList, mFreeCount |-> p.mFreeCount, mCount |-> p.mCount]
    BY <1>5
  <2>3. /\ p.mArray \in SUBSET (1 .. (Rows - 1)) /\ p.mSeq \in [Keys -> Seqs]
        /\ p.mNext \in [Keys -> Keys \cup {0}] /\ p.mSession \in [Keys -> S \cup {NULL}]
        /\ p.mFreeList \in Keys \cup {0} /\ p.mFreeCount \in Nat /\ p.mCount \in Int
    BY <1>8, <2>1 DEF Table
  <2> QED
    BY <2>2, <2>3 DEF Table
<1>10. FreeEntries(p) = FreeEntries(r)
  BY <1>8 DEF FreeEntries
<1>11. TableOK(p, S)
  <2>1. PICK c \in [1 .. r.mFreeCount -> Keys] : FreeChain(r, c, FreeEntries(r))
    BY <1>2 DEF TableOK
  <2>2. FreeChain(p, c, FreeEntries(p))
    BY <1>8, <1>10, <2>1 DEF FreeChain
  <2>3. \A k \in Keys : p.mSession[k] # NULL => RowOf(k) \in p.mArray
    BY <1>2, <1>8 DEF TableOK
  <2>4. c \in [1 .. p.mFreeCount -> Keys]
    BY <1>8, <2>1
  <2> QED
    BY <1>9, <2>2, <2>3, <2>4 DEF TableOK
<1>12. \A k \in Keys : /\ p.mSession[k] = m.mSession[k]
                       /\ p.mSeq[k] = IF k = key THEN NextSeq(m.mSeq[key]) ELSE m.mSeq[k]
  BY <1>1, <1>2, <1>8
<1> QED BY <1>1, <1>11, <1>12 DEF p, key, a
=============================================================================
