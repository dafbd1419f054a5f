------------------------ MODULE SessionManagerProofs ------------------------
(***************************************************************************)
(* The session table under its callers, proved for every number of rows,   *)
(* row size, sequence width and set of sessions.                           *)
(***************************************************************************)
EXTENDS SessionManager, SessionTableProofs

-----------------------------------------------------------------------------
(* The inductive invariant *)

\* The constructor's empty table, with no key on the free list and no row,
\* satisfies the invariant.
LEMMA TableInvInit == Init => TableInv
<1> SUFFICES ASSUME Init PROVE TableInv
  OBVIOUS
<1> USE DEF Init, EmptyTable
<1>1. Seqs = 0 .. (SeqMod - 1) /\ 0 \in Seqs /\ MaxAbandon \in Nat
  BY TableAssumption, SessionsAssumption DEF Seqs
<1>2. TypeOK
  BY <1>1 DEF TypeOK, Table
<1>3. HeldKeys = {} /\ FreeKeys = {}
  BY DEF HeldKeys, FreeKeys
<1>4. FreeListExact
  <2> DEFINE c == [i \in 1 .. 0 |-> ColPerRow]
  <2>1. c \in [1 .. mgr.mFreeCount -> Keys]
    OBVIOUS
  <2>2. FreeChain(mgr, c, FreeKeys)
    BY <1>3 DEF FreeChain
  <2> QED BY <2>1, <2>2 DEF FreeListExact
<1>5. PutNeverAsserts /\ HeldInRows /\ AgesTrackSeq
  BY <1>3 DEF PutNeverAsserts, HeldInRows, AgesTrackSeq
<1>6. CountDrift
  <2>1. {k \in Keys : mgr.mSession[k] # NULL} = {}
    OBVIOUS
  <2> QED BY <2>1, FS_EmptySet DEF CountDrift
<1> QED BY <1>2, <1>4, <1>5, <1>6 DEF TableInv

\* allocKey hands out a free key with its current sequence number.
LEMMA AllocStep ==
    ASSUME TableInv, Alloc PROVE TableInv'
<1> DEFINE p == Refilled(mgr)
           key == p.mFreeList
           seq == p.mSeq[key]
           avail == Avail(p, HeldKeys)
<1>1. PICK c \in [1 .. mgr.mFreeCount -> Keys] : FreeChain(mgr, c, FreeKeys)
  BY DEF TableInv, FreeListExact
<1>2. mgr \in Table(Sessions) /\ HeldKeys \subseteq Keys
  BY DEF TableInv, TypeOK, HeldKeys
<1>3. \A k \in HeldKeys : k \in Keys /\ RowOf(k) \in mgr.mArray
  BY <1>2 DEF TableInv, HeldInRows
<1>4. /\ p \in Table(Sessions)
      /\ p.mSeq = mgr.mSeq /\ p.mSession = mgr.mSession /\ p.mCount = mgr.mCount
      /\ mgr.mArray \subseteq p.mArray
      /\ \E d \in [1 .. p.mFreeCount -> Keys] : FreeChain(p, d, avail)
  <2>1. FreeChain(mgr, c, Avail(mgr, HeldKeys))
    BY <1>1 DEF FreeKeys, Avail
  <2> QED BY <1>2, <1>3, <2>1, RefillChain
<1>5. /\ key # 0
      /\ mgr' = Popped(p)
      /\ reserved' = reserved \cup {[mKey |-> key, mSeq |-> seq]}
      /\ handles' = handles \cup {[mKey |-> key, mSeq |-> seq, age |-> 0]}
      /\ abandoned' = abandoned
  BY DEF Alloc, AllocKeyOf, AllocSeqOf, AllocKey
<1> HIDE DEF p
<1>6. /\ mgr' \in Table(Sessions)
      /\ key \in avail
      /\ \E d \in [1 .. mgr'.mFreeCount -> Keys] :
            FreeChain(mgr', d, avail \ {key})
  <2> HIDE DEF avail
  <2> QED BY <1>4, <1>5, PopChain
<1>7. /\ mgr'.mArray = p.mArray /\ mgr'.mSeq = mgr.mSeq
      /\ mgr'.mSession = mgr.mSession /\ mgr'.mCount = mgr.mCount
  BY <1>4, <1>5 DEF Popped, Table
<1>8. key \in Keys /\ RowOf(key) \in p.mArray /\ key \notin HeldKeys
  BY <1>6 DEF Avail
<1>9. seq \in Seqs /\ seq = mgr.mSeq[key] /\ mgr.mSession[key] = NULL
  BY <1>4, <1>8 DEF Table, HeldKeys
<1> HIDE DEF key, seq
<1>10. HeldKeys' = HeldKeys \cup {key}
  <2> DEFINE new == [mKey |-> key, mSeq |-> seq]
  <2>1. new.mKey = key /\ reserved' = reserved \cup {new}
    BY <1>5
  <2> HIDE DEF new
  <2>2. \A k \in Keys : (\E sid \in reserved' : sid.mKey = k)
                          <=> k = key \/ \E sid \in reserved : sid.mKey = k
    BY <2>1
  <2> QED BY <1>7, <1>8, <2>2 DEF HeldKeys
<1>11. FreeKeys' = avail \ {key}
  BY <1>7, <1>10 DEF FreeKeys, Avail
<1>12. TypeOK'
  <2>1. 0 \in 0 .. SeqMod - 1
    BY TableAssumption
  <2>2. [mKey |-> key, mSeq |-> seq] \in Sid
    BY <1>8, <1>9 DEF Sid
  <2>3. [mKey |-> key, mSeq |-> seq, age |-> 0] \in Handle
    BY <1>8, <1>9, <2>1 DEF Handle
  <2> QED BY <1>5, <1>6, <2>2, <2>3 DEF TypeOK, TableInv
<1>13. FreeListExact'
  BY <1>6, <1>11 DEF FreeListExact
<1>14. PutNeverAsserts'
  <2>1. \A sid \in reserved : sid.mKey \in HeldKeys
    BY DEF HeldKeys, TableInv, TypeOK, Sid
  <2>2. \A sid \in reserved : PutAssertion(mgr, sid.mKey, sid.mSeq)
    BY DEF TableInv, PutNeverAsserts
  <2>3. \A sid \in reserved' : PutAssertion(mgr, sid.mKey, sid.mSeq)'
    BY <1>4, <1>5, <1>7, <1>8, <1>9, <2>2 DEF PutAssertion
  <2>4. \A r, s \in reserved' : r.mKey = s.mKey => r = s
    BY <1>5, <1>8, <2>1 DEF TableInv, PutNeverAsserts
  <2> QED BY <2>3, <2>4 DEF PutNeverAsserts
<1>15. HeldInRows'
  BY <1>3, <1>4, <1>7, <1>8, <1>10 DEF HeldInRows
<1>16. AgesTrackSeq'
  <2>1. SeqMod \in Nat /\ seq \in Nat
    BY <1>9, TableAssumption DEF Seqs
  <2>2. \A h \in handles : RowOf(h.mKey) \in mgr'.mArray
    BY <1>4, <1>7 DEF TableInv, AgesTrackSeq
  <2> QED BY <1>5, <1>7, <1>8, <1>9, <2>1, <2>2 DEF TableInv, AgesTrackSeq
<1>17. CountDrift'
  BY <1>5, <1>7 DEF TableInv, CountDrift
<1> QED BY <1>12, <1>13, <1>14, <1>15, <1>16, <1>17 DEF TableInv

\* put moves a sid from the reserved ones into its entry.
LEMMA PutStep ==
    ASSUME TableInv, NEW sid \in reserved, NEW s \in Sessions,
           PutSession(sid, s)
    PROVE  TableInv'
<1> DEFINE key == sid.mKey
<1>1. /\ mgr \in Table(Sessions) /\ sid \in Sid /\ key \in Keys
      /\ s # NULL /\ reserved \subseteq Sid
  BY SessionsAssumption DEF TableInv, TypeOK, Sid
<1>2. /\ mgr' = [mgr EXCEPT !.mSession = [mgr.mSession EXCEPT ![key] = s],
                            !.mCount = @ + 1]
      /\ reserved' = reserved \ {sid}
      /\ handles' = handles /\ abandoned' = abandoned
  BY DEF PutSession, Put
<1>3. /\ mgr'.mArray = mgr.mArray /\ mgr'.mSeq = mgr.mSeq
      /\ mgr'.mNext = mgr.mNext /\ mgr'.mFreeList = mgr.mFreeList
      /\ mgr'.mFreeCount = mgr.mFreeCount /\ mgr'.mCount = mgr.mCount + 1
      /\ mgr'.mSession = [mgr.mSession EXCEPT ![key] = s]
  BY <1>1, <1>2 DEF Table
<1>4. mgr' \in Table(Sessions)
  <2>1. mgr' = [mArray |-> mgr.mArray, mSeq |-> mgr.mSeq, mNext |-> mgr.mNext,
                mSession |-> [mgr.mSession EXCEPT ![key] = s],
                mFreeList |-> mgr.mFreeList, mFreeCount |-> mgr.mFreeCount,
                mCount |-> mgr.mCount + 1]
    BY <1>1, <1>2 DEF Table
  <2> QED BY <1>1, <2>1 DEF Table
<1>5. mgr.mSession \in [Keys -> Sessions \cup {NULL}] /\ mgr.mSession[key] = NULL
  BY <1>1 DEF Table, TableInv, PutNeverAsserts, PutAssertion
<1>6. \A r \in reserved : r.mKey = key => r = sid
  BY DEF TableInv, PutNeverAsserts
<1> HIDE DEF key
<1>7. HeldKeys' = HeldKeys
  <2>1. ASSUME NEW k \in Keys PROVE k \in HeldKeys' <=> k \in HeldKeys
    <3>1. CASE k = key
      BY <1>1, <1>3, <1>5, <3>1 DEF HeldKeys, key
    <3>2. CASE k # key
      BY <1>2, <1>3, <1>5, <3>2 DEF HeldKeys, key
    <3> QED BY <3>1, <3>2
  <2> QED BY <2>1 DEF HeldKeys
<1>8. TypeOK'
  BY <1>2, <1>4 DEF TypeOK, TableInv
<1>9. FreeListExact'
  <2>1. FreeKeys' = FreeKeys
    BY <1>3, <1>7 DEF FreeKeys
  <2>2. PICK c \in [1 .. mgr.mFreeCount -> Keys] : FreeChain(mgr, c, FreeKeys)
    BY DEF TableInv, FreeListExact
  <2>3. FreeChain(mgr', c, FreeKeys')
    BY <1>3, <2>1, <2>2 DEF FreeChain
  <2>4. c \in [1 .. mgr'.mFreeCount -> Keys]
    BY <1>3
  <2> QED BY <2>3, <2>4 DEF FreeListExact
<1>10. PutNeverAsserts'
  BY <1>1, <1>2, <1>3, <1>5, <1>6 DEF TableInv, PutNeverAsserts, PutAssertion, Sid
<1>11. HeldInRows' /\ AgesTrackSeq'
  BY <1>2, <1>3, <1>7 DEF TableInv, HeldInRows, AgesTrackSeq
<1>12. CountDrift'
  <2> DEFINE live == {k \in Keys : mgr.mSession[k] # NULL}
  <2>1. {k \in Keys : mgr'.mSession[k] # NULL} = live \cup {key}
    BY <1>1, <1>3, <1>5 DEF key
  <2>2. IsFiniteSet(live) /\ key \notin live
    <3>1. IsFiniteSet(Keys)
      <4>1. ColPerRow \in Int /\ ColPerRow * Rows - 1 \in Int
        BY TableAssumption
      <4> QED BY <4>1, FS_Interval DEF Keys
    <3> QED BY <1>5, <3>1, FS_Subset
  <2>3. Cardinality(live \cup {key}) = Cardinality(live) + 1
    BY <2>2, FS_AddElement
  <2>4. Cardinality(live) \in Nat /\ mgr.mCount = Cardinality(live) - abandoned
        /\ abandoned \in Nat
    BY <2>2, FS_CardinalityType DEF TableInv, CountDrift, TypeOK
  <2> QED BY <1>2, <1>3, <2>1, <2>3, <2>4 DEF CountDrift
<1> QED BY <1>8, <1>9, <1>10, <1>11, <1>12 DEF TableInv

\* One removal advances the entry's sequence number and the age of the sids
\* issued before it by one, modulo SeqMod.
LEMMA SeqStep ==
    ASSUME NEW q \in Nat, NEW seq \in Nat, NEW age \in Nat,
           q < SeqMod, seq < SeqMod, age + 1 < SeqMod,
           seq + age = q \/ seq + age = q + SeqMod
    PROVE  \/ seq + (age + 1) = NextSeq(q)
           \/ seq + (age + 1) = NextSeq(q) + SeqMod
<1>1. SeqMod \in Nat /\ SeqMod > 1
  BY TableAssumption
<1>2. CASE q = SeqMod - 1
  <2>1. NextSeq(q) = 0
    BY <1>2 DEF NextSeq
  <2> QED BY <1>1, <1>2, <2>1
<1>3. CASE q # SeqMod - 1
  <2>1. NextSeq(q) = q + 1
    BY <1>3 DEF NextSeq
  <2> QED BY <1>1, <1>3, <2>1
<1> QED BY <1>2, <1>3

\* What remove() does to a held key that is no longer reserved afterwards,
\* whoever calls it.
LEMMA RemoveStep ==
    ASSUME TableInv, NEW key \in HeldKeys,
           mgr' = Remove(mgr, key), handles' = Aged(key),
           reserved' = {sid \in reserved : sid.mKey # key},
           abandoned' \in 0 .. MaxAbandon
    PROVE  /\ TypeOK' /\ FreeListExact' /\ PutNeverAsserts'
           /\ HeldInRows' /\ AgesTrackSeq'
           /\ mgr'.mSession = [mgr.mSession EXCEPT ![key] = NULL]
           /\ mgr'.mCount = mgr.mCount - 1
<1>1. /\ mgr \in Table(Sessions) /\ key \in Keys /\ RowOf(key) \in mgr.mArray
      /\ reserved \subseteq Sid /\ handles \subseteq Handle
  BY DEF TableInv, TypeOK, HeldKeys, HeldInRows
<1>2. /\ mgr'.mArray = mgr.mArray
      /\ mgr'.mSeq = [mgr.mSeq EXCEPT ![key] = NextSeq(@)]
      /\ mgr'.mSession = [mgr.mSession EXCEPT ![key] = NULL]
      /\ mgr'.mCount = mgr.mCount - 1
  BY <1>1 DEF Remove, Table
<1>3. PICK c \in [1 .. mgr.mFreeCount -> Keys] : FreeChain(mgr, c, FreeKeys)
  BY DEF TableInv, FreeListExact
<1>4. key \notin FreeKeys
  BY DEF FreeKeys
<1>5. /\ mgr' \in Table(Sessions)
      /\ \E d \in [1 .. mgr'.mFreeCount -> Keys] :
            FreeChain(mgr', d, FreeKeys \cup {key})
  BY <1>1, <1>3, <1>4, PushChain
<1>6. mgr.mSession \in [Keys -> Sessions \cup {NULL}] /\ mgr.mSeq \in [Keys -> Seqs]
  BY <1>1 DEF Table
<1>7. HeldKeys' = HeldKeys \ {key}
  <2>1. ASSUME NEW k \in Keys PROVE k \in HeldKeys' <=> k \in HeldKeys /\ k # key
    <3>1. CASE k = key
      BY <1>2, <1>6, <3>1 DEF HeldKeys
    <3>2. CASE k # key
      <4>1. mgr'.mSession[k] = mgr.mSession[k]
        BY <1>2, <1>6, <3>2
      <4>2. (\E sid \in reserved' : sid.mKey = k)
               <=> (\E sid \in reserved : sid.mKey = k)
        BY <3>2
      <4> QED BY <3>2, <4>1, <4>2 DEF HeldKeys
    <3> QED BY <3>1, <3>2
  <2> QED BY <2>1 DEF HeldKeys
<1>8. FreeKeys' = FreeKeys \cup {key}
  BY <1>1, <1>2, <1>7 DEF FreeKeys
<1>9. FreeListExact'
  BY <1>5, <1>8 DEF FreeListExact
<1>10. SeqMod \in Nat /\ SeqMod > 1 /\ \A q \in Seqs : q \in Nat /\ q < SeqMod
  BY TableAssumption DEF Seqs
<1>11. TypeOK'
  <2>1. ASSUME NEW h \in handles, [h EXCEPT !.age = @ + 1].age < SeqMod
        PROVE  [h EXCEPT !.age = @ + 1] \in Handle
    <3>1. h \in Handle
      BY <1>1
    <3>2. [h EXCEPT !.age = @ + 1]
             = [mKey |-> h.mKey, mSeq |-> h.mSeq, age |-> h.age + 1]
      BY <3>1 DEF Handle
    <3>3. h.age + 1 \in 0 .. SeqMod - 1
      BY <1>10, <2>1, <3>1, <3>2 DEF Handle
    <3> QED BY <3>1, <3>2, <3>3 DEF Handle
  <2>2. handles' \subseteq Handle
    BY <1>1, <2>1 DEF Aged
  <2> QED BY <1>1, <1>5, <2>2 DEF TypeOK
<1>12. PutNeverAsserts'
  <2>1. \A sid \in reserved' : sid \in reserved /\ sid.mKey # key /\ sid.mKey \in Keys
    BY <1>1 DEF Sid
  <2>2. \A sid \in reserved' : PutAssertion(mgr, sid.mKey, sid.mSeq)'
    BY <1>2, <1>6, <2>1 DEF TableInv, PutNeverAsserts, PutAssertion
  <2> QED BY <2>1, <2>2 DEF TableInv, PutNeverAsserts
<1>13. HeldInRows'
  BY <1>2, <1>7 DEF TableInv, HeldInRows
<1>14. AgesTrackSeq'
  <2>1. ASSUME NEW g \in handles'
        PROVE  /\ RowOf(g.mKey) \in mgr'.mArray
               /\ \/ g.mSeq + g.age = mgr'.mSeq[g.mKey]
                  \/ g.mSeq + g.age = mgr'.mSeq[g.mKey] + SeqMod
    <3>1. PICK h \in handles : \/ h.mKey # key /\ g = h
                               \/ /\ h.mKey = key /\ g = [h EXCEPT !.age = @ + 1]
                                  /\ g.age < SeqMod
      BY <2>1 DEF Aged
    <3>2. /\ h \in Handle /\ h.mKey \in Keys /\ h.mSeq \in Seqs /\ h.mSeq \in Nat
          /\ h.mSeq < SeqMod /\ h.age \in Nat /\ h.age < SeqMod
      BY <1>1, <1>10 DEF Handle
    <3>3. /\ RowOf(h.mKey) \in mgr.mArray
          /\ \/ h.mSeq + h.age = mgr.mSeq[h.mKey]
             \/ h.mSeq + h.age = mgr.mSeq[h.mKey] + SeqMod
      BY DEF TableInv, AgesTrackSeq
    <3>4. CASE h.mKey = key
      <4>1. g.mKey = key /\ g.mSeq = h.mSeq /\ g.age = h.age + 1
        BY <3>1, <3>2, <3>4 DEF Handle
      <4>2. h.age + 1 < SeqMod
        BY <3>1, <3>4, <4>1
      <4>3. mgr'.mSeq[key] = NextSeq(mgr.mSeq[key]) /\ mgr.mSeq[key] \in Seqs
        BY <1>1, <1>2, <1>6
      <4>4. mgr.mSeq[key] \in Nat /\ mgr.mSeq[key] < SeqMod
        BY <1>10, <4>3
      <4>5. \/ h.mSeq + h.age = mgr.mSeq[key]
            \/ h.mSeq + h.age = mgr.mSeq[key] + SeqMod
        BY <3>3, <3>4
      <4>6. \/ h.mSeq + (h.age + 1) = NextSeq(mgr.mSeq[key])
            \/ h.mSeq + (h.age + 1) = NextSeq(mgr.mSeq[key]) + SeqMod
        BY <3>2, <4>2, <4>4, <4>5, SeqStep
      <4> QED BY <1>1, <1>2, <3>3, <3>4, <4>1, <4>3, <4>6
    <3>5. CASE h.mKey # key
      <4>1. g = h /\ mgr'.mSeq[h.mKey] = mgr.mSeq[h.mKey]
        BY <1>2, <1>6, <3>1, <3>2, <3>5
      <4> QED BY <1>2, <3>3, <4>1
    <3> QED BY <3>4, <3>5
  <2> QED BY <2>1 DEF AgesTrackSeq
<1> QED BY <1>2, <1>9, <1>11, <1>12, <1>13, <1>14

\* The number of sessions in the table after one entry is cleared.
LEMMA LiveAfterRemove ==
    ASSUME NEW f \in [Keys -> Sessions \cup {NULL}], NEW key \in Keys
    PROVE  LET live == {k \in Keys : f[k] # NULL}
               left == {k \in Keys : [f EXCEPT ![key] = NULL][k] # NULL}
           IN  /\ Cardinality(live) \in Nat
               /\ Cardinality(left) =
                     IF f[key] # NULL THEN Cardinality(live) - 1
                                      ELSE Cardinality(live)
<1> DEFINE live == {k \in Keys : f[k] # NULL}
           left == {k \in Keys : [f EXCEPT ![key] = NULL][k] # NULL}
<1>1. IsFiniteSet(live)
  <2>1. ColPerRow \in Int /\ ColPerRow * Rows - 1 \in Int
    BY TableAssumption
  <2>2. IsFiniteSet(Keys)
    BY <2>1, FS_Interval DEF Keys
  <2> QED BY <2>2, FS_Subset
<1>2. left = live \ {key}
  OBVIOUS
<1>3. key \in live <=> f[key] # NULL
  OBVIOUS
<1> HIDE DEF live, left
<1>4. Cardinality(live) \in Nat
  BY <1>1, FS_CardinalityType
<1>5. Cardinality(left) = IF f[key] # NULL THEN Cardinality(live) - 1
                                           ELSE Cardinality(live)
  BY <1>1, <1>2, <1>3, FS_RemoveElement
<1> QED BY <1>4, <1>5 DEF live, left

\* Every operation of the table preserves the invariant.
LEMMA TableInvStep == TableInv /\ [Next]_vars => TableInv'
<1> SUFFICES ASSUME TableInv, [Next]_vars PROVE TableInv'
  OBVIOUS
<1>0. /\ mgr \in Table(Sessions) /\ reserved \subseteq Sid
      /\ mgr.mSession \in [Keys -> Sessions \cup {NULL}]
      /\ mgr.mCount \in Int /\ abandoned \in 0 .. MaxAbandon /\ MaxAbandon \in Nat
  BY SessionsAssumption DEF TableInv, TypeOK, Table
<1>1. CASE Alloc
  BY <1>1, AllocStep
<1>2. ASSUME NEW sid \in reserved, NEW s \in Sessions, PutSession(sid, s)
      PROVE  TableInv'
  BY <1>2, PutStep
<1>3. ASSUME NEW key \in Keys, RemoveSession(key)
      PROVE  TableInv'
  <2>1. /\ mgr.mSession[key] # NULL /\ key \in HeldKeys
        /\ mgr' = Remove(mgr, key) /\ handles' = Aged(key)
        /\ reserved' = reserved /\ abandoned' = abandoned
    BY <1>3 DEF RemoveSession, HeldKeys
  <2>2. reserved' = {sid \in reserved : sid.mKey # key}
    BY <2>1 DEF TableInv, PutNeverAsserts, PutAssertion
  <2>3. /\ TypeOK' /\ FreeListExact' /\ PutNeverAsserts'
        /\ HeldInRows' /\ AgesTrackSeq'
        /\ mgr'.mSession = [mgr.mSession EXCEPT ![key] = NULL]
        /\ mgr'.mCount = mgr.mCount - 1
    BY <1>0, <2>1, <2>2, RemoveStep
  <2>4. CountDrift'
    <3>1. Cardinality({k \in Keys : mgr'.mSession[k] # NULL})
             = Cardinality({k \in Keys : mgr.mSession[k] # NULL}) - 1
      BY <1>0, <2>1, <2>3, LiveAfterRemove
    <3>2. Cardinality({k \in Keys : mgr.mSession[k] # NULL}) \in Nat
      BY <1>0, LiveAfterRemove
    <3> QED BY <1>0, <2>1, <2>3, <3>1, <3>2 DEF CountDrift, TableInv
  <2> QED BY <2>3, <2>4 DEF TableInv
<1>4. ASSUME NEW sid \in reserved, AbandonKey(sid)
      PROVE  TableInv'
  <2> DEFINE key == sid.mKey
  <2>1. /\ mgr' = Remove(mgr, key) /\ handles' = Aged(key)
        /\ reserved' = reserved \ {sid}
        /\ abandoned' = abandoned + 1 /\ abandoned < MaxAbandon
    BY <1>4 DEF AbandonKey
  <2>2. key \in Keys /\ key \in HeldKeys /\ mgr.mSession[key] = NULL
    BY <1>0 DEF Sid, HeldKeys, TableInv, PutNeverAsserts, PutAssertion
  <2>3. reserved' = {r \in reserved : r.mKey # key}
    BY <2>1 DEF TableInv, PutNeverAsserts
  <2> HIDE DEF key
  <2>4. abandoned' \in 0 .. MaxAbandon
    BY <1>0, <2>1
  <2>5. /\ TypeOK' /\ FreeListExact' /\ PutNeverAsserts'
        /\ HeldInRows' /\ AgesTrackSeq'
        /\ mgr'.mSession = [mgr.mSession EXCEPT ![key] = NULL]
        /\ mgr'.mCount = mgr.mCount - 1
    BY <2>1, <2>2, <2>3, <2>4, RemoveStep
  <2>6. CountDrift'
    <3>1. Cardinality({k \in Keys : mgr'.mSession[k] # NULL})
             = Cardinality({k \in Keys : mgr.mSession[k] # NULL})
      BY <1>0, <2>2, <2>5, LiveAfterRemove
    <3>2. Cardinality({k \in Keys : mgr.mSession[k] # NULL}) \in Nat
      BY <1>0, <2>2, LiveAfterRemove
    <3> QED BY <1>0, <2>1, <2>5, <3>1, <3>2 DEF CountDrift, TableInv
  <2> QED BY <2>5, <2>6 DEF TableInv
<1>5. CASE UNCHANGED vars
  BY <1>5 DEF vars, TableInv, TypeOK, FreeListExact, FreeKeys, HeldKeys,
              PutNeverAsserts, PutAssertion, HeldInRows, AgesTrackSeq, CountDrift
<1> QED BY <1>1, <1>2, <1>3, <1>4, <1>5 DEF Next

-----------------------------------------------------------------------------
(* The theorems *)

\* SP_SessionManager keeps its invariant: types, the free list, the assertions
\* of put() and remove(), the sequence numbers and the session count.
THEOREM TableInvariant == Spec => []TableInv
<1>1. Init => TableInv
  BY TableInvInit
<1>2. TableInv /\ [Next]_vars => TableInv'
  BY TableInvStep
<1> QED BY <1>1, <1>2, PTL DEF Spec

\* The members of the table keep their types.
THEOREM TypeCorrect == Spec => []TypeOK
<1>1. TableInv => TypeOK
  BY DEF TableInv
<1> QED BY <1>1, TableInvariant, PTL

\* allocKey and remove neither lose a key nor hand one out twice.
THEOREM FreeListCorrect == Spec => []FreeListExact
<1>1. TableInv => FreeListExact
  BY DEF TableInv
<1> QED BY <1>1, TableInvariant, PTL

\* The assertions of put() and remove() never fire.
THEOREM AssertionsSafe == Spec => []AssertionsHold
<1>1. TableInv => AssertionsHold
  <2> SUFFICES ASSUME TableInv, NEW h \in handles, h.age = 0
               PROVE  mgr.mSeq[h.mKey] = h.mSeq
    BY DEF TableInv, AssertionsHold, RemoveAssertion
  <2>1. /\ h.mSeq \in Nat /\ h.mSeq < SeqMod
        /\ SeqMod \in Nat /\ SeqMod > 1
        /\ mgr.mSeq[h.mKey] \in Nat /\ mgr.mSeq[h.mKey] < SeqMod
    BY TableAssumption DEF TableInv, TypeOK, Handle, Seqs, Table
  <2>2. \/ h.mSeq + h.age = mgr.mSeq[h.mKey]
        \/ h.mSeq + h.age = mgr.mSeq[h.mKey] + SeqMod
    BY <2>1 DEF TableInv, AgesTrackSeq
  <2> QED BY <2>1, <2>2
<1> QED BY <1>1, TableInvariant, PTL

\* getCount() differs from the number of sessions by the abandoned keys.
THEOREM CountCorrect == Spec => []CountDrift
<1>1. TableInv => CountDrift
  BY DEF TableInv
<1> QED BY <1>1, TableInvariant, PTL

\* A stale sid never resolves to the next owner of its key before mSeq wraps.
THEOREM StaleSidSafe == Spec => []StaleSidIgnored
<1>1. TableInv => StaleSidIgnored
  <2> SUFFICES ASSUME TableInv, NEW h \in handles, h.age > 0
               PROVE  Get(mgr, h.mKey, h.mSeq) = NULL
    BY DEF StaleSidIgnored
  <2>1. /\ h.mKey \in Keys /\ h.mSeq \in Nat /\ h.mSeq < SeqMod
        /\ h.age \in Nat /\ h.age < SeqMod /\ SeqMod \in Nat
        /\ mgr.mSeq[h.mKey] \in Nat /\ mgr.mSeq[h.mKey] < SeqMod
    BY TableAssumption DEF TableInv, TypeOK, Handle, Seqs, Table
  <2>2. \/ h.mSeq + h.age = mgr.mSeq[h.mKey]
        \/ h.mSeq + h.age = mgr.mSeq[h.mKey] + SeqMod
    BY DEF TableInv, AgesTrackSeq
  <2>3. h.mSeq # mgr.mSeq[h.mKey]
    BY <2>1, <2>2
  <2> QED BY <2>3 DEF Get
<1> QED BY <1>1, TableInvariant, PTL

\* A sid in use resolves to the session that its entry holds.
THEOREM CurrentSidSafe == Spec => []CurrentSidResolves
<1>1. TableInv => CurrentSidResolves
  <2> SUFFICES ASSUME TableInv, NEW h \in handles, h.age = 0
               PROVE  Get(mgr, h.mKey, h.mSeq) = mgr.mSession[h.mKey]
    BY DEF CurrentSidResolves
  <2>1. /\ h.mKey \in Keys /\ h.mSeq \in Nat /\ h.mSeq < SeqMod
        /\ SeqMod \in Nat /\ SeqMod > 1
        /\ mgr.mSeq[h.mKey] \in Nat /\ mgr.mSeq[h.mKey] < SeqMod
    BY TableAssumption DEF TableInv, TypeOK, Handle, Seqs, Table
  <2>2. /\ RowOf(h.mKey) \in mgr.mArray
        /\ \/ h.mSeq + h.age = mgr.mSeq[h.mKey]
           \/ h.mSeq + h.age = mgr.mSeq[h.mKey] + SeqMod
    BY <2>1 DEF TableInv, AgesTrackSeq
  <2>3. h.mSeq = mgr.mSeq[h.mKey]
    BY <2>1, <2>2
  <2> QED BY <2>1, <2>2, <2>3 DEF Get
<1> QED BY <1>1, TableInvariant, PTL

\* allocKey fails only when all the keys of all the rows are in use.
THEOREM ExhaustionSafe == Spec => []ExhaustedOnlyWhenFull
<1>1. TableInv => ExhaustedOnlyWhenFull
  <2> SUFFICES ASSUME TableInv, AllocKeyOf(mgr) = 0 PROVE HeldKeys = Keys
    BY DEF ExhaustedOnlyWhenFull
  <2>1. PICK c \in [1 .. mgr.mFreeCount -> Keys] : FreeChain(mgr, c, FreeKeys)
    BY DEF TableInv, FreeListExact
  <2>2. mgr \in Table(Sessions) /\ \A k \in HeldKeys : k \in Keys /\ RowOf(k) \in mgr.mArray
    BY DEF TableInv, TypeOK, HeldKeys, HeldInRows
  <2>3. Refilled(mgr) = mgr /\ NullRows(mgr) = {}
    <3>1. FreeChain(mgr, c, Avail(mgr, HeldKeys))
      BY <2>1 DEF FreeKeys, Avail
    <3> QED BY <2>2, <3>1, RefillChain DEF AllocKeyOf
  <2>4. mgr.mFreeList = 0
    BY <2>3 DEF AllocKeyOf
  <2>5. \A k \in Keys : k # 0 /\ RowOf(k) \in 1 .. (Rows - 1)
    BY KeyHasRow
  <2>6. mgr.mFreeCount = 0
    <3>1. mgr.mFreeCount \in Nat
      BY <2>2 DEF Table
    <3>2. ASSUME mgr.mFreeCount # 0 PROVE FALSE
      <4>1. c[1] \in Keys /\ mgr.mFreeList = c[1]
        BY <2>1, <3>1, <3>2 DEF FreeChain
      <4> QED BY <2>4, <2>5, <4>1
    <3> QED BY <3>2
  <2>7. FreeKeys = {}
    <3>1. 1 .. mgr.mFreeCount = {}
      BY <2>6
    <3> QED BY <2>1, <3>1 DEF FreeChain
  <2>8. \A k \in Keys : RowOf(k) \in mgr.mArray
    BY <2>3, <2>5 DEF NullRows
  <2> QED BY <2>7, <2>8 DEF FreeKeys, HeldKeys
<1> QED BY <1>1, TableInvariant, PTL
=============================================================================
