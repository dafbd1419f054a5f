------------------------------ MODULE Counting ------------------------------
(***************************************************************************)
(* Lemmas the proofs about queues and threads share: how many places of a  *)
(* sequence, or of a function over the threads, hold an element of a set,  *)
(* and how a step of a queue or of a thread changes that number.           *)
(***************************************************************************)
EXTENDS Integers, Sequences, FiniteSets, FiniteSetTheorems, SequenceTheorems, TLAPS

\* The places of f, a sequence or another function, whose value is in A
Places(f, A) == {i \in DOMAIN f : f[i] \in A}

Count(f, A) == Cardinality(Places(f, A))

\* How often x is in the set A: once or not at all
Has(A, x) == IF x \in A THEN 1 ELSE 0

\* A sequence has finitely many places.
LEMMA CountSeqType ==
    ASSUME NEW S, NEW q \in Seq(S), NEW A
    PROVE  IsFiniteSet(Places(q, A)) /\ Count(q, A) \in Nat
  <1>1. Len(q) \in Nat /\ DOMAIN q = 1 .. Len(q)
    BY LenProperties
  <1>2. IsFiniteSet(1 .. Len(q))
    BY <1>1, FS_Interval
  <1>3. Places(q, A) \in SUBSET (1 .. Len(q))
    BY <1>1 DEF Places
  <1>4. IsFiniteSet(Places(q, A))
    BY <1>2, <1>3, FS_Subset
  <1> QED
    BY <1>4, FS_CardinalityType DEF Count

\* The empty sequence has none.
LEMMA CountEmpty ==
    ASSUME NEW A
    PROVE  Count(<<>>, A) = 0
  <1>1. Places(<<>>, A) = {}
    BY DEF Places
  <1> QED
    BY <1>1, FS_EmptySet DEF Count

\* Concatenation adds the numbers: the places of the second sequence are
\* shifted by the length of the first.
LEMMA CountConcat ==
    ASSUME NEW S, NEW q \in Seq(S), NEW r \in Seq(S), NEW A
    PROVE  Count(q \o r, A) = Count(q, A) + Count(r, A)
  <1> DEFINE n == Len(q)
             P == Places(q, A)
             R == Places(r, A)
             T == {i \in (n + 1) .. (n + Len(r)) : r[i - n] \in A}
             f == [i \in R |-> i + n]
  <1>1. /\ n \in Nat /\ DOMAIN q = 1 .. n
        /\ Len(r) \in Nat /\ DOMAIN r = 1 .. Len(r)
    BY LenProperties
  <1>2. /\ q \o r \in Seq(S)
        /\ Len(q \o r) = n + Len(r)
        /\ \A i \in 1 .. n + Len(r) : (q \o r)[i] = IF i <= n THEN q[i] ELSE r[i - n]
    BY ConcatProperties
  <1>3. DOMAIN (q \o r) = 1 .. (n + Len(r))
    BY <1>2, LenProperties
  <1>4. Places(q \o r, A) = P \cup T
    <2>1. ASSUME NEW i \in Places(q \o r, A)
          PROVE  i \in P \cup T
      BY <1>1, <1>2, <1>3 DEF Places
    <2>2. ASSUME NEW i \in P
          PROVE  i \in Places(q \o r, A)
      BY <1>1, <1>2, <1>3 DEF Places
    <2>3. ASSUME NEW i \in T
          PROVE  i \in Places(q \o r, A)
      BY <1>1, <1>2, <1>3 DEF Places
    <2> QED
      BY <2>1, <2>2, <2>3
  <1>5. IsFiniteSet(P) /\ IsFiniteSet(R) /\ Count(q, A) \in Nat /\ Count(r, A) \in Nat
    BY CountSeqType
  <1>6. f \in Bijection(R, T)
    <2>1. f \in [R -> T]
      BY <1>1 DEF Places
    <2>2. \A i, j \in R : f[i] = f[j] => i = j
      BY <1>1 DEF Places
    <2>3. \A j \in T : \E i \in R : f[i] = j
      <3> SUFFICES ASSUME NEW j \in T
                   PROVE  \E i \in R : f[i] = j
        OBVIOUS
      <3>1. j - n \in R
        BY <1>1 DEF Places
      <3>2. f[j - n] = j
        BY <3>1, <1>1
      <3> QED
        BY <3>1, <3>2
    <2> QED
      BY <2>1, <2>2, <2>3 DEF Bijection, Injection, Surjection, IsInjective
  <1>7. IsFiniteSet(T) /\ Cardinality(T) = Cardinality(R)
    BY <1>5, <1>6, FS_Bijection DEF ExistsBijection
  <1>8. P \cap T = {}
    BY <1>1 DEF Places
  <1>9. Cardinality(P \cup T) = Cardinality(P) + Cardinality(T) - Cardinality(P \cap T)
    BY <1>5, <1>7, FS_Union
  <1>10. Cardinality(P \cap T) = 0
    BY <1>8, FS_EmptySet
  <1>11. Cardinality(P) \in Nat /\ Cardinality(R) \in Nat
    BY <1>5 DEF Count
  <1>12. Cardinality(P \cup T) = Cardinality(P) + Cardinality(R)
    BY <1>7, <1>9, <1>10, <1>11
  <1> QED
    BY <1>4, <1>12 DEF Count

\* A sequence of one element
LEMMA CountSingle ==
    ASSUME NEW x, NEW A
    PROVE  Count(<<x>>, A) = Has(A, x)
  <1>1. CASE x \in A
    <2>1. Places(<<x>>, A) = {1}
      BY <1>1 DEF Places
    <2> QED
      BY <1>1, <2>1, FS_Singleton DEF Count, Has
  <1>2. CASE x \notin A
    <2>1. Places(<<x>>, A) = {}
      BY <1>2 DEF Places
    <2> QED
      BY <1>2, <2>1, FS_EmptySet DEF Count, Has
  <1> QED
    BY <1>1, <1>2

\* A queue that gets an element at its end
LEMMA CountAppend ==
    ASSUME NEW S, NEW q \in Seq(S), NEW x \in S, NEW A
    PROVE  Count(Append(q, x), A) = Count(q, A) + Has(A, x)
  <1>1. <<x>> \in Seq(S)
    OBVIOUS
  <1>2. Append(q, x) = q \o <<x>>
    BY AppendIsConcat
  <1>3. Count(q \o <<x>>, A) = Count(q, A) + Count(<<x>>, A)
    BY <1>1, CountConcat
  <1> QED
    BY <1>2, <1>3, CountSingle

\* A queue that loses its head
LEMMA CountTail ==
    ASSUME NEW S, NEW q \in Seq(S), q # <<>>, NEW A
    PROVE  Count(q, A) = Has(A, Head(q)) + Count(Tail(q), A)
  <1>1. /\ Head(q) \in S /\ Tail(q) \in Seq(S) /\ Len(Tail(q)) = Len(q) - 1
        /\ \A i \in 1 .. Len(Tail(q)) : Tail(q)[i] = q[i + 1]
    BY HeadTailProperties
  <1>2. <<Head(q)>> \in Seq(S) /\ Len(<<Head(q)>>) = 1
    BY <1>1
  <1>3. Len(q) \in Nat \ {0}
    BY EmptySeq
  <1>4. /\ <<Head(q)>> \o Tail(q) \in Seq(S)
        /\ Len(<<Head(q)>> \o Tail(q)) = Len(q)
        /\ \A i \in 1 .. Len(q) : (<<Head(q)>> \o Tail(q))[i] =
                 IF i <= 1 THEN <<Head(q)>>[i] ELSE Tail(q)[i - 1]
    BY <1>1, <1>2, <1>3, ConcatProperties
  <1>5. \A i \in 1 .. Len(q) : (<<Head(q)>> \o Tail(q))[i] = q[i]
    BY <1>1, <1>3, <1>4
  <1>6. q = <<Head(q)>> \o Tail(q)
    BY <1>4, <1>5, SeqEqual
  <1>7. Count(<<Head(q)>> \o Tail(q), A) = Count(<<Head(q)>>, A) + Count(Tail(q), A)
    BY <1>1, <1>2, CountConcat
  <1> QED
    BY <1>6, <1>7, CountSingle

\* A function over a finite set, of threads for instance, has finitely many
\* places.
LEMMA CountFunType ==
    ASSUME NEW W, IsFiniteSet(W), NEW f, DOMAIN f = W, NEW A
    PROVE  IsFiniteSet(Places(f, A)) /\ Count(f, A) \in Nat
  <1>1. Places(f, A) \in SUBSET W
    BY DEF Places
  <1>2. IsFiniteSet(Places(f, A))
    BY <1>1, FS_Subset
  <1> QED
    BY <1>2, FS_CardinalityType DEF Count

\* One thread moves, as seen by the places of all the threads.
LEMMA CountChange ==
    ASSUME NEW W, IsFiniteSet(W), NEW f, DOMAIN f = W, NEW w \in W, NEW v, NEW A,
           NEW g, DOMAIN g = W, g[w] = v, \A u \in W : u # w => g[u] = f[u]
    PROVE  Count(g, A) = Count(f, A) - Has(A, f[w]) + Has(A, v)
  <1> DEFINE P == Places(f, A)
  <1>1. IsFiniteSet(P) /\ Cardinality(P) \in Nat
    BY CountFunType DEF Count
  <1>2. IsFiniteSet(P \ {w}) /\ Cardinality(P \ {w}) = Cardinality(P) - Has(P, w)
    BY <1>1, FS_RemoveElement DEF Has
  <1>3. w \in P <=> f[w] \in A
    BY DEF Places
  <1>4. CASE v \in A
    <2>1. Places(g, A) = (P \ {w}) \cup {w}
      BY <1>4 DEF Places
    <2>2. w \notin P \ {w}
      OBVIOUS
    <2>3. Cardinality((P \ {w}) \cup {w}) = Cardinality(P \ {w}) + 1
      BY <1>2, <2>2, FS_AddElement
    <2>4. Cardinality(Places(g, A)) = Cardinality(P) - Has(P, w) + 1
      BY <1>2, <2>1, <2>3
    <2> QED
      BY <1>3, <1>4, <2>4 DEF Count, Has
  <1>5. CASE v \notin A
    <2>1. Places(g, A) = P \ {w}
      BY <1>5 DEF Places
    <2>2. Cardinality(Places(g, A)) = Cardinality(P) - Has(P, w)
      BY <1>2, <2>1
    <2>3. Cardinality(Places(g, A)) = Cardinality(P) - Has(P, w) + 0
      BY <1>1, <2>2 DEF Has
    <2> QED
      BY <1>3, <1>5, <2>3 DEF Count, Has
  <1> QED
    BY <1>4, <1>5

\* One thread moves.
LEMMA CountExcept ==
    ASSUME NEW W, IsFiniteSet(W), NEW f, DOMAIN f = W, NEW w \in W, NEW v, NEW A
    PROVE  Count([f EXCEPT ![w] = v], A) = Count(f, A) - Has(A, f[w]) + Has(A, v)
  <1> DEFINE g == [f EXCEPT ![w] = v]
  <1>1. DOMAIN g = W /\ g[w] = v /\ \A u \in W : u # w => g[u] = f[u]
    OBVIOUS
  <1> HIDE DEF g
  <1>2. Count(g, A) = Count(f, A) - Has(A, f[w]) + Has(A, v)
    BY <1>1, CountChange
  <1> QED
    BY <1>2 DEF g

\* A set of places is empty exactly when its number is 0.
LEMMA CountZero ==
    ASSUME NEW f, NEW A, IsFiniteSet(Places(f, A))
    PROVE  Count(f, A) = 0 <=> \A i \in DOMAIN f : f[i] \notin A
  BY FS_EmptySet DEF Count, Places
=============================================================================
