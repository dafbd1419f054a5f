--------------------------- MODULE SessionManager ---------------------------
(***************************************************************************)
(* The life of the session table under its callers.                        *)
(*                                                                         *)
(* onAccept and SP_Dispatcher::onPush call allocKey, build the session and *)
(* put it; doError, doTimeout and doClose remove it; the IOCP onAccept     *)
(* removes a key it never put when addSession fails (spwin32iocp.cpp:346). *)
(* Every sid that was ever handed out may be kept by application code (a   *)
(* list of online users) or sit in a queued response, and be presented to  *)
(* get() long after the session is gone: `handles' holds all of them whose *)
(* number has not come round since.                                        *)
(***************************************************************************)
EXTENDS SessionTable, FiniteSets

CONSTANTS
    Sessions,       \* the SP_Session objects
    MaxAbandon      \* how many keys may be removed without a put: 0 for the
                    \* libevent callers, a bound for the IOCP onAccept

ASSUME SessionsAssumption ==
    /\ NULL \notin Sessions
    /\ MaxAbandon \in Nat

VARIABLES
    mgr,        \* the table
    reserved,   \* sids returned by allocKey and not yet put or removed
    abandoned,  \* the number of keys removed without a put so far
    handles     \* the sids handed out, age the removals of their key since;
                \* at SeqMod, the number is in use again, they are dropped

vars == <<mgr, reserved, abandoned, handles>>

Sid == [mKey : Keys, mSeq : Seqs]
Handle == [mKey : Keys, mSeq : Seqs, age : 0 .. SeqMod - 1]

Init ==
    /\ mgr = EmptyTable
    /\ reserved = {}
    /\ abandoned = 0
    /\ handles = {}

\* uint16_t allocKey( uint16_t * seq ), successful
Alloc ==
    /\ AllocKeyOf(mgr) # 0
    /\ LET key == AllocKeyOf(mgr)
           seq == AllocSeqOf(mgr)
       IN  /\ mgr' = AllocKey(mgr)
           /\ reserved' = reserved \cup {[mKey |-> key, mSeq |-> seq]}
           /\ handles' = handles \cup {[mKey |-> key, mSeq |-> seq, age |-> 0]}
    /\ UNCHANGED abandoned

\* void put( key, seq, session ) with the sid its caller has just allocated
PutSession(sid, s) ==
    /\ sid \in reserved
    /\ \A k \in Keys : mgr.mSession[k] # s
    /\ mgr' = Put(mgr, sid.mKey, s)
    /\ reserved' = reserved \ {sid}
    /\ UNCHANGED <<abandoned, handles>>

\* Every copy of a sid with this key is one removal older.
Aged(key) ==
    LET older == {[h EXCEPT !.age = @ + 1] : h \in {g \in handles : g.mKey = key}}
    IN  {h \in handles : h.mKey # key} \cup {h \in older : h.age < SeqMod}

\* remove( key, seq ) of a session that is in the table
RemoveSession(key) ==
    /\ mgr.mSession[key] # NULL
    /\ mgr' = Remove(mgr, key)
    /\ handles' = Aged(key)
    /\ UNCHANGED <<reserved, abandoned>>

\* remove( key, seq ) after a failed addSession: there was no put
AbandonKey(sid) ==
    /\ abandoned < MaxAbandon
    /\ abandoned' = abandoned + 1
    /\ sid \in reserved
    /\ mgr' = Remove(mgr, sid.mKey)
    /\ reserved' = reserved \ {sid}
    /\ handles' = Aged(sid.mKey)

Next ==
    \/ Alloc
    \/ \E sid \in reserved : \E s \in Sessions : PutSession(sid, s)
    \/ \E key \in Keys : RemoveSession(key)
    \/ \E sid \in reserved : AbandonKey(sid)

Spec == Init /\ [][Next]_vars

-----------------------------------------------------------------------------
(* Properties *)

\* A key is held from allocKey to remove.
HeldKeys ==
    {k \in Keys : mgr.mSession[k] # NULL \/ \E sid \in reserved : sid.mKey = k}

\* The keys of the allocated rows that nobody holds.
FreeKeys == {k \in Keys : RowOf(k) \in mgr.mArray /\ k \notin HeldKeys}

\* Every member of the table, and every sid, has the type the code gives it.
TypeOK ==
    /\ mgr \in Table(Sessions)
    /\ reserved \subseteq Sid
    /\ abandoned \in 0 .. MaxAbandon
    /\ handles \subseteq Handle

\* The free list that allocKey pops and remove pushes is a chain of exactly
\* mFreeCount distinct keys that ends in 0 and holds every key of an allocated
\* row that nobody holds, and no other: no key is lost, none is handed out
\* twice.
FreeListExact ==
    \E c \in [1 .. mgr.mFreeCount -> Keys] : FreeChain(mgr, c, FreeKeys)

\* The assertions of put() hold for every sid that is waiting to be put, and
\* two sids waiting at the same time have different keys.
PutNeverAsserts ==
    /\ \A sid \in reserved : PutAssertion(mgr, sid.mKey, sid.mSeq)
    /\ \A r, s \in reserved : r.mKey = s.mKey => r = s

\* No assertion of the table fails: neither those of put(), nor the one of
\* remove(), to which a session gives the sid that allocKey made for it, however
\* many sessions had the key before it.
AssertionsHold ==
    /\ PutNeverAsserts
    /\ \A h \in handles : h.age = 0 => RemoveAssertion(mgr, h.mKey, h.mSeq)

\* A copy of a sid whose session was removed does not resolve to a later
\* session that got the same key, until mSeq has gone all the way round: the
\* callers of get() (onResponse) never reach the wrong session before that.
StaleSidIgnored ==
    \A h \in handles :
        h.age > 0 => Get(mgr, h.mKey, h.mSeq) = NULL

\* get() with a sid whose key was not removed since finds what its entry
\* holds: a reply to a live session is never taken for a stale one.
CurrentSidResolves ==
    \A h \in handles :
        h.age = 0 => Get(mgr, h.mKey, h.mSeq) = mgr.mSession[h.mKey]

\* getCount(), which onAccept compares with mMaxConnections, is the number of
\* sessions in the table, less one for every key the IOCP onAccept gave back
\* without a put: with libevent callers it is exact, with IOCP it drifts down.
CountDrift ==
    mgr.mCount = Cardinality({k \in Keys : mgr.mSession[k] # NULL}) - abandoned

\* allocKey returns 0, on which its callers assert, only when every key of
\* every row is held.
ExhaustedOnlyWhenFull ==
    AllocKeyOf(mgr) = 0 => HeldKeys = Keys

-----------------------------------------------------------------------------
(* The inductive invariant behind the properties *)

\* A key is held only in a row that was allocated: remove() is never a no-op.
HeldInRows == \A k \in HeldKeys : RowOf(k) \in mgr.mArray

\* The sequence number of an entry is that of every sid issued for its key,
\* advanced by the removals since, modulo SeqMod.
AgesTrackSeq ==
    \A h \in handles :
        /\ RowOf(h.mKey) \in mgr.mArray
        /\ \/ h.mSeq + h.age = mgr.mSeq[h.mKey]
           \/ h.mSeq + h.age = mgr.mSeq[h.mKey] + SeqMod

\* Inductive: the free list, the reserved sids and the ages of all sids agree
\* with the entries of the table that allocKey, put and remove leave behind.
TableInv ==
    /\ TypeOK
    /\ FreeListExact
    /\ PutNeverAsserts
    /\ HeldInRows
    /\ AgesTrackSeq
    /\ CountDrift
=============================================================================
