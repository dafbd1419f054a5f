----------------------------- MODULE IocpProofs -----------------------------
(***************************************************************************)
(* Proofs about IocpServer, for every number of sessions, threads, tasks   *)
(* and messages: a session has one user at a time and is freed once, no    *)
(* timer outlives the session's place in the table, a completion that was  *)
(* outstanding when its session was given up finds no later session, a     *)
(* message is completed once and not while a session may still send it,    *)
(* and no session of the table is forgotten, but for one that met a        *)
(* failure while its handler was running.                                  *)
(*                                                                         *)
(* The callbacks are operators on a world, the part of the state that a    *)
(* callback works on.  The invariant is therefore one of worlds: WorldOK   *)
(* counts the uses of a session, MailOK follows the messages.  A callback  *)
(* is a composition of operations that change one session (Calm), take one *)
(* out of the table (Leaving) or bring one in (Entering).  What a callback *)
(* leaves for a session to go on with is said by Served, at the end.       *)
(***************************************************************************)
EXTENDS IocpServer, SessionTableProofs, Counting

-----------------------------------------------------------------------------
(* The inductive invariant *)

\* A session record has exactly the fields of SP_Session and SP_IocpSession_t
\* that are modelled.
IsSession(r) ==
    r = [life |-> r.life, mSid |-> r.mSid, mStatus |-> r.mStatus, mRunning |-> r.mRunning,
         mReading |-> r.mReading, mWriting |-> r.mWriting, mInBuffer |-> r.mInBuffer,
         mOutList |-> r.mOutList, recvIO |-> r.recvIO, sendIO |-> r.sendIO,
         recvTimer |-> r.recvTimer, sendTimer |-> r.sendTimer, channel |-> r.channel,
         started |-> r.started, freePosted |-> r.freePosted, missed |-> r.missed]

IsMessage(x) == x = [made |-> x.made, to |-> x.to, completions |-> x.completions]

HandlerKinds == {"start", "worker"}
FinalKinds == {"error", "timeout", "close"}
Tasks == [kind : HandlerKinds \cup FinalKinds, s : Objects]

\* What a session was ever given, and what it has before
Sids == [mKey : Keys, mSeq : Seqs]
AnySid == Sids \cup {NoSid}

\* The messages of handlers
HandlerMsgs == 1 .. MaxMsgs
Responses == [from : AnySid, msg : HandlerMsgs \cup {0}, close : SUBSET AnySid]

\* Where the task of a thread can be
WorkPlaces(kind) ==
    IF kind \in HandlerKinds THEN {"handle", "status", "unrun", "push"}
    ELSE IF kind \in {"error", "timeout"} THEN {"handle", "push", "free"}
    ELSE {"free"}
IsWork(x) ==
    /\ x = [pc |-> x.pc, kind |-> x.kind, s |-> x.s, status |-> x.status, resp |-> x.resp]
    /\ x.resp \in Responses
    /\ x # Idle => /\ x.kind \in HandlerKinds \cup FinalKinds /\ x.s \in Objects
                   /\ x.pc \in WorkPlaces(x.kind)

\* The tasks that use the handler of s, and those that free s.
HandlerTasks(s) == {[kind |-> k, s |-> s] : k \in HandlerKinds}
FinalTasks(s) == {[kind |-> k, s |-> s] : k \in FinalKinds}

\* The hold a thread has on a session: a start or worker task up to
\* setRunning( 0 ), the others up to the eKeyFree completion.
Grip(x) ==
    IF x.kind \in HandlerKinds /\ x.pc \in {"handle", "status", "unrun"} THEN <<"handler", x.s>>
    ELSE IF x.kind \in FinalKinds THEN <<"final", x.s>>
    ELSE <<"none", 0>>
Grips == [t \in Threads |-> Grip(work[t])]

\* The session s is in the table of the world w.
In(w, s) == w.ses[s].life = "live" /\ w.mgr.mSession[w.ses[s].mSid.mKey] = s

\* One for a flag that is set
Flag(b) == IF b THEN 1 ELSE 0

HandlerUses(w, g, s) == Count(w.tasks, HandlerTasks(s)) + Count(g, {<<"handler", s>>})
FinalUses(w, g, s) ==
    Count(w.tasks, FinalTasks(s)) + Count(g, {<<"final", s>>})
    + Flag(w.ses[s].freePosted)

\* What holds of one session.  mRunning, which nobody guards with a lock, counts
\* the tasks that use the handler of a session in the table; a session that left
\* the table has exactly one use, the one that frees it; a timer belongs to a
\* session in the table; the sid of such a session is current.
SessionOK(w, g, s) ==
    /\ HandlerUses(w, g, s) = IF In(w, s) /\ w.ses[s].mRunning THEN 1 ELSE 0
    /\ FinalUses(w, g, s) = IF w.ses[s].life = "live" /\ ~In(w, s) THEN 1 ELSE 0
    /\ w.ses[s].mRunning \in BOOLEAN /\ w.ses[s].freePosted \in BOOLEAN
    /\ w.ses[s].life = "live" /\ ~In(w, s) => w.ses[s].mRunning
    /\ w.ses[s].recvTimer \/ w.ses[s].sendTimer => In(w, s)
    /\ w.ses[s].mSid \in AnySid
    /\ w.ses[s].life = "live" => w.ses[s].mSid \in Sids
    /\ w.ses[s].life = "unborn" => w.ses[s].mSid = NoSid
    /\ In(w, s) => w.mgr.mSeq[w.ses[s].mSid.mKey] = w.ses[s].mSid.mSeq

\* An entry of the table names a live session, which knows its key.
TableMaps(w) ==
    \A k \in Keys : \A s \in Objects :
        w.mgr.mSession[k] = s => w.ses[s].life = "live" /\ w.ses[s].mSid.mKey = k

\* As long as mSeq has not wrapped, a sid that was given up is older than its
\* key's sequence number; each step of that number has its own session.
Gone(w) == {s \in Objects : w.ses[s].life # "unborn" /\ ~In(w, s)}
SeqsOK(w) ==
    MaxSessions < SeqMod =>
        /\ \A k \in Keys : w.mgr.mSeq[k] <= Cardinality(Gone(w))
        /\ \A s \in Gone(w) : w.ses[s].mSid \in Sids =>
              w.ses[s].mSid.mSeq < w.mgr.mSeq[w.ses[s].mSid.mKey]

WorldTyped(w) ==
    /\ w = [mgr |-> w.mgr, ses |-> w.ses, msgs |-> w.msgs, tasks |-> w.tasks]
    /\ DOMAIN w.ses = Objects /\ \A s \in Objects : IsSession(w.ses[s])
    /\ DOMAIN w.msgs = Msgs /\ \A m \in Msgs : IsMessage(w.msgs[m])
    /\ w.tasks \in Seq(Tasks)

WorldOK(w, g) ==
    /\ WorldTyped(w)
    /\ TableOK(w.mgr, Objects)
    /\ TableMaps(w)
    /\ \A s \in Objects : SessionOK(w, g, s)
    /\ SeqsOK(w)

\* The message that the response of a thread has not delivered yet
Carried == [t \in Threads |-> IF work[t].pc \in {"status", "unrun", "push"}
                              THEN work[t].resp.msg ELSE 0]

\* The responses that have a message, and in how many places it is on its way
With(m) == {r \in Responses : r.msg = m}
InQueue(m) == Count(Carried, {m}) + Count(respQ, With(m))
Flights == [m \in HandlerMsgs |-> InQueue(m)]

\* onResponse is at the message m.
AtMessage(l, m) == l.at = "to" /\ l.resp.msg = m

\* The sids of the message m that onResponse has not come to, where f says how
\* often it is on its way and l where the loop is
Pending(w, f, l, m) ==
    IF AtMessage(l, m) THEN l.sids ELSE IF f[m] # 0 THEN w.msgs[m].to ELSE {}

Holds(q, m) == \E i \in DOMAIN q : q[i] = m
Injective(q) == \A i, j \in DOMAIN q : q[i] = q[j] => i = j

\* A message of a handler is in one response at most, and what holds it then is
\* what onResponse has come to; a session in the table that holds a message is
\* on its toList, and a message is completed when the list is empty.
MessageOK(w, f, l, m) ==
    /\ f[m] + Flag(AtMessage(l, m)) \in {0, 1}
    /\ w.msgs[m].to \subseteq AnySid
    /\ Pending(w, f, l, m) \subseteq w.msgs[m].to
    /\ w.msgs[m].completions \in {0, 1}
    /\ w.msgs[m].completions = 1 => w.msgs[m].to = {} /\ f[m] = 0 /\ ~AtMessage(l, m)
    /\ ~w.msgs[m].made => w.msgs[m].to = {} /\ f[m] = 0 /\ ~AtMessage(l, m)
                          /\ w.msgs[m].completions = 0
    /\ \A s \in Objects : In(w, s) /\ Holds(w.ses[s].mOutList, m) =>
          w.ses[s].mSid \in w.msgs[m].to \ Pending(w, f, l, m)

\* The message that onAccept makes for a session it refuses
RefusalOK(w, s) ==
    /\ w.msgs[RefusedMsg(s)].to = {}
    /\ w.msgs[RefusedMsg(s)].completions \in {0, 1}
    /\ w.ses[s].life = "unborn" => w.msgs[RefusedMsg(s)].completions = 0
    /\ \A t \in Objects : In(w, t) /\ Holds(w.ses[t].mOutList, RefusedMsg(s)) =>
          t = s /\ w.msgs[RefusedMsg(s)].completions = 0

OutListOK(w, s) == In(w, s) => w.ses[s].mOutList \in Seq(Msgs) /\ Injective(w.ses[s].mOutList)

MailOK(w, f, l) ==
    /\ \A m \in HandlerMsgs : MessageOK(w, f, l, m)
    /\ \A s \in Objects : RefusalOK(w, s) /\ OutListOK(w, s)

\* onSend is in the middle of a session of the table; onResponse is busy with a
\* response.
LoopOK(w, l) ==
    /\ l = [at |-> l.at, s |-> l.s, exit |-> l.exit, resp |-> l.resp, sids |-> l.sids]
    /\ l.at = "tail" => l.s \in Objects /\ In(w, l.s)
    /\ l.resp \in Responses /\ l.sids \subseteq AnySid
    /\ l.at = "to" /\ l.resp.msg = 0 => l.sids = {}

\* What the invariant says of a world
Good(w, g, f, l) == DOMAIN g = Threads /\ WorldOK(w, g) /\ MailOK(w, f, l)

\* The inductive invariant
IocpInv ==
    /\ Good(World, Grips, Flights, loop)
    /\ LoopOK(World, loop)
    /\ DOMAIN work = Threads /\ \A t \in Threads : IsWork(work[t])
    /\ respQ \in Seq(Responses)

-----------------------------------------------------------------------------
(* Worlds that differ in one session *)

\* v is w with the record q for the session s.
Edited(w, v, s, q) ==
    /\ WorldTyped(v)
    /\ v.mgr = w.mgr /\ v.msgs = w.msgs /\ v.tasks = w.tasks
    /\ v.ses[s] = q /\ \A t \in Objects : t # s => v.ses[t] = w.ses[t]

\* What the invariant says of a session record, but for its timers and messages
Steady(r, q) ==
    /\ q.life = r.life /\ q.mSid = r.mSid /\ q.mRunning = r.mRunning
    /\ q.freePosted = r.freePosted

Timed(r) == r.recvTimer \/ r.sendTimer

\* q may take the place of the record of s: only a session in the table gets a
\* timer, and its messages stay.
Touches(w, s, q) ==
    /\ IsSession(q) /\ Steady(w.ses[s], q) /\ q.mOutList = w.ses[s].mOutList
    /\ Timed(q) => Timed(w.ses[s]) \/ In(w, s)

\* No session comes or goes, and no message moves.
Calm(w, v) ==
    /\ v.mgr = w.mgr /\ v.msgs = w.msgs
    /\ \A t \in Objects : /\ v.ses[t].life = w.ses[t].life /\ v.ses[t].mSid = w.ses[t].mSid
                          /\ v.ses[t].mOutList = w.ses[t].mOutList

\* Assigning fields of one session object leaves the rest of the world alone.
LEMMA EditWorld ==
    ASSUME NEW w, WorldTyped(w), NEW s \in Objects, NEW q, IsSession(q),
           NEW v, v = [w EXCEPT !.ses[s] = q]
    PROVE  Edited(w, v, s, q)
  <1>1. v = [mgr |-> w.mgr, ses |-> [w.ses EXCEPT ![s] = q], msgs |-> w.msgs, tasks |-> w.tasks]
    BY DEF WorldTyped
  <1>2. DOMAIN w.ses = Objects
    BY DEF WorldTyped
  <1>3. v.mgr = w.mgr /\ v.msgs = w.msgs /\ v.tasks = w.tasks /\ v.ses = [w.ses EXCEPT ![s] = q]
    BY <1>1
  <1>4. DOMAIN v.ses = Objects /\ v.ses[s] = q /\ \A t \in Objects : t # s => v.ses[t] = w.ses[t]
    BY <1>2, <1>3
  <1>5. WorldTyped(v)
    BY <1>1, <1>3, <1>4 DEF WorldTyped
  <1> QED
    BY <1>3, <1>4, <1>5 DEF Edited

\* AddTask puts a task at the end of the InputResultQueue.
LEMMA TaskWorld ==
    ASSUME NEW w, WorldTyped(w), NEW s \in Objects, NEW k \in HandlerKinds \cup FinalKinds
    PROVE  /\ WorldTyped(AddTask(w, k, s))
           /\ AddTask(w, k, s).mgr = w.mgr /\ AddTask(w, k, s).msgs = w.msgs
           /\ AddTask(w, k, s).ses = w.ses
           /\ AddTask(w, k, s).tasks = Append(w.tasks, [kind |-> k, s |-> s])
           /\ [kind |-> k, s |-> s] \in Tasks
  <1> DEFINE x == [kind |-> k, s |-> s]
             v == AddTask(w, k, s)
  <1>1. x \in Tasks
    BY DEF Tasks
  <1>2. v = [mgr |-> w.mgr, ses |-> w.ses, msgs |-> w.msgs, tasks |-> Append(w.tasks, x)]
    <2>1. w = [mgr |-> w.mgr, ses |-> w.ses, msgs |-> w.msgs, tasks |-> w.tasks]
      BY DEF WorldTyped
    <2> QED
      BY <2>1 DEF AddTask
  <1> HIDE DEF x, v
  <1>3. v.mgr = w.mgr /\ v.msgs = w.msgs /\ v.ses = w.ses /\ v.tasks = Append(w.tasks, x)
    BY <1>2
  <1>4. Append(w.tasks, x) \in Seq(Tasks)
    BY <1>1, AppendProperties DEF WorldTyped
  <1>5. WorldTyped(v)
    BY <1>2, <1>3, <1>4 DEF WorldTyped
  <1> QED
    BY <1>1, <1>3, <1>5 DEF x, v

\* A session is in the table of both worlds or of neither.
LEMMA SameIn ==
    ASSUME NEW w, NEW v, v.mgr = w.mgr, NEW s,
           v.ses[s].life = w.ses[s].life, v.ses[s].mSid = w.ses[s].mSid
    PROVE  In(v, s) <=> In(w, s)
  BY DEF In

\* The sequence numbers of the sids depend on who is in the table only.
LEMMA SameSeqs ==
    ASSUME NEW w, NEW v, v.mgr = w.mgr, SeqsOK(w), TableMaps(w),
           \A t \in Objects : v.ses[t].life = w.ses[t].life /\ v.ses[t].mSid = w.ses[t].mSid
    PROVE  SeqsOK(v) /\ TableMaps(v)
  <1>1. \A t \in Objects : In(v, t) <=> In(w, t)
    BY SameIn
  <1>2. Gone(v) = Gone(w)
    BY <1>1 DEF Gone
  <1>3. SeqsOK(v)
    BY <1>2 DEF SeqsOK, Gone
  <1>4. TableMaps(v)
    BY DEF TableMaps
  <1> QED
    BY <1>3, <1>4

\* A callback that leaves life, sid, mRunning and freePosted of the sessions
\* alone, and gives timers to sessions of the table only.
LEMMA TouchWorld ==
    ASSUME NEW w, NEW g, WorldOK(w, g), NEW v, WorldTyped(v), v.mgr = w.mgr,
           v.tasks = w.tasks, \A t \in Objects : Steady(w.ses[t], v.ses[t]),
           \A t \in Objects : Timed(v.ses[t]) => Timed(w.ses[t]) \/ In(w, t)
    PROVE  WorldOK(v, g)
  <1>1. \A t \in Objects : v.ses[t].life = w.ses[t].life /\ v.ses[t].mSid = w.ses[t].mSid
    BY DEF Steady
  <1>2. SeqsOK(v) /\ TableMaps(v)
    BY <1>1, SameSeqs DEF WorldOK
  <1>3. ASSUME NEW s \in Objects
        PROVE  SessionOK(v, g, s)
    <2>1. SessionOK(w, g, s) /\ Steady(w.ses[s], v.ses[s])
      BY DEF WorldOK
    <2>2. In(v, s) <=> In(w, s)
      BY <1>1, SameIn
    <2>3. HandlerUses(v, g, s) = HandlerUses(w, g, s)
      BY DEF HandlerUses
    <2>4. FinalUses(v, g, s) = FinalUses(w, g, s)
      BY <2>1 DEF FinalUses, Steady
    <2>5. Timed(v.ses[s]) => In(v, s)
      BY <2>1, <2>2 DEF SessionOK, Timed
    <2> QED
      BY <2>1, <2>2, <2>3, <2>4, <2>5 DEF SessionOK, Steady, Timed
  <1> QED
    BY <1>2, <1>3 DEF WorldOK

\* The same for one session, whose messages stay
LEMMA TouchOne ==
    ASSUME NEW w, NEW g, WorldOK(w, g), NEW s \in Objects, NEW q, Touches(w, s, q)
    PROVE  /\ WorldOK([w EXCEPT !.ses[s] = q], g) /\ Calm(w, [w EXCEPT !.ses[s] = q])
           /\ Edited(w, [w EXCEPT !.ses[s] = q], s, q)
           /\ [w EXCEPT !.ses[s] = q].ses[s].mRunning = w.ses[s].mRunning
  <1> DEFINE v == [w EXCEPT !.ses[s] = q]
  <1>1. Edited(w, v, s, q)
    BY EditWorld DEF WorldOK, Touches
  <1> HIDE DEF v
  <1>2. \A t \in Objects : Steady(w.ses[t], v.ses[t]) /\ v.ses[t].mOutList = w.ses[t].mOutList
    BY <1>1 DEF Edited, Steady, Touches
  <1>3. \A t \in Objects : Timed(v.ses[t]) => Timed(w.ses[t]) \/ In(w, t)
    BY <1>1 DEF Edited, Touches
  <1>4. WorldOK(v, g)
    BY <1>1, <1>2, <1>3, TouchWorld DEF Edited
  <1>5. Calm(w, v) /\ v.ses[s].mRunning = w.ses[s].mRunning
    BY <1>1, <1>2 DEF Calm, Edited, Steady
  <1> QED
    BY <1>1, <1>4, <1>5 DEF v

\* Who is in the table does not change, and calm worlds follow each other.
LEMMA CalmIn ==
    ASSUME NEW w, NEW v, Calm(w, v), NEW s \in Objects
    PROVE  In(v, s) <=> In(w, s)
  BY SameIn DEF Calm

LEMMA CalmTwice ==
    ASSUME NEW w, NEW v, NEW u, Calm(w, v), Calm(v, u)
    PROVE  Calm(w, u)
  BY DEF Calm

LEMMA CalmSelf ==
    ASSUME NEW w
    PROVE  Calm(w, w)
  BY DEF Calm

\* The threads are finitely many.
LEMMA GripsFinite ==
    ASSUME NEW g, DOMAIN g = Threads, NEW A
    PROVE  IsFiniteSet(Places(g, A)) /\ Count(g, A) \in Nat
  BY IocpAssumption, CountFunType

\* The session s is marked running.
Marks(w, u, s) ==
    /\ WorldTyped(u) /\ u.mgr = w.mgr /\ u.tasks = w.tasks
    /\ u.ses[s].life = w.ses[s].life /\ u.ses[s].mSid = w.ses[s].mSid
    /\ u.ses[s].freePosted = w.ses[s].freePosted /\ u.ses[s].mRunning = TRUE
    /\ \A t \in Objects : t # s => u.ses[t] = w.ses[t]

\* doWork and doStart: a session of the table that no task uses gets one.
LEMMA DispatchOne ==
    ASSUME NEW w, NEW g, DOMAIN g = Threads, WorldOK(w, g), NEW s \in Objects, In(w, s),
           ~w.ses[s].mRunning, NEW k \in HandlerKinds, NEW u, Marks(w, u, s)
    PROVE  WorldOK(AddTask(u, k, s), g)
  <1> USE DEF Marks
  <1> DEFINE v == AddTask(u, k, s)
             x == [kind |-> k, s |-> s]
  <1>1. /\ WorldTyped(v) /\ v.mgr = w.mgr /\ v.ses = u.ses
        /\ v.tasks = Append(w.tasks, x) /\ x \in Tasks /\ w.tasks \in Seq(Tasks)
    BY TaskWorld DEF WorldOK, WorldTyped
  <1> HIDE DEF v
  <1>2. \A t \in Objects : v.ses[t].life = w.ses[t].life /\ v.ses[t].mSid = w.ses[t].mSid
    BY <1>1
  <1>3. SeqsOK(v) /\ TableMaps(v)
    BY <1>1, <1>2, SameSeqs DEF WorldOK
  <1>4. ASSUME NEW t \in Objects
        PROVE  SessionOK(v, g, t)
    <2>1. SessionOK(w, g, t)
      BY DEF WorldOK
    <2>2. In(v, t) <=> In(w, t)
      BY <1>1, <1>2, SameIn
    <2>3. /\ Count(v.tasks, HandlerTasks(t)) = Count(w.tasks, HandlerTasks(t)) + Has(HandlerTasks(t), x)
          /\ Count(v.tasks, FinalTasks(t)) = Count(w.tasks, FinalTasks(t)) + Has(FinalTasks(t), x)
      BY <1>1, CountAppend
    <2>4. /\ Has(HandlerTasks(t), x) = IF t = s THEN 1 ELSE 0
          /\ Has(FinalTasks(t), x) = 0
      BY DEF Has, HandlerTasks, FinalTasks, HandlerKinds, FinalKinds
    <2>5. Count(w.tasks, HandlerTasks(t)) \in Nat /\ Count(w.tasks, FinalTasks(t)) \in Nat
      BY <1>1, CountSeqType
    <2>6. CASE t = s
      <3>1. Count(g, {<<"handler", s>>}) \in Nat
        BY GripsFinite
      <3>2. HandlerUses(v, g, t) = HandlerUses(w, g, t) + 1
        BY <2>3, <2>4, <2>5, <2>6, <3>1 DEF HandlerUses
      <3>3. FinalUses(v, g, t) = FinalUses(w, g, t)
        BY <1>1, <2>3, <2>4, <2>5, <2>6 DEF FinalUses
      <3>4. v.ses[t].mRunning /\ In(w, t) /\ ~w.ses[t].mRunning /\ w.ses[t].freePosted = v.ses[t].freePosted
        BY <1>1, <2>6
      <3> QED
        BY <1>2, <1>1, <2>1, <2>2, <3>2, <3>3, <3>4 DEF SessionOK
    <2>7. CASE t # s
      <3>1. v.ses[t] = w.ses[t]
        BY <1>1, <2>7
      <3>2. HandlerUses(v, g, t) = HandlerUses(w, g, t) /\ FinalUses(v, g, t) = FinalUses(w, g, t)
        BY <2>3, <2>4, <2>5, <2>7, <3>1 DEF HandlerUses, FinalUses
      <3> QED
        BY <1>1, <2>1, <2>2, <3>1, <3>2 DEF SessionOK
    <2> QED
      BY <2>6, <2>7
  <1> QED
    BY <1>1, <1>3, <1>4 DEF WorldOK, v

-----------------------------------------------------------------------------
(* Sessions that leave the table, come into it, or are freed *)

\* The key of a session in the table
LEMMA InKey ==
    ASSUME NEW w, NEW g, WorldOK(w, g), NEW s \in Objects, In(w, s)
    PROVE  /\ w.ses[s].mSid.mKey \in Keys /\ w.ses[s].mSid.mSeq \in Seqs
           /\ w.mgr.mSession[w.ses[s].mSid.mKey] = s /\ s # NULL
           /\ w.mgr.mSeq[w.ses[s].mSid.mKey] = w.ses[s].mSid.mSeq
           /\ w.ses[s].life = "live" /\ w.ses[s].mSid \in Sids
  <1>1. SessionOK(w, g, s)
    BY DEF WorldOK
  <1>2. w.ses[s].mSid \in Sids /\ w.ses[s].life = "live"
    BY <1>1 DEF SessionOK, In
  <1>3. s # NULL
    BY IocpAssumption DEF Objects
  <1> QED
    BY <1>1, <1>2, <1>3 DEF SessionOK, In, Sids

\* Two sessions in the table have different sids.
LEMMA InSidApart ==
    ASSUME NEW w, NEW s, NEW t, In(w, s), In(w, t), s # t
    PROVE  w.ses[s].mSid # w.ses[t].mSid
  BY DEF In

\* The sessions that are gone are finitely many.
LEMMA GoneFinite ==
    ASSUME NEW w
    PROVE  /\ IsFiniteSet(Gone(w)) /\ Cardinality(Gone(w)) \in Nat
           /\ Cardinality(Gone(w)) <= MaxSessions
           /\ \A s \in Objects : s \notin Gone(w) =>
                 /\ Cardinality(Gone(w)) < MaxSessions
                 /\ Cardinality(Gone(w) \cup {s}) = Cardinality(Gone(w)) + 1
  <1>1. MaxSessions \in Nat
    BY IocpAssumption
  <1>2. IsFiniteSet(Objects) /\ Cardinality(Objects) = MaxSessions
    BY <1>1, FS_Interval DEF Objects
  <1>3. Gone(w) \in SUBSET Objects
    BY DEF Gone
  <1>4. /\ IsFiniteSet(Gone(w)) /\ Cardinality(Gone(w)) <= MaxSessions
        /\ Cardinality(Gone(w)) = MaxSessions => Gone(w) = Objects
    BY <1>2, <1>3, FS_Subset
  <1>5. Cardinality(Gone(w)) \in Nat
    BY <1>4, FS_CardinalityType
  <1>6. \A s \in Objects : s \notin Gone(w) =>
            Cardinality(Gone(w) \cup {s}) = Cardinality(Gone(w)) + 1
    BY <1>4, FS_AddElement
  <1> QED
    BY <1>1, <1>4, <1>5, <1>6

\* A session goes: the sequence number of its key has advanced by one.
LEMMA SeqsAdvance ==
    ASSUME NEW w, NEW v, SeqsOK(w), NEW s \in Objects, s \notin Gone(w), NEW key \in Keys,
           Gone(v) = Gone(w) \cup {s},
           w.mgr.mSeq \in [Keys -> Seqs],
           \A k \in Keys : v.mgr.mSeq[k] = IF k = key THEN NextSeq(w.mgr.mSeq[key]) ELSE w.mgr.mSeq[k],
           \A t \in Gone(w) : v.ses[t].mSid = w.ses[t].mSid,
           v.ses[s].mSid \in Sids => v.ses[s].mSid.mKey = key /\ v.ses[s].mSid.mSeq = w.mgr.mSeq[key]
    PROVE  SeqsOK(v)
  <1> SUFFICES ASSUME MaxSessions < SeqMod
               PROVE  /\ \A k \in Keys : v.mgr.mSeq[k] <= Cardinality(Gone(v))
                      /\ \A t \in Gone(v) : v.ses[t].mSid \in Sids =>
                            v.ses[t].mSid.mSeq < v.mgr.mSeq[v.ses[t].mSid.mKey]
    BY DEF SeqsOK
  <1> DEFINE n == Cardinality(Gone(w))
  <1>1. MaxSessions \in Nat /\ SeqMod \in Nat
    BY IocpAssumption, TableAssumption
  <1>2. n \in Nat /\ n < MaxSessions /\ Cardinality(Gone(v)) = n + 1
    BY GoneFinite
  <1>3. /\ \A k \in Keys : w.mgr.mSeq[k] <= n /\ w.mgr.mSeq[k] \in Nat
        /\ \A t \in Gone(w) : w.ses[t].mSid \in Sids =>
              w.ses[t].mSid.mSeq < w.mgr.mSeq[w.ses[t].mSid.mKey]
    BY DEF SeqsOK, Seqs
  <1> HIDE DEF n
  <1>4. w.mgr.mSeq[key] <= n /\ w.mgr.mSeq[key] \in Nat
    BY <1>3
  <1>5. v.mgr.mSeq[key] = w.mgr.mSeq[key] + 1
    BY <1>1, <1>2, <1>4 DEF NextSeq
  <1>6. \A k \in Keys : w.mgr.mSeq[k] <= v.mgr.mSeq[k] /\ v.mgr.mSeq[k] <= n + 1
                        /\ v.mgr.mSeq[k] \in Nat
    BY <1>2, <1>3, <1>4, <1>5
  <1>7. ASSUME NEW t \in Gone(v), v.ses[t].mSid \in Sids
        PROVE  v.ses[t].mSid.mSeq < v.mgr.mSeq[v.ses[t].mSid.mKey]
    <2>1. CASE t = s
      BY <1>4, <1>5, <1>7, <2>1
    <2>2. CASE t # s
      <3>1. v.ses[t].mSid = w.ses[t].mSid /\ w.ses[t].mSid.mSeq < w.mgr.mSeq[w.ses[t].mSid.mKey]
        BY <1>3, <1>7, <2>2
      <3>2. w.ses[t].mSid.mKey \in Keys /\ w.ses[t].mSid.mSeq \in Nat
        BY <1>7, <3>1 DEF Sids, Seqs
      <3> QED
        BY <1>3, <1>6, <3>1, <3>2
    <2> QED
      BY <2>1, <2>2
  <1> QED
    BY <1>2, <1>6, <1>7

\* A session that a step does not touch
LEMMA OtherSession ==
    ASSUME NEW w, NEW g, NEW v, NEW h, NEW t \in Objects, SessionOK(w, g, t),
           v.ses[t] = w.ses[t],
           HandlerUses(v, h, t) = HandlerUses(w, g, t), FinalUses(v, h, t) = FinalUses(w, g, t),
           In(v, t) <=> In(w, t),
           In(w, t) => v.mgr.mSeq[w.ses[t].mSid.mKey] = w.mgr.mSeq[w.ses[t].mSid.mKey]
    PROVE  SessionOK(v, h, t)
  BY DEF SessionOK

\* What a queued task adds to the uses of the sessions
LEMMA TaskUses ==
    ASSUME NEW q \in Seq(Tasks), NEW s \in Objects, NEW k \in HandlerKinds \cup FinalKinds,
           NEW t \in Objects
    PROVE  /\ Count(Append(q, [kind |-> k, s |-> s]), HandlerTasks(t)) =
                 Count(q, HandlerTasks(t)) + IF t = s /\ k \in HandlerKinds THEN 1 ELSE 0
           /\ Count(Append(q, [kind |-> k, s |-> s]), FinalTasks(t)) =
                 Count(q, FinalTasks(t)) + IF t = s /\ k \in FinalKinds THEN 1 ELSE 0
           /\ Count(q, HandlerTasks(t)) \in Nat /\ Count(q, FinalTasks(t)) \in Nat
  <1> DEFINE x == [kind |-> k, s |-> s]
  <1>1. x \in Tasks
    BY DEF Tasks
  <1> HIDE DEF x
  <1>2. /\ Count(Append(q, x), HandlerTasks(t)) = Count(q, HandlerTasks(t)) + Has(HandlerTasks(t), x)
        /\ Count(Append(q, x), FinalTasks(t)) = Count(q, FinalTasks(t)) + Has(FinalTasks(t), x)
    BY <1>1, CountAppend
  <1>3. /\ Has(HandlerTasks(t), x) = IF t = s /\ k \in HandlerKinds THEN 1 ELSE 0
        /\ Has(FinalTasks(t), x) = IF t = s /\ k \in FinalKinds THEN 1 ELSE 0
    BY DEF Has, HandlerTasks, FinalTasks, HandlerKinds, FinalKinds, x
  <1>4. Count(q, HandlerTasks(t)) \in Nat /\ Count(q, FinalTasks(t)) \in Nat
    BY CountSeqType
  <1> QED
    BY <1>2, <1>3, <1>4 DEF x

\* The session s is marked running, its entry of the table and its timers are
\* given up.
GivesUp(w, u, s) ==
    /\ WorldTyped(u) /\ u.tasks = w.tasks /\ u.mgr = Remove(w.mgr, w.ses[s].mSid.mKey)
    /\ u.ses[s].life = w.ses[s].life /\ u.ses[s].mSid = w.ses[s].mSid
    /\ u.ses[s].freePosted = w.ses[s].freePosted /\ u.ses[s].mRunning = TRUE
    /\ ~Timed(u.ses[s]) /\ \A t \in Objects : t # s => u.ses[t] = w.ses[t]

\* doError, doTimeout and doClose: a session of the table that no task uses
\* leaves it, with the task that will free it.
LEMMA LeaveOne ==
    ASSUME NEW w, NEW g, DOMAIN g = Threads, WorldOK(w, g), NEW s \in Objects, In(w, s),
           ~w.ses[s].mRunning, NEW k \in FinalKinds, NEW u, GivesUp(w, u, s)
    PROVE  /\ WorldOK(AddTask(u, k, s), g)
           /\ \A t \in Objects : In(AddTask(u, k, s), t) <=> In(w, t) /\ t # s
  <1> USE DEF GivesUp
  <1> DEFINE key == w.ses[s].mSid.mKey
  <1>1. PICK v : v = AddTask(u, k, s)
    OBVIOUS
  <1>2. /\ WorldTyped(v) /\ v.mgr = Remove(w.mgr, key) /\ v.ses = u.ses
        /\ v.tasks = Append(w.tasks, [kind |-> k, s |-> s]) /\ w.tasks \in Seq(Tasks)
    BY <1>1, TaskWorld DEF WorldOK, WorldTyped
  <1>3. /\ key \in Keys /\ w.mgr.mSession[key] = s /\ s # NULL /\ w.ses[s].life = "live"
        /\ w.mgr.mSeq[key] = w.ses[s].mSid.mSeq
    BY InKey
  <1>4. TableOK(w.mgr, Objects) /\ TableMaps(w) /\ SeqsOK(w) /\ \A t \in Objects : SessionOK(w, g, t)
    BY DEF WorldOK
  <1> HIDE DEF key
  <1>5. /\ TableOK(v.mgr, Objects)
        /\ v.mgr.mSession[key] = NULL /\ v.mgr.mSeq[key] = NextSeq(w.mgr.mSeq[key])
        /\ \A x \in Keys : x # key => v.mgr.mSession[x] = w.mgr.mSession[x]
                                      /\ v.mgr.mSeq[x] = w.mgr.mSeq[x]
    <2> HIDE DEF GivesUp
    <2>1. w.mgr.mSession[key] # NULL
      BY <1>3
    <2> QED
      BY <1>2, <1>3, <1>4, <2>1, RemoveOK, SMTT(30)
  <1>6. ~In(v, s) /\ s \notin Gone(w)
    BY <1>2, <1>3, <1>5 DEF In, key, Gone
  <1>7. ASSUME NEW t \in Objects, t # s
        PROVE  /\ v.ses[t] = w.ses[t] /\ (In(v, t) <=> In(w, t))
               /\ In(w, t) => v.mgr.mSeq[w.ses[t].mSid.mKey] = w.mgr.mSeq[w.ses[t].mSid.mKey]
    <2>1. v.ses[t] = w.ses[t] /\ t # NULL
      BY <1>2, <1>7, IocpAssumption DEF Objects
    <2>2. w.ses[t].life = "live" => w.ses[t].mSid.mKey \in Keys
      BY <1>4 DEF SessionOK, Sids
    <2> QED
      BY <1>3, <1>5, <1>7, <2>1, <2>2 DEF In
  <1>8. TableMaps(v)
    <2> SUFFICES ASSUME NEW x \in Keys, NEW t \in Objects, v.mgr.mSession[x] = t
                 PROVE  v.ses[t].life = "live" /\ v.ses[t].mSid.mKey = x
      BY DEF TableMaps
    <2>1. t # NULL
      BY IocpAssumption DEF Objects
    <2>2. w.mgr.mSession[x] = t
      BY <1>5, <2>1
    <2>3. w.ses[t].life = "live" /\ w.ses[t].mSid.mKey = x
      BY <1>4, <2>2 DEF TableMaps
    <2> QED
      BY <1>2, <2>3
  <1>9. SeqsOK(v)
    <2>1. Gone(v) = Gone(w) \cup {s}
      BY <1>2, <1>3, <1>6, <1>7 DEF Gone
    <2>2. w.mgr.mSeq \in [Keys -> Seqs]
      BY <1>4 DEF TableOK, Table
    <2>3. \A x \in Keys : v.mgr.mSeq[x] = IF x = key THEN NextSeq(w.mgr.mSeq[key]) ELSE w.mgr.mSeq[x]
      BY <1>5
    <2>4. \A t \in Gone(w) : v.ses[t].mSid = w.ses[t].mSid
      BY <1>2, <1>7 DEF Gone
    <2>5. v.ses[s].mSid.mKey = key /\ v.ses[s].mSid.mSeq = w.mgr.mSeq[key]
      BY <1>2, <1>3 DEF key
    <2> QED
      BY <1>3, <1>4, <1>6, <2>1, <2>2, <2>3, <2>4, <2>5, SeqsAdvance
  <1>10. ASSUME NEW t \in Objects
         PROVE  SessionOK(v, g, t)
    <2>1. /\ Count(v.tasks, HandlerTasks(t)) = Count(w.tasks, HandlerTasks(t)) + 0
          /\ Count(v.tasks, FinalTasks(t)) = Count(w.tasks, FinalTasks(t)) + IF t = s THEN 1 ELSE 0
          /\ Count(w.tasks, HandlerTasks(t)) \in Nat /\ Count(w.tasks, FinalTasks(t)) \in Nat
      <3>1. k \in HandlerKinds \cup FinalKinds /\ k \notin HandlerKinds
        BY DEF HandlerKinds, FinalKinds
      <3>2. /\ Count(v.tasks, HandlerTasks(t)) =
                  Count(w.tasks, HandlerTasks(t)) + IF t = s /\ k \in HandlerKinds THEN 1 ELSE 0
            /\ Count(v.tasks, FinalTasks(t)) =
                  Count(w.tasks, FinalTasks(t)) + IF t = s /\ k \in FinalKinds THEN 1 ELSE 0
            /\ Count(w.tasks, HandlerTasks(t)) \in Nat /\ Count(w.tasks, FinalTasks(t)) \in Nat
        BY <1>2, <3>1, TaskUses
      <3> QED
        BY <3>1, <3>2
    <2>2. HandlerUses(v, g, t) = HandlerUses(w, g, t)
      BY <2>1 DEF HandlerUses
    <2>3. CASE t # s
      <3>1. FinalUses(v, g, t) = FinalUses(w, g, t)
        BY <1>7, <2>1, <2>3 DEF FinalUses
      <3> QED
        BY <1>4, <1>7, <2>2, <2>3, <3>1, OtherSession
    <2>4. CASE t = s
      <3>1. Count(g, {<<"final", s>>}) \in Nat /\ Flag(w.ses[s].freePosted) \in Nat
        BY GripsFinite DEF Flag
      <3>2. FinalUses(v, g, t) = FinalUses(w, g, t) + 1
        BY <1>2, <2>1, <2>4, <3>1 DEF FinalUses
      <3>3. SessionOK(w, g, t) /\ In(w, t) /\ ~w.ses[t].mRunning /\ ~In(v, t) /\ ~Timed(v.ses[t])
        BY <1>2, <1>4, <1>6, <2>4
      <3>4. /\ v.ses[t].life = "live" /\ v.ses[t].mSid = w.ses[t].mSid /\ v.ses[t].mRunning = TRUE
            /\ v.ses[t].freePosted = w.ses[t].freePosted /\ w.ses[t].life = "live"
        BY <1>2, <1>3, <2>4
      <3>5. /\ HandlerUses(w, g, t) = 0 /\ FinalUses(w, g, t) = 0 /\ w.ses[t].freePosted \in BOOLEAN
            /\ w.ses[t].mSid \in AnySid /\ w.ses[t].mSid \in Sids
        BY <3>3, <3>4 DEF SessionOK
      <3>6. FinalUses(v, g, t) = 1 /\ HandlerUses(v, g, t) = 0
        BY <2>2, <3>2, <3>5
      <3> QED
        BY <3>3, <3>4, <3>5, <3>6 DEF SessionOK, Timed
    <2> QED
      BY <2>3, <2>4
  <1>11. WorldOK(v, g)
    BY <1>2, <1>5, <1>8, <1>9, <1>10 DEF WorldOK
  <1> QED
    BY <1>1, <1>6, <1>7, <1>11

\* The uses of a session that has none: nothing posted either
LEMMA NoUses ==
    ASSUME NEW w, NEW g, DOMAIN g = Threads, WorldOK(w, g), NEW s \in Objects,
           w.ses[s].life # "live"
    PROVE  /\ HandlerUses(w, g, s) = 0 /\ FinalUses(w, g, s) = 0 /\ ~w.ses[s].freePosted
           /\ ~In(w, s) /\ ~Timed(w.ses[s]) /\ \A k \in Keys : w.mgr.mSession[k] # s
  <1>1. SessionOK(w, g, s) /\ ~In(w, s)
    BY DEF WorldOK, In
  <1>2. HandlerUses(w, g, s) = 0 /\ FinalUses(w, g, s) = 0 /\ ~Timed(w.ses[s])
    BY <1>1 DEF SessionOK, Timed
  <1>3. Count(w.tasks, FinalTasks(s)) \in Nat /\ Count(g, {<<"final", s>>}) \in Nat
    <2>1. w.tasks \in Seq(Tasks)
      BY DEF WorldOK, WorldTyped
    <2>2. Count(g, {<<"final", s>>}) \in Nat
      BY GripsFinite
    <2> QED
      BY <2>1, <2>2, CountSeqType
  <1>4. Flag(w.ses[s].freePosted) = 0
    <2>1. Flag(w.ses[s].freePosted) \in Nat
      BY DEF Flag
    <2> QED
      BY <1>2, <1>3, <2>1 DEF FinalUses
  <1>5. ~w.ses[s].freePosted
    BY <1>1, <1>4 DEF Flag, SessionOK
  <1> QED
    BY <1>1, <1>2, <1>5 DEF WorldOK, TableMaps

\* The session s gets a key of the table.
Enters(w, v, s) ==
    /\ WorldTyped(v) /\ v.tasks = w.tasks
    /\ v.mgr = Put(AllocKey(w.mgr), AllocKeyOf(w.mgr), s) /\ v.ses[s].life = "live"
    /\ v.ses[s].mSid = [mKey |-> AllocKeyOf(w.mgr), mSeq |-> AllocSeqOf(w.mgr)]
    /\ v.ses[s].mRunning = FALSE /\ v.ses[s].freePosted = FALSE /\ ~Timed(v.ses[s])
    /\ \A t \in Objects : t # s => v.ses[t] = w.ses[t]

\* onAccept: a new session has a free entry of the table, its sid is current.
LEMMA EnterOne ==
    ASSUME NEW w, NEW g, DOMAIN g = Threads, WorldOK(w, g), NEW s \in Objects,
           w.ses[s].life = "unborn", AllocKeyOf(w.mgr) # 0, NEW v, Enters(w, v, s)
    PROVE  WorldOK(v, g) /\ ~In(w, s) /\ \A t \in Objects : In(v, t) <=> In(w, t) \/ t = s
  <1> USE DEF Enters
  <1> DEFINE key == AllocKeyOf(w.mgr)
             sid == v.ses[s].mSid
  <1>1. TableOK(w.mgr, Objects) /\ TableMaps(w) /\ SeqsOK(w) /\ \A t \in Objects : SessionOK(w, g, t)
    BY DEF WorldOK
  <1>2. NULL \notin Objects
    BY IocpAssumption DEF Objects
  <1>3. /\ TableOK(v.mgr, Objects) /\ key \in Keys
        /\ AllocSeqOf(w.mgr) = w.mgr.mSeq[key] /\ AllocSeqOf(w.mgr) \in Seqs
        /\ w.mgr.mSession[key] = NULL /\ v.mgr.mSession[key] = s
        /\ \A k \in Keys : k # key => v.mgr.mSession[k] = w.mgr.mSession[k]
        /\ v.mgr.mSeq = w.mgr.mSeq
    BY <1>1, <1>2, AllocPut
  <1> HIDE DEF key
  <1>4. sid.mKey = key /\ sid.mSeq = v.mgr.mSeq[key] /\ sid \in Sids
    <2>1. sid = [mKey |-> key, mSeq |-> AllocSeqOf(w.mgr)]
      BY DEF key
    <2> HIDE DEF sid
    <2> QED
      BY <1>3, <2>1 DEF Sids
  <1>5. /\ HandlerUses(w, g, s) = 0 /\ FinalUses(w, g, s) = 0 /\ ~w.ses[s].freePosted
        /\ ~In(w, s) /\ \A k \in Keys : w.mgr.mSession[k] # s
    BY NoUses
  <1>6. In(v, s)
    BY <1>3, <1>4 DEF In
  <1>7. ASSUME NEW t \in Objects, t # s
        PROVE  v.ses[t] = w.ses[t] /\ (In(v, t) <=> In(w, t))
    <2>1. v.ses[t] = w.ses[t] /\ t # NULL
      BY <1>2, <1>7
    <2>2. w.ses[t].life = "live" => w.ses[t].mSid.mKey \in Keys
      BY <1>1 DEF SessionOK, Sids
    <2> QED
      BY <1>3, <1>7, <2>1, <2>2 DEF In
  <1>8. TableMaps(v)
    <2> SUFFICES ASSUME NEW x \in Keys, NEW t \in Objects, v.mgr.mSession[x] = t
                 PROVE  v.ses[t].life = "live" /\ v.ses[t].mSid.mKey = x
      BY DEF TableMaps
    <2>1. CASE t = s
      BY <1>3, <1>4, <1>5, <2>1
    <2>2. CASE t # s
      <3>1. w.mgr.mSession[x] = t
        BY <1>3, <2>2
      <3> QED
        BY <1>1, <1>7, <2>2, <3>1 DEF TableMaps
    <2> QED
      BY <2>1, <2>2
  <1>9. SeqsOK(v)
    <2>1. Gone(v) = Gone(w)
      BY <1>6, <1>7 DEF Gone
    <2>2. \A t \in Gone(w) : v.ses[t] = w.ses[t]
      BY <1>7 DEF Gone
    <2> QED
      BY <1>1, <1>3, <2>1, <2>2 DEF SeqsOK
  <1>10. ASSUME NEW t \in Objects
         PROVE  SessionOK(v, g, t)
    <2>1. HandlerUses(v, g, t) = HandlerUses(w, g, t)
      BY DEF HandlerUses
    <2>2. CASE t # s
      <3>1. FinalUses(v, g, t) = FinalUses(w, g, t)
        BY <1>7, <2>2 DEF FinalUses
      <3> QED
        BY <1>1, <1>3, <1>7, <2>1, <2>2, <3>1, OtherSession
    <2>3. CASE t = s
      <3>1. FinalUses(v, g, s) = FinalUses(w, g, s)
        BY <1>5 DEF FinalUses, Flag
      <3>2. HandlerUses(v, g, s) = 0 /\ FinalUses(v, g, s) = 0
        BY <1>5, <2>1, <2>3, <3>1
      <3>3. sid \in AnySid
        BY <1>4 DEF AnySid
      <3> QED
        BY <1>4, <1>6, <2>3, <3>2, <3>3 DEF SessionOK, Timed
    <2> QED
      BY <2>2, <2>3
  <1> QED
    BY <1>3, <1>5, <1>6, <1>7, <1>8, <1>9, <1>10 DEF WorldOK

\* The session s had a key, which is given back.
Returns(w, v, s) ==
    /\ WorldTyped(v) /\ v.tasks = w.tasks
    /\ v.mgr = Remove(AllocKey(w.mgr), AllocKeyOf(w.mgr)) /\ v.ses[s].life = "deleted"
    /\ v.ses[s].mSid = w.ses[s].mSid /\ v.ses[s].mRunning = w.ses[s].mRunning
    /\ v.ses[s].freePosted = w.ses[s].freePosted /\ (Timed(v.ses[s]) <=> Timed(w.ses[s]))
    /\ \A t \in Objects : t # s => v.ses[t] = w.ses[t]

\* onAccept when the socket cannot be added to the port: the object is deleted.
LEMMA EnterFails ==
    ASSUME NEW w, NEW g, DOMAIN g = Threads, WorldOK(w, g), NEW s \in Objects,
           w.ses[s].life = "unborn", AllocKeyOf(w.mgr) # 0, NEW v, Returns(w, v, s)
    PROVE  WorldOK(v, g) /\ \A t \in Objects : In(v, t) <=> In(w, t)
  <1> USE DEF Returns
  <1> DEFINE key == AllocKeyOf(w.mgr)
  <1>1. TableOK(w.mgr, Objects) /\ TableMaps(w) /\ SeqsOK(w) /\ \A t \in Objects : SessionOK(w, g, t)
    BY DEF WorldOK
  <1>2. NULL \notin Objects
    BY IocpAssumption DEF Objects
  <1>3. /\ TableOK(v.mgr, Objects) /\ key \in Keys
        /\ \A k \in Keys :
              /\ v.mgr.mSession[k] = w.mgr.mSession[k]
              /\ v.mgr.mSeq[k] = IF k = key THEN NextSeq(w.mgr.mSeq[key]) ELSE w.mgr.mSeq[k]
        /\ w.mgr.mSession[key] = NULL
    BY <1>1, <1>2, AllocRemove, AllocPut
  <1> HIDE DEF key
  <1>4. /\ HandlerUses(w, g, s) = 0 /\ FinalUses(w, g, s) = 0 /\ ~w.ses[s].freePosted
        /\ ~In(w, s) /\ ~Timed(w.ses[s]) /\ \A k \in Keys : w.mgr.mSession[k] # s
    BY NoUses
  <1>5. ~In(v, s)
    BY DEF In
  <1>6. ASSUME NEW t \in Objects, t # s
        PROVE  /\ v.ses[t] = w.ses[t] /\ (In(v, t) <=> In(w, t))
               /\ In(w, t) => v.mgr.mSeq[w.ses[t].mSid.mKey] = w.mgr.mSeq[w.ses[t].mSid.mKey]
    <2>1. v.ses[t] = w.ses[t] /\ t # NULL
      BY <1>2, <1>6
    <2>2. w.ses[t].life = "live" => w.ses[t].mSid.mKey \in Keys
      BY <1>1 DEF SessionOK, Sids
    <2> QED
      BY <1>3, <1>6, <2>1, <2>2 DEF In
  <1>7. TableMaps(v)
    <2> SUFFICES ASSUME NEW x \in Keys, NEW t \in Objects, v.mgr.mSession[x] = t
                 PROVE  v.ses[t].life = "live" /\ v.ses[t].mSid.mKey = x
      BY DEF TableMaps
    <2>1. w.mgr.mSession[x] = t /\ t # s
      BY <1>3, <1>4
    <2> QED
      BY <1>1, <1>6, <2>1 DEF TableMaps
  <1>8. SeqsOK(v)
    <2>1. Gone(v) = Gone(w) \cup {s} /\ s \notin Gone(w)
      BY <1>5, <1>6 DEF Gone
    <2>2. w.mgr.mSeq \in [Keys -> Seqs]
      BY <1>1 DEF TableOK, Table
    <2>3. \A t \in Gone(w) : v.ses[t].mSid = w.ses[t].mSid
      BY <1>6 DEF Gone
    <2>4. v.ses[s].mSid \notin Sids
      <3>1. v.ses[s].mSid = NoSid
        BY <1>1 DEF SessionOK
      <3>2. 0 \notin Keys
        BY KeyHasRow
      <3> QED
        BY <3>1, <3>2 DEF Sids, NoSid
    <2> QED
      BY <1>1, <1>3, <2>1, <2>2, <2>3, <2>4, SeqsAdvance
  <1>9. ASSUME NEW t \in Objects
        PROVE  SessionOK(v, g, t)
    <2>1. HandlerUses(v, g, t) = HandlerUses(w, g, t)
      BY DEF HandlerUses
    <2>2. CASE t # s
      <3>1. FinalUses(v, g, t) = FinalUses(w, g, t)
        BY <1>6, <2>2 DEF FinalUses
      <3> QED
        BY <1>1, <1>6, <2>1, <2>2, <3>1, OtherSession
    <2>3. CASE t = s
      <3>1. FinalUses(v, g, s) = FinalUses(w, g, s)
        BY DEF FinalUses
      <3>2. HandlerUses(v, g, s) = 0 /\ FinalUses(v, g, s) = 0 /\ ~Timed(v.ses[s])
        BY <1>4, <2>1, <2>3, <3>1
      <3>3. SessionOK(w, g, s)
        BY <1>1
      <3> QED
        BY <1>5, <2>3, <3>2, <3>3 DEF SessionOK, Timed
    <2> QED
      BY <2>2, <2>3
  <1> QED
    BY <1>3, <1>4, <1>5, <1>6, <1>7, <1>8, <1>9 DEF WorldOK

\* The object of the session s is deleted.
Frees(w, v, s) ==
    /\ WorldTyped(v) /\ v.tasks = w.tasks /\ v.mgr = w.mgr /\ v.ses[s].life = "deleted"
    /\ v.ses[s].mSid = w.ses[s].mSid /\ v.ses[s].mRunning = FALSE
    /\ v.ses[s].freePosted = FALSE /\ (Timed(v.ses[s]) <=> Timed(w.ses[s]))
    /\ \A t \in Objects : t # s => v.ses[t] = w.ses[t]

\* eKeyFree: the session was outside the table.
LEMMA FreeOne ==
    ASSUME NEW w, NEW g, DOMAIN g = Threads, WorldOK(w, g), NEW s \in Objects,
           w.ses[s].freePosted, NEW v, Frees(w, v, s)
    PROVE  WorldOK(v, g) /\ ~In(w, s) /\ \A t \in Objects : In(v, t) <=> In(w, t)
  <1> USE DEF Frees
  <1>1. TableOK(w.mgr, Objects) /\ TableMaps(w) /\ SeqsOK(w) /\ \A t \in Objects : SessionOK(w, g, t)
    BY DEF WorldOK
  <1>2. Count(w.tasks, FinalTasks(s)) \in Nat /\ Count(g, {<<"final", s>>}) \in Nat
    <2>1. w.tasks \in Seq(Tasks)
      BY DEF WorldOK, WorldTyped
    <2>2. Count(g, {<<"final", s>>}) \in Nat
      BY GripsFinite
    <2> QED
      BY <2>1, <2>2, CountSeqType
  <1>3. SessionOK(w, g, s) /\ w.ses[s].freePosted = TRUE
    BY <1>1 DEF SessionOK
  <1>4. FinalUses(w, g, s) = Count(w.tasks, FinalTasks(s)) + Count(g, {<<"final", s>>}) + 1
    BY <1>3 DEF FinalUses, Flag
  <1>5. FinalUses(w, g, s) = 1 /\ w.ses[s].life = "live" /\ ~In(w, s)
    BY <1>2, <1>3, <1>4 DEF SessionOK
  <1>6. FinalUses(v, g, s) = 0
    BY <1>2, <1>4, <1>5 DEF FinalUses, Flag
  <1>7. HandlerUses(v, g, s) = 0 /\ ~Timed(w.ses[s])
    <2>1. HandlerUses(v, g, s) = HandlerUses(w, g, s)
      BY DEF HandlerUses
    <2> QED
      BY <1>3, <1>5, <2>1 DEF SessionOK, Timed
  <1>8. ~In(v, s)
    BY DEF In
  <1>9. \A t \in Objects : In(v, t) <=> In(w, t)
    BY <1>5, <1>8 DEF In
  <1>10. TableMaps(v)
    BY <1>1, <1>5 DEF TableMaps, In
  <1>11. SeqsOK(v)
    <2>1. Gone(v) = Gone(w)
      BY <1>5, <1>9 DEF Gone
    <2>2. \A t \in Gone(w) : v.ses[t].mSid = w.ses[t].mSid
      BY DEF Gone
    <2> QED
      BY <1>1, <2>1, <2>2 DEF SeqsOK
  <1>12. ASSUME NEW t \in Objects
         PROVE  SessionOK(v, g, t)
    <2>1. CASE t # s
      <3>1. v.ses[t] = w.ses[t]
        BY <2>1
      <3>2. HandlerUses(v, g, t) = HandlerUses(w, g, t) /\ FinalUses(v, g, t) = FinalUses(w, g, t)
        BY <3>1 DEF HandlerUses, FinalUses
      <3> QED
        BY <1>1, <1>9, <3>1, <3>2, OtherSession
    <2>2. CASE t = s
      BY <1>3, <1>6, <1>7, <1>8, <2>2 DEF SessionOK, Timed
    <2> QED
      BY <2>1, <2>2
  <1> QED
    BY <1>1, <1>5, <1>9, <1>10, <1>11, <1>12 DEF WorldOK

-----------------------------------------------------------------------------
(* The operations of the callbacks that keep a session in the table *)

\* What a session of the world is
LEMMA SessionIn ==
    ASSUME NEW w, NEW g, WorldOK(w, g), NEW s \in Objects
    PROVE  WorldTyped(w) /\ IsSession(w.ses[s]) /\ SessionOK(w, g, s) /\ DOMAIN w.ses = Objects
  BY DEF WorldOK, WorldTyped

\* doWork and doStart: the session is marked running and gets a task.
LEMMA MarkRunning ==
    ASSUME NEW w, NEW g, DOMAIN g = Threads, WorldOK(w, g), NEW s \in Objects, In(w, s),
           ~w.ses[s].mRunning, NEW k \in HandlerKinds,
           NEW v, v = AddTask([w EXCEPT !.ses[s].mRunning = TRUE], k, s)
    PROVE  WorldOK(v, g) /\ Calm(w, v)
  <1>1. PICK r : r = w.ses[s]
    OBVIOUS
  <1>2. PICK q : q = [r EXCEPT !.mRunning = TRUE]
    OBVIOUS
  <1>3. PICK u : u = [w EXCEPT !.ses[s] = q]
    OBVIOUS
  <1>4. IsSession(r) /\ WorldTyped(w)
    BY <1>1, SessionIn
  <1>5. /\ IsSession(q) /\ q.life = r.life /\ q.mSid = r.mSid /\ q.freePosted = r.freePosted
        /\ q.mRunning = TRUE /\ q.mOutList = r.mOutList
    BY <1>2, <1>4 DEF IsSession
  <1>6. Edited(w, u, s, q)
    BY <1>3, <1>4, <1>5, EditWorld
  <1>7. v = AddTask(u, k, s)
    BY <1>1, <1>2, <1>3
  <1>8. /\ WorldTyped(u) /\ u.mgr = w.mgr /\ u.tasks = w.tasks /\ u.msgs = w.msgs
        /\ u.ses[s] = q /\ \A t \in Objects : t # s => u.ses[t] = w.ses[t]
    BY <1>6 DEF Edited
  <1>9. Marks(w, u, s)
    BY <1>1, <1>5, <1>8 DEF Marks
  <1>10. WorldOK(v, g)
    BY <1>7, <1>9, DispatchOne
  <1>11. v.mgr = w.mgr /\ v.msgs = w.msgs /\ v.ses = u.ses
    <2>1. k \in HandlerKinds \cup FinalKinds
      OBVIOUS
    <2>2. /\ AddTask(u, k, s).mgr = u.mgr /\ AddTask(u, k, s).msgs = u.msgs
          /\ AddTask(u, k, s).ses = u.ses
      BY <1>8, <2>1, TaskWorld
    <2> QED
      BY <1>7, <1>8, <2>2
  <1>12. Calm(w, v)
    BY <1>1, <1>5, <1>8, <1>11 DEF Calm
  <1> QED
    BY <1>10, <1>12

LEMMA DoWorkKeeps ==
    ASSUME NEW w, NEW g, DOMAIN g = Threads, WorldOK(w, g), NEW s \in Objects, In(w, s),
           ~w.ses[s].mRunning
    PROVE  WorldOK(DoWork(w, s), g) /\ Calm(w, DoWork(w, s))
  <1>1. CASE w.ses[s].mStatus = "eNormal"
    <2>1. DoWork(w, s) = AddTask([w EXCEPT !.ses[s].mRunning = TRUE], "worker", s)
      BY <1>1 DEF DoWork
    <2>2. "worker" \in HandlerKinds
      BY DEF HandlerKinds
    <2> QED
      BY <2>1, <2>2, MarkRunning
  <1>2. CASE w.ses[s].mStatus # "eNormal"
    <2>1. PICK r : r = w.ses[s]
      OBVIOUS
    <2>2. PICK q : q = [r EXCEPT !.mInBuffer = 0]
      OBVIOUS
    <2>3. DoWork(w, s) = [w EXCEPT !.ses[s] = q]
      BY <1>2, <2>1, <2>2 DEF DoWork
    <2>4. IsSession(r)
      BY <2>1, SessionIn
    <2>5. Touches(w, s, q)
      BY <2>1, <2>2, <2>4 DEF Touches, IsSession, Steady, Timed
    <2> QED
      BY <2>3, <2>5, TouchOne
  <1> QED
    BY <1>1, <1>2

LEMMA DoDecodeForWorkKeeps ==
    ASSUME NEW w, NEW g, DOMAIN g = Threads, WorldOK(w, g), NEW s \in Objects, In(w, s),
           ~w.ses[s].mRunning
    PROVE  WorldOK(DoDecodeForWork(w, s), g) /\ Calm(w, DoDecodeForWork(w, s))
  <1>1. CASE w.ses[s].mInBuffer = 0
    BY <1>1, CalmSelf DEF DoDecodeForWork
  <1>2. CASE w.ses[s].mInBuffer # 0
    <2>1. PICK r : r = w.ses[s]
      OBVIOUS
    <2>2. PICK q : q = [r EXCEPT !.mInBuffer = r.mInBuffer - 1]
      OBVIOUS
    <2>3. PICK v : v = [w EXCEPT !.ses[s] = q]
      OBVIOUS
    <2>4. DoDecodeForWork(w, s) = DoWork(v, s)
      BY <1>2, <2>1, <2>2, <2>3 DEF DoDecodeForWork
    <2>5. IsSession(r)
      BY <2>1, SessionIn
    <2>6. Touches(w, s, q)
      BY <2>1, <2>2, <2>5 DEF Touches, IsSession, Steady, Timed
    <2>7. WorldOK(v, g) /\ Calm(w, v) /\ v.ses[s].mRunning = w.ses[s].mRunning
      BY <2>3, <2>6, TouchOne
    <2>8. In(v, s)
      BY <2>7, CalmIn
    <2>9. WorldOK(DoWork(v, s), g) /\ Calm(v, DoWork(v, s))
      BY <2>7, <2>8, DoWorkKeeps
    <2> QED
      BY <2>4, <2>7, <2>9, CalmTwice
  <1> QED
    BY <1>1, <1>2

LEMMA DecodeIfIdleKeeps ==
    ASSUME NEW w, NEW g, DOMAIN g = Threads, WorldOK(w, g), NEW s \in Objects, In(w, s)
    PROVE  WorldOK(DecodeIfIdle(w, s), g) /\ Calm(w, DecodeIfIdle(w, s))
  BY DoDecodeForWorkKeeps, CalmSelf DEF DecodeIfIdle

\* addRecv and addSend post I/O for a session and start its timer.
LEMMA AddRecvKeeps ==
    ASSUME NEW w, NEW g, WorldOK(w, g), NEW s \in Objects, In(w, s), NEW bad
    PROVE  WorldOK(AddRecv(w, s, bad), g) /\ Calm(w, AddRecv(w, s, bad))
  <1>1. CASE ~NeedsRecv(w.ses[s]) \/ s \in bad
    BY <1>1, CalmSelf DEF AddRecv
  <1>2. CASE ~(~NeedsRecv(w.ses[s]) \/ s \in bad)
    <2>1. PICK r : r = w.ses[s]
      OBVIOUS
    <2>2. PICK q : q = [r EXCEPT !.mReading = TRUE, !.recvIO = TRUE, !.recvTimer = TRUE]
      OBVIOUS
    <2>3. PICK v : v = [w EXCEPT !.ses[s] = q]
      OBVIOUS
    <2>4. AddRecv(w, s, bad) = v
      BY <1>2, <2>1, <2>2, <2>3 DEF AddRecv
    <2>5. IsSession(r)
      BY <2>1, SessionIn
    <2>6. Touches(w, s, q)
      BY <2>1, <2>2, <2>5 DEF Touches, IsSession, Steady
    <2>7. WorldOK(v, g) /\ Calm(w, v)
      BY <2>3, <2>6, TouchOne
    <2> QED
      BY <2>4, <2>7
  <1> QED
    BY <1>1, <1>2

LEMMA AddSendKeeps ==
    ASSUME NEW w, NEW g, DOMAIN g = Threads, WorldOK(w, g), NEW s \in Objects, In(w, s), NEW bad
    PROVE  WorldOK(AddSend(w, s, bad), g) /\ Calm(w, AddSend(w, s, bad))
  <1>1. PICK u : u = DecodeIfIdle(w, s)
    OBVIOUS
  <1>2. WorldOK(u, g) /\ Calm(w, u) /\ In(u, s)
    BY <1>1, DecodeIfIdleKeeps, CalmIn
  <1>3. CASE u.ses[s].mWriting \/ s \in bad
    BY <1>1, <1>2, <1>3 DEF AddSend
  <1>4. CASE ~(u.ses[s].mWriting \/ s \in bad)
    <2>1. PICK r : r = u.ses[s]
      OBVIOUS
    <2>2. PICK q : q = [r EXCEPT !.mWriting = TRUE, !.sendIO = TRUE, !.sendTimer = TRUE]
      OBVIOUS
    <2>3. PICK v : v = [u EXCEPT !.ses[s] = q]
      OBVIOUS
    <2>4. AddSend(w, s, bad) = v
      BY <1>1, <1>4, <2>1, <2>2, <2>3 DEF AddSend
    <2>5. IsSession(r)
      BY <1>2, <2>1, SessionIn
    <2>6. Touches(u, s, q)
      BY <1>2, <2>1, <2>2, <2>5 DEF Touches, IsSession, Steady
    <2>7. WorldOK(v, g) /\ Calm(u, v)
      BY <1>2, <2>3, <2>6, TouchOne
    <2> QED
      BY <1>2, <2>4, <2>7, CalmTwice
  <1> QED
    BY <1>3, <1>4

-----------------------------------------------------------------------------
(* The operations that take a session out of the table *)

\* The rest of the world when s was given up: its messages are those of u.
Left(w, u, v, s) ==
    /\ \A t \in Objects : In(v, t) <=> In(w, t) /\ t # s
    /\ v.msgs = u.msgs
    /\ \A t \in Objects : /\ v.ses[t].life = w.ses[t].life /\ v.ses[t].mSid = w.ses[t].mSid
                          /\ t # s => v.ses[t] = w.ses[t]

LEMMA GiveUpOne ==
    ASSUME NEW w, NEW g, DOMAIN g = Threads, WorldOK(w, g), NEW s \in Objects, In(w, s),
           ~w.ses[s].mRunning, NEW k \in FinalKinds, NEW u, WorldTyped(u), u.mgr = w.mgr,
           u.tasks = w.tasks, Steady(w.ses[s], u.ses[s]),
           \A t \in Objects : t # s => u.ses[t] = w.ses[t]
    PROVE  /\ WorldOK(AddTask(GivenUp(u, s), k, s), g)
           /\ Left(w, u, AddTask(GivenUp(u, s), k, s), s)
  <1>1. PICK r : r = u.ses[s]
    OBVIOUS
  <1>2. PICK q : q = [r EXCEPT !.mRunning = TRUE, !.recvTimer = FALSE, !.sendTimer = FALSE]
    OBVIOUS
  <1>3. PICK x : x = [u EXCEPT !.ses[s] = q]
    OBVIOUS
  <1>4. PICK y : y = GivenUp(u, s)
    OBVIOUS
  <1>5. IsSession(r)
    BY <1>1 DEF WorldTyped
  <1>6. /\ IsSession(q) /\ q.life = r.life /\ q.mSid = r.mSid /\ q.freePosted = r.freePosted
        /\ q.mRunning = TRUE /\ ~Timed(q)
    BY <1>2, <1>5 DEF IsSession, Timed
  <1>7. Edited(u, x, s, q)
    BY <1>3, <1>6, EditWorld
  <1>8. /\ WorldTyped(x) /\ x.mgr = u.mgr /\ x.msgs = u.msgs /\ x.tasks = u.tasks
        /\ x.ses[s] = q /\ \A t \in Objects : t # s => x.ses[t] = u.ses[t]
    BY <1>7 DEF Edited
  <1>9. y = [x EXCEPT !.mgr = Remove(w.mgr, w.ses[s].mSid.mKey)]
    <2>1. u.ses[s].mSid = w.ses[s].mSid
      BY DEF Steady
    <2>2. y = [x EXCEPT !.mgr = Remove(@, u.ses[s].mSid.mKey)]
      BY <1>1, <1>2, <1>3, <1>4 DEF GivenUp
    <2> QED
      BY <1>8, <2>1, <2>2
  <1>10. /\ WorldTyped(y) /\ y.mgr = Remove(w.mgr, w.ses[s].mSid.mKey) /\ y.ses = x.ses
         /\ y.msgs = u.msgs /\ y.tasks = w.tasks
    <2>1. x = [mgr |-> x.mgr, ses |-> x.ses, msgs |-> x.msgs, tasks |-> x.tasks]
      BY <1>8 DEF WorldTyped
    <2>2. y = [mgr |-> Remove(w.mgr, w.ses[s].mSid.mKey), ses |-> x.ses, msgs |-> x.msgs,
               tasks |-> x.tasks]
      BY <1>9, <2>1
    <2>3. /\ y.mgr = Remove(w.mgr, w.ses[s].mSid.mKey) /\ y.ses = x.ses
          /\ y.msgs = x.msgs /\ y.tasks = x.tasks
      BY <2>2
    <2>4. WorldTyped(y)
      BY <1>8, <2>2, <2>3 DEF WorldTyped
    <2> QED
      BY <1>8, <2>3, <2>4
  <1>11. GivesUp(w, y, s)
    <2>1. u.ses[s].life = w.ses[s].life /\ u.ses[s].mSid = w.ses[s].mSid
          /\ u.ses[s].freePosted = w.ses[s].freePosted
      BY DEF Steady
    <2> QED
      BY <1>1, <1>6, <1>8, <1>10, <2>1 DEF GivesUp
  <1>12. /\ WorldOK(AddTask(y, k, s), g)
         /\ \A t \in Objects : In(AddTask(y, k, s), t) <=> In(w, t) /\ t # s
    BY <1>11, LeaveOne
  <1>13. AddTask(y, k, s).msgs = y.msgs /\ AddTask(y, k, s).ses = y.ses
    <2>1. k \in HandlerKinds \cup FinalKinds
      OBVIOUS
    <2> QED
      BY <1>10, <2>1, TaskWorld
  <1>14. Left(w, u, AddTask(y, k, s), s)
    BY <1>10, <1>11, <1>12, <1>13 DEF Left, GivesUp
  <1> QED
    BY <1>4, <1>12, <1>14

\* The messages D of the outList of s have failed or were sent: their toLists
\* lose the sid of s.  If s is still in the table it keeps the others.
Cuts(w, v, s, D) ==
    /\ \A t \in Objects : /\ In(v, t) => In(w, t)
                          /\ v.ses[t].life = w.ses[t].life /\ v.ses[t].mSid = w.ses[t].mSid
                          /\ t # s => v.ses[t].mOutList = w.ses[t].mOutList
    /\ In(v, s) => /\ v.ses[s].mOutList \in Seq(Msgs) /\ Injective(v.ses[s].mOutList)
                   /\ \A m \in Msgs : Holds(v.ses[s].mOutList, m) =>
                         Holds(w.ses[s].mOutList, m) /\ m \notin D
    /\ \A m \in D : Holds(w.ses[s].mOutList, m)
    /\ \A m \in Msgs : v.msgs[m] = IF m \in D THEN Failed(w.msgs[m], w.ses[s].mSid) ELSE w.msgs[m]

LEMMA MsgsParts ==
    /\ \A m \in HandlerMsgs : m \in Msgs
    /\ \A s \in Objects : RefusedMsg(s) \in Msgs /\ RefusedMsg(s) \notin HandlerMsgs /\ RefusedMsg(s) # 0
    /\ \A m \in Msgs : m \in HandlerMsgs \/ \E s \in Objects : m = RefusedMsg(s)
    /\ 0 \notin Msgs
    /\ \A s, t \in Objects : RefusedMsg(s) = RefusedMsg(t) => s = t
  <1>1. MaxMsgs \in Nat /\ MaxSessions \in Nat
    BY IocpAssumption
  <1>2. ASSUME NEW m \in Msgs
        PROVE  m \in HandlerMsgs \/ \E s \in Objects : m = RefusedMsg(s)
    <2>1. CASE m <= MaxMsgs
      BY <1>1, <2>1 DEF HandlerMsgs, Msgs
    <2>2. CASE m > MaxMsgs
      <3>1. m - MaxMsgs \in Objects /\ m = RefusedMsg(m - MaxMsgs)
        BY <1>1, <2>2 DEF Objects, Msgs, RefusedMsg
      <3> QED
        BY <3>1
    <2> QED
      BY <1>1, <2>1, <2>2 DEF Msgs
  <1> QED
    BY <1>1, <1>2 DEF HandlerMsgs, Msgs, RefusedMsg, Objects

\* A sid leaves the toList of a message.
LEMMA FailedIs ==
    ASSUME NEW x, IsMessage(x), NEW sid
    PROVE  /\ Failed(x, sid).to = x.to \ {sid} /\ Failed(x, sid).made = x.made
           /\ x.to \subseteq {sid} => Failed(x, sid).completions = x.completions + 1
           /\ ~(x.to \subseteq {sid}) => Failed(x, sid).completions = x.completions
           /\ IsMessage(Failed(x, sid))
  <1>1. PICK n : n = IF x.to \subseteq {sid} THEN x.completions + 1 ELSE x.completions
    OBVIOUS
  <1>2. PICK y : y = [x EXCEPT !.to = x.to \ {sid}, !.completions = n]
    OBVIOUS
  <1>3. Failed(x, sid) = y
    BY <1>1, <1>2 DEF Failed
  <1>4. y = [made |-> x.made, to |-> x.to \ {sid}, completions |-> n]
    BY <1>2 DEF IsMessage
  <1> QED
    BY <1>1, <1>3, <1>4 DEF IsMessage

\* transmit(), and doError and doTimeout, of a session whose messages are not
\* being handed out.
LEMMA SettleMail ==
    ASSUME NEW w, NEW v, NEW f, NEW l, MailOK(w, f, l), NEW s \in Objects, In(w, s),
           \A m \in Msgs : IsMessage(w.msgs[m]),
           NEW D, Cuts(w, v, s, D), \A m \in D : ~AtMessage(l, m)
    PROVE  MailOK(v, f, l)
  <1> DEFINE sid == w.ses[s].mSid
  <1>1. \A t \in Objects : t # s /\ In(v, t) => w.ses[t].mSid # sid
    BY InSidApart DEF Cuts
  <1>2. ASSUME NEW m \in HandlerMsgs
        PROVE  MessageOK(v, f, l, m)
    <2>1. MessageOK(w, f, l, m) /\ m \in Msgs /\ IsMessage(w.msgs[m])
      BY MsgsParts DEF MailOK
    <2>2. CASE m \in D
      <3>1. Holds(w.ses[s].mOutList, m) /\ ~AtMessage(l, m) /\ sid \in w.msgs[m].to \ Pending(w, f, l, m)
        BY <2>1, <2>2 DEF Cuts, MessageOK
      <3>2. f[m] = 0
        BY <3>1 DEF Pending
      <3>3. w.msgs[m].completions = 0 /\ w.msgs[m].made
        BY <2>1, <3>1 DEF MessageOK
      <3>4. v.msgs[m] = Failed(w.msgs[m], sid)
        BY <2>1, <2>2 DEF Cuts
      <3>5. /\ v.msgs[m].to = w.msgs[m].to \ {sid} /\ v.msgs[m].made = w.msgs[m].made
            /\ v.msgs[m].completions = IF w.msgs[m].to \subseteq {sid} THEN 1 ELSE 0
        <4> HIDE DEF sid
        <4>1. PICK x : x = w.msgs[m]
          OBVIOUS
        <4>2. IsMessage(x) /\ v.msgs[m] = Failed(x, sid) /\ x.completions = 0
          BY <2>1, <3>3, <3>4, <4>1
        <4>3. /\ v.msgs[m].to = x.to \ {sid} /\ v.msgs[m].made = x.made
              /\ x.to \subseteq {sid} => v.msgs[m].completions = 0 + 1
              /\ ~(x.to \subseteq {sid}) => v.msgs[m].completions = 0
          BY <4>2, FailedIs
        <4> QED
          BY <4>1, <4>3
      <3>6. Pending(v, f, l, m) = {} /\ Pending(w, f, l, m) = {}
        BY <3>1, <3>2 DEF Pending
      <3>7. ASSUME NEW t \in Objects, In(v, t), Holds(v.ses[t].mOutList, m)
            PROVE  v.ses[t].mSid \in v.msgs[m].to
        <4>1. t # s
          BY <2>1, <2>2, <3>7 DEF Cuts
        <4>2. In(w, t) /\ Holds(w.ses[t].mOutList, m) /\ v.ses[t].mSid = w.ses[t].mSid
          BY <3>7, <4>1 DEF Cuts
        <4>3. w.ses[t].mSid \in w.msgs[m].to /\ w.ses[t].mSid # sid
          BY <1>1, <2>1, <3>7, <4>1, <4>2 DEF MessageOK
        <4> QED
          BY <3>5, <4>2, <4>3
      <3> HIDE DEF sid
      <3>8. f[m] + Flag(AtMessage(l, m)) \in {0, 1} /\ w.msgs[m].to \subseteq AnySid
        BY <2>1 DEF MessageOK
      <3>9. v.msgs[m].to \subseteq AnySid /\ v.msgs[m].made
        BY <3>3, <3>5, <3>8
      <3>10. /\ v.msgs[m].completions \in {0, 1}
             /\ v.msgs[m].completions = 1 => v.msgs[m].to = {}
        BY <3>5
      <3> QED
        BY <3>1, <3>2, <3>6, <3>7, <3>8, <3>9, <3>10 DEF MessageOK
    <2>3. CASE m \notin D
      <3>1. v.msgs[m] = w.msgs[m]
        BY <2>1, <2>3 DEF Cuts
      <3>2. Pending(v, f, l, m) = Pending(w, f, l, m)
        BY <3>1 DEF Pending
      <3>3. ASSUME NEW t \in Objects, In(v, t), Holds(v.ses[t].mOutList, m)
            PROVE  v.ses[t].mSid \in v.msgs[m].to \ Pending(v, f, l, m)
        <4>1. In(w, t) /\ v.ses[t].mSid = w.ses[t].mSid /\ Holds(w.ses[t].mOutList, m)
          BY <2>1, <3>3 DEF Cuts
        <4> QED
          BY <2>1, <3>1, <3>2, <4>1 DEF MessageOK
      <3> QED
        BY <2>1, <3>1, <3>2, <3>3 DEF MessageOK
    <2> QED
      BY <2>2, <2>3
  <1>3. ASSUME NEW x \in Objects
        PROVE  RefusalOK(v, x)
    <2>1. PICK m \in Msgs : m = RefusedMsg(x)
      BY MsgsParts
    <2>2. RefusalOK(w, x) /\ IsMessage(w.msgs[m])
      BY DEF MailOK
    <2>3. ASSUME NEW t \in Objects, In(v, t), Holds(v.ses[t].mOutList, m)
          PROVE  t = x /\ w.msgs[m].completions = 0 /\ m \notin D
      <3>1. In(w, t) /\ Holds(w.ses[t].mOutList, m) /\ (t = s => m \notin D)
        BY <2>3 DEF Cuts
      <3>2. t = x /\ w.msgs[m].completions = 0
        BY <2>1, <2>2, <3>1 DEF RefusalOK
      <3>3. m \in D => s = x
        BY <2>1, <2>2 DEF Cuts, RefusalOK
      <3> QED
        BY <3>1, <3>2, <3>3
    <2>4. CASE m \in D
      <3>1. Holds(w.ses[s].mOutList, m)
        BY <2>4 DEF Cuts
      <3>2. s = x /\ w.msgs[m].completions = 0 /\ w.msgs[m].to = {}
        BY <2>1, <2>2, <3>1 DEF RefusalOK
      <3>3. v.msgs[m] = Failed(w.msgs[m], sid)
        BY <2>4 DEF Cuts
      <3>4. v.msgs[m].to = {} /\ v.msgs[m].completions = 1
        BY <2>2, <3>2, <3>3, FailedIs
      <3>5. v.ses[x].life # "unborn"
        BY <3>2 DEF Cuts, In
      <3> QED
        BY <2>1, <2>3, <2>4, <3>4, <3>5 DEF RefusalOK
    <2>5. CASE m \notin D
      <3>1. v.msgs[m] = w.msgs[m] /\ v.ses[x].life = w.ses[x].life
        BY <2>5 DEF Cuts
      <3> QED
        BY <2>1, <2>2, <2>3, <3>1 DEF RefusalOK
    <2> QED
      BY <2>4, <2>5
  <1>4. ASSUME NEW t \in Objects
        PROVE  OutListOK(v, t)
    <2>1. OutListOK(w, t)
      BY DEF MailOK
    <2> QED
      BY <2>1 DEF OutListOK, Cuts
  <1> QED
    BY <1>2, <1>3, <1>4 DEF MailOK

-----------------------------------------------------------------------------
(* The operations of the callbacks, as seen by sessions and messages *)

\* onResponse is not handing out a message that the session s has already.
NotHanded(w, l, s) == \A m \in Msgs : AtMessage(l, m) => ~Holds(w.ses[s].mOutList, m)

LEMMA CalmMail ==
    ASSUME NEW w, NEW v, NEW f, NEW l, MailOK(w, f, l), Calm(w, v)
    PROVE  MailOK(v, f, l)
  <1>1. \A t \in Objects : In(v, t) <=> In(w, t)
    BY CalmIn
  <1>2. \A m \in HandlerMsgs : Pending(v, f, l, m) = Pending(w, f, l, m)
    BY DEF Pending, Calm
  <1>3. \A m \in HandlerMsgs : MessageOK(v, f, l, m)
    BY <1>1, <1>2 DEF MessageOK, MailOK, Calm
  <1>4. \A s \in Objects : RefusalOK(v, s)
    BY <1>1 DEF RefusalOK, MailOK, Calm
  <1>5. \A s \in Objects : OutListOK(v, s)
    BY <1>1 DEF OutListOK, MailOK, Calm
  <1> QED
    BY <1>3, <1>4, <1>5 DEF MailOK

LEMMA CalmGood ==
    ASSUME NEW w, NEW g, NEW f, NEW l, Good(w, g, f, l), NEW v, WorldOK(v, g), Calm(w, v)
    PROVE  Good(v, g, f, l)
  BY CalmMail DEF Good

\* doClose leaves the messages where they are.
LEMMA DoCloseGood ==
    ASSUME NEW w, NEW g, NEW f, NEW l, Good(w, g, f, l), NEW s \in Objects, In(w, s),
           ~w.ses[s].mRunning
    PROVE  Good(DoClose(w, s), g, f, l) /\ Left(w, w, DoClose(w, s), s)
  <1>1. WorldTyped(w) /\ \A m \in Msgs : IsMessage(w.msgs[m])
    BY DEF Good, WorldOK, WorldTyped
  <1>2. "close" \in FinalKinds /\ Steady(w.ses[s], w.ses[s])
    BY DEF FinalKinds, Steady
  <1>3. WorldOK(DoClose(w, s), g) /\ Left(w, w, DoClose(w, s), s)
    BY <1>1, <1>2, GiveUpOne DEF DoClose, Good
  <1>4. MailOK(w, f, l)
    BY DEF Good
  <1>5. MailOK(DoClose(w, s), f, l)
    <2>1. PICK D : D = {}
      OBVIOUS
    <2>2. Cuts(w, DoClose(w, s), s, D)
      BY <1>3, <2>1 DEF Cuts, Left
    <2>3. \A m \in D : ~AtMessage(l, m)
      BY <2>1
    <2> QED
      BY <1>1, <1>4, <2>2, <2>3, SettleMail
  <1> QED
    BY <1>3, <1>5 DEF Good

\* The messages in the outList of a session of the table
LEMMA OutListHolds ==
    ASSUME NEW w, NEW f, NEW l, MailOK(w, f, l), NEW s \in Objects, In(w, s)
    PROVE  /\ w.ses[s].mOutList \in Seq(Msgs) /\ Injective(w.ses[s].mOutList)
           /\ \A m : m \in Range(w.ses[s].mOutList) <=> Holds(w.ses[s].mOutList, m)
           /\ \A m : Holds(w.ses[s].mOutList, m) => m \in Msgs
  <1>1. OutListOK(w, s)
    BY DEF MailOK
  <1>2. PICK q : q = w.ses[s].mOutList
    OBVIOUS
  <1>3. q \in Seq(Msgs) /\ Injective(q)
    BY <1>1, <1>2 DEF OutListOK
  <1>4. \A m : m \in Range(q) <=> Holds(q, m)
    BY DEF Range, Holds
  <1>5. \A i \in DOMAIN q : q[i] \in Msgs
    BY <1>3
  <1>6. \A m : Holds(q, m) => m \in Msgs
    BY <1>5 DEF Holds
  <1> QED
    BY <1>2, <1>3, <1>4, <1>6

\* doError and doTimeout
LEMMA FailsGood ==
    ASSUME NEW w, NEW g, NEW f, NEW l, Good(w, g, f, l), NEW s \in Objects, In(w, s),
           ~w.ses[s].mRunning, NotHanded(w, l, s), NEW k \in FinalKinds,
           NEW v, v = AddTask(GivenUp(FailOutList(w, s), s), k, s)
    PROVE  /\ Good(v, g, f, l)
           /\ \A m \in Msgs : ~Holds(w.ses[s].mOutList, m) => v.msgs[m] = w.msgs[m]
           /\ \A t \in Objects : In(v, t) <=> In(w, t) /\ t # s
  <1>1. WorldTyped(w) /\ WorldOK(w, g) /\ MailOK(w, f, l) /\ DOMAIN g = Threads
    BY DEF Good, WorldOK
  <1>2. PICK r : r = w.ses[s]
    OBVIOUS
  <1>3. PICK D : D = Range(r.mOutList)
    OBVIOUS
  <1>4. IsSession(r) /\ \A m : m \in D <=> Holds(r.mOutList, m)
    BY <1>1, <1>2, <1>3, OutListHolds, SessionIn
  <1>5. PICK q : q = [r EXCEPT !.mOutList = <<>>]
    OBVIOUS
  <1>6. PICK z : z = [m \in Msgs |-> IF m \in D THEN Failed(w.msgs[m], r.mSid) ELSE w.msgs[m]]
    OBVIOUS
  <1>7. PICK x : x = [w EXCEPT !.ses[s] = q]
    OBVIOUS
  <1>8. PICK u : u = [x EXCEPT !.msgs = z]
    OBVIOUS
  <1>9. IsSession(q) /\ Steady(r, q)
    BY <1>4, <1>5 DEF IsSession, Steady
  <1>10. Edited(w, x, s, q)
    BY <1>1, <1>7, <1>9, EditWorld
  <1>11. FailOutList(w, s) = u
    BY <1>2, <1>3, <1>5, <1>6, <1>7, <1>8 DEF FailOutList
  <1>12. /\ DOMAIN z = Msgs
         /\ \A m \in Msgs : z[m] = IF m \in D THEN Failed(w.msgs[m], r.mSid) ELSE w.msgs[m]
    BY <1>6
  <1>13. \A m \in Msgs : IsMessage(w.msgs[m])
    BY <1>1 DEF WorldTyped
  <1>14. \A m \in Msgs : IsMessage(z[m])
    BY <1>12, <1>13, FailedIs
  <1>15. /\ WorldTyped(u) /\ u.mgr = w.mgr /\ u.tasks = w.tasks /\ u.msgs = z /\ u.ses = x.ses
    <2>1. x = [mgr |-> x.mgr, ses |-> x.ses, msgs |-> x.msgs, tasks |-> x.tasks]
      BY <1>10 DEF Edited, WorldTyped
    <2>2. u = [mgr |-> x.mgr, ses |-> x.ses, msgs |-> z, tasks |-> x.tasks]
      BY <1>8, <2>1
    <2>3. u.mgr = x.mgr /\ u.ses = x.ses /\ u.msgs = z /\ u.tasks = x.tasks
      BY <2>2
    <2>4. WorldTyped(u)
      BY <1>10, <1>12, <1>14, <2>2, <2>3 DEF WorldTyped, Edited
    <2> QED
      BY <1>10, <2>3, <2>4 DEF Edited
  <1>16. Steady(w.ses[s], u.ses[s]) /\ \A t \in Objects : t # s => u.ses[t] = w.ses[t]
    BY <1>2, <1>9, <1>10, <1>15 DEF Edited
  <1>17. v = AddTask(GivenUp(u, s), k, s)
    BY <1>11
  <1>18. WorldOK(v, g) /\ Left(w, u, v, s)
    BY <1>1, <1>15, <1>16, <1>17, GiveUpOne
  <1>19. \A m \in Msgs : u.msgs[m] = IF m \in D THEN Failed(w.msgs[m], w.ses[s].mSid) ELSE w.msgs[m]
    BY <1>2, <1>12, <1>15
  <1>20. \A m \in D : Holds(w.ses[s].mOutList, m) /\ ~AtMessage(l, m)
    BY <1>1, <1>2, <1>4, OutListHolds DEF NotHanded
  <1>21. MailOK(v, f, l)
    <2>1. Cuts(w, v, s, D)
      BY <1>18, <1>19, <1>20 DEF Cuts, Left
    <2> QED
      BY <1>1, <1>13, <1>20, <2>1, SettleMail
  <1>22. \A m \in Msgs : ~Holds(w.ses[s].mOutList, m) => v.msgs[m] = w.msgs[m]
    BY <1>2, <1>4, <1>18, <1>19 DEF Left
  <1> QED
    BY <1>1, <1>18, <1>21, <1>22 DEF Good, Left

\* A session that is running only remembers the error.
LEMMA ErrorOrLaterGood ==
    ASSUME NEW w, NEW g, NEW f, NEW l, Good(w, g, f, l), NEW s \in Objects, In(w, s),
           NotHanded(w, l, s)
    PROVE  /\ Good(ErrorOrLater(w, s), g, f, l)
           /\ w.ses[s].mRunning => Calm(w, ErrorOrLater(w, s))
  <1>1. WorldOK(w, g)
    BY DEF Good
  <1>2. CASE w.ses[s].mRunning
    <2>1. PICK r : r = w.ses[s]
      OBVIOUS
    <2>2. PICK q : q = [r EXCEPT !.missed = TRUE]
      OBVIOUS
    <2>3. ErrorOrLater(w, s) = [w EXCEPT !.ses[s] = q]
      BY <1>2, <2>1, <2>2 DEF ErrorOrLater
    <2>4. IsSession(r)
      BY <1>1, <2>1, SessionIn
    <2>5. Touches(w, s, q)
      BY <2>1, <2>2, <2>4 DEF Touches, IsSession, Steady, Timed
    <2>6. WorldOK(ErrorOrLater(w, s), g) /\ Calm(w, ErrorOrLater(w, s))
      BY <1>1, <2>3, <2>5, TouchOne
    <2> QED
      BY <2>6, CalmGood
  <1>3. CASE ~w.ses[s].mRunning
    <2>1. ErrorOrLater(w, s) = AddTask(GivenUp(FailOutList(w, s), s), "error", s)
      BY <1>3 DEF ErrorOrLater, DoError
    <2>2. "error" \in FinalKinds
      BY DEF FinalKinds
    <2>3. Good(ErrorOrLater(w, s), g, f, l)
      BY <1>3, <2>1, <2>2, FailsGood
    <2> QED
      BY <1>3, <2>3
  <1> QED
    BY <1>2, <1>3

-----------------------------------------------------------------------------
(* The event loop *)

\* A step of the loop thread stores a world; the threads do not move.
LEMMA LoopStep ==
    ASSUME IocpInv, NEW v, NEW g, NEW f, NEW l, g = Grips, f = Flights, l = loop',
           Good(v, g, f, l), LoopOK(v, l), Store(v), work' = work, respQ' = respQ
    PROVE  IocpInv'
  <1>1. World' = v
    <2>1. WorldTyped(v)
      BY DEF Good, WorldOK
    <2>2. v = [mgr |-> v.mgr, ses |-> v.ses, msgs |-> v.msgs, tasks |-> v.tasks]
      BY <2>1 DEF WorldTyped
    <2> QED
      BY <2>2 DEF World, Store
  <1>2. Grips' = g
    BY DEF Grips
  <1>3. Flights' = f
    BY DEF Flights, InQueue, Carried
  <1>4. Good(World', Grips', Flights', loop') /\ LoopOK(World', loop')
    BY <1>1, <1>2, <1>3
  <1>5. DOMAIN work' = Threads /\ (\A t \in Threads : IsWork(work'[t])) /\ respQ' \in Seq(Responses)
    BY DEF IocpInv
  <1> QED
    BY <1>4, <1>5 DEF IocpInv

\* Names for the parts of the state, and the parts of the invariant
Here(w, g, f, l) ==
    /\ w = World /\ g = Grips /\ f = Flights /\ l = loop
    /\ w.mgr = mgr /\ w.ses = ses /\ w.msgs = msgs /\ w.tasks = tasks
    /\ Good(w, g, f, l) /\ WorldOK(w, g) /\ MailOK(w, f, l) /\ DOMAIN g = Threads
    /\ LoopOK(w, l)

LEMMA Start ==
    ASSUME IocpInv
    PROVE  \E w, g, f, l : Here(w, g, f, l)
  <1>1. /\ World.mgr = mgr /\ World.ses = ses /\ World.msgs = msgs /\ World.tasks = tasks
    BY DEF World
  <1>2. /\ Good(World, Grips, Flights, loop) /\ WorldOK(World, Grips)
        /\ MailOK(World, Flights, loop) /\ DOMAIN Grips = Threads /\ LoopOK(World, loop)
    BY DEF IocpInv, Good
  <1> QED
    BY <1>1, <1>2 DEF Here

\* A sid resolves to a session that is in the table and has that sid.
LEMMA GetIn ==
    ASSUME NEW w, NEW g, WorldOK(w, g), NEW sid \in AnySid, NEW t,
           t = Get(w.mgr, sid.mKey, sid.mSeq), t # NULL
    PROVE  t \in Objects /\ In(w, t) /\ w.ses[t].mSid = sid /\ sid \in Sids
  <1>1. /\ sid.mKey \in Keys /\ w.mgr.mSeq[sid.mKey] = sid.mSeq /\ w.mgr.mSession[sid.mKey] = t
    BY DEF Get
  <1>2. sid \in Sids
    <2>1. 0 \notin Keys
      BY KeyHasRow
    <2> QED
      BY <1>1, <2>1 DEF AnySid, NoSid
  <1>3. t \in Objects
    BY <1>1 DEF WorldOK, TableOK, Table
  <1>4. w.ses[t].life = "live" /\ w.ses[t].mSid.mKey = sid.mKey
    BY <1>1, <1>3 DEF WorldOK, TableMaps
  <1>5. In(w, t)
    BY <1>1, <1>4 DEF In
  <1>6. w.ses[t].mSid \in Sids /\ w.ses[t].mSid.mSeq = sid.mSeq
    BY <1>1, <1>3, <1>4, <1>5, InKey
  <1>7. w.ses[t].mSid = sid
    BY <1>2, <1>4, <1>6 DEF Sids
  <1> QED
    BY <1>2, <1>3, <1>5, <1>7

\* The session that eventLoop finds for a completion
LEMMA ResolveIn ==
    ASSUME NEW w, NEW g, WorldOK(w, g), w.mgr = mgr, w.ses = ses, NEW s \in Objects,
           NEW t, t = Resolve(s), t # NULL
    PROVE  t \in Objects /\ In(w, t) /\ w.ses[t].mSid = w.ses[s].mSid
  <1>1. PICK sid : sid = w.ses[s].mSid
    OBVIOUS
  <1>2. sid \in AnySid
    BY <1>1 DEF WorldOK, SessionOK
  <1>3. t = Get(w.mgr, sid.mKey, sid.mSeq)
    BY <1>1 DEF Resolve
  <1> QED
    BY <1>1, <1>2, <1>3, GetIn

\* Outside the turns of onResponse no message is being handed out.
LEMMA MailLoop ==
    ASSUME NEW w, NEW f, NEW l, MailOK(w, f, l), NEW k, l.at # "to", k.at # "to"
    PROVE  MailOK(w, f, k)
  <1>1. \A m : ~AtMessage(l, m) /\ ~AtMessage(k, m)
    BY DEF AtMessage
  <1>2. \A m : Pending(w, f, k, m) = Pending(w, f, l, m) /\ Flag(AtMessage(k, m)) = Flag(AtMessage(l, m))
    BY <1>1 DEF Pending, Flag
  <1>3. \A m \in HandlerMsgs : MessageOK(w, f, k, m)
    BY <1>1, <1>2 DEF MessageOK, MailOK
  <1> QED
    BY <1>3 DEF MailOK

LEMMA PollIs ==
    /\ Poll.at = "poll" /\ \A w : LoopOK(w, Poll)
    /\ \A w : \A s : NotHanded(w, Poll, s)
  <1>1. 0 \notin HandlerMsgs /\ NoResponse \in Responses
    BY IocpAssumption DEF HandlerMsgs, NoResponse, Responses, AnySid
  <1>2. /\ Poll.at = "poll" /\ Poll.resp = NoResponse /\ Poll.sids = {}
        /\ Poll = [at |-> Poll.at, s |-> Poll.s, exit |-> Poll.exit, resp |-> Poll.resp,
                   sids |-> Poll.sids]
    BY DEF Poll
  <1>3. \A w : LoopOK(w, Poll)
    BY <1>1, <1>2 DEF LoopOK
  <1>4. \A w : \A s : NotHanded(w, Poll, s)
    BY <1>2 DEF NotHanded, AtMessage
  <1> QED
    BY <1>2, <1>3, <1>4

\* The loop inside SP_IocpMsgQueue::process
LEMMA ProcessIs ==
    /\ [Poll EXCEPT !.at = "process"].at = "process"
    /\ \A w : LoopOK(w, [Poll EXCEPT !.at = "process"])
  <1>1. PICK p : p = Poll
    OBVIOUS
  <1>2. PICK k : k = [p EXCEPT !.at = "process"]
    OBVIOUS
  <1>3. /\ p = [at |-> p.at, s |-> p.s, exit |-> p.exit, resp |-> p.resp, sids |-> p.sids]
        /\ p.resp \in Responses /\ p.sids \subseteq AnySid
    BY <1>1, PollIs DEF LoopOK
  <1>4. k = [at |-> "process", s |-> p.s, exit |-> p.exit, resp |-> p.resp, sids |-> p.sids]
    BY <1>2, <1>3
  <1>5. k.at = "process" /\ \A w : LoopOK(w, k)
    BY <1>3, <1>4 DEF LoopOK
  <1> QED
    BY <1>1, <1>2, <1>5

LEMMA TouchGood ==
    ASSUME NEW w, NEW g, NEW f, NEW l, Good(w, g, f, l), NEW s \in Objects, NEW q, Touches(w, s, q)
    PROVE  /\ Good([w EXCEPT !.ses[s] = q], g, f, l) /\ Calm(w, [w EXCEPT !.ses[s] = q])
           /\ Edited(w, [w EXCEPT !.ses[s] = q], s, q)
           /\ [w EXCEPT !.ses[s] = q].ses[s].mRunning = w.ses[s].mRunning
  BY TouchOne, CalmGood DEF Good

\* What clears or sets one of the fields that the invariant does not mention
LEMMA TouchesField ==
    ASSUME NEW w, NEW g, WorldOK(w, g), NEW s \in Objects
    PROVE  /\ Touches(w, s, [w.ses[s] EXCEPT !.recvIO = FALSE])
           /\ Touches(w, s, [w.ses[s] EXCEPT !.sendIO = FALSE])
           /\ Touches(w, s, [w.ses[s] EXCEPT !.recvTimer = FALSE])
           /\ Touches(w, s, [w.ses[s] EXCEPT !.sendTimer = FALSE])
           /\ Touches(w, s, [w.ses[s] EXCEPT !.recvIO = FALSE, !.recvTimer = FALSE])
           /\ Touches(w, s, [w.ses[s] EXCEPT !.sendIO = FALSE, !.sendTimer = FALSE])
           /\ Touches(w, s, [w.ses[s] EXCEPT !.mReading = FALSE])
           /\ Touches(w, s, [w.ses[s] EXCEPT !.missed = TRUE])
           /\ Touches(w, s, [w.ses[s] EXCEPT !.mStatus = "eExit"])
  <1>1. PICK r : r = w.ses[s]
    OBVIOUS
  <1>2. IsSession(r)
    BY <1>1, SessionIn
  <1>3. ASSUME NEW q, q = [r EXCEPT !.recvIO = FALSE]
        PROVE  Touches(w, s, q)
    BY <1>1, <1>2, <1>3 DEF Touches, IsSession, Steady, Timed
  <1>4. ASSUME NEW q, q = [r EXCEPT !.sendIO = FALSE]
        PROVE  Touches(w, s, q)
    BY <1>1, <1>2, <1>4 DEF Touches, IsSession, Steady, Timed
  <1>5. ASSUME NEW q, q = [r EXCEPT !.recvTimer = FALSE]
        PROVE  Touches(w, s, q)
    BY <1>1, <1>2, <1>5 DEF Touches, IsSession, Steady, Timed
  <1>6. ASSUME NEW q, q = [r EXCEPT !.sendTimer = FALSE]
        PROVE  Touches(w, s, q)
    BY <1>1, <1>2, <1>6 DEF Touches, IsSession, Steady, Timed
  <1>7. ASSUME NEW q, q = [r EXCEPT !.recvIO = FALSE, !.recvTimer = FALSE]
        PROVE  Touches(w, s, q)
    BY <1>1, <1>2, <1>7 DEF Touches, IsSession, Steady, Timed
  <1>8. ASSUME NEW q, q = [r EXCEPT !.sendIO = FALSE, !.sendTimer = FALSE]
        PROVE  Touches(w, s, q)
    BY <1>1, <1>2, <1>8 DEF Touches, IsSession, Steady, Timed
  <1>9. ASSUME NEW q, q = [r EXCEPT !.mReading = FALSE]
        PROVE  Touches(w, s, q)
    BY <1>1, <1>2, <1>9 DEF Touches, IsSession, Steady, Timed
  <1>10. ASSUME NEW q, q = [r EXCEPT !.missed = TRUE]
         PROVE  Touches(w, s, q)
    BY <1>1, <1>2, <1>10 DEF Touches, IsSession, Steady, Timed
  <1>11. ASSUME NEW q, q = [r EXCEPT !.mStatus = "eExit"]
         PROVE  Touches(w, s, q)
    BY <1>1, <1>2, <1>11 DEF Touches, IsSession, Steady, Timed
  <1> QED
    BY <1>1, <1>3, <1>4, <1>5, <1>6, <1>7, <1>8, <1>9, <1>10, <1>11

LEMMA EventLoopStaleKeeps ==
    ASSUME IocpInv, NEW s \in Objects, EventLoopStale(s)
    PROVE  IocpInv'
  <1>0. PICK w, g, f, l : Here(w, g, f, l)
    BY Start, Zenon
  <1>1. /\ w.mgr = mgr /\ w.ses = ses /\ w.msgs = msgs /\ w.tasks = tasks
        /\ Good(w, g, f, l) /\ WorldOK(w, g) /\ MailOK(w, f, l) /\ DOMAIN g = Threads
        /\ LoopOK(w, l) /\ l = loop
    BY <1>0, Zenon DEF Here
  <1>2. PICK q : /\ Touches(w, s, q) /\ ses' = [ses EXCEPT ![s] = q]
    <2>1. CASE ses' = [ses EXCEPT ![s].recvIO = FALSE]
      <3>1. ses' = [ses EXCEPT ![s] = [w.ses[s] EXCEPT !.recvIO = FALSE]]
        BY <1>1, <2>1, Zenon
      <3>2. Touches(w, s, [w.ses[s] EXCEPT !.recvIO = FALSE])
        BY <1>1, TouchesField
      <3> QED
        BY <3>1, <3>2
    <2>2. CASE ses' = [ses EXCEPT ![s].sendIO = FALSE]
      <3>1. ses' = [ses EXCEPT ![s] = [w.ses[s] EXCEPT !.sendIO = FALSE]]
        BY <1>1, <2>2, Zenon
      <3>2. Touches(w, s, [w.ses[s] EXCEPT !.sendIO = FALSE])
        BY <1>1, TouchesField
      <3> QED
        BY <3>1, <3>2
    <2> QED
      BY <2>1, <2>2 DEF EventLoopStale
  <1>3. PICK v : v = [w EXCEPT !.ses[s] = q]
    OBVIOUS
  <1>4. Good(v, g, f, l) /\ Calm(w, v)
    BY <1>1, <1>2, <1>3, TouchGood
  <1>5. Store(v) /\ loop' = loop /\ work' = work /\ respQ' = respQ /\ loop = Poll
    <2>1. w = [mgr |-> mgr, ses |-> ses, msgs |-> msgs, tasks |-> tasks]
      BY <1>0 DEF Here, World
    <2>2. v = [mgr |-> mgr, ses |-> ses', msgs |-> msgs, tasks |-> tasks]
      BY <1>2, <1>3, <2>1
    <2> QED
      BY <2>2 DEF Store, EventLoopStale
  <1>6. LoopOK(v, l)
    BY <1>1, <1>5, PollIs
  <1> QED
    BY <1>0, <1>1, <1>4, <1>5, <1>6, LoopStep DEF Here

LEMMA EventLoopFailedKeeps ==
    ASSUME IocpInv, NEW s \in Objects, EventLoopFailed(s)
    PROVE  IocpInv'
  <1>0. PICK w, g, f, l : Here(w, g, f, l)
    BY Start, Zenon
  <1>1. /\ w.mgr = mgr /\ w.ses = ses /\ w.msgs = msgs /\ w.tasks = tasks
        /\ Good(w, g, f, l) /\ WorldOK(w, g) /\ MailOK(w, f, l) /\ DOMAIN g = Threads
        /\ LoopOK(w, l) /\ l = loop
    BY <1>0, Zenon DEF Here
  <1>2. PICK t : t = Resolve(s)
    OBVIOUS
  <1>3. t \in Objects /\ In(w, t)
    BY <1>1, <1>2, ResolveIn DEF EventLoopFailed
  <1>4. PICK io \in {"recvIO", "sendIO"} :
          \E x : /\ x = [World EXCEPT !.ses[s] = [@ EXCEPT ![io] = FALSE]]
                 /\ Store(IF x.ses[t].mRunning THEN [x EXCEPT !.ses[t].missed = TRUE]
                          ELSE DoClose(x, t))
    BY <1>2 DEF EventLoopFailed
  <1>5. PICK x : /\ x = [World EXCEPT !.ses[s] = [@ EXCEPT ![io] = FALSE]]
                 /\ Store(IF x.ses[t].mRunning THEN [x EXCEPT !.ses[t].missed = TRUE]
                          ELSE DoClose(x, t))
    BY <1>4, Zenon
  <1>6. Good(x, g, f, l) /\ Calm(w, x)
    <2>1. CASE io = "recvIO"
      <3>1. x = [w EXCEPT !.ses[s] = [w.ses[s] EXCEPT !.recvIO = FALSE]]
        BY <1>0, <1>5, <2>1 DEF Here
      <3>2. Touches(w, s, [w.ses[s] EXCEPT !.recvIO = FALSE])
        BY <1>1, TouchesField
      <3> QED
        BY <1>1, <3>1, <3>2, TouchGood
    <2>2. CASE io = "sendIO"
      <3>1. x = [w EXCEPT !.ses[s] = [w.ses[s] EXCEPT !.sendIO = FALSE]]
        BY <1>0, <1>5, <2>2 DEF Here
      <3>2. Touches(w, s, [w.ses[s] EXCEPT !.sendIO = FALSE])
        BY <1>1, TouchesField
      <3> QED
        BY <1>1, <3>1, <3>2, TouchGood
    <2> QED
      BY <2>1, <2>2
  <1>7. In(x, t)
    BY <1>3, <1>6, CalmIn
  <1>8. PICK v : v = IF x.ses[t].mRunning THEN [x EXCEPT !.ses[t].missed = TRUE] ELSE DoClose(x, t)
    OBVIOUS
  <1>9. Good(v, g, f, l)
    <2>1. CASE x.ses[t].mRunning
      <3>1. v = [x EXCEPT !.ses[t] = [x.ses[t] EXCEPT !.missed = TRUE]]
        BY <1>8, <2>1
      <3>2. WorldOK(x, g)
        BY <1>6, Zenon DEF Good
      <3>3. Touches(x, t, [x.ses[t] EXCEPT !.missed = TRUE])
        BY <1>3, <3>2, TouchesField
      <3> QED
        BY <1>3, <1>6, <3>1, <3>3, TouchGood
    <2>2. CASE ~x.ses[t].mRunning
      BY <1>3, <1>6, <1>7, <1>8, <2>2, DoCloseGood
    <2> QED
      BY <2>1, <2>2
  <1>10. Store(v) /\ loop' = loop /\ work' = work /\ respQ' = respQ /\ loop = Poll
    BY <1>5, <1>8 DEF EventLoopFailed
  <1>11. LoopOK(v, l)
    BY <1>1, <1>10, PollIs
  <1> QED
    BY <1>0, <1>1, <1>9, <1>10, <1>11, LoopStep DEF Here

\* The start of onRecv, for the session t that the completion of s resolves to
LEMMA ReceivedGood ==
    ASSUME NEW w, NEW g, NEW f, NEW l, Here(w, g, f, l), NEW s \in Objects, NEW t \in Objects
    PROVE  Good(Received(s, t), g, f, l) /\ Calm(w, Received(s, t))
  <1>1. PICK q : q = [w.ses[s] EXCEPT !.recvIO = FALSE, !.recvTimer = FALSE]
    OBVIOUS
  <1>2. PICK x : x = [w EXCEPT !.ses[s] = q]
    OBVIOUS
  <1>3. PICK p : p = [x.ses[t] EXCEPT !.mReading = FALSE]
    OBVIOUS
  <1>4. PICK v : v = [x EXCEPT !.ses[t] = p]
    OBVIOUS
  <1>5. Good(w, g, f, l) /\ WorldOK(w, g) /\ w = World
    BY Zenon DEF Here
  <1>6. Touches(w, s, q)
    BY <1>1, <1>5, TouchesField
  <1>7. Good(x, g, f, l) /\ Calm(w, x)
    BY <1>2, <1>5, <1>6, TouchGood
  <1>8. WorldOK(x, g)
    BY <1>7, Zenon DEF Good
  <1>9. Touches(x, t, p)
    BY <1>3, <1>8, TouchesField
  <1>10. Good(v, g, f, l) /\ Calm(x, v)
    BY <1>4, <1>7, <1>9, TouchGood
  <1>11. Received(s, t) = v
    BY <1>1, <1>2, <1>3, <1>4, <1>5 DEF Received
  <1> QED
    BY <1>7, <1>10, <1>11, CalmTwice

\* onRecv ends with addRecv, or with the error that addRecv met.
LEMMA RecvAgainGood ==
    ASSUME NEW w, NEW g, NEW f, NEW l, Good(w, g, f, l), NEW t \in Objects, In(w, t),
           NotHanded(w, l, t), NEW bad
    PROVE  Good(IF AddRecvOK(w, t, bad) THEN AddRecv(w, t, bad) ELSE ErrorOrLater(w, t), g, f, l)
  <1>1. WorldOK(w, g)
    BY Zenon DEF Good
  <1>2. WorldOK(AddRecv(w, t, bad), g) /\ Calm(w, AddRecv(w, t, bad))
    BY <1>1, AddRecvKeeps
  <1>3. Good(AddRecv(w, t, bad), g, f, l)
    BY <1>2, CalmGood
  <1>4. Good(ErrorOrLater(w, t), g, f, l)
    BY ErrorOrLaterGood
  <1> QED
    BY <1>3, <1>4

LEMMA OnRecvDataKeeps ==
    ASSUME IocpInv, NEW s \in Objects, NEW n, NEW bad, OnRecvData(s, n, bad)
    PROVE  IocpInv'
  <1>0. PICK w, g, f, l : Here(w, g, f, l)
    BY Start, Zenon
  <1>1. /\ w.mgr = mgr /\ w.ses = ses /\ w.msgs = msgs /\ w.tasks = tasks
        /\ Good(w, g, f, l) /\ WorldOK(w, g) /\ MailOK(w, f, l) /\ DOMAIN g = Threads
        /\ LoopOK(w, l) /\ l = loop
    BY <1>0, Zenon DEF Here
  <1>2. PICK t : t = Resolve(s)
    OBVIOUS
  <1>3. t \in Objects /\ In(w, t)
    BY <1>1, <1>2, ResolveIn DEF OnRecvData
  <1>4. PICK x : x = Received(s, t)
    OBVIOUS
  <1>5. Good(x, g, f, l) /\ Calm(w, x)
    BY <1>0, <1>3, <1>4, ReceivedGood
  <1>6. PICK r : r = x.ses[t]
    OBVIOUS
  <1>7. PICK q : q = [r EXCEPT !.mInBuffer = r.mInBuffer + n]
    OBVIOUS
  <1>8. PICK y : y = [x EXCEPT !.ses[t] = q]
    OBVIOUS
  <1>9. Touches(x, t, q)
    <2>1. WorldOK(x, g)
      BY <1>5, Zenon DEF Good
    <2>2. IsSession(r)
      BY <1>3, <1>6, <2>1, SessionIn
    <2> QED
      BY <1>6, <1>7, <2>2 DEF Touches, IsSession, Steady, Timed
  <1>10. Good(y, g, f, l) /\ Calm(x, y)
    BY <1>3, <1>5, <1>8, <1>9, TouchGood
  <1>11. In(y, t)
    BY <1>3, <1>5, <1>10, CalmIn
  <1>12. PICK z : z = DecodeIfIdle(y, t)
    OBVIOUS
  <1>13. Good(z, g, f, l) /\ Calm(y, z)
    <2>1. WorldOK(y, g) /\ DOMAIN g = Threads
      BY <1>10, Zenon DEF Good
    <2>2. WorldOK(z, g) /\ Calm(y, z)
      BY <1>3, <1>11, <1>12, <2>1, DecodeIfIdleKeeps
    <2> QED
      BY <1>10, <2>2, CalmGood
  <1>14. In(z, t)
    BY <1>3, <1>11, <1>13, CalmIn
  <1>15. PICK v : v = IF AddRecvOK(z, t, bad) THEN AddRecv(z, t, bad) ELSE ErrorOrLater(z, t)
    OBVIOUS
  <1>16. loop' = loop /\ work' = work /\ respQ' = respQ /\ loop = Poll
    BY DEF OnRecvData
  <1>17. NotHanded(z, l, t)
    BY <1>1, <1>16, PollIs
  <1>18. Good(v, g, f, l)
    BY <1>3, <1>13, <1>14, <1>15, <1>17, RecvAgainGood
  <1>19. Store(v)
    <2>1. z = DecodeIfIdle([Received(s, t) EXCEPT !.ses[t].mInBuffer = @ + n], t)
      BY <1>4, <1>6, <1>7, <1>8, <1>12
    <2> QED
      BY <1>2, <1>15, <2>1 DEF OnRecvData
  <1>20. LoopOK(v, l)
    BY <1>1, <1>16, PollIs
  <1> QED
    BY <1>0, <1>1, <1>16, <1>18, <1>19, <1>20, LoopStep DEF Here

LEMMA OnRecvEndKeeps ==
    ASSUME IocpInv, NEW s \in Objects, NEW bad, OnRecvEnd(s, bad)
    PROVE  IocpInv'
  <1>0. PICK w, g, f, l : Here(w, g, f, l)
    BY Start, Zenon
  <1>1. /\ w.mgr = mgr /\ w.ses = ses /\ w.msgs = msgs /\ w.tasks = tasks
        /\ Good(w, g, f, l) /\ WorldOK(w, g) /\ MailOK(w, f, l) /\ DOMAIN g = Threads
        /\ LoopOK(w, l) /\ l = loop
    BY <1>0, Zenon DEF Here
  <1>2. PICK t : t = Resolve(s)
    OBVIOUS
  <1>3. t \in Objects /\ In(w, t)
    BY <1>1, <1>2, ResolveIn DEF OnRecvEnd
  <1>4. PICK x : x = Received(s, t)
    OBVIOUS
  <1>5. Good(x, g, f, l) /\ Calm(w, x)
    BY <1>0, <1>3, <1>4, ReceivedGood
  <1>6. In(x, t)
    BY <1>3, <1>5, CalmIn
  <1>7. loop' = loop /\ work' = work /\ respQ' = respQ /\ loop = Poll
    BY DEF OnRecvEnd
  <1>8. NotHanded(x, l, t)
    BY <1>1, <1>7, PollIs
  <1>9. \/ Store(IF x.ses[t].mRunning THEN x ELSE DoClose(x, t))
        \/ Store(ErrorOrLater(x, t))
        \/ Store(IF AddRecvOK(x, t, bad) THEN AddRecv(x, t, bad) ELSE ErrorOrLater(x, t))
    BY <1>2, <1>4 DEF OnRecvEnd
  <1>10. PICK v : Store(v) /\ Good(v, g, f, l)
    <2>1. CASE Store(IF x.ses[t].mRunning THEN x ELSE DoClose(x, t))
      <3>1. Good(IF x.ses[t].mRunning THEN x ELSE DoClose(x, t), g, f, l)
        BY <1>3, <1>5, <1>6, DoCloseGood
      <3> QED
        BY <2>1, <3>1
    <2>2. CASE Store(ErrorOrLater(x, t))
      <3>1. Good(ErrorOrLater(x, t), g, f, l)
        BY <1>3, <1>5, <1>6, <1>8, ErrorOrLaterGood
      <3> QED
        BY <2>2, <3>1
    <2>3. CASE Store(IF AddRecvOK(x, t, bad) THEN AddRecv(x, t, bad) ELSE ErrorOrLater(x, t))
      <3>1. Good(IF AddRecvOK(x, t, bad) THEN AddRecv(x, t, bad) ELSE ErrorOrLater(x, t), g, f, l)
        BY <1>3, <1>5, <1>6, <1>8, RecvAgainGood
      <3> QED
        BY <2>3, <3>1
    <2> QED
      BY <1>9, <2>1, <2>2, <2>3
  <1>11. LoopOK(v, l)
    BY <1>1, <1>7, PollIs
  <1> QED
    BY <1>0, <1>1, <1>7, <1>10, <1>11, LoopStep DEF Here

LEMMA OnTimeoutKeeps ==
    ASSUME IocpInv, NEW s \in Objects, OnTimeout(s)
    PROVE  IocpInv'
  <1>0. PICK w, g, f, l : Here(w, g, f, l)
    BY Start, Zenon
  <1>1. /\ w.mgr = mgr /\ w.ses = ses /\ w.msgs = msgs /\ w.tasks = tasks
        /\ Good(w, g, f, l) /\ WorldOK(w, g) /\ MailOK(w, f, l) /\ DOMAIN g = Threads
        /\ LoopOK(w, l) /\ l = loop
    BY <1>0, Zenon DEF Here
  <1>2. PICK timer \in {"recvTimer", "sendTimer"} :
          /\ ses[s][timer]
          /\ \E x : /\ x = [World EXCEPT !.ses[s] = [@ EXCEPT ![timer] = FALSE]]
                    /\ Store(IF ses[s].mRunning THEN x ELSE DoTimeout(x, s))
    BY DEF OnTimeout
  <1>3. PICK x : /\ x = [World EXCEPT !.ses[s] = [@ EXCEPT ![timer] = FALSE]]
                 /\ Store(IF ses[s].mRunning THEN x ELSE DoTimeout(x, s))
    BY <1>2, Zenon
  <1>4. In(w, s)
    <2>1. Timed(w.ses[s])
      BY <1>1, <1>2 DEF Timed
    <2>2. SessionOK(w, g, s)
      BY <1>1, SessionIn
    <2> QED
      BY <2>1, <2>2 DEF SessionOK, Timed
  <1>5. Good(x, g, f, l) /\ Calm(w, x) /\ x.ses[s].mRunning = w.ses[s].mRunning
    <2>1. CASE timer = "recvTimer"
      <3>1. x = [w EXCEPT !.ses[s] = [w.ses[s] EXCEPT !.recvTimer = FALSE]]
        BY <1>0, <1>3, <2>1 DEF Here
      <3>2. Touches(w, s, [w.ses[s] EXCEPT !.recvTimer = FALSE])
        BY <1>1, TouchesField
      <3> QED
        BY <1>1, <3>1, <3>2, TouchGood
    <2>2. CASE timer = "sendTimer"
      <3>1. x = [w EXCEPT !.ses[s] = [w.ses[s] EXCEPT !.sendTimer = FALSE]]
        BY <1>0, <1>3, <2>2 DEF Here
      <3>2. Touches(w, s, [w.ses[s] EXCEPT !.sendTimer = FALSE])
        BY <1>1, TouchesField
      <3> QED
        BY <1>1, <3>1, <3>2, TouchGood
    <2> QED
      BY <2>1, <2>2
  <1>6. In(x, s)
    BY <1>4, <1>5, CalmIn
  <1>7. loop' = loop /\ work' = work /\ respQ' = respQ /\ loop = Poll
    BY DEF OnTimeout
  <1>8. NotHanded(x, l, s)
    BY <1>1, <1>7, PollIs
  <1>9. PICK v : v = IF ses[s].mRunning THEN x ELSE DoTimeout(x, s)
    OBVIOUS
  <1>10. Good(v, g, f, l)
    <2>1. CASE ses[s].mRunning
      BY <1>5, <1>9, <2>1
    <2>2. CASE ~ses[s].mRunning
      <3>1. ~x.ses[s].mRunning
        BY <1>1, <1>5, <2>2
      <3>2. v = AddTask(GivenUp(FailOutList(x, s), s), "timeout", s)
        BY <1>9, <2>2 DEF DoTimeout
      <3>3. "timeout" \in FinalKinds
        BY DEF FinalKinds
      <3> QED
        BY <1>5, <1>6, <1>8, <3>1, <3>2, <3>3, FailsGood
    <2> QED
      BY <2>1, <2>2
  <1>11. Store(v)
    BY <1>3, <1>9
  <1>12. LoopOK(v, l)
    BY <1>1, <1>7, PollIs
  <1> QED
    BY <1>0, <1>1, <1>7, <1>10, <1>11, <1>12, LoopStep DEF Here

LEMMA ProcessKeeps ==
    ASSUME IocpInv, ProcessBegin \/ ProcessEnd
    PROVE  IocpInv'
  <1>0. PICK w, g, f, l : Here(w, g, f, l)
    BY Start, Zenon
  <1>1. /\ w.mgr = mgr /\ w.ses = ses /\ w.msgs = msgs /\ w.tasks = tasks
        /\ Good(w, g, f, l) /\ WorldOK(w, g) /\ MailOK(w, f, l) /\ DOMAIN g = Threads
        /\ LoopOK(w, l) /\ l = loop
    BY <1>0, Zenon DEF Here
  <1>2. Store(w) /\ work' = work /\ respQ' = respQ
    BY <1>1 DEF Store, ProcessBegin, ProcessEnd
  <1>3. l.at # "to"
    BY <1>1, PollIs DEF ProcessBegin, ProcessEnd
  <1>4. PICK k : k = loop'
    OBVIOUS
  <1>5. k.at # "to" /\ LoopOK(w, k)
    <2>1. LoopOK(w, Poll) /\ Poll.at = "poll"
      BY PollIs
    <2>2. LoopOK(w, [Poll EXCEPT !.at = "process"]) /\ [Poll EXCEPT !.at = "process"].at = "process"
      BY ProcessIs
    <2> QED
      BY <1>4, <2>1, <2>2 DEF ProcessBegin, ProcessEnd
  <1>6. MailOK(w, f, k)
    BY <1>1, <1>3, <1>5, MailLoop
  <1>7. Good(w, g, f, k)
    BY <1>1, <1>6 DEF Good
  <1> QED
    BY <1>0, <1>2, <1>4, <1>5, <1>7, LoopStep DEF Here

\* The second half of onSend: the session is still in the table.
LEMMA OnSendTailKeeps ==
    ASSUME IocpInv, OnSendTail
    PROVE  IocpInv'
  <1>0. PICK w, g, f, l : Here(w, g, f, l)
    BY Start, Zenon
  <1>1. /\ w.mgr = mgr /\ w.ses = ses /\ w.msgs = msgs /\ w.tasks = tasks
        /\ Good(w, g, f, l) /\ WorldOK(w, g) /\ MailOK(w, f, l) /\ DOMAIN g = Threads
        /\ LoopOK(w, l) /\ l = loop
    BY <1>0, Zenon DEF Here
  <1>2. PICK s : s = loop.s
    OBVIOUS
  <1>3. s \in Objects /\ In(w, s) /\ l.at # "to"
    BY <1>1, <1>2 DEF OnSendTail, LoopOK
  <1>4. PICK v : v = IF ses[s].mRunning THEN w
                     ELSE IF loop.exit THEN DoClose(w, s) ELSE DoDecodeForWork(w, s)
    OBVIOUS
  <1>5. Store(v) /\ work' = work /\ respQ' = respQ /\ loop' = Poll
    BY <1>0, <1>2, <1>4 DEF OnSendTail, Here
  <1>6. Good(v, g, f, l)
    <2>1. CASE ses[s].mRunning
      BY <1>1, <1>4, <2>1
    <2>2. CASE ~ses[s].mRunning /\ loop.exit
      BY <1>1, <1>3, <1>4, <2>2, DoCloseGood
    <2>3. CASE ~ses[s].mRunning /\ ~loop.exit
      <3>1. WorldOK(v, g) /\ Calm(w, v)
        BY <1>1, <1>3, <1>4, <2>3, DoDecodeForWorkKeeps
      <3> QED
        BY <1>1, <3>1, CalmGood
    <2> QED
      BY <2>1, <2>2, <2>3
  <1>7. PICK k : k = loop'
    OBVIOUS
  <1>8. k.at # "to" /\ LoopOK(v, k)
    BY <1>5, <1>7, PollIs
  <1>9. Good(v, g, f, k)
    BY <1>3, <1>6, <1>8, MailLoop DEF Good
  <1> QED
    BY <1>0, <1>5, <1>7, <1>8, <1>9, LoopStep DEF Here

\* eKeyFree
LEMMA EventLoopFreeKeeps ==
    ASSUME IocpInv, NEW s \in Objects, EventLoopFree(s)
    PROVE  IocpInv'
  <1>0. PICK w, g, f, l : Here(w, g, f, l)
    BY Start, Zenon
  <1>1. /\ w.mgr = mgr /\ w.ses = ses /\ w.msgs = msgs /\ w.tasks = tasks
        /\ Good(w, g, f, l) /\ WorldOK(w, g) /\ MailOK(w, f, l) /\ DOMAIN g = Threads
        /\ LoopOK(w, l) /\ l = loop
    BY <1>0, Zenon DEF Here
  <1>2. PICK r : r = w.ses[s]
    OBVIOUS
  <1>3. PICK q : q = [NewSession EXCEPT !.life = "deleted", !.mSid = r.mSid, !.recvIO = r.recvIO,
                        !.sendIO = r.sendIO, !.recvTimer = r.recvTimer, !.sendTimer = r.sendTimer]
    OBVIOUS
  <1>4. /\ IsSession(q) /\ q.life = "deleted" /\ q.mSid = r.mSid /\ q.mRunning = FALSE
        /\ q.freePosted = FALSE /\ (Timed(q) <=> Timed(r))
    <2>1. PICK n : n = NewSession
      OBVIOUS
    <2>2. IsSession(n) /\ n.mRunning = FALSE /\ n.freePosted = FALSE
      BY <2>1 DEF NewSession, IsSession
    <2>3. q = [n EXCEPT !.life = "deleted", !.mSid = r.mSid, !.recvIO = r.recvIO,
                 !.sendIO = r.sendIO, !.recvTimer = r.recvTimer, !.sendTimer = r.sendTimer]
      BY <1>3, <2>1
    <2>4. q = [life |-> "deleted", mSid |-> r.mSid, mStatus |-> n.mStatus, mRunning |-> FALSE,
               mReading |-> n.mReading, mWriting |-> n.mWriting, mInBuffer |-> n.mInBuffer,
               mOutList |-> n.mOutList, recvIO |-> r.recvIO, sendIO |-> r.sendIO,
               recvTimer |-> r.recvTimer, sendTimer |-> r.sendTimer, channel |-> n.channel,
               started |-> n.started, freePosted |-> FALSE, missed |-> n.missed]
      BY <2>2, <2>3 DEF IsSession
    <2> QED
      BY <2>4 DEF IsSession, Timed
  <1>5. PICK v : v = [w EXCEPT !.ses[s] = q]
    OBVIOUS
  <1>6. /\ WorldTyped(v) /\ v.mgr = w.mgr /\ v.msgs = w.msgs /\ v.tasks = w.tasks
        /\ v.ses[s] = q /\ \A t \in Objects : t # s => v.ses[t] = w.ses[t]
    <2>1. WorldTyped(w)
      BY <1>1, SessionIn
    <2>2. Edited(w, v, s, q)
      BY <1>4, <1>5, <2>1, EditWorld
    <2> QED
      BY <2>2 DEF Edited
  <1>7. Frees(w, v, s) /\ w.ses[s].freePosted
    BY <1>1, <1>2, <1>4, <1>6 DEF Frees, EventLoopFree
  <1>8. WorldOK(v, g) /\ ~In(w, s) /\ \A t \in Objects : In(v, t) <=> In(w, t)
    BY <1>1, <1>7, FreeOne
  <1>9. MailOK(v, f, l)
    <2>1. \A m \in HandlerMsgs : MessageOK(v, f, l, m)
      <3> SUFFICES ASSUME NEW m \in HandlerMsgs
                   PROVE  MessageOK(v, f, l, m)
        OBVIOUS
      <3>1. MessageOK(w, f, l, m) /\ v.msgs[m] = w.msgs[m]
        BY <1>1, <1>6 DEF MailOK
      <3>2. Pending(v, f, l, m) = Pending(w, f, l, m)
        BY <3>1 DEF Pending
      <3>3. \A t \in Objects : In(v, t) => v.ses[t] = w.ses[t] /\ In(w, t)
        BY <1>6, <1>8
      <3> QED
        BY <3>1, <3>2, <3>3 DEF MessageOK
    <2>2. ASSUME NEW x \in Objects
          PROVE  RefusalOK(v, x) /\ OutListOK(v, x)
      <3>1. RefusalOK(w, x) /\ OutListOK(w, x) /\ v.msgs = w.msgs
        BY <1>1, <1>6 DEF MailOK
      <3>2. \A t \in Objects : In(v, t) => v.ses[t] = w.ses[t] /\ In(w, t)
        BY <1>6, <1>8
      <3>3. v.ses[x].life = "unborn" => w.ses[x].life = "unborn"
        BY <1>4, <1>6
      <3> QED
        BY <3>1, <3>2, <3>3 DEF RefusalOK, OutListOK
    <2> QED
      BY <2>1, <2>2 DEF MailOK
  <1>10. Store(v) /\ loop' = loop /\ work' = work /\ respQ' = respQ /\ loop = Poll
    <2>1. w = [mgr |-> mgr, ses |-> ses, msgs |-> msgs, tasks |-> tasks]
      BY <1>0 DEF Here, World
    <2>2. ses' = [ses EXCEPT ![s] = q]
      BY <1>1, <1>2, <1>3 DEF EventLoopFree
    <2>3. v = [mgr |-> mgr, ses |-> ses', msgs |-> msgs, tasks |-> tasks]
      BY <1>5, <2>1, <2>2
    <2> QED
      BY <2>3 DEF Store, EventLoopFree
  <1>11. Good(v, g, f, l) /\ LoopOK(v, l)
    BY <1>1, <1>8, <1>9, <1>10, PollIs DEF Good
  <1> QED
    BY <1>0, <1>1, <1>10, <1>11, LoopStep DEF Here

\* A list without repetitions, cut after its first n places
LEMMA SplitList ==
    ASSUME NEW q \in Seq(Msgs), Injective(q), NEW n \in 0 .. Len(q)
    PROVE  /\ SubSeq(q, n + 1, Len(q)) \in Seq(Msgs) /\ Injective(SubSeq(q, n + 1, Len(q)))
           /\ \A m : Holds(SubSeq(q, n + 1, Len(q)), m) =>
                 Holds(q, m) /\ m \notin Range(SubSeq(q, 1, n))
           /\ \A m \in Range(SubSeq(q, 1, n)) : Holds(q, m)
  <1>1. Len(q) \in Nat /\ DOMAIN q = 1 .. Len(q) /\ n \in Nat /\ n <= Len(q)
    BY LenProperties
  <1>2. \A i \in 1 .. Len(q) : q[i] \in Msgs
    BY <1>1
  <1>3. PICK a : a = SubSeq(q, 1, n)
    OBVIOUS
  <1>4. PICK b : b = SubSeq(q, n + 1, Len(q))
    OBVIOUS
  <1>5. a \in Seq(Msgs) /\ Len(a) = n /\ \A i \in 1 .. n : a[i] = q[i]
    <2>1. \A i \in 1 .. n : q[i] \in Msgs
      BY <1>1, <1>2
    <2>2. /\ SubSeq(q, 1, n) \in Seq(Msgs) /\ Len(SubSeq(q, 1, n)) = IF 1 <= n THEN n - 1 + 1 ELSE 0
          /\ \A i \in 1 .. (n - 1 + 1) : SubSeq(q, 1, n)[i] = q[1 + i - 1]
      BY <1>1, <2>1, SubSeqProperties
    <2> QED
      BY <1>1, <1>3, <2>2
  <1>6. b \in Seq(Msgs) /\ Len(b) = Len(q) - n /\ \A i \in 1 .. (Len(q) - n) : b[i] = q[n + i]
    <2>1. \A i \in (n + 1) .. Len(q) : q[i] \in Msgs
      BY <1>1, <1>2
    <2>2. /\ SubSeq(q, n + 1, Len(q)) \in Seq(Msgs)
          /\ Len(SubSeq(q, n + 1, Len(q))) = IF n + 1 <= Len(q) THEN Len(q) - (n + 1) + 1 ELSE 0
          /\ \A i \in 1 .. (Len(q) - (n + 1) + 1) : SubSeq(q, n + 1, Len(q))[i] = q[(n + 1) + i - 1]
      <3>1. n + 1 \in Int /\ Len(q) \in Int
        BY <1>1
      <3> QED
        BY <2>1, <3>1, SubSeqProperties
    <2>3. PICK k \in Nat : k = Len(q) /\ n <= k
      BY <1>1
    <2>4. /\ b \in Seq(Msgs) /\ Len(b) = IF n + 1 <= k THEN k - (n + 1) + 1 ELSE 0
          /\ \A i \in 1 .. (k - (n + 1) + 1) : b[i] = q[(n + 1) + i - 1]
      BY <1>4, <2>2, <2>3
    <2>5. Len(b) = k - n
      <3>1. Len(b) = IF n + 1 <= k THEN k - (n + 1) + 1 ELSE 0
        BY <2>4
      <3>2. n \in Nat /\ n <= k
        BY <1>1, <2>3
      <3> QED
        BY <3>1, <3>2
    <2>6. ASSUME NEW i \in 1 .. (k - n)
          PROVE  b[i] = q[n + i]
      <3>1. (n + 1) + i - 1 = n + i /\ i \in 1 .. (k - (n + 1) + 1)
        BY <1>1, <2>3
      <3> QED
        BY <2>4, <3>1
    <2> QED
      BY <2>3, <2>4, <2>5, <2>6
  <1>7. DOMAIN a = 1 .. n /\ DOMAIN b = 1 .. (Len(q) - n)
    BY <1>5, <1>6, LenProperties
  <1>8. Injective(b)
    <2> SUFFICES ASSUME NEW i \in DOMAIN b, NEW j \in DOMAIN b, b[i] = b[j]
                 PROVE  i = j
      BY DEF Injective
    <2>1. i \in Nat /\ j \in Nat /\ n + i \in DOMAIN q /\ n + j \in DOMAIN q
      BY <1>1, <1>7
    <2>2. q[n + i] = q[n + j]
      BY <1>6, <1>7
    <2>3. n + i = n + j
      BY <2>1, <2>2 DEF Injective
    <2> QED
      BY <1>1, <2>1, <2>3
  <1>9. ASSUME NEW m, Holds(b, m)
        PROVE  Holds(q, m) /\ m \notin Range(a)
    <2>1. PICK i \in 1 .. (Len(q) - n) : q[n + i] = m
      BY <1>6, <1>7, <1>9 DEF Holds
    <2>2. n + i \in DOMAIN q
      BY <1>1
    <2>3. ASSUME m \in Range(a)
          PROVE  FALSE
      <3>1. PICK j \in 1 .. n : q[j] = m
        BY <1>5, <1>7, <2>3 DEF Range
      <3>2. j \in DOMAIN q /\ j # n + i
        BY <1>1
      <3> QED
        BY <2>1, <2>2, <3>1, <3>2 DEF Injective
    <2> QED
      BY <2>1, <2>2, <2>3 DEF Holds
  <1>10. \A m \in Range(a) : Holds(q, m)
    BY <1>1, <1>5, <1>7 DEF Range, Holds
  <1> QED
    BY <1>3, <1>4, <1>6, <1>8, <1>9, <1>10

\* The start of onSend: the messages that transmit() has written leave the list.
LEMMA SentGood ==
    ASSUME NEW w, NEW g, NEW f, NEW l, Here(w, g, f, l), l.at # "to",
           NEW s \in Objects, NEW t \in Objects, In(w, t), NEW n \in 0 .. Len(w.ses[t].mOutList)
    PROVE  Good(Sent(s, t, n), g, f, l) /\ In(Sent(s, t, n), t)
  <1>1. /\ Good(w, g, f, l) /\ WorldOK(w, g) /\ MailOK(w, f, l) /\ w = World
        /\ w.ses = ses /\ w.msgs = msgs /\ DOMAIN g = Threads
    BY Zenon DEF Here
  <1>2. PICK x : x = [w EXCEPT !.ses[s] = [w.ses[s] EXCEPT !.sendIO = FALSE, !.sendTimer = FALSE]]
    OBVIOUS
  <1>3. Touches(w, s, [w.ses[s] EXCEPT !.sendIO = FALSE, !.sendTimer = FALSE])
    BY <1>1, TouchesField
  <1>4. Good(x, g, f, l) /\ Calm(w, x)
    BY <1>1, <1>2, <1>3, TouchGood
  <1>5. WorldOK(x, g) /\ MailOK(x, f, l) /\ In(x, t)
    BY <1>4, CalmIn DEF Good
  <1>6. x.msgs = w.msgs /\ x.ses[t].mOutList = w.ses[t].mOutList /\ x.ses[t].mSid = w.ses[t].mSid
    BY <1>4 DEF Calm
  <1>7. PICK r : r = x.ses[t]
    OBVIOUS
  <1>8. IsSession(r) /\ WorldTyped(x)
    BY <1>5, <1>7, SessionIn
  <1>9. PICK p : p = r.mOutList
    OBVIOUS
  <1>10. p \in Seq(Msgs) /\ Injective(p) /\ n \in 0 .. Len(p)
    BY <1>5, <1>6, <1>7, <1>9, OutListHolds
  <1>11. PICK D : D = Range(SubSeq(p, 1, n))
    OBVIOUS
  <1>12. PICK z : z = [m \in Msgs |-> IF m \in D THEN Failed(x.msgs[m], r.mSid) ELSE x.msgs[m]]
    OBVIOUS
  <1>13. PICK b : b = SubSeq(p, n + 1, Len(p))
    OBVIOUS
  <1>14. /\ b \in Seq(Msgs) /\ Injective(b) /\ \A m : Holds(b, m) => Holds(p, m) /\ m \notin D
         /\ \A m \in D : Holds(p, m)
    BY <1>10, <1>11, <1>13, SplitList
  <1>15. PICK q : q = [r EXCEPT !.mWriting = FALSE, !.mOutList = b]
    OBVIOUS
  <1>16. IsSession(q) /\ Steady(r, q) /\ q.mOutList = b /\ (Timed(q) <=> Timed(r))
    BY <1>8, <1>15 DEF IsSession, Steady, Timed
  <1>17. PICK y : y = [x EXCEPT !.ses[t] = q]
    OBVIOUS
  <1>18. Edited(x, y, t, q)
    BY <1>8, <1>16, <1>17, EditWorld
  <1>19. PICK v : v = [y EXCEPT !.msgs = z]
    OBVIOUS
  <1>20. /\ DOMAIN z = Msgs
         /\ \A m \in Msgs : z[m] = IF m \in D THEN Failed(x.msgs[m], r.mSid) ELSE x.msgs[m]
    BY <1>12
  <1>21. \A m \in Msgs : IsMessage(x.msgs[m])
    BY <1>8 DEF WorldTyped
  <1>22. \A m \in Msgs : IsMessage(z[m])
    BY <1>20, <1>21, FailedIs
  <1>23. WorldTyped(v) /\ v.mgr = x.mgr /\ v.tasks = x.tasks /\ v.msgs = z /\ v.ses = y.ses
    <2>1. y = [mgr |-> y.mgr, ses |-> y.ses, msgs |-> y.msgs, tasks |-> y.tasks]
      BY <1>18 DEF Edited, WorldTyped
    <2>2. v = [mgr |-> y.mgr, ses |-> y.ses, msgs |-> z, tasks |-> y.tasks]
      BY <1>19, <2>1
    <2>3. v.mgr = y.mgr /\ v.ses = y.ses /\ v.msgs = z /\ v.tasks = y.tasks
      BY <2>2
    <2>4. WorldTyped(v)
      BY <1>18, <1>20, <1>22, <2>2, <2>3 DEF WorldTyped, Edited
    <2> QED
      BY <1>18, <2>3, <2>4 DEF Edited
  <1>24. /\ v.ses[t] = q /\ \A o \in Objects : o # t => v.ses[o] = x.ses[o]
    BY <1>18, <1>23 DEF Edited
  <1>25. \A o \in Objects : Steady(x.ses[o], v.ses[o]) /\ (Timed(v.ses[o]) <=> Timed(x.ses[o]))
    BY <1>7, <1>16, <1>24 DEF Steady
  <1>26. WorldOK(v, g)
    BY <1>5, <1>23, <1>25, TouchWorld
  <1>27. \A o \in Objects : In(v, o) <=> In(x, o)
    BY <1>23, <1>25, SameIn DEF Steady
  <1>28. Cuts(x, v, t, D)
    <2>1. \A o \in Objects : /\ In(v, o) => In(x, o)
                             /\ v.ses[o].life = x.ses[o].life /\ v.ses[o].mSid = x.ses[o].mSid
                             /\ o # t => v.ses[o].mOutList = x.ses[o].mOutList
      BY <1>24, <1>25, <1>27 DEF Steady
    <2>2. v.ses[t].mOutList = b /\ x.ses[t].mOutList = p
      BY <1>7, <1>9, <1>16, <1>24
    <2>3. \A m \in Msgs : v.msgs[m] = IF m \in D THEN Failed(x.msgs[m], x.ses[t].mSid) ELSE x.msgs[m]
      BY <1>7, <1>20, <1>23
    <2> QED
      BY <1>14, <2>1, <2>2, <2>3 DEF Cuts
  <1>29. MailOK(v, f, l)
    <2>1. \A m \in D : ~AtMessage(l, m)
      BY DEF AtMessage
    <2> QED
      BY <1>5, <1>21, <1>28, <2>1, SettleMail
  <1>30. Sent(s, t, n) = v
    <2>1. z = [m \in Msgs |-> IF m \in Range(SubSeq(ses[t].mOutList, 1, n))
                              THEN Failed(msgs[m], ses[t].mSid) ELSE msgs[m]]
      BY <1>1, <1>6, <1>7, <1>9, <1>11, <1>12
    <2>2. v = [x EXCEPT !.ses[t] = q, !.msgs = z]
      BY <1>17, <1>19
    <2>3. q = [x.ses[t] EXCEPT !.mWriting = FALSE,
                               !.mOutList = SubSeq(ses[t].mOutList, n + 1, Len(ses[t].mOutList))]
      BY <1>1, <1>6, <1>7, <1>9, <1>13, <1>15
    <2>4. x = [World EXCEPT !.ses[s] = [@ EXCEPT !.sendIO = FALSE, !.sendTimer = FALSE]]
      BY <1>1, <1>2
    <2>5. Sent(s, t, n) =
             [x EXCEPT !.ses[t] = [x.ses[t] EXCEPT !.mWriting = FALSE,
                          !.mOutList = SubSeq(ses[t].mOutList, n + 1, Len(ses[t].mOutList))],
                       !.msgs = [m \in Msgs |-> IF m \in Range(SubSeq(ses[t].mOutList, 1, n))
                                                THEN Failed(msgs[m], ses[t].mSid) ELSE msgs[m]]]
      BY <2>4 DEF Sent
    <2>6. Sent(s, t, n) = [x EXCEPT !.ses[t] = q, !.msgs = z]
      BY <2>1, <2>3, <2>5, Zenon
    <2> QED
      BY <2>2, <2>6
  <1>31. In(v, t)
    BY <1>5, <1>27
  <1> QED
    BY <1>1, <1>26, <1>29, <1>30, <1>31 DEF Good

\* The loop inside onSend
IsLoop(p) == p = [at |-> p.at, s |-> p.s, exit |-> p.exit, resp |-> p.resp, sids |-> p.sids]

LEMMA TailRecord ==
    ASSUME NEW p, NEW t, NEW e, IsLoop(p)
    PROVE  [p EXCEPT !.at = "tail", !.s = t, !.exit = e] =
              [at |-> "tail", s |-> t, exit |-> e, resp |-> p.resp, sids |-> p.sids]
  <1>1. PICK k : k = [p EXCEPT !.at = "tail", !.s = t, !.exit = e]
    OBVIOUS
  <1>2. DOMAIN p = {"at", "s", "exit", "resp", "sids"}
    BY DEF IsLoop
  <1>3. /\ DOMAIN k = {"at", "s", "exit", "resp", "sids"}
        /\ k.at = "tail" /\ k.s = t /\ k.exit = e /\ k.resp = p.resp /\ k.sids = p.sids
    BY <1>1, <1>2
  <1>4. k = [x \in {"at", "s", "exit", "resp", "sids"} |-> k[x]]
    BY <1>1, <1>3
  <1> QED
    BY <1>1, <1>3, <1>4

LEMMA TailIs ==
    ASSUME NEW w, NEW t \in Objects, In(w, t), NEW e
    PROVE  /\ LoopOK(w, [Poll EXCEPT !.at = "tail", !.s = t, !.exit = e])
           /\ [Poll EXCEPT !.at = "tail", !.s = t, !.exit = e].at # "to"
  <1>1. PICK p : p = Poll
    OBVIOUS
  <1>2. /\ p = [at |-> p.at, s |-> p.s, exit |-> p.exit, resp |-> p.resp, sids |-> p.sids]
        /\ p.resp \in Responses /\ p.sids \subseteq AnySid
    <2>1. LoopOK(w, p)
      BY <1>1, PollIs, Zenon
    <2> QED
      BY <2>1, Zenon DEF LoopOK
  <1>3. PICK k : k = [at |-> "tail", s |-> t, exit |-> e, resp |-> p.resp, sids |-> p.sids]
    OBVIOUS
  <1>4. [Poll EXCEPT !.at = "tail", !.s = t, !.exit = e] = k
    <2>1. IsLoop(p)
      BY <1>2, Zenon DEF IsLoop
    <2>2. [p EXCEPT !.at = "tail", !.s = t, !.exit = e] =
             [at |-> "tail", s |-> t, exit |-> e, resp |-> p.resp, sids |-> p.sids]
      BY <2>1, TailRecord
    <2> QED
      BY <1>1, <1>3, <2>2, Zenon
  <1>5. LoopOK(w, k) /\ k.at # "to"
    BY <1>2, <1>3 DEF LoopOK
  <1> QED
    BY <1>4, <1>5, Zenon

\* addSend posts a request, or the error is met now or later.
LEMMA SendAgainGood ==
    ASSUME NEW w, NEW g, NEW f, NEW l, Good(w, g, f, l), NEW t \in Objects, In(w, t),
           NotHanded(w, l, t), NEW bad
    PROVE  /\ Good(AddSend(w, t, bad), g, f, l) /\ Calm(w, AddSend(w, t, bad))
           /\ Good(DecodeIfIdle(w, t), g, f, l) /\ Calm(w, DecodeIfIdle(w, t))
           /\ Good(ErrorOrLater(DecodeIfIdle(w, t), t), g, f, l)
           /\ DecodeIfIdle(w, t).ses[t].mRunning => Calm(w, ErrorOrLater(DecodeIfIdle(w, t), t))
  <1>1. WorldOK(w, g) /\ DOMAIN g = Threads
    BY Zenon DEF Good
  <1>2. WorldOK(AddSend(w, t, bad), g) /\ Calm(w, AddSend(w, t, bad))
    BY <1>1, AddSendKeeps
  <1>3. PICK d : d = DecodeIfIdle(w, t)
    OBVIOUS
  <1>4. WorldOK(d, g) /\ Calm(w, d)
    BY <1>1, <1>3, DecodeIfIdleKeeps
  <1>5. Good(d, g, f, l) /\ In(d, t)
    BY <1>4, CalmGood, CalmIn
  <1>6. NotHanded(d, l, t)
    BY <1>4 DEF NotHanded, Calm
  <1>7. Good(ErrorOrLater(d, t), g, f, l) /\ (d.ses[t].mRunning => Calm(d, ErrorOrLater(d, t)))
    BY <1>5, <1>6, ErrorOrLaterGood
  <1>8. d.ses[t].mRunning => Calm(w, ErrorOrLater(d, t))
    BY <1>4, <1>7, CalmTwice
  <1>9. Good(AddSend(w, t, bad), g, f, l)
    BY <1>2, CalmGood
  <1> QED
    BY <1>2, <1>3, <1>4, <1>5, <1>7, <1>8, <1>9

LEMMA OnSendKeeps ==
    ASSUME IocpInv, NEW s \in Objects, NEW n, NEW bad, OnSend(s, n, bad)
    PROVE  IocpInv'
  <1>0. PICK w, g, f, l : Here(w, g, f, l)
    BY Start, Zenon
  <1>1. /\ w.mgr = mgr /\ w.ses = ses /\ w.msgs = msgs /\ w.tasks = tasks
        /\ Good(w, g, f, l) /\ WorldOK(w, g) /\ MailOK(w, f, l) /\ DOMAIN g = Threads
        /\ LoopOK(w, l) /\ l = loop
    BY <1>0, Zenon DEF Here
  <1>2. PICK t : t = Resolve(s)
    OBVIOUS
  <1>3. t \in Objects /\ In(w, t)
    BY <1>1, <1>2, ResolveIn DEF OnSend
  <1>4. n \in 0 .. Len(w.ses[t].mOutList)
    BY <1>1, <1>2 DEF OnSend
  <1>5. work' = work /\ respQ' = respQ /\ loop = Poll
    BY DEF OnSend
  <1>6. l = Poll /\ l.at # "to" /\ \A x : \A o : NotHanded(x, l, o)
    BY <1>1, <1>5, PollIs
  <1>7. PICK x : x = Sent(s, t, n)
    OBVIOUS
  <1>8. Good(x, g, f, l) /\ In(x, t)
    BY <1>0, <1>3, <1>4, <1>6, <1>7, SentGood
  <1>9. PICK d : d = DecodeIfIdle(x, t)
    OBVIOUS
  <1>10. /\ Good(AddSend(x, t, bad), g, f, l) /\ Calm(x, AddSend(x, t, bad))
         /\ Good(d, g, f, l) /\ Calm(x, d) /\ Good(ErrorOrLater(d, t), g, f, l)
         /\ d.ses[t].mRunning => Calm(x, ErrorOrLater(d, t))
    BY <1>3, <1>6, <1>8, <1>9, SendAgainGood
  <1>11. PICK k : k = loop'
    OBVIOUS
  <1>12. PICK e : e = (x.ses[t].mOutList = <<>> /\ x.ses[t].mStatus = "eExit")
    OBVIOUS
  <1>13. PICK lost : lost = (x.ses[t].mOutList # <<>> /\ ~AddSendOK(x, t, bad))
    OBVIOUS
  <1>14. /\ Store(CASE ~(x.ses[t].mOutList # <<>>) -> x
                    [] x.ses[t].mOutList # <<>> /\ ~lost -> AddSend(x, t, bad)
                    [] lost -> ErrorOrLater(d, t))
         /\ k = IF lost /\ ~d.ses[t].mRunning THEN Poll
                ELSE [Poll EXCEPT !.at = "tail", !.s = t, !.exit = e]
    BY <1>2, <1>7, <1>9, <1>11, <1>12, <1>13 DEF OnSend
  <1>15. PICK v : /\ Store(v) /\ Good(v, g, f, l)
                  /\ ~(lost /\ ~d.ses[t].mRunning) => In(v, t)
    <2>1. CASE x.ses[t].mOutList = <<>>
      <3>1. Store(x)
        BY <1>13, <1>14, <2>1
      <3> QED
        BY <1>8, <3>1
    <2>2. CASE x.ses[t].mOutList # <<>> /\ ~lost
      <3>1. Store(AddSend(x, t, bad))
        BY <1>14, <2>2
      <3>2. In(AddSend(x, t, bad), t)
        BY <1>3, <1>8, <1>10, CalmIn
      <3> QED
        BY <1>10, <3>1, <3>2
    <2>3. CASE x.ses[t].mOutList # <<>> /\ lost
      <3>1. Store(ErrorOrLater(d, t))
        BY <1>14, <2>3
      <3>2. d.ses[t].mRunning => In(ErrorOrLater(d, t), t)
        BY <1>3, <1>8, <1>10, CalmIn
      <3> QED
        BY <1>10, <2>3, <3>1, <3>2
    <2> QED
      BY <2>1, <2>2, <2>3
  <1>16. LoopOK(v, k) /\ k.at # "to"
    <2>1. CASE lost /\ ~d.ses[t].mRunning
      BY <1>14, <2>1, PollIs
    <2>2. CASE ~(lost /\ ~d.ses[t].mRunning)
      <3>1. k = [Poll EXCEPT !.at = "tail", !.s = t, !.exit = e] /\ In(v, t)
        BY <1>14, <1>15, <2>2
      <3> QED
        BY <1>3, <3>1, TailIs
    <2> QED
      BY <2>1, <2>2
  <1>17. Good(v, g, f, k)
    <2>1. MailOK(v, f, k)
      BY <1>6, <1>15, <1>16, MailLoop DEF Good
    <2> QED
      BY <1>15, <2>1 DEF Good
  <1> QED
    BY <1>0, <1>1, <1>5, <1>11, <1>15, <1>16, <1>17, LoopStep DEF Here

LEMMA OnSendErrorKeeps ==
    ASSUME IocpInv, NEW s \in Objects, NEW bad, OnSendError(s, bad)
    PROVE  IocpInv'
  <1>0. PICK w, g, f, l : Here(w, g, f, l)
    BY Start, Zenon
  <1>1. /\ w.mgr = mgr /\ w.ses = ses /\ w.msgs = msgs /\ w.tasks = tasks
        /\ Good(w, g, f, l) /\ WorldOK(w, g) /\ MailOK(w, f, l) /\ DOMAIN g = Threads
        /\ LoopOK(w, l) /\ l = loop
    BY <1>0, Zenon DEF Here
  <1>2. PICK t : t = Resolve(s)
    OBVIOUS
  <1>3. t \in Objects /\ In(w, t)
    BY <1>1, <1>2, ResolveIn DEF OnSendError
  <1>4. 0 \in 0 .. Len(w.ses[t].mOutList)
    <2>1. w.ses[t].mOutList \in Seq(Msgs)
      BY <1>1, <1>3, OutListHolds
    <2> QED
      BY <2>1, LenProperties
  <1>5. loop' = loop /\ work' = work /\ respQ' = respQ /\ loop = Poll
    BY DEF OnSendError
  <1>6. l = Poll /\ l.at # "to" /\ \A x : \A o : NotHanded(x, l, o)
    BY <1>1, <1>5, PollIs
  <1>7. PICK x : x = Sent(s, t, 0)
    OBVIOUS
  <1>8. Good(x, g, f, l) /\ In(x, t)
    BY <1>0, <1>3, <1>4, <1>6, <1>7, SentGood
  <1>9. Good(ErrorOrLater(x, t), g, f, l)
    BY <1>3, <1>6, <1>8, ErrorOrLaterGood
  <1>10. Good(ErrorOrLater(DecodeIfIdle(x, t), t), g, f, l)
    BY <1>3, <1>6, <1>8, SendAgainGood
  <1>11. Store(ErrorOrLater(x, t)) \/ Store(ErrorOrLater(DecodeIfIdle(x, t), t))
    BY <1>2, <1>7 DEF OnSendError
  <1>12. PICK v : Store(v) /\ Good(v, g, f, l)
    BY <1>9, <1>10, <1>11
  <1>13. LoopOK(v, l)
    BY <1>6, PollIs
  <1> QED
    BY <1>0, <1>1, <1>5, <1>12, <1>13, LoopStep DEF Here

\* Assigning the table, or one message, leaves the rest of the world alone.
LEMMA MgrWorld ==
    ASSUME NEW w, WorldTyped(w), NEW M, NEW v, v = [w EXCEPT !.mgr = M]
    PROVE  WorldTyped(v) /\ v.mgr = M /\ v.ses = w.ses /\ v.msgs = w.msgs /\ v.tasks = w.tasks
  <1>1. w = [mgr |-> w.mgr, ses |-> w.ses, msgs |-> w.msgs, tasks |-> w.tasks]
    BY DEF WorldTyped
  <1>2. v = [mgr |-> M, ses |-> w.ses, msgs |-> w.msgs, tasks |-> w.tasks]
    BY <1>1
  <1>3. v.mgr = M /\ v.ses = w.ses /\ v.msgs = w.msgs /\ v.tasks = w.tasks
    BY <1>2
  <1> QED
    BY <1>2, <1>3 DEF WorldTyped

MsgEdited(w, v, m, y) ==
    /\ WorldTyped(v) /\ v.mgr = w.mgr /\ v.ses = w.ses /\ v.tasks = w.tasks
    /\ v.msgs[m] = y /\ \A n \in Msgs : n # m => v.msgs[n] = w.msgs[n]

LEMMA MsgWorld ==
    ASSUME NEW w, WorldTyped(w), NEW m \in Msgs, NEW y, IsMessage(y),
           NEW v, v = [w EXCEPT !.msgs[m] = y]
    PROVE  MsgEdited(w, v, m, y)
  <1>1. /\ w = [mgr |-> w.mgr, ses |-> w.ses, msgs |-> w.msgs, tasks |-> w.tasks]
        /\ DOMAIN w.msgs = Msgs
    BY DEF WorldTyped
  <1>2. PICK z : z = [w.msgs EXCEPT ![m] = y]
    OBVIOUS
  <1>3. v = [mgr |-> w.mgr, ses |-> w.ses, msgs |-> z, tasks |-> w.tasks]
    BY <1>1, <1>2
  <1>4. v.mgr = w.mgr /\ v.ses = w.ses /\ v.msgs = z /\ v.tasks = w.tasks
    BY <1>3
  <1>5. DOMAIN z = Msgs /\ z[m] = y /\ \A n \in Msgs : n # m => z[n] = w.msgs[n]
    BY <1>1, <1>2
  <1>6. WorldTyped(v)
    BY <1>3, <1>4, <1>5 DEF WorldTyped
  <1> QED
    BY <1>4, <1>5, <1>6 DEF MsgEdited

\* A step that concerns a session outside the table only
LEMMA ApartMail ==
    ASSUME NEW w, NEW v, NEW f, NEW l, MailOK(w, f, l), v.msgs = w.msgs,
           \A t \in Objects : In(v, t) => In(w, t) /\ v.ses[t] = w.ses[t],
           \A t \in Objects : v.ses[t].life = "unborn" => w.ses[t].life = "unborn"
    PROVE  MailOK(v, f, l)
  <1>1. ASSUME NEW m \in HandlerMsgs
        PROVE  MessageOK(v, f, l, m)
    <2>1. MessageOK(w, f, l, m)
      BY DEF MailOK
    <2>2. Pending(v, f, l, m) = Pending(w, f, l, m)
      BY DEF Pending
    <2> QED
      BY <2>1, <2>2 DEF MessageOK
  <1>2. ASSUME NEW x \in Objects
        PROVE  RefusalOK(v, x) /\ OutListOK(v, x)
    <2>1. RefusalOK(w, x) /\ OutListOK(w, x)
      BY DEF MailOK
    <2> QED
      BY <2>1 DEF RefusalOK, OutListOK
  <1> QED
    BY <1>1, <1>2 DEF MailOK

\* A new session has no message, or the one that refuses it.
Joins(w, v, s) ==
    /\ w.ses[s].life = "unborn" /\ v.ses[s].life = "live"
    /\ \A t \in Objects : In(v, t) <=> In(w, t) \/ t = s
    /\ \A t \in Objects : t # s => v.ses[t] = w.ses[t]
    /\ v.ses[s].mOutList \in {<<>>, <<RefusedMsg(s)>>}
    /\ \A m \in Msgs : m # RefusedMsg(s) => v.msgs[m] = w.msgs[m]
    /\ v.msgs[RefusedMsg(s)].to = w.msgs[RefusedMsg(s)].to
    /\ v.msgs[RefusedMsg(s)].completions = w.msgs[RefusedMsg(s)].completions

LEMMA JoinMail ==
    ASSUME NEW w, NEW v, NEW f, NEW l, MailOK(w, f, l), NEW s \in Objects, Joins(w, v, s)
    PROVE  MailOK(v, f, l)
  <1>1. ~In(w, s)
    BY DEF Joins, In
  <1>2. \A m : Holds(v.ses[s].mOutList, m) => m = RefusedMsg(s)
    BY DEF Joins, Holds
  <1>3. ASSUME NEW m \in HandlerMsgs
        PROVE  MessageOK(v, f, l, m)
    <2>1. MessageOK(w, f, l, m) /\ m \in Msgs /\ m # RefusedMsg(s)
      BY MsgsParts DEF MailOK
    <2>2. v.msgs[m] = w.msgs[m]
      BY <2>1 DEF Joins
    <2>3. Pending(v, f, l, m) = Pending(w, f, l, m)
      BY <2>2 DEF Pending
    <2>4. \A t \in Objects : In(v, t) /\ Holds(v.ses[t].mOutList, m) => In(w, t) /\ v.ses[t] = w.ses[t]
      BY <1>2, <2>1 DEF Joins
    <2> QED
      BY <2>1, <2>2, <2>3, <2>4 DEF MessageOK
  <1>4. ASSUME NEW x \in Objects
        PROVE  RefusalOK(v, x)
    <2>1. RefusalOK(w, x) /\ RefusalOK(w, s) /\ RefusedMsg(x) \in Msgs
      BY MsgsParts DEF MailOK
    <2>2. CASE x = s
      <3>1. w.msgs[RefusedMsg(s)].completions = 0 /\ v.msgs[RefusedMsg(s)].completions = 0
        BY <2>1 DEF Joins, RefusalOK
      <3>2. \A t \in Objects : In(w, t) => ~Holds(w.ses[t].mOutList, RefusedMsg(s))
        BY <1>1, <2>1 DEF RefusalOK
      <3>3. \A t \in Objects : In(v, t) /\ Holds(v.ses[t].mOutList, RefusedMsg(s)) => t = s
        BY <3>2 DEF Joins
      <3> QED
        BY <2>1, <2>2, <3>1, <3>3 DEF RefusalOK, Joins
    <2>3. CASE x # s
      <3>1. RefusedMsg(x) # RefusedMsg(s)
        BY <2>3, MsgsParts
      <3>2. v.msgs[RefusedMsg(x)] = w.msgs[RefusedMsg(x)] /\ v.ses[x] = w.ses[x]
        BY <2>1, <2>3, <3>1 DEF Joins
      <3>3. \A t \in Objects : In(v, t) /\ Holds(v.ses[t].mOutList, RefusedMsg(x)) =>
                In(w, t) /\ v.ses[t] = w.ses[t]
        BY <1>2, <3>1 DEF Joins
      <3> QED
        BY <2>1, <3>2, <3>3 DEF RefusalOK
    <2> QED
      BY <2>2, <2>3
  <1>5. ASSUME NEW x \in Objects
        PROVE  OutListOK(v, x)
    <2>1. OutListOK(w, x) /\ RefusedMsg(s) \in Msgs
      BY MsgsParts DEF MailOK
    <2>2. CASE x = s
      <3>1. <<>> \in Seq(Msgs) /\ <<RefusedMsg(s)>> \in Seq(Msgs)
        BY <2>1
      <3>2. Injective(<<>>) /\ Injective(<<RefusedMsg(s)>>)
        BY DEF Injective
      <3> QED
        BY <2>2, <3>1, <3>2 DEF OutListOK, Joins
    <2>3. CASE x # s
      BY <2>1, <2>3 DEF OutListOK, Joins
    <2> QED
      BY <2>2, <2>3
  <1> QED
    BY <1>3, <1>4, <1>5 DEF MailOK

\* addSession
Opened(x, v, s, sid) ==
    /\ WorldTyped(v) /\ v.mgr = x.mgr /\ v.msgs = x.msgs /\ v.tasks = x.tasks
    /\ v.ses[s].life = "live" /\ v.ses[s].mSid = sid /\ v.ses[s].mRunning = FALSE
    /\ v.ses[s].freePosted = FALSE /\ ~Timed(v.ses[s]) /\ v.ses[s].mOutList = <<>>
    /\ \A t \in Objects : t # s => v.ses[t] = x.ses[t]

LEMMA AddSessionWorld ==
    ASSUME NEW x, WorldTyped(x), NEW s \in Objects, NEW sid
    PROVE  Opened(x, AddSession(x, s, sid), s, sid)
  <1>1. PICK v : v = AddSession(x, s, sid)
    OBVIOUS
  <1>3. PICK n : n = NewSession
    OBVIOUS
  <1>4. /\ IsSession(n) /\ n.mRunning = FALSE /\ n.freePosted = FALSE /\ ~Timed(n)
        /\ n.mOutList = <<>>
    BY <1>3 DEF NewSession, IsSession, Timed
  <1>5. PICK q : q = [n EXCEPT !.life = "live", !.mSid = sid]
    OBVIOUS
  <1>6. /\ IsSession(q) /\ q.life = "live" /\ q.mSid = sid /\ q.mRunning = FALSE
        /\ q.freePosted = FALSE /\ ~Timed(q) /\ q.mOutList = <<>>
    BY <1>4, <1>5 DEF IsSession, Timed
  <1>7. v = [x EXCEPT !.ses[s] = q]
    BY <1>1, <1>3, <1>5 DEF AddSession
  <1>8. Edited(x, v, s, q)
    BY <1>6, <1>7, EditWorld
  <1> QED
    BY <1>1, <1>6, <1>8 DEF Edited, Opened

\* The world with the new session, and the one in which it is refused
Accepts(w, v, s) ==
    /\ w.ses[s].life = "unborn" /\ AllocKeyOf(w.mgr) # 0
    /\ Enters(w, v, s) /\ v.ses[s].mOutList \in {<<>>, <<RefusedMsg(s)>>}
    /\ \A m \in Msgs : m # RefusedMsg(s) => v.msgs[m] = w.msgs[m]
    /\ v.msgs[RefusedMsg(s)].to = w.msgs[RefusedMsg(s)].to
    /\ v.msgs[RefusedMsg(s)].completions = w.msgs[RefusedMsg(s)].completions

LEMMA AcceptGood ==
    ASSUME NEW w, NEW g, NEW f, NEW l, Good(w, g, f, l), NEW s \in Objects,
           NEW v, Accepts(w, v, s)
    PROVE  Good(v, g, f, l) /\ In(v, s) /\ ~v.ses[s].mRunning
  <1>1. WorldOK(w, g) /\ MailOK(w, f, l) /\ DOMAIN g = Threads
    BY Zenon DEF Good
  <1>2. WorldOK(v, g) /\ ~In(w, s) /\ \A t \in Objects : In(v, t) <=> In(w, t) \/ t = s
    BY <1>1, EnterOne DEF Accepts
  <1>3. Joins(w, v, s)
    BY <1>2 DEF Joins, Enters, Accepts
  <1>4. MailOK(v, f, l)
    BY <1>1, <1>3, JoinMail
  <1> QED
    BY <1>1, <1>2, <1>4 DEF Good, Enters, Accepts

\* The busy message is put in the list of the new session, which will exit.
Refuse(n, s) ==
    [n EXCEPT !.ses[s] = [@ EXCEPT !.mOutList = <<RefusedMsg(s)>>, !.mStatus = "eExit"],
              !.msgs[RefusedMsg(s)].made = TRUE]

LEMMA RefusedGood ==
    ASSUME NEW w, NEW g, NEW f, NEW l, Good(w, g, f, l), NEW s \in Objects,
           NEW n, Accepts(w, n, s), n.msgs = w.msgs
    PROVE  Good(Refuse(n, s), g, f, l) /\ In(Refuse(n, s), s)
  <1>0. PICK v : v = Refuse(n, s)
    OBVIOUS
  <1>1. PICK m \in Msgs : m = RefusedMsg(s)
    BY MsgsParts
  <1>2. PICK r : r = n.ses[s]
    OBVIOUS
  <1>3. PICK q : q = [r EXCEPT !.mOutList = <<m>>, !.mStatus = "eExit"]
    OBVIOUS
  <1>4. PICK x : x = [n EXCEPT !.ses[s] = q]
    OBVIOUS
  <1>5. PICK y : y = [n.msgs[m] EXCEPT !.made = TRUE]
    OBVIOUS
  <1>6. WorldTyped(n) /\ IsSession(r) /\ IsMessage(n.msgs[m])
    BY <1>2 DEF Accepts, Enters, WorldTyped
  <1>7. /\ IsSession(q) /\ q.life = r.life /\ q.mSid = r.mSid /\ q.mRunning = r.mRunning
        /\ q.freePosted = r.freePosted /\ (Timed(q) <=> Timed(r)) /\ q.mOutList = <<m>>
    BY <1>3, <1>6 DEF IsSession, Timed
  <1>8. Edited(n, x, s, q)
    BY <1>4, <1>6, <1>7, EditWorld
  <1>9. WorldTyped(x) /\ x.msgs = n.msgs
    BY <1>8 DEF Edited
  <1>10. IsMessage(y) /\ y.to = n.msgs[m].to /\ y.completions = n.msgs[m].completions
    <2>1. PICK z : z = n.msgs[m]
      OBVIOUS
    <2>2. y = [made |-> TRUE, to |-> z.to, completions |-> z.completions]
      BY <1>5, <1>6, <2>1 DEF IsMessage
    <2> QED
      BY <2>1, <2>2 DEF IsMessage
  <1>11. v = [x EXCEPT !.msgs[m] = y]
    BY <1>0, <1>1, <1>2, <1>3, <1>4, <1>5 DEF Refuse
  <1>12. MsgEdited(x, v, m, y)
    BY <1>9, <1>10, <1>11, MsgWorld
  <1>13. /\ WorldTyped(v) /\ v.mgr = n.mgr /\ v.tasks = n.tasks /\ v.ses[s] = q
         /\ \A t \in Objects : t # s => v.ses[t] = n.ses[t]
         /\ v.msgs[m] = y /\ \A o \in Msgs : o # m => v.msgs[o] = n.msgs[o]
    BY <1>8, <1>9, <1>12 DEF Edited, MsgEdited
  <1>14. Enters(w, v, s)
    BY <1>2, <1>7, <1>13 DEF Enters, Accepts
  <1>15. v.ses[s].mOutList \in {<<>>, <<RefusedMsg(s)>>}
    BY <1>1, <1>7, <1>13
  <1>16. /\ \A o \in Msgs : o # RefusedMsg(s) => v.msgs[o] = w.msgs[o]
         /\ v.msgs[RefusedMsg(s)].to = w.msgs[RefusedMsg(s)].to
         /\ v.msgs[RefusedMsg(s)].completions = w.msgs[RefusedMsg(s)].completions
    BY <1>1, <1>10, <1>13
  <1>17. Accepts(w, v, s)
    BY <1>14, <1>15, <1>16 DEF Accepts
  <1> QED
    BY <1>0, <1>17, AcceptGood

\* addSession fails: the session is deleted and its key removed.
Return(w, M, s) == [w EXCEPT !.mgr = M, !.ses[s].life = "deleted"]

LEMMA AcceptFailsGood ==
    ASSUME NEW w, NEW g, NEW f, NEW l, Good(w, g, f, l), NEW s \in Objects,
           w.ses[s].life = "unborn", AllocKeyOf(w.mgr) # 0, NEW M,
           M = Remove(AllocKey(w.mgr), AllocKeyOf(w.mgr))
    PROVE  Good(Return(w, M, s), g, f, l)
  <1>1. WorldOK(w, g) /\ MailOK(w, f, l) /\ DOMAIN g = Threads
    BY Zenon DEF Good
  <1>2. PICK x : x = [w EXCEPT !.mgr = M]
    OBVIOUS
  <1>3. WorldTyped(w) /\ IsSession(w.ses[s])
    BY <1>1, SessionIn
  <1>4. WorldTyped(x) /\ x.mgr = M /\ x.ses = w.ses /\ x.msgs = w.msgs /\ x.tasks = w.tasks
    BY <1>2, <1>3, MgrWorld
  <1>5. PICK r : r = w.ses[s]
    OBVIOUS
  <1>6. PICK q : q = [r EXCEPT !.life = "deleted"]
    OBVIOUS
  <1>7. /\ IsSession(q) /\ q.life = "deleted" /\ q.mSid = r.mSid /\ q.mRunning = r.mRunning
        /\ q.freePosted = r.freePosted /\ (Timed(q) <=> Timed(r))
    BY <1>3, <1>5, <1>6 DEF IsSession, Timed
  <1>8. PICK v : v = [x EXCEPT !.ses[s] = q]
    OBVIOUS
  <1>9. Edited(x, v, s, q)
    BY <1>4, <1>7, <1>8, EditWorld
  <1>10. Returns(w, v, s) /\ v.msgs = w.msgs
    BY <1>4, <1>5, <1>7, <1>9 DEF Returns, Edited
  <1>11. WorldOK(v, g) /\ \A t \in Objects : In(v, t) <=> In(w, t)
    BY <1>1, <1>10, EnterFails
  <1>12. MailOK(v, f, l)
    <2>1. \A t \in Objects : In(v, t) => In(w, t) /\ v.ses[t] = w.ses[t]
      BY <1>10, <1>11 DEF Returns, In
    <2>2. \A t \in Objects : v.ses[t].life = "unborn" => w.ses[t].life = "unborn"
      BY <1>10 DEF Returns
    <2> QED
      BY <1>1, <1>10, <2>1, <2>2, ApartMail
  <1>13. Return(w, M, s) = v
    BY <1>2, <1>4, <1>5, <1>6, <1>8 DEF Return
  <1> QED
    BY <1>1, <1>11, <1>12, <1>13 DEF Good

\* onAccept
LEMMA OnAcceptKeeps ==
    ASSUME IocpInv, NEW s \in Objects, NEW fail, NEW bad, OnAccept(s, fail, bad)
    PROVE  IocpInv'
  <1>0. PICK w, g, f, l : Here(w, g, f, l)
    BY Start, Zenon
  <1>1. /\ w.mgr = mgr /\ w.ses = ses /\ w.msgs = msgs /\ w.tasks = tasks
        /\ Good(w, g, f, l) /\ WorldOK(w, g) /\ MailOK(w, f, l) /\ DOMAIN g = Threads
        /\ LoopOK(w, l) /\ l = loop /\ w = World
    BY <1>0, Zenon DEF Here
  <1>2. loop' = loop /\ work' = work /\ respQ' = respQ /\ loop = Poll
    BY DEF OnAccept
  <1>3. l = Poll /\ LoopOK(w, l) /\ \A x : LoopOK(x, l) /\ \A o : NotHanded(x, l, o)
    BY <1>1, <1>2, PollIs
  <1>4. w.ses[s].life = "unborn" /\ AllocKeyOf(w.mgr) # 0
    BY <1>1 DEF OnAccept
  <1>5. PICK sid : sid = [mKey |-> AllocKeyOf(mgr), mSeq |-> AllocSeqOf(mgr)]
    OBVIOUS
  <1>6. PICK n : n = AddSession([w EXCEPT !.mgr = Put(AllocKey(mgr), sid.mKey, s)], s, sid)
    OBVIOUS
  <1>7. WorldTyped(w) /\ RefusedMsg(s) \in Msgs
    BY <1>1, SessionIn, MsgsParts
  <1>8. /\ WorldTyped(n) /\ n.mgr = Put(AllocKey(mgr), sid.mKey, s) /\ n.msgs = w.msgs
        /\ n.tasks = w.tasks
        /\ n.ses[s].life = "live" /\ n.ses[s].mSid = sid /\ n.ses[s].mRunning = FALSE
        /\ n.ses[s].freePosted = FALSE /\ ~Timed(n.ses[s]) /\ n.ses[s].mOutList = <<>>
        /\ \A t \in Objects : t # s => n.ses[t] = w.ses[t]
    <2>1. PICK P : P = Put(AllocKey(mgr), sid.mKey, s)
      OBVIOUS
    <2>2. PICK x : x = [w EXCEPT !.mgr = P]
      OBVIOUS
    <2>3. WorldTyped(x) /\ x.mgr = P /\ x.ses = w.ses /\ x.msgs = w.msgs /\ x.tasks = w.tasks
      BY <1>7, <2>2, MgrWorld
    <2>4. n = AddSession(x, s, sid)
      BY <1>6, <2>1, <2>2, Zenon
    <2>5. Opened(x, n, s, sid)
      BY <2>3, <2>4, AddSessionWorld
    <2> QED
      BY <2>1, <2>3, <2>5 DEF Opened
  <1>9. Accepts(w, n, s)
    <2>1. Enters(w, n, s)
      BY <1>1, <1>5, <1>8 DEF Enters
    <2> QED
      BY <1>4, <1>7, <1>8, <2>1 DEF Accepts
  <1>10. PICK d : d = Refuse(n, s)
    OBVIOUS
  <1>11. PICK M : M = Remove(AllocKey(mgr), sid.mKey)
    OBVIOUS
  <1>12. \/ Store(Return(w, M, s))
         \/ Store([AddSend(d, s, bad) EXCEPT !.ses[s].missed = s \in bad])
         \/ Store(DoStart(n, s))
    BY <1>1, <1>5, <1>6, <1>10, <1>11 DEF OnAccept, Refuse, Return
  <1>13. PICK v : Store(v) /\ Good(v, g, f, l)
    <2>1. CASE Store(Return(w, M, s))
      <3>1. M = Remove(AllocKey(w.mgr), AllocKeyOf(w.mgr))
        BY <1>1, <1>5, <1>11
      <3>2. Good(Return(w, M, s), g, f, l)
        BY <1>1, <1>4, <3>1, AcceptFailsGood
      <3> QED
        BY <2>1, <3>2
    <2>2. CASE Store([AddSend(d, s, bad) EXCEPT !.ses[s].missed = s \in bad])
      <3>1. Good(d, g, f, l) /\ In(d, s)
        BY <1>1, <1>8, <1>9, <1>10, RefusedGood
      <3>2. PICK x : x = AddSend(d, s, bad)
        OBVIOUS
      <3>3. Good(x, g, f, l)
        BY <1>3, <3>1, <3>2, SendAgainGood
      <3>4. PICK r : r = x.ses[s]
        OBVIOUS
      <3>5. PICK q : q = [r EXCEPT !.missed = s \in bad]
        OBVIOUS
      <3>6. WorldOK(x, g)
        BY <3>3, Zenon DEF Good
      <3>7. IsSession(r)
        BY <3>4, <3>6, SessionIn
      <3>8. Touches(x, s, q)
        BY <3>4, <3>5, <3>7 DEF Touches, IsSession, Steady, Timed
      <3>9. Good([x EXCEPT !.ses[s] = q], g, f, l)
        BY <3>3, <3>8, TouchGood
      <3>10. Store([x EXCEPT !.ses[s] = q])
        BY <2>2, <3>2, <3>4, <3>5
      <3> QED
        BY <3>9, <3>10
    <2>3. CASE Store(DoStart(n, s))
      <3>2. Good(n, g, f, l) /\ In(n, s) /\ ~n.ses[s].mRunning
        BY <1>1, <1>9, AcceptGood
      <3>3. WorldOK(n, g)
        BY <3>2, Zenon DEF Good
      <3>4. "start" \in HandlerKinds
        BY DEF HandlerKinds
      <3>5. WorldOK(DoStart(n, s), g) /\ Calm(n, DoStart(n, s))
        BY <1>1, <3>2, <3>3, <3>4, MarkRunning DEF DoStart
      <3>6. Good(DoStart(n, s), g, f, l)
        BY <3>2, <3>5, CalmGood
      <3> QED
        BY <2>3, <3>6
    <2> QED
      BY <1>12, <2>1, <2>2, <2>3
  <1>14. LoopOK(v, l)
    BY <1>3
  <1> QED
    BY <1>0, <1>1, <1>2, <1>13, <1>14, LoopStep DEF Here

-----------------------------------------------------------------------------
(* onResponse *)

\* A step that stores a world
LEMMA StoreWorld ==
    ASSUME NEW v, NEW g, WorldOK(v, g), Store(v)
    PROVE  World' = v
  <1>1. v = [mgr |-> v.mgr, ses |-> v.ses, msgs |-> v.msgs, tasks |-> v.tasks]
    BY DEF WorldOK, WorldTyped
  <1> QED
    BY <1>1 DEF World, Store

\* The loop inside onResponse
LEMMA RespondingIs ==
    ASSUME NEW at, NEW resp, NEW sids
    PROVE  /\ Responding(at, resp, sids).at = at /\ Responding(at, resp, sids).resp = resp
           /\ Responding(at, resp, sids).sids = sids /\ IsLoop(Responding(at, resp, sids))
  <1>1. PICK p : p = Poll
    OBVIOUS
  <1>2. IsLoop(p)
    BY <1>1, PollIs DEF LoopOK, IsLoop
  <1>3. PICK k : k = [p EXCEPT !.at = at, !.resp = resp, !.sids = sids]
    OBVIOUS
  <1>4. Responding(at, resp, sids) = k
    BY <1>1, <1>3 DEF Responding
  <1>5. k = [at |-> at, s |-> p.s, exit |-> p.exit, resp |-> resp, sids |-> sids]
    BY <1>2, <1>3 DEF IsLoop
  <1> QED
    BY <1>4, <1>5 DEF IsLoop

LEMMA ClosingIs ==
    ASSUME NEW resp \in Responses, NEW sids \in SUBSET AnySid
    PROVE  Closing(resp, sids).at # "to" /\ \A w : LoopOK(w, Closing(resp, sids))
  <1>1. CASE sids = {}
    <2>1. Closing(resp, sids) = [Poll EXCEPT !.at = "process"]
      BY <1>1 DEF Closing
    <2> QED
      BY <2>1, ProcessIs
  <1>2. CASE sids # {}
    <2>1. PICK k : k = Responding("close", resp, sids)
      OBVIOUS
    <2>2. Closing(resp, sids) = k
      BY <1>2, <2>1 DEF Closing
    <2>3. k.at = "close" /\ k.resp = resp /\ k.sids = sids /\ IsLoop(k)
      BY <2>1, RespondingIs
    <2>4. \A w : LoopOK(w, k)
      BY <2>3 DEF LoopOK, IsLoop
    <2> QED
      BY <2>2, <2>3, <2>4
  <1> QED
    BY <1>1, <1>2

\* The turn of the session that the response is from
LEMMA FromGood ==
    ASSUME NEW w, NEW g, NEW f, NEW l, Good(w, g, f, l), NEW s \in Objects, In(w, s),
           l.at # "to", NEW bad
    PROVE  /\ Good(FromSession(w, s, bad), g, f, l)
           /\ \A m \in Msgs : ~Holds(w.ses[s].mOutList, m) =>
                 FromSession(w, s, bad).msgs[m] = w.msgs[m]
  <1>1. WorldOK(w, g) /\ DOMAIN g = Threads
    BY Zenon DEF Good
  <1>2. PICK v : v = FromSession(w, s, bad)
    OBVIOUS
  <1>3. CASE w.ses[s].mStatus # "eNormal"
    <2>1. PICK q : q = [w.ses[s] EXCEPT !.mStatus = "eExit"]
      OBVIOUS
    <2>2. Touches(w, s, q)
      BY <1>1, <2>1, TouchesField
    <2>3. v = [w EXCEPT !.ses[s] = q]
      BY <1>2, <1>3, <2>1 DEF FromSession
    <2>4. Good(v, g, f, l) /\ Calm(w, v)
      BY <2>2, <2>3, TouchGood
    <2> QED
      BY <1>2, <2>4 DEF Calm
  <1>4. CASE w.ses[s].mStatus = "eNormal" /\ AddRecvOK(w, s, bad)
    <2>1. PICK x : x = AddRecv(w, s, bad)
      OBVIOUS
    <2>2. WorldOK(x, g) /\ Calm(w, x)
      BY <1>1, <2>1, AddRecvKeeps
    <2>3. In(x, s)
      BY <2>2, CalmIn
    <2>4. v = DecodeIfIdle(x, s)
      BY <1>2, <1>4, <2>1 DEF FromSession
    <2>5. WorldOK(v, g) /\ Calm(x, v)
      BY <1>1, <2>2, <2>3, <2>4, DecodeIfIdleKeeps
    <2>6. Calm(w, v)
      BY <2>2, <2>5, CalmTwice
    <2>7. Good(v, g, f, l)
      BY <2>5, <2>6, CalmGood
    <2> QED
      BY <1>2, <2>6, <2>7 DEF Calm
  <1>5. CASE w.ses[s].mStatus = "eNormal" /\ ~AddRecvOK(w, s, bad) /\ w.ses[s].mRunning
    <2>1. v = w
      BY <1>2, <1>5 DEF FromSession
    <2> QED
      BY <1>2, <2>1
  <1>6. CASE w.ses[s].mStatus = "eNormal" /\ ~AddRecvOK(w, s, bad) /\ ~w.ses[s].mRunning
    <2>1. v = AddTask(GivenUp(FailOutList(w, s), s), "error", s)
      BY <1>2, <1>6 DEF FromSession, DoError
    <2>2. "error" \in FinalKinds /\ NotHanded(w, l, s)
      BY DEF FinalKinds, NotHanded, AtMessage
    <2>3. Good(v, g, f, l) /\ \A m \in Msgs : ~Holds(w.ses[s].mOutList, m) => v.msgs[m] = w.msgs[m]
      BY <1>6, <2>1, <2>2, FailsGood
    <2> QED
      BY <1>2, <2>3
  <1> QED
    BY <1>3, <1>4, <1>5, <1>6

\* A response leaves the queue for the loop, with its message.
Fetches(v, f, h, l, k) ==
    /\ l.at # "to" /\ k.at = "to" /\ k.resp \in Responses
    /\ \A m \in HandlerMsgs : f[m] \in Nat /\ h[m] \in Nat /\ f[m] = Flag(k.resp.msg = m) + h[m]
    /\ k.resp.msg # 0 => k.sids = v.msgs[k.resp.msg].to

LEMMA FetchMail ==
    ASSUME NEW v, NEW f, NEW h, NEW l, NEW k, MailOK(v, f, l), Fetches(v, f, h, l, k)
    PROVE  MailOK(v, h, k)
  <1>1. ASSUME NEW m \in HandlerMsgs
        PROVE  MessageOK(v, h, k, m)
    <2>1. MessageOK(v, f, l, m) /\ ~AtMessage(l, m) /\ m # 0
      BY IocpAssumption DEF MailOK, Fetches, AtMessage, HandlerMsgs
    <2>2. f[m] \in {0, 1}
      BY <2>1 DEF MessageOK, Flag, Fetches
    <2>3. CASE k.resp.msg = m
      <3>1. f[m] = 1 /\ h[m] = 0 /\ AtMessage(k, m)
        BY <2>2, <2>3 DEF Fetches, Flag, AtMessage
      <3>2. k.sids = v.msgs[m].to /\ Pending(v, f, l, m) = v.msgs[m].to
        BY <2>1, <2>3, <3>1 DEF Fetches, Pending
      <3>3. Pending(v, h, k, m) = v.msgs[m].to
        BY <3>1, <3>2 DEF Pending
      <3>4. h[m] + Flag(AtMessage(k, m)) = 1
        BY <3>1 DEF Flag
      <3>5. v.msgs[m].made /\ v.msgs[m].completions = 0
        BY <2>1, <3>1 DEF MessageOK
      <3>6. \A s \in Objects : ~(In(v, s) /\ Holds(v.ses[s].mOutList, m))
        BY <2>1, <3>2 DEF MessageOK
      <3>7. v.msgs[m].to \subseteq AnySid
        BY <2>1 DEF MessageOK
      <3> QED
        BY <3>3, <3>4, <3>5, <3>6, <3>7 DEF MessageOK
    <2>4. CASE k.resp.msg # m
      <3>1. h[m] = f[m] /\ ~AtMessage(k, m)
        <4>1. Flag(k.resp.msg = m) = 0 /\ f[m] \in Nat /\ h[m] \in Nat
          BY <2>4 DEF Fetches, Flag
        <4>2. f[m] = Flag(k.resp.msg = m) + h[m]
          BY DEF Fetches
        <4> QED
          BY <2>4, <4>1, <4>2 DEF AtMessage
      <3>2. Pending(v, h, k, m) = Pending(v, f, l, m)
        BY <2>1, <3>1 DEF Pending
      <3>3. Flag(AtMessage(k, m)) = Flag(AtMessage(l, m))
        BY <2>1, <3>1 DEF Flag
      <3> QED
        BY <2>1, <3>1, <3>2, <3>3 DEF MessageOK
    <2> QED
      BY <2>3, <2>4
  <1> QED
    BY <1>1 DEF MailOK

\* How often a message is on its way is a number.
LEMMA FlightsType ==
    ASSUME IocpInv, NEW m \in HandlerMsgs
    PROVE  /\ Flights[m] \in Nat /\ Flights[m] = Count(Carried, {m}) + Count(respQ, With(m))
           /\ Count(Carried, {m}) \in Nat /\ Count(respQ, With(m)) \in Nat
  <1>1. DOMAIN Carried = Threads /\ IsFiniteSet(Threads)
    BY IocpAssumption DEF Carried
  <1>2. Count(Carried, {m}) \in Nat
    BY <1>1, CountFunType
  <1>3. respQ \in Seq(Responses)
    BY DEF IocpInv
  <1>4. Count(respQ, With(m)) \in Nat
    BY <1>3, CountSeqType
  <1> QED
    BY <1>2, <1>4 DEF Flights, InQueue

\* onResponse begins: the sender's turn.
LEMMA ResponseFromKeeps ==
    ASSUME IocpInv, NEW bad, ResponseFrom(bad)
    PROVE  IocpInv'
  <1>0. PICK w, g, f, l : Here(w, g, f, l)
    BY Start, Zenon
  <1>1. /\ w.mgr = mgr /\ w.ses = ses /\ w.msgs = msgs /\ w.tasks = tasks
        /\ Good(w, g, f, l) /\ WorldOK(w, g) /\ MailOK(w, f, l) /\ DOMAIN g = Threads
        /\ LoopOK(w, l) /\ l = loop /\ w = World /\ f = Flights /\ g = Grips
    BY <1>0, Zenon DEF Here
  <1>2. PICK resp : resp = Head(respQ)
    OBVIOUS
  <1>3. respQ \in Seq(Responses) /\ respQ # <<>>
    BY DEF IocpInv, ResponseFrom
  <1>4. resp \in Responses /\ Tail(respQ) \in Seq(Responses)
    BY <1>2, <1>3, HeadTailProperties
  <1>5. resp.from \in AnySid /\ resp.msg \in HandlerMsgs \cup {0}
    BY <1>4 DEF Responses
  <1>6. PICK s : s = InWorld(w, resp.from)
    OBVIOUS
  <1>7. s # NULL => s \in Objects /\ In(w, s)
    BY <1>1, <1>5, <1>6, GetIn DEF InWorld
  <1>8. l.at # "to" /\ respQ' = Tail(respQ) /\ work' = work
    BY <1>1 DEF ResponseFrom
  <1>9. PICK v : v = IF s = NULL THEN w ELSE FromSession(w, s, bad)
    OBVIOUS
  <1>10. PICK k : k = loop'
    OBVIOUS
  <1>11. Store(v) /\ k = Responding("to", resp, IF resp.msg = 0 THEN {} ELSE w.msgs[resp.msg].to)
    BY <1>1, <1>2, <1>6, <1>9, <1>10 DEF ResponseFrom
  <1>12. /\ k.at = "to" /\ k.resp = resp /\ IsLoop(k)
         /\ k.sids = IF resp.msg = 0 THEN {} ELSE w.msgs[resp.msg].to
    BY <1>11, RespondingIs
  <1>13. /\ Good(v, g, f, l)
         /\ s # NULL => \A m \in Msgs : ~Holds(w.ses[s].mOutList, m) => v.msgs[m] = w.msgs[m]
    <2>1. CASE s = NULL
      BY <1>1, <1>9, <2>1
    <2>2. CASE s # NULL
      BY <1>1, <1>7, <1>8, <1>9, <2>2, FromGood
    <2> QED
      BY <2>1, <2>2
  <1>14. PICK h : h = Flights'
    OBVIOUS
  <1>15. ASSUME NEW m \in HandlerMsgs
         PROVE  f[m] \in Nat /\ h[m] \in Nat /\ f[m] = Flag(resp.msg = m) + h[m]
    <2>1. /\ f[m] \in Nat /\ f[m] = Count(Carried, {m}) + Count(respQ, With(m))
          /\ Count(Carried, {m}) \in Nat
      BY <1>1, FlightsType
    <2>2. Count(respQ, With(m)) = Has(With(m), resp) + Count(Tail(respQ), With(m))
      BY <1>2, <1>3, CountTail
    <2>3. Count(Tail(respQ), With(m)) \in Nat
      BY <1>4, CountSeqType
    <2>4. Has(With(m), resp) = Flag(resp.msg = m)
      BY <1>4 DEF Has, With, Flag
    <2>5. Carried' = Carried
      BY <1>8 DEF Carried
    <2>6. h[m] = Count(Carried, {m}) + Count(Tail(respQ), With(m))
      BY <1>8, <1>14, <2>5 DEF Flights, InQueue
    <2>7. Flag(resp.msg = m) \in Nat
      BY DEF Flag
    <2> QED
      BY <2>1, <2>2, <2>3, <2>4, <2>6, <2>7
  <1>16. resp.msg # 0 => v.msgs[resp.msg] = w.msgs[resp.msg]
    <2> SUFFICES ASSUME resp.msg # 0
                 PROVE  v.msgs[resp.msg] = w.msgs[resp.msg]
      OBVIOUS
    <2>1. PICK m \in HandlerMsgs : m = resp.msg
      BY <1>5
    <2>2. MessageOK(w, f, l, m) /\ m \in Msgs
      BY <1>1, MsgsParts DEF MailOK
    <2>3. f[m] # 0
      BY <1>15, <2>1 DEF Flag
    <2>4. Pending(w, f, l, m) = w.msgs[m].to
      BY <1>8, <2>3 DEF Pending, AtMessage
    <2>5. s # NULL => ~Holds(w.ses[s].mOutList, m)
      BY <1>7, <2>2, <2>4 DEF MessageOK
    <2> QED
      BY <1>9, <1>13, <2>1, <2>2, <2>5
  <1>17. Fetches(v, f, h, l, k)
    BY <1>4, <1>8, <1>12, <1>15, <1>16 DEF Fetches
  <1>18. MailOK(v, f, l) /\ WorldOK(v, g)
    BY <1>13, Zenon DEF Good
  <1>19. MailOK(v, h, k)
    BY <1>17, <1>18, FetchMail
  <1>20. LoopOK(v, k)
    <2>1. k.sids \subseteq AnySid
      <3>1. CASE resp.msg = 0
        BY <1>12, <3>1
      <3>2. CASE resp.msg # 0
        <4>1. PICK m \in HandlerMsgs : m = resp.msg
          BY <1>5, <3>2
        <4>2. MessageOK(w, f, l, m)
          BY <1>1 DEF MailOK
        <4> QED
          BY <1>12, <3>2, <4>1, <4>2 DEF MessageOK
      <3> QED
        BY <3>1, <3>2
    <2> QED
      BY <1>4, <1>12, <2>1 DEF LoopOK, IsLoop
  <1>21. Grips' = g
    BY <1>1, <1>8 DEF Grips
  <1>22. World' = v
    BY <1>11, <1>18, StoreWorld
  <1>23. Good(World', Grips', Flights', loop') /\ LoopOK(World', loop')
    BY <1>1, <1>10, <1>14, <1>18, <1>19, <1>20, <1>21, <1>22 DEF Good
  <1>24. DOMAIN work' = Threads /\ (\A t \in Threads : IsWork(work'[t])) /\ respQ' \in Seq(Responses)
    BY <1>4, <1>8 DEF IocpInv
  <1> QED
    BY <1>23, <1>24 DEF IocpInv

\* The loop leaves a sid behind.
LEMMA ShrinkMail ==
    ASSUME NEW w, NEW f, NEW l, MailOK(w, f, l), NEW k, k.at = l.at, k.resp = l.resp,
           k.sids \subseteq l.sids
    PROVE  MailOK(w, f, k)
  <1>1. ASSUME NEW m \in HandlerMsgs
        PROVE  MessageOK(w, f, k, m)
    <2>1. MessageOK(w, f, l, m)
      BY DEF MailOK
    <2>2. AtMessage(k, m) <=> AtMessage(l, m)
      BY DEF AtMessage
    <2>3. Pending(w, f, k, m) \subseteq Pending(w, f, l, m)
      BY <2>2 DEF Pending
    <2>4. Flag(AtMessage(k, m)) = Flag(AtMessage(l, m))
      BY <2>2 DEF Flag
    <2> QED
      BY <2>1, <2>2, <2>3, <2>4 DEF MessageOK
  <1> QED
    BY <1>1 DEF MailOK

\* onResponse is at the message m, and at the sid, whose session has not got the
\* message.
Handing(w, l, m, sid) ==
    /\ m \in HandlerMsgs /\ l.at = "to" /\ l.resp.msg = m
    /\ sid \in w.msgs[m].to /\ sid \notin l.sids
    /\ \A t \in Objects : In(w, t) /\ Holds(w.ses[t].mOutList, m) => w.ses[t].mSid # sid

\* The session is gone, or must exit: its sid leaves the toList.
Drop(w, m, sid) == [w EXCEPT !.msgs[m].to = @ \ {sid}]

LEMMA DropGood ==
    ASSUME NEW w, NEW g, NEW f, NEW l, Good(w, g, f, l), NEW m, NEW sid, Handing(w, l, m, sid)
    PROVE  Good(Drop(w, m, sid), g, f, l)
  <1>1. WorldOK(w, g) /\ MailOK(w, f, l) /\ DOMAIN g = Threads
    BY Zenon DEF Good
  <1>2. m \in Msgs /\ m \in HandlerMsgs
    BY MsgsParts DEF Handing
  <1>3. WorldTyped(w) /\ IsMessage(w.msgs[m])
    BY <1>1, <1>2 DEF WorldOK, WorldTyped
  <1>4. PICK z : z = w.msgs[m]
    OBVIOUS
  <1>5. PICK y : y = [z EXCEPT !.to = z.to \ {sid}]
    OBVIOUS
  <1>6. /\ IsMessage(y) /\ y.to = z.to \ {sid} /\ y.completions = z.completions /\ y.made = z.made
    <2>1. y = [made |-> z.made, to |-> z.to \ {sid}, completions |-> z.completions]
      BY <1>3, <1>4, <1>5 DEF IsMessage
    <2> QED
      BY <2>1 DEF IsMessage
  <1>7. PICK v : v = [w EXCEPT !.msgs[m] = y]
    OBVIOUS
  <1>8. MsgEdited(w, v, m, y)
    BY <1>2, <1>3, <1>6, <1>7, MsgWorld
  <1>9. /\ WorldTyped(v) /\ v.mgr = w.mgr /\ v.ses = w.ses /\ v.tasks = w.tasks
        /\ v.msgs[m] = y /\ \A o \in Msgs : o # m => v.msgs[o] = w.msgs[o]
    BY <1>8 DEF MsgEdited
  <1>10. WorldOK(v, g)
    <2>1. \A t \in Objects : Steady(w.ses[t], v.ses[t])
      BY <1>9 DEF Steady
    <2>2. \A t \in Objects : Timed(v.ses[t]) => Timed(w.ses[t]) \/ In(w, t)
      BY <1>9
    <2> QED
      BY <1>1, <1>9, <2>1, <2>2, TouchWorld
  <1>11. \A t \in Objects : In(v, t) <=> In(w, t)
    BY <1>9 DEF In
  <1>12. ASSUME NEW o \in HandlerMsgs
         PROVE  MessageOK(v, f, l, o)
    <2>1. MessageOK(w, f, l, o) /\ o \in Msgs
      BY <1>1, MsgsParts DEF MailOK
    <2>2. CASE o # m
      <3>1. v.msgs[o] = w.msgs[o]
        BY <1>9, <2>1, <2>2
      <3>2. Pending(v, f, l, o) = Pending(w, f, l, o)
        BY <3>1 DEF Pending
      <3> QED
        BY <1>9, <1>11, <2>1, <3>1, <3>2 DEF MessageOK
    <2>3. CASE o = m
      <3>1. AtMessage(l, m) /\ sid \notin l.sids
        BY DEF AtMessage, Handing
      <3>2. Pending(v, f, l, m) = l.sids /\ Pending(w, f, l, m) = l.sids
        BY <3>1 DEF Pending
      <3>3. v.msgs[m].to = w.msgs[m].to \ {sid} /\ w.msgs[m].completions = 0 /\ w.msgs[m].made
        BY <1>4, <1>6, <1>9, <2>1, <2>3, <3>1 DEF MessageOK
      <3>4. v.msgs[m].completions = 0 /\ v.msgs[m].made
        BY <1>4, <1>6, <1>9, <3>3
      <3>5. l.sids \subseteq w.msgs[m].to /\ w.msgs[m].to \subseteq AnySid
            /\ f[m] + Flag(AtMessage(l, m)) \in {0, 1}
        BY <2>1, <2>3, <3>2 DEF MessageOK
      <3>6. ASSUME NEW t \in Objects, In(v, t), Holds(v.ses[t].mOutList, m)
            PROVE  v.ses[t].mSid \in v.msgs[m].to \ Pending(v, f, l, m)
        <4>1. In(w, t) /\ Holds(w.ses[t].mOutList, m) /\ v.ses[t] = w.ses[t]
          BY <1>9, <1>11, <3>6
        <4>2. w.ses[t].mSid # sid /\ w.ses[t].mSid \in w.msgs[m].to \ l.sids
          BY <2>1, <2>3, <3>2, <4>1 DEF Handing, MessageOK
        <4> QED
          BY <3>2, <3>3, <4>1, <4>2
      <3>7. v.msgs[m].to \subseteq AnySid /\ Pending(v, f, l, m) \subseteq v.msgs[m].to
        BY <3>1, <3>2, <3>3, <3>5
      <3>8. v.msgs[m].completions # 1
        BY <3>4
      <3>9. MessageOK(v, f, l, m)
        BY <3>4, <3>5, <3>6, <3>7, <3>8 DEF MessageOK
      <3> QED
        BY <2>3, <3>9
    <2> QED
      BY <2>2, <2>3
  <1>13. ASSUME NEW x \in Objects
         PROVE  RefusalOK(v, x) /\ OutListOK(v, x)
    <2>1. RefusalOK(w, x) /\ OutListOK(w, x)
      BY <1>1 DEF MailOK
    <2>2. v.msgs[RefusedMsg(x)] = w.msgs[RefusedMsg(x)]
      BY <1>2, <1>9, MsgsParts
    <2> QED
      BY <1>9, <1>11, <2>1, <2>2 DEF RefusalOK, OutListOK
  <1>14. MailOK(v, f, l)
    BY <1>12, <1>13 DEF MailOK
  <1>15. Drop(w, m, sid) = v
    BY <1>4, <1>5, <1>7 DEF Drop
  <1> QED
    BY <1>1, <1>10, <1>14, <1>15 DEF Good

\* The message is put at the end of the session's outList.
Give(w, s, m) == [w EXCEPT !.ses[s].mOutList = Append(@, m)]

LEMMA GiveGood ==
    ASSUME NEW w, NEW g, NEW f, NEW l, Good(w, g, f, l), NEW m, NEW s \in Objects, In(w, s),
           Handing(w, l, m, w.ses[s].mSid)
    PROVE  Good(Give(w, s, m), g, f, l)
  <1>1. WorldOK(w, g) /\ MailOK(w, f, l) /\ DOMAIN g = Threads
    BY Zenon DEF Good
  <1>2. m \in Msgs /\ m \in HandlerMsgs
    BY MsgsParts DEF Handing
  <1>3. PICK r : r = w.ses[s]
    OBVIOUS
  <1>4. PICK p : p = r.mOutList
    OBVIOUS
  <1>5. PICK b : b = Append(p, m)
    OBVIOUS
  <1>6. p \in Seq(Msgs) /\ Injective(p) /\ ~Holds(p, m)
    <2>1. w.ses[s].mOutList \in Seq(Msgs) /\ Injective(w.ses[s].mOutList)
      BY <1>1, OutListHolds
    <2>2. ~Holds(w.ses[s].mOutList, m)
      BY DEF Handing
    <2> QED
      BY <1>3, <1>4, <2>1, <2>2
  <1>7. b \in Seq(Msgs) /\ Injective(b) /\ \A o : Holds(b, o) <=> Holds(p, o) \/ o = m
    <2>1. /\ b \in Seq(Msgs) /\ Len(b) = Len(p) + 1 /\ \A i \in 1 .. Len(p) : b[i] = p[i]
          /\ b[Len(p) + 1] = m
      BY <1>2, <1>5, <1>6, AppendProperties
    <2>2. /\ Len(p) \in Nat /\ DOMAIN p = 1 .. Len(p) /\ DOMAIN b = 1 .. Len(b)
      BY <1>6, <2>1, LenProperties
    <2>3. \A i \in DOMAIN b : i \in DOMAIN p \/ i = Len(p) + 1
      BY <2>1, <2>2
    <2>4. \A i \in DOMAIN p : i \in DOMAIN b /\ b[i] = p[i] /\ p[i] # m
      BY <1>6, <2>1, <2>2 DEF Holds
    <2>5. Len(p) + 1 \in DOMAIN b /\ b[Len(p) + 1] = m
      BY <2>1, <2>2
    <2>6. Injective(b)
      BY <1>6, <2>3, <2>4, <2>5 DEF Injective
    <2>7. \A o : Holds(b, o) <=> Holds(p, o) \/ o = m
      BY <2>3, <2>4, <2>5 DEF Holds
    <2> QED
      BY <2>1, <2>6, <2>7
  <1>8. PICK q : q = [r EXCEPT !.mOutList = b]
    OBVIOUS
  <1>9. IsSession(r) /\ WorldTyped(w)
    BY <1>1, <1>3, SessionIn
  <1>10. IsSession(q) /\ Steady(r, q) /\ q.mOutList = b /\ (Timed(q) <=> Timed(r))
    BY <1>8, <1>9 DEF IsSession, Steady, Timed
  <1>11. PICK v : v = [w EXCEPT !.ses[s] = q]
    OBVIOUS
  <1>12. Edited(w, v, s, q)
    BY <1>9, <1>10, <1>11, EditWorld
  <1>13. /\ WorldTyped(v) /\ v.mgr = w.mgr /\ v.msgs = w.msgs /\ v.tasks = w.tasks
         /\ v.ses[s] = q /\ \A t \in Objects : t # s => v.ses[t] = w.ses[t]
    BY <1>12 DEF Edited
  <1>14. \A t \in Objects : Steady(w.ses[t], v.ses[t]) /\ (Timed(v.ses[t]) <=> Timed(w.ses[t]))
    BY <1>3, <1>10, <1>13 DEF Steady
  <1>15. WorldOK(v, g)
    BY <1>1, <1>13, <1>14, TouchWorld
  <1>16. \A t \in Objects : In(v, t) <=> In(w, t)
    BY <1>13, <1>14, SameIn DEF Steady
  <1>17. ASSUME NEW t \in Objects, NEW o, Holds(v.ses[t].mOutList, o), ~(t = s /\ o = m)
         PROVE  Holds(w.ses[t].mOutList, o)
    BY <1>3, <1>4, <1>7, <1>10, <1>13, <1>17
  <1>18. ASSUME NEW o \in HandlerMsgs
         PROVE  MessageOK(v, f, l, o)
    <2>1. MessageOK(w, f, l, o)
      BY <1>1 DEF MailOK
    <2>2. Pending(v, f, l, o) = Pending(w, f, l, o)
      BY <1>13 DEF Pending
    <2>3. ASSUME NEW t \in Objects, In(v, t), Holds(v.ses[t].mOutList, o)
          PROVE  v.ses[t].mSid \in w.msgs[o].to \ Pending(w, f, l, o)
      <3>1. In(w, t) /\ v.ses[t].mSid = w.ses[t].mSid
        BY <1>14, <1>16, <2>3 DEF Steady
      <3>2. CASE t = s /\ o = m
        BY <3>1, <3>2 DEF Handing, Pending, AtMessage
      <3>3. CASE ~(t = s /\ o = m)
        BY <1>17, <2>1, <2>3, <3>1, <3>3 DEF MessageOK
      <3> QED
        BY <3>2, <3>3
    <2> QED
      BY <1>13, <2>1, <2>2, <2>3 DEF MessageOK
  <1>19. ASSUME NEW x \in Objects
         PROVE  RefusalOK(v, x) /\ OutListOK(v, x)
    <2>1. RefusalOK(w, x) /\ OutListOK(w, x) /\ RefusedMsg(x) # m
      BY <1>1, <1>2, MsgsParts DEF MailOK
    <2>2. RefusalOK(v, x)
      <3>1. \A t \in Objects : In(v, t) /\ Holds(v.ses[t].mOutList, RefusedMsg(x)) =>
                In(w, t) /\ Holds(w.ses[t].mOutList, RefusedMsg(x))
        BY <1>16, <1>17, <2>1
      <3>2. v.ses[x].life = w.ses[x].life
        BY <1>14 DEF Steady
      <3> QED
        BY <1>13, <2>1, <3>1, <3>2 DEF RefusalOK
    <2>3. OutListOK(v, x)
      BY <1>7, <1>10, <1>13, <1>16, <2>1 DEF OutListOK
    <2> QED
      BY <2>2, <2>3
  <1>20. MailOK(v, f, l)
    BY <1>18, <1>19 DEF MailOK
  <1>21. Give(w, s, m) = v
    BY <1>3, <1>4, <1>5, <1>8, <1>11 DEF Give
  <1> QED
    BY <1>1, <1>15, <1>20, <1>21 DEF Good

\* A calm step leaves the one being handed the message where it is.
LEMMA CalmHanding ==
    ASSUME NEW w, NEW v, Calm(w, v), NEW l, NEW m, NEW sid, Handing(w, l, m, sid)
    PROVE  Handing(v, l, m, sid)
  <1>1. \A t \in Objects : In(v, t) <=> In(w, t)
    BY CalmIn
  <1> QED
    BY <1>1 DEF Handing, Calm

\* The turn of one sid of the toList
LEMMA ToGood ==
    ASSUME NEW w, NEW g, NEW f, NEW l, Good(w, g, f, l), NEW sid \in AnySid, NEW m,
           Handing(w, l, m, sid), l.resp.msg = m, NEW bad
    PROVE  Good(ToSession(w, sid, l.resp, bad), g, f, l)
  <1>1. WorldOK(w, g) /\ MailOK(w, f, l) /\ DOMAIN g = Threads
    BY Zenon DEF Good
  <1>2. PICK s : s = InWorld(w, sid)
    OBVIOUS
  <1>3. s # NULL => s \in Objects /\ In(w, s) /\ w.ses[s].mSid = sid
    BY <1>1, <1>2, GetIn DEF InWorld
  <1>4. CASE s = NULL \/ (s # NULL /\ sid # l.resp.from /\ w.ses[s].mStatus = "eExit")
    <2>1. ToSession(w, sid, l.resp, bad) = Drop(w, m, sid)
      BY <1>2, <1>4 DEF ToSession, Drop
    <2> QED
      BY <2>1, DropGood
  <1>5. CASE /\ ~(s = NULL \/ (s # NULL /\ sid # l.resp.from /\ w.ses[s].mStatus = "eExit"))
             /\ AddSendOK(w, s, bad)
    <2>1. PICK x : x = AddSend(w, s, bad)
      OBVIOUS
    <2>2. s \in Objects /\ In(w, s) /\ w.ses[s].mSid = sid
      BY <1>3, <1>5
    <2>3. WorldOK(x, g) /\ Calm(w, x)
      BY <1>1, <2>1, <2>2, AddSendKeeps
    <2>4. Good(x, g, f, l) /\ In(x, s) /\ Handing(x, l, m, sid)
      BY <2>2, <2>3, CalmGood, CalmIn, CalmHanding
    <2>5. x.ses[s].mSid = sid
      BY <2>2, <2>3 DEF Calm
    <2>6. Good(Give(x, s, m), g, f, l)
      BY <2>2, <2>4, <2>5, GiveGood
    <2>7. ToSession(w, sid, l.resp, bad) = Give(x, s, m)
      BY <1>2, <1>5, <2>1 DEF ToSession, Give
    <2> QED
      BY <2>6, <2>7
  <1>6. CASE /\ ~(s = NULL \/ (s # NULL /\ sid # l.resp.from /\ w.ses[s].mStatus = "eExit"))
             /\ ~AddSendOK(w, s, bad)
    <2>1. PICK d : d = DecodeIfIdle(w, s)
      OBVIOUS
    <2>2. s \in Objects /\ In(w, s) /\ w.ses[s].mSid = sid
      BY <1>3, <1>6
    <2>3. WorldOK(d, g) /\ Calm(w, d)
      BY <1>1, <2>1, <2>2, DecodeIfIdleKeeps
    <2>4. Good(d, g, f, l) /\ In(d, s) /\ Handing(d, l, m, sid)
      BY <2>2, <2>3, CalmGood, CalmIn, CalmHanding
    <2>5. d.ses[s].mSid = sid
      BY <2>2, <2>3 DEF Calm
    <2>6. ToSession(w, sid, l.resp, bad) = IF d.ses[s].mRunning THEN d ELSE DoError(d, s)
      BY <1>2, <1>6, <2>1 DEF ToSession
    <2>7. CASE d.ses[s].mRunning
      BY <2>4, <2>6, <2>7
    <2>8. CASE ~d.ses[s].mRunning
      <3>1. NotHanded(d, l, s)
        BY <2>2, <2>4, <2>5 DEF NotHanded, Handing, AtMessage
      <3>2. "error" \in FinalKinds
        BY DEF FinalKinds
      <3>3. ToSession(w, sid, l.resp, bad) = AddTask(GivenUp(FailOutList(d, s), s), "error", s)
        BY <2>6, <2>8 DEF DoError
      <3> QED
        BY <2>2, <2>4, <2>8, <3>1, <3>2, <3>3, FailsGood
    <2> QED
      BY <2>7, <2>8
  <1> QED
    BY <1>4, <1>5, <1>6

LEMMA ResponseToKeeps ==
    ASSUME IocpInv, NEW sid, NEW bad, ResponseTo(sid, bad)
    PROVE  IocpInv'
  <1>0. PICK w, g, f, l : Here(w, g, f, l)
    BY Start, Zenon
  <1>1. /\ Good(w, g, f, l) /\ WorldOK(w, g) /\ MailOK(w, f, l) /\ DOMAIN g = Threads
        /\ LoopOK(w, l) /\ l = loop /\ w = World
    BY <1>0, Zenon DEF Here
  <1>2. l.at = "to" /\ sid \in l.sids /\ work' = work /\ respQ' = respQ
    BY <1>1 DEF ResponseTo
  <1>3. l.resp \in Responses /\ l.sids \subseteq AnySid /\ sid \in AnySid /\ l.resp.msg # 0
    BY <1>1, <1>2 DEF LoopOK
  <1>4. PICK m \in HandlerMsgs : m = l.resp.msg
    BY <1>3 DEF Responses
  <1>5. PICK k : k = loop'
    OBVIOUS
  <1>6. k = Responding("to", l.resp, l.sids \ {sid}) /\ Store(ToSession(w, sid, l.resp, bad))
    BY <1>1, <1>5 DEF ResponseTo
  <1>7. k.at = "to" /\ k.resp = l.resp /\ k.sids = l.sids \ {sid} /\ IsLoop(k)
    BY <1>6, RespondingIs
  <1>8. MailOK(w, f, k)
    <2>1. k.at = l.at /\ k.sids \subseteq l.sids
      BY <1>2, <1>7
    <2> QED
      BY <1>1, <1>7, <2>1, ShrinkMail
  <1>9. Good(w, g, f, k)
    BY <1>1, <1>8 DEF Good
  <1>10. Handing(w, k, m, sid)
    <2>1. MessageOK(w, f, l, m)
      BY <1>1 DEF MailOK
    <2>2. Pending(w, f, l, m) = l.sids
      BY <1>2, <1>4 DEF Pending, AtMessage
    <2>3. sid \in w.msgs[m].to
      BY <1>2, <2>1, <2>2 DEF MessageOK
    <2>4. \A t \in Objects : In(w, t) /\ Holds(w.ses[t].mOutList, m) => w.ses[t].mSid # sid
      BY <1>2, <2>1, <2>2 DEF MessageOK
    <2> QED
      BY <1>4, <1>7, <2>3, <2>4 DEF Handing
  <1>11. PICK v : v = ToSession(w, sid, k.resp, bad)
    OBVIOUS
  <1>12. k.resp.msg = m
    BY <1>4, <1>7
  <1>13. Good(v, g, f, k)
    BY <1>3, <1>9, <1>10, <1>11, <1>12, ToGood
  <1>14. Store(v)
    BY <1>6, <1>7, <1>11
  <1>15. LoopOK(v, k)
    <2>1. k.sids \subseteq AnySid /\ k.resp \in Responses /\ k.resp.msg # 0 /\ k.at = "to"
      BY <1>3, <1>7
    <2> QED
      BY <1>7, <2>1 DEF LoopOK, IsLoop
  <1> QED
    BY <1>0, <1>2, <1>5, <1>13, <1>14, <1>15, LoopStep DEF Here

\* The end of the message: onResponse leaves it, and completes it when no session
\* has it.
LEMMA CompletedGood ==
    ASSUME NEW w, NEW g, NEW f, NEW l, Good(w, g, f, l), l.at = "to", l.resp \in Responses,
           \A m \in HandlerMsgs : f[m] \in Nat, NEW k, k.at # "to"
    PROVE  /\ Good(Completed(w, l.resp.msg), g, f, k)
           /\ Completed(w, l.resp.msg).ses = w.ses /\ Completed(w, l.resp.msg).mgr = w.mgr
  <1>1. WorldOK(w, g) /\ MailOK(w, f, l) /\ DOMAIN g = Threads
    BY Zenon DEF Good
  <1>2. PICK n : n = l.resp.msg
    OBVIOUS
  <1>3. n \in HandlerMsgs \cup {0}
    BY <1>2 DEF Responses
  <1>4. PICK v : v = Completed(w, n)
    OBVIOUS
  <1>5. /\ WorldTyped(v) /\ v.mgr = w.mgr /\ v.ses = w.ses /\ v.tasks = w.tasks
        /\ \A o \in Msgs : o # n => v.msgs[o] = w.msgs[o]
        /\ n # 0 => /\ v.msgs[n].to = w.msgs[n].to /\ v.msgs[n].made = w.msgs[n].made
                    /\ w.msgs[n].to = {} => v.msgs[n].completions = w.msgs[n].completions + 1
                    /\ w.msgs[n].to # {} => v.msgs[n].completions = w.msgs[n].completions
    <2>1. WorldTyped(w)
      BY <1>1 DEF WorldOK
    <2>2. CASE n # 0 /\ w.msgs[n].to = {}
      <3>1. n \in Msgs
        BY <1>3, <2>2, MsgsParts
      <3>2. PICK z : z = w.msgs[n]
        OBVIOUS
      <3>3. IsMessage(z)
        BY <2>1, <3>1, <3>2 DEF WorldTyped
      <3>4. PICK y : y = [z EXCEPT !.completions = z.completions + 1]
        OBVIOUS
      <3>5. IsMessage(y) /\ y.to = z.to /\ y.made = z.made /\ y.completions = z.completions + 1
        <4>1. y = [made |-> z.made, to |-> z.to, completions |-> z.completions + 1]
          BY <3>3, <3>4 DEF IsMessage
        <4> QED
          BY <4>1 DEF IsMessage
      <3>6. v = [w EXCEPT !.msgs[n] = y]
        BY <1>4, <2>2, <3>2, <3>4 DEF Completed
      <3>7. MsgEdited(w, v, n, y)
        BY <2>1, <3>1, <3>5, <3>6, MsgWorld
      <3> QED
        BY <2>2, <3>2, <3>5, <3>7 DEF MsgEdited
    <2>3. CASE ~(n # 0 /\ w.msgs[n].to = {})
      <3>1. v = w
        BY <1>4, <2>3 DEF Completed
      <3> QED
        BY <2>1, <2>3, <3>1
    <2> QED
      BY <2>2, <2>3
  <1>6. WorldOK(v, g)
    <2>1. \A t \in Objects : Steady(w.ses[t], v.ses[t])
      BY <1>5 DEF Steady
    <2>2. \A t \in Objects : Timed(v.ses[t]) => Timed(w.ses[t]) \/ In(w, t)
      BY <1>5
    <2> QED
      BY <1>1, <1>5, <2>1, <2>2, TouchWorld
  <1>7. \A t \in Objects : In(v, t) <=> In(w, t)
    BY <1>5 DEF In
  <1>8. ASSUME NEW o \in HandlerMsgs
        PROVE  MessageOK(v, f, k, o)
    <2>1. MessageOK(w, f, l, o) /\ o \in Msgs /\ ~AtMessage(k, o) /\ Flag(AtMessage(k, o)) = 0
      BY <1>1, MsgsParts DEF MailOK, AtMessage, Flag
    <2>2. CASE o # n
      <3>1. ~AtMessage(l, o) /\ v.msgs[o] = w.msgs[o]
        BY <1>2, <1>5, <2>1, <2>2 DEF AtMessage
      <3>2. Pending(v, f, k, o) = Pending(w, f, l, o) /\ Flag(AtMessage(l, o)) = 0
        BY <2>1, <3>1 DEF Pending, Flag
      <3> QED
        BY <1>5, <1>7, <2>1, <3>1, <3>2 DEF MessageOK
    <2>3. CASE o = n
      <3>1. AtMessage(l, o) /\ Flag(AtMessage(l, o)) = 1
        BY <1>2, <2>3 DEF AtMessage, Flag
      <3>2. f[o] + 1 \in {0, 1}
        BY <2>1, <3>1 DEF MessageOK
      <3>3. w.msgs[o].completions = 0 /\ w.msgs[o].made
        BY <2>1, <3>1 DEF MessageOK
      <3>4. o # 0
        BY IocpAssumption DEF HandlerMsgs
      <3>5. /\ v.msgs[o].to = w.msgs[o].to /\ v.msgs[o].made
            /\ v.msgs[o].completions \in {0, 1}
            /\ v.msgs[o].completions = 1 => v.msgs[o].to = {}
        <4>1. /\ v.msgs[o].to = w.msgs[o].to /\ v.msgs[o].made = w.msgs[o].made
              /\ w.msgs[o].to = {} => v.msgs[o].completions = w.msgs[o].completions + 1
              /\ w.msgs[o].to # {} => v.msgs[o].completions = w.msgs[o].completions
          BY <1>5, <2>3, <3>4
        <4>2. /\ w.msgs[o].to = {} => v.msgs[o].completions = 1
              /\ w.msgs[o].to # {} => v.msgs[o].completions = 0
          BY <3>3, <4>1
        <4> QED
          BY <3>3, <4>1, <4>2
      <3>6. ASSUME NEW t \in Objects, In(v, t), Holds(v.ses[t].mOutList, o)
            PROVE  v.ses[t].mSid \in v.msgs[o].to
        BY <1>5, <1>7, <2>1, <3>5, <3>6 DEF MessageOK
      <3>7. w.msgs[o].to \subseteq AnySid
        BY <2>1 DEF MessageOK
      <3>8. f[o] = 0
        BY <3>2
      <3>9. Pending(v, f, k, o) = {} /\ f[o] + Flag(AtMessage(k, o)) = 0
        BY <2>1, <3>8 DEF Pending
      <3> QED
        BY <2>1, <3>5, <3>6, <3>7, <3>8, <3>9 DEF MessageOK
    <2> QED
      BY <2>2, <2>3
  <1>9. ASSUME NEW x \in Objects
        PROVE  RefusalOK(v, x) /\ OutListOK(v, x)
    <2>1. RefusalOK(w, x) /\ OutListOK(w, x)
      BY <1>1 DEF MailOK
    <2>2. v.msgs[RefusedMsg(x)] = w.msgs[RefusedMsg(x)]
      BY <1>3, <1>5, MsgsParts
    <2> QED
      BY <1>5, <1>7, <2>1, <2>2 DEF RefusalOK, OutListOK
  <1>10. MailOK(v, f, k)
    BY <1>8, <1>9 DEF MailOK
  <1> QED
    BY <1>1, <1>2, <1>4, <1>5, <1>6, <1>10 DEF Good

LEMMA ResponseExitKeeps ==
    ASSUME IocpInv, ResponseExit
    PROVE  IocpInv'
  <1>0. PICK w, g, f, l : Here(w, g, f, l)
    BY Start, Zenon
  <1>1. /\ Good(w, g, f, l) /\ WorldOK(w, g) /\ MailOK(w, f, l) /\ DOMAIN g = Threads
        /\ LoopOK(w, l) /\ l = loop /\ w = World
    BY <1>0, Zenon DEF Here
  <1>2. l.at = "to" /\ work' = work /\ respQ' = respQ /\ l.resp \in Responses
    BY <1>1 DEF ResponseExit, LoopOK
  <1>3. PICK x : x = Completed(w, l.resp.msg)
    OBVIOUS
  <1>4. PICK k : k = loop'
    OBVIOUS
  <1>5. k = Closing(l.resp, l.resp.close) /\ Store(ExitPart(x, l.resp))
    BY <1>1, <1>3, <1>4 DEF ResponseExit
  <1>6. l.resp.close \in SUBSET AnySid /\ l.resp.from \in AnySid
    BY <1>2 DEF Responses
  <1>7. k.at # "to" /\ \A v : LoopOK(v, k)
    BY <1>2, <1>5, <1>6, ClosingIs
  <1>8. Good(x, g, f, k)
    <2>1. \A m \in HandlerMsgs : f[m] \in Nat
      BY <1>0, FlightsType DEF Here
    <2> QED
      BY <1>1, <1>2, <1>3, <1>7, <2>1, CompletedGood
  <1>9. PICK s : s = InWorld(x, l.resp.from)
    OBVIOUS
  <1>10. s # NULL => s \in Objects /\ In(x, s)
    <2>1. WorldOK(x, g)
      BY <1>8, Zenon DEF Good
    <2> QED
      BY <1>6, <1>9, <2>1, GetIn DEF InWorld
  <1>11. PICK v : v = ExitPart(x, l.resp)
    OBVIOUS
  <1>12. v = x \/ (s # NULL /\ ~x.ses[s].mRunning /\ v = DoClose(x, s))
    BY <1>9, <1>11 DEF ExitPart
  <1>13. Good(v, g, f, k)
    <2>1. CASE v = x
      BY <1>8, <2>1
    <2>2. CASE s # NULL /\ ~x.ses[s].mRunning /\ v = DoClose(x, s)
      BY <1>8, <1>10, <2>2, DoCloseGood
    <2> QED
      BY <1>12, <2>1, <2>2
  <1>14. Store(v) /\ LoopOK(v, k)
    BY <1>5, <1>7, <1>11
  <1> QED
    BY <1>0, <1>2, <1>4, <1>13, <1>14, LoopStep DEF Here

\* The turn of one sid of the toCloseList
LEMMA ResponseCloseKeeps ==
    ASSUME IocpInv, NEW sid, NEW bad, ResponseClose(sid, bad)
    PROVE  IocpInv'
  <1>0. PICK w, g, f, l : Here(w, g, f, l)
    BY Start, Zenon
  <1>1. /\ Good(w, g, f, l) /\ WorldOK(w, g) /\ MailOK(w, f, l) /\ DOMAIN g = Threads
        /\ LoopOK(w, l) /\ l = loop /\ w = World
    BY <1>0, Zenon DEF Here
  <1>2. l.at = "close" /\ sid \in l.sids /\ work' = work /\ respQ' = respQ
    BY <1>1 DEF ResponseClose
  <1>3. l.resp \in Responses /\ l.sids \ {sid} \in SUBSET AnySid /\ sid \in AnySid
    BY <1>1, <1>2 DEF LoopOK
  <1>4. PICK k : k = loop'
    OBVIOUS
  <1>5. k = Closing(l.resp, l.sids \ {sid}) /\ Store(CloseSession(w, sid, bad))
    BY <1>1, <1>4 DEF ResponseClose
  <1>6. k.at # "to" /\ \A v : LoopOK(v, k)
    BY <1>3, <1>5, ClosingIs
  <1>7. Good(w, g, f, k)
    <2>1. MailOK(w, f, k)
      BY <1>1, <1>2, <1>6, MailLoop
    <2> QED
      BY <1>1, <2>1 DEF Good
  <1>8. PICK s : s = InWorld(w, sid)
    OBVIOUS
  <1>9. s # NULL => s \in Objects /\ In(w, s)
    BY <1>1, <1>3, <1>8, GetIn DEF InWorld
  <1>10. PICK v : v = CloseSession(w, sid, bad)
    OBVIOUS
  <1>11. Good(v, g, f, k)
    <2>1. CASE s = NULL
      <3>1. v = w
        BY <1>8, <1>10, <2>1 DEF CloseSession
      <3> QED
        BY <1>7, <3>1
    <2>2. CASE s # NULL
      <3>1. PICK x : x = [w EXCEPT !.ses[s] = [w.ses[s] EXCEPT !.mStatus = "eExit"]]
        OBVIOUS
      <3>2. Touches(w, s, [w.ses[s] EXCEPT !.mStatus = "eExit"])
        BY <1>1, <1>9, <2>2, TouchesField
      <3>3. Good(x, g, f, k) /\ Calm(w, x)
        BY <1>7, <1>9, <2>2, <3>1, <3>2, TouchGood
      <3>4. s \in Objects /\ In(x, s)
        BY <1>9, <2>2, <3>3, CalmIn
      <3>5. NotHanded(x, k, s)
        BY <1>6 DEF NotHanded, AtMessage
      <3>6. Good(AddSend(x, s, bad), g, f, k) /\ Good(ErrorOrLater(DecodeIfIdle(x, s), s), g, f, k)
        BY <3>3, <3>4, <3>5, SendAgainGood
      <3>7. v = AddSend(x, s, bad) \/ v = ErrorOrLater(DecodeIfIdle(x, s), s)
        BY <1>8, <1>10, <2>2, <3>1 DEF CloseSession
      <3> QED
        BY <3>6, <3>7
    <2> QED
      BY <2>1, <2>2
  <1>12. Store(v) /\ LoopOK(v, k)
    BY <1>5, <1>6, <1>10
  <1> QED
    BY <1>0, <1>2, <1>4, <1>11, <1>12, LoopStep DEF Here

-----------------------------------------------------------------------------
(* The tasks *)

\* The message that a thread at x has not delivered yet
CarriedOf(x) == IF x.pc \in {"status", "unrun", "push"} THEN x.resp.msg ELSE 0

\* The step of the thread t to x
Moves(t, x) == t \in Threads /\ IsWork(x) /\ work' = [work EXCEPT ![t] = x]

LEMMA WorkStep ==
    ASSUME IocpInv, NEW t, NEW x, Moves(t, x)
    PROVE  /\ DOMAIN work' = Threads /\ \A u \in Threads : IsWork(work'[u])
           /\ DOMAIN Grips' = Threads /\ Grips'[t] = Grip(x) /\ Grips[t] = Grip(work[t])
           /\ DOMAIN Grips = Threads /\ \A u \in Threads : u # t => Grips'[u] = Grips[u]
           /\ Grip(x) = Grip(work[t]) => Grips' = Grips
           /\ DOMAIN Carried' = Threads /\ Carried'[t] = CarriedOf(x)
           /\ Carried[t] = CarriedOf(work[t])
           /\ DOMAIN Carried = Threads /\ \A u \in Threads : u # t => Carried'[u] = Carried[u]
           /\ CarriedOf(x) = CarriedOf(work[t]) => Carried' = Carried
  <1>1. /\ DOMAIN work = Threads /\ \A u \in Threads : IsWork(work[u])
    BY DEF IocpInv
  <1>2. /\ t \in Threads /\ IsWork(x) /\ DOMAIN work' = Threads /\ work'[t] = x
        /\ \A u \in Threads : u # t => work'[u] = work[u]
    BY <1>1 DEF Moves
  <1>3. \A u \in Threads : IsWork(work'[u])
    BY <1>1, <1>2
  <1>4. Grips' = [u \in Threads |-> Grip(work'[u])] /\ Grips = [u \in Threads |-> Grip(work[u])]
    BY DEF Grips
  <1>5. /\ Carried' = [u \in Threads |-> CarriedOf(work'[u])]
        /\ Carried = [u \in Threads |-> CarriedOf(work[u])]
    BY DEF Carried, CarriedOf
  <1>6. /\ DOMAIN Grips' = Threads /\ Grips'[t] = Grip(x) /\ Grips[t] = Grip(work[t])
        /\ DOMAIN Grips = Threads /\ \A u \in Threads : u # t => Grips'[u] = Grips[u]
    BY <1>2, <1>4
  <1>7. /\ DOMAIN Carried' = Threads /\ Carried'[t] = CarriedOf(x) /\ Carried[t] = CarriedOf(work[t])
        /\ DOMAIN Carried = Threads /\ \A u \in Threads : u # t => Carried'[u] = Carried[u]
    BY <1>2, <1>5
  <1>8. Grip(x) = Grip(work[t]) => Grips' = Grips
    BY <1>2, <1>4
  <1>9. CarriedOf(x) = CarriedOf(work[t]) => Carried' = Carried
    BY <1>2, <1>5
  <1> QED
    BY <1>2, <1>3, <1>6, <1>7, <1>8, <1>9

\* A step of a thread that stores the world v
LEMMA ThreadStep ==
    ASSUME IocpInv, NEW v, NEW h, NEW f, NEW t, NEW x, Moves(t, x), h = Grips', f = Flights',
           Good(v, h, f, loop), Store(v), loop' = loop, LoopOK(v, loop),
           respQ' \in Seq(Responses)
    PROVE  IocpInv'
  <1>1. WorldOK(v, h)
    BY Zenon DEF Good
  <1>2. World' = v
    BY <1>1, StoreWorld
  <1>3. DOMAIN work' = Threads /\ \A u \in Threads : IsWork(work'[u])
    BY WorkStep
  <1>4. Good(World', Grips', Flights', loop') /\ LoopOK(World', loop')
    BY <1>2
  <1> QED
    BY <1>3, <1>4 DEF IocpInv

\* The work of a thread that runs a task
LEMMA WorkIs ==
    ASSUME IocpInv, NEW t \in Threads, NEW x, x = work[t]
    PROVE  /\ IsWork(x) /\ x.resp \in Responses
           /\ x.pc = "idle" => x = Idle
           /\ x.pc # "idle" => /\ x.s \in Objects /\ x.kind \in HandlerKinds \cup FinalKinds
                               /\ x.pc \in WorkPlaces(x.kind)
           /\ x.pc \in {"status", "unrun"} => x.kind \in HandlerKinds
           /\ x.pc = "free" => x.kind \in FinalKinds
  <1>1. IsWork(x)
    BY DEF IocpInv
  <1>2. Idle.pc = "idle"
    BY DEF Idle
  <1>3. x # Idle => /\ x.kind \in HandlerKinds \cup FinalKinds /\ x.s \in Objects
                    /\ x.pc \in WorkPlaces(x.kind)
    BY <1>1 DEF IsWork
  <1>4. ASSUME NEW k
        PROVE  "idle" \notin WorkPlaces(k)
    BY DEF WorkPlaces
  <1>5. x.pc = "idle" => x = Idle
    BY <1>3, <1>4
  <1>6. x.pc \in {"status", "unrun"} => x.kind \in HandlerKinds
    BY <1>2, <1>3 DEF WorkPlaces
  <1>7. x.pc = "free" => x.kind \in FinalKinds
    BY <1>2, <1>3 DEF WorkPlaces, HandlerKinds, FinalKinds
  <1> QED
    BY <1>1, <1>2, <1>3, <1>5, <1>6, <1>7 DEF IsWork

\* Sessions and messages when only the uses move from one place to another
LEMMA ShiftGood ==
    ASSUME NEW w, NEW g, NEW f, NEW l, Good(w, g, f, l), NEW v, WorldTyped(v), v.mgr = w.mgr,
           v.ses = w.ses, v.msgs = w.msgs, NEW h, DOMAIN h = Threads,
           \A s \in Objects : /\ HandlerUses(v, h, s) = HandlerUses(w, g, s)
                              /\ FinalUses(v, h, s) = FinalUses(w, g, s)
    PROVE  Good(v, h, f, l)
  <1>1. WorldOK(w, g) /\ MailOK(w, f, l)
    BY Zenon DEF Good
  <1>2. Calm(w, v)
    BY DEF Calm
  <1>3. MailOK(v, f, l)
    BY <1>1, <1>2, CalmMail
  <1>4. SeqsOK(v) /\ TableMaps(v)
    BY <1>1, SameSeqs DEF WorldOK
  <1>5. ASSUME NEW s \in Objects
        PROVE  SessionOK(v, h, s)
    <2>1. SessionOK(w, g, s)
      BY <1>1 DEF WorldOK
    <2>2. In(v, s) <=> In(w, s)
      BY DEF In
    <2> QED
      BY <2>1, <2>2, OtherSession
  <1>6. WorldOK(v, h)
    BY <1>1, <1>4, <1>5 DEF WorldOK
  <1> QED
    BY <1>3, <1>6 DEF Good

\* What the step of a thread does to the holds of the threads
LEMMA GripMoves ==
    ASSUME IocpInv, NEW t, NEW x, Moves(t, x), NEW g, NEW h, g = Grips, h = Grips', NEW A
    PROVE  /\ Count(h, A) = Count(g, A) - Has(A, Grip(work[t])) + Has(A, Grip(x))
           /\ Count(g, A) \in Nat /\ Count(h, A) \in Nat /\ DOMAIN h = Threads
  <1>1. /\ DOMAIN h = Threads /\ h[t] = Grip(x) /\ g[t] = Grip(work[t])
        /\ DOMAIN g = Threads /\ \A u \in Threads : u # t => h[u] = g[u]
    BY WorkStep
  <1>2. t \in Threads /\ IsFiniteSet(Threads)
    BY IocpAssumption DEF Moves
  <1>3. PICK v : v = Grip(x)
    OBVIOUS
  <1>4. Count(h, A) = Count(g, A) - Has(A, g[t]) + Has(A, v)
    BY <1>1, <1>2, <1>3, CountChange
  <1> QED
    BY <1>1, <1>3, <1>4, GripsFinite

\* How often a message is on its way when a thread moves
LEMMA CarriedMoves ==
    ASSUME IocpInv, NEW t, NEW x, Moves(t, x), NEW m
    PROVE  /\ Count(Carried', {m}) = Count(Carried, {m}) - Has({m}, CarriedOf(work[t]))
                                     + Has({m}, CarriedOf(x))
           /\ Count(Carried, {m}) \in Nat
  <1>1. PICK c, d : c = Carried /\ d = Carried'
    OBVIOUS
  <1>2. /\ DOMAIN d = Threads /\ d[t] = CarriedOf(x) /\ c[t] = CarriedOf(work[t])
        /\ DOMAIN c = Threads /\ \A u \in Threads : u # t => d[u] = c[u]
    BY <1>1, WorkStep
  <1>3. t \in Threads /\ IsFiniteSet(Threads)
    BY IocpAssumption DEF Moves
  <1>4. PICK v : v = CarriedOf(x)
    OBVIOUS
  <1>5. Count(d, {m}) = Count(c, {m}) - Has({m}, c[t]) + Has({m}, v)
    BY <1>2, <1>3, <1>4, CountChange
  <1> QED
    BY <1>1, <1>2, <1>3, <1>4, <1>5, CountFunType

LEMMA FlightsStay ==
    ASSUME IocpInv, NEW t, NEW x, Moves(t, x), CarriedOf(x) = CarriedOf(work[t]), respQ' = respQ
    PROVE  Flights' = Flights
  <1>1. Carried' = Carried
    BY WorkStep
  <1> QED
    BY <1>1 DEF Flights, InQueue


\* A thread takes a task: its hold on the session takes the place of the task.
LEMMA TakeTaskKeeps ==
    ASSUME IocpInv, NEW t \in Threads, TakeTask(t)
    PROVE  IocpInv'
  <1>0. PICK w, g, f, l : Here(w, g, f, l)
    BY Start, Zenon
  <1>1. /\ work[t].pc = "idle" /\ tasks # <<>> /\ tasks' = Tail(tasks)
        /\ UNCHANGED <<mgr, ses, peer, msgs, respQ, wake, loop, budget>>
    BY DEF TakeTask
  <1>2. PICK z : z = Head(tasks)
    OBVIOUS
  <1>3. tasks \in Seq(Tasks) /\ w.tasks = tasks /\ WorldTyped(w)
    BY <1>0 DEF Here, WorldOK, WorldTyped
  <1>4. z \in Tasks /\ Tail(tasks) \in Seq(Tasks)
    BY <1>1, <1>2, <1>3, HeadTailProperties
  <1>5. z = [kind |-> z.kind, s |-> z.s] /\ z.kind \in HandlerKinds \cup FinalKinds /\ z.s \in Objects
    BY <1>4 DEF Tasks
  <1>6. PICK pc : pc = IF z.kind = "close" THEN "free" ELSE "handle"
    OBVIOUS
  <1>7. PICK x : x = [Idle EXCEPT !.kind = z.kind, !.s = z.s, !.pc = pc]
    OBVIOUS
  <1>8. work' = [work EXCEPT ![t] = x]
    BY <1>2, <1>6, <1>7 DEF TakeTask
  <1>9. x = [pc |-> pc, kind |-> z.kind, s |-> z.s, status |-> "eNormal", resp |-> NoResponse]
    BY <1>7 DEF Idle
  <1>10. x.pc = pc /\ x.kind = z.kind /\ x.s = z.s /\ x.resp = NoResponse
    BY <1>9
  <1>11. IsWork(x)
    <2>1. NoResponse \in Responses
      BY PollIs DEF LoopOK, Poll
    <2>2. pc \in WorkPlaces(z.kind)
      BY <1>5, <1>6 DEF WorkPlaces, HandlerKinds, FinalKinds
    <2>3. x = [pc |-> x.pc, kind |-> x.kind, s |-> x.s, status |-> x.status, resp |-> x.resp]
      BY <1>9
    <2> QED
      BY <1>5, <1>10, <2>1, <2>2, <2>3 DEF IsWork
  <1>12. Moves(t, x)
    BY <1>8, <1>11 DEF Moves
  <1>13. Grip(work[t]) = <<"none", 0>> /\ CarriedOf(work[t]) = 0 /\ CarriedOf(x) = 0
    <2>1. work[t] = Idle
      BY <1>1, WorkIs
    <2>2. Grip(Idle) = <<"none", 0>> /\ CarriedOf(Idle) = 0
      BY DEF Grip, CarriedOf, Idle, HandlerKinds, FinalKinds
    <2>3. CarriedOf(x) = 0
      BY <1>6, <1>10 DEF CarriedOf
    <2> QED
      BY <2>1, <2>2, <2>3
  <1>14. PICK v : v = [mgr |-> w.mgr, ses |-> w.ses, msgs |-> w.msgs, tasks |-> Tail(tasks)]
    OBVIOUS
  <1>15. v.mgr = w.mgr /\ v.ses = w.ses /\ v.msgs = w.msgs /\ v.tasks = Tail(tasks)
    BY <1>14
  <1>16. WorldTyped(v)
    BY <1>3, <1>4, <1>14, <1>15 DEF WorldTyped
  <1>17. PICK h : h = Grips'
    OBVIOUS
  <1>18. g = Grips /\ f = Flights /\ l = loop
    BY <1>0, Zenon DEF Here
  <1>19. DOMAIN h = Threads
    BY <1>12, <1>17, WorkStep
  <1>20. ASSUME NEW s \in Objects
         PROVE  /\ HandlerUses(v, h, s) = HandlerUses(w, g, s)
                /\ FinalUses(v, h, s) = FinalUses(w, g, s)
    <2>1. /\ Has(HandlerTasks(s), z) = Has({<<"handler", s>>}, Grip(x))
          /\ Has(FinalTasks(s), z) = Has({<<"final", s>>}, Grip(x))
      <3>1. CASE z.kind \in HandlerKinds
        <4>1. Grip(x) = <<"handler", z.s>> /\ z.kind \notin FinalKinds
          BY <1>6, <1>10, <3>1 DEF Grip, HandlerKinds, FinalKinds
        <4>2. z \in HandlerTasks(s) <=> z.s = s
          BY <1>5, <3>1 DEF HandlerTasks
        <4>3. z \notin FinalTasks(s)
          BY <1>5, <4>1 DEF FinalTasks
        <4> QED
          BY <4>1, <4>2, <4>3 DEF Has
      <3>2. CASE z.kind \in FinalKinds
        <4>1. Grip(x) = <<"final", z.s>> /\ z.kind \notin HandlerKinds
          BY <1>6, <1>10, <3>2 DEF Grip, HandlerKinds, FinalKinds
        <4>2. z \in FinalTasks(s) <=> z.s = s
          BY <1>5, <3>2 DEF FinalTasks
        <4>3. z \notin HandlerTasks(s)
          BY <1>5, <4>1 DEF HandlerTasks
        <4> QED
          BY <4>1, <4>2, <4>3 DEF Has
      <3> QED
        BY <1>5, <3>1, <3>2
    <2>2. /\ Count(h, {<<"handler", s>>}) = Count(g, {<<"handler", s>>})
                - Has({<<"handler", s>>}, Grip(work[t])) + Has({<<"handler", s>>}, Grip(x))
          /\ Count(g, {<<"handler", s>>}) \in Nat
      BY <1>12, <1>17, <1>18, GripMoves
    <2>3. /\ Count(h, {<<"final", s>>}) = Count(g, {<<"final", s>>})
                - Has({<<"final", s>>}, Grip(work[t])) + Has({<<"final", s>>}, Grip(x))
          /\ Count(g, {<<"final", s>>}) \in Nat
      BY <1>12, <1>17, <1>18, GripMoves
    <2>4. Has({<<"handler", s>>}, Grip(work[t])) = 0 /\ Has({<<"final", s>>}, Grip(work[t])) = 0
      BY <1>13 DEF Has
    <2>5. Count(w.tasks, HandlerTasks(s)) = Has(HandlerTasks(s), z) + Count(v.tasks, HandlerTasks(s))
      BY <1>1, <1>2, <1>3, <1>15, CountTail
    <2>6. Count(w.tasks, FinalTasks(s)) = Has(FinalTasks(s), z) + Count(v.tasks, FinalTasks(s))
      BY <1>1, <1>2, <1>3, <1>15, CountTail
    <2>7. Count(v.tasks, HandlerTasks(s)) \in Nat /\ Count(v.tasks, FinalTasks(s)) \in Nat
      BY <1>4, <1>15, CountSeqType
    <2>8. Has(HandlerTasks(s), z) \in {0, 1} /\ Has(FinalTasks(s), z) \in {0, 1}
      BY DEF Has
    <2>9. Flag(w.ses[s].freePosted) \in {0, 1} /\ v.ses[s].freePosted = w.ses[s].freePosted
      BY <1>15 DEF Flag
    <2>10. HandlerUses(v, h, s) = HandlerUses(w, g, s)
      BY <2>1, <2>2, <2>4, <2>5, <2>7, <2>8 DEF HandlerUses
    <2>11. FinalUses(v, h, s) = FinalUses(w, g, s)
      BY <2>1, <2>3, <2>4, <2>6, <2>7, <2>8, <2>9 DEF FinalUses
    <2> QED
      BY <2>10, <2>11
  <1>21. Good(w, g, f, l)
    BY <1>0, Zenon DEF Here
  <1>22. Good(v, h, f, l)
    BY <1>15, <1>16, <1>19, <1>20, <1>21, ShiftGood
  <1>23. Flights' = f
    BY <1>1, <1>12, <1>13, <1>18, FlightsStay
  <1>24. Store(v)
    <2>1. w.mgr = mgr /\ w.ses = ses /\ w.msgs = msgs
      BY <1>0, Zenon DEF Here
    <2> QED
      BY <1>1, <1>15, <2>1 DEF Store
  <1>25. LoopOK(v, l)
    <2>1. LoopOK(w, l)
      BY <1>0, Zenon DEF Here
    <2> QED
      BY <1>15, <2>1 DEF LoopOK, In
  <1>26. respQ' \in Seq(Responses)
    BY <1>1 DEF IocpInv
  <1> QED
    BY <1>1, <1>12, <1>17, <1>18, <1>22, <1>23, <1>24, <1>25, <1>26, ThreadStep

\* A task goes on to its next place.
LEMMA PlaceMoves ==
    ASSUME IocpInv, NEW t \in Threads, NEW y, y = work[t], y.pc # "idle", NEW pc,
           pc \in WorkPlaces(y.kind), NEW x, x = [y EXCEPT !.pc = pc]
    PROVE  /\ IsWork(x) /\ x.pc = pc /\ x.kind = y.kind /\ x.s = y.s /\ x.resp = y.resp
  <1>1. /\ IsWork(y) /\ y.resp \in Responses /\ y.s \in Objects
        /\ y.kind \in HandlerKinds \cup FinalKinds
    BY WorkIs
  <1>2. y = [pc |-> y.pc, kind |-> y.kind, s |-> y.s, status |-> y.status, resp |-> y.resp]
    BY <1>1 DEF IsWork
  <1>3. x = [pc |-> pc, kind |-> y.kind, s |-> y.s, status |-> y.status, resp |-> y.resp]
    BY <1>2
  <1>4. x.pc = pc /\ x.kind = y.kind /\ x.s = y.s /\ x.resp = y.resp
    BY <1>3
  <1>5. x = [pc |-> x.pc, kind |-> x.kind, s |-> x.s, status |-> x.status, resp |-> x.resp]
    BY <1>3
  <1> QED
    BY <1>1, <1>4, <1>5 DEF IsWork

\* setStatus changes nothing that the invariant counts.
LEMMA SetStatusKeeps ==
    ASSUME IocpInv, NEW t \in Threads, SetStatus(t)
    PROVE  IocpInv'
  <1>0. PICK w, g, f, l : Here(w, g, f, l)
    BY Start, Zenon
  <1>1. PICK y : y = work[t]
    OBVIOUS
  <1>2. PICK s : s = y.s
    OBVIOUS
  <1>3. PICK x : x = [y EXCEPT !.pc = "unrun"]
    OBVIOUS
  <1>4. PICK status :
           ses' = [ses EXCEPT ![s] = [@ EXCEPT !.mStatus = status, !.started = TRUE]]
    BY <1>1, <1>2 DEF SetStatus
  <1>5. /\ y.pc = "status" /\ work' = [work EXCEPT ![t] = x]
        /\ UNCHANGED <<mgr, peer, msgs, tasks, respQ, wake, loop, budget>>
    BY <1>1, <1>3 DEF SetStatus
  <1>6. y.kind \in HandlerKinds /\ s \in Objects
    BY <1>1, <1>2, <1>5, WorkIs
  <1>7. "unrun" \in WorkPlaces(y.kind)
    BY <1>6 DEF WorkPlaces
  <1>8. IsWork(x) /\ x.pc = "unrun" /\ x.kind = y.kind /\ x.s = y.s /\ x.resp = y.resp
    BY <1>1, <1>3, <1>5, <1>7, PlaceMoves
  <1>9. Moves(t, x)
    BY <1>5, <1>8 DEF Moves
  <1>10. Grip(x) = Grip(work[t]) /\ CarriedOf(x) = CarriedOf(work[t])
    BY <1>1, <1>5, <1>6, <1>8 DEF Grip, CarriedOf
  <1>11. g = Grips /\ f = Flights /\ l = loop
    BY <1>0, Zenon DEF Here
  <1>12. Grips' = g
    BY <1>9, <1>10, <1>11, WorkStep
  <1>13. Flights' = f
    BY <1>5, <1>9, <1>10, <1>11, FlightsStay
  <1>14. /\ Good(w, g, f, l) /\ WorldOK(w, g) /\ LoopOK(w, l)
         /\ w.mgr = mgr /\ w.ses = ses /\ w.msgs = msgs /\ w.tasks = tasks
    BY <1>0, Zenon DEF Here
  <1>15. PICK r : r = w.ses[s]
    OBVIOUS
  <1>16. PICK q : q = [r EXCEPT !.mStatus = status, !.started = TRUE]
    OBVIOUS
  <1>17. IsSession(r) /\ DOMAIN w.ses = Objects
    BY <1>6, <1>14, <1>15, SessionIn
  <1>18. Touches(w, s, q)
    BY <1>15, <1>16, <1>17 DEF Touches, IsSession, Steady, Timed
  <1>19. PICK v : v = [w EXCEPT !.ses[s] = q]
    OBVIOUS
  <1>20. Good(v, g, f, l) /\ Edited(w, v, s, q) /\ Calm(w, v)
    BY <1>6, <1>14, <1>18, <1>19, TouchGood
  <1>21. Store(v)
    <2>1. ses' = [w.ses EXCEPT ![s] = q]
      BY <1>4, <1>14, <1>15, <1>16
    <2>2. w = [mgr |-> w.mgr, ses |-> w.ses, msgs |-> w.msgs, tasks |-> w.tasks]
      BY <1>14 DEF WorldOK, WorldTyped
    <2>3. v.mgr = w.mgr /\ v.msgs = w.msgs /\ v.tasks = w.tasks /\ v.ses = [w.ses EXCEPT ![s] = q]
      BY <1>19, <2>2
    <2> QED
      BY <1>5, <1>14, <2>1, <2>3 DEF Store
  <1>22. LoopOK(v, l)
    BY <1>14, <1>20, CalmIn DEF LoopOK
  <1>23. respQ' \in Seq(Responses)
    BY <1>5 DEF IocpInv
  <1> QED
    BY <1>5, <1>9, <1>11, <1>12, <1>13, <1>20, <1>21, <1>22, <1>23, ThreadStep

\* A session whose record is edited, when the threads' holds change for it only
Shifts(w, g, v, h, s) ==
    /\ v.mgr = w.mgr /\ v.msgs = w.msgs /\ WorldTyped(v)
    /\ DOMAIN h = Threads
    /\ v.ses[s].life = w.ses[s].life /\ v.ses[s].mSid = w.ses[s].mSid
    /\ v.ses[s].mOutList = w.ses[s].mOutList
    /\ \A t \in Objects : t # s => /\ v.ses[t] = w.ses[t]
                                   /\ HandlerUses(v, h, t) = HandlerUses(w, g, t)
                                   /\ FinalUses(v, h, t) = FinalUses(w, g, t)

LEMMA EditShiftGood ==
    ASSUME NEW w, NEW g, NEW f, NEW l, Good(w, g, f, l), NEW v, NEW h, NEW s \in Objects,
           Shifts(w, g, v, h, s), SessionOK(v, h, s)
    PROVE  Good(v, h, f, l) /\ Calm(w, v)
  <1> USE DEF Shifts
  <1>1. WorldOK(w, g) /\ MailOK(w, f, l)
    BY Zenon DEF Good
  <1>2. \A t \in Objects : /\ v.ses[t].life = w.ses[t].life /\ v.ses[t].mSid = w.ses[t].mSid
                           /\ v.ses[t].mOutList = w.ses[t].mOutList
    OBVIOUS
  <1>3. Calm(w, v)
    BY <1>2 DEF Calm
  <1>4. MailOK(v, f, l)
    BY <1>1, <1>3, CalmMail
  <1>5. SeqsOK(v) /\ TableMaps(v)
    BY <1>1, <1>2, SameSeqs DEF WorldOK
  <1>6. ASSUME NEW t \in Objects, t # s
        PROVE  SessionOK(v, h, t)
    <2>1. SessionOK(w, g, t) /\ v.ses[t] = w.ses[t]
      BY <1>1, <1>6 DEF WorldOK
    <2>2. In(v, t) <=> In(w, t)
      BY <1>3, CalmIn
    <2>3. HandlerUses(v, h, t) = HandlerUses(w, g, t) /\ FinalUses(v, h, t) = FinalUses(w, g, t)
      BY <1>6
    <2> QED
      BY <2>1, <2>2, <2>3, OtherSession
  <1>7. WorldOK(v, h)
    <2>1. \A t \in Objects : SessionOK(v, h, t)
      BY <1>6
    <2>2. TableOK(v.mgr, Objects)
      BY <1>1 DEF WorldOK
    <2> QED
      BY <1>5, <2>1, <2>2 DEF WorldOK
  <1> QED
    BY <1>3, <1>4, <1>7 DEF Good

\* setRunning( 0 ): the task gives the session back.
LEMMA SetNotRunningKeeps ==
    ASSUME IocpInv, NEW t \in Threads, SetNotRunning(t)
    PROVE  IocpInv'
  <1>0. PICK w, g, f, l : Here(w, g, f, l)
    BY Start, Zenon
  <1>1. PICK y : y = work[t]
    OBVIOUS
  <1>2. PICK s : s = y.s
    OBVIOUS
  <1>3. PICK x : x = [y EXCEPT !.pc = "push"]
    OBVIOUS
  <1>4. /\ y.pc = "unrun" /\ work' = [work EXCEPT ![t] = x]
        /\ ses' = [ses EXCEPT ![s].mRunning = FALSE]
        /\ UNCHANGED <<mgr, peer, msgs, tasks, respQ, wake, loop, budget>>
    BY <1>1, <1>2, <1>3 DEF SetNotRunning
  <1>5. y.kind \in HandlerKinds /\ s \in Objects
    BY <1>1, <1>2, <1>4, WorkIs
  <1>6. "push" \in WorkPlaces(y.kind)
    BY <1>5 DEF WorkPlaces
  <1>7. IsWork(x) /\ x.pc = "push" /\ x.kind = y.kind /\ x.s = y.s /\ x.resp = y.resp
    BY <1>1, <1>3, <1>4, <1>6, PlaceMoves
  <1>8. Moves(t, x)
    BY <1>4, <1>7 DEF Moves
  <1>9. /\ Grip(work[t]) = <<"handler", s>> /\ Grip(x) = <<"none", 0>>
        /\ CarriedOf(x) = CarriedOf(work[t])
    BY <1>1, <1>2, <1>4, <1>5, <1>7 DEF Grip, CarriedOf, HandlerKinds, FinalKinds
  <1>10. g = Grips /\ f = Flights /\ l = loop
    BY <1>0, Zenon DEF Here
  <1>11. PICK h : h = Grips'
    OBVIOUS
  <1>12. Flights' = f
    BY <1>4, <1>8, <1>9, <1>10, FlightsStay
  <1>13. /\ Good(w, g, f, l) /\ WorldOK(w, g) /\ LoopOK(w, l)
         /\ w.mgr = mgr /\ w.ses = ses /\ w.msgs = msgs /\ w.tasks = tasks
    BY <1>0, Zenon DEF Here
  <1>14. PICK r : r = w.ses[s]
    OBVIOUS
  <1>15. PICK q : q = [r EXCEPT !.mRunning = FALSE]
    OBVIOUS
  <1>16. IsSession(r) /\ DOMAIN w.ses = Objects /\ SessionOK(w, g, s) /\ WorldTyped(w)
    BY <1>5, <1>13, <1>14, SessionIn
  <1>17. /\ IsSession(q) /\ q.life = r.life /\ q.mSid = r.mSid /\ q.mOutList = r.mOutList
         /\ q.mRunning = FALSE /\ q.freePosted = r.freePosted
         /\ q.recvTimer = r.recvTimer /\ q.sendTimer = r.sendTimer
    BY <1>15, <1>16 DEF IsSession
  <1>18. PICK v : v = [w EXCEPT !.ses[s] = q]
    OBVIOUS
  <1>19. Edited(w, v, s, q)
    BY <1>5, <1>16, <1>17, <1>18, EditWorld
  <1>20. /\ WorldTyped(v) /\ v.mgr = w.mgr /\ v.msgs = w.msgs /\ v.tasks = w.tasks
         /\ v.ses[s] = q /\ \A u \in Objects : u # s => v.ses[u] = w.ses[u]
    BY <1>19 DEF Edited
  <1>21. ASSUME NEW u \in Objects
         PROVE  /\ HandlerUses(v, h, u) = HandlerUses(w, g, u) - Flag(u = s)
                /\ FinalUses(v, h, u) = FinalUses(w, g, u)
                /\ HandlerUses(v, h, u) \in Nat
    <2>1. /\ Count(h, {<<"handler", u>>}) = Count(g, {<<"handler", u>>})
                - Has({<<"handler", u>>}, Grip(work[t])) + Has({<<"handler", u>>}, Grip(x))
          /\ Count(g, {<<"handler", u>>}) \in Nat /\ Count(h, {<<"handler", u>>}) \in Nat
      BY <1>8, <1>10, <1>11, GripMoves
    <2>2. /\ Count(h, {<<"final", u>>}) = Count(g, {<<"final", u>>})
                - Has({<<"final", u>>}, Grip(work[t])) + Has({<<"final", u>>}, Grip(x))
          /\ Count(g, {<<"final", u>>}) \in Nat
      BY <1>8, <1>10, <1>11, GripMoves
    <2>3. /\ Has({<<"handler", u>>}, Grip(work[t])) = Flag(u = s)
          /\ Has({<<"handler", u>>}, Grip(x)) = 0
          /\ Has({<<"final", u>>}, Grip(work[t])) = 0 /\ Has({<<"final", u>>}, Grip(x)) = 0
      BY <1>9 DEF Has, Flag
    <2>4. Flag(u = s) \in {0, 1}
      BY DEF Flag
    <2>5. v.ses[u].freePosted = w.ses[u].freePosted
      BY <1>14, <1>17, <1>20
    <2>6. Count(w.tasks, HandlerTasks(u)) \in Nat /\ Count(w.tasks, FinalTasks(u)) \in Nat
      BY <1>16, CountSeqType DEF WorldTyped
    <2>7. HandlerUses(v, h, u) = HandlerUses(w, g, u) - Flag(u = s) /\ HandlerUses(v, h, u) \in Nat
      BY <1>20, <2>1, <2>3, <2>4, <2>6 DEF HandlerUses
    <2>8. Count(h, {<<"final", u>>}) = Count(g, {<<"final", u>>})
      BY <2>2, <2>3
    <2>9. FinalUses(v, h, u) = FinalUses(w, g, u)
      BY <1>20, <2>5, <2>8 DEF FinalUses
    <2> QED
      BY <2>7, <2>9
  <1>22. ASSUME NEW u \in Objects, u # s
         PROVE  HandlerUses(v, h, u) = HandlerUses(w, g, u)
    <2>1. Flag(u = s) = 0 /\ HandlerUses(w, g, u) \in Nat
      <3>1. SessionOK(w, g, u)
        BY <1>13, SessionIn
      <3> QED
        BY <1>22, <3>1 DEF Flag, SessionOK
    <2> QED
      BY <1>21, <2>1
  <1>23. Shifts(w, g, v, h, s)
    <2>1. DOMAIN h = Threads
      BY <1>8, <1>11, WorkStep
    <2> QED
      BY <1>14, <1>17, <1>20, <1>21, <1>22, <2>1 DEF Shifts
  <1>24. SessionOK(v, h, s)
    <2>1. HandlerUses(v, h, s) = HandlerUses(w, g, s) - 1 /\ HandlerUses(v, h, s) \in Nat
      BY <1>5, <1>21 DEF Flag
    <2>2. HandlerUses(w, g, s) = IF In(w, s) /\ w.ses[s].mRunning THEN 1 ELSE 0
      BY <1>16 DEF SessionOK
    <2>3. In(w, s) /\ HandlerUses(v, h, s) = 0
      BY <2>1, <2>2
    <2>4. In(v, s)
      BY <1>14, <1>17, <1>20, <2>3 DEF In
    <2>5. FinalUses(v, h, s) = FinalUses(w, g, s)
      BY <1>5, <1>21
    <2> QED
      BY <1>14, <1>16, <1>17, <1>20, <2>3, <2>4, <2>5 DEF SessionOK
  <1>25. Good(v, h, f, l) /\ Calm(w, v)
    BY <1>5, <1>13, <1>23, <1>24, EditShiftGood
  <1>26. Store(v)
    <2>1. ses' = [w.ses EXCEPT ![s] = q]
      BY <1>4, <1>13, <1>14, <1>15
    <2>2. w = [mgr |-> w.mgr, ses |-> w.ses, msgs |-> w.msgs, tasks |-> w.tasks]
      BY <1>16 DEF WorldTyped
    <2>3. v.mgr = w.mgr /\ v.msgs = w.msgs /\ v.tasks = w.tasks /\ v.ses = [w.ses EXCEPT ![s] = q]
      BY <1>18, <2>2
    <2> QED
      BY <1>4, <1>13, <2>1, <2>3 DEF Store
  <1>27. LoopOK(v, l)
    BY <1>13, <1>25, CalmIn DEF LoopOK
  <1>28. respQ' \in Seq(Responses)
    BY <1>4 DEF IocpInv
  <1> QED
    BY <1>4, <1>8, <1>10, <1>11, <1>12, <1>25, <1>26, <1>27, <1>28, ThreadStep

\* A response goes from the thread that made it to the queue.
LEMMA PushResponseKeeps ==
    ASSUME IocpInv, NEW t \in Threads, PushResponse(t)
    PROVE  IocpInv'
  <1>0. PICK w, g, f, l : Here(w, g, f, l)
    BY Start, Zenon
  <1>1. PICK y : y = work[t]
    OBVIOUS
  <1>2. PICK x : x = IF y.kind \in {"error", "timeout"} THEN [y EXCEPT !.pc = "free"] ELSE Idle
    OBVIOUS
  <1>3. /\ y.pc = "push" /\ work' = [work EXCEPT ![t] = x] /\ respQ' = Append(respQ, y.resp)
        /\ UNCHANGED <<mgr, ses, peer, msgs, tasks, loop, budget>>
    BY <1>1, <1>2 DEF PushResponse, Pushed
  <1>4. /\ y.resp \in Responses /\ y.kind \in HandlerKinds \cup FinalKinds
        /\ y.pc \in WorkPlaces(y.kind)
    BY <1>1, <1>3, WorkIs
  <1>5. y.kind # "close"
    BY <1>3, <1>4 DEF WorkPlaces, HandlerKinds
  <1>6. IsWork(x) /\ Grip(x) = Grip(y) /\ CarriedOf(x) = 0
    <2>1. CASE y.kind \in {"error", "timeout"}
      <3>1. "free" \in WorkPlaces(y.kind)
        BY <2>1 DEF WorkPlaces, HandlerKinds
      <3>2. x = [y EXCEPT !.pc = "free"]
        BY <1>2, <2>1
      <3>3. IsWork(x) /\ x.pc = "free" /\ x.kind = y.kind /\ x.s = y.s
        BY <1>1, <1>3, <3>1, <3>2, PlaceMoves
      <3> QED
        BY <1>3, <2>1, <3>3 DEF Grip, CarriedOf, HandlerKinds, FinalKinds
    <2>2. CASE y.kind \notin {"error", "timeout"}
      <3>1. x = Idle
        BY <1>2, <2>2
      <3>2. IsWork(Idle)
        BY PollIs DEF LoopOK, Poll, IsWork, Idle
      <3>3. Grip(y) = <<"none", 0>>
        BY <1>3, <1>4, <1>5, <2>2 DEF Grip, HandlerKinds, FinalKinds
      <3>4. Grip(Idle) = <<"none", 0>> /\ CarriedOf(Idle) = 0
        BY DEF Grip, CarriedOf, Idle, HandlerKinds, FinalKinds
      <3> QED
        BY <3>1, <3>2, <3>3, <3>4
    <2> QED
      BY <2>1, <2>2
  <1>7. Moves(t, x)
    BY <1>3, <1>6 DEF Moves
  <1>8. g = Grips /\ f = Flights /\ l = loop
    BY <1>0, Zenon DEF Here
  <1>9. Grips' = g
    BY <1>1, <1>6, <1>7, <1>8, WorkStep
  <1>10. respQ \in Seq(Responses)
    BY DEF IocpInv
  <1>11. respQ' \in Seq(Responses)
    BY <1>3, <1>4, <1>10, AppendProperties
  <1>12. Flights' = f
    <2>1. ASSUME NEW m \in HandlerMsgs
          PROVE  InQueue(m)' = InQueue(m)
      <3>1. /\ Count(Carried', {m}) = Count(Carried, {m}) - Has({m}, CarriedOf(work[t]))
                                      + Has({m}, CarriedOf(x))
            /\ Count(Carried, {m}) \in Nat
        BY <1>7, CarriedMoves
      <3>2. Count(respQ', With(m)) = Count(respQ, With(m)) + Has(With(m), y.resp)
        BY <1>3, <1>4, <1>10, CountAppend
      <3>3. Count(respQ, With(m)) \in Nat
        BY <1>10, CountSeqType
      <3>4. CarriedOf(work[t]) = y.resp.msg
        BY <1>1, <1>3 DEF CarriedOf
      <3>5. Has({m}, CarriedOf(work[t])) = Has(With(m), y.resp)
        BY <1>4, <3>4 DEF Has, With
      <3>6. m # 0
        BY MsgsParts
      <3>7. Has({m}, CarriedOf(x)) = 0
        BY <1>6, <3>6 DEF Has
      <3>8. Has(With(m), y.resp) \in {0, 1}
        BY DEF Has
      <3>9. Count(Carried', {m}) + Count(respQ', With(m)) = Count(Carried, {m}) + Count(respQ, With(m))
        BY <3>1, <3>2, <3>3, <3>5, <3>7, <3>8
      <3> QED
        BY <3>9 DEF InQueue
    <2>2. /\ Flights' = [m \in HandlerMsgs |-> InQueue(m)']
          /\ Flights = [m \in HandlerMsgs |-> InQueue(m)]
      BY DEF Flights
    <2> QED
      BY <1>8, <2>1, <2>2
  <1>13. Good(w, g, f, l) /\ LoopOK(w, l)
    BY <1>0, Zenon DEF Here
  <1>14. Store(w)
    <2>1. w.mgr = mgr /\ w.ses = ses /\ w.msgs = msgs /\ w.tasks = tasks
      BY <1>0, Zenon DEF Here
    <2> QED
      BY <1>3, <2>1 DEF Store
  <1> QED
    BY <1>3, <1>7, <1>8, <1>9, <1>11, <1>12, <1>13, <1>14, ThreadStep

\* The eKeyFree completion takes the place of the task that posts it.
LEMMA PostFreeKeeps ==
    ASSUME IocpInv, NEW t \in Threads, PostFree(t)
    PROVE  IocpInv'
  <1>0. PICK w, g, f, l : Here(w, g, f, l)
    BY Start, Zenon
  <1>1. PICK y : y = work[t]
    OBVIOUS
  <1>2. PICK s : s = y.s
    OBVIOUS
  <1>3. PICK x : x = Idle
    OBVIOUS
  <1>4. /\ y.pc = "free" /\ work' = [work EXCEPT ![t] = x]
        /\ ses' = [ses EXCEPT ![s].freePosted = TRUE]
        /\ UNCHANGED <<mgr, peer, msgs, tasks, respQ, wake, loop, budget>>
    BY <1>1, <1>2, <1>3 DEF PostFree
  <1>5. y.kind \in FinalKinds /\ s \in Objects
    BY <1>1, <1>2, <1>4, WorkIs
  <1>6. IsWork(x)
    BY <1>3, PollIs DEF LoopOK, Poll, IsWork, Idle
  <1>8. Moves(t, x)
    BY <1>4, <1>6 DEF Moves
  <1>9. /\ Grip(work[t]) = <<"final", s>> /\ Grip(x) = <<"none", 0>>
        /\ CarriedOf(x) = CarriedOf(work[t])
    <2>1. Grip(Idle) = <<"none", 0>> /\ CarriedOf(Idle) = 0
      BY DEF Grip, CarriedOf, Idle, HandlerKinds, FinalKinds
    <2>2. Grip(y) = <<"final", s>> /\ CarriedOf(y) = 0
      BY <1>2, <1>4, <1>5 DEF Grip, CarriedOf, HandlerKinds, FinalKinds
    <2> QED
      BY <1>1, <1>3, <2>1, <2>2
  <1>10. g = Grips /\ f = Flights /\ l = loop
    BY <1>0, Zenon DEF Here
  <1>11. PICK h : h = Grips'
    OBVIOUS
  <1>12. Flights' = f
    BY <1>4, <1>8, <1>9, <1>10, FlightsStay
  <1>13. /\ Good(w, g, f, l) /\ WorldOK(w, g) /\ LoopOK(w, l)
         /\ w.mgr = mgr /\ w.ses = ses /\ w.msgs = msgs /\ w.tasks = tasks
    BY <1>0, Zenon DEF Here
  <1>14. PICK r : r = w.ses[s]
    OBVIOUS
  <1>15. PICK q : q = [r EXCEPT !.freePosted = TRUE]
    OBVIOUS
  <1>16. IsSession(r) /\ DOMAIN w.ses = Objects /\ SessionOK(w, g, s) /\ WorldTyped(w)
    BY <1>5, <1>13, <1>14, SessionIn
  <1>17. /\ IsSession(q) /\ q.life = r.life /\ q.mSid = r.mSid /\ q.mOutList = r.mOutList
         /\ q.mRunning = r.mRunning /\ q.freePosted = TRUE
         /\ q.recvTimer = r.recvTimer /\ q.sendTimer = r.sendTimer
    BY <1>15, <1>16 DEF IsSession
  <1>18. PICK v : v = [w EXCEPT !.ses[s] = q]
    OBVIOUS
  <1>19. Edited(w, v, s, q)
    BY <1>5, <1>16, <1>17, <1>18, EditWorld
  <1>20. /\ WorldTyped(v) /\ v.mgr = w.mgr /\ v.msgs = w.msgs /\ v.tasks = w.tasks
         /\ v.ses[s] = q /\ \A u \in Objects : u # s => v.ses[u] = w.ses[u]
    BY <1>19 DEF Edited
  <1>21. ASSUME NEW u \in Objects
         PROVE  /\ HandlerUses(v, h, u) = HandlerUses(w, g, u)
                /\ FinalUses(v, h, u) = FinalUses(w, g, u)
    <2>1. /\ Count(h, {<<"handler", u>>}) = Count(g, {<<"handler", u>>})
                - Has({<<"handler", u>>}, Grip(work[t])) + Has({<<"handler", u>>}, Grip(x))
          /\ Count(g, {<<"handler", u>>}) \in Nat
      BY <1>8, <1>10, <1>11, GripMoves
    <2>2. /\ Count(h, {<<"final", u>>}) = Count(g, {<<"final", u>>})
                - Has({<<"final", u>>}, Grip(work[t])) + Has({<<"final", u>>}, Grip(x))
          /\ Count(g, {<<"final", u>>}) \in Nat /\ Count(h, {<<"final", u>>}) \in Nat
      BY <1>8, <1>10, <1>11, GripMoves
    <2>3. /\ Has({<<"final", u>>}, Grip(work[t])) = Flag(u = s)
          /\ Has({<<"final", u>>}, Grip(x)) = 0
          /\ Has({<<"handler", u>>}, Grip(work[t])) = 0 /\ Has({<<"handler", u>>}, Grip(x)) = 0
      BY <1>9 DEF Has, Flag
    <2>4. Count(h, {<<"handler", u>>}) = Count(g, {<<"handler", u>>})
      BY <2>1, <2>3
    <2>5. HandlerUses(v, h, u) = HandlerUses(w, g, u)
      BY <1>20, <2>4 DEF HandlerUses
    <2>6. Count(w.tasks, FinalTasks(u)) \in Nat
      BY <1>16, CountSeqType DEF WorldTyped
    <2>7. CASE u # s
      <3>1. Count(h, {<<"final", u>>}) = Count(g, {<<"final", u>>}) /\ v.ses[u] = w.ses[u]
        BY <1>20, <2>2, <2>3, <2>7 DEF Flag
      <3>2. FinalUses(v, h, u) = FinalUses(w, g, u)
        BY <1>20, <3>1 DEF FinalUses
      <3> QED
        BY <2>5, <3>2
    <2>8. CASE u = s
      <3>1. Count(h, {<<"final", u>>}) = Count(g, {<<"final", u>>}) - 1
        BY <2>2, <2>3, <2>8 DEF Flag
      <3>2. FinalUses(w, g, u) \in {0, 1}
        BY <1>16, <2>8 DEF SessionOK
      <3>3. Flag(w.ses[u].freePosted) \in {0, 1}
        BY DEF Flag
      <3>4. Flag(w.ses[u].freePosted) = 0
        BY <2>2, <2>6, <3>1, <3>2, <3>3 DEF FinalUses
      <3>5. Flag(v.ses[u].freePosted) = 1
        BY <1>17, <1>20, <2>8 DEF Flag
      <3>6. FinalUses(v, h, u) = FinalUses(w, g, u)
        BY <1>20, <2>2, <2>6, <3>1, <3>4, <3>5 DEF FinalUses
      <3> QED
        BY <2>5, <3>6
    <2> QED
      BY <2>7, <2>8
  <1>23. Shifts(w, g, v, h, s)
    <2>1. DOMAIN h = Threads
      BY <1>8, <1>11, WorkStep
    <2> QED
      BY <1>14, <1>17, <1>20, <1>21, <2>1 DEF Shifts
  <1>24. SessionOK(v, h, s)
    <2>1. HandlerUses(v, h, s) = HandlerUses(w, g, s) /\ FinalUses(v, h, s) = FinalUses(w, g, s)
      BY <1>5, <1>21
    <2>2. In(v, s) <=> In(w, s)
      BY <1>14, <1>17, <1>20 DEF In
    <2> QED
      BY <1>14, <1>16, <1>17, <1>20, <2>1, <2>2 DEF SessionOK
  <1>25. Good(v, h, f, l) /\ Calm(w, v)
    BY <1>5, <1>13, <1>23, <1>24, EditShiftGood
  <1>26. Store(v)
    <2>1. ses' = [w.ses EXCEPT ![s] = q]
      BY <1>4, <1>13, <1>14, <1>15
    <2>2. w = [mgr |-> w.mgr, ses |-> w.ses, msgs |-> w.msgs, tasks |-> w.tasks]
      BY <1>16 DEF WorldTyped
    <2>3. v.mgr = w.mgr /\ v.msgs = w.msgs /\ v.tasks = w.tasks /\ v.ses = [w.ses EXCEPT ![s] = q]
      BY <1>18, <2>2
    <2> QED
      BY <1>4, <1>13, <2>1, <2>3 DEF Store
  <1>27. LoopOK(v, l)
    BY <1>13, <1>25, CalmIn DEF LoopOK
  <1>28. respQ' \in Seq(Responses)
    BY <1>4 DEF IocpInv
  <1> QED
    BY <1>4, <1>8, <1>10, <1>11, <1>12, <1>25, <1>26, <1>27, <1>28, ThreadStep

\* The new message m, with its toList, and its one way to onResponse
Makes(w, v, f, h, m, to) ==
    /\ m \in HandlerMsgs /\ ~w.msgs[m].made /\ to \subseteq AnySid
    /\ v.mgr = w.mgr /\ v.ses = w.ses
    /\ v.msgs[m] = [made |-> TRUE, to |-> to, completions |-> 0]
    /\ \A o \in Msgs : o # m => v.msgs[o] = w.msgs[o]
    /\ h[m] = f[m] + 1 /\ \A o \in HandlerMsgs : o # m => h[o] = f[o]

\* A message that was never made is in no outList.
LEMMA MakeMail ==
    ASSUME NEW w, NEW f, NEW l, MailOK(w, f, l), NEW v, NEW h, NEW m, NEW to,
           Makes(w, v, f, h, m, to)
    PROVE  MailOK(v, h, l)
  <1> USE DEF Makes
  <1>1. \A t \in Objects : In(v, t) <=> In(w, t)
    BY DEF In
  <1>2. ASSUME NEW o \in HandlerMsgs
        PROVE  MessageOK(v, h, l, o)
    <2>1. MessageOK(w, f, l, o) /\ o \in Msgs
      BY MsgsParts DEF MailOK
    <2>2. CASE o # m
      <3>1. v.msgs[o] = w.msgs[o] /\ h[o] = f[o]
        BY <2>1, <2>2
      <3>2. Pending(v, h, l, o) = Pending(w, f, l, o)
        BY <3>1 DEF Pending
      <3> QED
        BY <1>1, <2>1, <3>1, <3>2 DEF MessageOK
    <2>3. CASE o = m
      <3>1. ~w.msgs[m].made /\ MessageOK(w, f, l, m)
        BY <2>1, <2>3
      <3>2. w.msgs[m].to = {} /\ f[m] = 0 /\ ~AtMessage(l, m)
        BY <3>1 DEF MessageOK
      <3>3. v.msgs[m].made /\ v.msgs[m].to = to /\ v.msgs[m].completions = 0 /\ h[m] = 1
        BY <3>2
      <3>4. Pending(v, h, l, m) = to
        BY <3>2, <3>3 DEF Pending
      <3>5. Flag(AtMessage(l, m)) = 0
        BY <3>2 DEF Flag
      <3>6. h[m] + Flag(AtMessage(l, m)) \in {0, 1}
        BY <3>3, <3>5
      <3>7. \A t \in Objects : ~(In(v, t) /\ Holds(v.ses[t].mOutList, m))
        BY <1>1, <3>1, <3>2 DEF MessageOK
      <3>8. v.msgs[m].completions # 1
        BY <3>3
      <3>9. MessageOK(v, h, l, m)
        BY <3>3, <3>4, <3>6, <3>7, <3>8 DEF MessageOK
      <3> QED
        BY <2>3, <3>9
    <2> QED
      BY <2>2, <2>3
  <1>3. ASSUME NEW x \in Objects
        PROVE  RefusalOK(v, x) /\ OutListOK(v, x)
    <2>1. RefusalOK(w, x) /\ OutListOK(w, x)
      BY DEF MailOK
    <2>2. v.msgs[RefusedMsg(x)] = w.msgs[RefusedMsg(x)]
      BY MsgsParts
    <2> QED
      BY <1>1, <2>1, <2>2 DEF RefusalOK, OutListOK
  <1> QED
    BY <1>2, <1>3 DEF MailOK

\* The messages are what they were.
LEMMA SameMail ==
    ASSUME NEW w, NEW f, NEW l, MailOK(w, f, l), NEW v, v.mgr = w.mgr, v.ses = w.ses,
           \A m \in Msgs : v.msgs[m] = w.msgs[m]
    PROVE  MailOK(v, f, l)
  <1>1. \A t \in Objects : In(v, t) <=> In(w, t)
    BY DEF In
  <1>2. ASSUME NEW m \in HandlerMsgs
        PROVE  MessageOK(v, f, l, m)
    <2>1. MessageOK(w, f, l, m) /\ v.msgs[m] = w.msgs[m]
      BY MsgsParts DEF MailOK
    <2>2. Pending(v, f, l, m) = Pending(w, f, l, m)
      BY <2>1 DEF Pending
    <2> QED
      BY <1>1, <2>1, <2>2 DEF MessageOK
  <1>3. ASSUME NEW s \in Objects
        PROVE  RefusalOK(v, s) /\ OutListOK(v, s)
    <2>1. RefusalOK(w, s) /\ OutListOK(w, s) /\ v.msgs[RefusedMsg(s)] = w.msgs[RefusedMsg(s)]
      BY MsgsParts DEF MailOK
    <2> QED
      BY <1>1, <2>1 DEF RefusalOK, OutListOK
  <1> QED
    BY <1>2, <1>3 DEF MailOK

\* The smallest of the messages that are left
LEMMA UnmadeIs ==
    ASSUME Unmade # {}
    PROVE  Min(Unmade) \in HandlerMsgs /\ ~msgs[Min(Unmade)].made
  <1>1. PICK S : S = Unmade
    OBVIOUS
  <1>2. S \subseteq Nat /\ S # {}
    BY <1>1, IocpAssumption DEF Unmade
  <1>3. \E x \in S : \A y \in S : x <= y
    BY <1>2, LeastOf
  <1>4. Min(S) \in S
    BY <1>3 DEF Min
  <1> QED
    BY <1>1, <1>4 DEF Unmade, HandlerMsgs

\* The sids a handler can know
LEMMA KnownIs ==
    ASSUME IocpInv, NEW s \in Objects
    PROVE  Known \subseteq AnySid /\ ses[s].mSid \in AnySid
  <1>0. PICK w, g, f, l : Here(w, g, f, l)
    BY Start, Zenon
  <1>1. WorldOK(w, g) /\ w.ses = ses
    BY <1>0, Zenon DEF Here
  <1>2. \A u \in Objects : ses[u].mSid \in AnySid
    BY <1>1 DEF WorldOK, SessionOK
  <1> QED
    BY <1>2 DEF Known

\* The thread y after its handler
Handled(y, resp, status) ==
    [y EXCEPT !.resp = resp, !.status = status,
              !.pc = IF y.kind \in {"start", "worker"} THEN "status" ELSE "push"]

LEMMA HandleWork ==
    ASSUME IocpInv, NEW t \in Threads, NEW y, y = work[t], y.pc = "handle", NEW status, NEW resp,
           resp \in Responses, NEW x, x = Handled(y, resp, status)
    PROVE  /\ IsWork(x) /\ Grip(x) = Grip(y) /\ CarriedOf(x) = resp.msg /\ CarriedOf(y) = 0
           /\ y.s \in Objects
  <1>1. PICK pc : pc = IF y.kind \in {"start", "worker"} THEN "status" ELSE "push"
    OBVIOUS
  <1>2. /\ IsWork(y) /\ y.s \in Objects /\ y.kind \in HandlerKinds \cup FinalKinds
        /\ y.pc \in WorkPlaces(y.kind)
    BY WorkIs
  <1>3. y = [pc |-> y.pc, kind |-> y.kind, s |-> y.s, status |-> y.status, resp |-> y.resp]
    BY <1>2 DEF IsWork
  <1>4. x = [pc |-> pc, kind |-> y.kind, s |-> y.s, status |-> status, resp |-> resp]
    BY <1>1, <1>3 DEF Handled
  <1>5. x.pc = pc /\ x.kind = y.kind /\ x.s = y.s /\ x.resp = resp
    BY <1>4
  <1>6. y.kind # "close"
    BY <1>2 DEF WorkPlaces, HandlerKinds
  <1>7. pc \in WorkPlaces(y.kind) /\ pc \in {"status", "push"}
    BY <1>1, <1>2, <1>6 DEF WorkPlaces, HandlerKinds, FinalKinds
  <1>8. IsWork(x)
    <2>1. x = [pc |-> x.pc, kind |-> x.kind, s |-> x.s, status |-> x.status, resp |-> x.resp]
      BY <1>4
    <2> QED
      BY <1>2, <1>5, <1>7, <2>1 DEF IsWork
  <1>9. Grip(x) = Grip(y)
    <2>1. CASE y.kind \in HandlerKinds
      <3>1. x.pc \in {"handle", "status", "unrun"} /\ x.kind \in HandlerKinds
        BY <1>1, <1>5, <2>1 DEF HandlerKinds
      <3>2. Grip(x) = <<"handler", x.s>>
        BY <3>1 DEF Grip
      <3>3. Grip(y) = <<"handler", y.s>>
        BY <2>1 DEF Grip
      <3> QED
        BY <1>5, <3>2, <3>3
    <2>2. CASE y.kind \notin HandlerKinds
      <3>1. Grip(y) = <<"final", y.s>>
        BY <1>2, <2>2 DEF Grip
      <3>2. Grip(x) = <<"final", x.s>>
        BY <1>2, <1>5, <2>2 DEF Grip
      <3> QED
        BY <1>5, <3>1, <3>2
    <2> QED
      BY <2>1, <2>2
  <1>10. CarriedOf(x) = resp.msg /\ CarriedOf(y) = 0
    BY <1>5, <1>7 DEF CarriedOf
  <1> QED
    BY <1>2, <1>8, <1>9, <1>10

\* A handler makes its response, and the message that goes with it.
LEMMA HandleKeeps ==
    ASSUME IocpInv, NEW t \in Threads, NEW to \in SUBSET AnySid, NEW close \in SUBSET AnySid,
           NEW exit, NEW init, Handle(t, to, close, exit, init)
    PROVE  IocpInv'
  <1>0. PICK w, g, f, l : Here(w, g, f, l)
    BY Start, Zenon
  <1>1. PICK y : y = work[t]
    OBVIOUS
  <1>2. PICK s : s = y.s
    OBVIOUS
  <1>3. PICK m : m = IF to = {} \/ ~init THEN 0 ELSE Min(Unmade)
    OBVIOUS
  <1>4. PICK resp : resp = [from |-> ses[s].mSid, msg |-> m, close |-> close]
    OBVIOUS
  <1>5. PICK status : status = IF exit THEN "eWouldExit" ELSE "eNormal"
    OBVIOUS
  <1>6. PICK x : x = Handled(y, resp, status)
    OBVIOUS
  <1>7. /\ y.pc = "handle" /\ work' = [work EXCEPT ![t] = x]
        /\ to # {} => Unmade # {} /\ init
        /\ msgs' = [o \in Msgs |-> IF o = m THEN [made |-> TRUE, to |-> to, completions |-> 0]
                                   ELSE msgs[o]]
        /\ UNCHANGED <<mgr, peer, tasks, respQ, wake, loop>>
    BY <1>1, <1>2, <1>3, <1>4, <1>5, <1>6 DEF Handle, Handled
  <1>8. PICK channel : ses' = [ses EXCEPT ![s].channel = channel]
    BY <1>1, <1>2 DEF Handle
  <1>9. s \in Objects
    BY <1>1, <1>2, <1>7, WorkIs
  <1>10. m = 0 \/ (m \in HandlerMsgs /\ ~msgs[m].made)
    BY <1>3, <1>7, UnmadeIs
  <1>11. resp \in Responses /\ resp.msg = m
    <2>1. ses[s].mSid \in AnySid
      BY <1>9, KnownIs
    <2>2. m \in HandlerMsgs \cup {0}
      BY <1>10
    <2>3. PICK from : from = ses[s].mSid
      OBVIOUS
    <2>4. resp = [from |-> from, msg |-> m, close |-> close]
      BY <1>4, <2>3
    <2>5. resp \in Responses
      BY <2>1, <2>2, <2>3, <2>4 DEF Responses
    <2>6. resp.msg = m
      BY <2>4
    <2> QED
      BY <2>5, <2>6
  <1>12. IsWork(x) /\ Grip(x) = Grip(work[t]) /\ CarriedOf(x) = m /\ CarriedOf(work[t]) = 0
    BY <1>1, <1>6, <1>7, <1>11, HandleWork
  <1>13. Moves(t, x)
    BY <1>7, <1>12 DEF Moves
  <1>14. g = Grips /\ f = Flights /\ l = loop
    BY <1>0, Zenon DEF Here
  <1>15. Grips' = g
    BY <1>12, <1>13, <1>14, WorkStep
  <1>16. /\ Good(w, g, f, l) /\ WorldOK(w, g) /\ LoopOK(w, l)
         /\ w.mgr = mgr /\ w.ses = ses /\ w.msgs = msgs /\ w.tasks = tasks
    BY <1>0, Zenon DEF Here
  <1>17. PICK r : r = w.ses[s]
    OBVIOUS
  <1>18. PICK q : q = [r EXCEPT !.channel = channel]
    OBVIOUS
  <1>19. IsSession(r) /\ DOMAIN w.ses = Objects /\ WorldTyped(w)
    BY <1>9, <1>16, <1>17, SessionIn
  <1>20. Touches(w, s, q)
    BY <1>17, <1>18, <1>19 DEF Touches, IsSession, Steady, Timed
  <1>21. PICK u : u = [w EXCEPT !.ses[s] = q]
    OBVIOUS
  <1>22. Good(u, g, f, l) /\ Calm(w, u)
    BY <1>9, <1>16, <1>20, <1>21, TouchGood
  <1>23. u.mgr = w.mgr /\ u.msgs = w.msgs /\ u.tasks = w.tasks /\ u.ses = ses' /\ WorldTyped(u)
    <2>1. ses' = [w.ses EXCEPT ![s] = q]
      BY <1>8, <1>16, <1>17, <1>18
    <2>2. w = [mgr |-> w.mgr, ses |-> w.ses, msgs |-> w.msgs, tasks |-> w.tasks]
      BY <1>19 DEF WorldTyped
    <2>3. u.mgr = w.mgr /\ u.msgs = w.msgs /\ u.tasks = w.tasks /\ u.ses = [w.ses EXCEPT ![s] = q]
      BY <1>21, <2>2
    <2>4. WorldTyped(u)
      BY <1>22 DEF Good, WorldOK
    <2> QED
      BY <2>1, <2>3, <2>4
  <1>24. LoopOK(u, l)
    BY <1>16, <1>22, CalmIn DEF LoopOK
  <1>25. respQ' \in Seq(Responses)
    BY <1>7 DEF IocpInv
  <1>26. CASE m = 0
    <2>1. \A o \in Msgs : msgs'[o] = u.msgs[o]
      BY <1>7, <1>16, <1>23, <1>26, MsgsParts
    <2>2. PICK v : v = [mgr |-> u.mgr, ses |-> u.ses, msgs |-> msgs', tasks |-> u.tasks]
      OBVIOUS
    <2>4. v.mgr = u.mgr /\ v.ses = u.ses /\ v.msgs = msgs' /\ v.tasks = u.tasks
      BY <2>2
    <2>5. WorldTyped(v)
      <3>1. DOMAIN v.msgs = Msgs
        BY <1>7, <2>4
      <3> QED
        BY <1>23, <2>1, <2>2, <2>4, <3>1 DEF WorldTyped
    <2>6. WorldOK(v, g)
      <3>1. WorldOK(u, g)
        BY <1>22, Zenon DEF Good
      <3>2. \A n \in Objects : Steady(u.ses[n], v.ses[n])
        BY <2>4 DEF Steady
      <3>3. \A n \in Objects : Timed(v.ses[n]) => Timed(u.ses[n]) \/ In(u, n)
        BY <2>4
      <3> QED
        BY <2>4, <2>5, <3>1, <3>2, <3>3, TouchWorld
    <2>7. MailOK(v, f, l)
      <3>1. MailOK(u, f, l)
        BY <1>22, Zenon DEF Good
      <3> QED
        BY <2>1, <2>4, <3>1, SameMail
    <2>8. Good(v, g, f, l)
      <3>1. DOMAIN g = Threads
        BY <1>16, Zenon DEF Good
      <3> QED
        BY <2>6, <2>7, <3>1, Zenon DEF Good
    <2>9. Store(v)
      BY <1>7, <1>16, <1>23, <2>4 DEF Store
    <2>10. LoopOK(v, l)
      BY <1>24, <2>4 DEF LoopOK, In
    <2>3. Flights' = f
      BY <1>7, <1>12, <1>13, <1>14, <1>26, FlightsStay
    <2> QED
      BY <1>7, <1>13, <1>14, <1>15, <1>25, <2>3, <2>8, <2>9, <2>10, ThreadStep
  <1>27. CASE m \in HandlerMsgs /\ ~msgs[m].made
    <2>1. PICK h : h = Flights'
      OBVIOUS
    <2>2. ASSUME NEW o \in HandlerMsgs
          PROVE  h[o] = f[o] + Has({o}, m)
      <3>1. Flights[o] = Count(Carried, {o}) + Count(respQ, With(o))
            /\ Count(Carried, {o}) \in Nat /\ Count(respQ, With(o)) \in Nat
        BY FlightsType
      <3>2. h[o] = Count(Carried', {o}) + Count(respQ', With(o))
        BY <2>1 DEF Flights, InQueue
      <3>3. Count(Carried', {o}) = Count(Carried, {o}) - Has({o}, CarriedOf(work[t]))
                                   + Has({o}, CarriedOf(x))
        BY <1>13, CarriedMoves
      <3>4. o # 0
        BY MsgsParts
      <3>5. Has({o}, CarriedOf(work[t])) = 0 /\ Has({o}, CarriedOf(x)) = Has({o}, m)
        BY <1>12, <3>4 DEF Has
      <3>6. Has({o}, m) \in {0, 1}
        BY DEF Has
      <3> QED
        BY <1>7, <1>14, <3>1, <3>2, <3>3, <3>5, <3>6
    <2>3. h[m] = f[m] + 1 /\ \A o \in HandlerMsgs : o # m => h[o] = f[o]
      <3>1. h[m] = f[m] + Has({m}, m) /\ Has({m}, m) = 1
        BY <1>27, <2>2 DEF Has
      <3>2. ASSUME NEW o \in HandlerMsgs, o # m
            PROVE  h[o] = f[o]
        <4>1. h[o] = f[o] + Has({o}, m) /\ Has({o}, m) = 0 /\ f[o] \in Nat
          BY <1>14, <2>2, <3>2, FlightsType DEF Has
        <4> QED
          BY <4>1
      <3> QED
        BY <3>1, <3>2
    <2>4. PICK z : z = [made |-> TRUE, to |-> to, completions |-> 0]
      OBVIOUS
    <2>5. IsMessage(z) /\ m \in Msgs
      BY <1>27, <2>4, MsgsParts DEF IsMessage
    <2>6. PICK v : v = [u EXCEPT !.msgs[m] = z]
      OBVIOUS
    <2>7. MsgEdited(u, v, m, z)
      BY <1>23, <2>5, <2>6, MsgWorld
    <2>8. /\ WorldTyped(v) /\ v.mgr = u.mgr /\ v.ses = u.ses /\ v.tasks = u.tasks
          /\ v.msgs[m] = z /\ \A o \in Msgs : o # m => v.msgs[o] = u.msgs[o]
      BY <2>7 DEF MsgEdited
    <2>9. WorldOK(v, g)
      <3>1. WorldOK(u, g)
        BY <1>22, Zenon DEF Good
      <3>2. \A n \in Objects : Steady(u.ses[n], v.ses[n])
        BY <2>8 DEF Steady
      <3>3. \A n \in Objects : Timed(v.ses[n]) => Timed(u.ses[n]) \/ In(u, n)
        BY <2>8
      <3> QED
        BY <2>8, <3>1, <3>2, <3>3, TouchWorld
    <2>10. Makes(u, v, f, h, m, to)
      BY <1>16, <1>23, <1>27, <2>3, <2>4, <2>8 DEF Makes
    <2>11. MailOK(v, h, l)
      <3>1. MailOK(u, f, l)
        BY <1>22, Zenon DEF Good
      <3> QED
        BY <2>10, <3>1, MakeMail
    <2>12. Good(v, g, h, l)
      <3>1. DOMAIN g = Threads
        BY <1>16, Zenon DEF Good
      <3> QED
        BY <2>9, <2>11, <3>1, Zenon DEF Good
    <2>13. v.msgs = msgs'
      <3>1. u = [mgr |-> u.mgr, ses |-> u.ses, msgs |-> u.msgs, tasks |-> u.tasks]
            /\ DOMAIN u.msgs = Msgs
        BY <1>23 DEF WorldTyped
      <3>2. v.msgs = [u.msgs EXCEPT ![m] = z]
        BY <2>6, <3>1
      <3>3. u.msgs = msgs
        BY <1>16, <1>23
      <3>4. [u.msgs EXCEPT ![m] = z] = [o \in Msgs |-> IF o = m THEN z ELSE u.msgs[o]]
        BY <3>1
      <3> QED
        BY <1>7, <2>4, <3>2, <3>3, <3>4
    <2>14. Store(v)
      BY <1>7, <1>16, <1>23, <2>8, <2>13 DEF Store
    <2>15. LoopOK(v, l)
      BY <1>24, <2>8 DEF LoopOK, In
    <2> QED
      BY <1>7, <1>13, <1>14, <1>15, <1>25, <2>1, <2>12, <2>14, <2>15, ThreadStep
  <1> QED
    BY <1>10, <1>26, <1>27

LEMMA HandleStepKeeps ==
    ASSUME IocpInv, NEW t \in Threads, HandleStep(t)
    PROVE  IocpInv'
  <1>1. PICK to \in SUBSET (Known \cup {ses[work[t].s].mSid}),
             close \in {{}} \cup {{sid} : sid \in Known}, exit \in BOOLEAN, init \in BOOLEAN :
          Handle(t, to, close, exit, init)
    BY DEF HandleStep
  <1>2. PICK y : y = work[t]
    OBVIOUS
  <1>3. y.pc = "handle"
    BY <1>2 DEF HandleStep
  <1>4. work[t].s \in Objects
    BY <1>2, <1>3, WorkIs
  <1>5. Known \subseteq AnySid /\ ses[work[t].s].mSid \in AnySid
    BY <1>4, KnownIs
  <1>6. to \in SUBSET AnySid /\ close \in SUBSET AnySid
    BY <1>5
  <1> QED
    BY <1>1, <1>6, HandleKeeps

-----------------------------------------------------------------------------
(* The invariant *)

\* A step that stores nothing new
LEMMA SameKeeps ==
    ASSUME IocpInv, UNCHANGED <<mgr, ses, msgs, tasks, work, respQ, loop>>
    PROVE  IocpInv'
  <1>0. PICK w, g, f, l : Here(w, g, f, l)
    BY Start, Zenon
  <1>1. /\ Good(w, g, f, l) /\ LoopOK(w, l) /\ g = Grips /\ f = Flights /\ l = loop
        /\ w.mgr = mgr /\ w.ses = ses /\ w.msgs = msgs /\ w.tasks = tasks
    BY <1>0, Zenon DEF Here
  <1>2. Store(w) /\ l = loop'
    BY <1>1 DEF Store
  <1> QED
    BY <1>1, <1>2, LoopStep

LEMMA EventLoopKeeps ==
    ASSUME IocpInv, EventLoop
    PROVE  IocpInv'
  <1>1. CASE \E s \in Objects, fail \in BOOLEAN, bad \in Faults : OnAccept(s, fail, bad)
    BY <1>1, OnAcceptKeeps
  <1>2. CASE \E s \in Objects : EventLoopStale(s)
    BY <1>2, EventLoopStaleKeeps
  <1>3. CASE \E s \in Objects : EventLoopFailed(s)
    BY <1>3, EventLoopFailedKeeps
  <1>4. CASE \E s \in Objects, n \in 1 .. MaxEvents, bad \in Faults : OnRecvData(s, n, bad)
    BY <1>4, OnRecvDataKeeps
  <1>5. CASE \E s \in Objects, bad \in Faults : OnRecvEnd(s, bad)
    BY <1>5, OnRecvEndKeeps
  <1>6. CASE \E s \in Objects, n \in 0 .. (MaxMsgs + 1), bad \in Faults : OnSend(s, n, bad)
    BY <1>6, OnSendKeeps
  <1>7. CASE \E s \in Objects, bad \in Faults : OnSendError(s, bad)
    BY <1>7, OnSendErrorKeeps
  <1>8. CASE OnSendTail
    BY <1>8, OnSendTailKeeps
  <1>9. CASE \E s \in Objects : EventLoopFree(s)
    BY <1>9, EventLoopFreeKeeps
  <1>10. CASE \E s \in Objects : OnTimeout(s)
    BY <1>10, OnTimeoutKeeps
  <1>11. CASE ProcessBegin \/ ProcessEnd
    BY <1>11, ProcessKeeps
  <1>12. CASE \E bad \in Faults : ResponseFrom(bad)
    BY <1>12, ResponseFromKeeps
  <1>13. CASE \E sid \in loop.sids, bad \in Faults : ResponseTo(sid, bad) \/ ResponseClose(sid, bad)
    BY <1>13, ResponseToKeeps, ResponseCloseKeeps
  <1>14. CASE ResponseExit
    BY <1>14, ResponseExitKeeps
  <1> QED
    BY <1>1, <1>2, <1>3, <1>4, <1>5, <1>6, <1>7, <1>8, <1>9, <1>10, <1>11, <1>12, <1>13, <1>14
       DEF EventLoop

LEMMA TaskStepKeeps ==
    ASSUME IocpInv, NEW t \in Threads, TaskStep(t)
    PROVE  IocpInv'
  <1>1. TakeTask(t) \/ HandleStep(t) \/ SetStatus(t) \/ SetNotRunning(t) \/ PushResponse(t)
        \/ PostFree(t)
    BY DEF TaskStep, WorkerTask, StartTask, ErrorTask, TimeoutTask, CloseTask
  <1> QED
    BY <1>1, TakeTaskKeeps, HandleStepKeeps, SetStatusKeeps, SetNotRunningKeeps,
       PushResponseKeeps, PostFreeKeeps

LEMMA NextKeeps ==
    ASSUME IocpInv, [Next]_vars
    PROVE  IocpInv'
  <1>1. CASE EventLoop
    BY <1>1, EventLoopKeeps
  <1>2. CASE \E t \in Threads : TaskStep(t)
    BY <1>2, TaskStepKeeps
  <1>3. CASE PeerStep
    <2>1. UNCHANGED <<mgr, ses, msgs, tasks, work, respQ, loop>>
      BY <1>3 DEF PeerStep, PeerSend, PeerLeave
    <2> QED
      BY <2>1, SameKeeps
  <1>4. CASE UNCHANGED vars
    <2>1. UNCHANGED <<mgr, ses, msgs, tasks, work, respQ, loop>>
      BY <1>4 DEF vars
    <2> QED
      BY <2>1, SameKeeps
  <1> QED
    BY <1>1, <1>2, <1>3, <1>4 DEF Next

\* At the start there are neither sessions nor tasks.
LEMMA InitKeeps ==
    ASSUME Init
    PROVE  IocpInv
  <1>1. PICK w : w = World
    OBVIOUS
  <1>2. /\ w.mgr = EmptyTable /\ w.ses = [s \in Objects |-> NewSession]
        /\ w.msgs = [m \in Msgs |-> NewMessage] /\ w.tasks = <<>>
        /\ w = [mgr |-> w.mgr, ses |-> w.ses, msgs |-> w.msgs, tasks |-> w.tasks]
    BY <1>1 DEF World, Init
  <1>3. PICK g, f : g = Grips /\ f = Flights
    OBVIOUS
  <1>4. IsFiniteSet(Threads)
    BY IocpAssumption
  <1>5. /\ DOMAIN g = Threads /\ \A t \in Threads : g[t] = <<"none", 0>>
        /\ DOMAIN Carried = Threads /\ \A t \in Threads : Carried[t] = 0
    <2>1. \A t \in Threads : work[t] = Idle
      BY DEF Init
    <2>2. Grip(Idle) = <<"none", 0>> /\ Idle.pc = "idle"
      BY DEF Grip, Idle, HandlerKinds, FinalKinds
    <2> QED
      BY <1>3, <2>1, <2>2 DEF Grips, Carried
  <1>6. WorldTyped(w)
    <2>1. IsSession(NewSession) /\ IsMessage(NewMessage)
      BY DEF IsSession, IsMessage, NewSession, NewMessage
    <2>2. <<>> \in Seq(Tasks)
      BY EmptySeq
    <2> QED
      BY <1>2, <2>1, <2>2 DEF WorldTyped
  <1>7. TableOK(w.mgr, Objects) /\ \A k \in Keys : w.mgr.mSession[k] = NULL /\ w.mgr.mSeq[k] = 0
    <2>1. TableOK(w.mgr, Objects)
      BY <1>2, EmptyTableOK
    <2>2. \A k \in Keys : w.mgr.mSession[k] = NULL /\ w.mgr.mSeq[k] = 0
      BY <1>2 DEF EmptyTable
    <2> QED
      BY <2>1, <2>2
  <1>8. \A s \in Objects : w.ses[s] = NewSession /\ ~In(w, s) /\ w.ses[s].life = "unborn"
    BY <1>2 DEF In, NewSession
  <1>9. ASSUME NEW s \in Objects
        PROVE  SessionOK(w, g, s)
    <2>1. Count(w.tasks, HandlerTasks(s)) = 0 /\ Count(w.tasks, FinalTasks(s)) = 0
      BY <1>2, CountEmpty
    <2>2. Count(g, {<<"handler", s>>}) = 0
      <3>1. IsFiniteSet(Places(g, {<<"handler", s>>}))
        BY <1>5, GripsFinite
      <3>2. \A t \in DOMAIN g : g[t] \notin {<<"handler", s>>}
        BY <1>5
      <3> QED
        BY <3>1, <3>2, CountZero
    <2>3. Count(g, {<<"final", s>>}) = 0
      <3>1. IsFiniteSet(Places(g, {<<"final", s>>}))
        BY <1>5, GripsFinite
      <3>2. \A t \in DOMAIN g : g[t] \notin {<<"final", s>>}
        BY <1>5
      <3> QED
        BY <3>1, <3>2, CountZero
    <2>4. /\ w.ses[s].mRunning = FALSE /\ w.ses[s].freePosted = FALSE /\ w.ses[s].mSid = NoSid
          /\ w.ses[s].recvTimer = FALSE /\ w.ses[s].sendTimer = FALSE /\ w.ses[s].life = "unborn"
      BY <1>8 DEF NewSession
    <2>5. HandlerUses(w, g, s) = 0 /\ FinalUses(w, g, s) = 0
      BY <2>1, <2>2, <2>3, <2>4 DEF HandlerUses, FinalUses, Flag
    <2> QED
      BY <1>8, <2>4, <2>5 DEF SessionOK, AnySid
  <1>10. TableMaps(w)
    <2>1. NULL \notin Objects
      BY IocpAssumption DEF Objects
    <2> QED
      BY <1>7, <2>1 DEF TableMaps
  <1>11. SeqsOK(w)
    <2>1. Gone(w) = {}
      BY <1>8 DEF Gone
    <2>2. Cardinality(Gone(w)) = 0
      BY <2>1, FS_EmptySet
    <2> QED
      BY <1>7, <2>1, <2>2 DEF SeqsOK
  <1>12. WorldOK(w, g)
    BY <1>6, <1>7, <1>9, <1>10, <1>11 DEF WorldOK
  <1>13. ASSUME NEW m \in Msgs
         PROVE  w.msgs[m].made = FALSE /\ w.msgs[m].to = {} /\ w.msgs[m].completions = 0
    BY <1>2 DEF NewMessage
  <1>14. loop = Poll
    BY DEF Init
  <1>15. ASSUME NEW m \in HandlerMsgs
         PROVE  MessageOK(w, f, Poll, m)
    <2>1. m \in Msgs /\ m # 0
      BY MsgsParts
    <2>2. Count(Carried, {m}) = 0
      <3>1. PICK c : c = Carried
        OBVIOUS
      <3>2. DOMAIN c = Threads /\ \A t \in DOMAIN c : c[t] \notin {m}
        BY <1>5, <2>1, <3>1
      <3>3. IsFiniteSet(Places(c, {m}))
        BY <1>4, <3>2, CountFunType
      <3> QED
        BY <3>1, <3>2, <3>3, CountZero
    <2>3. Count(respQ, With(m)) = 0
      BY CountEmpty DEF Init
    <2>4. f[m] = 0
      BY <1>3, <2>2, <2>3 DEF Flights, InQueue
    <2>5. ~AtMessage(Poll, m)
      BY PollIs DEF AtMessage
    <2>6. Flag(AtMessage(Poll, m)) = 0 /\ Pending(w, f, Poll, m) = {}
      BY <2>4, <2>5 DEF Flag, Pending
    <2>7. w.msgs[m].to = {} /\ w.msgs[m].completions = 0
      BY <1>13, <2>1
    <2> QED
      BY <1>8, <2>4, <2>5, <2>6, <2>7 DEF MessageOK
  <1>16. ASSUME NEW s \in Objects
         PROVE  RefusalOK(w, s) /\ OutListOK(w, s)
    BY <1>8, <1>13, MsgsParts DEF RefusalOK, OutListOK
  <1>17. MailOK(w, f, Poll)
    BY <1>15, <1>16 DEF MailOK
  <1>18. Good(w, g, f, Poll) /\ LoopOK(w, Poll)
    BY <1>5, <1>12, <1>17, PollIs DEF Good
  <1>19. DOMAIN work = Threads /\ \A t \in Threads : IsWork(work[t])
    <2>1. IsWork(Idle)
      BY PollIs DEF LoopOK, Poll, IsWork, Idle
    <2> QED
      BY <2>1 DEF Init
  <1>20. respQ \in Seq(Responses)
    BY EmptySeq DEF Init
  <1> QED
    BY <1>1, <1>3, <1>14, <1>18, <1>19, <1>20 DEF IocpInv

\* The invariant of the completion-port server holds in every behaviour, for
\* any number of sessions, threads, messages and failures.
THEOREM IocpInvariant == Spec => []IocpInv
  <1>1. Init => IocpInv
    BY InitKeeps
  <1>2. IocpInv /\ [Next]_vars => IocpInv'
    BY NextKeeps
  <1> QED
    BY <1>1, <1>2, PTL DEF Spec

-----------------------------------------------------------------------------
(* The properties *)

\* The tasks that use a session, as the property counts them and as the
\* invariant does
LEMMA UsersAre ==
    ASSUME IocpInv, NEW s \in Objects, NEW w, NEW g, w = World, g = Grips
    PROVE  Users(s) = HandlerUses(w, g, s) + FinalUses(w, g, s)
  <1>1. /\ WorldTyped(w) /\ w.tasks = tasks /\ w.ses = ses /\ DOMAIN g = Threads
        /\ tasks \in Seq(Tasks)
    BY Zenon DEF IocpInv, Good, WorldOK, WorldTyped, World
  <1> DEFINE Q == {i \in DOMAIN tasks : tasks[i].s = s}
             A == {t \in Threads : work[t].s = s /\
                      work[t].pc \in {"handle", "status", "unrun", "free"}}
             B == {t \in Threads : work[t].s = s /\ work[t].pc = "push" /\
                      work[t].kind \in {"error", "timeout"}}
             QH == Places(tasks, HandlerTasks(s))
             QF == Places(tasks, FinalTasks(s))
             GH == Places(g, {<<"handler", s>>})
             GF == Places(g, {<<"final", s>>})
  <1>2. Users(s) = Cardinality(Q) + Cardinality(A) + Cardinality(B) + Flag(w.ses[s].freePosted)
    BY <1>1 DEF Users, Flag
  <1>3. Cardinality(Q) = Count(tasks, HandlerTasks(s)) + Count(tasks, FinalTasks(s))
    <2>1. IsFiniteSet(QH) /\ IsFiniteSet(QF)
      BY <1>1, CountSeqType
    <2>2. ASSUME NEW i \in DOMAIN tasks
          PROVE  /\ tasks[i].s = s <=> tasks[i] \in HandlerTasks(s) \/ tasks[i] \in FinalTasks(s)
                 /\ ~(tasks[i] \in HandlerTasks(s) /\ tasks[i] \in FinalTasks(s))
      <3>1. PICK z : z = tasks[i]
        OBVIOUS
      <3>2. z \in Tasks
        BY <1>1, <3>1, ElementOfSeq, LenProperties
      <3>3. z = [kind |-> z.kind, s |-> z.s] /\ z.kind \in HandlerKinds \cup FinalKinds
        BY <3>2 DEF Tasks
      <3>4. z \in HandlerTasks(s) <=> z.s = s /\ z.kind \in HandlerKinds
        BY <3>3 DEF HandlerTasks
      <3>5. z \in FinalTasks(s) <=> z.s = s /\ z.kind \in FinalKinds
        BY <3>3 DEF FinalTasks
      <3>6. ~(z.kind \in HandlerKinds /\ z.kind \in FinalKinds)
        BY DEF HandlerKinds, FinalKinds
      <3> QED
        BY <3>1, <3>3, <3>4, <3>5, <3>6
    <2>3. Q = QH \cup QF /\ QH \cap QF = {}
      BY <2>2 DEF Places
    <2>4. Cardinality(QH \cup QF) = Cardinality(QH) + Cardinality(QF) - Cardinality(QH \cap QF)
      BY <2>1, FS_Union
    <2>5. Cardinality(QH \cap QF) = 0
      BY <2>3, FS_EmptySet
    <2>6. Cardinality(QH) \in Nat /\ Cardinality(QF) \in Nat
      BY <2>1, FS_CardinalityType
    <2>7. Cardinality(Q) = Cardinality(QH \cup QF)
      BY <2>3
    <2> HIDE DEF Q, QH, QF
    <2>8. Cardinality(Q) = Cardinality(QH) + Cardinality(QF)
      BY <2>4, <2>5, <2>6, <2>7
    <2> QED
      BY <2>8 DEF Count, QH, QF
  <1>4. Cardinality(A) + Cardinality(B) = Count(g, {<<"handler", s>>}) + Count(g, {<<"final", s>>})
    <2>1. IsFiniteSet(GH) /\ IsFiniteSet(GF) /\ IsFiniteSet(A) /\ IsFiniteSet(B)
      <3>1. IsFiniteSet(Threads) /\ A \subseteq Threads /\ B \subseteq Threads
        BY IocpAssumption
      <3> QED
        BY <1>1, <3>1, GripsFinite, FS_Subset
    <2>2. ASSUME NEW t \in Threads
          PROVE  t \in A \/ t \in B <=> t \in GH \/ t \in GF
      <3>1. PICK y : y = work[t]
        OBVIOUS
      <3>2. g[t] = Grip(y)
        BY <3>1 DEF Grips
      <3>3. /\ y.pc = "idle" => y = Idle
            /\ y.pc # "idle" => /\ y.s \in Objects /\ y.kind \in HandlerKinds \cup FinalKinds
                                /\ y.pc \in WorkPlaces(y.kind)
        BY <3>1, WorkIs
      <3>4. t \in A <=> y.s = s /\ y.pc \in {"handle", "status", "unrun", "free"}
        BY <3>1
      <3>5. t \in B <=> y.s = s /\ y.pc = "push" /\ y.kind \in {"error", "timeout"}
        BY <3>1
      <3>6. (t \in GH <=> Grip(y) = <<"handler", s>>) /\ (t \in GF <=> Grip(y) = <<"final", s>>)
        BY <1>1, <3>2 DEF Places
      <3>7. CASE y.pc = "idle"
        <4>1. Grip(y) = <<"none", 0>>
          BY <3>3, <3>7 DEF Grip, Idle, HandlerKinds, FinalKinds
        <4> QED
          BY <3>4, <3>5, <3>6, <3>7, <4>1
      <3>8. CASE y.pc # "idle" /\ y.kind \in HandlerKinds
        <4>1. y.pc \in {"handle", "status", "unrun", "push"} /\ y.kind \notin FinalKinds
              /\ y.kind \notin {"error", "timeout"}
          BY <3>3, <3>8 DEF WorkPlaces, HandlerKinds, FinalKinds
        <4>2. CASE y.pc = "push"
          <5>1. Grip(y) = <<"none", 0>>
            BY <4>1, <4>2 DEF Grip
          <5> QED
            BY <3>4, <3>5, <3>6, <4>1, <4>2, <5>1
        <4>3. CASE y.pc # "push"
          <5>1. Grip(y) = <<"handler", y.s>> /\ y.pc \in {"handle", "status", "unrun"}
            BY <3>8, <4>1, <4>3 DEF Grip
          <5> QED
            BY <3>4, <3>5, <3>6, <5>1
        <4> QED
          BY <4>2, <4>3
      <3>9. CASE y.pc # "idle" /\ y.kind \in FinalKinds
        <4>1. y.kind \notin HandlerKinds /\ y.pc \in {"handle", "push", "free"}
              /\ (y.pc = "push" => y.kind \in {"error", "timeout"})
          BY <3>3, <3>9 DEF WorkPlaces, HandlerKinds, FinalKinds
        <4>2. Grip(y) = <<"final", y.s>>
          BY <3>9, <4>1 DEF Grip
        <4> QED
          BY <3>4, <3>5, <3>6, <4>1, <4>2
      <3> QED
        BY <3>3, <3>7, <3>8, <3>9
    <2>3. A \cup B = GH \cup GF
      <3>1. A \subseteq Threads /\ B \subseteq Threads /\ GH \subseteq Threads /\ GF \subseteq Threads
        BY <1>1 DEF Places
      <3> QED
        BY <2>2, <3>1
    <2>4. A \cap B = {} /\ GH \cap GF = {}
      <3>1. \A t \in A : work[t].pc # "push"
        OBVIOUS
      <3>2. \A t \in B : work[t].pc = "push"
        OBVIOUS
      <3>3. \A t \in GH : g[t] = <<"handler", s>>
        BY DEF Places
      <3>4. \A t \in GF : g[t] = <<"final", s>>
        BY DEF Places
      <3>5. <<"handler", s>> # <<"final", s>>
        OBVIOUS
      <3> HIDE DEF A, B, GH, GF
      <3>6. A \cap B = {}
        BY <3>1, <3>2
      <3>7. GH \cap GF = {}
        BY <3>3, <3>4, <3>5
      <3> QED
        BY <3>6, <3>7
    <2>5. /\ Cardinality(A \cup B) = Cardinality(A) + Cardinality(B) - Cardinality(A \cap B)
          /\ Cardinality(GH \cup GF) = Cardinality(GH) + Cardinality(GF) - Cardinality(GH \cap GF)
      BY <2>1, FS_Union
    <2>6. Cardinality(A \cap B) = 0 /\ Cardinality(GH \cap GF) = 0
      BY <2>4, FS_EmptySet
    <2>7. /\ Cardinality(A) \in Nat /\ Cardinality(B) \in Nat
          /\ Cardinality(GH) \in Nat /\ Cardinality(GF) \in Nat
      BY <2>1, FS_CardinalityType
    <2> HIDE DEF A, B, GH, GF
    <2>8. Cardinality(A \cup B) = Cardinality(GH \cup GF)
      BY <2>3
    <2>9. Cardinality(A) + Cardinality(B) = Cardinality(GH) + Cardinality(GF)
      BY <2>5, <2>6, <2>7, <2>8
    <2> QED
      BY <2>9 DEF Count, GH, GF
  <1>5. /\ Count(tasks, HandlerTasks(s)) \in Nat /\ Count(tasks, FinalTasks(s)) \in Nat
        /\ Count(g, {<<"handler", s>>}) \in Nat /\ Count(g, {<<"final", s>>}) \in Nat
    BY <1>1, CountSeqType, GripsFinite
  <1>6. Flag(w.ses[s].freePosted) \in {0, 1}
    BY DEF Flag
  <1>7. Cardinality(A) \in Nat /\ Cardinality(B) \in Nat
    <2>1. IsFiniteSet(Threads) /\ A \subseteq Threads /\ B \subseteq Threads
      BY IocpAssumption
    <2> QED
      BY <2>1, FS_Subset, FS_CardinalityType
  <1> HIDE DEF Q, A, B
  <1>8. Users(s) = (Count(tasks, HandlerTasks(s)) + Count(g, {<<"handler", s>>}))
                   + (Count(tasks, FinalTasks(s)) + Count(g, {<<"final", s>>})
                      + Flag(w.ses[s].freePosted))
    BY <1>2, <1>3, <1>4, <1>5, <1>6, <1>7
  <1> QED
    BY <1>1, <1>8 DEF HandlerUses, FinalUses

\* The sessions of the table
LEMMA ManagedIs ==
    ASSUME NEW s, NEW w, w.mgr = mgr, w.ses = ses
    PROVE  Managed(s) <=> In(w, s)
  BY DEF Managed, In

LEMMA OneUserIs ==
    ASSUME IocpInv
    PROVE  OneUser
  <1>0. PICK w, g, f, l : Here(w, g, f, l)
    BY Start, Zenon
  <1>1. w = World /\ g = Grips /\ w.mgr = mgr /\ w.ses = ses /\ WorldOK(w, g)
    BY <1>0, Zenon DEF Here
  <1>2. ASSUME NEW s \in Objects
        PROVE  /\ ses[s].life = "live" =>
                     /\ Users(s) = IF ses[s].mRunning THEN 1 ELSE 0
                     /\ ~Managed(s) => ses[s].mRunning
               /\ ses[s].life = "deleted" => Users(s) = 0 /\ \A k \in Keys : mgr.mSession[k] # s
    <2>1. SessionOK(w, g, s)
      BY <1>1 DEF WorldOK
    <2>2. Managed(s) <=> In(w, s)
      BY <1>1, ManagedIs
    <2>3. Users(s) = HandlerUses(w, g, s) + FinalUses(w, g, s)
      BY <1>1, UsersAre
    <2>4. CASE ses[s].life = "live"
      <3>1. /\ HandlerUses(w, g, s) = IF In(w, s) /\ ses[s].mRunning THEN 1 ELSE 0
            /\ FinalUses(w, g, s) = IF ~In(w, s) THEN 1 ELSE 0
            /\ ~In(w, s) => ses[s].mRunning
        BY <1>1, <2>1, <2>4 DEF SessionOK
      <3>2. Users(s) = IF ses[s].mRunning THEN 1 ELSE 0
        BY <2>3, <3>1
      <3> QED
        BY <2>2, <2>4, <3>1, <3>2
    <2>5. CASE ses[s].life # "live"
      <3>1. ~In(w, s)
        BY <1>1, <2>5 DEF In
      <3>2. HandlerUses(w, g, s) = 0 /\ FinalUses(w, g, s) = 0
        BY <1>1, <2>1, <2>5, <3>1 DEF SessionOK
      <3>3. \A k \in Keys : mgr.mSession[k] # s
        BY <1>1, <2>5 DEF WorldOK, TableMaps
      <3> QED
        BY <2>3, <2>5, <3>2, <3>3
    <2> QED
      BY <2>4, <2>5
  <1> QED
    BY <1>2 DEF OneUser

\* At any time at most one task uses a session, mRunning says whether, and a
\* session that left the table has exactly the user that frees it.
THEOREM OneUserSafe == Spec => []OneUser
  <1>1. IocpInv => OneUser
    BY OneUserIs
  <1> QED
    BY <1>1, IocpInvariant, PTL

LEMMA MessageNotFreedEarlyIs ==
    ASSUME IocpInv
    PROVE  MessageNotFreedEarly
  <1>0. PICK w, g, f, l : Here(w, g, f, l)
    BY Start, Zenon
  <1>1. w.mgr = mgr /\ w.ses = ses /\ w.msgs = msgs /\ MailOK(w, f, l)
    BY <1>0, Zenon DEF Here
  <1>2. \A q, m : m \in Range(q) <=> Holds(q, m)
    BY DEF Range, Holds
  <1>3. \A s \in Objects : Managed(s) <=> In(w, s)
    BY <1>1, ManagedIs
  <1>4. ASSUME NEW m \in Msgs
        PROVE  /\ msgs[m].completions \in {0, 1}
               /\ msgs[m].completions = 1 =>
                     \A s \in Objects : In(w, s) => ~Holds(ses[s].mOutList, m)
    <2>1. CASE m \in HandlerMsgs
      <3>1. MessageOK(w, f, l, m)
        BY <1>1, <2>1 DEF MailOK
      <3> QED
        BY <1>1, <3>1 DEF MessageOK
    <2>2. CASE \E s \in Objects : m = RefusedMsg(s)
      <3>1. PICK s \in Objects : m = RefusedMsg(s)
        BY <2>2
      <3>2. RefusalOK(w, s)
        BY <1>1 DEF MailOK
      <3> QED
        BY <1>1, <3>1, <3>2 DEF RefusalOK
    <2> QED
      BY <2>1, <2>2, MsgsParts
  <1>5. \A m \in Msgs : msgs[m].completions <= 1
    BY <1>4
  <1> QED
    BY <1>2, <1>3, <1>4, <1>5 DEF MessageNotFreedEarly

\* A message is completed at most once, and no session of the table still has
\* it then.
THEOREM MessageSafe == Spec => []MessageNotFreedEarly
  <1>1. IocpInv => MessageNotFreedEarly
    BY MessageNotFreedEarlyIs
  <1> QED
    BY <1>1, IocpInvariant, PTL

LEMMA NoStaleEventIs ==
    ASSUME MaxSessions < SeqMod, IocpInv
    PROVE  NoStaleEvent
  <1>0. PICK w, g, f, l : Here(w, g, f, l)
    BY Start, Zenon
  <1>1. w.mgr = mgr /\ w.ses = ses /\ WorldOK(w, g)
    BY <1>0, Zenon DEF Here
  <1>2. ASSUME NEW s \in Objects, ses[s].life # "unborn", ~Managed(s)
        PROVE  Resolve(s) = NULL /\ ~ses[s].recvTimer /\ ~ses[s].sendTimer
    <2>1. ~In(w, s) /\ SessionOK(w, g, s)
      BY <1>1, <1>2, ManagedIs DEF WorldOK
    <2>2. ~ses[s].recvTimer /\ ~ses[s].sendTimer
      BY <1>1, <2>1 DEF SessionOK
    <2>3. Resolve(s) = NULL
      <3> SUFFICES ASSUME Resolve(s) # NULL
                   PROVE  FALSE
        OBVIOUS
      <3>1. PICK sid : sid = w.ses[s].mSid
        OBVIOUS
      <3>2. PICK t : t = Resolve(s)
        OBVIOUS
      <3>3. sid \in AnySid
        BY <2>1, <3>1 DEF SessionOK
      <3>4. t = Get(w.mgr, sid.mKey, sid.mSeq) /\ t # NULL
        BY <1>1, <3>1, <3>2 DEF Resolve
      <3>5. sid \in Sids
        BY <1>1, <3>3, <3>4, GetIn
      <3>6. w.mgr.mSeq[sid.mKey] = sid.mSeq
        BY <3>4 DEF Get
      <3>7. s \in Gone(w)
        BY <1>1, <1>2, <2>1 DEF Gone
      <3>8. sid.mSeq < w.mgr.mSeq[sid.mKey]
        BY <1>1, <3>1, <3>5, <3>7 DEF WorldOK, SeqsOK
      <3>9. sid.mSeq \in Nat
        BY <3>5 DEF Sids, Seqs
      <3> QED
        BY <3>6, <3>8, <3>9
    <2> QED
      BY <2>2, <2>3
  <1> QED
    BY <1>2 DEF NoStaleEvent

\* As long as a sequence number cannot have come round (fewer sessions than
\* numbers), a completion that is still outstanding for a session that was
\* given up finds no session, and no timer of it is left in the heap.
THEOREM StaleEventSafe ==
    ASSUME MaxSessions < SeqMod
    PROVE  Spec => []NoStaleEvent
  <1>1. IocpInv => NoStaleEvent
    BY NoStaleEventIs
  <1> QED
    BY <1>1, IocpInvariant, PTL

-----------------------------------------------------------------------------
(* No session in the table is forgotten *)

\* The sessions that a thread has in its hands, up to the push of the response
Hands == {work[t].s : t \in {u \in Threads : work[u].pc # "idle"}}

\* Where the responses that are queued come from
Waiting == {respQ[i].from : i \in DOMAIN respQ}

\* A task of s is queued or in the hands h of a thread; or a response of s is
\* among those in r.
Queued(w, s) == \E i \in DOMAIN w.tasks : w.tasks[i].s = s
Used(w, h, s) == Queued(w, s) \/ s \in h
Under(w, h, r, s) == Used(w, h, s) \/ w.ses[s].mSid \in r

\* The loop is on its way to close s: at the rest of onSend, or between the turn of
\* the sender and its exit.
Exempt(w, l, s) ==
    \/ l.at = "tail" /\ l.s = s /\ l.exit
    \/ l.at = "to" /\ l.resp.from = w.ses[s].mSid

\* What the record q of a session is like, where d says whether a task or a response
\* of it is under way, and e whether it is about to be closed.
Posted(q) ==
    /\ q.mReading = q.recvIO /\ q.mWriting = q.sendIO
    /\ q.mOutList # <<>> => q.sendIO
Sound(q, d, e) == ~q.missed =>
    /\ Posted(q)
    /\ ~d => /\ q.mStatus \in {"eNormal", "eExit"}
             /\ q.mStatus = "eNormal" => q.recvIO /\ q.mInBuffer = 0
             /\ q.mStatus = "eExit" => q.sendIO \/ e

Served(w, l, h, r, s) == In(w, s) => Sound(w.ses[s], Under(w, h, r, s), Exempt(w, l, s))

\* A response comes from the session that its thread has in its hands.
HandsOK == \A t \in Threads : work[t].pc # "idle" =>
    /\ ses[work[t].s].life # "unborn"
    /\ work[t].pc \in {"status", "unrun", "push"} => work[t].resp.from = ses[work[t].s].mSid

\* A response that is queued will be taken from the queue.
WakeOK ==
    /\ wake \in Nat
    /\ respQ # <<>> => wake > 0 \/ loop.at \in {"process", "to", "close"}

AllServed(w, l, h, r) == \A s \in Objects : Served(w, l, h, r, s)

IocpServedInv ==
    /\ AllServed(World, loop, Hands, Waiting)
    /\ HandsOK
    /\ WakeOK

-----------------------------------------------------------------------------
(* What the operations of a callback do to the session they are about *)

SessionFields ==
    {"life", "mSid", "mStatus", "mRunning", "mReading", "mWriting", "mInBuffer", "mOutList",
     "recvIO", "sendIO", "recvTimer", "sendTimer", "channel", "started", "freePosted", "missed"}

Shaped(w) ==
    /\ DOMAIN w = {"mgr", "ses", "msgs", "tasks"}
    /\ DOMAIN w.ses = Objects /\ \A s \in Objects : DOMAIN w.ses[s] = SessionFields
    /\ w.tasks \in Seq(Tasks)
    /\ TableOK(w.mgr, Objects)
    /\ \A s \in Objects : w.ses[s].life = "live" => w.ses[s].mSid.mKey \in Keys

\* A session that was once accepted keeps its sid.
Lives(w, v) == \A t \in Objects : w.ses[t].life # "unborn" =>
    v.ses[t].life # "unborn" /\ v.ses[t].mSid = w.ses[t].mSid

\* v has the other sessions of w, and its tasks.
Others(w, v, s) ==
    /\ \A t \in Objects : t # s => v.ses[t] = w.ses[t] /\ (In(v, t) => In(w, t))
    /\ \A t \in Objects : Queued(w, t) => Queued(v, t)
    /\ Lives(w, v)

\* The table has not changed, and s is the same session.
Same(w, v, s) ==
    /\ Shaped(v) /\ v.mgr = w.mgr
    /\ \A t \in Objects : t # s => v.ses[t] = w.ses[t]
    /\ \A t \in Objects : Queued(w, t) => Queued(v, t)
    /\ v.ses[s].mSid = w.ses[s].mSid /\ v.ses[s].life = w.ses[s].life

\* s is given up.
Out(w, v, s) == Shaped(v) /\ Others(w, v, s) /\ ~In(v, s)

\* A world of the invariant has the fields of its sessions.
LEMMA ShapedWorld ==
    ASSUME NEW w, NEW g, WorldOK(w, g)
    PROVE  Shaped(w)
  <1>1. WorldTyped(w) /\ TableOK(w.mgr, Objects)
    BY DEF WorldOK
  <1>2. DOMAIN w = {"mgr", "ses", "msgs", "tasks"}
    <2>1. w = [mgr |-> w.mgr, ses |-> w.ses, msgs |-> w.msgs, tasks |-> w.tasks]
      BY <1>1 DEF WorldTyped
    <2>2. PICK x : x = w
      OBVIOUS
    <2>3. PICK a, b, c, d : x = [mgr |-> a, ses |-> b, msgs |-> c, tasks |-> d]
      BY <2>1, <2>2
    <2> QED
      BY <2>2, <2>3
  <1>3. ASSUME NEW s \in Objects PROVE DOMAIN w.ses[s] = SessionFields
    <2>1. PICK r : r = w.ses[s]
      OBVIOUS
    <2>2. IsSession(r)
      BY <1>1, <2>1 DEF WorldTyped
    <2>3. DOMAIN r = SessionFields
      BY <2>2 DEF IsSession, SessionFields
    <2> QED
      BY <2>1, <2>3
  <1>4. ASSUME NEW s \in Objects, w.ses[s].life = "live" PROVE w.ses[s].mSid.mKey \in Keys
    BY <1>4 DEF WorldOK, SessionOK, Sids
  <1> QED
    BY <1>1, <1>2, <1>3, <1>4 DEF Shaped, WorldTyped

\* A step that keeps the session s keeps it in the table or out of it.
LEMMA SameOthers ==
    ASSUME NEW w, NEW v, NEW s \in Objects, Same(w, v, s)
    PROVE  Others(w, v, s) /\ (In(v, s) <=> In(w, s))
  <1>1. \A t \in Objects : t # s => v.ses[t] = w.ses[t] /\ (In(v, t) => In(w, t))
    BY DEF Same, In
  <1>2. Lives(w, v)
    BY DEF Same, Lives
  <1>3. In(v, s) <=> In(w, s)
    BY DEF Same, In
  <1> QED
    BY <1>1, <1>2, <1>3 DEF Same, Others

\* Keeping s twice keeps it.
LEMMA SameTwice ==
    ASSUME NEW w, NEW u, NEW v, NEW s, Same(w, u, s), Same(u, v, s)
    PROVE  Same(w, v, s)
  BY DEF Same

\* Keeping s, then giving it up, gives it up; and so does the other order.
LEMMA SameOut ==
    ASSUME NEW w, NEW u, NEW v, NEW s \in Objects, Same(w, u, s), Out(u, v, s)
    PROVE  Out(w, v, s)
  <1>1. Others(w, u, s) /\ Others(u, v, s)
    BY SameOthers DEF Out
  <1>2. \A t \in Objects : t # s => v.ses[t] = w.ses[t] /\ (In(v, t) => In(w, t))
    BY <1>1 DEF Others
  <1>3. Lives(w, v)
    BY <1>1 DEF Others, Lives
  <1>4. \A t \in Objects : Queued(w, t) => Queued(v, t)
    BY <1>1 DEF Others
  <1> QED
    BY <1>2, <1>3, <1>4 DEF Out, Others

LEMMA OutSame ==
    ASSUME NEW w, NEW u, NEW v, NEW s \in Objects, Out(w, u, s), Same(u, v, s)
    PROVE  Out(w, v, s)
  <1>1. Others(w, u, s) /\ Others(u, v, s) /\ ~In(v, s)
    BY SameOthers DEF Out
  <1>2. \A t \in Objects : t # s => v.ses[t] = w.ses[t] /\ (In(v, t) => In(w, t))
    BY <1>1 DEF Others
  <1>3. Lives(w, v)
    BY <1>1 DEF Others, Lives
  <1>4. \A t \in Objects : Queued(w, t) => Queued(v, t)
    BY <1>1 DEF Others
  <1> QED
    BY <1>1, <1>2, <1>3, <1>4 DEF Out, Others, Same

\* Assigning fields of one session
LEMMA PutSame ==
    ASSUME NEW w, Shaped(w), NEW s \in Objects, NEW q, DOMAIN q = SessionFields,
           q.mSid = w.ses[s].mSid, q.life = w.ses[s].life
    PROVE  /\ Same(w, [w EXCEPT !.ses[s] = q], s) /\ [w EXCEPT !.ses[s] = q].ses[s] = q
           /\ [w EXCEPT !.ses[s] = q].tasks = w.tasks
  <1>1. PICK v : v = [w EXCEPT !.ses[s] = q]
    OBVIOUS
  <1>2. /\ DOMAIN v = {"mgr", "ses", "msgs", "tasks"} /\ v.mgr = w.mgr /\ v.tasks = w.tasks
        /\ v.ses = [w.ses EXCEPT ![s] = q]
    BY <1>1 DEF Shaped
  <1>3. DOMAIN v.ses = Objects /\ v.ses[s] = q /\ \A t \in Objects : t # s => v.ses[t] = w.ses[t]
    BY <1>2 DEF Shaped
  <1>4. Shaped(v)
    BY <1>2, <1>3 DEF Shaped
  <1>5. Same(w, v, s)
    BY <1>2, <1>3, <1>4 DEF Same, Queued
  <1> QED
    BY <1>1, <1>2, <1>3, <1>5

\* Assigning the messages
LEMMA MsgsSame ==
    ASSUME NEW w, Shaped(w), NEW s \in Objects, NEW M
    PROVE  /\ Same(w, [w EXCEPT !.msgs = M], s) /\ [w EXCEPT !.msgs = M].ses = w.ses
           /\ [w EXCEPT !.msgs = M].tasks = w.tasks
  <1>1. PICK v : v = [w EXCEPT !.msgs = M]
    OBVIOUS
  <1>2. /\ DOMAIN v = {"mgr", "ses", "msgs", "tasks"} /\ v.mgr = w.mgr /\ v.tasks = w.tasks
        /\ v.ses = w.ses
    BY <1>1 DEF Shaped
  <1>3. Same(w, v, s)
    BY <1>2 DEF Same, Queued, Shaped
  <1> QED
    BY <1>1, <1>2, <1>3

\* A task is queued.
LEMMA AddTaskEffect ==
    ASSUME NEW w, Shaped(w), NEW s \in Objects, NEW k \in HandlerKinds \cup FinalKinds
    PROVE  /\ Same(w, AddTask(w, k, s), s) /\ AddTask(w, k, s).ses = w.ses
           /\ Queued(AddTask(w, k, s), s)
  <1> DEFINE x == [kind |-> k, s |-> s]
  <1> DEFINE v == AddTask(w, k, s)
  <1>1. x \in Tasks /\ x.s = s
    BY DEF Tasks
  <1> HIDE DEF x
  <1>2. /\ DOMAIN v = {"mgr", "ses", "msgs", "tasks"} /\ v.mgr = w.mgr /\ v.ses = w.ses
        /\ v.tasks = Append(w.tasks, x)
    BY DEF Shaped, AddTask, x
  <1> HIDE DEF v
  <1>3. /\ v.tasks \in Seq(Tasks) /\ Len(v.tasks) = Len(w.tasks) + 1
        /\ v.tasks[Len(w.tasks) + 1] = x
        /\ \A i \in 1 .. Len(w.tasks) : v.tasks[i] = w.tasks[i]
    BY <1>1, <1>2, AppendProperties DEF Shaped
  <1>4. /\ DOMAIN w.tasks = 1 .. Len(w.tasks) /\ DOMAIN v.tasks = 1 .. Len(v.tasks)
        /\ Len(w.tasks) \in Nat
    BY <1>3, LenProperties DEF Shaped
  <1>5. Queued(v, s)
    BY <1>1, <1>3, <1>4 DEF Queued
  <1>6. \A t \in Objects : Queued(w, t) => Queued(v, t)
    BY <1>3, <1>4 DEF Queued
  <1>7. Same(w, v, s)
    BY <1>2, <1>3, <1>6 DEF Same, Shaped
  <1> QED
    BY <1>2, <1>5, <1>7 DEF v

\* What decode() and its task change: the fields of r that stay
Alike(r, q) ==
    /\ q.missed = r.missed /\ q.mStatus = r.mStatus /\ q.mOutList = r.mOutList
    /\ q.mReading = r.mReading /\ q.recvIO = r.recvIO
    /\ q.mWriting = r.mWriting /\ q.sendIO = r.sendIO

\* The input is decoded: the session gets a task, or nothing is left to decode.
Decoded(w, v, s) ==
    /\ Same(w, v, s) /\ Alike(w.ses[s], v.ses[s])
    /\ v.ses[s].mRunning => w.ses[s].mRunning \/ Queued(v, s)
    /\ v.ses[s].mRunning \/ v.ses[s].mInBuffer = 0
    /\ Queued(v, s) \/ v.ses[s].mInBuffer \in {w.ses[s].mInBuffer, 0}
    /\ w.ses[s].mRunning => v = w

\* A request is dispatched, or the input is thrown away.
LEMMA DoWorkEffect ==
    ASSUME NEW w, Shaped(w), NEW s \in Objects, ~w.ses[s].mRunning
    PROVE  Decoded(w, DoWork(w, s), s)
  <1> DEFINE q == [w.ses[s] EXCEPT !.mRunning = TRUE]
  <1> DEFINE p == [w.ses[s] EXCEPT !.mInBuffer = 0]
  <1> DEFINE u == [w EXCEPT !.ses[s] = q]
  <1>1. /\ DOMAIN q = SessionFields /\ q.mSid = w.ses[s].mSid /\ q.life = w.ses[s].life
        /\ Alike(w.ses[s], q) /\ q.mRunning
    BY DEF Shaped, SessionFields, Alike
  <1>2. /\ DOMAIN p = SessionFields /\ p.mSid = w.ses[s].mSid /\ p.life = w.ses[s].life
        /\ Alike(w.ses[s], p) /\ p.mRunning = w.ses[s].mRunning /\ p.mInBuffer = 0
    BY DEF Shaped, SessionFields, Alike
  <1> HIDE DEF q, p
  <1>3. Same(w, u, s) /\ u.ses[s] = q
    BY <1>1, PutSame
  <1>4. CASE w.ses[s].mStatus = "eNormal"
    <2>1. DoWork(w, s) = AddTask(u, "worker", s)
      BY <1>4 DEF DoWork, q
    <2> HIDE DEF u
    <2> DEFINE v == AddTask(u, "worker", s)
    <2>2. Same(u, v, s) /\ v.ses = u.ses /\ Queued(v, s)
      BY <1>3, AddTaskEffect DEF HandlerKinds, Same
    <2> HIDE DEF v
    <2>3. Same(w, v, s)
      BY <1>3, <2>2, SameTwice
    <2>4. Decoded(w, v, s)
      BY <1>1, <1>3, <2>2, <2>3 DEF Decoded
    <2> QED
      BY <2>1, <2>4 DEF v
  <1>5. CASE w.ses[s].mStatus # "eNormal"
    <2> DEFINE v == [w EXCEPT !.ses[s] = p]
    <2>1. DoWork(w, s) = v
      BY <1>5 DEF DoWork, p
    <2>2. Same(w, v, s) /\ v.ses[s] = p
      BY <1>2, PutSame
    <2> HIDE DEF v
    <2>3. Decoded(w, v, s)
      BY <1>2, <2>2 DEF Decoded
    <2> QED
      BY <2>1, <2>3
  <1> QED
    BY <1>4, <1>5

\* decode() and what follows it
LEMMA DoDecodeEffect ==
    ASSUME NEW w, Shaped(w), NEW s \in Objects, ~w.ses[s].mRunning
    PROVE  Decoded(w, DoDecodeForWork(w, s), s)
  <1>1. CASE w.ses[s].mInBuffer = 0
    <2>1. DoDecodeForWork(w, s) = w
      BY <1>1 DEF DoDecodeForWork
    <2>2. Decoded(w, w, s)
      BY <1>1 DEF Decoded, Same, Alike
    <2> QED
      BY <2>1, <2>2
  <1>2. CASE w.ses[s].mInBuffer # 0
    <2> DEFINE q == [w.ses[s] EXCEPT !.mInBuffer = @ - 1]
    <2> DEFINE u == [w EXCEPT !.ses[s] = q]
    <2>1. /\ DOMAIN q = SessionFields /\ q.mSid = w.ses[s].mSid /\ q.life = w.ses[s].life
          /\ Alike(w.ses[s], q) /\ q.mRunning = w.ses[s].mRunning
      BY DEF Shaped, SessionFields, Alike
    <2>2. DoDecodeForWork(w, s) = DoWork(u, s)
      BY <1>2 DEF DoDecodeForWork
    <2> HIDE DEF q
    <2>3. Same(w, u, s) /\ u.ses[s] = q
      BY <2>1, PutSame
    <2> HIDE DEF u
    <2> DEFINE v == DoWork(u, s)
    <2>4. Decoded(u, v, s)
      BY <2>1, <2>3, DoWorkEffect DEF Same
    <2> HIDE DEF v
    <2>5. Same(w, v, s)
      BY <2>3, <2>4, SameTwice DEF Decoded
    <2>6. Alike(w.ses[s], v.ses[s])
      BY <2>1, <2>3, <2>4 DEF Decoded, Alike
    <2>7. Queued(v, s) \/ v.ses[s].mInBuffer = 0
      BY <2>1, <2>3, <2>4 DEF Decoded
    <2>8. Decoded(w, v, s)
      BY <2>1, <2>3, <2>4, <2>5, <2>6, <2>7 DEF Decoded
    <2> QED
      BY <2>2, <2>8 DEF v
  <1> QED
    BY <1>1, <1>2

\* A session that runs has a task.
Runs(w, h, s) == w.ses[s].mRunning => Used(w, h, s)

\* The input of s is decoded as far as that is possible.
Settled(w, v, h, s) ==
    /\ Same(w, v, s) /\ Alike(w.ses[s], v.ses[s]) /\ Runs(v, h, s)
    /\ Used(v, h, s) \/ v.ses[s].mInBuffer = 0

\* After decode() a session has a task or no input.
LEMMA DoDecodeSettles ==
    ASSUME NEW w, Shaped(w), NEW s \in Objects, NEW h, ~w.ses[s].mRunning
    PROVE  Settled(w, DoDecodeForWork(w, s), h, s)
  BY DoDecodeEffect DEF Decoded, Settled, Runs, Used

\* The same when the session may be running: its task will decode again.
LEMMA DecodeSettles ==
    ASSUME NEW w, Shaped(w), NEW s \in Objects, NEW h, Runs(w, h, s)
    PROVE  Settled(w, DecodeIfIdle(w, s), h, s)
  <1>1. CASE w.ses[s].mRunning
    BY <1>1 DEF DecodeIfIdle, Settled, Same, Alike, Runs
  <1>2. CASE ~w.ses[s].mRunning
    BY <1>2, DoDecodeSettles DEF DecodeIfIdle
  <1> QED
    BY <1>1, <1>2

\* What a turn of the loop does to the session it is about: it is given up, or it
\* stays in order.
Turn(w, v, h, r, s, e) ==
    \/ Out(w, v, s)
    \/ Same(w, v, s) /\ Runs(v, h, s) /\ Sound(v.ses[s], Under(v, h, r, s), e)

\* A turn after steps that keep s is a turn.
LEMMA SameTurn ==
    ASSUME NEW w, NEW u, NEW v, NEW h, NEW r, NEW s \in Objects, NEW e,
           Same(w, u, s), Turn(u, v, h, r, s, e)
    PROVE  Turn(w, v, h, r, s, e)
  BY SameOut, SameTwice DEF Turn

\* A session that is under way stays so.
LEMMA UnderSame ==
    ASSUME NEW w, NEW v, NEW h, NEW r, NEW s \in Objects, Same(w, v, s)
    PROVE  (Used(w, h, s) => Used(v, h, s)) /\ (Under(w, h, r, s) => Under(v, h, r, s))
  BY DEF Same, Under, Used

\* What a step that keeps s and its mRunning leaves
LEMMA SameKept ==
    ASSUME NEW w, NEW v, NEW h, NEW r, NEW s \in Objects, Same(w, v, s), In(w, s), Runs(w, h, s),
           v.ses[s].mRunning = w.ses[s].mRunning
    PROVE  /\ Shaped(v) /\ In(v, s) /\ Runs(v, h, s)
           /\ Under(w, h, r, s) => Under(v, h, r, s)
  <1>1. Shaped(v)
    BY DEF Same
  <1>2. In(v, s) /\ (Used(w, h, s) => Used(v, h, s)) /\ (Under(w, h, r, s) => Under(v, h, r, s))
    BY SameOthers, UnderSame
  <1> QED
    BY <1>1, <1>2 DEF Runs

\* Decoding is a turn of a session that was not forgotten.
LEMMA DecodeTurn ==
    ASSUME NEW w, NEW h, NEW r, NEW s \in Objects, NEW e, NEW v, Settled(w, v, h, s),
           Sound(w.ses[s], Under(w, h, r, s), e)
    PROVE  Turn(w, v, h, r, s, e)
  <1>1. Same(w, v, s) /\ Alike(w.ses[s], v.ses[s]) /\ Runs(v, h, s)
    BY DEF Settled
  <1>2. Under(w, h, r, s) => Under(v, h, r, s)
    BY <1>1, UnderSame
  <1>3. Under(v, h, r, s) \/ v.ses[s].mInBuffer = 0
    BY DEF Settled, Under
  <1>4. Sound(v.ses[s], Under(v, h, r, s), e)
    BY <1>1, <1>2, <1>3 DEF Sound, Posted, Alike
  <1> QED
    BY <1>1, <1>4 DEF Turn

\* A session is given up.
LEMMA GivenUpOut ==
    ASSUME NEW w, Shaped(w), NEW s \in Objects, In(w, s)
    PROVE  Out(w, GivenUp(w, s), s)
  <1>1. PICK v : v = GivenUp(w, s)
    OBVIOUS
  <1>2. PICK key : key = w.ses[s].mSid.mKey
    OBVIOUS
  <1>3. PICK q : q = [w.ses[s] EXCEPT !.mRunning = TRUE, !.recvTimer = FALSE, !.sendTimer = FALSE]
    OBVIOUS
  <1>4. DOMAIN q = SessionFields /\ q.life = w.ses[s].life /\ q.mSid = w.ses[s].mSid
    BY <1>3 DEF Shaped, SessionFields
  <1>5. /\ DOMAIN v = {"mgr", "ses", "msgs", "tasks"} /\ v.ses = [w.ses EXCEPT ![s] = q]
        /\ v.mgr = Remove(w.mgr, key) /\ v.tasks = w.tasks
    BY <1>1, <1>2, <1>3 DEF Shaped, GivenUp
  <1>6. /\ DOMAIN v.ses = Objects /\ v.ses[s] = q
        /\ \A t \in Objects : t # s => v.ses[t] = w.ses[t]
    BY <1>5 DEF Shaped
  <1>7. key \in Keys /\ w.mgr.mSession[key] = s /\ s # NULL
    BY <1>2, IocpAssumption DEF Shaped, In, Objects
  <1>8. /\ TableOK(v.mgr, Objects) /\ v.mgr.mSession[key] = NULL
        /\ \A k \in Keys : k # key => v.mgr.mSession[k] = w.mgr.mSession[k]
    BY <1>5, <1>7, RemoveOK DEF Shaped
  <1>9. Shaped(v)
    BY <1>4, <1>5, <1>6, <1>8 DEF Shaped
  <1>10. ~In(v, s)
    BY <1>2, <1>4, <1>6, <1>7, <1>8 DEF In
  <1>11. ASSUME NEW t \in Objects, t # s, In(v, t)
         PROVE  In(w, t)
    <2>1. w.ses[t].life = "live" /\ v.ses[t] = w.ses[t] /\ w.ses[t].mSid.mKey \in Keys /\ t # NULL
      BY <1>6, <1>11, IocpAssumption DEF In, Shaped, Objects
    <2> QED
      BY <1>8, <1>11, <2>1 DEF In
  <1>12. Lives(w, v)
    BY <1>4, <1>6 DEF Lives
  <1>13. Others(w, v, s)
    BY <1>5, <1>6, <1>11, <1>12 DEF Others, Queued
  <1> QED
    BY <1>1, <1>9, <1>10, <1>13 DEF Out

\* Failing the messages of s changes the list of s and the messages.
LEMMA FailOutListSame ==
    ASSUME NEW w, Shaped(w), NEW s \in Objects
    PROVE  Same(w, FailOutList(w, s), s)
  <1>1. PICK q : q = [w.ses[s] EXCEPT !.mOutList = <<>>]
    OBVIOUS
  <1>2. PICK M : M = [m \in Msgs |-> IF m \in Range(w.ses[s].mOutList)
                                     THEN Failed(w.msgs[m], w.ses[s].mSid) ELSE w.msgs[m]]
    OBVIOUS
  <1>3. PICK u : u = [w EXCEPT !.ses[s] = q]
    OBVIOUS
  <1>4. DOMAIN q = SessionFields /\ q.life = w.ses[s].life /\ q.mSid = w.ses[s].mSid
    BY <1>1 DEF Shaped, SessionFields
  <1>5. Same(w, u, s) /\ Shaped(u)
    BY <1>3, <1>4, PutSame DEF Same
  <1>6. FailOutList(w, s) = [u EXCEPT !.msgs = M]
    BY <1>1, <1>2, <1>3 DEF FailOutList
  <1>7. Same(u, [u EXCEPT !.msgs = M], s)
    BY <1>5, MsgsSame
  <1> QED
    BY <1>5, <1>6, <1>7, SameTwice

\* doClose, doError and doTimeout give the session up.
LEMMA DoCloseOut ==
    ASSUME NEW w, Shaped(w), NEW s \in Objects, In(w, s)
    PROVE  Out(w, DoClose(w, s), s)
  <1>1. Out(w, GivenUp(w, s), s)
    BY GivenUpOut
  <1>2. Same(GivenUp(w, s), DoClose(w, s), s)
    BY <1>1, AddTaskEffect DEF Out, DoClose, FinalKinds
  <1> QED
    BY <1>1, <1>2, OutSame

LEMMA FailsOut ==
    ASSUME NEW w, Shaped(w), NEW s \in Objects, In(w, s)
    PROVE  Out(w, DoError(w, s), s) /\ Out(w, DoTimeout(w, s), s)
  <1>1. PICK u : u = FailOutList(w, s)
    OBVIOUS
  <1>2. Same(w, u, s) /\ Shaped(u) /\ In(u, s)
    BY <1>1, FailOutListSame, SameOthers DEF Same
  <1>3. Out(u, GivenUp(u, s), s)
    BY <1>2, GivenUpOut
  <1>4. Same(GivenUp(u, s), DoError(w, s), s) /\ Same(GivenUp(u, s), DoTimeout(w, s), s)
    BY <1>1, <1>3, AddTaskEffect DEF Out, DoError, DoTimeout, FinalKinds
  <1>5. Out(u, DoError(w, s), s) /\ Out(u, DoTimeout(w, s), s)
    BY <1>3, <1>4, OutSame
  <1> QED
    BY <1>2, <1>5, SameOut

\* An error gives the session up or is missed.
LEMMA ErrorOrLaterTurn ==
    ASSUME NEW w, Shaped(w), NEW s \in Objects, In(w, s), NEW h, NEW r, NEW e, Runs(w, h, s)
    PROVE  Turn(w, ErrorOrLater(w, s), h, r, s, e)
  <1>1. CASE ~w.ses[s].mRunning
    BY <1>1, FailsOut DEF ErrorOrLater, Turn
  <1>2. CASE w.ses[s].mRunning
    <2>1. PICK q : q = [w.ses[s] EXCEPT !.missed = TRUE]
      OBVIOUS
    <2>2. PICK v : v = [w EXCEPT !.ses[s] = q]
      OBVIOUS
    <2>3. /\ DOMAIN q = SessionFields /\ q.life = w.ses[s].life /\ q.mSid = w.ses[s].mSid
          /\ q.missed /\ q.mRunning = w.ses[s].mRunning
      BY <2>1 DEF Shaped, SessionFields
    <2>4. Same(w, v, s) /\ v.ses[s] = q
      BY <2>2, <2>3, PutSame
    <2>5. Used(v, h, s)
      BY <1>2, <2>4, UnderSame DEF Runs
    <2>6. Turn(w, v, h, r, s, e)
      BY <2>3, <2>4, <2>5 DEF Turn, Runs, Sound
    <2>7. ErrorOrLater(w, s) = v
      BY <1>2, <2>1, <2>2 DEF ErrorOrLater
    <2> QED
      BY <2>6, <2>7
  <1> QED
    BY <1>1, <1>2

\* All but a WSARecv is in order.
Half(q, d, e) == ~q.missed =>
    /\ Posted(q)
    /\ ~d => /\ q.mStatus \in {"eNormal", "eExit"}
             /\ q.mStatus = "eNormal" => q.mInBuffer = 0
             /\ q.mStatus = "eExit" => q.sendIO \/ e

\* What addRecv changes
Receiving(p, q) ==
    /\ q.missed = p.missed /\ q.mRunning = p.mRunning
    /\ q.mOutList = p.mOutList /\ q.mStatus = p.mStatus /\ q.mInBuffer = p.mInBuffer
    /\ Posted(p) => Posted(q) /\ (p.mStatus = "eNormal" => q.recvIO)
    /\ p.sendIO = q.sendIO

\* addRecv posts a WSARecv unless one is posted or the session will exit.
LEMMA AddRecvFacts ==
    ASSUME NEW w, Shaped(w), NEW s \in Objects, NEW bad, AddRecvOK(w, s, bad)
    PROVE  /\ Same(w, AddRecv(w, s, bad), s)
           /\ Receiving(w.ses[s], AddRecv(w, s, bad).ses[s])
  <1>1. CASE ~NeedsRecv(w.ses[s])
    <2>1. AddRecv(w, s, bad) = w
      BY <1>1 DEF AddRecv
    <2>2. Same(w, w, s)
      BY DEF Same
    <2>3. w.ses[s].mReading \/ w.ses[s].mStatus # "eNormal"
      BY <1>1 DEF NeedsRecv
    <2>4. Receiving(w.ses[s], w.ses[s])
      BY <2>3 DEF Receiving, Posted
    <2> QED
      BY <2>1, <2>2, <2>4
  <1>2. CASE NeedsRecv(w.ses[s])
    <2>1. PICK q : q = [w.ses[s] EXCEPT !.mReading = TRUE, !.recvIO = TRUE, !.recvTimer = TRUE]
      OBVIOUS
    <2>2. PICK v : v = [w EXCEPT !.ses[s] = q]
      OBVIOUS
    <2>3. AddRecv(w, s, bad) = v
      BY <1>2, <2>1, <2>2 DEF AddRecv, AddRecvOK
    <2>4. /\ DOMAIN q = SessionFields /\ q.life = w.ses[s].life /\ q.mSid = w.ses[s].mSid
          /\ q.missed = w.ses[s].missed /\ q.mRunning = w.ses[s].mRunning
          /\ q.mReading = TRUE /\ q.recvIO = TRUE
          /\ q.mWriting = w.ses[s].mWriting /\ q.sendIO = w.ses[s].sendIO
          /\ q.mOutList = w.ses[s].mOutList /\ q.mStatus = w.ses[s].mStatus
          /\ q.mInBuffer = w.ses[s].mInBuffer
      BY <2>1 DEF Shaped, SessionFields
    <2>5. Same(w, v, s) /\ v.ses[s] = q
      BY <2>2, <2>4, PutSame
    <2>6. Receiving(w.ses[s], q)
      BY <2>4 DEF Receiving, Posted
    <2> QED
      BY <2>3, <2>5, <2>6
  <1> QED
    BY <1>1, <1>2

\* addRecv completes what a session without a WSARecv lacks.
LEMMA AddRecvTurn ==
    ASSUME NEW w, Shaped(w), NEW s \in Objects, NEW h, NEW r, NEW e, Runs(w, h, s), NEW bad,
           Half(w.ses[s], Under(w, h, r, s), e), AddRecvOK(w, s, bad)
    PROVE  Turn(w, AddRecv(w, s, bad), h, r, s, e)
  <1>1. PICK v : v = AddRecv(w, s, bad)
    OBVIOUS
  <1>2. Same(w, v, s) /\ Receiving(w.ses[s], v.ses[s])
    BY <1>1, AddRecvFacts
  <1>3. Runs(v, h, s) /\ (Under(w, h, r, s) => Under(v, h, r, s))
    BY <1>2, UnderSame DEF Runs, Receiving
  <1>4. Sound(v.ses[s], Under(v, h, r, s), e)
    BY <1>2, <1>3 DEF Half, Sound, Receiving
  <1> QED
    BY <1>1, <1>2, <1>3, <1>4 DEF Turn

\* All but what there is to send is in order.
Ready(q, d) == ~q.missed =>
    /\ q.mReading = q.recvIO /\ q.mWriting = q.sendIO
    /\ ~d => q.mStatus \in {"eNormal", "eExit"} /\ (q.mStatus = "eNormal" => q.recvIO)

\* The same with a WSASend that is posted, and with the input decoded
Sending(q, d) ==
    /\ Ready(q, d) /\ (q.missed \/ q.sendIO)
    /\ d \/ q.mInBuffer = 0

\* A session that sends is not forgotten.
LEMMA SendingSound ==
    ASSUME NEW q, NEW d, NEW e, Sending(q, d)
    PROVE  Sound(q, d, e)
  BY DEF Sending, Ready, Sound, Posted

\* addSend decodes the input and posts a WSASend unless one is posted.
LEMMA AddSendTurn ==
    ASSUME NEW w, Shaped(w), NEW s \in Objects, NEW h, NEW r, Runs(w, h, s), NEW bad,
           Ready(w.ses[s], Under(w, h, r, s)), AddSendOK(w, s, bad)
    PROVE  /\ Same(w, AddSend(w, s, bad), s) /\ Runs(AddSend(w, s, bad), h, s)
           /\ Sending(AddSend(w, s, bad).ses[s], Under(AddSend(w, s, bad), h, r, s))
           /\ AddSend(w, s, bad).ses[s].missed = w.ses[s].missed
  <1>1. PICK u : u = DecodeIfIdle(w, s)
    OBVIOUS
  <1>2. Same(w, u, s) /\ Alike(w.ses[s], u.ses[s]) /\ Runs(u, h, s) /\ Shaped(u)
    BY <1>1, DecodeSettles DEF Settled, Same
  <1>3. /\ Under(w, h, r, s) => Under(u, h, r, s)
        /\ Under(u, h, r, s) \/ u.ses[s].mInBuffer = 0
    BY <1>1, <1>2, DecodeSettles, UnderSame DEF Settled, Under
  <1>4. Ready(u.ses[s], Under(u, h, r, s))
    BY <1>2, <1>3 DEF Ready, Alike
  <1>5. CASE u.ses[s].mWriting
    <2>1. AddSend(w, s, bad) = u
      BY <1>1, <1>5 DEF AddSend
    <2>2. Sending(u.ses[s], Under(u, h, r, s))
      BY <1>3, <1>4, <1>5 DEF Sending, Ready
    <2> QED
      BY <1>2, <2>1, <2>2 DEF Alike
  <1>6. CASE ~u.ses[s].mWriting
    <2>1. PICK q : q = [u.ses[s] EXCEPT !.mWriting = TRUE, !.sendIO = TRUE, !.sendTimer = TRUE]
      OBVIOUS
    <2>2. PICK v : v = [u EXCEPT !.ses[s] = q]
      OBVIOUS
    <2>3. s \notin bad
      BY <1>2, <1>6 DEF AddSendOK, Alike
    <2>4. AddSend(w, s, bad) = v
      BY <1>1, <1>6, <2>1, <2>2, <2>3 DEF AddSend
    <2>5. /\ DOMAIN q = SessionFields /\ q.life = u.ses[s].life /\ q.mSid = u.ses[s].mSid
          /\ q.missed = u.ses[s].missed /\ q.mRunning = u.ses[s].mRunning
          /\ q.mReading = u.ses[s].mReading /\ q.recvIO = u.ses[s].recvIO
          /\ q.mWriting = TRUE /\ q.sendIO = TRUE /\ q.mStatus = u.ses[s].mStatus
          /\ q.mInBuffer = u.ses[s].mInBuffer
      BY <1>2, <2>1 DEF Shaped, SessionFields
    <2>6. Same(u, v, s) /\ v.ses[s] = q
      BY <1>2, <2>2, <2>5, PutSame
    <2>7. /\ Used(u, h, s) => Used(v, h, s)
          /\ Under(u, h, r, s) => Under(v, h, r, s)
      BY <2>6, UnderSame
    <2>8. Runs(v, h, s)
      BY <1>2, <2>5, <2>6, <2>7 DEF Runs
    <2>9. Sending(q, Under(v, h, r, s))
      BY <1>3, <1>4, <2>5, <2>7 DEF Sending, Ready
    <2>10. Same(w, v, s)
      BY <1>2, <2>6, SameTwice
    <2> QED
      BY <1>2, <2>4, <2>5, <2>6, <2>8, <2>9, <2>10 DEF Alike
  <1> QED
    BY <1>5, <1>6

-----------------------------------------------------------------------------
(* The steps of the loop *)

\* Names for the parts of the state, and what is known of them
Now(w, g, h, r) ==
    /\ w = World /\ w.mgr = mgr /\ w.ses = ses /\ w.msgs = msgs /\ w.tasks = tasks
    /\ WorldOK(w, g) /\ Shaped(w) /\ h = Hands /\ r = Waiting
    /\ \A s \in Objects : Served(w, loop, h, r, s) /\ (In(w, s) => Runs(w, h, s))

\* mRunning counts the tasks of a session in the table.
LEMMA RunsUsed ==
    ASSUME NEW w, WorldOK(w, Grips), NEW s \in Objects, In(w, s)
    PROVE  Runs(w, Hands, s)
  <1> SUFFICES ASSUME w.ses[s].mRunning, ~Used(w, Hands, s)
               PROVE  FALSE
    BY DEF Runs
  <1>1. w.tasks \in Seq(Tasks) /\ SessionOK(w, Grips, s)
    BY DEF WorldOK, WorldTyped
  <1>2. HandlerUses(w, Grips, s) = 1
    BY <1>1 DEF SessionOK
  <1>3. Count(w.tasks, HandlerTasks(s)) = 0
    <2>1. IsFiniteSet(Places(w.tasks, HandlerTasks(s)))
      BY <1>1, CountSeqType
    <2>2. \A i \in DOMAIN w.tasks : w.tasks[i] \notin HandlerTasks(s)
      BY DEF Used, Queued, HandlerTasks
    <2> QED
      BY <2>1, <2>2, CountZero
  <1>4. Count(Grips, {<<"handler", s>>}) = 0
    <2>1. DOMAIN Grips = Threads
      BY DEF Grips
    <2>2. IsFiniteSet(Places(Grips, {<<"handler", s>>}))
      BY <2>1, GripsFinite
    <2>3. ASSUME NEW t \in Threads, Grips[t] = <<"handler", s>> PROVE FALSE
      <3>1. Grip(work[t]) = <<"handler", s>>
        BY <2>3 DEF Grips
      <3>2. work[t].pc # "idle" /\ work[t].s = s
        BY <3>1 DEF Grip
      <3> QED
        BY <3>2 DEF Used, Hands
    <2> QED
      BY <2>1, <2>2, <2>3, CountZero
  <1> QED
    BY <1>2, <1>3, <1>4 DEF HandlerUses

\* The world that a step finds
LEMMA Look ==
    ASSUME IocpInv, IocpServedInv
    PROVE  \E w, g, h, r : Now(w, g, h, r)
  <1>1. /\ World.mgr = mgr /\ World.ses = ses /\ World.msgs = msgs /\ World.tasks = tasks
    BY DEF World
  <1>2. WorldOK(World, Grips)
    BY DEF IocpInv, Good
  <1>3. Shaped(World)
    BY <1>2, ShapedWorld
  <1>4. \A s \in Objects : In(World, s) => Runs(World, Hands, s)
    BY <1>2, RunsUsed
  <1>5. \A s \in Objects : Served(World, loop, Hands, Waiting, s)
    BY DEF IocpServedInv, AllServed
  <1> QED
    BY <1>1, <1>2, <1>3, <1>4, <1>5 DEF Now

\* A step of the loop to the world v
LEMMA StepServed ==
    ASSUME IocpInv, IocpServedInv, NEW w, NEW g, NEW h, NEW r, Now(w, g, h, r),
           NEW v, Store(v), work' = work, Lives(w, v),
           AllServed(v, loop', h, Waiting'), WakeOK'
    PROVE  IocpServedInv'
  <1>1. v.mgr = mgr' /\ v.ses = ses' /\ v.tasks = tasks' /\ w.ses = ses /\ h = Hands
    BY DEF Store, Now
  <1>2. Hands' = h
    BY <1>1 DEF Hands
  <1>3. World'.mgr = v.mgr /\ World'.ses = v.ses /\ World'.tasks = v.tasks
    BY <1>1 DEF World
  <1>4. AllServed(World', loop', Hands', Waiting')
    BY <1>2, <1>3 DEF AllServed, Served, In, Under, Used, Queued, Exempt
  <1>5. HandsOK'
    <2>1. ASSUME NEW t \in Threads, work[t].pc # "idle"
          PROVE  work[t].s \in Objects
      <3>1. work[t] # Idle
        BY <2>1 DEF Idle
      <3> QED
        BY <3>1 DEF IocpInv, IsWork
    <2>2. \A s \in Objects : ses[s].life # "unborn" =>
             ses'[s].life # "unborn" /\ ses'[s].mSid = ses[s].mSid
      BY <1>1 DEF Lives
    <2>3. HandsOK
      BY DEF IocpServedInv
    <2> QED
      BY <2>1, <2>2, <2>3 DEF HandsOK
  <1> QED
    BY <1>4, <1>5 DEF IocpServedInv

\* A session that the step is not about
LEMMA OthersServed ==
    ASSUME NEW w, NEW v, NEW s, Others(w, v, s), NEW t \in Objects, t # s,
           NEW h, NEW r, NEW l, Served(w, l, h, r, t),
           NEW q, In(w, t) /\ w.ses[t].mSid \in r => w.ses[t].mSid \in q,
           NEW k, In(w, t) /\ Exempt(w, l, t) => Exempt(v, k, t)
    PROVE  Served(v, k, h, q, t)
  <1>1. v.ses[t] = w.ses[t] /\ (In(v, t) => In(w, t)) /\ (Queued(w, t) => Queued(v, t))
    BY DEF Others
  <1>2. In(w, t) /\ Under(w, h, r, t) => Under(v, h, q, t)
    BY <1>1 DEF Under, Used
  <1> SUFFICES ASSUME In(v, t)
               PROVE  Sound(v.ses[t], Under(v, h, q, t), Exempt(v, k, t))
    BY DEF Served
  <1>3. Sound(w.ses[t], Under(w, h, r, t), Exempt(w, l, t)) /\ In(w, t)
    BY <1>1 DEF Served
  <1> QED
    BY <1>1, <1>2, <1>3 DEF Sound

\* The session that a step is about
LEMMA TurnLives ==
    ASSUME NEW w, NEW v, NEW h, NEW r, NEW s \in Objects, NEW e, Turn(w, v, h, r, s, e)
    PROVE  Others(w, v, s) /\ Lives(w, v)
  BY SameOthers DEF Turn, Out, Others

\* What a turn of s means for s and for the others
LEMMA TurnIs ==
    ASSUME NEW w, NEW v, NEW h, NEW r, NEW s \in Objects, NEW e, Turn(w, v, h, r, s, e),
           NEW l, e => Exempt(v, l, s)
    PROVE  Others(w, v, s) /\ Lives(w, v) /\ Served(v, l, h, r, s)
  <1>1. Others(w, v, s)
    BY SameOthers DEF Turn, Out
  <1>2. Served(v, l, h, r, s)
    BY DEF Turn, Out, Served, Sound
  <1> QED
    BY <1>1, <1>2 DEF Others

\* Of a session that the step is not about, the responses stay, and the loop is
\* still on its way to close it.
StillDue(w, r, q, s) ==
    \A t \in Objects \ {s} : In(w, t) /\ w.ses[t].mSid \in r => w.ses[t].mSid \in q
StillExempt(w, v, l, k, s) ==
    \A t \in Objects \ {s} : In(w, t) /\ Exempt(w, l, t) => Exempt(v, k, t)

\* A step of the loop that is about s, or about no session
LEMMA LoopTurn ==
    ASSUME IocpInv, IocpServedInv, NEW w, NEW g, NEW h, NEW r, Now(w, g, h, r),
           NEW v, Store(v), work' = work, NEW s, Others(w, v, s),
           s \in Objects => Served(v, loop', h, Waiting', s),
           StillDue(w, r, Waiting', s), StillExempt(w, v, loop, loop', s), WakeOK'
    PROVE  IocpServedInv'
  <1>1. Lives(w, v)
    BY DEF Others
  <1>2. AllServed(v, loop', h, Waiting')
    <2>1. ASSUME NEW t \in Objects, t # s PROVE Served(v, loop', h, Waiting', t)
      <3>1. Served(w, loop, h, r, t)
        BY DEF Now
      <3>2. /\ In(w, t) /\ w.ses[t].mSid \in r => w.ses[t].mSid \in Waiting'
            /\ In(w, t) /\ Exempt(w, loop, t) => Exempt(v, loop', t)
        BY <2>1 DEF StillDue, StillExempt
      <3> QED
        BY <2>1, <3>1, <3>2, OthersServed
    <2> QED
      BY <2>1 DEF AllServed
  <1> QED
    BY <1>1, <1>2, StepServed

\* A callback that the loop makes for a completion or a timer of s
LEMMA PollStep ==
    ASSUME IocpInv, IocpServedInv, NEW w, NEW g, NEW h, NEW r, Now(w, g, h, r),
           NEW v, Store(v), work' = work, respQ' = respQ, wake' = wake,
           NEW s \in Objects, Others(w, v, s), Served(v, loop', h, r, s),
           loop = Poll \/ (loop.at = "tail" /\ loop.s = s)
    PROVE  IocpServedInv'
  <1>1. Waiting' = r
    BY DEF Waiting, Now
  <1>2. StillDue(w, r, Waiting', s)
    BY <1>1 DEF StillDue
  <1>3. StillExempt(w, v, loop, loop', s)
    BY PollIs DEF StillExempt, Exempt
  <1>4. WakeOK'
    BY PollIs DEF WakeOK, IocpServedInv
  <1> QED
    BY <1>1, <1>2, <1>3, <1>4, LoopTurn

\* A callback that eventLoop makes is a turn of its session.
LEMMA PollTurn ==
    ASSUME IocpInv, IocpServedInv, NEW w, NEW g, NEW h, NEW r, Now(w, g, h, r),
           NEW v, Store(v), work' = work, respQ' = respQ, wake' = wake,
           NEW s \in Objects, NEW e, Turn(w, v, h, r, s, e), e => Exempt(v, loop', s),
           loop = Poll \/ (loop.at = "tail" /\ loop.s = s)
    PROVE  IocpServedInv'
  <1>1. Others(w, v, s) /\ Served(v, loop', h, r, s)
    BY TurnIs
  <1> QED
    BY <1>1, PollStep

\* Under the bound the completions of a session that was given up find nothing, so
\* a completion that finds a session is one of that session.
LEMMA ResolveSelf ==
    ASSUME MaxSessions < SeqMod, IocpInv, NEW w, NEW g, NEW h, NEW r, Now(w, g, h, r),
           NEW s \in Objects, Resolve(s) # NULL, ses[s].recvIO \/ ses[s].sendIO
    PROVE  Resolve(s) = s /\ In(w, s) /\ Runs(w, h, s)
  <1>1. w.mgr = mgr /\ w.ses = ses /\ WorldOK(w, g)
    BY DEF Now
  <1>2. PICK t : t = Resolve(s)
    OBVIOUS
  <1>3. t \in Objects /\ In(w, t) /\ w.ses[t].mSid = w.ses[s].mSid
    BY <1>1, <1>2, ResolveIn
  <1>4. In(w, s)
    <2>1. CASE ses[s].life = "unborn"
      <3>1. w.ses[s].mSid = NoSid
        BY <1>1, <2>1 DEF WorldOK, SessionOK
      <3>2. w.ses[t].mSid \in Sids /\ 0 \notin Keys
        BY <1>1, <1>3, InKey, KeyHasRow
      <3> QED
        BY <1>3, <3>1, <3>2 DEF NoSid, Sids
    <2>2. CASE ses[s].life # "unborn"
      <3>1. NoStaleEvent
        BY NoStaleEventIs
      <3>2. Managed(s)
        BY <2>2, <3>1 DEF NoStaleEvent
      <3> QED
        BY <1>1, <3>2 DEF Managed, In
    <2> QED
      BY <2>1, <2>2
  <1>5. t = s
    BY <1>3, <1>4, InSidApart
  <1> QED
    BY <1>2, <1>4, <1>5 DEF Now

\* Between two callbacks no session is about to be closed.
LEMMA PollSound ==
    ASSUME NEW w, NEW g, NEW h, NEW r, Now(w, g, h, r), loop = Poll, NEW s \in Objects, In(w, s)
    PROVE  w = World /\ Shaped(w) /\ Sound(w.ses[s], Under(w, h, r, s), FALSE)
  <1>1. ~Exempt(w, loop, s)
    BY PollIs DEF Exempt
  <1>2. Served(w, loop, h, r, s) /\ w = World /\ Shaped(w)
    BY DEF Now
  <1> QED
    BY <1>1, <1>2 DEF Served, Sound

\* The completion of a WSARecv: the flags are cleared.
LEMMA ReceivedIs ==
    ASSUME NEW w, w = World, Shaped(w), NEW s \in Objects
    PROVE  /\ Same(w, Received(s, s), s) /\ Received(s, s).tasks = w.tasks
           /\ LET p == w.ses[s]
                  q == Received(s, s).ses[s]
              IN  /\ DOMAIN q = SessionFields
                  /\ q.missed = p.missed /\ q.mStatus = p.mStatus /\ q.mRunning = p.mRunning
                  /\ q.mInBuffer = p.mInBuffer /\ q.mOutList = p.mOutList
                  /\ q.mWriting = p.mWriting /\ q.sendIO = p.sendIO
                  /\ q.mReading = FALSE /\ q.recvIO = FALSE
  <1>1. PICK p : p = w.ses[s]
    OBVIOUS
  <1>2. PICK o : o = [p EXCEPT !.recvIO = FALSE, !.recvTimer = FALSE]
    OBVIOUS
  <1>3. PICK q : q = [o EXCEPT !.mReading = FALSE]
    OBVIOUS
  <1>4. PICK u : u = [w EXCEPT !.ses[s] = o]
    OBVIOUS
  <1>5. /\ DOMAIN o = SessionFields /\ o.mSid = p.mSid /\ o.life = p.life
        /\ o.missed = p.missed /\ o.mStatus = p.mStatus /\ o.mRunning = p.mRunning
        /\ o.mInBuffer = p.mInBuffer /\ o.mOutList = p.mOutList
        /\ o.mWriting = p.mWriting /\ o.sendIO = p.sendIO /\ o.recvIO = FALSE
    BY <1>1, <1>2 DEF Shaped, SessionFields
  <1>6. /\ DOMAIN q = SessionFields /\ q.mSid = p.mSid /\ q.life = p.life
        /\ q.missed = p.missed /\ q.mStatus = p.mStatus /\ q.mRunning = p.mRunning
        /\ q.mInBuffer = p.mInBuffer /\ q.mOutList = p.mOutList
        /\ q.mWriting = p.mWriting /\ q.sendIO = p.sendIO
        /\ q.mReading = FALSE /\ q.recvIO = FALSE
    BY <1>3, <1>5 DEF SessionFields
  <1>7. Same(w, u, s) /\ u.ses[s] = o /\ Shaped(u) /\ u.tasks = w.tasks
    BY <1>1, <1>4, <1>5, PutSame DEF Same
  <1>8. PICK v : v = [u EXCEPT !.ses[s] = q]
    OBVIOUS
  <1>9. Same(u, v, s) /\ v.ses[s] = q /\ v.tasks = u.tasks
    BY <1>5, <1>6, <1>7, <1>8, PutSame
  <1>10. Received(s, s) = v
    BY <1>1, <1>2, <1>3, <1>4, <1>7, <1>8 DEF Received
  <1> QED
    BY <1>1, <1>6, <1>7, <1>9, <1>10, SameTwice

\* onRecv when receive() returns data
LEMMA OnRecvDataServed ==
    ASSUME MaxSessions < SeqMod, IocpInv, IocpServedInv, NEW s \in Objects, NEW n, NEW bad,
           OnRecvData(s, n, bad)
    PROVE  IocpServedInv'
  <1>1. PICK w, g, h, r : Now(w, g, h, r)
    BY Look
  <1>2. Resolve(s) = s /\ In(w, s) /\ Runs(w, h, s)
    BY <1>1, ResolveSelf DEF OnRecvData
  <1>3. /\ w = World /\ Shaped(w) /\ Sound(w.ses[s], Under(w, h, r, s), FALSE)
    BY <1>1, <1>2, PollSound DEF OnRecvData
  <1>4. PICK x : x = Received(s, s)
    OBVIOUS
  <1>5. /\ Same(w, x, s) /\ DOMAIN x.ses[s] = SessionFields /\ Shaped(x)
        /\ x.ses[s].missed = w.ses[s].missed /\ x.ses[s].mStatus = w.ses[s].mStatus
        /\ x.ses[s].mRunning = w.ses[s].mRunning /\ x.ses[s].mOutList = w.ses[s].mOutList
        /\ x.ses[s].mWriting = w.ses[s].mWriting /\ x.ses[s].sendIO = w.ses[s].sendIO
        /\ x.ses[s].mReading = FALSE /\ x.ses[s].recvIO = FALSE
    <2>1. Same(w, x, s)
      BY <1>3, <1>4, ReceivedIs
    <2>2. Shaped(x)
      BY <2>1 DEF Same
    <2> QED
      BY <1>3, <1>4, <2>1, <2>2, ReceivedIs
  <1>6. PICK q : q = [x.ses[s] EXCEPT !.mInBuffer = @ + n]
    OBVIOUS
  <1>7. /\ DOMAIN q = SessionFields /\ q.mSid = x.ses[s].mSid /\ q.life = x.ses[s].life
        /\ q.missed = w.ses[s].missed /\ q.mStatus = w.ses[s].mStatus
        /\ q.mRunning = w.ses[s].mRunning /\ q.mOutList = w.ses[s].mOutList
        /\ q.mWriting = w.ses[s].mWriting /\ q.sendIO = w.ses[s].sendIO
        /\ q.mReading = FALSE /\ q.recvIO = FALSE
    BY <1>5, <1>6 DEF SessionFields
  <1>8. PICK y : y = [x EXCEPT !.ses[s] = q]
    OBVIOUS
  <1>9. Same(x, y, s) /\ y.ses[s] = q
    BY <1>5, <1>7, <1>8, PutSame
  <1>10. Same(w, y, s) /\ Shaped(y)
    BY <1>5, <1>9, SameTwice DEF Same
  <1>11. Runs(y, h, s)
    BY <1>2, <1>7, <1>9, <1>10, UnderSame DEF Runs
  <1>12. PICK d : d = DecodeIfIdle(y, s)
    OBVIOUS
  <1>13. Settled(y, d, h, s)
    BY <1>10, <1>11, <1>12, DecodeSettles
  <1>14. Same(y, d, s) /\ Alike(q, d.ses[s]) /\ Runs(d, h, s) /\ Shaped(d)
    BY <1>9, <1>13 DEF Settled, Same
  <1>15. Same(w, d, s) /\ In(d, s)
    BY <1>2, <1>10, <1>14, SameTwice, SameOthers
  <1>16. Half(d.ses[s], Under(d, h, r, s), FALSE)
    <2>1. Under(w, h, r, s) => Under(d, h, r, s)
      BY <1>15, UnderSame
    <2>2. Under(d, h, r, s) \/ d.ses[s].mInBuffer = 0
      BY <1>13 DEF Settled, Under
    <2> QED
      BY <1>3, <1>7, <1>14, <2>1, <2>2 DEF Sound, Half, Posted, Alike
  <1>17. PICK v : v = IF AddRecvOK(d, s, bad) THEN AddRecv(d, s, bad) ELSE ErrorOrLater(d, s)
    OBVIOUS
  <1>18. Turn(d, v, h, r, s, FALSE)
    BY <1>14, <1>15, <1>16, <1>17, AddRecvTurn, ErrorOrLaterTurn
  <1>19. Turn(w, v, h, r, s, FALSE)
    BY <1>15, <1>18, SameTurn
  <1>20. Store(v)
    <2>1. y = [Received(s, s) EXCEPT !.ses[s].mInBuffer = @ + n]
      BY <1>4, <1>6, <1>8
    <2> QED
      BY <1>2, <1>12, <1>17, <2>1 DEF OnRecvData
  <1>21. work' = work /\ respQ' = respQ /\ wake' = wake /\ loop = Poll
    BY DEF OnRecvData
  <1> QED
    BY <1>1, <1>19, <1>20, <1>21, PollTurn

\* onRecv when the peer has closed, has reset or the socket would block
LEMMA OnRecvEndServed ==
    ASSUME MaxSessions < SeqMod, IocpInv, IocpServedInv, NEW s \in Objects, NEW bad,
           OnRecvEnd(s, bad)
    PROVE  IocpServedInv'
  <1>1. PICK w, g, h, r : Now(w, g, h, r)
    BY Look
  <1>2. Resolve(s) = s /\ In(w, s) /\ Runs(w, h, s)
    BY <1>1, ResolveSelf DEF OnRecvEnd
  <1>3. /\ w = World /\ Shaped(w) /\ Sound(w.ses[s], Under(w, h, r, s), FALSE)
    BY <1>1, <1>2, PollSound DEF OnRecvEnd
  <1>4. PICK x : x = Received(s, s)
    OBVIOUS
  <1>5. Same(w, x, s) /\ Shaped(x) /\ In(x, s)
    <2>1. Same(w, x, s)
      BY <1>3, <1>4, ReceivedIs
    <2> QED
      BY <1>2, <2>1, SameOthers DEF Same
  <1>6. /\ x.ses[s].missed = w.ses[s].missed /\ x.ses[s].mStatus = w.ses[s].mStatus
        /\ x.ses[s].mRunning = w.ses[s].mRunning /\ x.ses[s].mOutList = w.ses[s].mOutList
        /\ x.ses[s].mWriting = w.ses[s].mWriting /\ x.ses[s].sendIO = w.ses[s].sendIO
        /\ x.ses[s].mInBuffer = w.ses[s].mInBuffer
        /\ x.ses[s].mReading = FALSE /\ x.ses[s].recvIO = FALSE
    BY <1>3, <1>4, ReceivedIs
  <1>7. Runs(x, h, s) /\ (Under(w, h, r, s) => Under(x, h, r, s))
    BY <1>2, <1>5, <1>6, UnderSame DEF Runs
  <1>8. Half(x.ses[s], Under(x, h, r, s), FALSE)
    BY <1>3, <1>6, <1>7 DEF Half, Sound, Posted
  <1>9. PICK v : /\ Store(v)
                 /\ \/ v = IF x.ses[s].mRunning THEN x ELSE DoClose(x, s)
                    \/ v = ErrorOrLater(x, s)
                    \/ v = IF AddRecvOK(x, s, bad) THEN AddRecv(x, s, bad) ELSE ErrorOrLater(x, s)
    BY <1>2, <1>4 DEF OnRecvEnd
  <1>10. Turn(x, v, h, r, s, FALSE)
    <2>1. CASE v = x /\ x.ses[s].mRunning
      <3>1. Same(x, x, s)
        BY <1>5 DEF Same
      <3>2. Sound(x.ses[s], Under(x, h, r, s), FALSE)
        BY <1>7, <1>8, <2>1 DEF Half, Sound, Runs, Under
      <3> QED
        BY <1>7, <2>1, <3>1, <3>2 DEF Turn
    <2>2. CASE v = DoClose(x, s)
      BY <1>5, <2>2, DoCloseOut DEF Turn
    <2>3. CASE v = ErrorOrLater(x, s)
      BY <1>5, <1>7, <2>3, ErrorOrLaterTurn
    <2>4. CASE v = AddRecv(x, s, bad) /\ AddRecvOK(x, s, bad)
      BY <1>5, <1>7, <1>8, <2>4, AddRecvTurn
    <2> QED
      BY <1>9, <2>1, <2>2, <2>3, <2>4
  <1>11. Turn(w, v, h, r, s, FALSE)
    BY <1>5, <1>10, SameTurn
  <1>12. work' = work /\ respQ' = respQ /\ wake' = wake /\ loop = Poll
    BY DEF OnRecvEnd
  <1> QED
    BY <1>1, <1>9, <1>11, <1>12, PollTurn

\* A completion that failed, and a timer that expired: one field is cleared.
Cleared(p, q, a) ==
    /\ DOMAIN q = SessionFields /\ q.mSid = p.mSid /\ q.life = p.life
    /\ q.mRunning = p.mRunning
    /\ a \in {"recvTimer", "sendTimer"} => Alike(p, q) /\ q.mInBuffer = p.mInBuffer

\* A flag of a session record is cleared.
LEMMA ClearField ==
    ASSUME NEW p, DOMAIN p = SessionFields,
           NEW a \in {"recvIO", "sendIO", "recvTimer", "sendTimer"}
    PROVE  Cleared(p, [p EXCEPT ![a] = FALSE], a)
  BY DEF Cleared, SessionFields, Alike

\* A completion that reports a failure
LEMMA EventLoopFailedServed ==
    ASSUME MaxSessions < SeqMod, IocpInv, IocpServedInv, NEW s \in Objects, EventLoopFailed(s)
    PROVE  IocpServedInv'
  <1>1. PICK w, g, h, r : Now(w, g, h, r)
    BY Look
  <1>2. PICK io \in {"recvIO", "sendIO"} :
          /\ ses[s][io]
          /\ \E x : /\ x = [World EXCEPT !.ses[s] = [@ EXCEPT ![io] = FALSE]]
                    /\ Store(IF x.ses[Resolve(s)].mRunning
                             THEN [x EXCEPT !.ses[Resolve(s)].missed = TRUE]
                             ELSE DoClose(x, Resolve(s)))
    BY DEF EventLoopFailed
  <1>3. Resolve(s) = s /\ In(w, s) /\ Runs(w, h, s)
    BY <1>1, <1>2, ResolveSelf DEF EventLoopFailed
  <1>4. w = World /\ Shaped(w)
    BY <1>1 DEF Now
  <1>5. PICK p : p = [w.ses[s] EXCEPT ![io] = FALSE]
    OBVIOUS
  <1>6. PICK x : /\ x = [w EXCEPT !.ses[s] = p]
                 /\ Store(IF x.ses[s].mRunning THEN [x EXCEPT !.ses[s].missed = TRUE]
                          ELSE DoClose(x, s))
    BY <1>2, <1>3, <1>4, <1>5
  <1>7. /\ DOMAIN p = SessionFields /\ p.mSid = w.ses[s].mSid /\ p.life = w.ses[s].life
        /\ p.mRunning = w.ses[s].mRunning
    <2>1. DOMAIN w.ses[s] = SessionFields
      BY <1>4 DEF Shaped
    <2>2. Cleared(w.ses[s], p, io)
      BY <1>5, <2>1, ClearField
    <2> QED
      BY <2>2 DEF Cleared
  <1>8. Same(w, x, s) /\ x.ses[s] = p
    BY <1>4, <1>6, <1>7, PutSame
  <1>9. Shaped(x) /\ In(x, s) /\ Runs(x, h, s)
    BY <1>3, <1>7, <1>8, SameKept
  <1>10. PICK v : v = IF x.ses[s].mRunning THEN [x EXCEPT !.ses[s].missed = TRUE]
                      ELSE DoClose(x, s)
    OBVIOUS
  <1>11. Turn(x, v, h, r, s, FALSE)
    <2>1. CASE x.ses[s].mRunning
      <3>1. v = ErrorOrLater(x, s)
        BY <1>10, <2>1 DEF ErrorOrLater
      <3> QED
        BY <1>9, <3>1, ErrorOrLaterTurn
    <2>2. CASE ~x.ses[s].mRunning
      BY <1>9, <1>10, <2>2, DoCloseOut DEF Turn
    <2> QED
      BY <2>1, <2>2
  <1>12. Turn(w, v, h, r, s, FALSE)
    BY <1>8, <1>11, SameTurn
  <1>13. work' = work /\ respQ' = respQ /\ wake' = wake /\ loop = Poll /\ Store(v)
    BY <1>6, <1>10 DEF EventLoopFailed
  <1> QED
    BY <1>1, <1>12, <1>13, PollTurn

\* A timer expires.
LEMMA OnTimeoutServed ==
    ASSUME IocpInv, IocpServedInv, NEW s \in Objects, OnTimeout(s)
    PROVE  IocpServedInv'
  <1>1. PICK w, g, h, r : Now(w, g, h, r)
    BY Look
  <1>2. PICK timer \in {"recvTimer", "sendTimer"} :
          /\ ses[s][timer]
          /\ \E x : /\ x = [World EXCEPT !.ses[s] = [@ EXCEPT ![timer] = FALSE]]
                    /\ Store(IF ses[s].mRunning THEN x ELSE DoTimeout(x, s))
    BY DEF OnTimeout
  <1>3. In(w, s)
    <2>1. SessionOK(w, g, s) /\ w.ses = ses
      BY <1>1 DEF Now, WorldOK
    <2>2. w.ses[s].recvTimer \/ w.ses[s].sendTimer
      BY <1>2, <2>1
    <2> QED
      BY <2>1, <2>2 DEF SessionOK
  <1>4. /\ w = World /\ Shaped(w) /\ Sound(w.ses[s], Under(w, h, r, s), FALSE)
        /\ Runs(w, h, s) /\ w.ses = ses
    <2>1. loop = Poll
      BY DEF OnTimeout
    <2> QED
      BY <1>1, <1>3, <2>1, PollSound DEF Now
  <1>5. PICK p : p = [w.ses[s] EXCEPT ![timer] = FALSE]
    OBVIOUS
  <1>6. PICK x : /\ x = [w EXCEPT !.ses[s] = p]
                 /\ Store(IF ses[s].mRunning THEN x ELSE DoTimeout(x, s))
    BY <1>2, <1>4, <1>5
  <1>7. /\ DOMAIN p = SessionFields /\ p.mSid = w.ses[s].mSid /\ p.life = w.ses[s].life
        /\ p.mRunning = w.ses[s].mRunning
        /\ Alike(w.ses[s], p) /\ p.mInBuffer = w.ses[s].mInBuffer
    <2>1. DOMAIN w.ses[s] = SessionFields
      BY <1>4 DEF Shaped
    <2>2. Cleared(w.ses[s], p, timer)
      BY <1>5, <2>1, ClearField
    <2> QED
      BY <2>2 DEF Cleared
  <1>8. Same(w, x, s) /\ x.ses[s] = p
    BY <1>4, <1>6, <1>7, PutSame
  <1>9. Shaped(x) /\ In(x, s) /\ Runs(x, h, s) /\ (Under(w, h, r, s) => Under(x, h, r, s))
    BY <1>3, <1>4, <1>7, <1>8, SameKept
  <1>10. PICK v : v = IF ses[s].mRunning THEN x ELSE DoTimeout(x, s)
    OBVIOUS
  <1>11. Turn(w, v, h, r, s, FALSE)
    <2>1. CASE ses[s].mRunning
      <3>1. Sound(p, Under(x, h, r, s), FALSE)
        BY <1>4, <1>7, <1>9 DEF Sound, Posted, Alike
      <3> QED
        BY <1>8, <1>9, <1>10, <2>1, <3>1 DEF Turn
    <2>2. CASE ~ses[s].mRunning
      <3>1. Out(x, v, s)
        BY <1>9, <1>10, <2>2, FailsOut
      <3> QED
        BY <1>8, <3>1, SameOut DEF Turn
    <2> QED
      BY <2>1, <2>2
  <1>12. work' = work /\ respQ' = respQ /\ wake' = wake /\ loop = Poll /\ Store(v)
    BY <1>6, <1>10 DEF OnTimeout
  <1> QED
    BY <1>1, <1>11, <1>12, PollTurn

\* The completion of a WSASend: the flags are cleared, and messages are settled.
Flushed(p, q) ==
    /\ q.missed = p.missed /\ q.mStatus = p.mStatus /\ q.mRunning = p.mRunning
    /\ q.mInBuffer = p.mInBuffer
    /\ q.mReading = p.mReading /\ q.recvIO = p.recvIO
    /\ q.mWriting = FALSE /\ q.sendIO = FALSE

\* The completion of a WSASend: the flags are cleared and messages leave the list.
LEMMA SentIs ==
    ASSUME NEW w, w = World, w.ses = ses, Shaped(w), NEW s \in Objects, NEW n
    PROVE  /\ Same(w, Sent(s, s, n), s)
           /\ Flushed(w.ses[s], Sent(s, s, n).ses[s])
  <1>1. PICK p : p = w.ses[s]
    OBVIOUS
  <1>2. PICK o : o = [p EXCEPT !.sendIO = FALSE, !.sendTimer = FALSE]
    OBVIOUS
  <1>3. PICK c : c = ses[s].mOutList
    OBVIOUS
  <1>4. PICK q : q = [o EXCEPT !.mWriting = FALSE, !.mOutList = SubSeq(c, n + 1, Len(c))]
    OBVIOUS
  <1>5. PICK u : u = [w EXCEPT !.ses[s] = o]
    OBVIOUS
  <1>6. /\ DOMAIN o = SessionFields /\ o.mSid = p.mSid /\ o.life = p.life
        /\ o.missed = p.missed /\ o.mStatus = p.mStatus /\ o.mRunning = p.mRunning
        /\ o.mInBuffer = p.mInBuffer
        /\ o.mReading = p.mReading /\ o.recvIO = p.recvIO /\ o.sendIO = FALSE
    BY <1>1, <1>2 DEF Shaped, SessionFields
  <1>7. /\ DOMAIN q = SessionFields /\ q.mSid = p.mSid /\ q.life = p.life
        /\ q.missed = p.missed /\ q.mStatus = p.mStatus /\ q.mRunning = p.mRunning
        /\ q.mInBuffer = p.mInBuffer
        /\ q.mReading = p.mReading /\ q.recvIO = p.recvIO
        /\ q.mWriting = FALSE /\ q.sendIO = FALSE
    BY <1>4, <1>6 DEF SessionFields
  <1>8. Same(w, u, s) /\ u.ses[s] = o /\ Shaped(u)
    BY <1>1, <1>5, <1>6, PutSame DEF Same
  <1>9. PICK v : v = [u EXCEPT !.ses[s] = q]
    OBVIOUS
  <1>10. Same(u, v, s) /\ v.ses[s] = q
    BY <1>6, <1>7, <1>8, <1>9, PutSame
  <1>11. PICK M : M = [m \in Msgs |-> IF m \in Range(SubSeq(c, 1, n))
                                      THEN Failed(msgs[m], ses[s].mSid) ELSE msgs[m]]
    OBVIOUS
  <1>12. PICK y : y = [v EXCEPT !.msgs = M]
    OBVIOUS
  <1>13. Shaped(v)
    BY <1>10 DEF Same
  <1>14. Same(v, y, s) /\ y.ses = v.ses
    BY <1>12, <1>13, MsgsSame
  <1>15. Sent(s, s, n) = y
    BY <1>1, <1>2, <1>3, <1>4, <1>5, <1>8, <1>9, <1>11, <1>12 DEF Sent
  <1>16. Same(w, y, s)
    BY <1>8, <1>10, <1>14, SameTwice
  <1> QED
    BY <1>1, <1>7, <1>10, <1>14, <1>15, <1>16 DEF Flushed

\* What is left after it
LEMMA SentServed ==
    ASSUME MaxSessions < SeqMod, IocpInv, IocpServedInv, NEW w, NEW g, NEW h, NEW r,
           Now(w, g, h, r), NEW s \in Objects, Resolve(s) # NULL, ses[s].sendIO, loop = Poll,
           NEW n, NEW x, x = Sent(s, s, n)
    PROVE  /\ Resolve(s) = s /\ Same(w, x, s) /\ Shaped(x) /\ In(x, s) /\ Runs(x, h, s)
           /\ Ready(x.ses[s], Under(x, h, r, s))
           /\ x.ses[s].mOutList = <<>> =>
                 Sound(x.ses[s], Under(x, h, r, s), x.ses[s].mStatus = "eExit")
  <1>1. Resolve(s) = s /\ In(w, s) /\ Runs(w, h, s)
    BY ResolveSelf
  <1>2. /\ w = World /\ w.ses = ses /\ Shaped(w) /\ Sound(w.ses[s], Under(w, h, r, s), FALSE)
    BY <1>1, PollSound DEF Now
  <1>3. /\ Same(w, x, s)
        /\ x.ses[s].missed = w.ses[s].missed /\ x.ses[s].mStatus = w.ses[s].mStatus
        /\ x.ses[s].mRunning = w.ses[s].mRunning /\ x.ses[s].mInBuffer = w.ses[s].mInBuffer
        /\ x.ses[s].mReading = w.ses[s].mReading /\ x.ses[s].recvIO = w.ses[s].recvIO
        /\ x.ses[s].mWriting = FALSE /\ x.ses[s].sendIO = FALSE
    <2>1. Same(w, x, s) /\ Flushed(w.ses[s], x.ses[s])
      BY <1>2, SentIs
    <2> QED
      BY <2>1 DEF Flushed
  <1>4. /\ Shaped(x) /\ In(x, s) /\ Runs(x, h, s)
        /\ Under(w, h, r, s) => Under(x, h, r, s)
    BY <1>1, <1>3, SameKept
  <1>5. Ready(x.ses[s], Under(x, h, r, s))
    BY <1>2, <1>3, <1>4 DEF Ready, Sound, Posted
  <1>6. ASSUME x.ses[s].mOutList = <<>>
        PROVE  Sound(x.ses[s], Under(x, h, r, s), x.ses[s].mStatus = "eExit")
    BY <1>2, <1>3, <1>4, <1>6 DEF Sound, Posted
  <1> QED
    BY <1>1, <1>3, <1>4, <1>5, <1>6

\* onSend tries again after it decoded.
LEMMA SendAgainTurn ==
    ASSUME NEW x, Shaped(x), NEW s \in Objects, In(x, s), NEW h, NEW r, Runs(x, h, s), NEW e
    PROVE  /\ Turn(x, ErrorOrLater(DecodeIfIdle(x, s), s), h, r, s, e)
           /\ Same(x, DecodeIfIdle(x, s), s) /\ Runs(DecodeIfIdle(x, s), h, s)
  <1>1. PICK d : d = DecodeIfIdle(x, s)
    OBVIOUS
  <1>2. Same(x, d, s) /\ Runs(d, h, s) /\ Shaped(d)
    BY <1>1, DecodeSettles DEF Settled, Same
  <1>3. In(d, s)
    BY <1>2, SameOthers
  <1>4. Turn(d, ErrorOrLater(d, s), h, r, s, e)
    BY <1>2, <1>3, ErrorOrLaterTurn
  <1> QED
    BY <1>1, <1>2, <1>4, SameTurn

\* onSend up to the test of the status
LEMMA OnSendServed ==
    ASSUME MaxSessions < SeqMod, IocpInv, IocpServedInv, NEW s \in Objects, NEW n, NEW bad,
           OnSend(s, n, bad)
    PROVE  IocpServedInv'
  <1>1. PICK w, g, h, r : Now(w, g, h, r)
    BY Look
  <1>2. PICK x : x = Sent(s, s, n)
    OBVIOUS
  <1>3. /\ Resolve(s) = s /\ Same(w, x, s) /\ Shaped(x) /\ In(x, s) /\ Runs(x, h, s)
        /\ Ready(x.ses[s], Under(x, h, r, s))
        /\ x.ses[s].mOutList = <<>> =>
              Sound(x.ses[s], Under(x, h, r, s), x.ses[s].mStatus = "eExit")
    BY <1>1, <1>2, SentServed DEF OnSend
  <1>4. PICK d : d = DecodeIfIdle(x, s)
    OBVIOUS
  <1>5. PICK lost : lost = (x.ses[s].mOutList # <<>> /\ ~AddSendOK(x, s, bad))
    OBVIOUS
  <1>6. PICK e : e = (x.ses[s].mOutList = <<>> /\ x.ses[s].mStatus = "eExit")
    OBVIOUS
  <1>7. PICK v : /\ Store(v)
                 /\ v = CASE ~(x.ses[s].mOutList # <<>>) -> x
                          [] x.ses[s].mOutList # <<>> /\ ~lost -> AddSend(x, s, bad)
                          [] lost -> ErrorOrLater(d, s)
    BY <1>2, <1>3, <1>4, <1>5 DEF OnSend
  <1>8. loop' = IF lost /\ ~d.ses[s].mRunning THEN Poll
                ELSE [Poll EXCEPT !.at = "tail", !.s = s, !.exit = e]
    BY <1>2, <1>3, <1>4, <1>5, <1>6 DEF OnSend
  <1>9. Turn(x, v, h, r, s, e)
    <2>1. CASE x.ses[s].mOutList = <<>>
      <3>1. v = x
        BY <1>5, <1>7, <2>1
      <3>2. Sound(x.ses[s], Under(x, h, r, s), e)
        BY <1>3, <1>6, <2>1 DEF Sound
      <3>3. Same(x, x, s)
        BY <1>3 DEF Same
      <3> QED
        BY <1>3, <3>1, <3>2, <3>3 DEF Turn
    <2>2. CASE x.ses[s].mOutList # <<>> /\ ~lost
      <3>1. v = AddSend(x, s, bad) /\ AddSendOK(x, s, bad)
        BY <1>5, <1>7, <2>2
      <3> QED
        BY <1>3, <3>1, AddSendTurn, SendingSound DEF Turn
    <2>3. CASE x.ses[s].mOutList # <<>> /\ lost
      <3>1. v = ErrorOrLater(d, s)
        BY <1>7, <2>3
      <3> QED
        BY <1>3, <1>4, <3>1, SendAgainTurn
    <2> QED
      BY <2>1, <2>2, <2>3
  <1>10. Turn(w, v, h, r, s, e)
    BY <1>3, <1>9, SameTurn
  <1>11. e => Exempt(v, loop', s)
    <2>1. PICK p : p = Poll
      OBVIOUS
    <2>2. IsLoop(p)
      BY <2>1, PollIs DEF LoopOK, IsLoop
    <2>3. e => loop' = [p EXCEPT !.at = "tail", !.s = s, !.exit = e]
      BY <1>5, <1>6, <1>8, <2>1
    <2>4. [p EXCEPT !.at = "tail", !.s = s, !.exit = e] =
             [at |-> "tail", s |-> s, exit |-> e, resp |-> p.resp, sids |-> p.sids]
      BY <2>2, TailRecord
    <2> QED
      BY <2>3, <2>4, Zenon DEF Exempt
  <1>12. work' = work /\ respQ' = respQ /\ wake' = wake /\ loop = Poll
    BY DEF OnSend
  <1> QED
    BY <1>1, <1>7, <1>10, <1>11, <1>12, PollTurn

\* onSend when the socket fails
LEMMA OnSendErrorServed ==
    ASSUME MaxSessions < SeqMod, IocpInv, IocpServedInv, NEW s \in Objects, NEW bad,
           OnSendError(s, bad)
    PROVE  IocpServedInv'
  <1>1. PICK w, g, h, r : Now(w, g, h, r)
    BY Look
  <1>2. PICK x : x = Sent(s, s, 0)
    OBVIOUS
  <1>3. Resolve(s) = s /\ Same(w, x, s) /\ Shaped(x) /\ In(x, s) /\ Runs(x, h, s)
    BY <1>1, <1>2, SentServed DEF OnSendError
  <1>4. PICK v : /\ Store(v)
                 /\ v = ErrorOrLater(x, s) \/ v = ErrorOrLater(DecodeIfIdle(x, s), s)
    BY <1>2, <1>3 DEF OnSendError
  <1>5. Turn(x, v, h, r, s, FALSE)
    BY <1>3, <1>4, ErrorOrLaterTurn, SendAgainTurn
  <1>6. Turn(w, v, h, r, s, FALSE)
    BY <1>3, <1>5, SameTurn
  <1>7. work' = work /\ respQ' = respQ /\ wake' = wake /\ loop = Poll
    BY DEF OnSendError
  <1> QED
    BY <1>1, <1>4, <1>6, <1>7, PollTurn

\* The rest of onSend
LEMMA OnSendTailServed ==
    ASSUME IocpInv, IocpServedInv, OnSendTail
    PROVE  IocpServedInv'
  <1>1. PICK w, g, h, r : Now(w, g, h, r)
    BY Look
  <1>2. PICK s : s = loop.s
    OBVIOUS
  <1>3. loop.at = "tail" /\ work' = work /\ respQ' = respQ /\ wake' = wake
    BY DEF OnSendTail
  <1>4. s \in Objects /\ In(w, s)
    BY <1>1, <1>2, <1>3 DEF IocpInv, LoopOK, Now
  <1>5. w = World /\ w.ses = ses /\ Shaped(w) /\ Runs(w, h, s) /\ Served(w, loop, h, r, s)
    BY <1>1, <1>4 DEF Now
  <1>6. Sound(w.ses[s], Under(w, h, r, s), loop.exit)
    BY <1>2, <1>3, <1>4, <1>5 DEF Served, Exempt, Sound
  <1>7. PICK v : /\ Store(v)
                 /\ v = IF ses[s].mRunning THEN w ELSE IF loop.exit THEN DoClose(w, s)
                        ELSE DoDecodeForWork(w, s)
    BY <1>2, <1>5 DEF OnSendTail
  <1>8. Turn(w, v, h, r, s, FALSE)
    <2>1. CASE ses[s].mRunning
      <3>1. Same(w, w, s)
        BY <1>5 DEF Same
      <3>2. Sound(w.ses[s], Under(w, h, r, s), FALSE)
        BY <1>5, <1>6, <2>1 DEF Sound, Runs, Under
      <3> QED
        BY <1>5, <1>7, <2>1, <3>1, <3>2 DEF Turn
    <2>2. CASE ~ses[s].mRunning /\ loop.exit
      BY <1>4, <1>5, <1>7, <2>2, DoCloseOut DEF Turn
    <2>3. CASE ~ses[s].mRunning /\ ~loop.exit
      <3>1. v = DoDecodeForWork(w, s) /\ ~w.ses[s].mRunning
        BY <1>5, <1>7, <2>3
      <3>2. Settled(w, v, h, s)
        BY <1>4, <1>5, <3>1, DoDecodeSettles
      <3>3. Sound(w.ses[s], Under(w, h, r, s), FALSE)
        BY <1>6, <2>3 DEF Sound
      <3> QED
        BY <1>4, <3>2, <3>3, DecodeTurn
    <2> QED
      BY <2>1, <2>2, <2>3
  <1> QED
    BY <1>1, <1>2, <1>3, <1>4, <1>7, <1>8, PollTurn

\* A session in the table is found by its sid.
LEMMA GetSelf ==
    ASSUME NEW w, NEW g, WorldOK(w, g), NEW s \in Objects, In(w, s)
    PROVE  Get(w.mgr, w.ses[s].mSid.mKey, w.ses[s].mSid.mSeq) = s /\ s # NULL
  <1>1. PICK key : key = w.ses[s].mSid.mKey
    OBVIOUS
  <1>2. /\ key \in Keys /\ w.mgr.mSession[key] = s /\ s # NULL
        /\ w.mgr.mSeq[key] = w.ses[s].mSid.mSeq
    BY <1>1, InKey
  <1>3. RowOf(key) \in w.mgr.mArray
    BY <1>2 DEF WorldOK, TableOK
  <1> QED
    BY <1>1, <1>2, <1>3 DEF Get

\* A session that is not in the table is of no interest.
LEMMA PutOut ==
    ASSUME NEW w, Shaped(w), NEW s \in Objects, NEW q, DOMAIN q = SessionFields,
           q.mSid = w.ses[s].mSid, q.life \notin {"live", "unborn"},
           NEW v, v.mgr = w.mgr, v.tasks = w.tasks, v.ses = [w.ses EXCEPT ![s] = q]
    PROVE  Others(w, v, s) /\ ~In(v, s)
  <1>1. v.ses[s] = q /\ \A t \in Objects : t # s => v.ses[t] = w.ses[t]
    BY DEF Shaped
  <1>2. Lives(w, v)
    BY <1>1 DEF Lives
  <1>3. ~In(v, s)
    BY <1>1 DEF In
  <1>4. \A t \in Objects : t # s => v.ses[t] = w.ses[t] /\ (In(v, t) => In(w, t))
    BY <1>1 DEF In
  <1>5. \A t \in Objects : Queued(w, t) => Queued(v, t)
    BY DEF Queued
  <1> QED
    BY <1>2, <1>3, <1>4, <1>5 DEF Others

\* A completion that finds no session
LEMMA EventLoopStaleServed ==
    ASSUME IocpInv, IocpServedInv, NEW s \in Objects, EventLoopStale(s)
    PROVE  IocpServedInv'
  <1>1. PICK w, g, h, r : Now(w, g, h, r)
    BY Look
  <1>2. /\ w.mgr = mgr /\ w.ses = ses /\ w.msgs = msgs /\ w.tasks = tasks
        /\ WorldOK(w, g) /\ Shaped(w)
    BY <1>1 DEF Now
  <1>3. ~In(w, s)
    <2>1. Resolve(s) = NULL
      BY DEF EventLoopStale
    <2> QED
      BY <1>2, <2>1, GetSelf DEF Resolve
  <1>4. PICK io \in {"recvIO", "sendIO"} : ses' = [ses EXCEPT ![s] = [ses[s] EXCEPT ![io] = FALSE]]
    BY DEF EventLoopStale
  <1>5. PICK q : q = [w.ses[s] EXCEPT ![io] = FALSE]
    OBVIOUS
  <1>6. Cleared(w.ses[s], q, io)
    <2>1. DOMAIN w.ses[s] = SessionFields
      BY <1>2 DEF Shaped
    <2> QED
      BY <1>5, <2>1, ClearField
  <1>7. PICK v : v = [w EXCEPT !.ses[s] = q]
    OBVIOUS
  <1>8. Same(w, v, s)
    <2>1. DOMAIN q = SessionFields /\ q.mSid = w.ses[s].mSid /\ q.life = w.ses[s].life
      BY <1>6 DEF Cleared
    <2> QED
      BY <1>2, <1>7, <2>1, PutSame
  <1>9. Others(w, v, s) /\ ~In(v, s)
    BY <1>3, <1>8, SameOthers
  <1>10. Store(v)
    <2>1. v.mgr = w.mgr /\ v.msgs = w.msgs /\ v.tasks = w.tasks /\ v.ses = [w.ses EXCEPT ![s] = q]
      BY <1>2, <1>7 DEF Shaped
    <2> QED
      BY <1>2, <1>4, <1>5, <2>1 DEF Store, EventLoopStale
  <1>11. work' = work /\ respQ' = respQ /\ wake' = wake /\ loop = Poll
    BY DEF EventLoopStale
  <1>12. Served(v, loop', h, r, s)
    BY <1>9 DEF Served
  <1> QED
    BY <1>1, <1>9, <1>10, <1>11, <1>12, PollStep

\* The session is deleted.
LEMMA EventLoopFreeServed ==
    ASSUME IocpInv, IocpServedInv, NEW s \in Objects, EventLoopFree(s)
    PROVE  IocpServedInv'
  <1>1. PICK w, g, h, r : Now(w, g, h, r)
    BY Look
  <1>2. /\ w.mgr = mgr /\ w.ses = ses /\ w.msgs = msgs /\ w.tasks = tasks /\ Shaped(w)
    BY <1>1 DEF Now
  <1>3. PICK q : q = [NewSession EXCEPT !.life = "deleted", !.mSid = ses[s].mSid,
                                        !.recvIO = ses[s].recvIO, !.sendIO = ses[s].sendIO,
                                        !.recvTimer = ses[s].recvTimer,
                                        !.sendTimer = ses[s].sendTimer]
    OBVIOUS
  <1>4. DOMAIN q = SessionFields /\ q.mSid = ses[s].mSid /\ q.life = "deleted"
    BY <1>3 DEF NewSession, SessionFields
  <1>5. PICK v : v = [mgr |-> mgr', ses |-> ses', msgs |-> msgs', tasks |-> tasks']
    OBVIOUS
  <1>6. /\ Store(v) /\ v.mgr = w.mgr /\ v.tasks = w.tasks /\ v.ses = [w.ses EXCEPT ![s] = q]
    BY <1>2, <1>3, <1>5 DEF Store, EventLoopFree
  <1>7. Others(w, v, s) /\ ~In(v, s)
    BY <1>2, <1>4, <1>6, PutOut
  <1>8. work' = work /\ respQ' = respQ /\ wake' = wake /\ loop = Poll
    BY DEF EventLoopFree
  <1>9. Served(v, loop', h, r, s)
    BY <1>7 DEF Served
  <1> QED
    BY <1>1, <1>6, <1>7, <1>8, <1>9, PollStep

\* Where the loop is
LEMMA LoopPlaces ==
    /\ Poll.at = "poll" /\ [Poll EXCEPT !.at = "process"].at = "process"
    /\ \A at, resp, sids : Responding(at, resp, sids).at = at /\ Responding(at, resp, sids).resp = resp
    /\ \A resp, sids : Closing(resp, sids).at \in {"process", "close"}
  <1>1. \A at, resp, sids : Responding(at, resp, sids).at = at /\ Responding(at, resp, sids).resp = resp
    BY RespondingIs
  <1>2. \A resp, sids : Closing(resp, sids).at \in {"process", "close"}
    BY <1>1, ProcessIs DEF Closing
  <1> QED
    BY <1>1, <1>2, PollIs, ProcessIs

\* A world that differs in the messages at most
LEMMA NoneMoves ==
    ASSUME NEW w, NEW v, v.mgr = w.mgr, v.ses = w.ses, v.tasks = w.tasks
    PROVE  Others(w, v, NULL)
  BY DEF Others, In, Queued, Lives

\* process() begins and ends.
LEMMA ProcessServed ==
    ASSUME IocpInv, IocpServedInv, ProcessBegin \/ ProcessEnd
    PROVE  IocpServedInv'
  <1>1. PICK w, g, h, r : Now(w, g, h, r)
    BY Look
  <1>2. /\ w.mgr = mgr /\ w.ses = ses /\ w.msgs = msgs /\ w.tasks = tasks /\ r = Waiting
    BY <1>1 DEF Now
  <1>3. /\ mgr' = mgr /\ ses' = ses /\ msgs' = msgs /\ tasks' = tasks /\ work' = work
        /\ respQ' = respQ
        /\ \/ loop = Poll /\ wake > 0 /\ wake' = wake - 1 /\ loop' = [Poll EXCEPT !.at = "process"]
           \/ loop.at = "process" /\ respQ = <<>> /\ wake' = wake
    BY DEF ProcessBegin, ProcessEnd
  <1>4. Store(w) /\ Others(w, w, NULL)
    BY <1>2, <1>3, NoneMoves DEF Store
  <1>5. Waiting' = r
    BY <1>2, <1>3 DEF Waiting
  <1>6. StillDue(w, r, Waiting', NULL)
    BY <1>5 DEF StillDue
  <1>7. StillExempt(w, w, loop, loop', NULL)
    BY <1>3, LoopPlaces DEF StillExempt, Exempt
  <1>8. WakeOK'
    <2>1. wake \in Nat
      BY DEF WakeOK, IocpServedInv
    <2>2. wake' \in Nat
      BY <1>3, <2>1
    <2>3. respQ' = <<>> \/ loop'.at = "process"
      BY <1>3, ProcessIs, Zenon
    <2> QED
      BY <2>2, <2>3, Zenon DEF WakeOK
  <1>9. NULL \notin Objects
    BY IocpAssumption DEF Objects
  <1> QED
    BY <1>1, <1>3, <1>4, <1>6, <1>7, <1>8, <1>9, LoopTurn

\* Between the response that is taken and the queue that is left
LEMMA TakenDue ==
    ASSUME IocpInv, respQ # <<>>, respQ' = Tail(respQ), NEW x, x \in Waiting,
           x # Head(respQ).from
    PROVE  x \in Waiting'
  <1>1. respQ \in Seq(Responses)
    BY DEF IocpInv
  <1>2. PICK i \in DOMAIN respQ : respQ[i].from = x
    BY DEF Waiting
  <1>3. /\ Head(respQ) = respQ[1] /\ Len(Tail(respQ)) = Len(respQ) - 1
        /\ Tail(respQ) \in Seq(Responses)
        /\ \A j \in 1 .. Len(Tail(respQ)) : Tail(respQ)[j] = respQ[j + 1]
    BY <1>1, HeadTailProperties
  <1>4. i \in 1 .. Len(respQ) /\ i # 1 /\ Len(respQ) \in Nat
    BY <1>1, <1>2, <1>3, LenProperties
  <1>5. i - 1 \in 1 .. Len(Tail(respQ)) /\ Tail(respQ)[i - 1] = respQ[i]
    BY <1>3, <1>4
  <1>6. i - 1 \in DOMAIN Tail(respQ)
    BY <1>3, <1>5, LenProperties
  <1> QED
    BY <1>2, <1>5, <1>6 DEF Waiting

\* A session whose response is delivered
LEMMA FromTurn ==
    ASSUME NEW w, Shaped(w), NEW s \in Objects, In(w, s), NEW h, NEW q, Runs(w, h, s), NEW bad,
           ~w.ses[s].missed => Posted(w.ses[s])
    PROVE  Turn(w, FromSession(w, s, bad), h, q, s, TRUE)
  <1>1. CASE w.ses[s].mStatus # "eNormal"
    <2>1. PICK p : p = [w.ses[s] EXCEPT !.mStatus = "eExit"]
      OBVIOUS
    <2>2. PICK v : v = [w EXCEPT !.ses[s] = p]
      OBVIOUS
    <2>3. /\ DOMAIN p = SessionFields /\ p.life = w.ses[s].life /\ p.mSid = w.ses[s].mSid
          /\ p.missed = w.ses[s].missed /\ p.mRunning = w.ses[s].mRunning
          /\ p.mStatus = "eExit" /\ (Posted(w.ses[s]) => Posted(p))
      BY <2>1 DEF Shaped, SessionFields, Posted
    <2>4. Same(w, v, s) /\ v.ses[s] = p
      BY <2>2, <2>3, PutSame
    <2>5. Runs(v, h, s)
      BY <2>3, <2>4, SameKept
    <2>6. Sound(p, Under(v, h, q, s), TRUE)
      BY <2>3 DEF Sound
    <2>7. FromSession(w, s, bad) = v
      BY <1>1, <2>1, <2>2 DEF FromSession
    <2> QED
      BY <2>4, <2>5, <2>6, <2>7 DEF Turn
  <1>2. CASE w.ses[s].mStatus = "eNormal" /\ AddRecvOK(w, s, bad)
    <2>1. PICK u : u = AddRecv(w, s, bad)
      OBVIOUS
    <2>2. Same(w, u, s) /\ Receiving(w.ses[s], u.ses[s])
      BY <1>2, <2>1, AddRecvFacts
    <2>3. Shaped(u) /\ Runs(u, h, s)
      <3>1. u.ses[s].mRunning = w.ses[s].mRunning
        BY <2>2 DEF Receiving
      <3> QED
        BY <2>2, <3>1, SameKept
    <2>4. PICK d : d = DecodeIfIdle(u, s)
      OBVIOUS
    <2>5. Settled(u, d, h, s)
      BY <2>3, <2>4, DecodeSettles
    <2>6. Same(u, d, s) /\ Alike(u.ses[s], d.ses[s]) /\ Runs(d, h, s)
      BY <2>5 DEF Settled
    <2>7. Under(d, h, q, s) \/ d.ses[s].mInBuffer = 0
      BY <2>5 DEF Settled, Under
    <2>8. Sound(u.ses[s], TRUE, TRUE) /\ (u.ses[s].missed \/ u.ses[s].recvIO)
          /\ u.ses[s].mStatus = "eNormal"
      BY <1>2, <2>2 DEF Receiving, Sound
    <2>9. Sound(d.ses[s], Under(d, h, q, s), TRUE)
      BY <2>6, <2>7, <2>8 DEF Alike, Sound, Posted
    <2>10. FromSession(w, s, bad) = d
      BY <1>2, <2>1, <2>4 DEF FromSession
    <2> QED
      BY <2>2, <2>6, <2>9, <2>10, SameTwice DEF Turn
  <1>3. CASE w.ses[s].mStatus = "eNormal" /\ ~AddRecvOK(w, s, bad)
    <2>1. CASE w.ses[s].mRunning
      <3>1. FromSession(w, s, bad) = w
        BY <1>3, <2>1 DEF FromSession
      <3>2. Same(w, w, s)
        BY DEF Same
      <3>3. Sound(w.ses[s], Under(w, h, q, s), TRUE)
        BY <2>1 DEF Sound, Runs, Under
      <3> QED
        BY <3>1, <3>2, <3>3 DEF Turn
    <2>2. CASE ~w.ses[s].mRunning
      <3>1. FromSession(w, s, bad) = DoError(w, s)
        BY <1>3, <2>2 DEF FromSession
      <3> QED
        BY <3>1, FailsOut DEF Turn
    <2> QED
      BY <2>1, <2>2
  <1> QED
    BY <1>1, <1>2, <1>3

\* The sid that onResponse looks up
LEMMA SidFinds ==
    ASSUME NEW w, NEW g, WorldOK(w, g), NEW sid \in AnySid, NEW s, s = InWorld(w, sid)
    PROVE  /\ s # NULL => s \in Objects /\ In(w, s) /\ w.ses[s].mSid = sid
           /\ \A t \in Objects : In(w, t) /\ w.ses[t].mSid = sid => t = s
  <1>1. s # NULL => s \in Objects /\ In(w, s) /\ w.ses[s].mSid = sid
    BY GetIn DEF InWorld
  <1>2. ASSUME NEW t \in Objects, In(w, t), w.ses[t].mSid = sid
        PROVE  t = s
    BY <1>2, GetSelf DEF InWorld
  <1> QED
    BY <1>1, <1>2

\* The response that process() takes
LEMMA HeadResponse ==
    ASSUME IocpInv, respQ # <<>>
    PROVE  Head(respQ) \in Responses /\ Head(respQ).from \in AnySid
  <1>1. Head(respQ) \in Responses
    BY HeadTailProperties DEF IocpInv
  <1> QED
    BY <1>1 DEF Responses

\* Outside onSend and onResponse no session is about to be closed.
LEMMA NotExempt ==
    ASSUME NEW w, NEW l, l.at \notin {"tail", "to"}
    PROVE  \A s : ~Exempt(w, l, s)
  BY DEF Exempt

\* The turn of the sender
LEMMA ResponseFromServed ==
    ASSUME IocpInv, IocpServedInv, NEW bad, ResponseFrom(bad)
    PROVE  IocpServedInv'
  <1>1. PICK w, g, h, r : Now(w, g, h, r)
    BY Look
  <1>2. /\ w = World /\ w.ses = ses /\ WorldOK(w, g) /\ Shaped(w) /\ r = Waiting
        /\ \A s \in Objects : Served(w, loop, h, r, s) /\ (In(w, s) => Runs(w, h, s))
    BY <1>1 DEF Now
  <1>3. PICK resp : resp = Head(respQ)
    OBVIOUS
  <1>4. resp.from \in AnySid /\ respQ # <<>> /\ respQ' = Tail(respQ) /\ loop.at = "process"
        /\ work' = work /\ wake' = wake
    BY <1>3, HeadResponse DEF ResponseFrom
  <1>5. PICK s : s = InWorld(w, resp.from)
    OBVIOUS
  <1>6. /\ s # NULL => s \in Objects /\ In(w, s) /\ w.ses[s].mSid = resp.from
        /\ \A t \in Objects : In(w, t) /\ w.ses[t].mSid = resp.from => t = s
    BY <1>2, <1>4, <1>5, SidFinds
  <1>7. PICK v : Store(v) /\ v = IF s = NULL THEN w ELSE FromSession(w, s, bad)
    BY <1>2, <1>3, <1>5 DEF ResponseFrom
  <1>8. loop'.at = "to" /\ loop'.resp = resp
    BY <1>3, LoopPlaces DEF ResponseFrom
  <1>9. NULL \notin Objects
    BY IocpAssumption DEF Objects
  <1>10. StillDue(w, r, Waiting', s)
    <2>1. ASSUME NEW t \in Objects \ {s}, In(w, t), w.ses[t].mSid \in r
          PROVE  w.ses[t].mSid \in Waiting'
      <3>1. w.ses[t].mSid # resp.from
        BY <1>6, <2>1
      <3> QED
        BY <1>2, <1>3, <1>4, <2>1, <3>1, TakenDue
    <2> QED
      BY <2>1 DEF StillDue
  <1>11. \A t : ~Exempt(w, loop, t)
    BY <1>4, NotExempt
  <1>12. StillExempt(w, v, loop, loop', s)
    BY <1>11 DEF StillExempt
  <1>13. Others(w, v, s) /\ (s \in Objects => Served(v, loop', h, Waiting', s))
    <2>1. CASE s = NULL
      BY <1>7, <1>9, <2>1, NoneMoves
    <2>2. CASE s # NULL
      <3>1. ~w.ses[s].missed => Posted(w.ses[s])
        BY <1>2, <1>6, <2>2 DEF Served, Sound
      <3>2. Turn(w, v, h, Waiting', s, TRUE)
        BY <1>2, <1>6, <1>7, <2>2, <3>1, FromTurn
      <3>3. v.ses[s].mSid = resp.from
        <4>1. w.ses[s].life # "unborn"
          BY <1>6, <2>2 DEF In
        <4>2. Lives(w, v)
          BY <1>6, <2>2, <3>2, TurnLives
        <4> QED
          BY <1>6, <2>2, <4>1, <4>2 DEF Lives
      <3>4. Exempt(v, loop', s)
        BY <1>8, <3>3 DEF Exempt
      <3> QED
        BY <1>6, <2>2, <3>2, <3>4, TurnIs
    <2> QED
      BY <2>1, <2>2
  <1>14. WakeOK'
    BY <1>4, <1>8 DEF WakeOK, IocpServedInv
  <1> QED
    BY <1>1, <1>4, <1>7, <1>10, <1>12, <1>13, <1>14, LoopTurn

\* A session that takes a message
LEMMA ToTurn ==
    ASSUME NEW w, NEW g, WorldOK(w, g), Shaped(w), NEW sid \in AnySid, NEW resp, NEW bad,
           NEW s, s = InWorld(w, sid), s # NULL, NEW h, NEW r, NEW e, Runs(w, h, s),
           Sound(w.ses[s], Under(w, h, r, s), e)
    PROVE  Turn(w, ToSession(w, sid, resp, bad), h, r, s, e)
  <1>0. s \in Objects /\ In(w, s)
    BY SidFinds
  <1>1. PICK v : v = ToSession(w, sid, resp, bad)
    OBVIOUS
  <1>2. CASE sid # resp.from /\ w.ses[s].mStatus = "eExit"
    <2>1. PICK M : M = [w.msgs EXCEPT ![resp.msg].to = @ \ {sid}]
      OBVIOUS
    <2>2. v = [w EXCEPT !.msgs = M]
      BY <1>1, <1>2, <2>1 DEF ToSession
    <2>3. Same(w, v, s) /\ v.ses = w.ses
      BY <1>0, <2>2, MsgsSame
    <2>4. Runs(v, h, s) /\ (Under(w, h, r, s) => Under(v, h, r, s))
      BY <1>0, <2>3, SameKept
    <2>5. Sound(v.ses[s], Under(v, h, r, s), e)
      BY <2>3, <2>4 DEF Sound
    <2> QED
      BY <1>1, <2>3, <2>4, <2>5 DEF Turn
  <1>3. CASE ~(sid # resp.from /\ w.ses[s].mStatus = "eExit") /\ AddSendOK(w, s, bad)
    <2>1. PICK y : y = AddSend(w, s, bad)
      OBVIOUS
    <2>2. Ready(w.ses[s], Under(w, h, r, s))
      BY DEF Ready, Sound, Posted
    <2>3. Same(w, y, s) /\ Runs(y, h, s) /\ Sending(y.ses[s], Under(y, h, r, s)) /\ Shaped(y)
      BY <1>0, <1>3, <2>1, <2>2, AddSendTurn DEF Same
    <2>4. PICK q : q = [y.ses[s] EXCEPT !.mOutList = Append(@, resp.msg)]
      OBVIOUS
    <2>5. v = [y EXCEPT !.ses[s] = q]
      BY <1>1, <1>3, <2>1, <2>4 DEF ToSession
    <2>6. /\ DOMAIN q = SessionFields /\ q.life = y.ses[s].life /\ q.mSid = y.ses[s].mSid
          /\ q.missed = y.ses[s].missed /\ q.mRunning = y.ses[s].mRunning
          /\ q.mReading = y.ses[s].mReading /\ q.recvIO = y.ses[s].recvIO
          /\ q.mWriting = y.ses[s].mWriting /\ q.sendIO = y.ses[s].sendIO
          /\ q.mStatus = y.ses[s].mStatus /\ q.mInBuffer = y.ses[s].mInBuffer
      BY <1>0, <2>3, <2>4 DEF Shaped, SessionFields
    <2>7. Same(y, v, s) /\ v.ses[s] = q
      BY <1>0, <2>3, <2>5, <2>6, PutSame
    <2>8. In(y, s)
      BY <1>0, <2>3, SameOthers
    <2>9. Runs(v, h, s) /\ (Under(y, h, r, s) => Under(v, h, r, s))
      BY <1>0, <2>3, <2>6, <2>7, <2>8, SameKept
    <2>10. Sending(q, Under(v, h, r, s))
      BY <2>3, <2>6, <2>9 DEF Sending, Ready
    <2> QED
      BY <1>0, <1>1, <2>3, <2>7, <2>9, <2>10, SameTwice, SendingSound DEF Turn
  <1>4. CASE ~(sid # resp.from /\ w.ses[s].mStatus = "eExit") /\ ~AddSendOK(w, s, bad)
    <2>1. PICK d : d = DecodeIfIdle(w, s)
      OBVIOUS
    <2>2. v = IF d.ses[s].mRunning THEN d ELSE DoError(d, s)
      BY <1>1, <1>4, <2>1 DEF ToSession
    <2>3. Settled(w, d, h, s)
      BY <1>0, <2>1, DecodeSettles
    <2>4. Same(w, d, s) /\ Shaped(d) /\ In(d, s)
      BY <1>0, <2>3, SameOthers DEF Settled, Same
    <2>5. CASE d.ses[s].mRunning
      BY <1>0, <1>1, <2>2, <2>3, <2>5, DecodeTurn
    <2>6. CASE ~d.ses[s].mRunning
      <3>1. Out(d, v, s)
        BY <1>0, <2>2, <2>4, <2>6, FailsOut
      <3> QED
        BY <1>0, <1>1, <2>4, <3>1, SameOut DEF Turn
    <2> QED
      BY <2>5, <2>6
  <1> QED
    BY <1>2, <1>3, <1>4

\* The turn of a receiver
LEMMA ResponseToServed ==
    ASSUME IocpInv, IocpServedInv, NEW sid, NEW bad, ResponseTo(sid, bad)
    PROVE  IocpServedInv'
  <1>1. PICK w, g, h, r : Now(w, g, h, r)
    BY Look
  <1>2. /\ w = World /\ w.ses = ses /\ WorldOK(w, g) /\ Shaped(w) /\ r = Waiting
        /\ \A s \in Objects : Served(w, loop, h, r, s) /\ (In(w, s) => Runs(w, h, s))
    BY <1>1 DEF Now
  <1>3. /\ loop.at = "to" /\ sid \in loop.sids /\ work' = work /\ respQ' = respQ /\ wake' = wake
    BY DEF ResponseTo
  <1>4. sid \in AnySid
    BY <1>3 DEF IocpInv, LoopOK
  <1>5. PICK v : Store(v) /\ v = ToSession(w, sid, loop.resp, bad)
    BY <1>2 DEF ResponseTo
  <1>6. loop'.at = "to" /\ loop'.resp = loop.resp
    BY LoopPlaces DEF ResponseTo
  <1>7. Waiting' = r
    BY <1>2, <1>3 DEF Waiting
  <1>8. PICK s : s = InWorld(w, sid)
    OBVIOUS
  <1>9. NULL \notin Objects
    BY IocpAssumption DEF Objects
  <1>10. Others(w, v, s) /\ (s \in Objects => Served(v, loop', h, r, s))
    <2>1. CASE s = NULL
      <3>1. PICK M : M = [w.msgs EXCEPT ![loop.resp.msg].to = @ \ {sid}]
        OBVIOUS
      <3>2. v = [w EXCEPT !.msgs = M]
        BY <1>5, <1>8, <2>1, <3>1 DEF ToSession
      <3>3. v.mgr = w.mgr /\ v.ses = w.ses /\ v.tasks = w.tasks
        BY <1>2, <3>2 DEF Shaped
      <3> QED
        BY <1>9, <2>1, <3>3, NoneMoves
    <2>2. CASE s # NULL
      <3>1. s \in Objects /\ In(w, s) /\ w.ses[s].mSid = sid
        BY <1>2, <1>4, <1>8, <2>2, SidFinds
      <3>2. Sound(w.ses[s], Under(w, h, r, s), Exempt(w, loop, s)) /\ Runs(w, h, s)
        BY <1>2, <3>1 DEF Served
      <3>3. Turn(w, v, h, r, s, Exempt(w, loop, s))
        BY <1>2, <1>4, <1>5, <1>8, <2>2, <3>2, ToTurn
      <3>4. v.ses[s].mSid = w.ses[s].mSid
        <4>1. w.ses[s].life # "unborn"
          BY <3>1 DEF In
        <4>2. Lives(w, v)
          BY <3>1, <3>3, TurnLives
        <4> QED
          BY <3>1, <4>1, <4>2 DEF Lives
      <3>5. Exempt(w, loop, s) => Exempt(v, loop', s)
        BY <1>3, <1>6, <3>4 DEF Exempt
      <3> QED
        BY <3>1, <3>3, <3>5, TurnIs
    <2> QED
      BY <2>1, <2>2
  <1>11. StillDue(w, r, Waiting', s)
    BY <1>7 DEF StillDue
  <1>12. StillExempt(w, v, loop, loop', s)
    <2>1. \A t \in Objects \ {s} : v.ses[t] = w.ses[t]
      BY <1>10 DEF Others
    <2> QED
      BY <1>3, <1>6, <2>1 DEF StillExempt, Exempt
  <1>13. WakeOK'
    BY <1>3, <1>6 DEF WakeOK, IocpServedInv
  <1> QED
    BY <1>1, <1>3, <1>5, <1>7, <1>10, <1>11, <1>12, <1>13, LoopTurn

\* A message that may be completed
LEMMA CompletedMoves ==
    ASSUME NEW w, Shaped(w), NEW m
    PROVE  /\ Completed(w, m).mgr = w.mgr /\ Completed(w, m).ses = w.ses
           /\ Completed(w, m).tasks = w.tasks /\ Shaped(Completed(w, m))
  <1>1. CASE m # 0 /\ w.msgs[m].to = {}
    <2>1. PICK M : M = [w.msgs EXCEPT ![m].completions = @ + 1]
      OBVIOUS
    <2>2. PICK v : v = [w EXCEPT !.msgs = M]
      OBVIOUS
    <2>3. Completed(w, m) = v
      BY <1>1, <2>1, <2>2 DEF Completed
    <2>4. DOMAIN v = DOMAIN w /\ v.mgr = w.mgr /\ v.ses = w.ses /\ v.tasks = w.tasks
      BY <2>2 DEF Shaped
    <2>5. Shaped(v)
      BY <2>4 DEF Shaped
    <2> QED
      BY <2>3, <2>4, <2>5
  <1>2. CASE ~(m # 0 /\ w.msgs[m].to = {})
    BY <1>2 DEF Completed
  <1> QED
    BY <1>1, <1>2

\* The exit of the sender
LEMMA ResponseExitServed ==
    ASSUME IocpInv, IocpServedInv, ResponseExit
    PROVE  IocpServedInv'
  <1>1. PICK w, g, h, r : Now(w, g, h, r)
    BY Look
  <1>2. /\ w = World /\ w.ses = ses /\ WorldOK(w, g) /\ Shaped(w) /\ r = Waiting
        /\ \A s \in Objects : Served(w, loop, h, r, s) /\ (In(w, s) => Runs(w, h, s))
    BY <1>1 DEF Now
  <1>3. loop.at = "to" /\ work' = work /\ respQ' = respQ /\ wake' = wake
    BY DEF ResponseExit
  <1>4. PICK resp : resp = loop.resp
    OBVIOUS
  <1>5. resp.from \in AnySid
    BY <1>4 DEF IocpInv, LoopOK, Responses
  <1>6. PICK x : x = Completed(w, resp.msg)
    OBVIOUS
  <1>7. x.mgr = w.mgr /\ x.ses = w.ses /\ x.tasks = w.tasks /\ Shaped(x)
    BY <1>2, <1>6, CompletedMoves
  <1>8. PICK s : s = InWorld(w, resp.from)
    OBVIOUS
  <1>9. /\ s # NULL => s \in Objects /\ In(w, s) /\ w.ses[s].mSid = resp.from
        /\ \A t \in Objects : In(w, t) /\ w.ses[t].mSid = resp.from => t = s
    <2>1. WorldOK(w, g)
      BY <1>2
    <2>2. s # NULL => s \in Objects /\ In(w, s) /\ w.ses[s].mSid = resp.from
      BY <1>5, <1>8, <2>1, SidFinds, ZenonT(40)
    <2>3. ASSUME NEW t \in Objects, In(w, t) /\ w.ses[t].mSid = resp.from PROVE t = s
      BY <1>5, <1>8, <2>1, <2>3, SidFinds, ZenonT(40)
    <2> QED
      BY <2>2, <2>3
  <1>10. PICK v : /\ Store(v)
                  /\ v = IF s # NULL /\ x.ses[s].mOutList = <<>> /\ x.ses[s].mStatus = "eExit"
                            /\ ~x.ses[s].mRunning THEN DoClose(x, s) ELSE x
    <2>1. s = InWorld(x, resp.from)
      BY <1>7, <1>8 DEF InWorld
    <2> QED
      BY <1>2, <1>4, <1>6, <2>1 DEF ResponseExit, ExitPart
  <1>11. loop'.at \in {"process", "close"}
    BY LoopPlaces DEF ResponseExit
  <1>12. Waiting' = r
    BY <1>2, <1>3 DEF Waiting
  <1>13. NULL \notin Objects
    BY IocpAssumption DEF Objects
  <1>14. Others(w, v, s) /\ (s \in Objects => Served(v, loop', h, r, s))
    <2>1. CASE s = NULL
      BY <1>7, <1>10, <1>13, <2>1, NoneMoves
    <2>2. CASE s # NULL
      <3>1. s \in Objects /\ In(w, s) /\ w.ses[s].mSid = resp.from
        BY <1>9, <2>2
      <3>2. Same(w, x, s) /\ In(x, s)
        BY <1>7, <3>1 DEF Same, In, Queued
      <3>3. Runs(x, h, s) /\ (Under(w, h, r, s) => Under(x, h, r, s))
        BY <1>2, <1>7, <3>1, <3>2, SameKept
      <3>4. Sound(w.ses[s], Under(w, h, r, s), TRUE)
        BY <1>2, <3>1 DEF Served, Sound
      <3>5. Turn(w, v, h, r, s, FALSE)
        <4>1. CASE x.ses[s].mOutList = <<>> /\ x.ses[s].mStatus = "eExit" /\ ~x.ses[s].mRunning
          <5>1. v = DoClose(x, s)
            BY <1>10, <2>2, <4>1
          <5>2. Out(x, v, s)
            BY <1>7, <3>1, <3>2, <5>1, DoCloseOut
          <5> QED
            BY <3>1, <3>2, <5>2, SameOut DEF Turn
        <4>2. CASE ~(x.ses[s].mOutList = <<>> /\ x.ses[s].mStatus = "eExit" /\ ~x.ses[s].mRunning)
          <5>1. v = x
            BY <1>10, <4>2
          <5>2. Sound(x.ses[s], Under(x, h, r, s), FALSE)
            BY <1>7, <3>3, <3>4, <4>2 DEF Sound, Posted, Runs, Under
          <5> QED
            BY <3>2, <3>3, <5>1, <5>2 DEF Turn
        <4> QED
          BY <4>1, <4>2
      <3> QED
        BY <3>1, <3>5, TurnIs
    <2> QED
      BY <2>1, <2>2
  <1>15. StillDue(w, r, Waiting', s)
    BY <1>12 DEF StillDue
  <1>16. StillExempt(w, v, loop, loop', s)
    BY <1>3, <1>4, <1>9 DEF StillExempt, Exempt
  <1>17. WakeOK'
    BY <1>3, <1>11 DEF WakeOK, IocpServedInv
  <1> QED
    BY <1>1, <1>3, <1>10, <1>12, <1>14, <1>15, <1>16, <1>17, LoopTurn

\* A session that a response closes
LEMMA CloseTurn ==
    ASSUME NEW w, Shaped(w), NEW sid, NEW bad, NEW s, s = InWorld(w, sid), s # NULL,
           s \in Objects, In(w, s), NEW h, NEW r, Runs(w, h, s),
           Sound(w.ses[s], Under(w, h, r, s), FALSE)
    PROVE  Turn(w, CloseSession(w, sid, bad), h, r, s, FALSE)
  <1>1. PICK q : q = [w.ses[s] EXCEPT !.mStatus = "eExit"]
    OBVIOUS
  <1>2. PICK u : u = [w EXCEPT !.ses[s] = q]
    OBVIOUS
  <1>3. /\ DOMAIN q = SessionFields /\ q.life = w.ses[s].life /\ q.mSid = w.ses[s].mSid
        /\ q.missed = w.ses[s].missed /\ q.mRunning = w.ses[s].mRunning
        /\ q.mReading = w.ses[s].mReading /\ q.recvIO = w.ses[s].recvIO
        /\ q.mWriting = w.ses[s].mWriting /\ q.sendIO = w.ses[s].sendIO
        /\ q.mStatus = "eExit"
    BY <1>1 DEF Shaped, SessionFields
  <1>4. Same(w, u, s) /\ u.ses[s] = q
    BY <1>2, <1>3, PutSame
  <1>5. Shaped(u) /\ In(u, s) /\ Runs(u, h, s)
    BY <1>3, <1>4, SameKept
  <1>6. Ready(q, Under(u, h, r, s))
    BY <1>3 DEF Ready, Sound, Posted
  <1>7. PICK v : v = CloseSession(w, sid, bad)
    OBVIOUS
  <1>8. v = IF AddSendOK(u, s, bad) THEN AddSend(u, s, bad)
            ELSE ErrorOrLater(DecodeIfIdle(u, s), s)
    BY <1>1, <1>2, <1>7 DEF CloseSession
  <1>9. Turn(u, v, h, r, s, FALSE)
    <2>1. CASE AddSendOK(u, s, bad)
      BY <1>4, <1>5, <1>6, <1>8, <2>1, AddSendTurn, SendingSound DEF Turn
    <2>2. CASE ~AddSendOK(u, s, bad)
      BY <1>5, <1>8, <2>2, SendAgainTurn
    <2> QED
      BY <2>1, <2>2
  <1> QED
    BY <1>4, <1>7, <1>9, SameTurn

\* The turn of a session to close
LEMMA ResponseCloseServed ==
    ASSUME IocpInv, IocpServedInv, NEW sid, NEW bad, ResponseClose(sid, bad)
    PROVE  IocpServedInv'
  <1>1. PICK w, g, h, r : Now(w, g, h, r)
    BY Look
  <1>2. /\ w = World /\ w.ses = ses /\ WorldOK(w, g) /\ Shaped(w) /\ r = Waiting
        /\ \A s \in Objects : Served(w, loop, h, r, s) /\ (In(w, s) => Runs(w, h, s))
    BY <1>1 DEF Now
  <1>3. /\ loop.at = "close" /\ sid \in loop.sids /\ work' = work /\ respQ' = respQ
        /\ wake' = wake
    BY DEF ResponseClose
  <1>4. sid \in AnySid
    BY <1>3 DEF IocpInv, LoopOK
  <1>5. PICK v : Store(v) /\ v = CloseSession(w, sid, bad)
    BY <1>2 DEF ResponseClose
  <1>6. loop'.at \in {"process", "close"}
    BY LoopPlaces DEF ResponseClose
  <1>7. Waiting' = r
    BY <1>2, <1>3 DEF Waiting
  <1>8. PICK s : s = InWorld(w, sid)
    OBVIOUS
  <1>9. NULL \notin Objects
    BY IocpAssumption DEF Objects
  <1>10. \A t : ~Exempt(w, loop, t)
    BY <1>3, NotExempt
  <1>11. Others(w, v, s) /\ (s \in Objects => Served(v, loop', h, r, s))
    <2>1. CASE s = NULL
      <3>1. v = w
        BY <1>5, <1>8, <2>1 DEF CloseSession
      <3> QED
        BY <1>9, <2>1, <3>1, NoneMoves
    <2>2. CASE s # NULL
      <3>1. s \in Objects /\ In(w, s)
        BY <1>2, <1>4, <1>8, <2>2, SidFinds
      <3>2. Sound(w.ses[s], Under(w, h, r, s), FALSE) /\ Runs(w, h, s)
        BY <1>2, <1>10, <3>1 DEF Served, Sound
      <3>3. Turn(w, v, h, r, s, FALSE)
        BY <1>2, <1>5, <1>8, <2>2, <3>1, <3>2, CloseTurn
      <3> QED
        BY <3>1, <3>3, TurnIs
    <2> QED
      BY <2>1, <2>2
  <1>12. StillDue(w, r, Waiting', s)
    BY <1>7 DEF StillDue
  <1>13. StillExempt(w, v, loop, loop', s)
    BY <1>10 DEF StillExempt
  <1>14. WakeOK'
    BY <1>3, <1>6 DEF WakeOK, IocpServedInv
  <1> QED
    BY <1>1, <1>3, <1>5, <1>7, <1>11, <1>12, <1>13, <1>14, LoopTurn

-----------------------------------------------------------------------------
(* onAccept *)

\* The record of a session that was just accepted
Fresh(q) ==
    /\ DOMAIN q = SessionFields /\ q.life = "live" /\ q.mStatus = "eNormal"
    /\ q.mRunning = FALSE /\ q.mReading = FALSE /\ q.mWriting = FALSE
    /\ q.recvIO = FALSE /\ q.sendIO = FALSE /\ q.mOutList = <<>> /\ q.missed = FALSE
    /\ q.mInBuffer = 0

\* What onAccept makes
LEMMA FreshIs ==
    ASSUME NEW sid
    PROVE  /\ Fresh([NewSession EXCEPT !.life = "live", !.mSid = sid])
           /\ [NewSession EXCEPT !.life = "live", !.mSid = sid].mSid = sid
  BY DEF Fresh, NewSession, SessionFields

\* The new session s enters the table.
Born(w, n, s) == Shaped(n) /\ Others(w, n, s) /\ In(n, s) /\ Fresh(n.ses[s])

\* The session that onAccept puts in the table
LEMMA AddSessionBorn ==
    ASSUME NEW w, Shaped(w), NEW s \in Objects, w.ses[s].life = "unborn",
           AllocKeyOf(w.mgr) # 0, NEW sid, sid.mKey = AllocKeyOf(w.mgr)
    PROVE  Born(w, AddSession([w EXCEPT !.mgr = Put(AllocKey(w.mgr), sid.mKey, s)], s, sid), s)
  <1>1. PICK P : P = Put(AllocKey(w.mgr), sid.mKey, s)
    OBVIOUS
  <1>2. NULL \notin Objects
    BY IocpAssumption DEF Objects
  <1>3. /\ TableOK(P, Objects) /\ sid.mKey \in Keys /\ P.mSession[sid.mKey] = s
        /\ \A k \in Keys : k # sid.mKey => P.mSession[k] = w.mgr.mSession[k]
    BY <1>1, <1>2, AllocPut DEF Shaped
  <1>4. PICK q : q = [NewSession EXCEPT !.life = "live", !.mSid = sid]
    OBVIOUS
  <1>5. Fresh(q) /\ q.mSid = sid
    BY <1>4, FreshIs, Zenon
  <1>6. PICK x : x = [w EXCEPT !.mgr = P]
    OBVIOUS
  <1>7. PICK v : v = [x EXCEPT !.ses[s] = q]
    OBVIOUS
  <1>8. /\ DOMAIN x = {"mgr", "ses", "msgs", "tasks"} /\ x.mgr = P /\ x.ses = w.ses
        /\ x.tasks = w.tasks
    BY <1>6 DEF Shaped
  <1>9. /\ DOMAIN v = {"mgr", "ses", "msgs", "tasks"} /\ v.mgr = P
        /\ v.ses = [w.ses EXCEPT ![s] = q] /\ v.tasks = w.tasks
    BY <1>7, <1>8
  <1>10. DOMAIN v.ses = Objects /\ v.ses[s] = q /\ \A t \in Objects : t # s => v.ses[t] = w.ses[t]
    BY <1>9 DEF Shaped
  <1>11. Shaped(v)
    BY <1>3, <1>5, <1>9, <1>10 DEF Shaped, Fresh
  <1>12. In(v, s)
    BY <1>3, <1>5, <1>9, <1>10 DEF In, Fresh
  <1>13. ASSUME NEW t \in Objects, t # s, In(v, t)
         PROVE  In(w, t)
    <2>1. w.ses[t].life = "live" /\ w.ses[t].mSid.mKey \in Keys /\ v.ses[t] = w.ses[t]
      BY <1>10, <1>13 DEF In, Shaped
    <2>2. P.mSession[w.ses[t].mSid.mKey] = t
      BY <1>9, <1>13, <2>1 DEF In
    <2>3. w.mgr.mSession[w.ses[t].mSid.mKey] = t
      BY <1>3, <1>13, <2>1, <2>2
    <2> QED
      BY <2>1, <2>3 DEF In
  <1>14. Lives(w, v)
    BY <1>10 DEF Lives
  <1>15. Others(w, v, s)
    BY <1>9, <1>10, <1>13, <1>14 DEF Others, Queued
  <1>16. AddSession(x, s, sid) = v
    BY <1>4, <1>7 DEF AddSession
  <1> QED
    BY <1>1, <1>5, <1>6, <1>10, <1>11, <1>12, <1>15, <1>16 DEF Born

\* What is then done to the new session
LEMMA BornServed ==
    ASSUME NEW w, NEW n, NEW v, NEW s \in Objects, Born(w, n, s), w.ses[s].life = "unborn",
           Same(n, v, s), NEW h, NEW r, NEW l, Sound(v.ses[s], Under(v, h, r, s), FALSE)
    PROVE  Others(w, v, s) /\ Served(v, l, h, r, s)
  <1>1. Others(w, n, s) /\ Others(n, v, s)
    BY SameOthers DEF Born
  <1>2. \A t \in Objects : t # s => v.ses[t] = w.ses[t] /\ (In(v, t) => In(w, t))
    BY <1>1 DEF Others
  <1>3. Lives(w, v)
    BY <1>1 DEF Others, Lives
  <1>4. \A t \in Objects : Queued(w, t) => Queued(v, t)
    BY <1>1 DEF Others
  <1>5. Served(v, l, h, r, s)
    BY DEF Served, Sound
  <1> QED
    BY <1>2, <1>3, <1>4, <1>5 DEF Others

\* addSession fails.
LEMMA ReturnOut ==
    ASSUME NEW w, Shaped(w), NEW s \in Objects, w.ses[s].life = "unborn",
           AllocKeyOf(w.mgr) # 0, NEW key, key = AllocKeyOf(w.mgr)
    PROVE  LET v == [w EXCEPT !.mgr = Remove(AllocKey(w.mgr), key), !.ses[s].life = "deleted"]
           IN  Others(w, v, s) /\ ~In(v, s)
  <1>1. PICK P : P = Remove(AllocKey(w.mgr), key)
    OBVIOUS
  <1>2. NULL \notin Objects
    BY IocpAssumption DEF Objects
  <1>3. \A k \in Keys : P.mSession[k] = w.mgr.mSession[k]
    BY <1>1, <1>2, AllocRemove DEF Shaped
  <1>4. PICK q : q = [w.ses[s] EXCEPT !.life = "deleted"]
    OBVIOUS
  <1>5. q.life = "deleted"
    BY <1>4 DEF Shaped, SessionFields
  <1>6. PICK v : v = [w EXCEPT !.mgr = P, !.ses[s].life = "deleted"]
    OBVIOUS
  <1>7. v.mgr = P /\ v.ses = [w.ses EXCEPT ![s] = q] /\ v.tasks = w.tasks
    BY <1>4, <1>6 DEF Shaped
  <1>8. v.ses[s] = q /\ \A t \in Objects : t # s => v.ses[t] = w.ses[t]
    BY <1>7 DEF Shaped
  <1>9. ~In(v, s)
    BY <1>5, <1>8 DEF In
  <1>10. ASSUME NEW t \in Objects, t # s, In(v, t)
         PROVE  In(w, t)
    <2>1. w.ses[t].life = "live" /\ w.ses[t].mSid.mKey \in Keys /\ v.ses[t] = w.ses[t]
      BY <1>8, <1>10 DEF In, Shaped
    <2>2. w.mgr.mSession[w.ses[t].mSid.mKey] = t
      BY <1>3, <1>7, <1>10, <2>1 DEF In
    <2> QED
      BY <2>1, <2>2 DEF In
  <1>11. Lives(w, v)
    BY <1>8 DEF Lives
  <1>12. Others(w, v, s)
    BY <1>7, <1>8, <1>10, <1>11 DEF Others, Queued
  <1> QED
    BY <1>1, <1>6, <1>9, <1>12

\* The refusal concerns the new session only.
LEMMA RefuseSame ==
    ASSUME NEW n, Shaped(n), NEW s \in Objects
    PROVE  /\ Same(n, Refuse(n, s), s)
           /\ Refuse(n, s).ses[s] = [n.ses[s] EXCEPT !.mOutList = <<RefusedMsg(s)>>,
                                                     !.mStatus = "eExit"]
  <1>1. PICK r : r = n.ses[s]
    OBVIOUS
  <1>2. PICK q : q = [r EXCEPT !.mOutList = <<RefusedMsg(s)>>, !.mStatus = "eExit"]
    OBVIOUS
  <1>3. DOMAIN q = SessionFields /\ q.mSid = r.mSid /\ q.life = r.life
    BY <1>1, <1>2 DEF Shaped, SessionFields
  <1>4. PICK u : u = [n EXCEPT !.ses[s] = q]
    OBVIOUS
  <1>5. Same(n, u, s) /\ u.ses[s] = q
    BY <1>1, <1>3, <1>4, PutSame
  <1>6. PICK M : M = [u.msgs EXCEPT ![RefusedMsg(s)].made = TRUE]
    OBVIOUS
  <1>7. PICK v : v = [u EXCEPT !.msgs = M]
    OBVIOUS
  <1>8. Shaped(u)
    BY <1>5 DEF Same
  <1>9. Same(u, v, s) /\ v.ses = u.ses
    BY <1>7, <1>8, MsgsSame
  <1>10. Same(n, v, s)
    BY <1>5, <1>9, SameTwice
  <1>11. DOMAIN u = {"mgr", "ses", "msgs", "tasks"}
    BY <1>8 DEF Shaped
  <1>12. Refuse(n, s) = v
    <2>1. v = [u EXCEPT !.msgs[RefusedMsg(s)].made = TRUE]
      BY <1>6, <1>7, <1>11
    <2> QED
      BY <1>1, <1>2, <1>4, <2>1 DEF Refuse
  <1> QED
    BY <1>1, <1>2, <1>5, <1>9, <1>10, <1>12

\* The refused session d: the WSASend that is to carry the refusal may fail, which is
\* then known of the session only (missed).
LEMMA RefusedTurn ==
    ASSUME NEW d, Shaped(d), NEW s \in Objects, NEW h, NEW r, NEW bad, ~d.ses[s].mRunning,
           Ready(d.ses[s], Under(d, h, r, s)), ~d.ses[s].missed,
           NEW v, v = [AddSend(d, s, bad) EXCEPT !.ses[s].missed = s \in bad]
    PROVE  Same(d, v, s) /\ Sound(v.ses[s], Under(v, h, r, s), FALSE)
  <1>1. PICK x : x = AddSend(d, s, bad)
    OBVIOUS
  <1>2. PICK p : p = x.ses[s]
    OBVIOUS
  <1>3. PICK q : q = [p EXCEPT !.missed = s \in bad]
    OBVIOUS
  <1>4. v = [x EXCEPT !.ses[s] = q]
    BY <1>1, <1>2, <1>3
  <1>5. Same(d, x, s) /\ (s \notin bad => Sending(p, Under(x, h, r, s)) /\ p.missed = FALSE)
    <2>1. Runs(d, h, s)
      BY DEF Runs
    <2>2. CASE s \in bad
      <3>1. x = DecodeIfIdle(d, s) \/ AddSendOK(d, s, bad)
        BY <1>1, <2>2 DEF AddSend
      <3>2. Same(d, DecodeIfIdle(d, s), s)
        BY <2>1, DecodeSettles DEF Settled
      <3>3. AddSendOK(d, s, bad) => Same(d, x, s)
        BY <1>1, <2>1, AddSendTurn
      <3> QED
        BY <2>2, <3>1, <3>2, <3>3
    <2>3. CASE s \notin bad
      <3>1. AddSendOK(d, s, bad)
        BY <2>3 DEF AddSendOK
      <3> QED
        BY <1>1, <1>2, <2>1, <3>1, AddSendTurn
    <2> QED
      BY <2>2, <2>3
  <1>6. Shaped(x) /\ DOMAIN p = SessionFields
    BY <1>2, <1>5 DEF Same, Shaped
  <1>7. DOMAIN q = SessionFields /\ q.mSid = p.mSid /\ q.life = p.life
    BY <1>3, <1>6 DEF SessionFields
  <1>8. /\ q.missed = (s \in bad) /\ q.mStatus = p.mStatus /\ q.mInBuffer = p.mInBuffer
        /\ q.mReading = p.mReading /\ q.recvIO = p.recvIO
        /\ q.mWriting = p.mWriting /\ q.sendIO = p.sendIO
    BY <1>3, <1>6 DEF SessionFields
  <1>9. Same(x, v, s) /\ v.ses[s] = q
    <2>1. PICK u : u = [x EXCEPT !.ses[s] = q]
      OBVIOUS
    <2>2. Same(x, u, s) /\ u.ses[s] = q
      BY <1>2, <1>6, <1>7, <2>1, PutSame
    <2>3. u = v
      BY <1>4, <2>1, Zenon
    <2> QED
      BY <2>2, <2>3
  <1>10. Same(d, v, s)
    BY <1>5, <1>9, SameTwice
  <1>11. Under(x, h, r, s) => Under(v, h, r, s)
    BY <1>9, UnderSame
  <1>12. Sound(q, Under(v, h, r, s), FALSE)
    <2>1. CASE s \in bad
      BY <1>8, <2>1 DEF Sound
    <2>2. CASE s \notin bad
      <3>1. Sending(q, Under(x, h, r, s))
        BY <1>5, <1>8, <2>2 DEF Sending, Ready
      <3>2. Sound(q, Under(x, h, r, s), FALSE)
        BY <3>1, SendingSound
      <3> QED
        BY <1>11, <3>2 DEF Sound
    <2> QED
      BY <2>1, <2>2
  <1> QED
    BY <1>9, <1>10, <1>12

\* onAccept: the session is not added, refused or started.
LEMMA OnAcceptServed ==
    ASSUME IocpInv, IocpServedInv, NEW s \in Objects, NEW fail, NEW bad, OnAccept(s, fail, bad)
    PROVE  IocpServedInv'
  <1>1. PICK w, g, h, r : Now(w, g, h, r)
    BY Look
  <1>2. w = World /\ w.mgr = mgr /\ w.ses = ses /\ w.msgs = msgs /\ w.tasks = tasks /\ Shaped(w)
    BY <1>1 DEF Now
  <1>3. loop' = loop /\ work' = work /\ respQ' = respQ /\ wake' = wake /\ loop = Poll
    BY DEF OnAccept
  <1>4. w.ses[s].life = "unborn" /\ AllocKeyOf(w.mgr) # 0
    BY <1>2 DEF OnAccept
  <1>5. PICK sid : sid = [mKey |-> AllocKeyOf(mgr), mSeq |-> AllocSeqOf(mgr)]
    OBVIOUS
  <1>6. sid.mKey = AllocKeyOf(w.mgr)
    BY <1>2, <1>5
  <1>7. PICK n : n = AddSession([w EXCEPT !.mgr = Put(AllocKey(mgr), sid.mKey, s)], s, sid)
    OBVIOUS
  <1>8. Born(w, n, s)
    BY <1>2, <1>4, <1>6, <1>7, AddSessionBorn
  <1>9. Shaped(n) /\ Fresh(n.ses[s])
    BY <1>8 DEF Born
  <1>10. PICK a, b, c :
            /\ a = [w EXCEPT !.mgr = Remove(AllocKey(mgr), sid.mKey), !.ses[s].life = "deleted"]
            /\ b = [AddSend(Refuse(n, s), s, bad) EXCEPT !.ses[s].missed = s \in bad]
            /\ c = DoStart(n, s)
    OBVIOUS
  <1>11. Store(a) \/ Store(b) \/ Store(c)
    <2>1. \/ Store([w EXCEPT !.mgr = Remove(AllocKey(mgr), sid.mKey), !.ses[s].life = "deleted"])
          \/ Store([AddSend(Refuse(n, s), s, bad) EXCEPT !.ses[s].missed = s \in bad])
          \/ Store(DoStart(n, s))
      BY <1>2, <1>5, <1>7, ZenonT(40) DEF OnAccept, Refuse
    <2> QED
      BY <1>10, <2>1
  <1>12. PICK v : Store(v) /\ v \in {a, b, c}
    BY <1>11
  <1>13. Others(w, v, s) /\ Served(v, loop', h, r, s)
    <2>1. CASE v = a
      <3>1. Others(w, v, s) /\ ~In(v, s)
        BY <1>2, <1>4, <1>6, <1>10, <2>1, ReturnOut
      <3> QED
        BY <3>1 DEF Served
    <2>2. CASE v = b
      <3>1. PICK d : d = Refuse(n, s)
        OBVIOUS
      <3>2. /\ Same(n, d, s)
            /\ d.ses[s] = [n.ses[s] EXCEPT !.mOutList = <<RefusedMsg(s)>>, !.mStatus = "eExit"]
        BY <1>9, <3>1, RefuseSame
      <3>3. /\ d.ses[s].mRunning = FALSE /\ d.ses[s].missed = FALSE
            /\ Ready(d.ses[s], Under(d, h, r, s)) /\ Shaped(d)
        <4>1. PICK p, q : p = n.ses[s] /\ q = d.ses[s]
          OBVIOUS
        <4>2. /\ q.mRunning = FALSE /\ q.missed = FALSE /\ q.mStatus = "eExit"
              /\ q.mReading = FALSE /\ q.recvIO = FALSE /\ q.mWriting = FALSE
              /\ q.sendIO = FALSE
          BY <1>9, <3>2, <4>1 DEF Fresh, SessionFields
        <4>3. Ready(q, Under(d, h, r, s))
          BY <4>2 DEF Ready
        <4> QED
          BY <3>2, <4>1, <4>2, <4>3 DEF Same
      <3>4. Same(d, v, s) /\ Sound(v.ses[s], Under(v, h, r, s), FALSE)
        BY <1>10, <2>2, <3>1, <3>3, RefusedTurn
      <3>5. Same(n, v, s)
        BY <3>2, <3>4, SameTwice
      <3> QED
        BY <1>4, <1>8, <3>4, <3>5, BornServed
    <2>3. CASE v = c
      <3>1. PICK q : q = [n.ses[s] EXCEPT !.mRunning = TRUE]
        OBVIOUS
      <3>2. /\ DOMAIN q = SessionFields /\ q.mSid = n.ses[s].mSid /\ q.life = n.ses[s].life
            /\ Posted(q)
        BY <1>9, <3>1 DEF Fresh, SessionFields, Posted
      <3>3. PICK x : x = [n EXCEPT !.ses[s] = q]
        OBVIOUS
      <3>4. Same(n, x, s) /\ x.ses[s] = q
        BY <1>9, <3>2, <3>3, PutSame
      <3>5. v = AddTask(x, "start", s)
        BY <1>10, <2>3, <3>1, <3>3 DEF DoStart
      <3>6. "start" \in HandlerKinds \cup FinalKinds /\ Shaped(x)
        BY <3>4 DEF HandlerKinds, Same
      <3>7. Same(x, v, s) /\ v.ses = x.ses /\ Queued(v, s)
        BY <3>5, <3>6, AddTaskEffect
      <3>8. Same(n, v, s)
        BY <3>4, <3>7, SameTwice
      <3>9. Sound(v.ses[s], Under(v, h, r, s), FALSE)
        BY <3>2, <3>4, <3>7 DEF Sound, Under, Used
      <3> QED
        BY <1>4, <1>8, <3>8, <3>9, BornServed
    <2> QED
      BY <1>12, <2>1, <2>2, <2>3
  <1> QED
    BY <1>1, <1>3, <1>12, <1>13, PollStep

-----------------------------------------------------------------------------
(* The steps of the threads *)

\* What a step of a thread leaves in the record of a session
Ports(p, q) ==
    /\ q.life = p.life /\ q.mSid = p.mSid /\ q.missed = p.missed
    /\ q.mReading = p.mReading /\ q.recvIO = p.recvIO
    /\ q.mWriting = p.mWriting /\ q.sendIO = p.sendIO /\ q.mOutList = p.mOutList

\* The other sessions stay, and their tasks.
Moved(w, v, s) ==
    /\ \A u \in Objects : u # s => v.ses[u] = w.ses[u] /\ (Queued(w, u) => Queued(v, u))
    /\ Ports(w.ses[s], v.ses[s])

\* A thread that was at y is at x, with the session s.
Grasp(w, y, x, s) ==
    /\ y.pc # "idle" => y.s = s
    /\ x.pc # "idle" => x.s = s /\ w.ses[s].life # "unborn"
    /\ x.pc \in {"status", "unrun", "push"} => x.resp.from = w.ses[s].mSid

\* From one task to the next a thread has at most one session in its hands.
LEMMA HandsMove ==
    ASSUME IocpInv, NEW t \in Threads, NEW x, work' = [work EXCEPT ![t] = x]
    PROVE  /\ DOMAIN work = Threads /\ work'[t] = x
           /\ \A o \in Threads : o # t => work'[o] = work[o]
           /\ x.pc # "idle" => x.s \in Hands'
           /\ \A s \in Hands : (work[t].pc # "idle" => work[t].s # s) => s \in Hands'
  <1>1. DOMAIN work = Threads
    BY DEF IocpInv
  <1>2. work'[t] = x /\ \A o \in Threads : o # t => work'[o] = work[o]
    BY <1>1
  <1>3. x.pc # "idle" => x.s \in Hands'
    BY <1>2 DEF Hands
  <1>4. ASSUME NEW s \in Hands, work[t].pc # "idle" => work[t].s # s
        PROVE  s \in Hands'
    <2>1. PICK o \in Threads : work[o].pc # "idle" /\ work[o].s = s
      BY DEF Hands
    <2>2. work'[o] = work[o]
      BY <1>2, <1>4, <2>1
    <2> QED
      BY <2>1, <2>2 DEF Hands
  <1> QED
    BY <1>1, <1>2, <1>3, <1>4

\* A step of the thread t that is about the session s
LEMMA ThreadTurn ==
    ASSUME IocpInv, IocpServedInv, NEW w, NEW g, NEW h, NEW r, Now(w, g, h, r),
           NEW v, v.mgr = mgr', v.ses = ses', v.tasks = tasks', mgr' = mgr, loop' = loop,
           NEW t \in Threads, NEW x, work' = [work EXCEPT ![t] = x], NEW s \in Objects,
           Moved(w, v, s), Grasp(w, work[t], x, s), In(w, s) => Under(v, Hands', Waiting', s),
           \A y \in r : y \in Waiting', WakeOK'
    PROVE  IocpServedInv'
  <1>1. /\ w.mgr = mgr /\ w.ses = ses /\ w.tasks = tasks /\ h = Hands /\ r = Waiting
        /\ \A u \in Objects : Served(w, loop, h, r, u)
    BY DEF Now
  <1>2. /\ work'[t] = x /\ \A o \in Threads : o # t => work'[o] = work[o]
        /\ \A u \in Hands : (work[t].pc # "idle" => work[t].s # u) => u \in Hands'
    BY HandsMove
  <1>0. /\ \A u \in Objects : u # s => v.ses[u] = w.ses[u] /\ (Queued(w, u) => Queued(v, u))
        /\ Ports(w.ses[s], v.ses[s])
        /\ work[t].pc # "idle" => work[t].s = s
        /\ x.pc # "idle" => x.s = s /\ w.ses[s].life # "unborn"
        /\ x.pc \in {"status", "unrun", "push"} => x.resp.from = w.ses[s].mSid
    BY DEF Moved, Grasp
  <1>3. ASSUME NEW u \in Objects
        PROVE  /\ v.ses[u].life = w.ses[u].life /\ v.ses[u].mSid = w.ses[u].mSid
               /\ In(v, u) => In(w, u)
               /\ Exempt(v, loop', u) <=> Exempt(w, loop, u)
    <2>1. v.ses[u].life = w.ses[u].life /\ v.ses[u].mSid = w.ses[u].mSid
      BY <1>0 DEF Ports
    <2> QED
      BY <1>1, <2>1 DEF In, Exempt
  <1>4. ASSUME NEW u \in Objects, u # s
        PROVE  Served(v, loop', Hands', Waiting', u)
    <2>1. v.ses[u] = w.ses[u] /\ (Queued(w, u) => Queued(v, u))
      BY <1>0, <1>4
    <2>2. u \in h => u \in Hands'
      BY <1>0, <1>1, <1>2, <1>4
    <2>3. w.ses[u].mSid \in r => v.ses[u].mSid \in Waiting'
      BY <2>1
    <2>4. Under(w, h, r, u) => Under(v, Hands', Waiting', u)
      BY <2>1, <2>2, <2>3 DEF Under, Used
    <2>5. Served(w, loop, h, r, u)
      BY <1>1
    <2> QED
      BY <1>3, <2>1, <2>4, <2>5 DEF Served, Sound
  <1>5. Served(v, loop', Hands', Waiting', s)
    <2>1. Served(w, loop, h, r, s)
      BY <1>1
    <2>2. Posted(w.ses[s]) => Posted(v.ses[s])
      BY <1>0 DEF Ports, Posted
    <2> QED
      BY <1>0, <1>3, <2>1, <2>2 DEF Served, Sound, Ports
  <1>6. PICK z : z = World'
    OBVIOUS
  <1>7. AllServed(World', loop', Hands', Waiting')
    <2>1. AllServed(v, loop', Hands', Waiting')
      BY <1>4, <1>5 DEF AllServed
    <2>2. z.mgr = v.mgr /\ z.ses = v.ses /\ z.tasks = v.tasks
      BY <1>6 DEF World
    <2>3. AllServed(z, loop', Hands', Waiting')
      BY <2>1, <2>2 DEF AllServed, Served, Sound, In, Under, Used, Queued, Exempt
    <2> QED
      BY <1>6, <2>3
  <1>8. HandsOK'
    <2>1. ASSUME NEW o \in Threads, o # t, work[o].pc # "idle"
          PROVE  work[o].s \in Objects
      <3>1. work[o] # Idle
        BY <2>1 DEF Idle
      <3> QED
        BY <3>1 DEF IocpInv, IsWork
    <2>2. \A u \in Objects : ses'[u].life = ses[u].life /\ ses'[u].mSid = ses[u].mSid
      BY <1>1, <1>3
    <2>3. HandsOK
      BY DEF IocpServedInv
    <2>4. ASSUME NEW o \in Threads, o # t, work'[o].pc # "idle"
          PROVE  /\ ses'[work'[o].s].life # "unborn"
                 /\ work'[o].pc \in {"status", "unrun", "push"} =>
                       work'[o].resp.from = ses'[work'[o].s].mSid
      <3>1. work'[o] = work[o] /\ work[o].s \in Objects
        BY <1>2, <2>1, <2>4
      <3> QED
        BY <2>2, <2>3, <2>4, <3>1 DEF HandsOK
    <2>5. x.pc # "idle" => /\ ses'[x.s].life # "unborn"
                           /\ x.pc \in {"status", "unrun", "push"} => x.resp.from = ses'[x.s].mSid
      BY <1>0, <1>1, <2>2
    <2> QED
      BY <1>2, <2>4, <2>5 DEF HandsOK
  <1> QED
    BY <1>7, <1>8 DEF IocpServedInv

\* A queued task is one of a session that was accepted.
LEMMA QueuedLive ==
    ASSUME NEW w, NEW g, WorldOK(w, g), NEW i \in DOMAIN w.tasks, DOMAIN g = Threads
    PROVE  w.tasks[i].s \in Objects /\ w.ses[w.tasks[i].s].life # "unborn"
  <1>1. w.tasks \in Seq(Tasks)
    BY DEF WorldOK, WorldTyped
  <1>2. PICK z \in Tasks : z = w.tasks[i]
    BY <1>1
  <1>3. PICK s \in Objects : s = z.s
    BY DEF Tasks
  <1>4. /\ Count(w.tasks, HandlerTasks(s)) \in Nat /\ Count(w.tasks, FinalTasks(s)) \in Nat
        /\ Count(g, {<<"handler", s>>}) \in Nat /\ Count(g, {<<"final", s>>}) \in Nat
        /\ Flag(w.ses[s].freePosted) \in Nat
    <2>1. Flag(w.ses[s].freePosted) \in Nat
      BY DEF Flag
    <2> QED
      BY <1>1, <2>1, CountSeqType, GripsFinite
  <1>5. SessionOK(w, g, s)
    BY DEF WorldOK
  <1>6. ASSUME w.ses[s].life = "unborn" PROVE FALSE
    <2>1. ~In(w, s)
      BY <1>6 DEF In
    <2>2. HandlerUses(w, g, s) = 0 /\ FinalUses(w, g, s) = 0
      BY <1>5, <1>6, <2>1 DEF SessionOK
    <2>3. Count(w.tasks, HandlerTasks(s)) = 0 /\ Count(w.tasks, FinalTasks(s)) = 0
      BY <1>4, <2>2 DEF HandlerUses, FinalUses
    <2>4. /\ IsFiniteSet(Places(w.tasks, HandlerTasks(s)))
          /\ IsFiniteSet(Places(w.tasks, FinalTasks(s)))
      BY <1>1, CountSeqType
    <2>5. z \notin HandlerTasks(s) /\ z \notin FinalTasks(s)
      BY <1>2, <2>3, <2>4, CountZero
    <2>6. z.kind \in HandlerKinds \cup FinalKinds /\ z = [kind |-> z.kind, s |-> s]
      BY <1>3 DEF Tasks
    <2> QED
      BY <2>5, <2>6 DEF HandlerTasks, FinalTasks
  <1> QED
    BY <1>2, <1>3, <1>6

\* The queue without its first task
LEMMA TailQueued ==
    ASSUME NEW w, w.tasks \in Seq(Tasks), w.tasks # <<>>, NEW v, v.tasks = Tail(w.tasks),
           NEW u, u # Head(w.tasks).s, Queued(w, u)
    PROVE  Queued(v, u)
  <1>1. PICK i \in DOMAIN w.tasks : w.tasks[i].s = u
    BY DEF Queued
  <1>2. /\ Head(w.tasks) = w.tasks[1] /\ Len(w.tasks) \in Nat /\ i \in 1 .. Len(w.tasks)
        /\ v.tasks \in Seq(Tasks) /\ Len(v.tasks) = Len(w.tasks) - 1
        /\ \A j \in 1 .. Len(v.tasks) : v.tasks[j] = w.tasks[j + 1]
    BY <1>1, HeadTailProperties, LenProperties
  <1>3. i - 1 \in 1 .. Len(v.tasks)
    BY <1>1, <1>2
  <1>4. v.tasks[i - 1] = w.tasks[i] /\ i - 1 \in DOMAIN v.tasks
    BY <1>2, <1>3
  <1> QED
    BY <1>1, <1>4 DEF Queued

\* A task goes from the queue into the hands of a thread.
LEMMA TakeTaskServed ==
    ASSUME IocpInv, IocpServedInv, NEW t \in Threads, TakeTask(t)
    PROVE  IocpServedInv'
  <1>1. PICK w, g, h, r : Now(w, g, h, r)
    BY Look
  <1>2. /\ w.mgr = mgr /\ w.ses = ses /\ w.tasks = tasks /\ WorldOK(w, g) /\ r = Waiting
    BY <1>1 DEF Now
  <1>3. /\ work[t].pc = "idle" /\ tasks # <<>> /\ tasks' = Tail(tasks) /\ mgr' = mgr
        /\ ses' = ses /\ respQ' = respQ /\ wake' = wake /\ loop' = loop
    BY DEF TakeTask
  <1>4. PICK x : /\ work' = [work EXCEPT ![t] = x] /\ x.s = Head(tasks).s
                 /\ x.pc \in {"free", "handle"}
    <2>1. PICK x : x = [Idle EXCEPT !.kind = Head(tasks).kind, !.s = Head(tasks).s,
                          !.pc = IF Head(tasks).kind = "close" THEN "free" ELSE "handle"]
      OBVIOUS
    <2>2. x.s = Head(tasks).s /\ x.pc \in {"free", "handle"}
      BY <2>1 DEF Idle
    <2>3. work' = [work EXCEPT ![t] = x]
      BY <2>1, Zenon DEF TakeTask
    <2> QED
      BY <2>2, <2>3
  <1>5. PICK s : s = x.s
    OBVIOUS
  <1>6. w.tasks \in Seq(Tasks)
    BY <1>2 DEF WorldOK, WorldTyped
  <1>7. s \in Objects /\ w.ses[s].life # "unborn"
    <2>1. 1 \in DOMAIN w.tasks /\ w.tasks[1] = Head(tasks)
      BY <1>2, <1>3, <1>6
    <2> QED
      <3>1. PICK f : f = Grips
        OBVIOUS
      <3>2. WorldOK(w, f) /\ DOMAIN f = Threads
        BY <1>1, <3>1 DEF IocpInv, Good, Now
      <3> QED
        BY <1>4, <1>5, <2>1, <3>2, QueuedLive
  <1>8. PICK v : v = [mgr |-> mgr', ses |-> ses', msgs |-> msgs', tasks |-> tasks']
    OBVIOUS
  <1>9. /\ v.mgr = mgr' /\ v.ses = ses' /\ v.tasks = tasks' /\ v.ses = w.ses
        /\ v.tasks = Tail(w.tasks)
    BY <1>2, <1>3, <1>8
  <1>10. \A u \in Objects : u # s => v.ses[u] = w.ses[u] /\ (Queued(w, u) => Queued(v, u))
    BY <1>2, <1>3, <1>4, <1>5, <1>6, <1>9, TailQueued
  <1>11. Under(v, Hands', Waiting', s)
    BY <1>4, <1>5, HandsMove DEF Under, Used
  <1>12. \A y \in r : y \in Waiting'
    BY <1>2, <1>3 DEF Waiting
  <1>13. WakeOK'
    BY <1>3 DEF WakeOK, IocpServedInv
  <1>14. Moved(w, v, s)
    BY <1>9, <1>10 DEF Moved, Ports
  <1>15. Grasp(w, work[t], x, s)
    BY <1>3, <1>4, <1>5, <1>7 DEF Grasp
  <1> QED
    BY <1>1, <1>3, <1>4, <1>7, <1>9, <1>11, <1>12, <1>13, <1>14, <1>15, ThreadTurn

\* A step that keeps s in the hands of the thread t and assigns fields of s that are
\* about neither its requests nor its messages
LEMMA HeldServed ==
    ASSUME IocpInv, IocpServedInv, NEW t \in Threads, NEW y, y = work[t], y.pc # "idle",
           NEW x, work' = [work EXCEPT ![t] = x], x.pc # "idle", x.s = y.s,
           x.pc \in {"status", "unrun", "push"} => x.resp.from = ses[y.s].mSid,
           NEW q, ses' = [ses EXCEPT ![y.s] = q], Ports(ses[y.s], q),
           mgr' = mgr, tasks' = tasks, respQ' = respQ, wake' = wake, loop' = loop
    PROVE  IocpServedInv'
  <1>1. PICK w, g, h, r : Now(w, g, h, r)
    BY Look
  <1>2. /\ w.mgr = mgr /\ w.ses = ses /\ w.tasks = tasks /\ r = Waiting /\ DOMAIN w.ses = Objects
    BY <1>1 DEF Now, Shaped
  <1>3. PICK s \in Objects : s = y.s
    BY WorkIs
  <1>4. PICK v : v = [mgr |-> mgr', ses |-> ses', msgs |-> msgs', tasks |-> tasks']
    OBVIOUS
  <1>5. /\ v.mgr = mgr' /\ v.ses = ses' /\ v.tasks = tasks' /\ v.tasks = w.tasks
        /\ v.ses[s] = q /\ \A u \in Objects : u # s => v.ses[u] = w.ses[u]
    BY <1>2, <1>3, <1>4
  <1>6. Moved(w, v, s)
    BY <1>2, <1>3, <1>5 DEF Moved, Queued
  <1>7. Grasp(w, work[t], x, s)
    <2>1. HandsOK
      BY DEF IocpServedInv
    <2>2. w.ses[s].life # "unborn"
      BY <1>2, <1>3, <2>1 DEF HandsOK
    <2> QED
      BY <1>2, <1>3, <2>2 DEF Grasp
  <1>8. Under(v, Hands', Waiting', s)
    BY <1>3, HandsMove DEF Under, Used
  <1>9. \A z \in r : z \in Waiting'
    BY <1>2 DEF Waiting
  <1>10. WakeOK'
    BY DEF WakeOK, IocpServedInv
  <1> QED
    BY <1>1, <1>5, <1>6, <1>7, <1>8, <1>9, <1>10, ThreadTurn

\* The records of the sessions
LEMMA SessionShape ==
    ASSUME IocpInv
    PROVE  DOMAIN ses = Objects /\ \A s \in Objects : DOMAIN ses[s] = SessionFields
  <1>1. WorldOK(World, Grips)
    BY DEF IocpInv, Good
  <1>2. Shaped(World)
    BY <1>1, ShapedWorld
  <1> QED
    BY <1>2 DEF Shaped, World

\* The handler makes its response.
LEMMA HandleStepServed ==
    ASSUME IocpInv, IocpServedInv, NEW t \in Threads, HandleStep(t)
    PROVE  IocpServedInv'
  <1>1. PICK to, close, exit, init : Handle(t, to, close, exit, init)
    BY DEF HandleStep
  <1>2. PICK y : y = work[t]
    OBVIOUS
  <1>3. PICK m : m = IF to = {} \/ ~init THEN 0 ELSE Min(Unmade)
    OBVIOUS
  <1>4. PICK resp : resp = [from |-> ses[y.s].mSid, msg |-> m, close |-> close]
    OBVIOUS
  <1>5. PICK status : status = IF exit THEN "eWouldExit" ELSE "eNormal"
    OBVIOUS
  <1>6. PICK x : x = Handled(y, resp, status)
    OBVIOUS
  <1>7. PICK channel : ses' = [ses EXCEPT ![y.s].channel = channel]
    BY <1>1, <1>2 DEF Handle
  <1>8. PICK q : q = [ses[y.s] EXCEPT !.channel = channel]
    OBVIOUS
  <1>9. /\ y.pc = "handle" /\ mgr' = mgr /\ tasks' = tasks /\ respQ' = respQ /\ wake' = wake
        /\ loop' = loop
    BY <1>1, <1>2 DEF Handle
  <1>10. work' = [work EXCEPT ![t] = x]
    BY <1>1, <1>2, <1>3, <1>4, <1>5, <1>6 DEF Handle, Handled
  <1>11. y.s \in Objects /\ IsWork(y)
    BY <1>2, <1>9, WorkIs
  <1>12. DOMAIN ses = Objects /\ DOMAIN ses[y.s] = SessionFields
    BY <1>11, SessionShape
  <1>13. ses' = [ses EXCEPT ![y.s] = q]
    BY <1>7, <1>8
  <1>14. Ports(ses[y.s], q)
    BY <1>8, <1>12 DEF Ports, SessionFields
  <1>15. x.pc \in {"status", "push"} /\ x.s = y.s /\ x.resp.from = ses[y.s].mSid
    <2>1. y = [pc |-> y.pc, kind |-> y.kind, s |-> y.s, status |-> y.status, resp |-> y.resp]
      BY <1>11 DEF IsWork
    <2>2. x.pc \in {"status", "push"} /\ x.s = y.s /\ x.resp = resp
      BY <1>6, <2>1 DEF Handled
    <2> QED
      BY <1>4, <2>2
  <1>16. x.pc # "idle" /\ y.pc # "idle"
    BY <1>9, <1>15
  <1> QED
    BY <1>2, <1>9, <1>10, <1>13, <1>14, <1>15, <1>16, HeldServed

\* setStatus and setRunning come before the push of the response.
LEMMA SetStatusServed ==
    ASSUME IocpInv, IocpServedInv, NEW t \in Threads, SetStatus(t)
    PROVE  IocpServedInv'
  <1>1. PICK y : y = work[t]
    OBVIOUS
  <1>2. PICK x : x = [y EXCEPT !.pc = "unrun"]
    OBVIOUS
  <1>3. PICK status :
           ses' = [ses EXCEPT ![y.s] = [@ EXCEPT !.mStatus = status, !.started = TRUE]]
    BY <1>1, Zenon DEF SetStatus
  <1>4. PICK q : q = [ses[y.s] EXCEPT !.mStatus = status, !.started = TRUE]
    OBVIOUS
  <1>5. /\ y.pc = "status" /\ work' = [work EXCEPT ![t] = x] /\ mgr' = mgr /\ tasks' = tasks
        /\ respQ' = respQ /\ wake' = wake /\ loop' = loop
    BY <1>1, <1>2 DEF SetStatus
  <1>6. y.kind \in HandlerKinds /\ y.s \in Objects
    BY <1>1, <1>5, WorkIs
  <1>7. "unrun" \in WorkPlaces(y.kind)
    BY <1>6 DEF WorkPlaces
  <1>8. x.pc = "unrun" /\ x.s = y.s /\ x.resp = y.resp
    BY <1>1, <1>2, <1>5, <1>7, PlaceMoves
  <1>9. DOMAIN ses[y.s] = SessionFields /\ DOMAIN ses = Objects
    BY <1>6, SessionShape
  <1>10. ses' = [ses EXCEPT ![y.s] = q]
    BY <1>3, <1>4
  <1>11. Ports(ses[y.s], q)
    BY <1>4, <1>9 DEF Ports, SessionFields
  <1>12. x.resp.from = ses[y.s].mSid
    <2>1. HandsOK
      BY DEF IocpServedInv
    <2> QED
      BY <1>1, <1>5, <1>8, <2>1 DEF HandsOK
  <1>13. x.pc # "idle" /\ y.pc # "idle"
    BY <1>5, <1>8
  <1> QED
    BY <1>1, <1>5, <1>8, <1>10, <1>11, <1>12, <1>13, HeldServed

LEMMA SetNotRunningServed ==
    ASSUME IocpInv, IocpServedInv, NEW t \in Threads, SetNotRunning(t)
    PROVE  IocpServedInv'
  <1>1. PICK y : y = work[t]
    OBVIOUS
  <1>2. PICK x : x = [y EXCEPT !.pc = "push"]
    OBVIOUS
  <1>3. PICK q : q = [ses[y.s] EXCEPT !.mRunning = FALSE]
    OBVIOUS
  <1>4. /\ y.pc = "unrun" /\ work' = [work EXCEPT ![t] = x] /\ mgr' = mgr /\ tasks' = tasks
        /\ ses' = [ses EXCEPT ![y.s].mRunning = FALSE]
        /\ respQ' = respQ /\ wake' = wake /\ loop' = loop
    BY <1>1, <1>2 DEF SetNotRunning
  <1>5. y.kind \in HandlerKinds /\ y.s \in Objects
    BY <1>1, <1>4, WorkIs
  <1>6. "push" \in WorkPlaces(y.kind)
    BY <1>5 DEF WorkPlaces
  <1>7. x.pc = "push" /\ x.s = y.s /\ x.resp = y.resp
    BY <1>1, <1>2, <1>4, <1>6, PlaceMoves
  <1>8. DOMAIN ses[y.s] = SessionFields /\ DOMAIN ses = Objects
    BY <1>5, SessionShape
  <1>9. ses' = [ses EXCEPT ![y.s] = q]
    BY <1>3, <1>4
  <1>10. Ports(ses[y.s], q)
    BY <1>3, <1>8 DEF Ports, SessionFields
  <1>11. x.resp.from = ses[y.s].mSid
    <2>1. HandsOK
      BY DEF IocpServedInv
    <2> QED
      BY <1>1, <1>4, <1>7, <2>1 DEF HandsOK
  <1>12. x.pc # "idle" /\ y.pc # "idle"
    BY <1>4, <1>7
  <1> QED
    BY <1>1, <1>4, <1>7, <1>9, <1>10, <1>11, <1>12, HeldServed

\* The response takes the place of the hands of the thread.
LEMMA PushResponseServed ==
    ASSUME IocpInv, IocpServedInv, NEW t \in Threads, PushResponse(t)
    PROVE  IocpServedInv'
  <1>1. PICK w, g, h, r : Now(w, g, h, r)
    BY Look
  <1>2. /\ w.mgr = mgr /\ w.ses = ses /\ w.tasks = tasks /\ r = Waiting /\ DOMAIN w.ses = Objects
    BY <1>1 DEF Now, Shaped
  <1>3. PICK y : y = work[t]
    OBVIOUS
  <1>4. PICK x : x = IF y.kind \in {"error", "timeout"} THEN [y EXCEPT !.pc = "free"] ELSE Idle
    OBVIOUS
  <1>5. /\ y.pc = "push" /\ work' = [work EXCEPT ![t] = x] /\ respQ' = Append(respQ, y.resp)
        /\ wake' = (IF respQ = <<>> THEN wake + 1 ELSE wake)
        /\ mgr' = mgr /\ ses' = ses /\ tasks' = tasks /\ loop' = loop
    BY <1>3, <1>4 DEF PushResponse, Pushed
  <1>6. /\ y.resp \in Responses /\ y.s \in Objects /\ IsWork(y)
    BY <1>3, <1>5, WorkIs
  <1>7. PICK s \in Objects : s = y.s
    BY <1>6
  <1>8. w.ses[s].life # "unborn" /\ y.resp.from = w.ses[s].mSid
    <2>1. HandsOK
      BY DEF IocpServedInv
    <2> QED
      BY <1>2, <1>3, <1>5, <1>7, <2>1 DEF HandsOK
  <1>9. PICK v : v = [mgr |-> mgr', ses |-> ses', msgs |-> msgs', tasks |-> tasks']
    OBVIOUS
  <1>10. /\ v.mgr = mgr' /\ v.ses = ses' /\ v.tasks = tasks' /\ v.tasks = w.tasks
         /\ v.ses = w.ses
    BY <1>2, <1>5, <1>9
  <1>11. Moved(w, v, s)
    BY <1>10 DEF Moved, Queued, Ports
  <1>12. (x.pc = "free" /\ x.s = s) \/ x.pc = "idle"
    <2>1. CASE y.kind \in {"error", "timeout"}
      <3>1. y = [pc |-> y.pc, kind |-> y.kind, s |-> y.s, status |-> y.status, resp |-> y.resp]
        BY <1>6 DEF IsWork
      <3> QED
        BY <1>4, <1>7, <2>1, <3>1
    <2>2. CASE y.kind \notin {"error", "timeout"}
      BY <1>4, <2>2 DEF Idle
    <2> QED
      BY <2>1, <2>2
  <1>13. Grasp(w, work[t], x, s)
    BY <1>3, <1>7, <1>8, <1>12 DEF Grasp
  <1>14. respQ \in Seq(Responses)
    BY DEF IocpInv
  <1>15. /\ DOMAIN respQ' = 1 .. Len(respQ) + 1 /\ respQ'[Len(respQ) + 1] = y.resp
         /\ \A i \in DOMAIN respQ : i \in DOMAIN respQ' /\ respQ'[i] = respQ[i]
    <2>1. PICK q : q = Append(respQ, y.resp)
      OBVIOUS
    <2>2. /\ Len(q) = Len(respQ) + 1 /\ q[Len(respQ) + 1] = y.resp /\ q \in Seq(Responses)
          /\ \A i \in 1 .. Len(respQ) : q[i] = respQ[i]
      BY <1>6, <1>14, <2>1, AppendProperties
    <2>3. DOMAIN q = 1 .. Len(q) /\ DOMAIN respQ = 1 .. Len(respQ) /\ Len(respQ) \in Nat
      BY <1>14, <2>2, LenProperties
    <2> QED
      BY <1>5, <2>1, <2>2, <2>3
  <1>16. \A z \in r : z \in Waiting'
    BY <1>2, <1>15 DEF Waiting
  <1>17. y.resp.from \in Waiting'
    <2>1. Len(respQ) \in Nat
      BY <1>14, LenProperties
    <2> QED
      BY <1>15, <2>1 DEF Waiting
  <1>18. Under(v, Hands', Waiting', s)
    BY <1>8, <1>10, <1>17 DEF Under
  <1>19. WakeOK'
    <2>1. wake \in Nat /\ (respQ # <<>> => wake > 0 \/ loop.at \in {"process", "to", "close"})
      BY DEF WakeOK, IocpServedInv
    <2>2. wake' \in Nat /\ (wake' > 0 \/ loop.at \in {"process", "to", "close"})
      BY <1>5, <2>1
    <2> QED
      BY <1>5, <2>2 DEF WakeOK
  <1> QED
    BY <1>1, <1>5, <1>10, <1>11, <1>13, <1>16, <1>18, <1>19, ThreadTurn

\* A session that a thread is about to free has left the table.
LEMMA FreedOut ==
    ASSUME NEW w, NEW g, WorldOK(w, g), DOMAIN g = Threads, NEW t \in Threads,
           NEW s \in Objects, g[t] = <<"final", s>>
    PROVE  w.ses[s].life = "live" /\ ~In(w, s)
  <1>1. /\ Count(w.tasks, FinalTasks(s)) \in Nat /\ Count(g, {<<"final", s>>}) \in Nat
        /\ Flag(w.ses[s].freePosted) \in Nat
    <2>1. w.tasks \in Seq(Tasks)
      BY DEF WorldOK, WorldTyped
    <2>2. Flag(w.ses[s].freePosted) \in Nat
      BY DEF Flag
    <2> QED
      BY <2>1, <2>2, CountSeqType, GripsFinite
  <1>2. Count(g, {<<"final", s>>}) # 0
    <2>1. IsFiniteSet(Places(g, {<<"final", s>>}))
      BY GripsFinite
    <2> QED
      BY <2>1, CountZero
  <1>3. FinalUses(w, g, s) # 0
    BY <1>1, <1>2 DEF FinalUses
  <1>4. SessionOK(w, g, s)
    BY DEF WorldOK
  <1> QED
    BY <1>3, <1>4 DEF SessionOK

\* The session that is freed has left the table.
LEMMA PostFreeServed ==
    ASSUME IocpInv, IocpServedInv, NEW t \in Threads, PostFree(t)
    PROVE  IocpServedInv'
  <1>1. PICK w, g, h, r : Now(w, g, h, r)
    BY Look
  <1>2. /\ w.mgr = mgr /\ w.ses = ses /\ w.tasks = tasks /\ r = Waiting
        /\ DOMAIN w.ses = Objects /\ \A u \in Objects : DOMAIN w.ses[u] = SessionFields
    BY <1>1 DEF Now, Shaped
  <1>3. PICK y : y = work[t]
    OBVIOUS
  <1>4. /\ y.pc = "free" /\ work' = [work EXCEPT ![t] = Idle] /\ mgr' = mgr /\ tasks' = tasks
        /\ ses' = [ses EXCEPT ![y.s].freePosted = TRUE]
        /\ respQ' = respQ /\ wake' = wake /\ loop' = loop
    BY <1>3 DEF PostFree
  <1>5. y.kind \in FinalKinds /\ y.s \in Objects
    BY <1>3, <1>4, WorkIs
  <1>6. PICK s \in Objects : s = y.s
    BY <1>5
  <1>7. ~In(w, s)
    <2>1. PICK f : f = Grips
      OBVIOUS
    <2>2. WorldOK(w, f) /\ DOMAIN f = Threads
      BY <1>1, <2>1 DEF IocpInv, Good, Now
    <2>3. Grip(y) = <<"final", s>>
      BY <1>4, <1>5, <1>6 DEF Grip, HandlerKinds, FinalKinds
    <2>4. f[t] = <<"final", s>>
      BY <1>3, <2>1, <2>3 DEF Grips
    <2> QED
      BY <2>2, <2>4, FreedOut
  <1>8. PICK v : v = [mgr |-> mgr', ses |-> ses', msgs |-> msgs', tasks |-> tasks']
    OBVIOUS
  <1>9. PICK q : q = [w.ses[s] EXCEPT !.freePosted = TRUE]
    OBVIOUS
  <1>10. /\ v.mgr = mgr' /\ v.ses = ses' /\ v.tasks = tasks' /\ v.tasks = w.tasks
         /\ v.ses = [w.ses EXCEPT ![s] = q]
    BY <1>2, <1>4, <1>6, <1>8, <1>9
  <1>11. v.ses[s] = q /\ \A u \in Objects : u # s => v.ses[u] = w.ses[u]
    BY <1>2, <1>10
  <1>12. Ports(w.ses[s], q)
    BY <1>2, <1>9 DEF Ports, SessionFields
  <1>13. Moved(w, v, s)
    BY <1>10, <1>11, <1>12 DEF Moved, Queued
  <1>14. PICK x : x = Idle
    OBVIOUS
  <1>15. x.pc = "idle"
    BY <1>14 DEF Idle
  <1>16. Grasp(w, work[t], x, s)
    BY <1>3, <1>6, <1>15 DEF Grasp
  <1>17. \A z \in r : z \in Waiting'
    BY <1>2, <1>4 DEF Waiting
  <1>18. WakeOK'
    BY <1>4 DEF WakeOK, IocpServedInv
  <1> QED
    BY <1>1, <1>4, <1>7, <1>10, <1>13, <1>14, <1>16, <1>17, <1>18, ThreadTurn

\* Steps of the peers
LEMMA SameServed ==
    ASSUME IocpServedInv, UNCHANGED <<mgr, ses, tasks, work, respQ, wake, loop>>
    PROVE  IocpServedInv'
  <1>1. Hands' = Hands /\ Waiting' = Waiting
    BY DEF Hands, Waiting
  <1>2. PICK z, w : z = World' /\ w = World
    OBVIOUS
  <1>3. z.mgr = w.mgr /\ z.ses = w.ses /\ z.tasks = w.tasks
    BY <1>2 DEF World
  <1>4. AllServed(w, loop, Hands, Waiting)
    BY <1>2 DEF IocpServedInv
  <1>5. AllServed(z, loop, Hands, Waiting)
    BY <1>3, <1>4 DEF AllServed, Served, Sound, In, Under, Used, Queued, Exempt
  <1>6. HandsOK' /\ WakeOK'
    BY DEF IocpServedInv, HandsOK, WakeOK
  <1>7. AllServed(World', loop', Hands', Waiting')
    BY <1>1, <1>2, <1>5
  <1> QED
    BY <1>6, <1>7 DEF IocpServedInv

\* Every step
LEMMA EventLoopServed ==
    ASSUME MaxSessions < SeqMod, IocpInv, IocpServedInv, EventLoop
    PROVE  IocpServedInv'
  <1>1. CASE \E s \in Objects, fail \in BOOLEAN, bad \in Faults : OnAccept(s, fail, bad)
    BY <1>1, OnAcceptServed
  <1>2. CASE \E s \in Objects : EventLoopStale(s)
    BY <1>2, EventLoopStaleServed
  <1>3. CASE \E s \in Objects : EventLoopFailed(s)
    BY <1>3, EventLoopFailedServed
  <1>4. CASE \E s \in Objects, n \in 1 .. MaxEvents, bad \in Faults : OnRecvData(s, n, bad)
    BY <1>4, OnRecvDataServed
  <1>5. CASE \E s \in Objects, bad \in Faults : OnRecvEnd(s, bad)
    BY <1>5, OnRecvEndServed
  <1>6. CASE \E s \in Objects, n \in 0 .. (MaxMsgs + 1), bad \in Faults : OnSend(s, n, bad)
    BY <1>6, OnSendServed
  <1>7. CASE \E s \in Objects, bad \in Faults : OnSendError(s, bad)
    BY <1>7, OnSendErrorServed
  <1>8. CASE OnSendTail
    BY <1>8, OnSendTailServed
  <1>9. CASE \E s \in Objects : EventLoopFree(s)
    BY <1>9, EventLoopFreeServed
  <1>10. CASE \E s \in Objects : OnTimeout(s)
    BY <1>10, OnTimeoutServed
  <1>11. CASE ProcessBegin \/ ProcessEnd
    BY <1>11, ProcessServed
  <1>12. CASE \E bad \in Faults : ResponseFrom(bad)
    BY <1>12, ResponseFromServed
  <1>13. CASE \E sid \in loop.sids, bad \in Faults : ResponseTo(sid, bad) \/ ResponseClose(sid, bad)
    BY <1>13, ResponseToServed, ResponseCloseServed
  <1>14. CASE ResponseExit
    BY <1>14, ResponseExitServed
  <1> QED
    BY <1>1, <1>2, <1>3, <1>4, <1>5, <1>6, <1>7, <1>8, <1>9, <1>10, <1>11, <1>12, <1>13, <1>14
       DEF EventLoop

LEMMA TaskStepServed ==
    ASSUME IocpInv, IocpServedInv, NEW t \in Threads, TaskStep(t)
    PROVE  IocpServedInv'
  <1>1. TakeTask(t) \/ HandleStep(t) \/ SetStatus(t) \/ SetNotRunning(t) \/ PushResponse(t)
        \/ PostFree(t)
    BY DEF TaskStep, WorkerTask, StartTask, ErrorTask, TimeoutTask, CloseTask
  <1> QED
    BY <1>1, TakeTaskServed, HandleStepServed, SetStatusServed, SetNotRunningServed,
       PushResponseServed, PostFreeServed

LEMMA NextServed ==
    ASSUME MaxSessions < SeqMod, IocpInv, IocpServedInv, [Next]_vars
    PROVE  IocpServedInv'
  <1>1. CASE EventLoop
    BY <1>1, EventLoopServed
  <1>2. CASE \E t \in Threads : TaskStep(t)
    BY <1>2, TaskStepServed
  <1>3. CASE PeerStep
    <2>1. UNCHANGED <<mgr, ses, tasks, work, respQ, wake, loop>>
      BY <1>3 DEF PeerStep, PeerSend, PeerLeave
    <2> QED
      BY <2>1, SameServed
  <1>4. CASE UNCHANGED vars
    <2>1. UNCHANGED <<mgr, ses, tasks, work, respQ, wake, loop>>
      BY <1>4 DEF vars
    <2> QED
      BY <2>1, SameServed
  <1> QED
    BY <1>1, <1>2, <1>3, <1>4 DEF Next

\* At the start no session is in the table.
LEMMA InitServed ==
    ASSUME Init
    PROVE  IocpServedInv
  <1>1. \A s \in Objects : ses[s].life = "unborn"
    BY DEF Init, NewSession
  <1>2. AllServed(World, loop, Hands, Waiting)
    <2>1. \A s \in Objects : ~In(World, s)
      BY <1>1 DEF In, World
    <2> QED
      BY <2>1 DEF AllServed, Served
  <1>3. HandsOK
    BY DEF HandsOK, Init, Idle
  <1>4. WakeOK
    BY DEF WakeOK, Init
  <1> QED
    BY <1>2, <1>3, <1>4 DEF IocpServedInv

\* Where the next event of a session in the table comes from: the invariant relates its
\* flags to its outstanding requests, its status and its queues, as long as nothing of it
\* is under way and it is not about to be closed; the hypothesis is that no sequence
\* number comes back, so that a completion finds the session it belongs to.
THEOREM IocpServedInvariant ==
    ASSUME MaxSessions < SeqMod
    PROVE  Spec => []IocpServedInv
  <1>1. Init => IocpServedInv
    BY InitServed
  <1>2. IocpInv /\ IocpServedInv /\ [Next]_vars => IocpServedInv'
    BY NextServed
  <1>3. Spec => []IocpInv
    BY IocpInvariant
  <1> QED
    BY <1>1, <1>2, <1>3, PTL DEF Spec

\* What is under way for a session ends in a turn of it.
LEMMA UnderDue ==
    ASSUME IocpServedInv, NEW s \in Objects,
           Under(World, Hands, Waiting, s) \/ (Exempt(World, loop, s) /\ loop.s # s)
    PROVE  ResponseDue(s)
  <1>1. PICK w : w = World
    OBVIOUS
  <1>2. w.tasks = tasks /\ w.ses = ses
    BY <1>1 DEF World
  <1>3. CASE Queued(w, s)
    BY <1>2, <1>3 DEF Queued, ResponseDue
  <1>4. CASE s \in Hands
    BY <1>4 DEF Hands, ResponseDue
  <1>5. CASE w.ses[s].mSid \in Waiting
    <2>1. PICK i \in DOMAIN respQ : respQ[i].from = ses[s].mSid
      BY <1>2, <1>5 DEF Waiting
    <2>2. respQ # <<>>
      BY <2>1
    <2>3. wake > 0 \/ loop.at \in {"process", "to", "close"}
      BY <2>2 DEF IocpServedInv, WakeOK
    <2> QED
      BY <2>1, <2>3 DEF ResponseDue
  <1>6. CASE Exempt(w, loop, s) /\ loop.s # s
    BY <1>2, <1>6 DEF Exempt, ResponseDue
  <1> QED
    BY <1>1, <1>3, <1>4, <1>5, <1>6 DEF Under, Used

\* What the invariant says of a session for which nothing is under way
LEMMA OnlyMissedStrandedIs ==
    ASSUME IocpServedInv
    PROVE  OnlyMissedStranded
  <1> SUFFICES ASSUME NEW s \in Objects, Managed(s), ~ses[s].missed, ~ResponseDue(s), loop.s # s
               PROVE  /\ ses[s].recvIO \/ ses[s].sendIO
                      /\ ses[s].mReading = ses[s].recvIO /\ ses[s].mWriting = ses[s].sendIO
                      /\ ses[s].mStatus # "eNormal" => ses[s].sendIO
                      /\ ses[s].mOutList # <<>> => ses[s].sendIO
                      /\ ses[s].mInBuffer = 0 \/ ses[s].sendIO
    BY DEF OnlyMissedStranded
  <1>1. ~Under(World, Hands, Waiting, s) /\ ~Exempt(World, loop, s)
    BY UnderDue
  <1>2. Served(World, loop, Hands, Waiting, s)
    BY DEF IocpServedInv, AllServed
  <1>3. In(World, s) /\ World.ses = ses
    BY DEF Managed, In, World
  <1>4. Sound(ses[s], FALSE, FALSE)
    BY <1>1, <1>2, <1>3 DEF Served, Sound
  <1> QED
    BY <1>4 DEF Sound, Posted

\* No session of the table is forgotten by the loop, but for one that met a failure while
\* its handler was running (OnlyMissedStranded of IocpServer).
THEOREM OnlyMissedForgotten ==
    ASSUME MaxSessions < SeqMod
    PROVE  Spec => []OnlyMissedStranded
  <1>1. Spec => []IocpServedInv
    BY IocpServedInvariant
  <1>2. IocpServedInv => OnlyMissedStranded
    BY OnlyMissedStrandedIs
  <1> QED
    BY <1>1, <1>2, PTL
=============================================================================
