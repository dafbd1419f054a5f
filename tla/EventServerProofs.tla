------------------------- MODULE EventServerProofs -------------------------
(***************************************************************************)
(* Proofs about EventServer, for every number of sessions, threads, queued *)
(* tasks, messages and requests: the handler of a session is used by one   *)
(* thread at a time, a deleted session is referred to by nobody, the flag  *)
(* mWriting is exact, every message is accounted for and, while no         *)
(* sequence number has come round, no session is left without the event    *)
(* it needs and no close is undone.                                        *)
(*                                                                         *)
(* The argument counts the uses of a session: the tasks queued for it and  *)
(* the threads that run one for it.  The loop and the workers share        *)
(* mRunning without a lock; the invariant says that the flag is that       *)
(* count, so that a callback that finds it clear may make one task, and    *)
(* that a session outside the table has exactly one task left, the one     *)
(* that deletes it.                                                        *)
(***************************************************************************)
EXTENDS EventServer, SessionTableProofs, Counting

-----------------------------------------------------------------------------
(* The inductive invariant *)

\* A session record has exactly the fields of SP_Session that are modelled.
IsSession(r) ==
    r = [life |-> r.life, mSid |-> r.mSid, mStatus |-> r.mStatus, mRunning |-> r.mRunning,
         mReading |-> r.mReading, mWriting |-> r.mWriting, readEvent |-> r.readEvent,
         writeEvent |-> r.writeEvent, channel |-> r.channel, mInBuffer |-> r.mInBuffer,
         mOutList |-> r.mOutList, published |-> r.published, started |-> r.started,
         refused |-> r.refused]

\* The record of a worker thread; a thread with a task has a session.
IsWork(x) ==
    /\ x = [pc |-> x.pc, kind |-> x.kind, s |-> x.s, status |-> x.status, resp |-> x.resp]
    /\ x.pc # "idle" => x.s \in Objects

\* The tasks of InputResultQueue and of the executor.
Tasks == [kind : Kinds, s : Objects]

\* The part of the type invariant that the proofs need.
ServerTyped ==
    /\ DOMAIN ses = Objects /\ \A s \in Objects : IsSession(ses[s])
    /\ DOMAIN work = Threads /\ \A w \in Threads : IsWork(work[w])
    /\ inputQ \in Seq(Tasks) /\ execQ \in Seq(Tasks)

\* The tasks that use the handler of s, and those that delete s.
HandlerTasks(s) == {Task("start", s), Task("worker", s)}
FinalTasks(s) == {Task("error", s), Task("timeout", s), Task("close", s)}

\* The hold a thread has on a session: a start or worker task holds it up to
\* setRunning( 0 ), an error, timeout or close task up to delete session.
Grip(x) ==
    IF x.kind \in HandlerKinds /\ x.pc \in {"handle", "status", "unrun"} THEN <<"handler", x.s>>
    ELSE IF x.kind \in FinalKinds /\ x.pc \in {"handle", "push", "destroy"} THEN <<"final", x.s>>
    ELSE <<"none", 0>>
Grips == [w \in Threads |-> Grip(work[w])]

\* How many tasks, queued or running, use the handler of s; how many will
\* delete s.
HandlerUses(s) ==
    Count(inputQ, HandlerTasks(s)) + Count(execQ, HandlerTasks(s))
    + Count(Grips, {<<"handler", s>>})
FinalUses(s) ==
    Count(inputQ, FinalTasks(s)) + Count(execQ, FinalTasks(s)) + Count(Grips, {<<"final", s>>})

\* What holds of one session.  mRunning, which nobody guards with a lock, counts
\* the tasks that use the handler; a session that left the table has exactly one
\* task, which deletes it; whatever the loop can still call back about (a task,
\* an event, an onWrite under way) is about a session of the table; what left
\* the table has nothing to send; doClose, which does not settle messages, is
\* only reached with an empty outList; mWriting agrees with libevent.
SessionOK(s) ==
    /\ HandlerUses(s) = IF ses[s].mRunning THEN 1 ELSE 0
    /\ FinalUses(s) = IF ses[s].life = "live" /\ ~Managed(s) THEN 1 ELSE 0
    /\ ses[s].mRunning \/ ses[s].readEvent \/ ses[s].writeEvent \/ loop.s = s => Managed(s)
    /\ ses[s].life # "unborn" /\ ~Managed(s) => ses[s].mOutList = <<>>
    /\ loop.s = s /\ loop.exit => ses[s].mOutList = <<>>
    /\ ses[s].life = "live" => ses[s].mSid \in Sids
    /\ Managed(s) => ses[s].mWriting = ses[s].writeEvent

\* An entry of the table names a live session, which knows its key.
TableMaps ==
    \A k \in Keys : \A s \in Objects :
        mgr.mSession[k] = s => ses[s].life = "live" /\ ses[s].mSid.mKey = k

\* The inductive invariant.
ServerInv ==
    /\ ServerTyped
    /\ TableOK(mgr, Objects)
    /\ TableMaps
    /\ \A s \in Objects : SessionOK(s)

-----------------------------------------------------------------------------
(* Counting the uses of a session *)

\* The numbers of uses are natural numbers.
LEMMA UsesType ==
    ASSUME ServerTyped, NEW s
    PROVE  /\ Count(inputQ, HandlerTasks(s)) \in Nat /\ Count(execQ, HandlerTasks(s)) \in Nat
           /\ Count(inputQ, FinalTasks(s)) \in Nat /\ Count(execQ, FinalTasks(s)) \in Nat
           /\ Count(Grips, {<<"handler", s>>}) \in Nat /\ Count(Grips, {<<"final", s>>}) \in Nat
           /\ HandlerUses(s) \in Nat /\ FinalUses(s) \in Nat
  <1>1. /\ Count(inputQ, HandlerTasks(s)) \in Nat /\ Count(execQ, HandlerTasks(s)) \in Nat
        /\ Count(inputQ, FinalTasks(s)) \in Nat /\ Count(execQ, FinalTasks(s)) \in Nat
    BY CountSeqType DEF ServerTyped
  <1>2. DOMAIN Grips = Threads /\ IsFiniteSet(Threads)
    BY ServerAssumption DEF Grips
  <1>3. Count(Grips, {<<"handler", s>>}) \in Nat /\ Count(Grips, {<<"final", s>>}) \in Nat
    BY <1>2, CountFunType
  <1> QED
    BY <1>1, <1>3 DEF HandlerUses, FinalUses

\* A step that leaves the queues and the threads alone keeps the uses.
LEMMA UsesKept ==
    ASSUME inputQ' = inputQ, execQ' = execQ, work' = work
    PROVE  \A s : HandlerUses(s)' = HandlerUses(s) /\ FinalUses(s)' = FinalUses(s)
  <1>1. Grips' = Grips
    BY DEF Grips
  <1> QED
    BY <1>1 DEF HandlerUses, FinalUses

\* A task pushed to InputResultQueue (doStart, doWork, doError, doTimeout, doClose)
\* is one more use of its session.
LEMMA UsesQueued ==
    ASSUME ServerTyped, NEW y \in Tasks, inputQ' = Append(inputQ, y), execQ' = execQ, work' = work,
           NEW s
    PROVE  /\ HandlerUses(s)' = HandlerUses(s) + Has(HandlerTasks(s), y)
           /\ FinalUses(s)' = FinalUses(s) + Has(FinalTasks(s), y)
  <1>1. Grips' = Grips
    BY DEF Grips
  <1>2. /\ Count(inputQ', HandlerTasks(s))
              = Count(inputQ, HandlerTasks(s)) + Has(HandlerTasks(s), y)
        /\ Count(inputQ', FinalTasks(s)) = Count(inputQ, FinalTasks(s)) + Has(FinalTasks(s), y)
    BY CountAppend DEF ServerTyped
  <1>3. /\ HandlerUses(s)' = (Count(inputQ, HandlerTasks(s)) + Has(HandlerTasks(s), y))
             + Count(execQ, HandlerTasks(s)) + Count(Grips, {<<"handler", s>>})
        /\ FinalUses(s)' = (Count(inputQ, FinalTasks(s)) + Has(FinalTasks(s), y))
             + Count(execQ, FinalTasks(s)) + Count(Grips, {<<"final", s>>})
    BY <1>1, <1>2 DEF HandlerUses, FinalUses
  <1>4. Has(HandlerTasks(s), y) \in Nat /\ Has(FinalTasks(s), y) \in Nat
    BY DEF Has
  <1>5. /\ Count(inputQ, HandlerTasks(s)) \in Nat /\ Count(execQ, HandlerTasks(s)) \in Nat
        /\ Count(inputQ, FinalTasks(s)) \in Nat /\ Count(execQ, FinalTasks(s)) \in Nat
        /\ Count(Grips, {<<"handler", s>>}) \in Nat /\ Count(Grips, {<<"final", s>>}) \in Nat
    BY UsesType
  <1> QED
    BY SMTT(30), <1>3, <1>4, <1>5 DEF HandlerUses, FinalUses

\* A step of one thread changes the counts by its own hold only.
LEMMA UsesWork ==
    ASSUME ServerTyped, NEW w \in Threads, NEW x, work' = [work EXCEPT ![w] = x],
           NEW A
    PROVE  /\ Count(Grips', A) = Count(Grips, A) - Has(A, Grip(work[w])) + Has(A, Grip(x))
           /\ Has(A, Grip(work[w])) \in Nat /\ Has(A, Grip(x)) \in Nat
  <1> DEFINE f == Grips
             g == Grips'
  <1>1. /\ DOMAIN f = Threads /\ DOMAIN g = Threads /\ g[w] = Grip(x) /\ f[w] = Grip(work[w])
        /\ \A u \in Threads : u # w => g[u] = f[u]
    BY DEF Grips, ServerTyped
  <1> HIDE DEF f, g
  <1>2. IsFiniteSet(Threads)
    BY ServerAssumption
  <1>3. Count(g, A) = Count(f, A) - Has(A, f[w]) + Has(A, Grip(x))
    BY <1>1, <1>2, CountChange
  <1>4. Has(A, Grip(work[w])) \in Nat /\ Has(A, Grip(x)) \in Nat
    BY DEF Has
  <1> QED
    BY <1>1, <1>3, <1>4 DEF f, g

\* The uses after a step of a task that leaves the queues alone.
LEMMA UsesStep ==
    ASSUME ServerTyped, NEW w \in Threads, NEW x, work' = [work EXCEPT ![w] = x],
           inputQ' = inputQ, execQ' = execQ, NEW s
    PROVE  /\ HandlerUses(s)' = HandlerUses(s) - Has({<<"handler", s>>}, Grip(work[w]))
                                + Has({<<"handler", s>>}, Grip(x))
           /\ FinalUses(s)' = FinalUses(s) - Has({<<"final", s>>}, Grip(work[w]))
                              + Has({<<"final", s>>}, Grip(x))
  <1> DEFINE h == {<<"handler", s>>}
             f == {<<"final", s>>}
  <1>1. /\ Count(Grips', h) = Count(Grips, h) - Has(h, Grip(work[w])) + Has(h, Grip(x))
        /\ Count(Grips', f) = Count(Grips, f) - Has(f, Grip(work[w])) + Has(f, Grip(x))
        /\ Has(h, Grip(work[w])) \in Nat /\ Has(h, Grip(x)) \in Nat
        /\ Has(f, Grip(work[w])) \in Nat /\ Has(f, Grip(x)) \in Nat
    BY UsesWork
  <1>2. /\ HandlerUses(s)' = Count(inputQ, HandlerTasks(s)) + Count(execQ, HandlerTasks(s))
             + (Count(Grips, h) - Has(h, Grip(work[w])) + Has(h, Grip(x)))
        /\ FinalUses(s)' = Count(inputQ, FinalTasks(s)) + Count(execQ, FinalTasks(s))
             + (Count(Grips, f) - Has(f, Grip(work[w])) + Has(f, Grip(x)))
    BY <1>1 DEF HandlerUses, FinalUses
  <1>3. /\ Count(inputQ, HandlerTasks(s)) \in Nat /\ Count(execQ, HandlerTasks(s)) \in Nat
        /\ Count(inputQ, FinalTasks(s)) \in Nat /\ Count(execQ, FinalTasks(s)) \in Nat
        /\ Count(Grips, h) \in Nat /\ Count(Grips, f) \in Nat
    BY UsesType
  <1>4. /\ HandlerUses(s) = Count(inputQ, HandlerTasks(s)) + Count(execQ, HandlerTasks(s))
             + Count(Grips, h)
        /\ FinalUses(s) = Count(inputQ, FinalTasks(s)) + Count(execQ, FinalTasks(s))
             + Count(Grips, f)
    BY DEF HandlerUses, FinalUses
  <1> QED
    BY <1>1, <1>2, <1>3, <1>4

-----------------------------------------------------------------------------
(* Steps that change one session *)

\* A step that changes one session, its place in the table or its uses, has to
\* establish SessionOK for that session only.
LEMMA Frame ==
    ASSUME ServerInv, NEW s \in Objects, ServerTyped', TableOK(mgr', Objects), TableMaps',
           \A t \in Objects : t # s =>
              /\ ses'[t] = ses[t] /\ (Managed(t)' <=> Managed(t))
              /\ HandlerUses(t)' = HandlerUses(t) /\ FinalUses(t)' = FinalUses(t)
              /\ loop'.s = t => loop' = loop,
           SessionOK(s)'
    PROVE  ServerInv'
  <1>1. ASSUME NEW t \in Objects, t # s
        PROVE  SessionOK(t)'
    <2>1. /\ ses'[t] = ses[t] /\ (Managed(t)' <=> Managed(t))
          /\ HandlerUses(t)' = HandlerUses(t) /\ FinalUses(t)' = FinalUses(t)
          /\ loop'.s = t => loop' = loop
      BY <1>1
    <2>2. SessionOK(t)
      BY DEF ServerInv
    <2> QED
      BY <2>1, <2>2 DEF SessionOK
  <1> QED
    BY <1>1 DEF ServerInv

\* q is r after addEvent, a received block, a status or an outList was set:
\* identity, mRunning and the agreement of mWriting with libevent are kept.
Touched(r, q) ==
    /\ IsSession(q)
    /\ q.life = r.life /\ q.mSid = r.mSid /\ q.mRunning = r.mRunning
    /\ q.mWriting = q.writeEvent

\* Steps that only touch sessions of the table and move no use.
LEMMA Touch ==
    ASSUME ServerInv, mgr' = mgr,
           DOMAIN ses' = Objects, DOMAIN work' = Threads, \A w \in Threads : IsWork(work'[w]),
           inputQ' \in Seq(Tasks), execQ' \in Seq(Tasks),
           \A t \in Objects : HandlerUses(t)' = HandlerUses(t) /\ FinalUses(t)' = FinalUses(t),
           \A t \in Objects : ses'[t] = ses[t] \/ (Managed(t) /\ Touched(ses[t], ses'[t])),
           \A t \in Objects : loop'.s = t =>
                Managed(t) /\ (loop'.exit => ses'[t].mOutList = <<>>)
    PROVE  ServerInv'
  <1>1. ServerTyped'
    BY DEF ServerInv, ServerTyped, Touched
  <1>2. ASSUME NEW t \in Objects
        PROVE  /\ ses'[t].life = ses[t].life /\ ses'[t].mSid = ses[t].mSid
               /\ ses'[t].mRunning = ses[t].mRunning
               /\ Managed(t)' <=> Managed(t)
    BY DEF Touched, Managed
  <1>3. TableMaps'
    BY <1>2 DEF ServerInv, TableMaps
  <1>4. ASSUME NEW t \in Objects
        PROVE  SessionOK(t)'
    <2>1. SessionOK(t)
      BY DEF ServerInv
    <2>2. CASE Managed(t) /\ Touched(ses[t], ses'[t])
      BY <1>2, <2>1, <2>2 DEF SessionOK, Touched
    <2>3. CASE ses'[t] = ses[t]
      BY <1>2, <2>1, <2>3 DEF SessionOK
    <2> QED
      BY <2>2, <2>3
  <1> QED
    BY <1>1, <1>3, <1>4 DEF ServerInv

\* What ServerInv says of one session, in the form the steps use.
LEMMA SessionFacts ==
    ASSUME ServerInv, NEW s \in Objects
    PROVE  /\ DOMAIN ses = Objects /\ IsSession(ses[s]) /\ SessionOK(s)
           /\ s \in Nat /\ s # 0 /\ s # NULL
           /\ Managed(s) => /\ ses[s].mSid.mKey \in Keys
                            /\ mgr.mSession[ses[s].mSid.mKey] = s
                            /\ ses[s].life = "live"
                            /\ ses[s].mWriting = ses[s].writeEvent
  <1>1. s \in Nat /\ s # 0 /\ s # NULL
    BY ServerAssumption DEF Objects
  <1>2. SessionOK(s) /\ DOMAIN ses = Objects /\ IsSession(ses[s])
    BY DEF ServerInv, ServerTyped
  <1>3. \A sid \in Sids : sid.mKey \in Keys
    BY DEF Sids
  <1> QED
    BY <1>1, <1>2, <1>3 DEF SessionOK, Managed

\* Touching twice is touching.
LEMMA TouchedTwice ==
    ASSUME NEW r, NEW q, NEW p, Touched(r, q), Touched(q, p)
    PROVE  Touched(r, p)
  BY DEF Touched

\* addEvent touches a session, and leaves its outList alone.
LEMMA AddEvents ==
    ASSUME NEW r, IsSession(r), r.mWriting = r.writeEvent
    PROVE  /\ Touched(r, AddWrite(r)) /\ AddWrite(r).mOutList = r.mOutList
           /\ Touched(r, AddRead(r)) /\ AddRead(r).mOutList = r.mOutList
  BY DEF Touched, AddWrite, AddRead, IsSession

\* q is r after doWork: the session is marked running.
Handed(r, q) ==
    /\ IsSession(q)
    /\ q.life = r.life /\ q.mSid = r.mSid /\ q.mRunning
    /\ q.mWriting = q.writeEvent /\ q.mOutList = r.mOutList

\* decode and doWork either hand one request to a worker and mark the session
\* running, or only consume input.
LEMMA WorkedCases ==
    ASSUME NEW r, IsSession(r), r.mWriting = r.writeEvent, NEW s
    PROVE  \/ /\ Touched(r, Worked(r)) /\ Worked(r).mOutList = r.mOutList
              /\ WorkTasks(r, s) = <<>>
           \/ /\ Handed(r, Worked(r))
              /\ WorkTasks(r, s) = <<Task("worker", s)>>
  <1>1. CASE ~Decodable(r)
    BY <1>1 DEF Worked, WorkTasks, Touched
  <1>2. CASE Decodable(r) /\ r.mStatus = "eNormal"
    <2>1. Worked(r) = [r EXCEPT !.mInBuffer = @ - ReqLen, !.mRunning = TRUE]
      BY <1>2 DEF Worked
    <2>2. Handed(r, Worked(r))
      BY <2>1 DEF Handed, IsSession
    <2> QED
      BY <1>2, <2>2 DEF WorkTasks
  <1>3. CASE Decodable(r) /\ r.mStatus # "eNormal"
    <2>1. Worked(r) = [r EXCEPT !.mInBuffer = 0]
      BY <1>3 DEF Worked
    <2>2. Touched(r, Worked(r)) /\ Worked(r).mOutList = r.mOutList
      BY <2>1 DEF Touched, IsSession
    <2> QED
      BY <1>3, <2>2 DEF WorkTasks
  <1> QED
    BY <1>1, <1>2, <1>3

\* A callback that touches one session, possibly entering or leaving onWrite.
LEMMA TouchOne ==
    ASSUME ServerInv, NEW s \in Objects, NEW q, Managed(s), Touched(ses[s], q),
           ses' = [ses EXCEPT ![s] = q],
           mgr' = mgr, inputQ' = inputQ, execQ' = execQ, work' = work,
           \/ loop' = LoopIdle
           \/ loop' = loop /\ q.mOutList = ses[s].mOutList
           \/ loop'.s = s /\ (loop'.exit => q.mOutList = <<>>)
    PROVE  ServerInv'
  <1>1. DOMAIN ses = Objects
    BY DEF ServerInv, ServerTyped
  <1>2. /\ DOMAIN ses' = Objects /\ ses'[s] = q
        /\ \A t \in Objects : t # s => ses'[t] = ses[t]
    BY <1>1
  <1>3. /\ DOMAIN work' = Threads /\ \A w \in Threads : IsWork(work'[w])
        /\ inputQ' \in Seq(Tasks) /\ execQ' \in Seq(Tasks)
    BY DEF ServerInv, ServerTyped
  <1>4. \A t \in Objects : HandlerUses(t)' = HandlerUses(t) /\ FinalUses(t)' = FinalUses(t)
    BY UsesKept
  <1>5. ASSUME NEW t \in Objects, loop'.s = t
        PROVE  Managed(t) /\ (loop'.exit => ses'[t].mOutList = <<>>)
    <2>1. SessionOK(t) /\ t # 0
      BY SessionFacts
    <2>2. loop' # LoopIdle
      BY <1>5, <2>1 DEF LoopIdle
    <2>3. CASE t = s
      BY <1>2, <1>5, <2>1, <2>2, <2>3 DEF SessionOK
    <2>4. CASE t # s
      BY <1>2, <1>5, <2>1, <2>2, <2>4 DEF SessionOK
    <2> QED
      BY <2>3, <2>4
  <1>6. \A t \in Objects : ses'[t] = ses[t] \/ (Managed(t) /\ Touched(ses[t], ses'[t]))
    BY <1>2
  <1> QED
    BY <1>2, <1>3, <1>4, <1>5, <1>6, Touch

\* A step that changes no session and moves no use.
LEMMA TouchNone ==
    ASSUME ServerInv, ses' = ses, mgr' = mgr, loop' \in {loop, LoopIdle},
           DOMAIN work' = Threads, \A w \in Threads : IsWork(work'[w]),
           inputQ' \in Seq(Tasks), execQ' \in Seq(Tasks),
           \A t \in Objects : HandlerUses(t)' = HandlerUses(t) /\ FinalUses(t)' = FinalUses(t)
    PROVE  ServerInv'
  <1>1. DOMAIN ses' = Objects
    BY DEF ServerInv, ServerTyped
  <1>2. ASSUME NEW t \in Objects, loop'.s = t
        PROVE  Managed(t) /\ (loop'.exit => ses'[t].mOutList = <<>>)
    <2>1. SessionOK(t) /\ t # 0
      BY SessionFacts
    <2>2. loop' = loop
      BY <1>2, <2>1 DEF LoopIdle
    <2> QED
      BY <1>2, <2>1, <2>2 DEF SessionOK
  <1> QED
    BY <1>1, <1>2, Touch

\* doWork: a session that is not running gets its one worker task.
LEMMA Dispatch ==
    ASSUME ServerInv, NEW s \in Objects, NEW q, Managed(s), ~ses[s].mRunning,
           Handed(ses[s], q), ses' = [ses EXCEPT ![s] = q],
           inputQ' = inputQ \o <<Task("worker", s)>>,
           mgr' = mgr, execQ' = execQ, work' = work, loop' \in {loop, LoopIdle}
    PROVE  ServerInv'
  <1> DEFINE y == Task("worker", s)
  <1>1. ServerTyped /\ SessionOK(s) /\ DOMAIN ses = Objects /\ s # 0
    BY SessionFacts DEF ServerInv
  <1>2. y \in Tasks
    BY DEF Task, Tasks, Kinds
  <1>3. inputQ' = Append(inputQ, y) /\ inputQ' \in Seq(Tasks)
    <2> HIDE DEF y
    <2> QED
      BY <1>1, <1>2, AppendIsConcat, AppendProperties DEF ServerTyped, y
  <1>4. /\ DOMAIN ses' = Objects /\ ses'[s] = q
        /\ \A t \in Objects : t # s => ses'[t] = ses[t]
    BY <1>1
  <1>5. ServerTyped'
    BY <1>1, <1>3, <1>4 DEF ServerTyped, Handed
  <1>6. \A t : /\ HandlerUses(t)' = HandlerUses(t) + Has(HandlerTasks(t), y)
               /\ FinalUses(t)' = FinalUses(t) + Has(FinalTasks(t), y)
    <2> HIDE DEF y
    <2> QED
      BY <1>1, <1>2, <1>3, UsesQueued
  <1>7. \A t : Has(HandlerTasks(t), y) = Has({s}, t) /\ Has(FinalTasks(t), y) = 0
    BY DEF Has, HandlerTasks, FinalTasks, Task
  <1>8. ASSUME NEW t \in Objects, t # s
        PROVE  HandlerUses(t)' = HandlerUses(t) /\ FinalUses(t)' = FinalUses(t)
    <2>1. Has({s}, t) = 0 /\ HandlerUses(t) \in Nat /\ FinalUses(t) \in Nat
      BY <1>1, <1>8, UsesType DEF Has
    <2> QED
      BY <1>6, <1>7, <2>1
  <1>9. HandlerUses(s) = 0 /\ HandlerUses(s)' = 1 /\ FinalUses(s)' = FinalUses(s)
    <2>1. Has({s}, s) = 1 /\ FinalUses(s) \in Nat /\ HandlerUses(s) = 0
      BY <1>1, UsesType DEF Has, SessionOK
    <2> QED
      BY <1>6, <1>7, <2>1
  <1>10. \A t \in Objects : Managed(t)' <=> Managed(t)
    BY <1>4 DEF Managed, Handed
  <1>11. SessionOK(s)'
    <2>1. loop'.s = s => loop' = loop
      BY <1>1 DEF LoopIdle
    <2> QED
      BY <1>1, <1>4, <1>9, <1>10, <2>1 DEF SessionOK, Handed
  <1>12. TableMaps'
    BY <1>4 DEF ServerInv, TableMaps, Handed
  <1>13. \A t \in Objects : loop'.s = t => loop' = loop
    <2>1. \A t \in Objects : t # 0
      BY SessionFacts
    <2> QED
      BY <2>1 DEF LoopIdle
  <1> QED
    BY <1>4, <1>5, <1>8, <1>10, <1>11, <1>12, <1>13, Frame DEF ServerInv

\* doError, doTimeout and doClose: a session that is not running leaves the table
\* and gets its one final task.
LEMMA Leave ==
    ASSUME ServerInv, NEW s \in Objects, NEW q, Managed(s), ~ses[s].mRunning,
           IsSession(q), q.life = ses[s].life, q.mSid = ses[s].mSid,
           q.mRunning = ses[s].mRunning, ~q.readEvent, ~q.writeEvent, q.mOutList = <<>>,
           ses' = [ses EXCEPT ![s] = q],
           NEW kind \in FinalKinds, inputQ' = Append(inputQ, Task(kind, s)),
           mgr' = Remove(mgr, ses[s].mSid.mKey),
           execQ' = execQ, work' = work, loop' = LoopIdle
    PROVE  ServerInv'
  <1> DEFINE y == Task(kind, s)
             key == ses[s].mSid.mKey
  <1>1. /\ ServerTyped /\ SessionOK(s) /\ DOMAIN ses = Objects /\ s # 0 /\ s # NULL
        /\ key \in Keys /\ mgr.mSession[key] = s /\ ses[s].life = "live"
        /\ TableOK(mgr, Objects)
    BY SessionFacts DEF ServerInv
  <1>2. y \in Tasks
    BY DEF Task, Tasks, Kinds, FinalKinds
  <1>3. inputQ' = Append(inputQ, y) /\ inputQ' \in Seq(Tasks)
    <2> HIDE DEF y
    <2> QED
      BY <1>1, <1>2, AppendProperties DEF ServerTyped, y
  <1>4. /\ DOMAIN ses' = Objects /\ ses'[s] = q
        /\ \A t \in Objects : t # s => ses'[t] = ses[t]
    BY <1>1
  <1>5. ServerTyped'
    BY <1>1, <1>3, <1>4 DEF ServerTyped
  <1>6. \A t : /\ HandlerUses(t)' = HandlerUses(t) + Has(HandlerTasks(t), y)
               /\ FinalUses(t)' = FinalUses(t) + Has(FinalTasks(t), y)
    <2> HIDE DEF y
    <2> QED
      BY <1>1, <1>2, <1>3, UsesQueued
  <1>7. \A t : Has(HandlerTasks(t), y) = 0 /\ Has(FinalTasks(t), y) = Has({s}, t)
    BY DEF Has, HandlerTasks, FinalTasks, Task, FinalKinds
  <1>8. ASSUME NEW t \in Objects, t # s
        PROVE  HandlerUses(t)' = HandlerUses(t) /\ FinalUses(t)' = FinalUses(t)
    <2>1. Has({s}, t) = 0 /\ HandlerUses(t) \in Nat /\ FinalUses(t) \in Nat
      BY <1>1, <1>8, UsesType DEF Has
    <2> QED
      BY <1>6, <1>7, <2>1
  <1>9. HandlerUses(s)' = 0 /\ FinalUses(s)' = 1
    <2>1. Has({s}, s) = 1 /\ FinalUses(s) = 0 /\ HandlerUses(s) = 0
      BY <1>1, UsesType DEF Has, SessionOK
    <2> QED
      BY <1>6, <1>7, <2>1
  <1>10. /\ TableOK(mgr', Objects) /\ mgr'.mSession[key] = NULL
         /\ \A k \in Keys : k # key => mgr'.mSession[k] = mgr.mSession[k]
    <2>1. mgr.mSession[key] # NULL /\ mgr' = Remove(mgr, key)
      BY <1>1
    <2> HIDE DEF key
    <2> QED
      BY <1>1, <2>1, RemoveOK
  <1>11. mgr.mSession \in [Keys -> Objects \cup {NULL}]
    BY <1>1 DEF TableOK, Table
  <1>12. ~Managed(s)'
    BY <1>1, <1>4, <1>10, <1>11 DEF Managed
  <1>13. ASSUME NEW t \in Objects, t # s
         PROVE  Managed(t)' <=> Managed(t)
    <2>1. ses[t].life = "live" => ses[t].mSid.mKey \in Keys
      BY SessionFacts DEF SessionOK, Sids
    <2>2. t # NULL
      BY SessionFacts
    <2> QED
      BY <1>1, <1>4, <1>10, <1>11, <1>13, <2>1, <2>2 DEF Managed
  <1>14. SessionOK(s)'
    <2>1. loop'.s # s
      BY <1>1 DEF LoopIdle
    <2> QED
      BY <1>1, <1>4, <1>9, <1>12, <2>1 DEF SessionOK
  <1>15. TableMaps'
    <2> SUFFICES ASSUME NEW k \in Keys, NEW t \in Objects, mgr'.mSession[k] = t
                 PROVE  ses'[t].life = "live" /\ ses'[t].mSid.mKey = k
      BY DEF TableMaps
    <2>1. k # key /\ mgr.mSession[k] = t
      <3>1. t # NULL
        BY SessionFacts
      <3> QED
        BY <1>1, <1>10, <1>11, <3>1
    <2>2. ses[t].life = "live" /\ ses[t].mSid.mKey = k
      BY <2>1 DEF ServerInv, TableMaps
    <2> QED
      BY <1>4, <2>1, <2>2
  <1>16. \A t \in Objects : loop'.s # t
    <2>1. \A t \in Objects : t # 0
      BY SessionFacts
    <2> QED
      BY <2>1 DEF LoopIdle
  <1> QED
    BY <1>4, <1>5, <1>8, <1>10, <1>13, <1>14, <1>15, <1>16, Frame

-----------------------------------------------------------------------------
(* The callbacks of the event loop *)

\* A callback is always about a session of the table.
LEMMA EventManaged ==
    ASSUME ServerInv, NEW s \in Objects, ses[s].readEvent \/ ses[s].writeEvent \/ loop.s = s
    PROVE  /\ Managed(s) /\ IsSession(ses[s]) /\ ses[s].mWriting = ses[s].writeEvent
           /\ ses[s].life = "live"
  BY SessionFacts DEF SessionOK

\* The invariant holds when the server has started.
LEMMA ServerInvInit == Init => ServerInv
  <1> SUFFICES ASSUME Init PROVE ServerInv
    OBVIOUS
  <1>1. ServerTyped
    <2>1. IsSession(NewSession)
      BY DEF IsSession, NewSession
    <2>2. IsWork(Idle)
      BY DEF IsWork, Idle
    <2>3. /\ DOMAIN ses = Objects /\ \A s \in Objects : ses[s] = NewSession
          /\ DOMAIN work = Threads /\ \A w \in Threads : work[w] = Idle
          /\ inputQ = <<>> /\ execQ = <<>>
      BY DEF Init
    <2> QED
      BY <2>1, <2>2, <2>3 DEF ServerTyped
  <1>2. TableOK(mgr, Objects)
    BY EmptyTableOK DEF Init
  <1>3. \A k \in Keys : mgr.mSession[k] = NULL
    BY DEF Init, EmptyTable
  <1>4. NULL \notin Objects /\ \A s \in Objects : s # 0
    BY ServerAssumption DEF Objects
  <1>5. TableMaps
    BY <1>3, <1>4 DEF TableMaps
  <1>6. ASSUME NEW s \in Objects
        PROVE  SessionOK(s)
    <2>1. Count(inputQ, HandlerTasks(s)) = 0 /\ Count(execQ, HandlerTasks(s)) = 0
          /\ Count(inputQ, FinalTasks(s)) = 0 /\ Count(execQ, FinalTasks(s)) = 0
      BY CountEmpty DEF Init
    <2>2. Count(Grips, {<<"handler", s>>}) = 0 /\ Count(Grips, {<<"final", s>>}) = 0
      <3>1. /\ DOMAIN Grips = Threads
            /\ \A w \in Threads : Grips[w] = <<"none", 0>>
        BY DEF Init, Grips, Grip, Idle, HandlerKinds, FinalKinds
      <3>2. IsFiniteSet(Threads)
        BY ServerAssumption
      <3>3. \A w \in Threads : /\ Grips[w] \notin {<<"handler", s>>}
                               /\ Grips[w] \notin {<<"final", s>>}
        BY <3>1
      <3>4. /\ IsFiniteSet(Places(Grips, {<<"handler", s>>}))
            /\ IsFiniteSet(Places(Grips, {<<"final", s>>}))
        BY <3>1, <3>2, CountFunType
      <3> QED
        BY <3>1, <3>3, <3>4, CountZero
    <2>3. HandlerUses(s) = 0 /\ FinalUses(s) = 0
      BY <2>1, <2>2 DEF HandlerUses, FinalUses
    <2>4. ses[s] = NewSession /\ loop.s = 0
      BY DEF Init, LoopIdle
    <2> QED
      BY <1>4, <2>3, <2>4 DEF SessionOK, NewSession, Managed
  <1> QED
    BY <1>1, <1>2, <1>5, <1>6 DEF ServerInv

\* The read event has fired.
LEMMA ReadFired ==
    ASSUME NEW r, IsSession(r), r.mWriting = r.writeEvent, NEW q,
           q = [r EXCEPT !.mReading = FALSE, !.readEvent = FALSE]
    PROVE  Touched(r, q) /\ q.mOutList = r.mOutList
  <1>1. IsSession(q) /\ q.life = r.life /\ q.mSid = r.mSid /\ q.mRunning = r.mRunning
        /\ q.mWriting = r.mWriting /\ q.writeEvent = r.writeEvent /\ q.mOutList = r.mOutList
    BY DEF IsSession
  <1> QED
    BY <1>1 DEF Touched

\* A received block has been appended to mInBuffer.
LEMMA DataRead ==
    ASSUME NEW r, IsSession(r), r.mWriting = r.writeEvent, NEW n, NEW q,
           q = [r EXCEPT !.mReading = FALSE, !.readEvent = FALSE, !.mInBuffer = @ + n]
    PROVE  Touched(r, q) /\ q.mOutList = r.mOutList
  <1>1. IsSession(q) /\ q.life = r.life /\ q.mSid = r.mSid /\ q.mRunning = r.mRunning
        /\ q.mWriting = r.mWriting /\ q.writeEvent = r.writeEvent /\ q.mOutList = r.mOutList
    BY DEF IsSession
  <1> QED
    BY <1>1 DEF Touched

\* The write event has fired.
LEMMA WriteFired ==
    ASSUME NEW r, IsSession(r), NEW q,
           q = [r EXCEPT !.mWriting = FALSE, !.writeEvent = FALSE]
    PROVE  Touched(r, q) /\ q.mOutList = r.mOutList
  <1>1. IsSession(q) /\ q.life = r.life /\ q.mSid = r.mSid /\ q.mRunning = r.mRunning
        /\ q.mWriting = FALSE /\ q.writeEvent = FALSE /\ q.mOutList = r.mOutList
    BY DEF IsSession
  <1> QED
    BY <1>1 DEF Touched

\* The outList has been changed.
LEMMA OutListSet ==
    ASSUME NEW r, IsSession(r), r.mWriting = r.writeEvent, NEW x
    PROVE  /\ Touched(r, [r EXCEPT !.mOutList = x])
           /\ [r EXCEPT !.mOutList = x].mOutList = x
           /\ [r EXCEPT !.mOutList = x].readEvent = r.readEvent
           /\ [r EXCEPT !.mOutList = x].writeEvent = r.writeEvent
  <1> DEFINE q == [r EXCEPT !.mOutList = x]
  <1>1. IsSession(q) /\ q.life = r.life /\ q.mSid = r.mSid /\ q.mRunning = r.mRunning
        /\ q.mWriting = r.mWriting /\ q.writeEvent = r.writeEvent
        /\ q.mOutList = x /\ q.readEvent = r.readEvent
    BY DEF IsSession
  <1> QED
    BY <1>1 DEF Touched

\* event_del of both events keeps everything but the events.
LEMMA EventsDeleted ==
    ASSUME NEW r, IsSession(r)
    PROVE  /\ IsSession(DelEvents(r)) /\ DelEvents(r).life = r.life
           /\ DelEvents(r).mSid = r.mSid /\ DelEvents(r).mRunning = r.mRunning
           /\ DelEvents(r).mOutList = r.mOutList
           /\ ~DelEvents(r).readEvent /\ ~DelEvents(r).writeEvent
  <1> DEFINE q == DelEvents(r)
  <1>1. q = [r EXCEPT !.readEvent = FALSE, !.writeEvent = FALSE]
    BY DEF DelEvents
  <1> HIDE DEF q
  <1>2. IsSession(q) /\ q.life = r.life /\ q.mSid = r.mSid /\ q.mRunning = r.mRunning
        /\ q.writeEvent = FALSE /\ q.mOutList = r.mOutList /\ q.readEvent = FALSE
    BY <1>1 DEF IsSession
  <1> QED
    BY <1>2 DEF q

\* onRead that received data keeps the invariant: a request is handed on only
\* when mRunning is clear.
LEMMA OnReadDataInv ==
    ASSUME ServerInv, NEW s \in Objects, NEW n, OnReadData(s, n)
    PROVE  ServerInv'
  <1> DEFINE r == [ses[s] EXCEPT !.mReading = FALSE, !.readEvent = FALSE, !.mInBuffer = @ + n]
  <1>1. /\ Managed(s) /\ IsSession(ses[s]) /\ ses[s].mWriting = ses[s].writeEvent
        /\ inputQ \in Seq(Tasks)
    BY EventManaged DEF OnReadData, ServerInv, ServerTyped
  <1>2. Touched(ses[s], r) /\ r.mOutList = ses[s].mOutList
    BY <1>1, DataRead
  <1>3. /\ mgr' = mgr /\ execQ' = execQ /\ work' = work /\ loop' = loop /\ loop' = LoopIdle
        /\ \/ r.mRunning /\ ses' = [ses EXCEPT ![s] = AddRead(r)] /\ inputQ' = inputQ
           \/ /\ ~r.mRunning /\ ses' = [ses EXCEPT ![s] = AddRead(Worked(r))]
              /\ inputQ' = inputQ \o WorkTasks(r, s)
    BY DEF OnReadData
  <1> HIDE DEF r
  <1>4. IsSession(r) /\ r.mWriting = r.writeEvent /\ r.mRunning = ses[s].mRunning
        /\ r.life = ses[s].life /\ r.mSid = ses[s].mSid
    BY <1>2 DEF Touched
  <1>5. CASE r.mRunning /\ ses' = [ses EXCEPT ![s] = AddRead(r)] /\ inputQ' = inputQ
    <2>1. Touched(ses[s], AddRead(r))
      BY <1>2, <1>4, AddEvents, TouchedTwice
    <2> QED
      BY <1>1, <1>3, <1>5, <2>1, TouchOne
  <1>6. CASE /\ ~r.mRunning /\ ses' = [ses EXCEPT ![s] = AddRead(Worked(r))]
             /\ inputQ' = inputQ \o WorkTasks(r, s)
    <2>1. CASE /\ Touched(r, Worked(r)) /\ WorkTasks(r, s) = <<>>
      <3>1. IsSession(Worked(r)) /\ Worked(r).mWriting = Worked(r).writeEvent
        BY <2>1 DEF Touched
      <3>2. Touched(ses[s], AddRead(Worked(r)))
        BY <1>2, <2>1, <3>1, AddEvents, TouchedTwice
      <3>3. inputQ' = inputQ
        BY <1>1, <1>6, <2>1, ConcatEmptySeq
      <3> QED
        BY <1>1, <1>3, <1>6, <3>2, <3>3, TouchOne
    <2>2. CASE /\ Handed(r, Worked(r)) /\ WorkTasks(r, s) = <<Task("worker", s)>>
      <3>1. IsSession(Worked(r)) /\ Worked(r).mWriting = Worked(r).writeEvent
        BY <2>2 DEF Handed
      <3>2. /\ Touched(Worked(r), AddRead(Worked(r)))
            /\ AddRead(Worked(r)).mOutList = Worked(r).mOutList
        BY <3>1, AddEvents
      <3>3. Handed(ses[s], AddRead(Worked(r)))
        BY <1>2, <1>4, <2>2, <3>2 DEF Handed, Touched
      <3> QED
        BY <1>1, <1>3, <1>4, <1>6, <2>2, <3>3, Dispatch
    <2> QED
      BY <1>4, <2>1, <2>2, WorkedCases
  <1> QED
    BY <1>3, <1>5, <1>6

\* doError and doTimeout keep the invariant when they are called for a session
\* that is not running.
LEMMA DropInv ==
    ASSUME ServerInv, NEW s \in Objects, Managed(s), NEW r, Touched(ses[s], r), ~r.mRunning,
           NEW kind \in {"error", "timeout"}, DoDrop(s, r, kind),
           execQ' = execQ, work' = work, loop' = LoopIdle
    PROVE  ServerInv'
  <1> DEFINE d == DelEvents(r)
             q == [d EXCEPT !.mOutList = <<>>]
  <1>1. /\ IsSession(q) /\ q.life = r.life /\ q.mSid = r.mSid /\ q.mRunning = r.mRunning
        /\ ~q.readEvent /\ ~q.writeEvent /\ q.mOutList = <<>>
    <2>1. /\ IsSession(d) /\ d.life = r.life /\ d.mSid = r.mSid /\ d.mRunning = r.mRunning
          /\ d.readEvent = FALSE /\ d.writeEvent = FALSE
      BY EventsDeleted DEF Touched
    <2> HIDE DEF d
    <2>2. /\ IsSession(q) /\ q.life = d.life /\ q.mSid = d.mSid /\ q.mRunning = d.mRunning
          /\ q.readEvent = d.readEvent /\ q.writeEvent = d.writeEvent /\ q.mOutList = <<>>
      BY <2>1 DEF IsSession
    <2> QED
      BY <2>1, <2>2
  <1>2. /\ ses' = [ses EXCEPT ![s] = q] /\ mgr' = Remove(mgr, r.mSid.mKey)
        /\ inputQ' = Append(inputQ, Task(kind, s))
    BY DEF DoDrop
  <1>3. r.life = ses[s].life /\ r.mSid = ses[s].mSid /\ r.mRunning = ses[s].mRunning
    BY DEF Touched
  <1> HIDE DEF q
  <1>4. kind \in FinalKinds
    BY DEF FinalKinds
  <1> QED
    BY <1>1, <1>2, <1>3, <1>4, Leave

\* onRead that received nothing keeps the invariant.
LEMMA OnReadEndInv ==
    ASSUME ServerInv, NEW s \in Objects, OnReadEnd(s)
    PROVE  ServerInv'
  <1> DEFINE r == [ses[s] EXCEPT !.mReading = FALSE, !.readEvent = FALSE]
  <1>1. /\ Managed(s) /\ IsSession(ses[s]) /\ ses[s].mWriting = ses[s].writeEvent
    BY EventManaged DEF OnReadEnd
  <1>2. Touched(ses[s], r)
    BY <1>1, ReadFired
  <1>3. /\ execQ' = execQ /\ work' = work /\ loop' = loop /\ loop' = LoopIdle
        /\ \/ ses' = [ses EXCEPT ![s] = AddRead(r)] /\ mgr' = mgr /\ inputQ' = inputQ
           \/ ~r.mRunning /\ DoDrop(s, r, "error")
           \/ ses' = [ses EXCEPT ![s] = r] /\ mgr' = mgr /\ inputQ' = inputQ
    BY DEF OnReadEnd, DoError
  <1> HIDE DEF r
  <1>4. Touched(ses[s], AddRead(r))
    <2>1. IsSession(r) /\ r.mWriting = r.writeEvent
      BY <1>2 DEF Touched
    <2> QED
      BY <1>2, <2>1, AddEvents, TouchedTwice
  <1>5. CASE ses' = [ses EXCEPT ![s] = AddRead(r)] /\ mgr' = mgr /\ inputQ' = inputQ
    BY <1>1, <1>3, <1>4, <1>5, TouchOne
  <1>6. CASE ~r.mRunning /\ DoDrop(s, r, "error")
    BY <1>1, <1>2, <1>3, <1>6, DropInv
  <1>7. CASE ses' = [ses EXCEPT ![s] = r] /\ mgr' = mgr /\ inputQ' = inputQ
    BY <1>1, <1>2, <1>3, <1>7, TouchOne
  <1> QED
    BY <1>3, <1>5, <1>6, <1>7

\* The two timeout callbacks keep the invariant.
LEMMA OnTimeoutInv ==
    ASSUME ServerInv, NEW s \in Objects, OnReadTimeout(s) \/ OnWriteTimeout(s)
    PROVE  ServerInv'
  <1>1. /\ Managed(s) /\ IsSession(ses[s]) /\ ses[s].mWriting = ses[s].writeEvent
    BY EventManaged DEF OnReadTimeout, OnWriteTimeout
  <1>2. PICK r : Touched(ses[s], r) /\ OnTimeout(s, r)
    BY <1>1, ReadFired, WriteFired DEF OnReadTimeout, OnWriteTimeout
  <1>3. /\ execQ' = execQ /\ work' = work /\ loop' = loop /\ loop' = LoopIdle
        /\ \/ ~r.mRunning /\ DoDrop(s, r, "timeout")
           \/ ses' = [ses EXCEPT ![s] = r] /\ mgr' = mgr /\ inputQ' = inputQ
    BY <1>2 DEF OnTimeout, DoTimeout
  <1>4. CASE ~r.mRunning /\ DoDrop(s, r, "timeout")
    BY <1>1, <1>2, <1>3, <1>4, DropInv
  <1>5. CASE ses' = [ses EXCEPT ![s] = r] /\ mgr' = mgr /\ inputQ' = inputQ
    BY <1>1, <1>2, <1>3, <1>5, TouchOne
  <1> QED
    BY <1>3, <1>4, <1>5

\* onWrite whose transmit() failed keeps the invariant.
LEMMA OnWriteErrorInv ==
    ASSUME ServerInv, NEW s \in Objects, OnWriteError(s)
    PROVE  ServerInv'
  <1> DEFINE r == Fired(s)
  <1>1. /\ Managed(s) /\ IsSession(ses[s]) /\ ses[s].mWriting = ses[s].writeEvent
    BY EventManaged DEF OnWriteError
  <1>2. Touched(ses[s], r)
    BY <1>1, WriteFired DEF Fired
  <1>3. /\ execQ' = execQ /\ work' = work /\ loop' = loop /\ loop' = LoopIdle
        /\ \/ ~r.mRunning /\ DoDrop(s, r, "error")
           \/ ses' = [ses EXCEPT ![s] = r] /\ mgr' = mgr /\ inputQ' = inputQ
    BY DEF OnWriteError, DoError
  <1> HIDE DEF r
  <1>4. CASE ~r.mRunning /\ DoDrop(s, r, "error")
    BY <1>1, <1>2, <1>3, <1>4, DropInv
  <1>5. CASE ses' = [ses EXCEPT ![s] = r] /\ mgr' = mgr /\ inputQ' = inputQ
    BY <1>1, <1>2, <1>3, <1>5, TouchOne
  <1> QED
    BY <1>3, <1>4, <1>5

\* The first half of onWrite keeps the invariant: it remembers that the session
\* must exit only when nothing is left to send.
LEMMA OnWriteInv ==
    ASSUME ServerInv, NEW s \in Objects, NEW n, OnWrite(s, n)
    PROVE  ServerInv'
  <1> DEFINE rest == SubSeq(ses[s].mOutList, n + 1, Len(ses[s].mOutList))
             r == [Fired(s) EXCEPT !.mOutList = rest]
             q == IF rest = <<>> THEN r ELSE AddWrite(r)
  <1>1. /\ Managed(s) /\ IsSession(ses[s]) /\ ses[s].mWriting = ses[s].writeEvent
    BY EventManaged DEF OnWrite
  <1>2. Touched(ses[s], r) /\ r.mOutList = rest
    <2> DEFINE f == Fired(s)
    <2>1. Touched(ses[s], f)
      BY <1>1, WriteFired DEF Fired
    <2>2. IsSession(f) /\ f.mWriting = f.writeEvent
      BY <2>1 DEF Touched
    <2> HIDE DEF rest, f
    <2>3. Touched(f, r) /\ r.mOutList = rest
      BY <2>2, OutListSet DEF f
    <2> QED
      BY <2>1, <2>3, TouchedTwice
  <1>3. /\ execQ' = execQ /\ work' = work /\ mgr' = mgr /\ inputQ' = inputQ
        /\ ses' = [ses EXCEPT ![s] = q]
        /\ loop' = [s |-> s, exit |-> rest = <<>> /\ r.mStatus = "eExit"]
    BY DEF OnWrite
  <1> HIDE DEF r, rest
  <1>4. Touched(ses[s], q) /\ q.mOutList = rest
    <2>1. IsSession(r) /\ r.mWriting = r.writeEvent
      BY <1>2 DEF Touched
    <2> QED
      BY <1>2, <2>1, AddEvents, TouchedTwice
  <1>5. loop'.s = s /\ (loop'.exit => rest = <<>>)
    BY <1>3
  <1> HIDE DEF q
  <1> QED
    BY <1>1, <1>3, <1>4, <1>5, TouchOne

\* The second half of onWrite keeps the invariant, although a worker may have
\* cleared mRunning or set mStatus since the first half.
LEMMA OnWriteTailInv ==
    ASSUME ServerInv, NEW s \in Objects, OnWriteTail(s)
    PROVE  ServerInv'
  <1> DEFINE r == ses[s]
  <1>1. /\ Managed(s) /\ IsSession(r) /\ r.mWriting = r.writeEvent
        /\ inputQ \in Seq(Tasks) /\ SessionOK(s) /\ loop.s = s
    BY EventManaged, SessionFacts DEF OnWriteTail, ServerInv, ServerTyped
  <1>2. /\ execQ' = execQ /\ work' = work /\ loop' = LoopIdle
        /\ \/ mgr' = mgr /\ ses' = ses /\ inputQ' = inputQ
           \/ ~r.mRunning /\ loop.exit /\ DoClose(s, r)
           \/ /\ ~r.mRunning /\ ses' = [ses EXCEPT ![s] = Worked(r)]
              /\ inputQ' = inputQ \o WorkTasks(r, s) /\ mgr' = mgr
    BY DEF OnWriteTail
  <1>3. CASE mgr' = mgr /\ ses' = ses /\ inputQ' = inputQ
    <2>1. \A t \in Objects : HandlerUses(t)' = HandlerUses(t) /\ FinalUses(t)' = FinalUses(t)
      BY <1>2, <1>3, UsesKept
    <2> QED
      BY <1>2, <1>3, <2>1, TouchNone DEF ServerInv, ServerTyped
  <1>4. CASE ~r.mRunning /\ loop.exit /\ DoClose(s, r)
    <2>1. r.mOutList = <<>>
      BY <1>1, <1>4 DEF SessionOK
    <2>2. /\ IsSession(DelEvents(r)) /\ DelEvents(r).life = r.life
          /\ DelEvents(r).mSid = r.mSid /\ DelEvents(r).mRunning = r.mRunning
          /\ ~DelEvents(r).readEvent /\ ~DelEvents(r).writeEvent
          /\ DelEvents(r).mOutList = <<>>
      BY <1>1, <2>1, EventsDeleted
    <2>3. /\ ses' = [ses EXCEPT ![s] = DelEvents(r)] /\ mgr' = Remove(mgr, r.mSid.mKey)
          /\ inputQ' = Append(inputQ, Task("close", s))
      BY <1>4 DEF DoClose
    <2>4. "close" \in FinalKinds
      BY DEF FinalKinds
    <2> QED
      BY <1>1, <1>2, <1>4, <2>2, <2>3, <2>4, Leave
  <1>5. CASE /\ ~r.mRunning /\ ses' = [ses EXCEPT ![s] = Worked(r)]
             /\ inputQ' = inputQ \o WorkTasks(r, s) /\ mgr' = mgr
    <2>1. CASE /\ Touched(r, Worked(r)) /\ WorkTasks(r, s) = <<>>
      <3>1. inputQ' = inputQ
        BY <1>1, <1>5, <2>1, ConcatEmptySeq
      <3> QED
        BY <1>1, <1>2, <1>5, <2>1, <3>1, TouchOne
    <2>2. CASE /\ Handed(r, Worked(r)) /\ WorkTasks(r, s) = <<Task("worker", s)>>
      BY <1>1, <1>2, <1>5, <2>2, Dispatch
    <2> QED
      BY <1>1, <2>1, <2>2, WorkedCases
  <1> QED
    BY <1>2, <1>3, <1>4, <1>5

\* A new session enters the table under a free key.
LEMMA Enter ==
    ASSUME ServerInv, NEW s \in Objects, loop = LoopIdle, ses[s].life = "unborn",
           AllocKeyOf(mgr) # 0, mgr' = Put(AllocKey(mgr), AllocKeyOf(mgr), s),
           NEW q, IsSession(q), q.life = "live",
           q.mSid = [mKey |-> AllocKeyOf(mgr), mSeq |-> AllocSeqOf(mgr)],
           q.mWriting = q.writeEvent, q.mRunning \in BOOLEAN,
           ses' = [ses EXCEPT ![s] = q],
           execQ' = execQ, work' = work, loop' = loop,
           inputQ' \in Seq(Tasks),
           \A t \in Objects :
               /\ HandlerUses(t)' = HandlerUses(t) + (IF t = s /\ q.mRunning THEN 1 ELSE 0)
               /\ FinalUses(t)' = FinalUses(t)
    PROVE  ServerInv'
  <1> DEFINE key == AllocKeyOf(mgr)
  <1>1. /\ ServerTyped /\ TableOK(mgr, Objects) /\ SessionOK(s) /\ DOMAIN ses = Objects
        /\ s # 0 /\ s # NULL /\ NULL \notin Objects
    BY SessionFacts DEF ServerInv
  <1>2. /\ TableOK(mgr', Objects) /\ key \in Keys /\ AllocSeqOf(mgr) \in Seqs
        /\ mgr.mSession[key] = NULL /\ mgr'.mSession[key] = s
        /\ \A k \in Keys : k # key => mgr'.mSession[k] = mgr.mSession[k]
    BY <1>1, AllocPut
  <1>3. q.mSid \in Sids /\ q.mSid.mKey = key
    BY <1>2 DEF Sids
  <1> HIDE DEF key
  <1>4. /\ DOMAIN ses' = Objects /\ ses'[s] = q
        /\ \A t \in Objects : t # s => ses'[t] = ses[t]
    BY <1>1
  <1>5. ServerTyped'
    BY <1>1, <1>4 DEF ServerTyped
  <1>6. Managed(s)' /\ ~Managed(s)
    BY <1>2, <1>3, <1>4 DEF Managed
  <1>7. ASSUME NEW t \in Objects, t # s
        PROVE  Managed(t)' <=> Managed(t)
    <2>1. ses[t].life = "live" => ses[t].mSid.mKey \in Keys
      BY SessionFacts DEF SessionOK, Sids
    <2>2. t # NULL
      BY SessionFacts
    <2> QED
      BY <1>2, <1>4, <1>7, <2>1, <2>2 DEF Managed
  <1>8. SessionOK(s)'
    <2>1. HandlerUses(s) = 0 /\ FinalUses(s) = 0
      BY <1>1, <1>6 DEF SessionOK
    <2>2. HandlerUses(s)' = (IF q.mRunning THEN 1 ELSE 0) /\ FinalUses(s)' = 0
      BY <2>1
    <2>3. loop'.s # s
      BY <1>1 DEF LoopIdle
    <2> QED
      BY <1>3, <1>4, <1>6, <2>2, <2>3 DEF SessionOK
  <1>9. TableMaps'
    <2> SUFFICES ASSUME NEW k \in Keys, NEW t \in Objects, mgr'.mSession[k] = t
                 PROVE  ses'[t].life = "live" /\ ses'[t].mSid.mKey = k
      BY DEF TableMaps
    <2>1. CASE k = key
      BY <1>2, <1>3, <1>4, <2>1
    <2>2. CASE k # key
      <3>1. mgr.mSession[k] = t
        BY <1>2, <2>2
      <3>2. ses[t].life = "live" /\ ses[t].mSid.mKey = k
        BY <3>1 DEF ServerInv, TableMaps
      <3> QED
        BY <1>4, <3>2
    <2> QED
      BY <2>1, <2>2
  <1>10. ASSUME NEW t \in Objects, t # s
         PROVE  HandlerUses(t)' = HandlerUses(t) /\ FinalUses(t)' = FinalUses(t)
    <2>1. HandlerUses(t) \in Nat /\ FinalUses(t) \in Nat
      BY <1>1, UsesType
    <2> QED
      BY <1>10, <2>1
  <1> QED
    BY <1>2, <1>4, <1>5, <1>7, <1>8, <1>9, <1>10, Frame

\* onAccept keeps the invariant, whether it refuses the connection or calls
\* doStart.
LEMMA OnAcceptInv ==
    ASSUME ServerInv, NEW s \in Objects, OnAccept(s)
    PROVE  ServerInv'
  <1> DEFINE sid == [mKey |-> AllocKeyOf(mgr), mSeq |-> AllocSeqOf(mgr)]
             table == Put(AllocKey(mgr), sid.mKey, s)
             new == [NewSession EXCEPT !.life = "live", !.mSid = sid]
             wait == [new EXCEPT !.mOutList = <<RefusedMsg(s)>>, !.mStatus = "eExit",
                                 !.refused = TRUE]
             run == [new EXCEPT !.mRunning = TRUE]
  <1>1. /\ loop = LoopIdle /\ ses[s].life = "unborn" /\ AllocKeyOf(mgr) # 0
        /\ mgr' = Put(AllocKey(mgr), AllocKeyOf(mgr), s)
        /\ execQ' = execQ /\ work' = work /\ loop' = loop
        /\ \/ ses' = [ses EXCEPT ![s] = AddWrite(wait)] /\ inputQ' = inputQ
           \/ ses' = [ses EXCEPT ![s] = run] /\ inputQ' = Append(inputQ, Task("start", s))
    BY DEF OnAccept
  <1>2. ServerTyped /\ inputQ \in Seq(Tasks)
    BY DEF ServerInv, ServerTyped
  <1> HIDE DEF sid
  <1>a. /\ IsSession(new) /\ new.life = "live" /\ new.mSid = sid /\ new.mRunning = FALSE
        /\ new.mWriting = FALSE /\ new.writeEvent = FALSE
    <2>1. PICK p : p = new
      OBVIOUS
    <2>2. /\ IsSession(p) /\ p.life = "live" /\ p.mSid = sid /\ p.mRunning = FALSE
          /\ p.mWriting = FALSE /\ p.writeEvent = FALSE
      BY <2>1 DEF NewSession, IsSession
    <2> HIDE DEF new
    <2> QED
      BY <2>1, <2>2
  <1> HIDE DEF new
  <1>3. CASE ses' = [ses EXCEPT ![s] = AddWrite(wait)] /\ inputQ' = inputQ
    <2> DEFINE q == AddWrite(wait)
    <2>1. /\ IsSession(wait) /\ wait.life = "live" /\ wait.mSid = sid /\ wait.mRunning = FALSE
          /\ wait.mWriting = FALSE /\ wait.writeEvent = FALSE
      <3>1. PICK p : p = wait
        OBVIOUS
      <3>2. /\ IsSession(p) /\ p.life = "live" /\ p.mSid = sid /\ p.mRunning = FALSE
            /\ p.mWriting = FALSE /\ p.writeEvent = FALSE
        BY <1>a, <3>1 DEF IsSession
      <3> HIDE DEF wait
      <3> QED
        BY <3>1, <3>2
    <2>2. Touched(wait, q)
      <3> HIDE DEF wait
      <3> QED
        BY <2>1, AddEvents
    <2>3. IsSession(q) /\ q.life = "live" /\ q.mSid = sid /\ q.mRunning = FALSE
          /\ q.mWriting = q.writeEvent
      <3> HIDE DEF wait
      <3> QED
        BY <2>1, <2>2 DEF Touched
    <2> HIDE DEF q
    <2>4. ASSUME NEW t \in Objects
          PROVE  /\ HandlerUses(t)' = HandlerUses(t) + (IF t = s /\ q.mRunning THEN 1 ELSE 0)
                 /\ FinalUses(t)' = FinalUses(t)
      <3>1. HandlerUses(t)' = HandlerUses(t) /\ FinalUses(t)' = FinalUses(t)
        BY <1>1, <1>3, UsesKept
      <3>2. HandlerUses(t) \in Nat
        BY <1>2, UsesType
      <3> QED
        BY <2>3, <3>1, <3>2
    <2>5. ses' = [ses EXCEPT ![s] = q]
      BY <1>3 DEF q
    <2> QED
      BY <1>1, <1>2, <1>3, <2>3, <2>4, <2>5, Enter DEF sid
  <1>4. CASE ses' = [ses EXCEPT ![s] = run] /\ inputQ' = Append(inputQ, Task("start", s))
    <2> DEFINE q == run
               y == Task("start", s)
    <2>1. /\ IsSession(q) /\ q.life = "live" /\ q.mSid = sid /\ q.mRunning = TRUE
          /\ q.mWriting = q.writeEvent
      <3>1. PICK p : p = run
        OBVIOUS
      <3>2. /\ IsSession(p) /\ p.life = "live" /\ p.mSid = sid /\ p.mRunning = TRUE
            /\ p.mWriting = FALSE /\ p.writeEvent = FALSE
        BY <1>a, <3>1 DEF IsSession
      <3> HIDE DEF run
      <3> QED
        BY <3>1, <3>2
    <2> HIDE DEF run
    <2>2. y \in Tasks
      BY DEF Task, Tasks, Kinds
    <2>3. \A t : Has(HandlerTasks(t), y) = (IF t = s THEN 1 ELSE 0) /\ Has(FinalTasks(t), y) = 0
      BY DEF Has, HandlerTasks, FinalTasks, Task
    <2> HIDE DEF y
    <2>4. inputQ' = Append(inputQ, y) /\ inputQ' \in Seq(Tasks)
      BY <1>2, <1>4, <2>2, AppendProperties DEF y
    <2>5. ASSUME NEW t \in Objects
          PROVE  /\ HandlerUses(t)' = HandlerUses(t) + (IF t = s /\ q.mRunning THEN 1 ELSE 0)
                 /\ FinalUses(t)' = FinalUses(t)
      <3>1. /\ HandlerUses(t)' = HandlerUses(t) + Has(HandlerTasks(t), y)
            /\ FinalUses(t)' = FinalUses(t) + Has(FinalTasks(t), y)
        BY <1>1, <1>2, <2>2, <2>4, UsesQueued
      <3>2. HandlerUses(t) \in Nat /\ FinalUses(t) \in Nat
        BY <1>2, UsesType
      <3> QED
        BY <2>1, <2>3, <3>1, <3>2
    <2> QED
      BY <1>1, <1>2, <1>4, <2>1, <2>4, <2>5, Enter DEF sid
  <1> QED
    BY <1>1, <1>3, <1>4

\* What get() returns is a session of the table.
LEMMA GetManaged ==
    ASSUME ServerInv, NEW s \in Objects, NEW key, NEW seq, Get(mgr, key, seq) = s
    PROVE  Managed(s) /\ key = ses[s].mSid.mKey
  <1>1. key \in Keys /\ mgr.mSession[key] = s
    BY SessionFacts DEF Get
  <1> QED
    BY <1>1 DEF ServerInv, TableMaps, Managed

\* The status has been changed.
LEMMA StatusSet ==
    ASSUME NEW r, IsSession(r), r.mWriting = r.writeEvent, NEW x
    PROVE  /\ Touched(r, [r EXCEPT !.mStatus = x])
           /\ [r EXCEPT !.mStatus = x].mOutList = r.mOutList
  <1> DEFINE q == [r EXCEPT !.mStatus = x]
  <1>1. IsSession(q) /\ q.life = r.life /\ q.mSid = r.mSid /\ q.mRunning = r.mRunning
        /\ q.mWriting = r.mWriting /\ q.writeEvent = r.writeEvent /\ q.mOutList = r.mOutList
    BY DEF IsSession
  <1> QED
    BY <1>1 DEF Touched

\* onResponse only touches the session the response is from.
LEMMA FromTouched ==
    ASSUME NEW r, IsSession(r), r.mWriting = r.writeEvent
    PROVE  Touched(r, FromSession(r)) /\ FromSession(r).mOutList = r.mOutList
  <1>1. PICK st, e : FromSession(r) = AddRead(AddWrite([r EXCEPT !.mStatus = st, !.readEvent = e]))
    BY DEF FromSession
  <1> DEFINE q == [r EXCEPT !.mStatus = st, !.readEvent = e]
  <1>2. IsSession(q) /\ q.life = r.life /\ q.mSid = r.mSid /\ q.mRunning = r.mRunning
        /\ q.mWriting = r.mWriting /\ q.writeEvent = r.writeEvent /\ q.mOutList = r.mOutList
    <2>1. PICK p : p = q
      OBVIOUS
    <2>2. IsSession(p) /\ p.life = r.life /\ p.mSid = r.mSid /\ p.mRunning = r.mRunning
          /\ p.mWriting = r.mWriting /\ p.writeEvent = r.writeEvent /\ p.mOutList = r.mOutList
      BY <2>1 DEF IsSession
    <2> HIDE DEF q
    <2> QED
      BY <2>1, <2>2
  <1>3. Touched(r, q)
    BY <1>2 DEF Touched
  <1> HIDE DEF q
  <1>4. Touched(r, AddWrite(q)) /\ AddWrite(q).mOutList = r.mOutList
    BY <1>2, <1>3, AddEvents, TouchedTwice
  <1>5. IsSession(AddWrite(q)) /\ AddWrite(q).mWriting = AddWrite(q).writeEvent
    BY <1>4 DEF Touched
  <1> QED
    BY <1>1, <1>4, <1>5, AddEvents, TouchedTwice DEF q

\* The sids that onResponse appends the message for, and their sessions.
Addressed ==
    LET resp == Head(respQ)
        from == Get(mgr, resp.from.mKey, resp.from.mSeq)
    IN  IF resp.msg = 0 THEN {}
        ELSE Accepting(resp, [s \in Objects |-> IF s = from THEN FromSession(ses[s]) ELSE ses[s]])
Receiver(s) ==
    Get(mgr, ses[s].mSid.mKey, ses[s].mSid.mSeq) = s /\ ses[s].mSid \in Addressed

\* What onResponse does to one session: only sessions of the table are touched,
\* and the message is appended to the outList of exactly the receivers.
LEMMA ResponseTouch ==
    ASSUME ServerInv, OnResponse, NEW t \in Objects
    PROVE  /\ ses'[t] = ses[t] \/ (Managed(t) /\ Touched(ses[t], ses'[t]))
           /\ Receiver(t) => Managed(t)
           /\ ses'[t].mOutList = IF Receiver(t) THEN Append(ses[t].mOutList, Head(respQ).msg)
                                 ELSE ses[t].mOutList
  <1> DEFINE resp == Head(respQ)
             from == Get(mgr, resp.from.mKey, resp.from.mSeq)
             InTable == Get(mgr, ses[t].mSid.mKey, ses[t].mSid.mSeq) = t
             Closes == InTable /\ ses[t].mSid \in resp.close
             r1 == IF t = from THEN FromSession(ses[t]) ELSE ses[t]
             o == [r1 EXCEPT !.mOutList = Append(@, resp.msg)]
             r2 == IF Receiver(t) THEN AddWrite(o) ELSE r1
             c == [r2 EXCEPT !.mStatus = "eExit"]
             out == IF Receiver(t) THEN Append(ses[t].mOutList, resp.msg) ELSE ses[t].mOutList
  <1>1. ses'[t] = IF Closes THEN AddWrite(c) ELSE r2
    BY DEF OnResponse, Receiver, Addressed
  <1>2. (t = from \/ InTable => Managed(t)) /\ (Receiver(t) => InTable)
    BY GetManaged DEF Receiver
  <1> HIDE DEF resp, from, InTable
  <1>3. CASE Managed(t)
    <2>1. IsSession(ses[t]) /\ ses[t].mWriting = ses[t].writeEvent
      BY <1>3, SessionFacts
    <2>2. Touched(ses[t], ses[t])
      BY <2>1 DEF Touched
    <2>3. Touched(ses[t], r1) /\ r1.mOutList = ses[t].mOutList
      BY <2>1, <2>2, FromTouched
    <2>4. PICK a : a = Append(ses[t].mOutList, resp.msg) /\ o = [r1 EXCEPT !.mOutList = a]
      <3>1. IsSession(r1)
        BY <2>3 DEF Touched
      <3> HIDE DEF r1
      <3> QED
        BY <2>3, <3>1 DEF IsSession
    <2> HIDE DEF r1
    <2>5. IsSession(r1) /\ r1.mWriting = r1.writeEvent
      BY <2>3 DEF Touched
    <2> HIDE DEF o
    <2>6. Touched(r1, o) /\ o.mOutList = a
      <3>1. /\ Touched(r1, [r1 EXCEPT !.mOutList = a])
            /\ [r1 EXCEPT !.mOutList = a].mOutList = a
        BY <2>5, OutListSet
      <3>2. o = [r1 EXCEPT !.mOutList = a]
        BY <2>4
      <3> QED
        BY <3>1, <3>2
    <2>7. IsSession(o) /\ o.mWriting = o.writeEvent
      BY <2>6 DEF Touched
    <2>8. Touched(ses[t], r2) /\ r2.mOutList = out
      BY <2>3, <2>4, <2>6, <2>7, AddEvents, TouchedTwice
    <2> HIDE DEF r2
    <2>9. IsSession(r2) /\ r2.mWriting = r2.writeEvent
      BY <2>8 DEF Touched
    <2>10. Touched(r2, c) /\ c.mOutList = r2.mOutList
      BY <2>9, StatusSet
    <2> HIDE DEF c
    <2>11. IsSession(c) /\ c.mWriting = c.writeEvent
      BY <2>10 DEF Touched
    <2>12. Touched(ses[t], AddWrite(c)) /\ AddWrite(c).mOutList = out
      BY <2>8, <2>10, <2>11, AddEvents, TouchedTwice
    <2> HIDE DEF out
    <2> QED
      BY <1>1, <1>3, <2>8, <2>12 DEF out, resp
  <1>4. CASE ~Managed(t)
    <2>1. t # from /\ ~InTable /\ ~Receiver(t)
      BY <1>2, <1>4
    <2> QED
      BY <1>1, <2>1
  <1> QED
    BY <1>3, <1>4

\* onResponse keeps the invariant: the sender, the receivers and the sessions to
\* close are found through the table, and are only touched.
LEMMA OnResponseInv ==
    ASSUME ServerInv, OnResponse
    PROVE  ServerInv'
  <1>1. /\ mgr' = mgr /\ inputQ' = inputQ /\ execQ' = execQ /\ work' = work
        /\ loop' = loop /\ loop = LoopIdle /\ DOMAIN ses' = Objects
    BY DEF OnResponse
  <1>2. \A t \in Objects : ses'[t] = ses[t] \/ (Managed(t) /\ Touched(ses[t], ses'[t]))
    BY ResponseTouch
  <1>3. \A t \in Objects : HandlerUses(t)' = HandlerUses(t) /\ FinalUses(t)' = FinalUses(t)
    BY <1>1, UsesKept
  <1>4. \A t \in Objects : loop'.s # t
    BY <1>1, SessionFacts DEF LoopIdle
  <1>5. /\ DOMAIN work' = Threads /\ \A w \in Threads : IsWork(work'[w])
        /\ inputQ' \in Seq(Tasks) /\ execQ' \in Seq(Tasks)
    BY <1>1 DEF ServerInv, ServerTyped
  <1> QED
    BY <1>1, <1>2, <1>3, <1>4, <1>5, Touch

\* Handing InputResultQueue to the executor moves uses and loses none.
LEMMA DrainInv ==
    ASSUME ServerInv, DrainInput
    PROVE  ServerInv'
  <1>1. /\ ServerTyped /\ inputQ \in Seq(Tasks) /\ execQ \in Seq(Tasks)
        /\ DOMAIN work = Threads /\ \A w \in Threads : IsWork(work[w])
    BY DEF ServerInv, ServerTyped
  <1>2. /\ execQ' = execQ \o inputQ /\ inputQ' = <<>> /\ ses' = ses /\ mgr' = mgr /\ loop' = loop
        /\ work' = work
    BY DEF DrainInput
  <1>3. inputQ' \in Seq(Tasks) /\ execQ' \in Seq(Tasks)
    BY <1>1, <1>2, ConcatProperties
  <1>4. ASSUME NEW t \in Objects
        PROVE  HandlerUses(t)' = HandlerUses(t) /\ FinalUses(t)' = FinalUses(t)
    <2>1. Grips' = Grips
      BY <1>2 DEF Grips
    <2>2. \A A : Count(inputQ', A) = 0 /\ Count(execQ', A) = Count(execQ, A) + Count(inputQ, A)
      BY <1>1, <1>2, CountEmpty, CountConcat
    <2>3. /\ HandlerUses(t)' = 0 + (Count(execQ, HandlerTasks(t)) + Count(inputQ, HandlerTasks(t)))
                               + Count(Grips, {<<"handler", t>>})
          /\ FinalUses(t)' = 0 + (Count(execQ, FinalTasks(t)) + Count(inputQ, FinalTasks(t)))
                             + Count(Grips, {<<"final", t>>})
      BY <2>1, <2>2 DEF HandlerUses, FinalUses
    <2>4. /\ Count(inputQ, HandlerTasks(t)) \in Nat /\ Count(execQ, HandlerTasks(t)) \in Nat
          /\ Count(inputQ, FinalTasks(t)) \in Nat /\ Count(execQ, FinalTasks(t)) \in Nat
          /\ Count(Grips, {<<"handler", t>>}) \in Nat /\ Count(Grips, {<<"final", t>>}) \in Nat
      BY <1>1, UsesType
    <2> QED
      BY <2>3, <2>4 DEF HandlerUses, FinalUses
  <1> QED
    BY <1>1, <1>2, <1>3, <1>4, TouchNone

-----------------------------------------------------------------------------
(* The worker threads *)

\* A task that runs for a session knows where it is: a start or worker task has a
\* session of the table that is marked running, a final task one that has left
\* the table.
LEMMA GripCounts ==
    ASSUME ServerInv, NEW w \in Threads, NEW s \in Objects
    PROVE  /\ Grip(work[w]) = <<"handler", s>> => Managed(s) /\ ses[s].mRunning
           /\ Grip(work[w]) = <<"final", s>> => ses[s].life = "live" /\ ~Managed(s)
  <1>1. ServerTyped /\ SessionOK(s)
    BY SessionFacts DEF ServerInv
  <1>2. DOMAIN Grips = Threads /\ IsFiniteSet(Threads) /\ Grips[w] = Grip(work[w])
    BY ServerAssumption DEF Grips
  <1>3. /\ IsFiniteSet(Places(Grips, {<<"handler", s>>}))
        /\ IsFiniteSet(Places(Grips, {<<"final", s>>}))
    BY <1>2, CountFunType
  <1>4. /\ Count(inputQ, HandlerTasks(s)) \in Nat /\ Count(execQ, HandlerTasks(s)) \in Nat
        /\ Count(inputQ, FinalTasks(s)) \in Nat /\ Count(execQ, FinalTasks(s)) \in Nat
        /\ Count(Grips, {<<"handler", s>>}) \in Nat /\ Count(Grips, {<<"final", s>>}) \in Nat
    BY <1>1, UsesType
  <1>5. ASSUME Grip(work[w]) = <<"handler", s>>
        PROVE  Managed(s) /\ ses[s].mRunning
    <2>1. Count(Grips, {<<"handler", s>>}) # 0
      BY <1>2, <1>3, <1>5, CountZero
    <2>2. HandlerUses(s) # 0
      BY <1>4, <2>1 DEF HandlerUses
    <2> QED
      BY <1>1, <2>2 DEF SessionOK
  <1>6. ASSUME Grip(work[w]) = <<"final", s>>
        PROVE  ses[s].life = "live" /\ ~Managed(s)
    <2>1. Count(Grips, {<<"final", s>>}) # 0
      BY <1>2, <1>3, <1>6, CountZero
    <2>2. FinalUses(s) # 0
      BY <1>4, <2>1 DEF FinalUses
    <2> QED
      BY <1>1, <2>2 DEF SessionOK
  <1> QED
    BY <1>5, <1>6

\* What ServerInv says of one thread.
LEMMA WorkFacts ==
    ASSUME ServerInv, NEW w \in Threads
    PROVE  /\ ServerTyped /\ DOMAIN work = Threads /\ IsWork(work[w])
           /\ DOMAIN ses = Objects /\ inputQ \in Seq(Tasks) /\ execQ \in Seq(Tasks)
           /\ work[w].pc # "idle" => work[w].s \in Objects
  BY DEF ServerInv, ServerTyped, IsWork

\* A thread that takes a task takes over its use.
LEMMA TakeTaskInv ==
    ASSUME ServerInv, NEW w \in Threads, TakeTask(w)
    PROVE  ServerInv'
  <1> DEFINE y == Head(execQ)
             x == [Idle EXCEPT !.kind = y.kind, !.s = y.s,
                               !.pc = IF y.kind = "close" THEN "destroy" ELSE "handle"]
  <1>1. /\ ServerTyped /\ DOMAIN work = Threads /\ execQ \in Seq(Tasks) /\ inputQ \in Seq(Tasks)
        /\ \A v \in Threads : IsWork(work[v])
    BY WorkFacts
  <1>2. /\ work[w].pc = "idle" /\ execQ # <<>> /\ execQ' = Tail(execQ)
        /\ work' = [work EXCEPT ![w] = x]
        /\ ses' = ses /\ mgr' = mgr /\ loop' = loop /\ inputQ' = inputQ
    BY DEF TakeTask
  <1>3. y \in Tasks /\ Tail(execQ) \in Seq(Tasks)
    BY <1>1, <1>2, HeadTailProperties
  <1> HIDE DEF y
  <1>4. /\ y = [kind |-> y.kind, s |-> y.s] /\ y.kind \in Kinds /\ y.s \in Objects
    BY <1>3 DEF Tasks
  <1>5. /\ IsWork(x) /\ x.kind = y.kind /\ x.s = y.s
        /\ x.pc = IF y.kind = "close" THEN "destroy" ELSE "handle"
    <2>1. PICK p : p = IF y.kind = "close" THEN "destroy" ELSE "handle"
      OBVIOUS
    <2>2. PICK z : z = x
      OBVIOUS
    <2>3. z = [Idle EXCEPT !.kind = y.kind, !.s = y.s, !.pc = p]
      BY <2>1, <2>2
    <2>4. IsWork(z) /\ z.kind = y.kind /\ z.s = y.s /\ z.pc = p
      BY <1>4, <2>3 DEF IsWork, Idle
    <2> HIDE DEF x
    <2> QED
      BY <2>1, <2>2, <2>4
  <1> HIDE DEF x
  <1>6. Grip(work[w]) = <<"none", 0>>
    BY <1>2 DEF Grip
  <1>7. ASSUME NEW t \in Objects
        PROVE  HandlerUses(t)' = HandlerUses(t) /\ FinalUses(t)' = FinalUses(t)
    <2> DEFINE H == {<<"handler", t>>}
               F == {<<"final", t>>}
    <2>1. /\ Has(H, Grip(work[w])) = 0 /\ Has(F, Grip(work[w])) = 0
      BY <1>6 DEF Has
    <2>2. /\ Has(HandlerTasks(t), y) = Has(H, Grip(x)) /\ Has(FinalTasks(t), y) = Has(F, Grip(x))
          /\ Has(H, Grip(x)) \in Nat /\ Has(F, Grip(x)) \in Nat
      <3>1. CASE y.kind \in HandlerKinds
        <4>1. Grip(x) = <<"handler", y.s>>
          BY <1>5, <3>1 DEF Grip, HandlerKinds
        <4>2. /\ Has(HandlerTasks(t), y) = Has({y.s}, t) /\ Has(FinalTasks(t), y) = 0
          BY <1>4, <3>1 DEF Has, HandlerTasks, FinalTasks, Task, HandlerKinds
        <4>3. /\ Has(H, Grip(x)) = Has({y.s}, t) /\ Has(F, Grip(x)) = 0
          BY <4>1 DEF Has
        <4> QED
          BY <4>2, <4>3 DEF Has
      <3>2. CASE y.kind \in FinalKinds
        <4>1. Grip(x) = <<"final", y.s>>
          BY <1>5, <3>2 DEF Grip, HandlerKinds, FinalKinds
        <4>2. /\ Has(FinalTasks(t), y) = Has({y.s}, t) /\ Has(HandlerTasks(t), y) = 0
          BY <1>4, <3>2 DEF Has, HandlerTasks, FinalTasks, Task, FinalKinds
        <4>3. /\ Has(F, Grip(x)) = Has({y.s}, t) /\ Has(H, Grip(x)) = 0
          BY <4>1 DEF Has
        <4> QED
          BY <4>2, <4>3 DEF Has
      <3> QED
        BY <1>4, <3>1, <3>2 DEF Kinds, HandlerKinds, FinalKinds
    <2>3. /\ Count(Grips', H) = Count(Grips, H) - Has(H, Grip(work[w])) + Has(H, Grip(x))
          /\ Count(Grips', F) = Count(Grips, F) - Has(F, Grip(work[w])) + Has(F, Grip(x))
      BY <1>1, <1>2, UsesWork
    <2>4. \A A : Count(execQ, A) = Has(A, y) + Count(execQ', A)
      BY <1>1, <1>2, CountTail DEF y
    <2>5. /\ Count(inputQ, HandlerTasks(t)) \in Nat /\ Count(execQ, HandlerTasks(t)) \in Nat
          /\ Count(inputQ, FinalTasks(t)) \in Nat /\ Count(execQ, FinalTasks(t)) \in Nat
          /\ Count(Grips, H) \in Nat /\ Count(Grips, F) \in Nat
      BY <1>1, UsesType
    <2>6. \A A : Count(execQ', A) \in Nat
      BY <1>2, <1>3, CountSeqType
    <2>7. /\ HandlerUses(t)' = Count(inputQ, HandlerTasks(t)) + Count(execQ', HandlerTasks(t))
                               + Count(Grips', H)
          /\ FinalUses(t)' = Count(inputQ, FinalTasks(t)) + Count(execQ', FinalTasks(t))
                               + Count(Grips', F)
      BY <1>2 DEF HandlerUses, FinalUses
    <2>8. /\ HandlerUses(t) = Count(inputQ, HandlerTasks(t)) + Count(execQ, HandlerTasks(t))
                               + Count(Grips, H)
          /\ FinalUses(t) = Count(inputQ, FinalTasks(t)) + Count(execQ, FinalTasks(t))
                               + Count(Grips, F)
      BY DEF HandlerUses, FinalUses
    <2>9. /\ Count(execQ, HandlerTasks(t)) = Has(H, Grip(x)) + Count(execQ', HandlerTasks(t))
          /\ Count(execQ, FinalTasks(t)) = Has(F, Grip(x)) + Count(execQ', FinalTasks(t))
      BY <2>2, <2>4
    <2>10. /\ Count(execQ', HandlerTasks(t)) \in Nat /\ Count(execQ', FinalTasks(t)) \in Nat
           /\ Count(Grips', H) = Count(Grips, H) + Has(H, Grip(x))
           /\ Count(Grips', F) = Count(Grips, F) + Has(F, Grip(x))
      BY <2>1, <2>2, <2>3, <2>5, <2>6
    <2> HIDE DEF H, F
    <2> QED
      BY <2>2, <2>5, <2>7, <2>8, <2>9, <2>10
  <1> QED
    BY <1>1, <1>2, <1>3, <1>5, <1>7, TouchNone

\* A step of a task keeps the types, and the uses when its hold is the same.
LEMMA WorkChanged ==
    ASSUME ServerInv, NEW w \in Threads, NEW x, IsWork(x), work' = [work EXCEPT ![w] = x],
           inputQ' = inputQ, execQ' = execQ, DOMAIN ses' = Objects,
           \A t \in Objects : IsSession(ses'[t])
    PROVE  /\ ServerTyped' /\ DOMAIN work' = Threads /\ \A v \in Threads : IsWork(work'[v])
           /\ inputQ' \in Seq(Tasks) /\ execQ' \in Seq(Tasks)
           /\ Grip(x) = Grip(work[w]) =>
                 \A t \in Objects : HandlerUses(t)' = HandlerUses(t)
                                    /\ FinalUses(t)' = FinalUses(t)
  <1>1. ServerTyped /\ DOMAIN work = Threads /\ \A v \in Threads : IsWork(work[v])
    BY WorkFacts
  <1>2. DOMAIN work' = Threads /\ \A v \in Threads : IsWork(work'[v])
    BY <1>1
  <1>3. ServerTyped'
    BY <1>1, <1>2 DEF ServerTyped
  <1>4. ASSUME NEW t \in Objects, Grip(x) = Grip(work[w])
        PROVE  HandlerUses(t)' = HandlerUses(t) /\ FinalUses(t)' = FinalUses(t)
    <2> DEFINE H == {<<"handler", t>>}
               F == {<<"final", t>>}
    <2>1. /\ HandlerUses(t)' = HandlerUses(t) - Has(H, Grip(work[w])) + Has(H, Grip(x))
          /\ FinalUses(t)' = FinalUses(t) - Has(F, Grip(work[w])) + Has(F, Grip(x))
      BY <1>1, UsesStep
    <2>2. HandlerUses(t) \in Nat /\ FinalUses(t) \in Nat
      BY <1>1, UsesType
    <2>3. Has(H, Grip(x)) \in Nat /\ Has(F, Grip(x)) \in Nat
      BY DEF Has
    <2> HIDE DEF H, F
    <2> QED
      BY <1>4, <2>1, <2>2, <2>3
  <1> QED
    BY <1>1, <1>2, <1>3, <1>4 DEF ServerTyped

\* A task touches the session it holds.
LEMMA TouchWork ==
    ASSUME ServerInv, NEW w \in Threads, NEW x, IsWork(x), work' = [work EXCEPT ![w] = x],
           Grip(x) = Grip(work[w]), NEW s \in Objects, NEW q, Managed(s), Touched(ses[s], q),
           q.mOutList = ses[s].mOutList, ses' = [ses EXCEPT ![s] = q],
           mgr' = mgr, inputQ' = inputQ, execQ' = execQ, loop' = loop
    PROVE  ServerInv'
  <1>1. DOMAIN ses = Objects /\ \A t \in Objects : IsSession(ses[t])
    BY DEF ServerInv, ServerTyped
  <1>2. /\ DOMAIN ses' = Objects /\ ses'[s] = q
        /\ \A t \in Objects : t # s => ses'[t] = ses[t]
    BY <1>1
  <1>3. \A t \in Objects : IsSession(ses'[t])
    BY <1>1, <1>2 DEF Touched
  <1>4. \A t \in Objects : ses'[t] = ses[t] \/ (Managed(t) /\ Touched(ses[t], ses'[t]))
    BY <1>2
  <1>5. ASSUME NEW t \in Objects, loop'.s = t
        PROVE  Managed(t) /\ (loop'.exit => ses'[t].mOutList = <<>>)
    <2>1. SessionOK(t) /\ ses'[t].mOutList = ses[t].mOutList
      BY <1>2, SessionFacts
    <2> QED
      BY <1>5, <2>1 DEF SessionOK
  <1>6. /\ DOMAIN work' = Threads /\ \A v \in Threads : IsWork(work'[v])
        /\ inputQ' \in Seq(Tasks) /\ execQ' \in Seq(Tasks)
        /\ \A t \in Objects : HandlerUses(t)' = HandlerUses(t) /\ FinalUses(t)' = FinalUses(t)
    BY <1>2, <1>3, WorkChanged
  <1> QED
    BY <1>2, <1>4, <1>5, <1>6, Touch

\* The call of the application's handler keeps the invariant.
LEMMA HandlerStepInv ==
    ASSUME ServerInv, NEW w \in Threads, HandlerStep(w), work[w].kind \in Kinds \ {"close"}
    PROVE  ServerInv'
  <1> DEFINE s == work[w].s
             kind == work[w].kind
             next == IF kind \in {"start", "worker"} THEN "status" ELSE "push"
  <1>1. PICK new, close, status, init : RunHandler(w, new, close, status, init)
    BY DEF HandlerStep
  <1>2. /\ ServerTyped /\ DOMAIN work = Threads /\ IsWork(work[w]) /\ DOMAIN ses = Objects
        /\ work[w].pc = "handle" /\ s \in Objects
    BY WorkFacts DEF HandlerStep
  <1>3. /\ inputQ' = inputQ /\ execQ' = execQ /\ mgr' = mgr /\ loop' = loop
        /\ ses' = IF kind = "start"
                  THEN [ses EXCEPT ![s].channel = init, ![s].published = TRUE] ELSE ses
    BY <1>1 DEF RunHandler
  <1>4. PICK resp : work' = [work EXCEPT ![w].resp = resp, ![w].status = status, ![w].pc = next]
    BY <1>1 DEF RunHandler
  <1>5. PICK x : x = [work[w] EXCEPT !.resp = resp, !.status = status, !.pc = next]
    OBVIOUS
  <1> HIDE DEF next
  <1>6. work' = [work EXCEPT ![w] = x]
    BY <1>2, <1>4, <1>5
  <1>7. IsWork(x) /\ x.pc = next /\ x.kind = kind /\ x.s = s
    <2>1. /\ x = [pc |-> x.pc, kind |-> x.kind, s |-> x.s, status |-> x.status, resp |-> x.resp]
          /\ x.pc = next /\ x.kind = work[w].kind /\ x.s = work[w].s
      BY <1>2, <1>5 DEF IsWork
    <2> QED
      BY <1>2, <2>1 DEF IsWork
  <1>8. Grip(x) = Grip(work[w])
    BY <1>2, <1>7 DEF Grip, next, Kinds, HandlerKinds, FinalKinds
  <1>9. CASE kind # "start"
    <2>1. ses' = ses /\ DOMAIN ses' = Objects /\ \A t \in Objects : IsSession(ses'[t])
      BY <1>2, <1>3, <1>9 DEF ServerTyped
    <2> QED
      BY <1>3, <1>6, <1>7, <1>8, <2>1, WorkChanged, TouchNone
  <1>10. CASE kind = "start"
    <2>1. Managed(s) /\ IsSession(ses[s]) /\ ses[s].mWriting = ses[s].writeEvent
      <3>1. Grip(work[w]) = <<"handler", s>>
        BY <1>2, <1>10 DEF Grip, HandlerKinds
      <3> QED
        BY <1>2, <3>1, GripCounts, SessionFacts
    <2>2. PICK q : q = [ses[s] EXCEPT !.channel = init, !.published = TRUE]
      OBVIOUS
    <2>3. ses' = [ses EXCEPT ![s] = q]
      BY <1>2, <1>3, <1>10, <2>2
    <2>4. /\ IsSession(q) /\ q.life = ses[s].life /\ q.mSid = ses[s].mSid
          /\ q.mRunning = ses[s].mRunning /\ q.mWriting = ses[s].mWriting
          /\ q.writeEvent = ses[s].writeEvent /\ q.mOutList = ses[s].mOutList
      BY <2>1, <2>2 DEF IsSession
    <2>5. Touched(ses[s], q)
      BY <2>1, <2>4 DEF Touched
    <2> HIDE DEF s
    <2> QED
      BY <1>2, <1>3, <1>6, <1>7, <1>8, <2>1, <2>3, <2>4, <2>5, TouchWork
  <1> QED
    BY <1>9, <1>10

\* setStatus by a start or worker task keeps the invariant.
LEMMA SetStatusInv ==
    ASSUME ServerInv, NEW w \in Threads, SetStatus(w), work[w].kind \in HandlerKinds
    PROVE  ServerInv'
  <1> DEFINE s == work[w].s
  <1>1. /\ ServerTyped /\ DOMAIN work = Threads /\ IsWork(work[w]) /\ DOMAIN ses = Objects
        /\ work[w].pc = "status" /\ s \in Objects
    BY WorkFacts DEF SetStatus
  <1>2. PICK st : ses' = [ses EXCEPT ![s].mStatus = st, ![s].started = TRUE]
    BY DEF SetStatus
  <1>3. /\ inputQ' = inputQ /\ execQ' = execQ /\ mgr' = mgr /\ loop' = loop
        /\ work' = [work EXCEPT ![w].pc = "unrun"]
    BY DEF SetStatus
  <1>4. PICK x : x = [work[w] EXCEPT !.pc = "unrun"]
    OBVIOUS
  <1>5. work' = [work EXCEPT ![w] = x]
    BY <1>1, <1>3, <1>4
  <1>6. IsWork(x) /\ x.pc = "unrun" /\ x.kind = work[w].kind /\ x.s = s
    <2>1. /\ x = [pc |-> x.pc, kind |-> x.kind, s |-> x.s, status |-> x.status, resp |-> x.resp]
          /\ x.pc = "unrun" /\ x.kind = work[w].kind /\ x.s = work[w].s
      BY <1>1, <1>4 DEF IsWork
    <2> QED
      BY <1>1, <2>1 DEF IsWork
  <1>7. Grip(work[w]) = <<"handler", s>> /\ Grip(x) = Grip(work[w])
    BY <1>1, <1>6 DEF Grip
  <1>8. Managed(s) /\ IsSession(ses[s]) /\ ses[s].mWriting = ses[s].writeEvent
    BY <1>1, <1>7, GripCounts, SessionFacts
  <1>9. PICK q : q = [ses[s] EXCEPT !.mStatus = st, !.started = TRUE]
    OBVIOUS
  <1>10. ses' = [ses EXCEPT ![s] = q]
    BY <1>1, <1>2, <1>9
  <1>11. /\ IsSession(q) /\ q.life = ses[s].life /\ q.mSid = ses[s].mSid
         /\ q.mRunning = ses[s].mRunning /\ q.mWriting = ses[s].mWriting
         /\ q.writeEvent = ses[s].writeEvent /\ q.mOutList = ses[s].mOutList
    BY <1>8, <1>9 DEF IsSession
  <1>12. Touched(ses[s], q)
    BY <1>8, <1>11 DEF Touched
  <1> HIDE DEF s
  <1> QED
    BY <1>1, <1>3, <1>5, <1>6, <1>7, <1>8, <1>10, <1>11, <1>12, TouchWork

\* setRunning( 0 ) ends the one use that the flag stands for.
LEMMA SetNotRunningInv ==
    ASSUME ServerInv, NEW w \in Threads, SetNotRunning(w), work[w].kind \in HandlerKinds
    PROVE  ServerInv'
  <1>0. PICK s : s = work[w].s
    OBVIOUS
  <1>1. /\ ServerTyped /\ DOMAIN work = Threads /\ IsWork(work[w]) /\ DOMAIN ses = Objects
        /\ work[w].pc = "unrun" /\ s \in Objects
    BY <1>0, WorkFacts DEF SetNotRunning
  <1>2. /\ inputQ' = inputQ /\ execQ' = execQ /\ mgr' = mgr /\ loop' = loop
        /\ work' = [work EXCEPT ![w].pc = "push"] /\ ses' = [ses EXCEPT ![s].mRunning = FALSE]
    BY <1>0 DEF SetNotRunning
  <1>3. PICK x : x = [work[w] EXCEPT !.pc = "push"]
    OBVIOUS
  <1>4. work' = [work EXCEPT ![w] = x]
    BY <1>1, <1>2, <1>3
  <1>5. IsWork(x) /\ x.pc = "push" /\ x.kind = work[w].kind /\ x.s = s
    <2>1. /\ x = [pc |-> x.pc, kind |-> x.kind, s |-> x.s, status |-> x.status, resp |-> x.resp]
          /\ x.pc = "push" /\ x.kind = work[w].kind /\ x.s = work[w].s
      BY <1>0, <1>1, <1>3 DEF IsWork
    <2> QED
      BY <1>0, <1>1, <2>1 DEF IsWork
  <1>6. Grip(work[w]) = <<"handler", s>> /\ Grip(x) = <<"none", 0>>
    BY <1>0, <1>1, <1>5 DEF Grip, HandlerKinds, FinalKinds
  <1>7. /\ Managed(s) /\ ses[s].mRunning /\ SessionOK(s)
        /\ IsSession(ses[s]) /\ ses[s].mWriting = ses[s].writeEvent
    BY <1>1, <1>6, GripCounts, SessionFacts
  <1>8. PICK q : q = [ses[s] EXCEPT !.mRunning = FALSE]
    OBVIOUS
  <1>9. /\ DOMAIN ses' = Objects /\ ses'[s] = q
        /\ \A t \in Objects : t # s => ses'[t] = ses[t]
    BY <1>1, <1>2, <1>8
  <1>10. /\ IsSession(q) /\ q.life = ses[s].life /\ q.mSid = ses[s].mSid
         /\ q.mRunning = FALSE /\ q.mWriting = ses[s].mWriting /\ q.readEvent = ses[s].readEvent
         /\ q.writeEvent = ses[s].writeEvent /\ q.mOutList = ses[s].mOutList
    BY <1>7, <1>8 DEF IsSession
  <1>11. \A t \in Objects : IsSession(ses'[t])
    BY <1>1, <1>9, <1>10 DEF ServerTyped
  <1>12. ServerTyped'
    BY <1>2, <1>4, <1>5, <1>9, <1>11, WorkChanged
  <1>13. ASSUME NEW t \in Objects
         PROVE  /\ HandlerUses(t)' = HandlerUses(t) - Has({s}, t)
                /\ FinalUses(t)' = FinalUses(t)
                /\ HandlerUses(t) \in Nat /\ FinalUses(t) \in Nat
    <2> DEFINE H == {<<"handler", t>>}
               F == {<<"final", t>>}
    <2>1. /\ HandlerUses(t)' = HandlerUses(t) - Has(H, Grip(work[w])) + Has(H, Grip(x))
          /\ FinalUses(t)' = FinalUses(t) - Has(F, Grip(work[w])) + Has(F, Grip(x))
      BY <1>1, <1>2, <1>4, UsesStep
    <2>2. HandlerUses(t) \in Nat /\ FinalUses(t) \in Nat
      BY <1>1, UsesType
    <2>3. /\ Has(H, Grip(work[w])) = Has({s}, t) /\ Has(H, Grip(x)) = 0
          /\ Has(F, Grip(work[w])) = 0 /\ Has(F, Grip(x)) = 0 /\ Has({s}, t) \in Nat
      BY <1>6 DEF Has
    <2> HIDE DEF H, F
    <2> QED
      BY <2>1, <2>2, <2>3
  <1>14. ASSUME NEW t \in Objects, t # s
         PROVE  HandlerUses(t)' = HandlerUses(t)
    <2>1. Has({s}, t) = 0
      BY <1>14 DEF Has
    <2> QED
      BY <1>13, <2>1
  <1>15. HandlerUses(s)' = 0
    <2>1. Has({s}, s) = 1 /\ HandlerUses(s) = 1
      BY <1>7 DEF Has, SessionOK
    <2> QED
      BY <1>1, <1>13, <2>1
  <1>16. \A t \in Objects : Managed(t)' <=> Managed(t)
    BY <1>2, <1>9, <1>10 DEF Managed
  <1>17. SessionOK(s)'
    <2>1. FinalUses(s)' = FinalUses(s) /\ (Managed(s)' <=> Managed(s))
      BY <1>1, <1>13, <1>16
    <2> QED
      BY <1>2, <1>7, <1>9, <1>10, <1>15, <2>1 DEF SessionOK
  <1>18. TableMaps' /\ TableOK(mgr', Objects)
    BY <1>2, <1>9, <1>10 DEF ServerInv, TableMaps
  <1> QED
    BY <1>1, <1>2, <1>9, <1>12, <1>13, <1>14, <1>16, <1>17, <1>18, Frame

\* msgqueue_push keeps the invariant.
LEMMA PushResponseInv ==
    ASSUME ServerInv, NEW w \in Threads, PushResponse(w), work[w].kind \in Kinds \ {"close"}
    PROVE  ServerInv'
  <1>1. /\ ServerTyped /\ DOMAIN work = Threads /\ IsWork(work[w]) /\ DOMAIN ses = Objects
        /\ work[w].pc = "push" /\ work[w].s \in Objects
        /\ \A t \in Objects : IsSession(ses[t])
    BY WorkFacts DEF PushResponse, ServerTyped
  <1>2. /\ inputQ' = inputQ /\ execQ' = execQ /\ mgr' = mgr /\ loop' = loop /\ ses' = ses
        /\ work' = [work EXCEPT ![w] = IF work[w].kind \in {"error", "timeout"}
                                       THEN [@ EXCEPT !.pc = "destroy"] ELSE Idle]
    BY DEF PushResponse
  <1>3. CASE work[w].kind \in {"error", "timeout"}
    <2>1. PICK x : x = [work[w] EXCEPT !.pc = "destroy"]
      OBVIOUS
    <2>2. work' = [work EXCEPT ![w] = x]
      BY <1>1, <1>2, <1>3, <2>1
    <2>3. /\ x = [pc |-> x.pc, kind |-> x.kind, s |-> x.s, status |-> x.status, resp |-> x.resp]
          /\ x.pc = "destroy" /\ x.kind = work[w].kind /\ x.s = work[w].s
      BY <1>1, <2>1 DEF IsWork
    <2>4. IsWork(x)
      BY <1>1, <2>3 DEF IsWork
    <2>5. Grip(x) = Grip(work[w])
      BY <1>1, <1>3, <2>3 DEF Grip, HandlerKinds, FinalKinds
    <2> QED
      BY <1>1, <1>2, <2>2, <2>4, <2>5, WorkChanged, TouchNone
  <1>4. CASE work[w].kind \notin {"error", "timeout"}
    <2>1. work' = [work EXCEPT ![w] = Idle]
      BY <1>1, <1>2, <1>4
    <2>2. IsWork(Idle)
      BY DEF IsWork, Idle
    <2>3. Grip(Idle) = Grip(work[w])
      BY <1>1, <1>4 DEF Grip, Idle, Kinds, HandlerKinds, FinalKinds
    <2> QED
      BY <1>1, <1>2, <2>1, <2>2, <2>3, WorkChanged, TouchNone
  <1> QED
    BY <1>3, <1>4

\* delete session keeps the invariant: it ends the last use of a session that the
\* table, libevent and the loop no longer know.
LEMMA DestroySessionInv ==
    ASSUME ServerInv, NEW w \in Threads, DestroySession(w), work[w].kind \in FinalKinds
    PROVE  ServerInv'
  <1>0. PICK s : s = work[w].s
    OBVIOUS
  <1>r. PICK r : r = ses[s]
    OBVIOUS
  <1>1. /\ ServerTyped /\ DOMAIN work = Threads /\ IsWork(work[w]) /\ DOMAIN ses = Objects
        /\ work[w].pc = "destroy" /\ s \in Objects
    BY <1>0, WorkFacts DEF DestroySession
  <1>2. PICK q : /\ q = [NewSession EXCEPT !.life = "deleted", !.mSid = r.mSid,
                             !.published = r.published, !.readEvent = r.readEvent,
                             !.writeEvent = r.writeEvent, !.mOutList = r.mOutList]
                 /\ ses' = [ses EXCEPT ![s] = q]
    BY <1>0, <1>r DEF DestroySession
  <1>3. /\ inputQ' = inputQ /\ execQ' = execQ /\ mgr' = mgr /\ loop' = loop
        /\ work' = [work EXCEPT ![w] = Idle]
    BY DEF DestroySession
  <1>4. IsWork(Idle) /\ Grip(Idle) = <<"none", 0>> /\ Grip(work[w]) = <<"final", s>>
    <2>1. IsWork(Idle)
      BY DEF IsWork, Idle
    <2>2. Grip(Idle) = <<"none", 0>>
      BY DEF Grip, Idle, HandlerKinds, FinalKinds
    <2>3. Grip(work[w]) = <<"final", s>>
      BY <1>0, <1>1 DEF Grip, HandlerKinds, FinalKinds
    <2> QED
      BY <2>1, <2>2, <2>3
  <1>5. r.life = "live" /\ ~Managed(s) /\ SessionOK(s)
    BY <1>r, <1>1, <1>4, GripCounts, SessionFacts
  <1>6. /\ IsSession(q) /\ q.life = "deleted" /\ q.mSid = r.mSid /\ q.mRunning = FALSE
        /\ q.readEvent = r.readEvent /\ q.writeEvent = r.writeEvent /\ q.mOutList = r.mOutList
    BY <1>2 DEF NewSession, IsSession
  <1>7. /\ DOMAIN ses' = Objects /\ ses'[s] = q
        /\ \A t \in Objects : t # s => ses'[t] = ses[t]
    BY <1>1, <1>2
  <1>8. \A t \in Objects : IsSession(ses'[t])
    BY <1>1, <1>6, <1>7 DEF ServerTyped
  <1>9. ServerTyped'
    BY <1>3, <1>4, <1>7, <1>8, WorkChanged
  <1>10. ASSUME NEW t \in Objects
         PROVE  /\ FinalUses(t)' = FinalUses(t) - Has({s}, t)
                /\ HandlerUses(t)' = HandlerUses(t)
                /\ HandlerUses(t) \in Nat /\ FinalUses(t) \in Nat
    <2> DEFINE H == {<<"handler", t>>}
               F == {<<"final", t>>}
    <2>1. /\ HandlerUses(t)' = HandlerUses(t) - Has(H, Grip(work[w])) + Has(H, Grip(Idle))
          /\ FinalUses(t)' = FinalUses(t) - Has(F, Grip(work[w])) + Has(F, Grip(Idle))
      BY <1>1, <1>3, UsesStep
    <2>2. HandlerUses(t) \in Nat /\ FinalUses(t) \in Nat
      BY <1>1, UsesType
    <2>3. /\ Has(F, Grip(work[w])) = Has({s}, t) /\ Has(F, Grip(Idle)) = 0
          /\ Has(H, Grip(work[w])) = 0 /\ Has(H, Grip(Idle)) = 0 /\ Has({s}, t) \in Nat
      BY <1>4 DEF Has
    <2> HIDE DEF H, F
    <2> QED
      BY <2>1, <2>2, <2>3
  <1>11. ASSUME NEW t \in Objects, t # s
         PROVE  FinalUses(t)' = FinalUses(t)
    <2>1. Has({s}, t) = 0
      BY <1>11 DEF Has
    <2> QED
      BY <1>10, <2>1
  <1>12. FinalUses(s)' = 0 /\ HandlerUses(s)' = 0
    <2>1. Has({s}, s) = 1 /\ FinalUses(s) = 1 /\ HandlerUses(s) = 0
      BY <1>r, <1>5 DEF Has, SessionOK
    <2> QED
      BY <1>1, <1>10, <2>1
  <1>13. \A t \in Objects : t # s => (Managed(t)' <=> Managed(t))
    BY <1>3, <1>7 DEF Managed
  <1>14. SessionOK(s)'
    <2>1. ~Managed(s)'
      BY <1>6, <1>7 DEF Managed
    <2>2. ~r.readEvent /\ ~r.writeEvent /\ loop.s # s /\ r.mOutList = <<>>
      BY <1>r, <1>5 DEF SessionOK
    <2> QED
      BY <1>3, <1>6, <1>7, <1>12, <2>1, <2>2 DEF SessionOK
  <1>15. TableMaps'
    <2> SUFFICES ASSUME NEW k \in Keys, NEW t \in Objects, mgr'.mSession[k] = t
                 PROVE  ses'[t].life = "live" /\ ses'[t].mSid.mKey = k
      BY DEF TableMaps
    <2>1. mgr.mSession[k] = t /\ ses[t].life = "live" /\ ses[t].mSid.mKey = k
      BY <1>3 DEF ServerInv, TableMaps
    <2>2. t # s
      BY <1>r, <1>5, <2>1 DEF Managed
    <2> QED
      BY <1>7, <2>1, <2>2
  <1>16. TableOK(mgr', Objects)
    BY <1>3 DEF ServerInv
  <1> QED
    BY <1>1, <1>3, <1>7, <1>9, <1>10, <1>11, <1>13, <1>14, <1>15, <1>16, Frame

\* Every step keeps the invariant.
LEMMA ServerInvNext == ServerInv /\ [Next]_vars => ServerInv'
  <1> SUFFICES ASSUME ServerInv, [Next]_vars PROVE ServerInv'
    OBVIOUS
  <1>1. ASSUME NEW s \in Objects, OnAccept(s) PROVE ServerInv'
    BY <1>1, OnAcceptInv
  <1>2. ASSUME NEW s \in Objects, OnRead(s) PROVE ServerInv'
    BY <1>2, OnReadDataInv, OnReadEndInv DEF OnRead
  <1>3. ASSUME NEW s \in Objects, OnReadTimeout(s) \/ OnWriteTimeout(s) PROVE ServerInv'
    BY <1>3, OnTimeoutInv
  <1>4. ASSUME NEW s \in Objects, OnWriteEvent(s) PROVE ServerInv'
    BY <1>4, OnWriteInv, OnWriteErrorInv DEF OnWriteEvent
  <1>5. ASSUME NEW s \in Objects, OnWriteTail(s) PROVE ServerInv'
    BY <1>5, OnWriteTailInv
  <1>6. CASE OnResponse \/ DrainInput
    BY <1>6, OnResponseInv, DrainInv
  <1>7. ASSUME NEW w \in Threads, WorkerStep(w) PROVE ServerInv'
    <2>1. CASE TakeTask(w)
      BY <2>1, TakeTaskInv
    <2>2. CASE WorkerTask(w) \/ StartTask(w)
      <3>1. work[w].kind \in HandlerKinds /\ work[w].kind \in Kinds \ {"close"}
        BY <2>2 DEF WorkerTask, StartTask, HandlerKinds, Kinds
      <3> QED
        BY <2>2, <3>1, HandlerStepInv, SetStatusInv, SetNotRunningInv, PushResponseInv
           DEF WorkerTask, StartTask
    <2>3. CASE ErrorTask(w) \/ TimeoutTask(w)
      <3>1. work[w].kind \in FinalKinds /\ work[w].kind \in Kinds \ {"close"}
        BY <2>3 DEF ErrorTask, TimeoutTask, FinalKinds, Kinds
      <3> QED
        BY <2>3, <3>1, HandlerStepInv, PushResponseInv, DestroySessionInv
           DEF ErrorTask, TimeoutTask
    <2>4. CASE CloseTask(w)
      BY <2>4, DestroySessionInv DEF CloseTask, FinalKinds
    <2> QED
      BY <1>7, <2>1, <2>2, <2>3, <2>4 DEF WorkerStep
  <1>8. CASE PeerStep \/ UNCHANGED vars
    <2>1. /\ mgr' = mgr /\ ses' = ses /\ inputQ' = inputQ /\ execQ' = execQ /\ work' = work
          /\ loop' = loop
      BY <1>8 DEF PeerStep, PeerSend, PeerLeave, vars
    <2>2. \A t \in Objects : HandlerUses(t)' = HandlerUses(t) /\ FinalUses(t)' = FinalUses(t)
      BY <2>1, UsesKept
    <2> QED
      BY <2>1, <2>2, TouchNone DEF ServerInv, ServerTyped
  <1> QED
    BY <1>1, <1>2, <1>3, <1>4, <1>5, <1>6, <1>7, <1>8 DEF Next, LoopStep

-----------------------------------------------------------------------------
(* The theorems *)

\* Users and HandlerBusy, in which the properties are stated, are the uses that
\* the invariant counts.
LEMMA UsersCounted ==
    ASSUME ServerInv, NEW s \in Objects
    PROVE  /\ Users(s) = HandlerUses(s) + FinalUses(s)
           /\ HandlerBusy(s) <=> HandlerUses(s) # 0
  <1> DEFINE H == {<<"handler", s>>}
             F == {<<"final", s>>}
             A == HandlerTasks(s)
             Z == FinalTasks(s)
             rh == Running(s, HandlerKinds, {"handle", "status", "unrun"})
             rf == Running(s, FinalKinds, {"handle", "push", "destroy"})
  <1>1. /\ ServerTyped /\ inputQ \in Seq(Tasks) /\ execQ \in Seq(Tasks) /\ IsFiniteSet(Threads)
        /\ DOMAIN Grips = Threads
    BY ServerAssumption DEF ServerInv, ServerTyped, Grips
  <1>2. ASSUME NEW y \in Tasks
        PROVE  /\ y \in A <=> y.s = s /\ y.kind \in HandlerKinds
               /\ y \in Z <=> y.s = s /\ y.kind \in FinalKinds
               /\ y.kind \in Kinds
    BY DEF Tasks, HandlerTasks, FinalTasks, Task, HandlerKinds, FinalKinds, Kinds
  <1>3. \A x \in Kinds : (x \in HandlerKinds \/ x \in FinalKinds)
                         /\ ~(x \in HandlerKinds /\ x \in FinalKinds)
    BY DEF HandlerKinds, FinalKinds, Kinds
  <1>4. ASSUME NEW q \in Seq(Tasks)
        PROVE  /\ {i \in DOMAIN q : q[i].s = s /\ q[i].kind \in HandlerKinds} = Places(q, A)
               /\ {i \in DOMAIN q : q[i].s = s /\ q[i].kind \in Kinds}
                     = Places(q, A) \cup Places(q, Z)
               /\ Cardinality(Places(q, A) \cup Places(q, Z)) = Count(q, A) + Count(q, Z)
               /\ Places(q, A) = {} <=> Count(q, A) = 0
    <2>1. \A i \in DOMAIN q : q[i] \in Tasks
      BY ElementOfSeq, LenProperties
    <2>2. \A i \in DOMAIN q : /\ i \in Places(q, A) <=> q[i].s = s /\ q[i].kind \in HandlerKinds
                              /\ i \in Places(q, Z) <=> q[i].s = s /\ q[i].kind \in FinalKinds
                              /\ q[i].kind \in Kinds
      BY <1>2, <2>1 DEF Places
    <2>3. Places(q, A) \subseteq DOMAIN q /\ Places(q, Z) \subseteq DOMAIN q
      BY DEF Places
    <2>4. Places(q, A) \cap Places(q, Z) = {}
      BY <1>3, <2>2, <2>3
    <2>5. /\ IsFiniteSet(Places(q, A)) /\ IsFiniteSet(Places(q, Z))
          /\ Count(q, A) \in Nat /\ Count(q, Z) \in Nat
      BY CountSeqType
    <2>6. Cardinality(Places(q, A) \cup Places(q, Z)) = Count(q, A) + Count(q, Z)
      <3>1. Count(q, A) = Cardinality(Places(q, A)) /\ Count(q, Z) = Cardinality(Places(q, Z))
        BY DEF Count
      <3>2. Cardinality(Places(q, A) \cap Places(q, Z)) = 0
        BY <2>4, FS_EmptySet
      <3>3. Cardinality(Places(q, A) \cup Places(q, Z))
              = Count(q, A) + Count(q, Z) - Cardinality(Places(q, A) \cap Places(q, Z))
        BY <2>5, <3>1, FS_Union
      <3> HIDE DEF A, Z
      <3> QED
        BY <2>5, <3>2, <3>3
    <2>7. Places(q, A) = {} <=> Count(q, A) = 0
      BY <2>5, FS_EmptySet DEF Count
    <2>8. {i \in DOMAIN q : q[i].s = s /\ q[i].kind \in HandlerKinds} = Places(q, A)
      BY <2>2, <2>3
    <2>9. {i \in DOMAIN q : q[i].s = s /\ q[i].kind \in Kinds} = Places(q, A) \cup Places(q, Z)
      BY <1>3, <2>2, <2>3
    <2> QED
      BY <2>6, <2>7, <2>8, <2>9
  <1>5. rh = Places(Grips, H) /\ rf = Places(Grips, F)
    <2>1. \A w \in Threads : w \in rh <=> w \in Places(Grips, H)
      BY <1>1 DEF Running, Places, Grips, Grip
    <2>2. \A w \in Threads : w \in rf <=> w \in Places(Grips, F)
      BY <1>1 DEF Running, Places, Grips, Grip, HandlerKinds, FinalKinds
    <2>3. rh \subseteq Threads /\ Places(Grips, H) \subseteq Threads
          /\ rf \subseteq Threads /\ Places(Grips, F) \subseteq Threads
      BY <1>1 DEF Running, Places
    <2> HIDE DEF rh, rf, H, F
    <2> QED
      BY <2>1, <2>2, <2>3
  <1>6. /\ Queued(s, HandlerKinds) = Places(inputQ, A)
        /\ Waiting(s, HandlerKinds) = Places(execQ, A)
        /\ Queued(s, Kinds) = Places(inputQ, A) \cup Places(inputQ, Z)
        /\ Waiting(s, Kinds) = Places(execQ, A) \cup Places(execQ, Z)
    BY <1>1, <1>4 DEF Queued, Waiting
  <1>7. /\ Count(inputQ, A) \in Nat /\ Count(execQ, A) \in Nat
        /\ Count(inputQ, Z) \in Nat /\ Count(execQ, Z) \in Nat
        /\ Count(Grips, H) \in Nat /\ Count(Grips, F) \in Nat
    BY <1>1, UsesType
  <1>8. /\ HandlerUses(s) = Count(inputQ, A) + Count(execQ, A) + Count(Grips, H)
        /\ FinalUses(s) = Count(inputQ, Z) + Count(execQ, Z) + Count(Grips, F)
    BY DEF HandlerUses, FinalUses
  <1>9. IsFiniteSet(Places(Grips, H))
    BY <1>1, CountFunType
  <1>10. Places(Grips, H) = {} <=> Count(Grips, H) = 0
    BY <1>9, FS_EmptySet DEF Count
  <1>11. /\ Places(inputQ, A) = {} <=> Count(inputQ, A) = 0
         /\ Places(execQ, A) = {} <=> Count(execQ, A) = 0
         /\ Cardinality(Places(inputQ, A) \cup Places(inputQ, Z))
              = Count(inputQ, A) + Count(inputQ, Z)
         /\ Cardinality(Places(execQ, A) \cup Places(execQ, Z))
              = Count(execQ, A) + Count(execQ, Z)
    BY <1>1, <1>4
  <1>12. HandlerBusy(s) <=> \/ Places(inputQ, A) # {} \/ Places(execQ, A) # {}
                            \/ Places(Grips, H) # {}
    BY <1>5, <1>6 DEF HandlerBusy
  <1>13. Users(s) = (Count(inputQ, A) + Count(inputQ, Z)) + (Count(execQ, A) + Count(execQ, Z))
                    + Count(Grips, H) + Count(Grips, F)
    <2>1. Cardinality(rh) = Count(Grips, H) /\ Cardinality(rf) = Count(Grips, F)
      BY <1>5 DEF Count
    <2>2. Users(s) = Cardinality(Queued(s, Kinds)) + Cardinality(Waiting(s, Kinds))
                     + Cardinality(rh) + Cardinality(rf)
      BY DEF Users
    <2> HIDE DEF rh, rf, A, Z, H, F
    <2> QED
      BY <1>6, <1>11, <2>1, <2>2
  <1> HIDE DEF A, Z, H, F
  <1>14. HandlerBusy(s) <=> HandlerUses(s) # 0
    <2>1. HandlerUses(s) = 0 <=> /\ Count(inputQ, A) = 0 /\ Count(execQ, A) = 0
                                 /\ Count(Grips, H) = 0
      BY <1>7, <1>8
    <2>2. /\ Places(inputQ, A) # {} <=> Count(inputQ, A) # 0
          /\ Places(execQ, A) # {} <=> Count(execQ, A) # 0
          /\ Places(Grips, H) # {} <=> Count(Grips, H) # 0
      BY <1>10, <1>11
    <2> QED
      BY <1>12, <2>1, <2>2
  <1>15. Users(s) = HandlerUses(s) + FinalUses(s)
    BY <1>7, <1>8, <1>13
  <1> QED
    BY <1>14, <1>15

\* The invariant implies the properties.
LEMMA ServerInvMeans ==
    ServerInv => HandlerExclusive /\ NoDanglingSession /\ WritingFlagExact
  <1> SUFFICES ASSUME ServerInv
               PROVE  HandlerExclusive /\ NoDanglingSession /\ WritingFlagExact
    OBVIOUS
  <1>1. ASSUME NEW s \in Objects
        PROVE  /\ SessionOK(s) /\ Users(s) = HandlerUses(s) + FinalUses(s)
               /\ HandlerBusy(s) <=> HandlerUses(s) # 0
               /\ HandlerUses(s) = 1 <=> ses[s].mRunning
               /\ HandlerUses(s) \in {0, 1} /\ FinalUses(s) \in {0, 1}
    BY UsersCounted, SessionFacts DEF SessionOK
  <1>2. HandlerExclusive
    <2> SUFFICES ASSUME NEW s \in Objects
                 PROVE  Users(s) <= 1 /\ (ses[s].mRunning <=> HandlerBusy(s))
      BY DEF HandlerExclusive
    <2>1. ~(HandlerUses(s) = 1 /\ FinalUses(s) = 1)
      BY <1>1 DEF SessionOK
    <2> QED
      BY <1>1, <2>1
  <1>3. NoDanglingSession
    <2> SUFFICES ASSUME NEW s \in Objects
                 PROVE  /\ ses[s].life = "deleted" =>
                              /\ \A k \in Keys : mgr.mSession[k] # s
                              /\ ~ses[s].readEvent /\ ~ses[s].writeEvent
                              /\ Users(s) = 0 /\ loop.s # s
                              /\ ses[s].mOutList = <<>>
                        /\ ses[s].life = "live" /\ ~Managed(s) =>
                              /\ ~ses[s].readEvent /\ ~ses[s].writeEvent /\ loop.s # s
                              /\ ~HandlerBusy(s) /\ Users(s) = 1
      BY DEF NoDanglingSession
    <2>1. ASSUME ses[s].life = "deleted"
          PROVE  /\ \A k \in Keys : mgr.mSession[k] # s
                 /\ ~ses[s].readEvent /\ ~ses[s].writeEvent
                 /\ Users(s) = 0 /\ loop.s # s /\ ses[s].mOutList = <<>>
      <3>1. ~Managed(s)
        BY <2>1 DEF Managed
      <3>2. \A k \in Keys : mgr.mSession[k] # s
        BY <2>1 DEF ServerInv, TableMaps
      <3>3. HandlerUses(s) = 0 /\ FinalUses(s) = 0
        BY <1>1, <2>1, <3>1 DEF SessionOK
      <3> QED
        BY <1>1, <2>1, <3>1, <3>2, <3>3 DEF SessionOK
    <2>2. ASSUME ses[s].life = "live", ~Managed(s)
          PROVE  /\ ~ses[s].readEvent /\ ~ses[s].writeEvent /\ loop.s # s
                 /\ ~HandlerBusy(s) /\ Users(s) = 1
      <3>1. HandlerUses(s) = 0 /\ FinalUses(s) = 1
        BY <1>1, <2>2 DEF SessionOK
      <3> QED
        BY <1>1, <2>2, <3>1 DEF SessionOK
    <2> QED
      BY <2>1, <2>2
  <1>4. WritingFlagExact
    BY <1>1 DEF WritingFlagExact, SessionOK
  <1> QED
    BY <1>2, <1>3, <1>4

\* The invariant holds in every reachable state.
THEOREM ServerInvariant == Spec => []ServerInv
  BY ServerInvInit, ServerInvNext, PTL DEF Spec

\* For any number of sessions, threads and queued tasks, the handler of a session
\* is used by one thread at a time and mRunning, read by the loop and cleared by
\* the worker without a lock, is set exactly while a task owns it (speventcb.cpp
\* tests it before doWork, doError, doTimeout and doClose).
THEOREM Exclusive == Spec => []HandlerExclusive
  BY ServerInvariant, ServerInvMeans, PTL

\* delete session at the end of an error, timeout or close task leaves nothing
\* behind: no table entry, event, task or callback refers to a deleted session, and
\* a session that left the table waits for exactly one such task.
THEOREM NoDangling == Spec => []NoDanglingSession
  BY ServerInvariant, ServerInvMeans, PTL

\* addEvent, which trusts mWriting, never skips the registration of a write event
\* that libevent does not have.
THEOREM WritingFlag == Spec => []WritingFlagExact
  BY ServerInvariant, ServerInvMeans, PTL

-----------------------------------------------------------------------------
(***************************************************************************)
(* The messages (MessageAccounting).                                       *)
(*                                                                         *)
(* A message is first in one response, of a task or of the queue, and no   *)
(* outList refers to it; onResponse moves it to the outLists of the        *)
(* sessions that its toList names; each of them takes it off its outList   *)
(* and its own sid off the toList in the same callback.  That the two      *)
(* agree needs that two sessions of the table never share a sid and that   *)
(* the sid of a session in the table is current, so that get() finds the   *)
(* session that has it.                                                    *)
(***************************************************************************)

(* The inductive invariant of the messages *)

\* What a response can name: the sid of a session, or that of an object that has
\* not been accepted.
AnySid == Sids \cup {NoSid}
\* The responses, and those that carry the message m.
Resps == [from : AnySid, msg : HandlerMsgs \cup {0}, close : SUBSET AnySid]
RespsOf(m) == {r \in Resps : r.msg = m}

\* A task holds its response from the handler's return to msgqueue_push; the
\* message it carries, or 0.
Laden == {"status", "unrun", "push"}
Carried(x) == IF x.pc \in Laden THEN x.resp.msg ELSE 0
Loads == [w \in Threads |-> Carried(work[w])]
\* In how many responses, of tasks and of the queue, the message is.
InFlight(m) == Count(Loads, {m}) + Count(respQ, RespsOf(m))

\* A message record has exactly the fields of SP_Message that are modelled.
IsMessage(r) ==
    r = [made |-> r.made, size |-> r.size, all |-> r.all, to |-> r.to, ok |-> r.ok,
         fail |-> r.fail, completions |-> r.completions]

\* A message is in an outList at most once.
Injective(q) == \A i, j \in DOMAIN q : q[i] = q[j] => i = j

\* The list contains the message.
Holds(q, m) == \E i \in DOMAIN q : q[i] = m

\* Of one session: its outList names messages, each once, and is empty outside
\* the table; the sid of a session in the table is current.
OutListOK(s) ==
    /\ ses[s].mSid \in AnySid
    /\ ses[s].mOutList \in Seq(Msgs) /\ Injective(ses[s].mOutList)
    /\ ~Managed(s) => ses[s].mOutList = <<>>
    /\ Managed(s) => mgr.mSeq[ses[s].mSid.mKey] = ses[s].mSid.mSeq

\* The outList of s contains the message.
Holder(s, m) == \E i \in DOMAIN ses[s].mOutList : ses[s].mOutList[i] = m

\* The part of the type invariant that the proofs need.
MsgsTyped ==
    /\ DOMAIN msgs = Msgs /\ \A m \in Msgs : IsMessage(msgs[m])
    /\ respQ \in Seq(Resps)
    /\ \A w \in Threads : work[w].pc \in Laden => work[w].resp \in Resps

\* toList, success list and failure list partition the addressees.
Lists(msg) ==
    /\ msg.all \subseteq AnySid
    /\ msg.all = msg.to \cup msg.ok \cup msg.fail
    /\ msg.to \cap (msg.ok \cup msg.fail) = {} /\ msg.ok \cap msg.fail = {}

\* Of one message of a handler: it is in one response at most, and while it is,
\* no outList refers to it and it is not completed; after onResponse the sessions
\* that hold it are exactly the ones of its toList, and it has been completed once
\* if that list is empty, never otherwise.
MessageOK(m) ==
    /\ InFlight(m) \in {0, 1}
    /\ InFlight(m) = 1 => /\ msgs[m].made /\ msgs[m].completions = 0
                          /\ \A s \in Objects : ~Holder(s, m)
    /\ ~msgs[m].made => \A s \in Objects : ~Holder(s, m)
    /\ msgs[m].made => Lists(msgs[m])
    /\ msgs[m].made /\ InFlight(m) = 0 =>
          /\ \A s \in Objects : Holder(s, m) => ses[s].mSid \in msgs[m].to
          /\ \A sid \in msgs[m].to : \E s \in Objects : Holder(s, m) /\ ses[s].mSid = sid
          /\ msgs[m].completions = IF msgs[m].to = {} THEN 1 ELSE 0

\* The inductive invariant, relative to ServerInv.
MsgInv ==
    /\ MsgsTyped
    /\ \A s \in Objects : OutListOK(s)
    /\ \A m \in HandlerMsgs : MessageOK(m)

-----------------------------------------------------------------------------
(* Steps that leave most messages alone *)

\* The numbers are natural numbers.
LEMMA FlightType ==
    ASSUME MsgsTyped, NEW m
    PROVE  /\ Count(Loads, {m}) \in Nat /\ Count(respQ, RespsOf(m)) \in Nat
           /\ InFlight(m) \in Nat
  <1>1. DOMAIN Loads = Threads /\ IsFiniteSet(Threads)
    BY ServerAssumption DEF Loads
  <1>2. Count(Loads, {m}) \in Nat
    BY <1>1, CountFunType
  <1>3. Count(respQ, RespsOf(m)) \in Nat
    BY CountSeqType DEF MsgsTyped
  <1> QED
    BY <1>2, <1>3 DEF InFlight

\* A step that leaves the threads and the queue alone keeps the responses.
LEMMA FlightKept ==
    ASSUME work' = work, respQ' = respQ
    PROVE  \A m : InFlight(m)' = InFlight(m)
  <1>1. Loads' = Loads
    BY DEF Loads
  <1> QED
    BY <1>1 DEF InFlight

\* A step of one thread changes the counts by what it carries only.
LEMMA LoadsChanged ==
    ASSUME ServerTyped, NEW w \in Threads, NEW x, work' = [work EXCEPT ![w] = x], NEW A
    PROVE  /\ Count(Loads', A) = Count(Loads, A) - Has(A, Carried(work[w])) + Has(A, Carried(x))
           /\ Has(A, Carried(work[w])) \in Nat /\ Has(A, Carried(x)) \in Nat
  <1> DEFINE f == Loads
             g == Loads'
  <1>1. /\ DOMAIN f = Threads /\ DOMAIN g = Threads /\ g[w] = Carried(x) /\ f[w] = Carried(work[w])
        /\ \A u \in Threads : u # w => g[u] = f[u]
    <2>1. \A u \in Threads : f[u] = Carried(work[u]) /\ g[u] = Carried(work'[u])
      BY DEF Loads
    <2>2. work'[w] = x /\ \A u \in Threads : u # w => work'[u] = work[u]
      BY DEF ServerTyped
    <2>3. DOMAIN f = Threads /\ DOMAIN g = Threads
      BY DEF Loads
    <2> HIDE DEF f, g
    <2> QED
      BY <2>1, <2>2, <2>3
  <1> HIDE DEF f, g
  <1>2. IsFiniteSet(Threads)
    BY ServerAssumption
  <1>3. Count(g, A) = Count(f, A) - Has(A, f[w]) + Has(A, g[w])
    BY <1>1, <1>2, CountChange
  <1>4. Has(A, Carried(work[w])) \in Nat /\ Has(A, Carried(x)) \in Nat
    BY DEF Has
  <1> QED
    BY <1>1, <1>3, <1>4 DEF f, g

\* The responses that hold a message after a step of one thread.
LEMMA FlightStep ==
    ASSUME MsgsTyped, ServerTyped, NEW w \in Threads, NEW x,
           work' = [work EXCEPT ![w] = x], respQ' = respQ, NEW m
    PROVE  InFlight(m)' = InFlight(m) - Has({m}, Carried(work[w])) + Has({m}, Carried(x))
  <1>1. PICK H : H = {m}
    OBVIOUS
  <1>2. /\ Count(Loads', H) = Count(Loads, H) - Has(H, Carried(work[w])) + Has(H, Carried(x))
        /\ Has(H, Carried(work[w])) \in Nat /\ Has(H, Carried(x)) \in Nat
    BY LoadsChanged
  <1>3. /\ InFlight(m)' = Count(Loads', H) + Count(respQ, RespsOf(m))
        /\ InFlight(m) = Count(Loads, H) + Count(respQ, RespsOf(m))
    BY <1>1 DEF InFlight
  <1>4. Count(Loads, H) \in Nat /\ Count(respQ, RespsOf(m)) \in Nat
    BY <1>1, FlightType
  <1>5. InFlight(m)' = InFlight(m) - Has(H, Carried(work[w])) + Has(H, Carried(x))
    BY <1>2, <1>3, <1>4
  <1> QED
    BY <1>1, <1>5

\* What a session holds, and who it is, stays.
SameHolding(s) ==
    ses'[s].mSid = ses[s].mSid /\ ses'[s].mOutList = ses[s].mOutList

\* A step that leaves the outList of a session alone keeps OutListOK for it.
LEMMA OutListFrame ==
    ASSUME NEW s \in Objects, OutListOK(s), SameHolding(s), Managed(s)' <=> Managed(s),
           Managed(s) => mgr'.mSeq[ses[s].mSid.mKey] = mgr.mSeq[ses[s].mSid.mKey]
    PROVE  OutListOK(s)'
  BY DEF OutListOK, SameHolding

\* A step that leaves a message and its holders alone keeps MessageOK for it.
LEMMA MessageFrame ==
    ASSUME NEW m, MessageOK(m), msgs'[m] = msgs[m], InFlight(m)' = InFlight(m),
           \A s \in Objects : Holder(s, m)' <=> Holder(s, m),
           \A s \in Objects : Holder(s, m) => ses'[s].mSid = ses[s].mSid
    PROVE  MessageOK(m)'
  BY DEF MessageOK

\* Steps that leave the messages and the outLists alone.
LEMMA MsgFrame ==
    ASSUME ServerInv, MsgInv, mgr' = mgr, msgs' = msgs,
           \A t \in Objects : SameHolding(t) /\ (Managed(t)' <=> Managed(t)),
           respQ' \in Seq(Resps),
           \A w \in Threads : work'[w].pc \in Laden => work'[w].resp \in Resps,
           \A m \in HandlerMsgs : InFlight(m)' = InFlight(m)
    PROVE  MsgInv'
  <1>1. MsgsTyped'
    BY DEF MsgInv, MsgsTyped
  <1>2. \A t \in Objects : OutListOK(t)'
    BY OutListFrame DEF MsgInv
  <1>3. ASSUME NEW m \in HandlerMsgs
        PROVE  MessageOK(m)'
    <2>1. \A s \in Objects : Holder(s, m)' <=> Holder(s, m)
      BY DEF Holder, SameHolding
    <2>2. \A s \in Objects : ses'[s].mSid = ses[s].mSid
      BY DEF SameHolding
    <2>3. MessageOK(m)
      BY DEF MsgInv
    <2> QED
      BY <1>3, <2>1, <2>2, <2>3, MessageFrame
  <1> QED
    BY <1>1, <1>2, <1>3 DEF MsgInv

\* ... and the threads and the response queue as well.
LEMMA MsgQuiet ==
    ASSUME ServerInv, MsgInv, mgr' = mgr, msgs' = msgs, work' = work, respQ' = respQ,
           \A t \in Objects : SameHolding(t) /\ (Managed(t)' <=> Managed(t))
    PROVE  MsgInv'
  <1>1. \A m \in HandlerMsgs : InFlight(m)' = InFlight(m)
    BY FlightKept
  <1>2. /\ respQ' \in Seq(Resps)
        /\ \A w \in Threads : work'[w].pc \in Laden => work'[w].resp \in Resps
    BY DEF MsgInv, MsgsTyped
  <1> QED
    BY <1>1, <1>2, MsgFrame

\* A callback that changes one session and leaves its outList alone.
LEMMA MsgTouchOne ==
    ASSUME ServerInv, MsgInv, mgr' = mgr, msgs' = msgs, work' = work, respQ' = respQ,
           NEW s \in Objects, NEW q, ses' = [ses EXCEPT ![s] = q],
           q.life = ses[s].life, q.mSid = ses[s].mSid, q.mOutList = ses[s].mOutList
    PROVE  MsgInv'
  <1>1. DOMAIN ses = Objects
    BY DEF ServerInv, ServerTyped
  <1>2. \A t \in Objects : SameHolding(t) /\ (Managed(t)' <=> Managed(t))
    BY <1>1 DEF SameHolding, Managed
  <1> QED
    BY <1>2, MsgQuiet

-----------------------------------------------------------------------------
(* Settling messages *)

\* Two sessions of the table have different sids.
LEMMA SidUnique ==
    ASSUME NEW s \in Objects, NEW t \in Objects, Managed(s), Managed(t),
           ses[s].mSid = ses[t].mSid
    PROVE  s = t
  BY DEF Managed

\* What becomes of a message that a session settles.
LEMMA SettledFields ==
    ASSUME NEW r, IsMessage(r), NEW sid, NEW sent, NEW p, p = Settled(r, sid, sent)
    PROVE  /\ IsMessage(p) /\ p.made = r.made /\ p.all = r.all /\ p.to = r.to \ {sid}
           /\ \/ p.ok = r.ok \cup {sid} /\ p.fail = r.fail
              \/ p.ok = r.ok /\ p.fail = r.fail \cup {sid}
           /\ p.completions = IF r.to \subseteq {sid} THEN r.completions + 1
                              ELSE r.completions
  <1>1. PICK a, b, c : /\ a = (IF sent THEN r.ok \cup {sid} ELSE r.ok)
                       /\ b = (IF sent THEN r.fail ELSE r.fail \cup {sid})
                       /\ c = IF r.to \subseteq {sid} THEN r.completions + 1 ELSE r.completions
    OBVIOUS
  <1>2. p = [r EXCEPT !.to = @ \ {sid}, !.ok = a, !.fail = b, !.completions = c]
    BY <1>1 DEF Settled
  <1>3. /\ IsMessage(p) /\ p.made = r.made /\ p.all = r.all /\ p.to = r.to \ {sid}
        /\ p.ok = a /\ p.fail = b /\ p.completions = c
    BY <1>2 DEF IsMessage
  <1> QED
    BY <1>1, <1>3

\* The messages taken are settled for sid, the others stay.
SettlesAll(taken, sid, sent) ==
    /\ DOMAIN msgs' = Msgs
    /\ \A m \in Msgs : msgs'[m] = IF m \in taken THEN Settled(msgs[m], sid, sent) ELSE msgs[m]

\* The outList of s is split into the messages taken and the rest.
Releases(s, taken, rest) ==
    /\ rest \in Seq(Msgs) /\ Injective(rest)
    /\ \A m : Holder(s, m) <=> m \in taken \/ \E i \in DOMAIN rest : rest[i] = m
    /\ \A m \in taken : ~ \E i \in DOMAIN rest : rest[i] = m

\* A session of the table that settles some messages of its outList and keeps the
\* rest (transmit, doError, doTimeout) keeps the invariant: its sid is on the
\* toList of each of them, and no other holder has that sid.
LEMMA Settle ==
    ASSUME ServerInv, MsgInv, NEW s \in Objects, Managed(s), NEW taken, NEW rest,
           Releases(s, taken, rest), NEW sent, SettlesAll(taken, ses[s].mSid, sent),
           NEW q, ses' = [ses EXCEPT ![s] = q], q.mSid = ses[s].mSid, q.mOutList = rest,
           work' = work, respQ' = respQ,
           \A t \in Objects : t # s => (Managed(t)' <=> Managed(t)),
           Managed(s)' \/ rest = <<>>,
           \A t \in Objects : Managed(t)' =>
               mgr'.mSeq[ses[t].mSid.mKey] = mgr.mSeq[ses[t].mSid.mKey]
    PROVE  MsgInv'
  <1>1. /\ DOMAIN ses = Objects /\ DOMAIN msgs = Msgs
        /\ \A m \in Msgs : IsMessage(msgs[m])
        /\ \A t \in Objects : OutListOK(t)
    BY DEF ServerInv, ServerTyped, MsgInv, MsgsTyped
  <1>2. /\ ses'[s] = q /\ \A t \in Objects : t # s => ses'[t] = ses[t]
    BY <1>1
  <1>3. DOMAIN msgs' = Msgs /\ \A m \in Msgs : msgs'[m] = IF m \in taken
                                       THEN Settled(msgs[m], ses[s].mSid, sent) ELSE msgs[m]
    BY DEF SettlesAll
  <1>r. /\ rest \in Seq(Msgs) /\ Injective(rest)
        /\ \A m : Holder(s, m) <=> m \in taken \/ \E i \in DOMAIN rest : rest[i] = m
        /\ \A m \in taken : ~ \E i \in DOMAIN rest : rest[i] = m
    BY DEF Releases
  <1>5. MsgsTyped'
    <2>1. \A m \in Msgs : IsMessage(msgs'[m])
      BY <1>1, <1>3, SettledFields
    <2> QED
      BY <1>3, <2>1 DEF MsgInv, MsgsTyped
  <1>6. ASSUME NEW t \in Objects
        PROVE  OutListOK(t)'
    <2>1. OutListOK(s)'
      <3>1. /\ ses'[s].mSid = ses[s].mSid /\ ses'[s].mOutList = rest
            /\ OutListOK(s)
            /\ Managed(s)' => mgr'.mSeq[ses[s].mSid.mKey] = mgr.mSeq[ses[s].mSid.mKey]
        BY <1>1, <1>2
      <3> QED
        BY <1>r, <3>1 DEF OutListOK
    <2>2. CASE t # s
      <3>1. OutListOK(t) /\ SameHolding(t) /\ (Managed(t)' <=> Managed(t))
        BY <1>1, <1>2, <2>2 DEF SameHolding
      <3>2. Managed(t) => mgr'.mSeq[ses[t].mSid.mKey] = mgr.mSeq[ses[t].mSid.mKey]
        BY <3>1
      <3> QED
        BY <3>1, <3>2, OutListFrame
    <2> QED
      BY <2>1, <2>2
  <1>7. \A m \in HandlerMsgs : InFlight(m)' = InFlight(m)
    BY FlightKept
  <1>8. \A t \in Objects : \A m : t # s => (Holder(t, m)' <=> Holder(t, m))
    BY <1>2 DEF Holder
  <1>9. \A m : Holder(s, m)' <=> \E i \in DOMAIN rest : rest[i] = m
    BY <1>2 DEF Holder
  <1>10. \A t \in Objects : ses'[t].mSid = ses[t].mSid
    BY <1>2
  <1>11. ASSUME NEW m \in HandlerMsgs
         PROVE  MessageOK(m)'
    <2>1. MessageOK(m) /\ m \in Msgs
      BY ServerAssumption DEF MsgInv, HandlerMsgs, Msgs
    <2>2. CASE m \notin taken
      <3>1. \A t \in Objects : Holder(t, m)' <=> Holder(t, m)
        BY <1>r, <1>8, <1>9, <2>2
      <3>2. msgs'[m] = msgs[m]
        BY <1>3, <2>1, <2>2
      <3> QED
        BY <1>7, <1>10, <2>1, <3>1, <3>2, MessageFrame
    <2>3. CASE m \in taken
      <3> DEFINE sid == ses[s].mSid
                 r == msgs[m]
      <3>1. Holder(s, m) /\ ~Holder(s, m)'
        BY <1>r, <1>9, <2>3
      <3>2. r.made /\ InFlight(m) = 0 /\ Lists(r) /\ sid \in r.to /\ r.completions = 0
        BY <2>1, <3>1 DEF MessageOK
      <3>3. PICK p : p = msgs'[m]
        OBVIOUS
      <3>4. /\ p.made = r.made /\ p.all = r.all /\ p.to = r.to \ {sid}
            /\ \/ p.ok = r.ok \cup {sid} /\ p.fail = r.fail
               \/ p.ok = r.ok /\ p.fail = r.fail \cup {sid}
            /\ p.completions = IF r.to \subseteq {sid} THEN r.completions + 1 ELSE r.completions
        <4>1. p = Settled(msgs[m], sid, sent) /\ IsMessage(msgs[m])
          BY <1>1, <1>3, <2>1, <2>3, <3>3
        <4> QED
          BY <4>1, SettledFields
      <3>5. Lists(p)
        <4> HIDE DEF sid, r
        <4>1. CASE p.ok = r.ok \cup {sid} /\ p.fail = r.fail
          BY <3>2, <3>4, <4>1 DEF Lists
        <4>2. CASE p.ok = r.ok /\ p.fail = r.fail \cup {sid}
          BY <3>2, <3>4, <4>2 DEF Lists
        <4> QED
          BY <3>4, <4>1, <4>2
      <3>6. \A t \in Objects : Holder(t, m) => Managed(t)
        BY <1>1 DEF OutListOK, Holder
      <3>7. ASSUME NEW t \in Objects, Holder(t, m)'
            PROVE  ses'[t].mSid \in p.to
        <4>1. t # s /\ Holder(t, m)
          BY <1>8, <3>1, <3>7
        <4>2. ses[t].mSid # sid
          BY <3>6, <4>1, SidUnique
        <4>3. ses[t].mSid \in r.to
          BY <2>1, <3>2, <4>1 DEF MessageOK
        <4> QED
          BY <1>10, <3>4, <4>2, <4>3
      <3>8. ASSUME NEW i \in p.to
            PROVE  \E t \in Objects : Holder(t, m)' /\ ses'[t].mSid = i
        <4>1. i \in r.to /\ i # sid
          BY <3>4
        <4>2. PICK t \in Objects : Holder(t, m) /\ ses[t].mSid = i
          BY <2>1, <3>2, <4>1 DEF MessageOK
        <4> QED
          BY <1>8, <1>10, <4>1, <4>2
      <3>9. p.completions = IF p.to = {} THEN 1 ELSE 0
        <4>1. r.to \subseteq {sid} <=> p.to = {}
          BY <3>4
        <4> QED
          BY <3>2, <3>4, <4>1
      <3>10. InFlight(m)' = 0
        BY <1>7, <3>2
      <3> QED
        BY <3>2, <3>3, <3>4, <3>5, <3>7, <3>8, <3>9, <3>10 DEF MessageOK
    <2> QED
      BY <2>2, <2>3
  <1> QED
    BY <1>5, <1>6, <1>11 DEF MsgInv

-----------------------------------------------------------------------------
(* The callbacks of the event loop *)

\* The invariant holds when the server has started.
LEMMA MsgInvInit == Init => MsgInv
  <1> SUFFICES ASSUME Init PROVE MsgInv
    OBVIOUS
  <1>1. /\ DOMAIN msgs = Msgs /\ \A m \in Msgs : msgs[m] = NewMessage
        /\ respQ = <<>> /\ DOMAIN work = Threads
        /\ \A w \in Threads : work[w] = Idle
        /\ \A s \in Objects : ses[s] = NewSession
    BY DEF Init
  <1>2. IsMessage(NewMessage) /\ NewMessage.made = FALSE
    BY DEF IsMessage, NewMessage
  <1>3. Idle.pc = "idle"
    BY DEF Idle
  <1>4. MsgsTyped
    BY <1>1, <1>2, <1>3 DEF MsgsTyped, Laden
  <1>5. NewSession.mSid = NoSid /\ NewSession.mOutList = <<>> /\ NewSession.life = "unborn"
    BY DEF NewSession
  <1>6. \A s \in Objects : OutListOK(s)
    <2>1. NoSid \in AnySid /\ <<>> \in Seq(Msgs)
      BY DEF AnySid
    <2>2. Injective(<<>>)
      BY DEF Injective
    <2> QED
      BY <1>1, <1>5, <2>1, <2>2 DEF OutListOK, Managed
  <1>7. ASSUME NEW m \in HandlerMsgs
        PROVE  MessageOK(m)
    <2>1. m \in Msgs /\ m # 0
      BY ServerAssumption DEF HandlerMsgs, Msgs
    <2>2. Count(respQ, RespsOf(m)) = 0
      BY <1>1, CountEmpty
    <2>3. Count(Loads, {m}) = 0
      <3>1. DOMAIN Loads = Threads /\ \A w \in Threads : Loads[w] = 0
        BY <1>1, <1>3 DEF Loads, Carried, Laden
      <3>2. IsFiniteSet(Places(Loads, {m}))
        BY <3>1, ServerAssumption, CountFunType
      <3> QED
        BY <2>1, <3>1, <3>2, CountZero
    <2>4. InFlight(m) = 0
      BY <2>2, <2>3 DEF InFlight
    <2>5. \A s \in Objects : ~Holder(s, m)
      BY <1>1, <1>5 DEF Holder
    <2> QED
      BY <1>1, <1>2, <2>1, <2>4, <2>5 DEF MessageOK
  <1> QED
    BY <1>4, <1>6, <1>7 DEF MsgInv

\* onAccept keeps the invariant: the message of a refused connection is not one a
\* handler made, and the new session holds no other.
LEMMA AcceptMsgs ==
    ASSUME ServerInv, MsgInv, NEW s \in Objects, OnAccept(s)
    PROVE  MsgInv'
  <1> DEFINE key == AllocKeyOf(mgr)
             sid == [mKey |-> key, mSeq |-> AllocSeqOf(mgr)]
             new == [NewSession EXCEPT !.life = "live", !.mSid = sid]
             wait == [new EXCEPT !.mOutList = <<RefusedMsg(s)>>, !.mStatus = "eExit",
                                 !.refused = TRUE]
             run == [new EXCEPT !.mRunning = TRUE]
  <1>1. /\ ses[s].life = "unborn" /\ key # 0 /\ mgr' = Put(AllocKey(mgr), key, s)
        /\ work' = work /\ respQ' = respQ
        /\ \/ ses' = [ses EXCEPT ![s] = AddWrite(wait)]
              /\ msgs' = [msgs EXCEPT ![RefusedMsg(s)].made = TRUE]
           \/ ses' = [ses EXCEPT ![s] = run] /\ msgs' = msgs
    BY DEF OnAccept
  <1>2. /\ TableOK(mgr, Objects) /\ NULL \notin Objects /\ DOMAIN ses = Objects
        /\ DOMAIN msgs = Msgs
        /\ \A m \in Msgs : IsMessage(msgs[m])
        /\ \A t \in Objects : OutListOK(t)
    BY SessionFacts DEF ServerInv, MsgInv, MsgsTyped
  <1>3. /\ key \in Keys /\ AllocSeqOf(mgr) = mgr.mSeq[key] /\ AllocSeqOf(mgr) \in Seqs
        /\ mgr.mSession[key] = NULL /\ mgr'.mSession[key] = s
        /\ \A k \in Keys : k # key => mgr'.mSession[k] = mgr.mSession[k]
        /\ mgr'.mSeq = mgr.mSeq
    BY <1>1, <1>2, AllocPut
  <1>4. sid \in AnySid /\ sid.mKey = key /\ sid.mSeq = mgr.mSeq[key]
    BY <1>3 DEF AnySid, Sids
  <1> HIDE DEF sid, key
  <1>5. /\ RefusedMsg(s) \in Msgs /\ \A m \in HandlerMsgs : m # RefusedMsg(s) /\ m \in Msgs
    BY ServerAssumption DEF RefusedMsg, Msgs, HandlerMsgs, Objects
  <1>6. /\ IsSession(new) /\ new.life = "live" /\ new.mSid = sid /\ new.mOutList = <<>>
        /\ new.mWriting = FALSE /\ new.writeEvent = FALSE
    <2>1. PICK p : p = new
      OBVIOUS
    <2>2. /\ IsSession(p) /\ p.life = "live" /\ p.mSid = sid /\ p.mOutList = <<>>
          /\ p.mWriting = FALSE /\ p.writeEvent = FALSE
      BY <2>1 DEF NewSession, IsSession
    <2> HIDE DEF new
    <2> QED
      BY <2>1, <2>2
  <1> HIDE DEF new
  <1>7. PICK q : /\ ses' = [ses EXCEPT ![s] = q] /\ q.life = "live" /\ q.mSid = sid
                 /\ q.mOutList \in {<<>>, <<RefusedMsg(s)>>}
    <2>1. CASE ses' = [ses EXCEPT ![s] = AddWrite(wait)]
      <3>1. PICK p : p = wait
        OBVIOUS
      <3>2. /\ IsSession(p) /\ p.life = "live" /\ p.mSid = sid
            /\ p.mOutList = <<RefusedMsg(s)>> /\ p.mWriting = FALSE /\ p.writeEvent = FALSE
        BY <1>6, <3>1 DEF IsSession
      <3>3. /\ AddWrite(p).life = "live" /\ AddWrite(p).mSid = sid
            /\ AddWrite(p).mOutList = <<RefusedMsg(s)>>
        BY <3>2, AddEvents DEF Touched
      <3> HIDE DEF wait
      <3> QED
        BY <2>1, <3>1, <3>3
    <2>2. CASE ses' = [ses EXCEPT ![s] = run]
      <3>1. PICK p : p = run
        OBVIOUS
      <3>2. p.life = "live" /\ p.mSid = sid /\ p.mOutList = <<>>
        BY <1>6, <3>1 DEF IsSession
      <3> HIDE DEF run
      <3> QED
        BY <2>2, <3>1, <3>2
    <2> QED
      BY <1>1, <2>1, <2>2
  <1>8. ses'[s] = q /\ \A t \in Objects : t # s => ses'[t] = ses[t]
    BY <1>2, <1>7
  <1>9. ASSUME NEW t \in Objects, t # s
        PROVE  Managed(t)' <=> Managed(t)
    <2>1. ses[t].life = "live" => ses[t].mSid.mKey \in Keys
      BY SessionFacts DEF SessionOK, Sids
    <2>2. t # NULL
      BY SessionFacts
    <2> QED
      BY <1>3, <1>8, <1>9, <2>1, <2>2 DEF Managed
  <1>10. ~Managed(s) /\ ses[s].mOutList = <<>>
    BY <1>1, <1>2 DEF Managed, OutListOK
  <1>11. Managed(s)'
    BY <1>3, <1>4, <1>7, <1>8 DEF Managed
  <1>12. OutListOK(s)'
    <2>1. q.mOutList \in Seq(Msgs) /\ Injective(q.mOutList)
      <3>1. <<>> \in Seq(Msgs) /\ <<RefusedMsg(s)>> \in Seq(Msgs)
        BY <1>5
      <3>2. Injective(<<>>) /\ Injective(<<RefusedMsg(s)>>)
        BY DEF Injective
      <3> QED
        BY <1>7, <3>1, <3>2
    <2> QED
      BY <1>3, <1>4, <1>7, <1>8, <1>11, <2>1 DEF OutListOK
  <1>13. ASSUME NEW t \in Objects, t # s
         PROVE  OutListOK(t)'
    <2>1. OutListOK(t) /\ SameHolding(t) /\ (Managed(t)' <=> Managed(t))
      BY <1>2, <1>8, <1>9, <1>13 DEF SameHolding
    <2> QED
      BY <1>3, <2>1, OutListFrame
  <1>14. /\ DOMAIN msgs' = Msgs /\ \A m \in HandlerMsgs : msgs'[m] = msgs[m]
         /\ \A m \in Msgs : IsMessage(msgs'[m])
    <2>1. CASE msgs' = msgs
      BY <1>2, <2>1
    <2>2. CASE msgs' = [msgs EXCEPT ![RefusedMsg(s)].made = TRUE]
      <3>1. PICK p : p = [msgs[RefusedMsg(s)] EXCEPT !.made = TRUE]
        OBVIOUS
      <3>2. IsMessage(p)
        BY <1>2, <1>5, <3>1 DEF IsMessage
      <3>3. msgs' = [msgs EXCEPT ![RefusedMsg(s)] = p]
        BY <2>2, <3>1
      <3> QED
        BY <1>2, <1>5, <3>2, <3>3
    <2> QED
      BY <1>1, <2>1, <2>2
  <1>15. MsgsTyped'
    BY <1>1, <1>14 DEF MsgInv, MsgsTyped
  <1>16. ASSUME NEW m \in HandlerMsgs
         PROVE  MessageOK(m)'
    <2>1. ~Holder(s, m) /\ ~Holder(s, m)'
      BY <1>5, <1>7, <1>8, <1>10 DEF Holder
    <2>2. \A t \in Objects : Holder(t, m)' <=> Holder(t, m)
      BY <1>8, <2>1 DEF Holder
    <2>3. \A t \in Objects : Holder(t, m) => ses'[t].mSid = ses[t].mSid
      BY <1>8, <2>1
    <2>4. InFlight(m)' = InFlight(m) /\ MessageOK(m)
      BY <1>1, FlightKept DEF MsgInv
    <2> QED
      BY <1>14, <2>2, <2>3, <2>4, MessageFrame
  <1> QED
    BY <1>12, <1>13, <1>15, <1>16 DEF MsgInv

\* remove() advances the sequence number of the entry that left, and leaves the
\* other sessions current.
LEMMA LeaveTable ==
    ASSUME ServerInv, NEW s \in Objects, Managed(s), mgr' = Remove(mgr, ses[s].mSid.mKey),
           \A t \in Objects : ses'[t].life = ses[t].life /\ ses'[t].mSid = ses[t].mSid
    PROVE  /\ ~Managed(s)'
           /\ \A t \in Objects : t # s =>
                 /\ Managed(t)' <=> Managed(t)
                 /\ Managed(t) => mgr'.mSeq[ses[t].mSid.mKey] = mgr.mSeq[ses[t].mSid.mKey]
  <1> DEFINE key == ses[s].mSid.mKey
  <1>1. /\ key \in Keys /\ mgr.mSession[key] = s /\ s # NULL
        /\ TableOK(mgr, Objects)
    BY SessionFacts DEF ServerInv
  <1>2. /\ mgr'.mSession[key] = NULL
        /\ \A k \in Keys : k # key => mgr'.mSession[k] = mgr.mSession[k]
                                      /\ mgr'.mSeq[k] = mgr.mSeq[k]
    <2>1. mgr.mSession[key] # NULL /\ mgr' = Remove(mgr, key)
      BY <1>1
    <2> HIDE DEF key
    <2> QED
      BY <1>1, <2>1, RemoveOK
  <1>3. ~Managed(s)'
    BY <1>1, <1>2 DEF Managed
  <1>4. ASSUME NEW t \in Objects, t # s
        PROVE  /\ Managed(t)' <=> Managed(t)
               /\ Managed(t) => mgr'.mSeq[ses[t].mSid.mKey] = mgr.mSeq[ses[t].mSid.mKey]
    <2>1. ses[t].life = "live" => ses[t].mSid.mKey \in Keys
      BY SessionFacts DEF SessionOK, Sids
    <2>2. t # NULL
      BY SessionFacts
    <2>3. PICK kt : kt = ses[t].mSid.mKey
      OBVIOUS
    <2>4. Managed(t) => kt # key
      BY <1>1, <1>4, <2>3 DEF Managed
    <2> HIDE DEF key
    <2> QED
      BY <1>2, <2>1, <2>2, <2>3, <2>4 DEF Managed
  <1> QED
    BY <1>3, <1>4

\* doError and doTimeout settle the whole outList as failed.
LEMMA DropMsgs ==
    ASSUME ServerInv, MsgInv, NEW s \in Objects, Managed(s), NEW r, Touched(ses[s], r),
           r.mOutList = ses[s].mOutList, NEW kind, DoDrop(s, r, kind),
           work' = work, respQ' = respQ
    PROVE  MsgInv'
  <1> DEFINE d == DelEvents(r)
             taken == Range(ses[s].mOutList)
  <1>1. PICK q : q = [d EXCEPT !.mOutList = <<>>]
    OBVIOUS
  <1>2. q.life = ses[s].life /\ q.mSid = ses[s].mSid /\ q.mOutList = <<>>
    <2>1. IsSession(d) /\ d.life = r.life /\ d.mSid = r.mSid
      BY EventsDeleted DEF Touched
    <2> HIDE DEF d
    <2>2. q.life = d.life /\ q.mSid = d.mSid /\ q.mOutList = <<>>
      BY <1>1, <2>1 DEF IsSession
    <2> QED
      BY <2>1, <2>2 DEF Touched
  <1>3. /\ ses' = [ses EXCEPT ![s] = q] /\ r.mSid = ses[s].mSid
        /\ mgr' = Remove(mgr, ses[s].mSid.mKey)
        /\ msgs' = SettleAll(taken, ses[s].mSid, FALSE)
    BY <1>1 DEF DoDrop, Touched
  <1>4. \A m : Holder(s, m) <=> m \in taken
    BY DEF Holder, Range
  <1> HIDE DEF taken
  <1>5. DOMAIN ses = Objects
    BY DEF ServerInv, ServerTyped
  <1>6. \A t \in Objects : ses'[t].life = ses[t].life /\ ses'[t].mSid = ses[t].mSid
    BY <1>2, <1>3, <1>5
  <1>7. /\ ~Managed(s)'
        /\ \A t \in Objects : t # s =>
              /\ Managed(t)' <=> Managed(t)
              /\ Managed(t) => mgr'.mSeq[ses[t].mSid.mKey] = mgr.mSeq[ses[t].mSid.mKey]
    BY <1>3, <1>6, LeaveTable
  <1>s. PICK sent : sent = FALSE
    OBVIOUS
  <1>8. SettlesAll(taken, ses[s].mSid, sent)
    BY <1>3, <1>s DEF SettleAll, SettlesAll
  <1>9. PICK rest : rest = <<>>
    OBVIOUS
  <1>10. rest \in Seq(Msgs) /\ Injective(rest) /\ \A m : ~ \E i \in DOMAIN rest : rest[i] = m
    BY <1>9 DEF Injective
  <1>11. \A t \in Objects : Managed(t)' =>
               mgr'.mSeq[ses[t].mSid.mKey] = mgr.mSeq[ses[t].mSid.mKey]
    BY <1>7
  <1>12. Releases(s, taken, rest)
    BY <1>4, <1>10 DEF Releases
  <1>13. /\ q.mOutList = rest
         /\ \A t \in Objects : t # s => (Managed(t)' <=> Managed(t))
         /\ Managed(s)' \/ rest = <<>>
    BY <1>2, <1>7, <1>9
  <1> QED
    BY <1>2, <1>3, <1>8, <1>11, <1>12, <1>13, Settle

\* doClose settles nothing: its session has nothing left to send.
LEMMA CloseMsgs ==
    ASSUME ServerInv, MsgInv, NEW s \in Objects, Managed(s), ses[s].mOutList = <<>>,
           DoClose(s, ses[s]), work' = work, respQ' = respQ
    PROVE  MsgInv'
  <1>1. PICK q : q = DelEvents(ses[s])
    OBVIOUS
  <1>2. q.life = ses[s].life /\ q.mSid = ses[s].mSid /\ q.mOutList = <<>>
    BY <1>1, EventsDeleted, SessionFacts
  <1>3. /\ ses' = [ses EXCEPT ![s] = q] /\ mgr' = Remove(mgr, ses[s].mSid.mKey) /\ msgs' = msgs
    BY <1>1 DEF DoClose
  <1>4. DOMAIN ses = Objects /\ DOMAIN msgs = Msgs
    BY DEF ServerInv, ServerTyped, MsgInv, MsgsTyped
  <1>5. /\ \A t \in Objects : ses'[t].life = ses[t].life /\ ses'[t].mSid = ses[t].mSid
        /\ \A t \in Objects : ses'[t].mOutList = ses[t].mOutList
    BY <1>2, <1>3, <1>4
  <1>6. /\ ~Managed(s)'
        /\ \A t \in Objects : t # s =>
              /\ Managed(t)' <=> Managed(t)
              /\ Managed(t) => mgr'.mSeq[ses[t].mSid.mKey] = mgr.mSeq[ses[t].mSid.mKey]
    BY <1>3, <1>5, LeaveTable
  <1>7. MsgsTyped'
    BY <1>3 DEF MsgInv, MsgsTyped
  <1>8. ASSUME NEW t \in Objects
        PROVE  OutListOK(t)'
    <2>1. OutListOK(t) /\ SameHolding(t)
      BY <1>5 DEF MsgInv, SameHolding
    <2>2. CASE t = s
      BY <1>6, <2>1, <2>2 DEF OutListOK, SameHolding
    <2>3. CASE t # s
      BY <1>6, <2>1, <2>3, OutListFrame
    <2> QED
      BY <2>2, <2>3
  <1>9. ASSUME NEW m \in HandlerMsgs
        PROVE  MessageOK(m)'
    <2>1. MessageOK(m) /\ InFlight(m)' = InFlight(m) /\ msgs'[m] = msgs[m]
      BY <1>3, FlightKept DEF MsgInv
    <2>2. \A t \in Objects : Holder(t, m)' <=> Holder(t, m)
      BY <1>5 DEF Holder
    <2> QED
      BY <1>5, <2>1, <2>2, MessageFrame
  <1> QED
    BY <1>7, <1>8, <1>9 DEF MsgInv

\* onRead that received data keeps the invariant.
LEMMA ReadDataMsgs ==
    ASSUME ServerInv, MsgInv, NEW s \in Objects, NEW n, OnReadData(s, n)
    PROVE  MsgInv'
  <1>1. /\ Managed(s) /\ IsSession(ses[s]) /\ ses[s].mWriting = ses[s].writeEvent
    BY EventManaged DEF OnReadData
  <1>2. PICK r : r = [ses[s] EXCEPT !.mReading = FALSE, !.readEvent = FALSE, !.mInBuffer = @ + n]
    OBVIOUS
  <1>3. Touched(ses[s], r) /\ r.mOutList = ses[s].mOutList
    BY <1>1, <1>2, DataRead
  <1>4. IsSession(r) /\ r.mWriting = r.writeEvent /\ r.life = ses[s].life /\ r.mSid = ses[s].mSid
    BY <1>3 DEF Touched
  <1>5. /\ mgr' = mgr /\ msgs' = msgs /\ work' = work /\ respQ' = respQ
        /\ \E p \in {r, Worked(r)} : ses' = [ses EXCEPT ![s] = AddRead(p)]
    BY <1>2 DEF OnReadData
  <1>6. PICK p \in {r, Worked(r)} : ses' = [ses EXCEPT ![s] = AddRead(p)]
    BY <1>5
  <1>7. /\ IsSession(p) /\ p.mWriting = p.writeEvent /\ p.life = r.life /\ p.mSid = r.mSid
        /\ p.mOutList = r.mOutList
    BY <1>4, <1>6, WorkedCases DEF Touched, Handed
  <1>8. /\ AddRead(p).life = ses[s].life /\ AddRead(p).mSid = ses[s].mSid
        /\ AddRead(p).mOutList = ses[s].mOutList
    BY <1>3, <1>4, <1>7, AddEvents DEF Touched
  <1> QED
    BY <1>5, <1>6, <1>8, MsgTouchOne

\* A callback that gives its session up, or only notes that the event fired.
LEMMA GivenUpMsgs ==
    ASSUME ServerInv, MsgInv, NEW s \in Objects, Managed(s), NEW r, Touched(ses[s], r),
           r.mOutList = ses[s].mOutList, work' = work, respQ' = respQ,
           \/ \E kind : DoDrop(s, r, kind)
           \/ \E q \in {r, AddRead(r)} : ses' = [ses EXCEPT ![s] = q] /\ mgr' = mgr /\ msgs' = msgs
    PROVE  MsgInv'
  <1>1. CASE \E kind : DoDrop(s, r, kind)
    BY <1>1, DropMsgs
  <1>2. ASSUME NEW q \in {r, AddRead(r)}, ses' = [ses EXCEPT ![s] = q], mgr' = mgr, msgs' = msgs
        PROVE  MsgInv'
    <2>1. IsSession(r) /\ r.mWriting = r.writeEvent /\ r.life = ses[s].life /\ r.mSid = ses[s].mSid
      BY DEF Touched
    <2>2. q.life = ses[s].life /\ q.mSid = ses[s].mSid /\ q.mOutList = ses[s].mOutList
      BY <1>2, <2>1, AddEvents DEF Touched
    <2> QED
      BY <1>2, <2>2, MsgTouchOne
  <1> QED
    BY <1>1, <1>2

\* onRead that received nothing keeps the invariant.
LEMMA ReadEndMsgs ==
    ASSUME ServerInv, MsgInv, NEW s \in Objects, OnReadEnd(s)
    PROVE  MsgInv'
  <1>1. /\ Managed(s) /\ IsSession(ses[s]) /\ ses[s].mWriting = ses[s].writeEvent
    BY EventManaged DEF OnReadEnd
  <1>2. PICK r : r = [ses[s] EXCEPT !.mReading = FALSE, !.readEvent = FALSE]
    OBVIOUS
  <1>3. Touched(ses[s], r) /\ r.mOutList = ses[s].mOutList
    BY <1>1, <1>2, ReadFired
  <1>4. /\ work' = work /\ respQ' = respQ
        /\ \/ DoDrop(s, r, "error")
           \/ \E q \in {r, AddRead(r)} : ses' = [ses EXCEPT ![s] = q] /\ mgr' = mgr /\ msgs' = msgs
    BY <1>2 DEF OnReadEnd, DoError
  <1> QED
    BY <1>1, <1>3, <1>4, GivenUpMsgs

\* The two timeout callbacks keep the invariant.
LEMMA TimeoutMsgs ==
    ASSUME ServerInv, MsgInv, NEW s \in Objects, OnReadTimeout(s) \/ OnWriteTimeout(s)
    PROVE  MsgInv'
  <1>1. /\ Managed(s) /\ IsSession(ses[s]) /\ ses[s].mWriting = ses[s].writeEvent
    BY EventManaged DEF OnReadTimeout, OnWriteTimeout
  <1>2. PICK r : Touched(ses[s], r) /\ r.mOutList = ses[s].mOutList /\ OnTimeout(s, r)
    BY <1>1, ReadFired, WriteFired DEF OnReadTimeout, OnWriteTimeout
  <1>4. /\ work' = work /\ respQ' = respQ
        /\ \/ DoDrop(s, r, "timeout")
           \/ ses' = [ses EXCEPT ![s] = r] /\ mgr' = mgr /\ msgs' = msgs
    BY <1>2 DEF OnTimeout, DoTimeout
  <1> QED
    BY <1>1, <1>2, <1>4, GivenUpMsgs

\* onWrite whose transmit() failed keeps the invariant.
LEMMA WriteErrorMsgs ==
    ASSUME ServerInv, MsgInv, NEW s \in Objects, OnWriteError(s)
    PROVE  MsgInv'
  <1>1. /\ Managed(s) /\ IsSession(ses[s]) /\ ses[s].mWriting = ses[s].writeEvent
    BY EventManaged DEF OnWriteError
  <1>2. PICK r : r = Fired(s)
    OBVIOUS
  <1>3. Touched(ses[s], r) /\ r.mOutList = ses[s].mOutList
    BY <1>1, <1>2, WriteFired DEF Fired
  <1>4. /\ work' = work /\ respQ' = respQ
        /\ \/ DoDrop(s, r, "error")
           \/ ses' = [ses EXCEPT ![s] = r] /\ mgr' = mgr /\ msgs' = msgs
    BY <1>2 DEF OnWriteError, DoError
  <1> QED
    BY <1>1, <1>3, <1>4, GivenUpMsgs

\* onWrite settles the part of the outList that transmit() sent.
LEMMA WriteMsgs ==
    ASSUME ServerInv, MsgInv, NEW s \in Objects, NEW n, OnWrite(s, n)
    PROVE  MsgInv'
  <1> DEFINE out == ses[s].mOutList
  <1>1. /\ Managed(s) /\ IsSession(ses[s]) /\ ses[s].mWriting = ses[s].writeEvent
        /\ out \in Seq(Msgs) /\ Injective(out) /\ DOMAIN ses = Objects
    BY EventManaged DEF OnWrite, MsgInv, OutListOK, ServerInv, ServerTyped
  <1>2. n \in 0 .. Len(out) /\ Len(out) \in Nat /\ DOMAIN out = 1 .. Len(out)
    BY <1>1, LenProperties DEF OnWrite
  <1>3. PICK taken, rest : /\ taken = Range(SubSeq(out, 1, n))
                           /\ rest = SubSeq(out, n + 1, Len(out))
    OBVIOUS
  <1>4. PICK f : f = Fired(s)
    OBVIOUS
  <1>5. PICK r : r = [f EXCEPT !.mOutList = rest]
    OBVIOUS
  <1>6. PICK sent : sent = TRUE
    OBVIOUS
  <1>7. /\ mgr' = mgr /\ work' = work /\ respQ' = respQ
        /\ ses' = [ses EXCEPT ![s] = IF rest = <<>> THEN r ELSE AddWrite(r)]
        /\ msgs' = SettleAll(taken, r.mSid, TRUE)
    BY <1>3, <1>4, <1>5 DEF OnWrite
  <1>8. Touched(ses[s], r) /\ r.mOutList = rest
    <2>1. Touched(ses[s], f)
      BY <1>1, <1>4, WriteFired DEF Fired
    <2>2. IsSession(f) /\ f.mWriting = f.writeEvent
      BY <2>1 DEF Touched
    <2>3. Touched(f, r) /\ r.mOutList = rest
      BY <1>5, <2>2, OutListSet
    <2> QED
      BY <2>1, <2>3, TouchedTwice
  <1>9. PICK q : q = IF rest = <<>> THEN r ELSE AddWrite(r)
    OBVIOUS
  <1>10. q.life = ses[s].life /\ q.mSid = ses[s].mSid /\ q.mOutList = rest /\ r.mSid = ses[s].mSid
    BY <1>8, <1>9, AddEvents DEF Touched
  <1>11. SettlesAll(taken, ses[s].mSid, sent)
    BY <1>6, <1>7, <1>10 DEF SettleAll, SettlesAll
  <1>12. Releases(s, taken, rest)
    <2> DEFINE sub == SubSeq(out, 1, n)
               len == Len(out)
    <2>1. /\ n \in Int /\ n + 1 \in Int /\ 1 \in Int /\ len \in Int
          /\ \A i \in 1 .. n : out[i] \in Msgs
          /\ \A i \in (n + 1) .. len : out[i] \in Msgs
      BY <1>1, <1>2, ElementOfSeq
    <2>2. /\ sub \in Seq(Msgs) /\ Len(sub) = n /\ \A i \in 1 .. n : sub[i] = out[i]
      <3>1. /\ SubSeq(out, 1, n) \in Seq(Msgs)
            /\ Len(SubSeq(out, 1, n)) = IF 1 <= n THEN n - 1 + 1 ELSE 0
            /\ \A i \in 1 .. (n - 1 + 1) : SubSeq(out, 1, n)[i] = out[1 + i - 1]
        BY <2>1, SubSeqProperties
      <3> QED
        BY <1>2, <3>1
    <2>3. /\ rest \in Seq(Msgs) /\ Len(rest) = len - n
          /\ \A i \in 1 .. (len - n) : rest[i] = out[n + i]
      <3>1. /\ SubSeq(out, n + 1, len) \in Seq(Msgs)
            /\ Len(SubSeq(out, n + 1, len)) = IF n + 1 <= len THEN len - (n + 1) + 1 ELSE 0
            /\ \A i \in 1 .. (len - (n + 1) + 1) : SubSeq(out, n + 1, len)[i] = out[(n + 1) + i - 1]
        BY <2>1, SubSeqProperties
      <3>2. len - (n + 1) + 1 = len - n /\ \A i \in 1 .. (len - n) : (n + 1) + i - 1 = n + i
        BY <1>2
      <3>3. n + 1 <= len \/ len - n = 0
        BY <1>2
      <3> HIDE DEF out, len
      <3> QED
        BY <1>3, <3>1, <3>2, <3>3 DEF len
    <2>4. DOMAIN sub = 1 .. n /\ DOMAIN rest = 1 .. (len - n)
      BY <2>2, <2>3, LenProperties
    <2>5. \A m : m \in taken <=> \E i \in 1 .. n : out[i] = m
      BY <1>3, <2>2, <2>4 DEF Range
    <2>6. \A m : (\E i \in DOMAIN rest : rest[i] = m) <=> \E i \in (n + 1) .. len : out[i] = m
      <3> SUFFICES ASSUME NEW m
                   PROVE  (\E i \in DOMAIN rest : rest[i] = m)
                          <=> \E i \in (n + 1) .. len : out[i] = m
        OBVIOUS
      <3>1. ASSUME NEW i \in DOMAIN rest, rest[i] = m
            PROVE  \E j \in (n + 1) .. len : out[j] = m
        <4>1. i \in 1 .. (len - n) /\ n + i \in (n + 1) .. len /\ out[n + i] = m
          BY <1>2, <2>3, <2>4, <3>1
        <4> QED
          BY <4>1
      <3>2. ASSUME NEW j \in (n + 1) .. len, out[j] = m
            PROVE  \E i \in DOMAIN rest : rest[i] = m
        <4>1. j - n \in 1 .. (len - n) /\ n + (j - n) = j
          BY <1>2, <3>2
        <4>2. rest[j - n] = out[n + (j - n)]
          BY <2>3, <4>1
        <4> QED
          BY <2>4, <3>2, <4>1, <4>2
      <3> QED
        BY <3>1, <3>2
    <2>7. \A m : Holder(s, m) <=> \E i \in 1 .. len : out[i] = m
      BY <1>2 DEF Holder
    <2>8. Injective(rest)
      <3> SUFFICES ASSUME NEW i \in DOMAIN rest, NEW j \in DOMAIN rest, rest[i] = rest[j]
                   PROVE  i = j
        BY DEF Injective
      <3>1. /\ i \in 1 .. (len - n) /\ j \in 1 .. (len - n) /\ i \in Int /\ j \in Int
            /\ n + i \in DOMAIN out /\ n + j \in DOMAIN out
        BY <1>2, <2>4
      <3>2. PICK a, b : a = n + i /\ b = n + j
        OBVIOUS
      <3>3. a \in DOMAIN out /\ b \in DOMAIN out /\ out[a] = out[b]
        BY <2>3, <3>1, <3>2
      <3>4. Injective(out)
        BY <1>1 DEF OutListOK
      <3>5. a = b
        BY <3>3, <3>4 DEF Injective
      <3> QED
        BY <1>2, <3>1, <3>2, <3>5
    <2>9. \A m : Holder(s, m) <=> m \in taken \/ \E i \in DOMAIN rest : rest[i] = m
      <3>1. \A i : i \in 1 .. len <=> i \in 1 .. n \/ i \in (n + 1) .. len
        BY <1>2
      <3> QED
        BY <2>5, <2>6, <2>7, <3>1
    <2>10. ASSUME NEW m \in taken
           PROVE  ~ \E i \in DOMAIN rest : rest[i] = m
      <3>1. PICK i \in 1 .. n : out[i] = m
        BY <2>5
      <3>2. ASSUME NEW j \in (n + 1) .. len
            PROVE  out[j] # m
        <4>1. i \in DOMAIN out /\ j \in DOMAIN out /\ i # j
          BY <1>2, <3>2
        <4> QED
          BY <1>1, <3>1, <4>1 DEF Injective
      <3> QED
        BY <2>6, <3>2
    <2> QED
      BY <2>3, <2>8, <2>9, <2>10 DEF Releases
  <1>13. ses' = [ses EXCEPT ![s] = q]
    BY <1>7, <1>9
  <1>14. \A t \in Objects : Managed(t)' <=> Managed(t)
    BY <1>1, <1>7, <1>10, <1>13 DEF Managed
  <1>15. Managed(s)' /\ \A t \in Objects : t # s => (Managed(t)' <=> Managed(t))
    BY <1>1, <1>14
  <1> HIDE DEF out
  <1> QED
    BY <1>1, <1>7, <1>10, <1>11, <1>12, <1>13, <1>15, Settle

\* The second half of onWrite keeps the invariant.
LEMMA WriteTailMsgs ==
    ASSUME ServerInv, MsgInv, NEW s \in Objects, OnWriteTail(s)
    PROVE  MsgInv'
  <1>1. /\ Managed(s) /\ IsSession(ses[s]) /\ ses[s].mWriting = ses[s].writeEvent
        /\ SessionOK(s) /\ loop.s = s
    BY EventManaged, SessionFacts DEF OnWriteTail
  <1>2. /\ work' = work /\ respQ' = respQ
        /\ \/ mgr' = mgr /\ ses' = ses /\ msgs' = msgs
           \/ loop.exit /\ DoClose(s, ses[s])
           \/ ses' = [ses EXCEPT ![s] = Worked(ses[s])] /\ mgr' = mgr /\ msgs' = msgs
    BY DEF OnWriteTail
  <1>3. CASE mgr' = mgr /\ ses' = ses /\ msgs' = msgs
    <2>1. \A t \in Objects : SameHolding(t) /\ (Managed(t)' <=> Managed(t))
      BY <1>3 DEF SameHolding, Managed
    <2> QED
      BY <1>2, <1>3, <2>1, MsgQuiet
  <1>4. CASE loop.exit /\ DoClose(s, ses[s])
    BY <1>1, <1>2, <1>4, CloseMsgs DEF SessionOK
  <1>5. CASE ses' = [ses EXCEPT ![s] = Worked(ses[s])] /\ mgr' = mgr /\ msgs' = msgs
    <2>1. /\ Worked(ses[s]).life = ses[s].life /\ Worked(ses[s]).mSid = ses[s].mSid
          /\ Worked(ses[s]).mOutList = ses[s].mOutList
      BY <1>1, WorkedCases DEF Touched, Handed
    <2> QED
      BY <1>2, <1>5, <2>1, MsgTouchOne
  <1> QED
    BY <1>2, <1>3, <1>4, <1>5

-----------------------------------------------------------------------------
(* The worker threads *)

\* A thread moves on and carries what it carried.
LEMMA CarryMsgs ==
    ASSUME ServerInv, MsgInv, NEW w \in Threads, NEW x, work' = [work EXCEPT ![w] = x],
           Carried(x) = Carried(work[w]), x.pc \in Laden => x.resp \in Resps,
           mgr' = mgr, msgs' = msgs, respQ' = respQ,
           \A t \in Objects : SameHolding(t) /\ (Managed(t)' <=> Managed(t))
    PROVE  MsgInv'
  <1>1. ServerTyped /\ MsgsTyped
    BY DEF ServerInv, MsgInv
  <1>2. ASSUME NEW m \in HandlerMsgs
        PROVE  InFlight(m)' = InFlight(m)
    <2>1. InFlight(m)' = InFlight(m) - Has({m}, Carried(work[w])) + Has({m}, Carried(x))
      BY <1>1, FlightStep
    <2>2. PICK h : h = Has({m}, Carried(work[w])) /\ h \in Nat
      BY DEF Has
    <2>3. InFlight(m)' = InFlight(m) - h + h
      BY <2>1, <2>2
    <2>4. InFlight(m) \in Nat
      BY <1>1, FlightType
    <2> QED
      BY <2>2, <2>3, <2>4
  <1>3. \A v \in Threads : work'[v].pc \in Laden => work'[v].resp \in Resps
    BY <1>1 DEF ServerTyped, MsgsTyped
  <1>4. respQ' \in Seq(Resps)
    BY <1>1 DEF MsgsTyped
  <1> QED
    BY <1>2, <1>3, <1>4, MsgFrame

\* A step that leaves the sessions and the table alone.
LEMMA KeptHolding ==
    ASSUME mgr' = mgr, ses' = ses
    PROVE  \A t \in Objects : SameHolding(t) /\ (Managed(t)' <=> Managed(t))
  BY DEF SameHolding, Managed

\* A step that changes other fields of one session.
LEMMA TouchedHolding ==
    ASSUME mgr' = mgr, DOMAIN ses = Objects, NEW s \in Objects, NEW q, ses' = [ses EXCEPT ![s] = q],
           q.life = ses[s].life, q.mSid = ses[s].mSid, q.mOutList = ses[s].mOutList
    PROVE  \A t \in Objects : SameHolding(t) /\ (Managed(t)' <=> Managed(t))
  BY DEF SameHolding, Managed

\* A thread that takes a task has no response yet.
LEMMA TakeTaskMsgs ==
    ASSUME ServerInv, MsgInv, NEW w \in Threads, TakeTask(w)
    PROVE  MsgInv'
  <1>1. PICK k, s, pc : /\ pc \in {"destroy", "handle"}
                        /\ work' = [work EXCEPT ![w] = [Idle EXCEPT !.kind = k, !.s = s, !.pc = pc]]
    BY DEF TakeTask
  <1>2. PICK x : x = [Idle EXCEPT !.kind = k, !.s = s, !.pc = pc]
    OBVIOUS
  <1>3. x.pc = pc
    BY <1>2 DEF Idle
  <1>4. Carried(x) = 0 /\ Carried(work[w]) = 0 /\ x.pc \notin Laden
    BY <1>1, <1>3 DEF Carried, Laden, TakeTask
  <1>5. mgr' = mgr /\ msgs' = msgs /\ respQ' = respQ /\ ses' = ses /\ work' = [work EXCEPT ![w] = x]
    BY <1>1, <1>2 DEF TakeTask
  <1> QED
    BY <1>4, <1>5, CarryMsgs, KeptHolding

\* setStatus keeps the invariant.
LEMMA SetStatusMsgs ==
    ASSUME ServerInv, MsgInv, NEW w \in Threads, SetStatus(w)
    PROVE  MsgInv'
  <1>0. PICK s : s = work[w].s
    OBVIOUS
  <1>1. /\ IsWork(work[w]) /\ DOMAIN work = Threads /\ DOMAIN ses = Objects
        /\ work[w].pc = "status" /\ s \in Objects
    BY <1>0, WorkFacts DEF SetStatus
  <1>2. PICK st : ses' = [ses EXCEPT ![s].mStatus = st, ![s].started = TRUE]
    BY <1>0 DEF SetStatus
  <1>3. mgr' = mgr /\ msgs' = msgs /\ respQ' = respQ /\ work' = [work EXCEPT ![w].pc = "unrun"]
    BY DEF SetStatus
  <1>4. PICK x : x = [work[w] EXCEPT !.pc = "unrun"]
    OBVIOUS
  <1>5. x.pc = "unrun" /\ x.resp = work[w].resp
    BY <1>1, <1>4 DEF IsWork
  <1>6. Carried(x) = Carried(work[w]) /\ x.resp \in Resps
    BY <1>1, <1>5 DEF Carried, Laden, MsgInv, MsgsTyped
  <1>7. work' = [work EXCEPT ![w] = x]
    BY <1>1, <1>3, <1>4
  <1>8. PICK q : q = [ses[s] EXCEPT !.mStatus = st, !.started = TRUE]
    OBVIOUS
  <1>9. q.life = ses[s].life /\ q.mSid = ses[s].mSid /\ q.mOutList = ses[s].mOutList
    BY <1>1, <1>8, SessionFacts DEF IsSession
  <1>10. ses' = [ses EXCEPT ![s] = q]
    BY <1>1, <1>2, <1>8
  <1> QED
    BY <1>1, <1>3, <1>6, <1>7, <1>9, <1>10, CarryMsgs, TouchedHolding

\* setRunning( 0 ) keeps the invariant.
LEMMA SetNotRunningMsgs ==
    ASSUME ServerInv, MsgInv, NEW w \in Threads, SetNotRunning(w)
    PROVE  MsgInv'
  <1>0. PICK s : s = work[w].s
    OBVIOUS
  <1>1. /\ IsWork(work[w]) /\ DOMAIN work = Threads /\ DOMAIN ses = Objects
        /\ work[w].pc = "unrun" /\ s \in Objects
    BY <1>0, WorkFacts DEF SetNotRunning
  <1>2. /\ ses' = [ses EXCEPT ![s].mRunning = FALSE]
        /\ mgr' = mgr /\ msgs' = msgs /\ respQ' = respQ /\ work' = [work EXCEPT ![w].pc = "push"]
    BY <1>0 DEF SetNotRunning
  <1>4. PICK x : x = [work[w] EXCEPT !.pc = "push"]
    OBVIOUS
  <1>5. x.pc = "push" /\ x.resp = work[w].resp
    BY <1>1, <1>4 DEF IsWork
  <1>6. Carried(x) = Carried(work[w]) /\ x.resp \in Resps
    BY <1>1, <1>5 DEF Carried, Laden, MsgInv, MsgsTyped
  <1>7. work' = [work EXCEPT ![w] = x]
    BY <1>1, <1>2, <1>4
  <1>8. PICK q : q = [ses[s] EXCEPT !.mRunning = FALSE]
    OBVIOUS
  <1>9. q.life = ses[s].life /\ q.mSid = ses[s].mSid /\ q.mOutList = ses[s].mOutList
    BY <1>1, <1>8, SessionFacts DEF IsSession
  <1>10. ses' = [ses EXCEPT ![s] = q]
    BY <1>1, <1>2, <1>8
  <1> QED
    BY <1>1, <1>2, <1>6, <1>7, <1>9, <1>10, CarryMsgs, TouchedHolding

\* delete session keeps the invariant: the session was outside the table.
LEMMA DestroyMsgs ==
    ASSUME ServerInv, MsgInv, NEW w \in Threads, DestroySession(w), work[w].kind \in FinalKinds
    PROVE  MsgInv'
  <1>0. PICK s, r : s = work[w].s /\ r = ses[s]
    OBVIOUS
  <1>1. /\ DOMAIN ses = Objects /\ work[w].pc = "destroy" /\ s \in Objects
    BY <1>0, WorkFacts DEF DestroySession
  <1>2. PICK q : /\ q = [NewSession EXCEPT !.life = "deleted", !.mSid = r.mSid,
                             !.published = r.published, !.readEvent = r.readEvent,
                             !.writeEvent = r.writeEvent, !.mOutList = r.mOutList]
                 /\ ses' = [ses EXCEPT ![s] = q]
    BY <1>0 DEF DestroySession
  <1>3. mgr' = mgr /\ msgs' = msgs /\ respQ' = respQ /\ work' = [work EXCEPT ![w] = Idle]
    BY DEF DestroySession
  <1>4. q.life = "deleted" /\ q.mSid = ses[s].mSid /\ q.mOutList = ses[s].mOutList
    BY <1>0, <1>2 DEF NewSession
  <1>5. ~Managed(s)
    <2>1. Grip(work[w]) = <<"final", s>>
      BY <1>0, <1>1 DEF Grip, HandlerKinds, FinalKinds
    <2> QED
      BY <1>1, <2>1, GripCounts
  <1>6. \A t \in Objects : SameHolding(t) /\ (Managed(t)' <=> Managed(t))
    BY <1>1, <1>2, <1>3, <1>4, <1>5 DEF SameHolding, Managed
  <1>7. Carried(Idle) = Carried(work[w]) /\ Idle.pc \notin Laden
    BY <1>1 DEF Carried, Laden, Idle
  <1> QED
    BY <1>3, <1>6, <1>7, CarryMsgs

\* msgqueue_push moves the message from the task to the queue.
LEMMA PushMsgs ==
    ASSUME ServerInv, MsgInv, NEW w \in Threads, PushResponse(w)
    PROVE  MsgInv'
  <1>1. /\ ServerTyped /\ MsgsTyped /\ DOMAIN work = Threads /\ IsWork(work[w])
        /\ work[w].pc = "push" /\ respQ \in Seq(Resps)
    BY WorkFacts DEF PushResponse, MsgInv, MsgsTyped
  <1>2. PICK resp : resp = work[w].resp /\ resp \in Resps
    BY <1>1 DEF MsgsTyped, Laden
  <1>3. PICK x : x = IF work[w].kind \in {"error", "timeout"}
                     THEN [work[w] EXCEPT !.pc = "destroy"] ELSE Idle
    OBVIOUS
  <1>4. /\ mgr' = mgr /\ msgs' = msgs /\ ses' = ses /\ respQ' = Append(respQ, resp)
        /\ work' = [work EXCEPT ![w] = x]
    BY <1>1, <1>2, <1>3 DEF PushResponse
  <1>5. x.pc \in {"destroy", "idle"}
    BY <1>1, <1>3 DEF IsWork, Idle
  <1>6. Carried(x) = 0 /\ x.pc \notin Laden /\ Carried(work[w]) = resp.msg
    BY <1>1, <1>2, <1>5 DEF Carried, Laden
  <1>7. respQ' \in Seq(Resps)
    BY <1>1, <1>2, <1>4
  <1>8. \A v \in Threads : work'[v].pc \in Laden => work'[v].resp \in Resps
    BY <1>1, <1>4, <1>6 DEF ServerTyped, MsgsTyped
  <1>9. ASSUME NEW m \in HandlerMsgs
        PROVE  InFlight(m)' = InFlight(m)
    <2>1. PICK H, R : H = {m} /\ R = RespsOf(m)
      OBVIOUS
    <2>2. Count(Loads', H) = Count(Loads, H) - Has(H, Carried(work[w])) + Has(H, Carried(x))
      BY <1>1, <1>4, LoadsChanged
    <2>3. Count(respQ', R) = Count(respQ, R) + Has(R, resp)
      BY <1>1, <1>2, <1>4, CountAppend
    <2>4. m # 0
      BY ServerAssumption DEF HandlerMsgs
    <2>5. /\ Has(H, Carried(work[w])) = Has(R, resp) /\ Has(H, Carried(x)) = 0
          /\ Has(R, resp) \in Nat
      BY <1>2, <1>6, <2>1, <2>4 DEF Has, RespsOf
    <2>6. Count(Loads, H) \in Nat /\ Count(respQ, R) \in Nat
      BY <1>1, <2>1, FlightType
    <2>7. /\ InFlight(m) = Count(Loads, H) + Count(respQ, R)
          /\ InFlight(m)' = Count(Loads', H) + Count(respQ', R)
      BY <2>1 DEF InFlight, RespsOf, Resps
    <2> QED
      BY <2>2, <2>3, <2>5, <2>6, <2>7
  <1> QED
    BY <1>4, <1>7, <1>8, <1>9, MsgFrame, KeptHolding

\* A handler names only sids of sessions in its response.
LEMMA ResponseMade ==
    ASSUME MsgInv, NEW s \in Objects, NEW new \in MessageChoices(ses[s].mSid),
           NEW close \in CloseChoices
    PROVE  new.to \subseteq AnySid /\ close \in SUBSET AnySid
  <1>1. \A t \in Objects : ses[t].mSid \in AnySid
    BY DEF MsgInv, OutListOK
  <1>2. Published \subseteq AnySid /\ Closable \subseteq AnySid
    BY <1>1 DEF Published, Closable
  <1>3. new.to \in SUBSET (Published \cup {ses[s].mSid}) \/ new.to = {}
    <2>1. CASE new = [made |-> FALSE, size |-> 0, to |-> {}]
      BY <2>1
    <2>2. CASE new \in [made : {TRUE}, size : {0, 1}, to : SUBSET (Published \cup {ses[s].mSid})]
      BY <2>2
    <2> QED
      BY <2>1, <2>2 DEF MessageChoices
  <1>4. close = {} \/ \E sid \in Closable : close = {sid}
    BY DEF CloseChoices
  <1> QED
    BY <1>1, <1>2, <1>3, <1>4

\* The call of the application's handler puts a new message, which nobody holds,
\* into one response.
LEMMA HandlerMsg ==
    ASSUME ServerInv, MsgInv, NEW w \in Threads, HandlerStep(w)
    PROVE  MsgInv'
  <1>0. PICK s : s = work[w].s
    OBVIOUS
  <1>1. /\ ServerTyped /\ MsgsTyped /\ DOMAIN work = Threads /\ IsWork(work[w])
        /\ DOMAIN ses = Objects /\ work[w].pc = "handle" /\ s \in Objects
    BY <1>0, WorkFacts DEF HandlerStep, MsgInv
  <1>2. PICK new \in MessageChoices(ses[s].mSid), close \in CloseChoices,
             status \in {"eNormal", "eWouldExit"}, init \in BOOLEAN :
                RunHandler(w, new, close, status, init)
    BY <1>0 DEF HandlerStep
  <1>3. PICK m : m = IF new.made THEN CHOOSE x \in Unmade : \A y \in Unmade : x <= y ELSE 0
    OBVIOUS
  <1>4. PICK resp : resp = [from |-> ses[s].mSid, msg |-> m, close |-> IF init THEN close ELSE {}]
    OBVIOUS
  <1>5. PICK pc : pc = IF work[w].kind \in {"start", "worker"} THEN "status" ELSE "push"
    OBVIOUS
  <1>6. PICK made : made = [NewMessage EXCEPT !.made = TRUE, !.size = new.size,
                                              !.all = new.to, !.to = new.to]
    OBVIOUS
  <1>7. /\ mgr' = mgr /\ respQ' = respQ
        /\ new.made => Unmade # {}
        /\ msgs' = [x \in Msgs |-> IF x # m THEN msgs[x] ELSE made]
        /\ work' = [work EXCEPT ![w].resp = resp, ![w].status = status, ![w].pc = pc]
        /\ ses' = IF work[w].kind = "start"
                  THEN [ses EXCEPT ![s].channel = init, ![s].published = TRUE] ELSE ses
    BY <1>0, <1>2, <1>3, <1>4, <1>5, <1>6 DEF RunHandler
  <1>8. m = 0 \/ m \in Unmade
    <2>1. Unmade \subseteq Nat
      BY ServerAssumption DEF Unmade, HandlerMsgs
    <2> QED
      BY <1>3, <1>7, <2>1, LeastOf
  <1>9. resp \in Resps
    <2>1. ses[s].mSid \in AnySid
      BY <1>1 DEF MsgInv, OutListOK
    <2>2. close \in SUBSET AnySid
      BY <1>1, ResponseMade
    <2>3. m \in HandlerMsgs \cup {0}
      BY <1>8 DEF Unmade
    <2> QED
      BY <1>4, <2>1, <2>2, <2>3 DEF Resps
  <1>10. PICK x : x = [work[w] EXCEPT !.resp = resp, !.status = status, !.pc = pc]
    OBVIOUS
  <1>11. work' = [work EXCEPT ![w] = x]
    BY <1>1, <1>7, <1>10
  <1>12. x.pc = pc /\ x.resp = resp
    BY <1>1, <1>10 DEF IsWork
  <1>13. Carried(x) = m /\ Carried(work[w]) = 0
    BY <1>1, <1>4, <1>5, <1>12 DEF Carried, Laden
  <1>14. \A t \in Objects : SameHolding(t) /\ (Managed(t)' <=> Managed(t))
    <2>1. CASE work[w].kind # "start"
      BY <1>7, <2>1, KeptHolding
    <2>2. CASE work[w].kind = "start"
      <3>1. PICK q : q = [ses[s] EXCEPT !.channel = init, !.published = TRUE]
        OBVIOUS
      <3>2. q.life = ses[s].life /\ q.mSid = ses[s].mSid /\ q.mOutList = ses[s].mOutList
        BY <1>1, <3>1, SessionFacts DEF IsSession
      <3>3. ses' = [ses EXCEPT ![s] = q]
        BY <1>1, <1>7, <2>2, <3>1
      <3> QED
        BY <1>1, <1>7, <3>2, <3>3, TouchedHolding
    <2> QED
      BY <2>1, <2>2
  <1>15. /\ IsMessage(made) /\ made.made = TRUE /\ made.all = new.to /\ made.to = new.to
         /\ made.ok = {} /\ made.fail = {} /\ made.completions = 0
    BY <1>6 DEF NewMessage, IsMessage
  <1>16. DOMAIN msgs' = Msgs /\ \A y \in Msgs : msgs'[y] = IF y # m THEN msgs[y] ELSE made
    BY <1>7
  <1>17. MsgsTyped'
    <2>1. \A v \in Threads : work'[v].pc \in Laden => work'[v].resp \in Resps
      BY <1>1, <1>9, <1>11, <1>12 DEF ServerTyped, MsgsTyped
    <2> QED
      BY <1>1, <1>7, <1>15, <1>16, <2>1 DEF MsgsTyped
  <1>18. \A t \in Objects : OutListOK(t)'
    BY <1>7, <1>14, OutListFrame DEF MsgInv
  <1>19. ASSUME NEW y \in HandlerMsgs
         PROVE  MessageOK(y)'
    <2>1. MessageOK(y) /\ y \in Msgs /\ y # 0
      BY ServerAssumption DEF MsgInv, HandlerMsgs, Msgs
    <2>2. \A t \in Objects : (Holder(t, y)' <=> Holder(t, y)) /\ ses'[t].mSid = ses[t].mSid
      BY <1>14 DEF Holder, SameHolding
    <2>3. InFlight(y)' = InFlight(y) + Has({y}, m)
      <3>1. InFlight(y)' = InFlight(y) - Has({y}, Carried(work[w])) + Has({y}, Carried(x))
        BY <1>1, <1>7, <1>11, FlightStep
      <3>2. Has({y}, Carried(work[w])) = 0 /\ Has({y}, Carried(x)) = Has({y}, m)
        BY <1>13, <2>1 DEF Has
      <3>3. Has({y}, m) \in Nat /\ InFlight(y) \in Nat
        BY <1>1, FlightType DEF Has
      <3> QED
        BY <3>1, <3>2, <3>3
    <2>4. InFlight(y) \in Nat
      BY <1>1, FlightType
    <2>5. CASE y # m
      <3>1. Has({y}, m) = 0
        BY <2>5 DEF Has
      <3>2. InFlight(y)' = InFlight(y)
        BY <2>3, <2>4, <3>1
      <3>3. msgs'[y] = msgs[y]
        BY <1>16, <2>1, <2>5
      <3> QED
        BY <2>1, <2>2, <3>2, <3>3, MessageFrame
    <2>6. CASE y = m
      <3>1. ~msgs[y].made
        BY <1>8, <2>1, <2>6 DEF Unmade
      <3>2. InFlight(y) = 0 /\ \A t \in Objects : ~Holder(t, y)
        BY <2>1, <3>1 DEF MessageOK
      <3>3. InFlight(y)' = 1
        BY <2>3, <2>6, <3>2 DEF Has
      <3>4. msgs'[y] = made
        BY <1>16, <2>1, <2>6
      <3>5. Lists(made)
        BY <1>1, <1>15, ResponseMade DEF Lists
      <3> QED
        BY <1>15, <2>2, <3>2, <3>3, <3>4, <3>5 DEF MessageOK
    <2> QED
      BY <2>5, <2>6
  <1> QED
    BY <1>17, <1>18, <1>19 DEF MsgInv

-----------------------------------------------------------------------------
(* onResponse *)

\* The outList after an append.
LEMMA OutListGrown ==
    ASSUME NEW q \in Seq(Msgs), Injective(q), NEW m \in Msgs, ~Holds(q, m),
           NEW p, p = Append(q, m)
    PROVE  /\ p \in Seq(Msgs) /\ Injective(p)
           /\ \A y : Holds(p, y) <=> y = m \/ Holds(q, y)
  <1> DEFINE n == Len(q)
  <1>2. /\ p \in Seq(Msgs) /\ DOMAIN p = 1 .. (n + 1) /\ p[n + 1] = m
        /\ DOMAIN q = 1 .. n /\ n \in Nat /\ \A i \in 1 .. n : p[i] = q[i]
    BY AppendProperties, LenProperties
  <1>3. ASSUME NEW i \in DOMAIN p, NEW j \in DOMAIN p, p[i] = p[j]
        PROVE  i = j
    <2>1. (i \in 1 .. n \/ i = n + 1) /\ (j \in 1 .. n \/ j = n + 1)
      BY <1>2
    <2>2. CASE i \in 1 .. n /\ j \in 1 .. n
      BY <1>2, <1>3, <2>2 DEF Injective
    <2>3. CASE i = n + 1 /\ j \in 1 .. n
      BY <1>2, <1>3, <2>3 DEF Holds
    <2>4. CASE j = n + 1 /\ i \in 1 .. n
      BY <1>2, <1>3, <2>4 DEF Holds
    <2> QED
      BY <2>1, <2>2, <2>3, <2>4
  <1>4. \A y : Holds(p, y) <=> y = m \/ Holds(q, y)
    <2>1. \A i : i \in DOMAIN p <=> i \in DOMAIN q \/ i = n + 1
      BY <1>2
    <2> QED
      BY <1>2, <2>1 DEF Holds
  <1>5. Injective(p)
    BY <1>3 DEF Injective
  <1> QED
    BY <1>2, <1>4, <1>5

\* A sid is its key and its sequence number.
LEMMA SidEqual ==
    ASSUME NEW a \in AnySid, NEW b \in AnySid, a.mKey = b.mKey, a.mSeq = b.mSeq
    PROVE  a = b
  BY DEF AnySid, Sids, NoSid

\* What onResponse makes of the message.
LEMMA ResponseMessage ==
    ASSUME MsgsTyped, OnResponse, NEW m \in Msgs, m = Head(respQ).msg, NEW p, p = msgs'[m]
    PROVE  /\ IsMessage(p) /\ p.made = msgs[m].made /\ p.all = msgs[m].all /\ p.ok = msgs[m].ok
           /\ p.to = Addressed /\ p.fail = msgs[m].fail \cup (msgs[m].to \ Addressed)
           /\ p.completions = IF Addressed = {} THEN msgs[m].completions + 1
                              ELSE msgs[m].completions
  <1>1. PICK g, f, c : /\ g = Addressed /\ f = msgs[m].fail \cup (msgs[m].to \ Addressed)
                       /\ c = IF Addressed = {} THEN msgs[m].completions + 1
                              ELSE msgs[m].completions
    OBVIOUS
  <1>2. p = [msgs[m] EXCEPT !.to = g, !.fail = f, !.completions = c]
    BY <1>1 DEF OnResponse, Addressed
  <1>3. IsMessage(msgs[m])
    BY DEF MsgsTyped
  <1>4. /\ IsMessage(p) /\ p.made = msgs[m].made /\ p.all = msgs[m].all /\ p.ok = msgs[m].ok
        /\ p.to = g /\ p.fail = f /\ p.completions = c
    BY <1>2, <1>3 DEF IsMessage
  <1> QED
    BY <1>1, <1>4

\* Every sid that onResponse accepts is the sid of the session that get() returns.
LEMMA ReceiverFound ==
    ASSUME ServerInv, MsgInv, NEW sid \in Addressed, sid \in AnySid
    PROVE  \E t \in Objects : Receiver(t) /\ ses[t].mSid = sid
  <1>1. PICK t : t = Get(mgr, sid.mKey, sid.mSeq) /\ t # NULL
    BY DEF Addressed, Accepting
  <1>2. sid.mKey \in Keys /\ mgr.mSeq[sid.mKey] = sid.mSeq /\ t = mgr.mSession[sid.mKey]
    BY <1>1 DEF Get
  <1>3. t \in Objects
    BY <1>1, <1>2 DEF ServerInv, TableOK, Table
  <1>4. Managed(t) /\ sid.mKey = ses[t].mSid.mKey
    BY <1>1, <1>3, GetManaged
  <1>5. ses[t].mSid \in AnySid /\ mgr.mSeq[ses[t].mSid.mKey] = ses[t].mSid.mSeq
    BY <1>3, <1>4 DEF MsgInv, OutListOK
  <1>6. ses[t].mSid = sid
    BY <1>2, <1>4, <1>5, SidEqual
  <1> QED
    BY <1>1, <1>3, <1>6 DEF Receiver

\* onResponse keeps the invariant: the message leaves the queue, and the sessions
\* that receive it are exactly those of its new toList.
LEMMA ResponseMsgs ==
    ASSUME ServerInv, MsgInv, OnResponse
    PROVE  MsgInv'
  <1>1. PICK resp, m : resp = Head(respQ) /\ m = resp.msg
    OBVIOUS
  <1>2. /\ MsgsTyped /\ respQ \in Seq(Resps) /\ respQ # <<>> /\ respQ' = Tail(respQ)
        /\ mgr' = mgr /\ work' = work /\ DOMAIN msgs = Msgs /\ DOMAIN msgs' = Msgs
        /\ \A y \in Msgs : IsMessage(msgs[y])
        /\ \A t \in Objects : OutListOK(t)
    BY DEF OnResponse, MsgInv, MsgsTyped
  <1>3. resp \in Resps /\ respQ' \in Seq(Resps)
    BY <1>1, <1>2, HeadTailProperties
  <1>4. m \in HandlerMsgs \cup {0}
    BY <1>1, <1>3 DEF Resps
  <1>5. \A y \in HandlerMsgs : y \in Msgs /\ y # 0
    BY ServerAssumption DEF HandlerMsgs, Msgs
  <1>6. \A y \in Msgs : y # m => msgs'[y] = msgs[y]
    BY <1>1 DEF OnResponse
  <1>7. m = 0 => Addressed = {}
    BY <1>1 DEF Addressed
  <1>8. ASSUME NEW y \in HandlerMsgs
        PROVE  /\ InFlight(y) \in Nat /\ InFlight(y)' \in Nat
               /\ InFlight(y) = InFlight(y)' + (IF y = m THEN 1 ELSE 0)
    <2>1. Count(respQ, RespsOf(y)) = Has(RespsOf(y), resp) + Count(respQ', RespsOf(y))
      BY <1>1, <1>2, CountTail
    <2>2. Has(RespsOf(y), resp) = IF y = m THEN 1 ELSE 0
      BY <1>1, <1>3 DEF Has, RespsOf
    <2>3. Loads' = Loads
      BY <1>2 DEF Loads
    <2>4. Count(Loads, {y}) \in Nat /\ Count(respQ, RespsOf(y)) \in Nat
      BY <1>2, FlightType
    <2>5. Count(respQ', RespsOf(y)) \in Nat
      BY <1>3, CountSeqType
    <2>6. /\ InFlight(y) = Count(Loads, {y}) + Count(respQ, RespsOf(y))
          /\ InFlight(y)' = Count(Loads, {y}) + Count(respQ', RespsOf(y))
      BY <2>3 DEF InFlight, RespsOf, Resps
    <2>7. PICK a, b, c, d : /\ a = Count(Loads, {y}) /\ b = Count(respQ, RespsOf(y))
                            /\ c = Count(respQ', RespsOf(y)) /\ d = IF y = m THEN 1 ELSE 0
      OBVIOUS
    <2>8. /\ a \in Nat /\ b \in Nat /\ c \in Nat /\ d \in Nat /\ b = d + c
          /\ InFlight(y) = a + b /\ InFlight(y)' = a + c
      BY <2>1, <2>2, <2>4, <2>5, <2>6, <2>7
    <2> QED
      BY <2>7, <2>8
  <1>9. \A t \in Objects : /\ ses'[t].mSid = ses[t].mSid /\ ses'[t].life = ses[t].life
                           /\ Receiver(t) => Managed(t)
                           /\ ses'[t].mOutList = IF Receiver(t) THEN Append(ses[t].mOutList, m)
                                                 ELSE ses[t].mOutList
    BY <1>1, ResponseTouch DEF Touched
  <1>10. \A t \in Objects : Managed(t)' <=> Managed(t)
    BY <1>2, <1>9 DEF Managed
  <1>11. m # 0 => /\ m \in HandlerMsgs /\ msgs[m].made /\ msgs[m].completions = 0
                  /\ InFlight(m)' = 0 /\ Lists(msgs[m])
                  /\ \A t \in Objects : ~Holder(t, m)
    <2> SUFFICES ASSUME m # 0
                 PROVE  /\ m \in HandlerMsgs /\ msgs[m].made /\ msgs[m].completions = 0
                        /\ InFlight(m)' = 0 /\ Lists(msgs[m])
                        /\ \A t \in Objects : ~Holder(t, m)
      OBVIOUS
    <2>1. m \in HandlerMsgs /\ MessageOK(m)
      BY <1>4 DEF MsgInv
    <2>2. InFlight(m) \in {0, 1}
      BY <2>1 DEF MessageOK
    <2>3. InFlight(m) = 1 /\ InFlight(m)' = 0
      BY <1>8, <2>1, <2>2
    <2> QED
      BY <2>1, <2>3 DEF MessageOK
  <1>12. ASSUME NEW t \in Objects
         PROVE  /\ OutListOK(t)'
                /\ \A y : Holder(t, y)' <=> Holder(t, y) \/ (y = m /\ Receiver(t))
    <2>1. CASE Receiver(t)
      <3>1. m # 0 /\ m \in Msgs
        BY <1>5, <1>7, <1>11, <2>1 DEF Receiver
      <3>2. ses[t].mOutList \in Seq(Msgs) /\ Injective(ses[t].mOutList)
        BY <1>2 DEF OutListOK
      <3>3. \A i \in DOMAIN ses[t].mOutList : ses[t].mOutList[i] # m
        BY <1>11, <3>1 DEF Holder
      <3>4. PICK o, q : o = ses[t].mOutList /\ q = Append(o, m)
        OBVIOUS
      <3>5. /\ q \in Seq(Msgs) /\ Injective(q)
            /\ \A y : Holds(q, y) <=> y = m \/ Holds(o, y)
        <4>1. o \in Seq(Msgs) /\ Injective(o) /\ ~Holds(o, m)
          BY <3>2, <3>3, <3>4 DEF Holds
        <4> QED
          BY <3>1, <3>4, <4>1, OutListGrown
      <3>6. ses'[t].mOutList = q /\ ses'[t].mSid = ses[t].mSid /\ Managed(t) /\ Managed(t)'
        BY <1>9, <1>10, <2>1, <3>4
      <3>7. OutListOK(t)'
        BY <1>2, <3>5, <3>6 DEF OutListOK
      <3>8. \A y : (Holder(t, y)' <=> Holds(q, y)) /\ (Holder(t, y) <=> Holds(o, y))
        BY <3>4, <3>6 DEF Holder, Holds
      <3> QED
        BY <2>1, <3>5, <3>7, <3>8
    <2>2. CASE ~Receiver(t)
      <3>1. SameHolding(t) /\ OutListOK(t) /\ (Managed(t)' <=> Managed(t))
        BY <1>2, <1>9, <1>10, <2>2 DEF SameHolding
      <3>2. OutListOK(t)'
        BY <1>2, <3>1, OutListFrame
      <3>3. \A y : Holder(t, y)' <=> Holder(t, y)
        BY <3>1 DEF Holder, SameHolding
      <3> QED
        BY <2>2, <3>2, <3>3
    <2> QED
      BY <2>1, <2>2
  <1>13. MsgsTyped'
    <2>1. ASSUME NEW y \in Msgs
          PROVE  IsMessage(msgs'[y])
      BY <1>1, <1>2, <1>6, ResponseMessage
    <2> QED
      BY <1>2, <1>3, <2>1 DEF MsgsTyped
  <1>14. ASSUME NEW y \in HandlerMsgs
         PROVE  MessageOK(y)'
    <2>1. MessageOK(y) /\ y \in Msgs /\ y # 0
      BY <1>5 DEF MsgInv
    <2>2. CASE y # m
      <3>1. InFlight(y)' = InFlight(y)
        BY <1>8, <2>2
      <3>2. msgs'[y] = msgs[y]
        BY <1>6, <2>1, <2>2
      <3>3. \A t \in Objects : (Holder(t, y)' <=> Holder(t, y)) /\ ses'[t].mSid = ses[t].mSid
        BY <1>9, <1>12, <2>2
      <3> QED
        BY <2>1, <3>1, <3>2, <3>3, MessageFrame
    <2>3. CASE y = m
      <3>1. PICK r, p : r = msgs[y] /\ p = msgs'[y]
        OBVIOUS
      <3>2. /\ p.made = r.made /\ p.all = r.all /\ p.ok = r.ok /\ p.to = Addressed
            /\ p.fail = r.fail \cup (r.to \ Addressed)
            /\ p.completions = IF Addressed = {} THEN r.completions + 1 ELSE r.completions
        BY <1>1, <1>2, <2>1, <2>3, <3>1, ResponseMessage
      <3>3. /\ r.made /\ r.completions = 0 /\ InFlight(y)' = 0 /\ Lists(r)
            /\ \A t \in Objects : ~Holder(t, y)
        BY <1>11, <2>1, <2>3, <3>1
      <3>4. Addressed \subseteq r.to
        BY <1>1, <2>3, <3>1 DEF Addressed, Accepting
      <3>5. Addressed \subseteq AnySid
        BY <3>3, <3>4 DEF Lists
      <3>6. Lists(p)
        <4>1. PICK g : g = Addressed
          OBVIOUS
        <4>2. /\ p.all = r.all /\ p.ok = r.ok /\ p.to = g /\ g \subseteq r.to
              /\ p.fail = r.fail \cup (r.to \ g)
          BY <3>2, <3>4, <4>1
        <4> QED
          BY <3>3, <4>2 DEF Lists
      <3>7. \A t \in Objects : Holder(t, y)' <=> Receiver(t)
        BY <1>12, <2>3, <3>3
      <3>8. \A t \in Objects : Holder(t, y)' => ses'[t].mSid \in p.to
        BY <1>9, <3>2, <3>7 DEF Receiver
      <3>9. ASSUME NEW sid \in p.to
            PROVE  \E t \in Objects : Holder(t, y)' /\ ses'[t].mSid = sid
        <4>1. PICK t \in Objects : Receiver(t) /\ ses[t].mSid = sid
          BY <3>2, <3>5, ReceiverFound
        <4> QED
          BY <1>9, <3>7, <4>1
      <3>10. p.completions = IF p.to = {} THEN 1 ELSE 0
        BY <3>2, <3>3
      <3> QED
        BY <3>1, <3>2, <3>3, <3>6, <3>8, <3>9, <3>10 DEF MessageOK
    <2> QED
      BY <2>2, <2>3
  <1> QED
    BY <1>12, <1>13, <1>14 DEF MsgInv

-----------------------------------------------------------------------------
(* The theorems *)

\* Every step keeps the invariant.
LEMMA MsgInvNext == ServerInv /\ MsgInv /\ [Next]_vars => MsgInv'
  <1> SUFFICES ASSUME ServerInv, MsgInv, [Next]_vars PROVE MsgInv'
    OBVIOUS
  <1>1. ASSUME NEW s \in Objects, OnAccept(s) PROVE MsgInv'
    BY <1>1, AcceptMsgs
  <1>2. ASSUME NEW s \in Objects, OnRead(s) PROVE MsgInv'
    BY <1>2, ReadDataMsgs, ReadEndMsgs DEF OnRead
  <1>3. ASSUME NEW s \in Objects, OnReadTimeout(s) \/ OnWriteTimeout(s) PROVE MsgInv'
    BY <1>3, TimeoutMsgs
  <1>4. ASSUME NEW s \in Objects, OnWriteEvent(s) PROVE MsgInv'
    BY <1>4, WriteMsgs, WriteErrorMsgs DEF OnWriteEvent
  <1>5. ASSUME NEW s \in Objects, OnWriteTail(s) PROVE MsgInv'
    BY <1>5, WriteTailMsgs
  <1>6. CASE OnResponse
    BY <1>6, ResponseMsgs
  <1>7. ASSUME NEW w \in Threads, WorkerStep(w) PROVE MsgInv'
    <2>1. CASE TakeTask(w)
      BY <2>1, TakeTaskMsgs
    <2>2. CASE WorkerTask(w) \/ StartTask(w)
      BY <2>2, HandlerMsg, SetStatusMsgs, SetNotRunningMsgs, PushMsgs DEF WorkerTask, StartTask
    <2>3. CASE ErrorTask(w) \/ TimeoutTask(w) \/ CloseTask(w)
      <3>1. work[w].kind \in FinalKinds
        BY <2>3 DEF ErrorTask, TimeoutTask, CloseTask, FinalKinds
      <3> QED
        BY <2>3, <3>1, HandlerMsg, PushMsgs, DestroyMsgs DEF ErrorTask, TimeoutTask, CloseTask
    <2> QED
      BY <1>7, <2>1, <2>2, <2>3 DEF WorkerStep
  <1>8. CASE DrainInput \/ PeerStep \/ UNCHANGED vars
    <2>1. /\ mgr' = mgr /\ ses' = ses /\ msgs' = msgs /\ work' = work /\ respQ' = respQ
      BY <1>8 DEF DrainInput, PeerStep, PeerSend, PeerLeave, vars
    <2> QED
      BY <2>1, KeptHolding, MsgQuiet
  <1> QED
    BY <1>1, <1>2, <1>3, <1>4, <1>5, <1>6, <1>7, <1>8 DEF Next, LoopStep

\* Undelivered, in which the property is stated, is what the invariant counts.
LEMMA UndeliveredCounted ==
    ASSUME MsgsTyped, NEW m \in HandlerMsgs
    PROVE  m \in Undelivered <=> InFlight(m) # 0
  <1>1. m # 0
    BY ServerAssumption DEF HandlerMsgs
  <1>2. DOMAIN Loads = Threads /\ IsFiniteSet(Places(Loads, {m}))
        /\ IsFiniteSet(Places(respQ, RespsOf(m)))
    <2>1. DOMAIN Loads = Threads /\ IsFiniteSet(Threads)
      BY ServerAssumption DEF Loads
    <2> QED
      BY <2>1, CountFunType, CountSeqType DEF MsgsTyped
  <1>3. Count(Loads, {m}) = 0 <=> \A w \in Threads : Loads[w] # m
    BY <1>2, CountZero
  <1>4. Count(respQ, RespsOf(m)) = 0 <=> \A i \in DOMAIN respQ : respQ[i].msg # m
    <2>1. \A i \in DOMAIN respQ : respQ[i] \in Resps
      BY ElementOfSeq, LenProperties DEF MsgsTyped
    <2>2. \A i \in DOMAIN respQ : respQ[i] \in RespsOf(m) <=> respQ[i].msg = m
      BY <2>1 DEF RespsOf
    <2>3. Count(respQ, RespsOf(m)) = 0 <=> \A i \in DOMAIN respQ : respQ[i] \notin RespsOf(m)
      BY <1>2, CountZero
    <2> QED
      BY <2>2, <2>3
  <1>5. \A w \in Threads : Loads[w] = m <=> work[w].pc \in Laden /\ work[w].resp.msg = m
    BY <1>1 DEF Loads, Carried
  <1>6. m \in Undelivered <=> \/ \E w \in Threads : Loads[w] = m
                              \/ \E i \in DOMAIN respQ : respQ[i].msg = m
    BY <1>5 DEF Undelivered, Laden
  <1>7. Count(Loads, {m}) \in Nat /\ Count(respQ, RespsOf(m)) \in Nat
    BY FlightType
  <1>8. InFlight(m) = 0 <=> Count(Loads, {m}) = 0 /\ Count(respQ, RespsOf(m)) = 0
    BY <1>7 DEF InFlight
  <1> QED
    BY <1>3, <1>4, <1>6, <1>8

\* The invariant implies the property.
LEMMA MsgInvMeans == MsgInv => MessageAccounting
  <1> SUFFICES ASSUME MsgInv, NEW m \in HandlerMsgs, msgs[m].made
               PROVE  LET msg == msgs[m]
                          holders == {s \in Objects : m \in Range(ses[s].mOutList)}
                      IN  /\ msg.all = msg.to \cup msg.ok \cup msg.fail
                          /\ msg.to \cap (msg.ok \cup msg.fail) = {} /\ msg.ok \cap msg.fail = {}
                          /\ m \in Undelivered => holders = {} /\ msg.completions = 0
                          /\ m \notin Undelivered =>
                                /\ msg.to = {ses[s].mSid : s \in holders}
                                /\ msg.completions = IF msg.to = {} THEN 1 ELSE 0
    BY DEF MessageAccounting
  <1>1. MessageOK(m) /\ MsgsTyped
    BY DEF MsgInv
  <1>2. m \in Undelivered <=> InFlight(m) # 0
    BY <1>1, UndeliveredCounted
  <1>3. PICK msg : msg = msgs[m]
    OBVIOUS
  <1>4. PICK holders : holders = {s \in Objects : m \in Range(ses[s].mOutList)}
    OBVIOUS
  <1>5. \A s : s \in holders <=> s \in Objects /\ Holder(s, m)
    BY <1>4 DEF Range, Holder
  <1>6. Lists(msg)
    BY <1>1, <1>3 DEF MessageOK
  <1>7. m \in Undelivered => holders = {} /\ msg.completions = 0
    <2>1. m \in Undelivered => InFlight(m) = 1
      BY <1>1, <1>2 DEF MessageOK
    <2>2. InFlight(m) = 1 => msg.completions = 0 /\ \A s \in Objects : ~Holder(s, m)
      BY <1>1, <1>3 DEF MessageOK
    <2> QED
      BY <1>5, <2>1, <2>2
  <1>8. ASSUME m \notin Undelivered
        PROVE  /\ msg.to = {ses[s].mSid : s \in holders}
               /\ msg.completions = IF msg.to = {} THEN 1 ELSE 0
    <2>1. InFlight(m) = 0
      BY <1>2, <1>8
    <2>2. /\ \A s \in Objects : Holder(s, m) => ses[s].mSid \in msg.to
          /\ \A sid \in msg.to : \E s \in Objects : Holder(s, m) /\ ses[s].mSid = sid
          /\ msg.completions = IF msg.to = {} THEN 1 ELSE 0
      BY <1>1, <1>3, <2>1 DEF MessageOK
    <2>3. \A s \in holders : ses[s].mSid \in msg.to
      BY <1>5, <2>2
    <2>4. \A sid \in msg.to : \E s \in holders : ses[s].mSid = sid
      BY <1>5, <2>2
    <2>5. msg.to = {ses[s].mSid : s \in holders}
      BY <2>3, <2>4
    <2> QED
      BY <2>2, <2>5
  <1> QED
    BY <1>3, <1>4, <1>6, <1>7, <1>8 DEF Lists

\* The invariant holds in every reachable state.
THEOREM MessageInvariant == Spec => []MsgInv
  <1>1. Init => MsgInv
    BY MsgInvInit
  <1>2. ServerInv /\ MsgInv /\ [Next]_vars => MsgInv'
    BY MsgInvNext
  <1> QED
    BY <1>1, <1>2, ServerInvariant, PTL DEF Spec

\* For any number of sessions, threads, messages and responses: every sid a
\* message was addressed to is on exactly one of its lists, the outLists that refer
\* to a message are those of its toList, and the message is pushed to the
\* OutputResultQueue, whose consumer deletes it, once, when no outList refers to it
\* (onResponse, transmit, doError and doTimeout of speventcb.cpp).
THEOREM Accounted == Spec => []MessageAccounting
  BY MessageInvariant, MsgInvMeans, PTL

-----------------------------------------------------------------------------
(***************************************************************************)
(* Nothing is forgotten (NotStranded and CloseNotForgotten).               *)
(*                                                                         *)
(* A callback that finds the session running, or closing, returns and      *)
(* leaves the rest to the response of the task that is under way.  So the  *)
(* invariant follows a response from setStatus to onResponse and says of   *)
(* each session of the table that it either waits for a response or has    *)
(* the event that its status, its input and its outList call for.  That    *)
(* the response comes to the session it was made for needs that no sid     *)
(* which was given up becomes current again: mSeq must not wrap.           *)
(***************************************************************************)

(* The inductive invariant of the sessions that are served *)

\* The sessions that left the table.
Gone == {s \in Objects : ses[s].life # "unborn" /\ ~Managed(s)}

\* As long as mSeq has not wrapped, a sid that was given up is older than its
\* key's sequence number; each step of that number has its own session.
SidsOK ==
    /\ \A k \in Keys : mgr.mSeq[k] <= Cardinality(Gone)
    /\ \A s \in Objects : ses[s].life # "unborn" => ses[s].mSid \in Sids
    /\ \A s \in Gone : ses[s].mSid.mSeq < mgr.mSeq[ses[s].mSid.mKey]

\* The sid is that of a session that has been accepted and, if it is still in the
\* table, has started.
Known(sid) ==
    \E t \in Objects : /\ ses[t].life # "unborn" /\ ses[t].mSid = sid
                       /\ Managed(t) => ses[t].started

\* A response names such sessions only.
NamesOK(r) == ~CloseWhileStarting => \A sid \in r.close : Known(sid)
ResponsesOK == \A i \in DOMAIN respQ : Known(respQ[i].from) /\ NamesOK(respQ[i])

\* A thread that has a response: it is from the session of its task.
ThreadOK(w) ==
    /\ work[w].pc \in Laden =>
          /\ work[w].resp.from = ses[work[w].s].mSid /\ ses[work[w].s].life # "unborn"
          /\ NamesOK(work[w].resp)
    /\ work[w].pc = "status" => work[w].status \in {"eNormal", "eWouldExit"}
    /\ work[w].kind \in HandlerKinds /\ work[w].pc \in {"unrun", "push"} /\ Managed(work[w].s) =>
          ses[work[w].s].started
    /\ work[w].kind = "start" /\ work[w].pc \in {"handle", "status"} => ~ses[work[w].s].started

\* The start task of a session comes before its first status.
StartsOK(q) == \A i \in DOMAIN q : q[i].kind = "start" => ~ses[q[i].s].started

\* A response of s is on its way: ResponseDue, with mRunning for HandlerBusy.
Answering(s) ==
    \E w \in Threads : work[w].s = s /\ work[w].kind \in HandlerKinds /\ work[w].pc = "push"
Answered(s) == \E i \in DOMAIN respQ : respQ[i].from = ses[s].mSid
Due(s) == ses[s].mRunning \/ Answering(s) \/ Answered(s)

\* What holds of one session of the table.
Served(s) ==
    /\ ses[s].mStatus \in Statuses
    /\ ses[s].mStatus = "eWouldExit" => Due(s)
    /\ ~ses[s].mRunning /\ ~ses[s].started => ses[s].mStatus = "eExit"
    /\ ses[s].mStatus = "eNormal" \/ ~ses[s].started => ses[s].mReading = ses[s].readEvent
    /\ ses[s].mStatus = "eNormal" /\ ~Due(s) => ses[s].readEvent
    /\ ses[s].mOutList # <<>> /\ ~Due(s) => ses[s].writeEvent
    /\ loop.s # s /\ ~Due(s) /\ (ses[s].mStatus = "eExit" \/ Decodable(ses[s])) => ses[s].writeEvent
    /\ loop.s = s /\ ses[s].mStatus = "eExit" /\ ~ses[s].writeEvent => loop.exit

\* A session that was closed has started, and stays closed.
Closing(s) ==
    /\ ses[s].life # "unborn"
    /\ ses[s].life = "live" => ses[s].mStatus # "eNormal"
    /\ Managed(s) => ses[s].started

ServedInv ==
    /\ SidsOK /\ ResponsesOK /\ StartsOK(inputQ) /\ StartsOK(execQ)
    /\ \A w \in Threads : ThreadOK(w)
    /\ \A s \in Objects : Managed(s) => Served(s)
    /\ \A s \in Objects : ses[s].started => ses[s].life # "unborn"
    /\ closeReq \subseteq Objects
    /\ ~CloseWhileStarting => \A s \in closeReq : Closing(s)

-----------------------------------------------------------------------------
(* Sids that are not used again *)

\* The sessions that are gone are finitely many.
LEMMA GoneFinite ==
    /\ IsFiniteSet(Gone) /\ Cardinality(Gone) \in Nat
    /\ \A s \in Objects : s \notin Gone =>
          /\ Cardinality(Gone) < MaxSessions
          /\ Cardinality(Gone \cup {s}) = Cardinality(Gone) + 1
  <1>1. MaxSessions \in Nat
    BY ServerAssumption
  <1>2. IsFiniteSet(Objects) /\ Cardinality(Objects) = MaxSessions
    BY <1>1, FS_Interval DEF Objects
  <1>3. Gone \in SUBSET Objects
    BY DEF Gone
  <1>4. /\ IsFiniteSet(Gone) /\ Cardinality(Gone) <= MaxSessions
        /\ Cardinality(Gone) = MaxSessions => Gone = Objects
    BY <1>2, <1>3, FS_Subset
  <1>5. Cardinality(Gone) \in Nat
    BY <1>4, FS_CardinalityType
  <1>6. \A s \in Objects : s \notin Gone => Cardinality(Gone \cup {s}) = Cardinality(Gone) + 1
    BY <1>4, FS_AddElement
  <1> QED
    BY <1>1, <1>4, <1>5, <1>6

\* A step that moves no session into or out of the table, and creates none,
\* keeps the sids.
LEMMA SidsFrame ==
    ASSUME SidsOK, mgr' = mgr,
           \A t \in Objects : /\ ses'[t].life = "unborn" <=> ses[t].life = "unborn"
                              /\ ses'[t].mSid = ses[t].mSid /\ (Managed(t)' <=> Managed(t))
    PROVE  SidsOK'
  <1>1. Gone' = Gone
    BY DEF Gone
  <1> QED
    BY <1>1 DEF SidsOK, Gone

\* A session leaves: the sequence number of its key advances, and does not wrap.
LEMMA SidsLeave ==
    ASSUME MaxSessions < SeqMod, ServerInv, MsgInv, SidsOK, NEW s \in Objects, Managed(s),
           mgr' = Remove(mgr, ses[s].mSid.mKey),
           \A t \in Objects : ses'[t].life = ses[t].life /\ ses'[t].mSid = ses[t].mSid
    PROVE  SidsOK'
  <1>0. PICK key : key = ses[s].mSid.mKey
    OBVIOUS
  <1>1. /\ key \in Keys /\ mgr.mSession[key] = s /\ s # NULL /\ ses[s].life = "live"
        /\ TableOK(mgr, Objects) /\ mgr.mSeq[key] = ses[s].mSid.mSeq
    BY <1>0, SessionFacts DEF ServerInv, MsgInv, OutListOK
  <1>2. /\ mgr'.mSeq[key] = NextSeq(mgr.mSeq[key])
        /\ \A k \in Keys : k # key => mgr'.mSeq[k] = mgr.mSeq[k]
    <2>1. mgr.mSession[key] # NULL /\ mgr' = Remove(mgr, key)
      BY <1>0, <1>1
    <2> QED
      BY <1>1, <2>1, RemoveOK
  <1>3. ~Managed(s)' /\ \A t \in Objects : t # s => (Managed(t)' <=> Managed(t))
    BY LeaveTable
  <1>4. s \notin Gone /\ Gone' = Gone \cup {s}
    BY <1>1, <1>3 DEF Gone
  <1>5. PICK n : n = Cardinality(Gone)
    OBVIOUS
  <1>6. n \in Nat /\ n < MaxSessions /\ Cardinality(Gone)' = n + 1
    BY <1>4, <1>5, GoneFinite
  <1>7. MaxSessions \in Nat /\ SeqMod \in Nat
    BY ServerAssumption, TableAssumption
  <1>8. \A k \in Keys : mgr.mSeq[k] <= n /\ mgr.mSeq[k] \in Nat
    BY <1>1, <1>5 DEF SidsOK, TableOK, Table, Seqs
  <1>9. mgr'.mSeq[key] = mgr.mSeq[key] + 1
    BY <1>1, <1>2, <1>6, <1>7, <1>8 DEF NextSeq
  <1>10. \A k \in Keys : mgr.mSeq[k] <= mgr'.mSeq[k] /\ mgr'.mSeq[k] <= n + 1
                         /\ mgr'.mSeq[k] \in Nat
    BY <1>2, <1>6, <1>8, <1>9
  <1>11. ASSUME NEW t \in Gone'
         PROVE  ses'[t].mSid.mSeq < mgr'.mSeq[ses'[t].mSid.mKey]
    <2>1. t \in Objects /\ ses'[t].mSid = ses[t].mSid
      BY DEF Gone
    <2>2. CASE t = s
      BY <1>0, <1>1, <1>8, <1>9, <2>1, <2>2
    <2>3. CASE t # s
      <3>1. t \in Gone /\ ses[t].life # "unborn"
        BY <1>4, <2>3 DEF Gone
      <3>2. ses[t].mSid \in Sids /\ ses[t].mSid.mSeq < mgr.mSeq[ses[t].mSid.mKey]
        BY <2>1, <3>1 DEF SidsOK
      <3>3. ses[t].mSid.mKey \in Keys /\ ses[t].mSid.mSeq \in Nat
        BY <3>2 DEF Sids, Seqs
      <3> QED
        BY <1>8, <1>10, <2>1, <3>2, <3>3
    <2> QED
      BY <2>2, <2>3
  <1> QED
    BY <1>6, <1>10, <1>11 DEF SidsOK

\* A session of the table and one that was accepted do not have the same sid.
LEMMA SidOfOne ==
    ASSUME MsgInv, SidsOK, NEW s \in Objects, NEW t \in Objects, Managed(s),
           ses[t].life # "unborn", ses[t].mSid = ses[s].mSid
    PROVE  t = s
  <1>1. CASE Managed(t)
    BY <1>1, SidUnique
  <1>2. CASE ~Managed(t)
    <2>1. t \in Gone /\ ses[t].mSid \in Sids
      BY <1>2 DEF Gone, SidsOK
    <2>2. ses[t].mSid.mSeq < mgr.mSeq[ses[t].mSid.mKey] /\ ses[t].mSid.mSeq \in Nat
      BY <2>1 DEF SidsOK, Sids, Seqs
    <2>3. mgr.mSeq[ses[s].mSid.mKey] = ses[s].mSid.mSeq
      BY DEF MsgInv, OutListOK
    <2> QED
      BY <2>2, <2>3
  <1> QED
    BY <1>1, <1>2

\* Sessions keep their sids; they do not come back to the table, nor to the time
\* before their first status.
SidsKept ==
    \A t \in Objects : ses[t].life # "unborn" =>
        /\ ses'[t].life # "unborn" /\ ses'[t].mSid = ses[t].mSid
        /\ Managed(t)' => Managed(t) /\ (ses[t].started => ses'[t].started)

LEMMA KnownKept ==
    ASSUME SidsKept, NEW sid, Known(sid)
    PROVE  Known(sid)'
  BY DEF Known, SidsKept

\* What is known of a session of the table.
LEMMA KnownStarted ==
    ASSUME MsgInv, SidsOK, NEW s \in Objects, Managed(s), Known(ses[s].mSid)
    PROVE  ses[s].started
  <1>1. PICK t \in Objects : /\ ses[t].life # "unborn" /\ ses[t].mSid = ses[s].mSid
                             /\ Managed(t) => ses[t].started
    BY DEF Known
  <1>2. t = s
    BY <1>1, SidOfOne
  <1> QED
    BY <1>1, <1>2

-----------------------------------------------------------------------------
(* What a step leaves alone *)

\* Names stay good.
LEMMA NamesKept ==
    ASSUME SidsKept, NEW r, NamesOK(r), NEW p, p.close = r.close
    PROVE  (NamesOK(p))'
  BY KnownKept DEF NamesOK

\* A step that starts no session, and lets no session of the table change its
\* status.
Quiet ==
    \A t \in Objects :
        /\ ses'[t].started => ses[t].started
        /\ ses[t].life # "unborn" /\ ses'[t].life = "live" =>
              ses[t].life = "live" /\ ses'[t].mStatus = ses[t].mStatus

LEMMA ResponsesKept ==
    ASSUME SidsKept, ResponsesOK, respQ' = respQ
    PROVE  ResponsesOK'
  <1> SUFFICES ASSUME NEW i \in DOMAIN respQ
               PROVE  Known(respQ[i].from)' /\ NamesOK(respQ[i])'
    BY DEF ResponsesOK
  <1>1. PICK r, sid : r = respQ[i] /\ sid = r.from
    OBVIOUS
  <1>2. Known(sid) /\ NamesOK(r) /\ respQ'[i] = r
    BY <1>1 DEF ResponsesOK
  <1>3. Known(sid)' /\ NamesOK(r)'
    BY <1>2, KnownKept, NamesKept
  <1> QED
    BY <1>1, <1>2, <1>3

\* A thread that does not move.
LEMMA ThreadKept ==
    ASSUME SidsKept, NEW w \in Threads, IsWork(work[w]), ThreadOK(w), work'[w] = work[w],
           work[w].kind = "start" /\ work[w].pc \in {"handle", "status"} =>
               ~ses'[work[w].s].started
    PROVE  ThreadOK(w)'
  <1>1. work[w].pc \in Laden => work[w].s \in Objects
    BY DEF IsWork, Laden
  <1>2. CASE work[w].pc \in Laden
    <2>1. PICK x, s : x = work[w] /\ s = x.s
      OBVIOUS
    <2>2. /\ x.resp.from = ses[s].mSid /\ ses[s].life # "unborn" /\ s \in Objects
          /\ x.pc = "status" => x.status \in {"eNormal", "eWouldExit"}
          /\ x.kind \in HandlerKinds /\ x.pc \in {"unrun", "push"} /\ Managed(s) => ses[s].started
      BY <1>1, <1>2, <2>1 DEF ThreadOK
    <2>3. PICK r : r = x.resp
      OBVIOUS
    <2>4. NamesOK(r)
      BY <1>2, <2>1, <2>3 DEF ThreadOK
    <2>5. NamesOK(r)'
      BY <2>4, NamesKept
    <2>6. /\ ses'[s].life # "unborn" /\ ses'[s].mSid = ses[s].mSid
          /\ Managed(s)' => Managed(s) /\ (ses[s].started => ses'[s].started)
      BY <2>2 DEF SidsKept
    <2>7. work'[w] = x /\ (x.kind = "start" /\ x.pc = "status" => ~ses'[s].started)
      BY <2>1
    <2>8. x.pc \in Laden /\ x.pc # "handle"
      BY <1>2, <2>1 DEF Laden
    <2> QED
      BY <2>1, <2>2, <2>3, <2>5, <2>6, <2>7, <2>8 DEF ThreadOK
  <1>3. CASE work[w].pc \notin Laden
    BY <1>3 DEF ThreadOK, Laden
  <1> QED
    BY <1>2, <1>3

\* A queue that does not change.
LEMMA StartsKept ==
    ASSUME NEW q \in Seq(Tasks), StartsOK(q),
           \A t \in Objects : ses'[t].started => ses[t].started,
           NEW p, p = q
    PROVE  \A i \in DOMAIN p : p[i].kind = "start" => ~ses'[p[i].s].started
  <1>1. \A i \in DOMAIN q : q[i] \in Tasks
    BY ElementOfSeq, LenProperties
  <1> QED
    BY <1>1 DEF StartsOK, Tasks

\* A task is appended.
LEMMA StartsAppended ==
    ASSUME NEW q \in Seq(Tasks), StartsOK(q),
           \A t \in Objects : ses'[t].started => ses[t].started,
           NEW kind \in Kinds, NEW s \in Objects, kind = "start" => ~ses'[s].started,
           NEW p, p = Append(q, Task(kind, s))
    PROVE  \A i \in DOMAIN p : p[i].kind = "start" => ~ses'[p[i].s].started
  <1>1. Task(kind, s) \in Tasks
    BY DEF Task, Tasks
  <1>2. /\ DOMAIN p = 1 .. (Len(q) + 1) /\ DOMAIN q = 1 .. Len(q) /\ Len(q) \in Nat
        /\ \A i \in 1 .. Len(q) : p[i] = q[i]
        /\ p[Len(q) + 1] = Task(kind, s)
    BY <1>1, AppendProperties, LenProperties
  <1>3. \A i \in DOMAIN p : i \in DOMAIN q \/ i = Len(q) + 1
    BY <1>2
  <1>4. \A i \in DOMAIN q : q[i].kind = "start" => ~ses'[q[i].s].started
    BY StartsKept
  <1> QED
    BY <1>2, <1>3, <1>4 DEF Task

\* Steps of the loop: what has to be shown of a step that leaves the threads and
\* the responses alone.
LEMMA LoopFrame ==
    ASSUME ServerInv, ServedInv, SidsOK', SidsKept, Quiet,
           work' = work, respQ' = respQ, execQ' = execQ, closeReq' = closeReq,
           StartsOK(inputQ)', \A t \in Objects : Managed(t)' => Served(t)'
    PROVE  ServedInv'
  <1>1. ResponsesOK'
    BY ResponsesKept DEF ServedInv
  <1>2. StartsOK(execQ)'
    <2>1. execQ \in Seq(Tasks) /\ StartsOK(execQ)
      BY DEF ServerInv, ServerTyped, ServedInv
    <2> QED
      BY <2>1, StartsKept DEF StartsOK, Quiet
  <1>3. ASSUME NEW w \in Threads PROVE ThreadOK(w)'
    <2>1. IsWork(work[w]) /\ ThreadOK(w)
      BY WorkFacts DEF ServedInv
    <2>2. work[w].kind = "start" /\ work[w].pc \in {"handle", "status"} =>
               work[w].s \in Objects /\ ~ses[work[w].s].started
      BY <2>1 DEF ThreadOK, IsWork
    <2>3. \A t \in Objects : ses'[t].started => ses[t].started
      BY DEF Quiet
    <2> QED
      BY <2>1, <2>2, <2>3, ThreadKept
  <1>4. ASSUME ~CloseWhileStarting, NEW s \in closeReq PROVE Closing(s)'
    <2>1. Closing(s) /\ s \in Objects
      BY <1>4 DEF ServedInv
    <2> QED
      BY <2>1 DEF Closing, Quiet, SidsKept
  <1>5. \A s \in Objects : ses'[s].started => ses'[s].life # "unborn"
    BY DEF ServedInv, Quiet, SidsKept
  <1> QED
    BY <1>1, <1>2, <1>3, <1>4, <1>5 DEF ServedInv

\* A session that a step leaves alone.
LEMMA ServedOther ==
    ASSUME NEW t \in Objects, Served(t), ses'[t] = ses[t], Due(t) => Due(t)',
           loop'.s = t => loop' = loop, loop.s = t => loop' = loop
    PROVE  Served(t)'
  BY DEF Served, Decodable

\* Who waits for a response, when no response and no thread moves.
LEMMA DueKept ==
    ASSUME work' = work, respQ' = respQ, NEW t \in Objects, ses'[t].mSid = ses[t].mSid
    PROVE  /\ Answering(t)' <=> Answering(t)
           /\ Answered(t)' <=> Answered(t)
           /\ Due(t)' <=> ses'[t].mRunning \/ Answering(t) \/ Answered(t)
  BY DEF Answering, Answered, Due

\* A callback that changes one session of the table, and may make a worker task
\* for it: that session has to be looked at.
LEMMA LoopTouch ==
    ASSUME ServerInv, ServedInv, NEW s \in Objects, Managed(s), NEW q,
           ses' = [ses EXCEPT ![s] = q] \/ (ses' = ses /\ q = ses[s]),
           q.life = ses[s].life, q.mSid = ses[s].mSid,
           q.started = ses[s].started, q.mStatus = ses[s].mStatus,
           mgr' = mgr, work' = work, respQ' = respQ, execQ' = execQ, closeReq' = closeReq,
           inputQ' = inputQ \/ inputQ' = Append(inputQ, Task("worker", s)),
           loop' = loop \/ (loop.s \in {0, s} /\ loop'.s \in {0, s}),
           Served(s)'
    PROVE  ServedInv'
  <1>1. /\ DOMAIN ses = Objects /\ inputQ \in Seq(Tasks) /\ StartsOK(inputQ) /\ SidsOK
        /\ \A t \in Objects : Managed(t) => Served(t)
        /\ \A t \in Objects : t # 0
    BY SessionFacts DEF ServerInv, ServerTyped, ServedInv
  <1>2. ses'[s] = q /\ \A t \in Objects : t # s => ses'[t] = ses[t]
    BY <1>1
  <1>3. \A t \in Objects : /\ ses'[t].life = ses[t].life /\ ses'[t].mSid = ses[t].mSid
                           /\ ses'[t].started = ses[t].started /\ ses'[t].mStatus = ses[t].mStatus
    BY <1>2
  <1>4. \A t \in Objects : Managed(t)' <=> Managed(t)
    BY <1>3 DEF Managed
  <1>5. SidsOK' /\ SidsKept /\ Quiet
    BY <1>1, <1>3, <1>4, SidsFrame DEF SidsKept, Quiet
  <1>6. StartsOK(inputQ)'
    <2>1. \A t \in Objects : ses'[t].started => ses[t].started
      BY <1>3
    <2>2. "worker" \in Kinds
      BY DEF Kinds
    <2> QED
      BY <1>1, <2>1, <2>2, StartsKept, StartsAppended DEF StartsOK
  <1>7. ASSUME NEW t \in Objects, Managed(t)' PROVE Served(t)'
    <2>1. CASE t = s
      BY <2>1
    <2>2. CASE t # s
      <3>1. Served(t) /\ ses'[t] = ses[t]
        BY <1>1, <1>2, <1>4, <1>7, <2>2
      <3>2. Due(t) => Due(t)'
        BY <3>1, DueKept DEF Due
      <3>3. loop' = loop \/ (loop.s # t /\ loop'.s # t)
        BY <1>1, <2>2
      <3> QED
        BY <3>1, <3>2, <3>3, ServedOther
    <2> QED
      BY <2>1, <2>2
  <1> QED
    BY <1>5, <1>6, <1>7, LoopFrame

-----------------------------------------------------------------------------
(* The callbacks of one session *)

\* q has the fields of r that no event changes.
SameSession(r, q) ==
    /\ q.life = r.life /\ q.mSid = r.mSid /\ q.started = r.started /\ q.mStatus = r.mStatus
    /\ q.mOutList = r.mOutList

\* addEvent and what it leaves alone.
LEMMA AddReadFields ==
    ASSUME NEW r, IsSession(r), NEW q, q = AddRead(r)
    PROVE  /\ IsSession(q) /\ SameSession(r, q) /\ q.mRunning = r.mRunning
           /\ q.mInBuffer = r.mInBuffer
           /\ q.mWriting = r.mWriting /\ q.writeEvent = r.writeEvent
           /\ r.mReading = r.readEvent => q.mReading = q.readEvent /\ q.readEvent
  BY DEF AddRead, IsSession, SameSession

LEMMA AddWriteFields ==
    ASSUME NEW r, IsSession(r), NEW q, q = AddWrite(r)
    PROVE  /\ IsSession(q) /\ SameSession(r, q) /\ q.mRunning = r.mRunning
           /\ q.mInBuffer = r.mInBuffer
           /\ q.mReading = r.mReading /\ q.readEvent = r.readEvent
           /\ r.mWriting = r.writeEvent => q.mWriting = q.writeEvent /\ q.writeEvent
  BY DEF AddWrite, IsSession, SameSession

\* decode and doWork: a request that is left has been handed on.
LEMMA WorkedFields ==
    ASSUME NEW r, IsSession(r), NEW q, q = Worked(r)
    PROVE  /\ IsSession(q) /\ SameSession(r, q)
           /\ q.mReading = r.mReading /\ q.readEvent = r.readEvent
           /\ q.mWriting = r.mWriting /\ q.writeEvent = r.writeEvent
           /\ q.mRunning \/ (q.mRunning = r.mRunning /\ ~Decodable(q))
           /\ r.mRunning => q.mRunning
  <1>1. CASE ~Decodable(r)
    BY <1>1 DEF Worked, SameSession
  <1>2. CASE Decodable(r) /\ r.mStatus = "eNormal"
    <2>1. q = [r EXCEPT !.mInBuffer = @ - ReqLen, !.mRunning = TRUE]
      BY <1>2 DEF Worked
    <2> QED
      BY <2>1 DEF SameSession, IsSession
  <1>3. CASE Decodable(r) /\ r.mStatus # "eNormal"
    <2>1. q = [r EXCEPT !.mInBuffer = 0]
      BY <1>3 DEF Worked
    <2>2. ~(0 >= ReqLen)
      BY ServerAssumption
    <2> QED
      BY <2>1, <2>2 DEF SameSession, IsSession, Decodable
  <1> QED
    BY <1>1, <1>2, <1>3

\* The tasks that doWork makes.
LEMMA WorkTasksMade ==
    ASSUME NEW q \in Seq(Tasks), NEW s \in Objects, NEW r
    PROVE  q \o WorkTasks(r, s) \in {q, Append(q, Task("worker", s))}
  <1>1. q \o <<>> = q
    BY ConcatEmptySeq
  <1>2. q \o <<Task("worker", s)>> = Append(q, Task("worker", s))
    BY AppendIsConcat DEF Task, Tasks, Kinds
  <1> QED
    BY <1>1, <1>2 DEF WorkTasks

\* onRead that received data: the read event is registered again, and a request
\* that is complete waits in a busy session or is handed on.
LEMMA OnReadDataServed ==
    ASSUME ServerInv, ServedInv, NEW s \in Objects, NEW n, OnReadData(s, n)
    PROVE  ServedInv'
  <1> DEFINE g == [ses[s] EXCEPT !.mReading = FALSE, !.readEvent = FALSE, !.mInBuffer = @ + n]
  <1>1. /\ Managed(s) /\ IsSession(ses[s]) /\ Served(s) /\ DOMAIN ses = Objects
        /\ inputQ \in Seq(Tasks) /\ loop = LoopIdle /\ s # 0
    BY EventManaged, SessionFacts DEF OnReadData, ServerInv, ServerTyped, ServedInv
  <1>2. PICK r : r = g
    OBVIOUS
  <1>3. /\ IsSession(r) /\ SameSession(ses[s], r) /\ r.mRunning = ses[s].mRunning
        /\ r.writeEvent = ses[s].writeEvent /\ r.mReading = FALSE /\ r.readEvent = FALSE
    BY <1>1, <1>2 DEF IsSession, SameSession
  <1>4. /\ mgr' = mgr /\ execQ' = execQ /\ work' = work /\ respQ' = respQ /\ closeReq' = closeReq
        /\ loop' = loop
        /\ \/ r.mRunning /\ ses' = [ses EXCEPT ![s] = AddRead(r)] /\ inputQ' = inputQ
           \/ /\ ~r.mRunning /\ ses' = [ses EXCEPT ![s] = AddRead(Worked(r))]
              /\ inputQ' = inputQ \o WorkTasks(r, s)
    BY <1>2 DEF OnReadData
  <1>5. inputQ' = inputQ \/ inputQ' = Append(inputQ, Task("worker", s))
    <2>1. inputQ \o WorkTasks(r, s) \in {inputQ, Append(inputQ, Task("worker", s))}
      BY <1>1, WorkTasksMade
    <2> QED
      BY <1>4, <2>1
  <1>6. PICK p, q : /\ (p = r /\ r.mRunning) \/ p = Worked(r)
                    /\ q = AddRead(p) /\ ses' = [ses EXCEPT ![s] = q]
    BY <1>4
  <1>7. /\ IsSession(p) /\ SameSession(r, p) /\ p.mReading = FALSE /\ p.readEvent = FALSE
        /\ p.writeEvent = r.writeEvent /\ (r.mRunning => p.mRunning)
        /\ p.mRunning \/ (p.mRunning = r.mRunning /\ ~Decodable(p))
    <2>1. CASE p = r /\ r.mRunning
      BY <1>3, <1>6, <2>1 DEF SameSession
    <2>2. CASE p = Worked(r)
      BY <1>3, <2>2, WorkedFields
    <2> QED
      BY <1>6, <2>1, <2>2
  <1>8. /\ SameSession(p, q) /\ q.mRunning = p.mRunning /\ (Decodable(q) <=> Decodable(p))
        /\ q.writeEvent = p.writeEvent /\ q.mReading = q.readEvent /\ q.readEvent
    <2>1. p.mReading = p.readEvent
      BY <1>7
    <2>2. /\ SameSession(p, q) /\ q.mRunning = p.mRunning /\ q.mInBuffer = p.mInBuffer
          /\ q.writeEvent = p.writeEvent /\ q.mReading = q.readEvent /\ q.readEvent
      BY <1>6, <1>7, <2>1, AddReadFields
    <2> QED
      BY <2>2 DEF Decodable
  <1>9. /\ ses'[s] = q /\ q.mSid = ses[s].mSid /\ q.mStatus = ses[s].mStatus
        /\ q.started = ses[s].started /\ q.life = ses[s].life /\ q.mOutList = ses[s].mOutList
    BY <1>1, <1>3, <1>6, <1>7, <1>8 DEF SameSession
  <1>10. /\ Due(s)' <=> q.mRunning \/ Answering(s) \/ Answered(s)
         /\ Due(s) => Due(s)'
    BY <1>3, <1>4, <1>7, <1>8, <1>9, DueKept DEF Due
  <1>11. loop'.s # s /\ loop.s # s
    BY <1>1, <1>4 DEF LoopIdle
  <1>12. /\ q.mRunning \/ (q.mRunning = ses[s].mRunning /\ ~Decodable(q))
         /\ q.writeEvent = ses[s].writeEvent
    BY <1>3, <1>7, <1>8
  <1>13. Served(s)'
    BY <1>1, <1>8, <1>9, <1>10, <1>11, <1>12 DEF Served
  <1> QED
    BY <1>1, <1>4, <1>5, <1>6, <1>9, <1>13, LoopTouch

\* A callback that leaves a session with its read event, or running.
LEMMA EventTouch ==
    ASSUME ServerInv, ServedInv, NEW s \in Objects, Managed(s), NEW q,
           ses' = [ses EXCEPT ![s] = q], SameSession(ses[s], q), q.mRunning = ses[s].mRunning,
           q.mInBuffer = ses[s].mInBuffer,
           q.mReading = q.readEvent
               \/ (q.mReading = ses[s].mReading /\ q.readEvent = ses[s].readEvent),
           q.mRunning \/ (q.readEvent /\ q.writeEvent = ses[s].writeEvent),
           mgr' = mgr, work' = work, respQ' = respQ, execQ' = execQ, closeReq' = closeReq,
           inputQ' = inputQ, loop = LoopIdle, loop' = loop
    PROVE  ServedInv'
  <1>1. /\ DOMAIN ses = Objects /\ Served(s) /\ ses'[s] = q /\ loop.s # s /\ loop'.s # s
    BY SessionFacts DEF ServedInv, LoopIdle
  <1>2. /\ q.mSid = ses[s].mSid /\ q.mStatus = ses[s].mStatus
        /\ q.started = ses[s].started /\ q.life = ses[s].life /\ q.mOutList = ses[s].mOutList
    BY DEF SameSession
  <1>3. /\ Due(s)' <=> Due(s)
        /\ q.mRunning => Due(s)'
    BY <1>1, <1>2, DueKept DEF Due
  <1>4. Decodable(q) <=> Decodable(ses[s])
    BY DEF Decodable
  <1>5. Served(s)'
    BY <1>1, <1>2, <1>3, <1>4 DEF Served
  <1> QED
    BY <1>1, <1>2, <1>5, LoopTouch

\* A callback that gives its session up: it leaves the table for good.
LEMMA LeaveServed ==
    ASSUME MaxSessions < SeqMod, ServerInv, MsgInv, ServedInv, NEW s \in Objects, Managed(s), NEW q,
           ses' = [ses EXCEPT ![s] = q], q.life = ses[s].life, q.mSid = ses[s].mSid,
           q.started = ses[s].started, q.mStatus = ses[s].mStatus,
           mgr' = Remove(mgr, ses[s].mSid.mKey),
           NEW kind \in FinalKinds, inputQ' = Append(inputQ, Task(kind, s)),
           work' = work, respQ' = respQ, execQ' = execQ, closeReq' = closeReq,
           loop.s \in {0, s}, loop' = LoopIdle
    PROVE  ServedInv'
  <1>1. /\ DOMAIN ses = Objects /\ inputQ \in Seq(Tasks) /\ StartsOK(inputQ) /\ SidsOK
        /\ \A t \in Objects : Managed(t) => Served(t)
        /\ \A t \in Objects : t # 0
    BY SessionFacts DEF ServerInv, ServerTyped, ServedInv
  <1>2. ses'[s] = q /\ \A t \in Objects : t # s => ses'[t] = ses[t]
    BY <1>1
  <1>3. \A t \in Objects : /\ ses'[t].life = ses[t].life /\ ses'[t].mSid = ses[t].mSid
                           /\ ses'[t].started = ses[t].started /\ ses'[t].mStatus = ses[t].mStatus
    BY <1>2
  <1>4. ~Managed(s)' /\ \A t \in Objects : t # s => (Managed(t)' <=> Managed(t))
    BY <1>3, LeaveTable
  <1>5. SidsOK'
    BY <1>1, <1>3, SidsLeave
  <1>6. SidsKept /\ Quiet
    BY <1>3, <1>4 DEF SidsKept, Quiet
  <1>7. StartsOK(inputQ)'
    <2>1. \A t \in Objects : ses'[t].started => ses[t].started
      BY <1>3
    <2>2. kind \in Kinds /\ kind # "start"
      BY DEF Kinds, FinalKinds
    <2> QED
      BY <1>1, <2>1, <2>2, StartsAppended DEF StartsOK
  <1>8. ASSUME NEW t \in Objects, Managed(t)' PROVE Served(t)'
    <2>1. t # s /\ Served(t) /\ ses'[t] = ses[t]
      BY <1>1, <1>2, <1>4, <1>8
    <2>2. Due(t) => Due(t)'
      BY <2>1, DueKept DEF Due
    <2>3. loop.s # t /\ loop'.s # t
      BY <1>1, <2>1 DEF LoopIdle
    <2> QED
      BY <2>1, <2>2, <2>3, ServedOther
  <1> QED
    BY <1>5, <1>6, <1>7, <1>8, LoopFrame

\* doError and doTimeout.
LEMMA DropServed ==
    ASSUME MaxSessions < SeqMod, ServerInv, MsgInv, ServedInv, NEW s \in Objects, Managed(s),
           NEW r, IsSession(r), SameSession(ses[s], r),
           NEW kind \in {"error", "timeout"}, DoDrop(s, r, kind),
           work' = work, respQ' = respQ, execQ' = execQ, closeReq' = closeReq,
           loop = LoopIdle, loop' = loop
    PROVE  ServedInv'
  <1>1. PICK q : q = [DelEvents(r) EXCEPT !.mOutList = <<>>]
    OBVIOUS
  <1>2. q.life = r.life /\ q.mSid = r.mSid /\ q.started = r.started /\ q.mStatus = r.mStatus
    BY <1>1 DEF DelEvents, IsSession
  <1>3. q.life = ses[s].life /\ q.mSid = ses[s].mSid /\ q.started = ses[s].started
        /\ q.mStatus = ses[s].mStatus /\ r.mSid = ses[s].mSid
    BY <1>2 DEF SameSession
  <1>4. /\ ses' = [ses EXCEPT ![s] = q] /\ mgr' = Remove(mgr, ses[s].mSid.mKey)
        /\ inputQ' = Append(inputQ, Task(kind, s)) /\ kind \in FinalKinds
    BY <1>1, <1>3 DEF DoDrop, FinalKinds
  <1>5. loop.s \in {0, s} /\ loop' = LoopIdle
    BY DEF LoopIdle
  <1> QED
    BY <1>3, <1>4, <1>5, LeaveServed

\* onRead that received nothing.
LEMMA OnReadEndServed ==
    ASSUME MaxSessions < SeqMod, ServerInv, MsgInv, ServedInv, NEW s \in Objects, OnReadEnd(s)
    PROVE  ServedInv'
  <1>1. Managed(s) /\ IsSession(ses[s])
    BY EventManaged DEF OnReadEnd
  <1>2. PICK r : r = [ses[s] EXCEPT !.mReading = FALSE, !.readEvent = FALSE]
    OBVIOUS
  <1>3. /\ IsSession(r) /\ SameSession(ses[s], r) /\ r.mRunning = ses[s].mRunning
        /\ r.writeEvent = ses[s].writeEvent /\ r.mReading = r.readEvent
        /\ r.mInBuffer = ses[s].mInBuffer
    BY <1>1, <1>2 DEF IsSession, SameSession
  <1>4. /\ execQ' = execQ /\ work' = work /\ respQ' = respQ /\ closeReq' = closeReq
        /\ loop' = loop /\ loop = LoopIdle
        /\ \/ ses' = [ses EXCEPT ![s] = AddRead(r)] /\ mgr' = mgr /\ inputQ' = inputQ
           \/ DoDrop(s, r, "error")
           \/ r.mRunning /\ ses' = [ses EXCEPT ![s] = r] /\ mgr' = mgr /\ inputQ' = inputQ
    BY <1>2 DEF OnReadEnd, DoError
  <1>5. CASE ses' = [ses EXCEPT ![s] = AddRead(r)] /\ mgr' = mgr /\ inputQ' = inputQ
    <2>1. PICK q : q = AddRead(r)
      OBVIOUS
    <2>2. /\ SameSession(r, q) /\ q.mRunning = r.mRunning /\ q.mInBuffer = r.mInBuffer
          /\ q.writeEvent = r.writeEvent /\ q.mReading = q.readEvent /\ q.readEvent
      BY <1>3, <2>1, AddReadFields
    <2>3. /\ SameSession(ses[s], q) /\ q.mRunning = ses[s].mRunning
          /\ q.mInBuffer = ses[s].mInBuffer /\ q.writeEvent = ses[s].writeEvent
      BY <1>3, <2>2 DEF SameSession
    <2> QED
      BY <1>1, <1>4, <1>5, <2>1, <2>2, <2>3, EventTouch
  <1>6. CASE DoDrop(s, r, "error")
    BY <1>1, <1>3, <1>4, <1>6, DropServed
  <1>7. CASE r.mRunning /\ ses' = [ses EXCEPT ![s] = r] /\ mgr' = mgr /\ inputQ' = inputQ
    BY <1>1, <1>3, <1>4, <1>7, EventTouch
  <1> QED
    BY <1>4, <1>5, <1>6, <1>7

\* A timeout, or onWrite whose transmit() failed: the session is given up, or it is
\* running and the event is not registered again.
LEMMA GivenUpServed ==
    ASSUME MaxSessions < SeqMod, ServerInv, MsgInv, ServedInv, NEW s \in Objects,
           OnReadTimeout(s) \/ OnWriteTimeout(s) \/ OnWriteError(s)
    PROVE  ServedInv'
  <1>1. Managed(s) /\ IsSession(ses[s])
    BY EventManaged DEF OnReadTimeout, OnWriteTimeout, OnWriteError
  <1>2. PICK r : /\ r \in {[ses[s] EXCEPT !.mReading = FALSE, !.readEvent = FALSE],
                           [ses[s] EXCEPT !.mWriting = FALSE, !.writeEvent = FALSE]}
                 /\ OnTimeout(s, r) \/ (r = Fired(s) /\ OnWriteError(s))
    BY DEF OnReadTimeout, OnWriteTimeout, Fired
  <1>3. /\ IsSession(r) /\ SameSession(ses[s], r) /\ r.mRunning = ses[s].mRunning
        /\ r.mReading = r.readEvent
               \/ (r.mReading = ses[s].mReading /\ r.readEvent = ses[s].readEvent)
        /\ r.mInBuffer = ses[s].mInBuffer
    BY <1>1, <1>2 DEF IsSession, SameSession
  <1>4. /\ execQ' = execQ /\ work' = work /\ respQ' = respQ /\ closeReq' = closeReq
        /\ loop' = loop /\ loop = LoopIdle
        /\ \/ DoDrop(s, r, "error") \/ DoDrop(s, r, "timeout")
           \/ r.mRunning /\ ses' = [ses EXCEPT ![s] = r] /\ mgr' = mgr /\ inputQ' = inputQ
    BY <1>2 DEF OnTimeout, OnWriteError, DoError, DoTimeout
  <1>5. CASE DoDrop(s, r, "error") \/ DoDrop(s, r, "timeout")
    BY <1>1, <1>3, <1>4, <1>5, DropServed
  <1>6. CASE r.mRunning /\ ses' = [ses EXCEPT ![s] = r] /\ mgr' = mgr /\ inputQ' = inputQ
    BY <1>1, <1>3, <1>4, <1>6, EventTouch
  <1> QED
    BY <1>4, <1>5, <1>6

\* onWrite up to the test: what is left to send has the write event, and a session
\* that must exit and has nothing left to send is remembered.
LEMMA OnWriteServed ==
    ASSUME ServerInv, ServedInv, NEW s \in Objects, NEW n, OnWrite(s, n)
    PROVE  ServedInv'
  <1>1. /\ Managed(s) /\ IsSession(ses[s]) /\ Served(s) /\ DOMAIN ses = Objects
        /\ ses[s].mWriting = ses[s].writeEvent
    BY EventManaged, SessionFacts DEF OnWrite, ServedInv
  <1>2. PICK rest : rest = SubSeq(ses[s].mOutList, n + 1, Len(ses[s].mOutList))
    OBVIOUS
  <1>3. PICK r : r = [Fired(s) EXCEPT !.mOutList = rest]
    OBVIOUS
  <1>4. PICK q : q = IF rest = <<>> THEN r ELSE AddWrite(r)
    OBVIOUS
  <1>5. /\ mgr' = mgr /\ inputQ' = inputQ /\ execQ' = execQ /\ work' = work /\ respQ' = respQ
        /\ closeReq' = closeReq /\ loop = LoopIdle /\ ses' = [ses EXCEPT ![s] = q]
        /\ loop' = [s |-> s, exit |-> rest = <<>> /\ r.mStatus = "eExit"]
    BY <1>2, <1>3, <1>4 DEF OnWrite
  <1>6. /\ IsSession(r) /\ r.life = ses[s].life /\ r.mSid = ses[s].mSid
        /\ r.started = ses[s].started /\ r.mStatus = ses[s].mStatus /\ r.mOutList = rest
        /\ r.mRunning = ses[s].mRunning /\ r.mReading = ses[s].mReading
        /\ r.readEvent = ses[s].readEvent /\ r.mWriting = r.writeEvent
    BY <1>1, <1>3 DEF IsSession, Fired
  <1>7. /\ q.life = ses[s].life /\ q.mSid = ses[s].mSid
        /\ q.started = ses[s].started /\ q.mStatus = ses[s].mStatus /\ q.mOutList = rest
        /\ q.mRunning = ses[s].mRunning /\ q.mReading = ses[s].mReading
        /\ q.readEvent = ses[s].readEvent /\ (rest # <<>> => q.writeEvent)
    <2>1. CASE rest = <<>>
      BY <1>4, <1>6, <2>1
    <2>2. CASE rest # <<>>
      <3>1. q = AddWrite(r)
        BY <1>4, <2>2
      <3> QED
        BY <1>6, <3>1, AddWriteFields DEF SameSession
    <2> QED
      BY <2>1, <2>2
  <1>8. ses'[s] = q /\ loop'.s = s /\ (rest = <<>> /\ q.mStatus = "eExit" => loop'.exit)
    BY <1>1, <1>5, <1>6, <1>7
  <1>9. /\ Due(s)' <=> Due(s)
        /\ q.mRunning => Due(s)'
    BY <1>5, <1>7, <1>8, DueKept DEF Due
  <1>10. Served(s)'
    BY <1>1, <1>7, <1>8, <1>9 DEF Served
  <1>11. loop.s \in {0, s}
    BY <1>5 DEF LoopIdle
  <1> QED
    BY <1>1, <1>5, <1>7, <1>8, <1>10, <1>11, LoopTouch

\* The rest of onWrite: a request that waited is handed on, and a session that
\* must exit is closed, or has the write event.
LEMMA OnWriteTailServed ==
    ASSUME MaxSessions < SeqMod, ServerInv, MsgInv, ServedInv, NEW s \in Objects, OnWriteTail(s)
    PROVE  ServedInv'
  <1>1. PICK r : r = ses[s]
    OBVIOUS
  <1>2. /\ Managed(s) /\ IsSession(r) /\ Served(s) /\ DOMAIN ses = Objects
        /\ inputQ \in Seq(Tasks) /\ loop.s = s /\ s # 0
    BY <1>1, EventManaged, SessionFacts DEF OnWriteTail, ServerInv, ServerTyped, ServedInv
  <1>3. /\ execQ' = execQ /\ work' = work /\ respQ' = respQ /\ closeReq' = closeReq
        /\ loop' = LoopIdle
        /\ \/ r.mRunning /\ mgr' = mgr /\ ses' = ses /\ inputQ' = inputQ
           \/ DoClose(s, r)
           \/ /\ ~r.mRunning /\ ~loop.exit /\ ses' = [ses EXCEPT ![s] = Worked(r)]
              /\ inputQ' = inputQ \o WorkTasks(r, s) /\ mgr' = mgr
    BY <1>1 DEF OnWriteTail
  <1>4. loop.s \in {0, s} /\ loop'.s \in {0, s} /\ loop'.s # s
    BY <1>2, <1>3 DEF LoopIdle
  <1>5. CASE r.mRunning /\ mgr' = mgr /\ ses' = ses /\ inputQ' = inputQ
    <2>1. ses' = ses /\ r = ses[s]
      BY <1>1, <1>5
    <2>2. Due(s)'
      <3>1. ses'[s].mRunning
        BY <1>1, <1>5
      <3> QED
        BY <3>1 DEF Due
    <2>3. Served(s)'
      BY <1>1, <1>2, <1>4, <1>5, <2>2 DEF Served
    <2> QED
      BY <1>1, <1>2, <1>3, <1>4, <1>5, <2>1, <2>3, LoopTouch
  <1>6. CASE DoClose(s, r)
    <2>1. PICK q : q = DelEvents(r)
      OBVIOUS
    <2>2. q.life = r.life /\ q.mSid = r.mSid /\ q.started = r.started /\ q.mStatus = r.mStatus
      BY <1>2, <2>1 DEF DelEvents, IsSession
    <2>3. /\ ses' = [ses EXCEPT ![s] = q] /\ mgr' = Remove(mgr, ses[s].mSid.mKey)
          /\ inputQ' = Append(inputQ, Task("close", s)) /\ "close" \in FinalKinds
      BY <1>1, <1>6, <2>1 DEF DoClose, FinalKinds
    <2> QED
      BY <1>1, <1>2, <1>3, <1>4, <2>2, <2>3, LeaveServed
  <1>7. CASE /\ ~r.mRunning /\ ~loop.exit /\ ses' = [ses EXCEPT ![s] = Worked(r)]
             /\ inputQ' = inputQ \o WorkTasks(r, s) /\ mgr' = mgr
    <2>1. PICK q : q = Worked(r)
      OBVIOUS
    <2>2. /\ SameSession(r, q)
          /\ q.mReading = r.mReading /\ q.readEvent = r.readEvent
          /\ q.mWriting = r.mWriting /\ q.writeEvent = r.writeEvent
          /\ q.mRunning \/ (q.mRunning = r.mRunning /\ ~Decodable(q))
      BY <1>2, <2>1, WorkedFields
    <2>3. ses' = [ses EXCEPT ![s] = q] /\ ses'[s] = q
      BY <1>2, <1>7, <2>1
    <2>4. /\ q.life = ses[s].life /\ q.mSid = ses[s].mSid /\ q.started = ses[s].started
          /\ q.mStatus = ses[s].mStatus /\ q.mOutList = ses[s].mOutList
      BY <1>1, <2>2 DEF SameSession
    <2>5. inputQ' = inputQ \/ inputQ' = Append(inputQ, Task("worker", s))
      <3>1. inputQ \o WorkTasks(r, s) \in {inputQ, Append(inputQ, Task("worker", s))}
        BY <1>2, WorkTasksMade
      <3> QED
        BY <1>7, <3>1
    <2>6. /\ Due(s)' <=> q.mRunning \/ Answering(s) \/ Answered(s)
          /\ Due(s) => Due(s)'
      BY <1>1, <1>3, <1>7, <2>3, <2>4, DueKept DEF Due
    <2>7. Served(s)'
      BY <1>1, <1>2, <1>4, <1>7, <2>2, <2>3, <2>4, <2>6 DEF Served
    <2> QED
      BY <1>2, <1>3, <1>4, <1>7, <2>3, <2>4, <2>5, <2>7, LoopTouch
  <1> QED
    BY <1>3, <1>5, <1>6, <1>7

\* onAccept: a refused connection has the write event and must exit; any other is
\* running until its start task has ended.
LEMMA OnAcceptServed ==
    ASSUME ServerInv, MsgInv, ServedInv, NEW s \in Objects, OnAccept(s)
    PROVE  ServedInv'
  <1>1. PICK key, sid : key = AllocKeyOf(mgr) /\ sid = [mKey |-> key, mSeq |-> AllocSeqOf(mgr)]
    OBVIOUS
  <1>2. PICK new : new = [NewSession EXCEPT !.life = "live", !.mSid = sid]
    OBVIOUS
  <1>3. PICK wait : wait = [new EXCEPT !.mOutList = <<RefusedMsg(s)>>, !.mStatus = "eExit",
                                       !.refused = TRUE]
    OBVIOUS
  <1>4. PICK run : run = [new EXCEPT !.mRunning = TRUE]
    OBVIOUS
  <1>5. /\ ses[s].life = "unborn" /\ key # 0 /\ mgr' = Put(AllocKey(mgr), key, s)
        /\ execQ' = execQ /\ work' = work /\ respQ' = respQ /\ closeReq' = closeReq
        /\ loop = LoopIdle /\ loop' = loop
        /\ \/ ses' = [ses EXCEPT ![s] = AddWrite(wait)] /\ inputQ' = inputQ
           \/ ses' = [ses EXCEPT ![s] = run] /\ inputQ' = Append(inputQ, Task("start", s))
    BY <1>1, <1>2, <1>3, <1>4 DEF OnAccept
  <1>6. /\ TableOK(mgr, Objects) /\ NULL \notin Objects /\ DOMAIN ses = Objects
        /\ inputQ \in Seq(Tasks) /\ StartsOK(inputQ) /\ SidsOK
        /\ \A t \in Objects : Managed(t) => Served(t)
        /\ \A t \in Objects : t # 0 /\ t # NULL
    BY SessionFacts DEF ServerInv, ServerTyped, ServedInv
  <1>7. /\ key \in Keys /\ AllocSeqOf(mgr) \in Seqs
        /\ mgr.mSession[key] = NULL /\ mgr'.mSession[key] = s
        /\ \A k \in Keys : k # key => mgr'.mSession[k] = mgr.mSession[k]
        /\ mgr'.mSeq = mgr.mSeq
    BY <1>1, <1>5, <1>6, AllocPut
  <1>8. sid \in Sids /\ sid.mKey = key
    BY <1>1, <1>7 DEF Sids
  <1>9. /\ IsSession(new) /\ new.life = "live" /\ new.mSid = sid /\ new.mOutList = <<>>
        /\ new.mWriting = FALSE /\ new.writeEvent = FALSE /\ new.mReading = FALSE
        /\ new.readEvent = FALSE /\ new.started = FALSE /\ new.mStatus = "eNormal"
    BY <1>2 DEF NewSession, IsSession
  <1>10. PICK q : /\ ses' = [ses EXCEPT ![s] = q]
                  /\ q.life = "live" /\ q.mSid = sid /\ q.started = FALSE
                  /\ q.mReading = FALSE /\ q.readEvent = FALSE /\ q.mStatus \in {"eNormal", "eExit"}
                  /\ q.mRunning \/ (q.writeEvent /\ q.mStatus = "eExit")
    <2>1. CASE ses' = [ses EXCEPT ![s] = AddWrite(wait)]
      <3>1. PICK q : q = AddWrite(wait)
        OBVIOUS
      <3>2. /\ IsSession(wait) /\ wait.life = "live" /\ wait.mSid = sid /\ wait.mStatus = "eExit"
            /\ wait.mWriting = wait.writeEvent /\ wait.mReading = FALSE
            /\ wait.readEvent = FALSE /\ wait.started = FALSE
        BY <1>3, <1>9 DEF IsSession
      <3>3. /\ q.life = "live" /\ q.mSid = sid /\ q.mStatus = "eExit" /\ q.writeEvent
            /\ q.mReading = FALSE /\ q.readEvent = FALSE /\ q.started = FALSE
        BY <3>1, <3>2, AddWriteFields DEF SameSession
      <3> QED
        BY <2>1, <3>1, <3>3
    <2>2. CASE ses' = [ses EXCEPT ![s] = run]
      <3>1. /\ run.life = "live" /\ run.mSid = sid /\ run.mStatus = "eNormal" /\ run.mRunning
            /\ run.mReading = FALSE /\ run.readEvent = FALSE /\ run.started = FALSE
        BY <1>4, <1>9 DEF IsSession
      <3> QED
        BY <2>2, <3>1
    <2> QED
      BY <1>5, <2>1, <2>2
  <1>11. ses'[s] = q /\ \A t \in Objects : t # s => ses'[t] = ses[t]
    BY <1>6, <1>10
  <1>12. ASSUME NEW t \in Objects, t # s
         PROVE  Managed(t)' <=> Managed(t)
    <2>1. ses[t].life = "live" => ses[t].mSid.mKey \in Keys
      BY SessionFacts DEF SessionOK, Sids
    <2> QED
      BY <1>6, <1>7, <1>11, <1>12, <2>1 DEF Managed
  <1>13. Managed(s)' /\ ~Managed(s)
    BY <1>5, <1>7, <1>8, <1>10, <1>11 DEF Managed
  <1>14. SidsOK'
    <2>1. Gone' = Gone
      BY <1>5, <1>11, <1>12, <1>13 DEF Gone
    <2>2. s \notin Gone
      BY <1>5 DEF Gone
    <2>3. \A t \in Gone : t \in Objects /\ t # s /\ ses'[t] = ses[t]
      BY <1>11, <2>2 DEF Gone
    <2>4. \A t \in Objects : ses'[t].life # "unborn" => ses'[t].mSid \in Sids
      BY <1>6, <1>8, <1>10, <1>11 DEF SidsOK
    <2> QED
      BY <1>6, <1>7, <2>1, <2>3, <2>4 DEF SidsOK
  <1>15. SidsKept /\ Quiet
    BY <1>5, <1>10, <1>11, <1>12 DEF SidsKept, Quiet
  <1>16. StartsOK(inputQ)'
    <2>1. \A t \in Objects : ses'[t].started => ses[t].started
      BY <1>15 DEF Quiet
    <2>2. "start" \in Kinds /\ ~ses'[s].started
      BY <1>10, <1>11 DEF Kinds
    <2>3. inputQ' = inputQ \/ inputQ' = Append(inputQ, Task("start", s))
      BY <1>5
    <2> QED
      BY <1>6, <2>1, <2>2, <2>3, StartsKept, StartsAppended DEF StartsOK
  <1>17. ASSUME NEW t \in Objects, Managed(t)' PROVE Served(t)'
    <2>1. CASE t = s
      <3>1. q.mRunning => Due(s)'
        BY <1>11 DEF Due
      <3>2. loop'.s # s
        BY <1>5, <1>6 DEF LoopIdle
      <3> QED
        BY <1>10, <1>11, <2>1, <3>1, <3>2 DEF Served, Statuses
    <2>2. CASE t # s
      <3>1. Served(t) /\ ses'[t] = ses[t]
        BY <1>6, <1>11, <1>12, <1>17, <2>2
      <3>2. Due(t) => Due(t)'
        BY <1>5, <3>1, DueKept DEF Due
      <3> QED
        BY <1>5, <3>1, <3>2, ServedOther
    <2> QED
      BY <2>1, <2>2
  <1> QED
    BY <1>5, <1>14, <1>15, <1>16, <1>17, LoopFrame

-----------------------------------------------------------------------------
(* Responses *)

\* What onResponse makes of the session the response is from.
LEMMA FromFields ==
    ASSUME NEW r, IsSession(r), r.mWriting = r.writeEvent, NEW q, q = FromSession(r)
    PROVE  /\ IsSession(q) /\ q.life = r.life /\ q.mSid = r.mSid /\ q.started = r.started
           /\ q.mRunning = r.mRunning /\ q.mInBuffer = r.mInBuffer /\ q.mOutList = r.mOutList
           /\ q.mWriting = q.writeEvent /\ q.writeEvent
           /\ q.mStatus = IF r.mStatus = "eWouldExit" THEN "eExit" ELSE r.mStatus
           /\ q.mStatus = "eNormal" /\ r.mReading = r.readEvent =>
                 q.mReading = q.readEvent /\ q.readEvent
  <1>1. PICK st : st = IF r.mStatus = "eWouldExit" THEN "eExit" ELSE r.mStatus
    OBVIOUS
  <1>2. PICK p : p = [r EXCEPT !.mStatus = st, !.readEvent = @ /\ st = "eNormal"]
    OBVIOUS
  <1>3. PICK a : a = AddWrite(p)
    OBVIOUS
  <1>4. q = AddRead(a)
    BY <1>1, <1>2, <1>3 DEF FromSession
  <1>5. /\ IsSession(p) /\ p.life = r.life /\ p.mSid = r.mSid /\ p.started = r.started
        /\ p.mRunning = r.mRunning /\ p.mInBuffer = r.mInBuffer /\ p.mOutList = r.mOutList
        /\ p.mWriting = r.mWriting /\ p.writeEvent = r.writeEvent
        /\ p.mStatus = st /\ p.mReading = r.mReading
        /\ p.readEvent = (r.readEvent /\ st = "eNormal")
    BY <1>2 DEF IsSession
  <1>6. /\ IsSession(a) /\ SameSession(p, a) /\ a.mRunning = p.mRunning
        /\ a.mInBuffer = p.mInBuffer /\ a.mReading = p.mReading /\ a.readEvent = p.readEvent
        /\ a.mWriting = a.writeEvent /\ a.writeEvent
    BY <1>3, <1>5, AddWriteFields
  <1>7. /\ IsSession(q) /\ SameSession(a, q) /\ q.mRunning = a.mRunning
        /\ q.mInBuffer = a.mInBuffer /\ q.mWriting = a.mWriting /\ q.writeEvent = a.writeEvent
    BY <1>4, <1>6, AddReadFields
  <1>8. ASSUME st = "eNormal", r.mReading = r.readEvent
        PROVE  q.mReading = q.readEvent /\ q.readEvent
    <2>1. CASE a.mReading
      <3>1. q = a
        BY <1>4, <2>1 DEF AddRead
      <3> QED
        BY <1>5, <1>6, <1>8, <2>1, <3>1
    <2>2. CASE ~a.mReading
      <3>1. q = [a EXCEPT !.mReading = TRUE, !.readEvent = TRUE]
        BY <1>4, <2>2 DEF AddRead
      <3> QED
        BY <1>6, <3>1 DEF IsSession
    <2> QED
      BY <2>1, <2>2
  <1>9. /\ q.life = r.life /\ q.mSid = r.mSid /\ q.started = r.started /\ q.mOutList = r.mOutList
        /\ q.mStatus = st
    BY <1>5, <1>6, <1>7 DEF SameSession
  <1> QED
    BY <1>1, <1>5, <1>6, <1>7, <1>8, <1>9

\* The session the response is from, and those on its toCloseList.
Sender(t) == LET resp == Head(respQ) IN Get(mgr, resp.from.mKey, resp.from.mSeq) = t
OnCloseList(t) ==
    Get(mgr, ses[t].mSid.mKey, ses[t].mSid.mSeq) = t /\ ses[t].mSid \in Head(respQ).close

\* What onResponse makes of one session of the table.
ResponseTo(r, q, sender, closes) ==
    /\ q.life = r.life /\ q.mSid = r.mSid /\ q.started = r.started
    /\ q.mRunning = r.mRunning /\ q.mInBuffer = r.mInBuffer
    /\ q.mOutList = r.mOutList \/ q.writeEvent
    /\ r.writeEvent => q.writeEvent
    /\ closes => q.mStatus = "eExit" /\ q.writeEvent
    /\ sender => /\ q.writeEvent
                 /\ q.mStatus = "eExit" \/ (q.mStatus = r.mStatus /\ q.mStatus # "eWouldExit")
                 /\ q.mStatus = "eNormal" /\ r.mReading = r.readEvent =>
                       q.mReading = q.readEvent /\ q.readEvent
    /\ ~sender => /\ q.mReading = r.mReading /\ q.readEvent = r.readEvent
                  /\ q.mStatus = r.mStatus \/ (q.mStatus = "eExit" /\ q.writeEvent)

LEMMA ResponseFields ==
    ASSUME ServerInv, OnResponse, NEW t \in Objects
    PROVE  /\ ~Managed(t) => ses'[t] = ses[t] /\ ~Sender(t) /\ ~OnCloseList(t)
           /\ Managed(t) => ResponseTo(ses[t], ses'[t], Sender(t), OnCloseList(t))
  <1>0. PICK m : m = Head(respQ).msg
    OBVIOUS
  <1>1. PICK r1 : r1 = IF Sender(t) THEN FromSession(ses[t]) ELSE ses[t]
    OBVIOUS
  <1>2. PICK o : o = [r1 EXCEPT !.mOutList = Append(@, m)]
    OBVIOUS
  <1>3. PICK r2 : r2 = IF Receiver(t) THEN AddWrite(o) ELSE r1
    OBVIOUS
  <1>4. PICK c : c = [r2 EXCEPT !.mStatus = "eExit"]
    OBVIOUS
  <1>5. PICK q : q = IF OnCloseList(t) THEN AddWrite(c) ELSE r2
    OBVIOUS
  <1>6. ses'[t] = q
    BY <1>0, <1>1, <1>2, <1>3, <1>4, <1>5 DEF OnResponse, Receiver, Addressed, Sender, OnCloseList
  <1>7. (Sender(t) \/ OnCloseList(t) \/ Receiver(t)) => Managed(t)
    BY GetManaged DEF Sender, OnCloseList, Receiver
  <1>8. CASE ~Managed(t)
    BY <1>1, <1>3, <1>5, <1>6, <1>7, <1>8
  <1>9. CASE Managed(t)
    <2>0. PICK r : r = ses[t]
      OBVIOUS
    <2>1. IsSession(r) /\ r.mWriting = r.writeEvent
      BY <1>9, <2>0, SessionFacts
    <2>2. /\ IsSession(r1) /\ r1.mWriting = r1.writeEvent
          /\ r1.mOutList = r.mOutList
          /\ ResponseTo(r, r1, Sender(t), FALSE)
      <3>1. CASE Sender(t)
        <4>1. r1 = FromSession(r)
          BY <1>1, <2>0, <3>1
        <4>2. /\ IsSession(r1) /\ r1.life = r.life /\ r1.mSid = r.mSid /\ r1.started = r.started
              /\ r1.mRunning = r.mRunning /\ r1.mInBuffer = r.mInBuffer
              /\ r1.mOutList = r.mOutList /\ r1.mWriting = r1.writeEvent /\ r1.writeEvent
              /\ r1.mStatus = IF r.mStatus = "eWouldExit" THEN "eExit" ELSE r.mStatus
              /\ r1.mStatus = "eNormal" /\ r.mReading = r.readEvent =>
                    r1.mReading = r1.readEvent /\ r1.readEvent
          BY <2>1, <4>1, FromFields
        <4> QED
          BY <3>1, <4>2 DEF ResponseTo
      <3>2. CASE ~Sender(t)
        BY <1>1, <2>0, <2>1, <3>2 DEF ResponseTo
      <3> QED
        BY <3>1, <3>2
    <2>3. /\ IsSession(o) /\ o.life = r1.life /\ o.mSid = r1.mSid /\ o.started = r1.started
          /\ o.mRunning = r1.mRunning /\ o.mInBuffer = r1.mInBuffer
          /\ o.mStatus = r1.mStatus /\ o.mReading = r1.mReading /\ o.readEvent = r1.readEvent
          /\ o.mWriting = o.writeEvent
      BY <1>2, <2>2 DEF IsSession
    <2>4. /\ IsSession(r2) /\ r2.mWriting = r2.writeEvent
          /\ ResponseTo(r, r2, Sender(t), FALSE)
      <3>1. CASE Receiver(t)
        <4>1. r2 = AddWrite(o)
          BY <1>3, <3>1
        <4>2. /\ IsSession(r2) /\ SameSession(o, r2) /\ r2.mRunning = o.mRunning
              /\ r2.mInBuffer = o.mInBuffer /\ r2.mReading = o.mReading
              /\ r2.readEvent = o.readEvent /\ r2.mWriting = r2.writeEvent /\ r2.writeEvent
          BY <2>3, <4>1, AddWriteFields
        <4> QED
          BY <2>2, <2>3, <4>2 DEF ResponseTo, SameSession
      <3>2. CASE ~Receiver(t)
        BY <1>3, <2>2, <3>2
      <3> QED
        BY <3>1, <3>2
    <2>5. ResponseTo(r, q, Sender(t), OnCloseList(t))
      <3>1. CASE OnCloseList(t)
        <4>1. /\ IsSession(c) /\ c.life = r2.life /\ c.mSid = r2.mSid /\ c.started = r2.started
              /\ c.mRunning = r2.mRunning /\ c.mInBuffer = r2.mInBuffer
              /\ c.mStatus = "eExit" /\ c.mReading = r2.mReading /\ c.readEvent = r2.readEvent
              /\ c.mWriting = c.writeEvent
          BY <1>4, <2>4 DEF IsSession
        <4>2. q = AddWrite(c)
          BY <1>5, <3>1
        <4>3. /\ SameSession(c, q) /\ q.mRunning = c.mRunning /\ q.mInBuffer = c.mInBuffer
              /\ q.mReading = c.mReading /\ q.readEvent = c.readEvent /\ q.writeEvent
          BY <4>1, <4>2, AddWriteFields
        <4> QED
          BY <2>4, <3>1, <4>1, <4>3 DEF ResponseTo, SameSession
      <3>2. CASE ~OnCloseList(t)
        BY <1>5, <2>4, <3>2 DEF ResponseTo
      <3> QED
        BY <3>1, <3>2
    <2> QED
      BY <1>6, <1>9, <2>0, <2>5
  <1> QED
    BY <1>8, <1>9

\* A session of the table is the sender of a response that has its sid.
LEMMA SenderIs ==
    ASSUME ServerInv, MsgInv, respQ # <<>>, NEW t \in Objects, Managed(t)
    PROVE  Sender(t) <=> Head(respQ).from = ses[t].mSid
  <1>1. PICK from, sid : from = Head(respQ).from /\ sid = ses[t].mSid
    OBVIOUS
  <1>2. from \in AnySid /\ sid \in AnySid
    <2>1. respQ \in Seq(Resps) /\ OutListOK(t)
      BY DEF MsgInv, MsgsTyped
    <2>2. Head(respQ) \in Resps
      BY <2>1, HeadTailProperties
    <2> QED
      BY <1>1, <2>1, <2>2 DEF Resps, OutListOK
  <1>3. /\ sid.mKey \in Keys /\ mgr.mSession[sid.mKey] = t /\ mgr.mSeq[sid.mKey] = sid.mSeq
        /\ RowOf(sid.mKey) \in mgr.mArray /\ t # NULL
    <2>1. /\ sid.mKey \in Keys /\ mgr.mSession[sid.mKey] = t /\ t # NULL
          /\ mgr.mSeq[sid.mKey] = sid.mSeq
      BY <1>1, SessionFacts DEF MsgInv, OutListOK
    <2> QED
      BY <2>1 DEF ServerInv, TableOK
  <1>4. ASSUME from = sid PROVE Get(mgr, from.mKey, from.mSeq) = t
    BY <1>3, <1>4 DEF Get
  <1>5. ASSUME Get(mgr, from.mKey, from.mSeq) = t PROVE from = sid
    <2>1. from.mKey = sid.mKey
      BY <1>1, <1>5, GetManaged
    <2>2. from.mSeq = mgr.mSeq[from.mKey]
      BY <1>3, <1>5, <2>1 DEF Get
    <2> QED
      BY <1>2, <1>3, <2>1, <2>2, SidEqual
  <1> QED
    BY <1>1, <1>4, <1>5 DEF Sender

\* Who waits for a response, when the first one is taken.
LEMMA DueTaken ==
    ASSUME MsgInv, respQ # <<>>, respQ' = Tail(respQ), work' = work, NEW t \in Objects,
           ses'[t].mSid = ses[t].mSid, ses'[t].mRunning = ses[t].mRunning,
           Head(respQ).from # ses[t].mSid
    PROVE  Due(t) => Due(t)'
  <1>1. PICK q, p : q = respQ /\ p = Tail(q)
    OBVIOUS
  <1>2. respQ \in Seq(Resps)
    BY DEF MsgInv, MsgsTyped
  <1>3. /\ Len(q) \in Nat /\ DOMAIN q = 1 .. Len(q) /\ Len(q) # 0
        /\ DOMAIN p = 1 .. (Len(q) - 1) /\ \A i \in 1 .. (Len(q) - 1) : p[i] = q[i + 1]
        /\ Head(q) = q[1]
    <2>1. q \in Seq(Resps) /\ q # <<>>
      BY <1>1, <1>2
    <2>2. p \in Seq(Resps) /\ Len(p) = Len(q) - 1 /\ \A i \in 1 .. Len(p) : p[i] = q[i + 1]
      BY <1>1, <2>1, HeadTailProperties
    <2> QED
      BY <2>1, <2>2, LenProperties, EmptySeq
  <1>4. ASSUME Answered(t) PROVE Answered(t)'
    <2>1. PICK i \in DOMAIN q : q[i].from = ses[t].mSid
      BY <1>1, <1>4 DEF Answered
    <2>2. i # 1
      BY <1>1, <1>3, <2>1
    <2>3. i - 1 \in DOMAIN p /\ p[i - 1] = q[i]
      BY <1>3, <2>2
    <2>4. respQ' = p
      BY <1>1
    <2> QED
      BY <2>1, <2>3, <2>4 DEF Answered
  <1>5. Answering(t) => Answering(t)'
    BY DEF Answering
  <1> QED
    BY <1>4, <1>5 DEF Due

\* A session of the table after onResponse.
LEMMA ResponseServed ==
    ASSUME NEW t \in Objects, NEW q, ses'[t] = q, Served(t), NEW sender, NEW closes,
           ResponseTo(ses[t], q, sender, closes),
           sender => ses[t].started, ~sender => (Due(t) => Due(t)'), loop.s # t, loop'.s # t
    PROVE  Served(t)'
  <1>1. Decodable(q) <=> Decodable(ses[t])
    BY DEF ResponseTo, Decodable
  <1>2. q.mRunning = ses[t].mRunning /\ q.started = ses[t].started
    BY DEF ResponseTo
  <1>3. CASE sender
    <2>1. /\ q.writeEvent /\ q.started /\ q.mStatus # "eWouldExit"
          /\ q.mStatus = "eExit" \/ q.mStatus = ses[t].mStatus
          /\ q.mStatus = "eNormal" /\ ses[t].mReading = ses[t].readEvent =>
                q.mReading = q.readEvent /\ q.readEvent
      BY <1>2, <1>3 DEF ResponseTo
    <2> QED
      BY <2>1 DEF Served, Statuses
  <1>4. CASE ~sender
    <2>1. /\ q.mReading = ses[t].mReading /\ q.readEvent = ses[t].readEvent
          /\ q.mStatus = ses[t].mStatus \/ (q.mStatus = "eExit" /\ q.writeEvent)
          /\ q.mOutList = ses[t].mOutList \/ q.writeEvent
          /\ ses[t].writeEvent => q.writeEvent
          /\ Due(t) => Due(t)'
      BY <1>4 DEF ResponseTo
    <2> QED
      BY <1>1, <1>2, <2>1 DEF Served, Statuses
  <1> QED
    BY <1>3, <1>4

\* onResponse: the sender gets its events back, or must exit and has the write
\* event; so has whoever receives the message or is on the toCloseList.
LEMMA OnResponseServed ==
    ASSUME ServerInv, MsgInv, ServedInv, OnResponse
    PROVE  ServedInv'
  <1>1. /\ mgr' = mgr /\ inputQ' = inputQ /\ execQ' = execQ /\ work' = work /\ loop' = loop
        /\ loop = LoopIdle /\ respQ # <<>> /\ respQ' = Tail(respQ)
        /\ closeReq' = closeReq \cup {s \in Objects : OnCloseList(s)}
    BY DEF OnResponse, OnCloseList
  <1>2. /\ DOMAIN ses = Objects /\ inputQ \in Seq(Tasks) /\ execQ \in Seq(Tasks)
        /\ respQ \in Seq(Resps)
        /\ SidsOK /\ ResponsesOK /\ StartsOK(inputQ) /\ StartsOK(execQ)
        /\ \A t \in Objects : Managed(t) => Served(t)
        /\ \A t \in Objects : t # 0
    BY SessionFacts DEF ServerInv, ServerTyped, MsgInv, MsgsTyped, ServedInv
  <1>3. ASSUME NEW t \in Objects
        PROVE  /\ ses'[t].life = ses[t].life /\ ses'[t].mSid = ses[t].mSid
               /\ ses'[t].started = ses[t].started /\ ses'[t].mRunning = ses[t].mRunning
               /\ ses'[t].mStatus = "eNormal" => ses[t].mStatus = "eNormal"
               /\ OnCloseList(t) => Managed(t) /\ ses'[t].mStatus = "eExit"
    BY ResponseFields DEF ResponseTo
  <1>4. \A t \in Objects : Managed(t)' <=> Managed(t)
    BY <1>1, <1>3 DEF Managed
  <1>5. SidsOK'
    BY <1>1, <1>2, <1>3, <1>4, SidsFrame
  <1>6. SidsKept
    BY <1>3, <1>4 DEF SidsKept
  <1>7. PICK h : h = Head(respQ)
    OBVIOUS
  <1>8. Known(h.from) /\ NamesOK(h)
    <2>1. 1 \in DOMAIN respQ /\ respQ[1] = h
      BY <1>1, <1>2, <1>7, HeadTailProperties, LenProperties, EmptySeq
    <2> QED
      BY <1>2, <2>1 DEF ResponsesOK
  <1>9. ResponsesOK'
    <2>1. PICK q, p : q = respQ /\ p = Tail(q)
      OBVIOUS
    <2>2. \A i \in DOMAIN p : i + 1 \in DOMAIN q /\ p[i] = q[i + 1]
      <3>1. q \in Seq(Resps) /\ q # <<>>
        BY <1>1, <1>2, <2>1
      <3>2. /\ p \in Seq(Resps) /\ Len(p) = Len(q) - 1 /\ \A i \in 1 .. Len(p) : p[i] = q[i + 1]
            /\ DOMAIN p = 1 .. Len(p) /\ DOMAIN q = 1 .. Len(q) /\ Len(q) \in Nat
        BY <2>1, <3>1, HeadTailProperties, LenProperties
      <3> QED
        BY <3>2
    <2>3. ASSUME NEW i \in DOMAIN p
          PROVE  Known(p[i].from)' /\ NamesOK(p[i])'
      <3>1. PICK r, sid : r = p[i] /\ sid = r.from
        OBVIOUS
      <3>2. Known(sid) /\ NamesOK(r)
        BY <1>2, <2>1, <2>2, <3>1 DEF ResponsesOK
      <3>3. Known(sid)' /\ NamesOK(r)'
        BY <1>6, <3>2, KnownKept, NamesKept
      <3> QED
        BY <3>1, <3>3
    <2>4. respQ' = p
      BY <1>1, <2>1
    <2> QED
      BY <2>3, <2>4 DEF ResponsesOK
  <1>10. StartsOK(inputQ)' /\ StartsOK(execQ)'
    <2>1. \A t \in Objects : ses'[t].started => ses[t].started
      BY <1>3
    <2> QED
      BY <1>1, <1>2, <2>1, StartsKept DEF StartsOK
  <1>11. ASSUME NEW w \in Threads PROVE ThreadOK(w)'
    <2>1. IsWork(work[w]) /\ ThreadOK(w) /\ work'[w] = work[w]
      BY <1>1, WorkFacts DEF ServedInv
    <2>2. work[w].kind = "start" /\ work[w].pc \in {"handle", "status"} =>
               work[w].s \in Objects /\ ~ses[work[w].s].started
      BY <2>1 DEF ThreadOK, IsWork
    <2> QED
      BY <1>3, <1>6, <2>1, <2>2, ThreadKept
  <1>12. ASSUME NEW t \in Objects, Managed(t)' PROVE Served(t)'
    <2>1. Managed(t) /\ Served(t)
      BY <1>2, <1>4, <1>12
    <2>2. PICK q : q = ses'[t]
      OBVIOUS
    <2>3. ResponseTo(ses[t], q, Sender(t), OnCloseList(t))
      BY <2>1, <2>2, ResponseFields
    <2>4. Sender(t) <=> h.from = ses[t].mSid
      BY <1>1, <1>7, <2>1, SenderIs
    <2>5. Sender(t) => ses[t].started
      BY <1>2, <1>8, <2>1, <2>4, KnownStarted
    <2>6. ~Sender(t) => (Due(t) => Due(t)')
      BY <1>1, <1>3, <1>7, <2>4, DueTaken
    <2>7. loop.s # t /\ loop'.s # t
      BY <1>1, <1>2 DEF LoopIdle
    <2> QED
      BY <2>1, <2>2, <2>3, <2>5, <2>6, <2>7, ResponseServed
  <1>13. ASSUME ~CloseWhileStarting, NEW s \in closeReq' PROVE s \in Objects /\ Closing(s)'
    <2>1. CASE s \in closeReq
      <3>1. s \in Objects /\ Closing(s)
        BY <1>13, <2>1 DEF ServedInv
      <3> QED
        BY <1>3, <1>4, <3>1 DEF Closing
    <2>2. CASE s \in Objects /\ OnCloseList(s)
      <3>1. Managed(s) /\ ses'[s].mStatus = "eExit"
        BY <1>3, <2>2
      <3>2. PICK sid : sid = ses[s].mSid
        OBVIOUS
      <3>3. Known(sid)
        BY <1>7, <1>8, <1>13, <2>2, <3>2 DEF OnCloseList, NamesOK
      <3>4. ses[s].started
        BY <1>2, <2>2, <3>1, <3>2, <3>3, KnownStarted
      <3>5. ses[s].life = "live"
        BY <3>1 DEF Managed
      <3> QED
        BY <1>3, <2>2, <3>1, <3>4, <3>5 DEF Closing
    <2> QED
      BY <1>1, <1>13, <2>1, <2>2
  <1>14. closeReq' \subseteq Objects
    BY <1>1 DEF ServedInv
  <1>15. /\ \A w \in Threads : ThreadOK(w)'
         /\ \A t \in Objects : Managed(t)' => Served(t)'
         /\ ~CloseWhileStarting => \A s \in closeReq' : Closing(s)'
    BY <1>11, <1>12, <1>13
  <1>16. \A s \in Objects : ses'[s].started => ses'[s].life # "unborn"
    BY <1>3 DEF ServedInv
  <1> QED
    BY <1>5, <1>9, <1>10, <1>14, <1>15, <1>16 DEF ServedInv

-----------------------------------------------------------------------------
(* The tasks *)

\* A task that uses the handler of a session is the only one that does.
LEMMA OnlyOne ==
    ASSUME ServerInv, NEW w \in Threads, NEW s \in Objects, Grip(work[w]) = <<"handler", s>>
    PROVE  /\ \A v \in Threads : v # w => Grip(work[v]) # <<"handler", s>>
           /\ \A i \in DOMAIN inputQ : inputQ[i] \notin HandlerTasks(s)
           /\ \A i \in DOMAIN execQ : execQ[i] \notin HandlerTasks(s)
  <1> DEFINE H == {<<"handler", s>>}
             A == HandlerTasks(s)
  <1>1. /\ inputQ \in Seq(Tasks) /\ execQ \in Seq(Tasks) /\ IsFiniteSet(Threads)
        /\ DOMAIN Grips = Threads /\ ServerTyped
    BY ServerAssumption DEF ServerInv, ServerTyped, Grips
  <1>2. HandlerUses(s) \in {0, 1}
    BY SessionFacts DEF SessionOK
  <1>3. /\ Count(inputQ, A) \in Nat /\ Count(execQ, A) \in Nat /\ Count(Grips, H) \in Nat
    BY <1>1, UsesType
  <1>4. /\ IsFiniteSet(Places(Grips, H)) /\ w \in Places(Grips, H)
    BY <1>1, CountFunType DEF Places, Grips
  <1>5. Cardinality(Places(Grips, H)) # 0
    BY <1>4, FS_EmptySet
  <1>6. /\ Count(inputQ, A) = 0 /\ Count(execQ, A) = 0 /\ Cardinality(Places(Grips, H)) = 1
    <2>1. Count(Grips, H) # 0 /\ Count(Grips, H) = Cardinality(Places(Grips, H))
      BY <1>5 DEF Count
    <2>2. HandlerUses(s) = Count(inputQ, A) + Count(execQ, A) + Count(Grips, H)
      BY DEF HandlerUses
    <2> HIDE DEF A, H
    <2> QED
      BY <1>2, <1>3, <2>1, <2>2
  <1>7. \A v \in Threads : v # w => Grip(work[v]) # <<"handler", s>>
    <2> SUFFICES ASSUME NEW v \in Threads, v # w, Grip(work[v]) = <<"handler", s>>
                 PROVE  FALSE
      OBVIOUS
    <2>1. v \in Places(Grips, H)
      BY <1>1 DEF Places, Grips
    <2>2. PICK u : Places(Grips, H) = {u}
      BY <1>4, <1>6, FS_Singleton
    <2> QED
      BY <1>4, <2>1, <2>2
  <1>8. /\ \A i \in DOMAIN inputQ : inputQ[i] \notin A
        /\ \A i \in DOMAIN execQ : execQ[i] \notin A
    <2>1. /\ IsFiniteSet(Places(inputQ, A)) /\ IsFiniteSet(Places(execQ, A))
      BY <1>1, CountSeqType
    <2>2. Places(inputQ, A) = {} /\ Places(execQ, A) = {}
      BY <1>6, <2>1, FS_EmptySet DEF Count
    <2> QED
      BY <2>2 DEF Places
  <1> QED
    BY <1>7, <1>8

\* q has the fields of r that Served speaks of.
SameServed(r, q) ==
    /\ SameSession(r, q) /\ q.mRunning = r.mRunning /\ q.mInBuffer = r.mInBuffer
    /\ q.mReading = r.mReading /\ q.readEvent = r.readEvent /\ q.writeEvent = r.writeEvent

\* A step that changes nothing that Served speaks of, and loses no response.
LEMMA ServedSame ==
    ASSUME NEW t \in Objects, Served(t), SameServed(ses[t], ses'[t]), Due(t) => Due(t)',
           loop' = loop
    PROVE  Served(t)'
  BY DEF Served, Decodable, SameServed, SameSession

\* A session that waits for a response goes on waiting while a thread, which has
\* none to push, moves on.
LEMMA DueMoves ==
    ASSUME DOMAIN work = Threads, NEW w \in Threads, NEW x, work' = [work EXCEPT ![w] = x],
           work[w].pc # "push", respQ' = respQ, NEW t \in Objects,
           ses'[t].mSid = ses[t].mSid, ses'[t].mRunning = ses[t].mRunning
    PROVE  Due(t) => Due(t)'
  <1>1. Answering(t) => Answering(t)'
    BY DEF Answering
  <1>2. Answered(t) => Answered(t)'
    BY DEF Answered
  <1> QED
    BY <1>1, <1>2 DEF Due

\* Steps of a thread: what has to be shown of a step that starts no session.
LEMMA TaskFrame ==
    ASSUME ServerInv, ServedInv, SidsOK', SidsKept, Quiet, NEW w \in Threads, NEW x,
           work' = [work EXCEPT ![w] = x], closeReq' = closeReq, inputQ' = inputQ,
           StartsOK(execQ)', ResponsesOK', ThreadOK(w)',
           \A t \in Objects : Managed(t)' => Served(t)'
    PROVE  ServedInv'
  <1>1. StartsOK(inputQ)'
    <2>1. inputQ \in Seq(Tasks) /\ StartsOK(inputQ)
      BY DEF ServerInv, ServerTyped, ServedInv
    <2> QED
      BY <2>1, StartsKept DEF StartsOK, Quiet
  <1>2. ASSUME NEW v \in Threads PROVE ThreadOK(v)'
    <2>1. CASE v = w
      BY <2>1
    <2>2. CASE v # w
      <3>1. IsWork(work[v]) /\ ThreadOK(v) /\ work'[v] = work[v]
        BY <2>2, WorkFacts DEF ServedInv
      <3>2. work[v].kind = "start" /\ work[v].pc \in {"handle", "status"} =>
                 work[v].s \in Objects /\ ~ses[work[v].s].started
        BY <3>1 DEF ThreadOK, IsWork
      <3>3. \A t \in Objects : ses'[t].started => ses[t].started
        BY DEF Quiet
      <3> QED
        BY <3>1, <3>2, <3>3, ThreadKept
    <2> QED
      BY <2>1, <2>2
  <1>3. ASSUME ~CloseWhileStarting, NEW s \in closeReq PROVE Closing(s)'
    <2>1. Closing(s) /\ s \in Objects
      BY <1>3 DEF ServedInv
    <2> QED
      BY <2>1 DEF Closing, Quiet, SidsKept
  <1>4. \A s \in Objects : ses'[s].started => ses'[s].life # "unborn"
    BY DEF ServedInv, Quiet, SidsKept
  <1> QED
    BY <1>1, <1>2, <1>3, <1>4 DEF ServedInv

\* A step that leaves the sessions and the table alone.
LEMMA NothingMoves ==
    ASSUME SidsOK, mgr' = mgr, ses' = ses
    PROVE  SidsOK' /\ SidsKept /\ Quiet
  <1>1. \A t \in Objects : Managed(t)' <=> Managed(t)
    BY DEF Managed
  <1>2. SidsOK'
    BY <1>1, SidsFrame
  <1> QED
    BY <1>1, <1>2 DEF SidsKept, Quiet

\* The first start task leaves the queue.
LEMMA StartsTail ==
    ASSUME NEW q \in Seq(Tasks), q # <<>>, StartsOK(q), ses' = ses, NEW p, p = Tail(q)
    PROVE  \A i \in DOMAIN p : p[i].kind = "start" => ~ses'[p[i].s].started
  <1>1. \A i \in DOMAIN p : i + 1 \in DOMAIN q /\ p[i] = q[i + 1]
    <2>1. /\ p \in Seq(Tasks) /\ Len(p) = Len(q) - 1 /\ \A i \in 1 .. Len(p) : p[i] = q[i + 1]
          /\ DOMAIN p = 1 .. Len(p) /\ DOMAIN q = 1 .. Len(q) /\ Len(q) \in Nat
      BY HeadTailProperties, LenProperties
    <2> QED
      BY <2>1
  <1> QED
    BY <1>1 DEF StartsOK

\* InputResultQueue goes to the executor in one piece.
LEMMA DrainServed ==
    ASSUME ServerInv, ServedInv, DrainInput
    PROVE  ServedInv'
  <1>1. /\ execQ' = execQ \o inputQ /\ inputQ' = <<>> /\ ses' = ses /\ mgr' = mgr /\ loop' = loop
        /\ work' = work /\ respQ' = respQ /\ closeReq' = closeReq
    BY DEF DrainInput
  <1>2. /\ inputQ \in Seq(Tasks) /\ execQ \in Seq(Tasks) /\ StartsOK(inputQ) /\ StartsOK(execQ)
        /\ SidsOK /\ \A t \in Objects : Managed(t) => Served(t)
    BY DEF ServerInv, ServerTyped, ServedInv
  <1>3. SidsOK' /\ SidsKept /\ Quiet
    BY <1>1, <1>2, NothingMoves
  <1>4. ResponsesOK'
    BY <1>1, <1>3, ResponsesKept DEF ServedInv
  <1>5. StartsOK(inputQ)'
    BY <1>1 DEF StartsOK
  <1>6. StartsOK(execQ)'
    <2>1. PICK a, b, c : a = execQ /\ b = inputQ /\ c = a \o b
      OBVIOUS
    <2>2. \A i \in DOMAIN c : \/ i \in DOMAIN a /\ c[i] = a[i]
                              \/ i - Len(a) \in DOMAIN b /\ c[i] = b[i - Len(a)]
      <3>1. a \in Seq(Tasks) /\ b \in Seq(Tasks)
        BY <1>2, <2>1
      <3>2. /\ c \in Seq(Tasks) /\ Len(c) = Len(a) + Len(b)
            /\ \A i \in 1 .. Len(c) : c[i] = IF i <= Len(a) THEN a[i] ELSE b[i - Len(a)]
            /\ Len(a) \in Nat /\ Len(b) \in Nat
            /\ DOMAIN a = 1 .. Len(a) /\ DOMAIN b = 1 .. Len(b) /\ DOMAIN c = 1 .. Len(c)
        BY <2>1, <3>1, ConcatProperties, LenProperties
      <3> QED
        BY <3>2
    <2>3. \A i \in DOMAIN c : c[i].kind = "start" => ~ses[c[i].s].started
      BY <1>2, <2>1, <2>2 DEF StartsOK
    <2>4. execQ' = c /\ ses' = ses
      BY <1>1, <2>1
    <2> QED
      BY <2>3, <2>4 DEF StartsOK
  <1>7. ASSUME NEW w \in Threads PROVE ThreadOK(w)'
    <2>1. IsWork(work[w]) /\ ThreadOK(w) /\ work'[w] = work[w]
      BY <1>1, WorkFacts DEF ServedInv
    <2>2. work[w].kind = "start" /\ work[w].pc \in {"handle", "status"} =>
               ~ses'[work[w].s].started
      BY <1>1, <2>1 DEF ThreadOK
    <2> QED
      BY <1>3, <2>1, <2>2, ThreadKept
  <1>8. ASSUME NEW t \in Objects, Managed(t)' PROVE Served(t)'
    <2>1. Served(t) /\ ses'[t] = ses[t]
      BY <1>1, <1>2, <1>3, <1>8 DEF Managed
    <2>2. Due(t) => Due(t)'
      BY <1>1, <2>1, DueKept DEF Due
    <2> QED
      BY <1>1, <2>1, <2>2, ServedOther
  <1>9. /\ \A w \in Threads : ThreadOK(w)'
        /\ \A t \in Objects : Managed(t)' => Served(t)'
    BY <1>7, <1>8
  <1>10. ~CloseWhileStarting => \A s \in closeReq' : Closing(s)'
    BY <1>1 DEF ServedInv, Closing, Managed
  <1> QED
    BY <1>1, <1>3, <1>4, <1>5, <1>6, <1>9, <1>10 DEF ServedInv

\* A thread that takes a start task takes it before the session has started.
LEMMA TakeTaskServed ==
    ASSUME ServerInv, ServedInv, NEW w \in Threads, TakeTask(w)
    PROVE  ServedInv'
  <1>1. PICK y : y = Head(execQ)
    OBVIOUS
  <1>2. PICK x : x = [Idle EXCEPT !.kind = y.kind, !.s = y.s,
                                  !.pc = IF y.kind = "close" THEN "destroy" ELSE "handle"]
    OBVIOUS
  <1>3. /\ work[w].pc = "idle" /\ execQ # <<>> /\ execQ' = Tail(execQ)
        /\ work' = [work EXCEPT ![w] = x]
        /\ ses' = ses /\ mgr' = mgr /\ loop' = loop /\ inputQ' = inputQ /\ respQ' = respQ
        /\ closeReq' = closeReq
    BY <1>1, <1>2 DEF TakeTask
  <1>4. /\ DOMAIN work = Threads /\ execQ \in Seq(Tasks) /\ StartsOK(execQ) /\ SidsOK
        /\ \A t \in Objects : Managed(t) => Served(t)
    BY WorkFacts DEF ServedInv
  <1>5. SidsOK' /\ SidsKept /\ Quiet
    BY <1>3, <1>4, NothingMoves
  <1>6. ResponsesOK'
    BY <1>3, <1>5, ResponsesKept DEF ServedInv
  <1>7. StartsOK(execQ)'
    BY <1>3, <1>4, StartsTail DEF StartsOK
  <1>8. x.kind = y.kind /\ x.s = y.s /\ x.pc \in {"destroy", "handle"}
    BY <1>2 DEF Idle
  <1>9. y.kind = "start" => ~ses[y.s].started
    <2>1. 1 \in DOMAIN execQ /\ execQ[1] = y
      BY <1>1, <1>3, <1>4, HeadTailProperties, LenProperties, EmptySeq
    <2> QED
      BY <1>4, <2>1 DEF StartsOK
  <1>10. ThreadOK(w)'
    <2>1. work'[w] = x
      BY <1>3, <1>4
    <2> QED
      BY <1>3, <1>8, <1>9, <2>1 DEF ThreadOK, Laden
  <1>11. ASSUME NEW t \in Objects, Managed(t)' PROVE Served(t)'
    <2>1. Served(t) /\ ses'[t] = ses[t]
      BY <1>3, <1>4, <1>11 DEF Managed
    <2>2. Due(t) => Due(t)'
      BY <1>3, <1>4, <2>1, DueMoves
    <2> QED
      BY <1>3, <2>1, <2>2, ServedOther
  <1> QED
    BY <1>3, <1>5, <1>6, <1>7, <1>10, <1>11, TaskFrame


\* What an application may ask to close has started.
LEMMA CloseKnown ==
    ASSUME ServedInv, NEW close \in CloseChoices, ~CloseWhileStarting, NEW sid \in close
    PROVE  Known(sid)
  <1>1. sid \in Closable
    BY DEF CloseChoices
  <1>2. PICK t \in Objects : ses[t].started /\ sid = ses[t].mSid
    BY <1>1 DEF Closable
  <1>3. ses[t].life # "unborn"
    BY <1>2 DEF ServedInv
  <1> QED
    BY <1>2, <1>3 DEF Known

\* The call of the handler makes a response of its session; a start task gives the
\* session its channel and publishes it.
LEMMA HandlerStepServed ==
    ASSUME ServerInv, ServedInv, NEW w \in Threads, HandlerStep(w),
           work[w].kind \in Kinds \ {"close"}
    PROVE  ServedInv'
  <1>0. PICK s : s = work[w].s
    OBVIOUS
  <1>1. /\ DOMAIN work = Threads /\ IsWork(work[w]) /\ ThreadOK(w) /\ DOMAIN ses = Objects
        /\ work[w].pc = "handle" /\ s \in Objects /\ IsSession(ses[s])
        /\ execQ \in Seq(Tasks) /\ StartsOK(execQ) /\ SidsOK
        /\ \A t \in Objects : Managed(t) => Served(t)
    BY <1>0, WorkFacts, SessionFacts DEF HandlerStep, ServedInv
  <1>2. PICK new \in MessageChoices(ses[s].mSid), close \in CloseChoices,
             status \in {"eNormal", "eWouldExit"}, init \in BOOLEAN :
                RunHandler(w, new, close, status, init)
    BY <1>0 DEF HandlerStep
  <1>3. PICK m : m = IF new.made THEN CHOOSE x \in Unmade : \A y \in Unmade : x <= y ELSE 0
    OBVIOUS
  <1>4. PICK resp : resp = [from |-> ses[s].mSid, msg |-> m, close |-> IF init THEN close ELSE {}]
    OBVIOUS
  <1>5. PICK pc : pc = IF work[w].kind \in {"start", "worker"} THEN "status" ELSE "push"
    OBVIOUS
  <1>6. /\ mgr' = mgr /\ respQ' = respQ /\ execQ' = execQ /\ inputQ' = inputQ /\ loop' = loop
        /\ closeReq' = closeReq
        /\ work' = [work EXCEPT ![w].resp = resp, ![w].status = status, ![w].pc = pc]
        /\ ses' = IF work[w].kind = "start"
                  THEN [ses EXCEPT ![s].channel = init, ![s].published = TRUE] ELSE ses
    BY <1>0, <1>2, <1>3, <1>4, <1>5 DEF RunHandler
  <1>7. PICK x : x = [work[w] EXCEPT !.resp = resp, !.status = status, !.pc = pc]
    OBVIOUS
  <1>8. work' = [work EXCEPT ![w] = x] /\ work'[w] = x
    BY <1>1, <1>6, <1>7
  <1>9. x.pc = pc /\ x.resp = resp /\ x.status = status /\ x.kind = work[w].kind /\ x.s = s
    BY <1>0, <1>1, <1>7 DEF IsWork
  <1>10. \A t \in Objects : /\ SameServed(ses[t], ses'[t])
                            /\ ses'[t].life = ses[t].life /\ ses'[t].mSid = ses[t].mSid
                            /\ ses'[t].started = ses[t].started
                            /\ ses'[t].mStatus = ses[t].mStatus
                            /\ ses'[t].mRunning = ses[t].mRunning
    <2>1. CASE work[w].kind # "start"
      BY <1>6, <2>1 DEF SameServed, SameSession
    <2>2. CASE work[w].kind = "start"
      <3>1. PICK q : q = [ses[s] EXCEPT !.channel = init, !.published = TRUE]
        OBVIOUS
      <3>2. SameServed(ses[s], q)
        BY <1>1, <3>1 DEF IsSession, SameServed, SameSession
      <3>3. ses'[s] = q /\ \A t \in Objects : t # s => ses'[t] = ses[t]
        BY <1>1, <1>6, <2>2, <3>1
      <3>4. \A t \in Objects : SameServed(ses[t], ses'[t])
        BY <3>2, <3>3 DEF SameServed, SameSession
      <3> QED
        BY <3>4 DEF SameServed, SameSession
    <2> QED
      BY <2>1, <2>2
  <1>11. \A t \in Objects : Managed(t)' <=> Managed(t)
    BY <1>6, <1>10 DEF Managed
  <1>12. SidsKept /\ Quiet /\ SidsOK'
    BY <1>1, <1>6, <1>10, <1>11, SidsFrame DEF SidsKept, Quiet
  <1>13. ResponsesOK'
    BY <1>6, <1>12, ResponsesKept DEF ServedInv
  <1>14. StartsOK(execQ)'
    <2>1. \A t \in Objects : ses'[t].started => ses[t].started
      BY <1>10
    <2> QED
      BY <1>1, <1>6, <2>1, StartsKept DEF StartsOK
  <1>15. NamesOK(resp)'
    <2>1. NamesOK(resp)
      BY <1>4, CloseKnown DEF NamesOK
    <2> QED
      BY <1>12, <2>1, NamesKept
  <1>16. ses[s].life # "unborn"
    <2>1. \/ Grip(work[w]) = <<"handler", s>>
          \/ Grip(work[w]) = <<"final", s>>
      BY <1>0, <1>1 DEF Grip, Kinds, HandlerKinds, FinalKinds
    <2>2. Managed(s) \/ ses[s].life = "live"
      BY <1>1, <2>1, GripCounts
    <2> QED
      BY <2>2 DEF Managed
  <1>17. ThreadOK(w)'
    <2>1. x.resp.from = ses'[s].mSid /\ ses'[s].life # "unborn"
      <3>1. ses'[s].mSid = ses[s].mSid /\ ses'[s].life = ses[s].life
        BY <1>1, <1>10
      <3> QED
        BY <1>4, <1>9, <1>16, <3>1
    <2>2. x.pc = "status" => x.status \in {"eNormal", "eWouldExit"}
      BY <1>9
    <2>3. ~(x.kind \in HandlerKinds /\ x.pc \in {"unrun", "push"})
      BY <1>5, <1>9 DEF HandlerKinds
    <2>4. x.kind = "start" => ~ses'[s].started
      BY <1>0, <1>1, <1>9, <1>10 DEF ThreadOK
    <2> QED
      BY <1>8, <1>9, <1>15, <2>1, <2>2, <2>3, <2>4 DEF ThreadOK
  <1>18. ASSUME NEW t \in Objects, Managed(t)' PROVE Served(t)'
    <2>1. Served(t)
      BY <1>1, <1>11, <1>18
    <2>2. Due(t) => Due(t)'
      <3>1. work[w].pc # "push" /\ ses'[t].mSid = ses[t].mSid /\ ses'[t].mRunning = ses[t].mRunning
        BY <1>1, <1>10
      <3> QED
        BY <1>1, <1>6, <1>8, <3>1, DueMoves
    <2> QED
      BY <1>6, <1>10, <2>1, <2>2, ServedSame
  <1> QED
    BY <1>6, <1>8, <1>12, <1>13, <1>14, <1>17, <1>18, TaskFrame

\* setRunning( 0 ): the response of the task is now what the session waits for.
LEMMA SetNotRunningServed ==
    ASSUME ServerInv, ServedInv, NEW w \in Threads, SetNotRunning(w),
           work[w].kind \in HandlerKinds
    PROVE  ServedInv'
  <1>0. PICK s : s = work[w].s
    OBVIOUS
  <1>1. /\ DOMAIN work = Threads /\ IsWork(work[w]) /\ ThreadOK(w) /\ DOMAIN ses = Objects
        /\ work[w].pc = "unrun" /\ s \in Objects /\ IsSession(ses[s])
        /\ execQ \in Seq(Tasks) /\ StartsOK(execQ) /\ SidsOK
        /\ \A t \in Objects : Managed(t) => Served(t)
    BY <1>0, WorkFacts, SessionFacts DEF SetNotRunning, ServedInv
  <1>2. PICK x : x = [work[w] EXCEPT !.pc = "push"]
    OBVIOUS
  <1>3. PICK q : q = [ses[s] EXCEPT !.mRunning = FALSE]
    OBVIOUS
  <1>4. /\ mgr' = mgr /\ respQ' = respQ /\ execQ' = execQ /\ inputQ' = inputQ /\ loop' = loop
        /\ closeReq' = closeReq /\ work' = [work EXCEPT ![w] = x] /\ work'[w] = x
        /\ ses' = [ses EXCEPT ![s] = q]
        /\ ses'[s] = q /\ \A t \in Objects : t # s => ses'[t] = ses[t]
    <2>1. work' = [work EXCEPT ![w].pc = "push"] /\ ses' = [ses EXCEPT ![s].mRunning = FALSE]
      BY <1>0 DEF SetNotRunning
    <2>2. work' = [work EXCEPT ![w] = x] /\ ses' = [ses EXCEPT ![s] = q]
      BY <1>1, <1>2, <1>3, <2>1
    <2> QED
      BY <1>1, <2>2 DEF SetNotRunning
  <1>5. /\ x.pc = "push" /\ x.resp = work[w].resp /\ x.status = work[w].status
        /\ x.kind = work[w].kind /\ x.s = s
    BY <1>0, <1>1, <1>2 DEF IsWork
  <1>6. /\ SameSession(ses[s], q) /\ ~q.mRunning /\ q.mInBuffer = ses[s].mInBuffer
        /\ q.mReading = ses[s].mReading /\ q.readEvent = ses[s].readEvent
        /\ q.writeEvent = ses[s].writeEvent
    BY <1>1, <1>3 DEF IsSession, SameSession
  <1>7. \A t \in Objects : SameSession(ses[t], ses'[t])
    BY <1>4, <1>6 DEF SameSession
  <1>8. \A t \in Objects : Managed(t)' <=> Managed(t)
    BY <1>4, <1>7 DEF Managed, SameSession
  <1>9. SidsKept /\ Quiet
    BY <1>7, <1>8 DEF SidsKept, Quiet, SameSession
  <1>10. SidsOK'
    BY <1>1, <1>4, <1>7, <1>8, SidsFrame DEF SameSession
  <1>11. ResponsesOK'
    BY <1>4, <1>9, ResponsesKept DEF ServedInv
  <1>12. StartsOK(execQ)'
    <2>1. \A t \in Objects : ses'[t].started => ses[t].started
      BY <1>7 DEF SameSession
    <2> QED
      BY <1>1, <1>4, <2>1, StartsKept DEF StartsOK
  <1>13. Managed(s) /\ ses[s].mRunning /\ ses[s].started
    <2>1. Grip(work[w]) = <<"handler", s>>
      BY <1>0, <1>1 DEF Grip
    <2>2. Managed(s) /\ ses[s].mRunning
      BY <1>1, <2>1, GripCounts
    <2> QED
      BY <1>0, <1>1, <2>2 DEF ThreadOK
  <1>14. ThreadOK(w)'
    <2>1. PICK r : r = work[w].resp
      OBVIOUS
    <2>2. r.from = ses[s].mSid /\ NamesOK(r)
      BY <1>0, <1>1, <2>1 DEF ThreadOK, Laden
    <2>3. NamesOK(r)'
      BY <1>9, <2>2, NamesKept
    <2>4. x.resp = r /\ r.from = ses'[s].mSid /\ ses'[s].life # "unborn" /\ ses'[s].started
      <3>1. /\ ses'[s].mSid = ses[s].mSid /\ ses'[s].life = ses[s].life
            /\ ses'[s].started = ses[s].started
        BY <1>1, <1>7 DEF SameSession
      <3>2. ses[s].life = "live"
        BY <1>13 DEF Managed
      <3> QED
        BY <1>5, <1>13, <2>1, <2>2, <3>1, <3>2
    <2> QED
      BY <1>4, <1>5, <2>3, <2>4 DEF ThreadOK
  <1>15. Due(s)'
    BY <1>4, <1>5 DEF Due, Answering
  <1>16. ASSUME NEW t \in Objects, Managed(t)' PROVE Served(t)'
    <2>1. Served(t)
      BY <1>1, <1>8, <1>16
    <2>2. CASE t = s
      BY <1>4, <1>6, <1>13, <1>15, <2>1, <2>2 DEF Served, SameSession
    <2>3. CASE t # s
      <3>1. ses'[t] = ses[t]
        BY <1>4, <2>3
      <3>2. Due(t) => Due(t)'
        BY <1>1, <1>4, <3>1, DueMoves
      <3> QED
        BY <1>4, <2>1, <3>1, <3>2, ServedOther
    <2> QED
      BY <2>2, <2>3
  <1> QED
    BY <1>4, <1>9, <1>10, <1>11, <1>12, <1>14, <1>16, TaskFrame


\* setStatus by a start or worker task, which is the only one of its session.
LEMMA SetStatusServed ==
    ASSUME ServerInv, ServedInv, NEW w \in Threads, SetStatus(w), work[w].kind \in HandlerKinds
    PROVE  ServedInv'
  <1>0. PICK s : s = work[w].s
    OBVIOUS
  <1>1. /\ DOMAIN work = Threads /\ IsWork(work[w]) /\ ThreadOK(w) /\ DOMAIN ses = Objects
        /\ work[w].pc = "status" /\ s \in Objects /\ IsSession(ses[s])
        /\ inputQ \in Seq(Tasks) /\ execQ \in Seq(Tasks) /\ SidsOK
        /\ StartsOK(inputQ) /\ StartsOK(execQ)
        /\ \A t \in Objects : Managed(t) => Served(t)
    BY <1>0, WorkFacts, SessionFacts DEF SetStatus, ServedInv
  <1>2. PICK x : x = [work[w] EXCEPT !.pc = "unrun"]
    OBVIOUS
  <1>3. PICK st : st = IF work[w].kind = "start" \/ work[w].status = "eWouldExit"
                       THEN work[w].status ELSE ses[s].mStatus
    OBVIOUS
  <1>4. PICK q : q = [ses[s] EXCEPT !.mStatus = st, !.started = TRUE]
    OBVIOUS
  <1>5. /\ mgr' = mgr /\ respQ' = respQ /\ execQ' = execQ /\ inputQ' = inputQ /\ loop' = loop
        /\ closeReq' = closeReq /\ work' = [work EXCEPT ![w] = x] /\ work'[w] = x
        /\ ses'[s] = q /\ \A t \in Objects : t # s => ses'[t] = ses[t]
    <2>1. /\ work' = [work EXCEPT ![w].pc = "unrun"]
          /\ ses' = [ses EXCEPT ![s].mStatus = st, ![s].started = TRUE]
      BY <1>0, <1>1, <1>3 DEF SetStatus
    <2>2. work' = [work EXCEPT ![w] = x] /\ ses' = [ses EXCEPT ![s] = q]
      BY <1>1, <1>2, <1>4, <2>1
    <2> QED
      BY <1>1, <2>2 DEF SetStatus
  <1>6. /\ x.pc = "unrun" /\ x.resp = work[w].resp /\ x.kind = work[w].kind /\ x.s = s
    BY <1>0, <1>1, <1>2 DEF IsWork
  <1>7. /\ q.life = ses[s].life /\ q.mSid = ses[s].mSid /\ q.mStatus = st /\ q.started = TRUE
        /\ q.mRunning = ses[s].mRunning /\ q.mReading = ses[s].mReading
        /\ q.readEvent = ses[s].readEvent /\ q.writeEvent = ses[s].writeEvent
        /\ q.mOutList = ses[s].mOutList
    BY <1>1, <1>4 DEF IsSession
  <1>8. /\ Grip(work[w]) = <<"handler", s>> /\ Managed(s) /\ ses[s].mRunning
        /\ ses[s].life = "live" /\ Served(s)
    <2>1. Grip(work[w]) = <<"handler", s>>
      BY <1>0, <1>1 DEF Grip
    <2> QED
      BY <1>1, <2>1, GripCounts DEF Managed
  <1>9. /\ \A v \in Threads : v # w => Grip(work[v]) # <<"handler", s>>
        /\ \A i \in DOMAIN inputQ : inputQ[i] \notin HandlerTasks(s)
        /\ \A i \in DOMAIN execQ : execQ[i] \notin HandlerTasks(s)
    BY <1>1, <1>8, OnlyOne
  <1>10. work[w].status \in {"eNormal", "eWouldExit"} /\ (work[w].kind = "start" => ~ses[s].started)
    BY <1>0, <1>1 DEF ThreadOK
  <1>11. \A t \in Objects : /\ ses'[t].life = ses[t].life /\ ses'[t].mSid = ses[t].mSid
                            /\ ses'[t].mRunning = ses[t].mRunning
                            /\ (ses[t].started => ses'[t].started)
    BY <1>5, <1>7
  <1>12. \A t \in Objects : Managed(t)' <=> Managed(t)
    BY <1>5, <1>11 DEF Managed
  <1>13. SidsOK' /\ SidsKept
    BY <1>1, <1>5, <1>11, <1>12, SidsFrame DEF SidsKept
  <1>14. ResponsesOK'
    BY <1>5, <1>13, ResponsesKept DEF ServedInv
  <1>15. StartsOK(inputQ)' /\ StartsOK(execQ)'
    <2>1. \A i \in DOMAIN inputQ : inputQ[i] \in Tasks
      BY <1>1, ElementOfSeq, LenProperties
    <2>2. \A i \in DOMAIN execQ : execQ[i] \in Tasks
      BY <1>1, ElementOfSeq, LenProperties
    <2>3. ASSUME NEW y \in Tasks, y.kind = "start", y \notin HandlerTasks(s), ~ses[y.s].started
          PROVE  ~ses'[y.s].started
      <3>1. y = Task("start", y.s) /\ y.s \in Objects
        BY <2>3 DEF Tasks, Task
      <3>2. y.s # s
        BY <2>3, <3>1 DEF HandlerTasks
      <3> QED
        BY <1>5, <2>3, <3>1, <3>2
    <2>4. ASSUME NEW i \in DOMAIN inputQ', inputQ'[i].kind = "start"
          PROVE  ~ses'[inputQ'[i].s].started
      <3>1. i \in DOMAIN inputQ /\ inputQ'[i] = inputQ[i]
        BY <1>5
      <3>2. ~ses[inputQ[i].s].started
        BY <1>1, <2>4, <3>1 DEF StartsOK
      <3> QED
        BY <1>9, <2>1, <2>3, <2>4, <3>1, <3>2
    <2>5. ASSUME NEW i \in DOMAIN execQ', execQ'[i].kind = "start"
          PROVE  ~ses'[execQ'[i].s].started
      <3>1. i \in DOMAIN execQ /\ execQ'[i] = execQ[i]
        BY <1>5
      <3>2. ~ses[execQ[i].s].started
        BY <1>1, <2>5, <3>1 DEF StartsOK
      <3> QED
        BY <1>9, <2>2, <2>3, <2>5, <3>1, <3>2
    <2> QED
      BY <2>4, <2>5 DEF StartsOK
  <1>16. ThreadOK(w)'
    <2>1. PICK r : r = work[w].resp
      OBVIOUS
    <2>2. r.from = ses[s].mSid /\ NamesOK(r)
      BY <1>0, <1>1, <2>1 DEF ThreadOK, Laden
    <2>3. NamesOK(r)'
      BY <1>13, <2>2, NamesKept
    <2>4. x.resp = r /\ r.from = ses'[s].mSid /\ ses'[s].life # "unborn" /\ ses'[s].started
      BY <1>5, <1>6, <1>7, <1>8, <2>1, <2>2
    <2> QED
      BY <1>5, <1>6, <2>3, <2>4 DEF ThreadOK
  <1>17. ASSUME NEW v \in Threads, v # w PROVE ThreadOK(v)'
    <2>1. IsWork(work[v]) /\ ThreadOK(v) /\ work'[v] = work[v]
      BY <1>1, <1>5, <1>17, WorkFacts DEF ServedInv
    <2>2. ASSUME work[v].kind = "start", work[v].pc \in {"handle", "status"}
          PROVE  ~ses'[work[v].s].started
      <3>1. ~ses[work[v].s].started /\ work[v].s \in Objects
        BY <2>1, <2>2 DEF ThreadOK, IsWork
      <3>2. Grip(work[v]) = <<"handler", work[v].s>>
        BY <2>2 DEF Grip, HandlerKinds
      <3>3. work[v].s # s
        BY <1>9, <1>17, <3>2
      <3> QED
        BY <1>5, <3>1, <3>3
    <2> QED
      BY <1>13, <2>1, <2>2, ThreadKept
  <1>18. \A v \in Threads : ThreadOK(v)'
    BY <1>16, <1>17
  <1>19. Served(s)'
    <2>1. Due(s)'
      BY <1>1, <1>8, <1>11 DEF Due
    <2>2. st \in Statuses
      BY <1>3, <1>8, <1>10 DEF Served, Statuses
    <2>3. st = "eNormal" => q.mReading = q.readEvent
      BY <1>3, <1>7, <1>8, <1>10 DEF Served
    <2>4. loop.s = s /\ st = "eExit" /\ ~q.writeEvent => loop.exit
      BY <1>3, <1>7, <1>8, <1>10 DEF Served
    <2> QED
      BY <1>5, <1>7, <1>8, <2>1, <2>2, <2>3, <2>4 DEF Served
  <1>20. ASSUME NEW t \in Objects, Managed(t)' PROVE Served(t)'
    <2>1. CASE t = s
      BY <1>19, <2>1
    <2>2. CASE t # s
      <3>1. Served(t) /\ ses'[t] = ses[t]
        BY <1>1, <1>5, <1>12, <1>20, <2>2
      <3>2. Due(t) => Due(t)'
        BY <1>1, <1>5, <3>1, DueMoves
      <3> QED
        BY <1>5, <3>1, <3>2, ServedOther
    <2> QED
      BY <2>1, <2>2
  <1>21. \A t \in Objects : ses'[t].started => ses'[t].life # "unborn"
    BY <1>5, <1>8, <1>11 DEF ServedInv
  <1>22. ASSUME ~CloseWhileStarting, NEW t \in closeReq PROVE Closing(t)'
    <2>1. Closing(t) /\ t \in Objects
      BY <1>22 DEF ServedInv
    <2>2. CASE t = s
      <3>1. st # "eNormal"
        BY <1>3, <1>8, <1>10, <2>1, <2>2 DEF Closing
      <3> QED
        BY <1>5, <1>7, <1>8, <2>2, <3>1 DEF Closing
    <2>3. CASE t # s
      BY <1>5, <1>12, <2>1, <2>3 DEF Closing
    <2> QED
      BY <2>2, <2>3
  <1>23. closeReq' \subseteq Objects /\ (~CloseWhileStarting => \A t \in closeReq' : Closing(t)')
    BY <1>5, <1>22 DEF ServedInv
  <1> QED
    BY <1>13, <1>14, <1>15, <1>18, <1>20, <1>21, <1>23 DEF ServedInv

\* msgqueue_push: what the session waits for is now in the queue.
LEMMA PushServed ==
    ASSUME ServerInv, MsgInv, ServedInv, NEW w \in Threads, PushResponse(w),
           work[w].kind \in Kinds \ {"close"}
    PROVE  ServedInv'
  <1>0. PICK s, resp : s = work[w].s /\ resp = work[w].resp
    OBVIOUS
  <1>1. /\ DOMAIN work = Threads /\ IsWork(work[w]) /\ ThreadOK(w)
        /\ work[w].pc = "push" /\ s \in Objects
        /\ execQ \in Seq(Tasks) /\ StartsOK(execQ) /\ SidsOK /\ ResponsesOK
        /\ respQ \in Seq(Resps) /\ resp \in Resps
        /\ \A t \in Objects : Managed(t) => Served(t)
    BY <1>0, WorkFacts DEF PushResponse, ServedInv, MsgInv, MsgsTyped, Laden
  <1>2. PICK x : x = IF work[w].kind \in {"error", "timeout"}
                     THEN [work[w] EXCEPT !.pc = "destroy"] ELSE Idle
    OBVIOUS
  <1>3. /\ mgr' = mgr /\ ses' = ses /\ execQ' = execQ /\ inputQ' = inputQ /\ loop' = loop
        /\ closeReq' = closeReq /\ respQ' = Append(respQ, resp)
        /\ work' = [work EXCEPT ![w] = x] /\ work'[w] = x
    BY <1>0, <1>1, <1>2 DEF PushResponse
  <1>4. /\ x.pc \in {"destroy", "idle"} /\ x.kind # "start"
    BY <1>1, <1>2 DEF IsWork, Idle
  <1>5. SidsOK' /\ SidsKept /\ Quiet
    BY <1>1, <1>3, NothingMoves
  <1>6. /\ DOMAIN respQ' = 1 .. (Len(respQ) + 1) /\ DOMAIN respQ = 1 .. Len(respQ)
        /\ Len(respQ) \in Nat
        /\ \A i \in 1 .. Len(respQ) : respQ'[i] = respQ[i]
        /\ respQ'[Len(respQ) + 1] = resp
    BY <1>1, <1>3, AppendProperties, LenProperties
  <1>7. Known(resp.from) /\ NamesOK(resp) /\ resp.from = ses[s].mSid
    <2>1. /\ resp.from = ses[s].mSid /\ ses[s].life # "unborn" /\ NamesOK(resp)
      BY <1>0, <1>1 DEF ThreadOK, Laden
    <2>2. Managed(s) => ses[s].started
      <3>1. CASE work[w].kind \in HandlerKinds
        BY <1>0, <1>1, <3>1 DEF ThreadOK
      <3>2. CASE work[w].kind \notin HandlerKinds
        <4>1. Grip(work[w]) = <<"final", s>>
          BY <1>0, <1>1, <3>2 DEF Grip, Kinds, HandlerKinds, FinalKinds
        <4> QED
          BY <1>1, <4>1, GripCounts
      <3> QED
        BY <3>1, <3>2
    <2> QED
      BY <1>1, <2>1, <2>2 DEF Known
  <1>8. ResponsesOK'
    <2> SUFFICES ASSUME NEW i \in DOMAIN respQ'
                 PROVE  Known(respQ[i].from)' /\ NamesOK(respQ[i])'
      BY DEF ResponsesOK
    <2>1. PICK r, sid : r = respQ'[i] /\ sid = r.from
      OBVIOUS
    <2>2. CASE i = Len(respQ) + 1
      <3>1. r = resp
        BY <1>6, <2>1, <2>2
      <3>2. Known(sid) /\ NamesOK(r)
        BY <1>7, <2>1, <3>1
      <3>3. Known(sid)' /\ NamesOK(r)'
        BY <1>5, <3>2, KnownKept, NamesKept
      <3> QED
        BY <2>1, <3>3
    <2>3. CASE i # Len(respQ) + 1
      <3>1. i \in DOMAIN respQ /\ r = respQ[i]
        BY <1>6, <2>1, <2>3
      <3>2. Known(sid) /\ NamesOK(r)
        BY <1>1, <2>1, <3>1 DEF ResponsesOK
      <3>3. Known(sid)' /\ NamesOK(r)'
        BY <1>5, <3>2, KnownKept, NamesKept
      <3> QED
        BY <2>1, <3>3
    <2> QED
      BY <2>2, <2>3
  <1>9. StartsOK(execQ)'
    BY <1>1, <1>3 DEF StartsOK
  <1>10. ThreadOK(w)'
    BY <1>3, <1>4 DEF ThreadOK, Laden
  <1>11. ASSUME NEW t \in Objects, Due(t) PROVE Due(t)'
    <2>1. CASE ses[t].mRunning
      BY <1>3, <2>1 DEF Due
    <2>2. CASE Answered(t)
      <3>1. PICK i \in DOMAIN respQ : respQ[i].from = ses[t].mSid
        BY <2>2 DEF Answered
      <3>2. i \in DOMAIN respQ' /\ respQ'[i].from = ses'[t].mSid
        BY <1>3, <1>6, <3>1
      <3> QED
        BY <3>2 DEF Due, Answered
    <2>3. CASE Answering(t)
      <3>1. PICK v \in Threads : work[v].s = t /\ work[v].kind \in HandlerKinds
                                 /\ work[v].pc = "push"
        BY <2>3 DEF Answering
      <3>2. CASE v = w
        <4>1. respQ'[Len(respQ) + 1].from = ses'[t].mSid /\ Len(respQ) + 1 \in DOMAIN respQ'
          BY <1>0, <1>3, <1>6, <1>7, <3>1, <3>2
        <4> QED
          BY <4>1 DEF Due, Answered
      <3>3. CASE v # w
        <4>1. work'[v] = work[v]
          BY <1>1, <1>3, <3>3
        <4> QED
          BY <3>1, <4>1 DEF Due, Answering
      <3> QED
        BY <3>2, <3>3
    <2> QED
      BY <1>11, <2>1, <2>2, <2>3 DEF Due
  <1>12. ASSUME NEW t \in Objects, Managed(t)' PROVE Served(t)'
    <2>1. Served(t) /\ ses'[t] = ses[t]
      BY <1>1, <1>3, <1>12 DEF Managed
    <2> QED
      BY <1>3, <1>11, <2>1, ServedOther
  <1> QED
    BY <1>3, <1>5, <1>8, <1>9, <1>10, <1>12, TaskFrame

\* delete session: the session had left the table.
LEMMA DestroyServed ==
    ASSUME ServerInv, ServedInv, NEW w \in Threads, DestroySession(w), work[w].kind \in FinalKinds
    PROVE  ServedInv'
  <1>0. PICK s, r : s = work[w].s /\ r = ses[s]
    OBVIOUS
  <1>1. /\ DOMAIN work = Threads /\ DOMAIN ses = Objects /\ work[w].pc = "destroy" /\ s \in Objects
        /\ execQ \in Seq(Tasks) /\ StartsOK(execQ) /\ SidsOK
        /\ \A t \in Objects : Managed(t) => Served(t)
    BY <1>0, WorkFacts DEF DestroySession, ServedInv
  <1>2. PICK q : /\ q = [NewSession EXCEPT !.life = "deleted", !.mSid = r.mSid,
                             !.published = r.published, !.readEvent = r.readEvent,
                             !.writeEvent = r.writeEvent, !.mOutList = r.mOutList]
                 /\ ses' = [ses EXCEPT ![s] = q]
    BY <1>0 DEF DestroySession
  <1>3. PICK x : x = Idle
    OBVIOUS
  <1>4. /\ mgr' = mgr /\ respQ' = respQ /\ execQ' = execQ /\ inputQ' = inputQ /\ loop' = loop
        /\ closeReq' = closeReq /\ work' = [work EXCEPT ![w] = x] /\ work'[w] = x
        /\ ses'[s] = q /\ \A t \in Objects : t # s => ses'[t] = ses[t]
    BY <1>1, <1>2, <1>3 DEF DestroySession
  <1>5. q.life = "deleted" /\ q.mSid = ses[s].mSid /\ ~q.started
    BY <1>0, <1>2 DEF NewSession
  <1>6. ses[s].life = "live" /\ ~Managed(s)
    <2>1. Grip(work[w]) = <<"final", s>>
      BY <1>0, <1>1 DEF Grip, HandlerKinds, FinalKinds
    <2> QED
      BY <1>1, <2>1, GripCounts
  <1>7. \A t \in Objects : Managed(t)' <=> Managed(t)
    BY <1>4, <1>5, <1>6 DEF Managed
  <1>8. SidsKept /\ Quiet
    BY <1>4, <1>5, <1>6, <1>7 DEF SidsKept, Quiet
  <1>9. SidsOK'
    <2>1. \A t \in Objects : /\ ses'[t].life = "unborn" <=> ses[t].life = "unborn"
                             /\ ses'[t].mSid = ses[t].mSid
      BY <1>4, <1>5, <1>6
    <2> QED
      BY <1>1, <1>4, <1>7, <2>1, SidsFrame
  <1>10. ResponsesOK'
    BY <1>4, <1>8, ResponsesKept DEF ServedInv
  <1>11. StartsOK(execQ)'
    BY <1>1, <1>4, <1>8, StartsKept DEF StartsOK, Quiet
  <1>12. ThreadOK(w)'
    <2>1. x.pc = "idle" /\ x.kind = "none"
      BY <1>3 DEF Idle
    <2> QED
      BY <1>4, <2>1 DEF ThreadOK, Laden
  <1>13. ASSUME NEW t \in Objects, Managed(t)' PROVE Served(t)'
    <2>1. Served(t) /\ ses'[t] = ses[t]
      BY <1>1, <1>4, <1>6, <1>7, <1>13
    <2>2. Due(t) => Due(t)'
      BY <1>1, <1>4, <2>1, DueMoves
    <2> QED
      BY <1>4, <2>1, <2>2, ServedOther
  <1> QED
    BY <1>4, <1>8, <1>9, <1>10, <1>11, <1>12, <1>13, TaskFrame


\* A step that leaves the sessions, the threads and the responses alone.
LEMMA NothingServed ==
    ASSUME ServerInv, ServedInv, PeerStep \/ UNCHANGED vars
    PROVE  ServedInv'
  <1>1. /\ mgr' = mgr /\ ses' = ses /\ inputQ' = inputQ /\ execQ' = execQ /\ work' = work
        /\ loop' = loop /\ respQ' = respQ /\ closeReq' = closeReq
    BY DEF PeerStep, PeerSend, PeerLeave, vars
  <1>2. SidsOK /\ \A t \in Objects : Managed(t) => Served(t)
    BY DEF ServedInv
  <1>3. SidsOK' /\ SidsKept /\ Quiet
    BY <1>1, <1>2, NothingMoves
  <1>4. StartsOK(inputQ)'
    BY <1>1 DEF ServedInv, StartsOK
  <1>5. ASSUME NEW t \in Objects, Managed(t)' PROVE Served(t)'
    <2>1. Served(t) /\ ses'[t] = ses[t]
      BY <1>1, <1>2, <1>5 DEF Managed
    <2>2. Due(t) => Due(t)'
      BY <1>1, <2>1, DueKept DEF Due
    <2> QED
      BY <1>1, <2>1, <2>2, ServedOther
  <1> QED
    BY <1>1, <1>3, <1>4, <1>5, LoopFrame

\* No session has been accepted.
LEMMA ServedInvInit == Init => ServedInv
  <1> SUFFICES ASSUME Init PROVE ServedInv
    OBVIOUS
  <1>1. /\ \A s \in Objects : ses[s] = NewSession
        /\ \A w \in Threads : work[w] = Idle
        /\ inputQ = <<>> /\ execQ = <<>> /\ respQ = <<>> /\ closeReq = {}
        /\ \A k \in Keys : mgr.mSeq[k] = 0
    BY DEF Init, EmptyTable
  <1>2. \A s \in Objects : /\ ses[s].life = "unborn" /\ ~ses[s].started /\ ~Managed(s)
    BY <1>1 DEF NewSession, Managed
  <1>3. \A w \in Threads : work[w].pc = "idle" /\ work[w].kind = "none"
    BY <1>1 DEF Idle
  <1>4. SidsOK
    <2>1. Gone = {}
      BY <1>2 DEF Gone
    <2>2. Cardinality(Gone) = 0
      BY <2>1, FS_EmptySet
    <2> QED
      BY <1>1, <1>2, <2>1, <2>2 DEF SidsOK
  <1>5. ResponsesOK /\ StartsOK(inputQ) /\ StartsOK(execQ)
    BY <1>1 DEF ResponsesOK, StartsOK
  <1>6. \A w \in Threads : ThreadOK(w)
    BY <1>3 DEF ThreadOK, Laden
  <1> QED
    BY <1>1, <1>2, <1>4, <1>5, <1>6 DEF ServedInv

\* Every step keeps the invariant.
LEMMA ServedInvNext ==
    ASSUME MaxSessions < SeqMod
    PROVE  ServerInv /\ MsgInv /\ ServedInv /\ [Next]_vars => ServedInv'
  <1> SUFFICES ASSUME ServerInv, MsgInv, ServedInv, [Next]_vars PROVE ServedInv'
    OBVIOUS
  <1>1. ASSUME NEW s \in Objects, OnAccept(s) PROVE ServedInv'
    BY <1>1, OnAcceptServed
  <1>2. ASSUME NEW s \in Objects, OnRead(s) PROVE ServedInv'
    BY <1>2, OnReadDataServed, OnReadEndServed DEF OnRead
  <1>3. ASSUME NEW s \in Objects, OnReadTimeout(s) \/ OnWriteTimeout(s) PROVE ServedInv'
    BY <1>3, GivenUpServed
  <1>4. ASSUME NEW s \in Objects, OnWriteEvent(s) PROVE ServedInv'
    BY <1>4, OnWriteServed, GivenUpServed DEF OnWriteEvent
  <1>5. ASSUME NEW s \in Objects, OnWriteTail(s) PROVE ServedInv'
    BY <1>5, OnWriteTailServed
  <1>6. CASE OnResponse \/ DrainInput
    BY <1>6, OnResponseServed, DrainServed
  <1>7. ASSUME NEW w \in Threads, WorkerStep(w) PROVE ServedInv'
    <2>1. CASE TakeTask(w)
      BY <2>1, TakeTaskServed
    <2>2. CASE WorkerTask(w) \/ StartTask(w)
      <3>1. work[w].kind \in HandlerKinds /\ work[w].kind \in Kinds \ {"close"}
        BY <2>2 DEF WorkerTask, StartTask, HandlerKinds, Kinds
      <3> QED
        BY <2>2, <3>1, HandlerStepServed, SetStatusServed, SetNotRunningServed, PushServed
           DEF WorkerTask, StartTask
    <2>3. CASE ErrorTask(w) \/ TimeoutTask(w)
      <3>1. work[w].kind \in FinalKinds /\ work[w].kind \in Kinds \ {"close"}
        BY <2>3 DEF ErrorTask, TimeoutTask, FinalKinds, Kinds
      <3> QED
        BY <2>3, <3>1, HandlerStepServed, PushServed, DestroyServed DEF ErrorTask, TimeoutTask
    <2>4. CASE CloseTask(w)
      BY <2>4, DestroyServed DEF CloseTask, FinalKinds
    <2> QED
      BY <1>7, <2>1, <2>2, <2>3, <2>4 DEF WorkerStep
  <1>8. CASE PeerStep \/ UNCHANGED vars
    BY <1>8, NothingServed
  <1> QED
    BY <1>1, <1>2, <1>3, <1>4, <1>5, <1>6, <1>7, <1>8 DEF Next, LoopStep

-----------------------------------------------------------------------------

\* What ServedInv says of a session is what NotStranded and CloseNotForgotten
\* say: a session waits for a response exactly when one is due.
LEMMA ServedInvMeans ==
    ASSUME ServerInv, ServedInv
    PROVE  NotStranded /\ (~CloseWhileStarting => CloseNotForgotten)
  <1>1. ASSUME NEW s \in Objects
        PROVE  Due(s) <=> ResponseDue(s)
    <2>1. ses[s].mRunning <=> HandlerBusy(s)
      BY ServerInvMeans DEF HandlerExclusive
    <2>2. Answering(s) <=> Running(s, HandlerKinds, {"push"}) # {}
      BY DEF Answering, Running
    <2> QED
      BY <2>1, <2>2 DEF Due, Answered, ResponseDue
  <1>2. ASSUME NEW s \in Objects, Managed(s), ~ResponseDue(s), loop.s # s
        PROVE  /\ ses[s].readEvent \/ ses[s].writeEvent
               /\ ses[s].mStatus # "eNormal" => ses[s].writeEvent
               /\ Decodable(ses[s]) => ses[s].writeEvent
               /\ ses[s].mOutList # <<>> => ses[s].writeEvent
    <2>1. Served(s) /\ ~Due(s)
      BY <1>1, <1>2 DEF ServedInv
    <2>2. ses[s].mStatus \in {"eNormal", "eExit"}
      BY <2>1 DEF Served, Statuses
    <2> QED
      BY <1>2, <2>1, <2>2 DEF Served
  <1>3. NotStranded
    BY <1>2, ServerInvMeans DEF NotStranded
  <1>4. ~CloseWhileStarting => CloseNotForgotten
    BY DEF ServedInv, Closing, CloseNotForgotten
  <1> QED
    BY <1>3, <1>4

\* The invariant holds in every reachable state, as long as no sequence number
\* can have come round.
THEOREM ServedInvariant ==
    ASSUME MaxSessions < SeqMod
    PROVE  Spec => []ServedInv
  <1>1. ServerInv /\ MsgInv /\ ServedInv /\ [Next]_vars => ServedInv'
    BY ServedInvNext
  <1> QED
    BY <1>1, ServedInvInit, ServerInvariant, MessageInvariant, PTL DEF Spec

\* For any number of sessions, threads and queued tasks: a session of the table
\* has an event registered or a response on its way to onResponse, which registers
\* one; what has to be sent, closed or decoded has the write event.  Neither the
\* flag mReading, which the event_del of onResponse leaves TRUE, nor a callback
\* that returns because the session is running loses it.
THEOREM SessionServed ==
    ASSUME MaxSessions < SeqMod
    PROVE  Spec => []NotStranded
  <1>1. ServerInv /\ ServedInv => NotStranded
    BY ServedInvMeans
  <1> QED
    BY <1>1, ServerInvariant, ServedInvariant, PTL

\* A session on the toCloseList of another one never goes back to serving requests
\* (onResponse sets eExit, setStatus of a worker only eWouldExit), provided that no
\* list names a session whose start task has not set its status: the run
\* server_close_starting shows what happens otherwise.
THEOREM CloseHonoured ==
    ASSUME MaxSessions < SeqMod, CloseWhileStarting = FALSE
    PROVE  Spec => []CloseNotForgotten
  <1>1. ServerInv /\ ServedInv => CloseNotForgotten
    BY ServedInvMeans
  <1> QED
    BY <1>1, ServerInvariant, ServedInvariant, PTL
=============================================================================
