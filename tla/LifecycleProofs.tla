------------------------- MODULE LifecycleProofs -------------------------
(***************************************************************************)
(* What holds of the life of the servers for any number of threads,        *)
(* workers, timers and events:                                             *)
(*   LFServer    a leader in the event loop leaves no task and no message  *)
(*               waiting;                                                  *)
(*   ServerLoop  the SP_EventArg outlives the tasks and the loop;          *)
(*   Dispatcher  a pushed timer argument has exactly one owner;            *)
(*   ThreadPool  the pool keeps to its size, no thread sleeps on a job,    *)
(*               every job is run once, and the destructor finds the pool  *)
(*               empty;                                                    *)
(*   Executor    the task queue is a first-in first-out channel, and the   *)
(*               event loop sleeps only when there is nothing to do.       *)
(*                                                                         *)
(* The state of each of the first three is one record.  Its invariant      *)
(* therefore starts with the record's fields (LFRecord, SLRecord,          *)
(* DPRecord), and each step of the proof first says which fields an action *)
(* sets, then why the invariant survives that.                             *)
(***************************************************************************)
EXTENDS ThreadPool, Executor, LFServer, ServerLoop, Dispatcher, Counting

-----------------------------------------------------------------------------
(* LFServer: the leader has nothing to do *)

\* Where a thread of the pool can be
LFPlaces ==
    {"none", "test", "lock", "check", "loop", "task", "message", "out", "done"}

\* The fields of the server
LFRecord ==
    lf = [iocp |-> lf.iocp, mIsShutdown |-> lf.mIsShutdown, mIsRunning |-> lf.mIsRunning,
          input |-> lf.input, output |-> lf.output, mutex |-> lf.mutex,
          pc |-> lf.pc, accept |-> lf.accept,
          pending |-> lf.pending, left |-> lf.left, posted |-> lf.posted, user |-> lf.user]

\* What the proof needs to know of the fields
LFTyped ==
    /\ lf.input \in Nat /\ lf.output \in Nat
    /\ lf.mutex \in LFThreads \cup {Nobody}
    /\ lf.pc \in [LFThreads -> LFPlaces]

\* A thread that looks at the queues or is in the event loop has the mutex.
LeaderHoldsMutex ==
    \A t \in LFThreads : lf.pc[t] \in {"check", "loop"} => lf.mutex = t

\* run() starts the threads.
NoThreadBeforeRun ==
    lf.user = "new" => \A t \in LFThreads : lf.pc[t] = "none"

\* LeaderHasNothingToDo is not inductive: another thread could fill a queue
\* while the leader waits, unless the mutex keeps it out.
LFInv ==
    /\ LFRecord /\ LFTyped
    /\ LeaderHoldsMutex
    /\ NoThreadBeforeRun
    /\ LeaderHasNothingToDo

\* The constructors make a state that satisfies it.
LEMMA LFInvInit == LFInit => LFInv
  BY LFAssumption DEF LFInit, LFInv, NewLF, NewIocpLF, LFPlaces, LFRecord, LFTyped,
    LeaderHoldsMutex, NoThreadBeforeRun, LeaderHasNothingToDo, At

\* A step that leaves the threads, the mutex and the queues alone keeps it.
LEMMA LFQuiet ==
    ASSUME LFInv, lf'.pc = lf.pc, lf'.mutex = lf.mutex, lf'.input = lf.input,
           lf'.output = lf.output, lf'.user # "new" \/ lf'.user = lf.user, LFRecord'
    PROVE  LFInv'
  BY DEF LFInv, LFTyped, LeaderHoldsMutex, NoThreadBeforeRun, LeaderHasNothingToDo, At

\* One thread goes from one place to another, and takes or gives back the mutex
\* or changes the queues only as their owner.
LEMMA LFMove ==
    ASSUME LFInv, LFRecord', NEW t \in LFThreads, NEW p \in LFPlaces,
           lf'.pc = [lf.pc EXCEPT ![t] = p],
           lf'.mutex \in {lf.mutex, t, Nobody},
           lf'.input \in Nat, lf'.output \in Nat,
           p \in {"check", "loop"} => lf'.mutex = t,
           lf'.mutex = lf.mutex \/ lf.pc[t] \in {"check", "loop"} \/ lf.mutex = Nobody,
           lf.pc[t] # "none", lf'.user = lf.user,
           (lf'.input = lf.input /\ lf'.output = lf.output) \/ lf.pc[t] \in {"check", "loop"},
           p = "loop" => lf'.input = 0 /\ lf'.output = 0
    PROVE  LFInv'
  <1>1. lf.pc \in [LFThreads -> LFPlaces]
    BY DEF LFInv, LFTyped
  <1>2. lf'.pc \in [LFThreads -> LFPlaces] /\ lf'.pc[t] = p
        /\ \A u \in LFThreads : u # t => lf'.pc[u] = lf.pc[u]
    BY <1>1
  <1>3. LFTyped'
    BY <1>2 DEF LFInv, LFTyped
  <1>4. LeaderHoldsMutex'
    BY <1>2, LFAssumption DEF LFInv, LeaderHoldsMutex
  <1>5. NoThreadBeforeRun'
    BY <1>1, <1>2 DEF LFInv, NoThreadBeforeRun
  <1>6. LeaderHasNothingToDo'
    BY <1>2, LFAssumption DEF LFInv, LeaderHasNothingToDo, LeaderHoldsMutex, At
  <1> QED
    BY <1>3, <1>4, <1>5, <1>6 DEF LFInv

\* Every step keeps the invariant.
LEMMA LFInvNext == LFInv /\ [LFNext]_lfVars => LFInv'
  <1> SUFFICES ASSUME LFInv, [LFNext]_lfVars
               PROVE  LFInv'
    OBVIOUS
  <1>0. LFRecord /\ LFTyped
    BY DEF LFInv
  <1>1. ASSUME LFRun \/ IocpLFRun PROVE LFInv'
    <2> DEFINE PcOf(made) == [t \in LFThreads |-> IF t \in made THEN "test" ELSE "none"]
    <2>1. /\ LFRecord' /\ lf'.user # "new" /\ lf'.mutex = lf.mutex
          /\ lf'.input = lf.input /\ lf'.output = lf.output
          /\ lf'.pc = lf.pc \/ \E made \in SUBSET LFThreads : lf'.pc = PcOf(made)
      BY <1>1, <1>0 DEF LFRecord, LFRun, IocpLFRun, Dispatched
    <2>2. CASE lf'.pc = lf.pc
      BY <2>1, <2>2, LFQuiet
    <2>3. ASSUME NEW made \in SUBSET LFThreads, lf'.pc = PcOf(made)
          PROVE  LFInv'
      <3>1. \A t \in LFThreads : lf'.pc[t] \in {"test", "none"}
        BY <2>3
      <3>2. lf'.pc \in [LFThreads -> LFPlaces]
        BY <2>3 DEF LFPlaces
      <3> QED
        BY <2>1, <3>1, <3>2
           DEF LFInv, LFTyped, LeaderHoldsMutex, NoThreadBeforeRun, LeaderHasNothingToDo, At
    <2> QED
      BY <2>1, <2>2, <2>3
  <1>3. CASE LFOwner
    <2>1. /\ LFRecord' /\ lf'.user # "new" /\ lf'.mutex = lf.mutex
          /\ lf'.input = lf.input /\ lf'.output = lf.output /\ lf'.pc = lf.pc
      BY <1>3, <1>0
         DEF LFRecord, LFOwner, LFDestroy, IocpLFDestroy, IocpLFWait, LFFree,
              LFShutdown, IocpLFShutdown
    <2> QED
      BY <2>1, LFQuiet
  <1>4. ASSUME NEW t \in LFThreads, LFHandler(t) \/ LFOut(t) \/ IocpLFOut(t) \/ LFWork(t)
        PROVE  LFInv'
    <2>1. PICK p \in {"out", "lock", "done", "test"} :
             /\ LFRecord' /\ lf'.user = lf.user /\ lf'.mutex = lf.mutex
             /\ lf'.input = lf.input /\ lf'.output = lf.output
             /\ lf'.pc = [lf.pc EXCEPT ![t] = p]
             /\ lf.pc[t] # "none"
      BY <1>4, <1>0 DEF LFRecord, LFHandler, LFOut, IocpLFOut, LFWork, At, Go
    <2> QED
      BY <1>0, <2>1, LFMove DEF LFTyped, LFPlaces
  <1>5. ASSUME NEW t \in LFThreads, LFTurn(t)
        PROVE  LFInv'
    <2>1. CASE At(t, "lock")
      <3>1. /\ LFRecord' /\ lf'.user = lf.user /\ lf'.mutex = t /\ lf.mutex = Nobody
            /\ lf'.input = lf.input /\ lf'.output = lf.output
            /\ lf'.pc = [lf.pc EXCEPT ![t] = "check"]
            /\ lf.pc[t] # "none"
        BY <1>5, <2>1, <1>0 DEF LFRecord, LFTurn, At, Go
      <3> QED
        BY <1>0, <3>1, LFMove DEF LFTyped, LFPlaces
    <2>2. CASE At(t, "check")
      <3>0. lf.pc[t] = "check" /\ lf.mutex = t
        BY <2>2 DEF At, LFInv, LeaderHoldsMutex
      <3>1. CASE lf' = [lf EXCEPT !.mutex = Nobody, !.pc = Go(t, "test")]
        <4>1. /\ LFRecord' /\ lf'.user = lf.user /\ lf'.mutex = Nobody
              /\ lf'.input = lf.input /\ lf'.output = lf.output
              /\ lf'.pc = [lf.pc EXCEPT ![t] = "test"]
          BY <3>1, <1>0 DEF LFRecord, Go
        <4> QED
          BY <1>0, <3>0, <3>1, <4>1, LFMove DEF LFTyped, LFPlaces
      <3>2. CASE /\ lf.input > 0
                 /\ lf' = [lf EXCEPT !.mutex = Nobody, !.input = @ - 1, !.pc = Go(t, "task")]
        <4>1. /\ LFRecord' /\ lf'.user = lf.user /\ lf'.mutex = Nobody
              /\ lf'.input = lf.input - 1 /\ lf'.output = lf.output
              /\ lf'.pc = [lf.pc EXCEPT ![t] = "task"]
          BY <3>2, <1>0 DEF LFRecord, Go
        <4> QED
          BY <1>0, <3>0, <3>2, <4>1, LFMove DEF LFTyped, LFPlaces
      <3>3. CASE /\ lf.output > 0
                 /\ lf' = [lf EXCEPT !.mutex = Nobody, !.output = @ - 1, !.pc = Go(t, "message")]
        <4>1. /\ LFRecord' /\ lf'.user = lf.user /\ lf'.mutex = Nobody
              /\ lf'.input = lf.input /\ lf'.output = lf.output - 1
              /\ lf'.pc = [lf.pc EXCEPT ![t] = "message"]
          BY <3>3, <1>0 DEF LFRecord, Go
        <4> QED
          BY <1>0, <3>0, <3>3, <4>1, LFMove DEF LFTyped, LFPlaces
      <3>4. CASE lf.input = 0 /\ lf.output = 0 /\ lf' = [lf EXCEPT !.pc = Go(t, "loop")]
        <4>1. /\ LFRecord' /\ lf'.user = lf.user /\ lf'.mutex = lf.mutex
              /\ lf'.input = lf.input /\ lf'.output = lf.output
              /\ lf'.pc = [lf.pc EXCEPT ![t] = "loop"]
          BY <3>4, <1>0 DEF LFRecord, Go
        <4> QED
          BY <1>0, <3>0, <3>4, <4>1, LFMove DEF LFTyped, LFPlaces
      <3> QED
        BY <1>5, <2>2, <3>1, <3>2, <3>3, <3>4 DEF LFTurn, At
    <2> QED
      BY <1>5, <2>1, <2>2 DEF LFTurn
  <1>6. ASSUME NEW t \in LFThreads, LFLoop(t) \/ LFSignal(t) \/ IocpLFLoop(t)
        PROVE  LFInv'
    <2> DEFINE Back == /\ LFRecord' /\ lf'.user = lf.user /\ lf'.mutex = lf.mutex
                       /\ lf'.input \in Nat /\ lf'.output \in Nat
                       /\ lf'.pc = [lf.pc EXCEPT ![t] = "check"]
    <2>0. lf.pc[t] = "loop"
      BY <1>6 DEF LFLoop, LFSignal, IocpLFLoop, At
    <2>1. Back
      <3>1. ASSUME lf' \in Callbacks([lf EXCEPT !.pending = @ - 1], t)
            PROVE  Back
        <4>1. PICK i \in 0 .. 1, o \in 0 .. 1, a \in {FALSE, lf.accept = "wait"} :
                lf' = [lf EXCEPT !.pending = @ - 1, !.input = @ + i, !.output = @ + o,
                                 !.pc = Go(t, "check"), !.accept = IF a THEN "prepare" ELSE @]
          BY <3>1, <1>0 DEF Callbacks, LFRecord
        <4>2. PICK c : lf' = [lf EXCEPT !.pending = @ - 1, !.input = @ + i, !.output = @ + o,
                                        !.pc = Go(t, "check"), !.accept = c]
          BY <4>1
        <4>3. /\ LFRecord' /\ lf'.user = lf.user /\ lf'.mutex = lf.mutex
              /\ lf'.input = lf.input + i /\ lf'.output = lf.output + o
              /\ lf'.pc = [lf.pc EXCEPT ![t] = "check"]
          BY <4>2, <1>0 DEF LFRecord, Go
        <4> QED
          BY <4>3, <1>0 DEF LFTyped
      <3>2. CASE lf' \notin Callbacks([lf EXCEPT !.pending = @ - 1], t)
        BY <3>2, <1>6, <1>0 DEF LFRecord, LFTyped, LFLoop, LFSignal, IocpLFLoop, LFShutdown, Go
      <3> QED
        BY <3>1, <3>2
    <2>2. lf.mutex = t
      BY <2>0 DEF LFInv, LeaderHoldsMutex
    <2> QED
      BY <1>0, <2>0, <2>1, <2>2, LFMove DEF LFTyped, LFPlaces
  <1>8. CASE LFAccept \/ LFEvent
    <2>1. /\ LFRecord' /\ lf'.user = lf.user /\ lf'.mutex = lf.mutex
          /\ lf'.input = lf.input /\ lf'.output = lf.output /\ lf'.pc = lf.pc
      BY <1>8, <1>0 DEF LFRecord, LFAccept, LFEvent
    <2> QED
      BY <2>1, LFQuiet
  <1>9. CASE UNCHANGED lfVars
    BY <1>9, <1>0, LFQuiet DEF lfVars, LFRecord
  <1> QED
    BY <1>1, <1>3, <1>4, <1>5, <1>6, <1>8, <1>9 DEF LFNext, LFThread

\* For any number of threads: as long as a thread is in the event loop of an
\* SP_LFServer or SP_IocpLFServer, no task and no message waits.
THEOREM LeaderIdle == LFSpec => []LeaderHasNothingToDo
  <1>1. LFInv => LeaderHasNothingToDo
    BY DEF LFInv
  <1> QED
    BY <1>1, LFInvInit, LFInvNext, PTL DEF LFSpec

-----------------------------------------------------------------------------
(* ServerLoop: the SP_EventArg outlives the tasks and the loop *)

\* The fields of a server
SLRecord ==
    sl = [kind |-> sl.kind, mIsShutdown |-> sl.mIsShutdown, mIsRunning |-> sl.mIsRunning,
          port |-> sl.port, posted |-> sl.posted, user |-> sl.user, loop |-> sl.loop,
          accept |-> sl.accept, input |-> sl.input, output |-> sl.output,
          work |-> sl.work, act |-> sl.act, arg |-> sl.arg, handler |-> sl.handler,
          pending |-> sl.pending, left |-> sl.left]

\* A queue of tasks and the tasks under way
IsExecutor(e) ==
    /\ e = [queue |-> e.queue, busy |-> e.busy, door |-> e.door]
    /\ e.queue \in Nat /\ e.busy \in Nat

\* What the proof needs to know of the fields
SLTyped ==
    /\ SLRecord
    /\ IsExecutor(sl.work)
    /\ sl.input \in Nat
    /\ sl.kind \in {"server", "iocpServer", "dispatcher", "iocpDispatcher"}

\* start() has its SP_EventArg at these places, and its executors at the first
InTurns == {"test", "wait", "drain", "end", "join"}
InStart == InTurns \cup {"listen"}

\* ArgOutlivesTasks is strengthened by where things are: mIsRunning covers
\* start(), a dispatcher has its SP_EventArg until it is freed, and outside the
\* turns of the loop no task is under way nor can one be handed on.
SLInv ==
    /\ SLTyped
    /\ sl.user = "new" => sl.loop = "none"
    /\ sl.user = "freed" => sl.loop \in {"none", "gone"}
    /\ sl.loop \in {"none", "created", "gone"} \/ sl.mIsRunning
    /\ sl.loop \in InStart => sl.arg = "alive"
    /\ sl.loop \notin InTurns =>
          sl.work.busy = 0 /\ (sl.work.queue = 0 \/ sl.work.door = "shut")
    /\ IsDispatcher /\ sl.user # "freed" => sl.arg = "alive"

\* These fields stay as they are.
SLHeld ==
    SLRecord' /\ sl'.kind = sl.kind /\ sl'.work = sl.work /\ sl'.input = sl.input

\* The constructors of the four classes make a state that satisfies it.
LEMMA SLInvInit == ServerLoopInit => SLInv
  <1> SUFFICES ASSUME ServerLoopInit PROVE SLInv
    OBVIOUS
  <1>1. /\ SLRecord /\ sl.work = NewExecutor /\ sl.input = 0 /\ sl.user = "new" /\ sl.loop = "none"
        /\ sl.kind \in {"server", "iocpServer", "dispatcher", "iocpDispatcher"}
        /\ IsDispatcher => sl.arg = "alive"
    <2>1. CASE sl = NewServer
      BY <2>1 DEF NewServer, SLRecord, IsDispatcher
    <2>2. CASE sl = NewIocpServer
      BY <2>2 DEF NewServer, NewIocpServer, SLRecord, IsDispatcher
    <2>3. CASE sl = NewDispatcher
      BY <2>3 DEF NewServer, NewDispatcher, SLRecord, IsDispatcher
    <2>4. CASE sl = NewIocpDispatcher
      BY <2>4 DEF NewServer, NewDispatcher, NewIocpDispatcher, SLRecord, IsDispatcher
    <2> QED
      BY <2>1, <2>2, <2>3, <2>4 DEF ServerLoopInit
  <1> QED
    BY <1>1 DEF SLInv, SLTyped, IsExecutor, InStart, InTurns, NewExecutor

\* A step that changes neither the loop, the SP_EventArg nor the executor of the
\* tasks keeps the invariant, whatever flags it sets.
LEMMA SLQuiet ==
    ASSUME SLInv, SLHeld, sl'.loop = sl.loop, sl'.arg = sl.arg,
           sl'.mIsRunning = sl.mIsRunning,
           \/ sl'.user = sl.user
           \/ /\ sl.user \notin {"new", "freed"}
              /\ sl'.user \in {"up", "post", "wait"}
    PROVE  SLInv'
  BY DEF SLInv, SLHeld, SLTyped, IsExecutor, IsDispatcher, InStart, InTurns

\* run(), dispatch(), shutdown() and the destructors: the destructors that wait
\* for mIsRunning free the SP_EventArg only when the loop is over.
LEMMA SLOwner ==
    ASSUME SLInv, Create \/ ServerStop \/ ServerDestroy \/ Destroy
    PROVE  SLInv'
  <1>0. SLRecord
    BY DEF SLInv, SLTyped
  <1>1. CASE Create
     <2>1. CASE sl' = [sl EXCEPT !.user = "up", !.loop = "created"]
       <3>1. /\ SLHeld /\ sl'.loop = "created"
             /\ sl'.arg = sl.arg /\ sl'.user = "up"
         BY <2>1, <1>0 DEF SLHeld, SLRecord
       <3> QED
         BY <3>1, <1>1
            DEF Create, SLHeld, SLInv, SLTyped, IsExecutor, IsDispatcher, InStart, InTurns
     <2>2. CASE sl' = [sl EXCEPT !.user = "up", !.mIsRunning = FALSE]
       <3>1. /\ SLHeld /\ sl'.loop = sl.loop
             /\ sl'.arg = sl.arg /\ sl'.user = "up"
         BY <2>2, <1>0 DEF SLHeld, SLRecord
       <3> QED
         BY <3>1, <1>1
            DEF Create, SLHeld, SLInv, SLTyped, IsExecutor, IsDispatcher, InStart, InTurns
     <2> QED
       BY <1>1, <2>1, <2>2 DEF Create
  <1>2. CASE ServerStop
     <2>1. /\ SLHeld /\ sl'.loop = sl.loop
           /\ sl'.arg = sl.arg /\ sl'.user = "up" /\ sl'.mIsRunning = sl.mIsRunning
         BY <1>2, <1>0 DEF SLHeld, SLRecord, ServerStop, ServerShutdown
     <2> QED
       BY <2>1, <1>2, SLQuiet DEF ServerStop
  <1>3. CASE sl' = [sl EXCEPT !.user = "freed"] /\ sl.loop \in {"none", "gone"}
    <2>1. /\ SLHeld /\ sl'.loop = sl.loop
          /\ sl'.arg = sl.arg /\ sl'.user = "freed"
      BY <1>3, <1>0 DEF SLHeld, SLRecord
    <2> QED
      BY <1>3, <2>1 DEF SLHeld, SLInv, SLTyped, IsExecutor, IsDispatcher, InStart, InTurns
  <1>4. CASE sl' = [sl EXCEPT !.user = "freed", !.arg = "dead"] /\ sl.loop \in {"none", "gone"}
    <2>1. /\ SLHeld /\ sl'.loop = sl.loop
          /\ sl'.arg = "dead" /\ sl'.user = "freed"
      BY <1>4, <1>0 DEF SLHeld, SLRecord
    <2> QED
      BY <1>4, <2>1 DEF SLHeld, SLInv, SLTyped, IsExecutor, IsDispatcher, InStart, InTurns
  <1>5. CASE /\ sl.user \notin {"new", "freed"}
             /\ sl' = IocpShutdown(sl, "wait") \/ sl' = ServerShutdown(sl, "wait")
    <2>1. /\ SLHeld /\ sl'.loop = sl.loop
          /\ sl'.arg = sl.arg /\ sl'.user \in {"post", "wait"} /\ sl'.mIsRunning = sl.mIsRunning
      BY <1>5, <1>0 DEF SLHeld, SLRecord, IocpShutdown, ServerShutdown
    <2> QED
      BY <1>5, <2>1, SLQuiet
  <1>6. Started /\ ~sl.mIsRunning => sl.loop \in {"none", "gone"}
    BY DEF SLInv, Started
  <1> QED
    BY <1>1, <1>2, <1>3, <1>4, <1>5, <1>6
       DEF ServerDestroy, Destroy, IocpServerDestroy, DispatcherDestroy, IocpDispatcherDestroy

\* Making the executors leaves all else as the server s has it.
LEMMA SLMade ==
    ASSUME NEW s, s = [kind |-> s.kind, mIsShutdown |-> s.mIsShutdown,
                       mIsRunning |-> s.mIsRunning, port |-> s.port, posted |-> s.posted,
                       user |-> s.user, loop |-> s.loop, accept |-> s.accept,
                       input |-> s.input, output |-> s.output, work |-> s.work, act |-> s.act,
                       arg |-> s.arg, handler |-> s.handler, pending |-> s.pending,
                       left |-> s.left],
           IsExecutor(s.work), sl' \in WithExecutors(s)
    PROVE  /\ SLRecord' /\ sl'.kind = s.kind /\ sl'.input = s.input /\ sl'.loop = s.loop
           /\ sl'.arg = s.arg /\ sl'.user = s.user /\ sl'.mIsRunning = s.mIsRunning
           /\ IsExecutor(sl'.work)
           /\ sl'.work.queue = s.work.queue /\ sl'.work.busy = s.work.busy
  <1>1. PICK w \in {"open", "none"}, a \in {"open", "none"} :
           sl' = [s EXCEPT !.work.door = w, !.act.door = a]
    BY DEF WithExecutors
  <1>2. sl'.work = [s.work EXCEPT !.door = w]
    BY <1>1
  <1>3. sl'.work = [queue |-> s.work.queue, busy |-> s.work.busy, door |-> w]
    BY <1>2 DEF IsExecutor
  <1> QED
    BY <1>1, <1>3 DEF SLRecord, IsExecutor

\* eventLoop around start(), the test of the loop, a signal, and the first step
\* of a dispatcher.
LEMMA SLLoop ==
    ASSUME SLInv, AroundStart \/ ServerTest \/ ServerSignal \/ (MakeExecutors /\ IsDispatcher)
    PROVE  SLInv'
  <1>0. SLRecord
    BY DEF SLInv, SLTyped
  <1>1. CASE AroundStart
     <2>1. /\ SLHeld
           /\ sl'.arg = sl.arg /\ sl'.user = sl.user
           /\ \/ sl.loop = "created" /\ sl'.mIsRunning /\ sl'.loop = "start"
              \/ sl.loop = "leave" /\ sl'.loop = "gone"
         BY <1>1, <1>0 DEF SLHeld, SLRecord, AroundStart
     <2> QED
       BY <2>1 DEF SLHeld, SLInv, SLTyped, IsExecutor, IsDispatcher, InStart, InTurns
  <1>2. CASE ServerTest \/ ServerSignal
     <2>1. /\ SLHeld
           /\ sl'.arg = sl.arg /\ sl'.user = sl.user /\ sl'.mIsRunning = sl.mIsRunning
         BY <1>2, <1>0 DEF SLHeld, SLRecord, ServerTest, ServerSignal, ServerShutdown
     <2>2. /\ sl.loop \in {"test", "wait"}
           /\ sl'.loop \in {"test", "wait", "drain", "end"}
         BY <1>2, <1>0 DEF SLHeld, SLRecord, ServerTest, ServerSignal, ServerShutdown
     <2> QED
       BY <2>1, <2>2 DEF SLHeld, SLInv, SLTyped, IsExecutor, IsDispatcher, InStart, InTurns
  <1>3. CASE MakeExecutors /\ IsDispatcher
     <2> DEFINE s == [sl EXCEPT !.loop = "test"]
     <2>1. /\ s = [kind |-> s.kind, mIsShutdown |-> s.mIsShutdown,
                   mIsRunning |-> s.mIsRunning, port |-> s.port, posted |-> s.posted,
                   user |-> s.user, loop |-> s.loop, accept |-> s.accept,
                   input |-> s.input, output |-> s.output, work |-> s.work, act |-> s.act,
                   arg |-> s.arg, handler |-> s.handler, pending |-> s.pending,
                   left |-> s.left]
           /\ s.kind = sl.kind /\ s.input = sl.input /\ s.loop = "test" /\ s.arg = sl.arg
           /\ s.user = sl.user /\ s.mIsRunning = sl.mIsRunning /\ s.work = sl.work
         BY <1>0 DEF SLRecord
     <2>2. IsExecutor(s.work) /\ sl' \in WithExecutors(s) /\ sl.loop = "start"
         BY <2>1, <1>3 DEF MakeExecutors, SLInv, SLTyped
     <2> HIDE DEF s
     <2>3. /\ SLRecord' /\ sl'.kind = sl.kind /\ sl'.input = sl.input /\ sl'.loop = "test"
           /\ sl'.arg = sl.arg /\ sl'.user = sl.user /\ sl'.mIsRunning = sl.mIsRunning
           /\ IsExecutor(sl'.work)
         BY <2>1, <2>2, SLMade
     <2> QED
       BY <1>3, <2>2, <2>3 DEF SLInv, SLTyped, IsDispatcher, InStart, InTurns
  <1> QED
    BY <1>1, <1>2, <1>3

\* One turn of the loop, and its end
LEMMA SLTurn ==
    ASSUME SLInv, ServerWait \/ Drain \/ ServerEnd
    PROVE  SLInv'
  <1>0. SLRecord /\ IsExecutor(sl.work) /\ sl.input \in Nat
    BY DEF SLInv, SLTyped
  <1>1. CASE ServerWait
     <2>1. /\ SLRecord' /\ sl'.kind = sl.kind /\ sl'.work = sl.work
           /\ sl'.arg = sl.arg /\ sl'.user = sl.user /\ sl'.mIsRunning = sl.mIsRunning
           /\ sl'.loop = "drain"
         BY <1>1, <1>0 DEF SLRecord, ServerWait
     <2>2. sl'.input \in Nat
       <3>1. ASSUME NEW i \in 0 .. 1, NEW o \in 0 .. 1, NEW c,
                    sl' = [sl EXCEPT !.pending = @ - 1, !.input = @ + i, !.output = @ + o,
                                     !.loop = "drain", !.accept = c]
             PROVE  sl'.input \in Nat
         <4>1. sl'.input = sl.input + i
           BY <3>1, <1>0 DEF SLRecord
         <4> QED
           BY <4>1, <1>0
       <3>2. CASE sl' = [sl EXCEPT !.posted = @ - 1, !.loop = "drain"]
         BY <3>2, <1>0 DEF SLRecord
       <3> QED
         BY <1>1, <3>1, <3>2 DEF ServerWait
     <2> QED
       BY <1>1, <2>1, <2>2
          DEF SLInv, SLTyped, IsExecutor, IsDispatcher, InStart, InTurns, ServerWait
  <1>2. CASE Drain
     <2>1. /\ SLRecord' /\ sl'.kind = sl.kind /\ sl'.input = 0
           /\ sl'.work = [sl.work EXCEPT !.queue = @ + sl.input]
           /\ sl'.arg = sl.arg /\ sl'.user = sl.user /\ sl'.mIsRunning = sl.mIsRunning
           /\ sl'.loop = "test"
         BY <1>2, <1>0 DEF SLRecord, Drain
     <2>2. IsExecutor(sl'.work)
         BY <2>1, <1>0 DEF IsExecutor
     <2> QED
       BY <1>2, <2>1, <2>2 DEF SLInv, SLTyped, IsDispatcher, InStart, InTurns, Drain
  <1>3. CASE ServerEnd
     <2>1. /\ SLRecord' /\ sl'.kind = sl.kind /\ sl'.input = sl.input
           /\ sl'.arg = sl.arg /\ sl'.user = sl.user /\ sl'.mIsRunning = sl.mIsRunning
           /\ sl'.loop = "join"
         BY <1>3, <1>0 DEF SLRecord, ServerEnd
     <2>2. IsExecutor(sl'.work)
         BY <1>3, <1>0 DEF IsExecutor, SLRecord, ServerEnd
     <2> QED
       BY <1>3, <2>1, <2>2 DEF SLInv, SLTyped, IsDispatcher, InStart, InTurns, ServerEnd
  <1> QED
    BY <1>1, <1>2, <1>3

\* The destructors of the executors: the SP_EventArg of a server goes when no
\* task is under way and none will be.
LEMMA SLJoin ==
    ASSUME SLInv, Join
    PROVE  SLInv'
  <1>0. SLRecord /\ IsExecutor(sl.work) /\ sl.input \in Nat
    BY DEF SLInv, SLTyped
  <1>1. CASE \/ sl' = [sl EXCEPT !.act.door = Closing(sl.act)]
             \/ sl' = [sl EXCEPT !.work.door = Closing(sl.work)]
     <2>1. /\ SLRecord' /\ sl'.kind = sl.kind /\ sl'.input = sl.input
           /\ sl'.arg = sl.arg /\ sl'.user = sl.user /\ sl'.mIsRunning = sl.mIsRunning
           /\ sl'.loop = sl.loop
         BY <1>1, <1>0 DEF SLRecord
     <2>2. IsExecutor(sl'.work)
         BY <1>1, <1>0 DEF IsExecutor, SLRecord
     <2> QED
       BY <2>1, <2>2 DEF SLInv, SLTyped, IsDispatcher, InStart, InTurns, Join
  <1>2. CASE /\ Joined(sl.work)
             /\ sl' = [sl EXCEPT !.arg = IF IsDispatcher THEN @ ELSE "dead", !.loop = "leave"]
     <2>1. /\ SLRecord' /\ sl'.kind = sl.kind /\ sl'.input = sl.input /\ sl'.work = sl.work
           /\ sl'.arg = (IF IsDispatcher THEN sl.arg ELSE "dead")
           /\ sl'.user = sl.user /\ sl'.mIsRunning = sl.mIsRunning /\ sl'.loop = "leave"
         BY <1>2, <1>0 DEF SLRecord
     <2> QED
       BY <1>2, <2>1 DEF SLInv, SLTyped, IsDispatcher, InStart, InTurns, Join, Joined
  <1> QED
    BY <1>1, <1>2 DEF Join

\* start() of SP_Server and SP_IocpServer makes the SP_EventArg first.
LEMMA SLStart ==
    ASSUME SLInv, sl.kind \in {"server", "iocpServer"}, ServerStart \/ IocpServerStart, ~Turn
    PROVE  SLInv'
  <1>0. SLRecord /\ IsExecutor(sl.work) /\ sl.input \in Nat
    BY DEF SLInv, SLTyped
  <1>1. CASE sl' \in {[sl EXCEPT !.loop = "leave"],
                      [sl EXCEPT !.arg = "alive", !.port = TRUE, !.loop = "listen"],
                      [sl EXCEPT !.arg = "dead", !.loop = "leave"]}
    <2>1. /\ SLRecord' /\ sl'.kind = sl.kind /\ sl'.input = sl.input /\ sl'.work = sl.work
          /\ sl'.user = sl.user /\ sl'.mIsRunning = sl.mIsRunning
          /\ sl'.loop = "leave" \/ (sl'.arg = "alive" /\ sl'.loop = "listen")
      BY <1>0, <1>1 DEF SLRecord
    <2>2. sl.loop \in {"start", "listen"}
      BY DEF ServerStart, IocpServerStart
    <2> QED
      BY <1>0, <2>1, <2>2 DEF SLInv, SLTyped, IsDispatcher, InStart, InTurns
  <1>2. ASSUME NEW s, sl' \in WithExecutors(s),
               \/ s = [sl EXCEPT !.arg = "alive", !.handler = "alive", !.loop = "test"]
               \/ /\ sl.loop = "listen"
                  /\ s = [sl EXCEPT !.accept = "prepare", !.handler = "alive", !.loop = "test"]
        PROVE  SLInv'
    <2>1. /\ s = [kind |-> s.kind, mIsShutdown |-> s.mIsShutdown,
                  mIsRunning |-> s.mIsRunning, port |-> s.port, posted |-> s.posted,
                  user |-> s.user, loop |-> s.loop, accept |-> s.accept,
                  input |-> s.input, output |-> s.output, work |-> s.work, act |-> s.act,
                  arg |-> s.arg, handler |-> s.handler, pending |-> s.pending,
                  left |-> s.left]
          /\ s.kind = sl.kind /\ s.input = sl.input /\ s.loop = "test"
          /\ s.user = sl.user /\ s.mIsRunning = sl.mIsRunning /\ s.work = sl.work
          /\ s.arg = "alive" \/ (sl.loop = "listen" /\ s.arg = sl.arg)
      BY <1>0, <1>2 DEF SLRecord
    <2>2. IsExecutor(s.work)
      BY <2>1, <1>0
    <2>3. /\ SLRecord' /\ sl'.kind = sl.kind /\ sl'.input = sl.input /\ sl'.loop = "test"
          /\ sl'.arg = s.arg /\ sl'.user = sl.user /\ sl'.mIsRunning = sl.mIsRunning
          /\ IsExecutor(sl'.work)
      BY <1>2, <2>1, <2>2, SLMade
    <2>4. sl.loop \in {"start", "listen"}
      BY DEF ServerStart, IocpServerStart
    <2> QED
      BY <1>0, <2>1, <2>3, <2>4 DEF SLInv, SLTyped, IsDispatcher, InStart, InTurns
  <1> QED
    BY <1>1, <1>2 DEF ServerStart, IocpServerStart

\* The executor hands on tasks only while start() lasts.
LEMMA SLWorkers ==
    ASSUME SLInv, WorkExecutor
    PROVE  SLInv'
  <1>0. SLRecord /\ IsExecutor(sl.work) /\ sl.input \in Nat
    BY DEF SLInv, SLTyped
  <1>1. /\ SLRecord' /\ sl'.kind = sl.kind /\ sl'.input = sl.input /\ sl'.arg = sl.arg
        /\ sl'.user = sl.user /\ sl'.mIsRunning = sl.mIsRunning /\ sl'.loop = sl.loop
    BY <1>0 DEF SLRecord, WorkExecutor
  <1>2. ASSUME NEW e \in Handed(sl.work), sl' = [sl EXCEPT !.work = e]
        PROVE  SLInv'
    <2>1. /\ IsExecutor(e)
          /\ \/ sl.work.queue > 0 /\ sl.work.door # "shut"
             \/ /\ e.queue = sl.work.queue /\ e.busy = sl.work.busy
                /\ sl.work.door # "shut"
      <3>1. ASSUME NEW d, sl.work.queue > 0, sl.work.door \in {"open", "one"},
                   e = [sl.work EXCEPT !.queue = @ - 1, !.busy = @ + 1, !.door = d]
            PROVE  IsExecutor(e) /\ sl.work.door # "shut"
        <4>1. e = [queue |-> sl.work.queue - 1, busy |-> sl.work.busy + 1, door |-> d]
          BY <3>1, <1>0 DEF IsExecutor
        <4>2. sl.work.queue - 1 \in Nat /\ sl.work.busy + 1 \in Nat
          BY <3>1, <1>0 DEF IsExecutor
        <4> QED
          BY <3>1, <4>1, <4>2 DEF IsExecutor
      <3>2. ASSUME NEW d, sl.work.door = "one", e = [sl.work EXCEPT !.door = d]
            PROVE  /\ IsExecutor(e) /\ sl.work.door # "shut"
                   /\ e.queue = sl.work.queue /\ e.busy = sl.work.busy
        BY <3>2, <1>0 DEF IsExecutor
      <3>3. \/ /\ sl.work.queue > 0 /\ sl.work.door \in {"open", "one"}
               /\ \E d : e = [sl.work EXCEPT !.queue = @ - 1, !.busy = @ + 1, !.door = d]
            \/ sl.work.door = "one" /\ \E d : e = [sl.work EXCEPT !.door = d]
        BY <1>2 DEF Handed
      <3> QED
        BY <3>1, <3>2, <3>3
    <2>2. sl'.work = e
      BY <1>0, <1>2 DEF SLRecord
    <2> QED
      BY <1>1, <2>1, <2>2, <1>0 DEF SLInv, SLTyped, IsDispatcher, InStart, InTurns, IsExecutor
  <1>3. ASSUME sl.work.busy > 0, NEW n \in {0, IF sl.left > 0 THEN 1 ELSE 0},
               sl' = [sl EXCEPT !.work.busy = @ - 1, !.left = @ - n, !.pending = @ + n]
        PROVE  SLInv'
    <2>1. sl'.work = [sl.work EXCEPT !.busy = @ - 1]
      BY <1>0, <1>3 DEF SLRecord
    <2>2. IsExecutor(sl'.work)
      BY <2>1, <1>0, <1>3 DEF IsExecutor
    <2> QED
      BY <1>0, <1>1, <1>3, <2>2 DEF SLInv, SLTyped, IsDispatcher, InStart, InTurns, IsExecutor
  <1> QED
    BY <1>2, <1>3 DEF WorkExecutor

\* The executor of the messages, the accept thread and the clients
LEMMA SLOthers ==
    ASSUME SLInv, ActExecutor \/ Completed \/ ClientEvent \/ AcceptThread \/ UNCHANGED slVars
    PROVE  SLInv'
  <1>0. SLRecord
    BY DEF SLInv, SLTyped
  <1>1. /\ SLHeld /\ sl'.loop = sl.loop
        /\ sl'.arg = sl.arg /\ sl'.user = sl.user /\ sl'.mIsRunning = sl.mIsRunning
    BY <1>0 DEF SLHeld, SLRecord, ActExecutor, Completed, ClientEvent, AcceptThread, slVars
  <1> QED
    BY <1>1, SLQuiet

\* Every step keeps the invariant.
LEMMA SLInvNext == SLInv /\ [ServerLoopNext]_slVars => SLInv'
  <1> SUFFICES ASSUME SLInv, [ServerLoopNext]_slVars
               PROVE  SLInv'
    OBVIOUS
  <1>1. CASE Turn
    BY <1>1, SLLoop, SLTurn, SLJoin DEF Turn
  <1>2. CASE LoopThread /\ ~Turn
    <2>1. CASE \/ ServerEventLoop \/ IocpServerEventLoop
               \/ DispatcherEventLoop \/ IocpDispatcherEventLoop
      BY <2>1, SLLoop
         DEF ServerEventLoop, IocpServerEventLoop, DispatcherEventLoop, IocpDispatcherEventLoop
    <2>2. CASE ServerStart \/ IocpServerStart
      <3>1. sl.kind \in {"server", "iocpServer"}
        BY <2>2 DEF ServerStart, IocpServerStart
      <3> QED
        BY <1>2, <2>2, <3>1, SLStart
    <2>3. CASE DispatcherStart \/ IocpDispatcherStart
      <3>1. MakeExecutors /\ IsDispatcher
        BY <1>2, <2>3 DEF DispatcherStart, IocpDispatcherStart, IsDispatcher
      <3> QED
        BY <3>1, SLLoop
    <2> QED
      BY <1>2, <2>1, <2>2, <2>3 DEF LoopThread
  <1>3. CASE ServerRun \/ IocpServerRun \/ DispatcherDispatch \/ IocpDispatcherDispatch
             \/ ServerStop \/ ServerDestroy \/ Destroy
    BY <1>3, SLOwner DEF ServerRun, IocpServerRun, DispatcherDispatch, IocpDispatcherDispatch
  <1>4. CASE \/ ServerSignal \/ AcceptThread \/ WorkExecutor
             \/ ActThread \/ ClientEvent \/ UNCHANGED slVars
    <2>1. CASE ServerSignal \/ WorkExecutor
      BY <2>1, SLLoop, SLWorkers
    <2>2. CASE AcceptThread \/ ActThread \/ ClientEvent \/ UNCHANGED slVars
      BY <2>2, SLOthers
       DEF ActThread, ServerOutputCompleted, IocpServerOutputCompleted,
           DispatcherOutputCompleted, IocpDispatcherOutputCompleted
    <2> QED
      BY <1>4, <2>1, <2>2
  <1> QED
    BY <1>1, <1>2, <1>3, <1>4 DEF ServerLoopNext

\* For any number of events: the SP_EventArg is there as long as a task or the
\* loop uses it, and no server is freed under its running loop.
THEOREM ArgSafe == ServerLoopSpec => []ArgOutlivesTasks
  <1>1. SLInv => ArgOutlivesTasks
    BY DEF SLInv, SLTyped, IsExecutor, InStart, InTurns, ArgOutlivesTasks
  <1> QED
    BY <1>1, SLInvInit, SLInvNext, PTL DEF ServerLoopSpec

-----------------------------------------------------------------------------
(* Dispatcher: a timer argument has one owner *)

\* The fields of the dispatcher
DPRecord ==
    dp = [iocp |-> dp.iocp, pushQueue |-> dp.pushQueue, pushed |-> dp.pushed,
          armed |-> dp.armed, tasks |-> dp.tasks, worker |-> dp.worker,
          freed |-> dp.freed, dropped |-> dp.dropped, sessions |-> dp.sessions,
          lost |-> dp.lost, keys |-> dp.keys, phase |-> dp.phase]

\* A worker inside handle() of the timer t
Handling(t) == [step |-> "handle", timer |-> t]

\* What a worker can be at
WorkerStates == {Idle} \cup [step : {"handle", "respond"}, timer : PushTimers]

\* What the proof needs to know of the fields
DPTyped ==
    /\ DPRecord
    /\ dp.pushQueue \in Seq(PushTimers \cup PushFds)
    /\ dp.tasks \in Seq(PushTimers)
    /\ dp.armed \subseteq PushTimers
    /\ dp.worker \in [PushWorkers -> WorkerStates]

\* In how many places the argument of the timer t is
Owners(t) ==
    Count(dp.pushQueue, {t}) + Has(dp.armed, t) + Count(dp.tasks, {t})
    + Count(dp.worker, {Handling(t)}) + Has(dp.freed, t) + Has(dp.dropped, t)

\* TimerHasOneOwner, with the types its counting needs and with nothing dropped
\* before the loop has ended.
DPInv ==
    /\ DPTyped
    /\ dp.phase = "up" => dp.dropped = {}
    /\ \A t \in PushTimers : Owners(t) = Has(dp.pushed, t)

\* The terms of the sum
Numbers(t) ==
    /\ Count(dp.pushQueue, {t}) \in Nat /\ Count(dp.tasks, {t}) \in Nat
    /\ Count(dp.worker, {Handling(t)}) \in Nat
    /\ Has(dp.armed, t) \in {0, 1} /\ Has(dp.freed, t) \in {0, 1}
    /\ Has(dp.dropped, t) \in {0, 1} /\ Has(dp.pushed, t) \in {0, 1}

\* The numbers are natural numbers.
LEMMA OwnersType ==
    ASSUME DPTyped, NEW t
    PROVE  Numbers(t)
  <1>1. Count(dp.pushQueue, {t}) \in Nat /\ Count(dp.tasks, {t}) \in Nat
    BY CountSeqType DEF DPTyped
  <1>2. IsFiniteSet(PushWorkers) /\ DOMAIN dp.worker = PushWorkers
    BY DispatcherAssumption DEF DPTyped
  <1>3. Count(dp.worker, {Handling(t)}) \in Nat
    BY <1>2, CountFunType
  <1> QED
    BY <1>1, <1>3 DEF Has, Numbers

\* The invariant says what the property says.
LEMMA DPInvProperty == DPInv => TimerHasOneOwner
  <1> SUFFICES ASSUME DPInv, NEW t \in PushTimers
               PROVE  Times(dp.pushQueue, t) + If(t \in dp.armed) + Times(dp.tasks, t)
                      + Cardinality({w \in PushWorkers :
                                        dp.worker[w] = [step |-> "handle", timer |-> t]})
                      + If(t \in dp.freed) + If(t \in dp.dropped)
                      = If(t \in dp.pushed)
    BY DEF TimerHasOneOwner
  <1>1. \A q : Times(q, t) = Count(q, {t})
    <2> SUFFICES ASSUME NEW q
                 PROVE  Times(q, t) = Count(q, {t})
      OBVIOUS
    <2>1. {i \in DOMAIN q : q[i] = t} = Places(q, {t})
      BY DEF Places
    <2> QED
      BY <2>1 DEF Times, Count
  <1>2. {w \in PushWorkers : dp.worker[w] = [step |-> "handle", timer |-> t]}
          = Places(dp.worker, {Handling(t)})
    BY DEF Places, Handling, DPInv, DPTyped
  <1>3. Cardinality({w \in PushWorkers : dp.worker[w] = [step |-> "handle", timer |-> t]})
          = Count(dp.worker, {Handling(t)})
    BY <1>2 DEF Count
  <1>4. /\ If(t \in dp.armed) = Has(dp.armed, t) /\ If(t \in dp.freed) = Has(dp.freed, t)
        /\ If(t \in dp.dropped) = Has(dp.dropped, t) /\ If(t \in dp.pushed) = Has(dp.pushed, t)
    BY DEF If, Has
  <1>5. Owners(t) = Has(dp.pushed, t)
    BY DEF DPInv
  <1> QED
    BY <1>1, <1>3, <1>4, <1>5 DEF Owners

\* Nothing is pushed at first.
LEMMA DPInvInit == DispatcherInit => DPInv
  <1> SUFFICES ASSUME DispatcherInit PROVE DPInv
    OBVIOUS
  <1>1. /\ DPRecord /\ dp.pushQueue = <<>> /\ dp.pushed = {} /\ dp.armed = {} /\ dp.tasks = <<>>
        /\ dp.worker = [w \in PushWorkers |-> Idle] /\ dp.freed = {} /\ dp.dropped = {}
    BY DEF DispatcherInit, NewPushes, DPRecord
  <1>2. DPTyped
    BY <1>1 DEF DPTyped, Idle, WorkerStates
  <1>3. ASSUME NEW t \in PushTimers
        PROVE  Owners(t) = Has(dp.pushed, t)
    <2>1. Places(dp.worker, {Handling(t)}) = {}
      BY <1>1 DEF Places, Handling, Idle
    <2>2. Count(dp.worker, {Handling(t)}) = 0
      BY <2>1, FS_EmptySet DEF Count
    <2>3. Count(dp.pushQueue, {t}) = 0 /\ Count(dp.tasks, {t}) = 0
      BY <1>1, CountEmpty
    <2> QED
      BY <1>1, <2>2, <2>3 DEF Owners, Has
  <1> QED
    BY <1>1, <1>2, <1>3 DEF DPInv

\* push() makes the argument and its only owner.
LEMMA DPPush ==
    ASSUME DPInv, NEW x \in PushTimers \cup PushFds, Pushed(x)
    PROVE  DPInv'
  <1>0. DPTyped /\ DPRecord
    BY DEF DPInv, DPTyped
  <1>1. /\ DPRecord'
        /\ dp'.pushQueue = Append(dp.pushQueue, x)
        /\ dp'.armed = dp.armed
        /\ dp'.tasks = dp.tasks
        /\ dp'.worker = dp.worker
        /\ dp'.freed = dp.freed
        /\ dp'.dropped = dp.dropped
        /\ dp'.pushed = dp.pushed \cup {x}
        /\ dp'.phase = dp.phase
        /\ x \notin dp.pushed
    BY <1>0 DEF DPRecord, Pushed
  <1>2. DPTyped'
    BY <1>0, <1>1, AppendProperties DEF DPTyped
  <1>3. ASSUME NEW t \in PushTimers
        PROVE  (Owners(t) = Has(dp.pushed, t))'
    <2>1. Owners(t) = Has(dp.pushed, t)
      BY DEF DPInv
    <2>2. Numbers(t)
      BY <1>0, OwnersType
    <2>3. Count(dp'.pushQueue, {t}) = Count(dp.pushQueue, {t}) + Has({t}, x)
      BY <1>0, <1>1, CountAppend DEF DPTyped
    <2>4. Has(dp'.pushed, t) = Has(dp.pushed, t) + Has({t}, x) /\ Has({t}, x) \in {0, 1}
      BY <1>1 DEF Has
    <2>5. Owners(t)' = Count(dp.pushQueue, {t}) + Has({t}, x) + Has(dp.armed, t)
             + Count(dp.tasks, {t}) + Count(dp.worker, {Handling(t)})
             + Has(dp.freed, t) + Has(dp.dropped, t)
      BY <1>1, <2>3 DEF Owners
    <2> QED
      BY <2>1, <2>2, <2>4, <2>5 DEF Owners, Numbers
  <1> QED
    BY <1>1, <1>2, <1>3 DEF DPInv

\* onPush takes the head of the push queue; a timer is armed.
LEMMA DPTaken ==
    ASSUME DPInv, dp.pushQueue # <<>>,
           LET x == Head(dp.pushQueue) IN
           \/ /\ x \in PushFds
              /\ DPRecord' /\ dp'.pushQueue = Tail(dp.pushQueue) /\ dp'.armed = dp.armed
           \/ /\ x \in PushTimers
              /\ DPRecord' /\ dp'.pushQueue = Tail(dp.pushQueue)
              /\ dp'.armed = dp.armed \cup {x},
           dp'.tasks = dp.tasks, dp'.worker = dp.worker, dp'.freed = dp.freed,
           dp'.dropped = dp.dropped, dp'.pushed = dp.pushed, dp'.phase = dp.phase
    PROVE  DPInv'
  <1>0. DPTyped /\ DPRecord
    BY DEF DPInv, DPTyped
  <1>1. /\ DPRecord'
        /\ dp'.pushQueue = Tail(dp.pushQueue)
        /\ dp'.armed = dp.armed \cup ({Head(dp.pushQueue)} \cap PushTimers)
        /\ dp'.tasks = dp.tasks
        /\ dp'.worker = dp.worker
        /\ dp'.freed = dp.freed
        /\ dp'.dropped = dp.dropped
        /\ dp'.pushed = dp.pushed
        /\ dp'.phase = dp.phase
    BY <1>0, DispatcherAssumption DEF DPRecord
  <1>2. DPTyped'
    BY <1>0, <1>1, HeadTailProperties DEF DPTyped
  <1>3. ASSUME NEW t \in PushTimers
        PROVE  (Owners(t) = Has(dp.pushed, t))'
    <2>1. Owners(t) = Has(dp.pushed, t)
      BY DEF DPInv
    <2>2. Numbers(t)
      BY <1>0, OwnersType
    <2> DEFINE x == Head(dp.pushQueue)
    <2>3. Count(dp.pushQueue, {t}) = Has({t}, x) + Count(dp'.pushQueue, {t})
      BY <1>0, <1>1, CountTail DEF DPTyped
    <2>4. Count(dp'.pushQueue, {t}) \in Nat /\ Has({t}, x) \in {0, 1}
      <3>1. Tail(dp.pushQueue) \in Seq(PushTimers \cup PushFds)
        BY <1>0, HeadTailProperties DEF DPTyped
      <3> QED
        BY <1>1, <3>1, CountSeqType DEF Has
    <2>5. Has({t}, x) = 1 => Has(dp.armed, t) = 0
      BY <2>1, <2>2, <2>3, <2>4 DEF Owners, Numbers
    <2>6. Has(dp'.armed, t) = Has(dp.armed, t) + Has({t}, x)
      BY <1>1, <2>5 DEF Has
    <2>7. Owners(t)' = Count(dp'.pushQueue, {t}) + (Has(dp.armed, t) + Has({t}, x))
             + Count(dp.tasks, {t}) + Count(dp.worker, {Handling(t)})
             + Has(dp.freed, t) + Has(dp.dropped, t)
      BY <1>1, <2>6 DEF Owners
    <2>8. Has(dp.pushed, t)' = Has(dp.pushed, t)
      BY <1>1
    <2> QED
      BY <2>1, <2>2, <2>3, <2>4, <2>7, <2>8 DEF Owners, Numbers
  <1> QED
    BY <1>1, <1>2, <1>3 DEF DPInv

\* The event fires: the argument leaves the event base for the task queue.
LEMMA DPOnTimer ==
    ASSUME DPInv, NEW u \in PushTimers, OnTimer(u) \/ IocpOnTimer(u)
    PROVE  DPInv'
  <1>0. DPTyped /\ DPRecord
    BY DEF DPInv, DPTyped
  <1>1. /\ DPRecord'
        /\ dp'.pushQueue = dp.pushQueue
        /\ dp'.armed = dp.armed \ {u}
        /\ dp'.tasks = Append(dp.tasks, u)
        /\ dp'.worker = dp.worker
        /\ dp'.freed = dp.freed
        /\ dp'.dropped = dp.dropped
        /\ dp'.pushed = dp.pushed
        /\ dp'.phase = dp.phase
        /\ u \in dp.armed
    BY <1>0 DEF DPRecord, OnTimer, IocpOnTimer
  <1>2. DPTyped'
    BY <1>0, <1>1, AppendProperties DEF DPTyped
  <1>3. ASSUME NEW t \in PushTimers
        PROVE  (Owners(t) = Has(dp.pushed, t))'
    <2>1. Owners(t) = Has(dp.pushed, t)
      BY DEF DPInv
    <2>2. Numbers(t)
      BY <1>0, OwnersType
    <2>3. Count(dp'.tasks, {t}) = Count(dp.tasks, {t}) + Has({t}, u)
      BY <1>0, <1>1, CountAppend DEF DPTyped
    <2>4. Has(dp'.armed, t) = Has(dp.armed, t) - Has({t}, u) /\ Has({t}, u) \in {0, 1}
      BY <1>1 DEF Has
    <2>5. Owners(t)' = Count(dp.pushQueue, {t}) + (Has(dp.armed, t) - Has({t}, u))
             + (Count(dp.tasks, {t}) + Has({t}, u)) + Count(dp.worker, {Handling(t)})
             + Has(dp.freed, t) + Has(dp.dropped, t)
      BY <1>1, <2>3, <2>4 DEF Owners
    <2>6. Has(dp.pushed, t)' = Has(dp.pushed, t)
      BY <1>1
    <2> QED
      BY <2>1, <2>2, <2>4, <2>5, <2>6 DEF Owners, Numbers
  <1> QED
    BY <1>1, <1>2, <1>3 DEF DPInv

\* A worker takes the task.
LEMMA DPTakeTask ==
    ASSUME DPInv, NEW w \in PushWorkers, TakeTask(w)
    PROVE  DPInv'
  <1>0. DPTyped /\ DPRecord
    BY DEF DPInv, DPTyped
  <1>1. /\ DPRecord'
        /\ dp'.pushQueue = dp.pushQueue
        /\ dp'.armed = dp.armed
        /\ dp'.tasks = Tail(dp.tasks)
        /\ dp'.worker = [dp.worker EXCEPT ![w] = Handling(Head(dp.tasks))]
        /\ dp'.freed = dp.freed
        /\ dp'.dropped = dp.dropped
        /\ dp'.pushed = dp.pushed
        /\ dp'.phase = dp.phase
        /\ dp.tasks # <<>> /\ dp.worker[w] = Idle
    BY <1>0 DEF DPRecord, TakeTask, Handling
  <1>2. DPTyped'
    <2>1. Head(dp.tasks) \in PushTimers /\ Tail(dp.tasks) \in Seq(PushTimers)
      BY <1>0, <1>1, HeadTailProperties DEF DPTyped
    <2>2. Handling(Head(dp.tasks)) \in WorkerStates
      BY <2>1 DEF Handling, WorkerStates
    <2> QED
      BY <1>0, <1>1, <2>1, <2>2 DEF DPTyped
  <1>3. ASSUME NEW t \in PushTimers
        PROVE  (Owners(t) = Has(dp.pushed, t))'
    <2>1. Owners(t) = Has(dp.pushed, t)
      BY DEF DPInv
    <2>2. Numbers(t)
      BY <1>0, OwnersType
    <2> DEFINE x == Head(dp.tasks)
    <2>3. Count(dp.tasks, {t}) = Has({t}, x) + Count(dp'.tasks, {t})
      BY <1>0, <1>1, CountTail DEF DPTyped
    <2>4. Count(dp'.worker, {Handling(t)}) = Count(dp.worker, {Handling(t)})
             - Has({Handling(t)}, dp.worker[w]) + Has({Handling(t)}, Handling(x))
      BY <1>0, <1>1, CountExcept, DispatcherAssumption DEF DPTyped
    <2>5. /\ Has({Handling(t)}, dp.worker[w]) = 0
          /\ Has({Handling(t)}, Handling(x)) = Has({t}, x)
          /\ Has({t}, x) \in {0, 1}
      BY <1>1 DEF Has, Handling, Idle
    <2>6. Count(dp'.tasks, {t}) \in Nat
      BY <1>2, CountSeqType DEF DPTyped
    <2>7. Owners(t)' = Count(dp.pushQueue, {t}) + Has(dp.armed, t) + Count(dp'.tasks, {t})
             + (Count(dp.worker, {Handling(t)}) - 0 + Has({t}, x))
             + Has(dp.freed, t) + Has(dp.dropped, t)
      BY <1>1, <2>4, <2>5 DEF Owners
    <2>8. Has(dp.pushed, t)' = Has(dp.pushed, t)
      BY <1>1
    <2> QED
      BY <2>1, <2>2, <2>3, <2>5, <2>6, <2>7, <2>8 DEF Owners, Numbers
  <1> QED
    BY <1>1, <1>2, <1>3 DEF DPInv

\* A worker whose handler has returned no longer holds the argument.
LEMMA DPLetGo ==
    ASSUME DPInv, NEW w \in PushWorkers, dp.worker[w].step = "handle", NEW t
    PROVE  /\ dp.worker[w].timer \in PushTimers
           /\ Count([dp.worker EXCEPT ![w].step = "respond"], {Handling(t)})
                = Count(dp.worker, {Handling(t)}) - Has({t}, dp.worker[w].timer)
           /\ [dp.worker EXCEPT ![w].step = "respond"] \in [PushWorkers -> WorkerStates]
  <1> DEFINE u == dp.worker[w].timer
             v == [step |-> "respond", timer |-> u]
  <1>0. /\ dp.worker \in [PushWorkers -> WorkerStates] /\ dp.worker[w] \in WorkerStates
        /\ DOMAIN dp.worker = PushWorkers /\ IsFiniteSet(PushWorkers)
    BY DispatcherAssumption DEF DPInv, DPTyped
  <1>1. u \in PushTimers /\ dp.worker[w] = Handling(u)
    BY <1>0 DEF WorkerStates, Handling, Idle
  <1>2. v \in WorkerStates
    BY <1>1 DEF WorkerStates
  <1>3. [dp.worker EXCEPT ![w].step = "respond"] = [dp.worker EXCEPT ![w] = v]
    BY <1>1 DEF Handling
  <1>4. Count([dp.worker EXCEPT ![w] = v], {Handling(t)})
          = Count(dp.worker, {Handling(t)}) - Has({Handling(t)}, dp.worker[w])
            + Has({Handling(t)}, v)
    BY <1>0, CountExcept
  <1>5. /\ Has({Handling(t)}, dp.worker[w]) = Has({t}, u) /\ Has({t}, u) \in {0, 1}
        /\ Has({Handling(t)}, v) = 0
    BY <1>1 DEF Has, Handling
  <1>6. Count(dp.worker, {Handling(t)}) \in Nat
    BY <1>0, CountFunType
  <1> QED
    BY <1>0, <1>1, <1>2, <1>3, <1>4, <1>5, <1>6

\* handle() has returned 0: the argument goes back to the push queue.
LEMMA DPBack ==
    ASSUME DPInv, NEW w \in PushWorkers, dp.worker[w].step = "handle",
           dp' = [dp EXCEPT !.worker[w].step = "respond",
                            !.pushQueue = Append(@, dp.worker[w].timer)]
    PROVE  DPInv'
  <1>0. DPTyped /\ DPRecord
    BY DEF DPInv, DPTyped
  <1>1. /\ DPRecord'
        /\ dp'.pushQueue = Append(dp.pushQueue, dp.worker[w].timer)
        /\ dp'.armed = dp.armed
        /\ dp'.tasks = dp.tasks
        /\ dp'.worker = [dp.worker EXCEPT ![w].step = "respond"]
        /\ dp'.freed = dp.freed
        /\ dp'.dropped = dp.dropped
        /\ dp'.pushed = dp.pushed
        /\ dp'.phase = dp.phase
    BY <1>0 DEF DPRecord
  <1>2. DPTyped'
    <2>1. dp.worker[w].timer \in PushTimers \cup PushFds
      BY DPLetGo
    <2>2. dp'.pushQueue \in Seq(PushTimers \cup PushFds)
      BY <1>0, <1>1, <2>1, AppendProperties DEF DPTyped
    <2> QED
      BY <1>0, <1>1, <2>2, DPLetGo DEF DPTyped
  <1>3. ASSUME NEW t \in PushTimers
        PROVE  (Owners(t) = Has(dp.pushed, t))'
    <2>1. Owners(t) = Has(dp.pushed, t)
      BY DEF DPInv
    <2>2. Numbers(t)
      BY <1>0, OwnersType
    <2> DEFINE u == dp.worker[w].timer
    <2>3. Count(dp'.pushQueue, {t}) = Count(dp.pushQueue, {t}) + Has({t}, u)
      <3>1. u \in PushTimers \cup PushFds
        BY DPLetGo
      <3> QED
        BY <1>0, <1>1, <3>1, CountAppend DEF DPTyped
    <2>4. Count(dp'.worker, {Handling(t)}) = Count(dp.worker, {Handling(t)}) - Has({t}, u)
      BY <1>1, DPLetGo
    <2>5. Has({t}, u) \in {0, 1}
      BY DEF Has
    <2>6. Owners(t)' = (Count(dp.pushQueue, {t}) + Has({t}, u)) + Has(dp.armed, t)
             + Count(dp.tasks, {t}) + (Count(dp.worker, {Handling(t)}) - Has({t}, u))
             + Has(dp.freed, t) + Has(dp.dropped, t)
      BY <1>1, <2>3, <2>4 DEF Owners
    <2>7. Has(dp.pushed, t)' = Has(dp.pushed, t)
      BY <1>1
    <2> QED
      BY <2>1, <2>2, <2>5, <2>6, <2>7 DEF Owners, Numbers
  <1> QED
    BY <1>1, <1>2, <1>3 DEF DPInv

\* handle() has returned something else: the argument is freed, once.
LEMMA DPFreed ==
    ASSUME DPInv, NEW w \in PushWorkers, dp.worker[w].step = "handle",
           dp' = [dp EXCEPT !.worker[w].step = "respond",
                            !.freed = @ \cup {dp.worker[w].timer}]
    PROVE  DPInv'
  <1>0. DPTyped /\ DPRecord
    BY DEF DPInv, DPTyped
  <1>1. /\ DPRecord'
        /\ dp'.pushQueue = dp.pushQueue
        /\ dp'.armed = dp.armed
        /\ dp'.tasks = dp.tasks
        /\ dp'.worker = [dp.worker EXCEPT ![w].step = "respond"]
        /\ dp'.freed = dp.freed \cup {dp.worker[w].timer}
        /\ dp'.dropped = dp.dropped
        /\ dp'.pushed = dp.pushed
        /\ dp'.phase = dp.phase
    BY <1>0 DEF DPRecord
  <1>2. DPTyped'
    BY <1>0, <1>1, DPLetGo DEF DPTyped
  <1>3. ASSUME NEW t \in PushTimers
        PROVE  (Owners(t) = Has(dp.pushed, t))'
    <2>1. Owners(t) = Has(dp.pushed, t)
      BY DEF DPInv
    <2>2. Numbers(t)
      BY <1>0, OwnersType
    <2> DEFINE u == dp.worker[w].timer
    <2>3. Count(dp'.worker, {Handling(t)}) = Count(dp.worker, {Handling(t)}) - Has({t}, u)
      BY <1>1, DPLetGo
    <2>4. Has({t}, u) \in {0, 1} /\ Count(dp'.worker, {Handling(t)}) \in Nat
      BY <1>2, CountFunType, DispatcherAssumption DEF Has, DPTyped
    <2>5. Has({t}, u) = 1 => Has(dp.freed, t) = 0
      BY <2>1, <2>2, <2>3, <2>4 DEF Owners, Numbers
    <2>6. Has(dp'.freed, t) = Has(dp.freed, t) + Has({t}, u)
      BY <1>1, <2>5 DEF Has
    <2>7. Owners(t)' = Count(dp.pushQueue, {t}) + Has(dp.armed, t)
             + Count(dp.tasks, {t}) + (Count(dp.worker, {Handling(t)}) - Has({t}, u))
             + (Has(dp.freed, t) + Has({t}, u)) + Has(dp.dropped, t)
      BY <1>1, <2>3, <2>6 DEF Owners
    <2>8. Has(dp.pushed, t)' = Has(dp.pushed, t)
      BY <1>1
    <2> QED
      BY <2>1, <2>2, <2>4, <2>7, <2>8 DEF Owners, Numbers
  <1> QED
    BY <1>1, <1>2, <1>3 DEF DPInv

\* The worker is idle again.
LEMMA DPRespond ==
    ASSUME DPInv, NEW w \in PushWorkers, TimerRespond(w)
    PROVE  DPInv'
  <1>0. DPTyped /\ DPRecord
    BY DEF DPInv, DPTyped
  <1>1. /\ DPRecord'
        /\ dp'.pushQueue = dp.pushQueue
        /\ dp'.armed = dp.armed
        /\ dp'.tasks = dp.tasks
        /\ dp'.worker = [dp.worker EXCEPT ![w] = Idle]
        /\ dp'.freed = dp.freed
        /\ dp'.dropped = dp.dropped
        /\ dp'.pushed = dp.pushed
        /\ dp'.phase = dp.phase
        /\ dp.worker[w].step = "respond"
    BY <1>0 DEF DPRecord, TimerRespond
  <1>2. DPTyped'
    BY <1>0, <1>1 DEF DPTyped, WorkerStates
  <1>3. ASSUME NEW t \in PushTimers
        PROVE  (Owners(t) = Has(dp.pushed, t))'
    <2>1. Owners(t) = Has(dp.pushed, t)
      BY DEF DPInv
    <2>2. Numbers(t)
      BY <1>0, OwnersType
    <2>3. Count(dp'.worker, {Handling(t)}) = Count(dp.worker, {Handling(t)})
             - Has({Handling(t)}, dp.worker[w]) + Has({Handling(t)}, Idle)
      BY <1>0, <1>1, CountExcept, DispatcherAssumption DEF DPTyped
    <2>4. Has({Handling(t)}, dp.worker[w]) = 0 /\ Has({Handling(t)}, Idle) = 0
      BY <1>1 DEF Has, Handling, Idle
    <2>5. Owners(t)' = Count(dp.pushQueue, {t}) + Has(dp.armed, t)
             + Count(dp.tasks, {t}) + (Count(dp.worker, {Handling(t)}) - 0 + 0)
             + Has(dp.freed, t) + Has(dp.dropped, t)
      BY <1>1, <2>3, <2>4 DEF Owners
    <2>6. Has(dp.pushed, t)' = Has(dp.pushed, t)
      BY <1>1
    <2> QED
      BY <2>1, <2>2, <2>5, <2>6 DEF Owners, Numbers
  <1> QED
    BY <1>1, <1>2, <1>3 DEF DPInv

\* The loop ends: what is left of the tasks is dropped, each once.
LEMMA DPLoopEnds ==
    ASSUME DPInv, LoopEnds
    PROVE  DPInv'
  <1>0. DPTyped /\ DPRecord
    BY DEF DPInv, DPTyped
  <1>1. /\ DPRecord'
        /\ dp'.pushQueue = dp.pushQueue
        /\ dp'.armed = dp.armed
        /\ dp'.tasks = <<>>
        /\ dp'.worker = dp.worker
        /\ dp'.freed = dp.freed
        /\ dp'.dropped = ToSet(dp.tasks)
        /\ dp'.pushed = dp.pushed
        /\ dp'.phase = "ended"
        /\ dp.phase = "up"
    BY <1>0 DEF DPRecord, LoopEnds, Up
  <1>2. DPTyped'
    BY <1>0, <1>1, EmptySeq DEF DPTyped
  <1>3. ASSUME NEW t \in PushTimers
        PROVE  (Owners(t) = Has(dp.pushed, t))'
    <2>1. Owners(t) = Has(dp.pushed, t)
      BY DEF DPInv
    <2>2. Numbers(t)
      BY <1>0, OwnersType
    <2>3. Has(dp.dropped, t) = 0
      BY <1>1 DEF DPInv, Has
    <2>4. Count(dp.tasks, {t}) \in {0, 1}
      BY <2>1, <2>2 DEF Owners, Numbers
    <2>5. IsFiniteSet(Places(dp.tasks, {t}))
      BY <1>0, CountSeqType DEF DPTyped
    <2>6. Count(dp.tasks, {t}) = 0 <=> t \notin ToSet(dp.tasks)
      BY <2>5, CountZero DEF ToSet
    <2>7. Has(dp'.dropped, t) = Count(dp.tasks, {t})
      BY <1>1, <2>4, <2>6 DEF Has
    <2>8. Owners(t)' = Count(dp.pushQueue, {t}) + Has(dp.armed, t) + 0
             + Count(dp.worker, {Handling(t)}) + Has(dp.freed, t) + Count(dp.tasks, {t})
      BY <1>1, <2>7, CountEmpty DEF Owners
    <2>9. Has(dp.pushed, t)' = Has(dp.pushed, t)
      BY <1>1
    <2> QED
      BY <2>1, <2>2, <2>3, <2>8, <2>9 DEF Owners, Numbers
  <1> QED
    BY <1>1, <1>2, <1>3 DEF DPInv

\* Every step keeps the invariant.
LEMMA DPInvNext == DPInv /\ [DispatcherNext]_dpVars => DPInv'
  <1> SUFFICES ASSUME DPInv, [DispatcherNext]_dpVars
               PROVE  DPInv'
    OBVIOUS
  <1>0. DPRecord
    BY DEF DPInv, DPTyped
  <1>1. ASSUME NEW x \in PushTimers \cup PushFds,
               PushFd(x) \/ IocpPushFd(x) \/ PushTimer(x) \/ IocpPushTimer(x)
        PROVE  DPInv'
    BY <1>1, DPPush DEF PushFd, IocpPushFd, PushTimer, IocpPushTimer
  <1>2. CASE OnPush \/ IocpOnPush
    <2>1. dp.pushQueue # <<>>
      BY <1>2 DEF OnPush, IocpOnPush
    <2>2. CASE dp' \in {NewSession(Taken, Head(dp.pushQueue)),
                        [Taken EXCEPT !.keys = @ + 1, !.lost = @ \cup {Head(dp.pushQueue)}]}
               /\ Head(dp.pushQueue) \in PushFds
      <3>1. /\ DPRecord' /\ dp'.pushQueue = Tail(dp.pushQueue) /\ dp'.armed = dp.armed
            /\ dp'.tasks = dp.tasks /\ dp'.worker = dp.worker /\ dp'.freed = dp.freed
            /\ dp'.dropped = dp.dropped /\ dp'.pushed = dp.pushed /\ dp'.phase = dp.phase
        BY <1>0, <2>2 DEF DPRecord, NewSession, Taken
      <3> QED
        BY <2>1, <2>2, <3>1, DPTaken
    <2>3. CASE dp' = [Taken EXCEPT !.armed = @ \cup {Head(dp.pushQueue)}]
               /\ Head(dp.pushQueue) \in PushTimers
      <3>1. /\ DPRecord' /\ dp'.pushQueue = Tail(dp.pushQueue)
            /\ dp'.armed = dp.armed \cup {Head(dp.pushQueue)}
            /\ dp'.tasks = dp.tasks /\ dp'.worker = dp.worker /\ dp'.freed = dp.freed
            /\ dp'.dropped = dp.dropped /\ dp'.pushed = dp.pushed /\ dp'.phase = dp.phase
        BY <1>0, <2>3 DEF DPRecord, Taken
      <3> QED
        BY <2>1, <2>3, <3>1, DPTaken
    <2> QED
      BY <1>2, <2>2, <2>3 DEF OnPush, IocpOnPush
  <1>3. ASSUME NEW t \in PushTimers, OnTimer(t) \/ IocpOnTimer(t)
        PROVE  DPInv'
    BY <1>3, DPOnTimer
  <1>4. ASSUME NEW w \in PushWorkers, TakeTask(w) \/ Timer(w) \/ IocpTimer(w) \/ TimerRespond(w)
        PROVE  DPInv'
    <2>1. CASE TakeTask(w) \/ TimerRespond(w)
      BY <2>1, DPTakeTask, DPRespond
    <2>2. CASE HandedBack(w)
      BY <2>2, DPBack, DPFreed DEF HandedBack
    <2> QED
      BY <1>4, <2>1, <2>2 DEF Timer, IocpTimer
  <1>5. CASE LoopEnds
    BY <1>5, DPLoopEnds
  <1>6. CASE Destroyed \/ UNCHANGED dpVars
    <2>1. /\ DPRecord' /\ dp'.pushQueue = dp.pushQueue /\ dp'.armed = dp.armed
          /\ dp'.tasks = dp.tasks /\ dp'.worker = dp.worker /\ dp'.freed = dp.freed
          /\ dp'.dropped = dp.dropped /\ dp'.pushed = dp.pushed
          /\ dp'.phase = dp.phase \/ dp'.phase # "up"
      BY <1>0, <1>6 DEF DPRecord, Destroyed, dpVars
    <2>2. DPTyped'
      BY <2>1 DEF DPInv, DPTyped
    <2>3. \A t \in PushTimers : (Owners(t) = Has(dp.pushed, t))'
      BY <2>1 DEF DPInv, Owners
    <2> QED
      BY <2>1, <2>2, <2>3 DEF DPInv
  <1> QED
    BY <1>1, <1>2, <1>3, <1>4, <1>5, <1>6 DEF DispatcherNext

\* For any number of timers and workers: a timer argument that was pushed is in
\* one place only (push queue, event base, task queue, a worker's hands, freed,
\* or dropped with the loop), so it is never freed twice nor lost.
THEOREM TimerOwned == DispatcherSpec => []TimerHasOneOwner
  BY DPInvInit, DPInvNext, DPInvProperty, PTL DEF DispatcherSpec

-----------------------------------------------------------------------------
(* ThreadPool: a bounded pool that runs each job once and is destroyed quietly *)

\* Where a thread, a client and the destructor can be
ThreadPlaces ==
    {"unborn", "top", "run", "lockOwn", "save", "park", "waiting", "woken", "exit", "gone"}
ClientPlaces == {"out", "enter", "idleWait", "signal"}
DtorPlaces ==
    {"none", "fullWait", "fullWoken", "signal", "emptyWait", "emptyWoken", "done"}

\* What the proof needs to know of the types
PoolTyped ==
    /\ mThreadList \in Seq(Threads)
    /\ mTotal \in Nat
    /\ poolShutdown \in BOOLEAN
    /\ thread \in [Threads -> [pc : ThreadPlaces, job : Nat]]
    /\ client \in [Dispatchers -> [pc : ClientPlaces, job : Nat, t : Threads \cup {0}]]
    /\ poolDtor \in [pc : DtorPlaces, i : Nat]
    /\ calls \in Nat /\ calls <= MaxJobs
    /\ ran \in [Jobs -> Nat]

\* The threads that mTotal counts
Alive == {t \in Threads : thread[t].pc \notin {"unborn", "gone"}}

\* A thread is in mThreadList.
Listed(t) == \E i \in DOMAIN mThreadList : mThreadList[i] = t

\* Where a thread of mThreadList is: it sleeps, or the destructor has woken it.
ListedAt ==
    IF poolShutdown THEN {"park", "waiting", "woken", "top", "exit", "gone"}
    ELSE {"park", "waiting"}

\* The list: each thread once, asleep unless the pool shuts down; a thread that
\* sleeps outside the list has a client that is about to signal it; from the
\* wake-up of the destructor on, all living threads are in the list.
ListOK ==
    /\ \A i, j \in DOMAIN mThreadList : mThreadList[i] = mThreadList[j] => i = j
    /\ \A t \in Threads : Listed(t) => thread[t].pc \in ListedAt
    /\ \A t \in Threads : thread[t].pc \in {"park", "waiting"} =>
          Listed(t) \/ \E c \in Dispatchers : client[c].pc = "signal" /\ client[c].t = t
    /\ poolDtor.pc = "fullWoken" \/ poolShutdown => \A t \in Alive : Listed(t)

\* A client in the second half of dispatch has mMainMutex and a sleeping thread
\* of its own, which has the client's job.
SignalOK(c) ==
    client[c].pc = "signal" =>
        /\ main = {c}
        /\ client[c].t \in Threads /\ ~Listed(client[c].t)
        /\ thread[client[c].t].pc \in {"park", "waiting"}
        /\ thread[client[c].t].job = client[c].job

\* The destructor: nobody is in dispatch, the flag is set from its second phase
\* on, and from its wake-up on the last wait no thread is left.
DtorOK ==
    /\ poolDtor.pc # "none" => \A c \in Dispatchers : client[c].pc = "out"
    /\ poolShutdown <=> poolDtor.pc \in {"signal", "emptyWait", "emptyWoken", "done"}
    /\ poolDtor.pc \in {"emptyWoken", "done"} => mTotal = 0
    /\ poolDtor.pc = "signal" => main = {"dtor"}

\* The client still has its job to hand over; the thread still has to run its
\* job, which one that is woken by the destructor does not.
Pending(c, j) == client[c].pc # "out" /\ client[c].job = j
Owes(t, j) == ~poolShutdown /\ thread[t].pc \in {"woken", "top", "run"} /\ thread[t].job = j

\* A job that was dispatched has been run, once, or is in exactly one hand.
JobOK(j) ==
    /\ ran[j] \in {0, 1}
    /\ j > calls => ran[j] = 0
    /\ \A c \in Dispatchers : Pending(c, j) => j <= calls /\ ran[j] = 0
    /\ \A t \in Threads : Owes(t, j) => j <= calls /\ ran[j] = 0
    /\ \A c, d \in Dispatchers : Pending(c, j) /\ Pending(d, j) => c = d
    /\ \A t, u \in Threads : Owes(t, j) /\ Owes(u, j) => t = u
    /\ \A c \in Dispatchers, t \in Threads : ~(Pending(c, j) /\ Owes(t, j))
    /\ j <= calls /\ ran[j] = 0 =>
          \/ \E c \in Dispatchers : Pending(c, j)
          \/ \E t \in Threads : Owes(t, j)

\* A job in a hand is one that was dispatched.
HandsOK ==
    /\ \A c \in Dispatchers : client[c].pc # "out" => client[c].job \in Jobs
    /\ \A t \in Threads : ~poolShutdown /\ thread[t].pc \in {"woken", "top", "run"} =>
          thread[t].job \in Jobs

\* The inductive invariant
PoolInv ==
    /\ PoolTyped
    /\ mTotal = Cardinality(Alive) /\ mTotal <= MaxThreads
    /\ ListOK
    /\ \A c \in Dispatchers : SignalOK(c)
    /\ DtorOK
    /\ HandsOK
    /\ \A j \in Jobs : JobOK(j)

\* Before the first call there are no threads and no jobs.
LEMMA PoolInvInit == PoolInit => PoolInv
<1> SUFFICES ASSUME PoolInit PROVE PoolInv
    OBVIOUS
<1>1. PoolTyped
  <2>1. mThreadList \in Seq(Threads)
      BY EmptySeq DEF PoolInit
  <2>6. mTotal \in Nat /\ poolShutdown \in BOOLEAN
      BY DEF PoolInit
  <2>2. thread \in [Threads -> [pc : ThreadPlaces, job : Nat]]
      BY DEF PoolInit, ThreadPlaces
  <2>3. client \in [Dispatchers -> [pc : ClientPlaces, job : Nat, t : Threads \cup {0}]]
      BY DEF PoolInit, ClientPlaces
  <2>4. poolDtor \in [pc : DtorPlaces, i : Nat]
      BY DEF PoolInit, DtorPlaces
  <2>5. calls \in Nat /\ calls <= MaxJobs /\ ran \in [Jobs -> Nat]
      BY PoolAssumption DEF PoolInit
  <2> QED
      BY <2>1, <2>2, <2>3, <2>4, <2>5, <2>6 DEF PoolTyped
<1>2. Alive = {}
    BY DEF PoolInit, Alive
<1>3. mTotal = Cardinality(Alive) /\ mTotal <= MaxThreads
    BY <1>2, FS_EmptySet, PoolAssumption DEF PoolInit
<1>4. ListOK
    BY <1>2 DEF PoolInit, ListOK, Listed
<1>5. /\ \A c \in Dispatchers : SignalOK(c)
      /\ DtorOK /\ HandsOK
    BY DEF PoolInit, SignalOK, DtorOK, HandsOK
<1>6. ASSUME NEW j \in Jobs PROVE JobOK(j)
    BY <1>6, PoolAssumption DEF PoolInit, JobOK, Pending, Owes, Jobs
<1> QED
    BY <1>1, <1>3, <1>4, <1>5, <1>6 DEF PoolInv

\* A step that leaves a job's hands and its count alone leaves it accounted for.
LEMMA JobKept ==
    ASSUME NEW j \in Jobs, JobOK(j), calls' = calls, ran'[j] = ran[j],
           \A c \in Dispatchers : Pending(c, j)' <=> Pending(c, j),
           \A t \in Threads : Owes(t, j)' <=> Owes(t, j)
    PROVE  JobOK(j)'
  BY DEF JobOK

\* A client hands its job to a thread; both may have another job in mind.
LEMMA JobHanded ==
    ASSUME NEW j \in Jobs, JobOK(j), calls' = calls, ran'[j] = ran[j],
           NEW c \in Dispatchers, NEW t \in Threads, ~Owes(t, j), ~Pending(c, j)',
           Owes(t, j)' <=> Pending(c, j),
           \A d \in Dispatchers : d # c => (Pending(d, j)' <=> Pending(d, j)),
           \A u \in Threads : u # t => (Owes(u, j)' <=> Owes(u, j))
    PROVE  JobOK(j)'
<1>1. CASE Pending(c, j)
    BY <1>1 DEF JobOK
<1>2. CASE ~Pending(c, j)
    BY <1>2 DEF JobOK
<1> QED
    BY <1>1, <1>2

\* The threads outside mThreadList and the list when neither changes
LEMMA ListedKept ==
    ASSUME mThreadList' = mThreadList, NEW t
    PROVE  Listed(t)' <=> Listed(t)
  BY DEF Listed

\* A living thread goes on, and nothing else changes: it does not fall asleep, is
\* woken only when no client is about to signal it, and owes its job as before.
LEMMA ThreadMoves ==
    ASSUME PoolInv, NEW t \in Threads, NEW q \in ThreadPlaces,
           thread[t].pc \notin {"unborn", "gone"}, q \notin {"unborn", "gone"},
           thread' = [thread EXCEPT ![t].pc = q],
           Listed(t) => q \in ListedAt,
           q \in {"park", "waiting"} => thread[t].pc \in {"park", "waiting"},
           \/ thread[t].pc \notin {"park", "waiting"} \/ q \in {"park", "waiting"}
           \/ \A c \in Dispatchers : client[c].pc # "signal",
           ~poolShutdown => (thread[t].pc \in {"woken", "top", "run"}
                                <=> q \in {"woken", "top", "run"}),
           UNCHANGED <<mThreadList, mTotal, poolShutdown, main, client, calls, ran>>,
           poolDtor' \in [pc : DtorPlaces, i : Nat], poolDtor'.pc = poolDtor.pc
    PROVE  PoolInv'
<1>1. /\ thread' \in [Threads -> [pc : ThreadPlaces, job : Nat]]
      /\ \A u \in Threads : u # t => thread'[u] = thread[u]
      /\ thread'[t].pc = q /\ thread'[t].job = thread[t].job
    BY DEF PoolInv, PoolTyped
<1>2. PoolTyped'
    BY <1>1 DEF PoolInv, PoolTyped
<1>3. Alive' = Alive
    BY <1>1 DEF Alive
<1>4. \A u \in Threads : Listed(u)' <=> Listed(u)
    BY ListedKept
<1>5. ListOK'
  <2>1. \A i, j \in DOMAIN mThreadList' : mThreadList'[i] = mThreadList'[j] => i = j
      BY DEF PoolInv, ListOK
  <2>2. ASSUME NEW u \in Threads, Listed(u)' PROVE thread'[u].pc \in ListedAt'
      BY <2>2, <1>1, <1>4 DEF PoolInv, ListOK, ListedAt
  <2>3. ASSUME NEW u \in Threads, thread'[u].pc \in {"park", "waiting"}
        PROVE  Listed(u)' \/ \E c \in Dispatchers : client'[c].pc = "signal" /\ client'[c].t = u
      BY <2>3, <1>1, <1>4 DEF PoolInv, ListOK
  <2>4. poolDtor'.pc = "fullWoken" \/ poolShutdown' => \A u \in Alive' : Listed(u)'
    <3>1. \A u \in Alive : u \in Threads
        BY DEF Alive
    <3> QED
        BY <1>3, <1>4, <3>1 DEF PoolInv, ListOK
  <2> QED
      BY <2>1, <2>2, <2>3, <2>4 DEF ListOK
<1>6. ASSUME NEW c \in Dispatchers PROVE SignalOK(c)'
    BY <1>1, <1>4, <1>6 DEF PoolInv, SignalOK
<1>7. DtorOK' /\ HandsOK'
    BY <1>1 DEF PoolInv, DtorOK, HandsOK
<1>8. ASSUME NEW j \in Jobs PROVE JobOK(j)'
  <2>1. \A c \in Dispatchers : Pending(c, j)' <=> Pending(c, j)
      BY DEF Pending
  <2>2. \A u \in Threads : Owes(u, j)' <=> Owes(u, j)
      BY <1>1 DEF Owes
  <2> QED
      BY <1>8, <2>1, <2>2, JobKept DEF PoolInv
<1> QED
    BY <1>2, <1>3, <1>5, <1>6, <1>7, <1>8 DEF PoolInv

\* A list that names living threads, each once, is no longer than their number,
\* and names all of them when it is as long.
LEMMA ListCounts ==
    ASSUME NEW A, IsFiniteSet(A), NEW q, NEW n \in Nat, DOMAIN q = 1 .. n,
           \A i \in 1 .. n : q[i] \in A,
           \A i, j \in 1 .. n : q[i] = q[j] => i = j
    PROVE  /\ n <= Cardinality(A)
           /\ n >= Cardinality(A) => \A a \in A : \E i \in 1 .. n : q[i] = a
<1> DEFINE R == {q[i] : i \in 1 .. n}
           f == [i \in 1 .. n |-> q[i]]
<1>1. f \in Bijection(1 .. n, R)
    BY DEF Bijection, Injection, Surjection, IsInjective
<1>2. IsFiniteSet(R) /\ Cardinality(R) = n
    BY <1>1, FS_CountingElements, FS_NatBijection DEF ExistsBijection
<1>3. R \subseteq A
    OBVIOUS
<1>4. Cardinality(A) \in Nat
    BY FS_CardinalityType
<1>5. Cardinality(R) <= Cardinality(A) /\ (Cardinality(R) = Cardinality(A) => R = A)
    BY <1>3, FS_Subset
<1>6. (\A a \in A : \E i \in 1 .. n : q[i] = a) \/ R # A
    OBVIOUS
<1> HIDE DEF R
<1> QED
    BY <1>2, <1>4, <1>5, <1>6

\* There are finitely many living threads.
LEMMA AliveFinite == IsFiniteSet(Alive) /\ Cardinality(Alive) \in Nat
<1>1. Alive \subseteq Threads
    BY DEF Alive
<1> QED
    BY <1>1, PoolAssumption, FS_Subset, FS_CardinalityType

\* The length of the list and its places
LEMMA ListPlaces ==
    ASSUME PoolTyped
    PROVE  mIndex \in Nat /\ DOMAIN mThreadList = 1 .. mIndex
  BY LenProperties DEF PoolTyped, mIndex

\* Without a client about to signal, or while mMainMutex is free
LEMMA NobodySignals ==
    ASSUME PoolInv, main = {}, NEW c \in Dispatchers
    PROVE  client[c].pc # "signal"
  BY DEF PoolInv, SignalOK

\* A thread that runs, or locks its mutex to park, is not listed; such a thread
\* exists only before the destructor's first wait is over.
LEMMA BusyThread ==
    ASSUME PoolInv, NEW t \in Threads, thread[t].pc \in {"run", "lockOwn", "save"}
    PROVE  t \in Alive /\ ~Listed(t) /\ ~poolShutdown /\ poolDtor.pc # "fullWoken"
<1>1. t \in Alive
    BY DEF Alive
<1>2. ~Listed(t)
    BY DEF PoolInv, ListOK, ListedAt
<1> QED
    BY <1>1, <1>2 DEF PoolInv, ListOK

\* As long as the pool is not shut down, all the threads of the list are alive.
LEMMA ListedAlive ==
    ASSUME PoolInv, ~poolShutdown, NEW i \in DOMAIN mThreadList
    PROVE  mThreadList[i] \in Alive
<1>1. mThreadList[i] \in Threads
    BY LenProperties, ElementOfSeq DEF PoolInv, PoolTyped
<1>2. Listed(mThreadList[i])
    BY DEF Listed
<1> QED
    BY <1>1, <1>2 DEF PoolInv, ListOK, ListedAt, Alive

\* saveThread never finds the list full.
LEMMA RoomToPark ==
    ASSUME PoolInv, NEW t \in Threads, thread[t].pc = "save"
    PROVE  mIndex < mTotal /\ mTotal <= MaxThreads
<1>1. t \in Alive /\ ~Listed(t) /\ ~poolShutdown
    BY BusyThread
<1>2. mIndex \in Nat /\ DOMAIN mThreadList = 1 .. mIndex
    BY ListPlaces DEF PoolInv
<1>3. IsFiniteSet(Alive) /\ Cardinality(Alive) \in Nat
    BY AliveFinite
<1>4. \A i \in 1 .. mIndex : mThreadList[i] \in Alive
    BY <1>1, <1>2, ListedAlive
<1>5. \A i, j \in 1 .. mIndex : mThreadList[i] = mThreadList[j] => i = j
    BY <1>2 DEF PoolInv, ListOK
<1>6. /\ mIndex <= Cardinality(Alive)
      /\ mIndex >= Cardinality(Alive) =>
            \A a \in Alive : \E i \in 1 .. mIndex : mThreadList[i] = a
    BY <1>2, <1>3, <1>4, <1>5, ListCounts
<1>7. mIndex < Cardinality(Alive)
    BY <1>1, <1>2, <1>3, <1>6 DEF Listed
<1> QED
    BY <1>7 DEF PoolInv

\* When the list is as long as mTotal says, all the living threads are in it.
LEMMA FullList ==
    ASSUME PoolInv, ~poolShutdown, mIndex >= mTotal
    PROVE  \A t \in Alive : Listed(t)
<1>2. mIndex \in Nat /\ DOMAIN mThreadList = 1 .. mIndex
    BY ListPlaces DEF PoolInv
<1>3. IsFiniteSet(Alive) /\ Cardinality(Alive) \in Nat
    BY AliveFinite
<1>4. \A i \in 1 .. mIndex : mThreadList[i] \in Alive
    BY <1>2, ListedAlive
<1>5. \A i, j \in 1 .. mIndex : mThreadList[i] = mThreadList[j] => i = j
    BY <1>2 DEF PoolInv, ListOK
<1>6. mIndex >= Cardinality(Alive) =>
          \A a \in Alive : \E i \in 1 .. mIndex : mThreadList[i] = a
    BY <1>2, <1>3, <1>4, <1>5, ListCounts
<1> QED
    BY <1>2, <1>6 DEF PoolInv, Listed

\* The lemmas below take the steps of PoolNext one by one.  dispatch is called:
\* the client has a job that nobody had.
LEMMA PoolCall ==
    ASSUME PoolInv, NEW c \in Dispatchers, Call(c)
    PROVE  PoolInv'
<1> USE DEF PoolInv
<1>1. /\ UNCHANGED <<mThreadList, mTotal, poolShutdown, main, thread, poolDtor, ran>>
      /\ client[c].pc = "out" /\ calls < MaxJobs /\ poolDtor.pc = "none" /\ calls' = calls + 1
    BY DEF Call
<1>2. /\ client' \in [Dispatchers -> [pc : ClientPlaces, job : Nat, t : Threads \cup {0}]]
      /\ \A d \in Dispatchers : d # c => client'[d] = client[d]
      /\ client'[c].pc = "enter" /\ client'[c].job = calls + 1
  <2>1. client[c].t \in Threads \cup {0} /\ calls + 1 \in Nat
      BY DEF PoolTyped
  <2> PICK n \in Nat : n = calls + 1
      BY <2>1
  <2>2. DOMAIN client' = Dispatchers /\ \A d \in Dispatchers : d # c => client'[d] = client[d]
      BY DEF Call, PoolTyped
  <2>3. client'[c] = [client[c] EXCEPT !.pc = "enter", !.job = n]
      BY DEF Call, PoolTyped
  <2>4. client'[c] = [pc |-> "enter", job |-> n, t |-> client[c].t]
    <3>1. client[c] \in [pc : ClientPlaces, job : Nat, t : Threads \cup {0}]
        BY DEF PoolTyped
    <3> HIDE DEF PoolInv
    <3> QED
        BY <2>3, <3>1
  <2>5. client' = [d \in Dispatchers |-> client'[d]]
      BY <2>2 DEF Call, PoolTyped
  <2>6. client'[c] \in [pc : ClientPlaces, job : Nat, t : Threads \cup {0}]
      BY <2>1, <2>4 DEF ClientPlaces
  <2>7. client' \in [Dispatchers -> [pc : ClientPlaces, job : Nat, t : Threads \cup {0}]]
      BY <2>2, <2>5, <2>6 DEF PoolTyped
  <2> QED
      BY <2>2, <2>4, <2>7
<1>3. PoolTyped'
    BY <1>1, <1>2, PoolAssumption DEF PoolTyped
<1>4. Alive' = Alive /\ \A u \in Threads : Listed(u)' <=> Listed(u)
    BY <1>1, ListedKept DEF Alive
<1>5. ListOK'
  <2>1. ASSUME NEW u \in Threads, thread'[u].pc \in {"park", "waiting"}
        PROVE  Listed(u)' \/ \E d \in Dispatchers : client'[d].pc = "signal" /\ client'[d].t = u
      BY <1>1, <1>2, <1>4, <2>1 DEF ListOK
  <2> QED
      BY <1>1, <1>4, <2>1 DEF ListOK, ListedAt, Alive
<1>6. ASSUME NEW d \in Dispatchers PROVE SignalOK(d)'
    BY <1>1, <1>2, <1>4, <1>6 DEF SignalOK
<1>7. DtorOK'
    BY <1>1, <1>2 DEF DtorOK
<1>8. calls + 1 \in Jobs
    BY <1>1, PoolAssumption DEF PoolTyped, Jobs
<1>9. HandsOK'
    BY <1>1, <1>2, <1>8 DEF HandsOK
<1>10. ASSUME NEW j \in Jobs PROVE JobOK(j)'
  <2>1. j \in Nat /\ calls \in Nat
      BY PoolAssumption DEF PoolTyped, Jobs
  <2>2. \A u \in Threads : Owes(u, j)' <=> Owes(u, j)
      BY <1>1 DEF Owes
  <2>3. \A d \in Dispatchers : d # c => (Pending(d, j)' <=> Pending(d, j))
      BY <1>2 DEF Pending
  <2>4. ~Pending(c, j) /\ (Pending(c, j)' <=> j = calls + 1)
      BY <1>1, <1>2 DEF Pending
  <2>5. JobOK(j)
      BY <1>10
  <2>6. CASE j = calls + 1
      BY <1>1, <2>1, <2>2, <2>3, <2>4, <2>5, <2>6 DEF JobOK
  <2>7. CASE j # calls + 1
      BY <1>1, <2>1, <2>2, <2>3, <2>4, <2>5, <2>7 DEF JobOK
  <2> QED
      BY <2>6, <2>7
<1> QED
    BY <1>1, <1>3, <1>4, <1>5, <1>6, <1>7, <1>9, <1>10

\* Clients go to sleep on mIdleCond or are woken; they keep their jobs.
ClientsWait ==
    /\ client' \in [Dispatchers -> [pc : ClientPlaces, job : Nat, t : Threads \cup {0}]]
    /\ \A d \in Dispatchers :
          /\ client'[d].job = client[d].job /\ client'[d].t = client[d].t
          /\ client'[d].pc = client[d].pc
             \/ (client[d].pc \in {"enter", "idleWait"} /\ client'[d].pc \in {"enter", "idleWait"})

\* A client waits for an idle thread.
LEMMA PoolWait ==
    ASSUME PoolInv, NEW c \in Dispatchers, DispatchWait(c)
    PROVE  PoolInv'
<1> USE DEF PoolInv
<1>1. UNCHANGED <<mThreadList, mTotal, poolShutdown, main, thread, poolDtor, calls, ran>>
    BY DEF DispatchWait
<1>2. ClientsWait
    BY DEF DispatchWait, PoolTyped, ClientPlaces, ClientsWait
<1>3. PoolTyped'
    BY <1>1, <1>2 DEF PoolTyped, ClientsWait
<1>4. Alive' = Alive /\ \A u \in Threads : Listed(u)' <=> Listed(u)
    BY <1>1, ListedKept DEF Alive
<1>5. ListOK'
  <2>1. ASSUME NEW u \in Threads, thread'[u].pc \in {"park", "waiting"}
        PROVE  Listed(u)' \/ \E d \in Dispatchers : client'[d].pc = "signal" /\ client'[d].t = u
      BY <1>1, <1>2, <1>4, <2>1 DEF ListOK, ClientsWait
  <2> QED
      BY <1>1, <1>4, <2>1 DEF ListOK, ListedAt, Alive
<1>6. ASSUME NEW d \in Dispatchers PROVE SignalOK(d)'
    BY <1>1, <1>2, <1>4, <1>6 DEF SignalOK, ClientsWait
<1>7. DtorOK' /\ HandsOK'
    BY <1>1, <1>2 DEF DtorOK, HandsOK, ClientsWait
<1>8. ASSUME NEW j \in Jobs PROVE JobOK(j)'
  <2>1. \A u \in Threads : Owes(u, j)' <=> Owes(u, j)
      BY <1>1 DEF Owes
  <2>2. \A d \in Dispatchers : Pending(d, j)' <=> Pending(d, j)
      BY <1>2 DEF Pending, ClientsWait
  <2> QED
      BY <1>1, <1>8, <2>1, <2>2, JobKept
<1> QED
    BY <1>1, <1>3, <1>4, <1>5, <1>6, <1>7, <1>8

\* A client makes a thread, which gets the job.
LEMMA PoolCreate ==
    ASSUME PoolInv, NEW c \in Dispatchers, DispatchCreate(c)
    PROVE  PoolInv'
<1> USE DEF PoolInv
<1>1. /\ UNCHANGED <<mThreadList, poolShutdown, main, poolDtor, calls, ran>>
      /\ client[c].pc = "enter" /\ main = {} /\ mTotal' = mTotal + 1
      /\ ~MustWait /\ mIndex <= 0
    BY DEF DispatchCreate
<1>2. PICK t \in Threads : /\ thread[t].pc = "unborn"
                           /\ thread' = [thread EXCEPT ![t] = [pc |-> "top", job |-> client[c].job]]
  <2>1. (CHOOSE u \in Unborn : TRUE) \in Unborn
      BY DEF DispatchCreate
  <2> QED
      BY <2>1 DEF DispatchCreate, Unborn
<1>3. /\ client' \in [Dispatchers -> [pc : ClientPlaces, job : Nat, t : Threads \cup {0}]]
      /\ \A d \in Dispatchers : d # c => client'[d] = client[d]
      /\ client'[c].pc = "out"
    BY DEF DispatchCreate, PoolTyped, ClientPlaces
<1>4. /\ thread' \in [Threads -> [pc : ThreadPlaces, job : Nat]]
      /\ \A u \in Threads : u # t => thread'[u] = thread[u]
      /\ thread'[t].pc = "top" /\ thread'[t].job = client[c].job
    BY <1>2 DEF PoolTyped, ThreadPlaces
<1>5. PoolTyped'
    BY <1>1, <1>3, <1>4 DEF PoolTyped
<1>6. mTotal' = Cardinality(Alive') /\ mTotal' <= MaxThreads
  <2>1. t \notin Alive /\ Alive' = Alive \cup {t}
      BY <1>2, <1>4 DEF Alive
  <2>2. Cardinality(Alive') = Cardinality(Alive) + 1
      BY <2>1, AliveFinite, FS_AddElement
  <2>3. mIndex \in Nat
      BY ListPlaces
  <2>4. mTotal < MaxThreads
      BY <1>1, <2>3, PoolAssumption DEF MustWait, PoolTyped
  <2> QED
      BY <1>1, <2>2, <2>4, PoolAssumption DEF PoolTyped
<1>7. \A u \in Threads : Listed(u)' <=> Listed(u)
    BY <1>1, ListedKept
<1>8. ~poolShutdown /\ poolDtor.pc = "none"
    BY <1>1 DEF DtorOK
<1>9. ListOK'
  <2>1. ASSUME NEW u \in Threads, Listed(u)' PROVE thread'[u].pc \in ListedAt'
      BY <1>1, <1>2, <1>4, <1>7, <1>8, <2>1 DEF ListOK, ListedAt
  <2>2. ASSUME NEW u \in Threads, thread'[u].pc \in {"park", "waiting"}
        PROVE  Listed(u)' \/ \E d \in Dispatchers : client'[d].pc = "signal" /\ client'[d].t = u
      BY <1>1, <1>4, <1>7, <2>2, NobodySignals DEF ListOK
  <2> QED
      BY <1>1, <1>8, <2>1, <2>2 DEF ListOK
<1>10. ASSUME NEW d \in Dispatchers PROVE SignalOK(d)'
    BY <1>1, <1>3, <1>10, NobodySignals DEF SignalOK
<1>11. DtorOK'
    BY <1>1, <1>8 DEF DtorOK
<1>12. HandsOK'
    BY <1>1, <1>3, <1>4 DEF HandsOK
<1>13. ASSUME NEW j \in Jobs PROVE JobOK(j)'
  <2>1. ~Owes(t, j) /\ ~Pending(c, j)' /\ (Owes(t, j)' <=> Pending(c, j))
      BY <1>1, <1>2, <1>3, <1>4, <1>8 DEF Owes, Pending
  <2>2. \A d \in Dispatchers : d # c => (Pending(d, j)' <=> Pending(d, j))
      BY <1>3 DEF Pending
  <2>3. \A u \in Threads : u # t => (Owes(u, j)' <=> Owes(u, j))
      BY <1>1, <1>4 DEF Owes
  <2> QED
      BY <1>1, <1>13, <2>1, <2>2, <2>3, JobHanded
<1> QED
    BY <1>5, <1>6, <1>9, <1>10, <1>11, <1>12, <1>13

\* No thread can be made: the job is run by the caller.
LEMMA PoolFails ==
    ASSUME PoolInv, NEW c \in Dispatchers, DispatchFails(c)
    PROVE  PoolInv'
<1> USE DEF PoolInv
<1>1. /\ UNCHANGED <<mThreadList, mTotal, poolShutdown, main, thread, poolDtor, calls>>
      /\ client[c].pc = "enter" /\ main = {}
    BY DEF DispatchFails
<1>2. /\ client' \in [Dispatchers -> [pc : ClientPlaces, job : Nat, t : Threads \cup {0}]]
      /\ \A d \in Dispatchers : d # c => client'[d] = client[d]
      /\ client'[c].pc = "out"
    BY DEF DispatchFails, PoolTyped, ClientPlaces
<1>3. client[c].job \in Jobs
    BY <1>1 DEF HandsOK
<1>4. /\ ran' \in [Jobs -> Nat] /\ ran'[client[c].job] = ran[client[c].job] + 1
      /\ \A j \in Jobs : j # client[c].job => ran'[j] = ran[j]
    BY <1>3 DEF DispatchFails, PoolTyped
<1>5. PoolTyped'
    BY <1>1, <1>2, <1>4 DEF PoolTyped
<1>6. Alive' = Alive /\ \A u \in Threads : Listed(u)' <=> Listed(u)
    BY <1>1, ListedKept DEF Alive
<1>7. ListOK'
  <2>1. ASSUME NEW u \in Threads, thread'[u].pc \in {"park", "waiting"}
        PROVE  Listed(u)' \/ \E d \in Dispatchers : client'[d].pc = "signal" /\ client'[d].t = u
      BY <1>1, <1>6, <2>1, NobodySignals DEF ListOK
  <2> QED
      BY <1>1, <1>6, <2>1 DEF ListOK, ListedAt, Alive
<1>8. ASSUME NEW d \in Dispatchers PROVE SignalOK(d)'
    BY <1>1, <1>2, <1>8, NobodySignals DEF SignalOK
<1>9. DtorOK' /\ HandsOK'
    BY <1>1, <1>2 DEF DtorOK, HandsOK
<1>10. ASSUME NEW j \in Jobs PROVE JobOK(j)'
  <2>1. \A u \in Threads : Owes(u, j)' <=> Owes(u, j)
      BY <1>1 DEF Owes
  <2>2. \A d \in Dispatchers : d # c => (Pending(d, j)' <=> Pending(d, j))
      BY <1>2 DEF Pending
  <2>3. ~Pending(c, j)' /\ (Pending(c, j) <=> j = client[c].job)
      BY <1>1, <1>2 DEF Pending
  <2>4. JobOK(j)
      BY <1>10
  <2>5. CASE j = client[c].job
    <3>1. ran[j] = 0 /\ j <= calls /\ ran'[j] = 1
        BY <1>4, <2>3, <2>4, <2>5 DEF JobOK
    <3>2. ~(\E d \in Dispatchers : d # c /\ Pending(d, j)) /\ ~(\E u \in Threads : Owes(u, j))
        BY <2>3, <2>4, <2>5 DEF JobOK
    <3>3. j \in Nat /\ calls \in Nat
        BY PoolAssumption DEF PoolTyped, Jobs
    <3> QED
        BY <1>1, <2>1, <2>2, <2>3, <3>1, <3>2, <3>3 DEF JobOK
  <2>6. CASE j # client[c].job
      BY <1>1, <1>4, <2>1, <2>2, <2>3, <2>4, <2>6, JobKept
  <2> QED
      BY <2>5, <2>6
<1> QED
    BY <1>1, <1>5, <1>6, <1>7, <1>8, <1>9, <1>10

\* The list without its last thread: still each thread once
LEMMA UnparkedList ==
    ASSUME PoolInv, mIndex > 0
    PROVE  /\ Unparked \in Seq(Threads) /\ mThreadList[mIndex] \in Threads
           /\ Listed(mThreadList[mIndex])
           /\ DOMAIN Unparked = 1 .. (mIndex - 1)
           /\ \A i \in 1 .. (mIndex - 1) : Unparked[i] = mThreadList[i]
           /\ \A i \in 1 .. (mIndex - 1) : mThreadList[i] # mThreadList[mIndex]
<1>1. mThreadList \in Seq(Threads) /\ mIndex \in Nat /\ DOMAIN mThreadList = 1 .. mIndex
    BY ListPlaces DEF PoolInv, PoolTyped
<1>2. mIndex \in 1 .. mIndex /\ mIndex = Len(mThreadList)
    BY <1>1 DEF mIndex
<1>3. mThreadList[mIndex] \in Threads
    BY <1>1, <1>2, ElementOfSeq
<1>4. /\ Unparked \in Seq(Threads) /\ Len(Unparked) = mIndex - 1
      /\ \A i \in 1 .. (mIndex - 1) : Unparked[i] = mThreadList[i]
    BY <1>1, <1>2, SubSeqProperties DEF Unparked
<1>5. DOMAIN Unparked = 1 .. (mIndex - 1)
    BY <1>4, LenProperties
<1>6. \A i \in 1 .. (mIndex - 1) : mThreadList[i] # mThreadList[mIndex]
    BY <1>1, <1>2 DEF PoolInv, ListOK
<1>7. Listed(mThreadList[mIndex])
    BY <1>1, <1>2 DEF Listed
<1> QED
    BY <1>3, <1>4, <1>5, <1>6, <1>7

\* The client takes the thread that was parked last and gives it the job.
LEMMA PoolReuse ==
    ASSUME PoolInv, NEW c \in Dispatchers, DispatchReuse(c)
    PROVE  PoolInv'
<1> USE DEF PoolInv
<1>1. /\ UNCHANGED <<mTotal, poolShutdown, poolDtor, calls, ran>>
      /\ client[c].pc = "enter" /\ main = {} /\ mIndex > 0
      /\ mThreadList' = Unparked /\ main' = {c}
    BY DEF DispatchReuse
<1>2. PICK t : t = mThreadList[mIndex]
    OBVIOUS
<1>3. /\ t \in Threads /\ Listed(t)
      /\ Unparked \in Seq(Threads)
      /\ DOMAIN Unparked = 1 .. (mIndex - 1)
      /\ \A i \in 1 .. (mIndex - 1) : Unparked[i] = mThreadList[i]
      /\ \A i \in 1 .. (mIndex - 1) : mThreadList[i] # t
    BY <1>1, <1>2, UnparkedList
<1>4. mIndex \in Nat /\ DOMAIN mThreadList = 1 .. mIndex
    BY ListPlaces
<1>5. ~poolShutdown /\ poolDtor.pc = "none"
    BY <1>1 DEF DtorOK
<1>6. thread[t].pc \in {"park", "waiting"}
    BY <1>3, <1>5 DEF ListOK, ListedAt
<1>7. /\ thread' \in [Threads -> [pc : ThreadPlaces, job : Nat]]
      /\ \A u \in Threads : u # t => thread'[u] = thread[u]
      /\ thread'[t].pc = thread[t].pc /\ thread'[t].job = client[c].job
    BY <1>2, <1>3 DEF DispatchReuse, PoolTyped
<1>8. /\ client' \in [Dispatchers -> [pc : ClientPlaces, job : Nat, t : Threads \cup {0}]]
      /\ \A d \in Dispatchers : d # c => client'[d] = client[d]
      /\ client'[c].pc = "signal" /\ client'[c].job = client[c].job /\ client'[c].t = t
  <2>1. client[c].job \in Nat
      BY DEF PoolTyped
  <2>2. DOMAIN client' = Dispatchers /\ \A d \in Dispatchers : d # c => client'[d] = client[d]
      BY DEF DispatchReuse, PoolTyped
  <2>3. client'[c] = [client[c] EXCEPT !.pc = "signal", !.t = t]
      BY <1>2 DEF DispatchReuse, PoolTyped
  <2>4. client'[c] = [pc |-> "signal", job |-> client[c].job, t |-> t]
      BY <2>3 DEF PoolTyped
  <2>5. client' = [d \in Dispatchers |-> client'[d]]
      BY <2>2 DEF DispatchReuse, PoolTyped
  <2>6. client'[c] \in [pc : ClientPlaces, job : Nat, t : Threads \cup {0}]
      BY <1>3, <2>1, <2>4 DEF ClientPlaces
  <2>7. client' \in [Dispatchers -> [pc : ClientPlaces, job : Nat, t : Threads \cup {0}]]
      BY <2>2, <2>5, <2>6 DEF PoolTyped
  <2> QED
      BY <2>2, <2>4, <2>7
<1>9. PoolTyped'
    BY <1>1, <1>3, <1>7, <1>8 DEF PoolTyped
<1>10. Alive' = Alive
    BY <1>7 DEF Alive
<1>11. \A u \in Threads : Listed(u)' <=> Listed(u) /\ u # t
  <2>1. ASSUME NEW u \in Threads, Listed(u)' PROVE Listed(u) /\ u # t
      BY <1>1, <1>3, <1>4, <2>1 DEF Listed
  <2>2. ASSUME NEW u \in Threads, Listed(u), u # t PROVE Listed(u)'
    <3>1. PICK i \in 1 .. mIndex : mThreadList[i] = u
        BY <1>4, <2>2 DEF Listed
    <3>2. i \in 1 .. (mIndex - 1)
        BY <1>2, <1>4, <2>2, <3>1
    <3> QED
        BY <1>1, <1>3, <3>1, <3>2 DEF Listed
  <2> QED
      BY <2>1, <2>2
<1>12. ListOK'
  <2>1. \A i, j \in DOMAIN mThreadList' : mThreadList'[i] = mThreadList'[j] => i = j
      BY <1>1, <1>3, <1>4 DEF ListOK
  <2>2. ASSUME NEW u \in Threads, Listed(u)' PROVE thread'[u].pc \in ListedAt'
      BY <1>1, <1>7, <1>11, <2>2 DEF ListOK, ListedAt
  <2>3. ASSUME NEW u \in Threads, thread'[u].pc \in {"park", "waiting"}
        PROVE  Listed(u)' \/ \E d \in Dispatchers : client'[d].pc = "signal" /\ client'[d].t = u
    <3>1. CASE u = t
        BY <1>8, <3>1
    <3>2. CASE u # t
        BY <1>1, <1>7, <1>11, <2>3, <3>2, NobodySignals DEF ListOK
    <3> QED
        BY <3>1, <3>2
  <2> QED
      BY <1>1, <1>5, <2>1, <2>2, <2>3 DEF ListOK
<1>13. ASSUME NEW d \in Dispatchers PROVE SignalOK(d)'
    BY <1>1, <1>3, <1>6, <1>7, <1>8, <1>11, <1>13, NobodySignals DEF SignalOK
<1>14. DtorOK'
    BY <1>1, <1>5 DEF DtorOK
<1>15. HandsOK'
    BY <1>1, <1>6, <1>7, <1>8 DEF HandsOK
<1>16. ASSUME NEW j \in Jobs PROVE JobOK(j)'
  <2>1. \A d \in Dispatchers : Pending(d, j)' <=> Pending(d, j)
      BY <1>1, <1>8 DEF Pending
  <2>2. \A u \in Threads : Owes(u, j)' <=> Owes(u, j)
      BY <1>1, <1>6, <1>7 DEF Owes
  <2> QED
      BY <1>1, <1>16, <2>1, <2>2, JobKept
<1> QED
    BY <1>1, <1>9, <1>10, <1>12, <1>13, <1>14, <1>15, <1>16

\* The client signals its thread, which now owes the job.
LEMMA PoolSignal ==
    ASSUME PoolInv, NEW c \in Dispatchers, DispatchSignal(c)
    PROVE  PoolInv'
<1> USE DEF PoolInv
<1>1. /\ UNCHANGED <<mThreadList, mTotal, poolShutdown, poolDtor, calls, ran>>
      /\ client[c].pc = "signal" /\ main' = {}
    BY DEF DispatchSignal
<1>2. PICK t : t = client[c].t
    OBVIOUS
<1>3. /\ main = {c} /\ t \in Threads /\ ~Listed(t)
      /\ thread[t].pc \in {"park", "waiting"} /\ thread[t].job = client[c].job
    BY <1>1, <1>2 DEF SignalOK
<1>4. thread[t].pc = "waiting"
    BY <1>2, <1>3 DEF DispatchSignal, OwnLocked
<1>5. /\ thread' \in [Threads -> [pc : ThreadPlaces, job : Nat]]
      /\ \A u \in Threads : u # t => thread'[u] = thread[u]
      /\ thread'[t].pc = "woken" /\ thread'[t].job = client[c].job
    BY <1>2, <1>3, <1>4 DEF DispatchSignal, Signalled, PoolTyped, ThreadPlaces
<1>6. /\ client' \in [Dispatchers -> [pc : ClientPlaces, job : Nat, t : Threads \cup {0}]]
      /\ \A d \in Dispatchers : d # c => client'[d] = client[d]
      /\ client'[c].pc = "out"
  <2>1. client[c].job \in Nat
      BY DEF PoolTyped
  <2>2. DOMAIN client' = Dispatchers /\ \A d \in Dispatchers : d # c => client'[d] = client[d]
      BY DEF DispatchSignal, PoolTyped
  <2>3. client'[c] = [client[c] EXCEPT !.pc = "out", !.t = 0]
      BY DEF DispatchSignal, PoolTyped
  <2>4. client'[c] = [pc |-> "out", job |-> client[c].job, t |-> 0]
      BY <2>3 DEF PoolTyped
  <2>5. client' = [d \in Dispatchers |-> client'[d]]
      BY <2>2 DEF DispatchSignal, PoolTyped
  <2>6. client'[c] \in [pc : ClientPlaces, job : Nat, t : Threads \cup {0}]
      BY <2>1, <2>4 DEF ClientPlaces
  <2>7. client' \in [Dispatchers -> [pc : ClientPlaces, job : Nat, t : Threads \cup {0}]]
      BY <2>2, <2>5, <2>6 DEF PoolTyped
  <2> QED
      BY <2>2, <2>4, <2>7
<1>7. PoolTyped'
    BY <1>1, <1>5, <1>6 DEF PoolTyped
<1>8. Alive' = Alive /\ \A u \in Threads : Listed(u)' <=> Listed(u)
    BY <1>1, <1>4, <1>5, ListedKept DEF Alive
<1>9. ~poolShutdown /\ poolDtor.pc = "none"
    BY <1>1 DEF DtorOK
<1>10. \A d \in Dispatchers : d # c => client[d].pc # "signal"
    BY <1>3 DEF SignalOK
<1>11. ListOK'
  <2>1. ASSUME NEW u \in Threads, Listed(u)' PROVE thread'[u].pc \in ListedAt'
      BY <1>1, <1>3, <1>5, <1>8, <2>1 DEF ListOK, ListedAt
  <2>2. ASSUME NEW u \in Threads, thread'[u].pc \in {"park", "waiting"}
        PROVE  Listed(u)' \/ \E d \in Dispatchers : client'[d].pc = "signal" /\ client'[d].t = u
      BY <1>2, <1>5, <1>8, <1>10, <2>2 DEF ListOK
  <2> QED
      BY <1>1, <1>9, <2>1, <2>2 DEF ListOK
<1>12. ASSUME NEW d \in Dispatchers PROVE SignalOK(d)'
    BY <1>6, <1>10, <1>12 DEF SignalOK
<1>13. DtorOK'
    BY <1>1, <1>9 DEF DtorOK
<1>14. HandsOK'
    BY <1>1, <1>5, <1>6 DEF HandsOK
<1>15. ASSUME NEW j \in Jobs PROVE JobOK(j)'
  <2>1. ~Owes(t, j) /\ ~Pending(c, j)' /\ (Owes(t, j)' <=> Pending(c, j))
      BY <1>1, <1>4, <1>5, <1>6, <1>9 DEF Owes, Pending
  <2>2. \A d \in Dispatchers : d # c => (Pending(d, j)' <=> Pending(d, j))
      BY <1>6 DEF Pending
  <2>3. \A u \in Threads : u # t => (Owes(u, j)' <=> Owes(u, j))
      BY <1>1, <1>5 DEF Owes
  <2> QED
      BY <1>1, <1>3, <1>15, <2>1, <2>2, <2>3, JobHanded
<1> QED
    BY <1>1, <1>7, <1>8, <1>11, <1>12, <1>13, <1>14, <1>15

\* The steps of a thread that change nothing but where it is
LEMMA PoolThreadGoes ==
    ASSUME PoolInv, NEW t \in Threads, Top(t) \/ LockOwn(t) \/ CondWait(t) \/ Wake(t)
    PROVE  PoolInv'
<1>1. /\ UNCHANGED <<mThreadList, mTotal, poolShutdown, main, client, calls, ran>>
      /\ poolDtor' \in [pc : DtorPlaces, i : Nat] /\ poolDtor'.pc = poolDtor.pc
    BY DEF Top, LockOwn, CondWait, Wake, PoolInv, PoolTyped
<1>2. CASE Top(t)
  <2>1. PICK q : q = IF poolShutdown THEN "exit" ELSE "run"
      OBVIOUS
  <2>2. thread[t].pc = "top" /\ thread' = [thread EXCEPT ![t].pc = q]
      BY <1>2, <2>1 DEF Top
  <2>3. Listed(t) => poolShutdown
      BY <2>2 DEF PoolInv, ListOK, ListedAt
  <2> QED
      BY <1>1, <2>1, <2>2, <2>3, ThreadMoves DEF ThreadPlaces, ListedAt
<1>3. CASE LockOwn(t)
  <2>1. thread[t].pc = "lockOwn" /\ thread' = [thread EXCEPT ![t].pc = "save"]
      BY <1>3 DEF LockOwn
  <2>2. ~Listed(t)
      BY <2>1, BusyThread
  <2> QED
      BY <1>1, <2>1, <2>2, ThreadMoves DEF ThreadPlaces
<1>4. CASE CondWait(t)
  <2>1. thread[t].pc = "park" /\ thread' = [thread EXCEPT ![t].pc = "waiting"]
      BY <1>4 DEF CondWait
  <2> QED
      BY <1>1, <2>1, ThreadMoves DEF ThreadPlaces, ListedAt
<1>5. CASE Wake(t)
  <2>1. thread[t].pc = "woken" /\ thread' = [thread EXCEPT ![t].pc = "top"]
      BY <1>5 DEF Wake
  <2>2. Listed(t) => poolShutdown
      BY <2>1 DEF PoolInv, ListOK, ListedAt
  <2> QED
      BY <1>1, <2>1, <2>2, ThreadMoves DEF ThreadPlaces, ListedAt
<1> QED
    BY <1>2, <1>3, <1>4, <1>5

\* A thread runs the job it owes.
LEMMA PoolRun ==
    ASSUME PoolInv, NEW t \in Threads, RunJob(t)
    PROVE  PoolInv'
<1> USE DEF PoolInv
<1>1. /\ UNCHANGED <<mThreadList, mTotal, poolShutdown, main, client, poolDtor, calls>>
      /\ thread[t].pc = "run"
    BY DEF RunJob
<1>2. ~Listed(t) /\ ~poolShutdown /\ poolDtor.pc # "fullWoken"
    BY <1>1, BusyThread
<1>3. /\ thread' \in [Threads -> [pc : ThreadPlaces, job : Nat]]
      /\ \A u \in Threads : u # t => thread'[u] = thread[u]
      /\ thread'[t].pc = "lockOwn"
    BY <1>2 DEF RunJob, PoolTyped, ThreadPlaces
<1>4. thread[t].job \in Jobs
    BY <1>1, <1>2 DEF HandsOK
<1>5. /\ ran' \in [Jobs -> Nat] /\ ran'[thread[t].job] = ran[thread[t].job] + 1
      /\ \A j \in Jobs : j # thread[t].job => ran'[j] = ran[j]
    BY <1>4 DEF RunJob, PoolTyped
<1>6. PoolTyped'
    BY <1>1, <1>3, <1>5 DEF PoolTyped
<1>7. Alive' = Alive /\ \A u \in Threads : Listed(u)' <=> Listed(u)
    BY <1>1, <1>3, ListedKept DEF Alive
<1>8. ListOK'
  <2>1. ASSUME NEW u \in Threads, Listed(u)' PROVE thread'[u].pc \in ListedAt'
      BY <1>1, <1>2, <1>3, <1>7, <2>1 DEF ListOK, ListedAt
  <2>2. ASSUME NEW u \in Threads, thread'[u].pc \in {"park", "waiting"}
        PROVE  Listed(u)' \/ \E d \in Dispatchers : client'[d].pc = "signal" /\ client'[d].t = u
      BY <1>1, <1>3, <1>7, <2>2 DEF ListOK
  <2> QED
      BY <1>1, <1>2, <2>1, <2>2 DEF ListOK
<1>9. ASSUME NEW d \in Dispatchers PROVE SignalOK(d)'
    BY <1>1, <1>3, <1>7, <1>9 DEF SignalOK
<1>10. DtorOK' /\ HandsOK'
    BY <1>1, <1>3 DEF DtorOK, HandsOK
<1>11. ASSUME NEW j \in Jobs PROVE JobOK(j)'
  <2>1. \A u \in Threads : u # t => (Owes(u, j)' <=> Owes(u, j))
      BY <1>1, <1>3 DEF Owes
  <2>2. \A d \in Dispatchers : Pending(d, j)' <=> Pending(d, j)
      BY <1>1 DEF Pending
  <2>3. ~Owes(t, j)' /\ (Owes(t, j) <=> j = thread[t].job)
      BY <1>1, <1>2, <1>3 DEF Owes
  <2>4. JobOK(j)
      BY <1>11
  <2>5. CASE j = thread[t].job
    <3>1. ran[j] = 0 /\ j <= calls /\ ran'[j] = 1
        BY <1>5, <2>3, <2>4, <2>5 DEF JobOK
    <3>2. ~(\E u \in Threads : u # t /\ Owes(u, j)) /\ ~(\E d \in Dispatchers : Pending(d, j))
        BY <2>3, <2>4, <2>5 DEF JobOK
    <3>3. j \in Nat /\ calls \in Nat
        BY PoolAssumption DEF PoolTyped, Jobs
    <3> QED
        BY <1>1, <2>1, <2>2, <2>3, <3>1, <3>2, <3>3 DEF JobOK
  <2>6. CASE j # thread[t].job
      BY <1>1, <1>5, <2>1, <2>2, <2>3, <2>4, <2>6, JobKept
  <2> QED
      BY <2>5, <2>6
<1> QED
    BY <1>1, <1>6, <1>7, <1>8, <1>9, <1>10, <1>11

\* A thread parks: the list has it once more than it has the others, that is
\* once, and the destructor is woken when nobody is missing.
LEMMA PoolSave ==
    ASSUME PoolInv, NEW t \in Threads, SaveThread(t)
    PROVE  PoolInv'
<1> USE DEF PoolInv
<1>1. /\ UNCHANGED <<mTotal, poolShutdown, main, calls, ran>>
      /\ thread[t].pc = "save" /\ main = {} /\ mThreadList' = Append(mThreadList, t)
    BY DEF SaveThread
<1>2. t \in Alive /\ ~Listed(t) /\ ~poolShutdown /\ poolDtor.pc # "fullWoken"
    BY <1>1, BusyThread
<1>3. /\ thread' \in [Threads -> [pc : ThreadPlaces, job : Nat]]
      /\ \A u \in Threads : u # t => thread'[u] = thread[u]
      /\ thread'[t].pc = "park"
    BY DEF SaveThread, PoolTyped, ThreadPlaces
<1>4. ClientsWait
  <2>1. CASE client' = client
      BY <2>1 DEF PoolTyped, ClientsWait
  <2>2. ASSUME NEW c \in IdleWaiters, client' = [client EXCEPT ![c].pc = "enter"]
        PROVE  ClientsWait
      BY <2>2 DEF IdleWaiters, PoolTyped, ClientPlaces, ClientsWait
  <2> QED
      BY <2>1, <2>2 DEF SaveThread, SignalIdle
<1>5. mIndex \in Nat /\ DOMAIN mThreadList = 1 .. mIndex
    BY ListPlaces
<1>6. /\ mThreadList' \in Seq(Threads) /\ DOMAIN mThreadList' = 1 .. (mIndex + 1)
      /\ \A i \in 1 .. mIndex : mThreadList'[i] = mThreadList[i]
      /\ mThreadList'[mIndex + 1] = t
  <2>1. mThreadList \in Seq(Threads) /\ mIndex = Len(mThreadList)
      BY DEF PoolTyped, mIndex
  <2>2. /\ Append(mThreadList, t) \in Seq(Threads) /\ Len(Append(mThreadList, t)) = mIndex + 1
        /\ \A i \in 1 .. mIndex : Append(mThreadList, t)[i] = mThreadList[i]
        /\ Append(mThreadList, t)[mIndex + 1] = t
      BY <2>1, AppendProperties
  <2>3. DOMAIN Append(mThreadList, t) = 1 .. (mIndex + 1)
      BY <2>2, LenProperties
  <2> QED
      BY <1>1, <2>2, <2>3
<1>7. \A u \in Threads : Listed(u)' <=> Listed(u) \/ u = t
  <2>1. ASSUME NEW u \in Threads, Listed(u)' PROVE Listed(u) \/ u = t
    <3>1. PICK i \in 1 .. (mIndex + 1) : mThreadList'[i] = u
        BY <1>6, <2>1 DEF Listed
    <3>2. i \in 1 .. mIndex \/ i = mIndex + 1
        BY <1>5
    <3> QED
        BY <1>5, <1>6, <3>1, <3>2 DEF Listed
  <2>2. ASSUME NEW u \in Threads, Listed(u) PROVE Listed(u)'
    <3>1. PICK i \in 1 .. mIndex : mThreadList[i] = u
        BY <1>5, <2>2 DEF Listed
    <3>2. i \in 1 .. (mIndex + 1)
        BY <1>5
    <3> QED
        BY <1>6, <3>1, <3>2 DEF Listed
  <2>3. mIndex + 1 \in 1 .. (mIndex + 1)
      BY <1>5
  <2>4. Listed(t)'
      BY <1>6, <2>3 DEF Listed
  <2> QED
      BY <2>1, <2>2, <2>4
<1>8. Alive' = Alive
    BY <1>1, <1>3 DEF Alive
<1>9. \A i, j \in DOMAIN mThreadList' : mThreadList'[i] = mThreadList'[j] => i = j
  <2>1. \A i \in 1 .. mIndex : mThreadList[i] # t
      BY <1>2, <1>5 DEF Listed
  <2>2. \A i \in 1 .. (mIndex + 1) : i \in 1 .. mIndex \/ i = mIndex + 1
      BY <1>5
  <2> QED
      BY <1>5, <1>6, <2>1, <2>2 DEF ListOK
<1>10. /\ poolDtor' \in [pc : DtorPlaces, i : Nat]
       /\ \/ poolDtor'.pc = poolDtor.pc
          \/ /\ poolDtor.pc = "fullWait" /\ poolDtor'.pc = "fullWoken"
             /\ mIndex + 1 >= mTotal
  <2>1. CASE poolDtor' = poolDtor
      BY <2>1 DEF PoolTyped
  <2>2. CASE /\ poolDtor.pc = "fullWait" /\ mIndex + 1 >= mTotal
             /\ poolDtor' = [poolDtor EXCEPT !.pc = "fullWoken"]
      BY <2>2 DEF PoolTyped, DtorPlaces
  <2> QED
      BY <2>1, <2>2 DEF SaveThread
<1>11. poolDtor'.pc = "fullWoken" => \A u \in Alive' : Listed(u)'
  <2>1. SUFFICES ASSUME mIndex + 1 >= mTotal PROVE \A u \in Alive' : Listed(u)'
      BY <1>2, <1>10
  <2>2. IsFiniteSet(Alive) /\ Cardinality(Alive) \in Nat
      BY AliveFinite
  <2>3. \A i \in 1 .. (mIndex + 1) : mThreadList'[i] \in Alive
    <3>1. \A i \in 1 .. mIndex : mThreadList[i] \in Alive
        BY <1>2, <1>5, ListedAlive
    <3>2. \A i \in 1 .. (mIndex + 1) : i \in 1 .. mIndex \/ i = mIndex + 1
        BY <1>5
    <3> QED
        BY <1>2, <1>6, <3>1, <3>2
  <2>4. mIndex + 1 \in Nat
      BY <1>5
  <2>5. mIndex + 1 >= Cardinality(Alive) =>
            \A a \in Alive : \E i \in 1 .. (mIndex + 1) : mThreadList'[i] = a
      BY <1>6, <1>9, <2>2, <2>3, <2>4, ListCounts
  <2> QED
      BY <1>6, <1>8, <2>1, <2>5 DEF Listed
<1>12. PoolTyped'
    BY <1>1, <1>3, <1>4, <1>6, <1>10 DEF PoolTyped, ClientsWait
<1>13. ListOK'
  <2>1. ASSUME NEW u \in Threads, Listed(u)' PROVE thread'[u].pc \in ListedAt'
      BY <1>1, <1>2, <1>3, <1>7, <2>1 DEF ListOK, ListedAt
  <2>2. ASSUME NEW u \in Threads, thread'[u].pc \in {"park", "waiting"}
        PROVE  Listed(u)'
      BY <1>1, <1>3, <1>7, <2>2, NobodySignals DEF ListOK
  <2> QED
      BY <1>1, <1>2, <1>9, <1>11, <2>1, <2>2 DEF ListOK
<1>14. ASSUME NEW d \in Dispatchers PROVE SignalOK(d)'
    BY <1>1, <1>4, <1>14, NobodySignals DEF SignalOK, ClientsWait
<1>15. DtorOK'
    BY <1>1, <1>2, <1>4, <1>10 DEF DtorOK, ClientsWait
<1>16. HandsOK'
    BY <1>1, <1>3, <1>4 DEF HandsOK, ClientsWait
<1>17. ASSUME NEW j \in Jobs PROVE JobOK(j)'
  <2>1. \A d \in Dispatchers : Pending(d, j)' <=> Pending(d, j)
      BY <1>4 DEF Pending, ClientsWait
  <2>2. \A u \in Threads : Owes(u, j)' <=> Owes(u, j)
      BY <1>1, <1>3 DEF Owes
  <2> QED
      BY <1>1, <1>17, <2>1, <2>2, JobKept
<1> QED
    BY <1>1, <1>8, <1>12, <1>13, <1>14, <1>15, <1>16, <1>17

\* A thread ends: mTotal counts one thread less, and the destructor is woken by
\* the last one.
LEMMA PoolExit ==
    ASSUME PoolInv, NEW t \in Threads, Exit(t)
    PROVE  PoolInv'
<1> USE DEF PoolInv
<1>1. /\ UNCHANGED <<mThreadList, poolShutdown, main, client, calls, ran>>
      /\ thread[t].pc = "exit" /\ main = {} /\ mTotal' = mTotal - 1
    BY DEF Exit
<1>2. /\ thread' \in [Threads -> [pc : ThreadPlaces, job : Nat]]
      /\ \A u \in Threads : u # t => thread'[u] = thread[u]
      /\ thread'[t].pc = "gone"
    BY DEF Exit, PoolTyped, ThreadPlaces
<1>3. t \in Alive /\ Alive' = Alive \ {t}
    BY <1>1, <1>2 DEF Alive
<1>4. /\ mTotal' = Cardinality(Alive') /\ mTotal' \in Nat /\ mTotal # 0
      /\ mTotal' <= MaxThreads
  <2>1. IsFiniteSet(Alive) /\ Cardinality(Alive) \in Nat
      BY AliveFinite
  <2>2. /\ Cardinality(Alive') = Cardinality(Alive) - 1
        /\ IsFiniteSet(Alive')
      BY <1>3, <2>1, FS_RemoveElement
  <2>3. Cardinality(Alive') \in Nat
      BY <2>2, FS_CardinalityType
  <2> QED
      BY <1>1, <2>1, <2>2, <2>3, PoolAssumption
<1>5. \A u \in Threads : Listed(u)' <=> Listed(u)
    BY <1>1, ListedKept
<1>6. /\ poolDtor' \in [pc : DtorPlaces, i : Nat]
      /\ \/ poolDtor'.pc = poolDtor.pc
         \/ poolDtor.pc = "emptyWait" /\ poolDtor'.pc = "emptyWoken" /\ mTotal' <= 0
  <2>1. CASE poolDtor' = poolDtor
      BY <2>1 DEF PoolTyped
  <2>2. CASE /\ poolDtor.pc = "emptyWait" /\ mTotal - 1 <= 0
             /\ poolDtor' = [poolDtor EXCEPT !.pc = "emptyWoken"]
      BY <1>1, <2>2 DEF PoolTyped, DtorPlaces
  <2> QED
      BY <2>1, <2>2 DEF Exit
<1>7. PoolTyped'
    BY <1>1, <1>2, <1>4, <1>6 DEF PoolTyped
<1>8. ListOK'
  <2>1. ASSUME NEW u \in Threads, Listed(u)' PROVE thread'[u].pc \in ListedAt'
      BY <1>1, <1>2, <1>5, <2>1 DEF ListOK, ListedAt
  <2>2. ASSUME NEW u \in Threads, thread'[u].pc \in {"park", "waiting"}
        PROVE  Listed(u)' \/ \E d \in Dispatchers : client'[d].pc = "signal" /\ client'[d].t = u
      BY <1>1, <1>2, <1>5, <2>2 DEF ListOK
  <2>3. poolDtor'.pc = "fullWoken" \/ poolShutdown' => \A u \in Alive' : Listed(u)'
    <3>1. \A u \in Alive' : u \in Alive /\ u \in Threads
        BY <1>3 DEF Alive
    <3> QED
        BY <1>1, <1>5, <1>6, <3>1 DEF ListOK
  <2> QED
      BY <1>1, <2>1, <2>2, <2>3 DEF ListOK
<1>9. ASSUME NEW d \in Dispatchers PROVE SignalOK(d)'
    BY <1>1, <1>9, NobodySignals DEF SignalOK
<1>10. DtorOK'
  <2>1. CASE poolDtor'.pc = poolDtor.pc
    <3>1. poolDtor.pc \notin {"emptyWoken", "done"}
        BY <1>4 DEF DtorOK
    <3> QED
        BY <1>1, <2>1, <3>1 DEF DtorOK
  <2>2. CASE poolDtor.pc = "emptyWait" /\ poolDtor'.pc = "emptyWoken" /\ mTotal' <= 0
    <3>1. mTotal' = 0
        BY <1>4, <2>2
    <3> QED
        BY <1>1, <2>2, <3>1 DEF DtorOK
  <2> QED
      BY <1>6, <2>1, <2>2
<1>11. HandsOK'
    BY <1>1, <1>2 DEF HandsOK
<1>12. ASSUME NEW j \in Jobs PROVE JobOK(j)'
  <2>1. \A d \in Dispatchers : Pending(d, j)' <=> Pending(d, j)
      BY <1>1 DEF Pending
  <2>2. \A u \in Threads : Owes(u, j)' <=> Owes(u, j)
      BY <1>1, <1>2 DEF Owes
  <2> QED
      BY <1>1, <1>12, <2>1, <2>2, JobKept
<1> QED
    BY <1>4, <1>7, <1>8, <1>9, <1>10, <1>11, <1>12

\* mIsShutdown is set while all living threads sleep in the list and nobody is in
\* dispatch: no job is in a hand.
LEMMA PoolShutsDown ==
    ASSUME PoolInv, ~poolShutdown, main = {}, \A t \in Alive : Listed(t),
           \A c \in Dispatchers : client[c].pc = "out",
           poolDtor' = [poolDtor EXCEPT !.pc = "signal"], poolShutdown' = TRUE,
           main' = {"dtor"}, UNCHANGED <<mThreadList, mTotal, thread, client, calls, ran>>
    PROVE  PoolInv'
<1> USE DEF PoolInv
<1>1. poolDtor' \in [pc : DtorPlaces, i : Nat] /\ poolDtor'.pc = "signal"
    BY DEF PoolTyped, DtorPlaces
<1>2. PoolTyped'
    BY <1>1 DEF PoolTyped
<1>3. Alive' = Alive /\ \A u \in Threads : Listed(u)' <=> Listed(u)
    BY ListedKept DEF Alive
<1>4. ListOK'
  <2>1. ASSUME NEW u \in Threads, Listed(u)' PROVE thread'[u].pc \in ListedAt'
      BY <1>3, <2>1 DEF ListOK, ListedAt
  <2>2. \A u \in Alive' : Listed(u)'
      BY <1>3 DEF Alive
  <2>3. ASSUME NEW u \in Threads, thread'[u].pc \in {"park", "waiting"} PROVE Listed(u)'
      BY <1>3, <2>3 DEF ListOK
  <2> QED
      BY <2>1, <2>2, <2>3 DEF ListOK
<1>5. ASSUME NEW c \in Dispatchers PROVE SignalOK(c)'
    BY <1>5 DEF SignalOK
<1>6. DtorOK' /\ HandsOK'
    BY <1>1 DEF DtorOK, HandsOK
<1>7. ASSUME NEW j \in Jobs PROVE JobOK(j)'
  <2>1. \A d \in Dispatchers : Pending(d, j)' <=> Pending(d, j)
      BY DEF Pending
  <2>2. \A u \in Threads : ~Owes(u, j)
      BY DEF Owes, Alive, ListOK, ListedAt
  <2>3. \A u \in Threads : ~Owes(u, j)'
      BY DEF Owes
  <2> QED
      BY <1>7, <2>1, <2>2, <2>3, JobKept
<1> QED
    BY <1>2, <1>3, <1>4, <1>5, <1>6, <1>7

\* The destructor goes on without touching threads, clients or jobs; it may give
\* up the list when no thread is left.
LEMMA PoolDtorGoes ==
    ASSUME PoolInv, UNCHANGED <<mTotal, poolShutdown, thread, client, calls, ran>>,
           NEW p \in DtorPlaces, poolDtor' = [poolDtor EXCEPT !.pc = p],
           p # "fullWoken" /\ p # "none" /\ p # "signal",
           \A c \in Dispatchers : client[c].pc = "out",
           poolShutdown <=> p \in {"emptyWait", "emptyWoken", "done"},
           p \in {"emptyWoken", "done"} => mTotal = 0,
           mThreadList' = mThreadList \/ (mThreadList' = <<>> /\ mTotal = 0)
    PROVE  PoolInv'
<1> USE DEF PoolInv
<1>1. poolDtor' \in [pc : DtorPlaces, i : Nat] /\ poolDtor'.pc = p
    BY DEF PoolTyped
<1>2. mThreadList' \in Seq(Threads)
    BY EmptySeq DEF PoolTyped
<1>3. PoolTyped'
    BY <1>1, <1>2 DEF PoolTyped
<1>4. Alive' = Alive
    BY DEF Alive
<1>5. ListOK'
  <2>1. CASE mThreadList' = mThreadList
    <3>1. \A u \in Threads : Listed(u)' <=> Listed(u)
        BY <2>1, ListedKept
    <3> QED
        BY <1>1, <2>1, <3>1 DEF ListOK, ListedAt, Alive
  <2>2. CASE mThreadList' = <<>> /\ mTotal = 0
    <3>1. Alive = {}
        BY <2>2, AliveFinite, FS_EmptySet
    <3>2. \A u \in Threads : ~Listed(u)'
        BY <2>2 DEF Listed
    <3> QED
        BY <1>4, <2>2, <3>1, <3>2 DEF ListOK, Alive
  <2> QED
      BY <2>1, <2>2
<1>6. ASSUME NEW c \in Dispatchers PROVE SignalOK(c)'
    BY <1>6 DEF SignalOK
<1>7. DtorOK' /\ HandsOK'
    BY <1>1 DEF DtorOK, HandsOK
<1>8. ASSUME NEW j \in Jobs PROVE JobOK(j)'
  <2>1. \A d \in Dispatchers : Pending(d, j)' <=> Pending(d, j)
      BY DEF Pending
  <2>2. \A u \in Threads : Owes(u, j)' <=> Owes(u, j)
      BY DEF Owes
  <2> QED
      BY <1>8, <2>1, <2>2, JobKept
<1> QED
    BY <1>3, <1>4, <1>5, <1>6, <1>7, <1>8

\* The steps of the destructor
LEMMA PoolDtor ==
    ASSUME PoolInv, PoolDtorStep
    PROVE  PoolInv'
<1>1. CASE DtorEnter
  <2>1. /\ poolDtor.pc = "none" /\ main = {} /\ \A c \in Dispatchers : client[c].pc = "out"
        /\ UNCHANGED <<mThreadList, mTotal, thread, client, calls, ran>>
      BY <1>1 DEF DtorEnter
  <2>2. ~poolShutdown
      BY <2>1 DEF PoolInv, DtorOK
  <2>3. CASE /\ SomeBusy /\ poolDtor' = [poolDtor EXCEPT !.pc = "fullWait"]
             /\ UNCHANGED <<poolShutdown, main>>
      BY <2>1, <2>2, <2>3, PoolDtorGoes DEF DtorPlaces
  <2>4. CASE /\ ~SomeBusy /\ poolDtor' = [poolDtor EXCEPT !.pc = "signal"]
             /\ poolShutdown' = TRUE /\ main' = {"dtor"}
    <3>1. mIndex >= mTotal
        BY <2>4, ListPlaces DEF SomeBusy, PoolInv, PoolTyped
    <3> QED
        BY <2>1, <2>2, <2>4, <3>1, FullList, PoolShutsDown
  <2> QED
      BY <1>1, <2>3, <2>4 DEF DtorEnter
<1>2. CASE DtorFull
  <2>1. ~poolShutdown /\ (\A t \in Alive : Listed(t)) /\ \A c \in Dispatchers : client[c].pc = "out"
      BY <1>2 DEF DtorFull, PoolInv, DtorOK, ListOK
  <2> QED
      BY <1>2, <2>1, PoolShutsDown DEF DtorFull
<1>3. CASE DtorSignal
  <2>1. PICK t : t = mThreadList[poolDtor.i + 1]
      OBVIOUS
  <2>2. /\ poolDtor.pc = "signal" /\ poolShutdown /\ \A c \in Dispatchers : client[c].pc = "out"
        /\ UNCHANGED <<mThreadList, mTotal, poolShutdown, main, client, calls, ran>>
        /\ thread' = Signalled(t)
      BY <1>3, <2>1 DEF DtorSignal, PoolInv, DtorOK
  <2>3. poolDtor' \in [pc : DtorPlaces, i : Nat] /\ poolDtor'.pc = poolDtor.pc
    <3>1. poolDtor \in [pc : DtorPlaces, i : Nat]
        BY DEF PoolInv, PoolTyped
    <3>2. PICK n \in Nat : n = poolDtor.i + 1
        BY <3>1
    <3>3. poolDtor' = [poolDtor EXCEPT !.i = n]
        BY <1>3, <3>2 DEF DtorSignal
    <3> QED
        BY <3>1, <3>3
  <2>4. t \in Threads
    <3>1. mIndex \in Nat /\ DOMAIN mThreadList = 1 .. mIndex
        BY ListPlaces DEF PoolInv
    <3>2. poolDtor.i + 1 \in 1 .. Len(mThreadList)
        BY <1>3, <3>1 DEF DtorSignal, PoolInv, PoolTyped, mIndex
    <3> QED
        BY <2>1, <3>2, ElementOfSeq DEF PoolInv, PoolTyped
  <2>5. CASE thread[t].pc = "waiting"
    <3>1. thread' = [thread EXCEPT ![t].pc = "woken"]
        BY <2>2, <2>5 DEF Signalled
    <3> QED
        BY <2>2, <2>3, <2>4, <2>5, <3>1, ThreadMoves DEF ThreadPlaces, ListedAt
  <2>6. CASE thread[t].pc # "waiting"
    <3>3. thread' = thread
        BY <2>2, <2>6 DEF Signalled
    <3>4. PoolTyped'
        BY <2>2, <2>3, <3>3 DEF PoolInv, PoolTyped
    <3>5. Alive' = Alive /\ \A u \in Threads : Listed(u)' <=> Listed(u)
        BY <2>2, <3>3, ListedKept DEF Alive
    <3>6. ListOK'
        BY <2>2, <2>3, <3>3, <3>5 DEF PoolInv, ListOK, ListedAt, Alive
    <3>7. ASSUME NEW c \in Dispatchers PROVE SignalOK(c)'
        BY <2>2, <3>7 DEF SignalOK
    <3>8. DtorOK' /\ HandsOK'
        BY <2>2, <2>3, <3>3 DEF PoolInv, DtorOK, HandsOK
    <3>9. ASSUME NEW j \in Jobs PROVE JobOK(j)'
      <4>1. \A d \in Dispatchers : Pending(d, j)' <=> Pending(d, j)
          BY <2>2 DEF Pending
      <4>2. \A u \in Threads : Owes(u, j)' <=> Owes(u, j)
          BY <2>2, <3>3 DEF Owes
      <4> QED
          BY <2>2, <3>9, <4>1, <4>2, JobKept DEF PoolInv
    <3> QED
        BY <2>2, <3>4, <3>5, <3>6, <3>7, <3>8, <3>9 DEF PoolInv
  <2> QED
      BY <2>5, <2>6
<1>4. CASE DtorDrain
  <2>1. /\ poolDtor.pc = "signal" /\ UNCHANGED <<mTotal, poolShutdown, thread, client, calls, ran>>
        /\ poolShutdown /\ \A c \in Dispatchers : client[c].pc = "out"
      BY <1>4 DEF DtorDrain, PoolInv, DtorOK
  <2>2. CASE AllGone /\ poolDtor' = [poolDtor EXCEPT !.pc = "done"] /\ mThreadList' = <<>>
    <3>1. mTotal = 0
        BY <2>2 DEF AllGone, PoolInv, PoolTyped
    <3> QED
        BY <2>1, <2>2, <3>1, PoolDtorGoes DEF DtorPlaces
  <2>3. CASE poolDtor' = [poolDtor EXCEPT !.pc = "emptyWait"] /\ UNCHANGED mThreadList
      BY <2>1, <2>3, PoolDtorGoes DEF DtorPlaces
  <2> QED
      BY <1>4, <2>2, <2>3 DEF DtorDrain
<1>5. CASE DtorEmpty
  <2>1. /\ poolDtor.pc = "emptyWoken"
        /\ UNCHANGED <<mTotal, poolShutdown, thread, client, calls, ran>>
        /\ poolShutdown /\ mTotal = 0 /\ \A c \in Dispatchers : client[c].pc = "out"
        /\ poolDtor' = [poolDtor EXCEPT !.pc = "done"] /\ mThreadList' = <<>>
      BY <1>5 DEF DtorEmpty, PoolInv, DtorOK
  <2> QED
      BY <2>1, PoolDtorGoes DEF DtorPlaces
<1> QED
    BY <1>1, <1>2, <1>3, <1>4, <1>5 DEF PoolDtorStep

\* Every step of the clients, of the threads and of the destructor keeps it.
LEMMA PoolInvNext == PoolInv /\ [PoolNext]_poolVars => PoolInv'
<1> SUFFICES ASSUME PoolInv, [PoolNext]_poolVars PROVE PoolInv'
    OBVIOUS
<1>1. ASSUME NEW c \in Dispatchers, Call(c) PROVE PoolInv'
    BY <1>1, PoolCall
<1>2. ASSUME NEW c \in Dispatchers, ClientStep(c) PROVE PoolInv'
    BY <1>2, PoolWait, PoolCreate, PoolFails, PoolReuse, PoolSignal DEF ClientStep
<1>3. ASSUME NEW t \in Threads, ThreadStep(t) PROVE PoolInv'
    BY <1>3, PoolThreadGoes, PoolRun, PoolSave, PoolExit DEF ThreadStep
<1>4. CASE PoolDtorStep
    BY <1>4, PoolDtor
<1>5. CASE UNCHANGED poolVars
    BY <1>5 DEF poolVars, PoolInv, PoolTyped, Alive, ListOK, Listed, ListedAt, SignalOK, DtorOK,
       HandsOK, JobOK, Pending, Owes
<1> QED
    BY <1>1, <1>2, <1>3, <1>4, <1>5 DEF PoolNext

\* The invariant implies the four parts of PoolSafe.
LEMMA PoolInvMeans == PoolInv => PoolSafe
<1> SUFFICES ASSUME PoolInv PROVE PoolSafe
    OBVIOUS
<1>1. PoolBounded
  <2>1. ASSUME NEW t \in Threads, thread[t].pc = "save" PROVE mIndex < MaxThreads
      BY <2>1, RoomToPark, ListPlaces, PoolAssumption DEF PoolInv, PoolTyped
  <2>2. IsInjective(mThreadList)
      BY DEF PoolInv, ListOK, IsInjective
  <2> QED
      BY <2>1, <2>2 DEF PoolBounded, PoolInv, Alive
<1>2. NoSleepingJob
  <2>1. \A t : Listed(t) => t \in Range(mThreadList)
      BY DEF Listed, Range
  <2> QED
      BY <2>1 DEF NoSleepingJob, PoolInv, ListOK
<1>3. JobsRunOnce
  <2>1. \A j \in Jobs : ran[j] \in {0, 1}
      BY DEF PoolInv, JobOK
  <2> QED
      BY <2>1 DEF JobsRunOnce
<1>4. DestroyedQuiet
  <2> SUFFICES ASSUME poolDtor.pc = "done"
               PROVE  /\ \A t \in Threads : thread[t].pc \in {"unborn", "gone"}
                      /\ \A j \in 1 .. calls : ran[j] = 1
      BY DEF DestroyedQuiet
  <2>1. mTotal = 0 /\ poolShutdown /\ \A c \in Dispatchers : client[c].pc = "out"
      BY DEF PoolInv, DtorOK
  <2>2. Alive = {}
      BY <2>1, AliveFinite, FS_EmptySet DEF PoolInv
  <2>3. ASSUME NEW j \in 1 .. calls PROVE ran[j] = 1
    <3>1. j \in Jobs /\ j <= calls
        BY PoolAssumption DEF PoolInv, PoolTyped, Jobs
    <3>2. (\A c \in Dispatchers : ~Pending(c, j)) /\ \A t \in Threads : ~Owes(t, j)
        BY <2>1 DEF Pending, Owes
    <3> QED
        BY <3>1, <3>2 DEF PoolInv, JobOK
  <2> QED
      BY <2>2, <2>3 DEF Alive
<1> QED
    BY <1>1, <1>2, <1>3, <1>4 DEF PoolSafe

\* For any number of threads, callers and calls: dispatch keeps to mMaxThreads and
\* saveThread always has room, no thread sleeps on a job without a signal coming,
\* every job is run at most once, and the destructor frees the pool when all
\* threads have left and all jobs have been run.
THEOREM PoolCorrect == PoolSpec => []PoolSafe
<1>1. PoolSpec => []PoolInv
    BY PoolInvInit, PoolInvNext, PTL DEF PoolSpec
<1> QED
    BY <1>1, PoolInvMeans, PTL

-----------------------------------------------------------------------------
(* Executor: tasks in order, and no sleep while there is something to do *)

\* A position of the ring that may have passed its end, brought back
Around(x, n) == IF x >= n THEN x - n ELSE x

\* What an entry can hold
Entries == Tasks \cup {Junk}

\* A ring with its five fields: the indices are inside the array, and mTail is
\* mCount places after mHead.
CircleOK(q) ==
    /\ q = [mEntries |-> q.mEntries, mHead |-> q.mHead, mTail |-> q.mTail,
            mCount |-> q.mCount, mMaxCount |-> q.mMaxCount]
    /\ q.mMaxCount \in Nat \ {0}
    /\ q.mHead \in 0 .. (q.mMaxCount - 1) /\ q.mTail \in 0 .. (q.mMaxCount - 1)
    /\ q.mCount \in 0 .. q.mMaxCount
    /\ q.mEntries \in [0 .. (q.mMaxCount - 1) -> Entries]
    /\ q.mTail = Around(q.mHead + q.mCount, q.mMaxCount)

\* The event loop sleeps only while the queue is empty and nobody has called
\* shutdown(): the wait of pop(), which is not repeated, misses no signal.
LoopSleepsIdle == loop.pc = "wait" => mQueue.mCount = 0 /\ mIsShutdown = 0

\* The inductive invariant: when shutdown() comes between the test of eventLoop
\* and its pop(), the last task is there to be popped.
ExecutorInv ==
    /\ CircleOK(mQueue)
    /\ executed \in [Clients -> 0 .. MaxTasks]
    /\ loop = [pc |-> loop.pc, task |-> loop.task]
    /\ LoopSleepsIdle
    /\ loop.pc = "pop" /\ mIsShutdown # 0 => mQueue.mCount > 0

\* Up to once round, the remainder of the code brings a position back.
LEMMA ModIsAround ==
    ASSUME NEW n \in Nat \ {0}, NEW x \in 0 .. (2 * n - 1)
    PROVE  x % n = Around(x, n) /\ Around(x, n) \in 0 .. (n - 1)
<1>1. CASE x < n
    BY <1>1 DEF Around
<1>2. CASE x >= n
  <2>1. x % n = (x - n) % n
      BY <1>2
  <2> QED
      BY <1>2, <2>1 DEF Around
<1> QED
    BY <1>1, <1>2

\* Advancing a position by one before or after it is brought back
LEMMA AroundFacts ==
    ASSUME NEW n \in Nat \ {0}, NEW h \in 0 .. (n - 1), NEW c \in 0 .. n
    PROVE  /\ Around(h + c, n) \in 0 .. (n - 1)
           /\ Around(Around(h + c, n) + 1, n) \in 0 .. (n - 1)
           /\ c < n => Around(Around(h + c, n) + 1, n) = Around(h + c + 1, n)
           /\ c < n => Around(Around(h + 1, n) + c, n) = Around(h + c + 1, n)
  BY DEF Around

\* The items of a ring form a sequence of length mCount.
LEMMA ItemsSeq ==
    ASSUME NEW q, CircleOK(q)
    PROVE  /\ CircleItems(q) \in Seq(Entries) /\ Len(CircleItems(q)) = q.mCount
           /\ \A i \in 1 .. q.mCount :
                 CircleItems(q)[i] = q.mEntries[Around(q.mHead + i - 1, q.mMaxCount)]
<1> DEFINE n == q.mMaxCount
           s == CircleItems(q)
<1>1. /\ n \in Nat \ {0} /\ q.mHead \in 0 .. (n - 1) /\ q.mCount \in 0 .. n
      /\ q.mEntries \in [0 .. (n - 1) -> Entries]
    BY DEF CircleOK
<1>2. ASSUME NEW i \in 1 .. q.mCount
      PROVE  /\ (q.mHead + i - 1) % n = Around(q.mHead + i - 1, n)
             /\ Around(q.mHead + i - 1, n) \in 0 .. (n - 1)
  <2> HIDE DEF n
  <2>1. q.mHead + i - 1 \in 0 .. (2 * n - 1)
      BY <1>1
  <2> QED
      BY <1>1, <2>1, ModIsAround
<1>3. s = [i \in 1 .. q.mCount |-> q.mEntries[(q.mHead + i - 1) % n]]
    BY DEF CircleItems
<1> HIDE DEF n, s
<1>4. \A i \in 1 .. q.mCount : s[i] = q.mEntries[Around(q.mHead + i - 1, n)]
    BY <1>2, <1>3
<1>5. \A i \in 1 .. q.mCount : s[i] \in Entries
    BY <1>1, <1>2, <1>4
<1>6. q.mCount \in Nat /\ s \in [1 .. q.mCount -> Entries]
  <2>1. PICK c : c = q.mCount
      OBVIOUS
  <2>2. c \in Nat /\ s = [i \in 1 .. c |-> s[i]] /\ \A i \in 1 .. c : s[i] \in Entries
      BY SMTT(30), <1>1, <1>3, <1>5, <2>1
  <2>3. s \in [1 .. c -> Entries]
      BY <2>2
  <2> QED
      BY <2>1, <2>2, <2>3
<1>7. s \in Seq(Entries) /\ Len(s) = q.mCount
    BY <1>6, LenProperties
<1> QED
    BY <1>4, <1>7 DEF n, s

\* push() without growth: the task goes to the end.
LEMMA PlacedAppends ==
    ASSUME NEW q, CircleOK(q), q.mCount < q.mMaxCount, NEW v \in Tasks
    PROVE  /\ CircleOK(Placed(q, v))
           /\ CircleItems(Placed(q, v)) = Append(CircleItems(q), v)
           /\ Placed(q, v).mCount = q.mCount + 1
<1>1. PICK n, h, c, l, e : /\ n = q.mMaxCount /\ h = q.mHead /\ c = q.mCount /\ l = q.mTail
                           /\ e = q.mEntries
    OBVIOUS
<1>2. /\ n \in Nat \ {0} /\ h \in 0 .. (n - 1) /\ l \in 0 .. (n - 1) /\ c \in 0 .. n /\ c < n
      /\ e \in [0 .. (n - 1) -> Entries] /\ l = Around(h + c, n)
    BY <1>1 DEF CircleOK
<1>3. (l + 1) % n = Around(l + 1, n)
  <2>1. l + 1 \in 0 .. (2 * n - 1)
      BY <1>2
  <2> QED
      BY <1>2, <2>1, ModIsAround
<1>4. PICK r : r = Placed(q, v)
    OBVIOUS
<1>5. r = [mEntries |-> [e EXCEPT ![l] = v], mHead |-> h, mTail |-> Around(l + 1, n),
           mCount |-> c + 1, mMaxCount |-> n]
    BY <1>1, <1>3, <1>4 DEF Placed
<1>6. /\ r.mEntries = [e EXCEPT ![l] = v] /\ r.mHead = h /\ r.mTail = Around(l + 1, n)
      /\ r.mCount = c + 1 /\ r.mMaxCount = n
    BY <1>5
<1>7. v \in Entries
    BY DEF Entries
<1>8. /\ r.mEntries \in [0 .. (n - 1) -> Entries] /\ r.mEntries[l] = v
      /\ \A i \in (0 .. (n - 1)) \ {l} : r.mEntries[i] = e[i]
    BY <1>2, <1>6, <1>7
<1>9. /\ Around(l + 1, n) \in 0 .. (n - 1) /\ Around(l + 1, n) = Around(h + (c + 1), n)
      /\ c + 1 \in 0 .. n
  <2>1. h + (c + 1) = h + c + 1 /\ c + 1 \in 0 .. n
      BY <1>2
  <2>2. Around(Around(h + c, n) + 1, n) = Around(h + c + 1, n)
      BY <1>2, AroundFacts
  <2>3. Around(Around(h + c, n) + 1, n) \in 0 .. (n - 1)
      BY <1>2, AroundFacts
  <2> QED
      BY <1>2, <2>1, <2>2, <2>3
<1>10. CircleOK(r)
    BY <1>2, <1>5, <1>6, <1>8, <1>9 DEF CircleOK
<1>11. \A i \in 1 .. c : Around(h + i - 1, n) \in (0 .. (n - 1)) \ {l}
    BY <1>2 DEF Around
<1>12. Around(h + (c + 1) - 1, n) = l
  <2>1. h + (c + 1) - 1 = h + c
      BY <1>2
  <2> QED
      BY <1>2, <2>1
<1>13. /\ CircleItems(q) \in Seq(Entries) /\ Len(CircleItems(q)) = c
       /\ \A i \in 1 .. c : CircleItems(q)[i] = e[Around(h + i - 1, n)]
    BY <1>1, ItemsSeq
<1>14. /\ CircleItems(r) \in Seq(Entries) /\ Len(CircleItems(r)) = c + 1
       /\ \A i \in 1 .. (c + 1) : CircleItems(r)[i] = r.mEntries[Around(h + i - 1, n)]
    BY <1>6, <1>10, ItemsSeq
<1>15. /\ Append(CircleItems(q), v) \in Seq(Entries) /\ Len(Append(CircleItems(q), v)) = c + 1
       /\ \A i \in 1 .. c : Append(CircleItems(q), v)[i] = CircleItems(q)[i]
       /\ Append(CircleItems(q), v)[c + 1] = v
    BY <1>7, <1>13, AppendProperties
<1>16. \A i \in 1 .. (c + 1) : CircleItems(r)[i] = Append(CircleItems(q), v)[i]
  <2> SUFFICES ASSUME NEW i \in 1 .. (c + 1)
               PROVE  CircleItems(r)[i] = Append(CircleItems(q), v)[i]
      OBVIOUS
  <2>1. CASE i = c + 1
    <3>1. c + 1 \in 1 .. (c + 1)
        BY <1>2
    <3> QED
        BY <1>8, <1>12, <1>14, <1>15, <2>1, <3>1
  <2>2. CASE i # c + 1
    <3>1. i \in 1 .. c
        BY <1>2, <2>2
    <3> QED
        BY <1>8, <1>11, <1>13, <1>14, <1>15, <3>1
  <2> QED
      BY <2>1, <2>2
<1>17. CircleItems(r) = Append(CircleItems(q), v)
    BY <1>14, <1>15, <1>16, SeqEqual
<1> QED
    BY <1>1, <1>4, <1>6, <1>10, <1>17

\* push() of a full ring first moves its tasks, in order, to a larger array.
LEMMA GrownKeeps ==
    ASSUME NEW q, CircleOK(q), q.mCount >= q.mMaxCount
    PROVE  /\ CircleOK(Grown(q))
           /\ CircleItems(Grown(q)) = CircleItems(q)
           /\ Grown(q).mCount = q.mCount /\ q.mCount < Grown(q).mMaxCount
<1>1. PICK n, h, e : n = q.mMaxCount /\ h = q.mHead /\ e = q.mEntries
    OBVIOUS
<1>2. /\ n \in Nat \ {0} /\ h \in 0 .. (n - 1) /\ q.mTail = h /\ q.mCount = n
      /\ e \in [0 .. (n - 1) -> Entries]
    BY <1>1 DEF CircleOK, Around
<1>3. PICK m : m = (n * 3) \div 2 + 1
    OBVIOUS
<1>4. m \in Nat \ {0} /\ n < m
    BY <1>2, <1>3
<1>5. HeadLen(q) = n - h /\ TailLen(q) = h /\ HeadLen(q) + TailLen(q) = n
    BY <1>1, <1>2 DEF HeadLen, TailLen
<1>6. PICK r : r = Grown(q)
    OBVIOUS
<1>7. r = [mEntries |-> [i \in 0 .. (m - 1) |->
                            IF i < n - h THEN e[h + i]
                            ELSE IF i < n THEN e[i - (n - h)] ELSE Junk],
           mHead |-> 0, mTail |-> n, mCount |-> n, mMaxCount |-> m]
    BY <1>1, <1>2, <1>3, <1>5, <1>6 DEF Grown
<1>8. PICK f : f = r.mEntries
    OBVIOUS
<1>9. /\ f = [i \in 0 .. (m - 1) |-> IF i < n - h THEN e[h + i]
                                    ELSE IF i < n THEN e[i - (n - h)] ELSE Junk]
      /\ r.mHead = 0 /\ r.mTail = n /\ r.mCount = n /\ r.mMaxCount = m
    BY <1>7, <1>8
<1>10. ASSUME NEW i \in 0 .. (m - 1) PROVE f[i] \in Entries
  <2>1. CASE i < n - h
    <3>1. h + i \in 0 .. (n - 1) /\ f[i] = e[h + i]
        BY <1>2, <1>9, <2>1
    <3> QED
        BY <1>2, <3>1
  <2>2. CASE ~(i < n - h) /\ i < n
    <3>1. i - (n - h) \in 0 .. (n - 1) /\ f[i] = e[i - (n - h)]
        BY <1>2, <1>9, <2>2
    <3> QED
        BY <1>2, <3>1
  <2>3. CASE ~(i < n - h) /\ ~(i < n)
      BY <1>9, <2>3 DEF Entries
  <2> QED
      BY <2>1, <2>2, <2>3
<1>11. f \in [0 .. (m - 1) -> Entries]
  <2>1. DOMAIN f = 0 .. (m - 1) /\ f = [i \in 0 .. (m - 1) |-> f[i]]
      BY <1>9
  <2> QED
      BY <1>10, <2>1
<1>12. CircleOK(r)
  <2>1. n \in 0 .. (m - 1) /\ n \in 0 .. m /\ 0 \in 0 .. (m - 1) /\ n = Around(0 + n, m)
      BY <1>2, <1>4 DEF Around
  <2>2. r = [mEntries |-> r.mEntries, mHead |-> r.mHead, mTail |-> r.mTail,
             mCount |-> r.mCount, mMaxCount |-> r.mMaxCount]
      BY <1>7
  <2> QED
      BY <1>4, <1>8, <1>9, <1>11, <2>1, <2>2 DEF CircleOK
<1>13. /\ CircleItems(q) \in Seq(Entries) /\ Len(CircleItems(q)) = n
       /\ \A i \in 1 .. n : CircleItems(q)[i] = e[Around(h + i - 1, n)]
    BY <1>1, <1>2, ItemsSeq
<1>14. /\ CircleItems(r) \in Seq(Entries) /\ Len(CircleItems(r)) = n
       /\ \A i \in 1 .. n : CircleItems(r)[i] = f[Around(0 + i - 1, m)]
  <2>1. /\ CircleItems(r) \in Seq(Entries) /\ Len(CircleItems(r)) = r.mCount
        /\ \A i \in 1 .. r.mCount :
              CircleItems(r)[i] = r.mEntries[Around(r.mHead + i - 1, r.mMaxCount)]
      BY <1>12, ItemsSeq
  <2> QED
      BY <1>8, <1>9, <2>1
<1>15. ASSUME NEW i \in 1 .. n PROVE CircleItems(r)[i] = CircleItems(q)[i]
  <2>1. Around(0 + i - 1, m) = i - 1 /\ i - 1 \in 0 .. (m - 1) /\ i - 1 < n
      BY <1>2, <1>4 DEF Around
  <2>2. CASE i - 1 < n - h
    <3>1. Around(h + i - 1, n) = h + (i - 1)
        BY <1>2, <2>2 DEF Around
    <3>2. f[i - 1] = e[h + (i - 1)]
        BY <1>9, <2>1, <2>2
    <3> QED
        BY <1>13, <1>14, <2>1, <3>1, <3>2
  <2>3. CASE ~(i - 1 < n - h)
    <3>1. Around(h + i - 1, n) = (i - 1) - (n - h)
        BY <1>2, <2>3 DEF Around
    <3>2. f[i - 1] = e[(i - 1) - (n - h)]
        BY <1>9, <2>1, <2>3
    <3> QED
        BY <1>13, <1>14, <2>1, <3>1, <3>2
  <2> QED
      BY <2>2, <2>3
<1>16. CircleItems(r) = CircleItems(q)
    BY <1>13, <1>14, <1>15, SeqEqual
<1> QED
    BY <1>2, <1>4, <1>6, <1>9, <1>12, <1>16

\* push() appends the task, with or without growth.
LEMMA CirclePushAppends ==
    ASSUME NEW q, CircleOK(q), NEW v \in Tasks
    PROVE  /\ CircleOK(CirclePush(q, v))
           /\ CircleItems(CirclePush(q, v)) = Append(CircleItems(q), v)
           /\ CirclePush(q, v).mCount = q.mCount + 1 /\ q.mCount \in Nat
<1>0. q.mCount \in Nat /\ q.mMaxCount \in Nat
    BY DEF CircleOK
<1>1. CASE q.mCount >= q.mMaxCount
  <2>1. CirclePush(q, v) = Placed(Grown(q), v)
      BY <1>1 DEF CirclePush
  <2> QED
      BY <1>0, <1>1, <2>1, GrownKeeps, PlacedAppends
<1>2. CASE q.mCount < q.mMaxCount
  <2>1. CirclePush(q, v) = Placed(q, v)
      BY <1>0, <1>2 DEF CirclePush
  <2> QED
      BY <1>0, <1>2, <2>1, PlacedAppends
<1> QED
    BY <1>0, <1>1, <1>2

\* pop() takes the oldest task.
LEMMA CirclePopTakes ==
    ASSUME NEW q, CircleOK(q), q.mCount > 0
    PROVE  /\ CircleOK(CirclePop(q)) /\ CircleItems(q) # <<>>
           /\ Head(CircleItems(q)) = CircleTop(q)
           /\ CircleItems(CirclePop(q)) = Tail(CircleItems(q))
<1>1. PICK n, h, c, l, e : /\ n = q.mMaxCount /\ h = q.mHead /\ c = q.mCount /\ l = q.mTail
                           /\ e = q.mEntries
    OBVIOUS
<1>2. /\ n \in Nat \ {0} /\ h \in 0 .. (n - 1) /\ l \in 0 .. (n - 1) /\ c \in 0 .. n /\ c > 0
      /\ e \in [0 .. (n - 1) -> Entries] /\ l = Around(h + c, n)
    BY <1>1 DEF CircleOK
<1>3. (h + 1) % n = Around(h + 1, n) /\ Around(h + 1, n) \in 0 .. (n - 1)
  <2>1. h + 1 \in 0 .. (2 * n - 1)
      BY <1>2
  <2> QED
      BY <1>2, <2>1, ModIsAround
<1>4. PICK r : r = CirclePop(q)
    OBVIOUS
<1>5. r = [mEntries |-> e, mHead |-> Around(h + 1, n), mTail |-> l,
           mCount |-> c - 1, mMaxCount |-> n]
    BY <1>1, <1>3, <1>4 DEF CirclePop
<1>6. /\ r.mEntries = e /\ r.mHead = Around(h + 1, n) /\ r.mTail = l
      /\ r.mCount = c - 1 /\ r.mMaxCount = n
    BY <1>5
<1>7. ASSUME NEW k \in 0 .. (c - 1)
      PROVE  Around(Around(h + 1, n) + k, n) = Around(h + k + 1, n)
  <2>1. k \in 0 .. n /\ k < n
      BY <1>2
  <2> QED
      BY <1>2, <2>1, AroundFacts
<1>8. l = Around(Around(h + 1, n) + (c - 1), n) /\ c - 1 \in 0 .. n
  <2>1. c - 1 \in 0 .. (c - 1) /\ c - 1 \in 0 .. n /\ h + (c - 1) + 1 = h + c
      BY <1>2
  <2>2. Around(Around(h + 1, n) + (c - 1), n) = Around(h + (c - 1) + 1, n)
      BY <1>7, <2>1
  <2> QED
      BY <1>2, <2>1, <2>2
<1>9. CircleOK(r)
    BY <1>2, <1>3, <1>5, <1>6, <1>8 DEF CircleOK
<1>10. /\ CircleItems(q) \in Seq(Entries) /\ Len(CircleItems(q)) = c
       /\ \A i \in 1 .. c : CircleItems(q)[i] = e[Around(h + i - 1, n)]
    BY <1>1, ItemsSeq
<1>11. /\ CircleItems(r) \in Seq(Entries) /\ Len(CircleItems(r)) = c - 1
       /\ \A i \in 1 .. (c - 1) : CircleItems(r)[i] = e[Around(Around(h + 1, n) + i - 1, n)]
    BY <1>6, <1>9, ItemsSeq
<1>12. CircleItems(q) # <<>>
    BY <1>2, <1>10, EmptySeq
<1>13. Head(CircleItems(q)) = CircleItems(q)[1]
    BY <1>10, <1>12
<1>14. Head(CircleItems(q)) = CircleTop(q)
  <2>1. 1 \in 1 .. c /\ Around(h + 1 - 1, n) = h
      BY <1>2 DEF Around
  <2> QED
      BY <1>1, <1>10, <1>13, <2>1 DEF CircleTop
<1>15. /\ Tail(CircleItems(q)) \in Seq(Entries) /\ Len(Tail(CircleItems(q))) = c - 1
       /\ \A i \in 1 .. (c - 1) : Tail(CircleItems(q))[i] = CircleItems(q)[i + 1]
    BY <1>10, <1>12, HeadTailProperties
<1>16. ASSUME NEW i \in 1 .. (c - 1) PROVE CircleItems(r)[i] = Tail(CircleItems(q))[i]
  <2>1. /\ i + 1 \in 1 .. c /\ i - 1 \in 0 .. (c - 1)
        /\ Around(h + 1, n) + i - 1 = Around(h + 1, n) + (i - 1)
        /\ h + (i + 1) - 1 = h + (i - 1) + 1
      BY <1>2, <1>3
  <2>2. Around(Around(h + 1, n) + (i - 1), n) = Around(h + (i - 1) + 1, n)
      BY <1>7, <2>1
  <2>3. CircleItems(q)[i + 1] = e[Around(h + (i + 1) - 1, n)]
      BY <1>10, <2>1
  <2>4. CircleItems(r)[i] = e[Around(Around(h + 1, n) + (i - 1), n)]
      BY <1>11, <2>1
  <2> QED
      BY <1>15, <2>1, <2>2, <2>3, <2>4
<1>17. CircleItems(r) = Tail(CircleItems(q))
    BY <1>11, <1>15, <1>16, SeqEqual
<1> QED
    BY <1>4, <1>9, <1>12, <1>14, <1>17

\* A new executor: an empty ring, and nothing popped
LEMMA ExecutorInvInit == ExecutorInit => ExecutorInv /\ TaskChannel!Init
<1> SUFFICES ASSUME ExecutorInit PROVE ExecutorInv /\ TaskChannel!Init
    OBVIOUS
<1>1. InitCount \in Nat \ {0} /\ MaxTasks \in Nat
    BY ExecutorAssumption
<1>2. mQueue = [mEntries |-> [i \in 0 .. (InitCount - 1) |-> Junk],
                mHead |-> 0, mTail |-> 0, mCount |-> 0, mMaxCount |-> InitCount]
    BY DEF ExecutorInit, NewCircle
<1>3. CircleOK(mQueue) /\ mQueue.mCount = 0
  <2>1. [i \in 0 .. (InitCount - 1) |-> Junk] \in [0 .. (InitCount - 1) -> Entries]
      BY DEF Entries
  <2>2. 0 \in 0 .. (InitCount - 1) /\ 0 \in 0 .. InitCount /\ 0 = Around(0 + 0, InitCount)
      BY <1>1 DEF Around
  <2> QED
      BY <1>1, <1>2, <2>1, <2>2 DEF CircleOK
<1>4. Queued = <<>>
    BY <1>3, ItemsSeq, EmptySeq DEF Queued
<1> QED
    BY <1>1, <1>3, <1>4 DEF ExecutorInit, ExecutorInv, LoopSleepsIdle, TaskChannel!Init

\* What a push does to the channel and to the event loop
LEMMA TaskPushed ==
    ASSUME ExecutorInv, NEW v \in Tasks, mQueue' = CirclePush(mQueue, v), loop' = Awake,
           executed' \in [Clients -> 0 .. MaxTasks], popped' = popped
    PROVE  ExecutorInv' /\ TaskChannel!Push(v)
<1>1. /\ CircleOK(mQueue)' /\ CircleItems(mQueue') = Append(CircleItems(mQueue), v)
      /\ mQueue'.mCount = mQueue.mCount + 1 /\ mQueue.mCount \in Nat
  <2>1. CircleOK(CirclePush(mQueue, v))
      BY CirclePushAppends DEF ExecutorInv
  <2>2. CircleOK(mQueue)'
      BY <2>1 DEF CircleOK, Entries, Around, Tasks, Stop, Junk
  <2> QED
      BY <2>2, CirclePushAppends DEF ExecutorInv
<1>2. loop' = [pc |-> loop'.pc, task |-> loop'.task] /\ loop'.pc # "wait"
    BY DEF Awake, ExecutorInv
<1>3. mQueue'.mCount > 0
    BY <1>1
<1>4. ExecutorInv'
    BY <1>1, <1>2, <1>3 DEF ExecutorInv, LoopSleepsIdle
<1>5. Queued' = Append(Queued, v)
    BY <1>1 DEF Queued, CircleItems
<1> QED
    BY <1>4, <1>5 DEF TaskChannel!Push

\* A step that touches neither the queue nor what was popped
LEMMA ExecutorQuiet ==
    ASSUME ExecutorInv, UNCHANGED <<mQueue, executed, popped>>,
           loop' = [pc |-> loop'.pc, task |-> loop'.task],
           loop'.pc = "wait" => mQueue.mCount = 0 /\ mIsShutdown' = 0,
           loop'.pc = "pop" /\ mIsShutdown' # 0 => mQueue.mCount > 0
    PROVE  ExecutorInv' /\ UNCHANGED TaskChannel!chanVars
<1>1. CircleOK(mQueue)'
    BY DEF ExecutorInv, CircleOK, Entries, Around, Tasks, Stop, Junk
<1>2. Queued' = Queued
    BY DEF Queued, CircleItems
<1> QED
    BY <1>1, <1>2 DEF ExecutorInv, LoopSleepsIdle, TaskChannel!chanVars

\* The body of shutdown()
LEMMA ShutdownDone ==
    ASSUME ExecutorInv, DoShutdown, UNCHANGED <<executed, popped>>
    PROVE  ExecutorInv' /\ ((\E v \in Tasks : TaskChannel!Push(v)) \/ UNCHANGED TaskChannel!chanVars)
<1>1. CASE mIsShutdown = 0
  <2>1. Stop \in Tasks /\ mQueue' = CirclePush(mQueue, Stop) /\ loop' = Awake
      BY <1>1 DEF DoShutdown, Tasks
  <2>2. ExecutorInv' /\ TaskChannel!Push(Stop)
      BY <2>1, TaskPushed DEF ExecutorInv
  <2> QED
      BY <2>1, <2>2
<1>2. CASE mIsShutdown # 0
  <2>1. UNCHANGED <<mIsShutdown, mQueue, loop>>
      BY <1>2 DEF DoShutdown
  <2> QED
      BY <2>1, ExecutorQuiet DEF ExecutorInv, LoopSleepsIdle
<1> QED
    BY <1>1, <1>2

\* Every step keeps the invariant and is a step of the channel or changes
\* nothing of it.
LEMMA ExecutorStep ==
    ASSUME ExecutorInv, [ExecutorNext]_executorVars
    PROVE  ExecutorInv' /\ [TaskChannel!Next]_TaskChannel!chanVars
<1>0. /\ loop = [pc |-> loop.pc, task |-> loop.task] /\ LoopSleepsIdle
      /\ loop.pc = "pop" /\ mIsShutdown # 0 => mQueue.mCount > 0
      /\ mQueue.mCount \in Nat /\ executed \in [Clients -> 0 .. MaxTasks]
    BY DEF ExecutorInv, CircleOK
<1>1. ASSUME NEW c \in Clients, Execute(c)
      PROVE  ExecutorInv' /\ \E v \in Tasks : TaskChannel!Push(v)
  <2>1. /\ executed[c] < MaxTasks /\ executed' = [executed EXCEPT ![c] = @ + 1]
        /\ mQueue' = CirclePush(mQueue, <<c, executed[c] + 1>>) /\ loop' = Awake
        /\ popped' = popped
      BY <1>1 DEF Execute
  <2>2. executed[c] + 1 \in 1 .. MaxTasks /\ executed' \in [Clients -> 0 .. MaxTasks]
      BY <1>0, <2>1, ExecutorAssumption
  <2>3. <<c, executed[c] + 1>> \in Tasks
      BY <2>2 DEF Tasks
  <2> QED
      BY <2>1, <2>2, <2>3, TaskPushed
<1>2. CASE Shutdown
    BY <1>2, ShutdownDone DEF Shutdown, TaskChannel!Next
<1>3. CASE LoopTest
  <2>1. PICK p : p = IF mIsShutdown = 0 THEN "pop" ELSE "end"
      OBVIOUS
  <2>2. loop' = [pc |-> p, task |-> loop.task] /\ UNCHANGED <<mQueue, mIsShutdown, executed, popped>>
      BY <1>0, <1>3, <2>1 DEF LoopTest
  <2> QED
      BY <2>1, <2>2, ExecutorQuiet
<1>4. CASE LoopWait
  <2>1. /\ loop' = [pc |-> "wait", task |-> loop.task] /\ mQueue.mCount = 0 /\ loop.pc = "pop"
        /\ UNCHANGED <<mQueue, mIsShutdown, executed, popped>>
      BY <1>0, <1>4 DEF LoopWait
  <2> QED
      BY <1>0, <2>1, ExecutorQuiet
<1>5. CASE LoopPop /\ mQueue.mCount > 0
  <2>1. /\ loop' = [pc |-> "hand", task |-> CircleTop(mQueue)]
        /\ popped' = Append(popped, CircleTop(mQueue)) /\ mQueue' = CirclePop(mQueue)
        /\ UNCHANGED executed
      BY <1>5 DEF LoopPop
  <2>2. /\ CircleOK(CirclePop(mQueue)) /\ CircleItems(mQueue) # <<>>
        /\ Head(CircleItems(mQueue)) = CircleTop(mQueue)
        /\ CircleItems(CirclePop(mQueue)) = Tail(CircleItems(mQueue))
      BY <1>5, CirclePopTakes DEF ExecutorInv
  <2>3. CircleOK(mQueue)'
      BY <2>1, <2>2 DEF CircleOK, Entries, Around, Tasks, Stop, Junk
  <2>4. ExecutorInv'
      BY <1>0, <2>1, <2>3 DEF ExecutorInv, LoopSleepsIdle
  <2>5. Queued' = Tail(Queued) /\ Queued # <<>> /\ Head(Queued) = CircleTop(mQueue)
      BY <2>1, <2>2 DEF Queued, CircleItems
  <2>6. TaskChannel!Take
      BY <2>1, <2>5 DEF TaskChannel!Take
  <2> QED
      BY <2>4, <2>6 DEF TaskChannel!Next
<1>6. CASE LoopPop /\ ~(mQueue.mCount > 0)
  <2>1. /\ loop' = [pc |-> "hand", task |-> NullTask]
        /\ UNCHANGED <<mQueue, mIsShutdown, executed, popped>>
      BY <1>6 DEF LoopPop
  <2> QED
      BY <2>1, ExecutorQuiet
<1>7. CASE LoopHand
  <2>1. /\ loop' = [pc |-> "test", task |-> NullTask]
        /\ UNCHANGED <<mQueue, mIsShutdown, executed, popped>>
      BY <1>7 DEF LoopHand
  <2> QED
      BY <2>1, ExecutorQuiet
<1>8. CASE LoopEnd
  <2>1. loop' = [pc |-> "signal", task |-> loop.task] /\ UNCHANGED <<mQueue, executed, popped>>
      BY <1>0, <1>8 DEF LoopEnd
  <2> QED
      BY <2>1, ExecutorQuiet
<1>9. CASE LoopSignal
  <2>1. loop' = [pc |-> "ended", task |-> loop.task] /\ UNCHANGED <<mQueue, executed, popped>>
      BY <1>0, <1>9 DEF LoopSignal
  <2> QED
      BY <2>1, ExecutorQuiet
<1>10. CASE DtorShutdown
    BY <1>10, ShutdownDone DEF DtorShutdown, TaskChannel!Next
<1>11. CASE DtorTest \/ DtorWait \/ DtorWoken \/ UNCHANGED executorVars
  <2>1. UNCHANGED <<mQueue, mIsShutdown, executed, loop, popped>>
      BY <1>11 DEF DtorTest, DtorWait, DtorWoken, executorVars
  <2> QED
      BY <1>0, <2>1, ExecutorQuiet DEF LoopSleepsIdle
<1> QED
    BY <1>1, <1>2, <1>3, <1>4, <1>5, <1>6, <1>7, <1>8, <1>9, <1>10, <1>11
       DEF ExecutorNext, LoopStep, DtorStep, TaskChannel!Next

\* For any number of clients and tasks: SP_BlockingQueue, through wrap-around and
\* growth of its SP_CircleQueue, hands the tasks to the event loop in the order
\* in which execute() and shutdown() queued them, each once.
THEOREM ExecutorRefinement == ExecutorSpec => TasksInOrder
<1>1. ExecutorInit => ExecutorInv /\ TaskChannel!Init
    BY ExecutorInvInit
<1>2. ExecutorInv /\ [ExecutorNext]_executorVars => ExecutorInv' /\ [TaskChannel!Next]_TaskChannel!chanVars
    BY ExecutorStep
<1> QED
    BY <1>1, <1>2, PTL DEF ExecutorSpec, TasksInOrder, TaskChannel!Spec

\* The event loop never sleeps on a task or on a shutdown: whichever way execute()
\* and shutdown() fall between the test of the length and the wait of pop().
THEOREM ExecutorAwake == ExecutorSpec => []LoopSleepsIdle
<1>1. ExecutorInit => ExecutorInv
    BY ExecutorInvInit
<1>2. ExecutorInv /\ [ExecutorNext]_executorVars => ExecutorInv'
    BY ExecutorStep
<1>3. ExecutorInv => LoopSleepsIdle
    BY DEF ExecutorInv
<1> QED
    BY <1>1, <1>2, <1>3, PTL DEF ExecutorSpec
=============================================================================
