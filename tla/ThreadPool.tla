----------------------------- MODULE ThreadPool -----------------------------
(***************************************************************************)
(* SP_ThreadPool of spserver/spthreadpool.cpp: a pool that creates threads *)
(* on demand, parks a thread that has finished its job in mThreadList and  *)
(* hands the next job to the thread parked last.                           *)
(*                                                                         *)
(* There are two kinds of lock.  mMainMutex guards the pool; it is held    *)
(* over several steps only by dispatch and by the destructor, while they   *)
(* wait for the mutex of a thread (`main' names the holder).  A thread     *)
(* holds its own mMutex from before saveThread, where it takes mMainMutex, *)
(* until it waits on its mCond: the two orders of locking meet.  All other *)
(* critical sections are single steps.  Condition variables wake only when *)
(* signalled.                                                              *)
(***************************************************************************)
EXTENDS Integers, Sequences, FiniteSets, Functions

CONSTANTS
    Threads,        \* SP_Thread_t structures
    MaxThreads,     \* mMaxThreads
    Dispatchers,    \* the threads that call dispatch
    MaxJobs         \* bound: calls of dispatch

ASSUME PoolAssumption ==
    /\ IsFiniteSet(Threads)
    /\ MaxThreads \in Nat \ {0}
    /\ MaxJobs \in Nat

Jobs == 1 .. MaxJobs

VARIABLES
    mThreadList,    \* the parked threads; mIndex is its length
    mTotal,         \* the member of that name
    poolShutdown,   \* the member mIsShutdown
    main,           \* {} or the one client, or "dtor", that holds mMainMutex
    thread,         \* per thread: where it is, and its mFunc and mArg
    client,         \* per client: where in dispatch it is, and with what
    poolDtor,       \* where the destructor is, and its loop counter
    calls,          \* the number of calls of dispatch
    ran             \* per job: how often it was run

poolVars == <<mThreadList, mTotal, poolShutdown, main, thread, client, poolDtor, calls, ran>>

mIndex == Len(mThreadList)

PoolInit ==
    /\ mThreadList = <<>> /\ mTotal = 0 /\ poolShutdown = FALSE
    /\ main = {}
    /\ thread = [t \in Threads |-> [pc |-> "unborn", job |-> 0]]
    /\ client = [c \in Dispatchers |-> [pc |-> "out", job |-> 0, t |-> 0]]
    /\ poolDtor = [pc |-> "none", i |-> 0]
    /\ calls = 0
    /\ ran = [j \in Jobs |-> 0]

\* Fault: saveThread is called before the thread's own mutex is taken.
OwnLockedNever(t) == FALSE

\* A thread holds its own mutex at these places.
OwnLocked(t) == thread[t].pc \in {"save", "park"}

\* sp_thread_cond_signal( &thread->mCond ), with the thread's mutex, if it waits
Signalled(t) ==
    IF thread[t].pc = "waiting" THEN [thread EXCEPT ![t].pc = "woken"] ELSE thread

-----------------------------------------------------------------------------
(* dispatch *)

Call(c) ==
    /\ client[c].pc = "out"
    /\ calls < MaxJobs
    /\ poolDtor.pc = "none"
    /\ calls' = calls + 1
    /\ client' = [client EXCEPT ![c].pc = "enter", ![c].job = calls + 1]
    /\ UNCHANGED <<mThreadList, mTotal, poolShutdown, main, thread, poolDtor, ran>>

\* The predicate of the loop around the wait for mIdleCond.
MustWait == mIndex <= 0 /\ mTotal >= MaxThreads

\* The first test, and every test after a wake-up.
DispatchWait(c) ==
    /\ client[c].pc = "enter" /\ main = {}
    /\ MustWait
    /\ client' = [client EXCEPT ![c].pc = "idleWait"]
    /\ UNCHANGED <<mThreadList, mTotal, poolShutdown, main, thread, poolDtor, calls, ran>>

\* The thread made next: which name it gets makes no difference.
Unborn == {t \in Threads : thread[t].pc = "unborn"}

DispatchCreate(c) ==
    /\ client[c].pc = "enter" /\ main = {}
    /\ ~MustWait /\ mIndex <= 0
    /\ Unborn # {}
    /\ LET t == CHOOSE u \in Unborn : TRUE
       IN  thread' = [thread EXCEPT ![t] = [pc |-> "top", job |-> client[c].job]]
    /\ mTotal' = mTotal + 1
    /\ client' = [client EXCEPT ![c].pc = "out"]
    /\ UNCHANGED <<mThreadList, poolShutdown, main, poolDtor, calls, ran>>

\* sp_thread_create fails and dispatch returns -1: SP_Executor::eventLoop then
\* runs the job itself.
DispatchFails(c) ==
    /\ client[c].pc = "enter" /\ main = {}
    /\ ~MustWait /\ mIndex <= 0
    /\ client' = [client EXCEPT ![c].pc = "out"]
    /\ ran' = [ran EXCEPT ![client[c].job] = @ + 1]
    /\ UNCHANGED <<mThreadList, mTotal, poolShutdown, main, thread, poolDtor, calls>>

\* "mIndex--": the list without the thread that was parked last
Unparked == SubSeq(mThreadList, 1, mIndex - 1)

\* A parked thread gets the job; mMainMutex stays locked ...
DispatchReuse(c) ==
    /\ client[c].pc = "enter" /\ main = {}
    /\ mIndex > 0
    /\ mThreadList' = Unparked
    /\ LET t == mThreadList[mIndex]
       IN  /\ thread' = [thread EXCEPT ![t].job = client[c].job]
           /\ client' = [client EXCEPT ![c].pc = "signal", ![c].t = t]
    /\ main' = {c}
    /\ UNCHANGED <<mTotal, poolShutdown, poolDtor, calls, ran>>

\* ... until its mutex was locked to signal it.
DispatchSignal(c) ==
    /\ client[c].pc = "signal"
    /\ ~OwnLocked(client[c].t)
    /\ thread' = Signalled(client[c].t)
    /\ client' = [client EXCEPT ![c].pc = "out", ![c].t = 0]
    /\ main' = {}
    /\ UNCHANGED <<mThreadList, mTotal, poolShutdown, poolDtor, calls, ran>>

-----------------------------------------------------------------------------
(* wrapperFunc and saveThread *)

\* The test at the top of the loop.
Top(t) ==
    /\ thread[t].pc = "top"
    /\ thread' = [thread EXCEPT ![t].pc = IF poolShutdown THEN "exit" ELSE "run"]
    /\ UNCHANGED <<mThreadList, mTotal, poolShutdown, main, client, poolDtor, calls, ran>>

\* thread->mFunc( thread->mArg ) and the test after it; mFunc and mArg keep
\* their values.
RunJob(t) ==
    /\ thread[t].pc = "run"
    /\ ran' = [ran EXCEPT ![thread[t].job] = @ + 1]
    /\ thread' = [thread EXCEPT ![t].pc = IF poolShutdown THEN "exit" ELSE "lockOwn"]
    /\ UNCHANGED <<mThreadList, mTotal, poolShutdown, main, client, poolDtor, calls>>

\* Nobody holds the thread's mutex for longer than a step but the thread.
LockOwn(t) ==
    /\ thread[t].pc = "lockOwn"
    /\ thread' = [thread EXCEPT ![t].pc = "save"]
    /\ UNCHANGED <<mThreadList, mTotal, poolShutdown, main, client, poolDtor, calls, ran>>

IdleWaiters == {c \in Dispatchers : client[c].pc = "idleWait"}

\* Fault: mIdleCond is signalled only by the first thread to park.
SignalIdleOnce ==
    IF IdleWaiters = {} \/ mIndex > 0 \/ mTotal > 1 THEN UNCHANGED client
    ELSE \E c \in IdleWaiters : client' = [client EXCEPT ![c].pc = "enter"]

\* sp_thread_cond_signal( &mIdleCond ) wakes one of the waiting clients.
SignalIdle ==
    IF IdleWaiters = {} THEN UNCHANGED client
    ELSE \E c \in IdleWaiters : client' = [client EXCEPT ![c].pc = "enter"]

\* saveThread, the thread's own mutex held; -1 when mThreadList is full
SaveThread(t) ==
    /\ thread[t].pc = "save" /\ main = {}
    /\ mIndex < MaxThreads
    /\ mThreadList' = Append(mThreadList, t)
    /\ SignalIdle
    /\ poolDtor' = IF poolDtor.pc = "fullWait" /\ mIndex + 1 >= mTotal
                   THEN [poolDtor EXCEPT !.pc = "fullWoken"] ELSE poolDtor
    /\ thread' = [thread EXCEPT ![t].pc = "park"]
    /\ UNCHANGED <<mTotal, poolShutdown, main, calls, ran>>

\* The parked thread waits on its mCond, which releases its mutex.
CondWait(t) ==
    /\ thread[t].pc = "park"
    /\ thread' = [thread EXCEPT ![t].pc = "waiting"]
    /\ UNCHANGED <<mThreadList, mTotal, poolShutdown, main, client, poolDtor, calls, ran>>

\* It was signalled, gets its mutex back and releases it.
Wake(t) ==
    /\ thread[t].pc = "woken"
    /\ thread' = [thread EXCEPT ![t].pc = "top"]
    /\ UNCHANGED <<mThreadList, mTotal, poolShutdown, main, client, poolDtor, calls, ran>>

\* The thread ends.
Exit(t) ==
    /\ thread[t].pc = "exit" /\ main = {}
    /\ mTotal' = mTotal - 1
    /\ poolDtor' = IF poolDtor.pc = "emptyWait" /\ mTotal - 1 <= 0
                   THEN [poolDtor EXCEPT !.pc = "emptyWoken"] ELSE poolDtor
    /\ thread' = [thread EXCEPT ![t].pc = "gone"]
    /\ UNCHANGED <<mThreadList, poolShutdown, main, client, calls, ran>>

-----------------------------------------------------------------------------
(* The destructor, called when no dispatch is under way or will be made *)

\* "mIndex < mTotal"
SomeBusy == mIndex < mTotal

DtorEnter ==
    /\ poolDtor.pc = "none" /\ main = {}
    /\ \A c \in Dispatchers : client[c].pc = "out"
    /\ \/ /\ SomeBusy
          /\ poolDtor' = [poolDtor EXCEPT !.pc = "fullWait"]
          /\ UNCHANGED <<poolShutdown, main>>
       \/ /\ ~SomeBusy
          /\ poolDtor' = [poolDtor EXCEPT !.pc = "signal"]
          /\ poolShutdown' = TRUE
          /\ main' = {"dtor"}
    /\ UNCHANGED <<mThreadList, mTotal, thread, client, calls, ran>>

DtorFull ==
    /\ poolDtor.pc = "fullWoken" /\ main = {}
    /\ poolDtor' = [poolDtor EXCEPT !.pc = "signal"]
    /\ poolShutdown' = TRUE
    /\ main' = {"dtor"}
    /\ UNCHANGED <<mThreadList, mTotal, thread, client, calls, ran>>

\* Signal the next thread of mThreadList, with mMainMutex and its mutex held.
DtorSignal ==
    /\ poolDtor.pc = "signal"
    /\ poolDtor.i < mIndex
    /\ ~OwnLocked(mThreadList[poolDtor.i + 1])
    /\ thread' = Signalled(mThreadList[poolDtor.i + 1])
    /\ poolDtor' = [poolDtor EXCEPT !.i = @ + 1]
    /\ UNCHANGED <<mThreadList, mTotal, poolShutdown, main, client, calls, ran>>

\* Fault: the destructor does not wait for the threads to exit.
AllGoneAlways == TRUE

\* "mTotal > 0" does not hold
AllGone == mTotal <= 0

\* Free the structures, or release mMainMutex to wait for mEmptyCond first.
DtorDrain ==
    /\ poolDtor.pc = "signal"
    /\ poolDtor.i >= mIndex
    /\ main' = {}
    /\ IF AllGone
       THEN poolDtor' = [poolDtor EXCEPT !.pc = "done"] /\ mThreadList' = <<>>
       ELSE poolDtor' = [poolDtor EXCEPT !.pc = "emptyWait"] /\ UNCHANGED mThreadList
    /\ UNCHANGED <<mTotal, poolShutdown, thread, client, calls, ran>>

DtorEmpty ==
    /\ poolDtor.pc = "emptyWoken" /\ main = {}
    /\ poolDtor' = [poolDtor EXCEPT !.pc = "done"]
    /\ mThreadList' = <<>>
    /\ UNCHANGED <<mTotal, poolShutdown, main, thread, client, calls, ran>>

-----------------------------------------------------------------------------

ClientStep(c) ==
    \/ DispatchWait(c) \/ DispatchCreate(c) \/ DispatchFails(c)
    \/ DispatchReuse(c) \/ DispatchSignal(c)

ThreadStep(t) ==
    \/ Top(t) \/ RunJob(t) \/ LockOwn(t) \/ SaveThread(t)
    \/ CondWait(t) \/ Wake(t) \/ Exit(t)

PoolDtorStep == DtorEnter \/ DtorFull \/ DtorSignal \/ DtorDrain \/ DtorEmpty

PoolNext ==
    \/ \E c \in Dispatchers : Call(c)
    \/ \E c \in Dispatchers : ClientStep(c)
    \/ \E t \in Threads : ThreadStep(t)
    \/ PoolDtorStep

PoolSpec == PoolInit /\ [][PoolNext]_poolVars

\* Every thread that can run does, and jobs return.  As calls are bounded, nobody
\* takes a mutex for ever, and a thread that waits for one can run at last.
PoolFairness ==
    /\ \A c \in Dispatchers : WF_poolVars(ClientStep(c))
    /\ \A t \in Threads : WF_poolVars(ThreadStep(t))
    /\ WF_poolVars(DtorFull \/ DtorSignal \/ DtorDrain \/ DtorEmpty)

-----------------------------------------------------------------------------
(* Properties *)

\* dispatch never makes more than mMaxThreads threads, mTotal is the number of
\* those that have not ended, and mThreadList holds each thread once: the "-1"
\* of saveThread, after which mTotal would stay too large, cannot happen.
PoolBounded ==
    /\ mTotal = Cardinality({t \in Threads : thread[t].pc \notin {"unborn", "gone"}})
    /\ mTotal <= MaxThreads
    /\ IsInjective(mThreadList)
    /\ \A t \in Threads : thread[t].pc = "save" => mIndex < MaxThreads

\* No thread sleeps on a job: before the shutdown a thread that waits on mCond
\* without being in mThreadList has a job, and the client that gave it the job
\* is about to signal it.
NoSleepingJob ==
    \A t \in Threads :
        (thread[t].pc \in {"park", "waiting"} /\ t \notin Range(mThreadList)
            /\ poolDtor.pc # "done") =>
                \E c \in Dispatchers : client[c].pc = "signal" /\ client[c].t = t

\* Every job is run at most once, although a thread keeps mFunc and mArg after
\* it has run them and its wait on mCond tests nothing.
JobsRunOnce == \A j \in Jobs : ran[j] <= 1

\* When the destructor frees the pool every thread has left it for good and
\* every job that was dispatched has been run.
DestroyedQuiet ==
    poolDtor.pc = "done" =>
        /\ \A t \in Threads : thread[t].pc \in {"unborn", "gone"}
        /\ \A j \in 1 .. calls : ran[j] = 1

\* The pool is consistent at every step, up to and after its destructor.
PoolSafe == PoolBounded /\ NoSleepingJob /\ JobsRunOnce /\ DestroyedQuiet

\* Every call of dispatch leads to a run of its job: while one waits, on whatever
\* side of the two lock orders it hangs, there comes a time when none does.
Waiting == \E j \in 1 .. calls : ran[j] = 0
DispatchedRuns == Waiting ~> ~Waiting

\* The destructor returns.
DestructorReturns == (poolDtor.pc # "none") ~> (poolDtor.pc = "done")
=============================================================================
