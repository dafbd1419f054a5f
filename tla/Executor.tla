------------------------------ MODULE Executor ------------------------------
(***************************************************************************)
(* SP_Executor of spserver/spexecutor.cpp with its SP_BlockingQueue        *)
(* (sputils.cpp): clients queue tasks, one event-loop thread pops them and *)
(* gives each to the thread pool, shutdown() stops the loop by a last      *)
(* task.                                                                   *)
(*                                                                         *)
(* push and the two halves of pop around the wait are critical sections of *)
(* the queue's mutex and single steps.  shutdown() is one too: the queue's *)
(* mutex, which it takes under mMutex, is never held across a step.  The   *)
(* destructor and the end of eventLoop are split where one thread can see  *)
(* what the other has done so far.                                         *)
(***************************************************************************)
EXTENDS CircleQueue, FiniteSets

CONSTANTS
    Clients,        \* the threads that call execute
    MaxTasks,       \* bound: calls of execute by each of them
    InitCount       \* mMaxCount of a new SP_CircleQueue, 8 in the code

ASSUME ExecutorAssumption ==
    MaxTasks \in Nat /\ InitCount \in Nat \ {0}

Stop == <<"stop", 0>>               \* the task that shutdown() queues
Tasks == (Clients \X (1 .. MaxTasks)) \cup {Stop}
NullTask == <<>>                    \* pop() of an empty queue

VARIABLES
    mQueue,         \* the SP_CircleQueue inside the blocking queue
    mIsShutdown,    \* the member of that name
    executed,       \* per client: calls of execute made
    loop,           \* the event loop: where it is, and the task it popped
    popped,         \* the tasks popped, in order
    dtor            \* where the destructor is

executorVars == <<mQueue, mIsShutdown, executed, loop, popped, dtor>>

\* The constructor; nobody learns that the thread of eventLoop was not made
\* ("none").
ExecutorInit ==
    /\ mQueue = NewCircle(InitCount)
    /\ mIsShutdown = 0
    /\ executed = [c \in Clients |-> 0]
    /\ loop \in [pc : {"test", "none"}, task : {NullTask}]
    /\ popped = <<>>
    /\ dtor = "none"

\* sp_thread_cond_signal of the queue's condition
Awake == IF loop.pc = "wait" THEN [loop EXCEPT !.pc = "woken"] ELSE loop

\* execute( task ): SP_BlockingQueue::push
Execute(c) ==
    /\ dtor = "none"
    /\ executed[c] < MaxTasks
    /\ executed' = [executed EXCEPT ![c] = @ + 1]
    /\ mQueue' = CirclePush(mQueue, <<c, executed[c] + 1>>)
    /\ loop' = Awake
    /\ UNCHANGED <<mIsShutdown, popped, dtor>>

\* mMutex is held at the end of eventLoop.
MutexFree == loop.pc # "signal"

\* Fault: shutdown() does not queue the task that wakes the event loop.
DoShutdownQuiet ==
    /\ MutexFree
    /\ mIsShutdown' = IF mIsShutdown = 0 THEN 1 ELSE mIsShutdown
    /\ UNCHANGED <<mQueue, loop>>

\* The body of shutdown()
DoShutdown ==
    /\ MutexFree
    /\ IF mIsShutdown = 0
       THEN mIsShutdown' = 1 /\ mQueue' = CirclePush(mQueue, Stop) /\ loop' = Awake
       ELSE UNCHANGED <<mIsShutdown, mQueue, loop>>

\* shutdown() called by a client before the executor is destroyed
Shutdown ==
    /\ dtor = "none"
    /\ mIsShutdown = 0
    /\ DoShutdown
    /\ UNCHANGED <<executed, popped, dtor>>

-----------------------------------------------------------------------------
(* eventLoop *)

LoopTest ==
    /\ loop.pc = "test"
    /\ loop' = [loop EXCEPT !.pc = IF mIsShutdown = 0 THEN "pop" ELSE "end"]
    /\ UNCHANGED <<mQueue, mIsShutdown, executed, popped, dtor>>

\* SP_BlockingQueue::pop up to the wait ...
LoopWait ==
    /\ loop.pc = "pop"
    /\ mQueue.mCount = 0
    /\ loop' = [loop EXCEPT !.pc = "wait"]
    /\ UNCHANGED <<mQueue, mIsShutdown, executed, popped, dtor>>

\* ... and from there: the length is tested once, not after the wait.
Ready == loop.pc = "woken" \/ (loop.pc = "pop" /\ mQueue.mCount > 0)

LoopPop ==
    /\ Ready
    /\ IF mQueue.mCount > 0
       THEN /\ loop' = [pc |-> "hand", task |-> CircleTop(mQueue)]
            /\ popped' = Append(popped, CircleTop(mQueue))
            /\ mQueue' = CirclePop(mQueue)
       ELSE /\ loop' = [pc |-> "hand", task |-> NullTask]
            /\ UNCHANGED <<popped, mQueue>>
    /\ UNCHANGED <<mIsShutdown, executed, dtor>>

\* The task is given to the pool, or run here when there is one thread or the
\* pool cannot make one.
LoopHand ==
    /\ loop.pc = "hand"
    /\ loop' = [pc |-> "test", task |-> NullTask]
    /\ UNCHANGED <<mQueue, mIsShutdown, executed, popped, dtor>>

\* The end of eventLoop: mIsShutdown becomes 2 under mMutex ...
LoopEnd ==
    /\ loop.pc = "end"
    /\ mIsShutdown' = 2
    /\ loop' = [loop EXCEPT !.pc = "signal"]
    /\ UNCHANGED <<mQueue, executed, popped, dtor>>

\* ... then mCond is signalled and mMutex released.
LoopSignal ==
    /\ loop.pc = "signal"
    /\ loop' = [loop EXCEPT !.pc = "ended"]
    /\ dtor' = IF dtor = "wait" THEN "woken" ELSE dtor
    /\ UNCHANGED <<mQueue, mIsShutdown, executed, popped>>

-----------------------------------------------------------------------------
(* The destructor *)

DtorShutdown ==
    /\ dtor = "none"
    /\ DoShutdown
    /\ dtor' = "test"
    /\ UNCHANGED <<executed, popped>>

\* "while( 2 != mIsShutdown )", read without the mutex
DtorTest ==
    /\ dtor = "test"
    /\ dtor' = IF mIsShutdown = 2 THEN "destroy" ELSE "lock"
    /\ UNCHANGED <<mQueue, mIsShutdown, executed, loop, popped>>

DtorWait ==
    /\ dtor = "lock" /\ MutexFree
    /\ dtor' = "wait"
    /\ UNCHANGED <<mQueue, mIsShutdown, executed, loop, popped>>

DtorWoken ==
    /\ dtor = "woken" /\ MutexFree
    /\ dtor' = "test"
    /\ UNCHANGED <<mQueue, mIsShutdown, executed, loop, popped>>

-----------------------------------------------------------------------------

LoopStep ==
    LoopTest \/ LoopWait \/ LoopPop \/ LoopHand \/ LoopEnd \/ LoopSignal

DtorStep == DtorShutdown \/ DtorTest \/ DtorWait \/ DtorWoken

ExecutorNext ==
    \/ \E c \in Clients : Execute(c)
    \/ Shutdown
    \/ LoopStep
    \/ DtorStep

ExecutorSpec == ExecutorInit /\ [][ExecutorNext]_executorVars

-----------------------------------------------------------------------------
(* Properties *)

Queued == CircleItems(mQueue)

TaskChannel ==
    INSTANCE MessageChannel WITH queue <- Queued, taken <- popped, Items <- Tasks

\* Through wrap-around and growth of the SP_CircleQueue the tasks leave the
\* queue in the order in which execute() and shutdown() put them there, each
\* once.
TasksInOrder == TaskChannel!Spec

\* shutdown() stops the event loop, if there is one: its last task is there to
\* "signal the event loop to wake up".
ShutdownStopsLoop == (mIsShutdown = 1 /\ loop.pc # "none") ~> (loop.pc = "ended")
=============================================================================
