---------------------------- MODULE MCLifecycle ----------------------------
(***************************************************************************)
(* How servers start, work and stop, and how their threads hand each other *)
(* work: the TLC instances of ThreadPool, Executor, LFServer, ServerLoop,  *)
(* Dispatcher and MsgQueue in one run.  The parts do not interact here;    *)
(* `part' says which one this behaviour is about, and the others stay as   *)
(* they are.                                                               *)
(***************************************************************************)
EXTENDS ThreadPool, Executor, LFServer, ServerLoop, Dispatcher, MsgQueue

VARIABLE part

lifeVars == <<poolVars, executorVars, lf, sl, dp, vars, part>>

\* The parts a behaviour is not about start in one of their initial states.
LifecycleInit ==
    /\ part \in {"pool", "executor", "lf", "loop", "dispatcher", "queue"}
    /\ PoolInit /\ Init
    /\ ExecutorInit /\ (part # "executor" => loop.pc = "test")
    /\ IF part = "lf" THEN LFInit ELSE lf = NewLF
    /\ IF part = "loop" THEN ServerLoopInit ELSE sl = NewServer
    /\ IF part = "dispatcher" THEN DispatcherInit ELSE dp = NewPushes

InPool == part = "pool" /\ UNCHANGED <<executorVars, lf, sl, dp, vars, part>>
InExecutor == part = "executor" /\ UNCHANGED <<poolVars, lf, sl, dp, vars, part>>
InLF == part = "lf" /\ UNCHANGED <<poolVars, executorVars, sl, dp, vars, part>>
InLoop == part = "loop" /\ UNCHANGED <<poolVars, executorVars, lf, dp, vars, part>>
InDispatcher == part = "dispatcher" /\ UNCHANGED <<poolVars, executorVars, lf, sl, vars, part>>
InQueue == part = "queue" /\ UNCHANGED <<poolVars, executorVars, lf, sl, dp, part>>

LifecycleNext ==
    \/ PoolNext /\ InPool
    \/ ExecutorNext /\ InExecutor
    \/ LFNext /\ InLF
    \/ ServerLoopNext /\ InLoop
    \/ DispatcherNext /\ InDispatcher
    \/ Next /\ InQueue

\* Threads that can run do, and tasks return; the owner finishes a destructor
\* that it has begun.  Nobody has to cause an event, to push or to shut down.
LifecycleSpec ==
    /\ LifecycleInit /\ [][LifecycleNext]_lifeVars
    /\ PoolFairness /\ QueueFairness
    /\ WF_lifeVars(LoopStep /\ InExecutor)
    /\ \A t \in LFThreads : WF_lifeVars(LFThread(t) /\ InLF)
    /\ WF_lifeVars(LFOwner /\ lf.user \notin {"up", "failed"} /\ InLF)
    /\ WF_lifeVars(LoopThread /\ InLoop)
    /\ WF_lifeVars(WorkExecutor /\ InLoop)
    /\ WF_lifeVars(ActThread /\ InLoop)
    /\ WF_lifeVars(Destroy /\ sl.user # "up" /\ InLoop)
=============================================================================
