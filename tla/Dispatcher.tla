----------------------------- MODULE Dispatcher -----------------------------
(***************************************************************************)
(* What is pushed to SP_Dispatcher (spserver/spdispatcher.cpp) and to      *)
(* SP_IocpDispatcher (spserver/spiocpdispatcher.cpp) while they run:       *)
(* descriptors that become sessions, timers that come back until their     *)
(* handler ends them, and responses.  Everything goes through a queue to   *)
(* the loop's thread; a timer's SP_PushArg_t travels from the push queue   *)
(* to the event base (or the heap of IOCP events), from there as a task to *)
(* a worker, and back.  The loop's own life is ServerLoop.tla's.           *)
(***************************************************************************)
EXTENDS Integers, Sequences, SequencesExt, FiniteSets

CONSTANTS
    PushTimers,     \* the timers pushed
    PushFds,        \* the descriptors pushed
    PushWorkers,    \* the worker threads
    MaxKeys         \* the keys SP_SessionManager has for sessions

\* A timer is not a descriptor; mMaxThreads bounds the workers.
ASSUME DispatcherAssumption ==
    MaxKeys \in Nat /\ PushTimers \cap PushFds = {} /\ IsFiniteSet(PushWorkers)

VARIABLE dp

dpVars == <<dp>>

Idle == [step |-> "idle", timer |-> 0]

\* The queues hold what SP_PushArg_t points to: a timer or a descriptor.
NewPushes ==
    [iocp |-> FALSE, pushQueue |-> <<>>, pushed |-> {}, armed |-> {}, tasks |-> <<>>,
     worker |-> [w \in PushWorkers |-> Idle], freed |-> {}, dropped |-> {},
     sessions |-> {}, lost |-> {}, keys |-> 0, phase |-> "up"]

DispatcherInit == dp \in {NewPushes, [NewPushes EXCEPT !.iocp = TRUE]}

-----------------------------------------------------------------------------
(* push(): the caller's threads *)

\* The argument is made and queued for the loop.
Pushed(x) ==
    /\ x \notin dp.pushed /\ dp.phase # "destroyed"
    /\ dp' = [dp EXCEPT !.pushed = @ \cup {x}, !.pushQueue = Append(@, x)]

\* push( fd, handler, ioChannel, needStart )
PushFd(fd) == ~ dp.iocp /\ Pushed(fd)
IocpPushFd(fd) == dp.iocp /\ Pushed(fd)

\* push( timeout, handler )
PushTimer(t) == ~ dp.iocp /\ Pushed(t)
IocpPushTimer(t) == dp.iocp /\ Pushed(t)

-----------------------------------------------------------------------------
(* The loop's thread *)

Up == dp.phase = "up"

\* The head of the push queue, taken off it
Taken == [dp EXCEPT !.pushQueue = Tail(@)]

\* A session for the descriptor: allocKey, put, and doStart or the events.  The
\* assert on the key ends the program when there is none left.
NewSession(s, fd) == [s EXCEPT !.keys = @ + 1, !.sessions = @ \cup {fd}]

\* onPush over libevent: a session, or a timer event.  Both touch the argument.
OnPush ==
    /\ Up /\ ~ dp.iocp /\ dp.pushQueue # <<>>
    /\ LET x == Head(dp.pushQueue) IN
       \/ /\ x \in PushFds /\ dp.keys < MaxKeys
          /\ dp' = NewSession(Taken, x)
       \/ /\ x \in PushTimers
          /\ dp' = [Taken EXCEPT !.armed = @ \cup {x}]

\* onPush over a completion port: when the descriptor cannot be bound to the
\* port the session is deleted; its key and the descriptor stay taken.
IocpOnPush ==
    /\ Up /\ dp.iocp /\ dp.pushQueue # <<>>
    /\ LET x == Head(dp.pushQueue) IN
       \/ /\ x \in PushFds /\ dp.keys < MaxKeys
          /\ dp' \in {NewSession(Taken, x),
                      [Taken EXCEPT !.keys = @ + 1, !.lost = @ \cup {x}]}
       \/ /\ x \in PushTimers
          /\ dp' = [Taken EXCEPT !.armed = @ \cup {x}]

\* The timer fires once: libevent deletes the event before it calls onTimer,
\* which queues a task.
OnTimer(t) ==
    /\ Up /\ ~ dp.iocp /\ t \in dp.armed
    /\ dp' = [dp EXCEPT !.armed = @ \ {t}, !.tasks = Append(@, t)]

\* onTimeout of the IOCP loop pops the event before it calls mOnTimer.
IocpOnTimer(t) ==
    /\ Up /\ dp.iocp /\ t \in dp.armed
    /\ dp' = [dp EXCEPT !.armed = @ \ {t}, !.tasks = Append(@, t)]

-----------------------------------------------------------------------------
(* timer(), on a worker thread *)

\* The worker takes the task and remembers handler and eventArg.
TakeTask(w) ==
    /\ dp.tasks # <<>> /\ dp.worker[w] = Idle
    /\ dp' = [dp EXCEPT !.tasks = Tail(@),
                        !.worker[w] = [step |-> "handle", timer |-> Head(dp.tasks)]]

\* Fault: the argument is freed also when the handler wants the timer back.
HandedBackFreed(w) ==
    /\ dp.worker[w].step = "handle"
    /\ LET t == dp.worker[w].timer IN
       \E back \in {<<>>, <<t>>} :
          dp' = [dp EXCEPT !.worker[w].step = "respond", !.pushQueue = @ \o back,
                           !.freed = @ \cup {t}]

\* handler->handle() returns 0: the argument goes back to the push queue, and is
\* the loop's from here on; otherwise it is freed.
HandedBack(w) ==
    /\ dp.worker[w].step = "handle"
    /\ LET t == dp.worker[w].timer IN
       dp' \in {[dp EXCEPT !.worker[w].step = "respond", !.pushQueue = Append(@, t)],
                [dp EXCEPT !.worker[w].step = "respond", !.freed = @ \cup {t}]}

Timer(w) == ~ dp.iocp /\ HandedBack(w)
IocpTimer(w) == dp.iocp /\ HandedBack(w)

\* The response is queued through the eventArg that timer() remembered.
TimerRespond(w) ==
    /\ dp.worker[w].step = "respond"
    /\ dp' = [dp EXCEPT !.worker[w] = Idle]

-----------------------------------------------------------------------------
(* Shutdown: the loop ends, its executors finish what is under way, and the  *)
(* destructor deletes the SP_EventArg                                        *)

LoopEnds ==
    /\ Up
    /\ dp' = [dp EXCEPT !.phase = "ended", !.tasks = <<>>, !.dropped = ToSet(dp.tasks)]

Destroyed ==
    /\ dp.phase = "ended"
    /\ \A w \in PushWorkers : dp.worker[w] = Idle
    /\ dp' = [dp EXCEPT !.phase = "destroyed"]

DispatcherNext ==
    \/ \E fd \in PushFds : PushFd(fd) \/ IocpPushFd(fd)
    \/ \E t \in PushTimers : PushTimer(t) \/ IocpPushTimer(t)
    \/ OnPush \/ IocpOnPush
    \/ \E t \in PushTimers : OnTimer(t) \/ IocpOnTimer(t)
    \/ \E w \in PushWorkers : TakeTask(w) \/ Timer(w) \/ IocpTimer(w) \/ TimerRespond(w)
    \/ LoopEnds \/ Destroyed

DispatcherSpec == DispatcherInit /\ [][DispatcherNext]_dpVars

-----------------------------------------------------------------------------
(* Properties *)

\* How often t is in the sequence q
Times(q, t) == Cardinality({i \in DOMAIN q : q[i] = t})

If(b) == IF b THEN 1 ELSE 0

\* The argument of a timer, passed between the loop and the workers without a
\* lock, always has exactly one owner: the push queue, the armed event, the task,
\* the worker inside the handler; or it is freed, once, or dropped with the tasks
\* that the shutdown leaves.  Two owners would be two threads in one handler, or
\* an event armed in freed memory.
TimerHasOneOwner ==
    \A t \in PushTimers :
        Times(dp.pushQueue, t) + If(t \in dp.armed) + Times(dp.tasks, t)
        + Cardinality({w \in PushWorkers : dp.worker[w] = [step |-> "handle", timer |-> t]})
        + If(t \in dp.freed) + If(t \in dp.dropped)
        = If(t \in dp.pushed)
=============================================================================
