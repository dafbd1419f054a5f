------------------------------ MODULE LFServer ------------------------------
(***************************************************************************)
(* The leader/follower servers: SP_LFServer of spserver/splfserver.cpp     *)
(* over libevent, SP_IocpLFServer of spserver/spiocplfserver.cpp over an   *)
(* I/O completion port.  The threads of a pool share one event loop: the   *)
(* one that holds mMutex is the leader, takes one task or one message, or  *)
(* waits for events, and runs what it took after it let the mutex go.      *)
(*                                                                         *)
(* lf.iocp tells the two servers apart.  Events are counted, not told      *)
(* apart: one of them queues at most one task and one message.             *)
(***************************************************************************)
EXTENDS Integers, FiniteSets

CONSTANTS
    LFThreads,      \* the threads of the pool, mMaxThreads of them
    MaxLFEvents     \* bound: events of sockets and of the response queue

Nobody == "nobody"     \* the holder of a mutex that is free

ASSUME LFAssumption ==
    LFThreads # {} /\ MaxLFEvents \in Nat /\ Nobody \notin LFThreads

VARIABLE lf

lfVars == <<lf>>

\* A new server: SP_LFServer, and the same with the completion port of its
\* SP_IocpEventArg.
NewLF == [iocp |-> FALSE, mIsShutdown |-> FALSE, mIsRunning |-> FALSE,
          input |-> 0, output |-> 0, mutex |-> Nobody,
          pc |-> [t \in LFThreads |-> "none"], accept |-> "none",
          pending |-> 0, left |-> MaxLFEvents, posted |-> 0, user |-> "new"]

NewIocpLF == [NewLF EXCEPT !.iocp = TRUE]

LFInit == lf \in {NewLF, NewIocpLF}

-----------------------------------------------------------------------------
(* The owner: run(), shutdown() and the destructor *)

\* The pool is made and lfHandler dispatched mMaxThreads times.  A dispatch
\* fails when its thread cannot be made, and run() does not look: any number of
\* the threads may be there, or none.
Dispatched(s) ==
    {[s EXCEPT !.pc = [t \in LFThreads |-> IF t \in made THEN "test" ELSE "none"],
               !.user = "up"] : made \in SUBSET LFThreads}

\* SP_LFServer::run(): the events are registered; mIsRunning is never set.
\* When the port cannot be opened there is no pool, and no event either.
LFRun ==
    /\ ~ lf.iocp /\ lf.user = "new"
    /\ lf' \in Dispatched(lf) \cup {[lf EXCEPT !.user = "failed"]}

\* SP_IocpLFServer::run(): mIsRunning is set before there is a pool.  It
\* fails before or after the accept thread has been made.
IocpLFRun ==
    /\ lf.iocp /\ lf.user = "new"
    /\ lf' \in Dispatched([lf EXCEPT !.mIsRunning = TRUE, !.accept = "prepare"])
               \cup {[lf EXCEPT !.user = "failed"]}

\* shutdown() of the libevent server, called by its owner or by sigHandler
LFShutdown(s) == [s EXCEPT !.mIsShutdown = TRUE]

\* Fault: the completion is posted before mIsShutdown is set.
IocpLFShutdownLate(s) ==
    IF s.user # "post" THEN [s EXCEPT !.posted = @ + 1, !.user = "post"]
    ELSE [s EXCEPT !.mIsShutdown = TRUE, !.user = "down"]

\* shutdown() of the IOCP server sets the flag, then posts a completion
IocpLFShutdown(s) ==
    IF s.user # "post" THEN [s EXCEPT !.mIsShutdown = TRUE, !.user = "post"]
    ELSE [s EXCEPT !.posted = @ + 1, !.user = "down"]

\* The destructor begins with shutdown().  It also deletes the three events,
\* which a run() that failed never made: only a server that runs is destroyed.
LFDestroy ==
    /\ ~ lf.iocp /\ lf.user = "up"
    /\ lf' = [LFShutdown(lf) EXCEPT !.user = "join"]

IocpLFDestroy ==
    /\ lf.iocp /\ lf.user \in {"up", "failed", "post"}
    /\ lf' = IocpLFShutdown(lf)

\* "for( ; mIsRunning; ) sleep( 1 )" of the IOCP server's destructor
IocpLFWait ==
    /\ lf.user = "down" /\ ~ lf.mIsRunning
    /\ lf' = [lf EXCEPT !.user = "join"]

\* "delete mThreadPool" waits for its threads; then the handlers, mAcceptArg
\* and mEventArg are freed.
LFFree ==
    /\ lf.user = "join"
    /\ \A t \in LFThreads : lf.pc[t] \in {"none", "done"}
    /\ lf' = [lf EXCEPT !.user = "freed"]

-----------------------------------------------------------------------------
(* lfHandler *)

At(t, pc) == lf.pc[t] = pc

Go(t, pc) == [lf.pc EXCEPT ![t] = pc]

\* The loop of lfHandler reads mIsShutdown without the mutex.
LFHandler(t) ==
    /\ At(t, "test")
    /\ lf' = [lf EXCEPT !.pc = Go(t, IF lf.mIsShutdown THEN "out" ELSE "lock")]

\* lfHandler returns to the pool.  In the IOCP server every thread clears
\* mIsRunning on its way out, the first one too.
LFOut(t) ==
    /\ At(t, "out") /\ ~ lf.iocp
    /\ lf' = [lf EXCEPT !.pc = Go(t, "done")]

IocpLFOut(t) ==
    /\ At(t, "out") /\ lf.iocp
    /\ lf' = [lf EXCEPT !.pc = Go(t, "done"), !.mIsRunning = FALSE]

\* Fault: the mutex is let go before the event loop is entered.
LFTurnUnlocked(t) ==
    \/ /\ At(t, "lock") /\ lf.mutex = Nobody
       /\ lf' = [lf EXCEPT !.mutex = t, !.pc = Go(t, "check")]
    \/ /\ At(t, "check")
       /\ lf' = [lf EXCEPT !.mutex = Nobody,
                           !.input = IF lf.input > 0 THEN @ - 1 ELSE @,
                           !.pc = Go(t, CASE lf.mIsShutdown -> "test"
                                          [] ~ lf.mIsShutdown /\ lf.input > 0 -> "task"
                                          [] OTHER -> "loop")]

\* handleOneEvent(): the leader takes a task, or else a message, and lets the
\* mutex go; with neither it waits in the event loop, and keeps the mutex.
LFTurn(t) ==
    \/ /\ At(t, "lock") /\ lf.mutex = Nobody
       /\ lf' = [lf EXCEPT !.mutex = t, !.pc = Go(t, "check")]
    \/ /\ At(t, "check")
       /\ \/ /\ lf.mIsShutdown
             /\ lf' = [lf EXCEPT !.mutex = Nobody, !.pc = Go(t, "test")]
          \/ /\ ~ lf.mIsShutdown /\ lf.input > 0
             /\ lf' = [lf EXCEPT !.mutex = Nobody, !.input = @ - 1, !.pc = Go(t, "task")]
          \/ /\ ~ lf.mIsShutdown /\ lf.input = 0 /\ lf.output > 0
             /\ lf' = [lf EXCEPT !.mutex = Nobody, !.output = @ - 1, !.pc = Go(t, "message")]
          \/ /\ ~ lf.mIsShutdown /\ lf.input = 0 /\ lf.output = 0
             /\ lf' = [lf EXCEPT !.pc = Go(t, "loop")]

\* What the callbacks of one event may queue, and the accept thread woken
Callbacks(s, t) ==
    {[s EXCEPT !.input = @ + i, !.output = @ + o, !.pc = Go(t, "check"),
               !.accept = IF a THEN "prepare" ELSE @] :
        i \in 0 .. 1, o \in 0 .. 1, a \in {FALSE, s.accept = "wait"}}

\* event_base_loop( EVLOOP_ONCE ): the events that are ready
LFLoop(t) ==
    /\ At(t, "loop") /\ ~ lf.iocp /\ lf.pending > 0
    /\ lf' \in Callbacks([lf EXCEPT !.pending = @ - 1], t)

\* SIGINT or SIGTERM is an event too: sigHandler.
LFSignal(t) ==
    /\ At(t, "loop") /\ ~ lf.iocp /\ lf.left > 0
    /\ lf' = [LFShutdown(lf) EXCEPT !.left = @ - 1, !.pc = Go(t, "check")]

\* SP_IocpEventCallback::eventLoop: one completion; the one that shutdown()
\* posts has the key 0 and does nothing.
IocpLFLoop(t) ==
    /\ At(t, "loop") /\ lf.iocp
    /\ \/ lf.pending > 0 /\ lf' \in Callbacks([lf EXCEPT !.pending = @ - 1], t)
       \/ lf.posted > 0 /\ lf' = [lf EXCEPT !.posted = @ - 1, !.pc = Go(t, "check")]

\* task->run() may queue a response, which is an event; completionMessage
\* does not touch the server.
LFWork(t) ==
    \/ /\ At(t, "task")
       /\ \/ lf' = [lf EXCEPT !.pc = Go(t, "test")]
          \/ lf.left > 0 /\ lf' = [lf EXCEPT !.pc = Go(t, "test"), !.left = @ - 1, !.pending = @ + 1]
    \/ At(t, "message") /\ lf' = [lf EXCEPT !.pc = Go(t, "test")]

\* acceptThread: it prepares a socket and calls AcceptEx until that works,
\* then waits for mAcceptEvent, which onAccept sets.  It never returns.
LFAccept ==
    /\ lf.accept = "prepare"
    /\ lf' = [lf EXCEPT !.accept = "wait"]

\* A client does something.
LFEvent ==
    /\ lf.left > 0
    /\ lf' = [lf EXCEPT !.left = @ - 1, !.pending = @ + 1]

-----------------------------------------------------------------------------

LFThread(t) ==
    \/ LFHandler(t) \/ LFOut(t) \/ IocpLFOut(t) \/ LFTurn(t)
    \/ LFLoop(t) \/ IocpLFLoop(t) \/ LFWork(t)

LFOwner == LFDestroy \/ IocpLFDestroy \/ IocpLFWait \/ LFFree

LFNext ==
    \/ LFRun \/ IocpLFRun \/ LFOwner
    \/ \E t \in LFThreads : LFThread(t) \/ LFSignal(t)
    \/ LFAccept \/ LFEvent

LFSpec == LFInit /\ [][LFNext]_lfVars

-----------------------------------------------------------------------------
(* Properties *)

\* The leader waits for events only while there is nothing to do: as long as
\* a thread is in the event loop, both queues are empty, so that no task waits
\* for an event that may never come while the threads sleep.
LeaderHasNothingToDo ==
    (\E t \in LFThreads : At(t, "loop")) => lf.input = 0 /\ lf.output = 0

\* The destructor of the IOCP server returns: the completion that shutdown()
\* posts reaches the leader, and the followers stop after it.  The condition is
\* part of the claim: where run() set mIsRunning and then no thread could be
\* made, nothing clears it and the destructor waits for ever.
SomeThread == \E t \in LFThreads : lf.pc[t] # "none"

LFDestructorReturns ==
    (lf.iocp /\ lf.user = "post" /\ (lf.mIsRunning => SomeThread)) ~> (lf.user = "freed")
=============================================================================
