----------------------------- MODULE ServerLoop -----------------------------
(***************************************************************************)
(* The life of a server with one event-loop thread and two executors:      *)
(* SP_Server (spserver.cpp), SP_IocpServer (spiocpserver.cpp),             *)
(* SP_Dispatcher (spdispatcher.cpp) and SP_IocpDispatcher                  *)
(* (spiocpdispatcher.cpp).  The four share eventLoop and the loop of       *)
(* start(); they differ in who owns the SP_EventArg and the completion     *)
(* handler, in what shutdown() does, and in what the destructor waits for. *)
(*                                                                         *)
(* Tasks and messages are counted.  An SP_Executor is what Executor.tla    *)
(* shows of it: a queue, the tasks under way, and a destructor that lets   *)
(* at most one more task through and returns when none is under way, or    *)
(* never: it may miss the signal of its loop, or there was no loop.        *)
(***************************************************************************)
EXTENDS Integers

CONSTANTS MaxLoopEvents     \* bound: events of sockets and of the queues

ASSUME ServerLoopAssumption == MaxLoopEvents \in Nat

VARIABLE sl

slVars == <<sl>>

\* execute() queues; the executor hands tasks on while it is "open", perhaps
\* "one" more after its shutdown(), none when it is "shut".  When its thread
\* could not be made ("none") it never does.  "hung": the loop is over, or never
\* was, and the destructor waits for a signal that does not come.
NewExecutor == [queue |-> 0, busy |-> 0, door |-> "open"]

\* The two constructors at the beginning of start(); nobody learns that a thread
\* could not be made.
WithExecutors(s) ==
    {[s EXCEPT !.work.door = w, !.act.door = a] : w, a \in {"open", "none"}}

\* What shutdown(), called by the destructor, makes of an executor's door
Closing(e) == IF e.door = "none" THEN "hung" ELSE "one"

\* The constructor of SP_Server.  start() makes the SP_EventArg (arg) and the
\* completion handler (handler) and lets them go.
NewServer ==
    [kind |-> "server", mIsShutdown |-> FALSE, mIsRunning |-> FALSE,
     port |-> FALSE, posted |-> 0, user |-> "new", loop |-> "none", accept |-> "none",
     input |-> 0, output |-> 0, work |-> NewExecutor, act |-> NewExecutor,
     arg |-> "none", handler |-> "none", pending |-> 0, left |-> MaxLoopEvents]

NewIocpServer == [NewServer EXCEPT !.kind = "iocpServer"]

\* A dispatcher has its SP_EventArg from the constructor to the destructor; the
\* completion handler is its owner's.
NewDispatcher ==
    [NewServer EXCEPT !.kind = "dispatcher", !.arg = "alive", !.handler = "alive"]

NewIocpDispatcher == [NewDispatcher EXCEPT !.kind = "iocpDispatcher", !.port = TRUE]

ServerLoopInit ==
    sl \in {NewServer, NewIocpServer, NewDispatcher, NewIocpDispatcher}

Iocp == sl.kind \in {"iocpServer", "iocpDispatcher"}
IsDispatcher == sl.kind \in {"dispatcher", "iocpDispatcher"}

-----------------------------------------------------------------------------
(* The owner *)

\* run(), dispatch(): the thread is made, or not
Create ==
    /\ sl.user = "new"
    /\ sl' \in {[sl EXCEPT !.user = "up", !.loop = "created"],
                [sl EXCEPT !.user = "up", !.mIsRunning = FALSE]}

ServerRun == sl.kind = "server" /\ Create
IocpServerRun == sl.kind = "iocpServer" /\ Create
DispatcherDispatch == sl.kind = "dispatcher" /\ Create
IocpDispatcherDispatch == sl.kind = "iocpDispatcher" /\ Create

\* shutdown() over libevent sets the flag and wakes nobody.
ServerShutdown(s, next) == [s EXCEPT !.mIsShutdown = TRUE, !.user = next]

\* Fault: shutdown() posts the completion first and then sets mIsShutdown.
IocpShutdownLate(s, next) ==
    IF s.user # "post"
    THEN [s EXCEPT !.posted = IF s.port THEN @ + 1 ELSE @, !.user = "post"]
    ELSE [s EXCEPT !.mIsShutdown = TRUE, !.user = next]

\* shutdown() over a completion port sets the flag, then wakes the loop if
\* there is a port.
IocpShutdown(s, next) ==
    IF s.user # "post"
    THEN [s EXCEPT !.mIsShutdown = TRUE, !.user = "post"]
    ELSE [s EXCEPT !.posted = IF s.port THEN @ + 1 ELSE @, !.user = next]

\* The owner calls shutdown() and goes on.
ServerStop ==
    /\ sl.user = "up" /\ ~ sl.mIsShutdown /\ ~ Iocp
    /\ sl' = ServerShutdown(sl, "up")

\* A thread that was made has set mIsRunning before the owner destroys the
\* server: the dispatchers sleep for a second to that end, the others leave it
\* to their owner.
Started == sl.loop # "created"

\* ~SP_Server neither stops the loop nor waits for it: its owner has to.
ServerDestroy ==
    /\ sl.kind = "server" /\ sl.user = "up" /\ sl.loop \in {"none", "gone"}
    /\ sl' = [sl EXCEPT !.user = "freed"]

\* ~SP_IocpServer: shutdown(), again and again until mIsRunning is 0.  (Bound: not
\* while an earlier completion is still there.)
IocpServerDestroy ==
    /\ sl.kind = "iocpServer" /\ Started
    /\ \/ /\ \/ sl.user \in {"up", "post"}
             \/ sl.user = "wait" /\ sl.mIsRunning /\ sl.posted = 0
          /\ sl' = IocpShutdown(sl, "wait")
       \/ /\ sl.user = "wait" /\ ~ sl.mIsRunning
          /\ sl' = [sl EXCEPT !.user = "freed"]

\* ~SP_Dispatcher: shutdown(), then wait until mIsRunning is 0
DispatcherDestroy ==
    /\ sl.kind = "dispatcher" /\ Started
    /\ \/ /\ sl.user = "up"
          /\ sl' = ServerShutdown(sl, "wait")
       \/ /\ sl.user = "wait" /\ ~ sl.mIsRunning
          /\ sl' = [sl EXCEPT !.user = "freed", !.arg = "dead"]

IocpDispatcherDestroy ==
    /\ sl.kind = "iocpDispatcher" /\ Started
    /\ \/ /\ sl.user \in {"up", "post"}
          /\ sl' = IocpShutdown(sl, "wait")
       \/ /\ sl.user = "wait" /\ ~ sl.mIsRunning
          /\ sl' = [sl EXCEPT !.user = "freed", !.arg = "dead"]

-----------------------------------------------------------------------------
(* The event-loop thread *)

\* eventLoop of each class sets mIsRunning around start().
AroundStart ==
    \/ /\ sl.loop = "created"
       /\ sl' = [sl EXCEPT !.mIsRunning = TRUE, !.loop = "start"]
    \/ /\ sl.loop = "leave"
       /\ sl' = [sl EXCEPT !.mIsRunning = FALSE, !.loop = "gone"]

ServerEventLoop == sl.kind = "server" /\ AroundStart
IocpServerEventLoop == sl.kind = "iocpServer" /\ AroundStart
DispatcherEventLoop == sl.kind = "dispatcher" /\ AroundStart
IocpDispatcherEventLoop == sl.kind = "iocpDispatcher" /\ AroundStart

\* "while( 0 == mIsShutdown )"
ServerTest ==
    /\ sl.loop = "test"
    /\ sl' = [sl EXCEPT !.loop = IF sl.mIsShutdown THEN "end" ELSE "wait"]

\* One turn of the event loop: what the callbacks of an event queue, the accept
\* thread woken by onAccept, or the completion of shutdown().
ServerWait ==
    /\ sl.loop = "wait"
    /\ \/ /\ sl.pending > 0
          /\ \E i, o \in 0 .. 1 :
                sl' = [sl EXCEPT !.pending = @ - 1, !.input = @ + i, !.output = @ + o,
                                 !.loop = "drain", !.accept = IF @ = "wait" THEN "prepare" ELSE @]
       \/ /\ sl.posted > 0
          /\ sl' = [sl EXCEPT !.posted = @ - 1, !.loop = "drain"]

\* SIGINT or SIGTERM is an event too: sigHandler of SP_Server.
ServerSignal ==
    /\ sl.kind = "server" /\ sl.loop = "wait" /\ sl.left > 0
    /\ sl' = [ServerShutdown(sl, sl.user) EXCEPT !.left = @ - 1, !.loop = "drain"]

\* All tasks go to workerExecutor, all messages to actExecutor.
Drain ==
    /\ sl.loop = "drain"
    /\ sl' = [sl EXCEPT !.work.queue = @ + sl.input, !.act.queue = @ + sl.output,
                        !.input = 0, !.output = 0, !.loop = "test"]

\* The end of start(): a server deletes the completion handler while
\* actExecutor may still have calls of outputCompleted.  Then the executors are
\* destroyed, the one declared last first.
ServerEnd ==
    /\ sl.loop = "end"
    /\ sl' = [sl EXCEPT !.handler = IF IsDispatcher THEN @ ELSE "dead",
                        !.work.door = IF sl.kind = "iocpServer" THEN Closing(sl.work) ELSE @,
                        !.act.door = IF sl.kind = "iocpServer" THEN @ ELSE Closing(sl.act),
                        !.loop = "join"]

\* The destructor of an executor returns: it saw the end of the executor's loop
\* and then deleted the thread pool, which waits for the tasks under way.
Joined(e) == e.door = "shut" /\ e.busy = 0

\* Fault: the SP_EventArg is declared after the executors, and destroyed first.
JoinLate ==
    /\ sl.loop = "join"
    /\ sl' = [sl EXCEPT !.arg = IF IsDispatcher THEN @ ELSE "dead", !.loop = "leave"]

\* The second executor's destructor, and after it the SP_EventArg of a server
Join ==
    /\ sl.loop = "join"
    /\ \/ /\ Joined(sl.work) /\ sl.act.door \in {"open", "none"}
          /\ sl' = [sl EXCEPT !.act.door = Closing(sl.act)]
       \/ /\ Joined(sl.act) /\ sl.work.door \in {"open", "none"}
          /\ sl' = [sl EXCEPT !.work.door = Closing(sl.work)]
       \/ /\ Joined(sl.act) /\ Joined(sl.work)
          /\ sl' = [sl EXCEPT !.arg = IF IsDispatcher THEN @ ELSE "dead", !.loop = "leave"]

\* The loop of start(), and its end
Turn == ServerTest \/ ServerWait \/ Drain \/ ServerEnd \/ Join

\* start() of each class.  SP_Server: listen, make the SP_EventArg and the rest,
\* or fail.
ServerStart ==
    /\ sl.kind = "server"
    /\ \/ /\ sl.loop = "start"
          /\ sl' \in WithExecutors([sl EXCEPT !.arg = "alive", !.handler = "alive",
                                              !.loop = "test"])
                     \cup {[sl EXCEPT !.loop = "leave"]}
       \/ Turn

\* SP_IocpServer takes two steps for that: from the first on, shutdown() knows
\* the port.  When the accept thread cannot be made, start() gives up and
\* mCompletionPort is left as it is.
IocpServerStart ==
    /\ sl.kind = "iocpServer"
    /\ \/ /\ sl.loop = "start"
          /\ sl' \in {[sl EXCEPT !.arg = "alive", !.port = TRUE, !.loop = "listen"],
                      [sl EXCEPT !.loop = "leave"]}
       \/ /\ sl.loop = "listen"
          /\ sl' \in WithExecutors([sl EXCEPT !.accept = "prepare", !.handler = "alive",
                                              !.loop = "test"])
                     \cup {[sl EXCEPT !.arg = "dead", !.loop = "leave"]}
       \/ Turn

\* A dispatcher makes its executors, nothing else.
MakeExecutors ==
    /\ sl.loop = "start"
    /\ sl' \in WithExecutors([sl EXCEPT !.loop = "test"])

DispatcherStart == sl.kind = "dispatcher" /\ (MakeExecutors \/ Turn)
IocpDispatcherStart == sl.kind = "iocpDispatcher" /\ (MakeExecutors \/ Turn)

\* acceptThread of SP_IocpServer, which never returns
AcceptThread ==
    /\ sl.accept = "prepare"
    /\ sl' = [sl EXCEPT !.accept = "wait"]

-----------------------------------------------------------------------------
(* The executors' threads, and the clients *)

\* The executor e hands a task on; the last one after shutdown() may be none.
\* With it the executor's loop ends: the destructor learns of that, or it is
\* between its test of mIsShutdown and its wait, and misses the signal.
Handed(e) ==
    (IF e.queue > 0 /\ e.door \in {"open", "one"}
     THEN {[e EXCEPT !.queue = @ - 1, !.busy = @ + 1, !.door = d] :
              d \in IF e.door = "one" THEN {"shut", "hung"} ELSE {"open"}}
     ELSE {})
    \cup (IF e.door = "one" THEN {[e EXCEPT !.door = d] : d \in {"shut", "hung"}} ELSE {})

WorkExecutor ==
    \/ \E e \in Handed(sl.work) : sl' = [sl EXCEPT !.work = e]
    \/ /\ sl.work.busy > 0
       /\ \E n \in {0, IF sl.left > 0 THEN 1 ELSE 0} :
             sl' = [sl EXCEPT !.work.busy = @ - 1, !.left = @ - n, !.pending = @ + n]

ActExecutor == \E e \in Handed(sl.act) : sl' = [sl EXCEPT !.act = e]

\* outputCompleted of each class calls the completion handler.
Completed ==
    /\ sl.act.busy > 0
    /\ sl' = [sl EXCEPT !.act.busy = @ - 1]

ServerOutputCompleted == sl.kind = "server" /\ Completed
IocpServerOutputCompleted == sl.kind = "iocpServer" /\ Completed
DispatcherOutputCompleted == sl.kind = "dispatcher" /\ Completed
IocpDispatcherOutputCompleted == sl.kind = "iocpDispatcher" /\ Completed

ClientEvent ==
    /\ sl.left > 0
    /\ sl' = [sl EXCEPT !.left = @ - 1, !.pending = @ + 1]

-----------------------------------------------------------------------------

LoopThread ==
    \/ ServerEventLoop \/ IocpServerEventLoop \/ DispatcherEventLoop \/ IocpDispatcherEventLoop
    \/ ServerStart \/ IocpServerStart \/ DispatcherStart \/ IocpDispatcherStart

ActThread ==
    \/ ActExecutor
    \/ ServerOutputCompleted \/ IocpServerOutputCompleted
    \/ DispatcherOutputCompleted \/ IocpDispatcherOutputCompleted

Destroy == IocpServerDestroy \/ DispatcherDestroy \/ IocpDispatcherDestroy

ServerLoopNext ==
    \/ ServerRun \/ IocpServerRun \/ DispatcherDispatch \/ IocpDispatcherDispatch
    \/ ServerStop \/ ServerDestroy \/ Destroy
    \/ LoopThread \/ ServerSignal \/ AcceptThread
    \/ WorkExecutor \/ ActThread
    \/ ClientEvent

ServerLoopSpec == ServerLoopInit /\ [][ServerLoopNext]_slVars

-----------------------------------------------------------------------------
(* Properties *)

\* Tasks use the SP_EventArg only while it is there: the executors of start()
\* are gone before it is, and the destructors wait for start().
ArgOutlivesTasks ==
    /\ sl.work.busy > 0 => sl.arg = "alive"
    /\ sl.loop \in {"wait", "drain"} => sl.arg = "alive"
    /\ sl.user = "freed" => sl.loop \in {"none", "gone"}

\* start() waits for ever for an executor it destroys.
StuckInJoin == sl.loop = "join" /\ "hung" \in {sl.work.door, sl.act.door}

\* Shutdown over a completion port stops the loop, however it falls between the
\* steps of the loop: no wake-up is lost.  Over libevent the loop stops too,
\* unless it waits for an event that does not come.  And start() returns, unless
\* it is in the destructor of an executor that missed the signal of its loop or
\* that has no thread.
ShutdownEndsLoop ==
    sl.mIsShutdown ~> \/ sl.loop \in {"none", "gone"}
                      \/ ~ Iocp /\ sl.loop = "wait"
                      \/ StuckInJoin
=============================================================================
