----------------------------- MODULE IocpServer -----------------------------
(***************************************************************************)
(* The Windows core of SPServer: the completion-port callbacks of          *)
(* spserver/spwin32iocp.cpp, run by the thread that calls eventLoop (the   *)
(* loop of SP_IocpServer::start, or the leader of SP_IocpLFServer), and    *)
(* the session tasks the other threads take from the InputResultQueue.     *)
(*                                                                         *)
(* A zero-byte WSARecv or WSASend is posted for a session and its          *)
(* completion carries the sid, not the object: eventLoop resolves the sid  *)
(* again when the completion is dequeued.  The timers of the two events    *)
(* sit in the event heap (module EventHeap shows the heap to be a timer    *)
(* set; here only membership is kept, and a timer may expire at any time). *)
(*                                                                         *)
(* A callback is one action, except that onSend reads mStatus and later    *)
(* mRunning, and that SP_IocpMsgQueue::process releases its mutex around   *)
(* every onResponse, whose turns for the sender, for each receiver and for *)
(* each session to close are steps between which the threads go on.  Data  *)
(* is abstracted as in EventServer: input is counted in requests, a        *)
(* message is an identifier with its lists of sids.                        *)
(***************************************************************************)
EXTENDS SessionTable, Sequences, FiniteSets, FiniteSetsExt, Functions

CONSTANTS
    MaxSessions,        \* bound: connections accepted in a behaviour
    MaxConnections,     \* mMaxConnections
    ReqQueueSize,       \* mReqQueueSize
    Threads,            \* the threads that run tasks
    MaxMsgs,            \* bound: messages made by handlers
    MaxEvents           \* bound: requests and departures of peers, sids put on a
                        \* toCloseList, timers that expire, calls that fail

ASSUME IocpAssumption ==
    /\ MaxSessions \in Nat \ {0} /\ MaxConnections \in Nat /\ ReqQueueSize \in Nat
    /\ MaxMsgs \in Nat /\ MaxEvents \in Nat /\ NULL \notin 1 .. MaxSessions
    /\ IsFiniteSet(Threads)

Objects == 1 .. MaxSessions             \* SP_Session objects, in accept order
Msgs == 1 .. (MaxMsgs + MaxSessions)
RefusedMsg(s) == MaxMsgs + s            \* the message onAccept makes for s
NoSid == [mKey |-> 0, mSeq |-> 0]

VARIABLES
    mgr,        \* the SP_SessionManager
    ses,        \* the SP_Session objects with their SP_IocpSession_t
    peer,       \* per session: the other end of the connection
    msgs,       \* the SP_Message objects
    tasks,      \* the InputResultQueue
    work,       \* per thread: the task it runs
    respQ,      \* the queue of the SP_IocpMsgQueue
    wake,       \* eKeyMsgQueue completions posted and not dequeued
    loop,       \* what eventLoop is in the middle of
    budget      \* what MaxEvents still allows

vars == <<mgr, ses, peer, msgs, tasks, work, respQ, wake, loop, budget>>

-----------------------------------------------------------------------------
(* Initial state *)

\* recvIO, sendIO: a WSARecv or WSASend is outstanding; recvTimer, sendTimer:
\* mHeapIndex of the event is not -1; freePosted: the eKeyFree completion is
\* in the port; missed: an error was met that only a later event can report.
NewSession ==
    [life |-> "unborn", mSid |-> NoSid, mStatus |-> "eNormal", mRunning |-> FALSE,
     mReading |-> FALSE, mWriting |-> FALSE, mInBuffer |-> 0, mOutList |-> <<>>,
     recvIO |-> FALSE, sendIO |-> FALSE, recvTimer |-> FALSE, sendTimer |-> FALSE,
     channel |-> FALSE, started |-> FALSE, freePosted |-> FALSE, missed |-> FALSE]

NewMessage == [made |-> FALSE, to |-> {}, completions |-> 0]

NoResponse == [from |-> NoSid, msg |-> 0, close |-> {}]

Idle == [pc |-> "idle", kind |-> "none", s |-> 0, status |-> "eNormal", resp |-> NoResponse]

\* at "poll": in GetQueuedCompletionStatus; "process": in SP_IocpMsgQueue::
\* process; "to", "close": in onResponse for resp, with the sids still to do;
\* "tail": in onSend of session s, with what it read of the status.
Poll == [at |-> "poll", s |-> 0, exit |-> FALSE, resp |-> NoResponse, sids |-> {}]

Init ==
    /\ mgr = EmptyTable
    /\ ses = [s \in Objects |-> NewSession]
    /\ peer = [s \in Objects |-> [state |-> "open", units |-> 0]]
    /\ msgs = [m \in Msgs |-> NewMessage]
    /\ tasks = <<>> /\ respQ = <<>> /\ wake = 0
    /\ work = [w \in Threads |-> Idle]
    /\ loop = Poll
    /\ budget = MaxEvents

\* The state a callback works on, and the step that stores it.
World == [mgr |-> mgr, ses |-> ses, msgs |-> msgs, tasks |-> tasks]
Store(w) == mgr' = w.mgr /\ ses' = w.ses /\ msgs' = w.msgs /\ tasks' = w.tasks

\* The sessions whose WSARecv or WSASend fails during a callback.
Faults == {{}} \cup IF budget > 0 THEN {{s} : s \in Objects} ELSE {}
Spend(set) == Cardinality(set) <= budget /\ budget' = budget - Cardinality(set)

-----------------------------------------------------------------------------
(* SP_IocpEventHelper: what a callback does to a session of the world w *)

AddTask(w, kind, s) == [w EXCEPT !.tasks = Append(@, [kind |-> kind, s |-> s])]

\* Fault: the session is not marked running when its request is dispatched.
DoWorkUnmarked(w, s) ==
    IF w.ses[s].mStatus = "eNormal" THEN AddTask(w, "worker", s)
    ELSE [w EXCEPT !.ses[s].mInBuffer = 0]

\* The request is given to a thread only while the session is eNormal;
\* otherwise the input is thrown away.
DoWork(w, s) ==
    IF w.ses[s].mStatus = "eNormal"
    THEN AddTask([w EXCEPT !.ses[s].mRunning = TRUE], "worker", s)
    ELSE [w EXCEPT !.ses[s].mInBuffer = 0]

\* decode() takes one request from the input; the repository's decoders return
\* eOK or eMoreData only.
DoDecodeForWork(w, s) ==
    IF w.ses[s].mInBuffer = 0 THEN w
    ELSE DoWork([w EXCEPT !.ses[s].mInBuffer = @ - 1], s)

DecodeIfIdle(w, s) == IF w.ses[s].mRunning THEN w ELSE DoDecodeForWork(w, s)

\* Fault: the message is completed by the first session that fails it.
FailedEarly(msg, sid) ==
    [msg EXCEPT !.to = @ \ {sid}, !.completions = @ + 1]

\* The sid leaves the toList; doCompletion when that was the last one.
Failed(msg, sid) ==
    [msg EXCEPT !.to = @ \ {sid},
                !.completions = IF msg.to \subseteq {sid} THEN @ + 1 ELSE @]

\* Fault: the timers of a session that is given up stay in the heap.
GivenUpTimed(w, s) ==
    [w EXCEPT !.ses[s].mRunning = TRUE, !.mgr = Remove(@, w.ses[s].mSid.mKey)]

\* setRunning( 1 ), remove from the manager, erase both timers.
GivenUp(w, s) ==
    [w EXCEPT !.ses[s] = [@ EXCEPT !.mRunning = TRUE, !.recvTimer = FALSE, !.sendTimer = FALSE],
              !.mgr = Remove(@, w.ses[s].mSid.mKey)]

\* doClose leaves the messages of the outList where they are.
DoClose(w, s) == AddTask(GivenUp(w, s), "close", s)

FailOutList(w, s) ==
    [w EXCEPT !.ses[s].mOutList = <<>>,
              !.msgs = [m \in Msgs |-> IF m \in Range(w.ses[s].mOutList)
                                       THEN Failed(w.msgs[m], w.ses[s].mSid)
                                       ELSE w.msgs[m]]]

DoError(w, s) == AddTask(GivenUp(FailOutList(w, s), s), "error", s)
DoTimeout(w, s) == AddTask(GivenUp(FailOutList(w, s), s), "timeout", s)
DoStart(w, s) == AddTask([w EXCEPT !.ses[s].mRunning = TRUE], "start", s)

\* "busy, process session error later"
ErrorOrLater(w, s) ==
    IF w.ses[s].mRunning THEN [w EXCEPT !.ses[s].missed = TRUE] ELSE DoError(w, s)

-----------------------------------------------------------------------------
(* SP_IocpEventCallback: posting I/O *)

\* addRecv and its return value; bad: the sessions whose WSARecv fails.
NeedsRecv(r) == ~r.mReading /\ r.mStatus = "eNormal"
AddRecvOK(w, s, bad) == NeedsRecv(w.ses[s]) => s \notin bad
AddRecv(w, s, bad) ==
    IF ~NeedsRecv(w.ses[s]) \/ s \in bad THEN w
    ELSE [w EXCEPT !.ses[s] = [@ EXCEPT !.mReading = TRUE, !.recvIO = TRUE,
                                        !.recvTimer = TRUE]]

\* addSend decodes pending input first, then posts unless one is posted.
AddSendOK(w, s, bad) == ~w.ses[s].mWriting => s \notin bad
AddSend(w, s, bad) ==
    LET v == DecodeIfIdle(w, s)
    IN  IF v.ses[s].mWriting \/ s \in bad THEN v
        ELSE [v EXCEPT !.ses[s] = [@ EXCEPT !.mWriting = TRUE, !.sendIO = TRUE,
                                            !.sendTimer = TRUE]]

\* CreateIoCompletionPort associates the socket with the sid.
AddSession(w, s, sid) ==
    [w EXCEPT !.ses[s] = [NewSession EXCEPT !.life = "live", !.mSid = sid]]

-----------------------------------------------------------------------------
(* SP_IocpEventCallback: the completions *)

Busy(table) == table.mCount > MaxConnections \/ Len(tasks) >= ReqQueueSize

\* onAccept of the next connection; when addSession fails the key that was
\* never put is removed.  The result of addSend is not looked at.
OnAccept(s, fail, bad) ==
    /\ loop = Poll /\ ses[s].life = "unborn"
    /\ \A t \in 1 .. (s - 1) : ses[t].life # "unborn"
    /\ AllocKeyOf(mgr) # 0
    /\ fail => bad = {s}
    /\ LET sid == [mKey |-> AllocKeyOf(mgr), mSeq |-> AllocSeqOf(mgr)]
           new == AddSession([World EXCEPT !.mgr = Put(AllocKey(mgr), sid.mKey, s)], s, sid)
           refused == [new EXCEPT !.ses[s] = [@ EXCEPT !.mOutList = <<RefusedMsg(s)>>,
                                                       !.mStatus = "eExit"],
                                  !.msgs[RefusedMsg(s)].made = TRUE]
       IN  \/ /\ fail
              /\ Store([World EXCEPT !.mgr = Remove(AllocKey(mgr), sid.mKey),
                                     !.ses[s].life = "deleted"])
           \/ /\ ~fail /\ Busy(new.mgr)
              /\ Store([AddSend(refused, s, bad) EXCEPT !.ses[s].missed = s \in bad])
           \/ /\ ~fail /\ ~Busy(new.mgr)
              /\ Store(DoStart(new, s))
    /\ Spend(bad)
    /\ UNCHANGED <<peer, work, respQ, wake, loop>>

\* The session that eventLoop finds for a completion of session object s.
Resolve(s) == Get(mgr, ses[s].mSid.mKey, ses[s].mSid.mSeq)

\* The completion of an I/O request whose session was given up is dropped.
EventLoopStale(s) ==
    /\ loop = Poll /\ Resolve(s) = NULL
    /\ \/ ses[s].recvIO /\ ses' = [ses EXCEPT ![s].recvIO = FALSE]
       \/ ses[s].sendIO /\ ses' = [ses EXCEPT ![s].sendIO = FALSE]
    /\ UNCHANGED <<mgr, peer, msgs, tasks, work, respQ, wake, loop, budget>>

\* "process a failed completed I/O request": nothing else is done for a
\* session that is running, mReading and mWriting stay as they are.
EventLoopFailed(s) ==
    /\ loop = Poll /\ Resolve(s) # NULL /\ peer[s].state = "rst"
    /\ \E io \in {x \in {"recvIO", "sendIO"} : ses[s][x]} :
          LET w == [World EXCEPT !.ses[s] = [@ EXCEPT ![io] = FALSE]]
              t == Resolve(s)
          IN  Store(IF w.ses[t].mRunning THEN [w EXCEPT !.ses[t].missed = TRUE]
                    ELSE DoClose(w, t))
    /\ UNCHANGED <<peer, work, respQ, wake, loop, budget>>

\* The timer is erased and mReading cleared before anything is read.
Received(s, t) ==
    LET w == [World EXCEPT !.ses[s] = [@ EXCEPT !.recvIO = FALSE, !.recvTimer = FALSE]]
    IN  [w EXCEPT !.ses[t].mReading = FALSE]

\* onRecv by the result of receive(): data, orderly end, error or would-block.
OnRecvData(s, n, bad) ==
    /\ loop = Poll /\ ses[s].recvIO /\ Resolve(s) # NULL /\ n \in 1 .. peer[s].units
    /\ peer' = [peer EXCEPT ![s].units = @ - n]
    /\ LET t == Resolve(s)
           w == DecodeIfIdle([Received(s, t) EXCEPT !.ses[t].mInBuffer = @ + n], t)
       IN  Store(IF AddRecvOK(w, t, bad) THEN AddRecv(w, t, bad) ELSE ErrorOrLater(w, t))
    /\ Spend(bad)
    /\ UNCHANGED <<work, respQ, wake, loop>>

OnRecvEnd(s, bad) ==
    /\ loop = Poll /\ ses[s].recvIO /\ Resolve(s) # NULL
    /\ LET t == Resolve(s)
           w == Received(s, t)
       IN  \/ /\ peer[s].state = "fin" /\ peer[s].units = 0
              /\ Store(IF w.ses[t].mRunning THEN w ELSE DoClose(w, t))
           \/ /\ peer[s].state = "rst"
              /\ Store(ErrorOrLater(w, t))
           \/ /\ peer[s].state = "open"                     \* WSAEWOULDBLOCK
              /\ Store(IF AddRecvOK(w, t, bad) THEN AddRecv(w, t, bad)
                       ELSE ErrorOrLater(w, t))
    /\ Spend(bad)
    /\ UNCHANGED <<peer, work, respQ, wake, loop>>

\* Fault: a send completion does not clear mWriting.
SentFlagged(s, t, n) ==
    LET w == [World EXCEPT !.ses[s] = [@ EXCEPT !.sendIO = FALSE, !.sendTimer = FALSE]]
    IN  [w EXCEPT !.ses[t].mOutList = SubSeq(@, n + 1, Len(@)),
                  !.msgs = [m \in Msgs |-> IF m \in Range(SubSeq(ses[t].mOutList, 1, n))
                                           THEN Failed(msgs[m], ses[t].mSid) ELSE msgs[m]]]

\* The send timer is erased, mWriting cleared, and transmit() settles the
\* first n messages of the outList.
Sent(s, t, n) ==
    LET w == [World EXCEPT !.ses[s] = [@ EXCEPT !.sendIO = FALSE, !.sendTimer = FALSE]]
        q == ses[t].mOutList
    IN  [w EXCEPT !.ses[t] = [@ EXCEPT !.mWriting = FALSE, !.mOutList = SubSeq(q, n + 1, Len(q))],
                  !.msgs = [m \in Msgs |-> IF m \in Range(SubSeq(q, 1, n))
                                           THEN Failed(msgs[m], ses[t].mSid) ELSE msgs[m]]]

\* onSend up to the test of the status: transmit() wrote something, or there
\* was nothing to write, or the socket would block and addSend succeeded.  An
\* addSend that fails while the session is running is not reported (ret = 0).
OnSend(s, n, bad) ==
    /\ loop = Poll /\ ses[s].sendIO /\ Resolve(s) # NULL
    /\ LET t == Resolve(s)
           w == Sent(s, t, n)
           more == w.ses[t].mOutList # <<>>
           lost == more /\ ~AddSendOK(w, t, bad)
       IN  /\ n \in 0 .. Len(ses[t].mOutList)
           /\ ses[t].mOutList # <<>> => ses[t].channel /\ peer[s].state # "rst"
           /\ lost => n > 0
           /\ Store(CASE ~more -> w
                      [] more /\ ~lost -> AddSend(w, t, bad)
                      [] lost -> ErrorOrLater(DecodeIfIdle(w, t), t))
           /\ loop' = IF lost /\ ~DecodeIfIdle(w, t).ses[t].mRunning THEN Poll
                      ELSE [Poll EXCEPT !.at = "tail", !.s = t,
                                        !.exit = ~more /\ w.ses[t].mStatus = "eExit"]
    /\ Spend(bad)
    /\ UNCHANGED <<peer, work, respQ, wake>>

\* onSend when transmit() fails: the peer is gone or the channel has no fd, or the
\* socket would block and the WSASend to wait for it fails.
OnSendError(s, bad) ==
    /\ loop = Poll /\ ses[s].sendIO /\ Resolve(s) # NULL
    /\ LET t == Resolve(s)
           w == Sent(s, t, 0)
       IN  /\ ses[t].mOutList # <<>>
           /\ \/ /\ peer[s].state # "open" \/ ~ses[t].channel
                 /\ bad = {}
                 /\ Store(ErrorOrLater(w, t))
              \/ /\ ses[t].channel /\ ~AddSendOK(w, t, bad)
                 /\ Store(ErrorOrLater(DecodeIfIdle(w, t), t))
    /\ Spend(bad)
    /\ UNCHANGED <<peer, work, respQ, wake, loop>>

\* The rest of onSend, which reads mRunning.
OnSendTail ==
    /\ loop.at = "tail"
    /\ loop' = Poll
    /\ LET s == loop.s
       IN  Store(IF ses[s].mRunning THEN World
                 ELSE IF loop.exit THEN DoClose(World, s)
                 ELSE DoDecodeForWork(World, s))
    /\ UNCHANGED <<peer, work, respQ, wake, budget>>

\* eKeyFree: delete the session and its SP_IocpSession_t; what the kernel may
\* still complete keeps its sid.
EventLoopFree(s) ==
    /\ loop = Poll /\ ses[s].freePosted
    /\ ses' = [ses EXCEPT ![s] = [NewSession EXCEPT !.life = "deleted", !.mSid = ses[s].mSid,
                                      !.recvIO = ses[s].recvIO, !.sendIO = ses[s].sendIO,
                                      !.recvTimer = ses[s].recvTimer,
                                      !.sendTimer = ses[s].sendTimer]]
    /\ peer' = [peer EXCEPT ![s] = [state |-> "fin", units |-> 0]]
    /\ UNCHANGED <<mgr, msgs, tasks, work, respQ, wake, loop, budget>>

\* onTimeout for the first event of the heap: the timer of a session that is
\* running is popped and forgotten.
OnTimeout(s) ==
    /\ loop = Poll
    /\ \E timer \in {x \in {"recvTimer", "sendTimer"} : ses[s][x]} :
          LET w == [World EXCEPT !.ses[s] = [@ EXCEPT ![timer] = FALSE]]
          IN  Store(IF ses[s].mRunning THEN w ELSE DoTimeout(w, s))
    /\ Spend({s})
    /\ UNCHANGED <<peer, work, respQ, wake, loop>>

-----------------------------------------------------------------------------
(* SP_IocpMsgQueue and onResponse *)

\* push posts a completion when the queue was empty.
Pushed(resp) ==
    /\ respQ' = Append(respQ, resp)
    /\ wake' = IF respQ = <<>> THEN wake + 1 ELSE wake

\* eKeyMsgQueue: process() drains the queue, releasing the mutex around each
\* onResponse.
ProcessBegin ==
    /\ loop = Poll /\ wake > 0
    /\ wake' = wake - 1 /\ loop' = [Poll EXCEPT !.at = "process"]
    /\ UNCHANGED <<mgr, ses, peer, msgs, tasks, work, respQ, budget>>
ProcessEnd ==
    /\ loop.at = "process" /\ respQ = <<>>
    /\ loop' = Poll
    /\ UNCHANGED <<mgr, ses, peer, msgs, tasks, work, respQ, wake, budget>>

InWorld(w, sid) == Get(w.mgr, sid.mKey, sid.mSeq)

\* The session the response is from.
FromSession(w, s, bad) ==
    IF w.ses[s].mStatus # "eNormal" THEN [w EXCEPT !.ses[s].mStatus = "eExit"]
    ELSE IF AddRecvOK(w, s, bad) THEN DecodeIfIdle(AddRecv(w, s, bad), s)
    ELSE IF w.ses[s].mRunning THEN w ELSE DoError(w, s)

\* One sid of the message's toList.  A sid whose addSend failed stays there.
ToSession(w, sid, resp, bad) ==
    LET s == InWorld(w, sid)
        v == IF s = NULL THEN w ELSE DecodeIfIdle(w, s)
    IN  IF s = NULL \/ (s # NULL /\ sid # resp.from /\ w.ses[s].mStatus = "eExit")
        THEN [w EXCEPT !.msgs[resp.msg].to = @ \ {sid}]
        ELSE IF AddSendOK(w, s, bad)
        THEN [AddSend(w, s, bad) EXCEPT !.ses[s].mOutList = Append(@, resp.msg)]
        ELSE IF v.ses[s].mRunning THEN v ELSE DoError(v, s)

\* A message that no session takes is completed.
Completed(w, m) ==
    IF m # 0 /\ w.msgs[m].to = {} THEN [w EXCEPT !.msgs[m].completions = @ + 1] ELSE w

\* The sender, if it has to exit and has nothing left to send.
ExitPart(w, resp) ==
    LET s == InWorld(w, resp.from)
    IN  IF s # NULL /\ w.ses[s].mOutList = <<>> /\ w.ses[s].mStatus = "eExit"
           /\ ~w.ses[s].mRunning
        THEN DoClose(w, s) ELSE w

CloseSession(w, sid, bad) ==
    LET s == InWorld(w, sid)
        v == [w EXCEPT !.ses[s].mStatus = "eExit"]
    IN  IF s = NULL THEN w
        ELSE IF AddSendOK(v, s, bad) THEN AddSend(v, s, bad)
        ELSE ErrorOrLater(DecodeIfIdle(v, s), s)

Responding(at, resp, sids) == [Poll EXCEPT !.at = at, !.resp = resp, !.sids = sids]
Closing(resp, sids) ==
    IF sids = {} THEN [Poll EXCEPT !.at = "process"] ELSE Responding("close", resp, sids)

\* onResponse: the response leaves the queue, then the sender's turn, the turn
\* of each sid of the message's toList, the end of the message and the exit of
\* the sender, and the turn of each sid of the toCloseList.
ResponseFrom(bad) ==
    /\ loop.at = "process" /\ respQ # <<>>
    /\ respQ' = Tail(respQ)
    /\ LET resp == Head(respQ)
           s == InWorld(World, resp.from)
       IN  /\ Store(IF s = NULL THEN World ELSE FromSession(World, s, bad))
           /\ loop' = Responding("to", resp, IF resp.msg = 0 THEN {} ELSE msgs[resp.msg].to)
    /\ Spend(bad)
    /\ UNCHANGED <<peer, work, wake>>

ResponseTo(sid, bad) ==
    /\ loop.at = "to" /\ sid \in loop.sids
    /\ Store(ToSession(World, sid, loop.resp, bad))
    /\ loop' = Responding("to", loop.resp, loop.sids \ {sid})
    /\ Spend(bad)
    /\ UNCHANGED <<peer, work, respQ, wake>>

ResponseExit ==
    /\ loop.at = "to" /\ loop.sids = {}
    /\ Store(ExitPart(Completed(World, loop.resp.msg), loop.resp))
    /\ loop' = Closing(loop.resp, loop.resp.close)
    /\ UNCHANGED <<peer, work, respQ, wake, budget>>

ResponseClose(sid, bad) ==
    /\ loop.at = "close" /\ sid \in loop.sids
    /\ Store(CloseSession(World, sid, bad))
    /\ loop' = Closing(loop.resp, loop.sids \ {sid})
    /\ Spend(bad)
    /\ UNCHANGED <<peer, work, respQ, wake>>

-----------------------------------------------------------------------------
(* The tasks *)

TakeTask(t) ==
    /\ work[t].pc = "idle" /\ tasks # <<>>
    /\ tasks' = Tail(tasks)
    /\ work' = [work EXCEPT ![t] =
          [Idle EXCEPT !.kind = Head(tasks).kind, !.s = Head(tasks).s,
                       !.pc = IF Head(tasks).kind = "close" THEN "free" ELSE "handle"]]
    /\ UNCHANGED <<mgr, ses, peer, msgs, respQ, wake, loop, budget>>

Known == {ses[s].mSid : s \in {t \in Objects : ses[t].started}}
Unmade == {m \in 1 .. MaxMsgs : ~msgs[m].made}

\* The handler runs in a start, worker, error or timeout task: it makes at most
\* one message to any set of known sids, may ask to close one started session,
\* and its return value (or a failed init of the channel) says whether the
\* session would exit.
Handle(t, to, close, exit, init) ==
    /\ work[t].pc = "handle"
    /\ LET s == work[t].s
           kind == work[t].kind
           m == IF to = {} \/ ~init THEN 0 ELSE Min(Unmade)
       IN  /\ to # {} => Unmade # {} /\ init
           /\ kind # "start" => init
           /\ ~init => exit /\ close = {}
           /\ kind \in {"error", "timeout"} => ~exit
           /\ msgs' = [x \in Msgs |-> IF x = m THEN [made |-> TRUE, to |-> to, completions |-> 0]
                                      ELSE msgs[x]]
           /\ work' = [work EXCEPT ![t] = [@ EXCEPT
                 !.resp = [from |-> ses[s].mSid, msg |-> m, close |-> close],
                 !.status = IF exit THEN "eWouldExit" ELSE "eNormal",
                 !.pc = IF kind \in {"start", "worker"} THEN "status" ELSE "push"]]
           /\ ses' = [ses EXCEPT ![s].channel = @ \/ (kind = "start" /\ init)]
    /\ Spend(close)
    /\ UNCHANGED <<mgr, peer, tasks, respQ, wake, loop>>

HandleStep(t) ==
    /\ work[t].pc = "handle"
    /\ \E to \in SUBSET (Known \cup {ses[work[t].s].mSid}),
          close \in {{}} \cup {{sid} : sid \in Known}, exit, init \in BOOLEAN :
          Handle(t, to, close, exit, init)

\* setStatus: start always, worker only when the handler returned non-zero.
SetStatus(t) ==
    /\ work[t].pc = "status"
    /\ LET s == work[t].s
           set == work[t].kind = "start" \/ work[t].status = "eWouldExit"
       IN  ses' = [ses EXCEPT ![s] = [@ EXCEPT
                 !.mStatus = IF set THEN work[t].status ELSE ses[s].mStatus, !.started = TRUE]]
    /\ work' = [work EXCEPT ![t].pc = "unrun"]
    /\ UNCHANGED <<mgr, peer, msgs, tasks, respQ, wake, loop, budget>>

SetNotRunning(t) ==
    /\ work[t].pc = "unrun"
    /\ ses' = [ses EXCEPT ![work[t].s].mRunning = FALSE]
    /\ work' = [work EXCEPT ![t].pc = "push"]
    /\ UNCHANGED <<mgr, peer, msgs, tasks, respQ, wake, loop, budget>>

PushResponse(t) ==
    /\ work[t].pc = "push"
    /\ Pushed(work[t].resp)
    /\ work' = [work EXCEPT ![t] = IF work[t].kind \in {"error", "timeout"}
                                   THEN [@ EXCEPT !.pc = "free"] ELSE Idle]
    /\ UNCHANGED <<mgr, ses, peer, msgs, tasks, loop, budget>>

\* close(), error() and timeout() end alike: disconnect and close the socket,
\* then post eKeyFree.
PostFree(t) ==
    /\ work[t].pc = "free"
    /\ ses' = [ses EXCEPT ![work[t].s].freePosted = TRUE]
    /\ work' = [work EXCEPT ![t] = Idle]
    /\ UNCHANGED <<mgr, peer, msgs, tasks, respQ, wake, loop, budget>>

\* The functions SP_SimpleTask calls, step by step
WorkerTask(t) ==
    work[t].kind = "worker" /\ (HandleStep(t) \/ SetStatus(t) \/ SetNotRunning(t) \/ PushResponse(t))
StartTask(t) ==
    work[t].kind = "start" /\ (HandleStep(t) \/ SetStatus(t) \/ SetNotRunning(t) \/ PushResponse(t))
ErrorTask(t) ==
    work[t].kind = "error" /\ (HandleStep(t) \/ PushResponse(t) \/ PostFree(t))
TimeoutTask(t) ==
    work[t].kind = "timeout" /\ (HandleStep(t) \/ PushResponse(t) \/ PostFree(t))
CloseTask(t) == work[t].kind = "close" /\ PostFree(t)

-----------------------------------------------------------------------------
(* The peers, as long as the server can still notice them *)

Managed(s) == ses[s].life = "live" /\ mgr.mSession[ses[s].mSid.mKey] = s

PeerSend(s) ==
    /\ Managed(s) /\ peer[s].state = "open"
    /\ peer' = [peer EXCEPT ![s].units = @ + 1]
    /\ Spend({s})
    /\ UNCHANGED <<mgr, ses, msgs, tasks, work, respQ, wake, loop>>

PeerLeave(s, how) ==
    /\ Managed(s) /\ peer[s].state = "open"
    /\ peer' = [peer EXCEPT ![s].state = how, ![s].units = IF how = "rst" THEN 0 ELSE @]
    /\ Spend({s})
    /\ UNCHANGED <<mgr, ses, msgs, tasks, work, respQ, wake, loop>>

-----------------------------------------------------------------------------

EventLoop ==
    \/ \E s \in Objects, fail \in BOOLEAN, bad \in Faults : OnAccept(s, fail, bad)
    \/ \E s \in Objects : EventLoopStale(s)
    \/ \E s \in Objects : EventLoopFailed(s)
    \/ \E s \in Objects, n \in 1 .. MaxEvents, bad \in Faults : OnRecvData(s, n, bad)
    \/ \E s \in Objects, bad \in Faults : OnRecvEnd(s, bad)
    \/ \E s \in Objects, n \in 0 .. (MaxMsgs + 1), bad \in Faults : OnSend(s, n, bad)
    \/ \E s \in Objects, bad \in Faults : OnSendError(s, bad)
    \/ OnSendTail
    \/ \E s \in Objects : EventLoopFree(s)
    \/ \E s \in Objects : OnTimeout(s)
    \/ ProcessBegin
    \/ \E bad \in Faults : ResponseFrom(bad)
    \/ \E sid \in loop.sids, bad \in Faults : ResponseTo(sid, bad) \/ ResponseClose(sid, bad)
    \/ ResponseExit
    \/ ProcessEnd

TaskStep(t) ==
    \/ TakeTask(t)
    \/ WorkerTask(t) \/ StartTask(t) \/ ErrorTask(t) \/ TimeoutTask(t) \/ CloseTask(t)

PeerStep ==
    \/ \E s \in Objects : PeerSend(s)
    \/ \E s \in Objects, how \in {"fin", "rst"} : PeerLeave(s, how)

Next == EventLoop \/ (\E t \in Threads : TaskStep(t)) \/ PeerStep

Spec == Init /\ [][Next]_vars

-----------------------------------------------------------------------------
(* Properties *)

\* The tasks that still use session s, queued or being run: a start or worker
\* task up to setRunning( 0 ), the others up to the eKeyFree completion.
Users(s) ==
      Cardinality({i \in DOMAIN tasks : tasks[i].s = s})
    + Cardinality({t \in Threads : work[t].s = s /\
          work[t].pc \in {"handle", "status", "unrun", "free"}})
    + Cardinality({t \in Threads : work[t].s = s /\ work[t].pc = "push" /\
          work[t].kind \in {"error", "timeout"}})
    + IF ses[s].freePosted THEN 1 ELSE 0

\* A session is handed to one task at a time, mRunning says so without a lock,
\* and a session that has left the table is in the hands of exactly the task
\* that will free it: it is freed once and never while a handler runs.
OneUser ==
    \A s \in Objects :
        /\ ses[s].life = "live" =>
              /\ Users(s) = IF ses[s].mRunning THEN 1 ELSE 0
              /\ ~Managed(s) => ses[s].mRunning
        /\ ses[s].life = "deleted" => Users(s) = 0 /\ \A k \in Keys : mgr.mSession[k] # s

\* The memory of a session that was given up may be reached through the port
\* and through the heap only: a completion still outstanding for it resolves to
\* no session, however its key was reused, and none of its timers is left.
NoStaleEvent ==
    \A s \in Objects : ses[s].life # "unborn" /\ ~Managed(s) =>
        /\ ses[s].recvIO \/ ses[s].sendIO => Resolve(s) = NULL
        /\ ~ses[s].recvTimer /\ ~ses[s].sendTimer

\* onResponse has not come to the exit of s yet for a response of s, and will: a
\* queued response has a completion posted or process() is under way.
ResponseDue(s) ==
    \/ \E i \in DOMAIN tasks : tasks[i].s = s
    \/ \E t \in Threads : work[t].s = s /\ work[t].pc # "idle"
    \/ /\ wake > 0 \/ loop.at \in {"process", "to", "close"}
       /\ \E i \in DOMAIN respQ : respQ[i].from = ses[s].mSid
    \/ loop.at = "to" /\ loop.resp.from = ses[s].mSid

\* "busy, process session error later": no session in the table is forgotten,
\* but for one that met a failure while its handler was running (missed).  Any
\* other has an I/O request outstanding or a response under way; if it must
\* exit or has messages to send, a WSASend; and no complete request is left
\* undecoded.
OnlyMissedStranded ==
    \A s \in Objects :
        (Managed(s) /\ ~ses[s].missed /\ ~ResponseDue(s) /\ loop.s # s) =>
            /\ ses[s].recvIO \/ ses[s].sendIO
            /\ ses[s].mReading = ses[s].recvIO /\ ses[s].mWriting = ses[s].sendIO
            /\ ses[s].mStatus # "eNormal" => ses[s].sendIO
            /\ ses[s].mOutList # <<>> => ses[s].sendIO
            /\ ses[s].mInBuffer = 0 \/ ses[s].sendIO

\* The completion handler deletes a message: it is called at most once, and
\* not while a session in the table still has the message in its outList.
MessageNotFreedEarly ==
    \A m \in Msgs :
        /\ msgs[m].completions <= 1
        /\ msgs[m].completions = 1 =>
              \A s \in Objects : Managed(s) => m \notin Range(ses[s].mOutList)
=============================================================================
