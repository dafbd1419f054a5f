---------------------------- MODULE EventServer ----------------------------
(***************************************************************************)
(* The half-sync/half-async core of SPServer: the libevent callbacks of    *)
(* spserver/speventcb.cpp run by one event-loop thread (SP_Server::start), *)
(* and the session tasks they hand to a pool of worker threads, which run  *)
(* the application's SP_Handler and send an SP_Response back to the loop.  *)
(*                                                                         *)
(* The loop and the workers share the SP_Session objects without a lock.   *)
(* A callback is one action, except that onWrite reads mStatus and later   *)
(* mRunning: it is split there.  A task is split at every write to the     *)
(* session (setStatus, setRunning, delete) and at msgqueue_push.           *)
(*                                                                         *)
(* Data is abstracted: input is counted in units, ReqLen of them make a    *)
(* request the decoder accepts; a message is an identifier with its lists  *)
(* of sids; a response carries at most one message.                        *)
(***************************************************************************)
EXTENDS SessionTable, Sequences, FiniteSets, Functions

CONSTANTS
    MaxSessions,        \* bound: connections accepted in a behaviour
    MaxConnections,     \* mMaxConnections
    ReqQueueSize,       \* mReqQueueSize
    Threads,            \* the worker threads
    MaxMsgs,            \* bound: messages made by handlers
    MaxCloses,          \* bound: sids put on a toCloseList
    PeerUnits,          \* bound: units of input a peer sends
    ReqLen,             \* units in one request
    Backpressure,       \* TRUE: a peer's window can fill (EAGAIN, part writes)
    CloseWhileStarting  \* TRUE: a toCloseList may name a session whose
                        \* start task has published its sid and not ended

ASSUME ServerAssumption ==
    /\ MaxSessions \in Nat \ {0} /\ MaxConnections \in Nat /\ ReqQueueSize \in Nat
    /\ MaxMsgs \in Nat /\ MaxCloses \in Nat
    /\ PeerUnits \in Nat /\ ReqLen \in Nat \ {0}
    /\ Backpressure \in BOOLEAN /\ CloseWhileStarting \in BOOLEAN
    /\ NULL \notin 1 .. MaxSessions
    /\ IsFiniteSet(Threads)

Objects == 1 .. MaxSessions             \* SP_Session objects, in accept order
HandlerMsgs == 1 .. MaxMsgs
RefusedMsg(s) == MaxMsgs + s            \* the message onAccept makes for s
Msgs == 1 .. (MaxMsgs + MaxSessions)
Sids == [mKey : Keys, mSeq : Seqs]
NoSid == [mKey |-> 0, mSeq |-> 0]

VARIABLES
    mgr,        \* the SP_SessionManager
    ses,        \* the SP_Session objects
    peer,       \* per session: the other end of the connection
    msgs,       \* the SP_Message objects
    inputQ,     \* InputResultQueue: tasks the callbacks made
    execQ,      \* the tasks SP_Server::start gave to the worker executor
    work,       \* per worker thread: the task it runs
    respQ,      \* the response message queue
    loop,       \* the session whose onWrite is under way, and what it read
    errno,      \* errno of the event-loop thread
    closeReq    \* sessions that a toCloseList has set to eExit

vars == <<mgr, ses, peer, msgs, inputQ, execQ, work, respQ, loop, errno, closeReq>>

-----------------------------------------------------------------------------
(* Initial state *)

\* life: "unborn" before accept, "live", "deleted".  channel: ioChannel->init
\* was called.  readEvent, writeEvent: registered with libevent; mReading and
\* mWriting are the flags the code keeps about that.  published: the handler's
\* start has run; started: the start task has set the status.
NewSession ==
    [life |-> "unborn", mSid |-> NoSid, mStatus |-> "eNormal", mRunning |-> FALSE,
     mReading |-> FALSE, mWriting |-> FALSE, readEvent |-> FALSE,
     writeEvent |-> FALSE, channel |-> FALSE, mInBuffer |-> 0, mOutList |-> <<>>,
     published |-> FALSE, started |-> FALSE, refused |-> FALSE]

NewMessage ==
    [made |-> FALSE, size |-> 1, all |-> {}, to |-> {}, ok |-> {}, fail |-> {},
     completions |-> 0]

Idle == [pc |-> "idle", kind |-> "none", s |-> 0, status |-> "eNormal",
         resp |-> [from |-> NoSid, msg |-> 0, close |-> {}]]

Closed == [state |-> "fin", units |-> 0, left |-> 0]

LoopIdle == [s |-> 0, exit |-> FALSE]

Init ==
    /\ mgr = EmptyTable
    /\ ses = [s \in Objects |-> NewSession]
    /\ peer = [s \in Objects |-> [state |-> "open", units |-> 0, left |-> PeerUnits]]
    /\ msgs = [m \in Msgs |-> NewMessage]
    /\ inputQ = <<>> /\ execQ = <<>> /\ respQ = <<>>
    /\ work = [w \in Threads |-> Idle]
    /\ loop = LoopIdle
    /\ errno = "other"
    /\ closeReq = {}

-----------------------------------------------------------------------------
(* Operations on a session record *)

\* s is alive and in the table.
Managed(s) == ses[s].life = "live" /\ mgr.mSession[ses[s].mSid.mKey] = s

\* addEvent( session, EV_WRITE ) and addEvent( session, EV_READ )
AddWrite(r) ==
    IF r.mWriting THEN r ELSE [r EXCEPT !.mWriting = TRUE, !.writeEvent = TRUE]
AddRead(r) ==
    IF r.mReading THEN r ELSE [r EXCEPT !.mReading = TRUE, !.readEvent = TRUE]

\* Fault: the events of a session that is given up stay registered.
DelEventsKept(r) == r

\* event_del of both events leaves mReading and mWriting as they are.
DelEvents(r) == [r EXCEPT !.readEvent = FALSE, !.writeEvent = FALSE]

Task(kind, s) == [kind |-> kind, s |-> s]

\* decoder->decode() == eOK
Decodable(r) == r.mInBuffer >= ReqLen

\* Fault: the session is not marked running when its request is dispatched.
WorkedUnmarked(r) ==
    IF Decodable(r) /\ r.mStatus = "eNormal"
    THEN [r EXCEPT !.mInBuffer = @ - ReqLen] ELSE r

\* decode, then doWork: the request is given to a worker only while the
\* session is eNormal; otherwise the rest of the input is thrown away.
Worked(r) ==
    CASE ~Decodable(r) -> r
      [] Decodable(r) /\ r.mStatus = "eNormal" ->
            [r EXCEPT !.mInBuffer = @ - ReqLen, !.mRunning = TRUE]
      [] OTHER -> [r EXCEPT !.mInBuffer = 0]

WorkTasks(r, s) ==
    IF Decodable(r) /\ r.mStatus = "eNormal" THEN <<Task("worker", s)>> ELSE <<>>

\* Fault: the message is completed at the first session that settles it.
SettledEarly(msg, sid, sent) ==
    [msg EXCEPT !.to = @ \ {sid},
                !.ok = IF sent THEN @ \cup {sid} ELSE @,
                !.fail = IF sent THEN @ ELSE @ \cup {sid},
                !.completions = @ + 1]

\* Fault: a failed message is not pushed to the OutputResultQueue.
SettledQuietly(msg, sid, sent) ==
    [msg EXCEPT !.to = @ \ {sid},
                !.ok = IF sent THEN @ \cup {sid} ELSE @,
                !.fail = IF sent THEN @ ELSE @ \cup {sid},
                !.completions = IF sent /\ msg.to \subseteq {sid} THEN @ + 1 ELSE @]

\* The message leaves the outList of the session sid: sid moves from its
\* toList to its success or failure list, and the message is pushed to the
\* OutputResultQueue when the toList is empty.
Settled(msg, sid, sent) ==
    [msg EXCEPT !.to = @ \ {sid},
                !.ok = IF sent THEN @ \cup {sid} ELSE @,
                !.fail = IF sent THEN @ ELSE @ \cup {sid},
                !.completions = IF msg.to \subseteq {sid} THEN @ + 1 ELSE @]

SettleAll(taken, sid, sent) ==
    [m \in Msgs |-> IF m \in taken THEN Settled(msgs[m], sid, sent) ELSE msgs[m]]

-----------------------------------------------------------------------------
(* Leaving the loop: doError, doTimeout and doClose *)

\* r is the record of s after what the callback did before it called.
DoDrop(s, r, kind) ==
    /\ ses' = [ses EXCEPT ![s] = [DelEvents(r) EXCEPT !.mOutList = <<>>]]
    /\ msgs' = SettleAll(Range(r.mOutList), r.mSid, FALSE)
    /\ mgr' = Remove(mgr, r.mSid.mKey)
    /\ inputQ' = Append(inputQ, Task(kind, s))

DoError(s, r) == DoDrop(s, r, "error")
DoTimeout(s, r) == DoDrop(s, r, "timeout")

DoClose(s, r) ==
    /\ ses' = [ses EXCEPT ![s] = DelEvents(r)]
    /\ mgr' = Remove(mgr, r.mSid.mKey)
    /\ inputQ' = Append(inputQ, Task("close", s))
    /\ UNCHANGED msgs

-----------------------------------------------------------------------------
(* The callbacks of the event loop *)

\* "getCount() > mMaxConnections || getLength() >= mReqQueueSize", tested after
\* the put.
Busy(table) == table.mCount > MaxConnections \/ Len(inputQ) >= ReqQueueSize

\* onAccept of the next connection.
OnAccept(s) ==
    /\ loop = LoopIdle
    /\ ses[s].life = "unborn"
    /\ \A t \in 1 .. (s - 1) : ses[t].life # "unborn"
    /\ AllocKeyOf(mgr) # 0
    /\ LET sid == [mKey |-> AllocKeyOf(mgr), mSeq |-> AllocSeqOf(mgr)]
           table == Put(AllocKey(mgr), sid.mKey, s)
           new == [NewSession EXCEPT !.life = "live", !.mSid = sid]
       IN  /\ mgr' = table
           /\ \/ /\ Busy(table)
                 /\ msgs' = [msgs EXCEPT ![RefusedMsg(s)].made = TRUE]
                 /\ ses' = [ses EXCEPT ![s] =
                       AddWrite([new EXCEPT !.mOutList = <<RefusedMsg(s)>>,
                                            !.mStatus = "eExit",
                                            !.refused = TRUE])]
                 /\ UNCHANGED inputQ
              \/ /\ ~Busy(table)     \* doStart
                 /\ ses' = [ses EXCEPT ![s] = [new EXCEPT !.mRunning = TRUE]]
                 /\ inputQ' = Append(inputQ, Task("start", s))
                 /\ UNCHANGED msgs
    /\ UNCHANGED <<peer, execQ, work, respQ, loop, errno, closeReq>>

\* onRead, EV_READ, receive() > 0
OnReadData(s, n) ==
    /\ loop = LoopIdle
    /\ ses[s].readEvent
    /\ n \in 1 .. peer[s].units
    /\ peer' = [peer EXCEPT ![s].units = @ - n]
    /\ LET r == [ses[s] EXCEPT !.mReading = FALSE, !.readEvent = FALSE,
                               !.mInBuffer = @ + n]
       IN  \/ /\ r.mRunning
              /\ ses' = [ses EXCEPT ![s] = AddRead(r)]
              /\ UNCHANGED inputQ
           \/ /\ ~r.mRunning
              /\ ses' = [ses EXCEPT ![s] = AddRead(Worked(r))]
              /\ inputQ' = inputQ \o WorkTasks(r, s)
    /\ UNCHANGED <<mgr, msgs, execQ, work, respQ, loop, errno, closeReq>>

\* onRead, EV_READ, receive() <= 0: a reset sets errno, an orderly shutdown
\* returns 0 and leaves errno as the last failed call of this thread set it.
OnReadEnd(s) ==
    /\ loop = LoopIdle
    /\ ses[s].readEvent
    /\ peer[s].units = 0 /\ peer[s].state # "open"
    /\ errno' = IF peer[s].state = "rst" THEN "other" ELSE errno
    /\ LET r == [ses[s] EXCEPT !.mReading = FALSE, !.readEvent = FALSE]
       IN  \/ /\ errno' = "EAGAIN"
              /\ ses' = [ses EXCEPT ![s] = AddRead(r)]
              /\ UNCHANGED <<mgr, msgs, inputQ>>
           \/ /\ errno' # "EAGAIN" /\ ~r.mRunning
              /\ DoError(s, r)
           \/ /\ errno' # "EAGAIN" /\ r.mRunning
              /\ ses' = [ses EXCEPT ![s] = r]
              /\ UNCHANGED <<mgr, msgs, inputQ>>
    /\ UNCHANGED <<peer, execQ, work, respQ, loop, closeReq>>

\* onRead or onWrite, EV_TIMEOUT
OnTimeout(s, r) ==
    /\ loop = LoopIdle
    /\ \/ /\ ~r.mRunning
          /\ DoTimeout(s, r)
       \/ /\ r.mRunning
          /\ ses' = [ses EXCEPT ![s] = r]
          /\ UNCHANGED <<mgr, msgs, inputQ>>
    /\ UNCHANGED <<peer, execQ, work, respQ, loop, errno, closeReq>>

OnReadTimeout(s) ==
    /\ ses[s].readEvent
    /\ OnTimeout(s, [ses[s] EXCEPT !.mReading = FALSE, !.readEvent = FALSE])

OnWriteTimeout(s) ==
    /\ ses[s].writeEvent
    /\ OnTimeout(s, [ses[s] EXCEPT !.mWriting = FALSE, !.writeEvent = FALSE])

\* The record of s when its write event has fired.
Fired(s) == [ses[s] EXCEPT !.mWriting = FALSE, !.writeEvent = FALSE]

\* onWrite up to the second test: n messages of the outList were sent by
\* transmit().  A write that leaves some unsent was stopped by EAGAIN, or by
\* an error (the peer left between two writes) after part of the outList was
\* written, which transmit() hides; less than a message only when the window
\* was full.
OnWrite(s, n) ==
    /\ loop = LoopIdle
    /\ ses[s].writeEvent
    /\ n \in 0 .. Len(ses[s].mOutList)
    /\ \/ /\ n = Len(ses[s].mOutList)
          /\ n > 0 => ses[s].channel /\ peer[s].state # "rst"
          /\ UNCHANGED errno
       \/ /\ n < Len(ses[s].mOutList) /\ ses[s].channel /\ Backpressure
          /\ n > 0 => peer[s].state # "rst"
          /\ errno' = "EAGAIN"
       \/ /\ n < Len(ses[s].mOutList) /\ ses[s].channel /\ peer[s].state # "open"
          /\ n > 0 \/ Backpressure
          /\ errno' = "other"
    /\ LET sent == SubSeq(ses[s].mOutList, 1, n)
           rest == SubSeq(ses[s].mOutList, n + 1, Len(ses[s].mOutList))
           r == [Fired(s) EXCEPT !.mOutList = rest]
       IN  /\ msgs' = SettleAll(Range(sent), r.mSid, TRUE)
           /\ ses' = [ses EXCEPT ![s] = IF rest = <<>> THEN r ELSE AddWrite(r)]
           /\ loop' = [s |-> s, exit |-> rest = <<>> /\ r.mStatus = "eExit"]
    /\ UNCHANGED <<mgr, peer, inputQ, execQ, work, respQ, closeReq>>

\* onWrite when transmit() fails: the peer is gone, or the channel was never
\* given its file descriptor (mFd is -1 until init).
OnWriteError(s) ==
    /\ loop = LoopIdle
    /\ ses[s].writeEvent
    /\ ses[s].mOutList # <<>>
    /\ peer[s].state # "open" \/ ~ses[s].channel
    /\ errno' = "other"
    /\ LET r == Fired(s)
       IN  \/ /\ ~r.mRunning
              /\ DoError(s, r)
           \/ /\ r.mRunning
              /\ ses' = [ses EXCEPT ![s] = r]
              /\ UNCHANGED <<mgr, msgs, inputQ>>
    /\ UNCHANGED <<peer, execQ, work, respQ, loop, closeReq>>

\* The rest of onWrite, which reads mRunning: close an exiting session that
\* has nothing left to send, or decode the pending input.
OnWriteTail(s) ==
    /\ loop.s = s
    /\ loop' = LoopIdle
    /\ LET r == ses[s]
       IN  \/ /\ r.mRunning
              /\ UNCHANGED <<mgr, ses, msgs, inputQ>>
           \/ /\ ~r.mRunning /\ loop.exit
              /\ DoClose(s, r)
           \/ /\ ~r.mRunning /\ ~loop.exit
              /\ ses' = [ses EXCEPT ![s] = Worked(r)]
              /\ inputQ' = inputQ \o WorkTasks(r, s)
              /\ UNCHANGED <<mgr, msgs>>
    /\ UNCHANGED <<peer, execQ, work, respQ, errno, closeReq>>

\* Fault: onResponse does not add the write event, the read event, or does not
\* turn eWouldExit into eExit.
FromSessionNoWrite(r) ==
    LET st == IF r.mStatus = "eWouldExit" THEN "eExit" ELSE r.mStatus
    IN  AddRead([r EXCEPT !.mStatus = st, !.readEvent = @ /\ st = "eNormal"])
FromSessionNoRead(r) ==
    LET st == IF r.mStatus = "eWouldExit" THEN "eExit" ELSE r.mStatus
    IN  AddWrite([r EXCEPT !.mStatus = st, !.readEvent = @ /\ st = "eNormal"])
FromSessionStays(r) == AddRead(AddWrite(r))

\* What onResponse does to the session the response is from.
FromSession(r) ==
    LET st == IF r.mStatus = "eWouldExit" THEN "eExit" ELSE r.mStatus
    IN  AddRead(AddWrite([r EXCEPT !.mStatus = st,
                                   !.readEvent = @ /\ st = "eNormal"]))

\* The sids of the message that onResponse appends the message for: the others
\* are stale, or exiting and not the sender.
Accepting(resp, table) ==
    {sid \in msgs[resp.msg].to :
        /\ msgs[resp.msg].size > 0
        /\ LET t == Get(mgr, sid.mKey, sid.mSeq)
           IN  t # NULL /\ (sid = resp.from \/ table[t].mStatus # "eExit")}

\* onResponse: the sender's events, the message, the toCloseList.
OnResponse ==
    /\ loop = LoopIdle
    /\ respQ # <<>>
    /\ respQ' = Tail(respQ)
    /\ LET resp == Head(respQ)
           from == Get(mgr, resp.from.mKey, resp.from.mSeq)
           ses1 == [s \in Objects |-> IF s = from THEN FromSession(ses[s]) ELSE ses[s]]
           good == IF resp.msg = 0 THEN {} ELSE Accepting(resp, ses1)
           InTable(s) == Get(mgr, ses[s].mSid.mKey, ses[s].mSid.mSeq) = s
           Receives(s) == InTable(s) /\ ses[s].mSid \in good
           Closes(s) == InTable(s) /\ ses[s].mSid \in resp.close
           ses2 == [s \in Objects |->
                      IF Receives(s)
                      THEN AddWrite([ses1[s] EXCEPT !.mOutList = Append(@, resp.msg)])
                      ELSE ses1[s]]
       IN  /\ ses' = [s \in Objects |->
                        IF Closes(s)
                        THEN AddWrite([ses2[s] EXCEPT !.mStatus = "eExit"])
                        ELSE ses2[s]]
           /\ closeReq' = closeReq \cup {s \in Objects : Closes(s)}
           /\ msgs' = [m \in Msgs |->
                         IF m # resp.msg THEN msgs[m]
                         ELSE [msgs[m] EXCEPT
                                 !.to = good,
                                 !.fail = @ \cup (msgs[m].to \ good),
                                 !.completions = IF good = {} THEN @ + 1 ELSE @]]
    /\ UNCHANGED <<mgr, peer, inputQ, execQ, work, loop, errno>>

\* SP_Server::start after event_base_loop: every task goes to the executor.
DrainInput ==
    /\ loop = LoopIdle
    /\ inputQ # <<>>
    /\ execQ' = execQ \o inputQ
    /\ inputQ' = <<>>
    /\ UNCHANGED <<mgr, ses, peer, msgs, work, respQ, loop, errno, closeReq>>

-----------------------------------------------------------------------------
(* The worker threads *)

\* The executor hands the oldest task to an idle thread.
TakeTask(w) ==
    /\ work[w].pc = "idle"
    /\ execQ # <<>>
    /\ execQ' = Tail(execQ)
    /\ work' = [work EXCEPT ![w] =
                  [Idle EXCEPT !.kind = Head(execQ).kind, !.s = Head(execQ).s,
                               !.pc = IF Head(execQ).kind = "close"
                                      THEN "destroy" ELSE "handle"]]
    /\ UNCHANGED <<mgr, ses, peer, msgs, inputQ, respQ, loop, errno, closeReq>>

\* The sids an application can know, and those it may ask to close.
Published == {ses[s].mSid : s \in {t \in Objects : ses[t].published}}
Closable ==
    {ses[s].mSid : s \in {t \in Objects : IF CloseWhileStarting
                                          THEN ses[t].published ELSE ses[t].started}}

\* What a handler call may put into its response: at most one new message to
\* any set of known sids, empty or not, and at most one sid to close (bounded
\* through the sessions that a toCloseList has reached).
MessageChoices(sid) ==
    {[made |-> FALSE, size |-> 0, to |-> {}]}
        \cup [made : {TRUE}, size : {0, 1}, to : SUBSET (Published \cup {sid})]
CloseChoices ==
    {{}} \cup IF Cardinality(closeReq) < MaxCloses
              THEN {{sid} : sid \in Closable} ELSE {}

Unmade == {m \in HandlerMsgs : ~msgs[m].made}

\* The application's SP_Handler::handle, start, error or timeout runs; `status'
\* is what its return value makes of the session.  In a start task a failed
\* ioChannel->init deletes the response with its message for an empty one.
RunHandler(w, new, close, status, init) ==
    /\ work[w].pc = "handle"
    /\ LET s == work[w].s
           kind == work[w].kind
           m == IF new.made THEN CHOOSE x \in Unmade : \A y \in Unmade : x <= y
                ELSE 0
       IN  /\ kind # "start" => init
           /\ kind \in {"error", "timeout"} => status = "eNormal"
           /\ ~init => status = "eWouldExit"
           /\ new.made => Unmade # {} /\ init
           /\ msgs' = [x \in Msgs |->
                         IF x # m THEN msgs[x]
                         ELSE [NewMessage EXCEPT !.made = TRUE, !.size = new.size,
                                                 !.all = new.to, !.to = new.to]]
           /\ work' = [work EXCEPT
                 ![w].resp = [from |-> ses[s].mSid, msg |-> m,
                              close |-> IF init THEN close ELSE {}],
                 ![w].status = status,
                 ![w].pc = IF kind \in {"start", "worker"} THEN "status" ELSE "push"]
           /\ ses' = IF kind = "start"
                     THEN [ses EXCEPT ![s].channel = init, ![s].published = TRUE]
                     ELSE ses
    /\ UNCHANGED <<mgr, peer, inputQ, execQ, respQ, loop, errno, closeReq>>

HandlerStep(w) ==
    /\ work[w].pc = "handle"
    /\ \E new \in MessageChoices(ses[work[w].s].mSid), close \in CloseChoices,
          status \in {"eNormal", "eWouldExit"}, init \in BOOLEAN :
          RunHandler(w, new, close, status, init)

\* Fault: worker sets the status to what the handler returned, as start does.
SetStatusAlways(w) ==
    /\ work[w].pc = "status"
    /\ ses' = [ses EXCEPT ![work[w].s].mStatus = work[w].status,
                          ![work[w].s].started = TRUE]
    /\ work' = [work EXCEPT ![w].pc = "unrun"]
    /\ UNCHANGED <<mgr, peer, msgs, inputQ, execQ, respQ, loop, errno, closeReq>>

\* session->setStatus: start always sets it, worker only to eWouldExit.
SetStatus(w) ==
    /\ work[w].pc = "status"
    /\ LET s == work[w].s
       IN  ses' = [ses EXCEPT
                     ![s].mStatus = IF work[w].kind = "start"
                                       \/ work[w].status = "eWouldExit"
                                    THEN work[w].status ELSE @,
                     ![s].started = TRUE]
    /\ work' = [work EXCEPT ![w].pc = "unrun"]
    /\ UNCHANGED <<mgr, peer, msgs, inputQ, execQ, respQ, loop, errno, closeReq>>

\* session->setRunning( 0 )
SetNotRunning(w) ==
    /\ work[w].pc = "unrun"
    /\ ses' = [ses EXCEPT ![work[w].s].mRunning = FALSE]
    /\ work' = [work EXCEPT ![w].pc = "push"]
    /\ UNCHANGED <<mgr, peer, msgs, inputQ, execQ, respQ, loop, errno, closeReq>>

\* msgqueue_push; the error and timeout tasks then destroy the session.
PushResponse(w) ==
    /\ work[w].pc = "push"
    /\ respQ' = Append(respQ, work[w].resp)
    /\ work' = [work EXCEPT ![w] = IF work[w].kind \in {"error", "timeout"}
                                   THEN [@ EXCEPT !.pc = "destroy"] ELSE Idle]
    /\ UNCHANGED <<mgr, ses, peer, msgs, inputQ, execQ, loop, errno, closeReq>>

\* handler->close(), sp_close, delete session.  Of the object only what other
\* structures may still hold is kept: its sid, its registered events and the
\* messages of its outList.
DestroySession(w) ==
    /\ work[w].pc = "destroy"
    /\ LET s == work[w].s
       IN  /\ ses' = [ses EXCEPT ![s] =
                        [NewSession EXCEPT !.life = "deleted", !.mSid = ses[s].mSid,
                             !.published = ses[s].published,
                             !.readEvent = ses[s].readEvent,
                             !.writeEvent = ses[s].writeEvent,
                             !.mOutList = ses[s].mOutList]]
           /\ peer' = [peer EXCEPT ![s] = Closed]
    /\ work' = [work EXCEPT ![w] = Idle]
    /\ UNCHANGED <<mgr, msgs, inputQ, execQ, respQ, loop, errno, closeReq>>

\* The functions SP_SimpleTask calls, step by step
WorkerTask(w) ==
    work[w].kind = "worker" /\ (HandlerStep(w) \/ SetStatus(w) \/ SetNotRunning(w) \/ PushResponse(w))
StartTask(w) ==
    work[w].kind = "start" /\ (HandlerStep(w) \/ SetStatus(w) \/ SetNotRunning(w) \/ PushResponse(w))
ErrorTask(w) ==
    work[w].kind = "error" /\ (HandlerStep(w) \/ PushResponse(w) \/ DestroySession(w))
TimeoutTask(w) ==
    work[w].kind = "timeout" /\ (HandlerStep(w) \/ PushResponse(w) \/ DestroySession(w))
CloseTask(w) == work[w].kind = "close" /\ DestroySession(w)

-----------------------------------------------------------------------------
(* The peers, as long as the server can still notice them *)

PeerSend(s) ==
    /\ Managed(s) /\ peer[s].state = "open" /\ peer[s].left > 0
    /\ peer' = [peer EXCEPT ![s].units = @ + 1, ![s].left = @ - 1]
    /\ UNCHANGED <<mgr, ses, msgs, inputQ, execQ, work, respQ, loop, errno, closeReq>>

\* An orderly shutdown leaves the input readable, a reset discards it.
PeerLeave(s, how) ==
    /\ Managed(s) /\ peer[s].state = "open"
    /\ peer' = [peer EXCEPT ![s].state = how,
                            ![s].units = IF how = "rst" THEN 0 ELSE @]
    /\ UNCHANGED <<mgr, ses, msgs, inputQ, execQ, work, respQ, loop, errno, closeReq>>

-----------------------------------------------------------------------------

OnRead(s) == (\E n \in 1 .. PeerUnits : OnReadData(s, n)) \/ OnReadEnd(s)

OnWriteEvent(s) ==
    (\E n \in 0 .. (MaxMsgs + 1) : OnWrite(s, n)) \/ OnWriteError(s)

LoopStep ==
    \/ \E s \in Objects : OnAccept(s)
    \/ \E s \in Objects : OnRead(s)
    \/ \E s \in Objects : OnReadTimeout(s)
    \/ \E s \in Objects : OnWriteTimeout(s)
    \/ \E s \in Objects : OnWriteEvent(s)
    \/ \E s \in Objects : OnWriteTail(s)
    \/ OnResponse
    \/ DrainInput

WorkerStep(w) ==
    \/ TakeTask(w)
    \/ WorkerTask(w) \/ StartTask(w) \/ ErrorTask(w) \/ TimeoutTask(w) \/ CloseTask(w)

PeerStep ==
    \/ \E s \in Objects : PeerSend(s)
    \/ \E s \in Objects : \E how \in {"fin", "rst"} : PeerLeave(s, how)

Next == LoopStep \/ (\E w \in Threads : WorkerStep(w)) \/ PeerStep

Spec == Init /\ [][Next]_vars

\* libevent runs every active event in each iteration of its loop, so a
\* callback that is ready again and again is run; the loop thread and the
\* workers are never stopped for ever, and handlers return.  Peers and the
\* timers owe nothing.
LoopFairness ==
    /\ \A s \in Objects : SF_vars(OnRead(s)) /\ SF_vars(OnWriteEvent(s))
    /\ SF_vars(OnResponse)
    /\ SF_vars(DrainInput)
    /\ WF_vars(\E s \in Objects : OnWriteTail(s))

FairSpec == Spec /\ LoopFairness /\ \A w \in Threads : WF_vars(WorkerStep(w))

-----------------------------------------------------------------------------
(* Properties *)

Kinds == {"start", "worker", "error", "timeout", "close"}
Statuses == {"eNormal", "eWouldExit", "eExit"}

\* The shared structures have the types of the classes they stand for.
TypeOK ==
    /\ mgr \in Table(Objects)
    /\ ses \in [Objects ->
         [life : {"unborn", "live", "deleted"}, mSid : Sids \cup {NoSid},
          mStatus : Statuses, mRunning : BOOLEAN, mReading : BOOLEAN,
          mWriting : BOOLEAN, readEvent : BOOLEAN, writeEvent : BOOLEAN,
          channel : BOOLEAN, mInBuffer : Nat, mOutList : Seq(Msgs),
          published : BOOLEAN, started : BOOLEAN, refused : BOOLEAN]]
    /\ peer \in [Objects -> [state : {"open", "fin", "rst"}, units : Nat, left : Nat]]
    /\ msgs \in [Msgs -> [made : BOOLEAN, size : {0, 1}, all : SUBSET Sids,
                          to : SUBSET Sids, ok : SUBSET Sids, fail : SUBSET Sids,
                          completions : Nat]]
    /\ inputQ \in Seq([kind : Kinds, s : Objects])
    /\ execQ \in Seq([kind : Kinds, s : Objects])
    /\ respQ \in Seq([from : Sids, msg : Msgs \cup {0}, close : SUBSET Sids])
    /\ loop \in [s : Objects \cup {0}, exit : BOOLEAN]
    /\ errno \in {"EAGAIN", "other"}
    /\ closeReq \subseteq Objects

\* The tasks for s that are queued or being run.
Queued(s, kinds) ==
    {i \in DOMAIN inputQ : inputQ[i].s = s /\ inputQ[i].kind \in kinds}
Waiting(s, kinds) ==
    {i \in DOMAIN execQ : execQ[i].s = s /\ execQ[i].kind \in kinds}
Running(s, kinds, pcs) ==
    {w \in Threads : work[w].s = s /\ work[w].kind \in kinds /\ work[w].pc \in pcs}

HandlerKinds == {"start", "worker"}
FinalKinds == {"error", "timeout", "close"}

\* The tasks that still use the session: a start or worker task up to
\* setRunning( 0 ), a final task up to delete session.
Users(s) ==
      Cardinality(Queued(s, Kinds)) + Cardinality(Waiting(s, Kinds))
    + Cardinality(Running(s, HandlerKinds, {"handle", "status", "unrun"}))
    + Cardinality(Running(s, FinalKinds, {"handle", "push", "destroy"}))

HandlerBusy(s) ==
    \/ Queued(s, HandlerKinds) # {} \/ Waiting(s, HandlerKinds) # {}
    \/ Running(s, HandlerKinds, {"handle", "status", "unrun"}) # {}

\* A response of s has not reached the loop yet.
ResponseDue(s) ==
    \/ HandlerBusy(s) \/ Running(s, HandlerKinds, {"push"}) # {}
    \/ \E i \in DOMAIN respQ : respQ[i].from = ses[s].mSid

\* The handler, the decoder and the request of a session are used by one
\* thread at a time: mRunning, tested by the loop and cleared by the worker
\* without a lock, is set exactly while a start or worker task owns them, and
\* no second task is ever made for the session.
HandlerExclusive ==
    \A s \in Objects :
        /\ Users(s) <= 1
        /\ ses[s].mRunning <=> HandlerBusy(s)

\* "onResponse will ignore this session, so it's safe to destroy session here":
\* when a session is deleted nothing that the loop or a worker will look at
\* still refers to it, and a session that left the table is being destroyed.
NoDanglingSession ==
    \A s \in Objects :
        /\ ses[s].life = "deleted" =>
              /\ \A k \in Keys : mgr.mSession[k] # s
              /\ ~ses[s].readEvent /\ ~ses[s].writeEvent
              /\ Users(s) = 0 /\ loop.s # s
              /\ ses[s].mOutList = <<>>
        /\ ses[s].life = "live" /\ ~Managed(s) =>
              /\ ~ses[s].readEvent /\ ~ses[s].writeEvent /\ loop.s # s
              /\ ~HandlerBusy(s) /\ Users(s) = 1

\* The flag mWriting, which addEvent trusts, never claims a write event that
\* is not registered for a session in the table.
WritingFlagExact ==
    \A s \in Objects : Managed(s) => ses[s].mWriting = ses[s].writeEvent

\* No session is forgotten: one that is in the table has an event registered
\* or a response on its way to register one ("onResponse will add write event
\* for this session"); one that must exit has the write event, without which
\* it would stay until its read timeout; and a complete request that arrived
\* while the session was busy will be decoded "in onWrite" without waiting for
\* more input.
NotStranded ==
    /\ WritingFlagExact
    /\ \A s \in Objects : (Managed(s) /\ ~ResponseDue(s) /\ loop.s # s) =>
        /\ ses[s].readEvent \/ ses[s].writeEvent
        /\ ses[s].mStatus # "eNormal" => ses[s].writeEvent
        /\ Decodable(ses[s]) => ses[s].writeEvent
        /\ ses[s].mOutList # <<>> => ses[s].writeEvent

\* The messages that no onResponse has seen yet.
Undelivered ==
    {work[w].resp.msg : w \in {v \in Threads : work[v].pc \in {"status", "unrun", "push"}}}
        \cup {respQ[i].msg : i \in DOMAIN respQ}

\* Every sid a message was addressed to ends up in exactly one of its success
\* and failure lists, the message sits in the outList of exactly the sessions
\* of its toList, and it is given to the completion handler, which deletes it,
\* once: when the toList is empty and no outList refers to it.
MessageAccounting ==
    \A m \in HandlerMsgs : msgs[m].made =>
        LET msg == msgs[m]
            holders == {s \in Objects : m \in Range(ses[s].mOutList)}
        IN  /\ msg.all = msg.to \cup msg.ok \cup msg.fail
            /\ msg.to \cap (msg.ok \cup msg.fail) = {} /\ msg.ok \cap msg.fail = {}
            /\ m \in Undelivered => holders = {} /\ msg.completions = 0
            /\ m \notin Undelivered =>
                  /\ msg.to = {ses[s].mSid : s \in holders}
                  /\ msg.completions = IF msg.to = {} THEN 1 ELSE 0

\* A session that a toCloseList named ("using to terminate other sessions")
\* never goes back to serving requests.
CloseNotForgotten ==
    \A s \in closeReq : ses[s].life = "live" => ses[s].mStatus # "eNormal"

\* A session whose handler or start asked to exit, or that was closed by
\* another session, is destroyed.
ExitHonoured ==
    \A s \in Objects :
        (ses[s].life = "live" /\ ses[s].mStatus # "eNormal") ~> (ses[s].life = "deleted")

\* Every message that reaches onResponse gets its completion call.
CompletionHappens ==
    \A m \in HandlerMsgs : msgs[m].made ~> (msgs[m].completions = 1)

\* A peer that hangs up while the session is running is noticed in the end:
\* "It will be processed as write fail at the last."
HangupProcessed ==
    \A s \in Objects :
        (peer[s].state # "open" /\ ses[s].life = "live" /\ ses[s].mRunning)
            ~> (ses[s].life = "deleted")
=============================================================================
