------------------------------- MODULE Tunnel -------------------------------
(***************************************************************************)
(* The tunnel of sptunnel/sptunnelimpl.cpp: a client's session (the        *)
(* "tunnel" side) and the session that its start() opens to the target     *)
(* (the "backend" side) relay what they read to each other.  They share an *)
(* SP_TunnelArg: the status and the sid of each side, under a mutex, and a *)
(* count of the handlers that use it.                                      *)
(*                                                                         *)
(* The server around them is reduced to what EventServer shows of it: a    *)
(* session runs one task at a time, start() first; a task clears mRunning  *)
(* before it queues its response; responses are handled in queue order; a  *)
(* message to a sid that is gone is dropped; a session ends once, and its  *)
(* last task destroys the handler.  Data is the sequence of the chunks     *)
(* 1, 2, ... that a peer sends; every step of a task between two uses of   *)
(* the shared argument is a step of its own.                               *)
(***************************************************************************)
EXTENDS Integers, Sequences, FiniteSets

LOCAL INSTANCE SequencesExt

CONSTANTS
    TunnelWorkers,      \* the threads of the dispatcher's executor
    MaxTunnelData       \* bound: chunks each peer sends

ASSUME TunnelAssumption ==
    /\ IsFiniteSet(TunnelWorkers) /\ TunnelWorkers # {}
    /\ MaxTunnelData \in Nat

VARIABLE tn

Sides == {"tunnel", "backend"}
Peer(s) == IF s = "tunnel" THEN "backend" ELSE "tunnel"

NoSid == "zero"         \* the sid that memset leaves
NoWork == [pc |-> "idle", side |-> "tunnel", to |-> NoSid, data |-> <<>>]

EverySide(v) == [s \in Sides |-> v]

\* SP_TunnelArg's constructor
NewTunnelArg ==
    [refCount |-> 1, status |-> EverySide("create"), sid |-> EverySide(NoSid), deleted |-> FALSE]

\* A client is accepted: its handler is there, and its start task is queued.
NewTunnel(threads) ==
    [threads |-> threads,
     arg |-> NewTunnelArg,
     blocks |-> <<>>,                                   \* mMsgBlockList
     session |-> [tunnel |-> "starting", backend |-> "none"],
     running |-> [tunnel |-> TRUE, backend |-> FALSE],
     task |-> [tunnel |-> "start", backend |-> "none"],
     armed |-> EverySide(FALSE),                        \* the read event
     writable |-> EverySide(FALSE),                     \* the write event
     sent |-> EverySide(0),                             \* by the peer of the session
     inBuffer |-> EverySide(<<>>), decoder |-> EverySide(<<>>),
     outList |-> EverySide(<<>>), got |-> EverySide(<<>>),
     responses |-> <<>>,
     worker |-> [w \in TunnelWorkers |-> NoWork]]

TunnelInit == \E n \in {1, Cardinality(TunnelWorkers)} :
    \E threads \in kSubset(n, TunnelWorkers) : tn = NewTunnel(threads)

-----------------------------------------------------------------------------
(* SP_TunnelArg: each call holds the mutex *)

SetTunnelSid(arg) == [arg EXCEPT !.sid["tunnel"] = "tunnel"]
SetBackendSid(arg) == [arg EXCEPT !.sid["backend"] = "backend"]
SetTunnelStatus(arg, status) == [arg EXCEPT !.status["tunnel"] = status]
SetBackendStatus(arg, status) == [arg EXCEPT !.status["backend"] = status]
AddRef(arg) == [arg EXCEPT !.refCount = @ + 1]

Release(arg) == [arg EXCEPT !.refCount = @ - 1, !.deleted = (arg.refCount - 1 <= 0)]

-----------------------------------------------------------------------------
(* SP_TunnelDecoder, and what the loop does with its result *)

\* decode() moves the whole inBuffer; the result is OK when there is anything.
TunnelDecode(t, s) ==
    [t EXCEPT !.decoder[s] = @ \o t.inBuffer[s], !.inBuffer[s] = <<>>]

\* doWork: a task for a normal session, the input of any other is ignored.
TunnelDoWork(t, s) ==
    IF t.session[s] = "up"
    THEN [t EXCEPT !.running[s] = TRUE, !.task[s] = "handle"]
    ELSE [t EXCEPT !.inBuffer[s] = <<>>]

\* When the session is not running, its input is decoded.
TunnelInput(t, s) ==
    IF t.running[s] THEN t
    ELSE LET u == TunnelDecode(t, s)
         IN  IF u.decoder[s] # <<>> THEN TunnelDoWork(u, s) ELSE u

\* takeBuffer()
TakeBuffer(t, s) == [t EXCEPT !.decoder[s] = <<>>]

-----------------------------------------------------------------------------
(* The loop *)

\* doError, doTimeout or doClose: the sid is unknown from now on.
TunnelEnd(t, s) ==
    [t EXCEPT !.session[s] = "ending", !.outList[s] = <<>>, !.armed[s] = FALSE,
              !.writable[s] = FALSE, !.task[s] = "end"]

\* The session manager still has the session of this sid.
Known(t, s) == s \in Sides /\ t.session[s] \in {"starting", "up", "wouldExit", "exit"}

\* onPush: the backend session that start() pushed
TunnelOnPush ==
    /\ tn.session["backend"] = "pushed"
    /\ tn' = [tn EXCEPT !.session["backend"] = "starting", !.running["backend"] = TRUE,
                        !.task["backend"] = "start"]

\* onRead: the peer's next chunk
TunnelOnRead(s) ==
    /\ tn.armed[s] /\ tn.sent[s] < MaxTunnelData
    /\ tn' = TunnelInput([tn EXCEPT !.sent[s] = @ + 1,
                                    !.inBuffer[s] = Append(@, tn.sent[s] + 1)], s)

\* A session that is not running meets an error, a timeout or the peer's close.
TunnelHangup(s) ==
    /\ tn.armed[s] /\ ~tn.running[s] /\ tn.task[s] = "none"
    /\ tn' = TunnelEnd(tn, s)

\* onWrite: some or all of the outList; then exit, or the pending input
TunnelOnWrite(s, n) ==
    /\ tn.writable[s]
    /\ n \in (IF tn.outList[s] = <<>> THEN {0} ELSE 1 .. Len(tn.outList[s]))
    /\ LET out == SubSeq(tn.outList[s], n + 1, Len(tn.outList[s]))
           t == [tn EXCEPT !.writable[s] = (out # <<>>), !.outList[s] = out,
                           !.got[s] = @ \o SubSeq(tn.outList[s], 1, n)]
       IN  tn' = IF out = <<>> /\ t.session[s] = "exit"
                 THEN IF t.running[s] THEN t ELSE TunnelEnd(t, s)
                 ELSE TunnelInput(t, s)

\* onResponse: the sender's events are added, the message goes to its session
FromSender(t, s) ==
    IF Known(t, s)
    THEN [t EXCEPT !.session[s] = IF @ = "wouldExit" THEN "exit" ELSE @,
                   !.armed[s] = TRUE, !.writable[s] = TRUE]
    ELSE t

ToReceiver(t, to, data) ==
    IF data # <<>> /\ Known(t, to) /\ t.session[to] # "exit"
    THEN [t EXCEPT !.outList[to] = @ \o data, !.writable[to] = TRUE]
    ELSE t

TunnelOnResponse ==
    /\ tn.responses # <<>>
    /\ LET r == Head(tn.responses)
       IN  tn' = ToReceiver(FromSender([tn EXCEPT !.responses = Tail(@)], r.side), r.to, r.data)

-----------------------------------------------------------------------------
(* The tasks *)

\* An idle thread takes the task of side s, and goes on to pc.
TakesTask(w, s, task) ==
    /\ w \in tn.threads /\ tn.worker[w].pc = "idle"
    /\ tn.task[s] = task

Working(t, w, pc, s) == [t EXCEPT !.worker[w].pc = pc, !.worker[w].side = s, !.task[s] = "none"]

\* SP_TunnelHandler::start: connect succeeds and the backend is pushed, or fails
TunnelStart(w, connected) ==
    /\ TakesTask(w, "tunnel", "start")
    /\ LET arg == SetTunnelStatus(SetTunnelSid(tn.arg), "normal")
           t == Working(tn, w, IF connected THEN "started" ELSE "refused", "tunnel")
       IN  tn' = IF connected
                 THEN [t EXCEPT !.arg = AddRef(arg), !.session["backend"] = "pushed"]
                 ELSE [t EXCEPT !.arg = arg]

\* Fault: the status says normal before the sid is there.
BackendStartSwapped(w) ==
    \/ /\ TakesTask(w, "backend", "start")
       /\ tn' = [Working(tn, w, "sid", "backend") EXCEPT
                     !.arg = SetBackendStatus(@, "normal")]
    \/ /\ tn.worker[w].pc = "sid" /\ tn.worker[w].side = "backend"
       /\ tn' = [tn EXCEPT !.arg = SetBackendSid(@), !.worker[w].pc = "started"]

\* SP_BackendHandler::start: the sid, then the status
BackendStart(w) ==
    \/ /\ TakesTask(w, "backend", "start")
       /\ tn' = [Working(tn, w, "sid", "backend") EXCEPT !.arg = SetBackendSid(@)]
    \/ /\ tn.worker[w].pc = "sid" /\ tn.worker[w].side = "backend"
       /\ tn' = [tn EXCEPT !.arg = SetBackendStatus(@, "normal"),
                           !.worker[w].pc = "started"]

\* SP_EventHelper::start after the handler: the tunnel side's TLS channel may
\* have failed, which is known only now.
Started(w, channelUp) ==
    /\ tn.worker[w].pc \in {"started", "refused"}
    /\ tn.worker[w].side = "backend" => channelUp
    /\ LET s == tn.worker[w].side
           normal == channelUp /\ tn.worker[w].pc = "started"
       IN  tn' = [tn EXCEPT !.session[s] = IF normal THEN "up" ELSE "wouldExit",
                            !.running[s] = FALSE, !.worker[w].pc = "push"]

\* SP_TunnelHandler::handle: the buffer is kept while the backend is not there
TunnelHandle(w) ==
    \/ /\ TakesTask(w, "tunnel", "handle")
       /\ tn.arg.status["backend"] = "create"
       /\ tn' = [TakeBuffer(Working(tn, w, "ret", "tunnel"), "tunnel") EXCEPT
                     !.blocks = @ \o tn.decoder["tunnel"]]
    \/ /\ TakesTask(w, "tunnel", "handle")
       /\ tn.arg.status["backend"] # "create"
       /\ tn' = [TakeBuffer(Working(tn, w, "address", "tunnel"), "tunnel") EXCEPT
                     !.worker[w].data = tn.decoder["tunnel"]]
    \/ /\ tn.worker[w].pc = "address"
       /\ tn' = [tn EXCEPT !.worker[w].to = tn.arg.sid["backend"],
                           !.worker[w].data = tn.blocks \o @,
                           !.worker[w].pc = "ret", !.blocks = <<>>]
    \/ /\ tn.worker[w].pc = "ret" /\ tn.worker[w].side = "tunnel"
       /\ tn' = [tn EXCEPT !.session["tunnel"] = IF tn.arg.status["backend"] = "destroy"
                                                 THEN "wouldExit" ELSE @,
                           !.running["tunnel"] = FALSE, !.worker[w].pc = "push"]

\* SP_BackendHandler::handle
BackendHandle(w) ==
    \/ /\ TakesTask(w, "backend", "handle")
       /\ tn' = [TakeBuffer(Working(tn, w, "ret", "backend"), "backend") EXCEPT
                     !.worker[w].to = tn.arg.sid["tunnel"],
                     !.worker[w].data = tn.decoder["backend"]]
    \/ /\ tn.worker[w].pc = "ret" /\ tn.worker[w].side = "backend"
       /\ tn' = [tn EXCEPT !.session["backend"] = IF tn.arg.status["tunnel"] # "normal"
                                                  THEN "wouldExit" ELSE @,
                           !.running["backend"] = FALSE, !.worker[w].pc = "push"]

\* The task's response is queued: mRunning is 0 already.
QueueResponse(w) ==
    /\ tn.worker[w].pc = "push"
    /\ tn' = [tn EXCEPT !.responses = Append(@, tn.worker[w]), !.worker[w] = NoWork]

\* error(), timeout() or close() of a handler, then its destructor
TunnelClose(w) ==
    /\ TakesTask(w, "tunnel", "end")
    /\ tn' = [Working(tn, w, "delete", "tunnel") EXCEPT !.arg = SetTunnelStatus(@, "destroy")]

TunnelDelete(w) ==
    /\ tn.worker[w].pc = "delete" /\ tn.worker[w].side = "tunnel"
    /\ tn' = [tn EXCEPT !.session["tunnel"] = "gone", !.arg = Release(@),
                        !.blocks = <<>>, !.worker[w] = NoWork]

BackendClose(w) ==
    /\ TakesTask(w, "backend", "end")
    /\ tn' = [Working(tn, w, "delete", "backend") EXCEPT !.arg = SetBackendStatus(@, "destroy")]

BackendDelete(w) ==
    /\ tn.worker[w].pc = "delete" /\ tn.worker[w].side = "backend"
    /\ tn' = [tn EXCEPT !.session["backend"] = "gone", !.arg = Release(@), !.worker[w] = NoWork]

TunnelNext ==
    \/ TunnelOnPush
    \/ TunnelOnResponse
    \/ \E s \in Sides :
          \/ TunnelOnRead(s)
          \/ TunnelHangup(s)
          \/ \E n \in 0 .. MaxTunnelData : TunnelOnWrite(s, n)
    \/ \E w \in TunnelWorkers :
          \/ \E b \in BOOLEAN : TunnelStart(w, b) \/ Started(w, b)
          \/ BackendStart(w) \/ TunnelHandle(w) \/ BackendHandle(w)
          \/ QueueResponse(w)
          \/ TunnelClose(w) \/ TunnelDelete(w) \/ BackendClose(w) \/ BackendDelete(w)

TunnelSpec == TunnelInit /\ [][TunnelNext]_tn

-----------------------------------------------------------------------------
(* Properties *)

DataOf(seq) == FlattenSeq([i \in DOMAIN seq |-> seq[i].data])

\* Every chunk of side s, from the far peer back to its own inBuffer.
Carried(s) ==
    LET To(r) == r.side = s /\ r.to = Peer(s)
        Busy == {w \in TunnelWorkers : tn.worker[w].side = s /\ tn.worker[w].data # <<>>
                    /\ (tn.worker[w].pc = "push" => To(tn.worker[w]))}
    IN  tn.got[Peer(s)] \o tn.outList[Peer(s)] \o DataOf(SelectSeq(tn.responses, To))
        \o DataOf(SetToSeq({tn.worker[w] : w \in Busy}))
        \o (IF s = "tunnel" THEN tn.blocks ELSE <<>>)
        \o tn.decoder[s] \o tn.inBuffer[s]

Open(s) == tn.session[s] \in {"none", "pushed", "starting", "up"}

\* While neither session ends, every chunk a peer sent is somewhere on its way,
\* or with the other peer, exactly once; and a server of one thread delivers
\* the chunks in the order they were sent.  (With more threads a response can
\* overtake the one before it: mRunning is cleared before the queue is used.)
RelayExact ==
    \A s \in Sides :
        /\ Open(s) /\ Open(Peer(s)) =>
              /\ Len(Carried(s)) = tn.sent[s]
              /\ ToSet(Carried(s)) = 1 .. tn.sent[s]
        /\ IsInjective(tn.got[s])
        /\ Cardinality(tn.threads) = 1 =>
              tn.got[s] = [i \in DOMAIN tn.got[s] |-> i]

\* SP_TunnelArg counts the handlers that point to it, and is destroyed with the
\* last of them, whichever side ends first.
ArgCounted ==
    LET Handlers == {s \in Sides : tn.session[s] \notin {"none", "gone"}}
    IN  /\ tn.arg.refCount = Cardinality(Handlers)
        /\ tn.arg.deleted <=> Handlers = {}

\* The two sessions lose and duplicate nothing of what they relay, and share
\* their argument until both are gone.
TunnelExact == RelayExact /\ ArgCounted
=============================================================================
