# SPServer: specifications, model checks and proofs

SPServer (`src/spserver`) is a C++ framework for TCP servers. Its half-sync/half-async
server runs one libevent loop that does all socket I/O, a pool of worker threads that
runs the application's handlers, and a message queue through which responses go back to
the loop. Around the same callbacks there are a leader/follower server, a dispatcher for
client sockets and timers, and the Windows counterparts of the three over an I/O
completion port. Decoders, an SMTP and an HTTP server, TLS channels and a tunnel
(`src/sptunnel`) are built on top. This directory holds TLA+ models of these parts, the
TLC runs that check them, and TLAPS proofs: about the session table and the response
queue everything else rests on, the half-sync/half-async server and the completion-port
server with their messages, the thread pool, the executor, the leader/follower server,
the loops' ends, the dispatcher's timers and the SMTP dialogue.

## 1. Inventory

| Part (source) | State | Operations | Talks to | What makes it correct |
|---|---|---|---|---|
| Session manager (`spsession.cpp`) | rows of entries (session, seq, next), free list, counters | `allocKey`, `put`, `get`, `remove` | called by the loop's callbacks only | a key is free or held, never both; an old sid never finds a later session |
| Event callbacks and helpers (`speventcb.cpp`) | `SP_Session`: status, running/reading/writing flags, input, outList; libevent's events | `onAccept`, `onRead`, `onWrite`, `onResponse`, `addEvent`; tasks `start`, `worker`, `error`, `timeout`, `myclose` | loop thread and workers share sessions without a lock; tasks go to the executor, responses come back by the message queue | one user of a handler at a time; no session, input, message or exit is stranded; nothing refers to a deleted session; every message completes once |
| IOCP server (`spwin32iocp.cpp`, `spiocpevent.cpp`) | the same, with outstanding I/O requests and a heap of timers | completion callbacks, `onTimeout`, the same tasks | same session manager; completions carry sids | the same; no completion or timer reaches a session that was given up; earliest timer first |
| Server loops (`spserver.cpp`, `spiocpserver.cpp`) | the two result queues, two executors, `mIsRunning`, `mIsShutdown` | `run`, `start`, `shutdown`, signal handlers, `acceptThread`, destructors | owns the loop thread | what tasks use outlives them; shutdown ends the loop |
| Dispatcher (`spdispatcher.cpp`, `spiocpdispatcher.cpp`) | push queue, armed timers, timer tasks | `push`, `onPush`, `onTimer`, `timer`, destructor | same callbacks, second message queue | a timer's argument has one owner at a time |
| Leader/follower servers (`splfserver.cpp`, `spiocplfserver.cpp`) | one mutex, the two queues, the leader | `run`, `handleOneEvent`, `shutdown`, destructor | same callbacks | no task waits while the threads sleep; the destructor returns |
| Response queue (`event_msgqueue.c`) | a ring that grows, a mutex, a socket pair | `msgqueue_push`, `msgqueue_pop` | workers push, the loop pops | FIFO, nothing lost, no wake-up lost |
| Executor and queues (`spexecutor.cpp`, `sputils.cpp`) | blocking queue over a growing ring, `mIsShutdown` | `execute`, `eventLoop`, `shutdown`, destructor | fed by the server loop, feeds the pool | every task once, in order; shutdown stops the loop |
| Thread pool (`spthreadpool.cpp`) | parked threads, `mTotal`, one mutex and condition per thread, a main mutex with three conditions | `dispatch`, `wrapperFunc`, `saveThread`, destructor | called by the executor | bounded, no deadlock, each job once, a quiet destructor |
| Output channel (`spiochannel.cpp`, `spmsgblock.cpp`) | outList and `mOutOffset` of a session | `transmit`, `write_vec` | called by `onWrite` | the peer gets every byte once and in order |
| TLS channels (`openssl`, `gnutls`, `matrixssl`, `xyssl`) | a library's session, its unread bytes; `insock`, `inbuf`, `outsock` and `outBufferCount` of `sslSocket.c` | `init`, `receive`, `write_vec` | replace the output channel's | a write that blocked is repeated with the same piece, once; the loop never blocks |
| Buffer, decoders (`spbuffer.cpp`, `spwin32buffer.cpp`, `spmsgdecoder.cpp`) | memory with offset and misalignment; partial input | `append`, `erase`, `getLine`, ...; `decode` | called on the loop thread | same messages however the input is cut |
| SMTP, HTTP (`spsmtp.cpp`, `sphttp*.cpp`) | command state, parser state | `handle`, parser | handlers of the framework | protocol order; same requests however cut; responses that a client can tell apart |
| Tunnel (`sptunnel/`) | pair of sessions, shared argument, kept data | `start`, `handle`, `error`, `close` of two handlers | dispatcher | bytes relayed once; the argument lives as long as either side |

What is hard here: the loop and the workers touch the same `SP_Session` fields
with no lock (`mRunning`, `mStatus`); a worker clears `mRunning` before it queues
its response; a session is deleted by a worker after the loop has dropped it; one
message can be in the outLists of several sessions that fail independently; sids
are reused with a 16-bit sequence number; `errno` is read when a call did not set
it; the pool takes its two kinds of mutex in both orders; wake-ups (socket byte,
condition variables, posted completions) must not be lost; rings are copied in two
chunks when they grow; `shutdown` and destructors race with running threads; bytes
are cut anywhere. The list with source lines is `hazards` in `PROJECT.json`.

## 2. Modules

| Module | Models | Composition |
|---|---|---|
| `SessionTable` | the entries, free list and the four operations as operators on a table record | used by the next three |
| `SessionManager` | the table driven by its callers, and every sid handed out, with its age in removals, until its number comes round | EXTENDS `SessionTable` |
| `EventServer` | libevent callbacks, tasks, workers, peers, messages, response queue (as a FIFO), `errno` | EXTENDS `SessionTable` |
| `IocpServer` | completion callbacks, tasks, workers, peers, the queue over the port | EXTENDS `SessionTable` |
| `TimerSet` | abstract: armed events with deadlines, the earliest expires | implemented by `EventHeap` |
| `EventHeap` | `SP_IocpEventHeap` | refines `TimerSet`; `IocpServer` keeps only membership of the heap |
| `MessageChannel` | abstract: a FIFO channel | implemented by the next two |
| `MsgQueue` | `event_msgqueue.c`: ring, growth, lock, wake-up byte, drain loop | refines `MessageChannel` |
| `CircleQueue`, `Executor` | `SP_CircleQueue`, `SP_BlockingQueue`, `SP_Executor` | `Executor` EXTENDS `CircleQueue`, refines `MessageChannel` |
| `ThreadPool` | `spthreadpool.cpp` with both lock orders | - |
| `ServerLoop` | life of `SP_Server`, `SP_IocpServer`, `SP_Dispatcher`, `SP_IocpDispatcher` | takes an executor to be what `Executor` shows of it |
| `Dispatcher` | what is pushed to a running dispatcher | the loop's life is `ServerLoop` |
| `LFServer` | both leader/follower servers | - |
| `Bytes`, `Buffer` | `SP_Buffer`'s line and search functions; `spwin32buffer.cpp` with its memory | `Buffer` EXTENDS `Bytes` |
| `Decoders` | the five decoders | EXTENDS `Bytes` |
| `Smtp`, `Http` | the command machine; request parser and adapter | - |
| `Transmit` | `SP_IOChannel::transmit` over abstract bytes | its effect on an outList is `SettleAll` in `EventServer` |
| `TlsChannel` | `init`, `receive`, `write_vec` of the OpenSSL, GnuTLS and XySSL channels | EXTENDS `Transmit` |
| `MatrixChannel` | the MatrixSSL channel over `sslAccept`, `sslRead`, `sslWrite` of `matrixssl/sslSocket.c` | EXTENDS `TlsChannel` |
| `Tunnel` | the two handlers and `SP_TunnelArg` over a reduced server | - |
| `Counting` | lemmas: how many elements of a sequence or arguments of a function have a value | used by the proofs that count tasks, workers, threads and places |
| `SessionTableProofs` | lemmas about `allocKey`, `put`, `remove` and the free chain | used by the next three |
| `SessionManagerProofs`, `EventServerProofs`, `IocpProofs` | theorems about the table and the two servers, with their messages | EXTEND the modules they prove about, and `SessionTableProofs` |
| `MsgQueueProofs`, `LifecycleProofs`, `ProtocolProofs` | theorems about the queue; the thread pool, `Executor`, `LFServer`, `ServerLoop`, `Dispatcher`; `Smtp`, `Tunnel` | EXTEND the modules they prove about |
| `MCLifecycle`, `MCProtocols` | several components in one run; `part` says which one a behaviour is about | EXTEND the modules |
| other `MC...` | TLC instances | EXTEND the module |

An operator whose comment begins with "Fault:" is a plausible defect of the
definition after it. Nothing uses it; `PROJECT.json` pairs it with a property
that is violated when it takes the place of that definition.

### How state and steps correspond

*SessionTable.* `mArray` is the set of allocated rows (64 rows of 1024 keys in
the code, `Rows` by `ColPerRow` here), `mSession`, `mSeq`, `mNext` the entries,
`SeqMod` stands for 65536. Row 0 is never allocated, so that key 0 can mean "none",
as in the code. Table growth inside `allocKey` (`Refilled`) and the pop from the free
list are one action.

*SessionManager.* The actions are the calls callers make: `Alloc` and
`PutSession` (`onAccept`), `RemoveSession` (`doError`, `doTimeout`, `doClose`),
and `AbandonKey`, the IOCP `onAccept` that removes a key it never put. `handles`
remembers the issued sids, which the application may use at any later time, until
`SeqMod` removals of the key have brought the number round.

*EventServer.* A callback is one action because the loop is one thread and the
callback's accesses to shared fields commute with the workers', with one
exception: `onWrite` reads `mStatus` and later `mRunning`, between which a worker
can change both, so it is two actions (`OnWrite`, `OnWriteTail`). A task is split
at each write to the session and at the push of its response: run the handler,
`setStatus`, `setRunning(0)`, `msgqueue_push`; and for final tasks handler,
push, `delete session`. Input is counted in units, `ReqLen` of which make a
request. A response carries at most one message, which may be addressed to any
set of published sids, and a list of sids to close. `readEvent` and `writeEvent`
say what libevent has registered, separate from the flags `mReading` and
`mWriting` in which the code believes. Sessions can be refused, can fail to
initialise their channel, can time out, and peers can send, close or reset at any
time.

*IocpServer.* The same cut of tasks and callbacks for `spwin32iocp.cpp`. `recvIO`
and `sendIO` are the zero-byte requests outstanding in the port; their completions
carry a sid that `eventLoop` resolves when it dequeues them, so a late completion
may meet a reused key. `SP_IocpMsgQueue::process` releases its mutex round each
response, and `onResponse` goes through the sender, the sids of the message's toList, the
exit of the sender and the sids of the `toCloseList` in a step each (`ResponseFrom`,
`ResponseTo`, `ResponseExit`, `ResponseClose`; the two lists in any order), between
which workers run on. A failing `WSARecv`, `WSASend` or association with the port is a choice
of the callback that calls it, within the budget `MaxEvents`. `missed` marks a
session that met a failure or a timeout while its handler was running; the code
leaves it to "later" (`spwin32iocp.cpp`, "busy, process session error later"), and
`OnlyMissedStranded` shows that only such sessions can be left without an event. The two
reads of the sender's status in `onResponse` are one, and messages are not empty.

*EventHeap.* The array, `mHeapIndex` of each event, growth, and the two shifts as
recursive operators. *TimerSet* is what callers expect.

*MsgQueue.* `msgqueue_push` up to `send()` and `send()` itself are two steps,
because `send()` blocks with the lock held when the socket pair is full
(`SockCap` bytes). `msgqueue_pop` receives before it locks and unlocks round
each callback. A push can fail (bounded queue full, `malloc` in the growth
fails).

*Executor.* The two halves of `pop` around the wait are separate steps; the end of
`eventLoop` and the destructor are split where one can see what the other has
done. The constructor ignores a failing `sp_thread_create`: `loop.pc` may be "none"
for ever.

*ThreadPool.* `main` names whoever keeps `mMainMutex` while waiting for a
thread's mutex; a thread keeps its own mutex from `LockOwn` to its wait. All other
critical sections are single steps. Jobs that `dispatch` cannot place because
`sp_thread_create` fails are run by the caller, as `SP_Executor::eventLoop` does.

*ServerLoop.* `kind` tells the four classes apart. The loop thread goes through
`eventLoop` (which sets `mIsRunning` around `start`), the test of `mIsShutdown`, the
wait for events, the hand-over of tasks and messages to the executors, and the end of
`start`, where the executors are destroyed in the order of the code. Tasks and
messages are counted. An executor has a door: "open", "none" when its thread could not
be made, "one" when `shutdown` was called and the loop may hand on one more task, "shut"
when the destructor knows that the loop has ended, "hung" when it missed the signal or
none will come (`Handed`, `Closing`). An owner destroys a server only after its thread has begun
(`Started`): the code gives no other guarantee, and the dispatchers sleep a second
to that end.

*Dispatcher.* A timer's `SP_PushArg_t` is in `pushQueue`, in `armed`, in `tasks`, in
a worker's hands, `freed`, or `dropped` with the tasks that a shutdown leaves. That
a push fails for lack of memory is not modelled.

*LFServer.* A thread takes the mutex, takes a task or a message or runs one turn of
the event loop, releases the mutex and runs what it took. Over a completion port,
`shutdown` sets the flag and posts one completion. `run` does not look whether
`dispatch` could make a thread, so any number of them may be there (`Dispatched`).

*Transmit.* A byte is `<<m, i>>`; a message is the list of the sizes of its buffer
and its blocks. `WriteVec(len)` is one `write_vec` that takes `len` bytes, with
the recursion of `transmit` in `writing`.

*TlsChannel.* The library is modelled from how the channels use it: it reads whole
records, gives `receive` at most `ReceiveSize` bytes (4096) and keeps the rest, and
once a write would block wants the same piece again. Writing goes on through
`Transmit`.

*MatrixChannel.* The socket layer under this channel is in the repository, so its
buffers are state. `insock` counts the bytes fetched but not decoded, against a size
that doubles up to a limit; the records come from a stream chosen at the start and
arrive in any pieces, and `recv` runs at most once in a call of `sslRead`. `out` is
what the socket has taken: `<<m, i>>` for data, `<<m, 0>>` for the end of a record,
other tokens for what the handshake sends. A part write or a record without data
returns 0 with `errno` 0, for which `onRead` and `onWrite` end a session that is not
running; both outcomes are in the actions.

*Buffer, Decoders.* A byte that is not content is "?", so that a read of one shows.
A decoder gets its stream in pieces of any size; a behaviour is about one decoder.

*Smtp, Http.* A command line is its command and whether its argument is there; the
user's handler answers as it likes. HTTP input is a sequence of tokens (the text of
a start line, header or chunk size, a byte of content, `\r`, `\n`) cut anywhere
between two tokens; parsing acts on whole lines only.

*Tunnel.* Each use of the shared argument is a step of its own. The server under the
handlers is reduced to what `EventServer` shows: one task of a session at a time,
`mRunning` cleared before the response is queued, responses in queue order. The read
event of a session that is no longer normal, which `onResponse` deletes, stays armed
here, which allows more.

## 3. Runs

| Run | Question | Bounds, and why they are enough |
|---|---|---|
| `server_pipeline` | One session, pipelined requests, two workers, part writes, hang-ups, time-outs: is its handler used by one thread at a time, is nothing stranded, and is a close not undone by a worker? | 2 units of input make a request arrive during a run; 2 messages make an outList of 2, cut by part writes; 2 threads let a later task overtake an earlier push |
| `server_sessions` | Two sessions that address each other's messages, close each other, get refused: accounting and dangling references | a message to both, either of which can fail first; `ReqQueueSize` 1 makes refusal happen while the other session is live; a `toCloseList` names only started sessions |
| `server_liveness` | Is every message completed, every hang-up during a run noticed, every exit carried out? | one session, no full windows (see the finding); fairness below |
| `server_close_starting` | expected violation: `CloseNotForgotten` when a `toCloseList` may name a session whose start task has not ended | 2 sessions, 2 workers |
| `server_stale_errno` | expected violation: `HangupProcessed` when windows can fill | one session, one message |
| `iocp_server` | The completion-port server: one user of a session, no stale completion or timer, only failures met during a run leave a session without an event, no message freed early | 2 sessions over 2 keys with `SeqMod` 3, so that a key is reused while a completion for its last session is outstanding; one message that may go to both; 2 events among requests, departures, timers, failures and closes in any mix, which is what each of the listed hazards needs |
| `msgqueue_socket_full` | expected violation: `AllDelivered` when the socket pair fills | room for 2 bytes, 2 pushers of 3 messages |
| `lifecycle` | Thread pool: size, each job once, every dispatched job runs over both lock orders, a quiet and returning destructor. Executor: tasks in order through a growing ring, `shutdown` stops the loop. Response queue: a FIFO channel through growth, with no lost wake-up, delivering everything. Leader/follower: no task waits while the leader does; the IOCP destructor returns. Loops: what tasks use outlives them, shutdown ends the loop. Dispatcher: one owner of a timer | 2 pool threads allowed of 3 that could be made and 4 jobs from 2 callers: creation, parking, reuse, waiting for an idle thread and failure to create all happen; ring of 2 that grows twice with 3 tasks of each of 2 clients; 2 leader/follower threads and 3 events, so that a leader can meet the work of the one before; 3 events for a loop, so that a turn finds tasks of an earlier one under way; 2 timers, 2 descriptors, 2 workers, 2 keys; response queue of initial size 2 and 6 messages from 2 pushers: two growths, from wrapped and unwrapped positions |
| `protocols` | Is the session table's free list exact, do the assertions of `put` and `remove` hold, does a sid resolve iff current (until the sequence number has gone round), does `allocKey` fail only when every key is held? Do the bytes come out as they went in, through buffer, decoders, parsers, plain and TLS output and the tunnel, however they are cut? Is the timeout heap a timer set? | the instances in `MCProtocols`: 3 rows of 2 keys, of which row 0 is never used, as in the code: the table grows twice, the second time when every key of the first row is held; `SeqMod` 2 wraps; 2 sessions, which are symmetric, and one abandoned key; every stream of up to 5 bytes of `\r`, `\n` and text; mails of up to 3 lines with dots in every place, empty ones and ones followed by the terminator of another; 2 requests on a connection with and without content, form, query and keep-alive, the second perhaps chunked; 4 messages of layouts with empty buffers and blocks and more pieces than `MaxIov`; records shorter, equal and longer than `ReceiveSize`, than the first `insock` and than its limit, fetched in every cut, with 2 messages going out; 6 events in the heap, enough for an erased entry whose replacement has to move up; 2 chunks per direction of a tunnel |
| `matrix_window_full` | expected violation: `MatrixStream` when a send may find no room for the first byte of a record | the MatrixSSL part of `protocols` with `FullBeforeRecord` |
| `mail_first_dot` | expected violation: `MailStripped` for a mail whose first line begins with a dot | the decoder part of `protocols` |
| `http_cut_empty_line` | expected violation: `RequestsWhole` when a read ends inside the empty line after the headers | the HTTP part of `protocols` |

Runs with `CHECK_DEADLOCK FALSE` have an end: a bounded number of connections,
messages or tasks. In the thread pool a deadlock would break `DispatchedRuns` or `DestructorReturns`.

Two modules have switches for what the code does not handle, both off
in `protocols`, so that the properties say exactly where the code is right:

* `MayBeFull`: `decode` compares at `pos` after `getBuffer()`, which moves a buffer
  that has no room for a zero byte (`spmsgdecoder.cpp:161`); what it reads then is
  arbitrary, and `MailExact` fails.
* `FullBeforeRecord`: a send of `sslSocket.c` that takes nothing of a new record; see
  the finding of `matrix_window_full`. A record of which a part was sent may meet a
  full window in `protocols` too: that case the code handles.

Other properties state the condition under which the code keeps them, and the run
has the inputs and the steps that break the condition too:

* `MailExact`: the text is not empty, as the line end before the "." is part of what
  the decoders look for; for the chunk decoder, no terminator of a later mail is behind
  it (`CanFrame`). How a mail is framed is claimed for every such text, and what
  becomes of its dots unless it begins with one: `mail_first_dot` has the code fail
  there.
* `RequestsExact`: no read ended between the `\r` and the `\n` of the empty line after
  the headers (`cut`), and only the last request of a connection is chunked, as the
  empty line behind a chunked body stays in the buffer (`sphttpmsg.cpp:182`) and is
  taken for the start of the next. `RequestsWhole` drops the first condition, and
  `http_cut_empty_line` has the code fail.
* `LFDestructorReturns`: `run` got a thread, or `mIsRunning` is 0. When every
  `dispatch` of `SP_IocpLFServer::run` fails, `mIsRunning` stays 1 for ever.
* `ShutdownEndsLoop`: over libevent the loop stops unless it waits for an event that
  does not come, as `shutdown` wakes nobody there. `start()` returns unless it hangs in
  the destructor of an executor that missed the signal of its loop or has no thread
  (`StuckInJoin`).
* `ShutdownStopsLoop`: the executor has a thread.
* `TunnelExact` claims the order of the relayed data only when one worker thread runs
  the handlers: with two, the second of two pipelined tasks can queue its response
  first, because `mRunning` is cleared before the push (`speventcb.cpp:441`); `sptunnel`
  starts ten threads by default.

### Fairness

* `EventServer`: libevent calls every active event in each turn of the loop, so
  the callbacks get strong fairness; feeding the executor follows each turn; the
  second half of `onWrite` and every worker step get weak fairness (threads run,
  handlers return). Peers, time-outs and new connections get none.
* `MsgQueue`: weak fairness for the steps of the loop and for `send()`; strong
  fairness where the loop competes for the mutex. Nobody has to push.
* `MCLifecycle`: weak fairness of each pool thread and of a caller in `dispatch` or in
  the pool's destructor (the calls are bounded, so a mutex is not contended for ever,
  and jobs return), of the executor's loop thread, of each leader/follower
  thread, of the loop thread and its two executors (their tasks return), and of an
  owner that has begun a destructor or a shutdown to finish it. Events, pushes,
  signals and the decision to shut down get none.

## 4. Theorems

TLAPS proves, for every value of the constants that satisfies the named
assumptions:

* `SessionManagerProofs` (from `TableAssumption`, `SessionsAssumption`):
  `TableInvariant`, and from it `TypeCorrect`, `FreeListCorrect`, `AssertionsSafe`,
  `CountCorrect`, `StaleSidSafe`, `CurrentSidSafe`, `ExhaustionSafe`. No single
  property is inductive. That `remove` pushes a key which is not already on the
  free list needs the exact chain; that a popped key is fresh needs the chain to
  cover only keys nobody holds; that a stale sid does not resolve needs, for
  every sid issued that recently, the relation between its number, its age and the entry's
  `mSeq` modulo `SeqMod` (`AgesTrackSeq`). `TableInv` is their conjunction with
  `HeldInRows`. The chain is an explicit injective sequence
  (`FreeChain`), so that popping and pushing are facts about `Tail` and a
  prepended element rather than inductions over links. `CountCorrect` says that
  `getCount()` is the number of sessions less the keys that the IOCP `onAccept`
  removed without a `put` (`spwin32iocp.cpp:346`).
* `MsgQueueProofs` (from `QueueAssumption`): `QueueInvariant`, and from it
  `RingCorrect`, `WakeupSafe` and `FifoRefinement`, which is the refinement
  `Spec => Channel!Spec`: every step of `msgqueue_push` and `msgqueue_pop` is a
  push, a take or a stutter of the abstract channel, through wrap-around and
  growth (`GrowKeeps`), for bounded and unbounded queues. `NoLostWakeup` is not
  inductive without the lock (a message may be stored before its byte is sent)
  and the place of `msgqueue_pop`; `QueueInv` adds both.

* `EventServerProofs` (from `TableAssumption` and `ServerAssumption`, for
  any number of sessions, keys, threads, queued tasks and messages): `ServerInvariant`,
  and from it `Exclusive`, `NoDangling` and `WritingFlag`. `HandlerExclusive` is not
  inductive: nothing in it stops a callback from making a second task for a session, or
  a task from running after its session was deleted. `ServerInv` counts. For each
  session, the tasks in the two queues and in the hands of workers that use its handler
  are one if `mRunning` is set and none otherwise; the tasks that will delete it are one
  if it is alive and outside the table and none otherwise; events, `mRunning` and an
  `onWrite` under way belong to sessions in the table; the outList of a session
  outside it is empty; `mWriting` agrees with the write event. With it comes
  `TableOK`, proved preserved by `SessionTableProofs`, and that a key's entry names a
  live session with that key. Each callback then touches one session (`TouchOne`),
  adds a task (`Dispatch`), takes a session out of the table (`Leave`) or adds one
  (`Enter`), and each worker step passes its hold on (`TouchWork`).
* `EventServerProofs`, the messages: `MessageInvariant` and `Accounted`. `MsgInv`
  adds to `ServerInv` that a message is in at most one response, counted over workers
  and the queue; that while it is, no outList has it; that afterwards the sessions that
  hold it are those its toList names; that an outList has a message once; and that the
  sid of a session in the table is current. The last one is what makes `get` in
  `onResponse` find the sessions that are added to the holders and no others
  (`SidUnique`, `ReceiverFound`).
* `EventServerProofs`, the sessions that are served: `ServedInvariant`, and from it
  `SessionServed` and `CloseHonoured`. `NotStranded` is not inductive: a callback that
  meets a running session, or one that must exit, leaves it without an event and relies
  on a response. `ServedInv` adds that the response comes: a thread that has one, and the
  queue, name a sid that was given out, in the table only to a session that has started,
  and a session in the table either waits for one (`Due`) or has the event that its
  status, its input and its outList call for (`Served`). `event_del` in `onResponse`
  leaves `mReading` set; what saves the read event is that a session which is not
  `eNormal` once has started does not become `eNormal` again, which needs that its start
  task comes first and is the only one of its kind (`StartsOK`, `OnlyOne`).
  The three have the hypothesis `MaxSessions < SeqMod`: fewer connections accepted than
  sequence numbers (65536 in the code); every run has such an instance. `SidsOK` gives
  each step of a key's `mSeq` a session that is gone. Without a bound the properties are
  false, as TLC finds with 3 sessions, 3 workers and `SeqMod` 2: two responses of the
  first session that are pushed when its number has come round reach the third one while
  it starts; the first asks to close it, the second deletes its read event and leaves
  `mReading` set, and its start task then makes it `eNormal`, with nothing registered.
  `CloseHonoured` also has `CloseWhileStarting = FALSE`; what happens otherwise is the
  finding of `server_close_starting`.
* `IocpProofs` (from `TableAssumption` and `IocpAssumption`, for any number of sessions,
  keys, threads, messages, failing calls and expiring timers): `IocpInvariant`, and from
  it `OneUserSafe`, `MessageSafe` and `StaleEventSafe`. A callback of the model is an
  operator on a world (table, sessions, messages, tasks), so `IocpInv` is stated of a
  world, `Good`, and each operator is shown to keep it. Its first part, `WorldOK`, counts
  uses as `ServerInv` does, with the posted `eKeyFree` completion as the last use of a
  session; it adds that a timer belongs to a session in the table. Its second part,
  `MailOK`, follows a message from the worker that made it through the queue to
  `onResponse`: a session in the table that holds a message is on its toList and is one
  that `onResponse` has already come to (`Pending` are the others), so that settling a
  message takes off a sid which is there, and the list is empty when the last holder is
  done. The message of a refusal has no toList; its one holder is the session refused.
  `StaleEventSafe` has the hypothesis `MaxSessions < SeqMod`: with as many sessions as
  sequence numbers a key can come round to the number of a session whose completion is
  still outstanding, and the property is false. `SeqsOK` gives each step of a key's
  `mSeq` a session of its own that is gone, so that no sid that was given up is current;
  that no timer is left, the other half of the property, does not need the hypothesis.
* `IocpProofs`, the sessions that are served: `IocpServedInvariant` and, from it,
  `OnlyMissedForgotten`. `OnlyMissedStranded` is not inductive: a completion that finds the
  handler running posts nothing, and relies on the response that will come.
  `IocpServedInv` says for each session of the table that did not miss a failure
  (`AllServed`) that `mReading` and `mWriting` are its outstanding requests and that a
  session with an outList has a WSASend (`Posted`). If nothing of it is under way, a task,
  a thread, a response or a start (`Under`), and the callback of the moment is not about to
  close it (`Exempt`), then it has a WSARecv and no input left while it is `eNormal`, and
  a WSASend while it is to exit. What is under way does come: the response a thread pushes
  names the session that it has in its hands (`HandsOK`), and a queued response has a
  completion posted, or `process()` at work (`WakeOK`). The hypothesis is again
  `MaxSessions < SeqMod`. Without it the property is false, as TLC finds with 3 sessions on
  one key and `SeqMod` 2: the completion of a request that was outstanding when the first
  session was given up finds the third, which has its sid, and clears the flag of a request
  that the third still has outstanding.
* `LifecycleProofs`:
  `LeaderIdle` (from `LFAssumption`): the thread that looks at the queues or is in the
  event loop has the mutex (`LeaderHoldsMutex`), so that nobody can fill a queue behind it.
  `ArgSafe`: outside the turns of the loop no task is under way and none can be
  handed on, because the executor's door is shut before; `mIsRunning` covers `start()`.
  `TimerOwned` (from `DispatcherAssumption`): the number of places a timer is in
  changes by moves between two of them only.
  `PoolCorrect` (from `PoolAssumption`): `PoolInv` adds to `PoolSafe` that a listed
  thread sleeps until the shutdown; that a client in the second half of `dispatch`
  has `mMainMutex` and a sleeping, unlisted thread with the client's job; that a job
  which was dispatched has been run or is in exactly one hand, a client's or a
  thread's; and that all living threads are listed once the destructor's first wait is
  over. The last two need that a list as long as `mTotal` names every living thread
  (`ListCounts`), which is also why `saveThread` never returns -1.
  `ExecutorRefinement` and `ExecutorAwake` (from `ExecutorAssumption`): the executor
  implements the channel, and its loop sleeps only when no task is queued and no
  shutdown is asked for (`LoopSleepsIdle`). `ExecutorInv` adds that `mTail` is `mCount`
  places after `mHead` in the ring (`CircleOK`), so that a push appends, a pop
  takes the head and growth keeps the order (`GrownKeeps`), and that a shutdown
  between the test in `eventLoop` and `pop` leaves its own task to be popped.
* `ProtocolProofs`: `DialogueSafe`. `SmtpInv` says what each flag of the session
  remembers of the calls since the last `rset` (`Remembered`). `TunnelArgCounted`: for
  any number of threads and chunks, `mRefCount` of `SP_TunnelArg` is the number of
  handlers that point to it, and it is destroyed with the last one (`ArgCounted`,
  the second half of the property `TunnelExact`). `TunnelGood` says that each side has
  at most one task, queued or inside a thread, with `mRunning` set until it is done
  (`SideOK`), and that the backend side is untouched until `start()` of the tunnel's
  handler adds its reference (`RefsOK`).

The assumptions are that sets of threads are finite, that bounds are natural numbers,
and that names are not confused (`Nobody` is no thread, timers are no descriptors).

Checked by TLC only:

* all liveness, as the prover does not handle fairness;
* `EventHeap`, `Buffer`, `Decoders` and `Http`, which use recursive operators for loops of
  the code, out of the prover's reach;
* `Transmit`, `TlsChannel`, `MatrixChannel` and the relayed data of `Tunnel`: what they say of
  byte streams is about folds over sequences and would need induction over data.

## 5. Findings

* `server_close_starting`: `SP_EventHelper::start` always stores its own result
  with `setStatus` (`speventcb.cpp:610`). The handler's `start` has by then seen
  the sid and may have given it to others; an `eExit` set by a `toCloseList`
  meanwhile is overwritten with `eNormal`, and the session goes on. `worker` does
  not have this flaw: it stores only a status other than `eNormal`.
* `server_stale_errno`: `onRead` looks at `errno` after `receive()` returned 0,
  which does not set it. An `EAGAIN` left by an earlier write makes it re-arm the
  read event each time, so that a hang-up during a run is not processed.
* `msgqueue_socket_full`: while `msgqueue_pop` drains, every push into the emptied
  queue sends another byte that is not received before the drain ends. A full
  socket pair blocks the pusher with the lock held, and the loop waits for the
  lock.
* `matrix_window_full`: a `send()` that would block makes `sslWrite` return with the
  encoded record in `outsock` but `outBufferCount` 0. The retry, which the comment
  above `sslWrite` asks for, encodes the piece again behind it, and the peer gets the
  data twice.
* `mail_first_dot`: both mail decoders look for a dot to take away from the second byte
  on (`spmsgdecoder.cpp:155`, `:288`), after a `\n`. When the very first line begins with
  a dot, its doubling stays, although `spsmtp.hpp:65` promises the handler data
  "stripped of any extra '.' chars".
* `http_cut_empty_line`: the header loop takes a line that begins with `\r` for the empty
  line before its `\n` has come (`sphttpmsg.cpp:228`). The `\n` is then the first byte of
  the content or the start line of a request nobody sent, which is answered.
  `testhttpmsg.cpp:75` feeds the parser byte by byte, which makes just this cut.

Other weak points met while modelling, about which the repository states nothing
that a run could refute (the models have the steps unless said otherwise):

* `spexecutor.cpp:78`, `:122`: the destructor tests `mIsShutdown` outside the mutex
  and can miss the signal, and waits for ever when the thread could not be made (`:63`);
  `start()` of a server or dispatcher then does not return. `eventLoop` uses the mutex
  and the condition after the value that lets the destructor destroy them.
* `spiocplfserver.cpp:244`: when every `dispatch` fails, `mIsRunning` stays 1 and the
  destructor's loop (`:58`) does not end; `splfserver.cpp:207` ignores the result alike.
* `spwin32iocp.cpp:462`: the timer of a session that is running is dropped for good.
* `spserver.cpp:218`, `spiocpserver.cpp:275`: `start` deletes the completion handler
  before the executor whose tasks call it.
* `spserver.cpp:43`, `spiocpserver.cpp:44`, `spdispatcher.cpp:50`: a server destroyed
  before its thread has set `mIsRunning` is freed under that thread; `~SP_Server`
  waits for nothing at all.
* `spiocpserver.cpp:168`, `spiocplfserver.cpp:173`: the accept thread never stops and
  outlives its argument. `spiocpserver.cpp:217`: the copy of the port is stale after
  `start`.
* `splfserver.cpp:58`: the destructor waits for the leader, which wakes only for an
  event; `:64` calls `event_del` with a null event when `run` failed.
* `spiocpdispatcher.cpp:219`: a pushed socket that cannot be bound to the port keeps
  its key and its descriptor; `:225` ignores a failing `addRecv`.
* `spwin32iocp.cpp:622`: the remaining time is unsigned and never less than zero
  (time itself is not modelled).
* `spmsgdecoder.cpp:137`, `:155`, `:288`: an empty mail has no line end before its "."
  and is not found until the terminator of another comes; an empty text is read past
  its end. `:198`: a terminator that straddles two chunks is missed when the same read
  holds a whole one of a later mail.
* `sphttp.cpp:225`: content that a handler sets for a HEAD request is sent.
  `sphttpmsg.cpp:122`: an empty header value gives a null pointer.
* `spwin32buffer.cpp:133`: text that does not fit is dropped on Windows.
* `sptunnelimpl.cpp:288`, `:224`: data kept while the backend opens goes out, and the
  end of the backend is noticed, only with the client's next data.
* `spopenssl.cpp:54` (`spgnutls.cpp` alike): a failed handshake leaves the descriptor
  blocking; `spxyssl.cpp:114` spins in the handshake while the library says try
  again (one step of the model).
* `sslSocket.c:549`, `:444`, `:500`: a record that arrives in two reads, one without data
  and one that needs an answer make `sslRead` return 0; `receive` passes that on with
  `errno` 0 and `onRead` ends a session that is not running, though the comment at
  `sslSocket.c:358` calls such a read successful. `:668`: so does the 0 of a first piece
  sent in part, in `onWrite`.
* `sslSocket.c:467`: the answer to a handshake record goes out even when a part of
  another record has been sent, and on a blocking descriptor (`:484`) when the window
  is short; when it is full, `:477` moves the start by -1 and a stray byte goes first.
* `sslSocket.c:410`: several records may be fetched at once, and only one is returned;
  the others wait in `insock`, for which no read event comes.
* `sslSocket.c:218`: a failed handshake frees the connection but leaves the channel's
  pointer to it, and the channel's destructor frees it again (not in the model).
* `spthreadpool.cpp:164`: the wait tests no predicate, so that a spurious wake-up
  would run the last job again; condition variables of the models wake only when
  signalled.

## 6. Not modelled

* System-call wrappers (`spioutils.cpp`, `spwin32port.cpp`, `spthread.cpp`,
  `spgetopt.c`): no state of their own; their effects are in the actions that call
  them.
* Keys and certificates of the TLS factories; the client side, the socket set-up and
  the shutdown helpers of `matrixssl/sslSocket.c`. The TLS libraries themselves are
  modelled from their use.
* Parsing of HTTP responses (used by test clients), getters and setters, string
  helpers and `SP_ArrayList` of `sputils.cpp`, byte totals, logging, replies' wording.
* Test programs, benchmarks and the sample servers (`test*.cpp`).
* `msgqueue_destroy` (both calls are commented out); the session manager's
  destructor, which runs when the server object goes.

## 7. Plan: proofs

The modules without recursion are written to be proved about: parameters with named
assumptions, one action per operation, invariants as conjunctions of named parts.
That plan is carried out: each safety property of a module without recursion has its
theorem, but for those that follow the content of a byte stream. What stays with TLC,
and why, is listed at the end of section 4.
