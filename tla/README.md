# A verification project for the Avid ECS archive driver

The repository holds a Windows DLL that archives files of an Avid media system to
an EMC ECS object store (`AvidECSArchiveDriver/`), the library it uses to talk S3
to the store (`ECSUtil/`), a dialog that drives the DLL by hand (`Driver/`), the
interface headers of the Avid "Data Engine Transfer" (DET) plug-in
(`include/Av/`), and vendored code (`include/AvSupport`, `include/plog`, `lib`).
It has no automated tests. All paths below are relative to `src/`.

Contents: [1 Inventory](#1-inventory) ·
[2 Plan](#2-plan) ·
[3 The DET session](#3-the-det-session) ·
[4 The streams](#4-the-streams) ·
[5 The pool, its locks and the multipart upload](#5-the-pool-its-locks-and-the-multipart-upload) ·
[6 The connection](#6-the-connection) ·
[7 Runs](#7-runs) ·
[8 Proofs](#8-proofs) ·
[9 Findings](#9-findings) ·
[10 Outside the model](#10-outside-the-model)

## 1 Inventory

### 1.1 DET session: `AvidECSArchiveDriver/DETAction*.cpp`, `DETState.*`, `DETBaseExImpl.*`

*State.* One `DETAction` per open session: the stack of run states `m_pState`
(a bare `std::stack` with the transition table of `CommonDef.h`), the transfer
status `m_Status`, the list of files `m_Data` filled from the request XML, the
result ("cookie") XML, the handle of the transfer thread, a critical section.

*Operations.* `OpenEx`, `ActionEx(xml)`, `PauseEx`, `ResumeEx`, `CancelEx`,
`CloseEx`, `GetStatusEx`, `GetResultXMLEx`. Push and Pull run their files in a
thread of their own (`DETAction::TransferFiles`); Remove and Iterate run inside
`ActionEx`.

*Interactions.* The host's thread, the transfer thread and a status thread share
the object. The critical section covers `m_Status` only; the stack, the list, the
handle and the cookie are shared without a lock. `Pause` stops the transfer thread
with `SuspendThread`, wherever it is.

*What is hard.* `DETState::SetState` looks the transition up and then pushes, and
another thread may push in between; `RollbackState` pops whatever is on top; the
thread may be stopped inside the critical section; a handle is assigned after the
thread it belongs to may have ended; the object is freed while the thread lives.

*Correct when* the state a caller is shown is the one the session is in, `Finish`
means that every file was tried and the result is complete, a failed session is not reported as
finished, no two transfer threads work on the same list, and every call returns.

### 1.2 Streaming file transfer: `ECSUtil/FileSupport.cpp`, `ECSUtil/CSharedQueue.*`

*State.* A queue of buffers (`CSharedQueue`) between the caller's thread, which reads
or writes the local file, and a worker that talks to the store; the worker's error
and exit flag; the end mark `bLast`; a bound on the queue; the list of callbacks of
the connection that ask for an abort.

*Operations.* `S3Read` (from the store to a file), `S3Write` (from a file to the
store), their workers `CS3ReadThread::DoWork`,
`CS3WriteThread::DoWork`, `CalcUploadChecksum`; `WaitForQueue`, `push_back`,
`pop_front`, `TriggerEvent` of the queue.

*What is hard.* Producer and consumer end independently: the end mark, the
worker's exit flag and the queue's contents are three facts read at different
times (`FileSupport.cpp:94`); events are auto-reset; the size test of `push_back`
is outside the lock.

*Correct when* a transfer that reports success moved every byte in order, an error
of either side reaches the caller, and neither side waits for the other for ever.

### 1.3 Multipart upload: `ECSUtil/FileSupport.cpp` (`DoS3MultiPartUpload`, `CMPUPool`)

*State.* The list of parts with a mark, a retry count and a cursor each; for each part a
stream queue; a list of pending attempts, each with an event; a pool of threads.
*Operations.* Cut a file into parts; give them to the pool, so many ahead; read the file
into the stream queues round robin; wait for any event; retry a failed part; complete or
abort the upload. *What is hard.* Results arrive out of order; a part fails while others are
in flight, with data of the last attempt still queued; a part refused for its credentials is
sent again from a stream that was consumed; the caller waits for events while the pool
is full; part size and number of parts are computed from limits. *Correct when* success
means that the server has every block of every part once and in order, and an upload
that fails is aborted there.

### 1.4 Thread pool: `ECSUtil/ThreadPool.*`, `ECSUtil/SimpleWorkerThread.*`

*State.* Queue of messages ordered by priority, each with a group; a list of delayed messages;
the list of threads; limits; `bDisable`. *Operations.* `SendMessageToPool`,
`SendMessageToPoolDelayed`, `AddThreads`, `StartNewThread`, `DoWork`, `ExitInstance`,
`SetMaxThreads`, `UpdatePerf`, `SearchMessageKill`, `Terminate`, `WaitForWorkFinished`,
`TransferFutureQueue`, `DeleteOldThreadEntries`. *What is hard.* Two locks with a prescribed
order; threads that end while others are started; termination while messages are in
flight; a delayed message moved by two workers. *Correct when* an entry of the queue is
worked on by one worker at a time and to the end, groups do not mix, a message that was
sent finds a thread, and `Terminate` ends with no thread.

### 1.5 Read/write lock: `ECSUtil/CRWLock.*`

*State.* The SRW lock of the system, and a list of the `CRWLockAcquire` objects that lock or
wait, each with its thread, mode and whether it has the lock. *Operations.* Constructor and
`Lock`, `Unlock` and destructor. Only a thread's first acquisition enters the SRW lock and
only its last leaves it. *What is hard.* A thread acquires the same lock again and again,
through ten functions that call each other; a reader that asks to write waits for itself.
*Correct when* a writer excludes everybody else, the SRW lock is released in the mode it was
acquired in, and the pool asks for nothing the lock cannot give.

### 1.6 HTTP request: `ECSUtil/ECSConnection.cpp` (`SendRequestInternal`, `PrepareCmd`, `WaitComplete`, `HttpStatusCallback`)

*State.* One callback context per thread and connection, shared by all requests the thread
sends: an event, the callbacks received, complete and failed marks, an error. *Operations.*
Each call of WinHTTP is a command: reset the context, call, wait for the callback of that
kind, with a timeout and an abort test; close the handle at the end. *What is hard.* The
callback runs on another thread, possibly after the command was given up, and the next
request uses the same context. *Correct when* a command ends only by a callback of its own
handle, and every command ends.

### 1.7 Session pool: `ECSUtil/ECSConnection.cpp` (`SESSION_MAP_*`, `CECSConnectionSession`)

*State.* A map from host, address and a number to WinHTTP handles with an in-use mark, a
kill mark and a time of last use. *Operations.* Allocate, release, kill all when a
setting changes, collect idle ones. *Correct when* no session serves two requests, none
that is in use is freed, none is lost, and none outlives a change that is meant to end it.

### 1.8 Failover: `ECSUtil/ECSConnection.cpp` (`SendRequest`, `GetNextECSIP`, `TestAllIPBad`, `LogBadIPAddr`)

*State.* The list of node addresses; the map of bad addresses with their time and the turn of
the load balancer, both shared by all connections; per request its copy of the
list, the addresses it has used, its attempts. *Operations.* Pick the next good address,
try it so many times, mark those that failed once another has answered, unmark all when
all are marked. *What is hard.* The map and the turn change between two looks at it.
*Correct when* a request tries no address twice, marks only addresses it failed on, returns,
and service resumes when a node answers.

### 1.9 Bandwidth throttle: `ECSUtil/ECSConnection.cpp` (`CThrottleTimerThread`)

*State.* Per host the rate and what is left of it in the current second; a timer thread.
*Operations.* `SetThrottle` makes, changes or removes an entry, starts the timer with the
first and kills it with the last; the timer refills; a request takes what it has sent and
waits while the share is negative. *Correct when* the debt of overlapping requests is
bounded and made up for, the timer runs exactly while there is a limit, and nobody waits
for ever: as long as the calls that set limits do not overlap and the timer could be started.

### 1.10 S3 operations: the rest of `ECSUtil/ECSConnection.cpp`

Create, read, delete (single and bulk), rename, directory listing with continuation,
buckets, versioning, ACLs, metadata, lifecycle, the ECS management API. Each is a request
and the parse of an answer, and keeps no state between calls. Rename (copy, then
delete), bulk delete (batches of a bounded size) and the listings (pages with a marker)
are sequences of requests of one thread.

### 1.11 Data: XML, crypto, numbers, text

`XMLDomParser/Generator`, `XmlLiteUtil.*`, `cbuffer.*`, `CngAES_GCM.*`, `UriUtils.*`,
`S3Error.*`, `fmtnum.*`, `widestring.h`, `libhandle.h`, `ProcessEvent.*`, logging. No
concurrency; what they compute matters to a property in a few places only (which
flag of a file ends up in the cookie), and there it is part of the module that
needs it.

### 1.12 Test dialog: `Driver/`

A host for the DLL: buttons that make the calls, and a thread that polls the status
once a second. It is the environment of the session model.

## 2 Plan

The most important behaviour first. Written:

| # | modules | question | abstract specification | proved |
|---|---------|----------|------------------------|--------|
| 1 | `DETState`, `DETSession`, `MCDETSession`, `DETSessionProof` | what may the host, the transfer thread and the status thread do to one session | | types, all its safety properties |
| 2 | `StreamContract`, `StreamWrite`, `StreamRead`, `StreamWriteProof`, `StreamReadProof` | every byte arrives, in order, or an error is reported | `StreamContract`: blocks one by one, one outcome, nothing afterwards | all safety properties of both directions, the refinement by the upload |
| 3 | `WorkBag`, `ThreadPool`, `MCThreadPool`, `ThreadPoolProof` | messages are worked on once, and by somebody | `WorkBag`: items waiting, worked on, done | all its safety properties, the refinement |
| 4 | `RWLock`, `PoolLocks`, `MCPoolLocks`, `RWLockProof` | exclusion under every nesting; do the functions of the pool ever wait for each other | | exclusion, agreement with the SRW lock |
| 5 | `MultiPart`, `MCMultiPart`, `MultiPartProof`, over `WorkBag` | success means every block of every part | | all its safety properties |
| 6 | `SessionPool`, `MCSessionPool`, `ConnectionProof` | nobody shares a session, none in use is freed, none is stale | | all its invariants |
| 7 | `Failover`, `MCFailover`, `ConnectionProof` | which address a request tries next, and whether service resumes | | one try per address, blame |
| 8 | `HttpRequest`, `MCHttpRequest`, `HttpRequestProof` | late callbacks, timeouts, abandoned requests | | own answers, the context, if handles close in time |
| 9 | `Throttle`, `MCThrottle`, `ConnectionProof` | the debt of a share, the life of the timer | | both, the debt for shares that fit into an `int` |

Left, in this order: `StreamContract` as what the transfer of a session relies on (`DETSession`
with the store's side of a file made explicit); the proof that the functions of the pool keep
the discipline of the lock (`PoolLocks`); the protocols of 1.10 that consist of several
requests (rename, bulk delete, listings) and `DETRemove`, `DETIterate`.

Each module has its inputs as CONSTANTS with a named ASSUME, one action per
operation, and no RECURSIVE operator, so that it can be proved about. Runs use two
files, two or three threads or nodes, two or three keys, and a bound on the calls an
environment makes: each hazard listed in `PROJECT.json` shows with that many.

## 3 The DET session

`DETState` has the table of `CommonDef.h` and the stack operations of `DETState.cpp`
as operators. `DETSession` is the object with its three threads. `MCDETSession`
gives TLC the sets of calls. `DETSessionProof` holds the proofs.

| variable | code |
|----------|------|
| `obj` | `DETBaseExImpl::m_pDETAction`, and whether what it pointed to was freed |
| `stack` | `m_pState->m_StateStack`, top last |
| `list` | `m_Data.m_FileStructList`, of each file only `transferSuccess`: `unset` is the uninitialised value |
| `hnd` | `m_hndActionThread` is not null |
| `status` | `m_Status`: code, shown state, total and moved size (in parts of files), files moved |
| `cookie` | `m_sResultXML`: whether `StoreCookieXML` was run (`tried`), whether it made a result (`made`), the files that result calls transferred (`ok`) |
| `cs` | who owns `m_CriticalSection` |
| `suspends` | the suspend count Windows keeps for the thread |
| `host`, `xfer`, `poll` | where the three threads are, and their locals |
| `calls` | calls the host may still make: a bound of the model, `MaxCalls` |

*Grain.* A step is what one thread does between two accesses to shared state that
another thread can disturb. `SetState` is two steps (look-up, push) in
both threads. `SetState(vrsNone)` is one, because `None` pads every row of the
table and the look-up cannot fail. Waiting for the critical section is a guard;
a section's body is one step, after the step that enters it, so the owner can be suspended
inside. `SuspendThread` and `ResumeThread` are external and modelled by what Windows
documents.

*Calls.* Each call of the host is a chain of steps of `host.pc`: `Action`
act…, `Pause` pause… and suspend, `Resume` resume…, `Cancel` cancel…; the refusal
branches return early as the code does; stEnter/stBody is the `SetStatus`
before the return. `Close` runs the destructor's `Resume` and `Cancel` and then
deletes the object. The transfer thread's loop is check, copy, stat… (once per
part), cnt…, and its two ends fail… and store/fin…/end….

*Inputs.* `NumFiles` files per request; a request's parse may stop half-way, with or
without an exception that is rolled back; a part of a file may fail or throw.
`Partial` says that the request restores segments of files, and `Segments` how many a
file has; a push or a pull of whole files has one part (`SessionAssumption`). A partial
restore sets `transferSuccess` before the first segment (`Promised`,
`DETActionPull.cpp:40`), and a segment that fails takes it back; a segment that fails
does not stop those after it, but each of them then moves one block at most, so the model lets
them report or not. An exception ends the file at once and takes nothing back.
The generation of the result may fail (`XMLDomGenerator.cpp:195`): then `m_sResultXML` stays
as it was, and the thread goes on to Finish, since `StoreCookieXML` does not look at what
`generate` returns (`DETAction.cpp:479`).

*Choices the model makes.* After `CloseEx` freed the object its thread stops:
what a thread does with freed memory is undefined, and no property is about it.
`OpenEx` is called once.

## 4 The streams

`StreamWrite` is `S3Write`, `StreamRead` is `S3Read`, each with its two threads, its
queue and the steps of a request a stream can tell apart. `StreamContract` is what the
caller relies on.

| variable | code |
|----------|------|
| `main` | the caller's thread: where it is, records read or in hand, `bLast`, what it returns |
| `worker` | `CS3WriteThread`, `CS3ReadThread`: where the thread is, its `Error`; for an upload the HTTP status, for a download the records received and `bLast` |
| `exit` | `CSimpleWorkerThread::bTerminate` |
| `queue` | `StreamData`, the front first; of an entry its place in the file and `bLast` |
| `event` | `MsgEvent` is set (download; auto-reset) |
| `sent`, `written` | history: the blocks WinHTTP took, the blocks `WriteFile` took |
| `progress`, `acc` | the sum of what `UpdateProgressCB` was told, and `iAccProgress` |
| `registered` | the download worker's `TestShutdownThread` is on `AbortList` |
| `abort` | another entry of `AbortList` is true |

*Grain.* A step is what one thread does between two accesses to the queue, the exit
flag, the abort list or the other thread's object. `push_back` is three steps, as the
size is compared without the lock: compare, wait, append with the event. `pop_front` is one. The
end of `ThreadProc` is two: the pointers are cleared, then the section is left.
`KillThreadWait` looks at those pointers without the section, so it may return between
the two. In a download `WorkerRegister`, `WorkerUnregister` and the caller's walk over
`AbortList` are steps of their own, because each thread enters another critical section
for them.

*Inputs.* A file of `NumBlocks` blocks; the thread may be refused (`ThreadMayFail`);
`ReadFile` and `WriteFile` may fail at each block; each command of WinHTTP may fail; the
store may answer with any status, and may end its answer early; an abort may be asked for at
any time. `MaxQueue` is the limit of the queue in entries. `IntLimit` is the number of
blocks whose bytes no longer fit an `int`: the sum of the progress wraps there.

*Waits.* A wait with a timeout that goes round and looks again is a guard: the
two seconds of `S3Read`, the five of `WaitForQueue`. The 92 seconds of
`WaitStreamSend` end the request, and are a choice of `WorkerWait`.

## 5 The pool, its locks and the multipart upload

`ThreadPool` is `CThreadPool` with its callers, workers and the thread that destroys it. It
implements `WorkBag`. `RWLock` is the lock the pool uses, `PoolLocks` puts the sequences of
acquisitions of the pool's functions on top of it. `MultiPart` is `DoS3MultiPartUpload` and
its workers, on top of `WorkBag` as what a pool promises.

| `ThreadPool` | code |
|----------|------|
| `queue` | `MsgQueue`: message and who put it there (an address in the code), `bProcessing` |
| `future`, `ripe` | `FutureMsgQueue`; the delayed messages whose time has come |
| `worker` | the list `Pool`: where `ThreadProc` and `DoWork` of each entry are, `bTerminate`, the message it has, the limit it read |
| `move` | `TransferFutureQueue`, for each thread that runs it |
| `caller`, `owner` | the threads that send, and the one that terminates |
| `maxThreads`, `disable` | `dwMaxNumThreads`, `bDisable` |
| `done`, `refusals`, `changes` | history, and what `Turns` bounds: refusals and changes of the limit |

*Grain.* One step is one stretch under the two locks of the pool, or between two. That
the two locks exclude as assumed is what `RWLock` and `PoolLocks` show. A wait that ends by
its event or after five seconds is `Wake`, with the time-out as a choice. How long a
thread was idle is a free choice. *Inputs.* Messages with a priority and a group, plain or
delayed; the limit of the queue of the callers; what `SetMaxThreads` is called with.
`Slots` bounds the list of threads.

| `RWLock`, `PoolLocks` | code |
|----------|------|
| `inst` | the `CRWLockAcquire` objects of each thread, the last one on top; they live on its stack |
| `shared`, `excl` | the SRW lock: who has it shared and how often, who has it exclusively |
| `call`, `pc` | the function of the pool each thread has called and its place in `Script` |

*Grain.* An acquisition is two steps, the object with the look at the thread's others, and
the entry into the SRW lock; a release is one. The SRW lock may keep readers behind a writer
that waits: `Enter` is fair only together with that choice. `Script` has, for each function, the
acquisitions with those of the functions it calls inlined, in the order of the code.

| `MultiPart` | code |
|----------|------|
| `total`, `plan` | length of the file; `ullBaseOffset` and `ullPartSize` of each part of `S3PartList`, in buffers |
| `part` | `bInProcess`, `bComplete`, `dwRetryNum`, `ullCursor` of each |
| `queue` | `StreamQueue` of each part |
| `pending` | `Pending.PendingList`, an attempt being a part and its retry number |
| `watched` | `EventArray`: the attempts whose events the wait is over |
| `waiting`, `working`, `done`, `open` | the pool, see `WorkBag` |
| `phase`, `sent` | the request of each attempt and what it has sent |
| `upload`, `stored` | the upload and its parts at the server; `lost` is an upload begun there whose answer the client did not get |
| `pc`, `result`, `abort` | the calling thread, its result, whether `TestAbort` answers true |

*Grain.* A turn of the caller's loop over the pending list is one step, since the list is
locked; a part given to the pool is one step, since nobody sees it before. A block is the data of
one buffer, named by its place in the file, and the end mark of a part is its `LastBlock`.
`Longest` bounds the files, and so the number of parts; `Ahead` is the 4 by which the messages in
the pool may exceed its threads (`FileSupport.cpp:536`), `EventSlots` the attempts whose two events
fit into `EventArray` (31). The events are collected in a step of their own (`Collect`), before the loop that waits for
them. *Inputs.* Files of several lengths; any request may fail, may be carried out by the server without its answer arriving (a part, the
completion, and the start of the upload), or may be refused for its credentials and sent again from the queue; reading the file may fail; an abort at any time.

## 6 The connection

| `SessionPool` | code |
|----------|------|
| `map`, `place`, `inUse`, `killed` | `SessionMap`: keys, host and address of each, `bInUse`, `bKillWhenDone` |
| `opened` | which settings the handles were opened with |
| `since` | history: the settings after the last change by a setter that kills the sessions |
| `used` | `lSessionKeyValue`: numbers given out |
| `lease`, `step` | `CECSConnectionSession` of each request, and where it is |
| `settings`, `changer` | how often a setting was changed, and the thread that does |

*Grain.* Each function holds `csSessionMap`, so it is a step; a change of a setting is two,
the change and `KillHostSessions` (for `SetHost` in the other order). `SetUserAgent`,
`SetHttpsProtocol` and `SetGlobalHttpsProtocol` change what a session is opened with and kill none:
they are one step, `SetUserAgent`. *Inputs.* Which place a
request asks for, whether opening or the request fails, when an idle session is old.

| `Failover` | code |
|----------|------|
| `IPListHost`, `BadIPMap`, `LoadBal` | the members and maps of those names, `LoadBal` of the host |
| `old` | entries of the map older than `dwBadIPAddrAge` |
| `list`, `turn`, `IPUsed` | `State.IPListLocal`, `State.iIPList`, `IPUsed` of the request |
| `state`, `seen`, `retry`, `round`, `result` | where `SendRequest` and the loop of `GetNextECSIP` are |
| `up`, `changes` | the network; a bound on what changes outside a request |

*Grain.* `GetNextECSIP` takes the lock for each address anew: a step each. An attempt is one
step. *Inputs.* Which nodes answer, when that changes, when an entry ages, when the list is
set, when a request is aborted; whether an attempt that failed is repeated (a time-out
is, if a limit was left to adjust).

| `HttpRequest` | code |
|----------|------|
| `state`, `cmd`, `ticks`, `woken` | the thread: step, the command by the callback that ends it, `iTimeout`, how the wait ended |
| `hRequest`, `opened` | the handle, and how many were opened |
| `busy` | `dwCurrentThread` is not 0 |
| `evCmd`, `received`, `complete`, `failed`, `error` | the context: event, callbacks received (and of which handle, which the code does not keep), marks, `Result.dwError` |
| `pend`, `closing`, `live` | external: what WinHTTP has not finished, is closing, may still call back for |

*Grain.* `PrepareCmd` is two steps, event and context, because a callback may come in
between; the wait for the event and the look at the context are two. A callback holds
`csContext` and is one. *Inputs.* WinHTTP may answer, fail or never answer a call, and may
refuse it; the order of commands is that of `SendRequestInternal` (`After`), any of them
may be the last. `ClosesInTime`: a handle that is closed is closed before `WaitComplete`
gives up.

| `Throttle` | code |
|----------|------|
| `throttle` | `ThrottleMap`: of each host whether it has an entry, `iBytesSec`, `iBytesCurInterval` |
| `lock` | who keeps `csThrottleMap` from one step to the next |
| `timer` | `TimerThread`: where it is, `bTerminate` |
| `setter`, `sender` | what each call and each request does; `Nobody` is no setter |
| `astray` | history: since the timer was last started by a call that was alone, calls overlapped or the start failed |
| `calls`, `aborts`, `late` | bounds |

*Grain.* Each stretch under `csThrottleMap` is a step. The kill of the timer is three: told,
waited for, and its work event deleted (`DropEvent`). No lock spans them, so another call
may start the timer anew in between; its thread then works with an event that is gone, or
with the pointer to it null, and cannot go on (the program may end there; the model has the timer stop). `CreateThread` may fail, which
the code does not look at. *Inputs.* Rates, blocks up to `MaxBlock`, and a timer that is late: a gap of
several seconds multiplies the share, which is an `int` of the width `IntMax`. Upload and
download have the same code; one direction is modelled.

## 7 Runs

| run | configuration | bounds | states |
|-----|---------------|--------|--------|
| `session_all` | `MCDETSession_all` | two files, four calls of any of the five | 2,551,566 |
| `session_plain` | `MCDETSession_plain` | a partial restore of two files of two segments, two calls, no Pause, Resume, Close | 32,596 |
| `stream_write` | `StreamWrite_all` | four blocks, queue of one, an `int` of two blocks | 2,765 |
| `stream_read` | `StreamRead_all` | three blocks, queue of one | 8,052 |
| `stream_read_truncated` | `StreamRead_Truncated` | two blocks, queue of one: a violation | |
| `thread_pool` | `MCThreadPool` | two plain messages, one delayed that runs alone; one to two threads; one change of the limit or one refusal | 312,256 |
| `rw_lock` | `MCPoolLocks` | three threads, any three of ten functions, two locks | 130,376 |
| `multi_part` | `MCMultiPart` | files of 2, 5 and 8 buffers in parts of 2, at most 3 parts by the limit; one thread and one ahead; queue of one; one retry; the events of one attempt | 511,959 |
| `session_pool` | `MCSessionPool` | two threads, two places, three keys, two changes of settings of either kind | 1,159,662 |
| `failover` | `MCFailover` | two requests, two nodes, two lists, two attempts, one change outside | 265,458 |
| `http_request` | `MCHttpRequest` | three requests of one thread, a time-out of two seconds | 3,764 |
| `throttle` | `MCThrottle` | two setters, two senders of one host, two hosts, rates 0 and 1, blocks to 2, an `int` to 7, one late refill of 9 seconds, three calls, one abort | 648,918 |

An invariant a run names is a conjunction where several facts belong together; `TypeOK` is
part of it where the module has no proof of its own.

**`session_all`**. Two files are the fewest for which "skips one, moves the
other" and "begins no other file" mean something; four calls allow Action, Pause, Resume
or Cancel and one more, the shortest history of each hazard. It checks

- `FinishShownAfterStore`: who is shown `Finish` comes after `StoreCookieXML`; a rollback or a
  racing call could have put a Finish on the stack, or shown one, earlier. That a result could
  be generated is not part of it, see [9](#9-findings);
- `CompleteUnlessInterrupted`: a session that finishes with neither Pause nor Cancel on
  its stack has moved every file, and its result, if one could be generated, says so. It is the strongest form of "finished means
  transferred" the code keeps, and the reason it survives `RollbackState` is subtle:
  every race that makes the rollback pop the wrong entry leaves the Pause;
- `FinishAccepted`: the thread's `SetState(vrsFinish)` never meets a state that
  refuses it;
- `OneThread`: Action finds a null handle only when there is no thread;
- `NoFinishAfterFailure`: failure and Finish are never both on the stack;
- `CancelStops` (action property): once Cancel is entered no other file is begun.

**`session_plain`**. A host that only acts and cancels, and restores files of two segments, under
`FairSpec`. `CountersAgree` relates the counters of `m_Status`, written in different critical
sections, to the list (`CountMatches`) and to each other (`ProgressTogether`). The file at hand is
left out of `CountMatches`: its flag is set before it is counted, and here before it is moved.
`TransferEnds` and `CallsReturn` are liveness. Pause and Resume are left out because
with them both fail: a thread may be suspended for ever, see [9](#9-findings). Close is left
out because the thread stops with the object.

**`stream_write`**. Four blocks with a queue of one make the caller wait for room, wait
again, and have an entry appended while another is being sent; with two blocks to the `int`
the sum wraps. Under `FairSpec` it checks

- `KeepsContract`: refinement of `StreamContract`: the blocks are sent one by one in order,
  success only when all were, nothing sent after the return;
- `QueueBounded`: the queue holds at most one entry beyond its limit, although the size
  is compared outside the lock, while the worker has not ended;
- `ProgressTakenBack`: a request that failed before an answer has taken its progress
  back, but for wraps of the `int`;
- `AbortWasAsked`: `ERROR_OPERATION_ABORTED` is returned only if somebody asked for an abort,
  not when the caller killed its own worker after a file error;
- `WriteReturns`: the call returns, if its thread was created.

**`stream_read`**. An object of three blocks, under `FairSpec`:

- `ReadInv`: the file grows in order, the queue is bounded, and an abort was asked for;
- `NothingAstray`: if success is reported, what is not in the file is still on the
  queue, with its end mark: no block and no error is lost on the way. It is the
  strongest form of "success means written" the code keeps, see `stream_read_truncated`;
- `WorkDone`: when `S3Read` returns its worker does no more work;
- `ReadReturns`: the call returns, if its thread was created.

**`thread_pool`**. Three messages on two threads make one wait behind another, one arrive
while a thread decides to end, and the delayed one be moved by two threads; the change of the
limit makes threads kill themselves. Under `FairSpec`:

- `PoolInv`: messages worked on at the same time are of one group and one that must run alone
  does (`GroupsApart`); the queue stays sorted while it is inserted into and removed from
  (`QueueSorted`); threads started by several at once do not exceed the limit
  (`ThreadsBounded`); idle threads never all end (`KeepsMinimum`); the list is cleared only
  when no thread runs, so no destructor waits for a thread that needs the lock it holds
  (`ClearFindsNone`);
- `KeepsContract`: refinement of `WorkBag`;
- `FinishedMeansDone`: when `WaitForWorkFinished` returns, everything sent before was done,
  the delayed ones included: the entry leaves the delayed list only after it is on the queue;
- `Delivered`: a message that was sent is worked on, unless the pool is terminated or its
  limit changed.

**`rw_lock`**. Three threads, since a reader can be kept out by a writer that waits for a
reader. `LockInv`: exclusion, and the SRW lock is held once, in the mode of the thread's first
acquisition. `KeepsDiscipline`: the functions of the pool are behaviours of `RWLock` with its
rule that no thread asks to write what it reads, and lock the list before the queue.
`CallsReturn`: no set of functions waits for each other.

**`multi_part`**. A file of one part, of three with a short last one, and of four, because
the limit is off by one there. Under `FairSpec`:

- `SuccessIsWhole`: when the upload returns true, the server has each block of each part once
  and in order, whichever attempts failed, were repeated or challenged, and no thread
  sends any more;
- `NoKnownUploadLeft`: an upload the client was told of is complete, or the server was asked to
  abort it, also in a shutdown. One that was begun at the server and not answered for stays, see
  [9](#9-findings);
- `PartInv`: the plan covers the file (`PlanCoversFile`); the caller waits only with an attempt
  pending, without which its loop would not end, and over an event as long as some attempt may still
  report (`SomethingToWaitFor`); it never has more pending than the pool is given (`FewEvents`); the
  queues are bounded (`QueueBounded`). When all pending attempts finish between the last pass and
  the collection, the wait *is* over no event, see [9](#9-findings);
- `UploadReturns`: liveness.


**`session_pool`**. Three keys for two threads, so that free sessions of both places exist
while a setting changes, with and without the sessions being killed. `LeaseInv`: a thread's session is in the map, marked, and only its
own (`LeaseIsSound`), and no mark outlives its thread (`NoneLost`). `NoneObsolete`: once a setter that
calls `KillHostSessions` has returned, nothing opened before its change is given out, also when a
session was being opened, was lent or was put back meanwhile. The run stops when keys and
changes are used up.

**`failover`**. Two requests and two nodes are the fewest that mark and unmark under each
other. `RouteInv`: no address is tried again. `BlamesOnlyOthers` (action property): only a
request that reached another address marks one. `RequestsReturn`, `ServiceResumes`: liveness;
the second says that an address that answers for good is reached again and again. Deadlock is
checked. With two changes (1,149,819 states, by hand) the same holds.

**`http_request`**. Three requests, because a callback of the first could be taken for one of
the third only if the second ended without it. `ContextInv`: commands are paired, a
call under way finds the context open, and no callback is outstanding when the next request
takes the context over. `OwnAnswer` (action property): a command ends by a callback of its own
handle. `CommandsReturn`: every command ends although WinHTTP may never answer.

**`throttle`**. `ThrottleInv`: the debt of a host is at most a block per request
(`DebtBounded`); a timer is told to end only for a call that waits for it, and between calls that
did not overlap and could start it, it runs exactly while there is a limit (`TimerFollowsMap`).
`WaitersReleased`: requests that wait and calls that wait for the timer go on, unless calls
overlapped or the timer could not be started. Two senders overdraw together; three calls of two
threads allow set, remove, set, and each overlap of two. What overlapping calls lead to is in
[9](#9-findings).

`CHECK_DEADLOCK FALSE` is set where the system really stops: a session when the host has used
up its calls, a stream or an upload when it has returned, a pool when it is gone, the
locks when each thread has made its call, sessions and requests when their bounds are
reached, the throttle when its calls are used up and a request waits for a timer that was not
started or was lost.

*Fairness.* Weak fairness for each thread: Windows schedules a runnable thread eventually.
Beyond it

- session: strong fairness for entering the critical section. The section is
  not a fair lock, but the status thread, the only one that enters it for ever, sleeps
  a second between two polls (`Driver/DriverDlg.cpp:429`), and the host and the
  transfer thread enter it a bounded number of times. None for new calls of the host or
  for the start of a poll;
- streams: a command of WinHTTP completes, fails or is given up by `WaitComplete` after its
  timeout (`http_request` shows that). None for an abort;
- pool: time passes for delayed messages, and strong fairness for a worker's wake-up by
  time-out, since five seconds pass between two events again and again. None for refusals, changes
  of the limit or the termination;
- locks: who can go on does, and a thread the system can let in is let in;
- upload: the calling thread's wait has a time-out, a request ends, the pool has a
  thread for a message (`Delivered`). None for the abort;
- failover: requests go on and are sent, entries age. None for the network;
- HTTP: the thread runs and seconds pass; a handle that was closed gets its last callback.
  None for the completion of a call;
- throttle: the timer and the calls; strong fairness for a request that waits, because each
  refill sets the events of all of them, so it looks again and again while the share is
  filled.

## 8 Proofs

`DETSessionProof` proves for any number of files, parts and calls, from
`SessionAssumption` alone,

| theorem | |
|---------|---|
| `TypeCorrect` | `Spec => []TypeOK` |
| `Inductive` | `Spec => []IndInv` |
| `CookieFirst` | `Spec => []FinishShownAfterStore` |
| `FinishNeverRefused` | `Spec => []FinishAccepted` |
| `SingleThread` | `Spec => []OneThread` |
| `FailureIsFinal` | `Spec => []NoFinishAfterFailure` |
| `CancelIsFinal` | `Spec => CancelStops` |
| `FinishedIsComplete` | `Spec => []CompleteUnlessInterrupted` |
| `CountersInStep` | `Spec => []CountersAgree`, if the host does not call Pause |

*Why the invariants need strengthening.* None of the first four is inductive: each
depends on what the host can be half-way through. `IndInv` adds, besides types
and the shape of the stack (`StackShape`: the constructor's three entries stay):

- `HandleInv`: a null handle means no thread, except while Action assigns it (the
  thread that failed before the assignment nulls a handle that is then
  overwritten);
- `TopInv`: a working thread finds Run, Pause or Cancel on top, also below an
  entry that Action is about to roll back. Hence `FinishAccepted`;
- `PausedInv`: Pause on top of a live thread means it is suspended, but for the
  steps of Pause and Cancel that are about to make it so or have just resumed it.
  Hence Action and Resume, which the table lets into a paused session, work beside a
  thread that stands still and pushes nothing;
- `CookieInv`: `StoreCookieXML` was run before the step that enters Finish;
- `OutcomeInv`: at most one outcome (None or Finish) is on the stack, no thread works
  above it, and a Pause above it is either a thread suspended on its way out or an
  entry the next rollback pops.

*Argument.* First `TypeOK /\ StackShape` alone (`TypedNext`, one lemma per action).
Then the other parts: lemmas that say which moves of stack, counters and places keep them
(`HostQuiet`, `XferQuiet`, `HostRunPush`, `XferOutcome`, …), and one lemma per action that
says which of these moves the action is. Pushes and pops are reduced to facts
about single entries once (`Pushed`, `Popped`, `PushedFacts`, `PoppedFacts`).

`CancelStops` follows from one more invariant, `CancelInv`: above a Cancel there is
nothing but an outcome, and no call that could push or pop is under way.

`CompleteUnlessInterrupted` needs `FilesInv`, and first `PartInv`, that a part that reports an
error has made its file fail. With it the flag a partial restore sets before its first segment
stays for as long as no segment has failed (`Pledged`). Its parts say that what an uninterrupted thread
has behind it is transferred (`BehindYes`), that the result it stores, if one is made, has all of it
(`EndingYes`, `ResultYes`), and that a Finish whose files are not complete is `Explained`: there is a Pause or
a Cancel that no pop can reach, because it is not on top or because no call that pops is under
way. The property speaks of any interruption on the stack; only the `Explained` ones survive
every rollback, which is why the invariant must say that and not the property. A file that is skipped
leaves its thread interrupted from then on; the pushes of the thread bury the
interruption, and `HandleInv` and `PausedInv` exclude that the host pops it from below
the thread's Finish.

`CountersAgree` needs the hypothesis `"Pause" \notin Calls`. With it the constructor's three
entries and one Run are all that is below an outcome, so a session starts at most one thread
(`PlainInv`), and the invariants follow that thread through the list: the files after the one at
hand are not transferred (`IndexInv`), and the parts counted beyond whole files are those of the
file at hand (`AheadInv`). The flag of the file at hand is not related to the counters: it may be set
with none of its parts moved. With Pause the property is false: the rollback of a Pause may pop the
None of a failed thread, and a second thread counts the same files again, see
[9](#9-findings).

TLC confirmed every conjunct of these invariants on one file and five calls
and on two files and four before the proof.

`StreamWriteProof` proves for any number of blocks, any limit of the queue and any `int`,
from `WriteAssumption` alone,

| theorem | |
|---------|---|
| `WriteInvariant` | `Spec => []Inv` |
| `WriteTypeCorrect` | `Spec => []TypeOK` |
| `SendsInOrder` | `Spec => []SentInOrder` |
| `WriteQueueBounded` | `Spec => []QueueBounded` |
| `WriteAbortWasAsked` | `Spec => []AbortWasAsked` |
| `WriteKeepsContract` | `Spec => KeepsContract` |
| `WriteProgressTakenBack` | `Spec => []ProgressTakenBack` |

`Inv` is the conjunction of `TypeOK` and

- `MainInv`: what the caller knows of the file;
- `FlowInv`: sent blocks and queue are one stretch of the file, with the entry being sent
  counted once, though it is on the queue and among the sent blocks; its last place
  is the number of records appended. Order follows, and that
  the end mark is met only behind the last block;
- `EndInv`: the worker gets past the end mark only with everything sent, and it
  sees its exit flag only after the caller has an error of its own to return. Hence
  success means everything;
- `BoundInv`: between the comparison and the append nobody else appends;
- `AskedInv`: an abort the worker reports is asked for, or hidden by the caller's error.

Each action has a lemma that it keeps `Inv`, `FailedInv` being shared by all the ways a
request fails. For the refinement, `ContractSend` shows that the step that sends is
`Deliver` and `ContractRest` that any other returns or is invisible.

The progress told and the sum kept to take it back differ by whole turns of the `int`
(`ProgressInv`): each addition to the sum may wrap once (`WrapTurns`), and so may the
subtraction when it is taken back. After that the sum is 0, and what is left of
the progress is a number of whole turns.

`StreamReadProof` proves for any number of blocks and any limit of the queue, from
`ReadAssumption` alone,

| theorem | |
|---------|---|
| `ReadsInOrder` | `Spec => []ReadInv` |
| `NothingGoesAstray` | `Spec => []NothingAstray` |
| `WorkIsDone` | `Spec => []WorkDone` |

`Inv` is the conjunction of `TypeOK` and

- `PlaceInv`: how far the two threads can be. The caller leaves its loop only with an error, the end
  mark or a worker past its last step, and an exit flag before that comes from a caller that has left;
- `ObjectInv`: how far the worker has come with the object;
- `FlowInv`: the file, the entry in the caller's hand and the queue are one stretch of the object,
  whose length is the number of entries appended; the end mark is its last entry.
  Order follows, and that nothing is missing between file and queue;
- `BoundInv`: between the comparison and the append nobody else appends, and a worker that gives up
  its wait appends once more and ends: hence one entry beyond the limit, or two;
- `AskedInv`: an abort the worker reports was asked for or is the caller's own. The
  worker takes itself off the `AbortList` before it sets its flag, and `PlaceInv` says
  so; without that the caller's `TestAbort` could take the flag for an abort.

The violation of `stream_read_truncated` is consistent with this: `FlowInv` says that the
missing entries are on the queue, not that anybody takes them off.

`ThreadPoolProof` proves for any messages, priorities and groups, any number of threads, limits and
changes of the limit, from `PoolAssumption` alone,

| theorem | |
|---------|---|
| `PoolIsSound` | `Spec => []PoolInv` |
| `FinishedIsDone` | `Spec => []FinishedMeansDone` |
| `PoolIsBag` | `Spec => KeepsContract`, the refinement of `WorkBag` |

`Inv` is the conjunction of `TypeOK`, of `GroupsApart` and `QueueSorted`, which are inductive with
the rest, and

- `QueueInv`: an item is on the queue once and not any more when it is done; an entry is marked
  exactly while one thread works on its item, and it stays on the queue meanwhile. Hence an
  item is taken by one thread, and the thread finds the entry it takes off;
- `GivenInv`: a message that was sent is on the delayed list or was put on the queue, and a thread
  that moves a delayed one puts it on the queue before it takes it off the list
  (`Caught`). Hence `FinishedMeansDone`: with both lists empty everything sent was done;
- `PlaceInv`: the delayed list is moved by threads at that place and by the owner while it
  flushes; nothing is sent any more once `Terminate` runs; after its threads were told to
  end and none was seen to run, no thread is where it could take a message;
- `LimitInv`: the threads stay within the largest limit there was, and within the first one, as
  each of them has read it, while the limit was not changed; before the first message
  there are none.

`KeepsMinimum` is part of `LimitInv` and is what is hard in it: an idle thread ends itself if the
threads *it* counts are more than the minimum, and those that have decided to end still count.
The proof follows the threads that were not told to end; with a changed limit two
may decide on different limits, which is the finding of [9](#9-findings), so the property
is stated for a limit that was not changed, the only case in which it is true.

The lemmas on the queue carry most steps. `Inserted` and `Erasing` say where the entries of the old
queue are in the new one, `InsertKeeps`, `EraseKeeps`, `MarkKeeps` and `UnmarkKeeps` what that does
to items, marks and order. `StartingFits` is about `AddThreads`: what it starts is free, and with
those that run within the limit; it rests on `SubsetOfSize`, that a finite set has a subset
of each smaller size. For the refinement, each action has a lemma that says which step of
`WorkBag` it is (`SentToBag`, `TakenFromBag`, `EndedInBag`, `OwnerInBag`) or that it is none
(`NothingDone`).

`RWLockProof` proves for any threads, locks and depth of nesting

| theorem | |
|---------|---|
| `IInvHolds` | `Spec => []IInv` |
| `RWLockTypes` | `Spec => []TypeOK` |
| `RWLockAgrees` | `Spec => []LockAgrees` |
| `RWLockExclusion` | `Spec => []Exclusion` |
| `RWLockInv` | `Spec => []LockInv` |

`LockAgrees` says that a thread has the SRW lock exactly while an acquisition of its own is not
waiting, in the mode of the first one. It is not inductive: a release must know which of a thread's
acquisitions decide. `IInv` adds that only the newest one waits, and for a lock the thread does not
have (`LastWaits`); that the first acquisition of a lock is a writer if any is (`FirstDecides`);
and what the SRW lock itself guarantees (`SRWExclusive`). `Exclusion`, about the acquisitions,
follows from the last two and `LockAgrees`.

`HttpRequestProof` proves for any number of requests and any time-out, if `ClosesInTime`,

| theorem | |
|---------|---|
| `ContextKept` | `Spec => []ContextInv` |
| `AnswersAreOwn` | `Spec => OwnAnswer` |

The assumption is needed: without it TLC finds a request that takes the context over while the
last callback of the one before it is outstanding, see [9](#9-findings). The inductive invariant
adds

- `OneHandle`: only the handle of the request may call back; it can until it closes, and it
  closes only while that is waited for;
- `OneCall`: before a call is made none is under way. A call that was abandoned is followed by
  the closing of its handle and nothing else;
- `OwnContext`: what the context holds was written for that handle, and has completed it;
- `InTime`: `WaitComplete` does not give up on a handle that closes.

`ConnectionProof` has the theorems of three components of `ECSConnection.cpp`, `Throttle`, `SessionPool`
and `Failover`, each about the variables and steps of its own module. (It extends all three,
hence the names `SessionSpec` and `RouteSpec` beside `Spec`, that of the throttle.)

*Throttle.* For any setters, hosts, requests and rates, from `ThrottleAssumption`,

| theorem | |
|---------|---|
| `ThrottleTypes` | `Spec => []TypeOK` |
| `DebtStaysBounded` | `Spec => []DebtBounded`, if `SharesFit` |
| `TimerKeepsPace` | `Spec => []TimerFollowsMap` |
| `ThrottleSound` | `Spec => []ThrottleInv`, if `SharesFit` |

`SharesFit` says that the shares fit into an `int`: `MaxBlock` times the number of requests, those
that are aborted included, and twice each rate. The first is no restriction in practice. The
second is: a refill adds the rate to a share that was not used before it cuts it
(`ECSConnection.cpp:319`), and a limit above 1 GB/s overflows although the timer is on time.
The instance of the run satisfies it. The timer needs no assumption: what overlapping calls and a
failed start do to it is in the model, and `TimerFollowsMap` says when it follows the map again.

`DebtInv` is stronger than `DebtBounded`: only requests that *wait* owe, one block each, and those
that were aborted while they did. A request that goes on owes nothing any more because it does so
only when the share is not negative; that this is also so for a host whose limit is gone
needs the last part, that a host without a rate has no share. That a share is at most its
rate is what keeps a refill from wrapping. `TimerInv` has three
parts. `HeldMap`: a call about to start the timer keeps the lock, so the limit it set is still there;
`AskedToEnd`: a timer that was told to end has a call that waits for it; and `InTurn`, as long as
nothing has gone `astray`: one call is under way at most, one that kills has left the map empty, and
one past the wait finds no timer.

*Sessions.* For any threads, hosts, keys and changes, from `SessionAssumption`,

| theorem | |
|---------|---|
| `SessionTypes` | `SessionSpec => []SessionTypeOK` |
| `SessionLeases` | `SessionSpec => []LeaseIsSound` |
| `SessionsReturn` | `SessionSpec => []NoneLost` |
| `SessionLeaseInv` | `SessionSpec => []LeaseInv` |
| `SessionsFresh` | `SessionSpec => []NoneObsolete` |

The inductive invariant is the conjunction of those and `MapKnown`: what is in use is in the map,
and a key of the map was given out by the counter. Without it a new session could overwrite one that is lent.

*Choice of the node.* For any requests, addresses and lists, from `FailoverAssumption`,

| theorem | |
|---------|---|
| `TriesOnce` | `RouteSpec => []RouteInv` |
| `BlamesOthers` | `RouteSpec => BlamesOnlyOthers` |

`RouteInv` is inductive as it stands: `RouteTypeOK` holds the one fact `TriedOnce` needs, that the turn
a request sends to lies within its own copy of the list, whatever has become of the host's. That
a request blames only others then follows: the address that answered is not among those it used.

`MultiPartProof` proves for files, parts, queues and pools of any size and any number of retries, from
`MultiPartAssumption` alone,

| theorem | |
|---------|---|
| `PartsInStep` | `Spec => []PartInv` |
| `WholeOnSuccess` | `Spec => []SuccessIsWhole` |
| `UploadEnded` | `Spec => []NoKnownUploadLeft` |

Beside `Inv` the proof carries `WatchInv`: the attempts watched while the caller waits are those that had not
finished when they were collected, none only if there were none. As an attempt that has finished
stays finished, an unfinished one then means that some are watched. `Inv` is the conjunction of
`TypeOK` and

- `PlanInv`: the plan tiles the file. The proof is the arithmetic of `PlanFits`: the last
  part is what the whole ones leave, at least one buffer and at most a part;
- `UploadInv`: where the calling thread is says whether it knows of an upload, and success
  says that every part is complete;
- `PartsInv`: of a part, the attempts before the current one have failed and those after it have
  not begun; the current one has ended well only if the server has the whole part; a part in process is
  pending until it is complete;
- `AttemptInv`: what an attempt is doing says where the pool has it, and the pool forgets
  an attempt only when it has ended or the pool is destroyed;
- `StreamInv`: of the current attempt, what was sent and then what is queued are the first blocks
  of the part, as many as the cursor says (`Fed`); or the request was asked for credentials
  after the part was read to its end, and waits for blocks that do not come (`Starved`);
- `SizeInv`: the pool is never given more than `MaxThreads + Ahead` attempts, at most
  `MaxThreads` of them are worked on, and when the caller waits some attempt is
  pending: if it stopped giving because the pool was full, one of the pool's messages is waiting, since
  `Ahead` is at least 1, and what waits is pending.

That `Ahead` is not 0 matters, and the proof shows where: a pool full of attempts that are
worked on, and were dealt with, would leave the caller with nothing pending and its loop without
an end.

*Model-checked only.* That the functions of the pool keep the discipline of the lock
(`KeepsDiscipline` of `PoolLocks`), and liveness, which the prover does not do. `TypeOK` of
`DETSession` and of `StreamWrite` is proved and no run names it.

## 9 Findings

| run | what TLC shows |
|-----|----------------|
| `stream_read_truncated` | the worker pushes its last entries and sets its exit flag between the caller's wait and its look at the flag; the file is short and `S3Read` reports success |

`PROJECT.json` has the line and the quoted comment. The models also reach the following, for
which there is no run.

*Session*

- the generation of the result fails and nobody looks (`DETAction.cpp:479`): Finish is shown with no
  result to fetch, or with that of an earlier `ActionEx`;
- a segment of a partial restore ends with an exception: `transferSuccess` was set before the first
  segment (`DETActionPull.cpp:40`) and stays set for a file that was not moved;
- the flag of a skipped file was never set; the cookie may show success;
- `CloseEx` deletes the object with its thread alive;
- the thread ends between Pause's push and `SuspendThread`; the rollback pops the thread's entry
  and the session stays in Pause with no thread;
- the thread is suspended inside the critical section and Pause waits for it for ever;
- Cancel looks up Run→Cancel, the thread pushes Finish, Cancel pushes: Finish→Cancel is
  not in the table (`DETState.cpp:73`);
- a session with a Cancel or a Pause skips files and still enters Finish
  (`DETAction.cpp:71`);
- Action on a paused session enters Run, appends the files, then finds the handle in use
  and reports an error: state Run, thread suspended; a Cancel that follows resumes
  nobody (`DETAction.cpp:126`, `:308`);
- a segment of a file fails, the next one's `SetStatus(keNoError)` hides it
  (`DETActionPull.cpp:118`);
- a rollback pops the None of a failed thread whose handle is null; Action starts over
  on a list that holds the files already and counts them twice (`DETAction.cpp:149`).

*Streams*

- the worker of an upload ends with an error; `push_back` no longer waits, the loop does not look,
  and the whole file is queued;
- the store answers with another status below 400 than 200; the error made of it is stored where
  nobody looks, and `S3Write` reports success;
- one thread goes through `AbortList` while another changes it, each in its own critical section;
- no thread can be created: `S3Write` reports success with nothing sent (the outcome
  `unstarted` of the contract), `S3Read` loops for ever (`FileSupport.cpp:80`, `:255`);
- the sum of an upload's progress is an `int`: past 2 GB another amount is taken back than
  was reported (`ECSConnection.cpp:1630`); an error status without a body leaves the progress
  as it is (`:1960`);
- an abort while an upload waits for data is reported as a timeout (`:1580`);
- `KillThreadWait` returns while the ending thread is still in the critical section of
  the object that is then destroyed (`SimpleWorkerThread.cpp:179`).

*Thread pool and multipart upload*

- the limit of the pool is lowered while two threads are idle: both kill themselves and a message
  is left without a thread, against "don't go below this number" (`ThreadPool.h:167`). With a
  minimum of 0 the end of the last idle thread races with a message;
- two threads may move the same delayed message, which is then worked on twice;
- `Terminate` flushes the delayed messages and may start threads for them, though `bDisable` "is
  set when Terminate is called to prevent additional work items" (`ThreadPool.h:187`);
- `UpdatePerf` puts an entry back behind another one and signals nobody;
- `AddThreads` loops for ever, inside the lock, if no thread can be created;
- a plan of one part more than the limit is let through (`FileSupport.cpp:465`, against "don't go
  over 1000 parts", `:445`);
- parts that are under way may reach the server after the upload was aborted;
- the answer to the start of an upload is lost or cannot be parsed: `bStartedMultipartUpload` stays false
  (`FileSupport.cpp:509`) and the upload stays at the server. An answer without `UploadId` is taken
  as a success, and an abort then names no upload (`ECSConnection.cpp:4818`);
- all pending attempts finish between the last pass and the collection of the events (`:626`): the wait
  is over no event, which the debug build of MFC asserts against, and lasts its five seconds (`:643`)
  before the results are looked at;
- the events the caller waits for fit the array only up to a number of threads
  (the ASSERT at `:623`);
- `CMPUPool` does not terminate its threads in a destructor of its own (`ThreadPool.h:27` asks for
  it): after its members are destroyed threads may still use `Pending` (`FileSupport.cpp:403`).
  The application does not call `DoS3MultiPartUpload`; the library exports it.

*Connection*

- a change of one host's settings kills the idle sessions of all hosts, the comment says "invalidate
  all entries for this host" (`ECSConnection.cpp:4563`); the key holds neither port nor proxy, though the map is shared by all
  connections, each with its own settings;
- `SetUserAgent` (`:2070`), `SetHttpsProtocol` (`:392`) and `SetGlobalHttpsProtocol` (`:387`) change what a
  session is opened with and leave the sessions opened before in use;
- with one address marked and the other down, a request gives up without trying the marked one
  until `dwBadIPAddrAge` has passed; that age is commented "(seconds)" (`ECSConnection.h:1078`)
  and compared in milliseconds;
- two requests mark addresses again between another's `TestAllIPBad` and its second look: it
  ends with "no address" though the host has some;
- an HTTP error answered by the second address marks nothing;
- `ClosesInTime` false: `WaitComplete` gives up on `HANDLE_CLOSING` after its time-out, though
  "if it is waiting for WINHTTP_CALLBACK_STATUS_HANDLE_CLOSING, don't exit until we get it" (`:198`);
- the event is manual-reset: set by a callback nobody waits for, it makes `WaitComplete` turn
  without counting seconds until the right callback comes;
- an abandoned `WinHttpReadData` may still write to a buffer of a stack frame that is gone;
- two calls of `SetThrottle` or `TerminateThrottle` that overlap: the timer is killed under a limit the
  other has just set, and requests of that host wait for ever; or it is started again while
  `KillThreadWait` waits for the old one, which then waits for the new one, or deletes the work
  event of the new one (`SimpleWorkerThread.cpp:210`), whose thread uses the pointer;
- `CreateThread` of the timer fails and the result is ignored (`ECSConnection.cpp:3284`): a limit is set that
  nobody refills, and a request that has used its share waits until it is aborted, the limit is
  removed, or a later call starts the timer;
- the last block of a stream is not charged to the share, the first is not checked;
- a timer that is very late overflows the share, which turns negative and keeps requests waiting;
  so does a limit above half of `INT_MAX` with a timer on time (`ECSConnection.cpp:319`): the proof
  of `DebtStaysBounded` needs `SharesFit`.

## 10 Outside the model

*Session.* The kind of error and its text (`ErrorType`, `m_sLastError`), return
values, a second `OpenEx` over an open session, exceptions between `Enter` and `Leave`
(they leave the section locked; noted as a hazard), and the data race inside
`std::stack` itself: two pushes at the same instant are undefined behaviour, the model
has them one after the other, which is what the build does unless the stack
reallocates.

*Streams.* Exceptions thrown by a progress callback, a failure of a wait
itself (`WAIT_FAILED`), a download without a Content-Length header, and the splitting of a block
into writes of at most `dwMaxWriteRequest` bytes. A block counts as
one unit of progress. The throttle has a module of its own; the repetition of a request whose
credentials were refused is in `MultiPart`, where the stream is consumed, and in `HttpRequest`.

*Pool and multipart upload.* Performance counters, `SetThreadRange`, `DeleteOldThreadEntries` (it
removes entries of threads that ended, under both locks), copying and listing of parts
(`S3CopyMultiPart`, `S3MultiPartList`), and a key counter that wraps.

*Connection.* The flags of a certificate failure, failures of `WinHttpSetOption`, what a time-out
adjusts (limit of a write, time-outs), headers and signatures: data that decides no step of the
models, or a choice in them.

*Not modelled at all.* Rename, bulk delete, listings, `DETRemove` and `DETIterate` are sequences of
requests by one thread on state of its own: a model of them would restate their order. The XML
reader and generator, buffers, crypto, text and numbers are sequential data code. Vendored
headers (`include/AvSupport`, `include/plog`), which are most of the repository's lines, are not
this program's. Each part has its status and reason in `PROJECT.json`.
