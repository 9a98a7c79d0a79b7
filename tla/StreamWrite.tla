----------------------------- MODULE StreamWrite -----------------------------
(***************************************************************************)
(* S3Write (ECSUtil/FileSupport.cpp:224): the caller's thread reads a file *)
(* block by block and queues the blocks; a worker of its own sends them to *)
(* the store.  The two share the bounded queue, the worker's exit flag     *)
(* bTerminate and its Error.                                               *)
(***************************************************************************)
EXTENDS Naturals, Integers, Sequences

CONSTANTS NumBlocks,      \* blocks the file is read in
          MaxQueue,       \* dwMaxQueueSize
          IntLimit,       \* first number of blocks whose bytes exceed an int
          ThreadMayFail   \* CreateThread may be refused by the system

ASSUME WriteAssumption == /\ NumBlocks \in Nat
                          /\ MaxQueue \in Nat \ {0}
                          /\ IntLimit \in Nat \ {0}
                          /\ ThreadMayFail \in BOOLEAN

VARIABLES main,       \* the caller: pc, records read, what it returns
          worker,     \* CS3WriteThread: pc, Error with its HTTP status
          exit,       \* CSimpleWorkerThread::bTerminate
          queue,      \* WriteContext.StreamData
          sent,       \* blocks WinHTTP took, in order
          progress,   \* what UpdateProgressCB was told, added up
          acc,        \* STREAM_CONTEXT::iAccProgress
          abort       \* a callback or flag of the connection's AbortList is set

vars == <<main, worker, exit, queue, sent, progress, acc, abort>>
-----------------------------------------------------------------------------
Errors == {"none", "aborted", "net", "http", "timeout", "disk"}

\* HTTP status of an answer that was not thrown as an error: none yet, 200,
\* another below 400, one from 400 on.
Statuses == {"none", "ok", "other", "failed"}

\* A STREAM_DATA_ENTRY: the place of its data in the file; the entry with
\* bLast has none.
Entry == [off : Nat, last : BOOLEAN]

MainPc == {"checksum", "create", "loop", "read", "push", "wait", "append",
           "kill", "join", "done"}
WorkerPc == {"none", "start", "request", "next", "wait", "send", "pop",
             "response", "kill", "exiting", "leaving", "gone"}

\* The wrap of a signed int, counted in blocks.
Wrap(n) == ((n + IntLimit) % (2 * IntLimit)) - IntLimit

Init == /\ main = [pc |-> "checksum", rec |-> 0, last |-> FALSE, result |-> "none"]
        /\ worker = [pc |-> "none", error |-> "none", http |-> "none"]
        /\ exit = FALSE
        /\ queue = << >>
        /\ sent = << >>
        /\ progress = 0
        /\ acc = 0
        /\ abort = FALSE

\* CECSConnection::TestAbort.  In the caller's thread the entry the worker
\* registered is never true: only the caller sets exit while it is listed, and
\* tests no more afterwards.
TestAbort == abort

\* TestAbort in the worker: its own TestShutdownThread is on the list.
WorkerStop == abort \/ exit

\* Somebody asks the connection to stop: a service shutdown, a user.
Abort == /\ ~abort
         /\ abort' = TRUE
         /\ UNCHANGED <<main, worker, exit, queue, sent, progress, acc>>
-----------------------------------------------------------------------------
(***************************************************************************)
(* The caller's thread.                                                    *)
(***************************************************************************)
MainOnly == UNCHANGED <<worker, exit, queue, sent, progress, acc, abort>>

\* GetFileSizeEx, and CalcUploadChecksum, which reads the whole file first
\* (DETActionPush asks for it) and tests for an abort after each block.
MainChecksum ==
  /\ main.pc = "checksum"
  /\ \/ /\ NumBlocks = 0 \/ ~TestAbort
        /\ main' = [main EXCEPT !.pc = "create"]
     \/ /\ NumBlocks > 0 /\ TestAbort
        /\ main' = [main EXCEPT !.pc = "done", !.result = "aborted"]
     \/ main' = [main EXCEPT !.pc = "done", !.result = "disk"]
  /\ MainOnly

\* CreateThread and StartWork; their results are not looked at.
MainCreate ==
  /\ main.pc = "create"
  /\ main' = [main EXCEPT !.pc = "loop"]
  /\ \/ worker' = [worker EXCEPT !.pc = "start"]
     \/ ThreadMayFail /\ UNCHANGED worker
  /\ UNCHANGED <<exit, queue, sent, progress, acc, abort>>

\* On an abort the loop is left, and no last entry is queued.
MainLoop ==
  /\ main.pc = "loop"
  /\ main' = [main EXCEPT !.pc = IF TestAbort THEN "join" ELSE "read"]
  /\ MainOnly

\* Mutant: any failure of ReadFile is taken for the end of the file.
MainReadAnyEnd ==
  /\ main.pc = "read"
  /\ \/ /\ main.rec < NumBlocks
        /\ main' = [main EXCEPT !.pc = "push", !.rec = @ + 1]
     \/ main' = [main EXCEPT !.pc = "push", !.rec = @ + 1, !.last = TRUE]
  /\ MainOnly

\* ReadFile: a block, the end of the file, or an error.
MainRead ==
  /\ main.pc = "read"
  /\ \/ /\ main.rec < NumBlocks
        /\ main' = [main EXCEPT !.pc = "push", !.rec = @ + 1]
     \/ /\ main.rec = NumBlocks
        /\ main' = [main EXCEPT !.pc = "push", !.rec = @ + 1, !.last = TRUE]
     \/ main' = [main EXCEPT !.pc = "kill", !.result = "disk"]
  /\ MainOnly

\* Mutant: the size after the append may exceed the limit by two.
TooLongLate(q) == Len(q) > MaxQueue + 1

\* push_back compares the size before it takes the lock to append ...
TooLong(q) == Len(q) > MaxQueue

MainPush ==
  /\ main.pc = "push"
  /\ main' = [main EXCEPT !.pc = IF TooLong(queue) THEN "wait" ELSE "append"]
  /\ MainOnly

\* ... and WaitForQueue looks again, every five seconds at least, until there
\* is room or the worker's exit flag is set.
MainWait ==
  /\ main.pc = "wait"
  /\ ~TooLong(queue) \/ exit
  /\ main' = [main EXCEPT !.pc = "append"]
  /\ MainOnly

MainAppend ==
  /\ main.pc = "append"
  /\ queue' = Append(queue, [off |-> main.rec, last |-> main.last])
  /\ main' = [main EXCEPT !.pc = IF main.last THEN "join" ELSE "loop"]
  /\ UNCHANGED <<worker, exit, sent, progress, acc, abort>>

\* KillThreadWait looks, without the lock, for a null pThread or m_pWorkEvent.
NoThread == worker.pc \in {"none", "leaving", "gone"}

\* KillThreadWait(): KillThread, if there is a thread, then wait.
MainKill ==
  /\ main.pc = "kill"
  /\ exit' = (exit \/ ~NoThread)
  /\ main' = [main EXCEPT !.pc = "join"]
  /\ UNCHANGED <<worker, queue, sent, progress, acc, abort>>

\* Mutant: the worker's error hides the caller's own.
MainJoinWorkers ==
  /\ main.pc = "join"
  /\ NoThread
  /\ main' = [main EXCEPT !.pc = "done",
                          !.result = IF worker.error # "none" THEN worker.error ELSE @]
  /\ MainOnly

\* The wait of KillThreadWait, and the return value: the caller's own error,
\* or else the worker's.
MainJoin ==
  /\ main.pc = "join"
  /\ NoThread
  /\ main' = [main EXCEPT !.pc = "done",
                          !.result = IF @ = "none" THEN worker.error ELSE @]
  /\ MainOnly

MainNext == \/ MainChecksum \/ MainCreate \/ MainLoop \/ MainRead \/ MainPush
            \/ MainWait \/ MainAppend \/ MainKill \/ MainJoin
-----------------------------------------------------------------------------
(***************************************************************************)
(* The worker: ThreadProc, DoWork, Create, SendRequestInternal.            *)
(***************************************************************************)
WorkerOnly == UNCHANGED <<main, exit, queue, sent, progress, acc, abort>>

\* The catch of SendRequestInternal takes back the progress it reported.
Failed(e) ==
  /\ worker' = [worker EXCEPT !.pc = "kill", !.error = e]
  /\ progress' = progress + Wrap(-acc)
  /\ acc' = 0
  /\ UNCHANGED <<main, exit, queue, sent, abort>>

\* A command of WinHTTP that WaitComplete waits for: the abort test, which
\* comes first, or the failure of the command.
CommandFails == \/ WorkerStop /\ Failed("aborted")
                \/ ~WorkerStop /\ Failed("net")

\* ThreadProc: a thread killed before it begins does no work.
WorkerStart ==
  /\ worker.pc = "start"
  /\ worker' = [worker EXCEPT !.pc = IF exit THEN "exiting" ELSE "request"]
  /\ WorkerOnly

WorkerRequest ==
  /\ worker.pc = "request"
  /\ \/ CommandFails
     \/ ~WorkerStop /\ worker' = [worker EXCEPT !.pc = "next"] /\ WorkerOnly

WorkerNext ==
  /\ worker.pc = "next"
  /\ worker' = [worker EXCEPT !.pc = IF queue = << >> THEN "wait" ELSE "send"]
  /\ WorkerOnly

\* WaitStreamSend: an entry, an abort, or 92 seconds without either; both of
\* the latter are reported as a timeout.
WorkerWait ==
  /\ worker.pc = "wait"
  /\ IF queue # << >>
     THEN worker' = [worker EXCEPT !.pc = "send"] /\ WorkerOnly
     ELSE Failed("timeout")

\* Mutant: the callback is told, but the sum to take back is not kept.
WorkerSendNoSum ==
  /\ worker.pc = "send"
  /\ ~Head(queue).last
  /\ \/ CommandFails
     \/ /\ ~WorkerStop
        /\ sent' = Append(sent, Head(queue).off)
        /\ progress' = progress + 1
        /\ worker' = [worker EXCEPT !.pc = "pop"]
        /\ UNCHANGED <<main, exit, queue, acc, abort>>

\* WinHttpWriteData takes the front entry, which stays on the queue.
WorkerSend ==
  /\ worker.pc = "send"
  /\ ~Head(queue).last
  /\ \/ CommandFails
     \/ /\ ~WorkerStop
        /\ sent' = Append(sent, Head(queue).off)
        /\ progress' = progress + 1
        /\ acc' = Wrap(acc + 1)
        /\ worker' = [worker EXCEPT !.pc = "pop"]
        /\ UNCHANGED <<main, exit, queue, abort>>

\* The entry leaves the queue after its data was taken.
WorkerPop ==
  /\ worker.pc = "pop"
  /\ queue' = Tail(queue)
  /\ worker' = [worker EXCEPT !.pc = "next"]
  /\ UNCHANGED <<main, exit, sent, progress, acc, abort>>

\* The entry with bLast has no data; it ends the loop.
WorkerEnd ==
  /\ worker.pc = "send"
  /\ Head(queue).last
  /\ queue' = Tail(queue)
  /\ worker' = [worker EXCEPT !.pc = "response"]
  /\ UNCHANGED <<main, exit, sent, progress, acc, abort>>

\* The answer of the store.  From 400 on it is an error, thrown only if it has a
\* body (:1960).  SendRequest wants 200, but the error code it makes of another
\* status (:1167) goes into CS3ErrorInfo::dwError, and it returns
\* CS3ErrorInfo::Error.
WorkerResponse ==
  /\ worker.pc = "response"
  /\ \/ CommandFails
     \/ ~WorkerStop /\ Failed("http")
     \/ /\ ~WorkerStop
        /\ \E h \in Statuses \ {"none"} :
             worker' = [worker EXCEPT !.pc = "kill", !.http = h,
                                      !.error = IF h = "failed" THEN "http" ELSE @]
        /\ WorkerOnly

\* Mutant: the worker stays in ThreadProc's loop.
WorkerKillNot ==
  /\ worker.pc = "kill"
  /\ worker' = [worker EXCEPT !.pc = "exiting"]
  /\ UNCHANGED <<main, exit, queue, sent, progress, acc, abort>>

\* The end of DoWork: KillThread on itself.
WorkerKill ==
  /\ worker.pc = "kill"
  /\ exit' = TRUE
  /\ worker' = [worker EXCEPT !.pc = "exiting"]
  /\ UNCHANGED <<main, queue, sent, progress, acc, abort>>

\* The end of ThreadProc, under csWorkEvent: the event and pThread go first ...
WorkerExit ==
  /\ worker.pc = "exiting"
  /\ exit
  /\ worker' = [worker EXCEPT !.pc = "leaving"]
  /\ WorkerOnly

\* ... then bRunning is reset and the section left.
WorkerLeave ==
  /\ worker.pc = "leaving"
  /\ worker' = [worker EXCEPT !.pc = "gone"]
  /\ WorkerOnly

WorkerStep == \/ WorkerStart \/ WorkerRequest \/ WorkerNext \/ WorkerWait
              \/ WorkerSend \/ WorkerPop \/ WorkerEnd \/ WorkerResponse
              \/ WorkerKill \/ WorkerExit \/ WorkerLeave

Next == MainNext \/ WorkerStep \/ Abort

Spec == Init /\ [][Next]_vars

\* Both threads are scheduled, and WinHTTP answers or WaitComplete gives up.
FairSpec == Spec /\ WF_vars(MainNext) /\ WF_vars(WorkerStep)
-----------------------------------------------------------------------------
(***************************************************************************)
(* Properties.                                                             *)
(***************************************************************************)
\* Types of the two threads' state, the queue and the counters.
TypeOK ==
  /\ main \in [pc : MainPc, rec : 0..NumBlocks + 1, last : BOOLEAN, result : Errors]
  /\ worker \in [pc : WorkerPc, error : Errors, http : Statuses]
  /\ exit \in BOOLEAN /\ abort \in BOOLEAN
  /\ queue \in Seq(Entry)
  /\ sent \in Seq(1..NumBlocks)
  /\ progress \in Int
  /\ acc \in -IntLimit..IntLimit - 1

\* The result of a worker that was never created is its initial Error.
Outcome == IF main.pc # "done" THEN "pending"
           ELSE IF main.result # "none" THEN "error"
           ELSE IF worker.pc = "none" THEN "unstarted" ELSE "success"

Contract == INSTANCE StreamContract
              WITH delivered <- Len(sent), outcome <- Outcome

\* What a caller of S3Write relies on: blocks are sent one by one, the call
\* reports success only when all were, and nothing is sent after it returned.
KeepsContract == Contract!Spec

\* The blocks reach the store in the order of the file, none twice and none left
\* out, though the entry being sent stays on the queue while others are appended.
SentInOrder == \A i \in 1..Len(sent) : sent[i] = i

\* A queue that somebody empties never holds more than one entry beyond
\* dwMaxQueueSize, although push_back tests the size outside the lock.
QueueBounded == ~exit => Len(queue) <= MaxQueue + 1

\* When the request failed before an answer came, the progress reported to the
\* callback was taken back (the catch of SendRequestInternal): in full, but for
\* the wraps of the int it is summed up in.
ProgressTakenBack ==
  worker.error \notin {"none", "http"} => progress % (2 * IntLimit) = 0

\* S3Write says "aborted" only when somebody asked for it: an abort the caller
\* caused itself, by killing the worker after a file error, is not reported.
AbortWasAsked == main.result = "aborted" => abort

\* An upload whose worker was created returns, whatever fails and whoever waits:
\* neither thread waits for the other for ever.
WriteReturns == worker.pc # "none" ~> main.pc = "done"
=============================================================================
