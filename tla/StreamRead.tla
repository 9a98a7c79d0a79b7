----------------------------- MODULE StreamRead -----------------------------
(***************************************************************************)
(* S3Read (ECSUtil/FileSupport.cpp:58): a worker receives an object block  *)
(* by block and queues the blocks; the caller's thread writes them to a    *)
(* file.  The two share the queue with its auto-reset event, the worker's  *)
(* exit flag bTerminate and its Error, and the AbortList of the connection.*)
(***************************************************************************)
EXTENDS Naturals, Sequences

CONSTANTS NumBlocks,      \* blocks the store sends for the object
          MaxQueue,       \* MaxStreamQueueSize
          ThreadMayFail   \* CreateThread may be refused by the system

ASSUME ReadAssumption == /\ NumBlocks \in Nat
                         /\ MaxQueue \in Nat \ {0}
                         /\ ThreadMayFail \in BOOLEAN

VARIABLES main,        \* the caller: pc, result of the wait, record in hand,
                       \* what it returns
          worker,      \* CS3ReadThread: pc, blocks received, bLast, Error
          exit,        \* CSimpleWorkerThread::bTerminate
          queue,       \* ReadContext.StreamData
          event,       \* MsgEvent is set
          written,     \* blocks in the file, in order
          registered,  \* the worker's TestShutdownThread is in AbortList
          abort        \* another entry of AbortList is true

vars == <<main, worker, exit, queue, event, written, registered, abort>>
-----------------------------------------------------------------------------
Errors == {"none", "aborted", "net", "http", "length", "disk"}

\* A STREAM_DATA_ENTRY: the place of its data in the object; the entry with
\* bLast has none.
Entry == [off : Nat, last : BOOLEAN]

NoEntry == [off |-> 0, last |-> FALSE]

MainPc == {"create", "wait", "test", "iterate", "check", "flag", "drain",
           "write", "kill", "join", "done"}
WorkerPc == {"none", "start", "register", "request", "receive", "push", "room",
             "append", "finish", "unregister", "kill", "exiting", "leaving",
             "gone"}

Init == /\ main = [pc |-> "create", got |-> FALSE, rec |-> NoEntry,
                   result |-> "none"]
        /\ worker = [pc |-> "none", rec |-> 0, last |-> FALSE, error |-> "none"]
        /\ exit = FALSE
        /\ queue = << >>
        /\ event = FALSE
        /\ written = << >>
        /\ registered = FALSE
        /\ abort = FALSE

\* CECSConnection::TestAbort, for either thread.
TestAbort == abort \/ (registered /\ exit)

\* Somebody asks the connection to stop: a service shutdown, a user.
Abort == /\ ~abort
         /\ abort' = TRUE
         /\ UNCHANGED <<main, worker, exit, queue, event, written,
                        registered>>
-----------------------------------------------------------------------------
(***************************************************************************)
(* The caller's thread.                                                    *)
(***************************************************************************)
Others == <<worker, exit, queue, event, written, registered, abort>>

\* CreateThread and StartWork; their results are not looked at.
MainCreate ==
  /\ main.pc = "create"
  /\ main' = [main EXCEPT !.pc = "wait"]
  /\ \/ worker' = [worker EXCEPT !.pc = "start"]
     \/ ThreadMayFail /\ UNCHANGED worker
  /\ UNCHANGED <<exit, queue, event, written, registered, abort>>

\* WaitForSingleObject: the event, which the wait resets, or two seconds.
MainWait ==
  /\ main.pc = "wait"
  /\ main' = [main EXCEPT !.pc = "test", !.got = event]
  /\ event' = FALSE
  /\ UNCHANGED <<worker, exit, queue, written, registered, abort>>

\* TestAbort enters csAbortList, the one of this thread's state buffer.
MainEnter ==
  /\ main.pc = "test"
  /\ main' = [main EXCEPT !.pc = "iterate"]
  /\ UNCHANGED Others

MainTest ==
  /\ main.pc = "iterate"
  /\ main' = IF TestAbort THEN [main EXCEPT !.pc = "kill", !.result = "aborted"]
             ELSE [main EXCEPT !.pc = "check"]
  /\ UNCHANGED Others

\* IfActive waits for csWorkEvent, which a thread on its way out holds.
IfActive == worker.pc \notin {"none", "gone"}

\* The worker ended with an error.
MainCheck ==
  /\ main.pc = "check"
  /\ worker.pc # "leaving"
  /\ main' = [main EXCEPT !.pc = IF ~IfActive /\ worker.error # "none"
                                 THEN "kill" ELSE "flag"]
  /\ UNCHANGED Others

\* GetExitFlag: the loop ends, whatever is on the queue.
MainFlag ==
  /\ main.pc = "flag"
  /\ main' = [main EXCEPT !.pc = IF exit THEN "kill"
                                 ELSE IF main.got THEN "drain" ELSE "wait"]
  /\ UNCHANGED Others

\* The queue is emptied; front and pop_front are under one lock.
MainDrain ==
  /\ main.pc = "drain"
  /\ IF queue = << >>
     THEN main' = [main EXCEPT !.pc = "wait"] /\ UNCHANGED queue
     ELSE /\ main' = [main EXCEPT !.pc = "write", !.rec = Head(queue)]
          /\ queue' = Tail(queue)
  /\ UNCHANGED <<worker, exit, event, written, registered, abort>>

\* Mutant: an error of WriteFile is not returned.
MainWriteOn ==
  /\ main.pc = "write"
  /\ \/ /\ main.rec.last
        /\ main' = [main EXCEPT !.pc = "kill"]
        /\ UNCHANGED written
     \/ /\ ~main.rec.last
        /\ main' = [main EXCEPT !.pc = "drain"]
        /\ written' = Append(written, main.rec.off)
     \/ /\ ~main.rec.last
        /\ main' = [main EXCEPT !.pc = "drain"]
        /\ UNCHANGED written
  /\ UNCHANGED <<worker, exit, queue, event, registered, abort>>

\* The entry with bLast ends the loop; other data is written, or WriteFile fails.
MainWrite ==
  /\ main.pc = "write"
  /\ \/ /\ main.rec.last
        /\ main' = [main EXCEPT !.pc = "kill"]
        /\ UNCHANGED written
     \/ /\ ~main.rec.last
        /\ main' = [main EXCEPT !.pc = "drain"]
        /\ written' = Append(written, main.rec.off)
     \/ /\ ~main.rec.last
        /\ main' = [main EXCEPT !.pc = "kill", !.result = "disk"]
        /\ UNCHANGED written
  /\ UNCHANGED <<worker, exit, queue, event, registered, abort>>

\* KillThreadWait looks, without the lock, for a null pThread or m_pWorkEvent.
NoThread == worker.pc \in {"none", "leaving", "gone"}

\* KillThread by KillThreadWait, at the end of S3Read or in ~CS3ReadThread.
MainKill ==
  /\ main.pc = "kill"
  /\ exit' = (exit \/ ~NoThread)
  /\ main' = [main EXCEPT !.pc = "join"]
  /\ UNCHANGED <<worker, queue, event, written, registered, abort>>

\* Mutant: the thread is told to end but not waited for.
MainJoinNoWait ==
  /\ main.pc = "join"
  /\ main' = [main EXCEPT !.pc = "done",
                          !.result = IF @ = "none" THEN worker.error ELSE @]
  /\ UNCHANGED Others

\* The wait for the thread, and the return value: the caller's own error, or
\* else the worker's.
MainJoin ==
  /\ main.pc = "join"
  /\ NoThread
  /\ main' = [main EXCEPT !.pc = "done",
                          !.result = IF @ = "none" THEN worker.error ELSE @]
  /\ UNCHANGED Others

MainNext == \/ MainCreate \/ MainWait \/ MainEnter \/ MainTest \/ MainCheck
            \/ MainFlag \/ MainDrain \/ MainWrite \/ MainKill \/ MainJoin
-----------------------------------------------------------------------------
(***************************************************************************)
(* The worker: ThreadProc, DoWork, Read, SendRequestInternal.              *)
(***************************************************************************)
WorkerOnly == UNCHANGED <<main, exit, queue, event, written, registered,
                          abort>>

Failed(e) == worker' = [worker EXCEPT !.pc = "finish", !.error = e] /\ WorkerOnly

\* A command of WinHTTP that WaitComplete waits for: the abort test, which
\* comes first, or the failure of the command.
CommandFails == \/ TestAbort /\ Failed("aborted")
                \/ ~TestAbort /\ Failed("net")

\* ThreadProc: a thread killed before it begins does no work.  DoWork enters
\* the csAbortList of its own state buffer ...
WorkerStart ==
  /\ worker.pc = "start"
  /\ worker' = [worker EXCEPT !.pc = IF exit THEN "exiting" ELSE "register"]
  /\ WorkerOnly

\* ... and adds its callback to the AbortList all threads share.
WorkerRegister ==
  /\ worker.pc = "register"
  /\ registered' = TRUE
  /\ worker' = [worker EXCEPT !.pc = "request"]
  /\ UNCHANGED <<main, exit, queue, event, written, abort>>

\* The request is sent and the status comes; from 400 on nothing is queued.
WorkerRequest ==
  /\ worker.pc = "request"
  /\ \/ CommandFails
     \/ ~TestAbort /\ Failed("http")
     \/ ~TestAbort /\ worker' = [worker EXCEPT !.pc = "receive"] /\ WorkerOnly

\* WinHttpQueryDataAvailable and WinHttpReadData: a block, or the end of the
\* answer, possibly before all of the object came.
WorkerReceive ==
  /\ worker.pc = "receive"
  /\ \/ CommandFails
     \/ /\ ~TestAbort
        /\ worker.rec < NumBlocks
        /\ worker' = [worker EXCEPT !.pc = "push", !.rec = @ + 1]
        /\ WorkerOnly
     \/ /\ ~TestAbort
        /\ worker' = [worker EXCEPT !.pc = "push", !.rec = @ + 1, !.last = TRUE]
        /\ WorkerOnly

\* push_back compares the size before it takes the lock to append ...
TooLong(q) == Len(q) > MaxQueue

WorkerPush ==
  /\ worker.pc = "push"
  /\ worker' = [worker EXCEPT !.pc = IF TooLong(queue) THEN "room" ELSE "append"]
  /\ WorkerOnly

\* Mutant: the wait for room does not test for an abort.
WorkerRoomDeaf ==
  /\ worker.pc = "room"
  /\ ~TooLong(queue)
  /\ worker' = [worker EXCEPT !.pc = "append"]
  /\ WorkerOnly

\* ... and WaitForQueue looks again, every five seconds at least, until there
\* is room or the connection is told to stop.
WorkerRoom ==
  /\ worker.pc = "room"
  /\ ~TooLong(queue) \/ TestAbort
  /\ worker' = [worker EXCEPT !.pc = "append"]
  /\ WorkerOnly

\* Mutant: the length received is not compared with the header.
WorkerAppendAnyLength ==
  /\ worker.pc = "append"
  /\ queue' = Append(queue, [off |-> worker.rec, last |-> worker.last])
  /\ event' = TRUE
  /\ worker' = [worker EXCEPT !.pc = IF worker.last THEN "finish" ELSE "receive"]
  /\ UNCHANGED <<main, exit, written, registered, abort>>

\* TriggerEvent and the append are under one lock, which the reader takes before
\* it looks.  After the last entry Read compares what came with Content-Length.
WorkerAppend ==
  /\ worker.pc = "append"
  /\ queue' = Append(queue, [off |-> worker.rec, last |-> worker.last])
  /\ event' = TRUE
  /\ worker' = [worker EXCEPT
                  !.pc = IF worker.last THEN "finish" ELSE "receive",
                  !.error = IF worker.last /\ worker.rec <= NumBlocks
                            THEN "length" ELSE @]
  /\ UNCHANGED <<main, exit, written, registered, abort>>

\* UnregisterShutdownCB: the section of this thread's state buffer ...
WorkerFinish ==
  /\ worker.pc = "finish"
  /\ worker' = [worker EXCEPT !.pc = "unregister"]
  /\ WorkerOnly

\* ... and the erasure.
WorkerUnregister ==
  /\ worker.pc = "unregister"
  /\ registered' = FALSE
  /\ worker' = [worker EXCEPT !.pc = "kill"]
  /\ UNCHANGED <<main, exit, queue, event, written, abort>>

\* The end of DoWork: KillThread on itself.
WorkerKill ==
  /\ worker.pc = "kill"
  /\ exit' = TRUE
  /\ worker' = [worker EXCEPT !.pc = "exiting"]
  /\ UNCHANGED <<main, queue, event, written, registered, abort>>

\* The end of ThreadProc, under csWorkEvent: the event and pThread go first ...
WorkerExit ==
  /\ worker.pc = "exiting"
  /\ worker' = [worker EXCEPT !.pc = "leaving"]
  /\ WorkerOnly

\* ... then bRunning is reset and the section left.
WorkerLeave ==
  /\ worker.pc = "leaving"
  /\ worker' = [worker EXCEPT !.pc = "gone"]
  /\ WorkerOnly

WorkerStep == \/ WorkerStart \/ WorkerRegister \/ WorkerRequest \/ WorkerReceive
              \/ WorkerPush \/ WorkerRoom \/ WorkerAppend \/ WorkerFinish
              \/ WorkerUnregister \/ WorkerKill \/ WorkerExit \/ WorkerLeave

Next == MainNext \/ WorkerStep \/ Abort

Spec == Init /\ [][Next]_vars

\* Both threads are scheduled, and WinHTTP answers or WaitComplete gives up.
FairSpec == Spec /\ WF_vars(MainNext) /\ WF_vars(WorkerStep)
-----------------------------------------------------------------------------
(***************************************************************************)
(* Properties.                                                             *)
(***************************************************************************)
\* Types of the two threads' state and the queue.
TypeOK ==
  /\ main \in [pc : MainPc, got : BOOLEAN, rec : Entry, result : Errors]
  /\ worker \in [pc : WorkerPc, rec : 0..NumBlocks + 1, last : BOOLEAN,
                 error : Errors]
  /\ exit \in BOOLEAN /\ event \in BOOLEAN
  /\ registered \in BOOLEAN /\ abort \in BOOLEAN
  /\ queue \in Seq(Entry)
  /\ written \in Seq(1..NumBlocks)

Outcome == IF main.pc # "done" THEN "pending"
           ELSE IF main.result = "none" THEN "success" ELSE "error"

\* The file holds the blocks of the object in their order, none twice, none left
\* out.
WrittenInOrder == \A i \in 1..Len(written) : written[i] = i

\* Success is reported only if the store sent the whole object, and what is then
\* missing in the file is on the queue: no error of either side is lost, and
\* nothing goes astray between the threads.
NothingAstray ==
  Outcome = "success"
    => \/ Len(written) = NumBlocks
       \/ /\ queue # << >>
          /\ queue[Len(queue)] = [off |-> NumBlocks + 1, last |-> TRUE]
          /\ Len(written) + Len(queue) = NumBlocks + 1

\* The queue never holds more than one entry beyond MaxStreamQueueSize, although
\* push_back tests the size outside the lock, and two when it gives up waiting.
QueueBounded == Len(queue) <= MaxQueue + (IF abort \/ exit THEN 2 ELSE 1)

\* S3Read says "aborted" only when somebody asked for it: the exit flag the worker
\* sets at its end is never taken for an abort by the caller's own TestAbort,
\* because the worker has left the AbortList by then.
AbortWasAsked == main.result = "aborted" => abort

\* When S3Read returns, its worker has done its last work: it will not touch the
\* queue, the connection or Error again, which go with S3Read.
WorkDone == main.pc = "done" => NoThread

\* A download whose worker was created returns: neither thread waits for the other
\* for ever.
ReadReturns == worker.pc # "none" ~> main.pc = "done"

\* "the original thread will read the data off of the queue and write it to disk"
\* (FileSupport.cpp:57): a read that reports success has written everything.
SuccessMeansWritten == Outcome = "success" => Len(written) = NumBlocks

\* The file grows in order, the queue stays within its limit and nobody is told
\* of an abort that was not asked for, whichever thread is ahead.
ReadInv == TypeOK /\ WrittenInOrder /\ QueueBounded /\ AbortWasAsked
=============================================================================
