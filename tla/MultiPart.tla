------------------------------ MODULE MultiPart ------------------------------
(***************************************************************************)
(* DoS3MultiPartUpload (ECSUtil/FileSupport.cpp): a file is uploaded in    *)
(* parts by the threads of a pool, while the calling thread reads the file *)
(* and feeds the stream queue of each part.  The pool is what WorkBag says *)
(* (ThreadPool implements it).  A length is counted in buffers, and a      *)
(* block is the data of one buffer, named by its place in the file.        *)
(***************************************************************************)
EXTENDS Naturals, Sequences, FiniteSets

CONSTANTS Totals,        \* lengths of the file
          Longest,       \* bound: no file is longer
          PartSize,      \* dwPartSize, aligned
          MinPartSize,   \* the smallest part of a multipart upload, 5 MB
          MaxParts,      \* dwMaxParts
          MaxThreads, MaxQueueSize, MaxRetries,  \* parameters of the upload
          Ahead,         \* messages queued beyond the threads (4 in the code)
          EventSlots     \* attempts whose events fit into EventArray (31)

ASSUME MultiPartAssumption ==
  /\ Longest \in Nat /\ Totals \subseteq 0 .. Longest
  /\ MaxParts \in Nat \ {0, 1}
  /\ {PartSize, MinPartSize, MaxThreads, MaxQueueSize, Ahead, EventSlots} \subseteq Nat \ {0}
  /\ MaxRetries \in Nat

VARIABLES total,     \* ullTotalLen
          pc,        \* where the calling thread is
          plan,      \* S3PartList: ullBaseOffset and ullPartSize of each part
          part,      \* and its bInProcess, bComplete, dwRetryNum, ullCursor
          queue,     \* StreamQueue of each part
          pending,   \* Pending.PendingList: attempts at a part
          watched,   \* the attempts whose events are in EventArray
          waiting, working, done, open,   \* the pool, see WorkBag
          phase,     \* what the worker of an attempt is doing
          sent,      \* the blocks its request has sent
          upload,    \* the multipart upload at the server
          stored,    \* the content of each part there
          abort,     \* TestAbort answers true
          result     \* what the upload returns
mainVars == <<total, pc, plan, part, queue, pending, watched, upload, result>>
workVars == <<phase, sent, stored>>
poolVars == <<waiting, working, done, open>>
vars == <<mainVars, workVars, poolVars, abort>>

\* No file has more parts than this.
Parts == 1 .. Longest
Attempt == Parts \X (0 .. MaxRetries)
Pool == INSTANCE WorkBag WITH Item <- Attempt
-----------------------------------------------------------------------------
\* The list of parts of a file of t buffers.  << >>: no multipart upload.
PartLength(t) == IF t \div PartSize > MaxParts THEN t \div (MaxParts - 1)
                                               ELSE PartSize
\* Mutant: what is left after the whole parts is forgotten.
PlanCut(t) ==
  LET len == PartLength(t)
      n == t \div len
  IN  IF t < PartSize \/ len < MinPartSize \/ n <= 1 THEN << >>
      ELSE [k \in 1 .. n |-> [base |-> (k - 1) * len, len |-> len]]

Plan(t) ==
  LET len == PartLength(t)
      n == (t + len - 1) \div len
  IN  IF t < PartSize \/ len < MinPartSize \/ n <= 1 THEN << >>
      ELSE [k \in 1 .. n |-> [base |-> (k - 1) * len,
                               len |-> IF k < n THEN len ELSE t - (n - 1) * len]]

Listed == DOMAIN plan
Blocks(k) == [b \in 1 .. plan[k].len |-> plan[k].base + b]
LastBlock(k) == plan[k].base + plan[k].len   \* bLast
NewPart == [inProcess |-> FALSE, complete |-> FALSE, retry |-> 0, cursor |-> 0]

\* The attempt at part k that its dwRetryNum says.
Current(k) == <<k, part[k].retry>>
Finished(a) == phase[a] \in {"ok", "error"}   \* Events.bComplete, and Error
Unfinished == {a \in pending : ~Finished(a)}

Least(x, y) == IF x < y THEN x ELSE y
AtOnce == MaxThreads + Ahead
InPool == Cardinality(waiting) + Cardinality(working)

Init == /\ total \in Totals
        /\ pc = "plan" /\ plan = << >> /\ result = "none" /\ abort = FALSE
        /\ part = [k \in Parts |-> NewPart]
        /\ queue = [k \in Parts |-> << >>]
        /\ pending = {} /\ watched = {}
        /\ Pool!Init
        /\ phase = [a \in Attempt |-> "none"]
        /\ sent = [a \in Attempt |-> << >>]
        /\ upload = "none"
        /\ stored = [k \in Parts |-> << >>]
-----------------------------------------------------------------------------
\* The calling thread.

MakePlan ==
  /\ pc = "plan"
  /\ plan' = Plan(total)
  /\ IF Plan(total) = << >>
     THEN pc' = "leave" /\ result' = "declined"
     ELSE pc' = "initiate" /\ UNCHANGED result
  /\ UNCHANGED <<total, part, queue, pending, watched, upload, workVars, poolVars, abort>>

\* An exception, caught at the end of the function.
Throw == /\ result' = "failed"
         /\ pc' = IF upload = "started" THEN "abort" ELSE "leave"

\* S3MultiPartInitiate may fail, or its answer: the server has begun an upload
\* then that the caller does not know of.
Initiate ==
  /\ pc = "initiate"
  /\ \/ upload' = "started" /\ pc' = "fill" /\ UNCHANGED result
     \/ upload' \in {"none", "lost"} /\ Throw
  /\ UNCHANGED <<total, plan, part, queue, pending, watched, workVars, poolVars, abort>>

\* Parts that are neither complete nor in process.
ToSend == {k \in Listed : ~part[k].complete /\ ~part[k].inProcess}

\* Blocks the stream queue of part k has room for.
Room(k) == MaxQueueSize - Len(queue[k])

\* The first n blocks of part k that were not read yet.
Unread(k, n) == LET c == part[k].cursor
                IN  [b \in 1 .. Least(n, plan[k].len - c) |-> plan[k].base + c + b]

\* Part k is read, as far as its queue takes it, and given to the pool.
GivePart(k) ==
  /\ LET data == Unread(k, MaxQueueSize)
     IN  /\ queue' = [queue EXCEPT ![k] = data]
         /\ part' = [part EXCEPT ![k].inProcess = TRUE,
                                 ![k].cursor = @ + Len(data)]
  /\ pending' = pending \cup {Current(k)}
  /\ Pool!Give(Current(k))
  /\ phase' = [phase EXCEPT ![Current(k)] = "given"]
  /\ UNCHANGED <<total, pc, plan, watched, upload, result, sent, stored, abort>>

\* The next part to give to the pool.
IsNext(k) == k \in ToSend /\ \A j \in ToSend : k <= j

Submit(k) ==
  /\ pc = "fill" /\ IsNext(k) /\ InPool < AtOnce /\ ~abort
  /\ GivePart(k)

\* TestAbort, or ReadFile fails when the attempt is pending already.
SubmitFails ==
  /\ pc = "fill" /\ ToSend # {} /\ InPool < AtOnce
  /\ \/ abort /\ UNCHANGED <<pending, phase>>
     \/ \E k \in ToSend : /\ IsNext(k)
                          /\ pending' = pending \cup {Current(k)}
                          /\ phase' = [phase EXCEPT ![Current(k)] = "given"]
  /\ Throw
  /\ UNCHANGED <<total, plan, part, queue, watched, upload, sent, stored, poolVars, abort>>

\* Every part is given, or enough for now.
Filled ==
  /\ pc = "fill"
  /\ ToSend = {} \/ InPool >= AtOnce
  /\ pc' = IF \A k \in Listed : part[k].complete THEN "complete" ELSE "collect"
  /\ UNCHANGED <<total, plan, part, queue, pending, watched, upload, result, workVars,
                 poolVars, abort>>

\* The wait will be over the events of the attempts that have not finished, as
\* far as there is room, and over no event when all have.
Collect ==
  /\ pc = "collect"
  /\ \E as \in SUBSET Unfinished :
       /\ Cardinality(as) = Least(Cardinality(Unfinished), EventSlots)
       /\ watched' = as
  /\ pc' = "wait"
  /\ UNCHANGED <<total, plan, part, queue, pending, upload, result, workVars, poolVars, abort>>

\* What a pass over the pending attempts does with a part: one that failed
\* is reset, one that succeeded is complete.
\* Mutant: the cursor is not reset.
AfterAttemptNoCursor(k) ==
  IF <<k, part[k].retry>> \notin pending THEN part[k]
  ELSE CASE phase[Current(k)] = "error" ->
              [part[k] EXCEPT !.inProcess = FALSE, !.retry = @ + 1]
         [] phase[Current(k)] = "ok" -> [part[k] EXCEPT !.complete = TRUE]
         [] OTHER -> [part[k] EXCEPT !.cursor =
               @ + Len(Unread(k, Room(k)))]

AfterAttempt(k) ==
  IF <<k, part[k].retry>> \notin pending THEN part[k]
  ELSE CASE phase[Current(k)] = "error" ->
              [part[k] EXCEPT !.inProcess = FALSE, !.retry = @ + 1, !.cursor = 0]
         [] phase[Current(k)] = "ok" -> [part[k] EXCEPT !.complete = TRUE]
         [] OTHER -> [part[k] EXCEPT !.cursor =
               @ + Len(Unread(k, Room(k)))]

QueueAfter(k) ==
  IF Current(k) \notin pending THEN queue[k]
  ELSE CASE phase[Current(k)] = "error" -> << >>
         [] phase[Current(k)] = "ok" -> queue[k]
         [] OTHER -> queue[k] \o Unread(k, Room(k))

OutOfRetries == \E a \in pending : phase[a] = "error" /\ a[2] >= MaxRetries

\* One turn of the inner loop: an event or five seconds, then a pass with the
\* pending list locked.  The loop ends when an attempt has finished.
Pass ==
  /\ pc = "wait" /\ ~abort /\ ~OutOfRetries
  /\ part' = [k \in Parts |-> IF k \in Listed THEN AfterAttempt(k) ELSE part[k]]
  /\ queue' = [k \in Parts |-> IF k \in Listed THEN QueueAfter(k) ELSE queue[k]]
  /\ pending' = Unfinished
  /\ IF Unfinished = pending
     THEN UNCHANGED <<pc, watched>>
     ELSE pc' = "fill" /\ watched' = {}
  /\ UNCHANGED <<total, plan, upload, result, workVars, poolVars, abort>>

\* TestAbort, an attempt too many, or ReadFile fails.
PassFails ==
  /\ pc = "wait"
  /\ abort \/ OutOfRetries \/ \E a \in Unfinished : Unread(a[1], Room(a[1])) # << >>
  /\ Throw
  /\ UNCHANGED <<total, plan, part, queue, pending, watched, upload, workVars, poolVars, abort>>

\* S3MultiPartComplete.  The answer may be lost, or be an error.
Complete ==
  /\ pc = "complete"
  /\ \/ upload' = "completed" /\ result' = "ok" /\ pc' = "leave"
     \/ upload' \in {"completed", "started"} /\ result' = "failed" /\ pc' = "abort"
  /\ UNCHANGED <<total, plan, part, queue, pending, watched, workVars, poolVars, abort>>

\* Mutant: the shutdown is still checked, and ends the request.
AbortUploadChecked ==
  /\ pc = "abort"
  /\ upload' = IF abort THEN upload ELSE "abort asked"
  /\ pc' = "leave"
  /\ UNCHANGED <<total, plan, part, queue, pending, watched, result, workVars, poolVars, abort>>

\* S3MultiPartAbort, with CheckShutdown(false).
AbortUpload ==
  /\ pc = "abort"
  /\ upload' = "abort asked"
  /\ pc' = "leave"
  /\ UNCHANGED <<total, plan, part, queue, pending, watched, result, workVars, poolVars, abort>>

\* The destructors: Pending, a member of CMPUPool, then CThreadPool with
\* Terminate, which waits for the threads.
DestroyPending ==
  /\ pc = "leave"
  /\ pc' = "destroyed"
  /\ UNCHANGED <<total, plan, part, queue, pending, watched, upload, result, workVars, poolVars,
                 abort>>

Terminate ==
  /\ pc = "destroyed"
  /\ Pool!Close
  /\ pc' = "done"
  /\ UNCHANGED <<total, plan, part, queue, pending, watched, upload, result, workVars, abort>>
-----------------------------------------------------------------------------
\* A worker of the pool: DoProcess for an attempt.

\* The pool gives the attempt to a thread.
Take(a) ==
  /\ Cardinality(working) < MaxThreads
  /\ Pool!Take(a)
  /\ phase' = [phase EXCEPT ![a] = IF pc = "destroyed" THEN "dropped" ELSE "send"]
  /\ UNCHANGED <<mainVars, sent, stored, abort>>

Set(a, p) == /\ phase' = [phase EXCEPT ![a] = p]
             /\ UNCHANGED <<mainVars, poolVars, abort>>

\* S3MultiPartUpload sends the front of the queue and removes it.
SendBlock(a) ==
  /\ phase[a] = "send"
  /\ queue[a[1]] # << >>
  /\ LET b == Head(queue[a[1]])
     IN  /\ sent' = [sent EXCEPT ![a] = Append(@, b)]
         /\ phase' = [phase EXCEPT ![a] = IF b = LastBlock(a[1]) THEN "answer" ELSE "send"]
  /\ queue' = [queue EXCEPT ![a[1]] = Tail(@)]
  /\ UNCHANGED <<total, pc, plan, part, pending, watched, upload, result, stored, poolVars, abort>>

\* The server has the part, though the answer may not come or have no ETag.
Stored(a) ==
  /\ phase[a] = "answer"
  /\ stored' = [stored EXCEPT ![a[1]] = sent[a]]
  /\ sent' = [sent EXCEPT ![a] = << >>]
  /\ \E p \in {"ok", "error"} : Set(a, p)

\* The server, or a proxy, wants credentials: the stream is waited for again.
Challenged(a) ==
  /\ phase[a] = "answer"
  /\ sent' = [sent EXCEPT ![a] = << >>]
  /\ UNCHANGED stored
  /\ Set(a, "send")

\* Mutant: data is waited for without end.
RequestFailsNoTimeout(a) ==
  /\ phase[a] = "answer" \/ (phase[a] = "send" /\ (abort \/ queue[a[1]] # << >>))
  /\ sent' = [sent EXCEPT ![a] = << >>]
  /\ UNCHANGED stored
  /\ Set(a, "error")

\* A failure, the abort, or no data in the stream queue in time.
RequestFails(a) ==
  /\ phase[a] \in {"send", "answer"}
  /\ sent' = [sent EXCEPT ![a] = << >>]
  /\ UNCHANGED stored
  /\ Set(a, "error")

\* Back in the pool, which removes the message.
Return(a) ==
  /\ Finished(a) \/ phase[a] = "dropped"
  /\ Pool!Finish(a)
  /\ UNCHANGED <<mainVars, workVars, abort>>

Work(a) == SendBlock(a) \/ Stored(a) \/ Challenged(a) \/ RequestFails(a) \/ Return(a)
-----------------------------------------------------------------------------
AskAbort == /\ ~abort /\ pc # "done"
            /\ abort' = TRUE
            /\ UNCHANGED <<mainVars, workVars, poolVars>>

Main == \/ MakePlan \/ Initiate \/ SubmitFails \/ Filled \/ Collect \/ Pass
        \/ PassFails \/ Complete \/ AbortUpload \/ DestroyPending \/ Terminate
        \/ \E k \in Parts : Submit(k)

Next == Main \/ AskAbort \/ \E a \in Attempt : Take(a) \/ Work(a)

Spec == Init /\ [][Next]_vars

\* The calling thread waits at most five seconds at a time; a request ends,
\* with an answer or after its time-outs; the pool has a thread for a message.
Fairness == /\ WF_vars(Main)
            /\ WF_vars(\E a \in Attempt : Take(a))
            /\ \A a \in Attempt : WF_vars(Work(a))

FairSpec == Spec /\ Fairness
-----------------------------------------------------------------------------
TypeOK ==
  /\ total \in Totals
  /\ pc \in {"plan", "initiate", "fill", "collect", "wait", "complete", "abort", "leave",
             "destroyed", "done"}
  /\ plan \in Seq([base : Nat, len : Nat]) /\ Listed \subseteq Parts
  /\ part \in [Parts -> [inProcess : BOOLEAN, complete : BOOLEAN,
                         retry : 0 .. MaxRetries, cursor : Nat]]
  /\ queue \in [Parts -> Seq(Nat)]
  /\ pending \in SUBSET Attempt /\ watched \in SUBSET Attempt /\ waiting \in SUBSET Attempt
  /\ working \in SUBSET Attempt /\ done \in SUBSET Attempt /\ open \in BOOLEAN
  /\ phase \in [Attempt -> {"none", "given", "send", "answer", "ok", "error",
                            "dropped"}]
  /\ sent \in [Attempt -> Seq(Nat)] /\ stored \in [Parts -> Seq(Nat)]
  /\ upload \in {"none", "lost", "started", "completed", "abort asked"}
  /\ result \in {"none", "declined", "ok", "failed"}
  /\ abort \in BOOLEAN

\* The parts lie one behind the other, none is empty, and together they are
\* the file: nothing is left out or sent twice (FileSupport.cpp:474).
PlanCoversFile ==
  plan # << >> =>
    /\ \A k \in Listed : /\ plan[k].base = IF k = 1 THEN 0 ELSE LastBlock(k - 1)
                         /\ plan[k].len > 0
    /\ LastBlock(Len(plan)) = total

\* When the upload returns true, the server has each block of each part once
\* and in order, whichever attempts failed, were repeated or asked for
\* credentials, and no thread of the pool sends any more
\* (FileSupport.cpp:648-731).
SuccessIsWhole ==
  result = "ok" => /\ \A k \in Listed : stored[k] = Blocks(k)
                   /\ \A a \in working : Finished(a)
                   /\ waiting = {}

\* An upload the caller was told of is complete, or the server was asked to
\* abort it, before the function returns, whatever fails and also when the
\* process is shutting down (FileSupport.cpp:739-759).  One whose answer was
\* lost stays (:509).
NoKnownUploadLeft == pc \in {"leave", "destroyed", "done"} => upload # "started"

\* The loop around the wait is never entered with nothing pending, for it would
\* not end; and as long as an attempt may still report, the wait is over an
\* event (FileSupport.cpp:626, 640).  When all have finished meanwhile, it is
\* over none and lasts five seconds.
SomethingToWaitFor ==
  pc = "wait" => /\ pending # {}
                 /\ Unfinished # {} => watched # {}

\* The wait never has more attempts to look at than the pool is given: what
\* bounds the array of events (FileSupport.cpp:621).
FewEvents == Cardinality(Unfinished) <= AtOnce

\* The stream queue of a part stays within its limit (FileSupport.cpp:575,
\* 694).
QueueBounded == \A k \in Parts : Len(queue[k]) <= MaxQueueSize

\* The upload returns, whatever fails (FileSupport.cpp:640).
UploadReturns == <>(pc = "done")

\* The plan covers the file, and feeding it stays within the limits of queues,
\* pool and events, with something to wait for.
PartInv == /\ TypeOK
           /\ PlanCoversFile /\ SomethingToWaitFor /\ FewEvents /\ QueueBounded
=============================================================================
