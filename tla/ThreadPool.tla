----------------------------- MODULE ThreadPool ------------------------------
(***************************************************************************)
(* CThreadPool (ECSUtil/ThreadPool.h): a list of worker threads, a queue   *)
(* of messages ordered by priority, a list of delayed messages.  One       *)
(* action is one stretch of code under the locks of the pool and of the    *)
(* queue, or one step between two of them.  Terminate is called by the     *)
(* destructor, after every caller has returned.                            *)
(***************************************************************************)
EXTENDS Integers, Sequences, FiniteSets

CONSTANTS Slots,        \* bound: entries of the list Pool
          Plain,        \* messages of SendMessageToPool
          Delayed,      \* messages of SendMessageToPoolDelayed
          Owner,        \* the thread that owns the pool
          Priority,     \* uPriority of a message
          Group,        \* uGrouping of a message
          Limit,        \* dwMaxQueueSize of the callers, 0 for none
          MinThreads,   \* dwMinNumThreads
          MaxThreads,   \* dwMaxNumThreads at first
          MaxChoices,   \* what SetMaxThreads is called with
          Turns         \* bound: messages DoProcess refuses and changes of
                        \* the limit, together

Msg == Plain \cup Delayed
Thread == 1 .. Slots

ASSUME PoolAssumption ==
  /\ Slots \in Nat /\ Limit \in Nat /\ Turns \in Nat
  /\ Plain \cap Delayed = {}
  /\ Owner \notin Thread
  /\ Priority \in [Msg -> Nat]
  /\ Group \in [Msg -> Nat]
  /\ MinThreads \in Nat /\ MaxThreads \in Nat \ {0}
  /\ MaxChoices \subseteq Nat \ {0}
  /\ \A n \in MaxChoices \cup {MaxThreads} : MinThreads <= n /\ n < Slots

VARIABLES queue,      \* MsgQueue: its entries, with bProcessing
          future,     \* FutureMsgQueue
          ripe,       \* delayed messages whose time has come
          worker,     \* Pool: what each CThreadWork does
          move,       \* TransferFutureQueue, per thread that runs it
          caller,     \* the call that sends each message
          owner,      \* the thread that calls Terminate
          maxThreads, \* dwMaxNumThreads
          disable,    \* bDisable
          done,       \* entries worked on to the end
          refusals,   \* messages DoProcess refused so far
          changes     \* changes of the limit so far

bounds == <<refusals, changes>>
vars == <<queue, future, ripe, worker, move, caller, owner,
          maxThreads, disable, done, bounds>>
-----------------------------------------------------------------------------
Mover == Thread \cup {Owner}

\* An entry of the queue is the message and the thread that put it there:
\* a delayed message may be put there by several (its address in the code).
Item == Msg \X Mover
NoItem == << >>

ALONE_BASE == 1000

WorkerAt == {"none", "wait", "loop", "take", "add", "process", "idle", "over",
             "timeout", "transfer"}
MoveAt == {"none", "find", "send", "add", "drop"}

NoWorker == [at |-> "none", exit |-> FALSE, item |-> NoItem, max |-> 0,
             timeout |-> FALSE]

Init == /\ queue = << >>
        /\ future = << >>
        /\ ripe = {}
        /\ worker = [t \in Thread |-> NoWorker]
        /\ move = [p \in Mover |-> [at |-> "none", msg |-> NoItem]]
        /\ caller = [m \in Msg |-> "new"]
        /\ owner = "run"
        /\ maxThreads = MaxThreads
        /\ disable = FALSE
        /\ done = {}
        /\ refusals = 0 /\ changes = 0

\* CSimpleWorkerThread::IfActive, bInUse, and the threads not told to end.
Active == {t \in Thread : worker[t].at # "none"}
InUse == {t \in Thread : worker[t].at \in {"add", "process", "idle"}}
Running == {t \in Active : ~worker[t].exit}

Compatible(g, h) == \/ g = 0 /\ h = 0
                    \/ g = h /\ g < ALONE_BASE

\* IfInGroup
IfInGroup(g) == \A t \in InUse : Compatible(g, Group[worker[t].item[1]])

\* GetMinNumThreadsInternal: at least one thread to serve the delayed ones.
MinInternal == IF MinThreads > 0 \/ future = << >> THEN MinThreads ELSE 1

FirstWaiting == {i \in DOMAIN queue : /\ ~queue[i].busy
                                      /\ \A j \in 1 .. i - 1 : queue[j].busy}

\* The first of the places found is erased, if there is one.
Erased(s, found) ==
  IF found = {} THEN s
  ELSE LET i == CHOOSE k \in found : \A j \in found : k <= j
       IN  SubSeq(s, 1, i - 1) \o SubSeq(s, i + 1, Len(s))

\* The insertion of UpdatePerf: behind the last entry of at least its priority,
\* in front if there is none.
Outranks(i, m) == Priority[queue[i].item[1]] >= Priority[m]

Insert(item) ==
  \E n \in 0 .. Len(queue) :
    /\ n > 0 => Outranks(n, item[1])
    /\ \A i \in n + 1 .. Len(queue) : ~Outranks(i, item[1])
    /\ queue' = SubSeq(queue, 1, n) \o <<[item |-> item, busy |-> FALSE]>>
                  \o SubSeq(queue, n + 1, Len(queue))

\* AddThreads: up to the minimum, and one more if the queue is longer than
\* the threads are many.  Which free entries of Pool are used makes no difference.
\* The difference of two DWORDs is positive unless they are equal.
ToStart ==
  LET n == Cardinality(Active)
      base == IF n < MinInternal THEN MinInternal ELSE n
  IN  IF n >= maxThreads THEN 0
      ELSE base - n + IF /\ maxThreads # base
                         /\ Len(queue) > base
                         /\ IfInGroup(Group[queue[1].item[1]])
                      THEN 1 ELSE 0

Starting == CHOOSE new \in SUBSET (Thread \ Active) : Cardinality(new) = ToStart

StartThreads == LET new == Starting
                IN  [t \in Thread |-> IF t \in new
                                      THEN [NoWorker EXCEPT !.at = "loop"]
                                      ELSE worker[t]]

\* What WaitForWorkFinished sees under the lock when it returns.
WaitForWorkFinished == queue = << >> /\ future = << >>

Enter(t, place) == worker' = [worker EXCEPT ![t].at = place]
-----------------------------------------------------------------------------
(***************************************************************************)
(* The callers.                                                            *)
(***************************************************************************)
\* SendMessageToPool: waits while the queue is longer than the limit, then
\* inserts the message.  (Callers that wait together may exceed the limit.)
Push(m) ==
  /\ owner = "run"
  /\ m \in Plain /\ caller[m] = "new"
  /\ Limit = 0 \/ Len(queue) <= Limit
  /\ Insert(<<m, Owner>>)
  /\ caller' = [caller EXCEPT ![m] = "add"]
  /\ UNCHANGED <<future, ripe, worker, move, owner, maxThreads,
                 disable, done, bounds>>

SendDelayed(m) ==
  /\ owner = "run"
  /\ m \in Delayed /\ caller[m] = "new"
  /\ future' = Append(future, m)
  /\ caller' = [caller EXCEPT ![m] = "add"]
  /\ UNCHANGED <<queue, ripe, worker, move, owner, maxThreads,
                 disable, done, bounds>>

Add(m) ==
  /\ caller[m] = "add"
  /\ worker' = StartThreads
  /\ caller' = [caller EXCEPT ![m] = "sent"]
  /\ UNCHANGED <<queue, future, ripe, move, owner, maxThreads,
                 disable, done, bounds>>

Ripen(m) ==
  /\ m \in Delayed \ ripe /\ caller[m] # "new"
  /\ ripe' = ripe \cup {m}
  /\ UNCHANGED <<queue, future, worker, move, caller, owner,
                 maxThreads, disable, done, bounds>>

SetMaxThreads ==
  /\ owner = "run" /\ refusals + changes < Turns
  /\ maxThreads' \in MaxChoices \ {maxThreads}
  /\ changes' = changes + 1
  /\ UNCHANGED <<queue, future, ripe, worker, move, caller, owner,
                 disable, done, refusals>>
-----------------------------------------------------------------------------
(***************************************************************************)
(* A worker: CSimpleWorkerThread::ThreadProc and CThreadWork::DoWork.      *)
(***************************************************************************)
WorkerOnly == UNCHANGED <<queue, future, ripe, move, caller, owner,
                          maxThreads, disable, done, bounds>>

\* ThreadProc waits for an event, or five seconds.
Wake(t) ==
  /\ worker[t].at = "wait" /\ ~worker[t].exit
  /\ \E late \in BOOLEAN :
       worker' = [worker EXCEPT ![t].at = "loop", ![t].timeout = late]
  /\ WorkerOnly

\* ExitInstance, up to bRunning = false.
Leave(t) == /\ worker[t].at = "wait" /\ worker[t].exit
            /\ worker' = [worker EXCEPT ![t] = NoWorker]
            /\ WorkerOnly

\* Where DoWork goes when its loop ends.
AfterLoop(t) == IF worker[t].timeout THEN "timeout" ELSE "wait"

\* Mutant: the worker does not look at bDisable.
LoopBlind(t) ==
  /\ worker[t].at = "loop"
  /\ Enter(t, IF worker[t].exit THEN AfterLoop(t) ELSE "take")
  /\ WorkerOnly

Loop(t) ==
  /\ worker[t].at = "loop"
  /\ Enter(t, IF worker[t].exit \/ disable THEN AfterLoop(t) ELSE "take")
  /\ WorkerOnly

TakeNothing(t) ==
  /\ worker[t].at = "take"
  /\ \A i \in FirstWaiting : ~IfInGroup(Group[queue[i].item[1]])
  /\ Enter(t, AfterLoop(t))
  /\ WorkerOnly

\* Mutant: the group is not looked at.
TakeAnyGroup(t) ==
  /\ worker[t].at = "take"
  /\ \E i \in FirstWaiting :
       /\ worker' = [worker EXCEPT ![t].at = "add", ![t].item = queue[i].item]
       /\ queue' = [queue EXCEPT ![i].busy = TRUE]
  /\ UNCHANGED <<future, ripe, move, caller, owner, maxThreads,
                 disable, done, bounds>>

Take(t) ==
  /\ worker[t].at = "take"
  /\ \E i \in FirstWaiting :
       /\ IfInGroup(Group[queue[i].item[1]])
       /\ worker' = [worker EXCEPT ![t].at = "add", ![t].item = queue[i].item]
       /\ queue' = [queue EXCEPT ![i].busy = TRUE]
  /\ UNCHANGED <<future, ripe, move, caller, owner, maxThreads,
                 disable, done, bounds>>

AddMore(t) ==
  /\ worker[t].at = "add"
  /\ worker' = [StartThreads EXCEPT ![t].at = "process", ![t].max = maxThreads]
  /\ WorkerOnly

\* DoProcess, and what follows under the locks.
Processed(t) ==
  /\ worker[t].at = "process"
  /\ queue' = Erased(queue, {i \in DOMAIN queue : queue[i].item = worker[t].item})
  /\ done' = done \cup {worker[t].item}
  /\ Enter(t, "idle")
  /\ UNCHANGED <<future, ripe, move, caller, owner, maxThreads,
                 disable, bounds>>

Refused(t) ==
  /\ worker[t].at = "process" /\ refusals + changes < Turns
  /\ queue' = [i \in DOMAIN queue |->
                 IF queue[i].item = worker[t].item
                 THEN [queue[i] EXCEPT !.busy = FALSE] ELSE queue[i]]
  /\ refusals' = refusals + 1
  /\ Enter(t, "idle")
  /\ UNCHANGED <<future, ripe, move, caller, owner, maxThreads,
                 disable, done, changes>>

SetIdle(t) ==
  /\ worker[t].at = "idle"
  /\ worker' = [worker EXCEPT ![t].at = "over", ![t].item = NoItem]
  /\ WorkerOnly

\* More threads than the limit read before DoProcess: KillThread on itself.
\* Threads that are told to end but have not ended are counted.
TestOver(t) ==
  /\ worker[t].at = "over"
  /\ LET kill == Cardinality(Active) > worker[t].max
     IN  worker' = [worker EXCEPT ![t].max = 0,
                                  ![t].exit = @ \/ kill,
                                  ![t].at = IF kill THEN AfterLoop(t) ELSE "loop"]
  /\ WorkerOnly

\* What a worker does after a time-out: with no delayed message, it may end if
\* it was idle for ten seconds (left open) and enough others go on.  Then it
\* looks for delayed messages that have come due.  (The two looks whether there
\* are any delayed messages change nothing by being one with what follows: a
\* message that comes right after the first could as well come after KillThread,
\* and TransferFutureQueue finds none where the second does.)
Idle(t, others) ==
  /\ worker[t].at = "timeout"
  /\ \E kill \in {FALSE, future = << >> /\ Cardinality(Running) > others} :
       worker' = [worker EXCEPT ![t].exit = @ \/ kill, ![t].at = "transfer"]
  /\ move' = [move EXCEPT ![t].at = "find"]
  /\ UNCHANGED <<queue, future, ripe, caller, owner, maxThreads,
                 disable, done, bounds>>

Housekeep(t) == Idle(t, MinInternal)
-----------------------------------------------------------------------------
(***************************************************************************)
(* TransferFutureQueue, run by a worker after a time-out and by Terminate  *)
(* (bFlush).                                                               *)
(***************************************************************************)
\* Mutant: only a flush finds entries.
DueFlush(p) == {i \in DOMAIN future : p = Owner}

Due(p) == {i \in DOMAIN future : p = Owner \/ future[i] \in ripe}

\* The last entry that is due is sent.
Find(p) ==
  /\ move[p].at = "find" /\ Due(p) # {}
  /\ \E i \in Due(p) : /\ \A j \in Due(p) : j <= i
                       /\ move' = [move EXCEPT ![p] = [at |-> "send",
                                                       msg |-> future[i]]]
  /\ UNCHANGED <<queue, future, ripe, worker, caller, owner,
                 maxThreads, disable, done, bounds>>

FindNone(p) ==
  /\ move[p].at = "find" /\ Due(p) = {}
  /\ move' = [move EXCEPT ![p].at = "none"]
  /\ IF p = Owner THEN owner' = "destroy" /\ UNCHANGED worker
                  ELSE /\ worker' = [worker EXCEPT ![p].at = "wait",
                                                   ![p].timeout = FALSE]
                       /\ UNCHANGED owner
  /\ UNCHANGED <<queue, future, ripe, caller, maxThreads, disable,
                 done, bounds>>

\* Mutant: the entry is taken off the list before it is sent.
SendAfterDrop(p) ==
  /\ move[p].at = "send"
  /\ IF \E i \in DOMAIN future : future[i] = move[p].msg
     THEN /\ future' = Erased(future, {i \in DOMAIN future : future[i] = move[p].msg})
          /\ UNCHANGED <<queue, move>>
     ELSE /\ Insert(<<move[p].msg, p>>)
          /\ move' = [move EXCEPT ![p].at = "add"]
          /\ UNCHANGED future
  /\ UNCHANGED <<ripe, worker, caller, owner, maxThreads, disable,
                 done, bounds>>

SendDue(p) ==
  /\ move[p].at = "send"
  /\ Insert(<<move[p].msg, p>>)
  /\ move' = [move EXCEPT ![p].at = "add"]
  /\ UNCHANGED <<future, ripe, worker, caller, owner, maxThreads,
                 disable, done, bounds>>

AddDue(p) ==
  /\ move[p].at = "add"
  /\ worker' = StartThreads
  /\ move' = [move EXCEPT ![p].at = "drop"]
  /\ UNCHANGED <<queue, future, ripe, caller, owner, maxThreads,
                 disable, done, bounds>>

Drop(p) ==
  /\ move[p].at = "drop"
  /\ future' = Erased(future, {i \in DOMAIN future : future[i] = move[p].msg})
  /\ move' = [move EXCEPT ![p] = [at |-> "find", msg |-> NoItem]]
  /\ UNCHANGED <<queue, ripe, worker, caller, owner, maxThreads,
                 disable, done, bounds>>
-----------------------------------------------------------------------------
(***************************************************************************)
(* Terminate and the end of the pool.                                      *)
(***************************************************************************)
OwnerOnly == UNCHANGED <<queue, future, ripe, worker, move, caller,
                         maxThreads, disable, done, bounds>>

TellToEnd == worker' = [t \in Thread |-> [worker[t] EXCEPT
                          !.exit = @ \/ t \in Active]]

Terminate ==
  /\ owner = "run"
  /\ \A m \in Msg : caller[m] = "sent"
  /\ disable' = TRUE
  /\ owner' = "notify"
  /\ UNCHANGED <<queue, future, ripe, worker, move, caller,
                 maxThreads, done, bounds>>

\* KillThreadQueueSRW: tell all to end; look until none is active, and tell
\* them again when that takes too long; clear the list.
Notify ==
  /\ owner = "notify"
  /\ TellToEnd
  /\ owner' = "poll"
  /\ UNCHANGED <<queue, future, ripe, move, caller, maxThreads,
                 disable, done, bounds>>

PollAgain == /\ owner = "poll" /\ Active # {}
             /\ owner' = "notify"
             /\ OwnerOnly

PollDone == /\ owner = "poll" /\ Active = {}
            /\ owner' = "clear"
            /\ OwnerOnly

\* The list is cleared: each entry's destructor waits for its thread, with
\* the pool locked.  Then the delayed entries are flushed.
Clear == /\ owner = "clear" /\ Active = {}
         /\ owner' = "flush"
         /\ move' = [move EXCEPT ![Owner].at = "find"]
         /\ UNCHANGED <<queue, future, ripe, worker, caller,
                        maxThreads, disable, done, bounds>>

\* The destructor of Pool: KillThreadWait for the threads the flush started.
Destroy == /\ owner = "destroy"
           /\ TellToEnd
           /\ owner' = "join"
           /\ UNCHANGED <<queue, future, ripe, move, caller,
                          maxThreads, disable, done, bounds>>

Destroyed == /\ owner = "join" /\ Active = {}
             /\ owner' = "gone"
             /\ OwnerOnly
-----------------------------------------------------------------------------
CallerNext(m) == Push(m) \/ SendDelayed(m) \/ Add(m)

WorkerNext(t) ==
  \/ Wake(t) \/ Leave(t) \/ Loop(t) \/ TakeNothing(t) \/ Take(t) \/ AddMore(t)
  \/ Processed(t) \/ SetIdle(t) \/ TestOver(t) \/ Housekeep(t)

MoveNext(p) == Find(p) \/ FindNone(p) \/ SendDue(p) \/ AddDue(p) \/ Drop(p)

TerminateNext == \/ Notify \/ PollAgain \/ PollDone \/ Clear \/ Destroy
                 \/ Destroyed

Next == \/ \E m \in Msg : CallerNext(m) \/ Ripen(m)
        \/ SetMaxThreads
        \/ \E t \in Thread : WorkerNext(t) \/ Refused(t)
        \/ \E p \in Mover : MoveNext(p)
        \/ Terminate \/ TerminateNext

Spec == Init /\ [][Next]_vars

\* Threads are scheduled, DoProcess returns, time passes.  Nothing makes the
\* owner terminate, a message be refused, or the limit change.
Fairness == /\ WF_vars(\E m \in Msg : Add(m))
            /\ WF_vars(\E m \in Msg : Ripen(m))
            /\ \A t \in Thread :
                 /\ WF_vars(WorkerNext(t) \/ MoveNext(t))
                 /\ SF_vars(Wake(t) /\ worker'[t].timeout)
            /\ WF_vars(TerminateNext \/ MoveNext(Owner))

FairSpec == Spec /\ Fairness
-----------------------------------------------------------------------------
(***************************************************************************)
(* Properties.                                                             *)
(***************************************************************************)
Entry == [item : Item, busy : BOOLEAN]

TypeOK ==
  /\ queue \in Seq(Entry)
  /\ future \in Seq(Delayed)
  /\ ripe \subseteq Delayed
  /\ worker \in [Thread -> [at : WorkerAt, exit : BOOLEAN,
                            item : Item \cup {NoItem}, max : Nat,
                            timeout : BOOLEAN]]
  /\ \A t \in Thread : worker[t].item # NoItem <=> t \in InUse
  /\ move \in [Mover -> [at : MoveAt, msg : Delayed \cup {NoItem}]]
  /\ caller \in [Msg -> {"new", "add", "sent"}]
  /\ owner \in {"run", "notify", "poll", "clear", "flush", "destroy", "join",
                "gone"}
  /\ maxThreads \in Nat
  /\ disable \in BOOLEAN
  /\ done \subseteq Item
  /\ refusals \in 0 .. Turns /\ changes \in 0 .. Turns

\* Messages that run at the same time are of one group, and one that is to
\* run alone does, whoever takes and ends in between (ThreadPool.h:142).
GroupsApart ==
  \A t, u \in InUse :
    t # u => Compatible(Group[worker[t].item[1]], Group[worker[u].item[1]])

\* The queue stays sorted by priority while callers insert and workers
\* remove: a message never overtakes one of a higher priority.
QueueSorted ==
  \A i, j \in DOMAIN queue :
    i < j => Priority[queue[i].item[1]] >= Priority[queue[j].item[1]]

\* Callers and workers that start threads at the same time never make them
\* more than the largest limit that was ever set.
ThreadsBounded ==
  \E n \in MaxChoices \cup {MaxThreads} : Cardinality(Active) <= n

\* As long as the limit is not changed, the threads that are idle never all
\* end: "don't go below this number" (ThreadPool.h:167).
KeepsMinimum ==
  (/\ owner = "run" /\ changes = 0
   /\ \E m \in Msg : caller[m] = "sent") => Cardinality(Running) >= MinThreads

\* The list of threads is cleared only when none of them runs any more, so
\* that no destructor waits, with the pool locked, for a thread that needs
\* that lock to end (SimpleWorkerThread.h:250).
ClearFindsNone == owner = "clear" => Active = {}

\* When WaitForWorkFinished returns, every message sent before the call,
\* delayed or not, was worked on.
FinishedMeansDone ==
  WaitForWorkFinished =>
    \A m \in Msg : caller[m] # "new" => \E p \in Mover : <<m, p>> \in done

\* Each entry of the queue is worked on by one worker at a time, until it is
\* done, and by none once Terminate has seen the workers end.
Bag == INSTANCE WorkBag WITH
  waiting <- {queue[i].item : i \in {j \in DOMAIN queue : ~queue[j].busy}},
  working <- {worker[t].item : t \in {u \in Thread :
                                        worker[u].at \in {"add", "process"}}},
  open <- owner \in {"run", "notify", "poll"}

KeepsContract == Bag!Spec

\* A message that was sent is worked on, unless the pool is terminated or its
\* limit was changed: no order of threads that end and messages that
\* come leaves it with nobody to take it.
Delivered ==
  \A m \in Msg : caller[m] = "add" ~>
    \/ \E p \in Mover : <<m, p>> \in done
    \/ owner # "run" \/ changes > 0

\* Whatever callers, workers and the owner do at the same time: groups stay
\* apart, the queue sorted, the threads between their two limits, and the list
\* of threads is cleared only when none runs.
PoolInv == /\ TypeOK
           /\ GroupsApart /\ QueueSorted
           /\ ThreadsBounded /\ KeepsMinimum /\ ClearFindsNone
=============================================================================
