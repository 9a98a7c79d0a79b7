------------------------------ MODULE PoolLocks ------------------------------
(***************************************************************************)
(* The locks of a thread pool: the one of the list of threads and the one  *)
(* of the queue of messages, as the functions of ThreadPool.h acquire and  *)
(* release them, with those of CSharedQueue they call.  Each thread makes  *)
(* one call.                                                               *)
(***************************************************************************)
EXTENDS RWLock

CONSTANTS Pool, MsgQueue,  \* the two locks
          Calls            \* the choices of a call for each thread

VARIABLES call,   \* the call of each thread, a place in Script
          pc      \* steps of it that are done

allVars == <<inst, shared, excl, call, pc>>
-----------------------------------------------------------------------------
\* A step of a call: a lock is acquired to read or to write, or the last
\* acquisition is released.
PR == [lock |-> Pool, write |-> FALSE]
PW == [lock |-> Pool, write |-> TRUE]
MR == [lock |-> MsgQueue, write |-> FALSE]
MW == [lock |-> MsgQueue, write |-> TRUE]
Out == [lock |-> "none", write |-> FALSE]

\* GetNumThreadsInternal: GetCount inside.
CountThreads == <<PR, MR, Out, Out>>

\* StartNewThread: the list grows (emplace_back, TriggerEvent), Link.
StartNewThread == <<PW, PW, PR, Out, Out, MW, Out, Out>>

\* CThreadWork::DoWork takes a message; SetInUse inside.
TakeMessage == <<PW, MW, PR, MW, Out, Out, Out, Out>>

\* ... and removes it: GetNumThreads, GetCount, TriggerEvent and empty inside.
RemoveMessage == <<PW>> \o CountThreads
                   \o <<MW, MR, Out, MR, Out, MR, Out, Out, Out>>

\* Housekeeping after a time-out: GetMinNumThreadsInternal inside.
Housekeeping == <<MR, Out, PW>> \o CountThreads \o <<MR, Out, Out>>

\* AddThreads: with a thread started for the minimum, and one more with both
\* locks held, after GetCount and front.
AddThreads == <<PW>> \o CountThreads \o <<MR, Out>> \o StartNewThread
                \o CountThreads \o <<MW, MR, Out, MW, Out>> \o StartNewThread
                \o <<Out, Out>>

\* Mutant: the queue is locked first.
UpdatePerfSwapped == <<MW, PR, MW, MR, Out, Out, MR, Out, Out, Out>>

\* UpdatePerf: push_front, TriggerEvent and GetCount inside.
UpdatePerf == <<PR, MW, MW, MR, Out, Out, MR, Out, Out, Out>>

\* TransferFutureQueue, without the message it sends.
TransferFuture == <<MR, Out, MW, Out>>

\* ExitInstance: Unlink, GetNumThreadsInternal.
ExitInstance == <<MW, Out>> \o CountThreads

\* SearchMessageKill, DumpQueue, and WaitForWorkFinished with its GetCount.
SearchMessageKill == <<PR, MW, MR, Out, Out, Out>>
DumpQueue == <<PR, MR, Out, Out>>
WaitForWork == <<MR, MR, Out, Out>>

Script == <<TakeMessage, RemoveMessage, Housekeeping, AddThreads, UpdatePerf,
            TransferFuture, ExitInstance, SearchMessageKill, DumpQueue,
            WaitForWork>>

CallInit == /\ Init
            /\ call \in Calls
            /\ pc = [t \in Thread |-> 0]

Finished(t) == pc[t] = Len(Script[call[t]])

\* The next step of the call of t.
Step(t) ==
  /\ ~Finished(t) /\ ~Waiting(t)
  /\ LET s == Script[call[t]][pc[t] + 1]
     IN  IF s = Out THEN Release(t) ELSE Acquire(t, s.lock, s.write)
  /\ pc' = [pc EXCEPT ![t] = @ + 1]
  /\ UNCHANGED call

\* The SRW lock may keep a reader behind a writer that waits.
LetIn(t) ==
  /\ Waiting(t)
  /\ Top(t).write \/ \A u \in Thread :
       ~(Waiting(u) /\ Top(u).lock = Top(t).lock /\ Top(u).write)
  /\ Enter(t)
  /\ UNCHANGED <<call, pc>>

CallNext == \E t \in Thread : Step(t) \/ LetIn(t)

\* A thread that can go on does; who is let in is the system's choice.
CallSpec == /\ CallInit
            /\ [][CallNext]_allVars
            /\ \A t \in Thread : WF_allVars(Step(t)) /\ WF_allVars(LetIn(t))
-----------------------------------------------------------------------------
\* The functions of the pool keep to the order and never ask to write a lock
\* they read: what CRWLock needs of them (CRWLock.cpp:175, ThreadPool.h:876).
KeepsDiscipline == [][Next]_vars

\* Every call returns: no set of threads waits for each other, though the
\* calls acquire the two locks again and again and a writer may come between.
CallsReturn == \A t \in Thread : <>Finished(t)
=============================================================================
