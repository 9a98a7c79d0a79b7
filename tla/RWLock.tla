------------------------------- MODULE RWLock --------------------------------
(***************************************************************************)
(* CRWLock and CRWLockAcquire (ECSUtil/CRWLock.cpp): a lock for readers    *)
(* and writers that a thread may acquire again while it holds it.  An      *)
(* acquisition is an object on the stack of its thread: its constructor    *)
(* locks, its destructor unlocks, so a thread's acquisitions are a stack.  *)
(* Only the first one on a lock acquires the SRW lock of the system.       *)
(***************************************************************************)
EXTENDS Naturals, Sequences

CONSTANTS Thread,
          Lock,      \* the CRWLock objects
          Rank,      \* the order in which a thread takes different locks
          MaxDepth   \* bound: acquisitions a thread has at a time

ASSUME LockAssumption == Rank \in [Lock -> Nat] /\ MaxDepth \in Nat

VARIABLES inst,      \* the CRWLockAcquire objects of each thread
          shared,    \* SRWLOCK: how often each thread holds it shared
          excl       \* SRWLOCK: the threads that hold it exclusively

vars == <<inst, shared, excl>>
-----------------------------------------------------------------------------
Instance == [lock : Lock, write : BOOLEAN, locked : BOOLEAN]

Init == /\ inst = [t \in Thread |-> << >>]
        /\ shared = [l \in Lock |-> [t \in Thread |-> 0]]
        /\ excl = [l \in Lock |-> {}]

Depth(t) == Len(inst[t])
Top(t) == inst[t][Depth(t)]
Waiting(t) == Depth(t) > 0 /\ ~Top(t).locked

\* The instances of t that have bLocked on lock l, and those with bWrite.
LockedAt(t, l) == {i \in 1 .. Depth(t) : /\ inst[t][i].lock = l
                                         /\ inst[t][i].locked}
Holds(t, l) == LockedAt(t, l) # {}
HoldsWrite(t, l) == \E i \in LockedAt(t, l) : inst[t][i].write

Push(t, l, w, b) ==
  inst' = [inst EXCEPT ![t] = Append(@, [lock |-> l, write |-> w, locked |-> b])]
Pop(t) == inst' = [inst EXCEPT ![t] = SubSeq(@, 1, Len(@) - 1)]

\* Mutant: an acquisition of another thread counts as the thread's own.
AcquireAnyThread(t, l, w) ==
  /\ ~Waiting(t) /\ Depth(t) < MaxDepth
  /\ Push(t, l, w, \E u \in Thread : Holds(u, l))
  /\ UNCHANGED <<shared, excl>>

\* Mutant: a writer that asks to write again is not recognized.
AcquireReadOnly(t, l, w) ==
  /\ ~Waiting(t) /\ Depth(t) < MaxDepth
  /\ Push(t, l, w, Holds(t, l) /\ ~w)
  /\ UNCHANGED <<shared, excl>>

\* The constructor and Lock: a lock the thread has already is only noted.  A
\* reader that asks to write falls through and waits for itself.
Acquire(t, l, w) ==
  /\ ~Waiting(t) /\ Depth(t) < MaxDepth
  /\ Push(t, l, w, Holds(t, l) /\ (w => HoldsWrite(t, l)))
  /\ UNCHANGED <<shared, excl>>

\* AcquireSRWLockExclusive and AcquireSRWLockShared let the thread in.
Granted(t) == inst' = [inst EXCEPT ![t][Depth(t)].locked = TRUE]

Enter(t) ==
  /\ Waiting(t)
  /\ LET l == Top(t).lock
     IN  /\ excl[l] = {}
         /\ IF Top(t).write
            THEN /\ \A u \in Thread : shared[l][u] = 0
                 /\ excl' = [excl EXCEPT ![l] = {t}]
                 /\ UNCHANGED shared
            ELSE /\ shared' = [shared EXCEPT ![l][t] = @ + 1]
                 /\ UNCHANGED excl
  /\ Granted(t)

ReleaseSRW(t, l, w) ==
  IF w THEN excl' = [excl EXCEPT ![l] = @ \ {t}] /\ UNCHANGED shared
       ELSE /\ shared' = [shared EXCEPT ![l][t] = @ - 1]
            /\ UNCHANGED excl

\* Unlock and the destructor: the SRW lock is released with the last
\* acquisition of the thread, in the mode of that one.
Release(t) ==
  /\ Depth(t) > 0 /\ ~Waiting(t)
  /\ IF LockedAt(t, Top(t).lock) = {Depth(t)}
     THEN ReleaseSRW(t, Top(t).lock, Top(t).write)
     ELSE UNCHANGED <<shared, excl>>
  /\ Pop(t)
-----------------------------------------------------------------------------
\* What a program that uses the locks must keep to: no reader asks to write,
\* and different locks are taken in one order ("always get the pool lock
\* first, then msg lock if you need both", ThreadPool.h:876).
Disciplined(t, l, w) ==
  /\ w => (Holds(t, l) => HoldsWrite(t, l))
  /\ Holds(t, l) \/ \A k \in Lock : Holds(t, k) => Rank[k] < Rank[l]

Next == \E t \in Thread :
  \/ \E l \in Lock, w \in BOOLEAN : Disciplined(t, l, w) /\ Acquire(t, l, w)
  \/ Enter(t)
  \/ Release(t)

Spec == Init /\ [][Next]_vars
-----------------------------------------------------------------------------
TypeOK == /\ inst \in [Thread -> Seq(Instance)]
          /\ shared \in [Lock -> [Thread -> Nat]]
          /\ excl \in [Lock -> SUBSET Thread]

\* A thread that holds a lock for writing is alone with it, however often
\* and in whichever order the threads acquire it again (CRWLock.cpp:119).
Exclusion ==
  \A t, u \in Thread, l \in Lock :
    t # u /\ HoldsWrite(t, l) => ~Holds(u, l)

\* The SRW lock is held once by each thread with an acquisition, in the mode
\* of its first one: Unlock never releases in another mode than was acquired.
LockAgrees ==
  \A t \in Thread, l \in Lock :
    /\ t \in excl[l] <=> HoldsWrite(t, l)
    /\ shared[l][t] = IF Holds(t, l) /\ ~HoldsWrite(t, l) THEN 1 ELSE 0

\* The records of the threads, the SRW lock and the exclusion they are for
\* agree (CRWLock.cpp:89-170).
LockInv == TypeOK /\ LockAgrees /\ Exclusion
=============================================================================
