----------------------------- MODULE RWLockProof -----------------------------
(***************************************************************************)
(* Theorems about RWLock, for any threads, locks and depth.  The inductive *)
(* invariant says how the acquisitions of a thread relate to what it holds *)
(* of the SRW lock: only the last one may wait, for a lock the thread does *)
(* not hold, and the first one on a lock has the mode the lock is held in. *)
(***************************************************************************)
EXTENDS RWLock, SequenceTheorems, TLAPS

\* Only the last acquisition may wait, and not for a lock the thread has.
LastWaits ==
  \A t \in Thread :
    /\ \A i \in 1 .. Depth(t) : i < Depth(t) => inst[t][i].locked
    /\ Waiting(t) => ~Holds(t, Top(t).lock)

\* The first acquisition on a lock is a writer if any is.
FirstDecides ==
  \A t \in Thread, l \in Lock :
    HoldsWrite(t, l) =>
      \E j \in LockedAt(t, l) :
        inst[t][j].write /\ \A i \in LockedAt(t, l) : j <= i

\* What the SRW lock itself guarantees.
SRWExclusive ==
  \A l \in Lock : \A t \in excl[l] :
    /\ \A u \in excl[l] : u = t
    /\ \A u \in Thread : shared[l][u] = 0

IInv == TypeOK /\ LastWaits /\ FirstDecides /\ LockAgrees /\ SRWExclusive

\* No lock is held at the start.
LEMMA InitCorrect == Init => IInv
<1> SUFFICES ASSUME Init PROVE IInv
  OBVIOUS
<1>1. TypeOK
  BY DEF Init, TypeOK
<1>2. \A t \in Thread : Depth(t) = 0
  BY DEF Init, Depth
<1>3. \A t \in Thread, l \in Lock : LockedAt(t, l) = {}
  <2> SUFFICES ASSUME NEW t \in Thread, NEW l \in Lock PROVE LockedAt(t, l) = {}
    OBVIOUS
  <2>1. 1 .. Depth(t) = {}
    BY <1>2
  <2>2. QED
    BY <2>1 DEF LockedAt
<1>4. LastWaits
  <2> SUFFICES ASSUME NEW t \in Thread
               PROVE  /\ \A i \in 1 .. Depth(t) : i < Depth(t) => inst[t][i].locked
                      /\ ~Waiting(t)
    BY DEF LastWaits
  <2>1. Depth(t) = 0
    BY <1>2
  <2>2. QED
    BY <2>1 DEF Waiting
<1>5. FirstDecides /\ LockAgrees /\ SRWExclusive
  BY <1>3 DEF Init, FirstDecides, LockAgrees, SRWExclusive, Holds, HoldsWrite
<1>6. QED
  BY <1>1, <1>4, <1>5 DEF IInv

\* Another thread's acquisitions stay as they are.
LEMMA OthersKeep ==
  ASSUME TypeOK, NEW t \in Thread, NEW s,
         inst' = [inst EXCEPT ![t] = s],
         NEW u \in Thread, u # t, NEW l \in Lock
  PROVE  /\ inst'[u] = inst[u] /\ Depth(u)' = Depth(u)
         /\ Waiting(u)' = Waiting(u) /\ Top(u)' = Top(u)
         /\ LockedAt(u, l)' = LockedAt(u, l)
         /\ Holds(u, l)' = Holds(u, l) /\ HoldsWrite(u, l)' = HoldsWrite(u, l)
<1>1. inst'[u] = inst[u]
  BY DEF TypeOK
<1>2. Depth(u)' = Depth(u) /\ Top(u)' = Top(u)
  BY <1>1 DEF Depth, Top
<1>3. LockedAt(u, l)' = LockedAt(u, l)
  BY <1>1, <1>2 DEF LockedAt
<1>4. QED
  BY <1>1, <1>2, <1>3 DEF Waiting, Holds, HoldsWrite

\* An acquisition is noted, or waits.
LEMMA AcquireCorrect ==
  ASSUME IInv, NEW t \in Thread, NEW l \in Lock, NEW w \in BOOLEAN,
         Disciplined(t, l, w), Acquire(t, l, w)
  PROVE  IInv'
<1> DEFINE b == Holds(t, l)
<1> DEFINE e == [lock |-> l, write |-> w, locked |-> b]
<1>1. (Holds(t, l) /\ (w => HoldsWrite(t, l))) = b
  BY DEF Disciplined, HoldsWrite, Holds
<1>2. /\ inst' = [inst EXCEPT ![t] = Append(inst[t], e)]
      /\ UNCHANGED <<shared, excl>> /\ ~Waiting(t)
  BY <1>1 DEF Acquire, Push
<1>3. inst[t] \in Seq(Instance) /\ e \in Instance
  BY DEF IInv, TypeOK, Instance, Holds
<1>a. inst'[t] = Append(inst[t], e)
  BY <1>2 DEF IInv, TypeOK
<1>4. /\ Depth(t)' = Depth(t) + 1 /\ Depth(t) \in Nat
      /\ inst'[t][Depth(t) + 1] = e
      /\ \A i \in 1 .. Depth(t) : inst'[t][i] = inst[t][i]
  BY <1>a, <1>3, AppendProperties DEF Depth
<1>5. TypeOK'
  <2>1. Append(inst[t], e) \in Seq(Instance)
    BY <1>3, AppendProperties
  <2>2. QED
    BY <1>2, <2>1 DEF IInv, TypeOK
<1>6. \A i \in 1 .. Depth(t) : inst[t][i].locked
  BY <1>2, <1>4 DEF IInv, LastWaits, Waiting, Top
<1>7. \A k \in Lock : LockedAt(t, k)' =
        LockedAt(t, k) \cup (IF k = l /\ b THEN {Depth(t) + 1} ELSE {})
  <2> SUFFICES ASSUME NEW k \in Lock, NEW i
               PROVE  i \in LockedAt(t, k)' <=>
                        \/ i \in LockedAt(t, k)
                        \/ i = Depth(t) + 1 /\ k = l /\ b
    OBVIOUS
  <2>1. i \in 1 .. Depth(t)' <=> i \in 1 .. Depth(t) \/ i = Depth(t) + 1
    BY <1>4
  <2>2. CASE i \in 1 .. Depth(t)
    <3>1. inst'[t][i] = inst[t][i] /\ i # Depth(t) + 1
      BY <1>4, <2>2
    <3>2. QED
      BY <2>1, <2>2, <3>1 DEF LockedAt
  <2>3. CASE i = Depth(t) + 1
    <3>1. inst'[t][i].lock = l /\ inst'[t][i].locked = b
      BY <1>4, <2>3
    <3>2. i \notin 1 .. Depth(t)
      BY <1>4, <2>3
    <3>3. QED
      BY <2>1, <2>3, <3>1, <3>2 DEF LockedAt
  <2>4. CASE i \notin 1 .. Depth(t)'
    BY <2>1, <2>4 DEF LockedAt
  <2>5. QED
    BY <2>1, <2>2, <2>3, <2>4
<1>8. \A k \in Lock : Holds(t, k)' = Holds(t, k)
  BY <1>7 DEF Holds
<1>9. \A k \in Lock : HoldsWrite(t, k)' = HoldsWrite(t, k)
  <2> SUFFICES ASSUME NEW k \in Lock PROVE HoldsWrite(t, k)' = HoldsWrite(t, k)
    OBVIOUS
  <2>1. \A i \in LockedAt(t, k) : i \in 1 .. Depth(t)
    BY DEF LockedAt
  <2>2. CASE k = l /\ b
    <3>1. w => HoldsWrite(t, l)
      BY <2>2 DEF Disciplined
    <3>2. LockedAt(t, l)' = LockedAt(t, l) \cup {Depth(t) + 1}
      BY <1>7, <2>2
    <3>3. \A i \in LockedAt(t, l) : inst'[t][i].write = inst[t][i].write
      BY <1>4, <2>1, <2>2
    <3>4. inst'[t][Depth(t) + 1].write = w
      BY <1>4
    <3>5. QED
      BY <2>2, <3>1, <3>2, <3>3, <3>4 DEF HoldsWrite
  <2>3. CASE ~(k = l /\ b)
    BY <1>4, <1>7, <2>1, <2>3 DEF HoldsWrite
  <2>4. QED
    BY <2>2, <2>3
<1>10. LastWaits'
  <2> SUFFICES ASSUME NEW u \in Thread
               PROVE  /\ \A i \in 1 .. Depth(u)' : i < Depth(u)' => inst'[u][i].locked
                      /\ Waiting(u)' => ~Holds(u, Top(u).lock)'
    BY DEF LastWaits
  <2>1. CASE u = t
    <3>1. \A i \in 1 .. Depth(t)' : i < Depth(t)' => inst'[t][i].locked
      BY <1>4, <1>6
    <3>2. Top(t)' = e
      BY <1>4 DEF Top
    <3>3. QED
      BY <1>8, <2>1, <3>1, <3>2 DEF Waiting
  <2>2. CASE u # t
    <3>1. inst'[u] = inst[u] /\ Depth(u)' = Depth(u) /\ Top(u)' = Top(u) /\ Waiting(u)' = Waiting(u)
      BY <1>2, <2>2 DEF IInv, TypeOK, Depth, Top, Waiting
    <3>2. Holds(u, Top(u).lock)' = Holds(u, Top(u).lock)
      BY <3>1 DEF Holds, LockedAt
    <3>3. QED
      BY <3>1, <3>2 DEF IInv, LastWaits
  <2>3. QED
    BY <2>1, <2>2
<1>11. FirstDecides'
  <2> SUFFICES ASSUME NEW u \in Thread, NEW k \in Lock, HoldsWrite(u, k)'
               PROVE  \E j \in LockedAt(u, k)' :
                        inst'[u][j].write /\ \A i \in LockedAt(u, k)' : j <= i
    BY DEF FirstDecides
  <2>1. CASE u # t
    <3>1. /\ LockedAt(u, k)' = LockedAt(u, k) /\ inst'[u] = inst[u]
          /\ HoldsWrite(u, k)' = HoldsWrite(u, k)
      BY <1>2, <2>1, OthersKeep DEF IInv
    <3>2. QED
      BY <3>1 DEF IInv, FirstDecides
  <2>2. CASE u = t
    <3>1. PICK j \in LockedAt(t, k) :
            inst[t][j].write /\ \A i \in LockedAt(t, k) : j <= i
      BY <1>9, <2>2 DEF IInv, FirstDecides
    <3>2. j \in 1 .. Depth(t) /\ j <= Depth(t) + 1
      BY <1>4 DEF LockedAt
    <3>3. inst'[t][j].write /\ j \in LockedAt(t, k)'
      BY <1>4, <1>7, <3>1, <3>2
    <3>4. \A i \in LockedAt(t, k)' : j <= i
      BY <1>7, <3>1, <3>2
    <3>5. QED
      BY <2>2, <3>3, <3>4
  <2>3. QED
    BY <2>1, <2>2
<1>12. LockAgrees' /\ SRWExclusive'
  <2>1. \A u \in Thread, k \in Lock :
          Holds(u, k)' = Holds(u, k) /\ HoldsWrite(u, k)' = HoldsWrite(u, k)
    BY <1>2, <1>8, <1>9, OthersKeep DEF IInv
  <2>2. QED
    BY <1>2, <2>1 DEF IInv, LockAgrees, SRWExclusive
<1>13. QED
  BY <1>5, <1>10, <1>11, <1>12 DEF IInv

\* The SRW lock lets a thread in.
LEMMA EnterCorrect ==
  ASSUME IInv, NEW t \in Thread, Enter(t)
  PROVE  IInv'
<1>0. PICK n, l, w, e :
        /\ n = Depth(t) /\ l = Top(t).lock /\ w = Top(t).write
        /\ e = [Top(t) EXCEPT !.locked = TRUE]
  OBVIOUS
<1>1. inst[t] \in Seq(Instance) /\ n \in Nat /\ n > 0 /\ n \in 1 .. n /\ ~Top(t).locked
  BY <1>0 DEF IInv, TypeOK, Enter, Waiting, Depth
<1>2. Top(t) \in Instance /\ l \in Lock /\ w \in BOOLEAN
  <2>1. Top(t) \in Instance
    BY <1>0, <1>1, ElementOfSeq DEF Top, Depth
  <2>2. QED
    BY <1>0, <2>1 DEF Instance
<1>3. e \in Instance /\ e.lock = l /\ e.write = w /\ e.locked
  BY <1>0, <1>2 DEF Instance
<1>4. inst' = [inst EXCEPT ![t] = [inst[t] EXCEPT ![n] = e]]
  BY <1>0 DEF Enter, Granted, Top
<1>5. inst'[t] = [inst[t] EXCEPT ![n] = e]
  BY <1>4 DEF IInv, TypeOK
<1>6. inst'[t] \in Seq(Instance) /\ Len(inst'[t]) = n
  BY <1>0, <1>1, <1>3, <1>5 DEF Depth
<1>7. Depth(t)' = n /\ inst'[t][n] = e /\ \A i \in 1 .. n : i # n => inst'[t][i] = inst[t][i]
  BY <1>1, <1>5, <1>6 DEF Depth
<1>8. ~Holds(t, l) /\ LockedAt(t, l) = {}
  BY <1>0 DEF IInv, LastWaits, Enter, Holds
<1>9. \A k \in Lock : LockedAt(t, k)' = IF k = l THEN {n} ELSE LockedAt(t, k)
  <2> SUFFICES ASSUME NEW k \in Lock, NEW i
               PROVE  i \in LockedAt(t, k)' <=>
                        IF k = l THEN i = n ELSE i \in LockedAt(t, k)
    OBVIOUS
  <2>1. CASE i \in 1 .. n /\ i # n
    BY <1>0, <1>7, <1>8, <2>1 DEF LockedAt
  <2>2. CASE i = n
    <3>1. i \in LockedAt(t, k)' <=> k = l
      BY <1>1, <1>3, <1>7, <2>2 DEF LockedAt
    <3>2. n \notin LockedAt(t, k)
      BY <1>0, <1>1 DEF LockedAt, Top
    <3>3. QED
      BY <2>2, <3>1, <3>2
  <2>3. CASE i \notin 1 .. n
    BY <1>0, <1>1, <1>7, <2>3 DEF LockedAt
  <2>4. QED
    BY <2>1, <2>2, <2>3
<1>10. \A k \in Lock : Holds(t, k)' = (k = l \/ Holds(t, k))
  BY <1>8, <1>9 DEF Holds
<1>11. \A k \in Lock : HoldsWrite(t, k)' <=> IF k = l THEN w ELSE HoldsWrite(t, k)
  <2> SUFFICES ASSUME NEW k \in Lock
               PROVE  HoldsWrite(t, k)' <=> IF k = l THEN w ELSE HoldsWrite(t, k)
    OBVIOUS
  <2>1. CASE k = l
    <3>1. LockedAt(t, l)' = {n} /\ inst'[t][n].write = w
      BY <1>2, <1>3, <1>7, <1>9
    <3>2. HoldsWrite(t, l)' <=> \E i \in LockedAt(t, l)' : inst'[t][i].write
      BY DEF HoldsWrite
    <3>3. HoldsWrite(t, l)' <=> w
      BY <3>1, <3>2
    <3>4. QED
      BY <2>1, <3>3
  <2>2. CASE k # l
    <3>1. \A i \in LockedAt(t, k) : i \in 1 .. n /\ i # n
      BY <1>0, <1>1 DEF LockedAt, Top
    <3>2. QED
      BY <1>7, <1>9, <2>2, <3>1 DEF HoldsWrite
  <2>3. QED
    BY <2>1, <2>2
<1>12. TypeOK'
  <2>1. inst' \in [Thread -> Seq(Instance)]
    BY <1>4, <1>5, <1>6 DEF IInv, TypeOK
  <2>2. shared' \in [Lock -> [Thread -> Nat]] /\ excl' \in [Lock -> SUBSET Thread]
    <3>1. shared[l] \in [Thread -> Nat] /\ excl \in [Lock -> SUBSET Thread]
      BY <1>2 DEF IInv, TypeOK
    <3>2. CASE w
      <4>1. excl' = [excl EXCEPT ![l] = {t}] /\ shared' = shared
        BY <1>0, <3>2 DEF Enter
      <4>2. QED
        BY <4>1 DEF IInv, TypeOK
    <3>3. CASE ~w
      <4>1. /\ shared' = [shared EXCEPT ![l] = [shared[l] EXCEPT ![t] = shared[l][t] + 1]]
            /\ excl' = excl
        BY <1>0, <3>3 DEF Enter
      <4>2. [shared[l] EXCEPT ![t] = shared[l][t] + 1] \in [Thread -> Nat]
        BY <3>1
      <4>3. QED
        BY <4>1, <4>2 DEF IInv, TypeOK
    <3>4. QED
      BY <3>2, <3>3
  <2>3. QED
    BY <2>1, <2>2 DEF TypeOK
<1>13. LastWaits'
  <2> SUFFICES ASSUME NEW u \in Thread
               PROVE  /\ \A i \in 1 .. Depth(u)' : i < Depth(u)' => inst'[u][i].locked
                      /\ Waiting(u)' => ~Holds(u, Top(u).lock)'
    BY DEF LastWaits
  <2>1. CASE u = t
    <3>1. \A i \in 1 .. n : i < n => inst'[t][i].locked
      BY <1>0, <1>1, <1>7 DEF IInv, LastWaits
    <3>2. ~Waiting(t)'
      BY <1>3, <1>7 DEF Waiting, Top
    <3>3. QED
      BY <1>7, <2>1, <3>1, <3>2
  <2>2. CASE u # t
    <3>1. inst'[u] = inst[u] /\ Depth(u)' = Depth(u) /\ Top(u)' = Top(u) /\ Waiting(u)' = Waiting(u)
      BY <1>4, <2>2 DEF IInv, TypeOK, Depth, Top, Waiting
    <3>2. Holds(u, Top(u).lock)' = Holds(u, Top(u).lock)
      BY <3>1 DEF Holds, LockedAt
    <3>3. QED
      BY <3>1, <3>2 DEF IInv, LastWaits
  <2>3. QED
    BY <2>1, <2>2
<1>14. FirstDecides'
  <2> SUFFICES ASSUME NEW u \in Thread, NEW k \in Lock, HoldsWrite(u, k)'
               PROVE  \E j \in LockedAt(u, k)' :
                        inst'[u][j].write /\ \A i \in LockedAt(u, k)' : j <= i
    BY DEF FirstDecides
  <2>1. CASE u # t
    <3>1. /\ LockedAt(u, k)' = LockedAt(u, k) /\ inst'[u] = inst[u]
          /\ HoldsWrite(u, k)' = HoldsWrite(u, k)
      BY <1>4, <2>1, OthersKeep DEF IInv
    <3>2. QED
      BY <3>1 DEF IInv, FirstDecides
  <2>2. CASE u = t /\ k = l
    <3>1. LockedAt(t, l)' = {n} /\ inst'[t][n].write = w /\ w
      BY <1>2, <1>3, <1>7, <1>9, <1>11, <2>2
    <3>2. n \in LockedAt(t, l)' /\ inst'[t][n].write /\ \A i \in LockedAt(t, l)' : n <= i
      BY <1>1, <3>1
    <3>3. QED
      BY <2>2, <3>2
  <2>3. CASE u = t /\ k # l
    <3>1. \A i \in LockedAt(t, k) : i \in 1 .. n /\ i # n
      BY <1>0, <1>1 DEF LockedAt, Top
    <3>2. QED
      BY <1>7, <1>9, <1>11, <2>3, <3>1 DEF IInv, FirstDecides
  <2>4. QED
    BY <2>1, <2>2, <2>3
<1>15. ASSUME NEW u \in Thread, NEW k \in Lock
       PROVE  /\ Holds(u, k)' <=> ((u = t /\ k = l) \/ Holds(u, k))
              /\ HoldsWrite(u, k)' <=> IF u = t /\ k = l THEN w ELSE HoldsWrite(u, k)
  <2>1. CASE u = t
    BY <1>10, <1>11, <2>1
  <2>2. CASE u # t
    <3>1. TypeOK
      BY DEF IInv
    <3>2. Holds(u, k)' = Holds(u, k) /\ HoldsWrite(u, k)' = HoldsWrite(u, k)
      BY <1>4, <2>2, <3>1, OthersKeep
    <3>3. QED
      BY <2>2, <3>2
  <2>3. QED
    BY <2>1, <2>2
<1>16. LockAgrees' /\ SRWExclusive'
  <2>1. excl[l] = {} /\ ~HoldsWrite(t, l) /\ shared[l][t] = 0
    BY <1>0, <1>2, <1>8 DEF Enter, IInv, LockAgrees, HoldsWrite
  <2>2. CASE w
    <3>1. /\ \A u \in Thread : shared[l][u] = 0
          /\ excl' = [excl EXCEPT ![l] = {t}] /\ shared' = shared
      BY <1>0, <2>2 DEF Enter
    <3>2. \A u \in Thread : ~HoldsWrite(u, l) /\ ~Holds(u, l)
      BY <1>2, <2>1, <3>1 DEF IInv, LockAgrees
    <3>3. LockAgrees'
      <4> SUFFICES ASSUME NEW u \in Thread, NEW k \in Lock
                   PROVE  /\ u \in excl'[k] <=> HoldsWrite(u, k)'
                          /\ shared'[k][u] =
                               IF Holds(u, k)' /\ ~HoldsWrite(u, k)' THEN 1 ELSE 0
        BY DEF LockAgrees
      <4>1. CASE k = l
        <5>1. excl'[l] = {t} /\ shared'[l][u] = 0
          BY <1>2, <3>1 DEF IInv, TypeOK
        <5>2. (HoldsWrite(u, l)' <=> u = t) /\ (Holds(u, l)' <=> u = t)
          BY <1>2, <1>15, <2>2, <3>2
        <5>3. QED
          BY <4>1, <5>1, <5>2
      <4>2. CASE k # l
        BY <1>2, <1>15, <3>1, <4>2 DEF IInv, TypeOK, LockAgrees
      <4>3. QED
        BY <4>1, <4>2
    <3>4. SRWExclusive'
      BY <1>2, <3>1 DEF IInv, TypeOK, SRWExclusive
    <3>5. QED
      BY <3>3, <3>4
  <2>3. CASE ~w
    <3>1. shared' = [shared EXCEPT ![l][t] = shared[l][t] + 1] /\ excl' = excl
      BY <1>0, <2>3 DEF Enter
    <3>2. LockAgrees'
      <4> SUFFICES ASSUME NEW u \in Thread, NEW k \in Lock
                   PROVE  /\ u \in excl'[k] <=> HoldsWrite(u, k)'
                          /\ shared'[k][u] =
                               IF Holds(u, k)' /\ ~HoldsWrite(u, k)' THEN 1 ELSE 0
        BY DEF LockAgrees
      <4>1. CASE k = l /\ u = t
        <5>1. shared'[l][t] = 1 /\ t \notin excl'[l]
          BY <1>2, <2>1, <3>1 DEF IInv, TypeOK
        <5>2. HoldsWrite(t, l)' = FALSE /\ Holds(t, l)' = TRUE
          BY <1>2, <1>15, <2>3
        <5>3. QED
          BY <4>1, <5>1, <5>2
      <4>2. CASE ~(k = l /\ u = t)
        <5>1. shared'[k][u] = shared[k][u] /\ excl'[k] = excl[k]
          BY <1>2, <3>1, <4>2 DEF IInv, TypeOK
        <5>2. HoldsWrite(u, k)' = HoldsWrite(u, k) /\ Holds(u, k)' = Holds(u, k)
          BY <1>15, <4>2 DEF Holds, HoldsWrite
        <5>3. QED
          BY <5>1, <5>2 DEF IInv, LockAgrees
      <4>3. QED
        BY <4>1, <4>2
    <3>3. SRWExclusive'
      BY <1>2, <2>1, <3>1 DEF IInv, TypeOK, SRWExclusive
    <3>4. QED
      BY <3>2, <3>3
  <2>4. QED
    BY <2>2, <2>3
<1>17. QED
  BY <1>12, <1>13, <1>14, <1>16 DEF IInv
\* The last acquisition of a thread is undone.
LEMMA ReleaseCorrect ==
  ASSUME IInv, NEW t \in Thread, Release(t)
  PROVE  IInv'
<1>0. PICK n, l, w : n = Depth(t) /\ l = Top(t).lock /\ w = Top(t).write
  OBVIOUS
<1>1. inst[t] \in Seq(Instance) /\ n = Len(inst[t]) /\ n \in Nat /\ n > 0 /\ n \in 1 .. n
  BY <1>0 DEF IInv, TypeOK, Release, Depth
<1>2. Top(t) = inst[t][n] /\ Top(t) \in Instance /\ l \in Lock /\ w \in BOOLEAN
  <2>1. Top(t) = inst[t][n] /\ Top(t) \in Instance
    BY <1>0, <1>1, ElementOfSeq DEF Top
  <2>2. QED
    BY <1>0, <2>1 DEF Instance
<1>3. \A i \in 1 .. n : inst[t][i].locked
  <2>1. inst[t][n].locked
    BY <1>0, <1>1 DEF Release, Waiting, Top
  <2>2. \A i \in 1 .. n : i < n => inst[t][i].locked
    BY <1>0 DEF IInv, LastWaits
  <2>3. \A i \in 1 .. n : i = n \/ i < n
    BY <1>1
  <2>4. QED
    BY <2>1, <2>2, <2>3
<1>4. inst' = [inst EXCEPT ![t] = SubSeq(inst[t], 1, n - 1)]
  BY <1>0, <1>1 DEF Release, Pop
<1>5. inst'[t] = SubSeq(inst[t], 1, n - 1)
  BY <1>4 DEF IInv, TypeOK
<1>6. /\ SubSeq(inst[t], 1, n - 1) \in Seq(Instance)
      /\ Len(SubSeq(inst[t], 1, n - 1)) = n - 1
      /\ \A i \in 1 .. n - 1 : SubSeq(inst[t], 1, n - 1)[i] = inst[t][i]
  <2>1. \A i \in 1 .. n - 1 : i \in 1 .. Len(inst[t]) /\ 1 + i - 1 = i
    BY <1>1
  <2>2. 1 \in 1 .. Len(inst[t]) + 1 /\ n - 1 \in 1 - 1 .. Len(inst[t])
    BY <1>1
  <2>3. QED
    BY <1>1, <2>1, <2>2, SubSeqProperties
<1>7. Depth(t)' = n - 1 /\ \A i \in 1 .. n - 1 : inst'[t][i] = inst[t][i]
  BY <1>5, <1>6 DEF Depth
<1>8. \A k \in Lock : LockedAt(t, k)' = LockedAt(t, k) \ {n}
  <2> SUFFICES ASSUME NEW k \in Lock, NEW i
               PROVE  i \in LockedAt(t, k)' <=> i \in LockedAt(t, k) /\ i # n
    OBVIOUS
  <2>1. i \in 1 .. n - 1 <=> i \in 1 .. n /\ i # n
    BY <1>1
  <2>2. i \in LockedAt(t, k) <=>
          i \in 1 .. n /\ inst[t][i].lock = k /\ inst[t][i].locked
    BY <1>0 DEF LockedAt
  <2>3. i \in LockedAt(t, k)' <=>
          i \in 1 .. n - 1 /\ inst'[t][i].lock = k /\ inst'[t][i].locked
    BY <1>7 DEF LockedAt
  <2>4. QED
    BY <1>7, <2>1, <2>2, <2>3
<1>9. \A k \in Lock : n \in LockedAt(t, k) <=> k = l
  BY <1>0, <1>1, <1>2, <1>3 DEF LockedAt
<1>10. \A k \in Lock : Holds(t, k)' <=> Holds(t, k) /\ LockedAt(t, k) # {n}
  BY <1>8 DEF Holds
<1>11. \A k \in Lock : \A i \in LockedAt(t, k) \ {n} : inst'[t][i] = inst[t][i]
  <2>1. \A k \in Lock : \A i \in LockedAt(t, k) \ {n} : i \in 1 .. n - 1
    BY <1>0, <1>1 DEF LockedAt
  <2>2. QED
    BY <1>7, <2>1
<1>12. \A k \in Lock : \A i \in LockedAt(t, k) : i \in Nat /\ i <= n
  BY <1>0, <1>1 DEF LockedAt
<1>13. ASSUME NEW k \in Lock, HoldsWrite(t, k), LockedAt(t, k) # {n}
       PROVE  \E j \in LockedAt(t, k)' :
                inst'[t][j].write /\ \A i \in LockedAt(t, k)' : j <= i
  <2>1. PICK j \in LockedAt(t, k) :
          inst[t][j].write /\ \A i \in LockedAt(t, k) : j <= i
    BY <1>13 DEF IInv, FirstDecides
  <2>2. j # n
    <3> SUFFICES ASSUME j = n PROVE LockedAt(t, k) = {n}
      BY <1>13
    <3>1. \A i \in LockedAt(t, k) : i = n
      BY <1>1, <1>12, <2>1
    <3>2. QED
      BY <2>1, <3>1
  <2>3. QED
    BY <1>8, <1>11, <2>1, <2>2
<1>14. \A k \in Lock : HoldsWrite(t, k)' <=> HoldsWrite(t, k) /\ LockedAt(t, k) # {n}
  <2> SUFFICES ASSUME NEW k \in Lock
               PROVE  HoldsWrite(t, k)' <=> HoldsWrite(t, k) /\ LockedAt(t, k) # {n}
    OBVIOUS
  <2>1. ASSUME HoldsWrite(t, k)' PROVE HoldsWrite(t, k) /\ LockedAt(t, k) # {n}
    <3>1. PICK i \in LockedAt(t, k)' : inst'[t][i].write
      BY <2>1 DEF HoldsWrite
    <3>2. i \in LockedAt(t, k) /\ i # n
      BY <1>8
    <3>3. inst[t][i].write
      BY <1>11, <3>1, <3>2
    <3>4. QED
      BY <3>2, <3>3 DEF HoldsWrite
  <2>2. ASSUME HoldsWrite(t, k), LockedAt(t, k) # {n} PROVE HoldsWrite(t, k)'
    BY <1>13, <2>2 DEF HoldsWrite
  <2>3. QED
    BY <2>1, <2>2
<1>15. ASSUME NEW u \in Thread, NEW k \in Lock
       PROVE  /\ Holds(u, k)' <=>
                   Holds(u, k) /\ ~(u = t /\ k = l /\ LockedAt(t, l) = {n})
              /\ HoldsWrite(u, k)' <=>
                   HoldsWrite(u, k) /\ ~(u = t /\ k = l /\ LockedAt(t, l) = {n})
  <2>1. CASE u = t
    <3>1. LockedAt(t, k) = {n} => k = l
      BY <1>9
    <3>2. QED
      BY <1>10, <1>14, <2>1, <3>1
  <2>2. CASE u # t
    <3>1. TypeOK
      BY DEF IInv
    <3>2. Holds(u, k)' = Holds(u, k) /\ HoldsWrite(u, k)' = HoldsWrite(u, k)
      BY <1>4, <2>2, <3>1, OthersKeep
    <3>3. QED
      BY <2>2, <3>2
  <2>3. QED
    BY <2>1, <2>2
<1>16. ASSUME LockedAt(t, l) = {n}
       PROVE  Holds(t, l) /\ (HoldsWrite(t, l) <=> w)
  <2>1. inst[t][n].write = w
    BY <1>0, <1>2
  <2>2. QED
    BY <1>16, <2>1 DEF Holds, HoldsWrite
<1>17. LastWaits'
  <2> SUFFICES ASSUME NEW u \in Thread
               PROVE  /\ \A i \in 1 .. Depth(u)' : i < Depth(u)' => inst'[u][i].locked
                      /\ Waiting(u)' => ~Holds(u, Top(u).lock)'
    BY DEF LastWaits
  <2>1. CASE u = t
    <3>1. \A i \in 1 .. Depth(t)' : i \in 1 .. n - 1 /\ i \in 1 .. n
      BY <1>1, <1>7
    <3>2. \A i \in 1 .. Depth(t)' : inst'[t][i].locked
      BY <1>3, <1>7, <3>1
    <3>3. Depth(t)' > 0 => Depth(t)' \in 1 .. Depth(t)'
      BY <1>1, <1>7
    <3>4. ~Waiting(t)'
      BY <3>2, <3>3 DEF Waiting, Top
    <3>5. QED
      BY <2>1, <3>2, <3>4
  <2>2. CASE u # t
    <3>1. inst'[u] = inst[u] /\ Depth(u)' = Depth(u) /\ Top(u)' = Top(u) /\ Waiting(u)' = Waiting(u)
      BY <1>4, <2>2 DEF IInv, TypeOK, Depth, Top, Waiting
    <3>2. Holds(u, Top(u).lock)' = Holds(u, Top(u).lock)
      BY <3>1 DEF Holds, LockedAt
    <3>3. QED
      BY <3>1, <3>2 DEF IInv, LastWaits
  <2>3. QED
    BY <2>1, <2>2
<1>18. FirstDecides'
  <2> SUFFICES ASSUME NEW u \in Thread, NEW k \in Lock, HoldsWrite(u, k)'
               PROVE  \E j \in LockedAt(u, k)' :
                        inst'[u][j].write /\ \A i \in LockedAt(u, k)' : j <= i
    BY DEF FirstDecides
  <2>1. CASE u # t
    <3>1. TypeOK
      BY DEF IInv
    <3>2. /\ LockedAt(u, k)' = LockedAt(u, k) /\ inst'[u] = inst[u]
          /\ HoldsWrite(u, k)' = HoldsWrite(u, k)
      BY <1>4, <2>1, <3>1, OthersKeep
    <3>3. QED
      BY <3>2 DEF IInv, FirstDecides
  <2>2. CASE u = t
    <3>1. HoldsWrite(t, k) /\ LockedAt(t, k) # {n}
      BY <1>14, <2>2
    <3>2. QED
      BY <1>13, <2>2, <3>1
  <2>3. QED
    BY <2>1, <2>2
<1> DEFINE SRWOk == /\ shared \in [Lock -> [Thread -> Nat]]
                    /\ excl \in [Lock -> SUBSET Thread]
                    /\ LockAgrees /\ SRWExclusive
<1>19. ASSUME LockedAt(t, l) = {n} /\ w PROVE SRWOk'
  <2>1. excl' = [excl EXCEPT ![l] = excl[l] \ {t}] /\ shared' = shared
    BY <1>0, <1>19 DEF Release, ReleaseSRW
  <2>2. /\ \A u \in Thread, k \in Lock :
             u \in excl'[k] <=> u \in excl[k] /\ ~(u = t /\ k = l)
        /\ \A k \in Lock : excl'[k] \subseteq excl[k]
    BY <1>2, <2>1 DEF IInv, TypeOK
  <2>3. excl' \in [Lock -> SUBSET Thread] /\ shared' \in [Lock -> [Thread -> Nat]]
    BY <1>2, <2>1 DEF IInv, TypeOK
  <2>4. shared[l][t] = 0
    BY <1>2, <1>16, <1>19 DEF IInv, LockAgrees
  <2>5. LockAgrees'
    <3> SUFFICES ASSUME NEW u \in Thread, NEW k \in Lock
                 PROVE  /\ u \in excl'[k] <=> HoldsWrite(u, k)'
                        /\ shared'[k][u] =
                             IF Holds(u, k)' /\ ~HoldsWrite(u, k)' THEN 1 ELSE 0
      BY DEF LockAgrees
    <3>1. u \in excl[k] <=> HoldsWrite(u, k)
      BY DEF IInv, LockAgrees
    <3>2. u \in excl'[k] <=> HoldsWrite(u, k)'
      BY <1>15, <1>19, <2>2, <3>1
    <3>3. CASE u = t /\ k = l
      <4>1. ~Holds(u, k)'
        BY <1>15, <1>19, <3>3
      <4>2. QED
        BY <2>1, <2>4, <3>2, <3>3, <4>1
    <3>4. CASE ~(u = t /\ k = l)
      <4>1. (Holds(u, k)' <=> Holds(u, k)) /\ (HoldsWrite(u, k)' <=> HoldsWrite(u, k))
        BY <1>15, <3>4
      <4>2. QED
        BY <2>1, <3>2, <4>1 DEF IInv, LockAgrees
    <3>5. QED
      BY <3>3, <3>4
  <2>6. SRWExclusive'
    BY <2>1, <2>2 DEF IInv, SRWExclusive
  <2>7. QED
    BY <2>3, <2>5, <2>6
<1>20. ASSUME LockedAt(t, l) = {n} /\ ~w PROVE SRWOk'
  <2>1. shared' = [shared EXCEPT ![l] = [shared[l] EXCEPT ![t] = shared[l][t] - 1]] /\ excl' = excl
    BY <1>0, <1>20 DEF Release, ReleaseSRW
  <2>2. shared[l][t] = 1 /\ t \notin excl[l] /\ shared[l] \in [Thread -> Nat]
    BY <1>2, <1>16, <1>20 DEF IInv, TypeOK, LockAgrees
  <2>3. shared' = [shared EXCEPT ![l] = [shared[l] EXCEPT ![t] = 0]]
    BY <2>1, <2>2
  <2>4. \A u \in Thread, k \in Lock :
          shared'[k][u] = IF u = t /\ k = l THEN 0 ELSE shared[k][u]
    BY <1>2, <2>2, <2>3 DEF IInv, TypeOK
  <2>5. excl' \in [Lock -> SUBSET Thread] /\ shared' \in [Lock -> [Thread -> Nat]]
    <3>1. [shared[l] EXCEPT ![t] = 0] \in [Thread -> Nat]
      BY <2>2
    <3>2. QED
      BY <2>1, <2>3, <3>1 DEF IInv, TypeOK
  <2>6. LockAgrees'
    <3> SUFFICES ASSUME NEW u \in Thread, NEW k \in Lock
                 PROVE  /\ u \in excl'[k] <=> HoldsWrite(u, k)'
                        /\ shared'[k][u] =
                             IF Holds(u, k)' /\ ~HoldsWrite(u, k)' THEN 1 ELSE 0
      BY DEF LockAgrees
    <3>1. u \in excl[k] <=> HoldsWrite(u, k)
      BY DEF IInv, LockAgrees
    <3>2. CASE u = t /\ k = l
      <4>1. ~Holds(u, k)' /\ ~HoldsWrite(u, k)'
        BY <1>15, <1>20, <3>2
      <4>2. QED
        BY <2>1, <2>2, <2>4, <3>2, <4>1
    <3>3. CASE ~(u = t /\ k = l)
      <4>1. (Holds(u, k)' <=> Holds(u, k)) /\ (HoldsWrite(u, k)' <=> HoldsWrite(u, k))
        BY <1>15, <3>3
      <4>2. shared'[k][u] = shared[k][u] /\ excl'[k] = excl[k]
        BY <2>1, <2>4, <3>3
      <4>3. QED
        BY <4>1, <4>2 DEF IInv, LockAgrees
    <3>4. QED
      BY <3>2, <3>3
  <2>7. SRWExclusive'
    <3>1. \A u \in Thread, k \in Lock : shared[k][u] = 0 => shared'[k][u] = 0
      BY <2>4
    <3>2. QED
      BY <2>1, <3>1 DEF IInv, SRWExclusive
  <2>8. QED
    BY <2>5, <2>6, <2>7
<1>21. ASSUME LockedAt(t, l) # {n} PROVE SRWOk'
  <2>1. UNCHANGED <<shared, excl>>
    BY <1>0, <1>21 DEF Release
  <2>2. \A u \in Thread, k \in Lock :
          (Holds(u, k)' <=> Holds(u, k)) /\ (HoldsWrite(u, k)' <=> HoldsWrite(u, k))
    BY <1>15, <1>21
  <2>3. LockAgrees'
    BY <2>1, <2>2 DEF IInv, LockAgrees
  <2>4. QED
    BY <2>1, <2>3 DEF IInv, TypeOK, SRWExclusive
<1>22. SRWOk'
  BY <1>2, <1>19, <1>20, <1>21
<1>23. inst' \in [Thread -> Seq(Instance)]
  BY <1>4, <1>6 DEF IInv, TypeOK
<1>24. QED
  BY <1>17, <1>18, <1>22, <1>23 DEF IInv, TypeOK

\* Every step keeps the invariant.
LEMMA StepCorrect == IInv /\ [Next]_vars => IInv'
<1> SUFFICES ASSUME IInv, [Next]_vars PROVE IInv'
  OBVIOUS
<1>1. CASE UNCHANGED vars
  <2>1. UNCHANGED inst /\ UNCHANGED shared /\ UNCHANGED excl
    BY <1>1 DEF vars
  <2>2. TypeOK'
    BY <2>1 DEF IInv, TypeOK
  <2>3. \A t \in Thread : Depth(t)' = Depth(t) /\ Waiting(t)' = Waiting(t) /\ Top(t)' = Top(t)
    BY <2>1 DEF Depth, Top, Waiting
  <2>4. \A t \in Thread : \A l : LockedAt(t, l)' = LockedAt(t, l)
    BY <2>1 DEF LockedAt, Depth
  <2>5. \A t \in Thread : \A l : Holds(t, l)' = Holds(t, l) /\ HoldsWrite(t, l)' = HoldsWrite(t, l)
    BY <2>1, <2>4 DEF Holds, HoldsWrite
  <2>6. LastWaits'
    <3>1. \A t \in Thread : Holds(t, Top(t).lock)' = Holds(t, Top(t).lock)
      BY <2>1 DEF Holds, LockedAt, Depth, Top
    <3>2. QED
      BY <2>1, <2>3, <3>1 DEF IInv, LastWaits
  <2>7. FirstDecides'
    BY <2>1, <2>4, <2>5 DEF IInv, FirstDecides
  <2>8. LockAgrees' /\ SRWExclusive'
    BY <2>1, <2>5 DEF IInv, LockAgrees, SRWExclusive
  <2>9. QED
    BY <2>2, <2>6, <2>7, <2>8 DEF IInv
<1>2. ASSUME NEW t \in Thread, NEW l \in Lock, NEW w \in BOOLEAN,
             Disciplined(t, l, w), Acquire(t, l, w)
      PROVE  IInv'
  BY <1>2, AcquireCorrect
<1>3. ASSUME NEW t \in Thread, Enter(t) PROVE IInv'
  BY <1>3, EnterCorrect
<1>4. ASSUME NEW t \in Thread, Release(t) PROVE IInv'
  BY <1>4, ReleaseCorrect
<1>5. QED
  BY <1>1, <1>2, <1>3, <1>4 DEF Next

\* The inductive invariant holds of every behaviour.
THEOREM IInvHolds == Spec => []IInv
<1>1. QED
  BY InitCorrect, StepCorrect, PTL DEF Spec

\* TypeOK: acquisitions are well formed and no count of an SRW lock runs below
\* zero, since a lock is released in the mode it was acquired in.
THEOREM RWLockTypes == Spec => []TypeOK
<1>1. IInv => TypeOK
  BY DEF IInv
<1>2. QED
  BY <1>1, IInvHolds, PTL

\* LockAgrees: the SRW lock is held once by each thread that has an
\* acquisition, in the mode of its first one (Lock and Unlock, CRWLock.cpp).
THEOREM RWLockAgrees == Spec => []LockAgrees
<1>1. IInv => LockAgrees
  BY DEF IInv
<1>2. QED
  BY <1>1, IInvHolds, PTL

\* Exclusion: a thread that holds a lock for writing is alone with it.
THEOREM RWLockExclusion == Spec => []Exclusion
<1>1. IInv => Exclusion
  <2> SUFFICES ASSUME IInv, NEW t \in Thread, NEW u \in Thread, NEW l \in Lock,
                      t # u, HoldsWrite(t, l)
               PROVE  ~Holds(u, l)
    BY DEF Exclusion
  <2>1. t \in excl[l]
    BY DEF IInv, LockAgrees
  <2>2. u \notin excl[l] /\ shared[l][u] = 0
    BY <2>1 DEF IInv, SRWExclusive
  <2>3. QED
    BY <2>2 DEF IInv, LockAgrees
<1>2. QED
  BY <1>1, IInvHolds, PTL

\* What the run checks of the locks, for any threads and any nesting of any
\* number of locks.
THEOREM RWLockInv == Spec => []LockInv
<1>1. TypeOK /\ LockAgrees /\ Exclusion => LockInv
  BY DEF LockInv
<1>2. QED
  BY <1>1, RWLockTypes, RWLockAgrees, RWLockExclusion, PTL
=============================================================================
