--------------------------- MODULE ThreadPoolProof ---------------------------
(***************************************************************************)
(* Proofs about ThreadPool, for any number of messages, threads and        *)
(* changes of the limit: its invariants, and that it is a bag of work.     *)
(***************************************************************************)
EXTENDS ThreadPool, SequenceTheorems, FiniteSetTheorems, TLAPS

-----------------------------------------------------------------------------
(***************************************************************************)
(* The inductive invariant.                                                *)
(***************************************************************************)
\* Threads that have an entry of the queue in work.
Working == {t \in Thread : worker[t].at \in {"add", "process"}}
Queued == {queue[k].item : k \in 1 .. Len(queue)}
Future == {future[k] : k \in 1 .. Len(future)}
\* What was put on the queue so far.
Given == Queued \cup done
Caught == {"add", "drop"}   \* TransferFutureQueue has sent its message

\* An entry is marked while one thread works on it; it is on the queue until then,
\* and only once.
QueueInv ==
  /\ \A j, k \in 1 .. Len(queue) : queue[j].item = queue[k].item => j = k
  /\ Queued \cap done = {}
  /\ \A k \in 1 .. Len(queue) :
       queue[k].busy <=> \E t \in Working : worker[t].item = queue[k].item
  /\ \A t \in Working : worker[t].item \in Queued
  /\ \A t, u \in Working : worker[t].item = worker[u].item => t = u

\* A message that was sent is on its way or was put on the queue, and whoever moves
\* a delayed one puts it there once.
GivenInv ==
  /\ \A j, k \in 1 .. Len(future) : future[j] = future[k] => j = k
  /\ \A m \in Future : caller[m] # "new"
  /\ \A i \in Given : caller[i[1]] # "new"
  /\ \A m \in Plain : caller[m] # "new" => <<m, Owner>> \in Given
  /\ \A m \in Delayed : caller[m] # "new"
       => m \in Future \/ \E p \in Mover : <<m, p>> \in Given
  /\ \A p \in Mover : \A m \in Future :
       <<m, p>> \in Given => move[p].at \in Caught /\ move[p].msg = m
  /\ \A p \in Mover :
       /\ move[p].at = "send" => /\ move[p].msg \in Delayed
                                 /\ caller[move[p].msg] # "new"
                                 /\ <<move[p].msg, p>> \notin Given
       /\ move[p].at \in Caught => /\ move[p].msg \in Delayed
                                   /\ <<move[p].msg, p>> \in Given

\* Which threads may be where.
PlaceInv ==
  /\ \A t \in Thread : worker[t].at = "transfer" <=> move[t].at # "none"
  /\ move[Owner].at # "none" <=> owner = "flush"
  /\ disable <=> owner # "run"
  /\ owner # "run" => \A m \in Msg : caller[m] = "sent"
  /\ owner \notin {"run", "notify", "poll"} =>
       \A t \in Thread : worker[t].at \in {"none", "wait", "loop", "timeout", "transfer"}
  /\ ClearFindsNone

\* How many threads there are, and that none was told to end for their number
\* while the limit is the first.
LimitInv ==
  /\ maxThreads \in MaxChoices \cup {MaxThreads}
  /\ ThreadsBounded
  /\ changes = 0 => /\ maxThreads = MaxThreads
                    /\ Cardinality(Active) <= MaxThreads
                    /\ \A t \in Thread : worker[t].at \in {"process", "idle", "over"}
                                           => worker[t].max = MaxThreads
  /\ (\A m \in Msg : caller[m] # "sent") => Active = {}
  /\ KeepsMinimum

Inv == /\ TypeOK /\ QueueInv /\ GivenInv /\ PlaceInv /\ LimitInv
       /\ GroupsApart /\ QueueSorted
-----------------------------------------------------------------------------
(***************************************************************************)
(* Sizes.                                                                  *)
(***************************************************************************)
\* A finite set has a subset of each size up to its own.
LEMMA SubsetOfSize ==
  ASSUME NEW S, IsFiniteSet(S), NEW n \in 0 .. Cardinality(S)
  PROVE  \E T \in SUBSET S : Cardinality(T) = n
<1>1. Cardinality(S) \in Nat /\ n \in Nat
  BY FS_CardinalityType
<1>2. PICK f \in Bijection(1 .. Cardinality(S), S) : TRUE
  BY FS_CardinalityType DEF ExistsBijection
<1> DEFINE T == {f[i] : i \in 1 .. n}
           g == [i \in 1 .. n |-> f[i]]
<1>3. 1 .. n \subseteq 1 .. Cardinality(S)
  BY <1>1
<1>4. f \in [1 .. Cardinality(S) -> S] /\ T \subseteq S
  BY <1>2, <1>3 DEF Bijection, Injection, Surjection
<1>5. \A i, j \in 1 .. n : f[i] = f[j] => i = j
  BY <1>2, <1>3 DEF Bijection, Injection, IsInjective
<1>6. g \in Bijection(1 .. n, T)
  BY <1>5 DEF Bijection, Injection, Surjection, IsInjective
<1>7. Cardinality(T) = n
  BY <1>1, <1>6, FS_CountingElements DEF ExistsBijection
<1> QED BY <1>4, <1>7

\* The sets of threads are finite.
LEMMA ThreadSets ==
  /\ Slots \in Nat /\ IsFiniteSet(Thread) /\ Cardinality(Thread) = Slots
  /\ \A S \in SUBSET Thread : IsFiniteSet(S) /\ Cardinality(S) \in Nat
<1>1. Slots \in Nat /\ 1 \in Int /\ Slots \in Int
  BY PoolAssumption
<1>2. IsFiniteSet(Thread) /\ Cardinality(Thread) = Slots
  BY <1>1, FS_Interval DEF Thread
<1>3. ASSUME NEW S \in SUBSET Thread
      PROVE  IsFiniteSet(S) /\ Cardinality(S) \in Nat
  BY <1>2, FS_Subset, FS_CardinalityType
<1> QED BY <1>1, <1>2, <1>3

\* What is no message of the queue.
LEMMA NoItemIsNone == NoItem \notin Item
  BY DEF NoItem, Item

\* The limits are at least the least number of threads.
LEMMA Minimum ==
  ASSUME maxThreads \in MaxChoices \cup {MaxThreads}
  PROVE  /\ maxThreads \in Nat /\ maxThreads > 0 /\ maxThreads < Slots
         /\ MinInternal \in Nat /\ MinThreads \in Nat
         /\ MinThreads <= MinInternal /\ MinInternal <= maxThreads
BY PoolAssumption DEF MinInternal

\* AddThreads starts what it means to start, within the limit.
LEMMA StartingFits ==
  ASSUME maxThreads \in MaxChoices \cup {MaxThreads}
  PROVE  /\ Starting \in SUBSET (Thread \ Active)
         /\ Cardinality(Active \cup Starting) = Cardinality(Active) + Cardinality(Starting)
         /\ Cardinality(Starting) = 0 \/ Cardinality(Active \cup Starting) <= maxThreads
         /\ Active = {} => Cardinality(Starting) >= MinThreads
<1> DEFINE n == Cardinality(Active)
           free == Thread \ Active
<1>1. Active \in SUBSET Thread /\ free \in SUBSET Thread
  BY DEF Active
<1>2. /\ IsFiniteSet(Active) /\ IsFiniteSet(free) /\ n \in Nat
      /\ Cardinality(free) \in Nat /\ Cardinality(Thread) = Slots /\ Slots \in Nat
  BY <1>1, ThreadSets
<1>3. n + Cardinality(free) = Slots
  <2>1. Active \cup free = Thread /\ Active \cap free = {}
    BY <1>1
  <2>2. Cardinality(Active \cap free) = 0
    BY <2>1, FS_EmptySet
  <2>3. Cardinality(Active \cup free) = n + Cardinality(free) - Cardinality(Active \cap free)
    BY <1>2, FS_Union
  <2> QED BY <1>2, <2>1, <2>2, <2>3
<1>4. /\ ToStart \in Nat
      /\ ToStart = 0 \/ n + ToStart <= maxThreads
      /\ n = 0 => ToStart >= MinThreads
  BY <1>2, Minimum DEF ToStart
<1>5. ToStart \in 0 .. Cardinality(free)
  BY <1>2, <1>3, <1>4, Minimum
<1>6. Starting \in SUBSET free /\ Cardinality(Starting) = ToStart
  BY <1>2, <1>5, SubsetOfSize DEF Starting
<1>7. IsFiniteSet(Starting) /\ Cardinality(Active \cap Starting) = 0
  <2>1. Starting \in SUBSET Thread /\ Active \cap Starting = {}
    BY <1>1, <1>6
  <2> QED BY <2>1, ThreadSets, FS_EmptySet
<1>8. Cardinality(Active \cup Starting) = n + ToStart
  <2>1. Cardinality(Active \cup Starting)
          = Cardinality(Active) + Cardinality(Starting) - Cardinality(Active \cap Starting)
    BY <1>2, <1>7, FS_Union
  <2> QED BY <1>2, <1>4, <1>6, <1>7, <2>1
<1>9. Active = {} => n = 0
  BY FS_EmptySet
<1> QED BY <1>4, <1>6, <1>8, <1>9
-----------------------------------------------------------------------------
(***************************************************************************)
(* The queue.                                                              *)
(***************************************************************************)
\* What an insertion does to the places of the queue.
LEMMA Inserted ==
  ASSUME queue \in Seq(Entry), NEW i \in Item, Insert(i)
  PROVE  \E n \in 0 .. Len(queue) :
           /\ n > 0 => Outranks(n, i[1])
           /\ \A k \in n + 1 .. Len(queue) : ~Outranks(k, i[1])
           /\ queue' \in Seq(Entry) /\ Len(queue') = Len(queue) + 1
           /\ \A k \in 1 .. n : queue'[k] = queue[k]
           /\ queue'[n + 1] = [item |-> i, busy |-> FALSE]
           /\ \A k \in n + 1 .. Len(queue) : queue'[k + 1] = queue[k]
<1> DEFINE e == [item |-> i, busy |-> FALSE]
<1>1. PICK n \in 0 .. Len(queue) :
        /\ n > 0 => Outranks(n, i[1])
        /\ \A k \in n + 1 .. Len(queue) : ~Outranks(k, i[1])
        /\ queue' = SubSeq(queue, 1, n) \o <<e>> \o SubSeq(queue, n + 1, Len(queue))
  BY DEF Insert
<1> DEFINE a == SubSeq(queue, 1, n)
           b == SubSeq(queue, n + 1, Len(queue))
<1>2. Len(queue) \in Nat /\ n \in Nat /\ n <= Len(queue) /\ e \in Entry
  BY DEF Entry
<1>3. a \in Seq(Entry) /\ Len(a) = n /\ \A k \in 1 .. n : a[k] = queue[k]
  BY <1>2
<1>4. /\ b \in Seq(Entry) /\ Len(b) = Len(queue) - n
      /\ \A k \in 1 .. Len(queue) - n : b[k] = queue[n + k]
  BY <1>2
<1> HIDE DEF a, b, e
<1>5. /\ queue' \in Seq(Entry) /\ Len(queue') = Len(queue) + 1
      /\ \A k \in 1 .. n : queue'[k] = a[k]
      /\ queue'[n + 1] = e
      /\ \A k \in 1 .. Len(queue) - n : queue'[n + 1 + k] = b[k]
  <2> DEFINE c == a \o <<e>>
  <2>1. c \in Seq(Entry) /\ Len(c) = n + 1 /\ c[n + 1] = e /\ \A k \in 1 .. n : c[k] = a[k]
    BY <1>2, <1>3
  <2>2. queue' = c \o b
    BY <1>1 DEF a, b, e
  <2> HIDE DEF c
  <2>3. /\ c \o b \in Seq(Entry) /\ Len(c \o b) = Len(c) + Len(b)
        /\ \A k \in 1 .. Len(c) + Len(b) :
             (c \o b)[k] = IF k <= Len(c) THEN c[k] ELSE b[k - Len(c)]
    BY <1>4, <2>1, ConcatProperties
  <2>4. ASSUME NEW k \in 1 .. Len(queue) - n PROVE queue'[n + 1 + k] = b[k]
    <3>1. n + 1 + k \in 1 .. Len(c) + Len(b) /\ ~(n + 1 + k <= Len(c)) /\ n + 1 + k - Len(c) = k
      BY <1>2, <1>4, <2>1
    <3> QED BY <2>2, <2>3, <3>1
  <2>5. ASSUME NEW k \in 1 .. n + 1 PROVE queue'[k] = c[k]
    <3>1. k \in 1 .. Len(c) + Len(b) /\ k <= Len(c)
      BY <1>2, <1>4, <2>1
    <3> QED BY <2>2, <2>3, <3>1
  <2> QED BY <1>2, <1>4, <2>1, <2>2, <2>3, <2>4, <2>5
<1>6. ASSUME NEW k \in n + 1 .. Len(queue) PROVE queue'[k + 1] = queue[k]
  <2>1. k - n \in 1 .. Len(queue) - n /\ n + 1 + (k - n) = k + 1 /\ n + (k - n) = k
    BY <1>2
  <2>2. queue'[n + 1 + (k - n)] = b[k - n] /\ b[k - n] = queue[n + (k - n)]
    BY <1>4, <1>5, <2>1
  <2> QED BY <2>1, <2>2
<1>7. \A k \in 1 .. n : queue'[k] = queue[k]
  BY <1>3, <1>5
<1> QED BY <1>1, <1>2, <1>5, <1>6, <1>7 DEF e

\* A new entry is put on the queue.
LEMMA InsertKeeps ==
  ASSUME TypeOK, QueueInv, QueueSorted, NEW i \in Item, i \notin Given, Insert(i),
         UNCHANGED <<worker, done>>
  PROVE  /\ queue' \in Seq(Entry) /\ QueueInv' /\ QueueSorted'
         /\ Queued' = Queued \cup {i} /\ Given' = Given \cup {i}
<1>1. PICK n \in 0 .. Len(queue) :
        /\ n > 0 => Outranks(n, i[1])
        /\ \A k \in n + 1 .. Len(queue) : ~Outranks(k, i[1])
        /\ queue' \in Seq(Entry) /\ Len(queue') = Len(queue) + 1
        /\ \A k \in 1 .. n : queue'[k] = queue[k]
        /\ queue'[n + 1] = [item |-> i, busy |-> FALSE]
        /\ \A k \in n + 1 .. Len(queue) : queue'[k + 1] = queue[k]
  BY Inserted DEF TypeOK
<1>2. queue \in Seq(Entry) /\ Len(queue) \in Nat /\ n \in Nat /\ n <= Len(queue)
  BY DEF TypeOK
<1> DEFINE Was(k) == IF k <= n THEN k ELSE k - 1
<1>3. ASSUME NEW k \in 1 .. Len(queue'), k # n + 1
      PROVE  Was(k) \in 1 .. Len(queue) /\ queue'[k] = queue[Was(k)]
  <2>1. CASE k <= n BY <1>1, <1>2, <2>1
  <2>2. CASE k > n + 1
    <3>1. k - 1 \in n + 1 .. Len(queue) /\ (k - 1) + 1 = k
      BY <1>1, <1>2, <2>2
    <3> QED BY <1>1, <1>2, <2>2, <3>1
  <2> QED BY <1>1, <1>2, <1>3, <2>1, <2>2
<1>4. ASSUME NEW k \in 1 .. Len(queue)
      PROVE  \E j \in 1 .. Len(queue') : j # n + 1 /\ queue'[j] = queue[k]
  <2>1. CASE k <= n BY <1>1, <1>2, <2>1
  <2>2. CASE k > n BY <1>1, <1>2, <2>2
  <2> QED BY <1>2, <2>1, <2>2
<1>5. Queued' = Queued \cup {i}
  <2>1. Queued' \subseteq Queued \cup {i}
    BY <1>1, <1>2, <1>3 DEF Queued
  <2>2. n + 1 \in 1 .. Len(queue')
    BY <1>1, <1>2
  <2>3. Queued \cup {i} \subseteq Queued'
    BY <1>1, <1>4, <2>2 DEF Queued
  <2> QED BY <2>1, <2>3
<1>6. Working' = Working
  BY DEF Working
<1>7. i \notin Queued /\ i \notin done
  BY DEF Given
<1>8. QueueInv'
  <2>1. ASSUME NEW j \in 1 .. Len(queue'), NEW k \in 1 .. Len(queue'),
               queue'[j].item = queue'[k].item
        PROVE  j = k
    <3>1. \A l \in 1 .. Len(queue) : queue[l].item # i
      BY <1>7 DEF Queued
    <3>2. j = n + 1 <=> k = n + 1
      <4>1. queue'[n + 1].item = i
        BY <1>1
      <4>2. ASSUME NEW l \in 1 .. Len(queue'), l # n + 1
            PROVE  queue'[l].item # i
        BY <1>3, <3>1, <4>2
      <4> QED BY <2>1, <4>1, <4>2
    <3>3. j # n + 1 => Was(j) = Was(k)
      <4> SUFFICES ASSUME j # n + 1 PROVE Was(j) = Was(k)
        OBVIOUS
      <4>1. queue[Was(j)].item = queue[Was(k)].item /\ Was(j) \in 1 .. Len(queue)
            /\ Was(k) \in 1 .. Len(queue)
        <5>1. k # n + 1
          BY <3>2
        <5>2. /\ Was(j) \in 1 .. Len(queue) /\ queue'[j] = queue[Was(j)]
              /\ Was(k) \in 1 .. Len(queue) /\ queue'[k] = queue[Was(k)]
          BY <1>3, <5>1
        <5> QED BY <2>1, <5>2
      <4> HIDE DEF Was
      <4> QED BY <4>1 DEF QueueInv
    <3> QED BY <1>1, <1>2, <3>2, <3>3
  <2>2. Queued' \cap done' = {}
    BY <1>5, <1>7 DEF QueueInv
  <2>3. ASSUME NEW k \in 1 .. Len(queue')
        PROVE  queue'[k].busy <=> \E t \in Working : worker[t].item = queue'[k].item
    <3>1. CASE k = n + 1
      BY <1>1, <1>7, <3>1 DEF QueueInv
    <3>2. CASE k # n + 1
      BY <1>3, <3>2 DEF QueueInv
    <3> QED BY <3>1, <3>2
  <2>4. \A t \in Working : worker[t].item \in Queued'
    BY <1>5 DEF QueueInv
  <2> QED BY <1>6, <2>1, <2>2, <2>3, <2>4 DEF QueueInv
<1>9. QueueSorted'
  <2> DEFINE rank(k) == Priority[queue[k].item[1]]
  <2>1. /\ \A k \in 1 .. Len(queue) : rank(k) \in Nat
        /\ Priority[i[1]] \in Nat
    <3>1. \A j \in Item : j[1] \in Msg
      BY DEF Item
    <3>2. \A e \in Entry : e.item \in Item
      BY DEF Entry
    <3>3. \A k \in 1 .. Len(queue) : queue[k] \in Entry
      BY <1>2
    <3> QED BY <3>1, <3>2, <3>3, PoolAssumption
  <2>2. \A j, k \in 1 .. Len(queue) : j < k => rank(j) >= rank(k)
    BY <1>2 DEF QueueSorted
  <2>3. ASSUME NEW k \in 1 .. Len(queue)
        PROVE  IF k <= n THEN rank(k) >= Priority[i[1]] ELSE rank(k) < Priority[i[1]]
    <3>1. CASE k > n
      BY <1>1, <1>2, <2>1, <3>1 DEF Outranks
    <3>2. CASE k = n
      BY <1>1, <1>2, <3>2 DEF Outranks
    <3>3. CASE k < n
      <4>1. rank(n) >= Priority[i[1]] /\ rank(k) >= rank(n) /\ n \in 1 .. Len(queue)
        BY <1>1, <1>2, <2>2, <3>3 DEF Outranks
      <4> QED BY <1>2, <2>1, <3>3, <4>1
    <3> QED BY <1>2, <3>1, <3>2, <3>3
  <2>4. ASSUME NEW j \in 1 .. Len(queue'), NEW k \in 1 .. Len(queue'), j < k
        PROVE  Priority[queue'[j].item[1]] >= Priority[queue'[k].item[1]]
    <3>1. CASE j = n + 1
      <4>1. Was(k) \in 1 .. Len(queue) /\ queue'[k] = queue[Was(k)] /\ Was(k) > n
        BY <1>1, <1>2, <1>3, <2>4, <3>1
      <4> QED BY <1>1, <1>2, <2>1, <2>3, <3>1, <4>1
    <3>2. CASE k = n + 1
      <4>1. Was(j) \in 1 .. Len(queue) /\ queue'[j] = queue[Was(j)] /\ Was(j) <= n
        BY <1>1, <1>2, <1>3, <2>4, <3>2
      <4> QED BY <1>1, <1>2, <2>1, <2>3, <3>2, <4>1
    <3>3. CASE j # n + 1 /\ k # n + 1
      <4>1. /\ Was(j) \in 1 .. Len(queue) /\ queue'[j] = queue[Was(j)]
            /\ Was(k) \in 1 .. Len(queue) /\ queue'[k] = queue[Was(k)]
        BY <1>3, <3>3
      <4>2. Was(j) < Was(k)
        BY <1>1, <1>2, <2>4, <3>3
      <4> QED BY <2>2, <4>1, <4>2
    <3> QED BY <3>1, <3>2, <3>3
  <2>5. DOMAIN queue' = 1 .. Len(queue')
    BY <1>1
  <2> QED BY <2>4, <2>5 DEF QueueSorted
<1> QED BY <1>1, <1>5, <1>8, <1>9 DEF Given

\* One entry is taken off a sequence.
LEMMA Erasing ==
  ASSUME NEW T, NEW s \in Seq(T), NEW n \in 1 .. Len(s)
  PROVE  /\ Erased(s, {n}) \in Seq(T) /\ Len(Erased(s, {n})) = Len(s) - 1
         /\ \A k \in 1 .. n - 1 : Erased(s, {n})[k] = s[k]
         /\ \A k \in n .. Len(s) - 1 : Erased(s, {n})[k] = s[k + 1]
<1> DEFINE a == SubSeq(s, 1, n - 1)
           b == SubSeq(s, n + 1, Len(s))
<1>1. Len(s) \in Nat /\ n \in Nat /\ 1 <= n /\ n <= Len(s)
  OBVIOUS
<1>2. (CHOOSE k \in {n} : \A j \in {n} : k <= j) = n
  BY <1>1
<1>3. Erased(s, {n}) = a \o b
  BY <1>2 DEF Erased
<1>4. a \in Seq(T) /\ Len(a) = n - 1 /\ \A k \in 1 .. n - 1 : a[k] = s[k]
  BY <1>1
<1>5. b \in Seq(T) /\ Len(b) = Len(s) - n /\ \A k \in 1 .. Len(s) - n : b[k] = s[n + k]
  BY <1>1
<1> HIDE DEF a, b
<1>6. /\ a \o b \in Seq(T) /\ Len(a \o b) = Len(s) - 1
      /\ \A k \in 1 .. n - 1 : (a \o b)[k] = a[k]
      /\ \A k \in 1 .. Len(s) - n : (a \o b)[n - 1 + k] = b[k]
  <2>1. /\ a \o b \in Seq(T) /\ Len(a \o b) = Len(a) + Len(b)
        /\ \A k \in 1 .. Len(a) + Len(b) :
             (a \o b)[k] = IF k <= Len(a) THEN a[k] ELSE b[k - Len(a)]
    BY <1>4, <1>5, ConcatProperties
  <2>2. ASSUME NEW k \in 1 .. n - 1 PROVE (a \o b)[k] = a[k]
    <3>1. k \in 1 .. Len(a) + Len(b) /\ k <= Len(a)
      BY <1>1, <1>4, <1>5
    <3> QED BY <2>1, <3>1
  <2>3. ASSUME NEW k \in 1 .. Len(s) - n PROVE (a \o b)[n - 1 + k] = b[k]
    <3>1. n - 1 + k \in 1 .. Len(a) + Len(b) /\ ~(n - 1 + k <= Len(a)) /\ n - 1 + k - Len(a) = k
      BY <1>1, <1>4, <1>5
    <3> QED BY <2>1, <3>1
  <2> QED BY <1>1, <1>4, <1>5, <2>1, <2>2, <2>3
<1>7. ASSUME NEW k \in n .. Len(s) - 1 PROVE (a \o b)[k] = s[k + 1]
  <2>1. k - n + 1 \in 1 .. Len(s) - n /\ n - 1 + (k - n + 1) = k /\ n + (k - n + 1) = k + 1
    BY <1>1
  <2>2. (a \o b)[n - 1 + (k - n + 1)] = b[k - n + 1] /\ b[k - n + 1] = s[n + (k - n + 1)]
    BY <1>5, <1>6, <2>1
  <2> QED BY <2>1, <2>2
<1> QED BY <1>3, <1>4, <1>6, <1>7
\* A thread takes the entry it has worked on off the queue.
LEMMA EraseKeeps ==
  ASSUME TypeOK, QueueInv, QueueSorted, NEW t \in Working,
         queue' = Erased(queue, {k \in DOMAIN queue : queue[k].item = worker[t].item}),
         done' = done \cup {worker[t].item}, Working' = Working \ {t},
         \A u \in Working \ {t} : worker'[u].item = worker[u].item
  PROVE  /\ queue' \in Seq(Entry) /\ QueueInv' /\ QueueSorted'
         /\ Queued' = Queued \ {worker[t].item} /\ Given' = Given
<1> DEFINE i == worker[t].item
<1>1. PICK n \in 1 .. Len(queue) : queue[n].item = i
  BY DEF QueueInv, Queued
<1>2. /\ queue \in Seq(Entry) /\ Len(queue) \in Nat /\ DOMAIN queue = 1 .. Len(queue)
      /\ n \in Nat /\ 1 <= n /\ n <= Len(queue)
  BY DEF TypeOK
<1>3. \A k \in 1 .. Len(queue) : queue[k].item = i <=> k = n
  BY <1>1 DEF QueueInv
<1>4. queue' = Erased(queue, {n})
  <2>1. {k \in DOMAIN queue : queue[k].item = worker[t].item} = {n}
    BY <1>1, <1>2, <1>3
  <2> QED BY <2>1
<1>5. /\ queue' \in Seq(Entry) /\ Len(queue') = Len(queue) - 1
      /\ \A k \in 1 .. n - 1 : queue'[k] = queue[k]
      /\ \A k \in n .. Len(queue) - 1 : queue'[k] = queue[k + 1]
  BY <1>2, <1>4, Erasing
<1> DEFINE Was(k) == IF k < n THEN k ELSE k + 1
           last == Len(queue) - 1
<1>0. 1 .. Len(queue') = 1 .. last /\ last \in Int
  <2>1. last \in Int
    BY <1>2
  <2>2. Len(queue') = last
    BY <1>5
  <2> QED BY <2>1, <2>2
<1>6. ASSUME NEW k \in 1 .. Len(queue')
      PROVE  Was(k) \in 1 .. Len(queue) /\ Was(k) # n /\ queue'[k] = queue[Was(k)]
  <2>1. k \in Nat /\ 1 <= k /\ k <= Len(queue) - 1
    BY <1>0
  <2>2. CASE k < n
    <3>1. k \in 1 .. n - 1 /\ k \in 1 .. Len(queue) /\ Was(k) = k /\ k # n
      BY <1>2, <2>1, <2>2
    <3> QED BY <1>5, <3>1
  <2>3. CASE k >= n
    <3>1. k \in n .. Len(queue) - 1 /\ k + 1 \in 1 .. Len(queue) /\ Was(k) = k + 1 /\ k + 1 # n
      BY <1>2, <2>1, <2>3
    <3> QED BY <1>5, <3>1
  <2> QED BY <1>2, <2>1, <2>2, <2>3
<1>7. ASSUME NEW k \in 1 .. Len(queue), k # n
      PROVE  \E j \in 1 .. Len(queue') : queue'[j] = queue[k]
  <2>0. k \in Nat /\ 1 <= k /\ k <= Len(queue)
    BY <1>2
  <2>1. CASE k < n
    <3>1. k \in 1 .. n - 1 /\ k \in 1 .. Len(queue) - 1
      BY <1>2, <2>0, <2>1
    <3> QED BY <1>5, <3>1
  <2>2. CASE k > n
    <3>1. k - 1 \in n .. Len(queue) - 1 /\ k - 1 \in 1 .. Len(queue) - 1 /\ (k - 1) + 1 = k
      BY <1>2, <2>0, <2>2
    <3>2. queue'[k - 1] = queue[(k - 1) + 1]
      BY <1>5, <3>1
    <3> QED BY <1>5, <3>1, <3>2
  <2>3. k < n \/ k > n
    BY <1>2, <1>7, <2>0
  <2> QED BY <2>1, <2>2, <2>3
<1>8. Queued' = Queued \ {i}
  <2>1. ASSUME NEW k \in 1 .. Len(queue')
        PROVE  queue'[k].item \in Queued \ {i}
    <3>1. Was(k) \in 1 .. Len(queue) /\ Was(k) # n /\ queue'[k] = queue[Was(k)]
      BY <1>6
    <3> HIDE DEF Was
    <3>2. queue[Was(k)].item \in Queued
      BY <3>1 DEF Queued
    <3>3. queue[Was(k)].item # i
      BY <1>3, <3>1
    <3> QED BY <3>1, <3>2, <3>3
  <2>2. ASSUME NEW k \in 1 .. Len(queue), queue[k].item # i
        PROVE  queue[k].item \in Queued'
    BY <1>1, <1>7, <2>2 DEF Queued
  <2>3. Queued' \subseteq Queued \ {i}
    <3>1. \A x \in Queued' : \E k \in 1 .. Len(queue') : x = queue'[k].item
      BY DEF Queued
    <3> QED BY <2>1, <3>1
  <2>4. Queued \ {i} \subseteq Queued'
    <3>1. \A x \in Queued : \E k \in 1 .. Len(queue) : x = queue[k].item
      BY DEF Queued
    <3> QED BY <2>2, <3>1
  <2> QED BY <2>3, <2>4
<1>9. i \in Queued
  BY DEF QueueInv
<1>10. QueueInv'
  <2>1. \A j, k \in 1 .. Len(queue') : queue'[j].item = queue'[k].item => j = k
    <3> SUFFICES ASSUME NEW j \in 1 .. Len(queue'), NEW k \in 1 .. Len(queue'),
                        queue'[j].item = queue'[k].item
                 PROVE  j = k
      OBVIOUS
    <3>1. /\ Was(j) \in 1 .. Len(queue) /\ queue'[j] = queue[Was(j)]
          /\ Was(k) \in 1 .. Len(queue) /\ queue'[k] = queue[Was(k)]
      BY <1>6
    <3> HIDE DEF Was
    <3>2. Was(j) = Was(k)
      BY <3>1 DEF QueueInv
    <3> QED BY <1>2, <1>5, <3>2 DEF Was
  <2>2. Queued' \cap done' = {}
    BY <1>8 DEF QueueInv
  <2>3. ASSUME NEW k \in 1 .. Len(queue')
        PROVE  queue'[k].busy <=> \E u \in Working' : worker'[u].item = queue'[k].item
    <3>1. queue[Was(k)].busy <=> \E u \in Working : worker[u].item = queue[Was(k)].item
      BY <1>6 DEF QueueInv
    <3>2. queue[Was(k)].item # i
      BY <1>3, <1>6
    <3> QED BY <1>6, <3>1, <3>2
  <2>4. \A u \in Working' : worker'[u].item \in Queued'
    BY <1>8 DEF QueueInv
  <2>5. \A u, v \in Working' : worker'[u].item = worker'[v].item => u = v
    BY DEF QueueInv
  <2> QED BY <2>1, <2>2, <2>3, <2>4, <2>5 DEF QueueInv
<1>11. QueueSorted'
  <2>1. ASSUME NEW j \in 1 .. Len(queue'), NEW k \in 1 .. Len(queue'), j < k
        PROVE  Priority[queue'[j].item[1]] >= Priority[queue'[k].item[1]]
    <3>1. Was(j) < Was(k)
      BY <1>2, <1>5, <2>1
    <3>2. /\ Was(j) \in 1 .. Len(queue) /\ queue'[j] = queue[Was(j)]
          /\ Was(k) \in 1 .. Len(queue) /\ queue'[k] = queue[Was(k)]
      BY <1>6
    <3>3. DOMAIN queue = 1 .. Len(queue)
      BY <1>2
    <3> HIDE DEF Was
    <3>4. Priority[queue[Was(j)].item[1]] >= Priority[queue[Was(k)].item[1]]
      BY <3>1, <3>2, <3>3 DEF QueueSorted
    <3> QED BY <3>2, <3>4
  <2>2. DOMAIN queue' = 1 .. Len(queue')
    BY <1>5
  <2> QED BY <2>1, <2>2 DEF QueueSorted
<1> QED BY <1>5, <1>8, <1>9, <1>10, <1>11 DEF Given

\* Marking an entry, or taking the mark off, leaves the order of the queue alone.
LEMMA SameItems ==
  ASSUME TypeOK, queue' \in Seq(Entry), Len(queue') = Len(queue),
         \A k \in 1 .. Len(queue) : queue'[k].item = queue[k].item
  PROVE  Queued' = Queued /\ (QueueSorted => QueueSorted')
<1>1. DOMAIN queue = 1 .. Len(queue) /\ DOMAIN queue' = 1 .. Len(queue)
  BY DEF TypeOK
<1> QED BY <1>1 DEF Queued, QueueSorted

\* A thread marks an entry and works on it.
LEMMA MarkKeeps ==
  ASSUME TypeOK, QueueInv, NEW i \in 1 .. Len(queue), ~queue[i].busy, NEW t \in Thread,
         t \notin Working, Working' = Working \cup {t}, worker'[t].item = queue[i].item,
         \A u \in Working : worker'[u].item = worker[u].item,
         queue' = [queue EXCEPT ![i].busy = TRUE], done' = done
  PROVE  /\ queue' \in Seq(Entry) /\ Len(queue') = Len(queue) /\ QueueInv'
         /\ \A k \in 1 .. Len(queue) : queue'[k].item = queue[k].item
<1>1. queue \in Seq(Entry) /\ Len(queue) \in Nat /\ \A k \in 1 .. Len(queue) : queue[k] \in Entry
  BY DEF TypeOK
<1>2. \A e \in Entry : /\ [e EXCEPT !.busy = TRUE] \in Entry
                       /\ [e EXCEPT !.busy = TRUE].item = e.item
                       /\ [e EXCEPT !.busy = TRUE].busy
  BY DEF Entry
<1>3. queue' = [queue EXCEPT ![i] = [queue[i] EXCEPT !.busy = TRUE]]
  OBVIOUS
<1>4. /\ queue' \in Seq(Entry) /\ Len(queue') = Len(queue)
      /\ \A k \in 1 .. Len(queue) : k # i => queue'[k] = queue[k]
      /\ queue'[i].item = queue[i].item /\ queue'[i].busy
  BY <1>1, <1>2, <1>3
<1>5. \A k \in 1 .. Len(queue) : queue'[k].item = queue[k].item
  BY <1>4
<1>6. \A u \in Working : worker[u].item # queue[i].item
  BY DEF QueueInv
<1>7. QueueInv'
  <2>1. \A j, k \in 1 .. Len(queue') : queue'[j].item = queue'[k].item => j = k
    BY <1>4, <1>5 DEF QueueInv
  <2>2. Queued' = Queued
    BY <1>4, <1>5 DEF Queued
  <2>3. ASSUME NEW k \in 1 .. Len(queue')
        PROVE  queue'[k].busy <=> \E u \in Working' : worker'[u].item = queue'[k].item
    <3>1. CASE k = i
      BY <1>4, <3>1
    <3>2. CASE k # i
      <4>1. queue'[k] = queue[k] /\ k \in 1 .. Len(queue) /\ queue[k].item # queue[i].item
        BY <1>4, <3>2 DEF QueueInv
      <4>2. queue[k].busy <=> \E u \in Working : worker[u].item = queue[k].item
        BY <4>1 DEF QueueInv
      <4> QED BY <4>1, <4>2
    <3> QED BY <3>1, <3>2
  <2>4. \A u \in Working' : worker'[u].item \in Queued'
    BY <2>2 DEF QueueInv, Queued
  <2>5. \A u, v \in Working' : worker'[u].item = worker'[v].item => u = v
    BY <1>6 DEF QueueInv
  <2> QED BY <2>1, <2>2, <2>3, <2>4, <2>5 DEF QueueInv
<1> QED BY <1>4, <1>5, <1>7

\* DoProcess refuses an entry: its mark is taken off.
LEMMA UnmarkKeeps ==
  ASSUME TypeOK, QueueInv, NEW t \in Working, Working' = Working \ {t},
         \A u \in Working \ {t} : worker'[u].item = worker[u].item, done' = done,
         queue' = [k \in DOMAIN queue |->
                     IF queue[k].item = worker[t].item
                     THEN [queue[k] EXCEPT !.busy = FALSE] ELSE queue[k]]
  PROVE  /\ queue' \in Seq(Entry) /\ Len(queue') = Len(queue) /\ QueueInv'
         /\ \A k \in 1 .. Len(queue) :
              /\ queue'[k].item = queue[k].item
              /\ queue'[k].busy <=> queue[k].busy /\ queue[k].item # worker[t].item
<1>1. /\ queue \in Seq(Entry) /\ Len(queue) \in Nat /\ DOMAIN queue = 1 .. Len(queue)
      /\ \A k \in 1 .. Len(queue) : queue[k] \in Entry
  BY DEF TypeOK
<1>2. \A e \in Entry : /\ [e EXCEPT !.busy = FALSE] \in Entry
                       /\ [e EXCEPT !.busy = FALSE].item = e.item
                       /\ ~[e EXCEPT !.busy = FALSE].busy
  BY DEF Entry
<1>3. queue' \in Seq(Entry) /\ Len(queue') = Len(queue)
  BY <1>1, <1>2
<1>4. ASSUME NEW k \in 1 .. Len(queue)
      PROVE  /\ queue'[k].item = queue[k].item
             /\ queue'[k].busy <=> queue[k].busy /\ queue[k].item # worker[t].item
  BY <1>1, <1>2
<1>5. QueueInv'
  <2>1. \A j, k \in 1 .. Len(queue') : queue'[j].item = queue'[k].item => j = k
    BY <1>3, <1>4 DEF QueueInv
  <2>2. Queued' = Queued
    BY <1>3, <1>4 DEF Queued
  <2>3. ASSUME NEW k \in 1 .. Len(queue')
        PROVE  queue'[k].busy <=> \E u \in Working' : worker'[u].item = queue'[k].item
    <3>1. queue[k].busy <=> \E u \in Working : worker[u].item = queue[k].item
      BY <1>3 DEF QueueInv
    <3>2. \A u \in Working : worker[u].item = worker[t].item => u = t
      BY DEF QueueInv
    <3>3. /\ queue'[k].item = queue[k].item
          /\ queue'[k].busy <=> queue[k].busy /\ queue[k].item # worker[t].item
      BY <1>3, <1>4
    <3> QED BY <3>1, <3>2, <3>3
  <2>4. \A u \in Working' : worker'[u].item \in Queued'
    BY <2>2 DEF QueueInv
  <2>5. \A u, v \in Working' : worker'[u].item = worker'[v].item => u = v
    BY DEF QueueInv
  <2> QED BY <2>1, <2>2, <2>3, <2>4, <2>5, <1>3 DEF QueueInv
<1> QED BY <1>3, <1>4, <1>5
-----------------------------------------------------------------------------
(***************************************************************************)
(* What keeps each part of the invariant.                                  *)
(***************************************************************************)
Holding == {"add", "process", "idle"}     \* places of a thread in InUse
Counted == {"process", "idle", "over"}    \* where it knows the limit it read
Thinned == {"none", "wait", "loop", "timeout", "transfer"}  \* once the pool is closed

WorkerRecord == [at : WorkerAt, exit : BOOLEAN, item : Item \cup {NoItem}, max : Nat,
                 timeout : BOOLEAN]

\* Nobody takes or gives back an entry.
LEMMA QueueKept ==
  ASSUME QueueInv, UNCHANGED <<queue, done>>, Working' = Working,
         \A t \in Working : worker'[t].item = worker[t].item
  PROVE  QueueInv' /\ Queued' = Queued /\ Given' = Given
<1>1. Queued' = Queued /\ Given' = Given
  BY DEF Queued, Given
<1> QED BY <1>1 DEF QueueInv

\* A step that sends and moves nothing.
LEMMA GivenSame ==
  ASSUME GivenInv, Given' = Given, UNCHANGED <<future, move, caller>>
  PROVE  GivenInv'
<1>1. Future' = Future /\ Given' = Given /\ move' = move /\ caller' = caller
      /\ future' = future
  BY DEF Future
<1> QED BY <1>1 DEF GivenInv

\* No message is sent, and TransferFutureQueue is between its calls.
LEMMA GivenKept ==
  ASSUME GivenInv, Given' = Given, future' = future,
         \A m \in Msg : caller'[m] = "new" <=> caller[m] = "new",
         \A p \in Mover : /\ move'[p].at = "send" => move'[p] = move[p]
                          /\ move'[p].at \in Caught <=> move[p].at \in Caught
                          /\ move'[p].at \in Caught => move'[p].msg = move[p].msg,
         Given \subseteq Item, Future \subseteq Delayed
  PROVE  GivenInv'
<1>1. Future' = Future
  BY DEF Future
<1>2. \A i \in Given : i[1] \in Msg
  BY DEF Item
<1>3. Plain \subseteq Msg /\ Delayed \subseteq Msg
  BY DEF Msg
<1>4. /\ \A j, k \in 1 .. Len(future') : future'[j] = future'[k] => j = k
      /\ \A m \in Future' : caller'[m] # "new"
      /\ \A i \in Given' : caller'[i[1]] # "new"
  BY <1>1, <1>2, <1>3 DEF GivenInv
<1>5. /\ \A m \in Plain : caller'[m] # "new" => <<m, Owner>> \in Given'
      /\ \A m \in Delayed : caller'[m] # "new"
           => m \in Future' \/ \E p \in Mover : <<m, p>> \in Given'
  BY <1>1, <1>3 DEF GivenInv
<1>6. \A p \in Mover : \A m \in Future' :
        <<m, p>> \in Given' => move'[p].at \in Caught /\ move'[p].msg = m
  BY <1>1 DEF GivenInv
<1>7. ASSUME NEW p \in Mover, move'[p].at = "send"
      PROVE  /\ move'[p].msg \in Delayed
             /\ caller'[move'[p].msg] # "new"
             /\ <<move'[p].msg, p>> \notin Given'
  BY <1>3, <1>7 DEF GivenInv
<1>8. ASSUME NEW p \in Mover, move'[p].at \in Caught
      PROVE  move'[p].msg \in Delayed /\ <<move'[p].msg, p>> \in Given'
  BY <1>8 DEF GivenInv
<1> QED BY <1>4, <1>5, <1>6, <1>7, <1>8 DEF GivenInv

\* What is on the queue and on the list of delayed messages.
LEMMA ItemsTyped ==
  ASSUME TypeOK
  PROVE  Given \subseteq Item /\ Queued \subseteq Item /\ Future \subseteq Delayed
<1>1. \A k \in 1 .. Len(queue) : queue[k] \in Entry
  BY DEF TypeOK
<1>2. \A e \in Entry : e.item \in Item
  BY DEF Entry
<1>3. \A k \in 1 .. Len(future) : future[k] \in Delayed
  BY DEF TypeOK
<1> QED BY <1>1, <1>2, <1>3 DEF TypeOK, Given, Queued, Future

\* No message is begun.
LEMMA GroupsKept ==
  ASSUME GroupsApart, InUse' \subseteq InUse,
         \A t \in InUse' : worker'[t].item = worker[t].item
  PROVE  GroupsApart'
BY DEF GroupsApart, Compatible

\* No thread is started, and none is told to end while the limit is the first.
LEMMA LimitKept ==
  ASSUME LimitInv, Active' \subseteq Active,
         owner' = "run" /\ changes = 0 =>
           Running \subseteq Running' \/ Cardinality(Running') >= MinThreads,
         UNCHANGED <<maxThreads, changes>>, owner' = "run" => owner = "run",
         \A m \in Msg : caller'[m] = "sent" <=> caller[m] = "sent",
         \A t \in Thread : worker'[t].at \in Counted =>
           \/ worker[t].at \in Counted /\ worker'[t].max = worker[t].max
           \/ worker'[t].max = maxThreads
  PROVE  LimitInv'
<1>1. /\ Active \in SUBSET Thread /\ Active' \in SUBSET Thread
      /\ Running \in SUBSET Thread /\ Running' \in SUBSET Thread
  BY DEF Active, Running, Thread
<1>2. /\ Cardinality(Active') <= Cardinality(Active)
      /\ Cardinality(Active') \in Nat /\ Cardinality(Active) \in Nat
  BY <1>1, ThreadSets, FS_Subset
<1>3. maxThreads' \in MaxChoices \cup {MaxThreads} /\ ThreadsBounded'
  <2>1. PICK n \in MaxChoices \cup {MaxThreads} : Cardinality(Active) <= n
    BY DEF LimitInv, ThreadsBounded
  <2>2. n \in Nat
    BY PoolAssumption
  <2> QED BY <1>2, <2>1, <2>2 DEF LimitInv, ThreadsBounded
<1>4. changes' = 0 => /\ maxThreads' = MaxThreads
                      /\ Cardinality(Active') <= MaxThreads
                      /\ \A t \in Thread : worker'[t].at \in Counted
                                             => worker'[t].max = MaxThreads
  BY <1>2, PoolAssumption DEF LimitInv, Counted
<1>5. (\A m \in Msg : caller'[m] # "sent") => Active' = {}
  BY DEF LimitInv
<1>6. KeepsMinimum'
  <2> SUFFICES ASSUME owner' = "run", changes' = 0, \E m \in Msg : caller'[m] = "sent"
               PROVE  Cardinality(Running') >= MinThreads
    BY DEF KeepsMinimum
  <2>1. Cardinality(Running) >= MinThreads
    BY DEF LimitInv, KeepsMinimum
  <2>2. Running \subseteq Running' =>
          /\ Cardinality(Running) <= Cardinality(Running')
          /\ Cardinality(Running) \in Nat /\ Cardinality(Running') \in Nat
    BY <1>1, ThreadSets, FS_Subset
  <2> QED BY <2>1, <2>2, PoolAssumption
<1> QED BY <1>3, <1>4, <1>5, <1>6 DEF LimitInv, Counted

\* AddThreads: each new thread begins its loop.
LEMMA LimitGrown ==
  ASSUME TypeOK, LimitInv, Active' = Active \cup Starting, Running' = Running \cup Starting,
         UNCHANGED <<maxThreads, changes>>, owner' = owner,
         \E m \in Msg : caller'[m] = "sent",
         \A m \in Msg : caller[m] = "sent" => caller'[m] = "sent",
         \A t \in Thread : worker'[t].at \in Counted =>
           \/ worker[t].at \in Counted /\ worker'[t].max = worker[t].max
           \/ worker'[t].max = maxThreads
  PROVE  LimitInv'
<1>1. maxThreads \in MaxChoices \cup {MaxThreads}
  BY DEF LimitInv
<1>2. /\ Starting \in SUBSET (Thread \ Active)
      /\ Cardinality(Active') = Cardinality(Active) + Cardinality(Starting)
      /\ Cardinality(Starting) = 0 \/ Cardinality(Active') <= maxThreads
      /\ Active = {} => Cardinality(Starting) >= MinThreads
  BY <1>1, StartingFits
<1>3. /\ Active \in SUBSET Thread /\ Active' \in SUBSET Thread /\ Starting \in SUBSET Thread
      /\ Running \in SUBSET Thread /\ Running' \in SUBSET Thread
  BY <1>2 DEF Active, Running
<1>4. /\ Cardinality(Active) \in Nat /\ Cardinality(Active') \in Nat
      /\ Cardinality(Starting) \in Nat
      /\ Cardinality(Running) \in Nat /\ Cardinality(Running') \in Nat
  BY <1>3, ThreadSets
<1>5. Cardinality(Running) <= Cardinality(Running') /\ Cardinality(Starting) <= Cardinality(Running')
  BY <1>3, ThreadSets, FS_Subset
<1>6. maxThreads' \in MaxChoices \cup {MaxThreads} /\ ThreadsBounded'
  <2>1. PICK n \in MaxChoices \cup {MaxThreads} : Cardinality(Active) <= n
    BY DEF LimitInv, ThreadsBounded
  <2>2. CASE Cardinality(Starting) = 0
    BY <1>1, <1>2, <1>4, <2>1, <2>2 DEF ThreadsBounded
  <2>3. CASE Cardinality(Active') <= maxThreads
    BY <1>1, <2>3 DEF ThreadsBounded
  <2> QED BY <1>2, <2>2, <2>3, <1>1
<1>7. changes' = 0 => /\ maxThreads' = MaxThreads
                      /\ Cardinality(Active') <= MaxThreads
                      /\ \A t \in Thread : worker'[t].at \in Counted
                                             => worker'[t].max = MaxThreads
  BY <1>2, <1>4, PoolAssumption DEF LimitInv, Counted
<1>8. KeepsMinimum'
  <2> SUFFICES ASSUME owner' = "run", changes' = 0
               PROVE  Cardinality(Running') >= MinThreads
    BY DEF KeepsMinimum
  <2>1. CASE \E m \in Msg : caller[m] = "sent"
    <3>1. Cardinality(Running) >= MinThreads
      BY <2>1 DEF LimitInv, KeepsMinimum
    <3> QED BY <1>4, <1>5, <3>1, PoolAssumption
  <2>2. CASE \A m \in Msg : caller[m] # "sent"
    <3>1. Cardinality(Starting) >= MinThreads
      BY <1>2, <2>2 DEF LimitInv
    <3> QED BY <1>4, <1>5, <3>1, PoolAssumption
  <2> QED BY <2>1, <2>2
<1> QED BY <1>6, <1>7, <1>8 DEF LimitInv, Counted

\* A step of one thread that takes nothing from the queue, starts nobody, and ends
\* nobody while the limit is the first.
LEMMA ThreadStep ==
  ASSUME Inv, NEW t \in Thread, NEW w \in WorkerRecord,
         worker' = [worker EXCEPT ![t] = w], WorkerOnly,
         worker[t].at \notin {"none", "transfer"}, w.at \notin {"none", "transfer"},
         w.item = worker[t].item \/ w.at \notin Holding,
         w.item # NoItem <=> w.at \in Holding, w.at \in Holding => worker[t].at \in Holding,
         w.at \in {"add", "process"} <=> worker[t].at \in {"add", "process"},
         changes = 0 => w.exit = worker[t].exit,
         w.at \in Counted => \/ worker[t].at \in Counted /\ w.max = worker[t].max
                             \/ w.max = maxThreads,
         owner \notin {"run", "notify", "poll"} => w.at \in Thinned
  PROVE  Inv'
<1>1. worker \in [Thread -> WorkerRecord]
  BY DEF Inv, TypeOK, WorkerRecord
<1>2. /\ worker' \in [Thread -> WorkerRecord] /\ worker'[t] = w
      /\ \A u \in Thread : u # t => worker'[u] = worker[u]
  BY <1>1
<1>3. UNCHANGED <<queue, future, ripe, move, caller, owner, maxThreads, disable, done,
                  refusals, changes>>
  BY DEF WorkerOnly, bounds
<1>4. /\ Active' = Active /\ Working' = Working /\ InUse' \subseteq InUse
      /\ changes = 0 => Running' = Running
  BY <1>2 DEF Active, Working, InUse, Running, Holding
<1>5. TypeOK'
  <2>1. \A u \in Thread : worker'[u].item # NoItem <=> u \in InUse'
    BY <1>2 DEF Inv, TypeOK, InUse, Holding
  <2> QED BY <1>2, <1>3, <2>1 DEF Inv, TypeOK, WorkerRecord
<1>6. QueueInv' /\ Given' = Given
  <2>1. \A u \in Working : worker'[u].item = worker[u].item
    BY <1>2 DEF Working, Holding
  <2> QED BY <1>3, <1>4, <2>1, QueueKept DEF Inv
<1>7. GivenInv'
  BY <1>3, <1>6, GivenSame DEF Inv
<1>8. PlaceInv'
  <2>1. \A u \in Thread : worker'[u].at = "transfer" <=> worker[u].at = "transfer"
    BY <1>2
  <2>2. owner \notin {"run", "notify", "poll"} => \A u \in Thread : worker'[u].at \in Thinned
    BY <1>2 DEF Inv, PlaceInv, Thinned
  <2> QED BY <1>3, <1>4, <2>1, <2>2 DEF Inv, PlaceInv, ClearFindsNone, Thinned
<1>9. LimitInv'
  <2>1. \A u \in Thread : worker'[u].at \in Counted =>
           \/ worker[u].at \in Counted /\ worker'[u].max = worker[u].max
           \/ worker'[u].max = maxThreads
    BY <1>2
  <2> QED BY <1>3, <1>4, <2>1, LimitKept DEF Inv
<1>10. GroupsApart'
  <2>1. \A u \in InUse' : worker'[u].item = worker[u].item
    BY <1>2 DEF InUse, Holding
  <2> QED BY <1>4, <2>1, GroupsKept DEF Inv
<1>11. QueueSorted'
  BY <1>3 DEF Inv, QueueSorted
<1> QED BY <1>5, <1>6, <1>7, <1>8, <1>9, <1>10, <1>11 DEF Inv
-----------------------------------------------------------------------------
(***************************************************************************)
(* The actions.                                                            *)
(***************************************************************************)
\* The empty pool.
LEMMA InitInv == Init => Inv
<1> SUFFICES ASSUME Init PROVE Inv
  OBVIOUS
<1>1. /\ queue = << >> /\ future = << >> /\ done = {} /\ Len(queue) = 0 /\ Len(future) = 0
      /\ \A t \in Thread : worker[t] = NoWorker
      /\ \A p \in Mover : move[p].at = "none"
      /\ \A m \in Msg : caller[m] = "new"
      /\ owner = "run" /\ ~disable /\ maxThreads = MaxThreads
  BY DEF Init
<1>2. Active = {} /\ InUse = {} /\ Working = {} /\ Queued = {} /\ Future = {} /\ Given = {}
  BY <1>1 DEF Active, InUse, Working, Queued, Future, Given, NoWorker
<1>3. TypeOK
  <2>1. NoWorker \in WorkerRecord
    BY DEF NoWorker, WorkerRecord, WorkerAt
  <2>2. worker \in [Thread -> WorkerRecord]
    BY <2>1 DEF Init
  <2>3. \A t \in Thread : worker[t].item # NoItem <=> t \in InUse
    BY <1>1, <1>2 DEF NoWorker
  <2>4. move \in [Mover -> [at : MoveAt, msg : Delayed \cup {NoItem}]]
    BY DEF Init, MoveAt
  <2>5. maxThreads \in Nat /\ refusals \in 0 .. Turns /\ changes \in 0 .. Turns
    BY PoolAssumption DEF Init
  <2>6. queue \in Seq(Entry) /\ future \in Seq(Delayed) /\ ripe \subseteq Delayed /\ done \subseteq Item
    BY DEF Init
  <2>7. caller \in [Msg -> {"new", "add", "sent"}] /\ disable \in BOOLEAN
    BY DEF Init
  <2> QED BY <1>1, <2>2, <2>3, <2>4, <2>5, <2>6, <2>7 DEF TypeOK, WorkerRecord
<1>4. QueueInv /\ QueueSorted
  BY <1>1, <1>2 DEF QueueInv, QueueSorted
<1>5. GivenInv
  BY <1>1, <1>2 DEF GivenInv, Caught, Msg
<1>6. Owner \in Mover /\ Thread \subseteq Mover
  BY DEF Mover
<1>7. PlaceInv
  BY <1>1, <1>2, <1>6 DEF PlaceInv, ClearFindsNone, NoWorker
<1>8. LimitInv
  <2>1. Cardinality(Active) = 0
    BY <1>2, FS_EmptySet
  <2>2. MaxThreads \in Nat /\ 0 <= MaxThreads
    BY PoolAssumption
  <2>3. ThreadsBounded
    BY <2>1, <2>2 DEF ThreadsBounded
  <2>4. KeepsMinimum
    BY <1>1 DEF KeepsMinimum
  <2> QED BY <1>1, <1>2, <2>1, <2>2, <2>3, <2>4 DEF LimitInv, NoWorker
<1>9. GroupsApart
  BY <1>2 DEF GroupsApart
<1> QED BY <1>3, <1>4, <1>5, <1>7, <1>8, <1>9 DEF Inv

\* A thread wakes up, finds its loop at an end, or nothing to take.
LEMMA QuietInv ==
  ASSUME Inv, NEW t \in Thread, Wake(t) \/ Loop(t) \/ TakeNothing(t)
  PROVE  Inv'
<1>1. worker \in [Thread -> WorkerRecord]
  BY DEF Inv, TypeOK, WorkerRecord
<1>2. /\ worker[t].item # NoItem <=> worker[t].at \in Holding
      /\ owner \notin {"run", "notify", "poll"} => disable /\ worker[t].at \in Thinned
  BY DEF Inv, TypeOK, InUse, Holding, PlaceInv, Thinned
<1>3. PICK at \in {"loop", "wait", "timeout", "take"}, late \in BOOLEAN :
        /\ worker' = [worker EXCEPT ![t] = [worker[t] EXCEPT !.at = at, !.timeout = late]]
        /\ worker[t].at \in {"wait", "loop", "take"}
        /\ owner \notin {"run", "notify", "poll"} => at \in Thinned
  <2>1. CASE Wake(t)
    BY <2>1 DEF Wake, Thinned
  <2>2. CASE Loop(t)
    <3> DEFINE at == IF worker[t].exit \/ disable THEN AfterLoop(t) ELSE "take"
    <3>1. at \in {"wait", "timeout", "take"}
      BY DEF AfterLoop
    <3>2. owner \notin {"run", "notify", "poll"} => at \in Thinned
      BY <1>2 DEF AfterLoop, Thinned
    <3>3. worker' = [worker EXCEPT ![t] = [worker[t] EXCEPT !.at = at, !.timeout = worker[t].timeout]]
      BY <1>1, <2>2 DEF Loop, Enter, WorkerRecord
    <3>4. worker[t].timeout \in BOOLEAN
      BY <1>1 DEF WorkerRecord
    <3> QED BY <2>2, <3>1, <3>2, <3>3, <3>4 DEF Loop
  <2>3. CASE TakeNothing(t)
    <3>1. AfterLoop(t) \in {"wait", "timeout"}
      BY DEF AfterLoop
    <3>2. worker' = [worker EXCEPT ![t] = [worker[t] EXCEPT !.at = AfterLoop(t),
                                                            !.timeout = worker[t].timeout]]
      BY <1>1, <2>3 DEF TakeNothing, Enter, WorkerRecord
    <3>3. worker[t].timeout \in BOOLEAN
      BY <1>1 DEF WorkerRecord
    <3> QED BY <2>3, <3>1, <3>2, <3>3 DEF TakeNothing, Thinned
  <2> QED BY <2>1, <2>2, <2>3
<1> DEFINE w == [worker[t] EXCEPT !.at = at, !.timeout = late]
<1>4. worker[t] \in WorkerRecord
  BY <1>1
<1>5. /\ w \in WorkerRecord /\ w.at = at /\ w.item = worker[t].item /\ w.exit = worker[t].exit
  BY <1>4 DEF WorkerRecord, WorkerAt
<1>6. worker[t].item = NoItem /\ at \notin Holding /\ at \notin Counted /\ worker[t].at \notin Holding
  BY <1>2, <1>3 DEF Holding, Counted
<1>7. WorkerOnly
  BY DEF Wake, Loop, TakeNothing
<1> HIDE DEF w
<1>8. worker' = [worker EXCEPT ![t] = w]
  BY <1>3 DEF w
<1>9. w.at \notin {"none", "transfer", "add", "process"} /\ w.at \notin Holding
      /\ w.at \notin Counted /\ worker[t].at \notin {"none", "transfer", "add", "process"}
  BY <1>3, <1>5, <1>6 DEF Holding
<1>10. owner \notin {"run", "notify", "poll"} => w.at \in Thinned
  BY <1>3, <1>5
<1> QED BY <1>5, <1>6, <1>7, <1>8, <1>9, <1>10, ThreadStep

\* SetIdle.
LEMMA SetIdleInv ==
  ASSUME Inv, NEW t \in Thread, SetIdle(t)
  PROVE  Inv'
<1> DEFINE w == [worker[t] EXCEPT !.at = "over", !.item = NoItem]
<1>1. worker[t] \in WorkerRecord /\ worker[t].at = "idle" /\ WorkerOnly
  BY DEF Inv, TypeOK, WorkerRecord, SetIdle
<1>2. /\ w \in WorkerRecord /\ w.at = "over" /\ w.item = NoItem /\ w.exit = worker[t].exit
      /\ w.max = worker[t].max
  BY <1>1 DEF WorkerRecord, WorkerAt
<1>3. worker' = [worker EXCEPT ![t] = w]
  BY DEF SetIdle
<1>4. owner \in {"run", "notify", "poll"}
  BY <1>1 DEF Inv, PlaceInv
<1> HIDE DEF w
<1> QED BY <1>1, <1>2, <1>3, <1>4, ThreadStep DEF Holding, Counted

\* A thread ends itself for the number of threads only after the limit was changed.
LEMMA TestOverInv ==
  ASSUME Inv, NEW t \in Thread, TestOver(t)
  PROVE  Inv'
<1> DEFINE kill == Cardinality(Active) > worker[t].max
           w == [worker[t] EXCEPT !.max = 0, !.exit = @ \/ kill,
                                  !.at = IF kill THEN AfterLoop(t) ELSE "loop"]
<1>1. worker[t] \in WorkerRecord /\ worker[t].at = "over" /\ WorkerOnly
  BY DEF Inv, TypeOK, WorkerRecord, TestOver
<1>2. AfterLoop(t) \in {"wait", "timeout"}
  BY DEF AfterLoop
<1>3. /\ w \in WorkerRecord /\ w.at \in {"wait", "timeout", "loop"} /\ w.item = worker[t].item
      /\ w.exit = (worker[t].exit \/ kill)
  BY <1>1, <1>2 DEF WorkerRecord, WorkerAt
<1>4. worker' = [worker EXCEPT ![t] = w]
  BY DEF TestOver
<1>5. owner \in {"run", "notify", "poll"} /\ worker[t].item = NoItem
  BY <1>1 DEF Inv, PlaceInv, TypeOK, InUse
<1>6. changes = 0 => w.exit = worker[t].exit
  <2>1. changes = 0 => /\ Cardinality(Active) <= MaxThreads /\ worker[t].max = MaxThreads
    BY <1>1 DEF Inv, LimitInv
  <2>2. Cardinality(Active) \in Nat /\ MaxThreads \in Nat /\ worker[t].exit \in BOOLEAN
    <3>1. Active \in SUBSET Thread
      BY DEF Active
    <3> QED BY <1>1, <3>1, ThreadSets, PoolAssumption DEF WorkerRecord
  <2>3. changes = 0 => ~kill
    BY <2>1, <2>2
  <2> QED BY <1>3, <2>2, <2>3
<1> HIDE DEF w
<1> QED BY <1>1, <1>3, <1>4, <1>5, <1>6, ThreadStep DEF Holding, Counted, Thinned

\* A thread told to end leaves.
LEMMA LeaveInv ==
  ASSUME Inv, NEW t \in Thread, Leave(t)
  PROVE  Inv'
<1>1. worker \in [Thread -> WorkerRecord] /\ worker[t].at = "wait" /\ worker[t].exit
  BY DEF Inv, TypeOK, WorkerRecord, Leave
<1>2. /\ NoWorker \in WorkerRecord /\ NoWorker.at = "none" /\ NoWorker.item = NoItem
  BY DEF NoWorker, WorkerRecord, WorkerAt
<1>3. /\ worker' \in [Thread -> WorkerRecord] /\ worker'[t] = NoWorker
      /\ \A u \in Thread : u # t => worker'[u] = worker[u]
  BY <1>1, <1>2 DEF Leave
<1>4. UNCHANGED <<queue, future, ripe, move, caller, owner, maxThreads, disable, done,
                  refusals, changes>>
  BY DEF Leave, WorkerOnly, bounds
<1>5. /\ Active' \subseteq Active /\ Working' = Working /\ InUse' = InUse /\ Running \subseteq Running'
  BY <1>1, <1>2, <1>3 DEF Active, Working, InUse, Running
<1>6. TypeOK'
  <2>1. \A u \in Thread : worker'[u].item # NoItem <=> u \in InUse'
    <3>1. \A u \in Thread : worker[u].item # NoItem <=> u \in InUse
      BY DEF Inv, TypeOK
    <3>2. t \notin InUse
      BY <1>1 DEF InUse
    <3>3. t \notin InUse' /\ worker'[t].item = NoItem
      BY <1>2, <1>3, <1>5, <3>2
    <3> QED BY <1>3, <1>5, <3>1, <3>3
  <2> QED BY <1>3, <1>4, <2>1 DEF Inv, TypeOK, WorkerRecord
<1>7. QueueInv' /\ Given' = Given
  <2>1. \A u \in Working : worker'[u].item = worker[u].item
    BY <1>1, <1>3 DEF Working
  <2> QED BY <1>4, <1>5, <2>1, QueueKept DEF Inv
<1>8. GivenInv'
  BY <1>4, <1>7, GivenSame DEF Inv
<1>9. PlaceInv'
  <2>1. \A u \in Thread : worker'[u].at = "transfer" <=> worker[u].at = "transfer"
    BY <1>1, <1>2, <1>3
  <2>2. owner \notin {"run", "notify", "poll"} => \A u \in Thread : worker'[u].at \in Thinned
    BY <1>2, <1>3 DEF Inv, PlaceInv, Thinned
  <2>3. PlaceInv /\ ClearFindsNone
    BY DEF Inv, PlaceInv
  <2>4. ClearFindsNone'
    BY <1>4, <1>5, <2>3 DEF ClearFindsNone
  <2> QED BY <1>4, <2>1, <2>2, <2>3, <2>4 DEF PlaceInv, Thinned
<1>10. LimitInv'
  <2>1. \A u \in Thread : worker'[u].at \in Counted =>
           worker[u].at \in Counted /\ worker'[u].max = worker[u].max
    BY <1>2, <1>3 DEF Counted
  <2> QED BY <1>4, <1>5, <2>1, LimitKept DEF Inv
<1>11. GroupsApart'
  <2>1. \A u \in InUse' : worker'[u].item = worker[u].item
    BY <1>1, <1>3, <1>5 DEF InUse
  <2> QED BY <1>5, <2>1, GroupsKept DEF Inv
<1>12. QueueSorted'
  BY <1>4 DEF Inv, QueueSorted
<1> QED BY <1>6, <1>7, <1>8, <1>9, <1>10, <1>11, <1>12 DEF Inv

\* A thread that may end itself leaves enough others.
LEMMA HousekeepInv ==
  ASSUME Inv, NEW t \in Thread, Housekeep(t)
  PROVE  Inv'
<1>1. worker \in [Thread -> WorkerRecord] /\ worker[t] \in WorkerRecord /\ worker[t].at = "timeout"
  BY DEF Inv, TypeOK, WorkerRecord, Housekeep, Idle
<1>2. PICK kill \in {FALSE, future = << >> /\ Cardinality(Running) > MinInternal} :
        worker' = [worker EXCEPT ![t] = [worker[t] EXCEPT !.exit = @ \/ kill, !.at = "transfer"]]
  BY DEF Housekeep, Idle
<1> DEFINE w == [worker[t] EXCEPT !.exit = @ \/ kill, !.at = "transfer"]
<1>3. /\ w \in WorkerRecord /\ w.at = "transfer" /\ w.item = worker[t].item
      /\ w.exit = (worker[t].exit \/ kill) /\ w.max = worker[t].max
  <2>1. kill \in BOOLEAN
    BY <1>2
  <2> QED BY <1>1, <2>1 DEF WorkerRecord, WorkerAt
<1>4. /\ worker' \in [Thread -> WorkerRecord] /\ worker'[t] = w
      /\ \A u \in Thread : u # t => worker'[u] = worker[u]
  BY <1>1, <1>2, <1>3
<1> HIDE DEF w
<1>5. /\ UNCHANGED <<queue, future, ripe, caller, owner, maxThreads, disable, done,
                     refusals, changes>>
      /\ move' = [move EXCEPT ![t].at = "find"]
  BY DEF Housekeep, Idle, bounds
<1>6. /\ t \in Mover /\ move \in [Mover -> [at : MoveAt, msg : Delayed \cup {NoItem}]]
      /\ move[t].at = "none" /\ t # Owner /\ Owner \in Mover
  BY <1>1, PoolAssumption DEF Inv, TypeOK, PlaceInv, Mover, MoveAt
<1>7. /\ move' \in [Mover -> [at : MoveAt, msg : Delayed \cup {NoItem}]]
      /\ move'[t].at = "find" /\ \A p \in Mover : p # t => move'[p] = move[p]
  BY <1>5, <1>6 DEF MoveAt
<1>8. /\ Active' = Active /\ Working' = Working /\ InUse' = InUse
      /\ Running' = IF kill THEN Running \ {t} ELSE Running
  BY <1>1, <1>3, <1>4 DEF Active, Working, InUse, Running, WorkerRecord
<1>9. TypeOK'
  <2>1. \A u \in Thread : worker'[u].item # NoItem <=> u \in InUse'
    BY <1>3, <1>4, <1>8 DEF Inv, TypeOK, InUse
  <2> QED BY <1>4, <1>5, <1>7, <2>1 DEF Inv, TypeOK, WorkerRecord
<1>10. QueueInv' /\ Given' = Given
  <2>1. \A u \in Working : worker'[u].item = worker[u].item
    BY <1>3, <1>4 DEF Working
  <2> QED BY <1>5, <1>8, <2>1, QueueKept DEF Inv
<1>11. GivenInv'
  <2>1. Given \subseteq Item /\ Future \subseteq Delayed
    BY ItemsTyped DEF Inv
  <2>2. \A p \in Mover : /\ move'[p].at = "send" => move'[p] = move[p]
                         /\ move'[p].at \in Caught <=> move[p].at \in Caught
                         /\ move'[p].at \in Caught => move'[p].msg = move[p].msg
    BY <1>6, <1>7 DEF Caught
  <2> QED BY <1>5, <1>10, <2>1, <2>2, GivenKept DEF Inv
<1>12. PlaceInv'
  <2>1. \A u \in Thread : worker'[u].at = "transfer" <=> move'[u].at # "none"
    BY <1>3, <1>4, <1>7 DEF Inv, PlaceInv, Mover
  <2>2. move'[Owner].at # "none" <=> owner = "flush"
    BY <1>6, <1>7 DEF Inv, PlaceInv
  <2>3. owner \notin {"run", "notify", "poll"} => \A u \in Thread : worker'[u].at \in Thinned
    BY <1>3, <1>4 DEF Inv, PlaceInv, Thinned
  <2> QED BY <1>5, <1>8, <2>1, <2>2, <2>3 DEF Inv, PlaceInv, ClearFindsNone, Thinned
<1>13. LimitInv'
  <2>1. \A u \in Thread : worker'[u].at \in Counted =>
           worker[u].at \in Counted /\ worker'[u].max = worker[u].max
    BY <1>3, <1>4 DEF Counted
  <2>2. Running \subseteq Running' \/ Cardinality(Running') >= MinThreads
    <3>1. CASE kill
      <4>1. /\ Running \in SUBSET Thread /\ Running' = Running \ {t}
        BY <1>8, <3>1 DEF Running, Active
      <4>2. /\ IsFiniteSet(Running) /\ Cardinality(Running) \in Nat
            /\ Cardinality(Running) > MinInternal
        BY <1>2, <3>1, <4>1, ThreadSets
      <4>3. Cardinality(Running') >= Cardinality(Running) - 1
        BY <4>1, <4>2, FS_RemoveElement
      <4>4. MinInternal \in Nat /\ MinThreads \in Nat /\ MinThreads <= MinInternal
        BY Minimum DEF Inv, LimitInv
      <4>5. Cardinality(Running') \in Nat
        <5>1. Running \ {t} \in SUBSET Thread
          BY <4>1
        <5> QED BY <4>1, <5>1, ThreadSets
      <4> QED BY <4>2, <4>3, <4>4, <4>5
    <3>2. CASE ~kill
      BY <1>8, <3>2
    <3> QED BY <3>1, <3>2
  <2> QED BY <1>5, <1>8, <2>1, <2>2, LimitKept DEF Inv
<1>14. GroupsApart'
  <2>1. \A u \in InUse' : worker'[u].item = worker[u].item
    BY <1>3, <1>4, <1>8 DEF InUse
  <2> QED BY <1>8, <2>1, GroupsKept DEF Inv
<1>15. QueueSorted'
  BY <1>5 DEF Inv, QueueSorted
<1> QED BY <1>9, <1>10, <1>11, <1>12, <1>13, <1>14, <1>15 DEF Inv

\* StartThreads leaves the threads alone that run.
LEMMA Started ==
  ASSUME TypeOK, LimitInv
  PROVE  /\ StartThreads \in [Thread -> WorkerRecord]
         /\ Starting \subseteq Thread /\ Starting \cap Active = {}
         /\ \A t \in Starting : /\ worker[t].at = "none"
                                /\ StartThreads[t].at = "loop" /\ ~StartThreads[t].exit
                                /\ StartThreads[t].item = NoItem
         /\ \A t \in Thread \ Starting : StartThreads[t] = worker[t]
<1>1. Starting \in SUBSET (Thread \ Active)
  BY StartingFits DEF LimitInv
<1> DEFINE w == [NoWorker EXCEPT !.at = "loop"]
<1>2. w \in WorkerRecord /\ w.at = "loop" /\ ~w.exit /\ w.item = NoItem
  BY DEF NoWorker, WorkerRecord, WorkerAt
<1>3. worker \in [Thread -> WorkerRecord]
  BY DEF TypeOK, WorkerRecord
<1>4. StartThreads = [t \in Thread |-> IF t \in Starting THEN w ELSE worker[t]]
  BY DEF StartThreads
<1> HIDE DEF w
<1>5. /\ StartThreads \in [Thread -> WorkerRecord]
      /\ \A t \in Starting : StartThreads[t] = w
      /\ \A t \in Thread \ Starting : StartThreads[t] = worker[t]
  BY <1>1, <1>2, <1>3, <1>4
<1>6. \A t \in Starting : worker[t].at = "none"
  BY <1>1 DEF Active
<1> QED BY <1>1, <1>2, <1>5, <1>6

\* AddThreads after a message was sent.
LEMMA StartStep ==
  ASSUME Inv, worker' = StartThreads,
         UNCHANGED <<queue, future, ripe, owner, maxThreads, disable, done, refusals, changes>>,
         caller' \in [Msg -> {"new", "add", "sent"}],
         move' \in [Mover -> [at : MoveAt, msg : Delayed \cup {NoItem}]],
         \E m \in Msg : caller'[m] = "sent",
         \A m \in Msg : /\ caller[m] = "sent" => caller'[m] = "sent"
                        /\ caller'[m] = "new" <=> caller[m] = "new",
         \A p \in Mover : /\ move'[p].at = "send" => move'[p] = move[p]
                          /\ move'[p].at \in Caught <=> move[p].at \in Caught
                          /\ move'[p].at \in Caught => move'[p].msg = move[p].msg
                          /\ move'[p].at = "none" <=> move[p].at = "none",
         owner # "clear"
  PROVE  Inv'
<1>1. /\ worker' \in [Thread -> WorkerRecord]
      /\ Starting \subseteq Thread /\ Starting \cap Active = {}
      /\ \A t \in Starting : /\ worker[t].at = "none"
                             /\ worker'[t].at = "loop" /\ ~worker'[t].exit
                             /\ worker'[t].item = NoItem
      /\ \A t \in Thread \ Starting : worker'[t] = worker[t]
  BY Started DEF Inv
<1>2. /\ Active' = Active \cup Starting /\ Running' = Running \cup Starting
      /\ InUse' = InUse /\ Working' = Working
  BY <1>1 DEF Active, Running, InUse, Working
<1>3. TypeOK'
  <2>1. \A u \in Thread : worker'[u].item # NoItem <=> u \in InUse'
    BY <1>1, <1>2 DEF Inv, TypeOK, InUse
  <2> QED BY <1>1, <2>1 DEF Inv, TypeOK, WorkerRecord
<1>4. \A u \in InUse : worker'[u].item = worker[u].item
  BY <1>1 DEF InUse
<1>5. QueueInv' /\ Given' = Given
  <2>1. \A u \in Working : worker'[u].item = worker[u].item
    BY <1>4 DEF Working, InUse
  <2> QED BY <1>2, <2>1, QueueKept DEF Inv
<1>6. GivenInv'
  <2>1. Given \subseteq Item /\ Future \subseteq Delayed
    BY ItemsTyped DEF Inv
  <2> QED BY <1>5, <2>1, GivenKept DEF Inv
<1>7. PlaceInv'
  <2>1. \A u \in Thread : worker'[u].at = "transfer" <=> move'[u].at # "none"
    <3>1. \A u \in Thread : worker'[u].at = "transfer" <=> worker[u].at = "transfer"
      BY <1>1
    <3> QED BY <3>1 DEF Inv, PlaceInv, Mover
  <2>2. move'[Owner].at # "none" <=> owner = "flush"
    BY DEF Inv, PlaceInv, Mover
  <2>3. owner \notin {"run", "notify", "poll"} => \A u \in Thread : worker'[u].at \in Thinned
    BY <1>1 DEF Inv, PlaceInv, Thinned
  <2>4. owner # "run" => \A m \in Msg : caller'[m] = "sent"
    BY DEF Inv, PlaceInv
  <2> QED BY <2>1, <2>2, <2>3, <2>4 DEF Inv, PlaceInv, ClearFindsNone, Thinned
<1>8. LimitInv'
  <2>1. \A u \in Thread : worker'[u].at \in Counted =>
           worker[u].at \in Counted /\ worker'[u].max = worker[u].max
    BY <1>1 DEF Counted
  <2> QED BY <1>2, <2>1, LimitGrown DEF Inv
<1>9. GroupsApart'
  BY <1>2, <1>4, GroupsKept DEF Inv
<1>10. QueueSorted'
  BY DEF Inv, QueueSorted
<1> QED BY <1>3, <1>5, <1>6, <1>7, <1>8, <1>9, <1>10 DEF Inv

\* A caller's AddThreads.
LEMMA AddInv ==
  ASSUME Inv, NEW m \in Msg, Add(m)
  PROVE  Inv'
<1>1. caller \in [Msg -> {"new", "add", "sent"}] /\ caller[m] = "add"
  BY DEF Inv, TypeOK, Add
<1>2. /\ caller' = [caller EXCEPT ![m] = "sent"] /\ worker' = StartThreads
      /\ UNCHANGED <<queue, future, ripe, move, owner, maxThreads, disable, done, refusals, changes>>
  BY DEF Add, bounds
<1>3. /\ caller' \in [Msg -> {"new", "add", "sent"}] /\ caller'[m] = "sent"
      /\ \A n \in Msg : /\ caller[n] = "sent" => caller'[n] = "sent"
                        /\ caller'[n] = "new" <=> caller[n] = "new"
  BY <1>1, <1>2
<1>4. owner # "clear"
  BY <1>1 DEF Inv, PlaceInv
<1>5. move' \in [Mover -> [at : MoveAt, msg : Delayed \cup {NoItem}]]
  BY <1>2 DEF Inv, TypeOK
<1> QED BY <1>2, <1>3, <1>4, <1>5, StartStep

\* AddThreads of TransferFutureQueue.
LEMMA AddDueInv ==
  ASSUME Inv, NEW p \in Mover, AddDue(p)
  PROVE  Inv'
<1>1. /\ move \in [Mover -> [at : MoveAt, msg : Delayed \cup {NoItem}]] /\ move[p].at = "add"
      /\ move[p].msg \in Delayed
  BY DEF Inv, TypeOK, AddDue, GivenInv, Caught
<1>2. /\ move' = [move EXCEPT ![p].at = "drop"] /\ worker' = StartThreads
      /\ UNCHANGED <<queue, future, ripe, caller, owner, maxThreads, disable, done, refusals, changes>>
  BY DEF AddDue, bounds
<1>3. /\ move' \in [Mover -> [at : MoveAt, msg : Delayed \cup {NoItem}]]
      /\ move'[p].at = "drop" /\ move'[p].msg = move[p].msg
      /\ \A q \in Mover : q # p => move'[q] = move[q]
  BY <1>1, <1>2 DEF MoveAt
<1>4. \A q \in Mover : /\ move'[q].at = "send" => move'[q] = move[q]
                       /\ move'[q].at \in Caught <=> move[q].at \in Caught
                       /\ move'[q].at \in Caught => move'[q].msg = move[q].msg
                       /\ move'[q].at = "none" <=> move[q].at = "none"
  BY <1>1, <1>3 DEF Caught
<1>5. p = Owner \/ (worker[p].at = "transfer" /\ p \in Thread)
  <2>1. \A u \in Thread : move[u].at # "none" => worker[u].at = "transfer"
    BY DEF Inv, PlaceInv
  <2>2. move[p].at # "none"
    BY <1>1
  <2> QED BY <2>1, <2>2 DEF Mover
<1>6. owner # "clear"
  <2>1. p = Owner => owner = "flush"
    BY <1>1 DEF Inv, PlaceInv
  <2>2. p # Owner => Active # {}
    BY <1>5 DEF Active
  <2> QED BY <2>1, <2>2 DEF Inv, PlaceInv, ClearFindsNone
<1>7. \E m \in Msg : caller[m] = "sent"
  <2>1. p = Owner => owner # "run"
    BY <1>1 DEF Inv, PlaceInv
  <2>2. p # Owner => Active # {}
    BY <1>5 DEF Active
  <2>3. move[p].msg \in Msg
    BY <1>1 DEF Msg
  <2> QED BY <2>1, <2>2, <2>3 DEF Inv, PlaceInv, LimitInv
<1>8. caller' \in [Msg -> {"new", "add", "sent"}]
  BY <1>2 DEF Inv, TypeOK
<1> QED BY <1>2, <1>3, <1>4, <1>6, <1>7, <1>8, StartStep

\* AddThreads of a thread that has taken an entry.
LEMMA AddMoreInv ==
  ASSUME Inv, NEW t \in Thread, AddMore(t)
  PROVE  Inv'
<1>1. worker \in [Thread -> WorkerRecord] /\ worker[t] \in WorkerRecord /\ worker[t].at = "add"
  BY DEF Inv, TypeOK, WorkerRecord, AddMore
<1>2. /\ worker' = [StartThreads EXCEPT ![t].at = "process", ![t].max = maxThreads]
      /\ UNCHANGED <<queue, future, ripe, move, caller, owner, maxThreads, disable, done,
                     refusals, changes>>
  BY DEF AddMore, WorkerOnly, bounds
<1>3. /\ StartThreads \in [Thread -> WorkerRecord]
      /\ Starting \subseteq Thread /\ Starting \cap Active = {}
      /\ \A u \in Starting : /\ worker[u].at = "none"
                             /\ StartThreads[u].at = "loop" /\ ~StartThreads[u].exit
                             /\ StartThreads[u].item = NoItem
      /\ \A u \in Thread \ Starting : StartThreads[u] = worker[u]
  BY Started DEF Inv
<1>4. t \notin Starting /\ StartThreads[t] = worker[t]
  BY <1>1, <1>3
<1> DEFINE w == [worker[t] EXCEPT !.at = "process", !.max = maxThreads]
<1>5. /\ w \in WorkerRecord /\ w.at = "process" /\ w.item = worker[t].item
      /\ w.exit = worker[t].exit /\ w.max = maxThreads
  <2>1. maxThreads \in Nat
    BY DEF Inv, TypeOK
  <2> QED BY <1>1, <2>1 DEF WorkerRecord, WorkerAt
<1>6. worker' = [StartThreads EXCEPT ![t] = w]
  BY <1>2, <1>3, <1>4
<1> HIDE DEF w
<1>7. /\ worker' \in [Thread -> WorkerRecord] /\ worker'[t] = w
      /\ \A u \in Thread : u # t => worker'[u] = StartThreads[u]
  BY <1>3, <1>5, <1>6
<1>8. /\ Active' = Active \cup Starting /\ Running' = Running \cup Starting
      /\ InUse' = InUse /\ Working' = Working
  BY <1>1, <1>3, <1>4, <1>5, <1>7 DEF Active, Running, InUse, Working
<1>9. \A u \in InUse : worker'[u].item = worker[u].item
  BY <1>3, <1>5, <1>7 DEF InUse
<1>10. TypeOK'
  <2>1. \A u \in Thread : worker'[u].item # NoItem <=> u \in InUse'
    <3>1. \A u \in Thread \ InUse : worker'[u].item = NoItem
      BY <1>1, <1>3, <1>7 DEF Inv, TypeOK, InUse
    <3>2. \A u \in Thread : worker[u].item # NoItem <=> u \in InUse
      BY DEF Inv, TypeOK
    <3>3. \A u \in InUse : worker'[u].item # NoItem
      BY <1>9, <3>2 DEF InUse
    <3> QED BY <1>8, <3>1, <3>3
  <2> QED BY <1>2, <1>7, <2>1 DEF Inv, TypeOK, WorkerRecord
<1>11. QueueInv' /\ Given' = Given
  <2>1. \A u \in Working : worker'[u].item = worker[u].item
    BY <1>9 DEF Working, InUse
  <2> QED BY <1>2, <1>8, <2>1, QueueKept DEF Inv
<1>12. GivenInv'
  BY <1>2, <1>11, GivenSame DEF Inv
<1>13. PlaceInv'
  <2>1. \A u \in Thread : worker'[u].at = "transfer" <=> worker[u].at = "transfer"
    BY <1>1, <1>3, <1>5, <1>7
  <2>2. owner \in {"run", "notify", "poll"}
    BY <1>1 DEF Inv, PlaceInv
  <2> QED BY <1>2, <2>1, <2>2 DEF Inv, PlaceInv, ClearFindsNone
<1>14. LimitInv'
  <2>1. \A u \in Thread : worker'[u].at \in Counted =>
           \/ worker[u].at \in Counted /\ worker'[u].max = worker[u].max
           \/ worker'[u].max = maxThreads
    BY <1>3, <1>5, <1>7 DEF Counted
  <2>2. Active # {}
    BY <1>1 DEF Active
  <2>3. \E m \in Msg : caller[m] = "sent"
    BY <2>2 DEF Inv, LimitInv
  <2> QED BY <1>2, <1>8, <2>1, <2>3, LimitGrown DEF Inv
<1>15. GroupsApart'
  BY <1>8, <1>9, GroupsKept DEF Inv
<1>16. QueueSorted'
  BY <1>2 DEF Inv, QueueSorted
<1> QED BY <1>10, <1>11, <1>12, <1>13, <1>14, <1>15, <1>16 DEF Inv

\* A thread takes an entry: its group lets it in.
LEMMA TakeInv ==
  ASSUME Inv, NEW t \in Thread, Take(t)
  PROVE  Inv'
<1>1. worker \in [Thread -> WorkerRecord] /\ worker[t] \in WorkerRecord /\ worker[t].at = "take"
  BY DEF Inv, TypeOK, WorkerRecord, Take
<1>2. PICK i \in FirstWaiting :
        /\ IfInGroup(Group[queue[i].item[1]])
        /\ worker' = [worker EXCEPT ![t].at = "add", ![t].item = queue[i].item]
        /\ queue' = [queue EXCEPT ![i].busy = TRUE]
  BY DEF Take
<1>3. UNCHANGED <<future, ripe, move, caller, owner, maxThreads, disable, done, refusals, changes>>
  BY DEF Take, bounds
<1>4. i \in 1 .. Len(queue) /\ ~queue[i].busy /\ queue[i].item \in Item
  <2>1. queue \in Seq(Entry) /\ i \in 1 .. Len(queue) /\ ~queue[i].busy
    BY DEF Inv, TypeOK, FirstWaiting
  <2>2. queue[i] \in Entry
    BY <2>1
  <2> QED BY <2>1, <2>2 DEF Entry
<1> DEFINE w == [worker[t] EXCEPT !.at = "add", !.item = queue[i].item]
<1>5. /\ w \in WorkerRecord /\ w.at = "add" /\ w.item = queue[i].item
      /\ w.exit = worker[t].exit /\ w.item # NoItem
  BY <1>1, <1>4, NoItemIsNone DEF WorkerRecord, WorkerAt
<1>6. worker' = [worker EXCEPT ![t] = w]
  BY <1>2
<1> HIDE DEF w
<1>7. /\ worker' \in [Thread -> WorkerRecord] /\ worker'[t] = w
      /\ \A u \in Thread : u # t => worker'[u] = worker[u]
  BY <1>1, <1>5, <1>6
<1>8. /\ Active' = Active /\ Running' = Running /\ InUse' = InUse \cup {t}
      /\ Working' = Working \cup {t} /\ t \notin InUse /\ t \notin Working
  BY <1>1, <1>5, <1>7 DEF Active, Running, InUse, Working
<1>9. \A u \in InUse : worker'[u].item = worker[u].item
  BY <1>7, <1>8 DEF InUse
<1>10. /\ queue' \in Seq(Entry) /\ Len(queue') = Len(queue) /\ QueueInv'
       /\ \A k \in 1 .. Len(queue) : queue'[k].item = queue[k].item
  <2>1. \A u \in Working : worker'[u].item = worker[u].item
    BY <1>9 DEF Working, InUse
  <2>2. worker'[t].item = queue[i].item
    BY <1>5, <1>7
  <2> QED BY <1>2, <1>3, <1>4, <1>8, <2>1, <2>2, MarkKeeps DEF Inv
<1>11. Queued' = Queued /\ QueueSorted'
  BY <1>10, SameItems DEF Inv
<1>12. TypeOK'
  <2>1. \A u \in Thread : worker'[u].item # NoItem <=> u \in InUse'
    BY <1>5, <1>7, <1>8 DEF Inv, TypeOK
  <2> QED BY <1>3, <1>7, <1>10, <2>1 DEF Inv, TypeOK, WorkerRecord
<1>13. GivenInv'
  <2>1. Future' = Future /\ Given' = Given /\ GivenInv
    BY <1>3, <1>11 DEF Inv, Future, Given
  <2> QED BY <1>3, <2>1 DEF GivenInv
<1>14. PlaceInv'
  <2>1. \A u \in Thread : worker'[u].at = "transfer" <=> worker[u].at = "transfer"
    BY <1>1, <1>5, <1>7
  <2>2. owner \in {"run", "notify", "poll"}
    BY <1>1 DEF Inv, PlaceInv
  <2> QED BY <1>3, <2>1, <2>2 DEF Inv, PlaceInv, ClearFindsNone
<1>15. LimitInv'
  <2>1. \A u \in Thread : worker'[u].at \in Counted =>
           worker[u].at \in Counted /\ worker'[u].max = worker[u].max
    BY <1>5, <1>7 DEF Counted
  <2> QED BY <1>3, <1>8, <2>1, LimitKept DEF Inv
<1>16. GroupsApart'
  <2>1. ASSUME NEW u \in InUse
        PROVE  /\ Compatible(Group[w.item[1]], Group[worker[u].item[1]])
               /\ Compatible(Group[worker[u].item[1]], Group[w.item[1]])
    BY <1>2, <1>5 DEF IfInGroup, Compatible
  <2>2. ASSUME NEW u \in InUse, NEW v \in InUse, u # v
        PROVE  Compatible(Group[worker[u].item[1]], Group[worker[v].item[1]])
    BY <2>2 DEF Inv, GroupsApart
  <2>3. ASSUME NEW u \in InUse', NEW v \in InUse', u # v
        PROVE  Compatible(Group[worker'[u].item[1]], Group[worker'[v].item[1]])
    <3>1. CASE u = t
      BY <1>7, <1>8, <1>9, <2>1, <2>3, <3>1
    <3>2. CASE v = t
      BY <1>7, <1>8, <1>9, <2>1, <2>3, <3>2
    <3>3. CASE u # t /\ v # t
      BY <1>8, <1>9, <2>2, <2>3, <3>3
    <3> QED BY <3>1, <3>2, <3>3
  <2> QED BY <2>3 DEF GroupsApart, Compatible
<1> QED BY <1>10, <1>11, <1>12, <1>13, <1>14, <1>15, <1>16 DEF Inv

\* DoProcess has worked on an entry, or refused it: the thread is idle next.
LEMMA Ending ==
  ASSUME Inv, NEW t \in Thread, worker[t].at = "process", Enter(t, "idle")
  PROVE  /\ worker' \in [Thread -> WorkerRecord]
         /\ t \in Working /\ worker[t].item \in Item /\ owner \in {"run", "notify", "poll"}
         /\ worker'[t].at = "idle"
         /\ Active' = Active /\ Running' = Running /\ InUse' = InUse /\ Working' = Working \ {t}
         /\ \A u \in Thread : /\ worker'[u].item = worker[u].item
                              /\ worker'[u].at = "transfer" <=> worker[u].at = "transfer"
         /\ \A u \in Thread : worker'[u].at \in Counted =>
              worker[u].at \in Counted /\ worker'[u].max = worker[u].max
<1>1. worker \in [Thread -> WorkerRecord] /\ worker[t] \in WorkerRecord
  BY DEF Inv, TypeOK, WorkerRecord
<1> DEFINE w == [worker[t] EXCEPT !.at = "idle"]
<1>2. /\ w \in WorkerRecord /\ w.at = "idle" /\ w.item = worker[t].item
      /\ w.exit = worker[t].exit /\ w.max = worker[t].max
  BY <1>1 DEF WorkerRecord, WorkerAt
<1>3. worker' = [worker EXCEPT ![t] = w]
  BY DEF Enter
<1> HIDE DEF w
<1>4. /\ worker' \in [Thread -> WorkerRecord] /\ worker'[t] = w
      /\ \A u \in Thread : u # t => worker'[u] = worker[u]
  BY <1>1, <1>2, <1>3
<1>5. /\ Active' = Active /\ Running' = Running /\ InUse' = InUse /\ Working' = Working \ {t}
  BY <1>2, <1>4 DEF Active, Running, InUse, Working
<1>6. t \in Working /\ t \in InUse
  BY DEF Working, InUse
<1>7. worker[t].item \in Item
  <2>1. worker[t].item # NoItem
    BY <1>6 DEF Inv, TypeOK
  <2> QED BY <1>1, <2>1 DEF WorkerRecord
<1>8. owner \in {"run", "notify", "poll"}
  BY DEF Inv, PlaceInv
<1>9. \A u \in Thread : /\ worker'[u].item = worker[u].item
                        /\ worker'[u].at = "transfer" <=> worker[u].at = "transfer"
  BY <1>2, <1>4
<1>10. \A u \in Thread : worker'[u].at \in Counted =>
         worker[u].at \in Counted /\ worker'[u].max = worker[u].max
  BY <1>2, <1>4 DEF Counted
<1> QED BY <1>2, <1>4, <1>5, <1>6, <1>7, <1>8, <1>9, <1>10

\* The parts that do not look at the queue, when a thread has ended its work.
LEMMA EndKeeps ==
  ASSUME Inv, NEW t \in Thread, worker[t].at = "process", Enter(t, "idle"),
         UNCHANGED <<future, ripe, move, caller, owner, maxThreads, disable, changes>>,
         queue' \in Seq(Entry), done' \subseteq Item, refusals' \in 0 .. Turns, Given' = Given
  PROVE  TypeOK' /\ GivenInv' /\ PlaceInv' /\ LimitInv' /\ GroupsApart'
<1>1. /\ worker' \in [Thread -> WorkerRecord] /\ owner \in {"run", "notify", "poll"}
      /\ Active' = Active /\ Running' = Running /\ InUse' = InUse
      /\ \A u \in Thread : /\ worker'[u].item = worker[u].item
                           /\ worker'[u].at = "transfer" <=> worker[u].at = "transfer"
      /\ \A u \in Thread : worker'[u].at \in Counted =>
           worker[u].at \in Counted /\ worker'[u].max = worker[u].max
  BY Ending
<1>2. TypeOK'
  <2>1. \A u \in Thread : worker'[u].item # NoItem <=> u \in InUse'
    BY <1>1 DEF Inv, TypeOK
  <2> QED BY <1>1, <2>1 DEF Inv, TypeOK, WorkerRecord
<1>3. GivenInv'
  <2>1. Future' = Future /\ GivenInv
    BY DEF Inv, Future
  <2> QED BY <2>1 DEF GivenInv
<1>4. PlaceInv'
  BY <1>1 DEF Inv, PlaceInv, ClearFindsNone
<1>5. LimitInv'
  BY <1>1, LimitKept DEF Inv
<1>6. GroupsApart'
  BY <1>1, GroupsKept DEF Inv, InUse
<1> QED BY <1>2, <1>3, <1>4, <1>5, <1>6

LEMMA ProcessedInv ==
  ASSUME Inv, NEW t \in Thread, Processed(t)
  PROVE  Inv'
<1>1. /\ worker[t].at = "process" /\ Enter(t, "idle")
      /\ queue' = Erased(queue, {k \in DOMAIN queue : queue[k].item = worker[t].item})
      /\ done' = done \cup {worker[t].item}
      /\ UNCHANGED <<future, ripe, move, caller, owner, maxThreads, disable, refusals, changes>>
  BY DEF Processed, bounds
<1>2. /\ t \in Working /\ worker[t].item \in Item /\ Working' = Working \ {t}
      /\ \A u \in Thread : worker'[u].item = worker[u].item
  BY <1>1, Ending
<1>3. /\ queue' \in Seq(Entry) /\ QueueInv' /\ QueueSorted' /\ Given' = Given
  <2>1. \A u \in Working \ {t} : worker'[u].item = worker[u].item
    BY <1>2 DEF Working
  <2> QED BY <1>1, <1>2, <2>1, EraseKeeps DEF Inv
<1>4. done' \subseteq Item /\ refusals' \in 0 .. Turns
  BY <1>1, <1>2 DEF Inv, TypeOK
<1> QED BY <1>1, <1>3, <1>4, EndKeeps DEF Inv

LEMMA RefusedInv ==
  ASSUME Inv, NEW t \in Thread, Refused(t)
  PROVE  Inv'
<1>1. /\ worker[t].at = "process" /\ Enter(t, "idle") /\ refusals + changes < Turns
      /\ queue' = [k \in DOMAIN queue |->
                     IF queue[k].item = worker[t].item
                     THEN [queue[k] EXCEPT !.busy = FALSE] ELSE queue[k]]
      /\ refusals' = refusals + 1
      /\ UNCHANGED <<future, ripe, move, caller, owner, maxThreads, disable, done, changes>>
  BY DEF Refused
<1>2. /\ t \in Working /\ Working' = Working \ {t}
      /\ \A u \in Thread : worker'[u].item = worker[u].item
  BY <1>1, Ending
<1>3. /\ queue' \in Seq(Entry) /\ Len(queue') = Len(queue) /\ QueueInv'
      /\ \A k \in 1 .. Len(queue) : queue'[k].item = queue[k].item
  <2>1. \A u \in Working \ {t} : worker'[u].item = worker[u].item
    BY <1>2 DEF Working
  <2> QED BY <1>1, <1>2, <2>1, UnmarkKeeps DEF Inv
<1>4. Queued' = Queued /\ QueueSorted'
  BY <1>3, SameItems DEF Inv
<1>5. done' \subseteq Item /\ Given' = Given
  BY <1>1, <1>4 DEF Inv, TypeOK, Given
<1>6. refusals' \in 0 .. Turns
  BY <1>1, PoolAssumption DEF Inv, TypeOK
<1> QED BY <1>1, <1>3, <1>4, <1>5, <1>6, EndKeeps DEF Inv
-----------------------------------------------------------------------------
(***************************************************************************)
(* The callers, and the messages that are sent later.                      *)
(***************************************************************************)
\* A step that leaves the threads and the limit alone.
LEMMA OthersKept ==
  ASSUME Inv, UNCHANGED <<worker, owner, maxThreads, disable, changes>>,
         \A m \in Msg : caller'[m] = "sent" <=> caller[m] = "sent",
         \A p \in Mover : move'[p].at = "none" <=> move[p].at = "none"
  PROVE  PlaceInv' /\ LimitInv' /\ GroupsApart'
<1>1. Active' = Active /\ Running' = Running /\ InUse' = InUse
  BY DEF Active, Running, InUse
<1>2. Owner \in Mover /\ Thread \subseteq Mover
  BY DEF Mover
<1>3. PlaceInv'
  BY <1>1, <1>2 DEF Inv, PlaceInv, ClearFindsNone
<1>4. LimitInv'
  BY <1>1, LimitKept DEF Inv
<1>5. GroupsApart'
  BY <1>1, GroupsKept DEF Inv
<1> QED BY <1>3, <1>4, <1>5

LEMMA PushInv ==
  ASSUME Inv, NEW m \in Plain, Push(m)
  PROVE  Inv'
<1>1. /\ owner = "run" /\ caller[m] = "new" /\ Insert(<<m, Owner>>)
      /\ caller' = [caller EXCEPT ![m] = "add"]
      /\ UNCHANGED <<future, ripe, worker, move, owner, maxThreads, disable, done, refusals, changes>>
  BY DEF Push, bounds
<1> DEFINE i == <<m, Owner>>
<1>2. i \in Item /\ m \in Msg /\ m \notin Delayed
  BY PoolAssumption DEF Item, Msg, Mover
<1>3. i \notin Given
  BY <1>1 DEF Inv, GivenInv
<1>4. /\ queue' \in Seq(Entry) /\ QueueInv' /\ QueueSorted' /\ Given' = Given \cup {i}
  BY <1>1, <1>2, <1>3, InsertKeeps DEF Inv
<1>5. caller \in [Msg -> {"new", "add", "sent"}]
  BY DEF Inv, TypeOK
<1>6. /\ caller' \in [Msg -> {"new", "add", "sent"}] /\ caller'[m] = "add"
      /\ \A n \in Msg : n # m => caller'[n] = caller[n]
  BY <1>1, <1>2, <1>5
<1>7. TypeOK'
  <2>1. InUse' = InUse
    BY <1>1 DEF InUse
  <2> QED BY <1>1, <1>4, <1>6, <2>1 DEF Inv, TypeOK
<1>8. GivenInv'
  <2>1. GivenInv /\ Given \subseteq Item /\ Future \subseteq Delayed /\ Future' = Future
    BY <1>1, ItemsTyped DEF Inv, Future
  <2>2. \A j \in Given : j[1] \in Msg
    BY <2>1 DEF Item
  <2>3. Plain \subseteq Msg /\ Delayed \subseteq Msg
    BY DEF Msg
  <2>4. /\ \A n \in Future' : caller'[n] # "new"
        /\ \A j \in Given' : caller'[j[1]] # "new"
        /\ \A n \in Plain : caller'[n] # "new" => <<n, Owner>> \in Given'
        /\ \A n \in Delayed : caller'[n] # "new"
             => n \in Future' \/ \E p \in Mover : <<n, p>> \in Given'
    BY <1>2, <1>4, <1>6, <2>1, <2>2, <2>3 DEF GivenInv
  <2>5. \A n \in Delayed : \A p \in Mover : <<n, p>> \in Given' <=> <<n, p>> \in Given
    BY <1>2, <1>4
  <2>6. \A p \in Mover : \A n \in Future' :
          <<n, p>> \in Given' => move'[p].at \in Caught /\ move'[p].msg = n
    BY <1>1, <2>1, <2>5 DEF GivenInv
  <2>7. \A p \in Mover :
          /\ move'[p].at = "send" => /\ move'[p].msg \in Delayed
                                     /\ caller'[move'[p].msg] # "new"
                                     /\ <<move'[p].msg, p>> \notin Given'
          /\ move'[p].at \in Caught => /\ move'[p].msg \in Delayed
                                       /\ <<move'[p].msg, p>> \in Given'
    BY <1>1, <1>2, <1>6, <2>1, <2>3, <2>5 DEF GivenInv
  <2>8. \A j, k \in 1 .. Len(future') : future'[j] = future'[k] => j = k
    BY <1>1, <2>1 DEF GivenInv
  <2> QED BY <2>4, <2>6, <2>7, <2>8 DEF GivenInv
<1>9. PlaceInv' /\ LimitInv' /\ GroupsApart'
  BY <1>1, <1>6, OthersKept
<1> QED BY <1>4, <1>7, <1>8, <1>9 DEF Inv

LEMMA SendDelayedInv ==
  ASSUME Inv, NEW m \in Delayed, SendDelayed(m)
  PROVE  Inv'
<1>1. /\ owner = "run" /\ caller[m] = "new" /\ future' = Append(future, m)
      /\ caller' = [caller EXCEPT ![m] = "add"]
      /\ UNCHANGED <<queue, ripe, worker, move, owner, maxThreads, disable, done, refusals, changes>>
  BY DEF SendDelayed, bounds
<1>2. /\ future \in Seq(Delayed) /\ Len(future) \in Nat /\ m \in Msg
      /\ caller \in [Msg -> {"new", "add", "sent"}]
  BY DEF Inv, TypeOK, Msg
<1>3. /\ future' \in Seq(Delayed) /\ Len(future') = Len(future) + 1
      /\ future'[Len(future) + 1] = m /\ \A k \in 1 .. Len(future) : future'[k] = future[k]
  BY <1>1, <1>2
<1>4. Future' = Future \cup {m}
  <2>1. 1 .. Len(future') = 1 .. Len(future) \cup {Len(future) + 1}
    BY <1>2, <1>3
  <2> QED BY <1>3, <2>1 DEF Future
<1>5. /\ caller' \in [Msg -> {"new", "add", "sent"}] /\ caller'[m] = "add"
      /\ \A n \in Msg : n # m => caller'[n] = caller[n]
  BY <1>1, <1>2
<1>6. QueueInv' /\ Given' = Given /\ QueueSorted'
  <2>1. Working' = Working
    BY <1>1 DEF Working
  <2> QED BY <1>1, <2>1, QueueKept DEF Inv, QueueSorted
<1>7. TypeOK'
  <2>1. InUse' = InUse
    BY <1>1 DEF InUse
  <2> QED BY <1>1, <1>3, <1>5, <2>1 DEF Inv, TypeOK
<1>8. GivenInv'
  <2>1. GivenInv /\ Given \subseteq Item /\ Future \subseteq Delayed
    BY ItemsTyped DEF Inv
  <2>2. \A j \in Given : j[1] \in Msg
    BY <2>1 DEF Item
  <2>3. Plain \subseteq Msg /\ Delayed \subseteq Msg /\ m \notin Plain
    BY PoolAssumption DEF Msg
  <2>4. m \notin Future /\ \A p \in Mover : <<m, p>> \notin Given
    BY <1>1, <2>1 DEF GivenInv
  <2>5. \A j, k \in 1 .. Len(future') : future'[j] = future'[k] => j = k
    <3>1. \A k \in 1 .. Len(future) : future[k] # m
      BY <2>4 DEF Future
    <3> QED BY <1>2, <1>3, <2>1, <3>1 DEF GivenInv
  <2>6. /\ \A n \in Future' : caller'[n] # "new"
        /\ \A j \in Given' : caller'[j[1]] # "new"
        /\ \A n \in Plain : caller'[n] # "new" => <<n, Owner>> \in Given'
        /\ \A n \in Delayed : caller'[n] # "new"
             => n \in Future' \/ \E p \in Mover : <<n, p>> \in Given'
    BY <1>4, <1>5, <1>6, <2>1, <2>2, <2>3 DEF GivenInv
  <2>7. \A p \in Mover : \A n \in Future' :
          <<n, p>> \in Given' => move'[p].at \in Caught /\ move'[p].msg = n
    BY <1>1, <1>4, <1>6, <2>1, <2>4 DEF GivenInv
  <2>8. \A p \in Mover :
          /\ move'[p].at = "send" => /\ move'[p].msg \in Delayed
                                     /\ caller'[move'[p].msg] # "new"
                                     /\ <<move'[p].msg, p>> \notin Given'
          /\ move'[p].at \in Caught => /\ move'[p].msg \in Delayed
                                       /\ <<move'[p].msg, p>> \in Given'
    BY <1>1, <1>5, <1>6, <2>1, <2>3 DEF GivenInv
  <2> QED BY <2>5, <2>6, <2>7, <2>8 DEF GivenInv
<1>9. PlaceInv' /\ LimitInv' /\ GroupsApart'
  BY <1>1, <1>5, OthersKept
<1> QED BY <1>6, <1>7, <1>8, <1>9 DEF Inv

\* Time passes.
LEMMA RipenInv ==
  ASSUME Inv, NEW m \in Msg, Ripen(m)
  PROVE  Inv'
<1>1. /\ ripe' = ripe \cup {m} /\ m \in Delayed
      /\ UNCHANGED <<queue, future, worker, move, caller, owner, maxThreads, disable, done,
                     refusals, changes>>
  BY DEF Ripen, bounds
<1>2. /\ Working' = Working /\ InUse' = InUse /\ Future' = Future
  BY <1>1 DEF Working, InUse, Future
<1>3. QueueInv' /\ Given' = Given /\ QueueSorted'
  BY <1>1, <1>2, QueueKept DEF Inv, QueueSorted
<1>4. TypeOK'
  BY <1>1, <1>2 DEF Inv, TypeOK
<1>5. GivenInv'
  BY <1>1, <1>2, <1>3 DEF Inv, GivenInv
<1>6. PlaceInv' /\ LimitInv' /\ GroupsApart'
  BY <1>1, OthersKept
<1> QED BY <1>3, <1>4, <1>5, <1>6 DEF Inv

LEMMA SetMaxThreadsInv ==
  ASSUME Inv, SetMaxThreads
  PROVE  Inv'
<1>1. /\ maxThreads' \in MaxChoices \ {maxThreads} /\ changes' = changes + 1
      /\ refusals + changes < Turns
      /\ UNCHANGED <<queue, future, ripe, worker, move, caller, owner, disable, done, refusals>>
  BY DEF SetMaxThreads
<1>2. /\ refusals \in 0 .. Turns /\ changes \in 0 .. Turns /\ Turns \in Nat
  BY PoolAssumption DEF Inv, TypeOK
<1>3. changes' \in 0 .. Turns /\ changes' # 0
  BY <1>1, <1>2
<1>4. /\ Working' = Working /\ InUse' = InUse /\ Future' = Future /\ Active' = Active
  BY <1>1 DEF Working, InUse, Future, Active
<1>5. QueueInv' /\ Given' = Given /\ QueueSorted'
  BY <1>1, <1>4, QueueKept DEF Inv, QueueSorted
<1>6. maxThreads' \in Nat
  BY <1>1, PoolAssumption
<1>7. TypeOK'
  BY <1>1, <1>3, <1>4, <1>6 DEF Inv, TypeOK
<1>8. GivenInv'
  BY <1>1, <1>4, <1>5 DEF Inv, GivenInv
<1>9. PlaceInv'
  BY <1>1, <1>4 DEF Inv, PlaceInv, ClearFindsNone
<1>10. LimitInv'
  BY <1>1, <1>3, <1>4 DEF Inv, LimitInv, ThreadsBounded, KeepsMinimum
<1>11. GroupsApart'
  BY <1>1, <1>4 DEF Inv, GroupsApart
<1> QED BY <1>5, <1>7, <1>8, <1>9, <1>10, <1>11 DEF Inv
-----------------------------------------------------------------------------
(***************************************************************************)
(* TransferFutureQueue.                                                    *)
(***************************************************************************)
Move == [at : MoveAt, msg : Delayed \cup {NoItem}]

\* The message found was not put on the queue by this thread: it would be at work on it.
LEMMA FindInv ==
  ASSUME Inv, NEW p \in Mover, Find(p)
  PROVE  Inv'
<1>1. /\ move[p].at = "find"
      /\ UNCHANGED <<queue, future, ripe, worker, caller, owner, maxThreads, disable, done,
                     refusals, changes>>
  BY DEF Find, bounds
<1>2. PICK i \in Due(p) : move' = [move EXCEPT ![p] = [at |-> "send", msg |-> future[i]]]
  BY DEF Find
<1>3. future \in Seq(Delayed) /\ i \in 1 .. Len(future) /\ future[i] \in Delayed
  BY DEF Inv, TypeOK, Due
<1>4. future[i] \in Future
  BY <1>3 DEF Future
<1>5. /\ move \in [Mover -> Move] /\ [at |-> "send", msg |-> future[i]] \in Move
  BY <1>3 DEF Inv, TypeOK, Move, MoveAt
<1>6. /\ move' \in [Mover -> Move] /\ move'[p].at = "send" /\ move'[p].msg = future[i]
      /\ \A q \in Mover : q # p => move'[q] = move[q]
  BY <1>2, <1>5
<1>7. /\ Working' = Working /\ InUse' = InUse /\ Future' = Future
  BY <1>1 DEF Working, InUse, Future
<1>8. QueueInv' /\ Given' = Given /\ QueueSorted'
  BY <1>1, <1>7, QueueKept DEF Inv, QueueSorted
<1>9. TypeOK'
  BY <1>1, <1>6, <1>7 DEF Inv, TypeOK, Move
<1>10. GivenInv'
  <2>1. GivenInv
    BY DEF Inv
  <2>2. caller[future[i]] # "new" /\ <<future[i], p>> \notin Given
    BY <1>1, <1>4, <2>1 DEF GivenInv, Caught
  <2>3. \A q \in Mover : \A n \in Future' :
          <<n, q>> \in Given' => move'[q].at \in Caught /\ move'[q].msg = n
    <3> SUFFICES ASSUME NEW q \in Mover, NEW n \in Future, <<n, q>> \in Given
                 PROVE  move'[q].at \in Caught /\ move'[q].msg = n
      BY <1>7, <1>8
    <3>1. move[q].at \in Caught /\ move[q].msg = n
      BY <2>1 DEF GivenInv
    <3>2. q # p
      BY <1>1, <3>1 DEF Caught
    <3> QED BY <1>6, <3>1, <3>2
  <2>4. \A q \in Mover :
          /\ move'[q].at = "send" => /\ move'[q].msg \in Delayed
                                     /\ caller'[move'[q].msg] # "new"
                                     /\ <<move'[q].msg, q>> \notin Given'
          /\ move'[q].at \in Caught => /\ move'[q].msg \in Delayed
                                       /\ <<move'[q].msg, q>> \in Given'
    <3> SUFFICES ASSUME NEW q \in Mover
                 PROVE  /\ move'[q].at = "send" => /\ move'[q].msg \in Delayed
                                                   /\ caller[move'[q].msg] # "new"
                                                   /\ <<move'[q].msg, q>> \notin Given
                        /\ move'[q].at \in Caught => /\ move'[q].msg \in Delayed
                                                     /\ <<move'[q].msg, q>> \in Given
      BY <1>1, <1>8
    <3>1. CASE q = p
      BY <1>3, <1>6, <2>2, <3>1 DEF Caught
    <3>2. CASE q # p
      BY <1>6, <2>1, <3>2 DEF GivenInv
    <3> QED BY <3>1, <3>2
  <2> QED BY <1>1, <1>7, <1>8, <2>1, <2>3, <2>4 DEF GivenInv
<1>11. PlaceInv' /\ LimitInv' /\ GroupsApart'
  BY <1>1, <1>6, OthersKept
<1> QED BY <1>8, <1>9, <1>10, <1>11 DEF Inv

LEMMA FindNoneInv ==
  ASSUME Inv, NEW p \in Mover, FindNone(p)
  PROVE  Inv'
<1>1. /\ move[p].at = "find" /\ move' = [move EXCEPT ![p].at = "none"]
      /\ UNCHANGED <<queue, future, ripe, caller, maxThreads, disable, done, refusals, changes>>
  BY DEF FindNone, bounds
<1>2. move \in [Mover -> Move] /\ move[p] \in Move
  BY DEF Inv, TypeOK, Move
<1>3. /\ move' \in [Mover -> Move] /\ move'[p].at = "none"
      /\ \A q \in Mover : q # p => move'[q] = move[q]
  BY <1>1, <1>2 DEF Move, MoveAt
<1>4. \A q \in Mover : /\ move'[q].at = "send" => move'[q] = move[q]
                       /\ move'[q].at \in Caught <=> move[q].at \in Caught
                       /\ move'[q].at \in Caught => move'[q].msg = move[q].msg
  BY <1>1, <1>3 DEF Caught
<1>5. Given \subseteq Item /\ Future \subseteq Delayed /\ worker \in [Thread -> WorkerRecord]
      /\ Owner \in Mover /\ Thread \subseteq Mover /\ Owner \notin Thread
  BY ItemsTyped, PoolAssumption DEF Inv, Mover, TypeOK, WorkerRecord
<1>6. CASE p = Owner
  <2>1. owner = "flush" /\ owner' = "destroy" /\ worker' = worker
    BY <1>1, <1>6 DEF FindNone, Inv, PlaceInv
  <2>2. Active' = Active /\ Running' = Running /\ InUse' = InUse /\ Working' = Working
    BY <2>1 DEF Active, Running, InUse, Working
  <2>3. QueueInv' /\ Given' = Given /\ QueueSorted'
    BY <1>1, <2>1, <2>2, QueueKept DEF Inv, QueueSorted
  <2>4. TypeOK'
    BY <1>1, <1>3, <2>1, <2>2 DEF Inv, TypeOK, Move
  <2>5. GivenInv'
    BY <1>1, <1>4, <1>5, <2>3, GivenKept DEF Inv
  <2>6. PlaceInv'
    BY <1>1, <1>3, <1>5, <1>6, <2>1 DEF Inv, PlaceInv, ClearFindsNone
  <2>7. LimitInv'
    BY <1>1, <2>1, <2>2, LimitKept DEF Inv
  <2>8. GroupsApart'
    BY <2>1, <2>2, GroupsKept DEF Inv
  <2> QED BY <2>3, <2>4, <2>5, <2>6, <2>7, <2>8 DEF Inv
<1>7. CASE p # Owner
  <2>1. /\ p \in Thread /\ owner' = owner
        /\ worker' = [worker EXCEPT ![p].at = "wait", ![p].timeout = FALSE]
    BY <1>7 DEF FindNone, Mover
  <2>2. worker[p] \in WorkerRecord /\ worker[p].at = "transfer" /\ worker[p].item = NoItem
    BY <1>1, <1>5, <2>1 DEF Inv, PlaceInv, TypeOK, InUse
  <2> DEFINE w == [worker[p] EXCEPT !.at = "wait", !.timeout = FALSE]
  <2>3. /\ w \in WorkerRecord /\ w.at = "wait" /\ w.item = NoItem /\ w.exit = worker[p].exit
    BY <2>2 DEF WorkerRecord, WorkerAt
  <2>4. worker' = [worker EXCEPT ![p] = w]
    BY <2>1
  <2> HIDE DEF w
  <2>5. /\ worker' \in [Thread -> WorkerRecord] /\ worker'[p] = w
        /\ \A u \in Thread : u # p => worker'[u] = worker[u]
    BY <1>5, <2>1, <2>3, <2>4
  <2>6. Active' = Active /\ Running' = Running /\ InUse' = InUse /\ Working' = Working
    BY <2>2, <2>3, <2>5 DEF Active, Running, InUse, Working
  <2>7. \A u \in InUse : worker'[u].item = worker[u].item
    BY <2>2, <2>3, <2>5 DEF InUse
  <2>8. QueueInv' /\ Given' = Given /\ QueueSorted'
    <3>1. \A u \in Working : worker'[u].item = worker[u].item
      BY <2>7 DEF Working, InUse
    <3> QED BY <1>1, <2>6, <3>1, QueueKept DEF Inv, QueueSorted
  <2>9. TypeOK'
    <3>1. \A u \in Thread : worker'[u].item # NoItem <=> u \in InUse'
      BY <2>2, <2>3, <2>5, <2>6 DEF Inv, TypeOK, InUse
    <3> QED BY <1>1, <1>3, <2>1, <2>5, <3>1 DEF Inv, TypeOK, Move, WorkerRecord
  <2>10. GivenInv'
    BY <1>1, <1>4, <1>5, <2>8, GivenKept DEF Inv
  <2>11. PlaceInv'
    <3>1. \A u \in Thread : worker'[u].at = "transfer" <=> move'[u].at # "none"
      BY <1>3, <1>5, <2>3, <2>5 DEF Inv, PlaceInv
    <3>2. move'[Owner].at # "none" <=> owner' = "flush"
      BY <1>3, <1>5, <1>7, <2>1 DEF Inv, PlaceInv
    <3>3. owner \notin {"run", "notify", "poll"} => \A u \in Thread : worker'[u].at \in Thinned
      BY <2>3, <2>5 DEF Inv, PlaceInv, Thinned
    <3> QED BY <1>1, <2>1, <2>6, <3>1, <3>2, <3>3 DEF Inv, PlaceInv, ClearFindsNone, Thinned
  <2>12. LimitInv'
    <3>1. \A u \in Thread : worker'[u].at \in Counted =>
             worker[u].at \in Counted /\ worker'[u].max = worker[u].max
      BY <2>3, <2>5 DEF Counted
    <3> QED BY <1>1, <2>1, <2>6, <3>1, LimitKept DEF Inv
  <2>13. GroupsApart'
    BY <2>6, <2>7, GroupsKept DEF Inv
  <2> QED BY <2>8, <2>9, <2>10, <2>11, <2>12, <2>13 DEF Inv
<1> QED BY <1>6, <1>7

LEMMA SendDueInv ==
  ASSUME Inv, NEW p \in Mover, SendDue(p)
  PROVE  Inv'
<1> DEFINE m == move[p].msg
           i == <<m, p>>
<1>1. /\ move[p].at = "send" /\ Insert(i) /\ move' = [move EXCEPT ![p].at = "add"]
      /\ UNCHANGED <<future, ripe, worker, caller, owner, maxThreads, disable, done,
                     refusals, changes>>
  BY DEF SendDue, bounds
<1>2. move \in [Mover -> Move] /\ move[p] \in Move
  BY DEF Inv, TypeOK, Move
<1>3. /\ move' \in [Mover -> Move] /\ move'[p].at = "add" /\ move'[p].msg = m
      /\ \A q \in Mover : q # p => move'[q] = move[q]
  BY <1>1, <1>2 DEF Move, MoveAt
<1>4. m \in Delayed /\ caller[m] # "new" /\ i \notin Given /\ i \in Item
  BY <1>1 DEF Inv, GivenInv, Item, Msg
<1>5. m \notin Plain
  BY <1>4, PoolAssumption
<1> HIDE DEF m
<1>6. /\ queue' \in Seq(Entry) /\ QueueInv' /\ QueueSorted' /\ Given' = Given \cup {i}
  BY <1>1, <1>4, InsertKeeps DEF Inv
<1>7. InUse' = InUse /\ Future' = Future
  BY <1>1 DEF InUse, Future
<1>8. TypeOK'
  BY <1>1, <1>3, <1>6, <1>7 DEF Inv, TypeOK, Move
<1>9. GivenInv'
  <2>1. GivenInv
    BY DEF Inv
  <2>2. \A n \in Msg : \A q \in Mover : <<n, q>> \in Given' <=> <<n, q>> \in Given \/ (n = m /\ q = p)
    BY <1>6
  <2>3. Delayed \subseteq Msg /\ Future \subseteq Delayed
    BY ItemsTyped DEF Msg, Inv
  <2>4. /\ \A n \in Future' : caller'[n] # "new"
        /\ \A j \in Given' : caller'[j[1]] # "new"
        /\ \A n \in Plain : caller'[n] # "new" => <<n, Owner>> \in Given'
        /\ \A n \in Delayed : caller'[n] # "new"
             => n \in Future' \/ \E q \in Mover : <<n, q>> \in Given'
    BY <1>1, <1>4, <1>6, <1>7, <2>1 DEF GivenInv
  <2>5. ASSUME NEW q \in Mover, NEW n \in Future', <<n, q>> \in Given'
        PROVE  move'[q].at \in Caught /\ move'[q].msg = n
    <3>1. CASE <<n, q>> \in Given
      <4>1. move[q].at \in Caught /\ move[q].msg = n
        BY <1>7, <2>1, <2>5, <3>1 DEF GivenInv
      <4>2. q # p
        BY <1>1, <4>1 DEF Caught
      <4> QED BY <1>3, <4>1, <4>2
    <3>2. CASE n = m /\ q = p
      BY <1>3, <3>2 DEF Caught
    <3> QED BY <1>7, <2>2, <2>3, <2>5, <3>1, <3>2
  <2>6. ASSUME NEW q \in Mover
        PROVE  /\ move'[q].at = "send" => /\ move'[q].msg \in Delayed
                                          /\ caller'[move'[q].msg] # "new"
                                          /\ <<move'[q].msg, q>> \notin Given'
               /\ move'[q].at \in Caught => /\ move'[q].msg \in Delayed
                                            /\ <<move'[q].msg, q>> \in Given'
    <3>1. CASE q = p
      BY <1>3, <1>4, <1>6, <3>1 DEF Caught
    <3>2. CASE q # p
      <4>1. move'[q] = move[q] /\ caller' = caller
        BY <1>1, <1>3, <3>2
      <4>2. \A n \in Delayed : <<n, q>> \in Given' <=> <<n, q>> \in Given
        BY <2>2, <2>3, <3>2
      <4> QED BY <2>1, <4>1, <4>2 DEF GivenInv
    <3> QED BY <3>1, <3>2
  <2>7. \A j, k \in 1 .. Len(future') : future'[j] = future'[k] => j = k
    BY <1>1, <2>1 DEF GivenInv
  <2> QED BY <2>4, <2>5, <2>6, <2>7 DEF GivenInv
<1>10. PlaceInv' /\ LimitInv' /\ GroupsApart'
  BY <1>1, <1>3, OthersKept
<1> QED BY <1>6, <1>8, <1>9, <1>10 DEF Inv

\* A message is taken off the list of delayed ones, if it is there.
LEMMA Dropped ==
  ASSUME future \in Seq(Delayed), NEW m,
         \A j, k \in 1 .. Len(future) : future[j] = future[k] => j = k,
         future' = Erased(future, {k \in DOMAIN future : future[k] = m})
  PROVE  /\ future' \in Seq(Delayed) /\ Future' = Future \ {m}
         /\ \A j, k \in 1 .. Len(future') : future'[j] = future'[k] => j = k
<1>1. Len(future) \in Nat /\ DOMAIN future = 1 .. Len(future)
  OBVIOUS
<1>2. CASE m \notin Future
  <2>1. {k \in DOMAIN future : future[k] = m} = {}
    BY <1>1, <1>2 DEF Future
  <2>2. future' = future
    BY <2>1 DEF Erased
  <2> QED BY <1>2, <2>2 DEF Future
<1>3. CASE m \in Future
  <2>1. PICK n \in 1 .. Len(future) : future[n] = m
    BY <1>3 DEF Future
  <2>2. \A k \in 1 .. Len(future) : future[k] = m <=> k = n
    BY <2>1
  <2>3. {k \in DOMAIN future : future[k] = m} = {n}
    BY <1>1, <2>1, <2>2
  <2>4. n \in Nat /\ 1 <= n /\ n <= Len(future)
    BY <1>1
  <2>5. /\ future' \in Seq(Delayed) /\ Len(future') = Len(future) - 1
        /\ \A k \in 1 .. n - 1 : future'[k] = future[k]
        /\ \A k \in n .. Len(future) - 1 : future'[k] = future[k + 1]
    <3>1. future' = Erased(future, {n})
      BY <2>3
    <3>2. /\ Erased(future, {n}) \in Seq(Delayed)
          /\ Len(Erased(future, {n})) = Len(future) - 1
          /\ \A k \in 1 .. n - 1 : Erased(future, {n})[k] = future[k]
          /\ \A k \in n .. Len(future) - 1 : Erased(future, {n})[k] = future[k + 1]
      BY <1>1, <2>1, Erasing
    <3> QED BY <3>1, <3>2
  <2> DEFINE Was(k) == IF k < n THEN k ELSE k + 1
             last == Len(future) - 1
  <2>6. 1 .. Len(future') = 1 .. last /\ last \in Int
    <3>1. last \in Int
      BY <1>1
    <3>2. Len(future') = last
      BY <2>5
    <3> QED BY <3>1, <3>2
  <2>7. ASSUME NEW k \in 1 .. Len(future')
        PROVE  Was(k) \in 1 .. Len(future) /\ Was(k) # n /\ future'[k] = future[Was(k)]
    <3>1. k \in Nat /\ 1 <= k /\ k <= Len(future) - 1
      BY <2>6
    <3>2. CASE k < n
      <4>1. k \in 1 .. n - 1 /\ k \in 1 .. Len(future) /\ Was(k) = k /\ k # n
        BY <1>1, <2>4, <3>1, <3>2
      <4> QED BY <2>5, <4>1
    <3>3. CASE k >= n
      <4>1. k \in n .. Len(future) - 1 /\ k + 1 \in 1 .. Len(future) /\ Was(k) = k + 1 /\ k + 1 # n
        BY <1>1, <2>4, <3>1, <3>3
      <4> QED BY <2>5, <4>1
    <3> QED BY <1>1, <2>4, <3>1, <3>2, <3>3
  <2>8. ASSUME NEW k \in 1 .. Len(future), k # n
        PROVE  \E j \in 1 .. Len(future') : future'[j] = future[k]
    <3>1. k \in Nat /\ 1 <= k /\ k <= Len(future) /\ (k < n \/ k > n)
      BY <1>1, <2>4, <2>8
    <3>2. CASE k < n
      <4>1. k \in 1 .. n - 1 /\ k \in 1 .. Len(future) - 1
        BY <1>1, <2>4, <3>1, <3>2
      <4> QED BY <2>5, <4>1
    <3>3. CASE k > n
      <4>1. k - 1 \in n .. Len(future) - 1 /\ k - 1 \in 1 .. Len(future) - 1 /\ (k - 1) + 1 = k
        BY <1>1, <2>4, <3>1, <3>3
      <4>2. future'[k - 1] = future[(k - 1) + 1]
        BY <2>5, <4>1
      <4> QED BY <2>5, <4>1, <4>2
    <3> QED BY <3>1, <3>2, <3>3
  <2>9. Future' = Future \ {m}
    <3>1. ASSUME NEW k \in 1 .. Len(future')
          PROVE  future'[k] \in Future \ {m}
      BY <2>2, <2>7 DEF Future
    <3>2. ASSUME NEW k \in 1 .. Len(future), future[k] # m
          PROVE  future[k] \in Future'
      BY <2>8, <2>1, <3>2 DEF Future
    <3>3. Future' \subseteq Future \ {m}
      BY <3>1 DEF Future
    <3>4. Future \ {m} \subseteq Future'
      BY <3>2 DEF Future
    <3> QED BY <3>3, <3>4
  <2>10. ASSUME NEW j \in 1 .. Len(future'), NEW k \in 1 .. Len(future'),
                future'[j] = future'[k]
         PROVE  j = k
    <3>1. /\ Was(j) \in 1 .. Len(future) /\ future'[j] = future[Was(j)]
          /\ Was(k) \in 1 .. Len(future) /\ future'[k] = future[Was(k)]
      BY <2>7
    <3> HIDE DEF Was
    <3>2. Was(j) = Was(k)
      BY <2>10, <3>1
    <3> QED BY <2>4, <2>6, <3>2 DEF Was
  <2> QED BY <2>5, <2>9, <2>10
<1> QED BY <1>2, <1>3

LEMMA DropInv ==
  ASSUME Inv, NEW p \in Mover, Drop(p)
  PROVE  Inv'
<1> DEFINE m == move[p].msg
<1>1. /\ move[p].at = "drop"
      /\ move' = [move EXCEPT ![p] = [at |-> "find", msg |-> NoItem]]
      /\ future' = Erased(future, {k \in DOMAIN future : future[k] = m})
      /\ UNCHANGED <<queue, ripe, worker, caller, owner, maxThreads, disable, done,
                     refusals, changes>>
  BY DEF Drop, bounds
<1>2. m \in Delayed /\ <<m, p>> \in Given
  BY <1>1 DEF Inv, GivenInv, Caught
<1> HIDE DEF m
<1>3. /\ move \in [Mover -> Move] /\ [at |-> "find", msg |-> NoItem] \in Move
  BY DEF Inv, TypeOK, Move, MoveAt
<1>4. /\ move' \in [Mover -> Move] /\ move'[p].at = "find"
      /\ \A q \in Mover : q # p => move'[q] = move[q]
  BY <1>1, <1>3
<1>5. /\ future' \in Seq(Delayed) /\ Future' = Future \ {m}
      /\ \A j, k \in 1 .. Len(future') : future'[j] = future'[k] => j = k
  <2>1. future \in Seq(Delayed) /\ \A j, k \in 1 .. Len(future) : future[j] = future[k] => j = k
    BY DEF Inv, TypeOK, GivenInv
  <2>2. future' = Erased(future, {k \in DOMAIN future : future[k] = m})
    BY <1>1
  <2> QED BY <2>1, <2>2, Dropped
<1>6. /\ Working' = Working /\ InUse' = InUse
  BY <1>1 DEF Working, InUse
<1>7. QueueInv' /\ Given' = Given /\ QueueSorted'
  BY <1>1, <1>6, QueueKept DEF Inv, QueueSorted
<1>8. TypeOK'
  BY <1>1, <1>4, <1>5, <1>6 DEF Inv, TypeOK, Move
<1>9. GivenInv'
  <2>1. GivenInv
    BY DEF Inv
  <2>2. \A n \in Future' : caller'[n] # "new"
    BY <1>1, <1>5, <2>1 DEF GivenInv
  <2>3. \A j \in Given' : caller'[j[1]] # "new"
    BY <1>1, <1>7, <2>1 DEF GivenInv
  <2>4. \A n \in Plain : caller'[n] # "new" => <<n, Owner>> \in Given'
    BY <1>1, <1>7, <2>1 DEF GivenInv
  <2>5. ASSUME NEW n \in Delayed, caller'[n] # "new"
        PROVE  n \in Future' \/ \E q \in Mover : <<n, q>> \in Given'
    <3>1. CASE n = m
      BY <1>2, <1>7, <3>1
    <3>2. CASE n # m
      BY <1>1, <1>5, <1>7, <2>1, <2>5, <3>2 DEF GivenInv
    <3> QED BY <3>1, <3>2
  <2>6. ASSUME NEW q \in Mover, NEW n \in Future', <<n, q>> \in Given'
        PROVE  move'[q].at \in Caught /\ move'[q].msg = n
    <3>1. move[q].at \in Caught /\ move[q].msg = n /\ n # m
      BY <1>5, <1>7, <2>1, <2>6 DEF GivenInv
    <3>2. q # p
      BY <3>1 DEF m
    <3> QED BY <1>4, <3>1, <3>2
  <2>7. ASSUME NEW q \in Mover
        PROVE  /\ move'[q].at = "send" => /\ move'[q].msg \in Delayed
                                          /\ caller'[move'[q].msg] # "new"
                                          /\ <<move'[q].msg, q>> \notin Given'
               /\ move'[q].at \in Caught => /\ move'[q].msg \in Delayed
                                            /\ <<move'[q].msg, q>> \in Given'
    <3>1. CASE q = p
      BY <1>4, <3>1 DEF Caught
    <3>2. CASE q # p
      BY <1>1, <1>4, <1>7, <2>1, <3>2 DEF GivenInv
    <3> QED BY <3>1, <3>2
  <2> QED BY <1>5, <2>2, <2>3, <2>4, <2>5, <2>6, <2>7 DEF GivenInv
<1>10. \A q \in Mover : move'[q].at = "none" <=> move[q].at = "none"
  BY <1>1, <1>4
<1>11. PlaceInv' /\ LimitInv' /\ GroupsApart'
  BY <1>1, <1>10, OthersKept
<1> QED BY <1>7, <1>8, <1>9, <1>11 DEF Inv
-----------------------------------------------------------------------------
(***************************************************************************)
(* Terminate and the destructor.                                           *)
(***************************************************************************)
\* The parts that do not look at the owner, when only the owner does a step and
\* starts nobody.
LEMMA OwnerKeeps ==
  ASSUME Inv, UNCHANGED <<queue, future, ripe, caller, maxThreads, done, refusals, changes>>,
         worker' \in [Thread -> WorkerRecord],
         \A t \in Thread : worker'[t].at = worker[t].at /\ worker'[t].item = worker[t].item
                           /\ worker'[t].max = worker[t].max,
         move' \in [Mover -> Move],
         \A p \in Mover : p # Owner => move'[p] = move[p],
         move'[Owner] = move[Owner] \/ (move'[Owner].at = "find" /\ move[Owner].at = "none"),
         owner' \in {"notify", "poll", "clear", "flush", "destroy", "join", "gone"}, disable'
  PROVE  /\ TypeOK' /\ QueueInv' /\ GivenInv' /\ LimitInv' /\ GroupsApart' /\ QueueSorted'
         /\ Active' = Active
<1>1. /\ Active' = Active /\ InUse' = InUse /\ Working' = Working
  BY DEF Active, InUse, Working
<1>2. QueueInv' /\ Given' = Given /\ QueueSorted'
  <2>1. \A t \in Working : worker'[t].item = worker[t].item
    BY DEF Working
  <2> QED BY <1>1, <2>1, QueueKept DEF Inv, QueueSorted
<1>3. TypeOK'
  <2>1. \A t \in Thread : worker'[t].item # NoItem <=> t \in InUse'
    BY <1>1 DEF Inv, TypeOK
  <2> QED BY <2>1 DEF Inv, TypeOK, Move, WorkerRecord
<1>4. GivenInv'
  <2>1. \A p \in Mover : /\ move'[p].at = "send" => move'[p] = move[p]
                         /\ move'[p].at \in Caught <=> move[p].at \in Caught
                         /\ move'[p].at \in Caught => move'[p].msg = move[p].msg
    BY DEF Caught
  <2>2. Given \subseteq Item /\ Future \subseteq Delayed
    BY ItemsTyped DEF Inv
  <2> QED BY <1>2, <2>1, <2>2, GivenKept DEF Inv
<1>5. LimitInv'
  BY <1>1, LimitKept DEF Inv, Counted
<1>6. GroupsApart'
  <2>1. \A t \in InUse' : worker'[t].item = worker[t].item
    BY DEF InUse
  <2> QED BY <1>1, <2>1, GroupsKept DEF Inv
<1> QED BY <1>1, <1>2, <1>3, <1>4, <1>5, <1>6

\* The threads are told to end; each stays where it is.
LEMMA ToldToEnd ==
  ASSUME TypeOK, TellToEnd
  PROVE  /\ worker' \in [Thread -> WorkerRecord]
         /\ \A t \in Thread : /\ worker'[t].at = worker[t].at
                              /\ worker'[t].item = worker[t].item
                              /\ worker'[t].max = worker[t].max
<1> DEFINE w(t) == [worker[t] EXCEPT !.exit = @ \/ t \in Active]
<1>1. worker' = [t \in Thread |-> w(t)]
  BY DEF TellToEnd
<1>2. ASSUME NEW t \in Thread
      PROVE  /\ w(t) \in WorkerRecord /\ w(t).at = worker[t].at
             /\ w(t).item = worker[t].item /\ w(t).max = worker[t].max
  <2>1. worker[t] \in WorkerRecord
    BY DEF TypeOK, WorkerRecord
  <2>2. (worker[t].exit \/ t \in Active) \in BOOLEAN
    OBVIOUS
  <2> QED BY <2>1, <2>2 DEF WorkerRecord
<1> HIDE DEF w
<1> QED BY <1>1, <1>2

\* The owner's steps: when the pool is closed no thread runs, and those that the flush
\* starts take nothing.
LEMMA OwnerInv ==
  ASSUME Inv, Terminate \/ TerminateNext
  PROVE  Inv'
<1>1. /\ worker \in [Thread -> WorkerRecord] /\ move \in [Mover -> Move]
      /\ Owner \in Mover /\ Thread \subseteq Mover /\ Owner \notin Thread
  BY PoolAssumption DEF Inv, TypeOK, WorkerRecord, Move, Mover
<1>2. UNCHANGED <<queue, future, ripe, caller, maxThreads, done, refusals, changes>>
  BY DEF Terminate, TerminateNext, Notify, PollAgain, PollDone, Clear, Destroy, Destroyed,
         OwnerOnly, bounds
<1>3. /\ worker' \in [Thread -> WorkerRecord]
      /\ \A t \in Thread : /\ worker'[t].at = worker[t].at
                           /\ worker'[t].item = worker[t].item
                           /\ worker'[t].max = worker[t].max
  <2>1. CASE TellToEnd
    BY <2>1, ToldToEnd DEF Inv
  <2>2. CASE worker' = worker
    BY <1>1, <2>2
  <2> QED BY <2>1, <2>2 DEF Terminate, TerminateNext, Notify, PollAgain, PollDone, Clear,
                            Destroy, Destroyed, OwnerOnly
<1>4. /\ move' \in [Mover -> Move]
      /\ \A p \in Mover : p # Owner => move'[p] = move[p]
      /\ move'[Owner] = move[Owner] \/ (move'[Owner].at = "find" /\ move[Owner].at = "none")
      /\ owner' = "flush" => move'[Owner].at = "find"
      /\ owner' # "flush" => move'[Owner].at = "none"
  <2>1. CASE Clear
    <3>1. /\ owner = "clear" /\ owner' = "flush" /\ move' = [move EXCEPT ![Owner].at = "find"]
      BY <2>1 DEF Clear
    <3>2. move[Owner].at = "none" /\ move[Owner] \in Move
      BY <1>1, <3>1 DEF Inv, PlaceInv
    <3>3. /\ move' \in [Mover -> Move] /\ move'[Owner].at = "find"
          /\ \A p \in Mover : p # Owner => move'[p] = move[p]
      BY <1>1, <3>1, <3>2 DEF Move, MoveAt
    <3> QED BY <3>1, <3>2, <3>3
  <2>2. CASE move' = move /\ owner # "flush" /\ owner' # "flush"
    <3>1. move[Owner].at = "none"
      BY <2>2 DEF Inv, PlaceInv
    <3> QED BY <1>1, <2>2, <3>1
  <2> QED BY <2>1, <2>2 DEF Terminate, TerminateNext, Notify, PollAgain, PollDone, Destroy,
                            Destroyed, OwnerOnly
<1>5. /\ owner' \in {"notify", "poll", "clear", "flush", "destroy", "join", "gone"}
      /\ disable' /\ \A m \in Msg : caller[m] = "sent"
      /\ owner' \in {"notify", "poll"}
           \/ owner \notin {"run", "notify", "poll"} \/ Active = {}
      /\ owner' = "clear" => Active = {}
  <2>1. owner # "run" => disable /\ \A m \in Msg : caller[m] = "sent"
    BY DEF Inv, PlaceInv
  <2> QED BY <2>1 DEF Terminate, TerminateNext, Notify, PollAgain, PollDone, Clear, Destroy,
                      Destroyed, OwnerOnly
<1>6. /\ TypeOK' /\ QueueInv' /\ GivenInv' /\ LimitInv' /\ GroupsApart' /\ QueueSorted'
      /\ Active' = Active
  BY <1>2, <1>3, <1>4, <1>5, OwnerKeeps
<1>7. PlaceInv'
  <2>1. \A t \in Thread : worker'[t].at = "transfer" <=> move'[t].at # "none"
    BY <1>1, <1>3, <1>4 DEF Inv, PlaceInv
  <2>2. move'[Owner].at # "none" <=> owner' = "flush"
    BY <1>4
  <2>3. disable' <=> owner' # "run"
    BY <1>5
  <2>4. owner' \notin {"run", "notify", "poll"} => \A t \in Thread : worker'[t].at \in Thinned
    <3>1. CASE Active = {}
      BY <1>3, <3>1 DEF Active, Thinned
    <3>2. CASE owner \notin {"run", "notify", "poll"}
      BY <1>3, <3>2 DEF Inv, PlaceInv, Thinned
    <3> QED BY <1>5, <3>1, <3>2
  <2>5. \A m \in Msg : caller'[m] = "sent"
    BY <1>2, <1>5
  <2>6. ClearFindsNone'
    BY <1>5, <1>6 DEF ClearFindsNone
  <2> QED BY <2>1, <2>2, <2>3, <2>4, <2>5, <2>6 DEF PlaceInv, Thinned
<1> QED BY <1>6, <1>7 DEF Inv
-----------------------------------------------------------------------------
(***************************************************************************)
(* The invariants, in every behaviour.                                     *)
(***************************************************************************)
LEMMA StutterInv ==
  ASSUME Inv, UNCHANGED vars
  PROVE  Inv'
<1>1. UNCHANGED <<queue, future, ripe, worker, move, caller, owner, maxThreads, disable, done,
                  refusals, changes>>
  BY DEF vars, bounds
<1>2. /\ Working' = Working /\ InUse' = InUse /\ Future' = Future
  BY <1>1 DEF Working, InUse, Future
<1>3. QueueInv' /\ Given' = Given /\ QueueSorted'
  BY <1>1, <1>2, QueueKept DEF Inv, QueueSorted
<1>4. TypeOK'
  BY <1>1, <1>2 DEF Inv, TypeOK
<1>5. GivenInv'
  BY <1>1, <1>2, <1>3 DEF Inv, GivenInv
<1>6. PlaceInv' /\ LimitInv' /\ GroupsApart'
  BY <1>1, OthersKept
<1> QED BY <1>3, <1>4, <1>5, <1>6 DEF Inv

LEMMA InvNext ==
  ASSUME Inv, [Next]_vars
  PROVE  Inv'
<1>1. ASSUME NEW m \in Msg, CallerNext(m) \/ Ripen(m) PROVE Inv'
  <2>1. Push(m) => m \in Plain
    BY DEF Push
  <2>2. SendDelayed(m) => m \in Delayed
    BY DEF SendDelayed
  <2> QED BY <1>1, <2>1, <2>2, PushInv, SendDelayedInv, AddInv, RipenInv DEF CallerNext
<1>2. ASSUME NEW t \in Thread, WorkerNext(t) \/ Refused(t) PROVE Inv'
  BY <1>2, QuietInv, LeaveInv, TakeInv, AddMoreInv, ProcessedInv, SetIdleInv, TestOverInv,
     HousekeepInv, RefusedInv DEF WorkerNext
<1>3. ASSUME NEW p \in Mover, MoveNext(p) PROVE Inv'
  BY <1>3, FindInv, FindNoneInv, SendDueInv, AddDueInv, DropInv DEF MoveNext
<1>4. CASE SetMaxThreads
  BY <1>4, SetMaxThreadsInv
<1>5. CASE Terminate \/ TerminateNext
  BY <1>5, OwnerInv
<1>6. CASE UNCHANGED vars
  BY <1>6, StutterInv
<1> QED BY <1>1, <1>2, <1>3, <1>4, <1>5, <1>6 DEF Next

LEMMA Invariance == Spec => []Inv
<1>1. Init => Inv
  BY InitInv
<1>2. Inv /\ [Next]_vars => Inv'
  BY InvNext
<1> QED BY <1>1, <1>2, PTL DEF Spec

\* Groups stay apart, the queue sorted, the threads between their two limits, and
\* the list of threads is cleared only when none runs (CThreadPool, ThreadPool.h).
THEOREM PoolIsSound == Spec => []PoolInv
<1>1. Inv => PoolInv
  BY DEF Inv, PoolInv, PlaceInv, LimitInv
<1> QED BY <1>1, Invariance, PTL

\* WaitForWorkFinished returns only when everything sent was worked on: nothing is in
\* transit from the delayed list to the queue without being on one of them.
THEOREM FinishedIsDone == Spec => []FinishedMeansDone
<1>1. Inv => FinishedMeansDone
  <2> SUFFICES ASSUME Inv, queue = << >>, future = << >>, NEW m \in Msg, caller[m] # "new"
               PROVE  \E p \in Mover : <<m, p>> \in done
    BY DEF FinishedMeansDone, WaitForWorkFinished
  <2>1. Queued = {} /\ Future = {}
    BY DEF Queued, Future
  <2>2. m \in Plain => <<m, Owner>> \in done
    BY <2>1 DEF Inv, GivenInv, Given
  <2>3. m \in Delayed => \E p \in Mover : <<m, p>> \in done
    BY <2>1 DEF Inv, GivenInv, Given
  <2> QED BY <2>2, <2>3 DEF Msg, Mover
<1> QED BY <1>1, Invariance, PTL
-----------------------------------------------------------------------------
(***************************************************************************)
(* The pool is a bag of work.                                              *)
(***************************************************************************)
Waiting == {queue[i].item : i \in {j \in DOMAIN queue : ~queue[j].busy}}
InWork == {worker[t].item : t \in {u \in Thread : worker[u].at \in {"add", "process"}}}
Open == owner \in {"run", "notify", "poll"}

\* What waits is what is on the queue and in nobody's hands.
LEMMA Waits ==
  ASSUME queue \in Seq(Entry), QueueInv
  PROVE  Waiting = Queued \ InWork /\ InWork \subseteq Queued
<1>1. DOMAIN queue = 1 .. Len(queue)
  OBVIOUS
<1>2. InWork = {worker[t].item : t \in Working}
  BY DEF InWork, Working
<1>3. InWork \subseteq Queued
  BY <1>2 DEF QueueInv
<1>4. \A k \in 1 .. Len(queue) : queue[k].busy <=> queue[k].item \in InWork
  BY <1>2 DEF QueueInv
<1>5. Waiting \subseteq Queued \ InWork
  BY <1>1, <1>4 DEF Waiting, Queued
<1>6. Queued \ InWork \subseteq Waiting
  BY <1>1, <1>4 DEF Waiting, Queued
<1> QED BY <1>3, <1>5, <1>6

LEMMA WaitsNext ==
  ASSUME queue' \in Seq(Entry), QueueInv'
  PROVE  Waiting' = Queued' \ InWork' /\ InWork' \subseteq Queued'
<1>1. DOMAIN queue' = 1 .. Len(queue')
  OBVIOUS
<1>2. InWork' = {worker'[t].item : t \in Working'}
  BY DEF InWork, Working
<1>3. InWork' \subseteq Queued'
  BY <1>2 DEF QueueInv
<1>4. \A k \in 1 .. Len(queue') : queue'[k].busy <=> queue'[k].item \in InWork'
  BY <1>2 DEF QueueInv
<1>5. Waiting' \subseteq Queued' \ InWork'
  BY <1>1, <1>4 DEF Waiting, Queued
<1>6. Queued' \ InWork' \subseteq Waiting'
  BY <1>1, <1>4 DEF Waiting, Queued
<1> QED BY <1>3, <1>5, <1>6

\* What each step of the bag asks for.
LEMMA BagSteps ==
  ASSUME NEW i \in Item,
         \/ /\ i \notin Waiting \cup InWork \cup done
            /\ Waiting' = Waiting \cup {i} /\ InWork' = InWork /\ done' = done /\ Open' = Open
         \/ /\ Open /\ i \in Waiting
            /\ Waiting' = Waiting \ {i} /\ InWork' = InWork \cup {i} /\ done' = done /\ Open' = Open
         \/ /\ i \in InWork
            /\ InWork' = InWork \ {i} /\ done' = done \cup {i} /\ Waiting' = Waiting /\ Open' = Open
         \/ /\ i \in InWork
            /\ InWork' = InWork \ {i} /\ Waiting' = Waiting \cup {i} /\ done' = done /\ Open' = Open
  PROVE  Bag!Next
BY DEF Bag!Next, Bag!Give, Bag!Take, Bag!Finish, Bag!PutBack, Waiting, InWork, Open

LEMMA BagQuiet ==
  ASSUME Waiting' = Waiting, InWork' = InWork, done' = done, Open' = Open
  PROVE  UNCHANGED Bag!vars
BY DEF Bag!vars, Waiting, InWork, Open

LEMMA BagCloses ==
  ASSUME Waiting' = Waiting, InWork' = InWork, done' = done, Open, ~Open', InWork = {}
  PROVE  Bag!Next
<1>1. Bag!Close
  <2>1. Open' = FALSE
    OBVIOUS
  <2> QED BY <2>1 DEF Bag!Close, Waiting, InWork, Open
<1> QED BY <1>1 DEF Bag!Next

LEMMA InWorkIs == InWork = {worker[t].item : t \in Working}
BY DEF InWork, Working

\* A step that takes nothing, ends nothing and sends nothing does nothing to the bag.
LEMMA NothingDone ==
  ASSUME queue' = queue, done' = done, Working' = Working, Open' = Open,
         \A t \in Working : worker'[t].item = worker[t].item
  PROVE  UNCHANGED Bag!vars
<1>1. Waiting' = Waiting
  BY DEF Waiting
<1>2. InWork' = InWork
  <2>1. {worker'[t].item : t \in Working'} = {worker[t].item : t \in Working}
    OBVIOUS
  <2> QED BY <2>1 DEF InWork, Working
<1> QED BY <1>1, <1>2, BagQuiet

LEMMA SentToBag ==
  ASSUME Inv, Inv', NEW i \in Item, i \notin Given, Insert(i), UNCHANGED <<worker, done, owner>>
  PROVE  Bag!Next
<1>1. Queued' = Queued \cup {i}
  BY InsertKeeps DEF Inv
<1>2. Waiting = Queued \ InWork /\ InWork \subseteq Queued
  BY Waits DEF Inv, TypeOK
<1>3. Waiting' = Queued' \ InWork'
  BY WaitsNext DEF Inv, TypeOK
<1>4. InWork' = InWork /\ Open' = Open
  BY DEF InWork, Open
<1>5. i \notin Queued /\ i \notin done
  BY DEF Given
<1> QED BY <1>1, <1>2, <1>3, <1>4, <1>5, BagSteps

LEMMA TakenFromBag ==
  ASSUME Inv, Inv', NEW t \in Thread, Take(t)
  PROVE  Bag!Next
<1>1. PICK i \in FirstWaiting :
        /\ worker' = [worker EXCEPT ![t].at = "add", ![t].item = queue[i].item]
        /\ queue' = [queue EXCEPT ![i].busy = TRUE]
  BY DEF Take
<1>2. worker[t].at = "take" /\ done' = done /\ owner' = owner
  BY DEF Take
<1>3. worker \in [Thread -> WorkerRecord] /\ queue \in Seq(Entry)
  BY DEF Inv, TypeOK, WorkerRecord
<1>4. i \in 1 .. Len(queue) /\ ~queue[i].busy /\ i \in DOMAIN queue
  BY <1>3 DEF FirstWaiting
<1> DEFINE e == queue[i].item
<1>5. e \in Item
  <2>1. queue[i] \in Entry
    BY <1>3, <1>4
  <2> QED BY <2>1 DEF Entry
<1>6. Queued' = Queued
  <2>1. /\ queue' \in Seq(Entry) /\ Len(queue') = Len(queue)
        /\ \A k \in 1 .. Len(queue) : queue'[k].item = queue[k].item
    <3>1. [queue[i] EXCEPT !.busy = TRUE] \in Entry /\ [queue[i] EXCEPT !.busy = TRUE].item = e
      <4>1. queue[i] \in Entry
        BY <1>3, <1>4
      <4> QED BY <4>1 DEF Entry
    <3>2. queue' = [queue EXCEPT ![i] = [queue[i] EXCEPT !.busy = TRUE]]
      BY <1>1
    <3> QED BY <1>3, <1>4, <3>1, <3>2
  <2> QED BY <2>1, SameItems DEF Inv
<1>7. /\ worker'[t].at = "add" /\ worker'[t].item = e
      /\ \A u \in Thread : u # t => worker'[u] = worker[u]
  BY <1>1, <1>3 DEF WorkerRecord
<1>8. InWork' = InWork \cup {e}
  <2>1. Working' = Working \cup {t} /\ t \notin Working
    BY <1>2, <1>7 DEF Working
  <2>2. InWork' = {worker'[u].item : u \in Working'}
    BY DEF InWork, Working
  <2>3. \A u \in Working : worker'[u].item = worker[u].item
    BY <1>7, <2>1 DEF Working
  <2>4. {worker'[u].item : u \in Working'} = {worker[u].item : u \in Working} \cup {e}
    BY <1>7, <2>1, <2>3
  <2> QED BY <2>2, <2>4, InWorkIs
<1>9. Waiting = Queued \ InWork /\ Waiting' = Queued' \ InWork'
  BY Waits, WaitsNext DEF Inv, TypeOK
<1>10. e \in Waiting
  BY <1>4 DEF Waiting
<1>11. Open /\ Open' = Open
  BY <1>2 DEF Inv, PlaceInv, Open
<1> HIDE DEF e
<1>12. Waiting' = Waiting \ {e}
  BY <1>6, <1>8, <1>9
<1> QED BY <1>2, <1>5, <1>8, <1>10, <1>11, <1>12, BagSteps

\* What a thread holds when it ends its work is nobody else's.
LEMMA OutOfWork ==
  ASSUME Inv, NEW t \in Thread, worker[t].at = "process", Enter(t, "idle")
  PROVE  /\ worker[t].item \in InWork /\ worker[t].item \in Queued
         /\ InWork' = InWork \ {worker[t].item}
<1>1. /\ t \in Working /\ Working' = Working \ {t}
      /\ \A u \in Thread : worker'[u].item = worker[u].item
  BY Ending
<1>2. /\ worker[t].item \in Queued
      /\ \A u \in Working : worker[u].item = worker[t].item => u = t
  BY <1>1 DEF Inv, QueueInv
<1>3. InWork' = {worker'[u].item : u \in Working'}
  BY DEF InWork, Working
<1>4. {worker'[u].item : u \in Working'} = {worker[u].item : u \in Working \ {t}}
  <2>1. Working \subseteq Thread
    BY DEF Working
  <2> QED BY <1>1, <2>1
<1>5. {worker[u].item : u \in Working \ {t}} = {worker[u].item : u \in Working} \ {worker[t].item}
  BY <1>1, <1>2
<1>6. worker[t].item \in InWork
  BY <1>1, InWorkIs
<1> QED BY <1>2, <1>3, <1>4, <1>5, <1>6, InWorkIs

LEMMA EndedInBag ==
  ASSUME Inv, Inv', NEW t \in Thread, Processed(t) \/ Refused(t)
  PROVE  Bag!Next
<1> DEFINE e == worker[t].item
<1>1. /\ worker[t].at = "process" /\ Enter(t, "idle") /\ owner' = owner
  BY DEF Processed, Refused
<1>2. /\ e \in InWork /\ e \in Queued /\ InWork' = InWork \ {e}
  BY <1>1, OutOfWork
<1>3. t \in Working /\ Working' = Working \ {t} /\ e \in Item
      /\ \A u \in Thread : worker'[u].item = worker[u].item
  BY <1>1, Ending
<1>4. \A u \in Working \ {t} : worker'[u].item = worker[u].item
  BY <1>3 DEF Working
<1>5. Waiting = Queued \ InWork /\ Waiting' = Queued' \ InWork'
  BY Waits, WaitsNext DEF Inv, TypeOK
<1>6. Open' = Open
  BY <1>1 DEF Open
<1>7. CASE Processed(t)
  <2>1. /\ queue' = Erased(queue, {k \in DOMAIN queue : queue[k].item = worker[t].item})
        /\ done' = done \cup {worker[t].item}
    BY <1>7 DEF Processed
  <2>2. Queued' = Queued \ {e}
    BY <1>3, <1>4, <2>1, EraseKeeps DEF Inv
  <2> HIDE DEF e
  <2>3. Waiting' = Waiting
    BY <1>2, <1>5, <2>2
  <2>4. done' = done \cup {e}
    BY <2>1 DEF e
  <2> QED BY <1>2, <1>3, <1>6, <2>3, <2>4, BagSteps
<1>8. CASE Refused(t)
  <2>1. /\ queue' = [k \in DOMAIN queue |->
                       IF queue[k].item = worker[t].item
                       THEN [queue[k] EXCEPT !.busy = FALSE] ELSE queue[k]]
        /\ done' = done
    BY <1>8 DEF Refused
  <2>2. /\ queue' \in Seq(Entry) /\ Len(queue') = Len(queue)
        /\ \A k \in 1 .. Len(queue) : queue'[k].item = queue[k].item
    BY <1>3, <1>4, <2>1, UnmarkKeeps DEF Inv
  <2>3. Queued' = Queued
    BY <2>2, SameItems DEF Inv
  <2> HIDE DEF e
  <2>4. Waiting' = Waiting \cup {e}
    BY <1>2, <1>5, <2>3
  <2> QED BY <1>2, <1>3, <1>6, <2>1, <2>4, BagSteps
<1> QED BY <1>7, <1>8

\* The steps that start threads, wake, end or stop them.
LEMMA ThreadsAside ==
  ASSUME Inv, NEW t \in Thread,
         \/ Wake(t) \/ Leave(t) \/ Loop(t) \/ TakeNothing(t) \/ AddMore(t) \/ SetIdle(t)
         \/ TestOver(t) \/ Housekeep(t)
  PROVE  UNCHANGED Bag!vars
<1>1. worker \in [Thread -> WorkerRecord] /\ worker[t] \in WorkerRecord
  BY DEF Inv, TypeOK, WorkerRecord
<1>2. UNCHANGED <<queue, done, owner>>
  BY DEF Wake, Leave, Loop, TakeNothing, AddMore, SetIdle, TestOver, Housekeep, Idle, WorkerOnly
<1>3. Working' = Working /\ \A u \in Working : worker'[u].item = worker[u].item
  <2>1. CASE AddMore(t)
    <3>1. /\ StartThreads \in [Thread -> WorkerRecord]
          /\ Starting \subseteq Thread /\ Starting \cap Active = {}
          /\ \A u \in Starting : worker[u].at = "none" /\ StartThreads[u].at = "loop"
          /\ \A u \in Thread \ Starting : StartThreads[u] = worker[u]
      BY Started DEF Inv
    <3>2. /\ worker' = [StartThreads EXCEPT ![t].at = "process", ![t].max = maxThreads]
          /\ worker[t].at = "add"
      BY <2>1 DEF AddMore
    <3>3. t \notin Starting
      BY <3>1, <3>2
    <3>4. /\ worker'[t].at = "process" /\ worker'[t].item = worker[t].item
          /\ \A u \in Thread : u # t => worker'[u] = StartThreads[u]
      BY <3>1, <3>2, <3>3 DEF WorkerRecord
    <3> QED BY <3>1, <3>2, <3>3, <3>4 DEF Working
  <2>2. CASE ~AddMore(t)
    <3>1. AfterLoop(t) \in {"wait", "timeout"}
      BY DEF AfterLoop
    <3>2. /\ worker[t].at \notin {"add", "process"} /\ worker'[t].at \notin {"add", "process"}
          /\ \A u \in Thread : u # t => worker'[u] = worker[u]
      BY <1>1, <2>2, <3>1 DEF Wake, Leave, Loop, TakeNothing, SetIdle, TestOver, Housekeep,
                              Idle, Enter, NoWorker, WorkerRecord
    <3> QED BY <3>2 DEF Working
  <2> QED BY <2>1, <2>2
<1>4. Open' = Open
  BY <1>2 DEF Open
<1> QED BY <1>2, <1>3, <1>4, NothingDone

\* Messages that are on their way, and AddThreads of those who send.
LEMMA SendersAside ==
  ASSUME Inv,
         \/ \E m \in Msg : SendDelayed(m) \/ Add(m) \/ Ripen(m)
         \/ SetMaxThreads
         \/ \E p \in Mover : Find(p) \/ FindNone(p) \/ AddDue(p) \/ Drop(p)
  PROVE  UNCHANGED Bag!vars
<1>1. UNCHANGED <<queue, done>>
  BY DEF SendDelayed, Add, Ripen, SetMaxThreads, Find, FindNone, AddDue, Drop
<1>2. Open' = Open
  <2>1. CASE \E p \in Mover : FindNone(p)
    <3>1. PICK p \in Mover : FindNone(p)
      BY <2>1
    <3>2. p = Owner => owner = "flush"
      BY <3>1 DEF FindNone, Inv, PlaceInv
    <3> QED BY <3>1, <3>2 DEF FindNone, Open
  <2>2. CASE owner' = owner
    BY <2>2 DEF Open
  <2> QED BY <2>1, <2>2 DEF SendDelayed, Add, Ripen, SetMaxThreads, Find, AddDue, Drop
<1>3. Working' = Working /\ \A u \in Working : worker'[u].item = worker[u].item
  <2>1. CASE worker' = StartThreads
    <3>1. /\ Starting \subseteq Thread
          /\ \A u \in Starting : worker[u].at = "none" /\ StartThreads[u].at = "loop"
          /\ \A u \in Thread \ Starting : StartThreads[u] = worker[u]
      BY Started DEF Inv
    <3> QED BY <2>1, <3>1 DEF Working
  <2>2. CASE worker' = worker
    BY <2>2 DEF Working
  <2>3. CASE \E p \in Mover : FindNone(p)
    <3>1. PICK p \in Mover : FindNone(p)
      BY <2>3
    <3>2. CASE p = Owner
      BY <2>2, <3>1, <3>2 DEF FindNone
    <3>3. CASE p # Owner
      <4>1. p \in Thread /\ worker[p].at = "transfer"
        BY <3>1, <3>3 DEF FindNone, Inv, PlaceInv, Mover
      <4>2. worker \in [Thread -> WorkerRecord] /\ worker[p] \in WorkerRecord
        BY <4>1 DEF Inv, TypeOK, WorkerRecord
      <4>3. /\ worker'[p].at = "wait" /\ \A u \in Thread : u # p => worker'[u] = worker[u]
        BY <3>1, <3>3, <4>1, <4>2 DEF FindNone, WorkerRecord
      <4> QED BY <4>1, <4>3 DEF Working
    <3> QED BY <3>2, <3>3
  <2> QED BY <2>1, <2>2, <2>3 DEF SendDelayed, Add, Ripen, SetMaxThreads, Find, AddDue, Drop
<1> QED BY <1>1, <1>2, <1>3, NothingDone

\* The owner closes the bag when it has seen that no thread runs.
LEMMA OwnerInBag ==
  ASSUME Inv, Terminate \/ TerminateNext
  PROVE  [Bag!Next]_(Bag!vars)
<1>1. UNCHANGED <<queue, done>>
  BY DEF Terminate, TerminateNext, Notify, PollAgain, PollDone, Clear, Destroy, Destroyed,
         OwnerOnly
<1>2. Working' = Working /\ \A u \in Working : worker'[u].item = worker[u].item
  <2>1. CASE TellToEnd
    <3>1. \A u \in Thread : worker'[u].at = worker[u].at /\ worker'[u].item = worker[u].item
      BY <2>1, ToldToEnd DEF Inv
    <3> QED BY <3>1 DEF Working
  <2>2. CASE worker' = worker
    BY <2>2 DEF Working
  <2> QED BY <2>1, <2>2 DEF Terminate, TerminateNext, Notify, PollAgain, PollDone, Clear,
                            Destroy, Destroyed, OwnerOnly
<1>3. CASE PollDone
  <2>1. Open /\ ~Open' /\ Active = {}
    BY <1>3 DEF PollDone, Open
  <2>2. InWork = {}
    BY <2>1 DEF InWork, Active
  <2>3. Waiting' = Waiting
    BY <1>1 DEF Waiting
  <2>4. InWork' = InWork
    <3>1. Working = {}
      BY <2>1 DEF Working, Active
    <3>2. InWork' = {worker'[u].item : u \in Working'}
      BY DEF InWork, Working
    <3> QED BY <1>2, <2>2, <3>1, <3>2
  <2>5. Bag!Next
    BY <1>1, <2>1, <2>2, <2>3, <2>4, BagCloses
  <2> QED BY <2>5
<1>4. CASE ~PollDone
  <2>1. Open' = Open
    BY <1>4 DEF Terminate, TerminateNext, Notify, PollAgain, Clear, Destroy, Destroyed,
                OwnerOnly, Open
  <2>2. UNCHANGED Bag!vars
    BY <1>1, <1>2, <2>1, NothingDone
  <2> QED BY <2>2
<1> QED BY <1>3, <1>4

LEMMA BagInit == Init => Bag!Init
<1> SUFFICES ASSUME Init PROVE Bag!Init
  OBVIOUS
<1>1. /\ queue = << >> /\ done = {} /\ owner = "run"
      /\ \A t \in Thread : worker[t].at = "none"
  BY DEF Init, NoWorker
<1>2. Waiting = {} /\ InWork = {}
  BY <1>1 DEF Waiting, InWork
<1>3. Open = TRUE
  BY <1>1 DEF Open
<1> QED BY <1>1, <1>2, <1>3 DEF Bag!Init, Waiting, InWork, Open

LEMMA BagNext ==
  ASSUME Inv, Inv', [Next]_vars
  PROVE  [Bag!Next]_(Bag!vars)
<1>1. ASSUME NEW m \in Msg, Push(m) PROVE Bag!Next
  <2>1. <<m, Owner>> \in Item /\ Insert(<<m, Owner>>) /\ UNCHANGED <<worker, done, owner>>
    BY <1>1 DEF Push, Item, Mover
  <2>2. <<m, Owner>> \notin Given
    BY <1>1 DEF Push, Inv, GivenInv
  <2> QED BY <2>1, <2>2, SentToBag
<1>2. ASSUME NEW p \in Mover, SendDue(p) PROVE Bag!Next
  <2>1. Insert(<<move[p].msg, p>>) /\ UNCHANGED <<worker, done, owner>>
    BY <1>2 DEF SendDue
  <2>2. <<move[p].msg, p>> \in Item /\ <<move[p].msg, p>> \notin Given
    BY <1>2 DEF SendDue, Inv, GivenInv, Item, Msg
  <2> QED BY <2>1, <2>2, SentToBag
<1>3. CASE UNCHANGED vars
  <2>1. UNCHANGED <<queue, done, worker, owner>>
    BY <1>3 DEF vars
  <2>2. Working' = Working /\ Open' = Open
    BY <2>1 DEF Working, Open
  <2> QED BY <2>1, <2>2, NothingDone
<1>4. CASE \E m \in Msg : CallerNext(m) \/ Ripen(m)
  BY <1>1, <1>4, SendersAside DEF CallerNext
<1>5. CASE \E t \in Thread : WorkerNext(t) \/ Refused(t)
  BY <1>5, ThreadsAside, TakenFromBag, EndedInBag DEF WorkerNext
<1>6. CASE \E p \in Mover : MoveNext(p)
  BY <1>2, <1>6, SendersAside DEF MoveNext
<1>7. CASE SetMaxThreads
  BY <1>7, SendersAside
<1>8. CASE Terminate \/ TerminateNext
  BY <1>8, OwnerInBag
<1> QED BY <1>3, <1>4, <1>5, <1>6, <1>7, <1>8 DEF Next

\* A message is worked on by one thread at a time until it is done, and by none after
\* Terminate has seen that none runs (DoWork, UpdatePerf, KillThreadQueueSRW).
THEOREM PoolIsBag == Spec => KeepsContract
<1>1. Init => Bag!Init
  BY BagInit
<1>2. Inv /\ Inv' /\ [Next]_vars => [Bag!Next]_(Bag!vars)
  BY BagNext
<1> QED BY <1>1, <1>2, Invariance, PTL DEF Spec, KeepsContract, Bag!Spec
=============================================================================
