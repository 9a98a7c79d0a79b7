-------------------------- MODULE StreamWriteProof --------------------------
(***************************************************************************)
(* Proofs about StreamWrite, for every number of blocks and queue size.    *)
(***************************************************************************)
EXTENDS StreamWrite, SequenceTheorems, TLAPS

\* The worker has not taken the last entry, nor met an error.
Working == {"none", "start", "request", "next", "wait", "send", "pop"}

Over == {"kill", "exiting", "leaving", "gone"}

\* The entry being sent is on the queue and among the sent blocks.
Taken == IF worker.pc = "pop" THEN 1 ELSE 0

Base == Len(sent) - Taken

\* Entries appended so far.
Pushed == IF main.pc \in {"push", "wait", "append"} THEN main.rec - 1 ELSE main.rec

\* What the caller knows of the file.
MainInv ==
  /\ main.last <=> main.rec = NumBlocks + 1
  /\ main.pc \in {"push", "wait", "append"} => main.rec > 0
  /\ main.pc \in {"checksum", "create"} => main.rec = 0 /\ worker.pc = "none"

\* Sent blocks and queue are one stretch of the file.
FlowInv ==
  /\ \A i \in 1..Len(sent) : sent[i] = i
  /\ worker.pc \in Working =>
       /\ Pushed = Base + Len(queue)
       /\ \A i \in 1..Len(queue) :
            queue[i] = [off |-> Base + i, last |-> Base + i = NumBlocks + 1]
  /\ worker.pc \in {"send", "pop"} => queue # << >>
  /\ worker.pc = "pop" => Len(sent) > 0

\* How the worker ends, and what the caller returns.
EndInv ==
  /\ worker.pc = "response" => Len(sent) = NumBlocks
  /\ worker.pc \in Over /\ worker.error = "none"
       => Len(sent) = NumBlocks \/ main.result # "none"
  /\ exit /\ worker.pc \notin {"exiting", "leaving", "gone"} => main.result # "none"
  /\ main.pc = "done" => NoThread
  /\ main.pc = "kill" => main.result # "none"
  /\ worker.pc = "none" => Len(sent) = 0
  /\ main.pc = "done" /\ main.result = "none"
       => worker.pc = "none" \/ Len(sent) = NumBlocks

\* The bound of the queue.
BoundInv ==
  /\ QueueBounded
  /\ ~exit /\ main.pc = "append" => Len(queue) <= MaxQueue

\* Who asked for an abort.
AskedInv ==
  /\ AbortWasAsked
  /\ worker.error = "aborted" => abort \/ main.result # "none"

Inv == TypeOK /\ MainInv /\ FlowInv /\ EndInv /\ BoundInv /\ AskedInv
-----------------------------------------------------------------------------
USE WriteAssumption

\* MainChecksum keeps the invariant.
LEMMA MainChecksumInv == Inv /\ MainChecksum => Inv'
<1> SUFFICES ASSUME Inv, MainChecksum PROVE Inv'
  OBVIOUS
<1>1. TypeOK'
  <2>1. main' \in [pc : MainPc, rec : 0..NumBlocks + 1, last : BOOLEAN, result : Errors]
    <3>1. CASE main' = [main EXCEPT !.pc = "create"]
      BY <3>1 DEF Inv, TypeOK, MainPc
    <3>2. CASE main' = [main EXCEPT !.pc = "done", !.result = "aborted"]
      BY <3>2 DEF Inv, TypeOK, MainPc, Errors
    <3>3. CASE main' = [main EXCEPT !.pc = "done", !.result = "disk"]
      BY <3>3 DEF Inv, TypeOK, MainPc, Errors
    <3> QED BY <3>1, <3>2, <3>3 DEF MainChecksum
  <2> QED BY <2>1 DEF Inv, MainChecksum, MainOnly, TypeOK
<1>2. MainInv'
  BY DEF Inv, MainChecksum, MainOnly, TestAbort, TypeOK, MainPc, MainInv
<1>3. FlowInv'
  BY DEF Inv, MainChecksum, MainOnly, TestAbort, TypeOK, MainInv, FlowInv,
     Working, Taken, Base, Pushed
<1>4. EndInv'
  BY DEF Inv, MainChecksum, MainOnly, TypeOK, MainInv, EndInv, Over, NoThread
<1>5. BoundInv'
  BY DEF Inv, MainChecksum, MainOnly, TestAbort, TypeOK, BoundInv, QueueBounded
<1>6. AskedInv'
  BY DEF Inv, MainChecksum, MainOnly, TestAbort, TypeOK, AskedInv,
     AbortWasAsked, EndInv
<1> QED BY <1>1, <1>2, <1>3, <1>4, <1>5, <1>6 DEF Inv

\* MainCreate keeps the invariant.
LEMMA MainCreateInv == Inv /\ MainCreate => Inv'
<1> SUFFICES ASSUME Inv, MainCreate PROVE Inv'
  OBVIOUS
<1>1. TypeOK'
  BY DEF Inv, MainCreate, TypeOK, MainPc, WorkerPc, Errors, Statuses
<1>2. MainInv'
  BY DEF Inv, MainCreate, TypeOK, MainPc, MainInv
<1>3. FlowInv'
  BY DEF Inv, MainCreate, TypeOK, MainInv, FlowInv, Working, Taken, Base, Pushed
<1>4. EndInv'
  BY DEF Inv, MainCreate, TypeOK, MainInv, EndInv, Over, NoThread
<1>5. BoundInv'
  BY DEF Inv, MainCreate, TypeOK, BoundInv, QueueBounded
<1>6. AskedInv'
  BY DEF Inv, MainCreate, TypeOK, AskedInv, AbortWasAsked, EndInv
<1> QED BY <1>1, <1>2, <1>3, <1>4, <1>5, <1>6 DEF Inv

\* MainRead keeps the invariant.
LEMMA MainReadInv == Inv /\ MainRead => Inv'
<1> SUFFICES ASSUME Inv, MainRead PROVE Inv'
  OBVIOUS
<1> DEFINE k == main.rec + 1
<1>a. k \in Nat /\ k = main.rec + 1 /\ main.rec \in 0..NumBlocks + 1
  BY DEF Inv, TypeOK
<1>b. \/ /\ k \in 1..NumBlocks
         /\ main' = [main EXCEPT !.pc = "push", !.rec = k]
      \/ /\ k = NumBlocks + 1
         /\ main' = [main EXCEPT !.pc = "push", !.rec = k, !.last = TRUE]
      \/ main' = [main EXCEPT !.pc = "kill", !.result = "disk"]
  BY <1>a DEF MainRead
<1>c. UNCHANGED <<worker, exit, queue, sent, progress, acc, abort>>
  BY DEF MainRead, MainOnly
<1> HIDE DEF k
<1>1. TypeOK'
  <2>0. main \in [pc : MainPc, rec : 0..NumBlocks + 1, last : BOOLEAN, result : Errors]
    BY DEF Inv, TypeOK
  <2>1. main' \in [pc : MainPc, rec : 0..NumBlocks + 1, last : BOOLEAN, result : Errors]
    <3>1. CASE k \in 1..NumBlocks /\ main' = [main EXCEPT !.pc = "push", !.rec = k]
      <4>1. k \in 0..NumBlocks + 1
        BY <3>1
      <4> QED BY <2>0, <3>1, <4>1 DEF MainPc
    <3>2. CASE /\ k = NumBlocks + 1
               /\ main' = [main EXCEPT !.pc = "push", !.rec = k, !.last = TRUE]
      <4>1. k \in 0..NumBlocks + 1
        BY <3>2
      <4> QED BY <2>0, <3>2, <4>1 DEF MainPc
    <3>3. CASE main' = [main EXCEPT !.pc = "kill", !.result = "disk"]
      BY <2>0, <3>3 DEF MainPc, Errors
    <3> QED BY <1>b, <3>1, <3>2, <3>3
  <2> QED BY <1>c, <2>1 DEF Inv, TypeOK
<1>2. MainInv'
  <2>1. CASE k \in 1..NumBlocks /\ main' = [main EXCEPT !.pc = "push", !.rec = k]
    BY <1>a, <2>1 DEF Inv, MainRead, MainOnly, TypeOK, MainPc, MainInv
  <2>2. CASE /\ k = NumBlocks + 1
             /\ main' = [main EXCEPT !.pc = "push", !.rec = k, !.last = TRUE]
    BY <1>a, <2>2 DEF Inv, MainRead, MainOnly, TypeOK, MainPc, MainInv
  <2>3. CASE main' = [main EXCEPT !.pc = "kill", !.result = "disk"]
    BY <1>a, <2>3 DEF Inv, MainRead, MainOnly, TypeOK, MainPc, MainInv
  <2> QED BY <1>b, <2>1, <2>2, <2>3
<1>3. FlowInv'
  <2>1. CASE k \in 1..NumBlocks /\ main' = [main EXCEPT !.pc = "push", !.rec = k]
    BY <1>a, <2>1 DEF Inv, MainRead, MainOnly, TypeOK, MainInv, FlowInv,
       Working, Taken, Base, Pushed
  <2>2. CASE /\ k = NumBlocks + 1
             /\ main' = [main EXCEPT !.pc = "push", !.rec = k, !.last = TRUE]
    BY <1>a, <2>2 DEF Inv, MainRead, MainOnly, TypeOK, MainInv, FlowInv,
       Working, Taken, Base, Pushed
  <2>3. CASE main' = [main EXCEPT !.pc = "kill", !.result = "disk"]
    BY <1>a, <2>3 DEF Inv, MainRead, MainOnly, TypeOK, MainInv, FlowInv,
       Working, Taken, Base, Pushed
  <2> QED BY <1>b, <2>1, <2>2, <2>3
<1>4. EndInv'
  BY DEF Inv, MainRead, MainOnly, TypeOK, EndInv, Over, NoThread
<1>5. BoundInv'
  BY DEF Inv, MainRead, MainOnly, TypeOK, BoundInv, QueueBounded
<1>6. AskedInv'
  BY DEF Inv, MainRead, MainOnly, TypeOK, AskedInv, AbortWasAsked, EndInv
<1> QED BY <1>1, <1>2, <1>3, <1>4, <1>5, <1>6 DEF Inv

\* MainJoin keeps the invariant.
LEMMA MainJoinInv == Inv /\ MainJoin => Inv'
<1> SUFFICES ASSUME Inv, MainJoin PROVE Inv'
  OBVIOUS
<1>1. TypeOK'
  <2>1. main' \in [pc : MainPc, rec : 0..NumBlocks + 1, last : BOOLEAN, result : Errors]
    BY DEF Inv, MainJoin, TypeOK, MainPc
  <2> QED BY <2>1 DEF Inv, MainJoin, MainOnly, TypeOK
<1>2. MainInv'
  BY DEF Inv, MainJoin, MainOnly, TypeOK, MainPc, MainInv
<1>3. FlowInv'
  BY DEF Inv, MainJoin, MainOnly, TypeOK, MainInv, FlowInv, Working, Taken,
     Base, Pushed
<1>4. EndInv'
  BY DEF Inv, MainJoin, MainOnly, TypeOK, EndInv, Over, NoThread
<1>5. BoundInv'
  BY DEF Inv, MainJoin, MainOnly, TypeOK, BoundInv, QueueBounded
<1>6. AskedInv'
  BY DEF Inv, MainJoin, MainOnly, TypeOK, AskedInv, AbortWasAsked, EndInv
<1> QED BY <1>1, <1>2, <1>3, <1>4, <1>5, <1>6 DEF Inv

\* The sum wraps into the range of an int.
LEMMA WrapType == \A n \in Int : Wrap(n) \in -IntLimit..IntLimit - 1
BY DEF Wrap

\* What MainAppend does to the queue.
LEMMA Appended ==
  ASSUME NEW q \in Seq(Entry), NEW e \in Entry
  PROVE  /\ Append(q, e) \in Seq(Entry)
         /\ Append(q, e) # << >>
         /\ Len(q) \in Nat
         /\ Len(Append(q, e)) = Len(q) + 1
         /\ \A i \in 1..Len(q) : Append(q, e)[i] = q[i]
         /\ Append(q, e)[Len(q) + 1] = e
BY AppendProperties, LenProperties

\* What taking the front entry does to the queue.
LEMMA Fronted ==
  ASSUME NEW q \in Seq(Entry), q # << >>
  PROVE  /\ Head(q) = q[1]
         /\ Head(q) \in Entry
         /\ Len(q) \in Nat \ {0}
         /\ Tail(q) \in Seq(Entry)
         /\ Len(Tail(q)) = Len(q) - 1
         /\ \A i \in 1..Len(Tail(q)) : Tail(q)[i] = q[i + 1]
BY HeadTailProperties, LenProperties

\* The entry the worker is about to send: the block after the sent ones, or the
\* end mark when all are sent.
LEMMA FrontEntry ==
  ASSUME Inv, worker.pc = "send"
  PROVE  /\ queue \in Seq(Entry) /\ queue # << >>
         /\ Len(queue) \in Nat \ {0} /\ Len(sent) \in Nat
         /\ Head(queue).off = Len(sent) + 1
         /\ Head(queue).last <=> Len(sent) = NumBlocks
         /\ Len(sent) <= NumBlocks
<1>1. /\ queue \in Seq(Entry) /\ queue # << >>
      /\ Len(queue) \in Nat \ {0} /\ Head(queue) = queue[1]
  BY Fronted DEF Inv, TypeOK, FlowInv
<1>2. Base = Len(sent) /\ Len(sent) \in Nat
  BY DEF Inv, TypeOK, Base, Taken
<1>3. /\ Pushed = Len(sent) + Len(queue)
      /\ queue[1] = [off |-> Len(sent) + 1, last |-> Len(sent) + 1 = NumBlocks + 1]
  <2>1. /\ Pushed = Base + Len(queue)
        /\ \A i \in 1..Len(queue) :
             queue[i] = [off |-> Base + i, last |-> Base + i = NumBlocks + 1]
    BY DEF Inv, FlowInv, Working
  <2>2. 1 \in 1..Len(queue)
    BY <1>1
  <2> QED BY <1>2, <2>1, <2>2
<1>4. Pushed \in 0..NumBlocks + 1
  BY DEF Inv, TypeOK, MainInv, Pushed
<1>5. /\ Head(queue).off = Len(sent) + 1
      /\ Head(queue).last = (Len(sent) + 1 = NumBlocks + 1)
  <2> DEFINE b == Len(sent) + 1 = NumBlocks + 1
  <2>1. Head(queue) = [off |-> Len(sent) + 1, last |-> b]
    BY <1>1, <1>3
  <2> HIDE DEF b
  <2>2. Head(queue).off = Len(sent) + 1 /\ Head(queue).last = b
    BY <2>1
  <2> QED BY <2>2 DEF b
<1>6. Len(sent) + 1 = NumBlocks + 1 <=> Len(sent) = NumBlocks
  BY <1>2
<1>7. Len(sent) <= NumBlocks
  BY <1>1, <1>2, <1>3, <1>4
<1> QED BY <1>1, <1>2, <1>5, <1>6, <1>7

\* A request that fails keeps the invariant, if an abort it reports was asked for
\* or is the caller's own.
LEMMA FailedInv ==
  ASSUME Inv, NEW e \in Errors \ {"none"}, Failed(e),
         worker.pc \in {"request", "wait", "send", "response"},
         e = "aborted" => abort \/ exit
  PROVE  Inv'
<1>1. TypeOK'
  <2>1. progress' \in Int
    <3>1. -acc \in Int
      BY DEF Inv, TypeOK
    <3>2. Wrap(-acc) \in Int
      BY <3>1, WrapType
    <3> QED BY <3>2 DEF Inv, TypeOK, Failed
  <2>2. acc' \in -IntLimit..IntLimit - 1
    BY DEF Failed
  <2> QED BY <2>1, <2>2 DEF Inv, Failed, TypeOK, WorkerPc
<1>2. MainInv'
  BY DEF Inv, Failed, TypeOK, MainInv
<1>3. FlowInv'
  BY DEF Inv, Failed, TypeOK, FlowInv, Working
<1>4. EndInv'
  BY DEF Inv, Failed, TypeOK, EndInv, Over, NoThread
<1>5. BoundInv'
  BY DEF Inv, Failed, TypeOK, BoundInv, QueueBounded
<1>6. AskedInv'
  BY DEF Inv, Failed, TypeOK, AskedInv, AbortWasAsked, EndInv
<1> QED BY <1>1, <1>2, <1>3, <1>4, <1>5, <1>6 DEF Inv

\* MainAppend keeps the invariant.
LEMMA MainAppendInv == Inv /\ MainAppend => Inv'
<1> SUFFICES ASSUME Inv, MainAppend PROVE Inv'
  OBVIOUS
<1> DEFINE e == [off |-> main.rec, last |-> main.last]
<1>a. e \in Entry
  BY DEF Inv, TypeOK, Entry
<1>b. /\ queue \in Seq(Entry) /\ queue' \in Seq(Entry) /\ queue' # << >>
      /\ Len(queue) \in Nat
      /\ Len(queue') = Len(queue) + 1
      /\ \A i \in 1..Len(queue) : queue'[i] = queue[i]
      /\ queue'[Len(queue) + 1] = e
  <2>1. queue \in Seq(Entry) /\ queue' = Append(queue, e)
    BY DEF Inv, TypeOK, MainAppend
  <2> QED BY <1>a, <2>1, Appended
<1>c. /\ main.pc = "append"
      /\ main' = [main EXCEPT !.pc = IF main.last THEN "join" ELSE "loop"]
      /\ UNCHANGED <<worker, exit, sent, progress, acc, abort>>
  BY DEF MainAppend
<1>1. TypeOK'
  BY <1>b, <1>c DEF Inv, TypeOK, MainPc
<1>2. MainInv'
  BY <1>c DEF Inv, TypeOK, MainInv
<1>3. FlowInv'
  <2>1. (\A i \in 1..Len(sent) : sent[i] = i)'
    BY <1>c DEF Inv, FlowInv
  <2>2. ASSUME worker.pc \in Working PROVE (Pushed = Base + Len(queue))'
    <3>1. Base' = Base /\ Base \in Int
      BY <1>c DEF Base, Taken, Inv, TypeOK
    <3>2. Pushed = Base + Len(queue) /\ Pushed' = Pushed + 1
      BY <1>c, <2>2 DEF Inv, TypeOK, FlowInv, Pushed
    <3> QED BY <1>b, <3>1, <3>2
  <2>3. ASSUME worker.pc \in Working
        PROVE  (\A i \in 1..Len(queue) :
                 queue[i] = [off |-> Base + i, last |-> Base + i = NumBlocks + 1])'
    <3>1. Base' = Base /\ Base \in Int
      BY <1>c DEF Base, Taken, Inv, TypeOK
    <3>2. main.rec = Base + Len(queue) + 1
      <4>1. Pushed = main.rec - 1 /\ main.rec \in Int
        BY <1>c DEF Inv, TypeOK, Pushed
      <4>2. Pushed = Base + Len(queue)
        BY <2>3 DEF Inv, FlowInv
      <4> QED BY <1>b, <3>1, <4>1, <4>2
    <3>3. e = [off  |-> Base + (Len(queue) + 1),
               last |-> Base + (Len(queue) + 1) = NumBlocks + 1]
      BY <1>b, <3>1, <3>2 DEF Inv, TypeOK, MainInv
    <3>4. \A i \in 1..Len(queue) :
            queue[i] = [off |-> Base + i, last |-> Base + i = NumBlocks + 1]
      BY <2>3 DEF Inv, FlowInv
    <3>5. \A i \in 1..Len(queue') : i \in 1..Len(queue) \/ i = Len(queue) + 1
      BY <1>b
    <3> QED BY <1>b, <3>1, <3>3, <3>4, <3>5
  <2>4. worker' = worker /\ sent' = sent /\ queue' # << >>
    BY <1>b, <1>c
  <2> QED BY <2>1, <2>2, <2>3, <2>4 DEF Inv, FlowInv
<1>4. EndInv'
  BY <1>c DEF Inv, TypeOK, EndInv, Over, NoThread
<1>5. BoundInv'
  BY <1>b, <1>c DEF Inv, TypeOK, BoundInv, QueueBounded
<1>6. AskedInv'
  BY <1>c DEF Inv, TypeOK, AskedInv, AbortWasAsked
<1> QED BY <1>1, <1>2, <1>3, <1>4, <1>5, <1>6 DEF Inv

\* WorkerRequest keeps the invariant.
LEMMA WorkerRequestInv == Inv /\ WorkerRequest => Inv'
<1> SUFFICES ASSUME Inv, WorkerRequest PROVE Inv'
  OBVIOUS
<1>1. CASE CommandFails
  <2>1. CASE WorkerStop /\ Failed("aborted")
    BY <2>1, FailedInv DEF WorkerRequest, Errors, WorkerStop
  <2>2. CASE Failed("net")
    BY <2>2, FailedInv DEF WorkerRequest, Errors
  <2> QED BY <1>1, <2>1, <2>2 DEF CommandFails
<1>3. worker.pc = "request"
  BY DEF WorkerRequest
<1>2. CASE /\ worker' = [worker EXCEPT !.pc = "next"]
           /\ UNCHANGED <<main, exit, queue, sent, progress, acc, abort>>
  <2>1. TypeOK'
    BY <1>2, <1>3 DEF Inv, TypeOK, WorkerPc
  <2>2. MainInv'
    BY <1>2, <1>3 DEF Inv, TypeOK, MainInv
  <2>3. FlowInv'
    BY <1>2, <1>3 DEF Inv, TypeOK, FlowInv, Working, Taken, Base, Pushed
  <2>4. EndInv'
    BY <1>2, <1>3 DEF Inv, TypeOK, EndInv, Over, NoThread, FlowInv, Working
  <2>5. BoundInv'
    BY <1>2, <1>3 DEF Inv, BoundInv, QueueBounded, TypeOK
  <2>6. AskedInv'
    BY <1>2, <1>3 DEF Inv, TypeOK, AskedInv, AbortWasAsked
  <2> QED BY <2>1, <2>2, <2>3, <2>4, <2>5, <2>6 DEF Inv
<1> QED BY <1>1, <1>2 DEF WorkerRequest, WorkerOnly

\* WorkerWait keeps the invariant.
LEMMA WorkerWaitInv == Inv /\ WorkerWait => Inv'
<1> SUFFICES ASSUME Inv, WorkerWait PROVE Inv'
  OBVIOUS
<1>1. worker.pc = "wait"
  BY DEF WorkerWait
<1>2. CASE queue = << >>
  BY <1>1, <1>2, FailedInv DEF WorkerWait, Errors
<1>3. CASE queue # << >>
  <2>0. /\ worker' = [worker EXCEPT !.pc = "send"]
        /\ UNCHANGED <<main, exit, queue, sent, progress, acc, abort>>
    BY <1>3 DEF WorkerWait, WorkerOnly
  <2>1. TypeOK'
    BY <1>1, <1>3, <2>0 DEF Inv, TypeOK, WorkerPc
  <2>2. MainInv'
    BY <1>1, <1>3, <2>0 DEF Inv, TypeOK, MainInv
  <2>3. FlowInv'
    BY <1>1, <1>3, <2>0 DEF Inv, TypeOK, FlowInv, Working, Taken, Base, Pushed
  <2>4. EndInv'
    BY <1>1, <1>3, <2>0 DEF Inv, TypeOK, EndInv, Over, NoThread, FlowInv, Working
  <2>5. BoundInv'
    BY <1>1, <1>3, <2>0 DEF Inv, BoundInv, QueueBounded, TypeOK
  <2>6. AskedInv'
    BY <1>1, <1>3, <2>0 DEF Inv, TypeOK, AskedInv, AbortWasAsked
  <2> QED BY <2>1, <2>2, <2>3, <2>4, <2>5, <2>6 DEF Inv
<1> QED BY <1>2, <1>3

\* WorkerResponse keeps the invariant.
LEMMA WorkerResponseInv == Inv /\ WorkerResponse => Inv'
<1> SUFFICES ASSUME Inv, WorkerResponse PROVE Inv'
  OBVIOUS
<1>0. worker.pc = "response"
  BY DEF WorkerResponse
<1>1. CASE CommandFails
  <2>1. CASE WorkerStop /\ Failed("aborted")
    BY <2>1, FailedInv DEF WorkerResponse, Errors, WorkerStop
  <2>2. CASE Failed("net")
    BY <2>2, FailedInv DEF WorkerResponse, Errors
  <2> QED BY <1>1, <2>1, <2>2 DEF CommandFails
<1>2. CASE Failed("http")
  BY <1>0, <1>2, FailedInv DEF Errors
<1>3. ASSUME NEW h \in Statuses \ {"none"},
             worker' = [worker EXCEPT !.pc = "kill", !.http = h,
                                      !.error = IF h = "failed" THEN "http" ELSE @],
             UNCHANGED <<main, exit, queue, sent, progress, acc, abort>>
      PROVE  Inv'
  <2>1. TypeOK'
    BY <1>0, <1>3 DEF Inv, TypeOK, WorkerPc, Statuses, Errors
  <2>2. MainInv'
    BY <1>0, <1>3 DEF Inv, TypeOK, MainInv
  <2>3. FlowInv'
    BY <1>0, <1>3 DEF Inv, TypeOK, FlowInv, Working, Taken, Base, Pushed
  <2>4. EndInv'
    BY <1>0, <1>3 DEF Inv, TypeOK, EndInv, Over, NoThread, FlowInv, Working
  <2>5. BoundInv'
    BY <1>0, <1>3 DEF Inv, BoundInv, QueueBounded, TypeOK
  <2>6. AskedInv'
    BY <1>0, <1>3 DEF Inv, TypeOK, AskedInv, AbortWasAsked
  <2> QED BY <2>1, <2>2, <2>3, <2>4, <2>5, <2>6 DEF Inv
<1> QED BY <1>1, <1>2, <1>3 DEF WorkerResponse, WorkerOnly

\* WorkerSend keeps the invariant.
LEMMA WorkerSendInv == Inv /\ WorkerSend => Inv'
<1> SUFFICES ASSUME Inv, WorkerSend PROVE Inv'
  OBVIOUS
<1>0. worker.pc = "send" /\ ~Head(queue).last
  BY DEF WorkerSend
<1>1. CASE CommandFails
  <2>1. CASE WorkerStop /\ Failed("aborted")
    BY <2>1, FailedInv DEF WorkerSend, Errors, WorkerStop
  <2>2. CASE Failed("net")
    BY <2>2, FailedInv DEF WorkerSend, Errors
  <2> QED BY <1>1, <2>1, <2>2 DEF CommandFails
<1>2. ASSUME sent' = Append(sent, Head(queue).off),
             progress' = progress + 1,
             acc' = Wrap(acc + 1),
             worker' = [worker EXCEPT !.pc = "pop"],
             UNCHANGED <<main, exit, queue, abort>>
      PROVE  Inv'
  <2>a. /\ Len(sent) \in Nat /\ Len(sent) + 1 \in 1..NumBlocks
        /\ Head(queue).off = Len(sent) + 1 /\ queue # << >>
    BY <1>0, FrontEntry
  <2>f. /\ sent' \in Seq(1..NumBlocks)
        /\ Len(sent') = Len(sent) + 1
        /\ \A i \in 1..Len(sent) : sent'[i] = sent[i]
        /\ sent'[Len(sent) + 1] = Len(sent) + 1
    <3>1. sent \in Seq(1..NumBlocks)
      BY DEF Inv, TypeOK
    <3>2. Head(queue).off \in 1..NumBlocks /\ sent' = Append(sent, Head(queue).off)
      BY <1>2, <2>a
    <3> QED BY <2>a, <3>1, <3>2, AppendProperties
  <2>1. TypeOK'
    <3>1. acc' \in -IntLimit..IntLimit - 1
      <4>1. acc + 1 \in Int
        BY WriteAssumption DEF Inv, TypeOK
      <4>2. acc' = Wrap(acc + 1)
        BY <1>2
      <4> QED BY <4>1, <4>2, WrapType
    <3>2. progress' \in Int
      BY <1>2 DEF Inv, TypeOK
    <3>3. worker' \in [pc : WorkerPc, error : Errors, http : Statuses]
      BY <1>2 DEF Inv, TypeOK, WorkerPc
    <3> QED BY <1>2, <2>f, <3>1, <3>2, <3>3 DEF Inv, TypeOK
  <2>2. MainInv'
    BY <1>0, <1>2 DEF Inv, TypeOK, MainInv
  <2>3. FlowInv'
    <3>1. worker'.pc = "pop"
      BY <1>2 DEF Inv, TypeOK
    <3>2. Base' = Base /\ Pushed' = Pushed
      BY <1>0, <1>2, <2>a, <2>f, <3>1 DEF Base, Taken, Pushed
    <3>3. \A i \in 1..Len(sent') : sent'[i] = i
      <4> TAKE i \in 1..Len(sent')
      <4>1. i \in 1..Len(sent) \/ i = Len(sent) + 1
        BY <2>a, <2>f
      <4> QED BY <2>f, <4>1 DEF Inv, FlowInv
    <3>4. /\ Pushed = Base + Len(queue)
          /\ \A i \in 1..Len(queue) :
               queue[i] = [off |-> Base + i, last |-> Base + i = NumBlocks + 1]
      BY <1>0 DEF Inv, FlowInv, Working
    <3>5. queue' = queue /\ Len(sent') > 0
      BY <1>2, <2>a, <2>f
    <3> QED BY <2>a, <3>1, <3>2, <3>3, <3>4, <3>5 DEF FlowInv
  <2>4. EndInv'
    BY <1>0, <1>2 DEF Inv, TypeOK, EndInv, Over, NoThread
  <2>5. BoundInv'
    BY <1>2 DEF Inv, TypeOK, BoundInv, QueueBounded
  <2>6. AskedInv'
    BY <1>2 DEF Inv, TypeOK, AskedInv, AbortWasAsked
  <2> QED BY <2>1, <2>2, <2>3, <2>4, <2>5, <2>6 DEF Inv
<1> QED BY <1>1, <1>2 DEF WorkerSend

\* WorkerPop keeps the invariant.
LEMMA WorkerPopInv == Inv /\ WorkerPop => Inv'
<1> SUFFICES ASSUME Inv, WorkerPop PROVE Inv'
  OBVIOUS
<1>a. /\ queue \in Seq(Entry) /\ queue # << >>
      /\ Len(queue) \in Nat \ {0} /\ queue' \in Seq(Entry)
      /\ Head(queue) = queue[1]
      /\ Len(queue') = Len(queue) - 1
      /\ \A i \in 1..Len(queue') : queue'[i] = queue[i + 1]
  BY Fronted DEF WorkerPop, Inv, TypeOK, FlowInv
<1>b. /\ worker.pc = "pop"
      /\ worker' = [worker EXCEPT !.pc = "next"]
      /\ UNCHANGED <<main, exit, sent, progress, acc, abort>>
  BY DEF WorkerPop
<1>1. TypeOK'
  BY <1>a, <1>b DEF Inv, TypeOK, WorkerPc
<1>2. MainInv'
  BY <1>b DEF Inv, TypeOK, MainInv
<1>3. FlowInv'
  <2>1. worker'.pc = "next"
    BY <1>b DEF Inv, TypeOK
  <2>2. Base' = Base + 1 /\ Pushed' = Pushed /\ Base \in Int
    BY <1>b, <2>1 DEF Base, Taken, Pushed, Inv, TypeOK
  <2>3. /\ Pushed = Base + Len(queue)
        /\ \A i \in 1..Len(queue) :
             queue[i] = [off |-> Base + i, last |-> Base + i = NumBlocks + 1]
    BY <1>b DEF Inv, FlowInv, Working
  <2>4. Pushed' = Base' + Len(queue')
    BY <1>a, <2>2, <2>3
  <2>5. \A i \in 1..Len(queue') :
          queue'[i] = [off |-> Base' + i, last |-> Base' + i = NumBlocks + 1]
    <3> TAKE i \in 1..Len(queue')
    <3>1. i + 1 \in 1..Len(queue) /\ i \in Int
      BY <1>a
    <3>2. Base + (i + 1) = Base' + i
      BY <2>2, <3>1
    <3> QED BY <1>a, <2>3, <3>1, <3>2
  <2> QED BY <1>b, <2>1, <2>4, <2>5 DEF Inv, FlowInv
<1>4. EndInv'
  BY <1>b DEF Inv, TypeOK, EndInv, Over, NoThread
<1>5. BoundInv'
  BY <1>a, <1>b DEF Inv, TypeOK, BoundInv, QueueBounded
<1>6. AskedInv'
  BY <1>b DEF Inv, TypeOK, AskedInv, AbortWasAsked
<1> QED BY <1>1, <1>2, <1>3, <1>4, <1>5, <1>6 DEF Inv

\* WorkerEnd keeps the invariant.
LEMMA WorkerEndInv == Inv /\ WorkerEnd => Inv'
<1> SUFFICES ASSUME Inv, WorkerEnd PROVE Inv'
  OBVIOUS
<1>a. /\ queue \in Seq(Entry) /\ queue # << >>
      /\ Len(queue) \in Nat \ {0} /\ queue' \in Seq(Entry)
      /\ Head(queue) = queue[1]
      /\ Len(queue') = Len(queue) - 1
      /\ \A i \in 1..Len(queue') : queue'[i] = queue[i + 1]
  BY Fronted DEF WorkerEnd, Inv, TypeOK, FlowInv
<1>b. /\ worker.pc = "send"
      /\ worker' = [worker EXCEPT !.pc = "response"]
      /\ UNCHANGED <<main, exit, sent, progress, acc, abort>>
  BY DEF WorkerEnd
<1>c. Len(sent) = NumBlocks
  BY <1>b, FrontEntry DEF WorkerEnd
<1>1. TypeOK'
  BY <1>a, <1>b DEF Inv, TypeOK, WorkerPc
<1>2. MainInv'
  BY <1>b DEF Inv, TypeOK, MainInv
<1>3. FlowInv'
  BY <1>b DEF Inv, TypeOK, FlowInv, Working
<1>4. EndInv'
  BY <1>b, <1>c DEF Inv, TypeOK, EndInv, Over, NoThread
<1>5. BoundInv'
  BY <1>a, <1>b DEF Inv, TypeOK, BoundInv, QueueBounded
<1>6. AskedInv'
  BY <1>b DEF Inv, TypeOK, AskedInv, AbortWasAsked
<1> QED BY <1>1, <1>2, <1>3, <1>4, <1>5, <1>6 DEF Inv

\* MainLoop keeps the invariant.
LEMMA MainLoopInv == Inv /\ MainLoop => Inv'
<1> SUFFICES ASSUME Inv, MainLoop PROVE Inv'
  OBVIOUS
<1>1. TypeOK'
  BY DEF Inv, MainLoop, MainOnly, TestAbort, TypeOK, MainPc, WorkerPc, Errors,
     Statuses
<1>2. MainInv'
  BY DEF Inv, MainLoop, MainOnly, TestAbort, TypeOK, MainPc, MainInv
<1>3. FlowInv'
  BY DEF Inv, MainLoop, MainOnly, TestAbort, TypeOK, MainInv, FlowInv, Working,
     Taken, Base, Pushed
<1>4. EndInv'
  BY DEF Inv, MainLoop, MainOnly, TestAbort, TypeOK, EndInv, Over, NoThread
<1>5. BoundInv'
  BY DEF Inv, MainLoop, MainOnly, TestAbort, TypeOK, BoundInv, QueueBounded
<1>6. AskedInv'
  BY DEF Inv, MainLoop, MainOnly, TestAbort, TypeOK, AskedInv, AbortWasAsked, EndInv
<1> QED BY <1>1, <1>2, <1>3, <1>4, <1>5, <1>6 DEF Inv

\* MainPush keeps the invariant.
LEMMA MainPushInv == Inv /\ MainPush => Inv'
<1> SUFFICES ASSUME Inv, MainPush PROVE Inv'
  OBVIOUS
<1>1. TypeOK'
  BY DEF Inv, MainPush, MainOnly, TooLong, TypeOK, MainPc, WorkerPc, Errors,
     Statuses
<1>2. MainInv'
  BY DEF Inv, MainPush, MainOnly, TooLong, TypeOK, MainPc, MainInv
<1>3. FlowInv'
  BY DEF Inv, MainPush, MainOnly, TooLong, TypeOK, MainInv, FlowInv, Working,
     Taken, Base, Pushed
<1>4. EndInv'
  BY DEF Inv, MainPush, MainOnly, TooLong, TypeOK, EndInv, Over, NoThread
<1>5. BoundInv'
  BY DEF Inv, MainPush, MainOnly, TooLong, TypeOK, BoundInv, QueueBounded
<1>6. AskedInv'
  BY DEF Inv, MainPush, MainOnly, TooLong, TypeOK, AskedInv, AbortWasAsked, EndInv
<1> QED BY <1>1, <1>2, <1>3, <1>4, <1>5, <1>6 DEF Inv

\* MainWait keeps the invariant.
LEMMA MainWaitInv == Inv /\ MainWait => Inv'
<1> SUFFICES ASSUME Inv, MainWait PROVE Inv'
  OBVIOUS
<1>1. TypeOK'
  BY DEF Inv, MainWait, MainOnly, TooLong, TypeOK, MainPc, WorkerPc, Errors,
     Statuses
<1>2. MainInv'
  BY DEF Inv, MainWait, MainOnly, TooLong, TypeOK, MainPc, MainInv
<1>3. FlowInv'
  BY DEF Inv, MainWait, MainOnly, TooLong, TypeOK, MainInv, FlowInv, Working,
     Taken, Base, Pushed
<1>4. EndInv'
  BY DEF Inv, MainWait, MainOnly, TooLong, TypeOK, EndInv, Over, NoThread
<1>5. BoundInv'
  BY DEF Inv, MainWait, MainOnly, TooLong, TypeOK, BoundInv, QueueBounded
<1>6. AskedInv'
  BY DEF Inv, MainWait, MainOnly, TooLong, TypeOK, AskedInv, AbortWasAsked, EndInv
<1> QED BY <1>1, <1>2, <1>3, <1>4, <1>5, <1>6 DEF Inv

\* MainKill keeps the invariant.
LEMMA MainKillInv == Inv /\ MainKill => Inv'
<1> SUFFICES ASSUME Inv, MainKill PROVE Inv'
  OBVIOUS
<1>1. TypeOK'
  BY DEF Inv, MainKill, TypeOK, MainPc, WorkerPc, Errors, Statuses
<1>2. MainInv'
  BY DEF Inv, MainKill, TypeOK, MainPc, MainInv
<1>3. FlowInv'
  BY DEF Inv, MainKill, TypeOK, MainInv, FlowInv, Working, Taken, Base, Pushed
<1>4. EndInv'
  BY DEF Inv, MainKill, TypeOK, EndInv, Over, NoThread
<1>5. BoundInv'
  BY DEF Inv, MainKill, TypeOK, BoundInv, QueueBounded
<1>6. AskedInv'
  BY DEF Inv, MainKill, TypeOK, AskedInv, AbortWasAsked, EndInv
<1> QED BY <1>1, <1>2, <1>3, <1>4, <1>5, <1>6 DEF Inv

\* WorkerStart keeps the invariant.
LEMMA WorkerStartInv == Inv /\ WorkerStart => Inv'
<1> SUFFICES ASSUME Inv, WorkerStart PROVE Inv'
  OBVIOUS
<1>1. TypeOK'
  BY DEF Inv, WorkerStart, WorkerOnly, TypeOK, MainPc, WorkerPc, Errors, Statuses
<1>2. MainInv'
  BY DEF Inv, WorkerStart, WorkerOnly, TypeOK, MainPc, MainInv
<1>3. FlowInv'
  BY DEF Inv, WorkerStart, WorkerOnly, TypeOK, MainInv, FlowInv, Working, Taken,
     Base, Pushed
<1>4. EndInv'
  BY DEF Inv, WorkerStart, WorkerOnly, TypeOK, EndInv, Over, NoThread
<1>5. BoundInv'
  BY DEF Inv, WorkerStart, WorkerOnly, TypeOK, BoundInv, QueueBounded
<1>6. AskedInv'
  BY DEF Inv, WorkerStart, WorkerOnly, TypeOK, AskedInv, AbortWasAsked, EndInv
<1> QED BY <1>1, <1>2, <1>3, <1>4, <1>5, <1>6 DEF Inv

\* WorkerNext keeps the invariant.
LEMMA WorkerNextInv == Inv /\ WorkerNext => Inv'
<1> SUFFICES ASSUME Inv, WorkerNext PROVE Inv'
  OBVIOUS
<1>1. TypeOK'
  BY DEF Inv, WorkerNext, WorkerOnly, TypeOK, MainPc, WorkerPc, Errors, Statuses
<1>2. MainInv'
  BY DEF Inv, WorkerNext, WorkerOnly, TypeOK, MainPc, MainInv
<1>3. FlowInv'
  BY DEF Inv, WorkerNext, WorkerOnly, TypeOK, MainInv, FlowInv, Working, Taken,
     Base, Pushed
<1>4. EndInv'
  BY DEF Inv, WorkerNext, WorkerOnly, TypeOK, EndInv, Over, NoThread
<1>5. BoundInv'
  BY DEF Inv, WorkerNext, WorkerOnly, TypeOK, BoundInv, QueueBounded
<1>6. AskedInv'
  BY DEF Inv, WorkerNext, WorkerOnly, TypeOK, AskedInv, AbortWasAsked, EndInv
<1> QED BY <1>1, <1>2, <1>3, <1>4, <1>5, <1>6 DEF Inv

\* WorkerKill keeps the invariant.
LEMMA WorkerKillInv == Inv /\ WorkerKill => Inv'
<1> SUFFICES ASSUME Inv, WorkerKill PROVE Inv'
  OBVIOUS
<1>1. TypeOK'
  BY DEF Inv, WorkerKill, TypeOK, MainPc, WorkerPc, Errors, Statuses
<1>2. MainInv'
  BY DEF Inv, WorkerKill, TypeOK, MainPc, MainInv
<1>3. FlowInv'
  BY DEF Inv, WorkerKill, TypeOK, MainInv, FlowInv, Working, Taken, Base, Pushed
<1>4. EndInv'
  BY DEF Inv, WorkerKill, TypeOK, EndInv, Over, NoThread
<1>5. BoundInv'
  BY DEF Inv, WorkerKill, TypeOK, BoundInv, QueueBounded
<1>6. AskedInv'
  BY DEF Inv, WorkerKill, TypeOK, AskedInv, AbortWasAsked, EndInv
<1> QED BY <1>1, <1>2, <1>3, <1>4, <1>5, <1>6 DEF Inv

\* WorkerExit keeps the invariant.
LEMMA WorkerExitInv == Inv /\ WorkerExit => Inv'
<1> SUFFICES ASSUME Inv, WorkerExit PROVE Inv'
  OBVIOUS
<1>1. TypeOK'
  BY DEF Inv, WorkerExit, WorkerOnly, TypeOK, MainPc, WorkerPc, Errors, Statuses
<1>2. MainInv'
  BY DEF Inv, WorkerExit, WorkerOnly, TypeOK, MainPc, MainInv
<1>3. FlowInv'
  BY DEF Inv, WorkerExit, WorkerOnly, TypeOK, MainInv, FlowInv, Working, Taken, Base, Pushed
<1>4. EndInv'
  BY DEF Inv, WorkerExit, WorkerOnly, TypeOK, EndInv, Over, NoThread
<1>5. BoundInv'
  BY DEF Inv, WorkerExit, WorkerOnly, TypeOK, BoundInv, QueueBounded
<1>6. AskedInv'
  BY DEF Inv, WorkerExit, WorkerOnly, TypeOK, AskedInv, AbortWasAsked, EndInv
<1> QED BY <1>1, <1>2, <1>3, <1>4, <1>5, <1>6 DEF Inv

\* WorkerLeave keeps the invariant.
LEMMA WorkerLeaveInv == Inv /\ WorkerLeave => Inv'
<1> SUFFICES ASSUME Inv, WorkerLeave PROVE Inv'
  OBVIOUS
<1>1. TypeOK'
  BY DEF Inv, WorkerLeave, WorkerOnly, TypeOK, MainPc, WorkerPc, Errors, Statuses
<1>2. MainInv'
  BY DEF Inv, WorkerLeave, WorkerOnly, TypeOK, MainPc, MainInv
<1>3. FlowInv'
  BY DEF Inv, WorkerLeave, WorkerOnly, TypeOK, MainInv, FlowInv, Working, Taken, Base, Pushed
<1>4. EndInv'
  BY DEF Inv, WorkerLeave, WorkerOnly, TypeOK, EndInv, Over, NoThread
<1>5. BoundInv'
  BY DEF Inv, WorkerLeave, WorkerOnly, TypeOK, BoundInv, QueueBounded
<1>6. AskedInv'
  BY DEF Inv, WorkerLeave, WorkerOnly, TypeOK, AskedInv, AbortWasAsked, EndInv
<1> QED BY <1>1, <1>2, <1>3, <1>4, <1>5, <1>6 DEF Inv

\* Abort keeps the invariant.
LEMMA AbortInv == Inv /\ Abort => Inv'
<1> SUFFICES ASSUME Inv, Abort PROVE Inv'
  OBVIOUS
<1>1. TypeOK'
  BY DEF Inv, Abort, TypeOK, MainPc, WorkerPc, Errors, Statuses
<1>2. MainInv'
  BY DEF Inv, Abort, TypeOK, MainPc, MainInv
<1>3. FlowInv'
  BY DEF Inv, Abort, TypeOK, MainInv, FlowInv, Working, Taken, Base, Pushed
<1>4. EndInv'
  BY DEF Inv, Abort, TypeOK, EndInv, Over, NoThread
<1>5. BoundInv'
  BY DEF Inv, Abort, TypeOK, BoundInv, QueueBounded
<1>6. AskedInv'
  BY DEF Inv, Abort, TypeOK, AskedInv, AbortWasAsked, EndInv
<1> QED BY <1>1, <1>2, <1>3, <1>4, <1>5, <1>6 DEF Inv

\* The invariant starts true.
LEMMA InitInv == Init => Inv
<1> SUFFICES ASSUME Init PROVE Inv
  OBVIOUS
<1>1. TypeOK
  <2>1. /\ main \in [pc : MainPc, rec : 0..NumBlocks + 1, last : BOOLEAN, result : Errors]
        /\ worker \in [pc : WorkerPc, error : Errors, http : Statuses]
    BY WriteAssumption DEF Init, MainPc, WorkerPc, Errors, Statuses
  <2>2. acc \in -IntLimit..IntLimit - 1 /\ progress \in Int
    BY WriteAssumption DEF Init
  <2>3. queue \in Seq(Entry) /\ sent \in Seq(1..NumBlocks)
    BY DEF Init
  <2> QED BY <2>1, <2>2, <2>3 DEF Init, TypeOK
<1>2. MainInv /\ EndInv /\ BoundInv /\ AskedInv
  BY DEF Init, MainInv, EndInv, Over, NoThread, BoundInv, QueueBounded, AskedInv,
     AbortWasAsked
<1>3. FlowInv
  BY DEF Init, FlowInv, Working, Taken, Base, Pushed
<1> QED BY <1>1, <1>2, <1>3 DEF Inv

\* Every step keeps the invariant.
LEMMA NextInv == Inv /\ [Next]_vars => Inv'
<1> SUFFICES ASSUME Inv, [Next]_vars PROVE Inv'
  OBVIOUS
<1>1. CASE MainNext
  BY <1>1, MainChecksumInv, MainCreateInv, MainLoopInv, MainReadInv,
     MainPushInv, MainWaitInv, MainAppendInv, MainKillInv, MainJoinInv DEF
     MainNext
<1>2. CASE WorkerStep
  BY <1>2, WorkerStartInv, WorkerRequestInv, WorkerNextInv, WorkerWaitInv,
     WorkerSendInv, WorkerPopInv, WorkerEndInv, WorkerResponseInv,
     WorkerKillInv, WorkerExitInv, WorkerLeaveInv DEF WorkerStep
<1>3. CASE Abort
  BY <1>3, AbortInv
<1>4. CASE UNCHANGED vars
  <2>1. TypeOK'
    BY <1>4 DEF vars, Inv, TypeOK
  <2>2. MainInv' /\ EndInv' /\ BoundInv' /\ AskedInv'
    BY <1>4 DEF vars, Inv, MainInv, EndInv, NoThread, BoundInv, QueueBounded, AskedInv,
       AbortWasAsked
  <2>3. FlowInv'
    BY <1>4 DEF vars, Inv, FlowInv, Taken, Base, Pushed
  <2> QED BY <2>1, <2>2, <2>3 DEF Inv
<1> QED BY <1>1, <1>2, <1>3, <1>4 DEF Next
-----------------------------------------------------------------------------
\* Inv holds in every reachable state of an upload.
THEOREM WriteInvariant == Spec => []Inv
BY InitInv, NextInv, PTL DEF Spec

\* The state of an upload keeps its types, for files and queues of any size.
THEOREM WriteTypeCorrect == Spec => []TypeOK
<1>1. Inv => TypeOK
  BY DEF Inv
<1> QED BY <1>1, WriteInvariant, PTL

\* S3Write sends the blocks of the file in order, none twice, none left out.
THEOREM SendsInOrder == Spec => []SentInOrder
<1>1. Inv => SentInOrder
  BY DEF Inv, FlowInv, SentInOrder
<1> QED BY <1>1, WriteInvariant, PTL

\* While the worker empties it, the queue of S3Write holds at most one entry
\* beyond dwMaxQueueSize.
THEOREM WriteQueueBounded == Spec => []QueueBounded
<1>1. Inv => QueueBounded
  BY DEF Inv, BoundInv
<1> QED BY <1>1, WriteInvariant, PTL

\* S3Write reports an abort only when somebody asked for one.
THEOREM WriteAbortWasAsked == Spec => []AbortWasAsked
<1>1. Inv => AbortWasAsked
  BY DEF Inv, AskedInv
<1> QED BY <1>1, WriteInvariant, PTL
-----------------------------------------------------------------------------
(***************************************************************************)
(* The progress told to the callback and the sum kept to take it back.     *)
(***************************************************************************)
\* The sum is kept in an int: it agrees with the progress but for whole turns.
Turn == 2 * IntLimit

ProgressInv ==
  /\ \E k \in Int : progress = acc + Turn * k
  /\ worker.error \notin {"none", "http"} => acc = 0 /\ worker.pc \in Over

\* Quotient and remainder.
LEMMA Division ==
  ASSUME NEW n \in Int, NEW m \in Nat \ {0}
  PROVE  /\ n \div m \in Int
         /\ n % m \in 0..m - 1
         /\ n = m * (n \div m) + (n % m)
OBVIOUS

\* A multiple leaves no remainder.
LEMMA MultipleRemainder ==
  ASSUME NEW m \in Nat \ {0}, NEW k \in Int
  PROVE  (m * k) % m = 0
<1> DEFINE q == (m * k) \div m
           r == (m * k) % m
<1>1. m * k \in Int
  OBVIOUS
<1>2. q \in Int /\ r \in 0..m - 1 /\ m * k = m * q + r
  BY <1>1, Division
<1> HIDE DEF q, r
<1>3. m * (k - q) = r
  BY <1>1, <1>2
<1>4. CASE k - q >= 1
  <2>1. m * (k - q) >= m
    BY <1>2, <1>4
  <2> QED BY <1>2, <1>3, <2>1
<1>5. CASE k - q <= -1
  <2>1. m * (k - q) <= -m
    BY <1>2, <1>5
  <2> QED BY <1>2, <1>3, <2>1
<1>6. CASE k - q = 0
  <2>1. r = 0
    BY <1>3, <1>6
  <2> QED BY <2>1 DEF r
<1> QED BY <1>2, <1>4, <1>5, <1>6

\* The wrap of an int changes a number by whole turns.
LEMMA WrapTurns ==
  ASSUME NEW n \in Int
  PROVE  \E k \in Int : Wrap(n) = n + Turn * k
<1> DEFINE q == (n + IntLimit) \div Turn
<1>1. Turn \in Nat \ {0} /\ n + IntLimit \in Int
  BY DEF Turn
<1>2. q \in Int /\ n + IntLimit = Turn * q + ((n + IntLimit) % Turn)
  BY <1>1, Division
<1>3. Wrap(n) = ((n + IntLimit) % Turn) - IntLimit /\ (n + IntLimit) % Turn \in Int
  BY <1>1, Division DEF Wrap, Turn
<1> HIDE DEF q
<1>4. Turn * (-q) = -(Turn * q) /\ Turn * q \in Int
  BY <1>1, <1>2
<1>5. Wrap(n) = n + Turn * (-q) /\ -q \in Int
  BY <1>2, <1>3, <1>4
<1> QED BY <1>5

\* Taking the sum back leaves whole turns.
LEMMA FailedProgress ==
  ASSUME TypeOK, ProgressInv, NEW e \in Errors, Failed(e)
  PROVE  ProgressInv'
<1>1. Turn \in Int /\ acc \in Int /\ -acc \in Int
  BY DEF TypeOK, Turn
<1>2. PICK k \in Int : progress = acc + Turn * k
  BY DEF ProgressInv
<1>3. PICK j \in Int : Wrap(-acc) = -acc + Turn * j
  BY <1>1, WrapTurns
<1>4. progress' = progress + Wrap(-acc) /\ acc' = 0 /\ worker'.pc = "kill"
  BY DEF Failed, TypeOK
<1>5. Turn * (k + j) = Turn * k + Turn * j /\ Turn * k \in Int /\ Turn * j \in Int
  BY <1>1
<1>6. progress' = acc' + Turn * (k + j) /\ k + j \in Int
  BY <1>1, <1>2, <1>3, <1>4, <1>5
<1>7. \E i \in Int : progress' = acc' + Turn * i
  BY <1>6
<1> QED BY <1>4, <1>7 DEF ProgressInv, Over, Turn

\* A block counts one in the progress and one in the sum.
LEMMA SentProgress ==
  ASSUME TypeOK, ProgressInv, worker.pc = "send",
         progress' = progress + 1, acc' = Wrap(acc + 1), worker'.error = worker.error
  PROVE  ProgressInv'
<1>1. Turn \in Int /\ acc \in Int /\ acc + 1 \in Int
  BY DEF TypeOK, Turn
<1>2. PICK k \in Int : progress = acc + Turn * k
  BY DEF ProgressInv
<1>3. PICK j \in Int : Wrap(acc + 1) = acc + 1 + Turn * j
  BY <1>1, WrapTurns
<1>4. Turn * (k - j) = Turn * k - Turn * j /\ Turn * k \in Int /\ Turn * j \in Int
  BY <1>1
<1>5. progress' = acc' + Turn * (k - j) /\ k - j \in Int
  BY <1>1, <1>2, <1>3, <1>4
<1>6. \E i \in Int : progress' = acc' + Turn * i
  BY <1>5
<1>7. worker'.error \in {"none", "http"}
  BY DEF ProgressInv, Over
<1> QED BY <1>6, <1>7 DEF ProgressInv, Turn

\* A step that leaves progress and sum alone.
LEMMA SameProgress ==
  ASSUME TypeOK, ProgressInv, UNCHANGED <<progress, acc>>,
         worker'.error \in {worker.error, "none", "http"},
         worker.pc \in Over => worker'.pc \in Over
  PROVE  ProgressInv'
BY DEF ProgressInv, Over, Turn

\* Every step keeps progress and sum in agreement.
LEMMA ProgressNext == Inv /\ ProgressInv /\ [Next]_vars => ProgressInv'
<1> SUFFICES ASSUME Inv, ProgressInv, [Next]_vars PROVE ProgressInv'
  OBVIOUS
<1>0. TypeOK
  BY DEF Inv
<1>1. CASE CommandFails \/ Failed("http") \/ Failed("timeout")
  <2>1. PICK e \in Errors : Failed(e)
    BY <1>1 DEF CommandFails, Errors
  <2> QED BY <1>0, <2>1, FailedProgress
<1>2. CASE WorkerSend /\ ~CommandFails
  <2>1. /\ worker.pc = "send" /\ progress' = progress + 1 /\ acc' = Wrap(acc + 1)
        /\ worker' = [worker EXCEPT !.pc = "pop"]
    BY <1>2 DEF WorkerSend
  <2>2. worker'.error = worker.error
    BY <1>0, <2>1 DEF TypeOK
  <2> QED BY <1>0, <2>1, <2>2, SentProgress
<1>3. CASE /\ ~(CommandFails \/ Failed("http") \/ Failed("timeout"))
           /\ ~WorkerSend
  <2>1. UNCHANGED <<progress, acc>>
    BY <1>3 DEF vars, Next, MainNext, WorkerStep, MainChecksum, MainCreate, MainLoop,
       MainRead, MainPush, MainWait, MainAppend, MainKill, MainJoin, MainOnly, Abort,
       WorkerOnly, WorkerStart, WorkerRequest, WorkerNext, WorkerWait, WorkerPop,
       WorkerEnd, WorkerResponse, WorkerKill, WorkerExit, WorkerLeave
  <2>2. /\ worker'.error \in {worker.error, "none", "http"}
        /\ worker.pc \in Over => worker'.pc \in Over
    <3>1. CASE WorkerStep
      BY <1>0, <1>3, <3>1 DEF WorkerStep, TypeOK, Over,
         WorkerStart, WorkerRequest, WorkerNext, WorkerWait, WorkerPop,
         WorkerEnd, WorkerResponse, WorkerKill, WorkerExit, WorkerLeave
    <3>2. CASE MainCreate
      BY <3>2 DEF MainCreate, Inv, MainInv, TypeOK, Over
    <3>3. CASE ~WorkerStep /\ ~MainCreate
      <4>1. worker' = worker
        BY <3>3 DEF vars, Next, MainNext, MainChecksum, MainLoop,
           MainRead, MainPush, MainWait, MainAppend, MainKill, MainJoin, MainOnly, Abort
      <4> QED BY <4>1
    <3> QED BY <3>1, <3>2, <3>3
  <2> QED BY <1>0, <2>1, <2>2, SameProgress
<1> QED BY <1>1, <1>2, <1>3

\* After a failure before the answer the callback has been told nothing in sum, but
\* for whole turns of the int (ECSConnection.cpp, the catch of SendRequestInternal).
THEOREM WriteProgressTakenBack == Spec => []ProgressTakenBack
<1>1. Init => ProgressInv
  <2>1. ASSUME Init PROVE ProgressInv
    <3>1. Turn * 0 = 0 /\ Turn \in Int
      BY DEF Turn
    <3> QED BY <2>1, <3>1 DEF Init, ProgressInv
  <2> QED BY <2>1
<1>2. Inv => TypeOK
  BY DEF Inv
<1>3. TypeOK /\ ProgressInv => ProgressTakenBack
  <2> SUFFICES ASSUME TypeOK, ProgressInv, worker.error \notin {"none", "http"}
               PROVE  progress % Turn = 0
    BY DEF ProgressTakenBack, Turn
  <2>1. PICK k \in Int : progress = Turn * k
    <3>1. PICK k \in Int : progress = acc + Turn * k
      BY DEF ProgressInv
    <3>2. acc = 0 /\ Turn * k \in Int
      BY DEF ProgressInv, Turn
    <3> QED BY <3>1, <3>2
  <2>2. Turn \in Nat \ {0}
    BY DEF Turn
  <2> QED BY <2>1, <2>2, MultipleRemainder
<1> QED BY <1>1, <1>2, <1>3, WriteInvariant, ProgressNext, PTL DEF Spec
-----------------------------------------------------------------------------
(***************************************************************************)
(* S3Write implements StreamContract: a step sends one block, returns, or  *)
(* is invisible.                                                           *)
(***************************************************************************)
\* Nothing is sent yet, and nothing is reported.
LEMMA ContractInit == Init => Contract!Init
BY DEF Init, Contract!Init, Outcome

\* A worker that sends a block has one left, and the caller still waits.
LEMMA ContractSend ==
  ASSUME Inv, WorkerSend, sent' # sent
  PROVE  Contract!Deliver
<1>1. /\ worker.pc = "send" /\ ~Head(queue).last
      /\ sent' = Append(sent, Head(queue).off)
      /\ main' = main
  BY DEF WorkerSend, CommandFails, Failed
<1>2. main.pc # "done"
  BY <1>1 DEF Inv, EndInv, NoThread
<1>3. /\ Len(sent) \in Nat /\ Len(sent) < NumBlocks
      /\ Head(queue).off = Len(sent) + 1
  BY <1>1, FrontEntry
<1>4. Len(sent') = Len(sent) + 1
  <2>1. sent \in Seq(1..NumBlocks) /\ Head(queue).off \in 1..NumBlocks
    BY <1>3 DEF Inv, TypeOK
  <2> QED BY <1>1, <2>1, AppendProperties
<1> QED BY <1>1, <1>2, <1>3, <1>4 DEF Contract!Deliver, Outcome

\* A step that leaves the sent blocks alone returns, or is invisible.
LEMMA ContractRest ==
  ASSUME Inv, Inv', Next, sent' = sent
  PROVE  [Contract!Next]_Contract!vars
<1>1. CASE main.pc = "done" \/ main'.pc # "done"
  <2>1. Outcome' = Outcome
    <3>1. CASE main.pc = "done"
      <4>1. main' = main
        BY <3>1 DEF Next, MainNext, WorkerStep, MainChecksum, MainCreate, MainLoop,
           MainRead, MainPush, MainWait, MainAppend, MainKill, MainJoin, WorkerStart,
           WorkerRequest, WorkerNext, WorkerWait, WorkerSend, WorkerPop, WorkerEnd,
           WorkerResponse, WorkerKill, WorkerExit, WorkerLeave, Abort, CommandFails, Failed,
           WorkerOnly
      <4>2. worker.pc = "none" <=> worker'.pc = "none"
        BY <3>1 DEF Inv, TypeOK, EndInv, NoThread, Next, MainNext, WorkerStep,
           MainChecksum, MainCreate, MainLoop, MainRead, MainPush, MainWait, MainAppend,
           MainKill, MainJoin, WorkerLeave, WorkerStart, WorkerRequest, WorkerNext,
           WorkerWait, WorkerSend, WorkerPop, WorkerEnd, WorkerResponse, WorkerKill,
           WorkerExit, Abort, WorkerOnly
      <4> QED BY <4>1, <4>2 DEF Outcome
    <3>2. CASE main.pc # "done" /\ main'.pc # "done"
      BY <3>2 DEF Outcome
    <3> QED BY <1>1, <3>1, <3>2
  <2> QED BY <2>1 DEF Contract!vars
<1>2. CASE main.pc # "done" /\ main'.pc = "done"
  <2>1. CASE main'.result = "none"
    <3>1. CASE worker'.pc = "none"
      <4>1. Len(sent) = 0
        BY <3>1 DEF Inv, EndInv
      <4> QED BY <1>2, <2>1, <3>1, <4>1
              DEF Contract!Next, Contract!NotStarted, Contract!Return, Outcome
    <3>2. CASE worker'.pc # "none"
      <4>1. Len(sent) = NumBlocks
        BY <1>2, <2>1, <3>2 DEF Inv, EndInv
      <4> QED BY <1>2, <2>1, <3>2, <4>1
              DEF Contract!Next, Contract!Succeed, Contract!Return, Outcome
    <3> QED BY <3>1, <3>2
  <2>2. CASE main'.result # "none"
    BY <1>2, <2>2 DEF Contract!Next, Contract!Fail, Contract!Return, Outcome
  <2> QED BY <2>1, <2>2
<1> QED BY <1>1, <1>2

\* Every step is a step of the contract, or invisible to it.
LEMMA ContractNext ==
  ASSUME Inv, Inv', [Next]_vars
  PROVE  [Contract!Next]_Contract!vars
<1>1. CASE UNCHANGED vars
  BY <1>1 DEF vars, Contract!vars, Outcome
<1>2. CASE Next /\ sent' = sent
  BY <1>2, ContractRest
<1>3. CASE Next /\ sent' # sent
  <2>1. WorkerSend
    BY <1>3 DEF Next, MainNext, WorkerStep, MainChecksum, MainCreate, MainLoop,
       MainRead, MainPush, MainWait, MainAppend, MainKill, MainJoin, MainOnly,
       WorkerStart, WorkerRequest, WorkerNext, WorkerWait, WorkerPop, WorkerEnd,
       WorkerResponse, WorkerKill, WorkerExit, WorkerLeave, Abort, CommandFails, Failed, WorkerOnly
  <2> QED BY <1>3, <2>1, ContractSend DEF Contract!Next
<1> QED BY <1>1, <1>2, <1>3

\* S3Write keeps the contract of a stream: blocks one by one, one outcome,
\* nothing afterwards, and success only for a file that was sent in full; a call
\* whose thread was refused sends nothing.
THEOREM WriteKeepsContract == Spec => KeepsContract
<1>1. Init /\ [][Next]_vars /\ []Inv => KeepsContract
  BY ContractInit, ContractNext, PTL DEF KeepsContract, Contract!Spec
<1> QED BY <1>1, WriteInvariant, PTL DEF Spec
=============================================================================
