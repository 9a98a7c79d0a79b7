--------------------------- MODULE StreamReadProof ---------------------------
(***************************************************************************)
(* Proofs about StreamRead, for every number of blocks and queue size.     *)
(* The invariant follows an entry from the worker through the queue and    *)
(* the caller's hand to the file, and says how far each thread may be when *)
(* the exit flag, an error or an abort is seen.                            *)
(***************************************************************************)
EXTENDS StreamRead, SequenceTheorems, TLAPS

\* The caller's loop, and what follows it.
Loop == {"create", "wait", "test", "iterate", "check", "flag", "drain", "write"}

Over == {"exiting", "leaving", "gone"}
Ended == {"finish", "unregister", "kill"} \cup Over

\* The worker has an entry that is not on the queue yet.
Pushing == worker.pc \in {"push", "room", "append"}

\* The caller has taken an entry that is not in the file: it is in its hand, is
\* the end mark, or could not be written.
InHand == main.pc = "write" \/ main.rec.last \/ main.result = "disk"

\* Entries appended, and entries taken, so far.
Appended == IF Pushing THEN worker.rec - 1 ELSE worker.rec
Taken == IF InHand THEN Len(written) + 1 ELSE Len(written)

\* The end mark was appended.
Marked == worker.last /\ ~Pushing

\* How far the two threads can be.
PlaceInv ==
  /\ main.pc = "create" => worker.pc = "none"
  /\ worker.pc = "none" => worker.error = "none" /\ worker.rec = 0 /\ ~exit
  /\ registered => worker.pc \in {"request", "receive", "push", "room", "append",
                                  "finish", "unregister"}
  /\ Pushing \/ worker.pc \in {"request", "receive"} => registered
  /\ main.result # "none" => main.pc \notin Loop
  /\ main.rec.last => main.pc \notin Loop \ {"write"}
  /\ main.pc \notin Loop /\ main.result = "none" => main.rec.last \/ worker.pc \in Over
  /\ exit /\ worker.pc \notin Over => main.pc \in {"join", "done"}
  /\ main.pc = "done" => NoThread

\* How far the worker has come with the object.
ObjectInv ==
  /\ worker.last => Pushing \/ worker.pc \in Ended
  /\ ~worker.last => worker.rec <= NumBlocks
  /\ Pushing => worker.rec > 0
  /\ worker.pc \notin Ended => worker.error = "none"
  /\ worker.pc \in Ended /\ worker.error = "none"
       => (worker.last /\ worker.rec = NumBlocks + 1) \/ main.result # "none"
  /\ main.pc = "done" /\ main.result = "none" => worker.error = "none"
  /\ worker.error # "disk"

\* File, hand and queue are one stretch of the object; the end mark is its last
\* entry.
FlowInv ==
  /\ WrittenInOrder
  /\ Appended = Taken + Len(queue)
  /\ \A i \in 1..Len(queue) :
       /\ queue[i].off = Taken + i
       /\ queue[i].last <=> Marked /\ Taken + i = worker.rec
  /\ InHand => /\ main.rec.off = Taken
               /\ main.rec.last <=> Marked /\ Taken = worker.rec

\* Between the comparison and the append nobody else appends; who gives up
\* waiting appends once and then ends.
BoundInv ==
  /\ Len(queue) <= MaxQueue + 2
  /\ worker.pc \in {"push", "room"} => Len(queue) <= MaxQueue + 1
  /\ worker.pc = "append" => \/ Len(queue) <= MaxQueue
                             \/ Len(queue) <= MaxQueue + 1 /\ TestAbort
  /\ Len(queue) > MaxQueue + 1 => abort \/ exit
  /\ worker.pc = "receive" /\ Len(queue) > MaxQueue + 1 => TestAbort

\* Who asked for an abort.
AskedInv ==
  /\ AbortWasAsked
  /\ worker.error = "aborted" => abort \/ main.result # "none"
  /\ exit /\ worker.pc \notin Ended => main.result # "none"

Inv == TypeOK /\ PlaceInv /\ ObjectInv /\ FlowInv /\ BoundInv /\ AskedInv
-----------------------------------------------------------------------------
USE ReadAssumption

\* Nothing has happened at first.
LEMMA InitInv == Init => Inv
<1> SUFFICES ASSUME Init PROVE Inv
  OBVIOUS
<1>1. TypeOK
  <2>1. NoEntry \in Entry
    BY DEF NoEntry, Entry
  <2>2. main \in [pc : MainPc, got : BOOLEAN, rec : Entry, result : Errors]
    BY <2>1 DEF Init, MainPc, Errors
  <2>3. worker \in [pc : WorkerPc, rec : 0..NumBlocks + 1, last : BOOLEAN, error : Errors]
    BY DEF Init, WorkerPc, Errors
  <2>4. << >> \in Seq(Entry) /\ << >> \in Seq(1..NumBlocks)
    OBVIOUS
  <2> QED BY <2>2, <2>3, <2>4 DEF Init, TypeOK
<1>2. PlaceInv
  BY DEF Init, PlaceInv, Loop, Over, Pushing, NoEntry
<1>3. ObjectInv
  BY DEF Init, ObjectInv, Ended, Over, Pushing
<1>4. FlowInv
  BY DEF Init, FlowInv, WrittenInOrder, Appended, Taken, InHand, Pushing, NoEntry
<1>5. BoundInv /\ AskedInv
  BY DEF Init, BoundInv, AskedInv, AbortWasAsked
<1> QED BY <1>1, <1>2, <1>3, <1>4, <1>5 DEF Inv

\* What WorkerAppend does to the queue.
LEMMA QueueAppended ==
  ASSUME NEW q \in Seq(Entry), NEW e \in Entry
  PROVE  /\ Append(q, e) \in Seq(Entry)
         /\ Len(q) \in Nat
         /\ Len(Append(q, e)) = Len(q) + 1
         /\ \A i \in 1..Len(q) : Append(q, e)[i] = q[i]
         /\ Append(q, e)[Len(q) + 1] = e
BY AppendProperties, LenProperties

\* What MainDrain does to it.
LEMMA QueueFronted ==
  ASSUME NEW q \in Seq(Entry), q # << >>
  PROVE  /\ Head(q) = q[1]
         /\ Head(q) \in Entry
         /\ Len(q) \in Nat \ {0}
         /\ Tail(q) \in Seq(Entry)
         /\ Len(Tail(q)) = Len(q) - 1
         /\ \A i \in 1..Len(Tail(q)) : Tail(q)[i] = q[i + 1]
BY HeadTailProperties, LenProperties

\* MainCreate keeps the invariant.
LEMMA MainCreateInv == Inv /\ MainCreate => Inv'
<1> SUFFICES ASSUME Inv, MainCreate PROVE Inv'
  OBVIOUS
<1> USE DEF MainCreate
<1>1. TypeOK'
  BY DEF Inv, TypeOK, MainPc, WorkerPc, Errors
<1>2. PlaceInv'
  BY DEF Inv, TypeOK, ObjectInv, PlaceInv, Loop, Over, Pushing, NoThread
<1>3. ObjectInv'
  BY DEF Inv, TypeOK, ObjectInv, Ended, Over, Pushing, Loop, PlaceInv
<1>4. FlowInv'
  BY DEF Inv, TypeOK, PlaceInv, Loop, ObjectInv, FlowInv, WrittenInOrder, Appended, Taken, InHand, Marked, Pushing
<1>5. BoundInv'
  BY DEF Inv, TypeOK, BoundInv, TestAbort, PlaceInv, Pushing
<1>6. AskedInv'
  BY DEF Inv, TypeOK, AskedInv, AbortWasAsked, Ended, Over, PlaceInv
<1> QED BY <1>1, <1>2, <1>3, <1>4, <1>5, <1>6 DEF Inv

\* MainWait keeps the invariant.
LEMMA MainWaitInv == Inv /\ MainWait => Inv'
<1> SUFFICES ASSUME Inv, MainWait PROVE Inv'
  OBVIOUS
<1> USE DEF MainWait
<1>1. TypeOK'
  BY ZenonT(20) DEF Inv, TypeOK, MainPc, WorkerPc, Errors
<1>2. PlaceInv'
  BY DEF Inv, TypeOK, ObjectInv, PlaceInv, Loop, Over, Pushing, NoThread
<1>3. ObjectInv'
  BY DEF Inv, TypeOK, ObjectInv, Ended, Over, Pushing, Loop, PlaceInv
<1>4. FlowInv'
  BY DEF Inv, TypeOK, PlaceInv, Loop, ObjectInv, FlowInv, WrittenInOrder, Appended, Taken, InHand, Marked, Pushing
<1>5. BoundInv'
  BY DEF Inv, TypeOK, BoundInv, TestAbort, PlaceInv, Pushing
<1>6. AskedInv'
  BY DEF Inv, TypeOK, AskedInv, AbortWasAsked, Ended, Over, PlaceInv
<1> QED BY <1>1, <1>2, <1>3, <1>4, <1>5, <1>6 DEF Inv

\* MainEnter keeps the invariant.
LEMMA MainEnterInv == Inv /\ MainEnter => Inv'
<1> SUFFICES ASSUME Inv, MainEnter PROVE Inv'
  OBVIOUS
<1> USE DEF MainEnter, Others
<1>1. TypeOK'
  BY DEF Inv, TypeOK, MainPc, WorkerPc, Errors
<1>2. PlaceInv'
  BY DEF Inv, TypeOK, ObjectInv, PlaceInv, Loop, Over, Pushing, NoThread
<1>3. ObjectInv'
  BY DEF Inv, TypeOK, ObjectInv, Ended, Over, Pushing, Loop, PlaceInv
<1>4. FlowInv'
  BY DEF Inv, TypeOK, PlaceInv, Loop, ObjectInv, FlowInv, WrittenInOrder, Appended, Taken, InHand, Marked, Pushing
<1>5. BoundInv'
  BY DEF Inv, TypeOK, BoundInv, TestAbort, PlaceInv, Pushing
<1>6. AskedInv'
  BY DEF Inv, TypeOK, AskedInv, AbortWasAsked, Ended, Over, PlaceInv
<1> QED BY <1>1, <1>2, <1>3, <1>4, <1>5, <1>6 DEF Inv

\* MainTest keeps the invariant.
LEMMA MainTestInv == Inv /\ MainTest => Inv'
<1> SUFFICES ASSUME Inv, MainTest PROVE Inv'
  OBVIOUS
<1> USE DEF MainTest, Others, TestAbort
<1>1. TypeOK'
  BY ZenonT(20) DEF Inv, TypeOK, MainPc, WorkerPc, Errors
<1>2. PlaceInv'
  BY DEF Inv, TypeOK, ObjectInv, PlaceInv, Loop, Over, Pushing, NoThread
<1>3. ObjectInv'
  BY DEF Inv, TypeOK, ObjectInv, Ended, Over, Pushing, Loop, PlaceInv
<1>4. FlowInv'
  BY DEF Inv, TypeOK, PlaceInv, Loop, ObjectInv, FlowInv, WrittenInOrder, Appended, Taken, InHand, Marked, Pushing
<1>5. BoundInv'
  BY DEF Inv, TypeOK, BoundInv, TestAbort, PlaceInv, Pushing
<1>6. AskedInv'
  BY DEF Inv, TypeOK, AskedInv, AbortWasAsked, Ended, Over, PlaceInv
<1> QED BY <1>1, <1>2, <1>3, <1>4, <1>5, <1>6 DEF Inv

\* MainCheck keeps the invariant.
LEMMA MainCheckInv == Inv /\ MainCheck => Inv'
<1> SUFFICES ASSUME Inv, MainCheck PROVE Inv'
  OBVIOUS
<1> USE DEF MainCheck, Others, IfActive
<1>1. TypeOK'
  BY ZenonT(20) DEF Inv, TypeOK, MainPc, WorkerPc, Errors
<1>2. PlaceInv'
  BY DEF Inv, TypeOK, ObjectInv, PlaceInv, Loop, Over, Pushing, NoThread
<1>3. ObjectInv'
  BY DEF Inv, TypeOK, ObjectInv, Ended, Over, Pushing, Loop, PlaceInv
<1>4. FlowInv'
  BY DEF Inv, TypeOK, PlaceInv, Loop, ObjectInv, FlowInv, WrittenInOrder, Appended, Taken, InHand, Marked, Pushing
<1>5. BoundInv'
  BY DEF Inv, TypeOK, BoundInv, TestAbort, PlaceInv, Pushing
<1>6. AskedInv'
  BY DEF Inv, TypeOK, AskedInv, AbortWasAsked, Ended, Over, PlaceInv
<1> QED BY <1>1, <1>2, <1>3, <1>4, <1>5, <1>6 DEF Inv

\* MainFlag keeps the invariant.
LEMMA MainFlagInv == Inv /\ MainFlag => Inv'
<1> SUFFICES ASSUME Inv, MainFlag PROVE Inv'
  OBVIOUS
<1> USE DEF MainFlag, Others
<1>1. TypeOK'
  BY ZenonT(20) DEF Inv, TypeOK, MainPc, WorkerPc, Errors
<1>2. PlaceInv'
  BY DEF Inv, TypeOK, ObjectInv, PlaceInv, Loop, Over, Pushing, NoThread
<1>3. ObjectInv'
  BY DEF Inv, TypeOK, ObjectInv, Ended, Over, Pushing, Loop, PlaceInv
<1>4. FlowInv'
  BY DEF Inv, TypeOK, PlaceInv, Loop, ObjectInv, FlowInv, WrittenInOrder, Appended, Taken, InHand, Marked, Pushing
<1>5. BoundInv'
  BY DEF Inv, TypeOK, BoundInv, TestAbort, PlaceInv, Pushing
<1>6. AskedInv'
  BY DEF Inv, TypeOK, AskedInv, AbortWasAsked, Ended, Over, PlaceInv
<1> QED BY <1>1, <1>2, <1>3, <1>4, <1>5, <1>6 DEF Inv

\* MainDrain keeps the invariant.
LEMMA MainDrainInv == Inv /\ MainDrain => Inv'
<1> SUFFICES ASSUME Inv, MainDrain PROVE Inv'
  OBVIOUS
<1>1. /\ main.pc = "drain"
      /\ UNCHANGED <<worker, exit, event, written, registered, abort>>
      /\ main \in [pc : MainPc, got : BOOLEAN, rec : Entry, result : Errors]
      /\ queue \in Seq(Entry)
  BY DEF MainDrain, Inv, TypeOK
<1>2. ~main.rec.last /\ main.result = "none" /\ ~InHand /\ Taken = Len(written)
  BY <1>1 DEF Inv, PlaceInv, InHand, Taken, Loop
<1>3. CASE queue = << >>
  <2>1. main' = [main EXCEPT !.pc = "wait"] /\ UNCHANGED queue
    BY <1>3 DEF MainDrain
  <2>2. main'.pc = "wait" /\ main'.rec = main.rec /\ main'.result = main.result
    BY <1>1, <2>1
  <2>3. TypeOK'
    BY <1>1, <2>1 DEF Inv, TypeOK, MainPc
  <2>4. PlaceInv' /\ ObjectInv'
    BY <1>1, <2>2 DEF Inv, TypeOK, PlaceInv, Loop, Over, Pushing, NoThread, ObjectInv, Ended
  <2>5. FlowInv'
    BY <1>1, <1>2, <2>1, <2>2 DEF Inv, FlowInv, WrittenInOrder, Appended, Taken, InHand, Marked, Pushing
  <2>6. BoundInv' /\ AskedInv'
    BY <1>1, <2>1, <2>2 DEF Inv, AskedInv, AbortWasAsked, Ended, Over, BoundInv, TestAbort
  <2> QED BY <2>3, <2>4, <2>5, <2>6 DEF Inv
<1>4. CASE queue # << >>
  <2>1. /\ Head(queue) = queue[1] /\ Head(queue) \in Entry
        /\ Len(queue) \in Nat \ {0}
        /\ Tail(queue) \in Seq(Entry)
        /\ Len(Tail(queue)) = Len(queue) - 1
        /\ \A i \in 1..Len(Tail(queue)) : Tail(queue)[i] = queue[i + 1]
    BY <1>1, <1>4, QueueFronted
  <2>2. /\ main' = [main EXCEPT !.pc = "write", !.rec = Head(queue)]
        /\ queue' = Tail(queue)
    BY <1>4 DEF MainDrain
  <2>3. main'.pc = "write" /\ main'.rec = queue[1] /\ main'.result = main.result
    BY <1>1, <2>1, <2>2
  <2>4. TypeOK'
    BY <1>1, <2>1, <2>2 DEF Inv, TypeOK, MainPc
  <2>5. PlaceInv' /\ ObjectInv'
    BY <1>1, <1>2, <2>3 DEF Inv, TypeOK, PlaceInv, Loop, Over, Pushing, NoThread, ObjectInv, Ended
  <2>6. FlowInv'
    <3>1. /\ InHand' /\ Taken' = Taken + 1 /\ Taken \in Nat
          /\ Appended' = Appended /\ (Marked' <=> Marked)
      BY <1>1, <1>2, <2>3 DEF InHand, Taken, Appended, Marked, Pushing, Inv, TypeOK
    <3>2. Appended = Taken + Len(queue)
      BY DEF Inv, FlowInv
    <3>3. Appended' = Taken' + Len(queue')
      BY <2>1, <2>2, <3>1, <3>2
    <3>4. ASSUME NEW i \in 1..Len(queue')
          PROVE  /\ queue'[i].off = Taken' + i
                 /\ queue'[i].last <=> Marked' /\ Taken' + i = worker'.rec
      <4>1. i + 1 \in 1..Len(queue) /\ queue'[i] = queue[i + 1]
        BY <2>1, <2>2
      <4>2. /\ queue[i + 1].off = Taken + (i + 1)
            /\ queue[i + 1].last <=> Marked /\ Taken + (i + 1) = worker.rec
        BY <4>1 DEF Inv, FlowInv
      <4> QED BY <1>1, <3>1, <4>1, <4>2
    <3>5. /\ main'.rec.off = Taken'
          /\ main'.rec.last <=> Marked' /\ Taken' = worker'.rec
      BY <1>1, <2>1, <2>3, <3>1 DEF Inv, FlowInv
    <3> QED BY <1>1, <3>3, <3>4, <3>5 DEF Inv, FlowInv, WrittenInOrder
  <2>7. BoundInv' /\ AskedInv'
    BY <1>1, <2>1, <2>2, <2>3 DEF Inv, AskedInv, AbortWasAsked, Ended, Over, BoundInv, TestAbort
  <2> QED BY <2>4, <2>5, <2>6, <2>7 DEF Inv
<1> QED BY <1>3, <1>4

\* MainWrite keeps the invariant.
LEMMA MainWriteInv == Inv /\ MainWrite => Inv'
<1> SUFFICES ASSUME Inv, MainWrite PROVE Inv'
  OBVIOUS
<1>1. /\ main.pc = "write"
      /\ UNCHANGED <<worker, exit, queue, event, registered, abort>>
      /\ main \in [pc : MainPc, got : BOOLEAN, rec : Entry, result : Errors]
      /\ written \in Seq(1..NumBlocks) /\ main.result = "none"
  BY DEF MainWrite, Inv, TypeOK, PlaceInv, Loop
<1>2. /\ InHand /\ Taken = Len(written) + 1 /\ Len(written) \in Nat
      /\ main.rec.off = Taken
      /\ main.rec.last <=> Marked /\ Taken = worker.rec
  BY <1>1 DEF Inv, FlowInv, InHand, Taken
<1>3. CASE main.rec.last
  <2>1. main' = [main EXCEPT !.pc = "kill"] /\ UNCHANGED written
    BY <1>3 DEF MainWrite
  <2>2. main'.pc = "kill" /\ main'.rec = main.rec /\ main'.result = main.result
    BY <1>1, <2>1
  <2>3. TypeOK'
    BY <1>1, <2>1 DEF Inv, TypeOK, MainPc
  <2>4. PlaceInv' /\ ObjectInv'
    BY <1>1, <1>3, <2>2 DEF Inv, TypeOK, PlaceInv, Loop, Over, Pushing, NoThread, ObjectInv, Ended
  <2>5. FlowInv'
    BY <1>1, <1>2, <1>3, <2>1, <2>2 DEF Inv, FlowInv, WrittenInOrder, Appended, Taken, InHand, Marked, Pushing
  <2>6. BoundInv' /\ AskedInv'
    BY <1>1, <2>2 DEF Inv, AskedInv, AbortWasAsked, Ended, Over, BoundInv, TestAbort
  <2> QED BY <2>3, <2>4, <2>5, <2>6 DEF Inv
<1>4. CASE /\ ~main.rec.last
           /\ main' = [main EXCEPT !.pc = "drain"]
           /\ written' = Append(written, main.rec.off)
  <2>1. main'.pc = "drain" /\ main'.rec = main.rec /\ main'.result = main.result
    BY <1>1, <1>4
  <2>2. Taken \in 1..NumBlocks
    <3>1. Taken <= Appended /\ Appended \in Int
      BY <1>1, <1>2 DEF Inv, FlowInv, TypeOK, Appended
    <3>2. Marked => Taken # worker.rec
      BY <1>2, <1>4
    <3>3. worker.last \in BOOLEAN /\ worker.rec \in 0..NumBlocks + 1
      BY DEF Inv, TypeOK
    <3>4. ~worker.last => worker.rec <= NumBlocks
      BY DEF Inv, ObjectInv
    <3> QED BY <1>2, <3>1, <3>2, <3>3, <3>4 DEF Appended, Marked
  <2>3. /\ written' \in Seq(1..NumBlocks)
        /\ Len(written') = Len(written) + 1
        /\ \A i \in 1..Len(written') : written'[i] = IF i <= Len(written) THEN written[i] ELSE Taken
    BY <1>1, <1>2, <1>4, <2>2, AppendProperties
  <2>4. TypeOK'
    BY <1>1, <1>4, <2>3 DEF Inv, TypeOK, MainPc
  <2>5. PlaceInv' /\ ObjectInv'
    BY <1>1, <1>4, <2>1 DEF Inv, TypeOK, PlaceInv, Loop, Over, Pushing, NoThread, ObjectInv, Ended
  <2>6. FlowInv'
    <3>1. ~InHand' /\ Taken' = Taken /\ Appended' = Appended /\ (Marked' <=> Marked)
      BY <1>1, <1>2, <1>4, <2>1, <2>3 DEF InHand, Taken, Appended, Marked, Pushing
    <3>2. WrittenInOrder'
      BY <1>2, <2>3 DEF Inv, FlowInv, WrittenInOrder
    <3> QED BY <1>1, <3>1, <3>2 DEF Inv, FlowInv
  <2>7. BoundInv' /\ AskedInv'
    BY <1>1, <2>1 DEF Inv, AskedInv, AbortWasAsked, Ended, Over, BoundInv, TestAbort
  <2> QED BY <2>4, <2>5, <2>6, <2>7 DEF Inv
<1>5. CASE /\ ~main.rec.last
           /\ main' = [main EXCEPT !.pc = "kill", !.result = "disk"]
           /\ UNCHANGED written
  <2>1. main'.pc = "kill" /\ main'.rec = main.rec /\ main'.result = "disk"
    BY <1>1, <1>5
  <2>2. TypeOK'
    BY <1>1, <1>5 DEF Inv, TypeOK, MainPc, Errors
  <2>3. PlaceInv' /\ ObjectInv'
    BY <1>1, <1>5, <2>1 DEF Inv, TypeOK, PlaceInv, Loop, Over, Pushing, NoThread, ObjectInv, Ended
  <2>4. FlowInv'
    BY <1>1, <1>2, <1>5, <2>1 DEF Inv, FlowInv, WrittenInOrder, Appended, Taken, InHand, Marked, Pushing
  <2>5. BoundInv' /\ AskedInv'
    BY <1>1, <2>1 DEF Inv, AskedInv, AbortWasAsked, Ended, Over, BoundInv, TestAbort
  <2> QED BY <2>2, <2>3, <2>4, <2>5 DEF Inv
<1> QED BY <1>3, <1>4, <1>5 DEF MainWrite

\* MainKill keeps the invariant.
LEMMA MainKillInv == Inv /\ MainKill => Inv'
<1> SUFFICES ASSUME Inv, MainKill PROVE Inv'
  OBVIOUS
<1> USE DEF MainKill, NoThread
<1>1. TypeOK'
  BY DEF Inv, TypeOK, MainPc, WorkerPc, Errors
<1>2. PlaceInv'
  BY DEF Inv, TypeOK, ObjectInv, PlaceInv, Loop, Over, Pushing, NoThread
<1>3. ObjectInv'
  BY DEF Inv, TypeOK, ObjectInv, Ended, Over, Pushing, Loop, PlaceInv
<1>4. FlowInv'
  BY DEF Inv, TypeOK, PlaceInv, Loop, ObjectInv, FlowInv, WrittenInOrder, Appended, Taken, InHand, Marked, Pushing
<1>5. BoundInv'
  BY DEF Inv, TypeOK, BoundInv, TestAbort, PlaceInv, Pushing
<1>6. AskedInv'
  <2>1. main.rec.last => worker.pc \in Ended
    BY DEF Inv, FlowInv, ObjectInv, InHand, Marked
  <2>2. main.result = "none" => worker.pc \in Ended
    BY <2>1 DEF Inv, PlaceInv, Loop, Ended
  <2>3. main'.result = main.result
    BY DEF Inv, TypeOK
  <2> QED BY <2>2, <2>3 DEF Inv, AskedInv, AbortWasAsked
<1> QED BY <1>1, <1>2, <1>3, <1>4, <1>5, <1>6 DEF Inv

\* MainJoin keeps the invariant.
LEMMA MainJoinInv == Inv /\ MainJoin => Inv'
<1> SUFFICES ASSUME Inv, MainJoin PROVE Inv'
  OBVIOUS
<1> USE DEF MainJoin, Others, NoThread
<1>1. TypeOK'
  BY ZenonT(20) DEF Inv, TypeOK, MainPc, WorkerPc, Errors
<1>2. PlaceInv'
  BY DEF Inv, TypeOK, ObjectInv, PlaceInv, Loop, Over, Pushing, NoThread
<1>3. ObjectInv'
  BY DEF Inv, TypeOK, ObjectInv, Ended, Over, Pushing, Loop, PlaceInv
<1>4. FlowInv'
  <2>1. main'.rec = main.rec /\ main'.pc = "done" /\ (main.pc = "write") = FALSE
    BY DEF Inv, TypeOK
  <2>2. main'.result = "disk" <=> main.result = "disk"
    BY DEF Inv, TypeOK, ObjectInv
  <2> QED BY <2>1, <2>2 DEF Inv, FlowInv, WrittenInOrder, Appended, Taken, InHand, Marked, Pushing
<1>5. BoundInv'
  BY DEF Inv, TypeOK, BoundInv, TestAbort, PlaceInv, Pushing
<1>6. AskedInv'
  BY DEF Inv, TypeOK, AskedInv, AbortWasAsked, Ended, Over, PlaceInv
<1> QED BY <1>1, <1>2, <1>3, <1>4, <1>5, <1>6 DEF Inv

\* WorkerStart keeps the invariant.
LEMMA WorkerStartInv == Inv /\ WorkerStart => Inv'
<1> SUFFICES ASSUME Inv, WorkerStart PROVE Inv'
  OBVIOUS
<1> USE DEF WorkerStart, WorkerOnly
<1>1. TypeOK'
  BY DEF Inv, TypeOK, MainPc, WorkerPc, Errors
<1>2. PlaceInv'
  BY DEF Inv, TypeOK, ObjectInv, PlaceInv, Loop, Over, Pushing, NoThread
<1>3. ObjectInv'
  BY DEF Inv, TypeOK, ObjectInv, Ended, Over, Pushing, Loop, PlaceInv, AskedInv
<1>4. FlowInv'
  BY DEF Inv, TypeOK, PlaceInv, Loop, ObjectInv, FlowInv, WrittenInOrder, Appended, Taken, InHand, Marked, Pushing
<1>5. BoundInv'
  BY DEF Inv, TypeOK, BoundInv, TestAbort, PlaceInv, Pushing
<1>6. AskedInv'
  BY DEF Inv, TypeOK, AskedInv, AbortWasAsked, Ended, Over, PlaceInv
<1> QED BY <1>1, <1>2, <1>3, <1>4, <1>5, <1>6 DEF Inv

\* WorkerRegister keeps the invariant.
LEMMA WorkerRegisterInv == Inv /\ WorkerRegister => Inv'
<1> SUFFICES ASSUME Inv, WorkerRegister PROVE Inv'
  OBVIOUS
<1> USE DEF WorkerRegister
<1>1. TypeOK'
  BY DEF Inv, TypeOK, MainPc, WorkerPc, Errors
<1>2. PlaceInv'
  BY DEF Inv, TypeOK, ObjectInv, PlaceInv, Loop, Over, Pushing, NoThread
<1>3. ObjectInv'
  BY DEF Inv, TypeOK, ObjectInv, Ended, Over, Pushing, Loop, PlaceInv
<1>4. FlowInv'
  BY DEF Inv, TypeOK, PlaceInv, Loop, ObjectInv, FlowInv, WrittenInOrder, Appended, Taken, InHand, Marked, Pushing
<1>5. BoundInv'
  BY DEF Inv, TypeOK, BoundInv, TestAbort, PlaceInv, Pushing
<1>6. AskedInv'
  BY DEF Inv, TypeOK, AskedInv, AbortWasAsked, Ended, Over, PlaceInv
<1> QED BY <1>1, <1>2, <1>3, <1>4, <1>5, <1>6 DEF Inv

\* A command that fails keeps the invariant, if an abort it reports was asked for
\* or is the caller's own.
LEMMA CommandFailsInv ==
  ASSUME Inv, NEW e \in Errors \ {"none", "disk"}, Failed(e),
         worker.pc \in {"request", "receive"}, e = "aborted" => TestAbort
  PROVE  Inv'
<1> USE DEF Failed, WorkerOnly
<1>1. TypeOK'
  BY DEF Inv, TypeOK, WorkerPc
<1>2. PlaceInv'
  BY DEF Inv, TypeOK, ObjectInv, PlaceInv, Loop, Over, Pushing, NoThread
<1>3. ObjectInv'
  BY DEF Inv, TypeOK, ObjectInv, Ended, Over, Pushing, Loop, PlaceInv, NoThread
<1>4. FlowInv'
  BY DEF Inv, TypeOK, PlaceInv, Loop, ObjectInv, FlowInv, WrittenInOrder, Appended, Taken, InHand, Marked, Pushing
<1>5. BoundInv'
  BY DEF Inv, TypeOK, BoundInv, TestAbort, PlaceInv, Pushing
<1>6. AskedInv'
  BY DEF Inv, TypeOK, TestAbort, AskedInv, AbortWasAsked, Ended, Over, PlaceInv
<1> QED BY <1>1, <1>2, <1>3, <1>4, <1>5, <1>6 DEF Inv

\* WorkerRequest keeps the invariant.
LEMMA WorkerRequestInv == Inv /\ WorkerRequest => Inv'
<1> SUFFICES ASSUME Inv, WorkerRequest PROVE Inv'
  OBVIOUS
<1>1. CASE CommandFails \/ Failed("http")
  <2>1. PICK e \in {"aborted", "net", "http"} : Failed(e) /\ (e = "aborted" => TestAbort)
    BY <1>1 DEF CommandFails
  <2> QED BY <2>1, CommandFailsInv DEF WorkerRequest, Errors
<1>2. CASE ~TestAbort /\ worker' = [worker EXCEPT !.pc = "receive"] /\ WorkerOnly
  <2> USE <1>2 DEF WorkerRequest, WorkerOnly
  <2>1. TypeOK'
    BY DEF Inv, TypeOK, WorkerPc
  <2>2. PlaceInv'
    BY DEF Inv, TypeOK, ObjectInv, PlaceInv, Loop, Over, Pushing, NoThread
  <2>3. ObjectInv'
    BY DEF Inv, TypeOK, ObjectInv, Ended, Over, Pushing, Loop, PlaceInv
  <2>4. FlowInv'
    BY DEF Inv, TypeOK, FlowInv, WrittenInOrder, Appended, Taken, InHand, Marked, Pushing
  <2>5. BoundInv' /\ AskedInv'
    BY DEF Inv, TypeOK, ObjectInv, AskedInv, AbortWasAsked, Ended, Over, FlowInv, BoundInv, TestAbort, PlaceInv, Pushing
  <2> QED BY <2>1, <2>2, <2>3, <2>4, <2>5 DEF Inv
<1> QED BY <1>1, <1>2 DEF WorkerRequest

\* WorkerReceive keeps the invariant.
LEMMA WorkerReceiveInv == Inv /\ WorkerReceive => Inv'
<1> SUFFICES ASSUME Inv, WorkerReceive PROVE Inv'
  OBVIOUS
<1>1. CASE CommandFails
  <2>1. PICK e \in {"aborted", "net"} : Failed(e) /\ (e = "aborted" => TestAbort)
    BY <1>1 DEF CommandFails
  <2> QED BY <2>1, CommandFailsInv DEF WorkerReceive, Errors
<1>2. CASE ~CommandFails
  <2>1. /\ worker \in [pc : WorkerPc, rec : 0..NumBlocks + 1, last : BOOLEAN, error : Errors]
        /\ worker.pc = "receive" /\ ~TestAbort
        /\ UNCHANGED <<main, exit, queue, event, written, registered, abort>>
    BY <1>2 DEF WorkerReceive, WorkerOnly, Inv, TypeOK
  <2>2. /\ ~worker.last /\ worker.rec \in 0..NumBlocks /\ worker.error = "none" /\ registered
        /\ Appended = worker.rec
    BY <2>1 DEF Inv, ObjectInv, PlaceInv, Ended, Over, Pushing, Appended
  <2>3. \E k \in 1..NumBlocks + 1, l \in BOOLEAN :
          /\ worker' = [worker EXCEPT !.pc = "push", !.rec = k, !.last = l]
          /\ k = worker.rec + 1
          /\ ~l => k <= NumBlocks
    <3>1. worker.rec + 1 \in 1..NumBlocks + 1
      BY <2>2
    <3>2. CASE worker.rec < NumBlocks /\ worker' = [worker EXCEPT !.pc = "push", !.rec = @ + 1]
      <4>1. worker.last = FALSE
        BY <2>1, <2>2
      <4>2. [worker EXCEPT !.pc = "push", !.rec = @ + 1]
              = [worker EXCEPT !.pc = "push", !.rec = worker.rec + 1, !.last = FALSE]
        BY <2>1, <4>1
      <4>3. worker.rec + 1 <= NumBlocks
        BY <2>2, <3>2
      <4> QED BY <3>1, <3>2, <4>2, <4>3
    <3>3. CASE worker' = [worker EXCEPT !.pc = "push", !.rec = @ + 1, !.last = TRUE]
      BY <2>1, <2>2, <3>1, <3>3
    <3> QED BY <1>2, <3>2, <3>3 DEF WorkerReceive
  <2>4. /\ worker'.pc = "push" /\ worker'.rec = worker.rec + 1 /\ worker'.error = "none"
        /\ worker'.rec \in 1..NumBlocks + 1 /\ (~worker'.last => worker'.rec <= NumBlocks)
        /\ worker' \in [pc : WorkerPc, rec : 0..NumBlocks + 1, last : BOOLEAN, error : Errors]
    <3>1. PICK k \in 1..NumBlocks + 1, l \in BOOLEAN :
            /\ worker' = [worker EXCEPT !.pc = "push", !.rec = k, !.last = l]
            /\ k = worker.rec + 1
            /\ ~l => k <= NumBlocks
      BY <2>3
    <3>2. worker'.pc = "push" /\ worker'.rec = k /\ worker'.error = "none" /\ (worker'.last <=> l)
      BY <2>1, <2>2, <3>1
    <3>3. k \in 0..NumBlocks + 1
      OBVIOUS
    <3>4. worker' \in [pc : WorkerPc, rec : 0..NumBlocks + 1, last : BOOLEAN, error : Errors]
      BY <2>1, <3>1, <3>3 DEF WorkerPc
    <3> QED BY <3>1, <3>2, <3>4
  <2>5. TypeOK'
    BY <2>1, <2>4 DEF Inv, TypeOK
  <2>6. PlaceInv'
    BY <2>1, <2>2, <2>4 DEF Inv, TypeOK, PlaceInv, Loop, Over, Pushing, NoThread
  <2>7. ObjectInv'
    BY <2>1, <2>2, <2>4 DEF Inv, TypeOK, ObjectInv, Ended, Over, Pushing, Loop, PlaceInv
  <2>8. FlowInv'
    <3>1. Appended' = Appended /\ Taken' = Taken /\ InHand' = InHand /\ ~Marked' /\ ~Marked
      BY <2>1, <2>2, <2>4 DEF Appended, Taken, InHand, Marked, Pushing
    <3> QED BY <2>1, <3>1 DEF Inv, FlowInv, WrittenInOrder
  <2>9. BoundInv' /\ AskedInv'
    BY <2>1, <2>2, <2>4 DEF Inv, TypeOK, FlowInv, AskedInv, AbortWasAsked, Ended, Over, BoundInv, TestAbort, PlaceInv, Pushing
  <2> QED BY <2>5, <2>6, <2>7, <2>8, <2>9 DEF Inv
<1> QED BY <1>1, <1>2

\* WorkerPush keeps the invariant.
LEMMA WorkerPushInv == Inv /\ WorkerPush => Inv'
<1> SUFFICES ASSUME Inv, WorkerPush PROVE Inv'
  OBVIOUS
<1> USE DEF WorkerPush, WorkerOnly, TooLong
<1>1. TypeOK'
  BY DEF Inv, TypeOK, MainPc, WorkerPc, Errors
<1>2. PlaceInv'
  BY DEF Inv, TypeOK, ObjectInv, PlaceInv, Loop, Over, Pushing, NoThread
<1>3. ObjectInv'
  BY DEF Inv, TypeOK, ObjectInv, Ended, Over, Pushing, Loop, PlaceInv
<1>4. FlowInv'
  BY DEF Inv, TypeOK, PlaceInv, Loop, ObjectInv, FlowInv, WrittenInOrder, Appended, Taken, InHand, Marked, Pushing
<1>5. BoundInv'
  BY DEF Inv, TypeOK, BoundInv, TestAbort, PlaceInv, Pushing
<1>6. AskedInv'
  BY DEF Inv, TypeOK, AskedInv, AbortWasAsked, Ended, Over, PlaceInv
<1> QED BY <1>1, <1>2, <1>3, <1>4, <1>5, <1>6 DEF Inv

\* WorkerRoom keeps the invariant.
LEMMA WorkerRoomInv == Inv /\ WorkerRoom => Inv'
<1> SUFFICES ASSUME Inv, WorkerRoom PROVE Inv'
  OBVIOUS
<1> USE DEF WorkerRoom, WorkerOnly, TooLong, TestAbort
<1>1. TypeOK'
  BY DEF Inv, TypeOK, MainPc, WorkerPc, Errors
<1>2. PlaceInv'
  BY DEF Inv, TypeOK, ObjectInv, PlaceInv, Loop, Over, Pushing, NoThread
<1>3. ObjectInv'
  BY DEF Inv, TypeOK, ObjectInv, Ended, Over, Pushing, Loop, PlaceInv
<1>4. FlowInv'
  BY DEF Inv, TypeOK, PlaceInv, Loop, ObjectInv, FlowInv, WrittenInOrder, Appended, Taken, InHand, Marked, Pushing
<1>5. BoundInv'
  BY DEF Inv, TypeOK, BoundInv, TestAbort, PlaceInv, Pushing
<1>6. AskedInv'
  BY DEF Inv, TypeOK, AskedInv, AbortWasAsked, Ended, Over, PlaceInv
<1> QED BY <1>1, <1>2, <1>3, <1>4, <1>5, <1>6 DEF Inv

\* WorkerAppend keeps the invariant.
LEMMA WorkerAppendInv == Inv /\ WorkerAppend => Inv'
<1> SUFFICES ASSUME Inv, WorkerAppend PROVE Inv'
  OBVIOUS
<1> DEFINE e == [off |-> worker.rec, last |-> worker.last]
           n == Len(queue)
<1>1. /\ worker.pc = "append" /\ worker.error = "none" /\ registered
      /\ UNCHANGED <<main, exit, written, registered, abort>>
      /\ worker \in [pc : WorkerPc, rec : 0..NumBlocks + 1, last : BOOLEAN, error : Errors]
      /\ worker.rec > 0
      /\ (~worker.last => worker.rec <= NumBlocks)
  BY DEF WorkerAppend, Inv, TypeOK, PlaceInv, ObjectInv, Pushing, Ended, Over
<1>2. /\ queue' = Append(queue, e) /\ event' = TRUE
      /\ worker'.pc = IF worker.last THEN "finish" ELSE "receive"
      /\ worker'.rec = worker.rec /\ worker'.last = worker.last
      /\ worker'.error = IF worker.last /\ worker.rec <= NumBlocks THEN "length" ELSE "none"
      /\ worker' \in [pc : WorkerPc, rec : 0..NumBlocks + 1, last : BOOLEAN, error : Errors]
  BY <1>1 DEF WorkerAppend, WorkerPc, Errors
<1>3. /\ queue' \in Seq(Entry) /\ n \in Nat /\ Len(queue') = n + 1
      /\ \A i \in 1..n : queue'[i] = queue[i]
      /\ queue'[n + 1] = e
  <2>1. e \in Entry /\ queue \in Seq(Entry)
    BY <1>1 DEF Inv, TypeOK, Entry
  <2> QED BY <1>2, <2>1, QueueAppended
<1>4. TypeOK'
  BY <1>1, <1>2, <1>3 DEF Inv, TypeOK
<1>5. PlaceInv'
  BY <1>1, <1>2 DEF Inv, TypeOK, PlaceInv, Loop, Over, Pushing, NoThread
<1>6. ObjectInv'
  <2>1. main.pc # "done"
    BY <1>1 DEF Inv, PlaceInv, NoThread
  <2>2. CASE worker.last
    <3>1. worker'.pc = "finish" /\ (worker'.error = "none" => worker.rec = NumBlocks + 1)
      BY <1>1, <1>2, <2>2
    <3> QED BY <1>1, <1>2, <2>1, <2>2, <3>1 DEF ObjectInv, Ended, Pushing
  <2>3. CASE ~worker.last
    <3>1. worker'.pc = "receive" /\ worker'.error = "none"
      BY <1>2, <2>3
    <3> QED BY <1>1, <1>2, <2>1, <2>3, <3>1 DEF ObjectInv, Ended, Over, Pushing
  <2> QED BY <1>1, <2>2, <2>3
<1>7. FlowInv'
  <2>1. /\ Appended = worker.rec - 1 /\ Appended' = worker.rec /\ ~Marked
        /\ (Marked' <=> worker.last) /\ (InHand' <=> InHand) /\ Taken' = Taken
    BY <1>1, <1>2 DEF Appended, Marked, Pushing, InHand, Taken
  <2>2. Appended = Taken + n /\ Taken \in Nat
    BY <1>1 DEF Inv, FlowInv, Taken, TypeOK
  <2>3. Appended' = Taken' + Len(queue')
    BY <1>1, <1>3, <2>1, <2>2
  <2>4. ASSUME NEW i \in 1..Len(queue')
        PROVE  /\ queue'[i].off = Taken' + i
               /\ queue'[i].last <=> Marked' /\ Taken' + i = worker'.rec
    <3>1. CASE i \in 1..n
      <4>1. queue[i].off = Taken + i /\ ~queue[i].last
        BY <2>1, <3>1 DEF Inv, FlowInv
      <4>2. Taken + i # worker.rec
        BY <1>1, <2>1, <2>2, <3>1
      <4> QED BY <1>2, <1>3, <2>1, <3>1, <4>1, <4>2
    <3>2. CASE i = n + 1
      <4>1. queue'[i].off = worker.rec /\ (queue'[i].last <=> worker.last)
        BY <1>3, <3>2
      <4>2. Taken' + i = worker.rec
        BY <1>1, <1>3, <2>1, <2>2, <3>2
      <4> QED BY <1>2, <2>1, <4>1, <4>2
    <3> QED BY <1>3, <3>1, <3>2
  <2>5. InHand' => /\ main'.rec.off = Taken'
                   /\ main'.rec.last <=> Marked' /\ Taken' = worker'.rec
    <3> SUFFICES ASSUME InHand PROVE main.rec.off = Taken /\ ~main.rec.last /\ Taken # worker.rec
      BY <1>1, <1>2, <2>1
    <3>1. main.rec.off = Taken /\ ~main.rec.last
      BY <2>1 DEF Inv, FlowInv
    <3> QED BY <1>1, <1>3, <2>1, <2>2, <3>1
  <2> QED BY <1>1, <2>3, <2>4, <2>5 DEF Inv, FlowInv, WrittenInOrder
<1>8. BoundInv'
  BY <1>1, <1>2, <1>3 DEF Inv, BoundInv, TestAbort
<1>9. AskedInv'
  BY <1>1, <1>2 DEF Inv, AskedInv, AbortWasAsked, Ended, Over, PlaceInv
<1> QED BY <1>4, <1>5, <1>6, <1>7, <1>8, <1>9 DEF Inv

\* WorkerFinish keeps the invariant.
LEMMA WorkerFinishInv == Inv /\ WorkerFinish => Inv'
<1> SUFFICES ASSUME Inv, WorkerFinish PROVE Inv'
  OBVIOUS
<1> USE DEF WorkerFinish, WorkerOnly
<1>1. TypeOK'
  BY DEF Inv, TypeOK, MainPc, WorkerPc, Errors
<1>2. PlaceInv'
  BY DEF Inv, TypeOK, ObjectInv, PlaceInv, Loop, Over, Pushing, NoThread
<1>3. ObjectInv'
  BY DEF Inv, TypeOK, ObjectInv, Ended, Over, Pushing, Loop, PlaceInv
<1>4. FlowInv'
  BY DEF Inv, TypeOK, PlaceInv, Loop, ObjectInv, FlowInv, WrittenInOrder, Appended, Taken, InHand, Marked, Pushing
<1>5. BoundInv'
  BY DEF Inv, TypeOK, BoundInv, TestAbort, PlaceInv, Pushing
<1>6. AskedInv'
  BY DEF Inv, TypeOK, AskedInv, AbortWasAsked, Ended, Over, PlaceInv
<1> QED BY <1>1, <1>2, <1>3, <1>4, <1>5, <1>6 DEF Inv

\* WorkerUnregister keeps the invariant.
LEMMA WorkerUnregisterInv == Inv /\ WorkerUnregister => Inv'
<1> SUFFICES ASSUME Inv, WorkerUnregister PROVE Inv'
  OBVIOUS
<1> USE DEF WorkerUnregister
<1>1. TypeOK'
  BY ZenonT(20) DEF Inv, TypeOK, MainPc, WorkerPc, Errors
<1>2. PlaceInv'
  BY DEF Inv, TypeOK, ObjectInv, PlaceInv, Loop, Over, Pushing, NoThread
<1>3. ObjectInv'
  BY DEF Inv, TypeOK, ObjectInv, Ended, Over, Pushing, Loop, PlaceInv
<1>4. FlowInv'
  BY DEF Inv, TypeOK, PlaceInv, Loop, ObjectInv, FlowInv, WrittenInOrder, Appended, Taken, InHand, Marked, Pushing
<1>5. BoundInv'
  BY DEF Inv, TypeOK, BoundInv, TestAbort, PlaceInv, Pushing
<1>6. AskedInv'
  BY DEF Inv, TypeOK, AskedInv, AbortWasAsked, Ended, Over, PlaceInv
<1> QED BY <1>1, <1>2, <1>3, <1>4, <1>5, <1>6 DEF Inv

\* WorkerKill keeps the invariant.
LEMMA WorkerKillInv == Inv /\ WorkerKill => Inv'
<1> SUFFICES ASSUME Inv, WorkerKill PROVE Inv'
  OBVIOUS
<1> USE DEF WorkerKill
<1>1. TypeOK'
  BY DEF Inv, TypeOK, MainPc, WorkerPc, Errors
<1>2. PlaceInv'
  BY DEF Inv, TypeOK, ObjectInv, PlaceInv, Loop, Over, Pushing, NoThread
<1>3. ObjectInv'
  BY DEF Inv, TypeOK, ObjectInv, Ended, Over, Pushing, Loop, PlaceInv
<1>4. FlowInv'
  BY DEF Inv, TypeOK, PlaceInv, Loop, ObjectInv, FlowInv, WrittenInOrder, Appended, Taken, InHand, Marked, Pushing
<1>5. BoundInv'
  BY DEF Inv, TypeOK, BoundInv, TestAbort, PlaceInv, Pushing
<1>6. AskedInv'
  BY DEF Inv, TypeOK, AskedInv, AbortWasAsked, Ended, Over, PlaceInv
<1> QED BY <1>1, <1>2, <1>3, <1>4, <1>5, <1>6 DEF Inv

\* WorkerExit keeps the invariant.
LEMMA WorkerExitInv == Inv /\ WorkerExit => Inv'
<1> SUFFICES ASSUME Inv, WorkerExit PROVE Inv'
  OBVIOUS
<1> USE DEF WorkerExit, WorkerOnly
<1>1. TypeOK'
  BY DEF Inv, TypeOK, MainPc, WorkerPc, Errors
<1>2. PlaceInv'
  BY DEF Inv, TypeOK, ObjectInv, PlaceInv, Loop, Over, Pushing, NoThread
<1>3. ObjectInv'
  BY DEF Inv, TypeOK, ObjectInv, Ended, Over, Pushing, Loop, PlaceInv
<1>4. FlowInv'
  BY DEF Inv, TypeOK, PlaceInv, Loop, ObjectInv, FlowInv, WrittenInOrder, Appended, Taken, InHand, Marked, Pushing
<1>5. BoundInv'
  BY DEF Inv, TypeOK, BoundInv, TestAbort, PlaceInv, Pushing
<1>6. AskedInv'
  BY DEF Inv, TypeOK, AskedInv, AbortWasAsked, Ended, Over, PlaceInv
<1> QED BY <1>1, <1>2, <1>3, <1>4, <1>5, <1>6 DEF Inv

\* WorkerLeave keeps the invariant.
LEMMA WorkerLeaveInv == Inv /\ WorkerLeave => Inv'
<1> SUFFICES ASSUME Inv, WorkerLeave PROVE Inv'
  OBVIOUS
<1> USE DEF WorkerLeave, WorkerOnly
<1>1. TypeOK'
  BY DEF Inv, TypeOK, MainPc, WorkerPc, Errors
<1>2. PlaceInv'
  BY DEF Inv, TypeOK, ObjectInv, PlaceInv, Loop, Over, Pushing, NoThread
<1>3. ObjectInv'
  BY DEF Inv, TypeOK, ObjectInv, Ended, Over, Pushing, Loop, PlaceInv
<1>4. FlowInv'
  BY DEF Inv, TypeOK, PlaceInv, Loop, ObjectInv, FlowInv, WrittenInOrder, Appended, Taken, InHand, Marked, Pushing
<1>5. BoundInv'
  BY DEF Inv, TypeOK, BoundInv, TestAbort, PlaceInv, Pushing
<1>6. AskedInv'
  BY DEF Inv, TypeOK, AskedInv, AbortWasAsked, Ended, Over, PlaceInv
<1> QED BY <1>1, <1>2, <1>3, <1>4, <1>5, <1>6 DEF Inv

\* Abort keeps the invariant.
LEMMA AbortInv == Inv /\ Abort => Inv'
<1> SUFFICES ASSUME Inv, Abort PROVE Inv'
  OBVIOUS
<1> USE DEF Abort
<1>1. TypeOK'
  BY DEF Inv, TypeOK, MainPc, WorkerPc, Errors
<1>2. PlaceInv'
  BY DEF Inv, TypeOK, ObjectInv, PlaceInv, Loop, Over, Pushing, NoThread
<1>3. ObjectInv'
  BY DEF Inv, TypeOK, ObjectInv, Ended, Over, Pushing, Loop, PlaceInv
<1>4. FlowInv'
  BY DEF Inv, TypeOK, PlaceInv, Loop, ObjectInv, FlowInv, WrittenInOrder, Appended, Taken, InHand, Marked, Pushing
<1>5. BoundInv'
  BY DEF Inv, TypeOK, BoundInv, TestAbort, PlaceInv, Pushing
<1>6. AskedInv'
  BY DEF Inv, TypeOK, AskedInv, AbortWasAsked, Ended, Over, PlaceInv
<1> QED BY <1>1, <1>2, <1>3, <1>4, <1>5, <1>6 DEF Inv

\* The invariant holds in every reachable state.
LEMMA ReadInvariant == Spec => []Inv
<1>1. Inv /\ UNCHANGED vars => Inv'
  BY DEF Inv, vars, TypeOK, PlaceInv, ObjectInv, FlowInv, BoundInv, AskedInv, Loop, Over,
         Ended, Pushing, InHand, Appended, Taken, Marked, TestAbort, NoThread,
         WrittenInOrder, AbortWasAsked
<1>2. Inv /\ [Next]_vars => Inv'
  BY <1>1, MainCreateInv, MainWaitInv, MainEnterInv, MainTestInv, MainCheckInv, MainFlagInv,
     MainDrainInv, MainWriteInv, MainKillInv, MainJoinInv, WorkerStartInv, WorkerRegisterInv,
     WorkerRequestInv, WorkerReceiveInv, WorkerPushInv, WorkerRoomInv, WorkerAppendInv,
     WorkerFinishInv, WorkerUnregisterInv, WorkerKillInv, WorkerExitInv, WorkerLeaveInv,
     AbortInv DEF Next, MainNext, WorkerStep
<1>3. QED
  BY <1>2, InitInv, PTL DEF Spec

\* The file grows in order, the queue stays within its limit, and an abort is reported
\* only if somebody asked for it (FileSupport.cpp:58-160).
THEOREM ReadsInOrder == Spec => []ReadInv
<1>1. Inv => ReadInv
  <2>1. Inv => QueueBounded
    BY DEF Inv, TypeOK, BoundInv, QueueBounded
  <2>2. QED
    BY <2>1 DEF Inv, FlowInv, AskedInv, ReadInv
<1>2. QED
  BY <1>1, ReadInvariant, PTL

\* When S3Read returns, its worker has done its last work (FileSupport.cpp:150).
THEOREM WorkIsDone == Spec => []WorkDone
<1>1. Inv => WorkDone
  BY DEF Inv, PlaceInv, WorkDone
<1>2. QED
  BY <1>1, ReadInvariant, PTL

\* If success is reported, the store sent the whole object, and what is not in the file
\* is still on the queue, with its end mark (FileSupport.cpp:94).
THEOREM NothingGoesAstray == Spec => []NothingAstray
<1>1. Inv => NothingAstray
  <2> SUFFICES ASSUME Inv, main.pc = "done", main.result = "none" PROVE NothingAstray
    BY DEF NothingAstray, Outcome
  <2>1. (worker.pc \in Over /\ worker.error = "none") \/ main.rec.last
    BY DEF Inv, PlaceInv, ObjectInv, Loop
  <2>2. main.rec.last => worker.pc \in Ended /\ Marked /\ Taken = worker.rec
    BY DEF Inv, FlowInv, InHand, ObjectInv, Marked
  <2>3. worker.last /\ worker.rec = NumBlocks + 1 /\ Marked /\ Appended = NumBlocks + 1
    BY <2>1, <2>2 DEF Inv, ObjectInv, Ended, Over, Marked, Pushing, Appended
  <2>4. /\ Appended = Taken + Len(queue) /\ Len(queue) \in Nat
        /\ written \in Seq(1..NumBlocks) /\ queue \in Seq(Entry)
    BY DEF Inv, FlowInv, TypeOK
  <2>5. CASE main.rec.last
    BY <2>2, <2>3, <2>4, <2>5 DEF Taken, InHand, NothingAstray
  <2>6. CASE ~main.rec.last
    <3>1. Taken = Len(written)
      BY <2>6 DEF Taken, InHand
    <3>2. Len(written) # NumBlocks + 1
      BY <2>4 DEF Inv, FlowInv, WrittenInOrder
    <3>3. Len(queue) > 0
      BY <2>3, <2>4, <3>1, <3>2
    <3>4. /\ queue[Len(queue)] \in Entry
          /\ queue[Len(queue)].off = NumBlocks + 1
          /\ queue[Len(queue)].last
      BY <2>3, <2>4, <3>3 DEF Inv, FlowInv
    <3>5. queue[Len(queue)] = [off |-> NumBlocks + 1, last |-> TRUE]
      BY <3>4 DEF Entry
    <3> QED BY <2>3, <2>4, <3>1, <3>3, <3>5 DEF NothingAstray
  <2> QED BY <2>5, <2>6
<1>2. QED
  BY <1>1, ReadInvariant, PTL
=============================================================================
