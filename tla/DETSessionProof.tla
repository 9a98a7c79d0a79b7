--------------------------- MODULE DETSessionProof ---------------------------
(***************************************************************************)
(* Proofs about DETSession, for any number of files, parts and calls.      *)
(***************************************************************************)
EXTENDS DETSession, SequenceTheorems, FiniteSetTheorems, TLAPS

-----------------------------------------------------------------------------
(* The inductive invariant *)

(* The thread has not yet entered its outcome, or has and is still there.  *)
Before == {"start", "check", "copy", "statEnter", "statBody", "cntEnter", "cntBody",
           "failSet", "store", "finCheck", "finPush"}

After == {"failNull", "endEnter", "endBody"}

(* The host is between SetState(vrskrsRun) and the start of the thread.    *)
Starting == {"actParse", "actEnter", "actSize", "actBegin"}

Above == {"Run", "Pause", "Cancel", "Finish", "None"}

(* The three entries of the constructor stay; what is above them was       *)
(* entered by a call or by the thread.                                     *)
StackShape ==
  /\ Len(stack) >= 3
  /\ stack[1] = "None" /\ stack[2] = "None" /\ stack[3] = "Create"
  /\ \A i \in 4..Len(stack) : stack[i] \in Above
  /\ host.pc \in {"actParse", "suspend", "resume", "rollback"} => Len(stack) >= 4

(* A null handle means no thread, except while Action assigns it.          *)
HandleInv == ~hnd /\ host.pc # "actAssign" => ~Live

(* A thread that has yet to enter its outcome finds Run, Pause or Cancel   *)
(* on top, and still does when Action's own Run is rolled back.            *)
Working == {"Run", "Pause", "Cancel"}

TopInv ==
  /\ xfer.pc \in Before => Top(stack) \in Working
  /\ host.pc = "actParse" /\ xfer.pc \in Before => stack[Len(stack) - 1] \in Working
  /\ xfer.pc \in After => Len(stack) >= 4
  /\ host.pc = "actParse" /\ Live => Len(stack) >= 5

(* Pause on top of a live thread means a suspended thread, except in the   *)
(* calls that are about to suspend it or have just resumed it; so Action   *)
(* and Resume on a paused session work beside a thread that stands still.  *)
PausedInv ==
  /\ Top(stack) = "Pause" /\ Live /\ host.pc \notin {"suspend", "cancelSet", "cancelPush"}
       => suspends > 0
  /\ host.pc \in Starting \cup {"actPush", "resumePush", "resume"} /\ Live => suspends > 0
  /\ host.pc \in Starting \cup {"resume"} => Top(stack) = "Run"
  /\ host.pc \in {"actPush", "resumePush"} => Top(stack) \in {"Create", "Pause"}
  /\ host.pc = "pausePush" => Top(stack) # "Pause"
  /\ host.pc = "rollback" => ~Live

CookieInv ==
  /\ Entered(stack, "Finish") => cookie.tried
  /\ xfer.pc \in {"finCheck", "finPush", "endEnter", "endBody"} => cookie.tried
  /\ status.State = "Finish" => cookie.tried

(* A thread has entered its outcome within the first n entries.            *)
Outcome(n) == \E i \in 4..n : stack[i] \in {"None", "Finish"}

(* At most one outcome is on the stack, and no thread works above it: a    *)
(* Pause above an outcome is a thread suspended on its way out, or is      *)
(* popped before anybody can act on it.                                    *)
OutcomeInv ==
  /\ NoFinishAfterFailure
  /\ Outcome(Len(stack)) => xfer.pc \notin Before
  /\ Outcome(Len(stack)) /\ host.pc \in Starting \cup {"actPush", "resumePush", "resume"} => Live
  /\ Outcome(Len(stack)) /\ Top(stack) = "Pause"
       /\ host.pc \notin {"suspend", "rollback", "cancelSet", "cancelPush"} => Live
  /\ host.pc \in {"suspend", "rollback"}
       => ~Outcome(Len(stack) - 1) \/ stack[Len(stack) - 1] # "Pause"

IndInv == TypeOK /\ StackShape /\ HandleInv /\ TopInv /\ PausedInv /\ CookieInv /\ OutcomeInv

TypeShape == TypeOK /\ StackShape

-----------------------------------------------------------------------------
(* Types of the records *)

StatusType == [Code : Codes, State : EShown, Total : Nat, KBytes : Nat, NumFiles : Nat]
HostType   == [pc : HostPC, op : HostOp, code : Codes]
XferType   == [pc : XferPC, index : Nat, seg : Nat, ok : BOOLEAN, code : Codes, limit : Nat]

(* The host at call points, where the stack may be as short as it is made. *)
DeepPC == {"actParse", "suspend", "resume", "rollback"}

-----------------------------------------------------------------------------
(* Steps on the stack *)

(* What entering a state does to the stack, entry by entry.                *)
LEMMA Pushed ==
  ASSUME stack \in Seq(RunState), NEW s \in RunState, stack' = Append(stack, s)
  PROVE  /\ stack' \in Seq(RunState)
         /\ Len(stack') = Len(stack) + 1
         /\ \A i \in 1..Len(stack) : stack'[i] = stack[i]
         /\ stack'[Len(stack) + 1] = s
BY AppendProperties

(* What RollbackState does to a stack that is not empty.                   *)
LEMMA Popped ==
  ASSUME stack \in Seq(RunState), stack # <<>>, stack' = RollBackState(stack)
  PROVE  /\ stack' \in Seq(RunState)
         /\ Len(stack') = Len(stack) - 1
         /\ \A i \in 1..(Len(stack) - 1) : stack'[i] = stack[i]
<1> DEFINE n == Len(stack) - 1
<1>1. stack' = SubSeq(stack, 1, n) BY DEF RollBackState
<1>2. 1 \in Int /\ n \in Int /\ n >= 0 OBVIOUS
<1>3. \A i \in 1..n : stack[i] \in RunState OBVIOUS
<1> HIDE DEF n
<1>4. /\ SubSeq(stack, 1, n) \in Seq(RunState)
      /\ Len(SubSeq(stack, 1, n)) = IF 1 <= n THEN n-1+1 ELSE 0
      /\ \A i \in 1..n-1+1 : SubSeq(stack, 1, n)[i] = stack[1+i-1]
  BY <1>2, <1>3, SubSeqProperties
<1>5. Len(SubSeq(stack, 1, n)) = n BY <1>2, <1>4
<1>6. \A i \in 1..n : SubSeq(stack, 1, n)[i] = stack[i]
  <2> TAKE i \in 1..n
  <2>1. i \in 1..n-1+1 /\ 1+i-1 = i BY <1>2
  <2>2. SubSeq(stack, 1, n)[i] = stack[1+i-1] BY <2>1, <1>4
  <2> QED BY <2>1, <2>2
<1> QED BY <1>1, <1>4, <1>5, <1>6 DEF n

(* A step that leaves the stack alone keeps its shape.                     *)
LEMMA ShapeSame ==
  ASSUME StackShape, UNCHANGED stack, host'.pc \in DeepPC => Len(stack) >= 4
  PROVE  StackShape'
BY DEF StackShape, DeepPC

(* So does entering a state.                                               *)
LEMMA ShapePush ==
  ASSUME TypeShape, NEW s \in Above, stack' = Append(stack, s)
  PROVE  StackShape' /\ stack' \in Seq(RunState)
<1>1. s \in RunState BY DEF Above, RunState
<1>2. /\ stack' \in Seq(RunState)
      /\ Len(stack') = Len(stack) + 1
      /\ \A i \in 1..Len(stack) : stack'[i] = stack[i]
      /\ stack'[Len(stack) + 1] = s
  BY <1>1, Pushed DEF TypeShape, TypeOK
<1> QED BY <1>2 DEF TypeShape, StackShape

(* And so does rolling one back, where a call has entered one.             *)
LEMMA ShapePop ==
  ASSUME TypeShape, Len(stack) >= 4, stack' = RollBackState(stack), host'.pc \notin DeepPC
  PROVE  StackShape' /\ stack' \in Seq(RunState)
<1>1. /\ stack' \in Seq(RunState)
      /\ Len(stack') = Len(stack) - 1
      /\ \A i \in 1..(Len(stack) - 1) : stack'[i] = stack[i]
  BY Popped DEF TypeShape, TypeOK
<1> QED BY <1>1 DEF TypeShape, StackShape, DeepPC

-----------------------------------------------------------------------------
(* Values of the variables *)

(* Every internal state has a state to show; only Finish shows as Finish.  *)
LEMMA TypeGetState ==
  ASSUME stack \in Seq(RunState), Len(stack) >= 1
  PROVE  /\ GetState(stack) \in EShown
         /\ GetState(stack) = "Finish" => Top(stack) = "Finish"
<1>1. Top(stack) \in RunState BY DEF Top
<1> QED BY <1>1 DEF GetState, StateMapTbl, EShown, RunState

(* SetStatus leaves a well-formed m_Status with the state of the stack.    *)
LEMMA TypeNewStatus ==
  ASSUME TypeShape, NEW c \in Codes, NEW n \in Nat
  PROVE  /\ NewStatus(c, n) \in StatusType
         /\ NewStatus(c, n).State = GetState(stack)
<1>1. GetState(stack) \in EShown BY TypeGetState DEF TypeShape, TypeOK, StackShape
<1>2. status \in StatusType BY DEF TypeShape, TypeOK, StatusType
<1> DEFINE k == status.KBytes + n
<1>3. NewStatus(c, n) = [status EXCEPT !.Code = c, !.State = GetState(stack), !.KBytes = k]
  BY DEF NewStatus
<1>4. k \in Nat BY <1>2 DEF StatusType
<1> HIDE DEF k
<1> QED BY <1>1, <1>2, <1>3, <1>4 DEF StatusType

LEMMA TypeHostTo ==
  ASSUME TypeOK, NEW l \in HostPC, HostTo(l)
  PROVE  host' \in HostType /\ host'.pc = l /\ host'.op = host.op
BY DEF TypeOK, HostTo, HostType

LEMMA TypeHostReport ==
  ASSUME TypeOK, NEW c \in Codes, HostReport(c)
  PROVE  host' \in HostType /\ host'.pc = "stEnter"
BY DEF TypeOK, HostReport, HostType, HostPC

LEMMA TypeHostReturn ==
  ASSUME TypeOK, HostReturn
  PROVE  host' \in HostType /\ host'.pc \in {"idle", "cancelRead", "delete"}
<1>1. HostIdle \in HostType /\ HostIdle.pc = "idle"
  BY DEF HostIdle, HostType, HostPC, HostOp, Codes
<1> DEFINE a == [HostIdle EXCEPT !.pc = "cancelRead", !.op = "CloseCancel"]
           b == [HostIdle EXCEPT !.pc = "delete"]
<1>2. a \in HostType /\ a.pc = "cancelRead" BY <1>1 DEF HostType, HostPC, HostOp
<1>3. b \in HostType /\ b.pc = "delete" BY <1>1 DEF HostType, HostPC
<1>4. host' \in {a, b, HostIdle} BY DEF HostReturn
<1> HIDE DEF a, b
<1> QED BY <1>1, <1>2, <1>3, <1>4

LEMMA TypeXferTo ==
  ASSUME TypeOK, NEW l \in XferPC, XferTo(l)
  PROVE  xfer' \in XferType /\ xfer'.pc = l
BY DEF TypeOK, XferTo, XferType

(* ++index of the loop over the files.                                     *)
LEMMA TypeXferNext ==
  ASSUME TypeOK, NEW l \in XferPC, xfer' = [xfer EXCEPT !.pc = l, !.index = @ + 1]
  PROVE  xfer' \in XferType /\ xfer'.pc = l
<1> DEFINE k == xfer.index + 1
<1>1. k \in Nat BY DEF TypeOK
<1>2. xfer' = [xfer EXCEPT !.pc = l, !.index = k] OBVIOUS
<1> HIDE DEF k
<1> QED BY <1>1, <1>2 DEF TypeOK, XferType

(* A flag of the list is overwritten, if it is there at all.               *)
LEMMA TypeSetFlag ==
  ASSUME list \in Seq(Flag), NEW i, NEW f \in Flag
  PROVE  [list EXCEPT ![i] = f] \in Seq(Flag)
<1>1. CASE i \in 1..Len(list) BY <1>1, ExceptSeq
<1>2. CASE i \notin 1..Len(list)
  <2>1. list = [j \in 1..Len(list) |-> list[j]] OBVIOUS
  <2>2. [list EXCEPT ![i] = f] = list BY <1>2, <2>1
  <2> QED BY <2>2
<1> QED BY <1>1, <1>2

-----------------------------------------------------------------------------
(* Every action keeps TypeShape *)

LEMMA InitTyped == Init => TypeShape
<1> SUFFICES ASSUME Init PROVE TypeShape OBVIOUS
<1>1. stack \in Seq(RunState) /\ StackShape BY DEF Init, NewStack, StackShape, RunState, HostIdle
<1>2. host \in HostType BY DEF Init, HostIdle, HostType, HostPC, HostOp, Codes
<1>3. xfer \in XferType BY DEF Init, Thread, XferType, XferPC, Codes
<1>4. status \in StatusType BY DEF Init, StatusType, Codes, EShown
<1>5. list \in Seq(Flag) BY DEF Init
<1>6. cookie \in [tried : BOOLEAN, made : BOOLEAN, ok : SUBSET Nat] BY DEF Init
<1>7. hnd \in BOOLEAN /\ suspends \in Nat /\ calls \in Nat BY SessionAssumption DEF Init
<1>8. obj = "none" /\ cs = "free" /\ poll = "idle" BY DEF Init
<1> QED
  BY <1>1, <1>2, <1>3, <1>4, <1>5, <1>6, <1>7, <1>8
  DEF TypeShape, TypeOK, HostType, XferType, StatusType

(* Calls, and the look-ups of SetState in the host thread.                 *)
LEMMA TypedHostCall == ASSUME TypeShape, NEW op \in Calls, HostCall(op) PROVE TypeShape'
<1>1. op \in {"Action", "Pause", "Resume", "Cancel", "Close"} BY SessionAssumption
<1>2. EntryPoint(op) \in HostPC \ DeepPC BY <1>1 DEF EntryPoint, HostPC, DeepPC
<1>3. host' \in HostType /\ host'.pc \notin DeepPC
  BY <1>1, <1>2 DEF HostCall, HostType, HostOp, Codes
<1>4. calls' \in Nat BY DEF HostCall, TypeShape, TypeOK
<1>5. UNCHANGED <<obj, stack, list, hnd, status, cookie, cs, suspends, xfer, poll>> BY DEF HostCall
<1>6. StackShape' BY <1>3, <1>5, ShapeSame DEF TypeShape
<1> QED BY <1>3, <1>4, <1>5, <1>6 DEF TypeShape, TypeOK, HostType

(* A step that changes the host's place and nothing else that TypeOK or    *)
(* the shape of the stack depends on.                                      *)
LEMMA TypedHostMove ==
  ASSUME TypeShape, host' \in HostType, host'.pc \in DeepPC => Len(stack) >= 4,
         UNCHANGED <<obj, stack, list, hnd, status, cookie, cs, suspends, xfer, poll, calls>>
  PROVE  TypeShape'
<1>1. StackShape' BY ShapeSame DEF TypeShape
<1> QED BY <1>1 DEF TypeShape, TypeOK, HostType

LEMMA TypedHostTest ==
  ASSUME TypeShape, NEW at, NEW s, NEW yes \in HostPC \ DeepPC, HostTest(at, s, yes)
  PROVE  TypeShape'
<1>1. host' \in HostType /\ host'.pc = yes BY TypeHostTo DEF HostTest, TypeShape
<1> QED BY <1>1, TypedHostMove DEF HostTest

LEMMA TypedHostRefuse ==
  ASSUME TypeShape, NEW at, NEW s, HostRefuse(at, s)
  PROVE  TypeShape'
<1>1. host' \in HostType /\ host'.pc \notin DeepPC
  BY TypeHostReturn DEF HostRefuse, TypeShape, DeepPC
<1> QED BY <1>1, TypedHostMove DEF HostRefuse

LEMMA TypedNullTest ==
  ASSUME TypeShape, NEW at, NEW next \in HostPC \ DeepPC, NullTest(at, next)
  PROVE  TypeShape'
<1>1. host' \in HostType /\ host'.pc \notin DeepPC
  BY TypeHostReturn, TypeHostTo DEF NullTest, TypeShape, DeepPC
<1> QED BY <1>1, TypedHostMove DEF NullTest

LEMMA TypedHostPush ==
  ASSUME TypeShape, NEW at, NEW s \in Above, HostPush(at, s), host' \in HostType
  PROVE  TypeShape'
<1>1. StackShape' /\ stack' \in Seq(RunState) BY ShapePush DEF HostPush
<1> QED BY <1>1 DEF HostPush, TypeShape, TypeOK, HostType

LEMMA TypedActionSetState == TypeShape /\ ActionSetState => TypeShape'
<1> SUFFICES ASSUME TypeShape, ActionSetState PROVE TypeShape' OBVIOUS
<1>1. CASE HostTest("actCheck", "Run", "actPush") BY <1>1, TypedHostTest DEF HostPC, DeepPC
<1>2. CASE HostRefuse("actCheck", "Run") BY <1>2, TypedHostRefuse
<1>3. CASE HostPush("actPush", "Run") /\ HostTo("actParse")
  BY <1>3, TypedHostPush, TypeHostTo DEF TypeShape, HostPC, Above
<1> QED BY <1>1, <1>2, <1>3 DEF ActionSetState

LEMMA TypedActionParse == TypeShape /\ ActionParse => TypeShape'
<1> SUFFICES ASSUME TypeShape, ActionParse PROVE TypeShape' OBVIOUS
<1>1. list' \in Seq(Flag)
  <2>1. PICK n \in 0..NumFiles :
          list' = [i \in 1..(Len(list) + n) |-> IF i <= Len(list) THEN list[i] ELSE "unset"]
    BY DEF ActionParse
  <2>2. Len(list) + n \in Nat BY SessionAssumption DEF TypeShape, TypeOK
  <2>3. \A i \in 1..(Len(list) + n) : (IF i <= Len(list) THEN list[i] ELSE "unset") \in Flag
    BY DEF TypeShape, TypeOK, Flag
  <2>4. list' \in [1..(Len(list) + n) -> Flag] BY <2>1, <2>3
  <2> DEFINE m == Len(list) + n
  <2>5. m \in Nat /\ list' \in [1..m -> Flag] BY <2>2, <2>4
  <2> HIDE DEF m
  <2> QED BY <2>5
<1>2. host' \in HostType /\ host'.pc \notin DeepPC
  BY TypeHostTo, TypeHostReport DEF ActionParse, TypeShape, HostPC, Codes, DeepPC
<1>3. Len(stack) >= 4 BY DEF ActionParse, TypeShape, StackShape
<1>4. StackShape' /\ stack' \in Seq(RunState)
  <2>1. CASE UNCHANGED stack BY <1>2, <2>1, ShapeSame DEF TypeShape, TypeOK
  <2>2. CASE stack' = RollBackState(stack) BY <1>2, <1>3, <2>2, ShapePop
  <2> QED BY <2>1, <2>2 DEF ActionParse
<1>5. UNCHANGED <<obj, hnd, status, cookie, cs, suspends, xfer, poll, calls>> BY DEF ActionParse
<1> QED BY <1>1, <1>2, <1>4, <1>5 DEF TypeShape, TypeOK, HostType

LEMMA TypedActionEnter == TypeShape /\ ActionEnter => TypeShape'
<1> SUFFICES ASSUME TypeShape, ActionEnter PROVE TypeShape' OBVIOUS
<1>1. host' \in HostType /\ host'.pc \notin DeepPC
  BY TypeHostTo DEF ActionEnter, TypeShape, HostPC, DeepPC
<1>2. StackShape' BY <1>1, ShapeSame DEF ActionEnter, TypeShape
<1> QED BY <1>1, <1>2 DEF ActionEnter, TypeShape, TypeOK, HostType

LEMMA TypedActionSize == TypeShape /\ ActionSize => TypeShape'
<1> SUFFICES ASSUME TypeShape, ActionSize PROVE TypeShape' OBVIOUS
<1>1. host' \in HostType /\ host'.pc \notin DeepPC
  BY TypeHostTo DEF ActionSize, TypeShape, HostPC, DeepPC
<1>2. StackShape' BY <1>1, ShapeSame DEF ActionSize, TypeShape
<1>3. status' \in StatusType
  <2>1. PICK n \in 0..Len(list) : status' = [NewStatus("NoError", 0) EXCEPT !.Total = n * Segments]
    BY DEF ActionSize
  <2> DEFINE k == n * Segments
             st == NewStatus("NoError", 0)
  <2>2. Len(list) \in Nat BY DEF TypeShape, TypeOK
  <2>3. k \in Nat BY <2>2, SessionAssumption
  <2>4. st \in StatusType BY TypeNewStatus DEF Codes
  <2>5. status' = [st EXCEPT !.Total = k] BY <2>1
  <2> HIDE DEF k, st
  <2> QED BY <2>3, <2>4, <2>5 DEF StatusType
<1> QED BY <1>1, <1>2, <1>3 DEF ActionSize, TypeShape, TypeOK, HostType, StatusType

LEMMA TypedActionBegin == TypeShape /\ ActionBegin => TypeShape'
<1> SUFFICES ASSUME TypeShape, ActionBegin PROVE TypeShape' OBVIOUS
<1>1. host' \in HostType /\ host'.pc \notin DeepPC
  BY TypeHostTo, TypeHostReport DEF ActionBegin, TypeShape, HostPC, Codes, DeepPC
<1>2. StackShape' BY <1>1, ShapeSame DEF ActionBegin, TypeShape
<1>3. Thread("start") \in XferType BY DEF Thread, XferType, XferPC, Codes
<1>4. xfer' \in XferType /\ suspends' \in Nat
  BY <1>3 DEF ActionBegin, TypeShape, TypeOK, XferType
<1> QED BY <1>1, <1>2, <1>4 DEF ActionBegin, TypeShape, TypeOK, HostType, XferType

LEMMA TypedActionAssign == TypeShape /\ ActionAssign => TypeShape'
<1> SUFFICES ASSUME TypeShape, ActionAssign PROVE TypeShape' OBVIOUS
<1>1. host' \in HostType /\ host'.pc \notin DeepPC
  BY TypeHostReturn DEF ActionAssign, TypeShape, DeepPC
<1>2. StackShape' BY <1>1, ShapeSame DEF ActionAssign, TypeShape
<1> QED BY <1>1, <1>2 DEF ActionAssign, TypeShape, TypeOK, HostType

LEMMA TypedPauseSetState == TypeShape /\ PauseSetState => TypeShape'
<1> SUFFICES ASSUME TypeShape, PauseSetState PROVE TypeShape' OBVIOUS
<1>1. CASE NullTest("pauseNull", "pauseCheck") BY <1>1, TypedNullTest DEF HostPC, DeepPC
<1>2. CASE HostTest("pauseCheck", "Pause", "pausePush") BY <1>2, TypedHostTest DEF HostPC, DeepPC
<1>3. CASE HostRefuse("pauseCheck", "Pause") BY <1>3, TypedHostRefuse
<1>4. CASE HostPush("pausePush", "Pause") /\ HostTo("suspend")
  BY <1>4, TypedHostPush, TypeHostTo DEF TypeShape, HostPC, Above
<1> QED BY <1>1, <1>2, <1>3, <1>4 DEF PauseSetState

LEMMA TypedPauseSuspend == TypeShape /\ PauseSuspend => TypeShape'
<1> SUFFICES ASSUME TypeShape, PauseSuspend PROVE TypeShape' OBVIOUS
<1>1. host' \in HostType
  BY TypeHostTo, TypeHostReport DEF PauseSuspend, TypeShape, HostPC, Codes
<1>2. Len(stack) >= 4 BY DEF PauseSuspend, TypeShape, StackShape
<1>3. StackShape' BY <1>2, ShapeSame DEF PauseSuspend, TypeShape
<1>4. suspends' \in Nat BY DEF PauseSuspend, TypeShape, TypeOK
<1> QED BY <1>1, <1>3, <1>4 DEF PauseSuspend, TypeShape, TypeOK, HostType

LEMMA TypedResumeSetState == TypeShape /\ ResumeSetState => TypeShape'
<1> SUFFICES ASSUME TypeShape, ResumeSetState PROVE TypeShape' OBVIOUS
<1>1. CASE NullTest("resumeNull", "resumeCheck") BY <1>1, TypedNullTest DEF HostPC, DeepPC
<1>2. CASE HostTest("resumeCheck", "Run", "resumePush") BY <1>2, TypedHostTest DEF HostPC, DeepPC
<1>3. CASE HostRefuse("resumeCheck", "Run") BY <1>3, TypedHostRefuse
<1>4. CASE HostPush("resumePush", "Run") /\ HostTo("resume")
  BY <1>4, TypedHostPush, TypeHostTo DEF TypeShape, HostPC, Above
<1> QED BY <1>1, <1>2, <1>3, <1>4 DEF ResumeSetState

LEMMA TypedResumeResume == TypeShape /\ ResumeResume => TypeShape'
<1> SUFFICES ASSUME TypeShape, ResumeResume PROVE TypeShape' OBVIOUS
<1>1. host' \in HostType
  BY TypeHostTo, TypeHostReport DEF ResumeResume, ResumeThread, TypeShape, HostPC, Codes
<1>2. Len(stack) >= 4 BY DEF ResumeResume, TypeShape, StackShape
<1>3. StackShape' BY <1>2, ShapeSame DEF ResumeResume, TypeShape
<1>4. suspends' \in Nat BY DEF ResumeResume, ResumeThread, TypeShape, TypeOK
<1> QED BY <1>1, <1>3, <1>4 DEF ResumeResume, TypeShape, TypeOK, HostType

LEMMA TypedRollback == TypeShape /\ Rollback => TypeShape'
<1> SUFFICES ASSUME TypeShape, Rollback PROVE TypeShape' OBVIOUS
<1>1. host' \in HostType /\ host'.pc \notin DeepPC
  BY TypeHostReport DEF Rollback, TypeShape, Codes, DeepPC
<1>2. Len(stack) >= 4 BY DEF Rollback, TypeShape, StackShape
<1>3. StackShape' /\ stack' \in Seq(RunState) BY <1>1, <1>2, ShapePop DEF Rollback
<1> QED BY <1>1, <1>3 DEF Rollback, TypeShape, TypeOK, HostType

LEMMA TypedCancelRead == TypeShape /\ CancelRead => TypeShape'
<1> SUFFICES ASSUME TypeShape, CancelRead PROVE TypeShape' OBVIOUS
<1>1. host' \in HostType /\ host'.pc \notin DeepPC
  BY TypeHostTo DEF CancelRead, TypeShape, HostPC, DeepPC
<1> QED BY <1>1, TypedHostMove DEF CancelRead

LEMMA TypedCancelSetState == TypeShape /\ CancelSetState => TypeShape'
<1> SUFFICES ASSUME TypeShape, CancelSetState PROVE TypeShape' OBVIOUS
<1>1. CASE HostTest("cancelCheck", "Cancel", "cancelPush")
  BY <1>1, TypedHostTest DEF HostPC, DeepPC
<1>2. CASE /\ HostTo("cancelWhy")
           /\ UNCHANGED <<obj, stack, list, hnd, status, cookie, cs, suspends, xfer, poll, calls>>
  <2>1. host' \in HostType /\ host'.pc \notin DeepPC
    BY <1>2, TypeHostTo DEF TypeShape, HostPC, DeepPC
  <2> QED BY <1>2, <2>1, TypedHostMove
<1>3. CASE HostPush("cancelPush", "Cancel") /\ HostReport("NoError")
  BY <1>3, TypedHostPush, TypeHostReport DEF TypeShape, Codes, Above
<1> QED BY <1>1, <1>2, <1>3 DEF CancelSetState

LEMMA TypedCancelWhy == TypeShape /\ CancelWhy => TypeShape'
<1> SUFFICES ASSUME TypeShape, CancelWhy PROVE TypeShape' OBVIOUS
<1>1. host' \in HostType /\ host'.pc \notin DeepPC
  BY TypeHostReport DEF CancelWhy, TypeShape, Codes, DeepPC
<1> QED BY <1>1, TypedHostMove DEF CancelWhy

LEMMA TypedCancelPaused == TypeShape /\ CancelPaused => TypeShape'
<1> SUFFICES ASSUME TypeShape, CancelPaused PROVE TypeShape' OBVIOUS
<1>1. CASE /\ ResumeThread(HostTo("cancelSet"), HostTo("cancelSet"))
           /\ UNCHANGED <<obj, stack, list, hnd, status, cookie, cs, xfer, poll, calls>>
  <2>1. host' \in HostType /\ host'.pc \notin DeepPC
    BY <1>1, TypeHostTo DEF ResumeThread, TypeShape, HostPC, DeepPC
  <2>2. suspends' \in Nat BY <1>1 DEF ResumeThread, TypeShape, TypeOK
  <2>3. StackShape' BY <1>1, <2>1, ShapeSame DEF TypeShape
  <2> QED BY <1>1, <2>1, <2>2, <2>3 DEF TypeShape, TypeOK, HostType
<1>2. CASE HostTest("cancelSet", "Cancel", "cancelPush")
  BY <1>2, TypedHostTest DEF HostPC, DeepPC
<1>3. CASE /\ HostReport("NoError")
           /\ UNCHANGED <<obj, stack, list, hnd, status, cookie, cs, suspends, xfer, poll, calls>>
  <2>1. host' \in HostType /\ host'.pc \notin DeepPC
    BY <1>3, TypeHostReport DEF TypeShape, Codes, DeepPC
  <2> QED BY <1>3, <2>1, TypedHostMove
<1> QED BY <1>1, <1>2, <1>3 DEF CancelPaused

LEMMA TypedHostStatus == TypeShape /\ (HostStatusEnter \/ HostStatusBody) => TypeShape'
<1> SUFFICES ASSUME TypeShape, HostStatusEnter \/ HostStatusBody PROVE TypeShape' OBVIOUS
<1>1. host' \in HostType /\ host'.pc \notin DeepPC
  BY TypeHostTo, TypeHostReturn DEF HostStatusEnter, HostStatusBody, TypeShape, HostPC, DeepPC
<1>2. StackShape' BY <1>1, ShapeSame DEF HostStatusEnter, HostStatusBody, TypeShape
<1>3. CASE HostStatusEnter BY <1>1, <1>2, <1>3 DEF HostStatusEnter, TypeShape, TypeOK, HostType
<1>4. CASE HostStatusBody
  <2>1. host.code \in Codes BY DEF TypeShape, TypeOK
  <2>2. status' \in StatusType BY <1>4, <2>1, TypeNewStatus DEF HostStatusBody
  <2> QED BY <1>1, <1>2, <1>4, <2>2 DEF HostStatusBody, TypeShape, TypeOK, HostType, StatusType
<1> QED BY <1>3, <1>4

LEMMA TypedHostDelete == TypeShape /\ HostDelete => TypeShape'
<1> SUFFICES ASSUME TypeShape, HostDelete PROVE TypeShape' OBVIOUS
<1>1. host' \in HostType /\ host'.pc \notin DeepPC
  BY DEF HostDelete, HostIdle, HostType, HostPC, HostOp, Codes, DeepPC
<1>2. StackShape' BY <1>1, ShapeSame DEF HostDelete, TypeShape
<1> QED BY <1>1, <1>2 DEF HostDelete, TypeShape, TypeOK, HostType

LEMMA TypedHostStep == TypeShape /\ HostStep => TypeShape'
BY TypedActionSetState, TypedActionParse, TypedActionEnter, TypedActionSize, TypedActionBegin,
   TypedActionAssign, TypedPauseSetState, TypedPauseSuspend, TypedResumeSetState,
   TypedResumeResume, TypedRollback, TypedCancelRead, TypedCancelSetState, TypedCancelWhy,
   TypedCancelPaused, TypedHostStatus, TypedHostDelete
   DEF HostStep

(* The transfer thread: the host's record stays as it is.                  *)
LEMMA TypedXferMove ==
  ASSUME TypeShape, xfer' \in XferType,
         UNCHANGED <<obj, stack, list, hnd, status, cookie, cs, suspends, host, poll, calls>>
  PROVE  TypeShape'
<1>1. StackShape' BY DEF TypeShape, StackShape
<1> QED BY <1>1 DEF TypeShape, TypeOK, XferType

LEMMA TypedXferStart == TypeShape /\ XferStart => TypeShape'
<1> SUFFICES ASSUME TypeShape, XferStart PROVE TypeShape' OBVIOUS
<1> DEFINE n == Len(list)
<1>1. n \in Nat BY DEF TypeShape, TypeOK
<1>2. xfer' = [xfer EXCEPT !.pc = "check", !.limit = n] BY DEF XferStart
<1> HIDE DEF n
<1>3. xfer' \in XferType BY <1>1, <1>2 DEF TypeShape, TypeOK, XferType, XferPC
<1> QED BY <1>3, TypedXferMove DEF XferStart

LEMMA TypedXferCheck == TypeShape /\ XferCheck => TypeShape'
<1> SUFFICES ASSUME TypeShape, XferCheck PROVE TypeShape' OBVIOUS
<1>1. CASE XferTo("store") BY <1>1, TypeXferTo, TypedXferMove DEF XferCheck, TypeShape, XferPC
<1>2. CASE xfer' = [xfer EXCEPT !.pc = "copy", !.seg = 1, !.ok = TRUE]
  <2>1. xfer' \in XferType BY <1>2 DEF TypeShape, TypeOK, XferType, XferPC
  <2> QED BY <2>1, TypedXferMove DEF XferCheck
<1>3. CASE xfer' = [xfer EXCEPT !.index = @ + 1]
  <2> DEFINE k == xfer.index + 1
  <2>1. k \in Nat BY DEF TypeShape, TypeOK
  <2>2. xfer' = [xfer EXCEPT !.index = k] BY <1>3
  <2> HIDE DEF k
  <2>3. xfer' \in XferType BY <2>1, <2>2 DEF TypeShape, TypeOK, XferType
  <2> QED BY <2>3, TypedXferMove DEF XferCheck
<1> QED BY <1>1, <1>2, <1>3 DEF XferCheck

LEMMA TypedXferCopy == TypeShape /\ XferCopy => TypeShape'
<1> SUFFICES ASSUME TypeShape, XferCopy PROVE TypeShape' OBVIOUS
<1>1. xfer' \in XferType BY DEF XferCopy, XferTo, TypeShape, TypeOK, XferType, XferPC, Codes
<1>2. list' \in Seq(Flag)
  <2>1. list \in Seq(Flag) /\ "yes" \in Flag BY DEF TypeShape, TypeOK, Flag
  <2>2. list' = list \/ list' = [list EXCEPT ![xfer.index] = "yes"] BY DEF XferCopy, Promised
  <2> QED BY <2>1, <2>2, TypeSetFlag
<1>3. UNCHANGED <<obj, stack, hnd, status, cookie, cs, suspends, host, poll, calls>>
  BY DEF XferCopy
<1>4. StackShape' BY <1>3 DEF TypeShape, StackShape
<1> QED BY <1>1, <1>2, <1>3, <1>4 DEF TypeShape, TypeOK, XferType

LEMMA TypedXferEnter == TypeShape /\ XferEnter => TypeShape'
<1> SUFFICES ASSUME TypeShape, XferEnter PROVE TypeShape' OBVIOUS
<1>1. xfer' \in XferType BY TypeXferTo DEF XferEnter, TypeShape, XferPC
<1>2. StackShape' BY DEF XferEnter, TypeShape, StackShape
<1> QED BY <1>1, <1>2 DEF XferEnter, TypeShape, TypeOK, XferType

LEMMA TypedXferStatus == TypeShape /\ XferStatus => TypeShape'
<1> SUFFICES ASSUME TypeShape, XferStatus PROVE TypeShape' OBVIOUS
<1>1. status' \in StatusType
  <2>1. xfer.code \in Codes BY DEF TypeShape, TypeOK
  <2> QED BY <2>1, TypeNewStatus DEF XferStatus
<1>2. list' \in Seq(Flag)
  <2>1. FileFlag \in Flag BY DEF FileFlag, Flag
  <2>2. list \in Seq(Flag) BY DEF TypeShape, TypeOK
  <2>3. list' = list \/ list' = [list EXCEPT ![xfer.index] = FileFlag] BY DEF XferStatus
  <2> QED BY <2>1, <2>2, <2>3, TypeSetFlag
<1>3. xfer' \in XferType
  <2>1. CASE xfer' = [xfer EXCEPT !.pc = "copy", !.seg = @ + 1]
    <3> DEFINE k == xfer.seg + 1
    <3>1. k \in Nat BY DEF TypeShape, TypeOK
    <3>2. xfer' = [xfer EXCEPT !.pc = "copy", !.seg = k] BY <2>1
    <3> HIDE DEF k
    <3> QED BY <3>1, <3>2 DEF TypeShape, TypeOK, XferType, XferPC
  <2>2. CASE XferTo(IF xfer.ok THEN "cntEnter" ELSE "failSet")
    BY <2>2, TypeXferTo DEF TypeShape, XferPC
  <2> QED BY <2>1, <2>2 DEF XferStatus
<1>4. StackShape' BY DEF XferStatus, TypeShape, StackShape
<1> QED BY <1>1, <1>2, <1>3, <1>4 DEF TypeShape, TypeOK, XferStatus, StatusType, XferType

LEMMA TypedXferCount == TypeShape /\ XferCount => TypeShape'
<1> SUFFICES ASSUME TypeShape, XferCount PROVE TypeShape' OBVIOUS
<1>1. xfer' \in XferType BY TypeXferNext DEF XferCount, TypeShape, XferPC
<1>2. status' \in StatusType
  <2> DEFINE k == status.NumFiles + 1
  <2>1. k \in Nat BY DEF TypeShape, TypeOK
  <2>2. status' = [status EXCEPT !.NumFiles = k] BY DEF XferCount
  <2> HIDE DEF k
  <2> QED BY <2>1, <2>2 DEF TypeShape, TypeOK, StatusType
<1>3. StackShape' BY DEF XferCount, TypeShape, StackShape
<1> QED BY <1>1, <1>2, <1>3 DEF TypeShape, TypeOK, XferCount, StatusType, XferType

LEMMA TypedXferFail == TypeShape /\ XferFail => TypeShape'
<1> SUFFICES ASSUME TypeShape, XferFail PROVE TypeShape' OBVIOUS
<1>1. xfer' \in XferType BY TypeXferTo DEF XferFail, TypeShape, XferPC
<1>2. StackShape' /\ stack' \in Seq(RunState)
  <2>1. CASE stack' = Append(stack, "None") BY <2>1, ShapePush DEF Above
  <2>2. CASE UNCHANGED stack /\ UNCHANGED host BY <2>2 DEF TypeShape, TypeOK, StackShape
  <2> QED BY <2>1, <2>2 DEF XferFail
<1> QED BY <1>1, <1>2 DEF TypeShape, TypeOK, XferFail, XferType

LEMMA TypedXferStore == TypeShape /\ XferStore => TypeShape'
<1> SUFFICES ASSUME TypeShape, XferStore PROVE TypeShape' OBVIOUS
<1>1. xfer' \in XferType BY TypeXferTo DEF XferStore, TypeShape, XferPC
<1>2. cookie' \in [tried : BOOLEAN, made : BOOLEAN, ok : SUBSET Nat]
  <2>1. Len(list) \in Nat BY DEF TypeShape, TypeOK
  <2>2. Yes \subseteq Nat /\ Unset \subseteq Nat BY <2>1 DEF Yes, Unset
  <2>3. ASSUME NEW g \in SUBSET Unset, cookie' = [tried |-> TRUE, made |-> TRUE, ok |-> Yes \cup g]
        PROVE  cookie' \in [tried : BOOLEAN, made : BOOLEAN, ok : SUBSET Nat]
    <3>1. Yes \cup g \in SUBSET Nat BY <2>2
    <3> QED BY <2>3, <3>1
  <2>4. CASE cookie' = [cookie EXCEPT !.tried = TRUE, !.made = FALSE]
    BY <2>4 DEF TypeShape, TypeOK
  <2> QED BY <2>3, <2>4 DEF XferStore
<1>3. StackShape' BY DEF XferStore, TypeShape, StackShape
<1> QED BY <1>1, <1>2, <1>3 DEF TypeShape, TypeOK, XferStore, XferType

LEMMA TypedXferFinish == TypeShape /\ XferFinish => TypeShape'
<1> SUFFICES ASSUME TypeShape, XferFinish PROVE TypeShape' OBVIOUS
<1>1. xfer' \in XferType
  BY ZenonT(20) DEF XferFinish, XferTo, TypeShape, TypeOK, XferType, XferPC, Codes
<1>2. StackShape' /\ stack' \in Seq(RunState)
  <2>1. CASE stack' = Append(stack, "Finish") BY <2>1, ShapePush DEF Above
  <2>2. CASE UNCHANGED stack /\ UNCHANGED host BY <2>2 DEF TypeShape, TypeOK, StackShape
  <2> QED BY <2>1, <2>2 DEF XferFinish
<1>3. UNCHANGED <<obj, list, hnd, status, cookie, cs, suspends, host, poll, calls>> BY DEF XferFinish
<1> QED BY <1>1, <1>2, <1>3 DEF TypeShape, TypeOK, XferType

LEMMA TypedXferEnd == TypeShape /\ XferEnd => TypeShape'
<1> SUFFICES ASSUME TypeShape, XferEnd PROVE TypeShape' OBVIOUS
<1>1. xfer' \in XferType BY TypeXferTo DEF XferEnd, TypeShape, XferPC
<1>2. status' \in StatusType
  <2>1. xfer.code \in Codes BY DEF TypeShape, TypeOK
  <2> QED BY <2>1, TypeNewStatus DEF XferEnd
<1>3. StackShape' BY DEF XferEnd, TypeShape, StackShape
<1> QED BY <1>1, <1>2, <1>3 DEF TypeShape, TypeOK, XferEnd, StatusType, XferType

LEMMA TypedXferStep == TypeShape /\ XferStep => TypeShape'
BY TypedXferStart, TypedXferCheck, TypedXferCopy, TypedXferEnter, TypedXferStatus, TypedXferCount,
   TypedXferFail, TypedXferStore, TypedXferFinish, TypedXferEnd
   DEF XferStep

LEMMA TypedPoll == TypeShape /\ (PollCall \/ PollStep) => TypeShape'
<1> SUFFICES ASSUME TypeShape, PollCall \/ PollStep PROVE TypeShape' OBVIOUS
<1>1. StackShape' BY DEF PollCall, PollStep, TypeShape, StackShape
<1>2. GetState(stack) \in EShown BY TypeGetState DEF TypeShape, TypeOK, StackShape
<1>3. status' \in StatusType BY <1>2 DEF PollCall, PollStep, TypeShape, TypeOK, StatusType
<1>4. poll' \in {"idle", "enter", "read"} /\ cs' \in {"free", "host", "xfer", "poll"}
  BY DEF PollCall, PollStep, TypeShape, TypeOK
<1>5. UNCHANGED <<obj, stack, list, hnd, cookie, suspends, host, xfer, calls>>
  BY DEF PollCall, PollStep
<1> QED BY <1>1, <1>3, <1>4, <1>5 DEF TypeShape, TypeOK, StatusType

LEMMA TypedHostOpen == TypeShape /\ HostOpen => TypeShape'
<1> SUFFICES ASSUME TypeShape, HostOpen PROVE TypeShape' OBVIOUS
<1>1. StackShape' BY DEF HostOpen, TypeShape, StackShape
<1> QED BY <1>1 DEF HostOpen, TypeShape, TypeOK

LEMMA TypedNext == TypeShape /\ [Next]_vars => TypeShape'
<1> SUFFICES ASSUME TypeShape, [Next]_vars PROVE TypeShape' OBVIOUS
<1>1. CASE UNCHANGED vars
  <2>1. StackShape' BY <1>1 DEF vars, TypeShape, StackShape
  <2> QED BY <1>1, <2>1 DEF vars, TypeShape, TypeOK
<1>2. CASE Next
  BY <1>2, TypedHostOpen, TypedHostCall, TypedHostStep, TypedXferStep, TypedPoll DEF Next
<1> QED BY <1>1, <1>2

(* Every variable keeps its type and the stack its shape, whatever the     *)
(* number of files, parts and calls.                                       *)
THEOREM TypeCorrect == Spec => []TypeOK
<1>1. Init => TypeShape BY InitTyped
<1>2. TypeShape /\ [Next]_vars => TypeShape' BY TypedNext
<1>3. TypeShape => TypeOK BY DEF TypeShape
<1> QED BY <1>1, <1>2, <1>3, PTL DEF Spec

-----------------------------------------------------------------------------
(* Every action keeps the inductive invariant *)

(* What IndInv says beyond types and shape.                                *)
Rest == HandleInv /\ TopInv /\ PausedInv /\ CookieInv /\ OutcomeInv

(* Program counters of the host that some part of Rest names.              *)
Named == Starting \cup {"actPush", "actAssign", "pausePush", "suspend", "resumePush", "resume",
                        "rollback"}

Leaving == {"actAssign", "suspend", "cancelSet", "cancelPush", "rollback"}

(* The host moves on without touching stack, handle or thread.             *)
LEMMA HostQuiet ==
  ASSUME IndInv, UNCHANGED <<stack, hnd, suspends, xfer, cookie>>,
         host.pc \notin Leaving, host'.pc \notin Named,
         status'.State \in {status.State, GetState(stack)}
  PROVE  Rest'
<1>1. HandleInv' BY DEF IndInv, HandleInv, Live, Leaving
<1>2. TopInv' BY DEF IndInv, TopInv, Named, Starting, Live, Top
<1>3. PausedInv' BY DEF IndInv, PausedInv, Named, Starting, Leaving, Live, Top
<1>4. CookieInv'
  <2>1. GetState(stack) = "Finish" => Entered(stack, "Finish")
    BY TypeGetState DEF IndInv, TypeOK, StackShape, Top, Entered
  <2> QED BY <2>1 DEF IndInv, CookieInv, Entered
<1>5. OutcomeInv'
  BY DEF IndInv, OutcomeInv, Outcome, NoFinishAfterFailure, Failed, Entered, Named, Starting,
         Leaving, Live, Top
<1> QED BY <1>1, <1>2, <1>3, <1>4, <1>5 DEF Rest

(* The thread moves on without touching the stack.                         *)
LEMMA XferQuiet ==
  ASSUME IndInv, UNCHANGED <<stack, suspends, host>>, suspends = 0,
         \/ xfer.pc \in Before /\ xfer'.pc \in Before
         \/ xfer.pc \in After /\ xfer'.pc \in After \cup {"dead"},
         hnd' = hnd \/ xfer'.pc = "dead",
         cookie.tried => cookie'.tried,
         xfer'.pc \in {"finCheck", "finPush", "endEnter", "endBody"} => cookie'.tried,
         status'.State \in {status.State, GetState(stack)}
  PROVE  Rest'
<1>1. HandleInv' BY DEF IndInv, HandleInv, Live, Before, After
<1>2. TopInv' BY DEF IndInv, TopInv, Live, Top, Before, After
<1>3. PausedInv' BY DEF IndInv, PausedInv, Live, Top, Before, After
<1>4. CookieInv'
  <2>1. GetState(stack) = "Finish" => Entered(stack, "Finish")
    BY TypeGetState DEF IndInv, TypeOK, StackShape, Top, Entered
  <2> QED BY <2>1 DEF IndInv, CookieInv, Entered
<1>5. OutcomeInv'
  <2>1. NoFinishAfterFailure' BY DEF IndInv, OutcomeInv, NoFinishAfterFailure, Failed, Entered
  <2>2. Outcome(Len(stack))' = Outcome(Len(stack)) /\ Outcome(Len(stack) - 1)' = Outcome(Len(stack) - 1)
    BY DEF Outcome
  <2> QED BY <2>1, <2>2 DEF IndInv, OutcomeInv, PausedInv, Live, Top, Before, After
<1> QED BY <1>1, <1>2, <1>3, <1>4, <1>5 DEF Rest

(* The thread enters its outcome.                                          *)
LEMMA XferOutcome ==
  ASSUME IndInv, NEW s \in {"None", "Finish"}, stack' = Append(stack, s), suspends = 0,
         xfer.pc \in Before, xfer'.pc \in After,
         s = "Finish" => cookie.tried, xfer'.pc \in {"endEnter", "endBody"} => cookie.tried,
         UNCHANGED <<hnd, suspends, host, cookie, status>>
  PROVE  Rest'
<1>1. /\ stack' \in Seq(RunState)
      /\ Len(stack') = Len(stack) + 1
      /\ \A i \in 1..Len(stack) : stack'[i] = stack[i]
      /\ stack'[Len(stack) + 1] = s
  BY Pushed DEF IndInv, TypeOK, RunState
<1>2. Len(stack) \in Nat /\ Len(stack) >= 3 BY DEF IndInv, TypeOK, StackShape
<1>3. Top(stack)' = s BY <1>1 DEF Top
<1>4. HandleInv' BY DEF IndInv, HandleInv, Live, Before, After
<1>5. TopInv' BY <1>1, <1>2, <1>3 DEF IndInv, TopInv, PausedInv, Starting, Live, Before, After
<1>6. PausedInv' BY <1>3 DEF IndInv, PausedInv, Live, Before, After
<1>7. CookieInv'
  <2>1. Entered(stack', "Finish") => Entered(stack, "Finish") \/ s = "Finish"
    BY <1>1, <1>2 DEF Entered
  <2>2. Entered(stack', "Finish") => cookie'.tried BY <2>1 DEF IndInv, CookieInv
  <2> QED BY <2>2 DEF IndInv, CookieInv, After
<1>8. OutcomeInv'
  <2>1. ~Outcome(Len(stack)) BY DEF IndInv, OutcomeInv
  <2>2. ~Outcome(Len(stack) - 1)' \/ host.pc \notin {"suspend", "rollback"}
    BY <1>1, <1>2, <2>1 DEF Outcome
  <2>3. NoFinishAfterFailure'
    <3>1. \A i \in 4..Len(stack') : i = Len(stack) + 1 \/ stack'[i] \notin {"None", "Finish"}
      BY <1>1, <1>2, <2>1 DEF Outcome
    <3>2. stack'[1] # "Finish" /\ stack'[2] # "Finish" /\ stack'[3] # "Finish"
      BY <1>1, <1>2 DEF IndInv, StackShape
    <3> QED BY <1>1, <1>2, <3>1, <3>2 DEF NoFinishAfterFailure, Failed, Entered
  <2> QED BY <1>3, <2>2, <2>3 DEF IndInv, OutcomeInv, Live, Before, After
<1> QED BY <1>4, <1>5, <1>6, <1>7, <1>8 DEF Rest

(* Nobody moves; the status may be refreshed.                              *)
LEMMA Unmoved ==
  ASSUME IndInv, UNCHANGED <<stack, hnd, suspends, xfer, host, cookie>>,
         status'.State \in {status.State, GetState(stack)}
  PROVE  Rest'
<1>1. HandleInv' /\ TopInv' /\ PausedInv'
  BY DEF IndInv, HandleInv, TopInv, PausedInv, Live, Top
<1>2. CookieInv'
  <2>1. GetState(stack) = "Finish" => Entered(stack, "Finish")
    BY TypeGetState DEF IndInv, TypeOK, StackShape, Top, Entered
  <2> QED BY <2>1 DEF IndInv, CookieInv, Entered
<1>3. OutcomeInv'
  BY DEF IndInv, OutcomeInv, Outcome, NoFinishAfterFailure, Failed, Entered, Live, Top
<1> QED BY <1>1, <1>2, <1>3 DEF Rest

LEMMA ThreeOrMore == \A n \in Nat : n >= 3 => n = 3 \/ (n > 3 /\ n >= 4)
OBVIOUS

LEMMA LivePC ==
  ASSUME IndInv, Live
  PROVE  xfer.pc \in Before \/ xfer.pc \in After
BY DEF IndInv, TypeOK, Live, Before, After, XferPC

(* Action and Resume find Create or Pause, and beside Pause no thread that *)
(* runs.                                                                   *)
LEMMA RunAccepted ==
  ASSUME IndInv, IsTransitionValid(stack, "Run")
  PROVE  /\ Top(stack) \in {"Create", "Pause"}
         /\ Top(stack) = "Create" => Len(stack) = 3
<1>1. Len(stack) \in Nat /\ Len(stack) >= 3 BY DEF IndInv, TypeOK, StackShape
<1>2. Top(stack) \in RunState BY <1>1 DEF IndInv, TypeOK, Top
<1>3. Top(stack) \in {"Create", "Idle", "Pause"}
  BY <1>2 DEF IsTransitionValid, StateTbl, RunState
<1>4. Len(stack) > 3 => Top(stack) \in Above BY <1>1 DEF IndInv, StackShape, Top
<1>5. Len(stack) = 3 => Top(stack) = "Create" BY DEF IndInv, StackShape, Top
<1>6. Len(stack) = 3 \/ Len(stack) > 3 BY <1>1, ThreeOrMore
<1>7. CASE Len(stack) = 3 BY <1>5, <1>7
<1>8. CASE Len(stack) > 3
  <2>1. Top(stack) \in Above BY <1>4, <1>8
  <2> QED BY <1>3, <2>1 DEF Above
<1> QED BY <1>6, <1>7, <1>8

LEMMA HostRunTest ==
  ASSUME IndInv, IsTransitionValid(stack, "Run"), host.pc \in {"actCheck", "resumeCheck"},
         host'.pc \in {"actPush", "resumePush"},
         UNCHANGED <<stack, hnd, suspends, xfer, cookie, status>>
  PROVE  Rest'
<1>1. Top(stack) \in {"Create", "Pause"} /\ (Top(stack) = "Create" => Len(stack) = 3)
  BY RunAccepted
<1>2. Top(stack) = "Create" => ~Live
  <2> SUFFICES ASSUME Top(stack) = "Create", Live PROVE FALSE OBVIOUS
  <2>1. xfer.pc \notin Before BY DEF IndInv, TopInv, Working
  <2>2. Len(stack) >= 4 BY <2>1, LivePC DEF IndInv, TopInv
  <2>3. ~(3 >= 4) OBVIOUS
  <2> QED BY <1>1, <2>2, <2>3
<1>3. HandleInv' BY DEF IndInv, HandleInv, Live
<1>4. TopInv' BY DEF IndInv, TopInv, Live, Top
<1>5. PausedInv' BY <1>1, <1>2 DEF IndInv, PausedInv, Starting, Live, Top
<1>6. CookieInv' BY DEF IndInv, CookieInv, Entered
<1>7. OutcomeInv'
  <2>1. ~Outcome(3) BY DEF Outcome
  <2>2. Top(stack) = "Create" => ~Outcome(Len(stack)) BY <1>1, <2>1
  <2>3. NoFinishAfterFailure' BY DEF IndInv, OutcomeInv, NoFinishAfterFailure, Failed, Entered
  <2>4. Outcome(Len(stack))' = Outcome(Len(stack)) BY DEF Outcome
  <2> QED BY <1>1, <2>2, <2>3, <2>4 DEF IndInv, OutcomeInv, Starting, Live, Top
<1> QED BY <1>3, <1>4, <1>5, <1>6, <1>7 DEF Rest

(* Effects of pushing a state that is no outcome.                          *)
LEMMA PushedFacts ==
  ASSUME IndInv, NEW s \in {"Run", "Pause", "Cancel"}, stack' = Append(stack, s)
  PROVE  /\ Len(stack) \in Nat /\ Len(stack) >= 3 /\ Len(stack') = Len(stack) + 1
         /\ Top(stack') = s /\ stack'[Len(stack') - 1] = Top(stack)
         /\ Outcome(Len(stack))' = Outcome(Len(stack))
         /\ Outcome(Len(stack) - 1)' = Outcome(Len(stack))
         /\ NoFinishAfterFailure'
         /\ Entered(stack', "Finish") = Entered(stack, "Finish")
<1>1. /\ Len(stack') = Len(stack) + 1
      /\ \A i \in 1..Len(stack) : stack'[i] = stack[i]
      /\ stack'[Len(stack) + 1] = s
  BY Pushed DEF IndInv, TypeOK, RunState
<1>2. Len(stack) \in Nat /\ Len(stack) >= 3 BY DEF IndInv, TypeOK, StackShape
<1>3. Top(stack') = s /\ stack'[Len(stack') - 1] = Top(stack) BY <1>1, <1>2 DEF Top
<1>4. Outcome(Len(stack))' = Outcome(Len(stack)) BY <1>1, <1>2 DEF Outcome
<1>5. Outcome(Len(stack) - 1)' = Outcome(Len(stack)) BY <1>1, <1>2 DEF Outcome
<1>6. Entered(stack', "Finish") = Entered(stack, "Finish") BY <1>1, <1>2 DEF Entered
<1>7. Failed' = Failed BY <1>1, <1>2 DEF Failed
<1>8. NoFinishAfterFailure'
  BY <1>6, <1>7 DEF NoFinishAfterFailure, IndInv, OutcomeInv
<1> QED BY <1>1, <1>2, <1>3, <1>4, <1>5, <1>6, <1>8

LEMMA HostRunPush ==
  ASSUME IndInv, stack' = Append(stack, "Run"),
         \/ host.pc = "actPush" /\ host'.pc = "actParse"
         \/ host.pc = "resumePush" /\ host'.pc = "resume",
         UNCHANGED <<hnd, suspends, xfer, cookie, status>>
  PROVE  Rest'
<1>1. /\ Len(stack) \in Nat /\ Len(stack) >= 3 /\ Len(stack') = Len(stack) + 1
      /\ Top(stack') = "Run" /\ stack'[Len(stack') - 1] = Top(stack)
      /\ Outcome(Len(stack))' = Outcome(Len(stack))
      /\ NoFinishAfterFailure'
      /\ Entered(stack', "Finish") = Entered(stack, "Finish")
  BY PushedFacts
<1>2. Live => Len(stack) >= 4
  <2>1. Len(stack) = 3 => Top(stack) = "Create" BY DEF IndInv, StackShape, Top
  <2>2. Len(stack) = 3 => xfer.pc \notin Before BY <2>1 DEF IndInv, TopInv, Working
  <2>3. xfer.pc \in After => Len(stack) >= 4 BY DEF IndInv, TopInv
  <2>4. Len(stack) = 3 \/ Len(stack) >= 4 BY <1>1, ThreeOrMore
  <2> QED BY <2>2, <2>3, <2>4, LivePC
<1>3. HandleInv' BY DEF IndInv, HandleInv, Live
<1>4. TopInv' BY <1>1, <1>2 DEF IndInv, TopInv, Working, Live
<1>5. PausedInv' BY <1>1 DEF IndInv, PausedInv, Starting, Live
<1>6. CookieInv' BY <1>1 DEF IndInv, CookieInv
<1>7. OutcomeInv' BY <1>1 DEF IndInv, OutcomeInv, Starting, Live
<1> QED BY <1>3, <1>4, <1>5, <1>6, <1>7 DEF Rest

(* Between the parse and the start of the thread.                          *)
LEMMA HostStarting ==
  ASSUME IndInv, host.pc \in Starting, host'.pc \in Starting \ {"actParse"},
         UNCHANGED <<stack, hnd, suspends, xfer, cookie>>,
         status'.State \in {status.State, GetState(stack)}
  PROVE  Rest'
<1>1. HandleInv' BY DEF IndInv, HandleInv, Live, Starting
<1>2. TopInv' BY DEF IndInv, TopInv, Live, Top
<1>3. PausedInv' BY DEF IndInv, PausedInv, Starting, Live, Top
<1>4. CookieInv'
  <2>1. GetState(stack) = "Finish" => Entered(stack, "Finish")
    BY TypeGetState DEF IndInv, TypeOK, StackShape, Top, Entered
  <2> QED BY <2>1 DEF IndInv, CookieInv, Entered
<1>5. OutcomeInv'
  <2>1. NoFinishAfterFailure' BY DEF IndInv, OutcomeInv, NoFinishAfterFailure, Failed, Entered
  <2>2. Outcome(Len(stack))' = Outcome(Len(stack)) BY DEF Outcome
  <2> QED BY <2>1, <2>2 DEF IndInv, OutcomeInv, Starting, Live, Top
<1> QED BY <1>1, <1>2, <1>3, <1>4, <1>5 DEF Rest

(* Effects of a rollback.                                                  *)
LEMMA PoppedFacts ==
  ASSUME IndInv, Len(stack) >= 4, stack' = RollBackState(stack)
  PROVE  /\ Len(stack) \in Nat /\ Len(stack') = Len(stack) - 1
         /\ Top(stack') = stack[Len(stack) - 1]
         /\ Outcome(Len(stack))' = Outcome(Len(stack) - 1)
         /\ Outcome(Len(stack) - 1) => Outcome(Len(stack))
         /\ NoFinishAfterFailure'
         /\ Entered(stack', "Finish") => Entered(stack, "Finish")
<1>1. /\ Len(stack') = Len(stack) - 1
      /\ \A i \in 1..(Len(stack) - 1) : stack'[i] = stack[i]
  BY Popped DEF IndInv, TypeOK
<1>2. Len(stack) \in Nat BY DEF IndInv, TypeOK
<1>3. Top(stack') = stack[Len(stack) - 1] BY <1>1, <1>2 DEF Top
<1>4. Outcome(Len(stack))' = Outcome(Len(stack) - 1) BY <1>1, <1>2 DEF Outcome
<1>5. Outcome(Len(stack) - 1) => Outcome(Len(stack)) BY <1>2 DEF Outcome
<1>6. Entered(stack', "Finish") => Entered(stack, "Finish") BY <1>1, <1>2 DEF Entered
<1>7. Failed' => Failed BY <1>1, <1>2 DEF Failed
<1>8. NoFinishAfterFailure'
  BY <1>6, <1>7 DEF NoFinishAfterFailure, IndInv, OutcomeInv
<1> QED BY <1>1, <1>2, <1>3, <1>4, <1>5, <1>6, <1>8

LEMMA HostParseRollback ==
  ASSUME IndInv, host.pc = "actParse", host'.pc = "stEnter", stack' = RollBackState(stack),
         UNCHANGED <<hnd, suspends, xfer, cookie, status>>
  PROVE  Rest'
<1>1. Len(stack) >= 4 BY DEF IndInv, StackShape
<1>2. /\ Len(stack) \in Nat /\ Len(stack') = Len(stack) - 1
      /\ Top(stack') = stack[Len(stack) - 1]
      /\ Outcome(Len(stack))' = Outcome(Len(stack) - 1)
      /\ Outcome(Len(stack) - 1) => Outcome(Len(stack))
      /\ NoFinishAfterFailure'
      /\ Entered(stack', "Finish") => Entered(stack, "Finish")
  BY <1>1, PoppedFacts
<1>3. HandleInv' BY DEF IndInv, HandleInv, Live
<1>4. TopInv' BY <1>2 DEF IndInv, TopInv, Live, Before, After
<1>5. PausedInv' BY <1>2 DEF IndInv, PausedInv, Starting, Live
<1>6. CookieInv' BY <1>2 DEF IndInv, CookieInv
<1>7. OutcomeInv' BY <1>2 DEF IndInv, OutcomeInv, Starting, Live
<1> QED BY <1>3, <1>4, <1>5, <1>6, <1>7 DEF Rest

(* A new thread: only a null handle lets Action get here, so there is no   *)
(* other thread, and no outcome is left on the stack.                      *)
LEMMA HostBegin ==
  ASSUME IndInv, host.pc = "actBegin", ~hnd, host'.pc = "actAssign", xfer'.pc = "start",
         UNCHANGED <<stack, hnd, cookie, status>>
  PROVE  Rest'
<1>1. ~Live BY DEF IndInv, HandleInv
<1>2. Top(stack) = "Run" BY DEF IndInv, PausedInv, Starting
<1>3. ~Outcome(Len(stack)) BY <1>1 DEF IndInv, OutcomeInv, Starting
<1>4. HandleInv' BY DEF HandleInv
<1>5. TopInv' BY <1>2 DEF TopInv, Working, Top, Before, After
<1>6. PausedInv' BY <1>2 DEF PausedInv, Starting, Top
<1>7. CookieInv' BY DEF IndInv, CookieInv, Entered
<1>8. OutcomeInv'
  <2>1. NoFinishAfterFailure' BY DEF IndInv, OutcomeInv, NoFinishAfterFailure, Failed, Entered
  <2>2. ~Outcome(Len(stack))' BY <1>3 DEF Outcome
  <2> QED BY <2>1, <2>2 DEF OutcomeInv
<1> QED BY <1>4, <1>5, <1>6, <1>7, <1>8 DEF Rest

LEMMA HostAssign ==
  ASSUME IndInv, host.pc = "actAssign", hnd', host'.pc \in {"idle", "cancelRead", "delete"},
         UNCHANGED <<stack, suspends, xfer, cookie, status>>
  PROVE  Rest'
<1>1. HandleInv' BY DEF HandleInv
<1>2. TopInv' BY DEF IndInv, TopInv, Live, Top
<1>3. PausedInv' BY DEF IndInv, PausedInv, Starting, Live, Top
<1>4. CookieInv' BY DEF IndInv, CookieInv, Entered
<1>5. OutcomeInv'
  <2>1. NoFinishAfterFailure' BY DEF IndInv, OutcomeInv, NoFinishAfterFailure, Failed, Entered
  <2>2. Outcome(Len(stack))' = Outcome(Len(stack)) BY DEF Outcome
  <2> QED BY <2>1, <2>2 DEF IndInv, OutcomeInv, Starting, Live, Top
<1> QED BY <1>1, <1>2, <1>3, <1>4, <1>5 DEF Rest

LEMMA HostPauseTest ==
  ASSUME IndInv, IsTransitionValid(stack, "Pause"), host.pc = "pauseCheck", host'.pc = "pausePush",
         UNCHANGED <<stack, hnd, suspends, xfer, cookie, status>>
  PROVE  Rest'
<1>1. Top(stack) # "Pause" BY DEF IsTransitionValid, StateTbl
<1>2. HandleInv' BY DEF IndInv, HandleInv, Live
<1>3. TopInv' BY DEF IndInv, TopInv, Live, Top
<1>4. PausedInv' BY <1>1 DEF IndInv, PausedInv, Starting, Live, Top
<1>5. CookieInv' BY DEF IndInv, CookieInv, Entered
<1>6. OutcomeInv'
  <2>1. NoFinishAfterFailure' BY DEF IndInv, OutcomeInv, NoFinishAfterFailure, Failed, Entered
  <2>2. Outcome(Len(stack))' = Outcome(Len(stack)) BY DEF Outcome
  <2> QED BY <1>1, <2>1, <2>2 DEF IndInv, OutcomeInv, Starting, Live, Top
<1> QED BY <1>2, <1>3, <1>4, <1>5, <1>6 DEF Rest

LEMMA HostPausePush ==
  ASSUME IndInv, stack' = Append(stack, "Pause"), host.pc = "pausePush", host'.pc = "suspend",
         UNCHANGED <<hnd, suspends, xfer, cookie, status>>
  PROVE  Rest'
<1>1. /\ Len(stack) \in Nat /\ Len(stack) >= 3 /\ Len(stack') = Len(stack) + 1
      /\ Top(stack') = "Pause" /\ stack'[Len(stack') - 1] = Top(stack)
      /\ Outcome(Len(stack))' = Outcome(Len(stack))
      /\ NoFinishAfterFailure'
      /\ Entered(stack', "Finish") = Entered(stack, "Finish")
  BY PushedFacts
<1>2. HandleInv' BY DEF IndInv, HandleInv, Live
<1>3. TopInv' BY <1>1 DEF IndInv, TopInv, Working, Live
<1>4. PausedInv' BY <1>1 DEF IndInv, PausedInv, Starting, Live
<1>5. CookieInv' BY <1>1 DEF IndInv, CookieInv
<1>6. OutcomeInv' BY <1>1 DEF IndInv, OutcomeInv, PausedInv, Starting, Live
<1> QED BY <1>2, <1>3, <1>4, <1>5, <1>6 DEF Rest

LEMMA HostSuspend ==
  ASSUME IndInv, host.pc = "suspend",
         \/ hnd /\ Live /\ suspends' = suspends + 1 /\ host'.pc = "stEnter"
         \/ ~(hnd /\ Live) /\ suspends' = suspends /\ host'.pc = "rollback",
         UNCHANGED <<stack, hnd, xfer, cookie, status>>
  PROVE  Rest'
<1>1. ~hnd => ~Live BY DEF IndInv, HandleInv
<1>2. HandleInv' BY DEF IndInv, HandleInv, Live
<1>3. TopInv' BY DEF IndInv, TopInv, Live, Top
<1>4. suspends \in Nat BY DEF IndInv, TypeOK
<1>5. suspends + 1 > 0 BY <1>4
<1>6. PausedInv'
  <2>1. CASE Live /\ suspends' > 0 /\ host'.pc = "stEnter"
    BY <2>1 DEF IndInv, PausedInv, Starting, Live, Top
  <2>2. CASE ~Live /\ host'.pc = "rollback" BY <2>2 DEF PausedInv, Starting, Live
  <2> QED BY <1>1, <1>5, <2>1, <2>2
<1>7. CookieInv' BY DEF IndInv, CookieInv, Entered
<1>8. OutcomeInv'
  <2>1. NoFinishAfterFailure' BY DEF IndInv, OutcomeInv, NoFinishAfterFailure, Failed, Entered
  <2>2. Outcome(Len(stack))' = Outcome(Len(stack)) /\ Outcome(Len(stack) - 1)' = Outcome(Len(stack) - 1)
    BY DEF Outcome
  <2> QED BY <1>1, <2>1, <2>2 DEF IndInv, OutcomeInv, Starting, Live, Top
<1> QED BY <1>2, <1>3, <1>6, <1>7, <1>8 DEF Rest

(* ResumeThread in Resume: Run is on top and a live thread was suspended,  *)
(* so the call can fail only without a thread, hence without an outcome.   *)
LEMMA HostResume ==
  ASSUME IndInv, host.pc = "resume", host'.pc \in {"stEnter", "rollback"},
         host'.pc = "rollback" => ~(hnd /\ Live),
         UNCHANGED <<stack, hnd, xfer, cookie, status>>
  PROVE  Rest'
<1>1. ~hnd => ~Live BY DEF IndInv, HandleInv
<1>2. Top(stack) = "Run" BY DEF IndInv, PausedInv
<1>3. HandleInv' BY DEF IndInv, HandleInv, Live
<1>4. TopInv' BY DEF IndInv, TopInv, Live, Top
<1>5. PausedInv' BY <1>1, <1>2 DEF PausedInv, Starting, Live, Top
<1>6. CookieInv' BY DEF IndInv, CookieInv, Entered
<1>7. OutcomeInv'
  <2>1. NoFinishAfterFailure' BY DEF IndInv, OutcomeInv, NoFinishAfterFailure, Failed, Entered
  <2>2. Outcome(Len(stack))' = Outcome(Len(stack)) /\ Outcome(Len(stack) - 1)' = Outcome(Len(stack) - 1)
    BY DEF Outcome
  <2>3. Outcome(Len(stack)) => Live BY DEF IndInv, OutcomeInv
  <2>4. Len(stack) \in Nat BY DEF IndInv, TypeOK
  <2>5. Outcome(Len(stack) - 1) => Outcome(Len(stack)) BY <2>4 DEF Outcome
  <2> QED BY <1>1, <1>2, <2>1, <2>2, <2>3, <2>5 DEF IndInv, OutcomeInv, Starting, Live, Top
<1> QED BY <1>3, <1>4, <1>5, <1>6, <1>7 DEF Rest

LEMMA HostRollback ==
  ASSUME IndInv, host.pc = "rollback", host'.pc = "stEnter", stack' = RollBackState(stack),
         UNCHANGED <<hnd, suspends, xfer, cookie, status>>
  PROVE  Rest'
<1>1. Len(stack) >= 4 BY DEF IndInv, StackShape
<1>2. /\ Top(stack') = stack[Len(stack) - 1]
      /\ Outcome(Len(stack))' = Outcome(Len(stack) - 1)
      /\ NoFinishAfterFailure'
      /\ Entered(stack', "Finish") => Entered(stack, "Finish")
  BY <1>1, PoppedFacts
<1>3. ~Live BY DEF IndInv, PausedInv
<1>4. xfer.pc \notin Before /\ xfer.pc \notin After BY <1>3 DEF Live, Before, After
<1>5. HandleInv' BY <1>3 DEF HandleInv, Live
<1>6. TopInv' BY <1>4 DEF TopInv
<1>7. PausedInv' BY <1>3 DEF PausedInv, Starting, Live
<1>8. CookieInv' BY <1>2 DEF IndInv, CookieInv
<1>9. OutcomeInv' BY <1>2, <1>4 DEF IndInv, OutcomeInv, Starting
<1> QED BY <1>5, <1>6, <1>7, <1>8, <1>9 DEF Rest

(* Cancel of a paused session: after ResumeThread, until Cancel is entered *)
(* or found entered, the invariant makes no promise about Pause.           *)
LEMMA HostCancelPaused ==
  ASSUME IndInv,
         \/ host.pc = "cancelResume" /\ host'.pc = "cancelSet"
         \/ /\ host.pc = "cancelSet"
            /\ UNCHANGED suspends
            /\ \/ host'.pc = "cancelPush"
               \/ host'.pc = "stEnter" /\ ~IsTransitionValid(stack, "Cancel"),
         UNCHANGED <<stack, hnd, xfer, cookie, status>>
  PROVE  Rest'
<1>1. ~IsTransitionValid(stack, "Cancel") => Top(stack) # "Pause"
  BY DEF IsTransitionValid, StateTbl
<1>2. HandleInv' BY DEF IndInv, HandleInv, Live
<1>3. TopInv' BY DEF IndInv, TopInv, Live, Top
<1>4. PausedInv' BY <1>1 DEF IndInv, PausedInv, Starting, Live, Top
<1>5. CookieInv' BY DEF IndInv, CookieInv, Entered
<1>6. OutcomeInv'
  <2>1. NoFinishAfterFailure' BY DEF IndInv, OutcomeInv, NoFinishAfterFailure, Failed, Entered
  <2>2. Outcome(Len(stack))' = Outcome(Len(stack)) BY DEF Outcome
  <2> QED BY <1>1, <2>1, <2>2 DEF IndInv, OutcomeInv, Starting, Live, Top
<1> QED BY <1>2, <1>3, <1>4, <1>5, <1>6 DEF Rest

LEMMA HostCancelPush ==
  ASSUME IndInv, stack' = Append(stack, "Cancel"), host.pc = "cancelPush", host'.pc = "stEnter",
         UNCHANGED <<hnd, suspends, xfer, cookie, status>>
  PROVE  Rest'
<1>1. /\ Len(stack) \in Nat /\ Len(stack) >= 3 /\ Len(stack') = Len(stack) + 1
      /\ Top(stack') = "Cancel" /\ stack'[Len(stack') - 1] = Top(stack)
      /\ Outcome(Len(stack))' = Outcome(Len(stack))
      /\ NoFinishAfterFailure'
      /\ Entered(stack', "Finish") = Entered(stack, "Finish")
  BY PushedFacts
<1>2. HandleInv' BY DEF IndInv, HandleInv, Live
<1>3. TopInv' BY <1>1 DEF IndInv, TopInv, Working, Live
<1>4. PausedInv' BY <1>1 DEF IndInv, PausedInv, Starting, Live
<1>5. CookieInv' BY <1>1 DEF IndInv, CookieInv
<1>6. OutcomeInv' BY <1>1 DEF IndInv, OutcomeInv, Starting, Live
<1> QED BY <1>2, <1>3, <1>4, <1>5, <1>6 DEF Rest

-----------------------------------------------------------------------------
(* The steps of the host thread *)

LEMMA RestHostCall == ASSUME IndInv, NEW op \in Calls, HostCall(op) PROVE Rest'
<1>1. EntryPoint(op) \in {"actCheck", "pauseNull", "resumeNull", "cancelRead"}
  BY SessionAssumption DEF EntryPoint
<1>2. host'.pc = EntryPoint(op) BY DEF HostCall
<1> QED BY <1>1, <1>2, HostQuiet DEF HostCall, Named, Starting, Leaving

LEMMA RestHostRefuse ==
  ASSUME IndInv, NEW at \in HostPC \ Leaving, NEW s, HostRefuse(at, s)
  PROVE  Rest'
<1>1. host'.pc \notin Named BY TypeHostReturn DEF HostRefuse, IndInv, Named, Starting
<1> QED BY <1>1, HostQuiet DEF HostRefuse, Leaving

LEMMA RestNullTest ==
  ASSUME IndInv, NEW at \in HostPC \ Leaving, NEW next \in HostPC \ Named, NullTest(at, next)
  PROVE  Rest'
<1>1. host'.pc \notin Named BY TypeHostReturn, TypeHostTo DEF NullTest, IndInv, Named, Starting
<1> QED BY <1>1, HostQuiet DEF NullTest, Leaving

LEMMA RestActionSetState == IndInv /\ ActionSetState => Rest'
<1> SUFFICES ASSUME IndInv, ActionSetState PROVE Rest' OBVIOUS
<1>1. CASE HostTest("actCheck", "Run", "actPush")
  BY <1>1, HostRunTest, TypeHostTo DEF HostTest, IndInv, HostPC
<1>2. CASE HostRefuse("actCheck", "Run") BY <1>2, RestHostRefuse DEF HostPC, Leaving
<1>3. CASE HostPush("actPush", "Run") /\ HostTo("actParse")
  BY <1>3, HostRunPush, TypeHostTo DEF HostPush, IndInv, HostPC
<1> QED BY <1>1, <1>2, <1>3 DEF ActionSetState

LEMMA RestActionParse == IndInv /\ ActionParse => Rest'
<1> SUFFICES ASSUME IndInv, ActionParse PROVE Rest' OBVIOUS
<1>1. CASE HostTo("actEnter") /\ UNCHANGED stack
  <2>1. host'.pc = "actEnter" BY <1>1, TypeHostTo DEF IndInv, HostPC
  <2> QED BY <1>1, <2>1, HostStarting DEF ActionParse, Starting
<1>2. CASE HostReport("InternalError") /\ UNCHANGED stack
  <2>1. host'.pc = "stEnter" BY <1>2, TypeHostReport DEF IndInv, Codes
  <2> QED BY <1>2, <2>1, HostQuiet DEF ActionParse, Leaving, Named, Starting
<1>3. CASE HostReport("InternalError") /\ stack' = RollBackState(stack)
  <2>1. host'.pc = "stEnter" BY <1>3, TypeHostReport DEF IndInv, Codes
  <2> QED BY <1>3, <2>1, HostParseRollback DEF ActionParse
<1> QED BY <1>1, <1>2, <1>3 DEF ActionParse

LEMMA RestActionEnter == IndInv /\ ActionEnter => Rest'
<1> SUFFICES ASSUME IndInv, ActionEnter PROVE Rest' OBVIOUS
<1>1. host'.pc = "actSize" BY TypeHostTo DEF ActionEnter, IndInv, HostPC
<1> QED BY <1>1, HostStarting DEF ActionEnter, Starting

LEMMA RestActionSize == IndInv /\ ActionSize => Rest'
<1> SUFFICES ASSUME IndInv, ActionSize PROVE Rest' OBVIOUS
<1>1. host'.pc = "actBegin" BY TypeHostTo DEF ActionSize, IndInv, HostPC
<1>2. status'.State = GetState(stack)
  <2>1. PICK n \in 0..Len(list) : status' = [NewStatus("NoError", 0) EXCEPT !.Total = n * Segments]
    BY DEF ActionSize
  <2>2. /\ NewStatus("NoError", 0) \in StatusType
        /\ NewStatus("NoError", 0).State = GetState(stack)
    BY TypeNewStatus DEF IndInv, TypeShape, Codes
  <2> QED BY <2>1, <2>2 DEF StatusType
<1> QED BY <1>1, <1>2, HostStarting DEF ActionSize, Starting

LEMMA RestActionBegin == IndInv /\ ActionBegin => Rest'
<1> SUFFICES ASSUME IndInv, ActionBegin PROVE Rest' OBVIOUS
<1>1. CASE hnd
  <2>1. host'.pc = "stEnter" BY <1>1, TypeHostReport DEF ActionBegin, IndInv, Codes
  <2> QED BY <1>1, <2>1, HostQuiet DEF ActionBegin, Leaving, Named, Starting
<1>2. CASE ~hnd
  <2>1. host'.pc = "actAssign" BY <1>2, TypeHostTo DEF ActionBegin, IndInv, HostPC
  <2>2. xfer'.pc = "start" BY <1>2 DEF ActionBegin, Thread
  <2> QED BY <1>2, <2>1, <2>2, HostBegin DEF ActionBegin
<1> QED BY <1>1, <1>2

LEMMA RestActionAssign == IndInv /\ ActionAssign => Rest'
<1> SUFFICES ASSUME IndInv, ActionAssign PROVE Rest' OBVIOUS
<1>1. host'.pc \in {"idle", "cancelRead", "delete"} BY TypeHostReturn DEF ActionAssign, IndInv
<1> QED BY <1>1, HostAssign DEF ActionAssign

LEMMA RestPauseSetState == IndInv /\ PauseSetState => Rest'
<1> SUFFICES ASSUME IndInv, PauseSetState PROVE Rest' OBVIOUS
<1>1. CASE NullTest("pauseNull", "pauseCheck")
  BY <1>1, RestNullTest DEF HostPC, Leaving, Named, Starting
<1>2. CASE HostTest("pauseCheck", "Pause", "pausePush")
  BY <1>2, HostPauseTest, TypeHostTo DEF HostTest, IndInv, HostPC
<1>3. CASE HostRefuse("pauseCheck", "Pause") BY <1>3, RestHostRefuse DEF HostPC, Leaving
<1>4. CASE HostPush("pausePush", "Pause") /\ HostTo("suspend")
  BY <1>4, HostPausePush, TypeHostTo DEF HostPush, IndInv, HostPC
<1> QED BY <1>1, <1>2, <1>3, <1>4 DEF PauseSetState

LEMMA RestPauseSuspend == IndInv /\ PauseSuspend => Rest'
<1> SUFFICES ASSUME IndInv, PauseSuspend PROVE Rest' OBVIOUS
<1>1. \/ hnd /\ Live /\ suspends' = suspends + 1 /\ host'.pc = "stEnter"
      \/ ~(hnd /\ Live) /\ suspends' = suspends /\ host'.pc = "rollback"
  BY TypeHostTo, TypeHostReport DEF PauseSuspend, IndInv, HostPC, Codes
<1> QED BY <1>1, HostSuspend DEF PauseSuspend

LEMMA RestResumeSetState == IndInv /\ ResumeSetState => Rest'
<1> SUFFICES ASSUME IndInv, ResumeSetState PROVE Rest' OBVIOUS
<1>1. CASE NullTest("resumeNull", "resumeCheck")
  BY <1>1, RestNullTest DEF HostPC, Leaving, Named, Starting
<1>2. CASE HostTest("resumeCheck", "Run", "resumePush")
  BY <1>2, HostRunTest, TypeHostTo DEF HostTest, IndInv, HostPC
<1>3. CASE HostRefuse("resumeCheck", "Run") BY <1>3, RestHostRefuse DEF HostPC, Leaving
<1>4. CASE HostPush("resumePush", "Run") /\ HostTo("resume")
  BY <1>4, HostRunPush, TypeHostTo DEF HostPush, IndInv, HostPC
<1> QED BY <1>1, <1>2, <1>3, <1>4 DEF ResumeSetState

LEMMA RestResumeResume == IndInv /\ ResumeResume => Rest'
<1> SUFFICES ASSUME IndInv, ResumeResume PROVE Rest' OBVIOUS
<1>1. \/ host'.pc = "stEnter"
      \/ host'.pc = "rollback" /\ ~(hnd /\ Live)
  BY TypeHostTo, TypeHostReport DEF ResumeResume, ResumeThread, IndInv, HostPC, Codes
<1> QED BY <1>1, HostResume DEF ResumeResume

LEMMA RestRollback == IndInv /\ Rollback => Rest'
<1> SUFFICES ASSUME IndInv, Rollback PROVE Rest' OBVIOUS
<1>1. host'.pc = "stEnter" BY TypeHostReport DEF Rollback, IndInv, Codes
<1> QED BY <1>1, HostRollback DEF Rollback

LEMMA RestCancelRead == IndInv /\ CancelRead => Rest'
<1> SUFFICES ASSUME IndInv, CancelRead PROVE Rest' OBVIOUS
<1>1. host'.pc \in {"cancelResume", "cancelCheck"} BY TypeHostTo DEF CancelRead, IndInv, HostPC
<1> QED BY <1>1, HostQuiet DEF CancelRead, Leaving, Named, Starting

LEMMA RestCancelSetState == IndInv /\ CancelSetState => Rest'
<1> SUFFICES ASSUME IndInv, CancelSetState PROVE Rest' OBVIOUS
<1>1. CASE \/ HostTest("cancelCheck", "Cancel", "cancelPush")
           \/ /\ host.pc = "cancelCheck"
              /\ HostTo("cancelWhy")
              /\ UNCHANGED <<obj, stack, list, hnd, status, cookie, cs, suspends, xfer, poll, calls>>
  <2>1. host.pc = "cancelCheck" /\ host'.pc \in {"cancelPush", "cancelWhy"}
    BY <1>1, TypeHostTo DEF HostTest, IndInv, HostPC
  <2> QED BY <1>1, <2>1, HostQuiet DEF HostTest, Leaving, Named, Starting
<1>2. CASE HostPush("cancelPush", "Cancel") /\ HostReport("NoError")
  BY <1>2, HostCancelPush, TypeHostReport DEF HostPush, IndInv, Codes
<1> QED BY <1>1, <1>2 DEF CancelSetState

LEMMA RestCancelWhy == IndInv /\ CancelWhy => Rest'
<1> SUFFICES ASSUME IndInv, CancelWhy PROVE Rest' OBVIOUS
<1>1. host'.pc = "stEnter" BY TypeHostReport DEF CancelWhy, IndInv, Codes
<1> QED BY <1>1, HostQuiet DEF CancelWhy, Leaving, Named, Starting

LEMMA RestCancelPaused == IndInv /\ CancelPaused => Rest'
<1> SUFFICES ASSUME IndInv, CancelPaused PROVE Rest' OBVIOUS
<1>1. CASE /\ host.pc = "cancelResume"
           /\ ResumeThread(HostTo("cancelSet"), HostTo("cancelSet"))
           /\ UNCHANGED <<obj, stack, list, hnd, status, cookie, cs, xfer, poll, calls>>
  <2>1. host'.pc = "cancelSet" BY <1>1, TypeHostTo DEF ResumeThread, IndInv, HostPC
  <2> QED BY <1>1, <2>1, HostCancelPaused
<1>2. CASE HostTest("cancelSet", "Cancel", "cancelPush")
  BY <1>2, HostCancelPaused, TypeHostTo DEF HostTest, IndInv, HostPC
<1>3. CASE /\ host.pc = "cancelSet"
           /\ ~IsTransitionValid(stack, "Cancel")
           /\ HostReport("NoError")
           /\ UNCHANGED <<obj, stack, list, hnd, status, cookie, cs, suspends, xfer, poll, calls>>
  BY <1>3, HostCancelPaused, TypeHostReport DEF IndInv, Codes
<1> QED BY <1>1, <1>2, <1>3 DEF CancelPaused

LEMMA RestHostStatusEnter == IndInv /\ HostStatusEnter => Rest'
<1> SUFFICES ASSUME IndInv, HostStatusEnter PROVE Rest' OBVIOUS
<1>1. host'.pc = "stBody" BY TypeHostTo DEF HostStatusEnter, IndInv, HostPC
<1> QED BY <1>1, HostQuiet DEF HostStatusEnter, Leaving, Named, Starting

LEMMA RestHostStatusBody == IndInv /\ HostStatusBody => Rest'
<1> SUFFICES ASSUME IndInv, HostStatusBody PROVE Rest' OBVIOUS
<1>1. host'.pc \in {"idle", "cancelRead", "delete"} BY TypeHostReturn DEF HostStatusBody, IndInv
<1>2. host.code \in Codes BY DEF IndInv, TypeOK
<1>3. status'.State = GetState(stack) BY <1>2, TypeNewStatus DEF HostStatusBody, IndInv, TypeShape
<1> QED BY <1>1, <1>3, HostQuiet DEF HostStatusBody, Leaving, Named, Starting

LEMMA RestHostDelete == IndInv /\ HostDelete => Rest'
<1> SUFFICES ASSUME IndInv, HostDelete PROVE Rest' OBVIOUS
<1>1. host'.pc = "idle" BY DEF HostDelete, HostIdle
<1> QED BY <1>1, HostQuiet DEF HostDelete, Leaving, Named, Starting

LEMMA RestHostStep == IndInv /\ HostStep => Rest'
BY RestActionSetState, RestActionParse, RestActionEnter, RestActionSize, RestActionBegin,
   RestActionAssign, RestPauseSetState, RestPauseSuspend, RestResumeSetState, RestResumeResume,
   RestRollback, RestCancelRead, RestCancelSetState, RestCancelWhy, RestCancelPaused,
   RestHostStatusEnter, RestHostStatusBody, RestHostDelete
   DEF HostStep

-----------------------------------------------------------------------------
(* The steps of the transfer thread and of the status thread *)

LEMMA RestXferMove ==
  ASSUME IndInv, suspends = 0, xfer.pc \in Before, xfer'.pc \in Before,
         xfer'.pc \notin {"finCheck", "finPush"},
         UNCHANGED <<stack, hnd, suspends, host, cookie>>,
         status'.State \in {status.State, GetState(stack)}
  PROVE  Rest'
BY XferQuiet DEF Before

LEMMA RestXferStart == IndInv /\ XferStart => Rest'
<1> SUFFICES ASSUME IndInv, XferStart PROVE Rest' OBVIOUS
<1>1. xfer.pc = "start" /\ xfer'.pc = "check"
  BY DEF XferStart, XferAt, IndInv, TypeOK
<1> QED BY <1>1, RestXferMove DEF XferStart, XferAt, Before

LEMMA RestXferCheck == IndInv /\ XferCheck => Rest'
<1> SUFFICES ASSUME IndInv, XferCheck PROVE Rest' OBVIOUS
<1>1. xfer.pc = "check" /\ xfer'.pc \in {"store", "copy", "check"}
  BY DEF XferCheck, XferAt, XferTo, IndInv, TypeOK
<1> QED BY <1>1, RestXferMove DEF XferCheck, XferAt, Before

LEMMA RestXferCopy == IndInv /\ XferCopy => Rest'
<1> SUFFICES ASSUME IndInv, XferCopy PROVE Rest' OBVIOUS
<1>1. xfer.pc = "copy" /\ xfer'.pc \in {"statEnter", "failSet"}
  BY DEF XferCopy, XferAt, XferTo, IndInv, TypeOK
<1> QED BY <1>1, RestXferMove DEF XferCopy, XferAt, Before

LEMMA RestXferEnter == IndInv /\ XferEnter => Rest'
<1> SUFFICES ASSUME IndInv, XferEnter PROVE Rest' OBVIOUS
<1>1. CASE xfer.pc \in {"statEnter", "cntEnter"}
  <2>1. xfer'.pc \in {"statBody", "cntBody"}
    BY <1>1 DEF XferEnter, XferAt, XferTo, IndInv, TypeOK
  <2> QED BY <1>1, <2>1, RestXferMove DEF XferEnter, XferAt, Before
<1>2. CASE xfer.pc = "endEnter"
  <2>1. xfer'.pc = "endBody" BY <1>2 DEF XferEnter, XferAt, XferTo, IndInv, TypeOK
  <2>2. cookie.tried BY <1>2 DEF IndInv, CookieInv
  <2> QED BY <1>2, <2>1, <2>2, XferQuiet DEF XferEnter, XferAt, After
<1> QED BY <1>1, <1>2 DEF XferEnter, XferAt

LEMMA RestXferStatus == IndInv /\ XferStatus => Rest'
<1> SUFFICES ASSUME IndInv, XferStatus PROVE Rest' OBVIOUS
<1>1. xfer.pc = "statBody" /\ xfer'.pc \in {"copy", "cntEnter", "failSet"}
  <2>1. xfer' = [xfer EXCEPT !.pc = "copy", !.seg = @ + 1] => xfer'.pc = "copy"
    BY DEF IndInv, TypeOK
  <2>2. XferTo(IF xfer.ok THEN "cntEnter" ELSE "failSet") => xfer'.pc \in {"cntEnter", "failSet"}
    BY DEF XferTo, IndInv, TypeOK
  <2> QED BY <2>1, <2>2 DEF XferStatus, XferAt
<1>2. xfer.code \in Codes BY DEF IndInv, TypeOK
<1>3. status'.State = GetState(stack) BY <1>2, TypeNewStatus DEF XferStatus, IndInv, TypeShape
<1> QED BY <1>1, <1>3, RestXferMove DEF XferStatus, XferAt, Before

LEMMA RestXferCount == IndInv /\ XferCount => Rest'
<1> SUFFICES ASSUME IndInv, XferCount PROVE Rest' OBVIOUS
<1>1. xfer.pc = "cntBody" /\ xfer'.pc = "check"
  BY DEF XferCount, XferAt, IndInv, TypeOK
<1>2. status'.State = status.State BY DEF XferCount, IndInv, TypeOK
<1> QED BY <1>1, <1>2, RestXferMove DEF XferCount, XferAt, Before

LEMMA RestXferFail == IndInv /\ XferFail => Rest'
<1> SUFFICES ASSUME IndInv, XferFail PROVE Rest' OBVIOUS
<1>1. CASE xfer.pc = "failSet"
  <2>1. xfer'.pc = "failNull" BY <1>1, TypeXferTo DEF XferFail, XferAt, IndInv, XferPC
  <2>2. stack' = Append(stack, "None") BY <1>1 DEF XferFail, XferAt
  <2> QED BY <1>1, <2>1, <2>2, XferOutcome DEF XferFail, XferAt, Before, After
<1>2. CASE xfer.pc = "failNull"
  <2>1. xfer'.pc = "dead" BY <1>2, TypeXferTo DEF XferFail, XferAt, IndInv, XferPC
  <2> QED BY <1>2, <2>1, XferQuiet DEF XferFail, XferAt, After
<1> QED BY <1>1, <1>2 DEF XferFail, XferAt

LEMMA RestXferStore == IndInv /\ XferStore => Rest'
<1> SUFFICES ASSUME IndInv, XferStore PROVE Rest' OBVIOUS
<1>1. xfer.pc = "store" /\ xfer'.pc = "finCheck"
  BY DEF XferStore, XferAt, XferTo, IndInv, TypeOK
<1>2. cookie'.tried
  <2>1. CASE \E g \in SUBSET Unset : cookie' = [tried |-> TRUE, made |-> TRUE, ok |-> Yes \cup g]
    BY <2>1
  <2>2. CASE cookie' = [cookie EXCEPT !.tried = TRUE, !.made = FALSE]
    BY <2>2 DEF IndInv, TypeOK
  <2> QED BY <2>1, <2>2 DEF XferStore
<1> QED BY <1>1, <1>2, XferQuiet DEF XferStore, XferAt, Before

(* The look-up always succeeds: Run, Pause or Cancel is on top.            *)
LEMMA FinishFollows == IndInv /\ xfer.pc = "finCheck" => IsTransitionValid(stack, "Finish")
<1> SUFFICES ASSUME IndInv, xfer.pc = "finCheck" PROVE IsTransitionValid(stack, "Finish")
  OBVIOUS
<1>1. Top(stack) \in Working BY DEF IndInv, TopInv, Before
<1> QED BY <1>1 DEF IsTransitionValid, StateTbl, Working

LEMMA RestXferFinish == IndInv /\ XferFinish => Rest'
<1> SUFFICES ASSUME IndInv, XferFinish PROVE Rest' OBVIOUS
<1>1. cookie.tried BY DEF XferFinish, XferAt, IndInv, CookieInv
<1>2. CASE xfer.pc = "finCheck"
  <2>1. xfer'.pc = "finPush" BY <1>2, FinishFollows DEF XferFinish, XferAt, IndInv, TypeOK
  <2> QED BY <1>1, <1>2, <2>1, XferQuiet DEF XferFinish, XferAt, Before
<1>3. CASE xfer.pc = "finPush"
  <2>1. xfer'.pc = "endEnter" BY <1>3, TypeXferTo DEF XferFinish, XferAt, IndInv, XferPC
  <2>2. stack' = Append(stack, "Finish") BY <1>3 DEF XferFinish, XferAt
  <2> QED BY <1>1, <1>3, <2>1, <2>2, XferOutcome DEF XferFinish, XferAt, Before, After
<1> QED BY <1>2, <1>3 DEF XferFinish, XferAt

LEMMA RestXferEnd == IndInv /\ XferEnd => Rest'
<1> SUFFICES ASSUME IndInv, XferEnd PROVE Rest' OBVIOUS
<1>1. xfer.pc = "endBody" /\ xfer'.pc = "dead" BY DEF XferEnd, XferAt, XferTo, IndInv, TypeOK
<1>2. xfer.code \in Codes BY DEF IndInv, TypeOK
<1>3. status'.State = GetState(stack) BY <1>2, TypeNewStatus DEF XferEnd, IndInv, TypeShape
<1> QED BY <1>1, <1>3, XferQuiet DEF XferEnd, XferAt, After

LEMMA RestXferStep == IndInv /\ XferStep => Rest'
BY RestXferStart, RestXferCheck, RestXferCopy, RestXferEnter, RestXferStatus, RestXferCount,
   RestXferFail, RestXferStore, RestXferFinish, RestXferEnd
   DEF XferStep

LEMMA RestPoll == IndInv /\ (PollCall \/ PollStep) => Rest'
<1> SUFFICES ASSUME IndInv, PollCall \/ PollStep PROVE Rest' OBVIOUS
<1>1. status'.State \in {status.State, GetState(stack)}
  BY DEF PollCall, PollStep, IndInv, TypeOK
<1> QED BY <1>1, Unmoved DEF PollCall, PollStep

-----------------------------------------------------------------------------
(* The inductive invariant holds *)

LEMMA InitInd == Init => IndInv
<1> SUFFICES ASSUME Init PROVE IndInv OBVIOUS
<1>1. TypeOK /\ StackShape BY InitTyped DEF TypeShape
<1>2. xfer.pc = "none" /\ host.pc = "idle" /\ hnd = FALSE /\ cookie.tried = FALSE
  BY DEF Init, Thread, HostIdle
<1>3. HandleInv BY <1>2 DEF HandleInv, Live
<1>4. TopInv BY <1>2 DEF TopInv, Before, After
<1>5. PausedInv BY <1>2 DEF PausedInv, Starting, Live
<1>6. Len(stack) = 3 /\ stack[1] = "None" /\ stack[2] = "None" /\ stack[3] = "Create"
  BY DEF Init, NewStack
<1>7. ~Entered(stack, "Finish") BY <1>6 DEF Entered
<1>8. CookieInv BY <1>2, <1>7 DEF CookieInv, Init
<1>9. OutcomeInv
  <2>1. ~Outcome(3) BY DEF Outcome
  <2>2. Top(stack) # "Pause" BY <1>6 DEF Top
  <2> QED BY <1>2, <1>6, <1>7, <2>1, <2>2 DEF OutcomeInv, NoFinishAfterFailure, Starting, Before
<1> QED BY <1>1, <1>3, <1>4, <1>5, <1>8, <1>9 DEF IndInv

LEMMA NextInd == IndInv /\ [Next]_vars => IndInv'
<1> SUFFICES ASSUME IndInv, [Next]_vars PROVE IndInv' OBVIOUS
<1>1. TypeOK' /\ StackShape' BY TypedNext DEF IndInv, TypeShape
<1>2. HostOpen \/ UNCHANGED vars => Rest'
  <2> SUFFICES ASSUME HostOpen \/ UNCHANGED vars PROVE Rest' OBVIOUS
  <2>1. /\ stack' = stack /\ hnd' = hnd /\ suspends' = suspends
        /\ xfer' = xfer /\ host' = host /\ cookie' = cookie
    BY DEF HostOpen, vars
  <2>2. status'.State \in {status.State, GetState(stack)}
    BY DEF HostOpen, vars
  <2> QED BY <2>1, <2>2, Unmoved
<1>3. (\E op \in Calls : HostCall(op)) => Rest' BY RestHostCall
<1>4. HostStep \/ XferStep \/ PollCall \/ PollStep => Rest'
  BY RestHostStep, RestXferStep, RestPoll
<1>5. Rest' BY <1>2, <1>3, <1>4 DEF Next
<1> QED BY <1>1, <1>5 DEF IndInv, Rest

(* The strengthened invariant the next theorems follow from: handle, top   *)
(* entry, pauses, cookie and outcomes agree with where the threads are.    *)
THEOREM Inductive == Spec => []IndInv
BY InitInd, NextInd, PTL DEF Spec

(* krsFinish is shown only after StoreCookieXML was run, whether or not    *)
(* the result could be generated.                                          *)
THEOREM CookieFirst == Spec => []FinishShownAfterStore
<1>1. IndInv => FinishShownAfterStore BY DEF IndInv, CookieInv, FinishShownAfterStore
<1> QED BY <1>1, Inductive, PTL

(* The table never refuses the thread its Finish.                          *)
THEOREM FinishNeverRefused == Spec => []FinishAccepted
<1>1. IndInv => FinishAccepted BY FinishFollows DEF FinishAccepted
<1> QED BY <1>1, Inductive, PTL

(* Action never starts a second thread beside a live one.                  *)
THEOREM SingleThread == Spec => []OneThread
<1>1. IndInv => OneThread BY DEF IndInv, HandleInv, OneThread
<1> QED BY <1>1, Inductive, PTL

(* A session that holds a failure does not finish.                         *)
THEOREM FailureIsFinal == Spec => []NoFinishAfterFailure
<1>1. IndInv => NoFinishAfterFailure BY DEF IndInv, OutcomeInv
<1> QED BY <1>1, Inductive, PTL

-----------------------------------------------------------------------------
(* Cancel: once it is entered no other file is begun                       *)

(* The places of a call that has yet to push Run or Pause, or may pop.     *)
Pushing == Starting \cup {"actPush", "pausePush", "suspend", "resumePush", "resume", "rollback"}

(* Above a Cancel there is nothing but an outcome, and no call is about to *)
(* change that: the host cancels after the calls before it have returned,  *)
(* and the table refuses the calls after it.                               *)
CancelInv ==
  Entered(stack, "Cancel") => /\ Top(stack) \in {"Cancel", "Finish", "None"}
                              /\ host.pc \notin Pushing

CInv == TypeShape /\ CancelInv

-----------------------------------------------------------------------------
(* Moves of the stack *)

LEMMA CancelSame ==
  ASSUME CInv, UNCHANGED stack, host'.pc \notin Pushing \/ UNCHANGED host
  PROVE  CancelInv'
BY DEF CInv, CancelInv, Entered, Top

(* Calls that push Run or Pause, or pop, do so where no Cancel is entered. *)
LEMMA CancelPushing ==
  ASSUME CInv, host.pc \in Pushing,
         \/ UNCHANGED stack
         \/ stack' = Append(stack, "Run")
         \/ stack' = Append(stack, "Pause")
         \/ Len(stack) >= 4 /\ stack' = RollBackState(stack)
  PROVE  CancelInv'
<1>1. ~Entered(stack, "Cancel") BY DEF CInv, CancelInv
<1>2. stack \in Seq(RunState) /\ Len(stack) \in Nat BY DEF CInv, TypeShape, TypeOK
<1>3. \A i \in 1..Len(stack) : stack[i] # "Cancel" BY <1>1 DEF Entered
<1>4. \A i \in 1..Len(stack') : stack'[i] # "Cancel"
  <2>1. CASE UNCHANGED stack BY <1>3, <2>1
  <2>2. ASSUME NEW s \in {"Run", "Pause"}, stack' = Append(stack, s)
        PROVE  \A i \in 1..Len(stack') : stack'[i] # "Cancel"
    <3>1. /\ Len(stack') = Len(stack) + 1
          /\ \A i \in 1..Len(stack) : stack'[i] = stack[i]
          /\ stack'[Len(stack) + 1] = s
      BY <1>2, <2>2, Pushed DEF RunState
    <3> QED BY <1>2, <1>3, <2>2, <3>1
  <2>3. CASE Len(stack) >= 4 /\ stack' = RollBackState(stack)
    <3>1. /\ Len(stack') = Len(stack) - 1
          /\ \A i \in 1..(Len(stack) - 1) : stack'[i] = stack[i]
      BY <1>2, <2>3, Popped
    <3> QED BY <1>2, <1>3, <3>1
  <2> QED BY <2>1, <2>2, <2>3
<1>5. ~Entered(stack', "Cancel") BY <1>4 DEF Entered
<1> QED BY <1>5 DEF CancelInv

(* Cancel itself, and the outcomes of the thread, come out on top.         *)
LEMMA CancelOnTop ==
  ASSUME CInv, NEW s \in {"Cancel", "Finish", "None"}, stack' = Append(stack, s),
         host'.pc \notin Pushing \/ (UNCHANGED host /\ s # "Cancel")
  PROVE  CancelInv'
<1>1. stack \in Seq(RunState) /\ Len(stack) \in Nat BY DEF CInv, TypeShape, TypeOK
<1>2. /\ Len(stack') = Len(stack) + 1
      /\ \A i \in 1..Len(stack) : stack'[i] = stack[i]
      /\ stack'[Len(stack) + 1] = s
  BY <1>1, Pushed DEF RunState
<1>3. Top(stack') = s BY <1>2 DEF Top
<1>4. s # "Cancel" /\ Entered(stack', "Cancel") => Entered(stack, "Cancel")
  BY <1>1, <1>2 DEF Entered
<1> QED BY <1>3, <1>4 DEF CInv, CancelInv

(* The table refuses Run and Pause above a Cancel.                         *)
LEMMA CancelRefuses ==
  ASSUME CInv, IsTransitionValid(stack, "Run") \/ IsTransitionValid(stack, "Pause")
  PROVE  ~Entered(stack, "Cancel")
BY DEF CInv, CancelInv, IsTransitionValid, StateTbl

LEMMA CancelTested ==
  ASSUME CInv, UNCHANGED stack,
         IsTransitionValid(stack, "Run") \/ IsTransitionValid(stack, "Pause")
  PROVE  CancelInv'
BY CancelRefuses DEF CancelInv, Entered

-----------------------------------------------------------------------------
(* Every action keeps CancelInv *)

LEMMA CancelHostStep == CInv /\ HostStep => CancelInv'
<1> SUFFICES ASSUME CInv, HostStep PROVE CancelInv' OBVIOUS
<1>a. TypeOK BY DEF CInv, TypeShape
<1>b. ASSUME HostReturn PROVE host'.pc \notin Pushing
  BY <1>a, <1>b, TypeHostReturn DEF Pushing, Starting
<1>c. ASSUME NEW c \in Codes, HostReport(c) PROVE host'.pc \notin Pushing
  BY <1>a, <1>c, TypeHostReport DEF Pushing, Starting
<1>d. ASSUME NEW l \in HostPC \ Pushing, HostTo(l) PROVE host'.pc \notin Pushing
  BY <1>a, <1>d, TypeHostTo
<1>e. ASSUME NEW at, NEW s, HostRefuse(at, s) PROVE CancelInv'
  BY <1>b, <1>e, CancelSame DEF HostRefuse
<1>f. ASSUME NEW at, NEW l \in HostPC \ Pushing, NullTest(at, l) PROVE CancelInv'
  BY <1>b, <1>d, <1>f, CancelSame DEF NullTest
<1>g. ASSUME NEW at \in Pushing, NEW s \in {"Run", "Pause"}, HostPush(at, s) PROVE CancelInv'
  BY <1>g, CancelPushing DEF HostPush
<1>1. ActionSetState => CancelInv'
  BY <1>e, <1>g, CancelTested DEF ActionSetState, HostTest, Pushing
<1>2. ActionParse => CancelInv'
  <2>1. ActionParse => Len(stack) >= 4 BY DEF CInv, TypeShape, StackShape, ActionParse
  <2> QED BY <2>1, CancelPushing DEF ActionParse, Pushing, Starting
<1>3. ActionEnter \/ ActionSize \/ ActionBegin => CancelInv'
  BY CancelPushing DEF ActionEnter, ActionSize, ActionBegin, Pushing, Starting
<1>4. ActionAssign => CancelInv' BY <1>b, CancelSame DEF ActionAssign
<1>5. PauseSetState => CancelInv'
  BY <1>e, <1>f, <1>g, CancelTested
     DEF PauseSetState, HostTest, Pushing, Starting, HostPC
<1>6. PauseSuspend \/ ResumeResume => CancelInv'
  BY CancelPushing DEF PauseSuspend, ResumeResume, Pushing
<1>7. ResumeSetState => CancelInv'
  BY <1>e, <1>f, <1>g, CancelTested
     DEF ResumeSetState, HostTest, Pushing, Starting, HostPC
<1>8. Rollback => CancelInv'
  <2>1. Rollback => Len(stack) >= 4 BY DEF CInv, TypeShape, StackShape, Rollback
  <2> QED BY <2>1, CancelPushing DEF Rollback, Pushing
<1>9. CancelRead => CancelInv'
  <2>1. CancelRead => host'.pc \notin Pushing
    BY <1>d DEF CancelRead, Pushing, Starting, HostPC
  <2> QED BY <2>1, CancelSame DEF CancelRead
<1>10. CancelSetState => CancelInv'
  <2>1. HostTest("cancelCheck", "Cancel", "cancelPush") => CancelInv'
    BY <1>d, CancelSame DEF HostTest, Pushing, Starting, HostPC
  <2>2. HostTo("cancelWhy") /\ UNCHANGED stack => CancelInv'
    BY <1>d, CancelSame DEF Pushing, Starting, HostPC
  <2>3. HostPush("cancelPush", "Cancel") /\ HostReport("NoError") => CancelInv'
    BY <1>c, CancelOnTop DEF HostPush, Codes
  <2> QED BY <2>1, <2>2, <2>3 DEF CancelSetState
<1>11. CancelWhy => CancelInv' BY <1>c, CancelSame DEF CancelWhy, Codes
<1>12. CancelPaused => CancelInv'
  <2>1. HostTest("cancelSet", "Cancel", "cancelPush") => CancelInv'
    BY <1>d, CancelSame DEF HostTest, Pushing, Starting, HostPC
  <2>2. HostTo("cancelSet") /\ UNCHANGED stack => CancelInv'
    BY <1>d, CancelSame DEF Pushing, Starting, HostPC
  <2>3. HostReport("NoError") /\ UNCHANGED stack => CancelInv'
    BY <1>c, CancelSame DEF Codes
  <2> QED BY <2>1, <2>2, <2>3 DEF CancelPaused, ResumeThread
<1>13. HostStatusEnter => CancelInv'
  BY <1>d, CancelSame DEF HostStatusEnter, Pushing, Starting, HostPC
<1>14. HostStatusBody => CancelInv' BY <1>b, CancelSame DEF HostStatusBody
<1>15. HostDelete => CancelInv'
  BY CancelSame DEF HostDelete, HostIdle, Pushing, Starting
<1> QED
  BY <1>1, <1>2, <1>3, <1>4, <1>5, <1>6, <1>7, <1>8, <1>9, <1>10, <1>11, <1>12, <1>13, <1>14, <1>15
  DEF HostStep

LEMMA CancelNext == CInv /\ [Next]_vars => CancelInv'
<1> SUFFICES ASSUME CInv, [Next]_vars PROVE CancelInv' OBVIOUS
<1>1. ASSUME NEW op \in Calls, HostCall(op) PROVE CancelInv'
  <2>1. EntryPoint(op) \in {"actCheck", "pauseNull", "resumeNull", "cancelRead"}
    BY SessionAssumption DEF EntryPoint
  <2>2. host'.pc \notin Pushing BY <1>1, <2>1 DEF HostCall, Pushing, Starting
  <2> QED BY <1>1, <2>2, CancelSame DEF HostCall
<1>2. XferStep => CancelInv'
  <2>1. XferFail => CancelInv' BY CancelSame, CancelOnTop DEF XferFail
  <2>2. XferFinish => CancelInv' BY CancelSame, CancelOnTop DEF XferFinish
  <2>3. XferStart \/ XferCheck \/ XferCopy \/ XferEnter \/ XferStatus => CancelInv'
    BY CancelSame DEF XferStart, XferCheck, XferCopy, XferEnter, XferStatus
  <2>4. XferCount \/ XferStore \/ XferEnd => CancelInv'
    BY CancelSame DEF XferCount, XferStore, XferEnd
  <2> QED BY <2>1, <2>2, <2>3, <2>4 DEF XferStep
<1>3. HostOpen \/ PollCall \/ PollStep \/ UNCHANGED vars => CancelInv'
  BY CancelSame DEF HostOpen, PollCall, PollStep, vars
<1> QED BY <1>1, <1>2, <1>3, CancelHostStep DEF Next

-----------------------------------------------------------------------------
(* A step that begins a file is XferCheck in state Run, or goes on with    *)
(* the file in flight.                                                     *)
LEMMA CopyBegins ==
  ASSUME TypeShape, [Next]_vars, xfer'.pc = "copy"
  PROVE  xfer.pc \in {"copy", "statBody"} \/ (xfer.pc = "check" /\ StateRun)
<1>a. xfer \in XferType BY DEF TypeShape, TypeOK, XferType
<1>1. UNCHANGED xfer => xfer.pc = "copy" OBVIOUS
<1>2. HostStep => UNCHANGED xfer \/ xfer'.pc = "start"
  <2>1. ActionSetState \/ ActionParse \/ ActionEnter \/ ActionSize \/ ActionAssign => UNCHANGED xfer
    BY DEF ActionSetState, HostTest, HostRefuse, HostPush, ActionParse, ActionEnter, ActionSize,
           ActionAssign
  <2>2. ActionBegin => UNCHANGED xfer \/ xfer'.pc = "start" BY DEF ActionBegin, Thread
  <2>3. PauseSetState \/ PauseSuspend \/ ResumeSetState \/ ResumeResume \/ Rollback => UNCHANGED xfer
    BY DEF PauseSetState, NullTest, HostTest, HostRefuse, HostPush, PauseSuspend, ResumeSetState,
           ResumeResume, Rollback
  <2>4. CancelRead \/ CancelSetState \/ CancelWhy \/ CancelPaused => UNCHANGED xfer
    BY DEF CancelRead, CancelSetState, HostTest, HostPush, CancelWhy, CancelPaused
  <2>5. HostStatusEnter \/ HostStatusBody \/ HostDelete => UNCHANGED xfer
    BY DEF HostStatusEnter, HostStatusBody, HostDelete
  <2> QED BY <2>1, <2>2, <2>3, <2>4, <2>5 DEF HostStep
<1>3. XferStep => xfer.pc \in {"copy", "statBody"} \/ (xfer.pc = "check" /\ StateRun)
  <2>1. XferCheck => xfer.pc = "check" /\ StateRun
    BY <1>a DEF XferCheck, XferAt, XferTo, XferType
  <2>2. XferStatus => xfer.pc = "statBody" BY DEF XferStatus, XferAt
  <2>3. XferCopy => xfer.pc = "copy" BY DEF XferCopy, XferAt
  <2>4. ~XferStart /\ ~XferEnter /\ ~XferCount
    BY <1>a DEF XferStart, XferEnter, XferCount, XferTo, XferType
  <2>5. ~XferFail /\ ~XferStore /\ ~XferFinish /\ ~XferEnd
    BY <1>a DEF XferFail, XferStore, XferFinish, XferEnd, XferTo, XferType
  <2> QED BY <2>1, <2>2, <2>3, <2>4, <2>5 DEF XferStep
<1>4. (\E op \in Calls : HostCall(op)) \/ HostOpen \/ PollCall \/ PollStep \/ UNCHANGED vars
        => UNCHANGED xfer
  BY DEF HostCall, HostOpen, PollCall, PollStep, vars
<1> QED BY <1>1, <1>2, <1>3, <1>4 DEF Next

(* Once Cancel is entered the thread begins no other file, whatever calls  *)
(* the host makes and however they fall between the thread's steps.        *)
THEOREM CancelIsFinal == Spec => CancelStops
<1>1. Init => CInv
  <2> SUFFICES ASSUME Init PROVE CInv OBVIOUS
  <2>1. ~Entered(stack, "Cancel") BY DEF Init, NewStack, Entered
  <2> QED BY <2>1, InitTyped DEF CInv, CancelInv
<1>2. CInv /\ [Next]_vars => CInv' BY TypedNext, CancelNext DEF CInv
<1>3. CInv /\ [Next]_vars
        => [Entered(stack, "Cancel") /\ xfer'.pc = "copy" => xfer.pc \in {"copy", "statBody"}]_vars
  <2> SUFFICES ASSUME CInv, [Next]_vars, Entered(stack, "Cancel"), xfer'.pc = "copy"
               PROVE  xfer.pc \in {"copy", "statBody"}
    OBVIOUS
  <2>1. ~StateRun BY DEF CInv, CancelInv, StateRun, IsValid
  <2> QED BY <2>1, CopyBegins DEF CInv
<1> QED BY <1>1, <1>2, <1>3, PTL DEF Spec, CancelStops

-----------------------------------------------------------------------------
(* Files: what a finished session has transferred                          *)

(* A part that reports an error has made its file fail.                    *)
PartInv == xfer.pc \in {"statEnter", "statBody"} /\ xfer.ok => xfer.code = "NoError"

LEMMA PartNext == IndInv /\ PartInv /\ [Next]_vars => PartInv'
<1> SUFFICES ASSUME IndInv, PartInv, [Next]_vars PROVE PartInv' OBVIOUS
<1>1. xfer \in XferType BY DEF IndInv, TypeOK, XferType
<1>2. UNCHANGED xfer \/ xfer' = Thread("start") => PartInv' BY DEF PartInv, Thread
<1>3. xfer'.pc \notin {"statEnter", "statBody"} => PartInv' BY DEF PartInv
<1>4. XferCopy => PartInv' BY <1>1 DEF XferCopy, XferTo, XferType, PartInv
<1>5. XferEnter => PartInv' BY <1>1 DEF XferEnter, XferAt, XferTo, XferType, PartInv
<1>6. XferStart \/ XferCheck => PartInv'
  BY <1>1, <1>3 DEF XferStart, XferCheck, XferAt, XferTo, XferType
<1>7. XferStatus \/ XferCount => PartInv'
  BY <1>1, <1>3 DEF XferStatus, XferCount, XferTo, XferType
<1>8. XferFail \/ XferStore \/ XferFinish \/ XferEnd => PartInv'
  BY <1>1, <1>3 DEF XferFail, XferStore, XferFinish, XferEnd, XferAt, XferTo, XferType
<1>9. XferStep => PartInv' BY <1>4, <1>5, <1>6, <1>7, <1>8 DEF XferStep
<1>10. ASSUME HostStep PROVE PartInv'
  <2>1. ActionBegin => PartInv' BY <1>2 DEF ActionBegin
  <2>2. HostStep /\ ~ActionBegin => UNCHANGED xfer
    BY DEF HostStep, ActionSetState, HostTest, HostRefuse, HostPush, ActionParse, ActionEnter,
           ActionSize, ActionAssign, PauseSetState, NullTest, PauseSuspend, ResumeSetState,
           ResumeResume, Rollback, CancelRead, CancelSetState, CancelWhy, CancelPaused,
           HostStatusEnter, HostStatusBody, HostDelete
  <2> QED BY <1>2, <1>10, <2>1, <2>2
<1>11. (\E op \in Calls : HostCall(op)) \/ HostOpen \/ PollCall \/ PollStep \/ UNCHANGED vars => PartInv'
  BY <1>2 DEF HostCall, HostOpen, PollCall, PollStep, vars
<1> QED BY <1>9, <1>10, <1>11 DEF Next

LEMMA PartAlways == Spec => []PartInv
<1>1. Init => PartInv BY DEF Init, PartInv, Thread
<1> QED BY <1>1, PartNext, Inductive, PTL DEF Spec

(* Calls that may still pop what is on top of the stack.                   *)
Popping == {"suspend", "resume", "rollback"}

(* The Pause or Cancel that explains a skipped file, where no pop can      *)
(* reach it.                                                               *)
Explained ==
  \E j \in 4..Len(stack) : /\ stack[j] \in {"Pause", "Cancel"}
                           /\ j < Len(stack) \/ host.pc \notin Popping

AllYes == \A i \in 1..Len(list) : list[i] = "yes"

(* The result shows every file as transferred, if one could be generated.  *)
ResultYes == cookie.made => cookie.ok = 1..Len(list)

(* The thread is at a file, has counted it, or is past the last one.       *)
Counting == {"cntEnter", "cntBody"}
Moving == {"check", "copy", "statEnter", "statBody"} \cup Counting
Ending == {"store", "finCheck", "finPush"}

(* A partial restore has called the file at hand transferred, and no part  *)
(* of it has failed.                                                       *)
Pledged ==
  Partial /\ xfer.ok
    /\ (xfer.pc \in {"statEnter", "statBody"} \/ (xfer.pc = "copy" /\ xfer.seg # 1))

(* What an uninterrupted thread has left behind it is transferred.         *)
BehindYes ==
  xfer.pc \in Moving /\ ~Interrupted =>
    /\ xfer.limit = Len(list)
    /\ \A i \in 1..Len(list) :
         i < xfer.index \/ (i = xfer.index /\ (xfer.pc \in Counting \/ Pledged)) => list[i] = "yes"

EndingYes ==
  xfer.pc \in Ending /\ ~Interrupted =>
    AllYes /\ (xfer.pc # "store" => ResultYes)

FinishedYes == Entered(stack, "Finish") /\ ~Explained => AllYes /\ ResultYes

FilesInv ==
  /\ host.pc = "actParse" => stack[Len(stack) - 1] \in {"Create", "Pause"}
  /\ xfer.pc = "start" => xfer.index = 1
  /\ BehindYes /\ EndingYes /\ FinishedYes

-----------------------------------------------------------------------------
(* A state other than Finish is entered, by the host or by a thread that   *)
(* fails: an interruption that was on top can no longer be popped.         *)
LEMMA FilesPush ==
  ASSUME IndInv, FilesInv, NEW s \in RunState \ {"Finish"}, stack' = Append(stack, s),
         UNCHANGED <<list, cookie>>,
         UNCHANGED xfer \/ xfer'.pc \notin Moving \cup Ending \cup {"start"},
         host'.pc = "actParse" => Top(stack) \in {"Create", "Pause"}
  PROVE  FilesInv'
<1>1. /\ Len(stack) \in Nat /\ Len(stack) >= 3
      /\ Len(stack') = Len(stack) + 1
      /\ \A i \in 1..Len(stack) : stack'[i] = stack[i]
      /\ stack'[Len(stack) + 1] = s
  BY Pushed DEF IndInv, TypeOK, StackShape
<1>2. Interrupted => Explained' /\ Interrupted'
  <2> SUFFICES ASSUME Interrupted PROVE Explained' /\ Interrupted'
    OBVIOUS
  <2>1. PICK j \in 1..Len(stack) : stack[j] \in {"Pause", "Cancel"}
    BY DEF Interrupted, Entered
  <2>2. j \in 4..Len(stack)
    BY <1>1, <2>1 DEF IndInv, StackShape
  <2>3. stack'[j] = stack[j] /\ j \in 4..Len(stack') /\ j < Len(stack')
    BY <1>1, <2>2
  <2> QED BY <1>1, <2>1, <2>3 DEF Explained, Interrupted, Entered
<1>3. Explained => Interrupted
  BY <1>1 DEF Explained, Interrupted, Entered
<1>4. Entered(stack', "Finish") => Entered(stack, "Finish")
  BY <1>1 DEF Entered
<1>5. Len(stack') - 1 = Len(stack) /\ stack'[Len(stack)] = Top(stack)
  BY <1>1 DEF Top
<1>6. (host.pc = "actParse" => stack[Len(stack) - 1] \in {"Create", "Pause"})'
  BY <1>5
<1>7. BehindYes' /\ EndingYes'
  BY <1>2 DEF FilesInv, BehindYes, Pledged, EndingYes, ResultYes, AllYes
<1>8. FinishedYes'
  BY <1>2, <1>3, <1>4 DEF FilesInv, FinishedYes, ResultYes, AllYes
<1> QED BY <1>6, <1>7, <1>8 DEF FilesInv

(* Stack, files and cookie stay as they are, and no call gets between its  *)
(* push and its pop.                                                       *)
LEMMA FilesSame ==
  ASSUME FilesInv, UNCHANGED <<stack, list, cookie>>,
         UNCHANGED xfer \/ xfer'.pc \notin Moving \cup Ending \cup {"start"} \/ xfer' = Thread("start"),
         host'.pc = "actParse" => host.pc = "actParse",
         host'.pc \in Popping => host.pc \in Popping
  PROVE  FilesInv'
<1>1. BehindYes' /\ EndingYes' /\ (xfer.pc = "start" => xfer.index = 1)'
  BY DEF FilesInv, BehindYes, Pledged, EndingYes, ResultYes, AllYes, Interrupted, Entered, Thread,
         Moving, Counting, Ending
<1>2. Explained => Explained'
  BY DEF Explained
<1>3. FinishedYes'
  BY <1>2 DEF FilesInv, FinishedYes, ResultYes, AllYes, Entered
<1> QED BY <1>1, <1>3 DEF FilesInv

(* RollbackState after a call that failed: the thread is gone, and what    *)
(* explains a skipped file is not on top.                                  *)
LEMMA FilesRollback ==
  ASSUME IndInv, FilesInv, host.pc = "rollback", stack' = RollBackState(stack),
         host'.pc \notin Popping \cup {"actParse"}, UNCHANGED <<list, cookie, xfer>>
  PROVE  FilesInv'
<1>1. /\ Len(stack) \in Nat /\ Len(stack) >= 4 /\ Len(stack') = Len(stack) - 1
      /\ \A i \in 1..(Len(stack) - 1) : stack'[i] = stack[i]
  BY Popped DEF IndInv, StackShape, TypeOK
<1>2. xfer.pc \notin Moving \cup Ending \cup {"start"}
  BY DEF IndInv, PausedInv, Live, Moving, Counting, Ending
<1>3. Explained => Explained'
  BY <1>1 DEF Explained, Popping
<1>4. Entered(stack', "Finish") => Entered(stack, "Finish")
  BY <1>1 DEF Entered
<1>5. FinishedYes'
  BY <1>3, <1>4 DEF FilesInv, FinishedYes, ResultYes, AllYes
<1> QED BY <1>2, <1>5 DEF FilesInv, BehindYes, EndingYes

(* The parser lengthens the list.  If a thread lives, it is paused, and    *)
(* the Pause lies below the Run of this call.                              *)
LEMMA FilesParse ==
  ASSUME IndInv, FilesInv, ActionParse
  PROVE  FilesInv'
<1>1. /\ host.pc = "actParse" /\ UNCHANGED <<cookie, xfer>>
      /\ UNCHANGED stack \/ stack' = RollBackState(stack)
  BY DEF ActionParse
<1>2. host'.pc \notin Popping \cup {"actParse"}
  <2>1. HostTo("actEnter") => host'.pc = "actEnter"
    BY TypeHostTo DEF IndInv, HostPC
  <2>2. HostReport("InternalError") => host'.pc = "stEnter"
    BY TypeHostReport DEF IndInv, Codes
  <2> QED BY <2>1, <2>2 DEF ActionParse, Popping
<1>3. /\ Len(stack) \in Nat /\ Len(stack) >= 4 /\ Len(stack') \in {Len(stack), Len(stack) - 1}
      /\ \A i \in 1..(Len(stack) - 1) : stack'[i] = stack[i]
      /\ UNCHANGED stack \/ Len(stack') = Len(stack) - 1
  BY <1>1, Popped DEF IndInv, StackShape, TypeOK
<1>4. Entered(stack', "Finish") => Outcome(Len(stack))
  <2> SUFFICES ASSUME NEW i \in 1..Len(stack'), stack'[i] = "Finish"
               PROVE  Outcome(Len(stack))
    BY DEF Entered
  <2>1. stack[i] = "Finish" /\ i \in 1..Len(stack)
    BY <1>3
  <2>2. i \in 4..Len(stack)
    BY <1>3, <2>1 DEF IndInv, StackShape
  <2> QED BY <2>1, <2>2 DEF Outcome
<1>5. Entered(stack', "Finish") => Live
  BY <1>1, <1>4 DEF IndInv, OutcomeInv, Starting
<1>6. Live => Interrupted' /\ Explained'
  <2> SUFFICES ASSUME Live PROVE Interrupted' /\ Explained'
    OBVIOUS
  <2>1. Len(stack) >= 5
    BY <1>1 DEF IndInv, TopInv
  <2>2. Len(stack) - 1 \in 4..Len(stack) /\ stack[Len(stack) - 1] \in Above
    BY <1>3, <2>1 DEF IndInv, StackShape
  <2>3. stack[Len(stack) - 1] = "Pause"
    BY <1>1, <2>2 DEF FilesInv, Above
  <2>4. stack'[Len(stack) - 1] = "Pause" /\ Len(stack) - 1 \in 4..Len(stack')
    BY <1>3, <2>2, <2>3
  <2> QED BY <1>2, <1>3, <2>4 DEF Interrupted, Entered, Explained
<1>7. Live' <=> Live
  BY <1>1 DEF Live
<1>8. ~Live => xfer.pc \notin Moving \cup Ending \cup {"start"}
  BY DEF Live, Moving, Counting, Ending
<1>9. BehindYes' /\ EndingYes' /\ FinishedYes'
  BY <1>1, <1>5, <1>6, <1>8 DEF BehindYes, Pledged, EndingYes, ResultYes, FinishedYes
<1> QED BY <1>1, <1>2, <1>9 DEF FilesInv

-----------------------------------------------------------------------------
(* Every action keeps FilesInv *)

LEMMA FilesHostStep == IndInv /\ FilesInv /\ HostStep => FilesInv'
<1> SUFFICES ASSUME IndInv, FilesInv, HostStep PROVE FilesInv' OBVIOUS
<1> DEFINE Special == Popping \cup {"actParse"}
<1>a. TypeOK BY DEF IndInv
<1>b. ASSUME HostReturn PROVE host'.pc \notin Special
  BY <1>a, <1>b, TypeHostReturn DEF Popping
<1>c. ASSUME NEW c \in Codes, HostReport(c) PROVE host'.pc \notin Special
  BY <1>a, <1>c, TypeHostReport DEF Popping
<1>d. ASSUME NEW l \in HostPC \ Special, HostTo(l) PROVE host'.pc \notin Special
  BY <1>a, <1>d, TypeHostTo
<1>e. ASSUME NEW at, NEW s, HostRefuse(at, s) PROVE FilesInv'
  BY <1>b, <1>e, FilesSame DEF HostRefuse
<1>f. ASSUME NEW at, NEW l \in HostPC \ Special, NullTest(at, l) PROVE FilesInv'
  BY <1>b, <1>d, <1>f, FilesSame DEF NullTest
<1>g. ASSUME NEW at, NEW s, NEW l \in HostPC \ Special, HostTest(at, s, l) PROVE FilesInv'
  BY <1>d, <1>g, FilesSame DEF HostTest
<1>h. ASSUME NEW at, NEW s \in {"Run", "Pause"}, NEW l \in Popping, HostPush(at, s), HostTo(l)
      PROVE  FilesInv'
  <2>1. l \in HostPC /\ l # "actParse" BY DEF Popping, HostPC
  <2>2. host'.pc # "actParse" BY <1>a, <1>h, <2>1, TypeHostTo
  <2>3. s \in RunState \ {"Finish"} BY DEF RunState
  <2> QED BY <1>h, <2>2, <2>3, FilesPush DEF HostPush
<1>1. ActionSetState => FilesInv'
  <2>1. HostPush("actPush", "Run") => FilesInv'
    <3>1. HostPush("actPush", "Run") => Top(stack) \in {"Create", "Pause"}
      BY DEF HostPush, IndInv, PausedInv
    <3> QED BY <3>1, FilesPush DEF HostPush, RunState
  <2> QED BY <1>e, <1>g, <2>1 DEF ActionSetState, Popping, HostPC
<1>2. ActionParse => FilesInv' BY FilesParse
<1>3. ActionEnter \/ ActionSize => FilesInv'
  BY <1>d, FilesSame DEF ActionEnter, ActionSize, Popping, HostPC
<1>4. ActionBegin => FilesInv'
  BY <1>c, <1>d, FilesSame DEF ActionBegin, Popping, HostPC, Codes
<1>5. ActionAssign => FilesInv' BY <1>b, FilesSame DEF ActionAssign
<1>6. PauseSetState => FilesInv'
  BY <1>e, <1>f, <1>g, <1>h DEF PauseSetState, Popping, HostPC
<1>7. PauseSuspend => FilesInv'
  <2>1. PauseSuspend => host'.pc \in {"stEnter", "rollback"}
    BY <1>a, TypeHostReport, TypeHostTo DEF PauseSuspend, Codes, HostPC
  <2> QED BY <2>1, FilesSame DEF PauseSuspend, Popping
<1>8. ResumeSetState => FilesInv'
  BY <1>e, <1>f, <1>g, <1>h DEF ResumeSetState, Popping, HostPC
<1>9. ResumeResume => FilesInv'
  <2>1. ResumeResume => host'.pc \in {"stEnter", "rollback"}
    BY <1>a, TypeHostReport, TypeHostTo DEF ResumeResume, ResumeThread, Codes, HostPC
  <2> QED BY <2>1, FilesSame DEF ResumeResume, Popping
<1>10. Rollback => FilesInv' BY <1>c, FilesRollback DEF Rollback, Codes
<1>11. CancelRead => FilesInv'
  <2>1. CancelRead => host'.pc \notin Special BY <1>d DEF CancelRead, Popping, HostPC
  <2> QED BY <2>1, FilesSame DEF CancelRead
<1>12. CancelSetState => FilesInv'
  <2>1. HostTo("cancelWhy") /\ UNCHANGED <<stack, list, cookie, xfer>> => FilesInv'
    BY <1>d, FilesSame DEF Popping, HostPC
  <2>2. HostPush("cancelPush", "Cancel") /\ HostReport("NoError") => FilesInv'
    BY <1>c, FilesPush DEF HostPush, Codes, RunState
  <2> QED BY <1>g, <2>1, <2>2 DEF CancelSetState, Popping, HostPC
<1>13. CancelWhy => FilesInv' BY <1>c, FilesSame DEF CancelWhy, Codes
<1>14. CancelPaused => FilesInv'
  <2>1. HostTo("cancelSet") /\ UNCHANGED <<stack, list, cookie, xfer>> => FilesInv'
    BY <1>d, FilesSame DEF Popping, HostPC
  <2>2. HostReport("NoError") /\ UNCHANGED <<stack, list, cookie, xfer>> => FilesInv'
    BY <1>c, FilesSame DEF Codes
  <2> QED BY <1>g, <2>1, <2>2 DEF CancelPaused, ResumeThread, Popping, HostPC
<1>15. HostStatusEnter => FilesInv'
  BY <1>d, FilesSame DEF HostStatusEnter, Popping, HostPC
<1>16. HostStatusBody => FilesInv' BY <1>b, FilesSame DEF HostStatusBody
<1>17. HostDelete => FilesInv' BY FilesSame DEF HostDelete, HostIdle, Popping
<1> QED
  BY <1>1, <1>2, <1>3, <1>4, <1>5, <1>6, <1>7, <1>8, <1>9, <1>10, <1>11, <1>12, <1>13, <1>14,
     <1>15, <1>16, <1>17
  DEF HostStep

(* Stack, files and cookie stay, and the thread goes from one place to     *)
(* another.                                                                *)
LEMMA FilesXfer ==
  ASSUME FilesInv, UNCHANGED <<stack, host>>, BehindYes', EndingYes', xfer'.pc # "start",
         Entered(stack, "Finish") /\ ~Explained => UNCHANGED <<list, cookie>>
  PROVE  FilesInv'
<1>1. Explained' <=> Explained BY DEF Explained
<1>2. FinishedYes' BY <1>1 DEF FilesInv, FinishedYes, ResultYes, AllYes, Entered
<1> QED BY <1>2 DEF FilesInv

(* A thread that has its outcome before it never meets a Finish.           *)
LEMMA NotFinished ==
  ASSUME IndInv, xfer.pc \in Before
  PROVE  ~Entered(stack, "Finish")
<1>1. ~Outcome(Len(stack)) BY DEF IndInv, OutcomeInv
<1>2. Len(stack) \in Nat /\ Len(stack) >= 3 BY DEF IndInv, TypeOK, StackShape
<1>3. ASSUME NEW i \in 1..Len(stack), stack[i] = "Finish" PROVE FALSE
  <2>1. i \in 4..Len(stack) BY <1>2, <1>3 DEF IndInv, StackShape
  <2> QED BY <1>1, <1>3, <2>1 DEF Outcome
<1> QED BY <1>3 DEF Entered

LEMMA FilesStart == ASSUME IndInv, FilesInv, XferStart PROVE FilesInv'
<1>1. /\ xfer.pc = "start" /\ xfer.index = 1 /\ xfer \in XferType
      /\ xfer' = [xfer EXCEPT !.pc = "check", !.limit = Len(list)]
      /\ UNCHANGED <<stack, list, cookie, host>>
  BY DEF XferStart, XferAt, FilesInv, IndInv, TypeOK, XferType
<1>2. xfer'.pc = "check" /\ xfer'.index = 1 /\ xfer'.limit = Len(list)
  BY <1>1 DEF XferType
<1>3. \A i \in 1..Len(list) : ~(i < 1) BY DEF IndInv, TypeOK
<1>4. BehindYes' BY <1>1, <1>2, <1>3 DEF BehindYes, Pledged, Counting
<1>5. EndingYes' BY <1>2 DEF EndingYes, Ending
<1> QED BY <1>1, <1>2, <1>4, <1>5, FilesXfer

(* A file that is skipped has a Pause or a Cancel to explain it.           *)
LEMMA SkippedFor ==
  ASSUME IndInv, xfer.pc \in Before, ~StateRun
  PROVE  Interrupted
<1>1. Top(stack) \in {"Pause", "Cancel"}
  BY DEF IndInv, TopInv, Working, StateRun, IsValid
<1>2. Len(stack) \in 1..Len(stack) BY DEF IndInv, TypeOK, StackShape
<1> QED BY <1>1, <1>2 DEF Interrupted, Entered, Top

LEMMA FilesCheck == ASSUME IndInv, FilesInv, XferCheck PROVE FilesInv'
<1>1. xfer.pc = "check" /\ xfer \in XferType /\ UNCHANGED <<stack, list, cookie, host>>
  BY DEF XferCheck, XferAt, IndInv, TypeOK, XferType
<1>2. Interrupted' <=> Interrupted BY <1>1 DEF Interrupted, Entered
<1>3. Len(list) \in Nat /\ xfer.index \in Nat BY <1>1 DEF IndInv, TypeOK, XferType
<1>4. CASE AllTried /\ XferTo("store")
  <2>1. xfer'.pc = "store" BY <1>1, <1>4 DEF XferTo, XferType
  <2>2. ~Interrupted => AllYes
    BY <1>1, <1>3, <1>4 DEF FilesInv, BehindYes, Pledged, AllTried, AllYes, Moving
  <2>3. BehindYes' BY <2>1 DEF BehindYes, Pledged, Moving, Counting
  <2>4. EndingYes' BY <1>1, <1>2, <2>1, <2>2 DEF EndingYes, AllYes
  <2> QED BY <1>1, <2>1, <2>3, <2>4, FilesXfer
<1>5. CASE ~AllTried /\ StateRun /\ xfer' = [xfer EXCEPT !.pc = "copy", !.seg = 1, !.ok = TRUE]
  <2>1. /\ xfer'.pc = "copy" /\ xfer'.seg = 1
        /\ xfer'.index = xfer.index /\ xfer'.limit = xfer.limit
    BY <1>1, <1>5 DEF XferType
  <2>2. BehindYes' BY <1>1, <1>2, <2>1 DEF FilesInv, BehindYes, Pledged, Moving, Counting
  <2>3. EndingYes' BY <2>1 DEF EndingYes, Ending
  <2> QED BY <1>1, <2>1, <2>2, <2>3, FilesXfer
<1>6. CASE ~AllTried /\ ~StateRun /\ xfer' = [xfer EXCEPT !.index = @ + 1]
  <2>1. xfer'.pc = "check" BY <1>1, <1>6 DEF XferType
  <2>2. Interrupted BY <1>1, <1>6, SkippedFor DEF Before
  <2>3. BehindYes' BY <1>2, <2>2 DEF BehindYes, Pledged
  <2>4. EndingYes' BY <2>1 DEF EndingYes, Ending
  <2> QED BY <1>1, <2>1, <2>3, <2>4, FilesXfer
<1> QED BY <1>4, <1>5, <1>6 DEF XferCheck

(* The first part of a partial restore makes the pledge.                   *)
LEMMA FilesCopy == ASSUME IndInv, FilesInv, XferCopy PROVE FilesInv'
<1>1. /\ xfer.pc = "copy" /\ xfer \in XferType /\ UNCHANGED <<stack, cookie, host>>
      /\ Len(list) \in Nat /\ xfer.index \in Nat /\ list \in Seq(Flag)
  BY DEF XferCopy, XferAt, IndInv, TypeOK, XferType
<1>2. Interrupted' <=> Interrupted BY <1>1 DEF Interrupted, Entered
<1>3. ~Entered(stack, "Finish") BY <1>1, NotFinished DEF Before
<1>4. /\ xfer'.index = xfer.index /\ xfer'.limit = xfer.limit
      /\ \/ xfer'.pc = "statEnter" /\ (xfer'.ok => xfer.ok) /\ list' = Promised
         \/ xfer'.pc = "failSet"
  BY <1>1 DEF XferCopy, XferTo, XferType
<1>5. /\ Len(list') = Len(list)
      /\ \A i \in 1..Len(list) : list[i] = "yes" => list'[i] = "yes"
  BY <1>1 DEF XferCopy, Promised
<1>6. Partial /\ xfer.seg = 1 /\ list' = Promised
        => \A i \in 1..Len(list) : i = xfer.index => list'[i] = "yes"
  BY <1>1 DEF Promised
<1>7. BehindYes'
  BY <1>1, <1>2, <1>4, <1>5, <1>6 DEF FilesInv, BehindYes, Pledged, Moving, Counting
<1>8. EndingYes' /\ xfer'.pc # "start" BY <1>4 DEF EndingYes, Ending
<1> QED BY <1>1, <1>3, <1>7, <1>8, FilesXfer

LEMMA FilesEnter == ASSUME IndInv, FilesInv, XferEnter PROVE FilesInv'
<1>1. xfer \in XferType /\ UNCHANGED <<stack, list, cookie, host>>
  BY DEF XferEnter, IndInv, TypeOK, XferType
<1>2. Interrupted' <=> Interrupted BY <1>1 DEF Interrupted, Entered
<1>3. /\ xfer'.index = xfer.index /\ xfer'.limit = xfer.limit /\ xfer'.ok = xfer.ok
      /\ \/ xfer.pc = "statEnter" /\ xfer'.pc = "statBody"
         \/ xfer.pc = "cntEnter" /\ xfer'.pc = "cntBody"
         \/ xfer.pc = "endEnter" /\ xfer'.pc = "endBody"
  BY <1>1 DEF XferEnter, XferAt, XferTo, XferType
<1>4. BehindYes' BY <1>1, <1>2, <1>3 DEF FilesInv, BehindYes, Pledged, Moving, Counting
<1>5. EndingYes' /\ xfer'.pc # "start" BY <1>3 DEF EndingYes, Ending
<1> QED BY <1>1, <1>4, <1>5, FilesXfer

(* What a part does to the flags: a failed one takes the pledge back, the  *)
(* only part of a whole file settles it.                                   *)
LEMMA FlagSettled ==
  ASSUME IndInv, PartInv, XferStatus
  PROVE  /\ xfer.pc = "statBody" /\ xfer \in XferType /\ xfer.index \in Nat
         /\ xfer.ok \in BOOLEAN /\ Len(list) \in Nat /\ Len(list') = Len(list)
         /\ \A i \in 1..Len(list) : i # xfer.index => list'[i] = list[i]
         /\ xfer.ok => xfer.code = "NoError"
         /\ xfer.ok /\ Partial => list' = list
         /\ xfer.ok /\ ~Partial => \A i \in 1..Len(list) : i = xfer.index => list'[i] = "yes"
<1>1. /\ xfer.pc = "statBody" /\ xfer \in XferType /\ xfer.index \in Nat
      /\ xfer.ok \in BOOLEAN /\ Len(list) \in Nat /\ list \in Seq(Flag)
  BY DEF XferStatus, XferAt, IndInv, TypeOK, XferType
<1>2. xfer.ok => xfer.code = "NoError" BY <1>1 DEF PartInv
<1>3. list' = IF Partial /\ xfer.code = "NoError" THEN list
                ELSE [list EXCEPT ![xfer.index] = FileFlag]
  BY DEF XferStatus
<1>4. Len(list') = Len(list) /\ \A i \in 1..Len(list) : i # xfer.index => list'[i] = list[i]
  BY <1>1, <1>3
<1>5. xfer.ok /\ Partial => list' = list BY <1>2, <1>3
<1>6. xfer.ok /\ ~Partial => \A i \in 1..Len(list) : i = xfer.index => list'[i] = "yes"
  BY <1>1, <1>2, <1>3 DEF FileFlag
<1> QED BY <1>1, <1>2, <1>4, <1>5, <1>6

(* Where the thread goes from there.                                       *)
LEMMA PartDone ==
  ASSUME IndInv, XferStatus
  PROVE  /\ xfer'.index = xfer.index /\ xfer'.limit = xfer.limit /\ xfer'.ok = xfer.ok
         /\ \/ xfer'.pc = "copy" /\ xfer.seg < Segments /\ xfer'.seg = xfer.seg + 1
            \/ xfer'.pc = "cntEnter" /\ xfer.ok /\ xfer.seg = Segments
            \/ xfer'.pc = "failSet" /\ ~xfer.ok
<1>1. xfer \in XferType BY DEF IndInv, TypeOK, XferType
<1>2. CASE xfer.seg < Segments /\ xfer' = [xfer EXCEPT !.pc = "copy", !.seg = @ + 1]
  BY <1>1, <1>2 DEF XferType
<1>3. CASE (xfer.ok => xfer.seg = Segments) /\ XferTo(IF xfer.ok THEN "cntEnter" ELSE "failSet")
  BY <1>1, <1>3 DEF XferTo, XferType
<1> QED BY <1>2, <1>3 DEF XferStatus

LEMMA FilesStatus == ASSUME IndInv, PartInv, FilesInv, XferStatus PROVE FilesInv'
<1>1. xfer.pc = "statBody" /\ UNCHANGED <<stack, cookie, host>> BY FlagSettled DEF XferStatus
<1>2. Interrupted' <=> Interrupted BY <1>1 DEF Interrupted, Entered
<1>3. ~Entered(stack, "Finish") BY <1>1, NotFinished DEF Before
<1>4. BehindYes'
  BY <1>1, <1>2, FlagSettled, PartDone DEF FilesInv, BehindYes, Pledged, Moving, Counting
<1>5. EndingYes' /\ xfer'.pc # "start" BY PartDone DEF EndingYes, Ending
<1> QED BY <1>1, <1>3, <1>4, <1>5, FilesXfer

LEMMA FilesCount == ASSUME IndInv, FilesInv, XferCount PROVE FilesInv'
<1>1. /\ xfer.pc = "cntBody" /\ xfer \in XferType /\ UNCHANGED <<stack, list, cookie, host>>
      /\ Len(list) \in Nat /\ xfer.index \in Nat
  BY DEF XferCount, XferAt, IndInv, TypeOK, XferType
<1>2. Interrupted' <=> Interrupted BY <1>1 DEF Interrupted, Entered
<1>3. xfer'.pc = "check" /\ xfer'.index = xfer.index + 1 /\ xfer'.limit = xfer.limit
  BY <1>1 DEF XferCount, XferType
<1>4. \A i \in 1..Len(list) : i < xfer.index + 1 => i < xfer.index \/ i = xfer.index
  BY <1>1
<1>5. BehindYes' BY <1>1, <1>2, <1>3, <1>4 DEF FilesInv, BehindYes, Pledged, Moving, Counting
<1>6. EndingYes' BY <1>3 DEF EndingYes, Ending
<1> QED BY <1>1, <1>3, <1>5, <1>6, FilesXfer

LEMMA FilesFail == ASSUME IndInv, FilesInv, XferFail PROVE FilesInv'
<1>1. CASE xfer.pc = "failSet"
  <2>1. xfer'.pc = "failNull" BY <1>1, TypeXferTo DEF XferFail, XferAt, IndInv, XferPC
  <2>2. stack' = Append(stack, "None") /\ UNCHANGED <<list, cookie, host>> /\ suspends = 0
    BY <1>1 DEF XferFail, XferAt
  <2>3. host.pc # "actParse"
    BY <1>1, <2>2 DEF IndInv, PausedInv, Live, Starting
  <2> QED BY <2>1, <2>2, <2>3, FilesPush DEF RunState, Moving, Counting, Ending
<1>2. CASE xfer.pc = "failNull"
  <2>1. xfer'.pc = "dead" BY <1>2, TypeXferTo DEF XferFail, XferAt, IndInv, XferPC
  <2> QED BY <1>2, <2>1, FilesSame DEF XferFail, XferAt, Moving, Counting, Ending
<1> QED BY <1>1, <1>2 DEF XferFail, XferAt

(* The cookie lists what the flags say; none is left to chance.            *)
LEMMA FilesStore == ASSUME IndInv, FilesInv, XferStore PROVE FilesInv'
<1>1. xfer.pc = "store" /\ UNCHANGED <<stack, list, host>>
  BY DEF XferStore, XferAt
<1>2. xfer'.pc = "finCheck" BY TypeXferTo DEF XferStore, IndInv, XferPC
<1>3. Interrupted' <=> Interrupted BY <1>1 DEF Interrupted, Entered
<1>4. ~Entered(stack, "Finish") BY <1>1, NotFinished DEF Before
<1>5. AllYes => Unset = {} /\ Yes = 1..Len(list) BY DEF AllYes, Unset, Yes
<1>6. AllYes => ResultYes'
  <2>1. ASSUME AllYes, NEW g \in SUBSET Unset,
               cookie' = [tried |-> TRUE, made |-> TRUE, ok |-> Yes \cup g]
        PROVE  ResultYes'
    BY <1>1, <1>5, <2>1 DEF ResultYes
  <2>2. CASE cookie' = [cookie EXCEPT !.tried = TRUE, !.made = FALSE]
    BY <2>2 DEF ResultYes, IndInv, TypeOK
  <2> QED BY <2>1, <2>2 DEF XferStore
<1>7. ~Interrupted => AllYes BY <1>1 DEF FilesInv, EndingYes, Ending
<1>9. EndingYes' BY <1>1, <1>3, <1>6, <1>7 DEF EndingYes, AllYes
<1>10. BehindYes' BY <1>2 DEF BehindYes, Pledged, Moving, Counting
<1> QED BY <1>1, <1>2, <1>4, <1>9, <1>10, FilesXfer

LEMMA FilesFinish == ASSUME IndInv, FilesInv, XferFinish PROVE FilesInv'
<1>1. CASE xfer.pc = "finCheck"
  <2>1. xfer'.pc = "finPush" BY <1>1, FinishFollows DEF XferFinish, XferAt, IndInv, TypeOK
  <2>2. UNCHANGED <<stack, list, cookie, host>> BY <1>1 DEF XferFinish, XferAt
  <2>3. BehindYes' BY <2>1 DEF BehindYes, Pledged, Moving, Counting
  <2>4. EndingYes'
    BY <1>1, <2>1, <2>2 DEF FilesInv, EndingYes, ResultYes, Ending, AllYes, Interrupted, Entered
  <2> QED BY <2>1, <2>2, <2>3, <2>4, FilesXfer
<1>2. CASE xfer.pc = "finPush"
  <2>1. xfer'.pc = "endEnter" BY <1>2, TypeXferTo DEF XferFinish, XferAt, IndInv, XferPC
  <2>2. /\ stack' = Append(stack, "Finish") /\ UNCHANGED <<list, cookie, host>>
        /\ suspends = 0
    BY <1>2 DEF XferFinish, XferAt
  <2>3. host.pc # "actParse"
    BY <1>2, <2>2 DEF IndInv, PausedInv, Live, Starting
  <2>4. /\ Len(stack) \in Nat /\ Len(stack) >= 3
        /\ Len(stack') = Len(stack) + 1
        /\ \A i \in 1..Len(stack) : stack'[i] = stack[i]
    BY <2>2, Pushed DEF IndInv, TypeOK, StackShape, RunState
  <2>5. ~Explained' => ~Interrupted
    <3> SUFFICES ASSUME Interrupted PROVE Explained' OBVIOUS
    <3>1. PICK j \in 1..Len(stack) : stack[j] \in {"Pause", "Cancel"}
      BY DEF Interrupted, Entered
    <3>2. j \in 4..Len(stack) BY <2>4, <3>1 DEF IndInv, StackShape
    <3>3. stack'[j] = stack[j] /\ j \in 4..Len(stack') /\ j < Len(stack') BY <2>4, <3>2
    <3> QED BY <3>1, <3>3 DEF Explained
  <2>6. ~Interrupted => AllYes /\ ResultYes
    BY <1>2 DEF FilesInv, EndingYes, Ending
  <2>7. FinishedYes' BY <2>2, <2>5, <2>6 DEF FinishedYes, ResultYes, AllYes
  <2> QED BY <2>1, <2>2, <2>3, <2>7
          DEF FilesInv, BehindYes, EndingYes, Moving, Counting, Ending
<1> QED BY <1>1, <1>2 DEF XferFinish, XferAt

LEMMA FilesEnd == ASSUME IndInv, FilesInv, XferEnd PROVE FilesInv'
<1>1. xfer'.pc = "dead" BY TypeXferTo DEF XferEnd, IndInv, XferPC
<1> QED BY <1>1, FilesSame DEF XferEnd, Moving, Counting, Ending

LEMMA FilesNext == IndInv /\ PartInv /\ FilesInv /\ [Next]_vars => FilesInv'
<1> SUFFICES ASSUME IndInv, PartInv, FilesInv, [Next]_vars PROVE FilesInv' OBVIOUS
<1>1. ASSUME NEW op \in Calls, HostCall(op) PROVE FilesInv'
  <2>1. EntryPoint(op) \in {"actCheck", "pauseNull", "resumeNull", "cancelRead"}
    BY SessionAssumption DEF EntryPoint
  <2>2. host'.pc \notin Popping \cup {"actParse"} BY <1>1, <2>1 DEF HostCall, Popping
  <2> QED BY <1>1, <2>2, FilesSame DEF HostCall
<1>2. XferStep => FilesInv'
  BY FilesStart, FilesCheck, FilesCopy, FilesEnter, FilesStatus, FilesCount, FilesFail,
     FilesStore, FilesFinish, FilesEnd
  DEF XferStep
<1>3. HostOpen \/ PollCall \/ PollStep \/ UNCHANGED vars => FilesInv'
  BY FilesSame DEF HostOpen, PollCall, PollStep, vars
<1> QED BY <1>1, <1>2, <1>3, FilesHostStep DEF Next

LEMMA FilesAlways == Spec => []FilesInv
<1>1. Init => FilesInv
  <2> SUFFICES ASSUME Init PROVE FilesInv OBVIOUS
  <2>1. host.pc = "idle" /\ xfer.pc = "none" BY DEF Init, HostIdle, Thread
  <2>2. ~Entered(stack, "Finish") BY DEF Init, NewStack, Entered
  <2> QED BY <2>1, <2>2
          DEF FilesInv, BehindYes, EndingYes, FinishedYes,
              Moving, Counting, Ending
<1> QED BY <1>1, FilesNext, Inductive, PartAlways, PTL DEF Spec

(* A session that finishes with neither Pause nor Cancel on its stack has  *)
(* transferred every file, and its cookie, if one was made, says so.       *)
THEOREM FinishedIsComplete == Spec => []CompleteUnlessInterrupted
<1>1. FilesInv => CompleteUnlessInterrupted
  <2> SUFFICES ASSUME FilesInv, Entered(stack, "Finish"), ~Interrupted
               PROVE  Yes = 1..Len(list) /\ (cookie.made => cookie.ok = Yes)
    BY DEF CompleteUnlessInterrupted
  <2>1. ~Explained
    BY DEF Explained, Interrupted, Entered
  <2>2. AllYes /\ ResultYes BY <2>1 DEF FilesInv, FinishedYes
  <2> QED BY <2>2 DEF AllYes, ResultYes, Yes
<1> QED BY <1>1, FilesAlways, PTL

-----------------------------------------------------------------------------
(* Counters: m_Status for a host that does not pause                       *)

(* Places of a Pause, of a call it leaves something to do, and of a        *)
(* rollback.                                                               *)
PausePC == {"pauseNull", "pauseCheck", "pausePush", "suspend", "resumePush", "resume",
            "rollback", "cancelResume", "cancelSet"}

(* Where nothing is ever paused a session starts one thread.               *)
PlainInv ==
  /\ \A i \in 1..Len(stack) : stack[i] # "Pause"
  /\ host.pc \notin PausePC
  /\ host.pc = "actPush" => Len(stack) = 3
  /\ host.pc \in Starting => xfer.pc = "none" /\ Len(stack) >= 4
  /\ hnd \/ host.pc \in {"actAssign", "resumeCheck"} => xfer.pc # "none"
  /\ xfer.pc # "none" => Len(stack) >= 4

Copying == {"copy", "statEnter", "statBody"}

(* The thread is at a file of the list, and the files after it are not     *)
(* transferred yet; a restore of segments is ahead with the flag of its own.*)
IndexInv ==
  /\ xfer.pc \in Moving => xfer.index >= 1 /\ xfer.limit = Len(list)
  /\ xfer.pc \in Copying \cup Counting => xfer.index \in 1..Len(list)
  /\ xfer.pc \in Moving =>
       \A i \in 1..Len(list) :
         i > xfer.index \/ (i = xfer.index /\ xfer.pc = "check") => list[i] # "yes"
  /\ xfer.pc \in Counting \/ Pledged => list[xfer.index] = "yes"

(* Parts counted of a file that is not.                                    *)
Ahead == status.KBytes - status.NumFiles * Segments

AheadInv ==
  /\ Ahead \in 0..Segments
  /\ xfer.pc \in {"none", "start", "check"} => Ahead = 0
  /\ xfer.pc \in Copying => xfer.seg \in 1..Segments /\ Ahead < xfer.seg
                            /\ (xfer.ok => Ahead = xfer.seg - 1)
  /\ xfer.pc \in Counting => Ahead = Segments

FreshInv ==
  xfer.pc \in {"none", "start"} => \A i \in 1..Len(list) : list[i] # "yes"

CountInv == IndexInv /\ AheadInv /\ FreshInv /\ CountMatches

-----------------------------------------------------------------------------
(* A host that does not pause *)

(* The stack grows by Run, Cancel or an outcome.                           *)
LEMMA PlainStack ==
  ASSUME IndInv, PlainInv, NEW s \in {"Run", "Cancel", "Finish", "None"}, stack' = Append(stack, s)
  PROVE  /\ Len(stack) \in Nat /\ Len(stack') = Len(stack) + 1 /\ Len(stack') >= 4
         /\ \A i \in 1..Len(stack') : stack'[i] # "Pause"
<1>1. /\ Len(stack) \in Nat /\ Len(stack) >= 3 /\ Len(stack') = Len(stack) + 1
      /\ \A i \in 1..Len(stack) : stack'[i] = stack[i]
      /\ stack'[Len(stack) + 1] = s
  BY Pushed DEF IndInv, TypeOK, StackShape, RunState
<1> QED BY <1>1 DEF PlainInv

(* The host goes on to a place that needs nothing of stack and thread.     *)
LEMMA PlainSame ==
  ASSUME PlainInv, UNCHANGED <<stack, hnd>>, UNCHANGED xfer \/ (xfer.pc # "none" /\ xfer'.pc # "none"),
         \/ UNCHANGED host
         \/ host'.pc \notin PausePC \cup Starting \cup {"actPush", "actAssign", "resumeCheck"}
  PROVE  PlainInv'
BY DEF PlainInv

(* Without a Pause the table refuses Run to all but the first Action.      *)
LEMMA PlainRefuses ==
  ASSUME IndInv, PlainInv, IsTransitionValid(stack, "Run")
  PROVE  Len(stack) = 3
<1>1. Top(stack) \in {"Create", "Pause"} /\ (Top(stack) = "Create" => Len(stack) = 3)
  BY RunAccepted
<1>2. Len(stack) \in 1..Len(stack) BY DEF IndInv, TypeOK, StackShape
<1>3. Top(stack) # "Pause" BY <1>2 DEF PlainInv, Top
<1> QED BY <1>1, <1>3

LEMMA PlainActionSetState == ASSUME IndInv, PlainInv, ActionSetState PROVE PlainInv'
<1>a. TypeOK BY DEF IndInv
<1>1. CASE HostTest("actCheck", "Run", "actPush")
  <2>1. host'.pc = "actPush" /\ UNCHANGED <<stack, hnd, xfer>>
    BY <1>a, <1>1, TypeHostTo DEF HostTest, HostPC
  <2>2. Len(stack) = 3 BY <1>1, PlainRefuses DEF HostTest
  <2> QED BY <2>1, <2>2 DEF PlainInv, PausePC, Starting
<1>2. CASE HostRefuse("actCheck", "Run")
  <2>1. host'.pc \in {"idle", "cancelRead", "delete"} /\ UNCHANGED <<stack, hnd, xfer>>
    BY <1>a, <1>2, TypeHostReturn DEF HostRefuse
  <2> QED BY <2>1, PlainSame DEF PausePC, Starting
<1>3. CASE HostPush("actPush", "Run") /\ HostTo("actParse")
  <2>1. host.pc = "actPush" /\ host'.pc = "actParse" /\ UNCHANGED <<hnd, xfer>>
    BY <1>a, <1>3, TypeHostTo DEF HostPush, HostPC
  <2>2. Len(stack') >= 4 /\ \A i \in 1..Len(stack') : stack'[i] # "Pause"
    BY <1>3, PlainStack DEF HostPush
  <2>3. Len(stack) = 3 BY <2>1 DEF PlainInv
  <2>4. ~(3 >= 4) OBVIOUS
  <2>5. xfer.pc = "none" BY <2>3, <2>4 DEF PlainInv
  <2> QED BY <2>1, <2>2, <2>5 DEF PlainInv, PausePC, Starting
<1> QED BY <1>1, <1>2, <1>3 DEF ActionSetState

(* A rollback of the parser's takes the Run away that Action has entered.  *)
LEMMA PlainParse == ASSUME IndInv, PlainInv, ActionParse PROVE PlainInv'
<1>a. TypeOK BY DEF IndInv
<1>1. host.pc = "actParse" /\ xfer.pc = "none" /\ ~hnd /\ Len(stack) >= 4
      /\ UNCHANGED <<hnd, xfer>>
  BY DEF ActionParse, PlainInv, Starting
<1>2. CASE UNCHANGED stack /\ host'.pc = "actEnter"
  BY <1>1, <1>2 DEF PlainInv, PausePC, Starting
<1>3. CASE UNCHANGED stack /\ host'.pc = "stEnter"
  BY <1>1, <1>3, PlainSame DEF PausePC, Starting
<1>4. CASE stack' = RollBackState(stack) /\ host'.pc = "stEnter"
  <2>1. /\ Len(stack) \in Nat /\ Len(stack') = Len(stack) - 1
        /\ \A i \in 1..(Len(stack) - 1) : stack'[i] = stack[i]
    BY <1>1, <1>4, Popped DEF IndInv, TypeOK
  <2>2. \A i \in 1..Len(stack') : stack'[i] # "Pause" BY <2>1 DEF PlainInv
  <2> QED BY <1>1, <1>4, <2>2 DEF PlainInv, PausePC, Starting
<1>5. HostTo("actEnter") => host'.pc = "actEnter" BY <1>a, TypeHostTo DEF HostPC
<1>6. HostReport("InternalError") => host'.pc = "stEnter" BY <1>a, TypeHostReport DEF Codes
<1> QED BY <1>2, <1>3, <1>4, <1>5, <1>6 DEF ActionParse

LEMMA PlainStart ==
  ASSUME IndInv, PlainInv, ActionEnter \/ ActionSize \/ ActionBegin \/ ActionAssign
  PROVE  PlainInv'
<1>a. TypeOK BY DEF IndInv
<1>1. CASE ActionEnter \/ ActionSize
  <2>1. host.pc \in Starting /\ host'.pc \in {"actSize", "actBegin"} /\ UNCHANGED <<stack, hnd, xfer>>
    BY <1>a, <1>1, TypeHostTo DEF ActionEnter, ActionSize, Starting, HostPC
  <2> QED BY <2>1 DEF PlainInv, PausePC, Starting
<1>2. CASE ActionBegin
  <2>1. host.pc = "actBegin" /\ xfer.pc = "none" /\ ~hnd /\ Len(stack) >= 4
    BY <1>2 DEF ActionBegin, PlainInv, Starting
  <2>2. host'.pc = "actAssign" /\ xfer'.pc = "start" /\ UNCHANGED <<stack, hnd>>
    BY <1>a, <1>2, <2>1, TypeHostTo DEF ActionBegin, HostPC, Thread
  <2> QED BY <2>1, <2>2 DEF PlainInv, PausePC, Starting
<1>3. CASE ActionAssign
  <2>1. xfer.pc # "none" /\ UNCHANGED <<stack, xfer>> /\ host'.pc \in {"idle", "cancelRead", "delete"}
    BY <1>a, <1>3, TypeHostReturn DEF ActionAssign, PlainInv
  <2> QED BY <2>1 DEF PlainInv, PausePC, Starting
<1> QED BY <1>1, <1>2, <1>3

(* Resume, alone or in Close, finds nothing to resume.                     *)
LEMMA PlainResume == ASSUME IndInv, PlainInv, ResumeSetState PROVE PlainInv'
<1>a. TypeOK BY DEF IndInv
<1>1. CASE NullTest("resumeNull", "resumeCheck")
  <2>1. CASE hnd /\ HostTo("resumeCheck")
    <3>1. host'.pc = "resumeCheck" BY <1>a, <2>1, TypeHostTo DEF HostPC
    <3> QED BY <1>1, <2>1, <3>1 DEF NullTest, PlainInv, PausePC, Starting
  <2>2. CASE HostReturn
    <3>1. host'.pc \in {"idle", "cancelRead", "delete"} BY <1>a, <2>2, TypeHostReturn
    <3> QED BY <1>1, <3>1, PlainSame DEF NullTest, PausePC, Starting
  <2> QED BY <1>1, <2>1, <2>2 DEF NullTest
<1>2. CASE HostTest("resumeCheck", "Run", "resumePush")
  <2>1. Len(stack) = 3 /\ Len(stack) >= 4 BY <1>2, PlainRefuses DEF HostTest, PlainInv
  <2>2. ~(3 >= 4) OBVIOUS
  <2> QED BY <2>1, <2>2
<1>3. CASE HostRefuse("resumeCheck", "Run")
  <2>1. host'.pc \in {"idle", "cancelRead", "delete"} /\ UNCHANGED <<stack, hnd, xfer>>
    BY <1>a, <1>3, TypeHostReturn DEF HostRefuse
  <2> QED BY <2>1, PlainSame DEF PausePC, Starting
<1>4. CASE HostPush("resumePush", "Run") BY <1>4 DEF HostPush, PlainInv, PausePC
<1> QED BY <1>1, <1>2, <1>3, <1>4 DEF ResumeSetState

LEMMA PlainCancel ==
  ASSUME IndInv, PlainInv, CancelRead \/ CancelSetState \/ CancelWhy \/ CancelPaused
  PROVE  PlainInv'
<1>a. TypeOK BY DEF IndInv
<1>1. CASE CancelRead
  <2>1. Len(stack) \in 1..Len(stack) BY DEF IndInv, TypeOK, StackShape
  <2>2. ~IsValid(stack, "Pause") BY <2>1 DEF PlainInv, IsValid, Top
  <2>3. host'.pc = "cancelCheck" BY <1>a, <1>1, <2>2, TypeHostTo DEF CancelRead, HostPC
  <2> QED BY <1>1, <2>3, PlainSame DEF CancelRead, PausePC, Starting
<1>2. CASE CancelSetState
  <2>1. CASE HostPush("cancelPush", "Cancel") /\ HostReport("NoError")
    <3>1. host'.pc = "stEnter" /\ UNCHANGED <<hnd, xfer>>
      BY <1>a, <2>1, TypeHostReport DEF HostPush, Codes
    <3>2. Len(stack') >= 4 /\ \A i \in 1..Len(stack') : stack'[i] # "Pause"
      BY <2>1, PlainStack DEF HostPush
    <3> QED BY <3>1, <3>2 DEF PlainInv, PausePC, Starting
  <2>2. CASE UNCHANGED <<stack, hnd, xfer>> /\ (HostTo("cancelPush") \/ HostTo("cancelWhy"))
    <3>1. host'.pc \in {"cancelPush", "cancelWhy"} BY <1>a, <2>2, TypeHostTo DEF HostPC
    <3> QED BY <2>2, <3>1, PlainSame DEF PausePC, Starting
  <2> QED BY <1>2, <2>1, <2>2 DEF CancelSetState, HostTest
<1>3. CASE CancelWhy
  <2>1. host'.pc = "stEnter" BY <1>a, <1>3, TypeHostReport DEF CancelWhy, Codes
  <2> QED BY <1>3, <2>1, PlainSame DEF CancelWhy, PausePC, Starting
<1>4. CASE CancelPaused BY <1>4 DEF CancelPaused, HostTest, PlainInv, PausePC
<1> QED BY <1>1, <1>2, <1>3, <1>4

LEMMA PlainHostStep == IndInv /\ PlainInv /\ HostStep => PlainInv'
<1> SUFFICES ASSUME IndInv, PlainInv, HostStep PROVE PlainInv' OBVIOUS
<1>a. TypeOK BY DEF IndInv
<1>1. ~PauseSetState /\ ~PauseSuspend /\ ~ResumeResume /\ ~Rollback
  BY DEF PauseSetState, NullTest, HostTest, HostRefuse, HostPush, PauseSuspend, ResumeResume,
         Rollback, PlainInv, PausePC
<1>2. HostStatusEnter => PlainInv'
  <2>1. HostStatusEnter => host'.pc = "stBody" BY <1>a, TypeHostTo DEF HostStatusEnter, HostPC
  <2> QED BY <2>1, PlainSame DEF HostStatusEnter, PausePC, Starting
<1>3. HostStatusBody => PlainInv'
  <2>1. HostStatusBody => host'.pc \in {"idle", "cancelRead", "delete"}
    BY <1>a, TypeHostReturn DEF HostStatusBody
  <2> QED BY <2>1, PlainSame DEF HostStatusBody, PausePC, Starting
<1>4. HostDelete => PlainInv' BY PlainSame DEF HostDelete, HostIdle, PausePC, Starting
<1> QED
  BY <1>1, <1>2, <1>3, <1>4, PlainActionSetState, PlainParse, PlainStart, PlainResume, PlainCancel
  DEF HostStep

(* A thread never goes back to "none".                                     *)
LEMMA XferGoesOn ==
  ASSUME IndInv, XferStep
  PROVE  xfer.pc # "none" /\ xfer'.pc \notin {"none", "start"} /\ UNCHANGED host
<1>a. xfer \in XferType BY DEF IndInv, TypeOK, XferType
<1>1. XferStart \/ XferCheck \/ XferCopy \/ XferEnter \/ XferStatus
        => xfer.pc # "none" /\ xfer'.pc \notin {"none", "start"} /\ UNCHANGED host
  BY <1>a DEF XferStart, XferCheck, XferCopy, XferEnter, XferStatus, XferAt, XferTo, XferType
<1>2. XferCount \/ XferFail \/ XferStore \/ XferFinish \/ XferEnd
        => xfer.pc # "none" /\ xfer'.pc \notin {"none", "start"} /\ UNCHANGED host
  BY <1>a DEF XferCount, XferFail, XferStore, XferFinish, XferEnd, XferAt, XferTo, XferType
<1> QED BY <1>1, <1>2 DEF XferStep

LEMMA PlainXferStep == ASSUME IndInv, PlainInv, XferStep PROVE PlainInv'
<1>1. xfer.pc # "none" /\ xfer'.pc \notin {"none", "start"} /\ UNCHANGED host BY XferGoesOn
<1>2. CASE UNCHANGED <<stack, hnd>> BY <1>1, <1>2, PlainSame
<1>3. CASE UNCHANGED stack /\ ~hnd'
  BY <1>1, <1>3 DEF PlainInv
<1>4. ASSUME NEW s \in {"None", "Finish"}, stack' = Append(stack, s), UNCHANGED hnd PROVE PlainInv'
  <2>1. Len(stack') >= 4 /\ \A i \in 1..Len(stack') : stack'[i] # "Pause"
    BY <1>4, PlainStack
  <2>2. host.pc # "actPush" BY <1>1 DEF PlainInv
  <2> QED BY <1>1, <1>4, <2>1, <2>2 DEF PlainInv
<1>5. XferStart \/ XferCheck \/ XferCopy \/ XferEnter \/ XferStatus => PlainInv'
  BY <1>2 DEF XferStart, XferCheck, XferCopy, XferEnter, XferStatus
<1>6. XferCount \/ XferFail \/ XferStore \/ XferFinish \/ XferEnd => PlainInv'
  BY <1>2, <1>3, <1>4 DEF XferCount, XferFail, XferStore, XferFinish, XferEnd
<1> QED BY <1>5, <1>6 DEF XferStep

LEMMA PlainNext ==
  ASSUME "Pause" \notin Calls, IndInv, PlainInv, [Next]_vars
  PROVE  PlainInv'
<1>1. ASSUME NEW op \in Calls, HostCall(op) PROVE PlainInv'
  <2>1. EntryPoint(op) \in {"actCheck", "resumeNull", "cancelRead"}
    BY SessionAssumption DEF EntryPoint
  <2>2. host'.pc \in {"actCheck", "resumeNull", "cancelRead"} BY <1>1, <2>1 DEF HostCall
  <2> QED BY <1>1, <2>2, PlainSame DEF HostCall, PausePC, Starting
<1>2. HostOpen \/ PollCall \/ PollStep \/ UNCHANGED vars => PlainInv'
  BY PlainSame DEF HostOpen, PollCall, PollStep, vars
<1> QED BY <1>1, <1>2, PlainHostStep, PlainXferStep DEF Next

-----------------------------------------------------------------------------
(* The counters *)

(* One more file counted takes its parts out of what is ahead.             *)
LEMMA OneMore ==
  ASSUME NEW n \in Nat
  PROVE  n * Segments \in Nat /\ (n + 1) * Segments = n * Segments + Segments
<1>1. Segments \in Nat BY SessionAssumption
<1> QED BY <1>1

(* The files NumFilesXfer stands for, one of them more when the one at     *)
(* hand is done.                                                           *)
Done == Yes \ {xfer.index}

LEMMA DoneFinite ==
  ASSUME TypeOK
  PROVE  IsFiniteSet(Done) /\ Cardinality(Done) \in Nat
<1>1. Len(list) \in Int BY DEF TypeOK
<1>2. IsFiniteSet(1..Len(list)) BY <1>1, FS_Interval
<1>3. IsFiniteSet(Done) BY <1>2, FS_Subset DEF Yes, Done
<1> QED BY <1>3, FS_CardinalityType

(* The file at hand stays the same, and only its flag may change.          *)
LEMMA DoneSame ==
  ASSUME CountMatches, xfer'.index = xfer.index, Len(list') = Len(list),
         \A i \in 1..Len(list) : i # xfer.index => list'[i] = list[i],
         status'.NumFiles = status.NumFiles
  PROVE  CountMatches'
<1>1. Done' = Done BY DEF Done, Yes
<1> QED BY <1>1 DEF CountMatches, Done

(* Flags, figures and thread stay.                                         *)
LEMMA CountSame ==
  ASSUME CountInv, UNCHANGED <<list, xfer>>,
         status'.NumFiles = status.NumFiles, status'.KBytes = status.KBytes
  PROVE  CountInv'
<1>1. IndexInv' BY DEF CountInv, IndexInv, Pledged
<1>2. AheadInv' BY DEF CountInv, AheadInv, Ahead
<1>3. FreshInv' BY DEF CountInv, FreshInv
<1>4. CountMatches' BY DEF CountInv, CountMatches, Yes
<1> QED BY <1>1, <1>2, <1>3, <1>4 DEF CountInv

(* What SetStatus does to the two figures.                                 *)
LEMMA Figures ==
  ASSUME TypeOK, NEW c, NEW n \in Nat
  PROVE  /\ NewStatus(c, n).NumFiles = status.NumFiles
         /\ NewStatus(c, n).KBytes = status.KBytes + n
         /\ n = 0 => NewStatus(c, n).KBytes = status.KBytes
         /\ status.NumFiles \in Nat /\ status.KBytes \in Nat
BY DEF TypeOK, NewStatus

(* Of the calls only Action touches list or thread, before there is one.   *)
LEMMA CountParse == ASSUME IndInv, PlainInv, CountInv, ActionParse PROVE CountInv'
<1>1. host.pc = "actParse" /\ UNCHANGED <<xfer, status>> BY DEF ActionParse
<1>2. xfer.pc = "none" BY <1>1 DEF PlainInv, Starting
<1>3. PICK n \in 0..NumFiles :
        list' = [i \in 1..(Len(list) + n) |-> IF i <= Len(list) THEN list[i] ELSE "unset"]
  BY DEF ActionParse
<1>4. Len(list) + n \in Nat BY <1>3, SessionAssumption DEF IndInv, TypeOK
<1>5. Len(list') = Len(list) + n BY <1>3, <1>4
<1>6. \A i \in 1..Len(list') : list'[i] # "yes"
  BY <1>2, <1>3, <1>5 DEF CountInv, FreshInv
<1>7. Yes = {} /\ Yes' = {} BY <1>2, <1>6 DEF CountInv, FreshInv, Yes
<1>8. CountMatches' BY <1>1, <1>7 DEF CountInv, CountMatches
<1>9. IndexInv' BY <1>1, <1>2 DEF IndexInv, Moving, Copying, Counting, Pledged
<1>10. AheadInv' BY <1>1 DEF CountInv, AheadInv, Ahead
<1> QED BY <1>6, <1>8, <1>9, <1>10 DEF CountInv, FreshInv

LEMMA CountBegin == ASSUME IndInv, PlainInv, CountInv, ActionBegin PROVE CountInv'
<1>1. xfer.pc = "none" /\ UNCHANGED <<list, status>> BY DEF ActionBegin, PlainInv, Starting
<1>2. CASE UNCHANGED xfer BY <1>1, <1>2, CountSame
<1>3. CASE xfer' = Thread("start")
  <2>1. xfer'.pc = "start" BY <1>3 DEF Thread
  <2>2. IndexInv' BY <2>1 DEF IndexInv, Moving, Copying, Counting, Pledged
  <2>3. AheadInv' BY <1>1, <2>1 DEF CountInv, AheadInv, Ahead, Copying, Counting
  <2>4. FreshInv' BY <1>1 DEF CountInv, FreshInv
  <2>5. Yes = {} /\ Yes' = {} BY <1>1 DEF CountInv, FreshInv, Yes
  <2>6. CountMatches' BY <1>1, <2>5 DEF CountInv, CountMatches
  <2> QED BY <2>2, <2>3, <2>4, <2>6 DEF CountInv
<1> QED BY <1>2, <1>3 DEF ActionBegin

LEMMA CountHostStep == IndInv /\ PlainInv /\ CountInv /\ HostStep => CountInv'
<1> SUFFICES ASSUME IndInv, PlainInv, CountInv, HostStep PROVE CountInv' OBVIOUS
<1>a. TypeOK BY DEF IndInv
<1>b. UNCHANGED <<list, xfer, status>> => CountInv' BY CountSame
<1>1. ActionSetState \/ ActionEnter \/ ActionAssign => CountInv'
  BY <1>b DEF ActionSetState, HostTest, HostRefuse, HostPush, ActionEnter, ActionAssign
<1>2. ActionSize => CountInv'
  <2>1. ActionSize => /\ UNCHANGED <<list, xfer>>
                      /\ status'.NumFiles = status.NumFiles /\ status'.KBytes = status.KBytes
    BY <1>a DEF ActionSize, NewStatus, TypeOK
  <2> QED BY <2>1, CountSame
<1>3. PauseSetState \/ PauseSuspend \/ ResumeSetState \/ ResumeResume \/ Rollback => CountInv'
  BY <1>b DEF PauseSetState, NullTest, HostTest, HostRefuse, HostPush, PauseSuspend,
              ResumeSetState, ResumeResume, Rollback
<1>4. CancelRead \/ CancelSetState \/ CancelWhy \/ CancelPaused => CountInv'
  BY <1>b DEF CancelRead, CancelSetState, HostTest, HostPush, CancelWhy, CancelPaused
<1>5. HostStatusEnter \/ HostDelete => CountInv' BY <1>b DEF HostStatusEnter, HostDelete
<1>6. HostStatusBody => CountInv' BY <1>a, Figures, CountSame DEF HostStatusBody
<1> QED BY <1>1, <1>2, <1>3, <1>4, <1>5, <1>6, CountParse, CountBegin DEF HostStep

(* The thread starts at the first file, with nothing counted.              *)
LEMMA CountStart == ASSUME IndInv, FilesInv, CountInv, XferStart PROVE CountInv'
<1>1. /\ xfer.pc = "start" /\ xfer.index = 1 /\ xfer \in XferType
      /\ xfer' = [xfer EXCEPT !.pc = "check", !.limit = Len(list)]
      /\ UNCHANGED <<list, status>>
  BY DEF XferStart, XferAt, FilesInv, IndInv, TypeOK, XferType
<1>2. xfer'.pc = "check" /\ xfer'.index = 1 /\ xfer'.limit = Len(list)
  BY <1>1 DEF XferType
<1>3. IndexInv' BY <1>1, <1>2 DEF CountInv, FreshInv, IndexInv, Copying, Counting, Pledged
<1>4. AheadInv' BY <1>1, <1>2 DEF CountInv, AheadInv, Ahead, Copying, Counting
<1>5. FreshInv' BY <1>2 DEF FreshInv
<1>6. CountMatches' BY <1>1, <1>2, DoneSame DEF CountInv
<1> QED BY <1>3, <1>4, <1>5, <1>6 DEF CountInv

LEMMA CountCheck == ASSUME IndInv, CountInv, XferCheck PROVE CountInv'
<1>1. xfer.pc = "check" /\ xfer \in XferType /\ UNCHANGED <<list, status>>
  BY DEF XferCheck, XferAt, IndInv, TypeOK, XferType
<1>2. /\ xfer.index \in Nat /\ xfer.index >= 1 /\ xfer.limit = Len(list) /\ Len(list) \in Nat
      /\ \A i \in 1..Len(list) : i >= xfer.index => list[i] # "yes"
  BY <1>1 DEF CountInv, IndexInv, Moving, Counting, IndInv, TypeOK, XferType
<1>3. Ahead = 0 /\ Ahead' = Ahead /\ Ahead \in 0..Segments
  BY <1>1 DEF CountInv, AheadInv, Ahead
<1>4. Segments \in Nat /\ Segments >= 1 BY SessionAssumption
<1>5. CASE AllTried /\ XferTo("store")
  <2>1. xfer'.pc = "store" /\ xfer'.index = xfer.index BY <1>1, <1>5 DEF XferTo, XferType
  <2>2. IndexInv' /\ FreshInv' BY <2>1 DEF IndexInv, FreshInv, Moving, Copying, Counting, Pledged
  <2>3. AheadInv' BY <1>3, <2>1 DEF AheadInv, Copying, Counting
  <2>4. CountMatches' BY <1>1, <2>1, DoneSame DEF CountInv
  <2> QED BY <2>2, <2>3, <2>4 DEF CountInv
<1>6. CASE ~AllTried /\ StateRun /\ xfer' = [xfer EXCEPT !.pc = "copy", !.seg = 1, !.ok = TRUE]
  <2>1. /\ xfer'.pc = "copy" /\ xfer'.index = xfer.index /\ xfer'.limit = xfer.limit
        /\ xfer'.seg = 1 /\ xfer'.ok
    BY <1>1, <1>6 DEF XferType
  <2>2. xfer.index \in 1..Len(list) BY <1>2, <1>6 DEF AllTried
  <2>3. IndexInv' BY <1>1, <1>2, <2>1, <2>2 DEF IndexInv, Counting, Pledged
  <2>4. AheadInv' BY <1>3, <1>4, <2>1 DEF AheadInv, Copying, Counting
  <2>5. CountMatches' BY <1>1, <2>1, DoneSame DEF CountInv
  <2> QED BY <2>1, <2>3, <2>4, <2>5 DEF CountInv, FreshInv
<1>7. CASE ~AllTried /\ ~StateRun /\ xfer' = [xfer EXCEPT !.index = @ + 1]
  <2>1. xfer'.pc = "check" /\ xfer'.index = xfer.index + 1 /\ xfer'.limit = xfer.limit
    BY <1>1, <1>7 DEF XferType
  <2>2. IndexInv' BY <1>1, <1>2, <2>1 DEF IndexInv, Copying, Counting, Pledged
  <2>3. AheadInv' BY <1>3, <2>1 DEF AheadInv, Copying, Counting
  <2>4. xfer.index \notin Yes /\ xfer'.index \notin Yes /\ Yes' = Yes BY <1>1, <1>2, <2>1 DEF Yes
  <2>5. Yes' \ {xfer'.index} = Yes \ {xfer.index} BY <2>4
  <2>6. CountMatches' BY <1>1, <2>5 DEF CountInv, CountMatches
  <2> QED BY <2>1, <2>2, <2>3, <2>6 DEF CountInv, FreshInv
<1> QED BY <1>5, <1>6, <1>7 DEF XferCheck

LEMMA CountCopy == ASSUME IndInv, CountInv, XferCopy PROVE CountInv'
<1>1. /\ xfer.pc = "copy" /\ xfer \in XferType /\ UNCHANGED status
      /\ Len(list) \in Nat /\ list \in Seq(Flag)
  BY DEF XferCopy, XferAt, IndInv, TypeOK, XferType
<1>2. /\ xfer'.index = xfer.index /\ xfer'.limit = xfer.limit /\ xfer'.seg = xfer.seg
      /\ \/ xfer'.pc = "statEnter" /\ (xfer'.ok => xfer.ok) /\ list' = Promised
         \/ xfer'.pc = "failSet"
  BY <1>1 DEF XferCopy, XferTo, XferType
<1>3. xfer.index \in 1..Len(list) BY <1>1 DEF CountInv, IndexInv, Copying
<1>4. /\ Len(list') = Len(list)
      /\ \A i \in 1..Len(list) : i # xfer.index => list'[i] = list[i]
      /\ list[xfer.index] = "yes" => list'[xfer.index] = "yes"
  BY <1>1, <1>3 DEF XferCopy, Promised
<1>5. Partial /\ xfer.seg = 1 /\ list' = Promised => list'[xfer.index] = "yes"
  BY <1>1, <1>3 DEF Promised
<1>6. IndexInv'
  BY <1>1, <1>2, <1>3, <1>4, <1>5 DEF CountInv, IndexInv, Moving, Copying, Counting, Pledged
<1>7. AheadInv' BY <1>1, <1>2 DEF CountInv, AheadInv, Ahead, Copying, Counting
<1>8. FreshInv' BY <1>2 DEF FreshInv
<1>9. CountMatches' BY <1>1, <1>2, <1>4, DoneSame DEF CountInv
<1> QED BY <1>6, <1>7, <1>8, <1>9 DEF CountInv

LEMMA CountEnter == ASSUME IndInv, CountInv, XferEnter PROVE CountInv'
<1>1. xfer \in XferType /\ UNCHANGED <<list, status>>
  BY DEF XferEnter, IndInv, TypeOK, XferType
<1>2. /\ xfer'.index = xfer.index /\ xfer'.limit = xfer.limit /\ xfer'.seg = xfer.seg
      /\ xfer'.ok = xfer.ok
      /\ \/ xfer.pc = "statEnter" /\ xfer'.pc = "statBody"
         \/ xfer.pc = "cntEnter" /\ xfer'.pc = "cntBody"
         \/ xfer.pc = "endEnter" /\ xfer'.pc = "endBody"
  BY <1>1 DEF XferEnter, XferAt, XferTo, XferType
<1>3. IndexInv' BY <1>1, <1>2 DEF CountInv, IndexInv, Moving, Copying, Counting, Pledged
<1>4. AheadInv' BY <1>1, <1>2 DEF CountInv, AheadInv, Ahead, Copying, Counting
<1>5. FreshInv' BY <1>2 DEF FreshInv
<1>6. CountMatches' BY <1>1, <1>2, DoneSame DEF CountInv
<1> QED BY <1>3, <1>4, <1>5, <1>6 DEF CountInv

(* A part is counted if it came through.                                   *)
LEMMA CountStatus == ASSUME IndInv, PartInv, CountInv, XferStatus PROVE CountInv'
<1>1. xfer.pc = "statBody" /\ xfer.ok \in BOOLEAN /\ Len(list) \in Nat BY FlagSettled
<1>2. xfer.index \in 1..Len(list) /\ xfer.limit = Len(list) /\ xfer.index >= 1
  BY <1>1 DEF CountInv, IndexInv, Moving, Copying
<1>3. /\ Ahead \in Int /\ Ahead >= 0 /\ xfer.seg \in 1..Segments /\ Ahead < xfer.seg
      /\ xfer.ok => Ahead = xfer.seg - 1 /\ xfer.code = "NoError"
  <2>1. xfer.ok => xfer.code = "NoError" BY FlagSettled
  <2> QED BY <1>1, <2>1 DEF CountInv, AheadInv, Copying
<1>4. Segments \in Nat /\ Segments >= 1 BY SessionAssumption
<1> DEFINE moved == IF xfer.code = "NoError" THEN 1 ELSE 0
<1>5. status'.NumFiles = status.NumFiles /\ status'.KBytes = status.KBytes + moved
      /\ status.NumFiles \in Nat /\ status.KBytes \in Nat
  <2>1. moved \in Nat OBVIOUS
  <2>2. TypeOK BY DEF IndInv
  <2> HIDE DEF moved
  <2>3. status' = NewStatus(xfer.code, moved) BY DEF XferStatus, moved
  <2> QED BY <2>1, <2>2, <2>3, Figures
<1>6. Ahead' = Ahead + moved BY <1>5, <1>4, OneMore DEF Ahead
<1>7. /\ Ahead' \in 0..Segments /\ Ahead' <= xfer.seg
      /\ xfer.ok => Ahead' = xfer.seg
  BY <1>3, <1>4, <1>6
<1> HIDE DEF moved
<1>8. /\ xfer'.index = xfer.index /\ xfer'.limit = xfer.limit /\ xfer'.ok = xfer.ok
      /\ \/ xfer'.pc = "copy" /\ xfer.seg < Segments /\ xfer'.seg = xfer.seg + 1
         \/ xfer'.pc = "cntEnter" /\ xfer.ok /\ xfer.seg = Segments
         \/ xfer'.pc = "failSet" /\ ~xfer.ok
  BY PartDone
<1>9. AheadInv'
  <2>1. xfer'.pc = "copy" => xfer'.seg \in 1..Segments /\ Ahead' < xfer'.seg
                             /\ (xfer'.ok => Ahead' = xfer'.seg - 1)
    BY <1>3, <1>4, <1>7, <1>8
  <2>2. xfer'.pc = "cntEnter" => Ahead' = Segments BY <1>7, <1>8
  <2> QED BY <1>7, <1>8, <2>1, <2>2 DEF AheadInv, Copying, Counting
<1>10. /\ Len(list') = Len(list)
       /\ \A i \in 1..Len(list) : i # xfer.index => list'[i] = list[i]
       /\ xfer.ok /\ Partial => list' = list
       /\ xfer.ok /\ ~Partial => \A i \in 1..Len(list) : i = xfer.index => list'[i] = "yes"
  BY FlagSettled
<1>11. xfer.ok => list'[xfer.index] = "yes"
  <2>1. xfer.ok /\ Partial => list[xfer.index] = "yes"
    BY <1>1 DEF CountInv, IndexInv, Pledged
  <2> QED BY <1>2, <1>10, <2>1
<1>12. IndexInv'
  <2>1. \A i \in 1..Len(list) : i > xfer.index => list'[i] # "yes"
    BY <1>1, <1>2, <1>10 DEF CountInv, IndexInv, Moving, Copying
  <2> QED BY <1>1, <1>2, <1>8, <1>10, <1>11, <2>1
          DEF IndexInv, Moving, Copying, Counting, Pledged
<1>13. CountMatches' BY <1>5, <1>8, <1>10, DoneSame DEF CountInv
<1>14. FreshInv' BY <1>8 DEF FreshInv
<1> QED BY <1>9, <1>12, <1>13, <1>14 DEF CountInv

(* The file is counted, and its parts are no longer ahead.                 *)
LEMMA CountCount == ASSUME IndInv, CountInv, XferCount PROVE CountInv'
<1>1. /\ xfer.pc = "cntBody" /\ xfer \in XferType /\ UNCHANGED list /\ Len(list) \in Nat
      /\ xfer' = [xfer EXCEPT !.pc = "check", !.index = @ + 1]
  BY DEF XferCount, XferAt, IndInv, TypeOK, XferType
<1>2. xfer'.pc = "check" /\ xfer'.index = xfer.index + 1 /\ xfer'.limit = xfer.limit
  BY <1>1 DEF XferType
<1>3. status.NumFiles \in Nat /\ status.KBytes \in Nat
      /\ status'.NumFiles = status.NumFiles + 1 /\ status'.KBytes = status.KBytes
  BY DEF XferCount, IndInv, TypeOK
<1>4. Segments \in Nat BY SessionAssumption
<1>5. Ahead = Segments BY <1>1 DEF CountInv, AheadInv, Counting
<1>6. Ahead' = 0
  <2> DEFINE counted == status.NumFiles * Segments
  <2>1. counted \in Nat /\ status'.NumFiles * Segments = counted + Segments BY <1>3, OneMore
  <2>2. status.KBytes - counted = Segments BY <1>5 DEF Ahead
  <2> HIDE DEF counted
  <2>3. status.KBytes - (counted + Segments) = 0 BY <1>3, <1>4, <2>1, <2>2
  <2> QED BY <1>3, <2>1, <2>3 DEF Ahead
<1>7. AheadInv' BY <1>2, <1>4, <1>6 DEF AheadInv, Copying, Counting
<1>8. IndexInv' BY <1>1, <1>2 DEF CountInv, IndexInv, Moving, Copying, Counting, Pledged
<1>9. FreshInv' BY <1>2 DEF FreshInv
<1>10. CountMatches'
  <2>1. IsFiniteSet(Done) /\ Cardinality(Done) \in Nat BY DoneFinite DEF IndInv
  <2>2. status.NumFiles = Cardinality(Done) BY DEF CountInv, CountMatches, Done
  <2>3. /\ xfer.index \in 1..Len(list) /\ list[xfer.index] = "yes"
        /\ \A i \in 1..Len(list) : i > xfer.index => list[i] # "yes"
    BY <1>1 DEF CountInv, IndexInv, Moving, Counting
  <2>4. Yes' = Yes BY <1>1 DEF Yes
  <2>5. xfer.index \in Yes /\ xfer'.index \notin Yes BY <1>1, <1>2, <2>3 DEF Yes
  <2>6. Yes' \ {xfer'.index} = Done \cup {xfer.index} BY <2>4, <2>5 DEF Done
  <2>7. xfer.index \notin Done BY DEF Done
  <2>8. Cardinality(Done \cup {xfer.index}) = Cardinality(Done) + 1 BY <2>1, <2>7, FS_AddElement
  <2> QED BY <1>3, <2>2, <2>6, <2>8 DEF CountMatches
<1> QED BY <1>7, <1>8, <1>9, <1>10 DEF CountInv

(* After the loop nothing is counted any more.                             *)
LEMMA CountAfter ==
  ASSUME IndInv, CountInv, XferFail \/ XferStore \/ XferFinish \/ XferEnd
  PROVE  CountInv'
<1>a. xfer \in XferType /\ TypeOK BY DEF IndInv, TypeOK, XferType
<1>1. /\ xfer.pc \in {"failSet", "failNull", "store", "finCheck", "finPush", "endBody"}
      /\ xfer'.pc \in {"failNull", "dead", "finCheck", "finPush", "endEnter"}
      /\ xfer'.index = xfer.index
  BY <1>a DEF XferFail, XferStore, XferFinish, XferEnd, XferAt, XferTo, XferType
<1>2. UNCHANGED list BY DEF XferFail, XferStore, XferFinish, XferEnd
<1>3. status'.NumFiles = status.NumFiles /\ status'.KBytes = status.KBytes
  <2>1. XferEnd => status'.NumFiles = status.NumFiles /\ status'.KBytes = status.KBytes
    BY <1>a, Figures DEF XferEnd
  <2> QED BY <2>1 DEF XferFail, XferStore, XferFinish
<1>4. IndexInv' /\ FreshInv' BY <1>1 DEF IndexInv, FreshInv, Moving, Copying, Counting, Pledged
<1>5. AheadInv' BY <1>1, <1>3 DEF CountInv, AheadInv, Ahead, Copying, Counting
<1>6. CountMatches' BY <1>1, <1>2, <1>3, DoneSame DEF CountInv
<1> QED BY <1>4, <1>5, <1>6 DEF CountInv

LEMMA CountNext ==
  ASSUME IndInv, PartInv, FilesInv, PlainInv, CountInv, [Next]_vars
  PROVE  CountInv'
<1>1. (\E op \in Calls : HostCall(op)) \/ HostOpen \/ PollCall \/ UNCHANGED vars => CountInv'
  BY CountSame DEF HostCall, HostOpen, PollCall, vars
<1>2. PollStep => CountInv'
  <2>1. PollStep => /\ UNCHANGED <<list, xfer>>
                    /\ status'.NumFiles = status.NumFiles /\ status'.KBytes = status.KBytes
    BY DEF PollStep, IndInv, TypeOK
  <2> QED BY <2>1, CountSame
<1>3. XferStep => CountInv'
  BY CountStart, CountCheck, CountCopy, CountEnter, CountStatus, CountCount, CountAfter DEF XferStep
<1> QED BY <1>1, <1>2, <1>3, CountHostStep DEF Next

(* The counters of m_Status agree with the list and with each other, for   *)
(* any host that never pauses: with a Pause a second thread can follow one *)
(* that failed, and it counts on from where the first one stopped.         *)
THEOREM CountersInStep == ASSUME "Pause" \notin Calls PROVE Spec => []CountersAgree
<1>1. Init => PlainInv /\ CountInv
  <2> SUFFICES ASSUME Init PROVE PlainInv /\ CountInv OBVIOUS
  <2>1. /\ host.pc = "idle" /\ xfer.pc = "none" /\ ~hnd /\ list = <<>>
        /\ status.NumFiles = 0 /\ status.KBytes = 0
    BY DEF Init, HostIdle, Thread
  <2>2. PlainInv
    BY <2>1 DEF Init, NewStack, PlainInv, PausePC, Starting
  <2>3. IndexInv BY <2>1 DEF IndexInv, Moving, Copying, Counting, Pledged
  <2>4. Segments \in Nat /\ 0 * Segments = 0 BY SessionAssumption
  <2>5. Ahead = 0 BY <2>1, <2>4 DEF Ahead
  <2>6. AheadInv BY <2>1, <2>4, <2>5 DEF AheadInv, Copying, Counting
  <2>7. Yes = {} /\ FreshInv BY <2>1 DEF Yes, FreshInv
  <2>8. CountMatches BY <2>1, <2>7, FS_EmptySet DEF CountMatches
  <2> QED BY <2>2, <2>3, <2>6, <2>7, <2>8 DEF CountInv
<1>2. IndInv /\ PartInv /\ FilesInv /\ PlainInv /\ CountInv /\ [Next]_vars => PlainInv' /\ CountInv'
  BY PlainNext, CountNext
<1>3. IndInv /\ CountInv => CountersAgree
  <2> SUFFICES ASSUME IndInv, CountInv PROVE ProgressTogether
    BY DEF CountersAgree, CountInv
  <2>1. status.NumFiles \in Nat /\ status.KBytes \in Nat BY DEF IndInv, TypeOK
  <2> DEFINE counted == status.NumFiles * Segments
  <2>2. counted \in Nat /\ (status.NumFiles + 1) * Segments = counted + Segments
    BY <2>1, OneMore
  <2>3. status.KBytes - counted \in 0..Segments BY DEF CountInv, AheadInv, Ahead
  <2>4. Segments \in Nat BY SessionAssumption
  <2> HIDE DEF counted
  <2>5. counted <= status.KBytes /\ status.KBytes <= counted + Segments BY <2>1, <2>2, <2>3, <2>4
  <2> QED BY <2>2, <2>5 DEF ProgressTogether, counted
<1> QED BY <1>1, <1>2, <1>3, Inductive, PartAlways, FilesAlways, PTL DEF Spec
=============================================================================
