----------------------------- MODULE DETSession -----------------------------
(***************************************************************************)
(* One push or pull session of the Avid ECS archive driver.                *)
(*                                                                         *)
(* Three threads share a DETAction object: the host, which makes the calls *)
(* ActionEx, PauseEx, ResumeEx, CancelEx and CloseEx one after the other;  *)
(* the transfer thread that Action starts (DETAction::TransferFiles); and  *)
(* a status thread that calls GetStatusEx (runStatusThread of the test     *)
(* dialog, or the host application's own).  m_CriticalSection protects     *)
(* m_Status; nothing protects the state stack, so DETState::SetState is    *)
(* two steps here: the table look-up, then the push.                       *)
(***************************************************************************)
EXTENDS DETState, FiniteSets

CONSTANTS
  NumFiles,    \* files in the XML of one ActionEx call
  Partial,     \* a restore of segments of files, not a transfer of whole files
  Segments,    \* parts of a file that report on their own
  MaxCalls,    \* bound on the calls the host makes
  Calls        \* the calls the host makes in this instance

ASSUME SessionAssumption ==
  /\ NumFiles \in Nat
  /\ Partial \in BOOLEAN
  /\ Segments \in Nat \ {0}
  /\ ~Partial => Segments = 1
  /\ MaxCalls \in Nat
  /\ Calls \subseteq {"Action", "Pause", "Resume", "Cancel", "Close"}

VARIABLES
  obj,       \* m_pDETAction and the object behind it: "none", "open", "closed"
  stack,     \* m_pState->m_StateStack
  list,      \* m_Data.m_FileStructList: the transferSuccess flag of every file
  hnd,       \* m_hndActionThread # NULL
  status,    \* m_Status
  cookie,    \* m_sResultXML: generated or not, and the files it calls transferred
  cs,        \* owner of m_CriticalSection
  suspends,  \* suspend count of the transfer thread
  host,      \* the host thread: program counter, call, code to be reported
  xfer,      \* the transfer thread: program counter and local variables
  poll,      \* the status thread: program counter
  calls      \* calls the host may still make

vars == <<obj, stack, list, hnd, status, cookie, cs, suspends, host, xfer, poll, calls>>

Flag  == {"unset", "yes", "no"}
Codes == {"NoError", "InternalError", "Cancel", "IterationFinished"}

HostPC == {"idle", "actCheck", "actPush", "actParse", "actEnter", "actSize", "actBegin",
           "actAssign", "pauseNull", "pauseCheck", "pausePush", "suspend", "resumeNull",
           "resumeCheck", "resumePush", "resume", "cancelRead", "cancelCheck", "cancelPush",
           "cancelWhy", "cancelResume", "cancelSet", "rollback", "stEnter", "stBody", "delete"}

HostOp == {"none", "Action", "Pause", "Resume", "Cancel", "Close", "CloseCancel"}

XferPC == {"none", "start", "check", "copy", "statEnter", "statBody", "cntEnter", "cntBody",
           "failSet", "failNull", "store", "finCheck", "finPush", "endEnter", "endBody", "dead"}

Live == xfer.pc \notin {"none", "dead"}

HostIdle == [pc |-> "idle", op |-> "none", code |-> "NoError"]

Thread(at) == [pc |-> at, index |-> 1, seg |-> 1, ok |-> TRUE, code |-> "NoError", limit |-> 0]

Yes == {i \in 1..Len(list) : list[i] = "yes"}

Unset == {i \in 1..Len(list) : list[i] = "unset"}

-----------------------------------------------------------------------------
(* Shared steps *)

Init ==
  /\ obj = "none"
  /\ stack = NewStack
  /\ list = <<>>
  /\ hnd = FALSE
  /\ status = [Code |-> "NoError", State |-> "Unknown", Total |-> 0, KBytes |-> 0, NumFiles |-> 0]
  /\ cookie = [tried |-> FALSE, made |-> FALSE, ok |-> {}]
  /\ cs = "free"
  /\ suspends = 0
  /\ host = HostIdle
  /\ xfer = Thread("none")
  /\ poll = "idle"
  /\ calls = MaxCalls

(* SetStatus between Enter and Leave: size units of data were moved.       *)
NewStatus(code, size) ==
  [status EXCEPT !.Code = code, !.State = GetState(stack), !.KBytes = @ + size]

HostTo(l) == host' = [host EXCEPT !.pc = l]

(* Go to SetStatus(code), the last thing most calls do before they return. *)
HostReport(code) == host' = [host EXCEPT !.pc = "stEnter", !.code = code]

(* The call returns; ~DETAction runs Resume, then Cancel, then deletes.    *)
HostReturn ==
  host' = CASE host.op = "Close"       -> [HostIdle EXCEPT !.pc = "cancelRead", !.op = "CloseCancel"]
            [] host.op = "CloseCancel" -> [HostIdle EXCEPT !.pc = "delete"]
            [] OTHER                   -> HostIdle

XferTo(l) == xfer' = [xfer EXCEPT !.pc = l]

-----------------------------------------------------------------------------
(* The host thread *)

(* OpenEx(Push) or OpenEx(Pull): the constructor fills m_Status under the  *)
(* critical section and enters Create.                                     *)
HostOpen ==
  /\ obj = "none"
  /\ cs = "free"
  /\ obj' = "open"
  /\ UNCHANGED <<stack, list, hnd, status, cookie, cs, suspends, host, xfer, poll, calls>>

EntryPoint(op) ==
  CASE op = "Action" -> "actCheck"
    [] op = "Pause"  -> "pauseNull"
    [] op = "Resume" -> "resumeNull"
    [] op = "Cancel" -> "cancelRead"
    [] op = "Close"  -> "resumeNull"

HostCall(op) ==
  /\ obj = "open"
  /\ host.pc = "idle"
  /\ calls > 0
  /\ calls' = calls - 1
  /\ host' = [pc |-> EntryPoint(op), op |-> op, code |-> "NoError"]
  /\ UNCHANGED <<obj, stack, list, hnd, status, cookie, cs, suspends, xfer, poll>>

(* First half of SetState(s): continue at yes if the table allows it.      *)
HostTest(at, s, yes) ==
  /\ host.pc = at
  /\ IsTransitionValid(stack, s)
  /\ HostTo(yes)
  /\ UNCHANGED <<obj, stack, list, hnd, status, cookie, cs, suspends, xfer, poll, calls>>

(* Second half of SetState(s).                                             *)
HostPush(at, s) ==
  /\ host.pc = at
  /\ stack' = Append(stack, s)
  /\ UNCHANGED <<obj, list, hnd, status, cookie, cs, suspends, xfer, poll, calls>>

(* A call that finds its precondition false returns without reporting.     *)
HostRefuse(at, s) ==
  /\ host.pc = at
  /\ ~IsTransitionValid(stack, s)
  /\ HostReturn
  /\ UNCHANGED <<obj, stack, list, hnd, status, cookie, cs, suspends, xfer, poll, calls>>

ActionSetState ==
  \/ HostTest("actCheck", "Run", "actPush")
  \/ HostRefuse("actCheck", "Run")
  \/ HostPush("actPush", "Run") /\ HostTo("actParse")

(* XMLDomParser::parse appends to the list.  It may give up half-way, and  *)
(* anything else that throws rolls the state back.                         *)
ActionParse ==
  /\ host.pc = "actParse"
  /\ \E n \in 0..NumFiles :
       list' = [i \in 1..(Len(list) + n) |-> IF i <= Len(list) THEN list[i] ELSE "unset"]
  /\ \/ Len(list') = Len(list) + NumFiles /\ HostTo("actEnter") /\ UNCHANGED stack
     \/ HostReport("InternalError") /\ UNCHANGED stack
     \/ HostReport("InternalError") /\ stack' = RollBackState(stack)
  /\ UNCHANGED <<obj, hnd, status, cookie, cs, suspends, xfer, poll, calls>>

ActionEnter ==
  /\ host.pc = "actEnter"
  /\ cs = "free"
  /\ cs' = "host"
  /\ HostTo("actSize")
  /\ UNCHANGED <<obj, stack, list, hnd, status, cookie, suspends, xfer, poll, calls>>

(* CalculateTransferSize counts only the files it can open under their     *)
(* local name; the SetStatus that follows reports keNoError in any case.   *)
ActionSize ==
  /\ host.pc = "actSize"
  /\ \E n \in 0..Len(list) : status' = [NewStatus("NoError", 0) EXCEPT !.Total = n * Segments]
  /\ cs' = "free"
  /\ HostTo("actBegin")
  /\ UNCHANGED <<obj, stack, list, hnd, cookie, suspends, xfer, poll, calls>>

(* _beginthreadex; the new thread may run before its handle is assigned.   *)
ActionBegin ==
  /\ host.pc = "actBegin"
  /\ IF hnd THEN HostReport("InternalError") /\ UNCHANGED <<xfer, suspends>>
            ELSE /\ HostTo("actAssign")
                 /\ xfer' = Thread("start")
                 /\ suspends' = 0
  /\ UNCHANGED <<obj, stack, list, hnd, status, cookie, cs, poll, calls>>

ActionAssign ==
  /\ host.pc = "actAssign"
  /\ hnd' = TRUE
  /\ HostReturn
  /\ UNCHANGED <<obj, stack, list, status, cookie, cs, suspends, xfer, poll, calls>>

(* Pause and Resume start by looking at the handle.                        *)
NullTest(at, next) ==
  /\ host.pc = at
  /\ IF hnd THEN HostTo(next) ELSE HostReturn
  /\ UNCHANGED <<obj, stack, list, hnd, status, cookie, cs, suspends, xfer, poll, calls>>

PauseSetState ==
  \/ NullTest("pauseNull", "pauseCheck")
  \/ HostTest("pauseCheck", "Pause", "pausePush")
  \/ HostRefuse("pauseCheck", "Pause")
  \/ HostPush("pausePush", "Pause") /\ HostTo("suspend")

(* Mutant: the handle is given up once the thread is suspended.            *)
PauseSuspendDrop ==
  /\ host.pc = "suspend"
  /\ IF hnd /\ Live THEN suspends' = suspends + 1 /\ hnd' = FALSE /\ HostReport("NoError")
                    ELSE HostTo("rollback") /\ UNCHANGED <<hnd, suspends>>
  /\ UNCHANGED <<obj, stack, list, status, cookie, cs, xfer, poll, calls>>

(* SuspendThread stops the thread wherever it is, inside the critical      *)
(* section too, and fails on a null handle or a thread that has ended.     *)
PauseSuspend ==
  /\ host.pc = "suspend"
  /\ IF hnd /\ Live THEN suspends' = suspends + 1 /\ HostReport("NoError")
                    ELSE HostTo("rollback") /\ UNCHANGED suspends
  /\ UNCHANGED <<obj, stack, list, hnd, status, cookie, cs, xfer, poll, calls>>

ResumeSetState ==
  \/ NullTest("resumeNull", "resumeCheck")
  \/ HostTest("resumeCheck", "Run", "resumePush")
  \/ HostRefuse("resumeCheck", "Run")
  \/ HostPush("resumePush", "Run") /\ HostTo("resume")

(* ResumeThread takes one suspension back; it fails on a null handle, and  *)
(* may succeed or fail on a thread that has ended.                         *)
ResumeThread(ok, fail) ==
  /\ suspends' = IF hnd /\ suspends > 0 THEN suspends - 1 ELSE suspends
  /\ \/ hnd /\ ok
     \/ ~(hnd /\ Live) /\ fail

ResumeResume ==
  /\ host.pc = "resume"
  /\ ResumeThread(HostReport("NoError"), HostTo("rollback"))
  /\ UNCHANGED <<obj, stack, list, hnd, status, cookie, cs, xfer, poll, calls>>

(* RollbackState pops whatever is on top of the stack by now.              *)
Rollback ==
  /\ host.pc = "rollback"
  /\ stack' = RollBackState(stack)
  /\ HostReport("InternalError")
  /\ UNCHANGED <<obj, list, hnd, status, cookie, cs, suspends, xfer, poll, calls>>

CancelRead ==
  /\ host.pc = "cancelRead"
  /\ HostTo(IF IsValid(stack, "Pause") THEN "cancelResume" ELSE "cancelCheck")
  /\ UNCHANGED <<obj, stack, list, hnd, status, cookie, cs, suspends, xfer, poll, calls>>

CancelSetState ==
  \/ HostTest("cancelCheck", "Cancel", "cancelPush")
  \/ /\ host.pc = "cancelCheck"
     /\ ~IsTransitionValid(stack, "Cancel")
     /\ HostTo("cancelWhy")
     /\ UNCHANGED <<obj, stack, list, hnd, status, cookie, cs, suspends, xfer, poll, calls>>
  \/ HostPush("cancelPush", "Cancel") /\ HostReport("NoError")

CancelWhy ==
  /\ host.pc = "cancelWhy"
  /\ HostReport(IF GetState(stack) = "Cancel" THEN "Cancel" ELSE "IterationFinished")
  /\ UNCHANGED <<obj, stack, list, hnd, status, cookie, cs, suspends, xfer, poll, calls>>

(* A paused session is resumed first; the result of SetState is ignored.   *)
CancelPaused ==
  \/ /\ host.pc = "cancelResume"
     /\ ResumeThread(HostTo("cancelSet"), HostTo("cancelSet"))
     /\ UNCHANGED <<obj, stack, list, hnd, status, cookie, cs, xfer, poll, calls>>
  \/ HostTest("cancelSet", "Cancel", "cancelPush")
  \/ /\ host.pc = "cancelSet"
     /\ ~IsTransitionValid(stack, "Cancel")
     /\ HostReport("NoError")
     /\ UNCHANGED <<obj, stack, list, hnd, status, cookie, cs, suspends, xfer, poll, calls>>

HostStatusEnter ==
  /\ host.pc = "stEnter"
  /\ cs = "free"
  /\ cs' = "host"
  /\ HostTo("stBody")
  /\ UNCHANGED <<obj, stack, list, hnd, status, cookie, suspends, xfer, poll, calls>>

HostStatusBody ==
  /\ host.pc = "stBody"
  /\ status' = NewStatus(host.code, 0)
  /\ cs' = "free"
  /\ HostReturn
  /\ UNCHANGED <<obj, stack, list, hnd, cookie, suspends, xfer, poll, calls>>

(* delete m_pDETAction: the transfer thread is not waited for.             *)
HostDelete ==
  /\ host.pc = "delete"
  /\ obj' = "closed"
  /\ host' = HostIdle
  /\ UNCHANGED <<stack, list, hnd, status, cookie, cs, suspends, xfer, poll, calls>>

HostStep ==
  \/ ActionSetState \/ ActionParse \/ ActionEnter \/ ActionSize \/ ActionBegin \/ ActionAssign
  \/ PauseSetState \/ PauseSuspend \/ ResumeSetState \/ ResumeResume \/ Rollback
  \/ CancelRead \/ CancelSetState \/ CancelWhy \/ CancelPaused
  \/ HostStatusEnter \/ HostStatusBody \/ HostDelete

-----------------------------------------------------------------------------
(* The transfer thread, DETAction::TransferFiles.  Once the object is      *)
(* freed what it does is undefined: the outcome modelled is that it stops. *)

XferAt(l) == xfer.pc = l /\ suspends = 0 /\ obj = "open"

XferStart ==
  /\ XferAt("start")
  /\ xfer' = [xfer EXCEPT !.pc = "check", !.limit = Len(list)]
  /\ UNCHANGED <<obj, stack, list, hnd, status, cookie, cs, suspends, host, poll, calls>>

(* Mutants: the loop stops one file early; it does not look at the state.  *)
AllTriedEarly == xfer.index >= xfer.limit
StateRunIgnored == TRUE

AllTried == xfer.index > xfer.limit

StateRun == IsValid(stack, "Run")

(* The loop head: a file is transferred if the state is Run, else skipped. *)
XferCheck ==
  /\ XferAt("check")
  /\ \/ AllTried /\ XferTo("store")
     \/ ~AllTried /\ StateRun /\ xfer' = [xfer EXCEPT !.pc = "copy", !.seg = 1, !.ok = TRUE]
     \/ ~AllTried /\ ~StateRun /\ xfer' = [xfer EXCEPT !.index = @ + 1]
  /\ UNCHANGED <<obj, stack, list, hnd, status, cookie, cs, suspends, host, poll, calls>>

(* A partial restore calls the file transferred before its first part.     *)
Promised == IF Partial /\ xfer.seg = 1 THEN [list EXCEPT ![xfer.index] = "yes"] ELSE list

(* TransferFile moves one part of the file.  An exception ends the file at *)
(* once and takes nothing back, be it before the promise or after it.      *)
XferCopy ==
  /\ XferAt("copy")
  /\ \/ list' = Promised /\ xfer' = [xfer EXCEPT !.pc = "statEnter", !.code = "NoError"]
     \/ list' = Promised
        /\ xfer' = [xfer EXCEPT !.pc = "statEnter", !.code = "InternalError", !.ok = FALSE]
     \/ list' \in {list, Promised} /\ XferTo("failSet")
  /\ UNCHANGED <<obj, stack, hnd, status, cookie, cs, suspends, host, poll, calls>>

XferEnter ==
  /\ \/ XferAt("statEnter") /\ XferTo("statBody")
     \/ XferAt("cntEnter") /\ XferTo("cntBody")
     \/ XferAt("endEnter") /\ XferTo("endBody")
  /\ cs = "free"
  /\ cs' = "xfer"
  /\ UNCHANGED <<obj, stack, list, hnd, status, cookie, suspends, host, poll, calls>>

(* What a part leaves of transferSuccess once it has reported.             *)
FileFlag == IF xfer.code = "NoError" THEN "yes" ELSE "no"

(* SetStatus for a part, then its flag: a part that fails takes it back, a *)
(* whole file gets it here.  A part that fails does not stop the segments  *)
(* after it, but it ends its own, so parts may be left out.                *)
XferStatus ==
  /\ XferAt("statBody")
  /\ status' = NewStatus(xfer.code, IF xfer.code = "NoError" THEN 1 ELSE 0)
  /\ cs' = "free"
  /\ list' = IF Partial /\ xfer.code = "NoError" THEN list
                ELSE [list EXCEPT ![xfer.index] = FileFlag]
  /\ \/ xfer.seg < Segments /\ xfer' = [xfer EXCEPT !.pc = "copy", !.seg = @ + 1]
     \/ /\ xfer.ok => xfer.seg = Segments
        /\ XferTo(IF xfer.ok THEN "cntEnter" ELSE "failSet")
  /\ UNCHANGED <<obj, stack, hnd, cookie, suspends, host, poll, calls>>

(* Mutants: Leave is missing after the count; the file is not counted.     *)
XferCountKeep ==
  /\ XferAt("cntBody")
  /\ status' = [status EXCEPT !.NumFiles = @ + 1]
  /\ xfer' = [xfer EXCEPT !.pc = "check", !.index = @ + 1]
  /\ UNCHANGED <<obj, stack, list, hnd, cookie, cs, suspends, host, poll, calls>>

XferCountNot ==
  /\ XferAt("cntBody")
  /\ cs' = "free"
  /\ xfer' = [xfer EXCEPT !.pc = "check", !.index = @ + 1]
  /\ UNCHANGED <<obj, stack, list, hnd, status, cookie, suspends, host, poll, calls>>

XferCount ==
  /\ XferAt("cntBody")
  /\ status' = [status EXCEPT !.NumFiles = @ + 1]
  /\ cs' = "free"
  /\ xfer' = [xfer EXCEPT !.pc = "check", !.index = @ + 1]
  /\ UNCHANGED <<obj, stack, list, hnd, cookie, suspends, host, poll, calls>>

(* Mutant: the thread goes on with the next file after a failure.          *)
XferFailGoesOn ==
  /\ XferAt("failSet")
  /\ stack' = Append(stack, "None")
  /\ xfer' = [xfer EXCEPT !.pc = "check", !.index = @ + 1]
  /\ UNCHANGED <<obj, list, hnd, status, cookie, cs, suspends, host, poll, calls>>

(* SetState(vrsNone) is accepted in every state, so it is one step; then   *)
(* the thread forgets its own handle and exits.                            *)
XferFail ==
  \/ /\ XferAt("failSet")
     /\ stack' = Append(stack, "None")
     /\ XferTo("failNull")
     /\ UNCHANGED <<obj, list, hnd, status, cookie, cs, suspends, host, poll, calls>>
  \/ /\ XferAt("failNull")
     /\ hnd' = FALSE
     /\ XferTo("dead")
     /\ UNCHANGED <<obj, stack, list, status, cookie, cs, suspends, host, poll, calls>>

(* Mutant: the cookie is not stored.                                       *)
XferStoreNot ==
  /\ XferAt("store")
  /\ XferTo("finCheck")
  /\ UNCHANGED <<obj, stack, list, hnd, status, cookie, cs, suspends, host, poll, calls>>

(* StoreCookieXML: the flag of a file that was never attempted was never   *)
(* initialised, so the cookie may show it either way.  generate may fail:  *)
(* then m_sResultXML stays as it was, and nobody looks at what it returns. *)
XferStore ==
  /\ XferAt("store")
  /\ \/ \E g \in SUBSET Unset : cookie' = [tried |-> TRUE, made |-> TRUE, ok |-> Yes \cup g]
     \/ cookie' = [cookie EXCEPT !.tried = TRUE, !.made = FALSE]
  /\ XferTo("finCheck")
  /\ UNCHANGED <<obj, stack, list, hnd, status, cs, suspends, host, poll, calls>>

(* SetState(vrsFinish): the look-up, and the push when it succeeds.        *)
XferFinish ==
  \/ /\ XferAt("finCheck")
     /\ xfer' = IF IsTransitionValid(stack, "Finish")
                  THEN [xfer EXCEPT !.pc = "finPush", !.code = "NoError"]
                  ELSE [xfer EXCEPT !.pc = "endEnter", !.code = "InternalError"]
     /\ UNCHANGED <<obj, stack, list, hnd, status, cookie, cs, suspends, host, poll, calls>>
  \/ /\ XferAt("finPush")
     /\ stack' = Append(stack, "Finish")
     /\ XferTo("endEnter")
     /\ UNCHANGED <<obj, list, hnd, status, cookie, cs, suspends, host, poll, calls>>

XferEnd ==
  /\ XferAt("endBody")
  /\ status' = NewStatus(xfer.code, 0)
  /\ cs' = "free"
  /\ XferTo("dead")
  /\ UNCHANGED <<obj, stack, list, hnd, cookie, suspends, host, poll, calls>>

XferStep ==
  \/ XferStart \/ XferCheck \/ XferCopy \/ XferEnter \/ XferStatus \/ XferCount
  \/ XferFail \/ XferStore \/ XferFinish \/ XferEnd

-----------------------------------------------------------------------------
(* The status thread: GetStatusEx, again and again until the session ends. *)

PollCall ==
  /\ obj = "open"
  /\ poll = "idle"
  /\ poll' = "enter"
  /\ UNCHANGED <<obj, stack, list, hnd, status, cookie, cs, suspends, host, xfer, calls>>

PollStep ==
  /\ obj = "open"
  /\ \/ poll = "enter" /\ cs = "free" /\ cs' = "poll" /\ poll' = "read" /\ UNCHANGED status
     \/ /\ poll = "read"
        /\ status' = [status EXCEPT !.State = GetState(stack)]
        /\ cs' = "free"
        /\ poll' = "idle"
  /\ UNCHANGED <<obj, stack, list, hnd, cookie, suspends, host, xfer, calls>>

-----------------------------------------------------------------------------
Next ==
  \/ HostOpen
  \/ \E op \in Calls : HostCall(op)
  \/ HostStep
  \/ XferStep
  \/ PollCall
  \/ PollStep

Spec == Init /\ [][Next]_vars

(* A thread that can run runs, a call that was made goes on, and a thread  *)
(* that waits for the critical section gets it in the end: the other       *)
(* contender in practice, the status thread, sleeps a second between polls.*)
Fairness ==
  /\ WF_vars(HostStep) /\ SF_vars(ActionEnter) /\ SF_vars(HostStatusEnter)
  /\ WF_vars(XferStep) /\ SF_vars(XferEnter)
  /\ WF_vars(PollStep)

FairSpec == Spec /\ Fairness
-----------------------------------------------------------------------------
(* What the session promises *)

(* Every variable holds a value of its C++ type.                           *)
TypeOK ==
  /\ obj \in {"none", "open", "closed"}
  /\ stack \in Seq(RunState)
  /\ list \in Seq(Flag)
  /\ hnd \in BOOLEAN
  /\ status \in [Code : Codes, State : EShown, Total : Nat, KBytes : Nat, NumFiles : Nat]
  /\ cookie \in [tried : BOOLEAN, made : BOOLEAN, ok : SUBSET Nat]
  /\ cs \in {"free", "host", "xfer", "poll"}
  /\ suspends \in Nat
  /\ host \in [pc : HostPC, op : HostOp, code : Codes]
  /\ xfer \in [pc : XferPC, index : Nat, seg : Nat, ok : BOOLEAN, code : Codes, limit : Nat]
  /\ poll \in {"idle", "enter", "read"}
  /\ calls \in Nat

(* A caller that is shown krsFinish comes after StoreCookieXML: the files  *)
(* were tried and the result generated, or its generation failed, before   *)
(* Finish is entered, and no rollback or racing call puts a Finish on the  *)
(* stack earlier than that.                                                *)
FinishShownAfterStore == status.State = "Finish" => cookie.tried

(* A session that finishes without a Pause or a Cancel on its stack has    *)
(* moved every file, and its cookie, if one was made, says so: whatever    *)
(* RollbackState pops, it never removes the one entry that explains a      *)
(* skipped file.                                                           *)
Interrupted == Entered(stack, "Pause") \/ Entered(stack, "Cancel")

CompleteUnlessInterrupted ==
  Entered(stack, "Finish") /\ ~Interrupted
    => Yes = 1..Len(list) /\ (cookie.made => cookie.ok = Yes)

(* When the transfer thread asks to finish, the table lets it, whichever   *)
(* call is half-way through its own SetState: the error branch after       *)
(* SetState(vrsFinish) in TransferFiles is never taken.                    *)
FinishAccepted == xfer.pc = "finCheck" => IsTransitionValid(stack, "Finish")

(* Action finds a null handle only when no transfer thread exists, also    *)
(* after a failed thread has nulled the handle that Action then assigns.   *)
OneThread == host.pc = "actBegin" /\ ~hnd => ~Live

(* Failure and Finish exclude each other on the stack: no call that races  *)
(* with the failing thread lets the session finish afterwards.             *)
Failed == \E i \in 4..Len(stack) : stack[i] = "None"

NoFinishAfterFailure == ~(Failed /\ Entered(stack, "Finish"))

(* Once Cancel is entered, at most the file in flight goes on: the thread  *)
(* begins no other file, whatever calls follow.                            *)
CancelStops ==
  [][Entered(stack, "Cancel") /\ xfer'.pc = "copy" => xfer.pc \in {"copy", "statBody"}]_vars

(* NumFilesXfer is the number of files whose transferSuccess is set, the   *)
(* file at hand aside: its flag is set before it is counted, and in a      *)
(* partial restore before it is moved.                                     *)
CountMatches == status.NumFiles = Cardinality(Yes \ {xfer.index})

(* The two progress figures of m_Status, updated in different critical     *)
(* sections, never drift apart by more than a file.                        *)
ProgressTogether ==
  /\ status.NumFiles * Segments <= status.KBytes
  /\ status.KBytes <= (status.NumFiles + 1) * Segments

(* A transfer thread ends, and leaves its outcome on the stack.            *)
TransferEnds == Live ~> (xfer.pc = "dead" /\ (Entered(stack, "Finish") \/ Failed))

(* Every call of the host returns: no call waits for the critical section  *)
(* for ever (DETAction.cpp:231, "Okay to perform pause").                  *)
CallsReturn == (host.pc # "idle") ~> (host.pc = "idle")

(* The counters of m_Status agree with the list and with each other,       *)
(* though each is updated in a critical section of its own.                *)
CountersAgree == CountMatches /\ ProgressTogether
=============================================================================
