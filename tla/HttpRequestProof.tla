--------------------------- MODULE HttpRequestProof ---------------------------
(***************************************************************************)
(* Theorems about HttpRequest, for any number of requests and any time-out *)
(* and with callbacks at any moment, if WinHTTP closes a handle before     *)
(* WaitComplete gives up.  ContextInv is not inductive: a call that is     *)
(* accepted finds the context clean only because the one before it has     *)
(* been answered, or its handle closed.                                    *)
(***************************************************************************)
EXTENDS HttpRequest, TLAPS

Waiting == state \in {"wait", "check"}

\* Only the handle of the request may call back, and it can until it closes.
OneHandle ==
  /\ state = "idle" => hRequest = 0
  /\ state # "idle" => /\ hRequest \in Handle
                       /\ hRequest \in live \/ (cmd = "closing" /\ Waiting)
  /\ live \subseteq {hRequest}
  /\ closing # {} => cmd = "closing" /\ Waiting

\* A call is under way only while it is waited for or after it is abandoned.
OneCall ==
  /\ \A h \in Handle : pend[h] # "none" => h \in live
  /\ state = "next" \/ (state \in {"prepare", "reset", "issue"} /\ cmd \in Calls)
       => \A h \in Handle : pend[h] = "none"
  /\ state = "next" => cmd \in Calls

\* What the context holds was written for the handle of the request.
OwnContext ==
  /\ \A h \in Handle, c \in Commands \cup {"error"} :
       <<h, c>> \in received => h = hRequest /\ complete
  /\ \A h \in Handle : <<h, "closing">> \in received =>
                          live = {} /\ cmd = "closing" /\ Waiting
  /\ state = "issue" \/ Waiting =>
       failed \subseteq {hRequest} /\ (failed # {} => complete)
  /\ state = "issue" /\ cmd \in Calls => ~complete

\* WaitComplete does not give up on a handle that closes.
InTime == state = "check" /\ cmd = "closing" /\ ~woken => ticks < MaxTicks

Inv == /\ TypeOK /\ Paired /\ CompletesOnce
       /\ OneHandle /\ OneCall /\ OwnContext /\ InTime
-----------------------------------------------------------------------------
\* Nothing is open at first.
LEMMA InitHolds == Init => Inv
<1> SUFFICES ASSUME Init PROVE Inv
  OBVIOUS
<1>1. TypeOK
  <2>1. pend \in [Handle -> Calls \cup {"none"}]
    BY DEF Init
  <2>2. cmd \in Commands
    BY DEF Init, Commands
  <2>3. 0 \in 0 .. MaxTicks /\ 0 \in 0 .. MaxRequests
    BY HttpAssumption
  <2>4. QED
    BY <2>1, <2>2, <2>3 DEF Init, TypeOK
<1>2. Paired /\ CompletesOnce /\ InTime
  BY DEF Init, Paired, CompletesOnce, InTime
<1>3. OneHandle /\ OneCall /\ OwnContext
  BY DEF Init, OneHandle, OneCall, OwnContext
<1>4. QED
  BY <1>1, <1>2, <1>3 DEF Inv

\* The request is opened when no handle may call back.
LEMMA OpenRequestHolds ==
  ASSUME Inv, OpenRequest
  PROVE  Inv'
<1> USE DEF OpenRequest, Start, thread, context, winhttp
<1>0. live = {} /\ closing = {} /\ received = {}
  <2>1. hRequest \notin Handle /\ live \subseteq Handle /\ live \subseteq {hRequest}
    BY DEF Inv, OneHandle, TypeOK, Handle
  <2>2. live = {} /\ closing = {}
    BY <2>1 DEF Inv, TypeOK
  <2>3. ASSUME NEW x \in received PROVE FALSE
    <3>1. PICK h \in Handle, c \in Commands \cup {"error"} : x = <<h, c>>
      BY DEF Inv, TypeOK
    <3>2. QED
      BY <2>1, <2>3, <3>1 DEF Inv, OwnContext
  <2>4. QED
    BY <2>2, <2>3
<1>1. TypeOK'
  BY <1>0, HttpAssumption DEF Inv, TypeOK, Handle, Calls, Commands
<1>2. Paired' /\ CompletesOnce' /\ InTime'
  BY DEF Inv, Paired, CompletesOnce, InTime
<1>3. OneHandle'
  <2>1. hRequest' \in Handle
    BY HttpAssumption DEF Inv, TypeOK, Handle
  <2>2. QED
    BY <1>0, <2>1 DEF OneHandle
<1>4. OneCall'
  BY <1>0 DEF Inv, OneCall
<1>5. OwnContext'
  BY <1>0 DEF OwnContext, Waiting
<1>6. QED
  BY <1>1, <1>2, <1>3, <1>4, <1>5 DEF Inv

\* The event is reset.
LEMMA PrepareCmdHolds ==
  ASSUME Inv, PrepareCmd
  PROVE  Inv'
<1> USE DEF PrepareCmd, thread, context, winhttp
<1>1. TypeOK'
  BY HttpAssumption DEF Inv, TypeOK
<1>2. Paired' /\ CompletesOnce' /\ InTime'
  BY DEF Inv, Paired, CompletesOnce, InTime
<1>3. OneHandle'
  BY DEF Inv, OneHandle, Waiting
<1>4. OneCall'
  BY DEF Inv, OneCall
<1>5. OwnContext'
  BY DEF Inv, OwnContext, Waiting
<1>6. QED
  BY <1>1, <1>2, <1>3, <1>4, <1>5 DEF Inv

\* The context is clean.
LEMMA ResetHolds ==
  ASSUME Inv, Reset
  PROVE  Inv'
<1> USE DEF Reset, Clean, thread, context, winhttp
<1>1. TypeOK'
  <2>1. 0 \in 0 .. MaxTicks
    BY HttpAssumption
  <2>2. QED
    BY <2>1 DEF Inv, TypeOK
<1>2. Paired' /\ CompletesOnce' /\ InTime'
  BY DEF Inv, Paired, CompletesOnce, InTime
<1>3. OneHandle'
  BY DEF Inv, OneHandle, Waiting
<1>4. OneCall'
  BY DEF Inv, OneCall
<1>5. OwnContext'
  BY DEF OwnContext
<1>6. QED
  BY <1>1, <1>2, <1>3, <1>4, <1>5 DEF Inv

\* The call is not made.
LEMMA CallFailsHolds ==
  ASSUME Inv, CallFails
  PROVE  Inv'
<1> USE DEF CallFails, CleanupCmd, Throw, Start, thread, context, winhttp
<1>1. TypeOK'
  BY HttpAssumption DEF Inv, TypeOK, Commands
<1>2. Paired' /\ CompletesOnce' /\ InTime'
  BY DEF Inv, Paired, CompletesOnce, InTime
<1>3. OneHandle'
  BY DEF Inv, OneHandle, Calls
<1>4. OneCall'
  BY DEF Inv, OneCall
<1>5. OwnContext'
  BY DEF Inv, OwnContext, Commands
<1>6. QED
  BY <1>1, <1>2, <1>3, <1>4, <1>5 DEF Inv

\* The call is accepted while the context is clean.
LEMMA CallHolds ==
  ASSUME Inv, Call
  PROVE  Inv'
<1> USE DEF Call, thread, context, winhttp
<1>1. TypeOK'
  BY HttpAssumption DEF Inv, TypeOK
<1>2. Paired' /\ CompletesOnce' /\ InTime'
  BY DEF Inv, Paired, CompletesOnce, InTime, OwnContext
<1>3. OneHandle'
  BY DEF Inv, OneHandle, Calls
<1>4. OneCall'
  BY DEF Inv, OneHandle, OneCall, Calls
<1>5. OwnContext'
  BY DEF Inv, OwnContext, Commands
<1>6. QED
  BY <1>1, <1>2, <1>3, <1>4, <1>5 DEF Inv

\* The handle is closed.
LEMMA CloseHandleHolds ==
  ASSUME Inv, CloseHandle
  PROVE  Inv'
<1> USE DEF CloseHandle, thread, context, winhttp
<1>1. TypeOK'
  <2>1. hRequest \in live
    BY DEF Inv, OneHandle, Waiting
  <2>2. QED
    BY <2>1 DEF Inv, TypeOK
<1>2. Paired' /\ CompletesOnce' /\ InTime'
  BY DEF Inv, Paired, CompletesOnce, InTime
<1>3. OneHandle'
  BY DEF Inv, OneHandle, Waiting
<1>4. OneCall'
  BY DEF Inv, OneCall
<1>5. OwnContext'
  BY DEF Inv, OwnContext, Waiting
<1>6. QED
  BY <1>1, <1>2, <1>3, <1>4, <1>5 DEF Inv

\* The wait ends.
LEMMA WaitHolds ==
  ASSUME ClosesInTime, Inv, Wait
  PROVE  Inv'
<1> USE DEF Wait, thread, context, winhttp
<1>1. TypeOK'
  BY HttpAssumption DEF Inv, TypeOK
<1>2. Paired' /\ CompletesOnce' /\ InTime'
  BY DEF Inv, Paired, CompletesOnce, InTime
<1>3. OneHandle'
  BY DEF Inv, OneHandle, Waiting
<1>4. OneCall'
  BY DEF Inv, OneCall
<1>5. OwnContext'
  BY DEF Inv, OwnContext, Waiting
<1>6. QED
  BY <1>1, <1>2, <1>3, <1>4, <1>5 DEF Inv

\* The call is abandoned.
LEMMA AbortedHolds ==
  ASSUME Inv, Aborted
  PROVE  Inv'
<1> USE DEF Aborted, Return, CleanupCmd, Throw, Start, thread, context, winhttp
<1>1. TypeOK'
  BY HttpAssumption DEF Inv, TypeOK, Commands
<1>2. Paired' /\ CompletesOnce' /\ InTime'
  BY DEF Inv, Paired, CompletesOnce, InTime
<1>3. OneHandle'
  BY DEF Inv, OneHandle
<1>4. OneCall'
  BY DEF Inv, OneCall, Calls
<1>5. OwnContext'
  BY DEF Inv, OwnContext, Waiting
<1>6. QED
  BY <1>1, <1>2, <1>3, <1>4, <1>5 DEF Inv

\* The answer ends the command.
LEMMA SignalledHolds ==
  ASSUME Inv, Signalled
  PROVE  Inv'
<1> USE DEF Signalled, Return, Closed, CleanupCmd, Throw, Start, thread, context, winhttp
<1>1. TypeOK'
  <2>1. /\ cmd' \in Commands /\ hRequest' \in 0 .. MaxRequests /\ busy' \in BOOLEAN
        /\ state' \in {"idle", "prepare", "wait", "next"}
    <3>1. CASE ~Ends
      BY <3>1 DEF Inv, TypeOK
    <3>2. CASE Ends /\ cmd = "closing"
      <4>1. 0 \in 0 .. MaxRequests
        BY HttpAssumption
      <4>2. QED
        BY <3>2, <4>1 DEF Inv, TypeOK
    <3>3. CASE Ends /\ cmd # "closing"
      BY <3>3 DEF Inv, TypeOK, Commands
    <3>4. QED
      BY <3>1, <3>2, <3>3
  <2>2. QED
    BY <2>1 DEF Inv, TypeOK
<1> USE DEF Ends, GotIt
<1>2. Paired' /\ CompletesOnce' /\ InTime'
  BY DEF Inv, Paired, CompletesOnce, InTime
<1>3. OneHandle'
  BY DEF Inv, TypeOK, OneHandle, OwnContext, Waiting
<1>4. OneCall'
  BY DEF Inv, TypeOK, OneCall, OwnContext, CompletesOnce, Waiting, Commands
<1>5. OwnContext'
  BY DEF Inv, OwnContext, Waiting
<1>6. QED
  BY <1>1, <1>2, <1>3, <1>4, <1>5 DEF Inv

\* A second has passed.
LEMMA TimedOutHolds ==
  ASSUME ClosesInTime, Inv, TimedOut
  PROVE  Inv'
<1> USE DEF thread, context, winhttp
<1>1. /\ state = "check" /\ ~woken
      /\ UNCHANGED <<opened, hRequest, woken, evCmd, received, complete, failed, abort,
                     pend, closing, live>>
  <2>1. ticks \in 0 .. MaxTicks /\ MaxTicks \in Nat
    BY HttpAssumption DEF Inv, TypeOK
  <2>2. Expired => cmd # "closing"
    BY <2>1 DEF TimedOut, Expired, Inv, InTime
  <2>3. QED
    BY <2>2 DEF TimedOut, Return
<1>2. \/ /\ cmd # "closing" /\ cmd' = "closing" /\ state' = "prepare" /\ ticks' = ticks
         /\ busy' = FALSE /\ error' = "timeout"
      \/ /\ state' = "wait" /\ ticks' = ticks + 1 /\ ticks + 1 \in 0 .. MaxTicks
         /\ UNCHANGED <<cmd, busy, error>>
  <2>1. ticks \in 0 .. MaxTicks /\ MaxTicks \in Nat
    BY HttpAssumption DEF Inv, TypeOK
  <2>2. CASE Expired
    <3>1. cmd # "closing"
      BY <1>1, <2>1, <2>2 DEF Expired, Inv, InTime
    <3>2. QED
      BY <2>2, <3>1 DEF TimedOut, Return, CleanupCmd, Throw, Start
  <2>3. CASE ~Expired
    BY <2>1, <2>3 DEF Expired, TimedOut, Counted
  <2>4. QED
    BY <2>2, <2>3
<1>3. TypeOK'
  BY <1>1, <1>2 DEF Inv, TypeOK, Commands
<1>4. Paired' /\ CompletesOnce' /\ InTime'
  BY <1>1, <1>2 DEF Inv, Paired, CompletesOnce, InTime
<1>5. OneHandle'
  BY <1>1, <1>2 DEF Inv, OneHandle, Waiting
<1>6. OneCall'
  BY <1>1, <1>2 DEF Inv, OneCall, Calls
<1>7. OwnContext'
  BY <1>1, <1>2 DEF Inv, OwnContext, Waiting
<1>8. QED
  BY <1>3, <1>4, <1>5, <1>6, <1>7 DEF Inv

\* The next command.
LEMMA ContinueHolds ==
  ASSUME Inv, Continue
  PROVE  Inv'
<1> USE DEF Continue, Start, After, thread, context, winhttp
<1>1. TypeOK'
  <2>1. cmd' \in Commands
    BY DEF Inv, OneCall, Calls, Commands
  <2>2. QED
    BY <2>1 DEF Inv, TypeOK
<1>2. Paired' /\ CompletesOnce' /\ InTime'
  BY DEF Inv, Paired, CompletesOnce, InTime
<1>3. OneHandle'
  BY DEF Inv, OneHandle, Waiting
<1>4. OneCall'
  BY DEF Inv, OneCall
<1>5. OwnContext'
  BY DEF Inv, OwnContext, Waiting
<1>6. QED
  BY <1>1, <1>2, <1>3, <1>4, <1>5 DEF Inv

\* The request is aborted, or not any more.
LEMMA SetAbortHolds ==
  ASSUME Inv, SetAbort
  PROVE  Inv'
<1> USE DEF SetAbort, thread, context, winhttp
<1>1. TypeOK'
  BY HttpAssumption DEF Inv, TypeOK
<1>2. Paired' /\ CompletesOnce' /\ InTime'
  BY DEF Inv, Paired, CompletesOnce, InTime
<1>3. OneHandle'
  BY DEF Inv, OneHandle, Waiting
<1>4. OneCall'
  BY DEF Inv, OneCall
<1>5. OwnContext'
  BY DEF Inv, OwnContext, Waiting
<1>6. QED
  BY <1>1, <1>2, <1>3, <1>4, <1>5 DEF Inv

\* A call is answered.
LEMMA CompleteHolds ==
  ASSUME Inv, NEW h \in Handle, Complete(h)
  PROVE  Inv'
<1> USE DEF Complete, Receive, thread
<1>1. TypeOK'
  <2>1. pend[h] \in Calls
    BY DEF Inv, TypeOK
  <2>2. received' \subseteq Handle \X (Commands \cup {"error"})
    BY <2>1 DEF Inv, TypeOK, Commands
  <2>3. failed' \subseteq Handle /\ error' \in {"none", "resend", "error", "aborted", "timeout"}
    BY DEF Inv, TypeOK
  <2>4. pend' \in [Handle -> Calls \cup {"none"}] /\ complete' \in BOOLEAN /\ evCmd' \in BOOLEAN
    BY DEF Inv, TypeOK
  <2>5. QED
    BY <2>2, <2>3, <2>4 DEF Inv, TypeOK
<1>2. Paired' /\ CompletesOnce' /\ InTime'
  BY DEF Inv, TypeOK, Paired, CompletesOnce, InTime, OneHandle, OneCall
<1>3. OneHandle'
  BY DEF Inv, OneHandle, Waiting
<1>4. OneCall'
  BY DEF Inv, OneCall
<1>5. OwnContext'
  BY DEF Inv, TypeOK, OneHandle, OneCall, OwnContext, Waiting, Calls
<1>6. QED
  BY <1>1, <1>2, <1>3, <1>4, <1>5 DEF Inv

\* The last callback of a handle.
LEMMA HandleClosingHolds ==
  ASSUME Inv, NEW h \in Handle, HandleClosing(h)
  PROVE  Inv'
<1> USE DEF HandleClosing, Receive, thread
<1>1. TypeOK'
  BY DEF Inv, TypeOK, Commands
<1>2. Paired' /\ CompletesOnce' /\ InTime'
  BY DEF Inv, TypeOK, Paired, CompletesOnce, InTime, OneHandle, OneCall
<1>3. OneHandle'
  BY DEF Inv, OneHandle, Waiting
<1>4. OneCall'
  BY DEF Inv, OneCall
<1>5. OwnContext'
  BY DEF Inv, TypeOK, OneHandle, OwnContext, Waiting
<1>6. QED
  BY <1>1, <1>2, <1>3, <1>4, <1>5 DEF Inv

\* Every step, and none.
LEMMA InvHolds ==
  ASSUME ClosesInTime
  PROVE  Spec => []Inv
<1>1. Inv /\ [Next]_vars => Inv'
  <2> SUFFICES ASSUME Inv, [Next]_vars PROVE Inv'
    OBVIOUS
  <2>1. CASE Next
    BY <2>1, OpenRequestHolds, PrepareCmdHolds, ResetHolds, CallFailsHolds, CallHolds,
       CloseHandleHolds, WaitHolds, AbortedHolds, SignalledHolds, TimedOutHolds,
       ContinueHolds, SetAbortHolds, CompleteHolds, HandleClosingHolds DEF Next, Run
  <2>2. CASE UNCHANGED vars
    BY <2>2 DEF vars, thread, context, winhttp, Inv, TypeOK, Paired, CompletesOnce,
                OneHandle, OneCall, OwnContext, InTime, Waiting
  <2>3. QED
    BY <2>1, <2>2
<1>2. QED
  BY <1>1, InitHolds, PTL DEF Spec

\* The context is paired with its commands, not completed while a call is under
\* way, and nobody's once the request is closed (ECSConnection.cpp:149, :665,
\* :198), if handles close in time.
THEOREM ContextKept ==
  ASSUME ClosesInTime
  PROVE  Spec => []ContextInv
<1>1. Inv => ContextInv
  BY DEF Inv, ContextInv, QuietWhenClosed, OneHandle, TypeOK, Handle
<1>2. QED
  BY <1>1, InvHolds, PTL

\* A command ends by a callback of its own handle (ECSConnection.cpp:187), if
\* handles close in time.
THEOREM AnswersAreOwn ==
  ASSUME ClosesInTime
  PROVE  Spec => OwnAnswer
<1> DEFINE Own == Signalled /\ state' # "wait" =>
                    IF state' \in {"next", "idle"} THEN <<hRequest, cmd>> \in received
                                                   ELSE failed = {hRequest}
<1>1. Inv => Own
  BY DEF Inv, TypeOK, OneHandle, OwnContext, Waiting, Commands, Signalled, Ends, GotIt,
         Return, Closed, Throw, Start
<1>2. QED
  BY <1>1, InvHolds, PTL DEF OwnAnswer
=============================================================================
