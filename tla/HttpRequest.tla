----------------------------- MODULE HttpRequest ------------------------------
(***************************************************************************)
(* One thread of ECSUtil/ECSConnection.cpp and the callbacks of WinHTTP    *)
(* (SendRequestInternal, PrepareCmd, WaitComplete, HttpStatusCallback).    *)
(* Every call of WinHTTP is a command: the context is reset, the call is   *)
(* made, and WaitComplete waits for the callback of that kind.  All        *)
(* requests of the thread on a connection share one context, and a request *)
(* that is abandoned must have its handle closed before the next one.      *)
(***************************************************************************)
EXTENDS Naturals, FiniteSets

CONSTANTS MaxRequests,    \* bound: requests of the thread
          MaxTicks,       \* iTimeoutMax
          ClosesInTime    \* WinHTTP closes a handle before WaitComplete gives up

ASSUME HttpAssumption ==
  MaxRequests \in Nat \ {0} /\ MaxTicks \in Nat \ {0} /\ ClosesInTime \in BOOLEAN

VARIABLES state,     \* what the thread does
          cmd,       \* the command, named by the callback that ends it
          hRequest,  \* the handle, 0 when none is open
          opened,    \* handles opened so far
          busy,      \* dwCurrentThread # 0
          ticks,     \* iTimeout
          woken,     \* the wait ended with WAIT_OBJECT_0
          evCmd,     \* a manual-reset event
          received,  \* CallbacksReceived, and the handle of each
          complete,  \* bComplete
          failed,    \* bFailed: the handles that reported an error
          error,     \* Result.dwError
          abort,     \* TestAbort
          pend,      \* external: the call WinHTTP has not finished
          closing,   \* external: handles being closed
          live       \* external: handles that may still call back

thread == <<state, cmd, hRequest, opened, busy, ticks, woken>>
context == <<evCmd, received, complete, failed, error>>
winhttp == <<pend, closing, live>>
vars == <<thread, context, abort, winhttp>>

Handle == 1 .. MaxRequests
Calls == {"send", "write", "headers", "available", "read"}
Commands == Calls \cup {"closing"}

\* The order in which SendRequestInternal issues its commands.  A response
\* may ask for credentials, and the request is sent again.  A stream that has
\* no data, a header that is missing or an abort while the throttle is waited
\* for end the request after any of them.
After(c) == {"closing"} \cup
            CASE c = "send"      -> {"write", "headers"}
              [] c = "write"     -> {"write", "headers"}
              [] c = "headers"   -> {"send", "available"}
              [] c = "available" -> {"read"}
              [] c = "read"      -> {"available"}
-----------------------------------------------------------------------------
Init ==
  /\ state = "idle" /\ cmd = "closing" /\ hRequest = 0 /\ opened = 0
  /\ busy = FALSE /\ ticks = 0 /\ woken = FALSE
  /\ evCmd = FALSE /\ received = {} /\ complete = FALSE
  /\ failed = {} /\ error = "none" /\ abort = FALSE
  /\ pend = [h \in Handle |-> "none"] /\ closing = {} /\ live = {}

Start(c) == cmd' = c /\ state' = "prepare"

\* WinHttpOpenRequest; the callback is registered.
OpenRequest ==
  /\ state = "idle" /\ opened < MaxRequests
  /\ opened' = opened + 1 /\ hRequest' = opened + 1
  /\ live' = live \cup {opened + 1}
  /\ Start("send")
  /\ UNCHANGED <<busy, ticks, woken, context, abort, pend, closing>>

\* PrepareCmd resets the event ...
PrepareCmd ==
  /\ state = "prepare"
  /\ busy' = TRUE /\ evCmd' = FALSE
  /\ state' = "reset"
  /\ UNCHANGED <<cmd, hRequest, opened, ticks, woken>>
  /\ UNCHANGED <<received, complete, failed, error, abort, winhttp>>

\* Mutant: bFailed is not reset.
CleanStale ==
  /\ received' = {} /\ complete' = FALSE /\ error' = "none"
  /\ UNCHANGED failed

\* The assignments of HTTP_CALLBACK_CONTEXT::Reset.
Clean == received' = {} /\ complete' = FALSE /\ failed' = {} /\ error' = "none"

\* ... and then the context; a callback may come in between.
Reset ==
  /\ state = "reset"
  /\ Clean
  /\ state' = "issue" /\ ticks' = 0
  /\ UNCHANGED <<cmd, hRequest, opened, busy, woken, evCmd, abort, winhttp>>

\* A command has failed: the exception leads to CloseRequest, unless the
\* request has to be sent again.
Throw(e) == IF cmd = "send" /\ e = "resend" THEN Start("send") ELSE Start("closing")

CleanupCmd == busy' = FALSE

\* The call returns FALSE; CleanupCmd follows.
CallFails ==
  /\ state = "issue" /\ cmd \in Calls
  /\ CleanupCmd
  /\ \E e \in {"resend", "error"} : Throw(e)
  /\ UNCHANGED <<hRequest, opened, ticks, woken, context, abort, winhttp>>

\* The call is accepted.
Call ==
  /\ state = "issue" /\ cmd \in Calls
  /\ pend' = [pend EXCEPT ![hRequest] = cmd]
  /\ state' = "wait"
  /\ UNCHANGED <<cmd, hRequest, opened, busy, ticks, woken, context, abort>>
  /\ UNCHANGED <<closing, live>>

\* CloseRequest: WinHttpCloseHandle.
CloseHandle ==
  /\ state = "issue" /\ cmd = "closing"
  /\ closing' = closing \cup {hRequest}
  /\ state' = "wait"
  /\ UNCHANGED <<cmd, hRequest, opened, busy, ticks, woken, context, abort>>
  /\ UNCHANGED <<pend, live>>

\* WaitForSingleObject, for a second.
Wait ==
  /\ state = "wait"
  /\ ClosesInTime => (cmd = "closing" => evCmd \/ ticks < MaxTicks)
  /\ woken' = evCmd
  /\ state' = "check"
  /\ UNCHANGED <<cmd, hRequest, opened, busy, ticks, context, abort, winhttp>>

\* WaitComplete returns: the request goes on, is abandoned, or is closed.
Closed == state' = "idle" /\ hRequest' = 0 /\ UNCHANGED cmd
Return(ok, e) ==
  /\ CleanupCmd
  /\ IF cmd = "closing" THEN Closed
     ELSE /\ IF ok THEN state' = "next" /\ UNCHANGED cmd ELSE Throw(e)
          /\ UNCHANGED hRequest

Aborted ==
  /\ state = "check" /\ cmd # "closing" /\ abort
  /\ error' = "aborted"
  /\ Return(FALSE, "aborted")
  /\ UNCHANGED <<opened, ticks, woken, evCmd, received, complete, failed>>
  /\ UNCHANGED <<abort, winhttp>>

\* Has the callback of this kind been received?  The code keeps no handles.
GotIt == \E h \in Handle : <<h, cmd>> \in received

\* Mutant: an error ends the wait for the handle as well.
EndsOnError == GotIt \/ failed # {}

\* A wait ends with the callback, or with an error unless the handle closes.
Ends == GotIt \/ (cmd # "closing" /\ failed # {})

Signalled ==
  /\ state = "check" /\ woken /\ ~(cmd # "closing" /\ abort)
  /\ received' = {}
  /\ IF Ends THEN Return(failed = {}, error)
     ELSE state' = "wait" /\ UNCHANGED <<cmd, hRequest, busy>>
  /\ UNCHANGED <<opened, ticks, woken, evCmd, complete, failed, error>>
  /\ UNCHANGED <<abort, winhttp>>

\* Mutant: the seconds are not counted.
CountedNot == UNCHANGED ticks

Counted == ticks' = ticks + 1

Expired == ticks + 1 > MaxTicks

TimedOut ==
  /\ state = "check" /\ ~woken /\ ~(cmd # "closing" /\ abort)
  /\ IF Expired
     THEN /\ error' = "timeout"
          /\ Return(FALSE, "timeout")
          /\ UNCHANGED ticks
     ELSE /\ Counted
          /\ state' = "wait"
          /\ UNCHANGED <<cmd, hRequest, busy, error>>
  /\ UNCHANGED <<opened, woken, evCmd, received, complete, failed>>
  /\ UNCHANGED <<abort, winhttp>>

\* SendRequestInternal goes on with the next command.
Continue ==
  /\ state = "next"
  /\ \E c \in After(cmd) : Start(c)
  /\ UNCHANGED <<hRequest, opened, busy, ticks, woken, context, abort, winhttp>>

\* HttpStatusCallback holds csContext.
Receive(h, status) ==
  /\ received' = received \cup {<<h, status>>}
  /\ complete' = TRUE /\ evCmd' = TRUE

\* WinHTTP has finished a call.
Complete(h) ==
  /\ pend[h] # "none" /\ pend' = [pend EXCEPT ![h] = "none"]
  /\ \/ Receive(h, pend[h]) /\ UNCHANGED <<failed, error>>
     \/ /\ Receive(h, "error")
        /\ failed' = failed \cup {h}
        /\ error' \in {"resend", "error"}
  /\ UNCHANGED <<thread, abort, closing, live>>

\* WinHTTP cancels the call of a handle that is closed.
Cancel(h) == h \in closing /\ Complete(h)

\* The last callback of a handle.
HandleClosing(h) ==
  /\ h \in closing /\ pend[h] = "none"
  /\ closing' = closing \ {h} /\ live' = live \ {h}
  /\ Receive(h, "closing")
  /\ UNCHANGED <<thread, failed, error, abort, pend>>

SetAbort == abort' = ~abort /\ UNCHANGED <<thread, context, winhttp>>

Run == OpenRequest \/ PrepareCmd \/ Reset \/ CallFails \/ Call \/ CloseHandle
         \/ Wait \/ Aborted \/ Signalled \/ TimedOut \/ Continue

Next == \/ Run
        \/ \E h \in Handle : Complete(h) \/ HandleClosing(h)
        \/ SetAbort

Spec == Init /\ [][Next]_vars

\* The thread runs and seconds pass; WinHTTP may leave any call unanswered,
\* but it closes the handles it is asked to close.
FairSpec == /\ Spec
            /\ WF_vars(Run)
            /\ \A h \in Handle : WF_vars(Cancel(h)) /\ WF_vars(HandleClosing(h))
-----------------------------------------------------------------------------
TypeOK ==
  /\ state \in {"idle", "prepare", "reset", "issue", "wait", "check", "next"}
  /\ cmd \in Commands /\ hRequest \in 0 .. MaxRequests /\ opened \in 0 .. MaxRequests
  /\ busy \in BOOLEAN /\ woken \in BOOLEAN /\ evCmd \in BOOLEAN
  /\ complete \in BOOLEAN /\ abort \in BOOLEAN
  /\ ticks \in 0 .. MaxTicks
  /\ received \subseteq Handle \X (Commands \cup {"error"})
  /\ failed \subseteq Handle
  /\ error \in {"none", "resend", "error", "aborted", "timeout"}
  /\ pend \in [Handle -> Calls \cup {"none"}]
  /\ closing \subseteq live /\ live \subseteq Handle

\* Commands do not nest and each is ended exactly once, on all ways out of
\* WaitComplete ("ASSERT(State.dwCurrentThread == 0)", ECSConnection.cpp:149).
Paired == busy <=> state \in {"reset", "issue", "wait", "check"}

\* A call that is not finished finds the context not completed, also after
\* an earlier one was abandoned ("ASSERT(!pContext->bComplete)", :665).
CompletesOnce == \A h \in Handle : pend[h] # "none" => ~complete

\* No callback is outstanding when the next request takes over the context
\* ("if it is waiting for WINHTTP_CALLBACK_STATUS_HANDLE_CLOSING, don't exit
\* until we get it", :198).
QuietWhenClosed == state = "idle" => live = {}

\* A command succeeds, or fails with an error, by a callback of its own handle
\* and never by that of an earlier request, which shares the context.
OwnAnswer ==
  [][Signalled /\ state' # "wait" =>
       IF state' \in {"next", "idle"} THEN <<hRequest, cmd>> \in received
                                      ELSE failed = {hRequest}]_vars

\* Every command ends although WinHTTP may never answer: the seconds of the
\* wait are counted whenever the event does not end it.
CommandsReturn == state \in {"wait", "check"} ~> state \notin {"wait", "check"}

\* The context serves one command at a time, is open while a call is under way,
\* and belongs to nobody once the request is closed.
ContextInv == TypeOK /\ Paired /\ CompletesOnce /\ QuietWhenClosed
=============================================================================
