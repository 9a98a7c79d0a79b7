------------------------------- MODULE Throttle -------------------------------
(***************************************************************************)
(* The bandwidth throttle of ECSUtil/ECSConnection.cpp: ThrottleMap has,   *)
(* for each host, a rate and what may still be sent in this interval.  A   *)
(* timer thread refills the share every second; requests take what they    *)
(* send from it and wait while it is negative.  SetThrottle starts the     *)
(* timer with the first host and kills it with the last.  Uploads and      *)
(* downloads have the same code; one of the two is modelled.               *)
(***************************************************************************)
EXTENDS Integers, FiniteSets

CONSTANTS Setter,     \* threads that call SetThrottle and TerminateThrottle
          Nobody,     \* none of them
          Sender,     \* threads that send requests
          Host, HostOf,
          Rates,      \* iBytesSec; 0 when only the other direction is limited
          MaxBlock,   \* the largest block of a request
          IntMax,     \* INT_MAX
          Gaps,       \* seconds between two refills when the timer is late,
                      \* or the clock was set
          MaxLate,    \* bound: such refills
          MaxCalls,   \* bound: calls of the setters
          MaxAborts   \* bound: requests that are aborted while they wait

ASSUME ThrottleAssumption ==
  /\ Nobody \notin Setter
  /\ HostOf \in [Sender -> Host] /\ IsFiniteSet(Sender)
  /\ MaxBlock \in Nat \ {0} /\ IntMax \in Nat
  /\ Rates \subseteq 0 .. IntMax
  /\ Gaps \subseteq Nat \ {0}
  /\ {MaxLate, MaxCalls, MaxAborts} \subseteq Nat

VARIABLES throttle,  \* ThrottleMap
          lock,      \* who keeps csThrottleMap from one step to the next
          timer,     \* TimerThread: what it does, and bTerminate
          setter,    \* what each call of a setter does
          astray,    \* history: since SetThrottle last started the timer
                     \* alone, calls overlapped or the start failed
          sender,    \* what each request does
          calls, aborts, late

vars == <<throttle, lock, timer, setter, sender, astray, calls, aborts, late>>
-----------------------------------------------------------------------------
\* A host that is not in the map has no entry.
NoEntry == [in |-> FALSE, sec |-> 0, cur |-> 0]

Init == /\ throttle = [h \in Host |-> NoEntry]
        /\ lock = Nobody
        /\ timer = [at |-> "none", exit |-> FALSE]
        /\ setter = [s \in Setter |-> "idle"]
        /\ sender = [u \in Sender |-> "idle"]
        /\ astray = FALSE
        /\ calls = 0 /\ aborts = 0 /\ late = 0

Limited(h) == throttle[h].sec # 0
Empty(map) == \A h \in Host : ~map[h].in

\* A number as an int keeps it.
AsInt(n) == ((n + IntMax + 1) % (2 * (IntMax + 1))) - (IntMax + 1)

GoTo(s, place) == setter' = [setter EXCEPT ![s] = place]
Alone(s) == \A t \in Setter \ {s} : setter[t] = "idle"

\* A call begins; the setters have no lock that keeps a whole call alone.
Called(s) == /\ setter[s] = "idle"
             /\ calls < MaxCalls /\ calls' = calls + 1
             /\ astray' = (astray \/ ~Alone(s))
-----------------------------------------------------------------------------
\* SetThrottle with a rate: the entry is made or changed ...
SetThrottle(s, h, r) ==
  /\ Called(s) /\ lock = Nobody
  /\ throttle' = [throttle EXCEPT ![h] = [in |-> TRUE, sec |-> r, cur |-> r]]
  /\ lock' = s
  /\ GoTo(s, "create")
  /\ UNCHANGED <<timer, sender, aborts, late>>

\* ... and the timer is started if it does not run, still under the lock.
\* Whether the start succeeded is not looked at.
CreateThread(s) ==
  /\ setter[s] = "create"
  /\ IF timer.at # "none"
     THEN UNCHANGED timer
     ELSE \E at \in {"init", "none"} : timer' = [at |-> at, exit |-> FALSE]
  /\ astray' = (timer'.at = "none" \/ ~Alone(s))
  /\ lock' = Nobody
  /\ GoTo(s, "idle")
  /\ UNCHANGED <<throttle, sender, calls, aborts, late>>

\* SetThrottle without one: with the last host the lock is released and the
\* timer killed.
RemoveThrottle(s, h) ==
  /\ Called(s) /\ lock = Nobody
  /\ throttle' = [throttle EXCEPT ![h] = NoEntry]
  /\ GoTo(s, IF Empty(throttle') THEN "kill" ELSE "idle")
  /\ UNCHANGED <<lock, timer, sender, aborts, late>>

\* TerminateThrottle: the timer first, then the map.
TerminateThrottle(s) ==
  /\ Called(s)
  /\ GoTo(s, "kill all")
  /\ UNCHANGED <<throttle, lock, timer, sender, aborts, late>>

\* Where a call is when its part of KillThreadWait is over.
Killed(s) == IF setter[s] \in {"kill", "join", "drop"} THEN "idle" ELSE "clear"

\* KillThreadWait: a timer that runs is told to end, and waited for; ...
Kill(s) ==
  /\ setter[s] \in {"kill", "kill all"}
  /\ IF timer.at = "none"
     THEN GoTo(s, Killed(s)) /\ UNCHANGED timer
     ELSE /\ timer' = [timer EXCEPT !.exit = TRUE]
          /\ GoTo(s, IF setter[s] = "kill" THEN "join" ELSE "join all")
  /\ UNCHANGED <<throttle, lock, sender, astray, calls, aborts, late>>

Join(s) ==
  /\ setter[s] \in {"join", "join all"} /\ timer.at = "none"
  /\ GoTo(s, IF setter[s] = "join" THEN "drop" ELSE "drop all")
  /\ UNCHANGED <<throttle, lock, timer, sender, astray, calls, aborts, late>>

\* ... then its work event is deleted: that of a new timer if one was started
\* meanwhile, which cannot go on without it.
DropEvent(s) ==
  /\ setter[s] \in {"drop", "drop all"}
  /\ timer' = [timer EXCEPT !.at = "none"]
  /\ GoTo(s, Killed(s))
  /\ UNCHANGED <<throttle, lock, sender, astray, calls, aborts, late>>

ClearMap(s) ==
  /\ setter[s] = "clear" /\ lock = Nobody
  /\ throttle' = [h \in Host |-> NoEntry]
  /\ GoTo(s, "idle")
  /\ UNCHANGED <<lock, timer, sender, astray, calls, aborts, late>>
-----------------------------------------------------------------------------
\* The timer thread: InitInstance, then a second's wait, unless it is to end.
TimerWait ==
  /\ timer.at \in {"init", "wait"}
  /\ timer' = [timer EXCEPT !.at = IF timer.exit THEN "end" ELSE "work"]
  /\ UNCHANGED <<throttle, lock, setter, sender, astray, calls, aborts, late>>

\* Mutant: the share is only cut, not filled.
RefilledNot(e, gap) ==
  LET share == AsInt(e.sec * gap)
  IN  [e EXCEPT !.cur = IF e.cur > share THEN share ELSE e.cur]

\* What was sent too much before is made up for; what was not used is lost.
Refilled(e, gap) ==
  LET share == AsInt(e.sec * gap)
      sum == AsInt(e.cur + share)
  IN  [e EXCEPT !.cur = IF sum > share THEN share ELSE sum]

Refill(gap) == throttle' = [h \in Host |-> Refilled(throttle[h], gap)]

\* DoWork.
DoWork ==
  /\ timer.at = "work" /\ lock = Nobody
  /\ \/ Refill(1) /\ UNCHANGED late
     \/ late < MaxLate /\ late' = late + 1 /\ \E gap \in Gaps : Refill(gap)
  /\ timer' = [timer EXCEPT !.at = "wait"]
  /\ UNCHANGED <<lock, setter, sender, astray, calls, aborts>>

TimerEnd ==
  /\ timer.at = "end"
  /\ timer' = [timer EXCEPT !.at = "none"]
  /\ UNCHANGED <<throttle, lock, setter, sender, astray, calls, aborts, late>>

Timer == TimerWait \/ DoWork \/ TimerEnd
-----------------------------------------------------------------------------
Does(u, what) == sender' = [sender EXCEPT ![u] = what]

\* IfThrottle: a request that finds no limit is never held up.
Begin(u) ==
  /\ sender[u] = "idle" /\ lock = Nobody
  /\ Does(u, IF Limited(HostOf[u]) THEN "send" ELSE "unlimited")
  /\ UNCHANGED <<throttle, lock, timer, setter, astray, calls, aborts, late>>

\* A block was sent and is taken from the share.
Take(u) ==
  /\ sender[u] = "send" /\ lock = Nobody
  /\ IF Limited(HostOf[u])
     THEN \E n \in 1 .. MaxBlock :
            throttle' = [throttle EXCEPT ![HostOf[u]].cur = AsInt(@ - n)]
     ELSE UNCHANGED throttle
  /\ Does(u, "check")
  /\ UNCHANGED <<lock, timer, setter, astray, calls, aborts, late>>

\* Mutant: the share is not looked at.
GoOnAlways(u) ==
  /\ sender[u] = "check" /\ lock = Nobody
  /\ Does(u, "send")
  /\ UNCHANGED <<throttle, lock, timer, setter, astray, calls, aborts, late>>

\* The wait is over when the share is not negative or the limit is gone.
GoOn(u) ==
  /\ sender[u] = "check" /\ lock = Nobody
  /\ Limited(HostOf[u]) => throttle[HostOf[u]].cur >= 0
  /\ Does(u, "send")
  /\ UNCHANGED <<throttle, lock, timer, setter, astray, calls, aborts, late>>

\* The last block of a stream is not counted; a request may fail.
End(u) ==
  /\ sender[u] \in {"send", "unlimited"}
  /\ Does(u, "idle")
  /\ UNCHANGED <<throttle, lock, timer, setter, astray, calls, aborts, late>>

\* TestAbort in the wait.
Abort(u) ==
  /\ sender[u] = "check" /\ aborts < MaxAborts
  /\ aborts' = aborts + 1
  /\ Does(u, "idle")
  /\ UNCHANGED <<throttle, lock, timer, setter, astray, calls, late>>
-----------------------------------------------------------------------------
GoOnWithCall(s) == CreateThread(s) \/ Kill(s) \/ Join(s) \/ DropEvent(s) \/ ClearMap(s)

Next ==
  \/ \E s \in Setter :
       \/ \E h \in Host, r \in Rates : SetThrottle(s, h, r)
       \/ \E h \in Host : RemoveThrottle(s, h)
       \/ TerminateThrottle(s)
       \/ GoOnWithCall(s)
  \/ Timer
  \/ \E u \in Sender : Begin(u) \/ Take(u) \/ GoOn(u) \/ End(u) \/ Abort(u)

Spec == Init /\ [][Next]_vars

\* The threads are scheduled.  A refill wakes every request that waits, so
\* each of them looks again and again while the share is filled.
FairSpec == /\ Spec
            /\ WF_vars(Timer)
            /\ \A s \in Setter : WF_vars(GoOnWithCall(s))
            /\ \A u \in Sender : SF_vars(GoOn(u))
-----------------------------------------------------------------------------
TypeOK ==
  /\ throttle \in [Host -> [in : BOOLEAN, sec : Rates \cup {0},
                            cur : -(IntMax + 1) .. IntMax]]
  /\ lock \in Setter \cup {Nobody}
  /\ timer \in [at : {"none", "init", "wait", "work", "end"}, exit : BOOLEAN]
  /\ setter \in [Setter -> {"idle", "create", "kill", "kill all", "join",
                            "join all", "drop", "drop all", "clear"}]
  /\ astray \in BOOLEAN
  /\ sender \in [Sender -> {"idle", "send", "check", "unlimited"}]
  /\ calls \in 0 .. MaxCalls /\ aborts \in 0 .. MaxAborts /\ late \in 0 .. MaxLate

\* What the requests of a host have sent beyond its rate is at most a block
\* each, however they overlap: one that waited makes up for the excess before
\* it sends again.  A request that is aborted does not, and a late refill may
\* overflow (ECSConnection.cpp:322).
DebtBounded ==
  late = 0 => \A h \in Host :
    throttle[h].cur >=
      -MaxBlock * (Cardinality({u \in Sender : HostOf[u] = h}) + aborts)

\* A timer is told to end only for a call that waits for its end, however the
\* calls overlap; and between calls that did not overlap, and could start it,
\* the timer runs exactly while a host has a limit (:3266, :3283).
TimerFollowsMap ==
  /\ timer.at # "none" /\ timer.exit =>
       \E s \in Setter : setter[s] \in {"join", "join all"}
  /\ ~astray /\ (\A s \in Setter : setter[s] = "idle") =>
       IF Empty(throttle) THEN timer.at = "none" ELSE timer.at # "none"

\* A request that waits for its share goes on, or is aborted, whoever else
\* sends and whatever is set meanwhile: "wait for the next time slot" (:1674).
\* Not so after calls that overlapped, or a timer that could not be started.
SendersReleased ==
  \A u \in Sender : sender[u] = "check" ~> sender[u] # "check" \/ astray

\* The calls return: the timer that is waited for was told to end, and never
\* needs the lock the caller has (:3268).  A call that waits while another
\* starts the timer anew may wait for ever.
SettersReturn ==
  \A s \in Setter : setter[s] # "idle" ~> setter[s] = "idle" \/ astray

\* Shares, debts and the timer agree with the limits that are set.
ThrottleInv == TypeOK /\ DebtBounded /\ TimerFollowsMap

\* Nobody waits for ever, neither a request for its share nor a call for the
\* end of the timer.
WaitersReleased == SendersReleased /\ SettersReturn
=============================================================================
