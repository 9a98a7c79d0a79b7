---------------------------- MODULE ConnectionProof ---------------------------
(***************************************************************************)
(* Theorems about the parts of a connection (ECSConnection.cpp) that its   *)
(* requests share: the throttle, the sessions, and the choice of the node. *)
(* Each has variables and steps of its own, and each is proved for any     *)
(* threads, hosts, keys, addresses and lists.                              *)
(***************************************************************************)
EXTENDS Throttle, SessionPool, Failover, FiniteSetTheorems, TLAPS
-----------------------------------------------------------------------------
(***************************************************************************)
(* The throttle.                                                           *)
(***************************************************************************)
\* The shares and debts fit into an int: blocks in flight, with those of aborted requests,
\* and twice a rate, for an unused share is added to before it is cut.
SharesFit == /\ MaxBlock * (Cardinality(Sender) + MaxAborts) <= IntMax
             /\ \A r \in Rates : r + r <= IntMax

Waiters(h) == {u \in Sender : HostOf[u] = h /\ sender[u] = "check"}

\* Requests that wait, and those that were aborted while they did, owe a block each.
DebtInv ==
  late = 0 => \A h \in Host :
    /\ throttle[h].cur + MaxBlock * (Cardinality(Waiters(h)) + aborts) >= 0
    /\ throttle[h].cur <= throttle[h].sec
    /\ throttle[h].sec = 0 => throttle[h].cur = 0

\* A call that has yet to start the timer keeps the lock, so the limit it set stays.
HeldMap == \A s \in Setter : setter[s] = "create" => lock = s /\ ~Empty(throttle)

\* A timer that ends was told to, by a call that waits for it.
AskedToEnd ==
  /\ timer.at = "end" => timer.exit
  /\ timer.at # "none" /\ timer.exit => \E s \in Setter : setter[s] \in {"join", "join all"}

\* What the timer does at each step of a setter, as long as one call follows another.
InTurn ==
  ~astray =>
    /\ \A s, t \in Setter : s = t \/ setter[s] = "idle" \/ setter[t] = "idle"
    /\ (\A s \in Setter : setter[s] = "idle") => (Empty(throttle) <=> timer.at = "none")
    /\ \A s \in Setter :
         /\ setter[s] \in {"kill", "join", "drop"} => Empty(throttle)
         /\ setter[s] \in {"drop", "drop all", "clear"} => timer.at = "none"

TimerInv == HeldMap /\ AskedToEnd /\ InTurn
-----------------------------------------------------------------------------
(***************************************************************************)
(* Numbers.                                                                *)
(***************************************************************************)
\* An int keeps what fits into it.
LEMMA IntKept ==
  ASSUME NEW n \in Int
  PROVE  /\ AsInt(n) \in -(IntMax + 1) .. IntMax
         /\ n \in -(IntMax + 1) .. IntMax => AsInt(n) = n
<1> DEFINE m == 2 * (IntMax + 1)
           a == n + IntMax + 1
<1>1. IntMax \in Nat /\ m \in Nat \ {0} /\ a \in Int
  BY ThrottleAssumption
<1>2. AsInt(n) = (a % m) - (IntMax + 1)
  BY DEF AsInt
<1>3. m = IntMax + IntMax + 2
  BY <1>1
<1> HIDE DEF m
<1>4. a % m \in 0 .. m - 1
  BY <1>1
<1>5. a \in 0 .. m - 1 => a % m = a
  BY <1>1
<1>6. n \in -(IntMax + 1) .. IntMax => a \in 0 .. m - 1
  BY <1>1, <1>3
<1> QED BY <1>1, <1>2, <1>3, <1>4, <1>5, <1>6

\* The requests of a host that wait.
LEMMA WaitersSize ==
  ASSUME NEW h \in Host
  PROVE  /\ IsFiniteSet(Waiters(h)) /\ Cardinality(Waiters(h)) \in Nat
         /\ Cardinality(Waiters(h)) <= Cardinality(Sender)
         /\ Cardinality(Sender) \in Nat
<1>1. IsFiniteSet(Sender) /\ Waiters(h) \subseteq Sender
  BY ThrottleAssumption DEF Waiters
<1> QED BY <1>1, FS_Subset, FS_CardinalityType

\* Fewer requests that wait, and more that were aborted: what that does to the debt.
LEMMA DebtGrows ==
  ASSUME NEW b \in Nat, NEW c \in Nat, NEW d \in Nat, c <= d
  PROVE  b * c \in Nat /\ b * d \in Nat /\ b * c <= b * d /\ b * (c + 1) = b * c + b
OBVIOUS
-----------------------------------------------------------------------------
\* The variables keep their types.
Entry == [in : BOOLEAN, sec : Rates \cup {0}, cur : -(IntMax + 1) .. IntMax]

LEMMA EntryTyped ==
  ASSUME TypeOK, NEW h \in Host
  PROVE  /\ throttle[h] \in Entry /\ throttle[h].in \in BOOLEAN
         /\ throttle[h].sec \in Nat /\ throttle[h].sec <= IntMax
         /\ throttle[h].sec \in Rates \cup {0}
         /\ throttle[h].cur \in Int /\ throttle[h].cur \in -(IntMax + 1) .. IntMax
<1>1. throttle[h] \in Entry
  BY DEF TypeOK, Entry
<1>2. IntMax \in Nat /\ Rates \subseteq 0 .. IntMax
  BY ThrottleAssumption
<1>3. \A e \in Entry : /\ e.in \in BOOLEAN /\ e.sec \in Rates \cup {0}
                       /\ e.cur \in -(IntMax + 1) .. IntMax
  BY DEF Entry
<1>4. /\ throttle[h].in \in BOOLEAN /\ throttle[h].sec \in Rates \cup {0}
      /\ throttle[h].cur \in -(IntMax + 1) .. IntMax
  BY <1>1, <1>3
<1>5. throttle[h].sec \in Nat /\ throttle[h].sec <= IntMax
  <2>1. \A r \in Rates \cup {0} : r \in 0 .. IntMax
    BY <1>2
  <2>2. throttle[h].sec \in 0 .. IntMax
    BY <1>4, <2>1
  <2> QED BY <1>2, <2>2
<1>6. throttle[h].cur \in Int
  BY <1>2, <1>4
<1> QED BY <1>1, <1>4, <1>5, <1>6

\* The counters are numbers.
LEMMA CountersTyped ==
  /\ IntMax \in Nat /\ MaxBlock \in Nat /\ MaxAborts \in Nat /\ MaxLate \in Nat
  /\ TypeOK => aborts \in Nat /\ aborts <= MaxAborts /\ late \in Nat
<1>1. /\ IntMax \in Nat /\ MaxBlock \in Nat /\ MaxAborts \in Nat /\ MaxLate \in Nat
  BY ThrottleAssumption
<1>2. TypeOK => aborts \in 0 .. MaxAborts /\ late \in 0 .. MaxLate
  BY DEF TypeOK
<1> QED BY <1>1, <1>2

\* A refill keeps a share an int.
LEMMA RefilledTyped ==
  ASSUME TypeOK, NEW h \in Host, NEW gap \in Nat
  PROVE  /\ Refilled(throttle[h], gap) \in Entry
         /\ Refilled(throttle[h], gap).in = throttle[h].in
         /\ Refilled(throttle[h], gap).sec = throttle[h].sec
<1> DEFINE e == throttle[h]
           share == AsInt(e.sec * gap)
           sum == AsInt(e.cur + share)
           low == IF sum > share THEN share ELSE sum
<1>1. e \in Entry /\ e.sec \in Nat /\ e.cur \in Int
  BY EntryTyped
<1>2. share \in -(IntMax + 1) .. IntMax
  <2>1. e.sec * gap \in Int
    BY <1>1
  <2> QED BY <2>1, IntKept
<1>3. share \in Int
  BY <1>2, ThrottleAssumption
<1>4. sum \in -(IntMax + 1) .. IntMax
  <2>1. e.cur + share \in Int
    BY <1>1, <1>3
  <2> QED BY <2>1, IntKept
<1> HIDE DEF share, sum
<1>5. low \in -(IntMax + 1) .. IntMax
  BY <1>2, <1>4
<1>6. Refilled(e, gap) = [e EXCEPT !.cur = low]
  BY DEF Refilled, share, sum
<1> HIDE DEF low, e
<1>7. Refilled(e, gap) \in Entry /\ Refilled(e, gap).in = e.in /\ Refilled(e, gap).sec = e.sec
  BY <1>1, <1>5, <1>6 DEF Entry
<1> QED BY <1>7 DEF e

\* On time and without an overflow, a refill makes no debt and exceeds no rate.
LEMMA RefilledOnTime ==
  ASSUME TypeOK, SharesFit, NEW h \in Host, throttle[h].cur <= throttle[h].sec,
         throttle[h].cur >= -IntMax
  PROVE  /\ Refilled(throttle[h], 1).cur <= throttle[h].sec
         /\ Refilled(throttle[h], 1).cur >= 0
              \/ Refilled(throttle[h], 1).cur >= throttle[h].cur
         /\ throttle[h].sec = 0 /\ throttle[h].cur = 0 => Refilled(throttle[h], 1).cur = 0
<1> DEFINE e == throttle[h]
<1>1. e \in Entry /\ e.sec \in Nat /\ e.sec \in Rates \cup {0} /\ e.cur \in Int /\ IntMax \in Nat
      /\ e.sec <= IntMax
  BY EntryTyped, ThrottleAssumption
<1>2. e.sec * 1 = e.sec /\ AsInt(e.sec) = e.sec
  <2>1. e.sec \in -(IntMax + 1) .. IntMax /\ e.sec \in Int
    BY <1>1
  <2> QED BY <1>1, <2>1, IntKept
<1>3. AsInt(e.cur + e.sec) = e.cur + e.sec
  <2>1. e.sec + e.sec <= IntMax
    BY <1>1 DEF SharesFit
  <2>2. e.cur + e.sec \in -(IntMax + 1) .. IntMax /\ e.cur + e.sec \in Int
    BY <1>1, <2>1
  <2> QED BY <2>2, IntKept
<1> HIDE DEF e
<1>4. Refilled(e, 1) = [e EXCEPT !.cur = IF e.cur + e.sec > e.sec THEN e.sec ELSE e.cur + e.sec]
  BY <1>2, <1>3 DEF Refilled
<1>5. Refilled(e, 1).cur = IF e.cur + e.sec > e.sec THEN e.sec ELSE e.cur + e.sec
  BY <1>1, <1>4 DEF Entry
<1>6. e.cur <= e.sec
  BY DEF e
<1> QED BY <1>1, <1>5, <1>6 DEF e
-----------------------------------------------------------------------------
(***************************************************************************)
(* The steps of the throttle.                                              *)
(***************************************************************************)
SetterAt == {"idle", "create", "kill", "kill all", "join", "join all", "drop", "drop all",
             "clear"}
SenderAt == {"idle", "send", "check", "unlimited"}
Timers == [at : {"none", "init", "wait", "work", "end"}, exit : BOOLEAN]

\* Each step keeps the types.
LEMMA ThrottleTyped ==
  ASSUME TypeOK, [Next]_vars
  PROVE  TypeOK'
<1>1. /\ throttle \in [Host -> Entry] /\ timer \in Timers /\ setter \in [Setter -> SetterAt]
      /\ sender \in [Sender -> SenderAt] /\ lock \in Setter \cup {Nobody}
      /\ calls \in 0 .. MaxCalls /\ aborts \in 0 .. MaxAborts /\ late \in 0 .. MaxLate
      /\ astray \in BOOLEAN
  BY DEF TypeOK, Entry, Timers, SetterAt, SenderAt
<1>2. /\ IntMax \in Nat /\ Rates \subseteq 0 .. IntMax /\ Gaps \subseteq Nat
      /\ MaxCalls \in Nat /\ MaxAborts \in Nat /\ MaxLate \in Nat /\ MaxBlock \in Nat
      /\ HostOf \in [Sender -> Host]
  BY ThrottleAssumption
<1>3. NoEntry \in Entry
  BY <1>2 DEF NoEntry, Entry
<1>13. ASSUME NEW s \in Setter, NEW at \in SetterAt, GoTo(s, at)
       PROVE  setter' \in [Setter -> SetterAt]
  BY <1>1, <1>13 DEF GoTo
<1>14. ASSUME NEW s \in Setter, Called(s)
       PROVE  calls' \in 0 .. MaxCalls /\ astray' \in BOOLEAN
  <2>1. calls' \in 0 .. MaxCalls
    BY <1>1, <1>2, <1>14 DEF Called
  <2> QED BY <1>1, <1>14, <2>1 DEF Called, Alone
<1>4. ASSUME NEW s \in Setter, NEW h \in Host, NEW r \in Rates, SetThrottle(s, h, r)
      PROVE  TypeOK'
  <2>1. r \in 0 .. IntMax
    BY <1>2
  <2>2. [in |-> TRUE, sec |-> r, cur |-> r] \in Entry
    BY <1>2, <2>1 DEF Entry
  <2>3. throttle' \in [Host -> Entry]
    <3>1. throttle' = [throttle EXCEPT ![h] = [in |-> TRUE, sec |-> r, cur |-> r]]
      BY <1>4 DEF SetThrottle
    <3> QED BY <1>1, <2>2, <3>1
  <2>4. /\ lock' \in Setter \cup {Nobody} /\ GoTo(s, "create") /\ Called(s)
        /\ UNCHANGED <<timer, sender, aborts, late>>
    BY <1>4 DEF SetThrottle
  <2>5. setter' \in [Setter -> SetterAt]
    BY <1>13, <2>4 DEF SetterAt
  <2> QED BY <1>1, <1>14, <2>3, <2>4, <2>5 DEF TypeOK, Entry, Timers, SetterAt, SenderAt
<1>5. ASSUME NEW s \in Setter, NEW h \in Host, RemoveThrottle(s, h)
      PROVE  TypeOK'
  <2>1. throttle' \in [Host -> Entry]
    BY <1>1, <1>3, <1>5 DEF RemoveThrottle
  <2>2. PICK at \in {"kill", "idle"} : GoTo(s, at)
    BY <1>5 DEF RemoveThrottle
  <2>3. setter' \in [Setter -> SetterAt]
    BY <1>13, <2>2 DEF SetterAt
  <2>4. Called(s) /\ UNCHANGED <<lock, timer, sender, aborts, late>>
    BY <1>5 DEF RemoveThrottle
  <2> QED BY <1>1, <1>14, <2>1, <2>3, <2>4 DEF TypeOK, Entry, Timers, SetterAt, SenderAt
<1>6. ASSUME NEW s \in Setter, TerminateThrottle(s) \/ GoOnWithCall(s)
      PROVE  TypeOK'
  <2> USE DEF TerminateThrottle, GoOnWithCall, CreateThread, Kill, Join, DropEvent, ClearMap
  <2>0. PICK next \in SetterAt : GoTo(s, next)
    BY <1>6 DEF Killed, SetterAt
  <2>1. setter' \in [Setter -> SetterAt]
    BY <1>13, <2>0
  <2>2. throttle' \in [Host -> Entry]
    BY <1>1, <1>3, <1>6
  <2>3. lock' \in Setter \cup {Nobody} /\ UNCHANGED <<sender, aborts, late>>
    BY <1>1, <1>6
  <2>4. timer' \in Timers
    <3>1. \/ timer' = timer
          \/ \E at \in {"init", "none"} : timer' = [at |-> at, exit |-> FALSE]
          \/ timer' = [timer EXCEPT !.exit = TRUE]
          \/ timer' = [timer EXCEPT !.at = "none"]
      BY <1>6
    <3>2. [timer EXCEPT !.exit = TRUE] \in Timers /\ [timer EXCEPT !.at = "none"] \in Timers
      BY <1>1 DEF Timers
    <3>3. \A at \in {"init", "none"} : [at |-> at, exit |-> FALSE] \in Timers
      BY DEF Timers
    <3> QED BY <1>1, <3>1, <3>2, <3>3
  <2>5. calls' \in 0 .. MaxCalls /\ astray' \in BOOLEAN
    <3>1. CASE TerminateThrottle(s)
      BY <1>14, <3>1
    <3>2. CASE CreateThread(s)
      <4>1. (timer'.at = "none" \/ ~Alone(s)) \in BOOLEAN
        BY DEF Alone
      <4> QED BY <1>1, <3>2, <4>1
    <3>3. CASE Kill(s) \/ Join(s) \/ DropEvent(s) \/ ClearMap(s)
      BY <1>1, <3>3
    <3> QED BY <1>6, <3>1, <3>2, <3>3
  <2> QED BY <1>1, <2>1, <2>2, <2>3, <2>4, <2>5 DEF TypeOK, Entry, Timers, SetterAt, SenderAt
<1>7. CASE TimerWait \/ TimerEnd
  <2>1. timer' \in Timers /\ UNCHANGED <<throttle, lock, setter, sender, astray, calls, aborts, late>>
    BY <1>1, <1>7 DEF TimerWait, TimerEnd, Timers
  <2> QED BY <1>1, <2>1 DEF TypeOK, Entry, Timers, SetterAt, SenderAt
<1>8. CASE DoWork
  <2>1. PICK gap \in Nat : Refill(gap)
    BY <1>2, <1>8 DEF DoWork
  <2>2. throttle' \in [Host -> Entry]
    BY <2>1, RefilledTyped DEF Refill
  <2>3. /\ timer' \in Timers /\ late' \in 0 .. MaxLate
        /\ UNCHANGED <<lock, setter, sender, astray, calls, aborts>>
    BY <1>1, <1>2, <1>8 DEF DoWork, Timers
  <2> QED BY <1>1, <2>2, <2>3 DEF TypeOK, Entry, Timers, SetterAt, SenderAt
<1>9. ASSUME NEW u \in Sender, Begin(u) \/ GoOn(u) \/ End(u) \/ Abort(u)
      PROVE  TypeOK'
  <2>1. /\ sender' \in [Sender -> SenderAt] /\ aborts' \in 0 .. MaxAborts
        /\ UNCHANGED <<throttle, lock, timer, setter, astray, calls, late>>
    BY <1>1, <1>2, <1>9 DEF Begin, GoOn, End, Abort, Does, SenderAt
  <2> QED BY <1>1, <2>1 DEF TypeOK, Entry, Timers, SetterAt, SenderAt
<1>10. ASSUME NEW u \in Sender, Take(u)
       PROVE  TypeOK'
  <2>1. /\ sender' \in [Sender -> SenderAt]
        /\ UNCHANGED <<lock, timer, setter, astray, calls, aborts, late>>
    BY <1>1, <1>10 DEF Take, Does, SenderAt
  <2>2. throttle' \in [Host -> Entry]
    <3>1. CASE throttle' = throttle
      BY <1>1, <3>1
    <3>2. ASSUME NEW n \in 1 .. MaxBlock,
                 throttle' = [throttle EXCEPT ![HostOf[u]].cur = AsInt(@ - n)]
          PROVE  throttle' \in [Host -> Entry]
      <4> DEFINE h == HostOf[u]
                 k == AsInt(throttle[h].cur - n)
      <4>1. h \in Host
        BY <1>2
      <4>2. k \in -(IntMax + 1) .. IntMax
        <5>1. throttle[h].cur - n \in Int
          BY <1>2, <4>1, EntryTyped
        <5> QED BY <5>1, IntKept
      <4>3. throttle' = [throttle EXCEPT ![h] = [throttle[h] EXCEPT !.cur = k]]
        BY <3>2
      <4> HIDE DEF k, h
      <4>4. throttle[h] \in Entry
        BY <4>1, EntryTyped
      <4>5. [throttle[h] EXCEPT !.cur = k] \in Entry
        BY <4>2, <4>4 DEF Entry
      <4> QED BY <1>1, <4>1, <4>3, <4>5
    <3> QED BY <1>10, <3>1, <3>2 DEF Take
  <2> QED BY <1>1, <2>1, <2>2 DEF TypeOK, Entry, Timers, SetterAt, SenderAt
<1>11. CASE UNCHANGED vars
  BY <1>11 DEF vars, TypeOK
<1> QED BY <1>4, <1>5, <1>6, <1>7, <1>8, <1>9, <1>10, <1>11 DEF Next, Timer

\* The timer follows the map.
LEMMA TimerStep ==
  ASSUME TypeOK, TimerInv, [Next]_vars
  PROVE  TimerInv'
<1>1. timer \in Timers /\ setter \in [Setter -> SetterAt] /\ throttle \in [Host -> Entry]
      /\ astray \in BOOLEAN
  BY DEF TypeOK, Timers, SetterAt, Entry
<1>2. ~NoEntry.in /\ Nobody \notin Setter
  BY ThrottleAssumption DEF NoEntry
<1>3. HeldMap /\ AskedToEnd /\ InTurn
  BY DEF TimerInv
<1>4. ASSUME NEW s \in Setter, Called(s)
      PROVE  /\ setter[s] = "idle"
             /\ ~astray' => /\ \A t \in Setter : setter[t] = "idle"
                            /\ Empty(throttle) <=> timer.at = "none"
  <2>1. setter[s] = "idle" /\ (~astray' => ~astray /\ Alone(s))
    BY <1>4 DEF Called
  <2>2. ~astray' => \A t \in Setter : setter[t] = "idle"
    BY <2>1 DEF Alone
  <2> QED BY <1>3, <2>1, <2>2 DEF InTurn
<1>5. ASSUME NEW s \in Setter, NEW h \in Host, NEW r \in Rates, SetThrottle(s, h, r)
      PROVE  TimerInv'
  <2>1. /\ Called(s) /\ lock = Nobody /\ lock' = s /\ timer' = timer
        /\ setter' = [setter EXCEPT ![s] = "create"]
        /\ throttle' = [throttle EXCEPT ![h] = [in |-> TRUE, sec |-> r, cur |-> r]]
    BY <1>5 DEF SetThrottle, GoTo
  <2>2. ~Empty(throttle')
    <3>1. throttle'[h].in
      BY <1>1, <2>1
    <3> QED BY <3>1 DEF Empty
  <2>3. \A t \in Setter : setter[t] # "create"
    BY <1>2, <1>3, <2>1 DEF HeldMap
  <2>4. HeldMap'
    BY <1>1, <2>1, <2>2, <2>3 DEF HeldMap
  <2>5. AskedToEnd'
    BY <1>1, <1>3, <1>4, <2>1 DEF AskedToEnd
  <2>6. InTurn'
    BY <1>1, <1>4, <2>1 DEF InTurn
  <2> QED BY <2>4, <2>5, <2>6 DEF TimerInv
<1>6. ASSUME NEW s \in Setter, NEW h \in Host, RemoveThrottle(s, h)
      PROVE  TimerInv'
  <2> DEFINE at == IF Empty(throttle') THEN "kill" ELSE "idle"
  <2>1. /\ Called(s) /\ lock = Nobody /\ lock' = lock /\ timer' = timer
        /\ setter' = [setter EXCEPT ![s] = at]
        /\ throttle' = [throttle EXCEPT ![h] = NoEntry]
    BY <1>6 DEF RemoveThrottle, GoTo
  <2>2. Empty(throttle) => Empty(throttle')
    BY <1>1, <1>2, <2>1 DEF Empty
  <2>3. \A t \in Setter : setter[t] # "create"
    BY <1>2, <1>3, <2>1 DEF HeldMap
  <2>4. /\ at \in {"kill", "idle"}
        /\ at = "kill" => Empty(throttle')
        /\ at = "idle" => ~Empty(throttle')
    OBVIOUS
  <2> HIDE DEF at
  <2>5. HeldMap'
    BY <1>1, <2>1, <2>3, <2>4 DEF HeldMap
  <2>6. AskedToEnd'
    BY <1>1, <1>3, <1>4, <2>1 DEF AskedToEnd
  <2>7. InTurn'
    BY <1>1, <1>4, <2>1, <2>2, <2>4 DEF InTurn
  <2> QED BY <2>5, <2>6, <2>7 DEF TimerInv
<1>7. ASSUME NEW s \in Setter, TerminateThrottle(s)
      PROVE  TimerInv'
  <2>1. /\ Called(s) /\ UNCHANGED <<lock, timer, throttle>>
        /\ setter' = [setter EXCEPT ![s] = "kill all"]
    BY <1>7 DEF TerminateThrottle, GoTo
  <2>2. HeldMap'
    BY <1>1, <1>3, <2>1 DEF HeldMap
  <2>3. AskedToEnd'
    BY <1>1, <1>3, <1>4, <2>1 DEF AskedToEnd
  <2>4. InTurn'
    BY <1>1, <1>4, <2>1 DEF InTurn
  <2> QED BY <2>2, <2>3, <2>4 DEF TimerInv
<1>8. ASSUME NEW s \in Setter, CreateThread(s)
      PROVE  TimerInv'
  <2>1. /\ setter[s] = "create" /\ throttle' = throttle
        /\ setter' = [setter EXCEPT ![s] = "idle"]
        /\ \/ timer.at # "none" /\ timer' = timer
           \/ \E at \in {"init", "none"} : timer' = [at |-> at, exit |-> FALSE]
        /\ ~astray' => timer'.at # "none" /\ Alone(s)
    BY <1>8 DEF CreateThread, GoTo
  <2>2. ~Empty(throttle) /\ \A t \in Setter : setter[t] = "create" => t = s
    BY <1>3, <2>1 DEF HeldMap
  <2>3. HeldMap'
    BY <1>1, <2>1, <2>2 DEF HeldMap
  <2>4. AskedToEnd'
    <3>1. CASE timer' = timer
      <4>1. \A t \in Setter : setter[t] \in {"join", "join all"} => setter'[t] = setter[t]
        BY <1>1, <2>1
      <4> QED BY <1>3, <3>1, <4>1 DEF AskedToEnd
    <3>2. ASSUME NEW at \in {"init", "none"}, timer' = [at |-> at, exit |-> FALSE]
          PROVE  AskedToEnd'
      BY <3>2 DEF AskedToEnd
    <3> QED BY <2>1, <3>1, <3>2
  <2>5. ~astray' => timer'.at # "none" /\ \A t \in Setter : setter'[t] = "idle"
    BY <1>1, <2>1 DEF Alone
  <2>6. InTurn'
    BY <2>1, <2>2, <2>5 DEF InTurn
  <2> QED BY <2>3, <2>4, <2>6 DEF TimerInv
<1>9. ASSUME NEW s \in Setter, Kill(s) \/ Join(s) \/ DropEvent(s)
      PROVE  TimerInv'
  <2>1. UNCHANGED <<throttle, lock, astray>> /\ setter[s] # "create" /\ setter[s] # "idle"
    BY <1>9 DEF Kill, Join, DropEvent
  <2>2. PICK at \in SetterAt \ {"create"} : setter' = [setter EXCEPT ![s] = at]
    BY <1>9 DEF Kill, Join, DropEvent, Killed, GoTo, SetterAt
  <2>3. HeldMap'
    BY <1>1, <1>3, <2>1, <2>2 DEF HeldMap
  <2>4. ~astray => \A t \in Setter : t = s \/ setter[t] = "idle"
    BY <1>3, <2>1 DEF InTurn
  <2>5. CASE Kill(s) /\ timer.at = "none"
    <3>1. setter' = [setter EXCEPT ![s] = Killed(s)] /\ timer' = timer
          /\ setter[s] \in {"kill", "kill all"}
      BY <2>5 DEF Kill, GoTo
    <3>2. AskedToEnd'
      BY <2>5, <3>1 DEF AskedToEnd
    <3>3. InTurn'
      BY <1>1, <1>3, <2>1, <2>4, <2>5, <3>1 DEF InTurn, Killed
    <3> QED BY <2>3, <3>2, <3>3 DEF TimerInv
  <2>6. CASE Kill(s) /\ timer.at # "none"
    <3>1. /\ setter' = [setter EXCEPT ![s] = IF setter[s] = "kill" THEN "join" ELSE "join all"]
          /\ timer' = [timer EXCEPT !.exit = TRUE] /\ setter[s] \in {"kill", "kill all"}
      BY <2>6 DEF Kill, GoTo
    <3>2. timer'.at = timer.at /\ timer'.exit /\ setter'[s] \in {"join", "join all"}
      BY <1>1, <3>1 DEF Timers
    <3>3. AskedToEnd'
      BY <3>2 DEF AskedToEnd
    <3>4. InTurn'
      BY <1>1, <1>3, <2>1, <2>4, <3>1, <3>2 DEF InTurn
    <3> QED BY <2>3, <3>3, <3>4 DEF TimerInv
  <2>7. CASE Join(s)
    <3>1. setter' = [setter EXCEPT ![s] = IF setter[s] = "join" THEN "drop" ELSE "drop all"]
          /\ timer' = timer /\ timer.at = "none" /\ setter[s] \in {"join", "join all"}
      BY <2>7 DEF Join, GoTo
    <3>2. AskedToEnd'
      BY <3>1 DEF AskedToEnd
    <3>3. InTurn'
      BY <1>1, <1>3, <2>1, <2>4, <3>1 DEF InTurn
    <3> QED BY <2>3, <3>2, <3>3 DEF TimerInv
  <2>8. CASE DropEvent(s)
    <3>1. setter' = [setter EXCEPT ![s] = Killed(s)] /\ timer' = [timer EXCEPT !.at = "none"]
          /\ setter[s] \in {"drop", "drop all"}
      BY <2>8 DEF DropEvent, GoTo
    <3>2. timer'.at = "none"
      BY <1>1, <3>1 DEF Timers
    <3>3. AskedToEnd'
      BY <3>2 DEF AskedToEnd
    <3>4. InTurn'
      BY <1>1, <1>3, <2>1, <2>4, <3>1, <3>2 DEF InTurn, Killed
    <3> QED BY <2>3, <3>3, <3>4 DEF TimerInv
  <2> QED BY <1>9, <2>5, <2>6, <2>7, <2>8
<1>10. ASSUME NEW s \in Setter, ClearMap(s)
       PROVE  TimerInv'
  <2>1. /\ setter[s] = "clear" /\ lock = Nobody /\ UNCHANGED <<timer, lock, astray>>
        /\ setter' = [setter EXCEPT ![s] = "idle"]
    BY <1>10 DEF ClearMap, GoTo
  <2>2. Empty(throttle')
    BY <1>2, <1>10 DEF ClearMap, Empty
  <2>3. HeldMap'
    BY <1>1, <1>2, <1>3, <2>1 DEF HeldMap
  <2>4. AskedToEnd'
    BY <1>1, <1>3, <2>1 DEF AskedToEnd
  <2>5. InTurn'
    BY <1>1, <1>3, <2>1, <2>2 DEF InTurn
  <2> QED BY <2>3, <2>4, <2>5 DEF TimerInv
<1>11. CASE TimerWait \/ TimerEnd
  <2>1. UNCHANGED <<throttle, setter, lock, astray>>
    BY <1>11 DEF TimerWait, TimerEnd
  <2>2. /\ timer'.exit = timer.exit /\ timer.at # "none"
        /\ timer'.at = "end" => timer.exit
        /\ timer'.at = "none" => timer.exit
    BY <1>1, <1>3, <1>11 DEF TimerWait, TimerEnd, Timers, AskedToEnd
  <2>3. HeldMap'
    BY <1>3, <2>1 DEF HeldMap
  <2>4. AskedToEnd'
    BY <1>3, <2>1, <2>2 DEF AskedToEnd
  <2>5. timer'.at = "none" => \E s \in Setter : setter[s] \in {"join", "join all"}
    BY <1>3, <2>2 DEF AskedToEnd
  <2>6. ~astray => \A s \in Setter : setter[s] \notin {"drop", "drop all", "clear"}
    BY <1>3, <2>2 DEF InTurn
  <2>7. InTurn'
    BY <1>3, <2>1, <2>2, <2>5, <2>6 DEF InTurn
  <2> QED BY <2>3, <2>4, <2>7 DEF TimerInv
<1>12. ASSUME UNCHANGED <<setter, lock, astray>>, timer'.at = "none" <=> timer.at = "none",
              timer'.exit = timer.exit, timer'.at = "end" => timer.at = "end",
              \A h \in Host : throttle'[h].in = throttle[h].in
       PROVE  TimerInv'
  <2>1. Empty(throttle') <=> Empty(throttle)
    BY <1>12 DEF Empty
  <2> QED BY <1>3, <1>12, <2>1 DEF TimerInv, HeldMap, AskedToEnd, InTurn
<1>13. CASE DoWork
  <2>1. PICK gap \in Nat : Refill(gap)
    BY <1>13, ThrottleAssumption DEF DoWork
  <2>2. \A h \in Host : throttle'[h].in = throttle[h].in
    BY <2>1, RefilledTyped DEF Refill
  <2>3. timer'.at = "wait" /\ timer'.exit = timer.exit /\ timer.at = "work"
        /\ UNCHANGED <<setter, lock, astray>>
    BY <1>1, <1>13 DEF DoWork, Timers
  <2> QED BY <1>12, <2>2, <2>3
<1>14. ASSUME NEW u \in Sender, Take(u)
       PROVE  TimerInv'
  <2>1. \A h \in Host : throttle'[h].in = throttle[h].in
    BY <1>1, <1>14, ThrottleAssumption DEF Take, Entry
  <2>2. UNCHANGED <<timer, setter, lock, astray>>
    BY <1>14 DEF Take
  <2> QED BY <1>12, <2>1, <2>2
<1>15. ASSUME NEW u \in Sender, Begin(u) \/ GoOn(u) \/ End(u) \/ Abort(u)
       PROVE  TimerInv'
  <2>1. UNCHANGED <<throttle, timer, setter, lock, astray>>
    BY <1>15 DEF Begin, GoOn, End, Abort
  <2> QED BY <1>12, <2>1
<1>16. CASE UNCHANGED vars
  BY <1>12, <1>16 DEF vars
<1> QED BY <1>5, <1>6, <1>7, <1>8, <1>9, <1>10, <1>11, <1>13, <1>14, <1>15, <1>16
        DEF Next, Timer, GoOnWithCall

-----------------------------------------------------------------------------
\* What a step of a request does to those that wait.
LEMMA WaitersStep ==
  ASSUME TypeOK, NEW u \in Sender, NEW h \in Host
  PROVE  /\ Does(u, "check") /\ sender[u] # "check" /\ HostOf[u] = h =>
              Cardinality(Waiters(h)') = Cardinality(Waiters(h)) + 1
         /\ \A at \in SenderAt \ {"check"} :
              Does(u, at) /\ sender[u] = "check" /\ HostOf[u] = h =>
                Cardinality(Waiters(h)') = Cardinality(Waiters(h)) - 1
         /\ \A at \in SenderAt : Does(u, at) /\ HostOf[u] # h => Waiters(h)' = Waiters(h)
         /\ \A at \in SenderAt \ {"check"} :
              Does(u, at) /\ sender[u] # "check" => Waiters(h)' = Waiters(h)
<1>1. sender \in [Sender -> SenderAt]
  BY DEF TypeOK, SenderAt
<1>2. IsFiniteSet(Waiters(h)) /\ Cardinality(Waiters(h)) \in Nat
  BY WaitersSize
<1>3. ASSUME Does(u, "check"), sender[u] # "check", HostOf[u] = h
      PROVE  Cardinality(Waiters(h)') = Cardinality(Waiters(h)) + 1
  <2>1. Waiters(h)' = Waiters(h) \cup {u} /\ u \notin Waiters(h)
    BY <1>1, <1>3 DEF Does, Waiters
  <2> QED BY <1>2, <2>1, FS_AddElement
<1>4. ASSUME NEW at \in SenderAt \ {"check"}, Does(u, at), sender[u] = "check", HostOf[u] = h
      PROVE  Cardinality(Waiters(h)') = Cardinality(Waiters(h)) - 1
  <2>1. Waiters(h)' = Waiters(h) \ {u} /\ u \in Waiters(h)
    BY <1>1, <1>4 DEF Does, Waiters
  <2> QED BY <1>2, <2>1, FS_RemoveElement
<1>5. ASSUME NEW at \in SenderAt, Does(u, at), HostOf[u] # h
      PROVE  Waiters(h)' = Waiters(h)
  BY <1>1, <1>5 DEF Does, Waiters
<1>6. ASSUME NEW at \in SenderAt \ {"check"}, Does(u, at), sender[u] # "check"
      PROVE  Waiters(h)' = Waiters(h)
  BY <1>1, <1>6 DEF Does, Waiters
<1> QED BY <1>3, <1>4, <1>5, <1>6

\* What a host may owe: a block for each of its requests that waits or was aborted.
Owed(h) == MaxBlock * (Cardinality(Waiters(h)) + aborts)

LEMMA OwedFits ==
  ASSUME TypeOK, SharesFit, NEW h \in Host
  PROVE  Owed(h) \in Nat /\ Owed(h) <= IntMax
<1>1. /\ Cardinality(Waiters(h)) \in Nat /\ Cardinality(Sender) \in Nat
      /\ Cardinality(Waiters(h)) <= Cardinality(Sender)
  BY WaitersSize
<1>2. aborts \in Nat /\ MaxAborts \in Nat /\ aborts <= MaxAborts /\ MaxBlock \in Nat
      /\ IntMax \in Nat
  BY CountersTyped
<1>3. MaxBlock * (Cardinality(Sender) + MaxAborts) <= IntMax
  BY DEF SharesFit
<1> DEFINE c == Cardinality(Waiters(h)) + aborts
           d == Cardinality(Sender) + MaxAborts
<1>4. c \in Nat /\ d \in Nat /\ c <= d
  BY <1>1, <1>2
<1> HIDE DEF c, d
<1>5. MaxBlock * c \in Nat /\ MaxBlock * d \in Nat /\ MaxBlock * c <= MaxBlock * d
  BY <1>2, <1>4, DebtGrows
<1> QED BY <1>2, <1>3, <1>5 DEF Owed, c, d

\* Each step keeps the debts within what is owed.
HostInDebt(h) ==
  /\ throttle[h].cur + Owed(h) >= 0
  /\ throttle[h].cur <= throttle[h].sec
  /\ throttle[h].sec = 0 => throttle[h].cur = 0

LEMMA SameDebt ==
  ASSUME NEW h \in Host, HostInDebt(h), throttle'[h] = throttle[h], aborts' = aborts,
         Cardinality(Waiters(h)') = Cardinality(Waiters(h))
  PROVE  HostInDebt(h)'
BY DEF HostInDebt, Owed

LEMMA NoDebt ==
  ASSUME NEW h \in Host, NEW e \in Entry, throttle'[h] = e, TypeOK', SharesFit,
         e.cur = e.sec, e.sec \in Nat
  PROVE  HostInDebt(h)'
<1>1. Owed(h)' \in Nat
  <2>1. IsFiniteSet(Waiters(h)') /\ Cardinality(Waiters(h)') \in Nat
    <3>1. IsFiniteSet(Sender) /\ Waiters(h)' \subseteq Sender
      BY ThrottleAssumption DEF Waiters
    <3> QED BY <3>1, FS_Subset, FS_CardinalityType
  <2>2. aborts' \in Nat /\ MaxBlock \in Nat
    <3>1. aborts' \in 0 .. MaxAborts
      BY DEF TypeOK
    <3> QED BY <3>1, CountersTyped
  <2> QED BY <2>1, <2>2 DEF Owed
<1> QED BY <1>1 DEF HostInDebt

LEMMA DebtStep ==
  ASSUME TypeOK, SharesFit, DebtInv, [Next]_vars
  PROVE  DebtInv'
<1>1. /\ throttle \in [Host -> Entry] /\ sender \in [Sender -> SenderAt] /\ aborts \in Nat
      /\ late \in Nat /\ IntMax \in Nat /\ MaxBlock \in Nat /\ HostOf \in [Sender -> Host]
  <2>1. throttle \in [Host -> Entry] /\ sender \in [Sender -> SenderAt]
    BY DEF TypeOK, Entry, SenderAt
  <2>2. HostOf \in [Sender -> Host]
    BY ThrottleAssumption
  <2> QED BY <2>1, <2>2, CountersTyped
<1>2. TypeOK'
  BY ThrottleTyped
<1> SUFFICES ASSUME late' = 0, NEW h \in Host
             PROVE  HostInDebt(h)'
  BY DEF DebtInv, HostInDebt, Owed
<1>3. late = 0
  <2>1. CASE DoWork
    <3>1. late' = late \/ late' = late + 1
      BY <2>1 DEF DoWork
    <3> QED BY <1>1, <3>1
  <2>2. CASE ~DoWork
    <3>1. late' = late
      BY <2>2 DEF Next, SetThrottle, RemoveThrottle, TerminateThrottle, GoOnWithCall, CreateThread,
                  Kill, Join, DropEvent, ClearMap, Timer, TimerWait, TimerEnd, Begin, Take,
                  GoOn, End, Abort, vars
    <3> QED BY <3>1
  <2> QED BY <2>1, <2>2
<1>4. HostInDebt(h)
  BY <1>3 DEF DebtInv, HostInDebt, Owed
<1>5. NoEntry \in Entry /\ NoEntry.cur = NoEntry.sec /\ NoEntry.sec \in Nat
  BY <1>1 DEF NoEntry, Entry
<1>6. ASSUME UNCHANGED <<sender, aborts>>
      PROVE  Waiters(h)' = Waiters(h) /\ Owed(h)' = Owed(h)
  BY <1>6 DEF Waiters, Owed
<1>7. ASSUME NEW s \in Setter, NEW g \in Host, NEW r \in Rates, SetThrottle(s, g, r)
      PROVE  HostInDebt(h)'
  <2>1. throttle' = [throttle EXCEPT ![g] = [in |-> TRUE, sec |-> r, cur |-> r]]
        /\ UNCHANGED <<sender, aborts>>
    BY <1>7 DEF SetThrottle
  <2>2. CASE g = h
    <3> DEFINE e == [in |-> TRUE, sec |-> r, cur |-> r]
    <3>1. r \in 0 .. IntMax
      BY ThrottleAssumption
    <3>2. e \in Entry /\ e.cur = e.sec /\ e.sec \in Nat /\ throttle'[h] = e
      BY <1>1, <2>1, <2>2, <3>1 DEF Entry
    <3> HIDE DEF e
    <3> QED BY <1>2, <3>2, NoDebt
  <2>3. CASE g # h
    BY <1>1, <1>4, <1>6, <2>1, <2>3, SameDebt
  <2> QED BY <2>2, <2>3
<1>8. ASSUME NEW s \in Setter, NEW g \in Host, RemoveThrottle(s, g)
      PROVE  HostInDebt(h)'
  <2>1. throttle' = [throttle EXCEPT ![g] = NoEntry] /\ UNCHANGED <<sender, aborts>>
    BY <1>8 DEF RemoveThrottle
  <2>2. CASE g = h
    BY <1>1, <1>2, <1>5, <2>1, <2>2, NoDebt
  <2>3. CASE g # h
    BY <1>1, <1>4, <1>6, <2>1, <2>3, SameDebt
  <2> QED BY <2>2, <2>3
<1>9. ASSUME NEW s \in Setter, ClearMap(s)
      PROVE  HostInDebt(h)'
  <2>1. throttle'[h] = NoEntry
    BY <1>9 DEF ClearMap
  <2> QED BY <1>2, <1>5, <2>1, NoDebt
<1>10. ASSUME UNCHANGED <<throttle, sender, aborts>>
       PROVE  HostInDebt(h)'
  BY <1>4, <1>6, <1>10, SameDebt
<1>11. ASSUME NEW s \in Setter,
              TerminateThrottle(s) \/ CreateThread(s) \/ Kill(s) \/ Join(s) \/ DropEvent(s)
       PROVE  UNCHANGED <<throttle, sender, aborts>>
  BY <1>11 DEF TerminateThrottle, CreateThread, Kill, Join, DropEvent
<1>12. CASE DoWork
  <2>1. Refill(1) /\ UNCHANGED <<sender, aborts>>
    BY <1>1, <1>3, <1>12 DEF DoWork
  <2>2. throttle'[h] = Refilled(throttle[h], 1)
    BY <2>1 DEF Refill
  <2>3. Owed(h) \in Nat /\ Owed(h) <= IntMax
    BY OwedFits
  <2>4. throttle[h].cur \in Int /\ throttle[h].cur >= -IntMax /\ throttle[h].sec \in Nat
    BY <1>1, <1>4, <2>3, EntryTyped DEF HostInDebt
  <2>5. /\ Refilled(throttle[h], 1).cur <= throttle[h].sec
        /\ \/ Refilled(throttle[h], 1).cur >= 0
           \/ Refilled(throttle[h], 1).cur >= throttle[h].cur
        /\ throttle[h].sec = 0 /\ throttle[h].cur = 0 => Refilled(throttle[h], 1).cur = 0
    BY <1>4, <2>4, RefilledOnTime DEF HostInDebt
  <2>6. Refilled(throttle[h], 1).sec = throttle[h].sec /\ Refilled(throttle[h], 1) \in Entry
    BY RefilledTyped
  <2>7. throttle'[h].cur \in Int
    BY <1>2, EntryTyped, <2>2, <2>6, <1>1 DEF Entry
  <2>8. throttle'[h].cur <= throttle[h].sec /\ throttle'[h].sec = throttle[h].sec
        /\ (throttle'[h].cur >= 0 \/ throttle'[h].cur >= throttle[h].cur)
        /\ (throttle[h].sec = 0 /\ throttle[h].cur = 0 => throttle'[h].cur = 0)
    BY <2>2, <2>5, <2>6
  <2>9. Owed(h)' = Owed(h)
    BY <1>6, <2>1
  <2> QED BY <1>4, <2>3, <2>4, <2>7, <2>8, <2>9 DEF HostInDebt
<1>13. CASE TimerWait \/ TimerEnd
  BY <1>10, <1>13 DEF TimerWait, TimerEnd
<1>14. ASSUME NEW u \in Sender, Begin(u) \/ End(u)
       PROVE  HostInDebt(h)'
  <2>1. PICK at \in SenderAt \ {"check"} : Does(u, at)
    BY <1>14 DEF Begin, End, SenderAt
  <2>2. sender[u] # "check" /\ UNCHANGED <<throttle, aborts>>
    BY <1>14 DEF Begin, End
  <2>3. Waiters(h)' = Waiters(h)
    BY <2>1, <2>2, WaitersStep
  <2> QED BY <1>4, <2>2, <2>3, SameDebt
<1>15. ASSUME NEW u \in Sender, Take(u)
       PROVE  HostInDebt(h)'
  <2>1. Does(u, "check") /\ sender[u] = "send" /\ aborts' = aborts
    BY <1>15 DEF Take
  <2>2. CASE HostOf[u] # h
    <3>1. Waiters(h)' = Waiters(h)
      BY <2>1, <2>2, WaitersStep DEF SenderAt
    <3>2. throttle'[h] = throttle[h]
      BY <1>1, <1>15, <2>2 DEF Take
    <3> QED BY <1>4, <2>1, <3>1, <3>2, SameDebt
  <2>3. CASE HostOf[u] = h
    <3> DEFINE c == Cardinality(Waiters(h))
               cur == throttle[h].cur
    <3>1. Cardinality(Waiters(h)') = c + 1 /\ c \in Nat
      BY <2>1, <2>3, WaitersStep, WaitersSize
    <3>2. Owed(h)' = Owed(h) + MaxBlock /\ Owed(h) \in Nat
      <4>1. c + aborts \in Nat /\ (c + 1) + aborts = (c + aborts) + 1
        BY <1>1, <3>1
      <4>2. MaxBlock * ((c + aborts) + 1) = MaxBlock * (c + aborts) + MaxBlock
            /\ MaxBlock * (c + aborts) \in Nat
        <5> DEFINE k == c + aborts
        <5>1. k \in Nat /\ k <= k /\ MaxBlock \in Nat
          BY <1>1, <4>1
        <5> HIDE DEF k
        <5>2. MaxBlock * (k + 1) = MaxBlock * k + MaxBlock /\ MaxBlock * k \in Nat
          BY <5>1, DebtGrows
        <5> QED BY <5>2 DEF k
      <4>3. Owed(h)' = MaxBlock * ((c + 1) + aborts)
        BY <2>1, <3>1 DEF Owed
      <4> QED BY <4>1, <4>2, <4>3 DEF Owed
    <3>3. Owed(h)' <= IntMax
      <4>1. Cardinality(Waiters(h)') <= Cardinality(Sender) /\ Cardinality(Sender) \in Nat
        <5>1. IsFiniteSet(Sender) /\ Waiters(h)' \subseteq Sender
          BY ThrottleAssumption DEF Waiters
        <5> QED BY <5>1, FS_Subset, FS_CardinalityType
      <4> DEFINE a == (c + 1) + aborts
                 d == Cardinality(Sender) + MaxAborts
      <4>2. a \in Nat /\ d \in Nat /\ a <= d
        BY <1>1, <3>1, <4>1, CountersTyped
      <4>3. Owed(h)' = MaxBlock * a /\ MaxBlock * d <= IntMax
        BY <2>1, <3>1 DEF Owed, SharesFit
      <4> HIDE DEF a, d
      <4>4. MaxBlock * a <= MaxBlock * d /\ MaxBlock * a \in Nat /\ MaxBlock * d \in Nat
        BY <1>1, <4>2, DebtGrows
      <4> QED BY <1>1, <4>3, <4>4
    <3>4. cur \in Int /\ cur + Owed(h) >= 0 /\ cur <= throttle[h].sec /\ throttle[h].sec \in Nat
          /\ cur \in -(IntMax + 1) .. IntMax /\ throttle[h] \in Entry
      BY <1>4, EntryTyped DEF HostInDebt
    <3>5. CASE ~Limited(h)
      <4>1. throttle' = throttle
        BY <1>15, <2>3, <3>5 DEF Take
      <4> QED BY <1>1, <1>4, <3>2, <3>4, <4>1 DEF HostInDebt
    <3>6. CASE Limited(h)
      <4>1. PICK n \in 1 .. MaxBlock :
              throttle' = [throttle EXCEPT ![h].cur = AsInt(@ - n)]
        BY <1>15, <2>3, <3>6 DEF Take
      <4>2. AsInt(cur - n) = cur - n
        <5>1. cur - n \in -(IntMax + 1) .. IntMax /\ cur - n \in Int
          BY <1>1, <3>2, <3>3, <3>4
        <5> QED BY <5>1, IntKept
      <4>3. throttle'[h] = [throttle[h] EXCEPT !.cur = cur - n]
        BY <1>1, <4>1, <4>2
      <4>4. throttle'[h].cur = cur - n /\ throttle'[h].sec = throttle[h].sec
        BY <3>4, <4>3 DEF Entry
      <4>5. throttle[h].sec # 0
        BY <3>6 DEF Limited
      <4>6. n \in Nat /\ n <= MaxBlock
        BY <1>1
      <4>7. cur - n + Owed(h)' >= 0 /\ cur - n <= throttle[h].sec
        BY <1>1, <3>2, <3>4, <4>6
      <4> QED BY <4>4, <4>5, <4>7 DEF HostInDebt
    <3> QED BY <3>5, <3>6
  <2> QED BY <2>2, <2>3
<1>16. ASSUME NEW u \in Sender, GoOn(u) \/ Abort(u)
       PROVE  HostInDebt(h)'
  <2>1. PICK at \in SenderAt \ {"check"} : Does(u, at)
    BY <1>16 DEF GoOn, Abort, SenderAt
  <2>2. sender[u] = "check" /\ throttle' = throttle
    BY <1>16 DEF GoOn, Abort
  <2>3. aborts' = aborts \/ (Abort(u) /\ aborts' = aborts + 1)
    BY <1>16 DEF GoOn, Abort
  <2> DEFINE c == Cardinality(Waiters(h))
             cur == throttle[h].cur
  <2>4. c \in Nat /\ cur \in Int /\ cur + Owed(h) >= 0
    BY <1>4, WaitersSize, EntryTyped DEF HostInDebt
  <2>5. CASE HostOf[u] # h
    <3>1. Waiters(h)' = Waiters(h)
      BY <2>1, <2>5, WaitersStep
    <3>2. Owed(h)' >= Owed(h) /\ Owed(h)' \in Nat /\ Owed(h) \in Nat
      <4> HIDE DEF c
      <4>1. Owed(h)' = MaxBlock * (c + aborts') /\ Owed(h) = MaxBlock * (c + aborts)
        BY <3>1 DEF Owed, c
      <4>2. c + aborts \in Nat /\ c + aborts' \in Nat /\ c + aborts <= c + aborts'
        BY <1>1, <2>3, <2>4
      <4> QED BY <1>1, <4>1, <4>2, DebtGrows
    <3> QED BY <1>4, <2>2, <2>4, <3>2 DEF HostInDebt
  <2>6. CASE HostOf[u] = h
    <3>1. Cardinality(Waiters(h)') = c - 1 /\ c - 1 \in Nat
      <4>1. Cardinality(Waiters(h)') = c - 1
        BY <2>1, <2>2, <2>6, WaitersStep
      <4>2. IsFiniteSet(Waiters(h)') /\ Cardinality(Waiters(h)') \in Nat
        <5>1. IsFiniteSet(Sender) /\ Waiters(h)' \subseteq Sender
          BY ThrottleAssumption DEF Waiters
        <5> QED BY <5>1, FS_Subset, FS_CardinalityType
      <4> QED BY <4>1, <4>2
    <3>2. Owed(h)' = MaxBlock * (c - 1 + aborts') /\ Owed(h)' \in Nat
      <4>1. Owed(h)' = MaxBlock * (c - 1 + aborts')
        BY <3>1 DEF Owed
      <4>2. c - 1 + aborts' \in Nat
        BY <1>1, <2>3, <3>1
      <4> HIDE DEF c
      <4> QED BY <1>1, <4>1, <4>2, DebtGrows
    <3>3. CASE GoOn(u)
      <4>1. cur >= 0
        <5>1. CASE Limited(h)
          BY <2>6, <3>3, <5>1 DEF GoOn
        <5>2. CASE ~Limited(h)
          BY <1>4, <5>2 DEF Limited, HostInDebt
        <5> QED BY <5>1, <5>2
      <4> QED BY <1>4, <2>2, <2>4, <3>2, <4>1 DEF HostInDebt
    <3>4. CASE Abort(u)
      <4>1. aborts' = aborts + 1
        BY <3>4 DEF Abort
      <4>2. c - 1 + aborts' = c + aborts
        BY <1>1, <2>4, <4>1
      <4>3. Owed(h)' = Owed(h)
        BY <3>2, <4>2 DEF Owed
      <4> QED BY <1>4, <2>2, <4>3 DEF HostInDebt
    <3> QED BY <1>16, <3>3, <3>4
  <2> QED BY <2>5, <2>6
<1>17. CASE UNCHANGED vars
  BY <1>10, <1>17 DEF vars
<1> QED BY <1>7, <1>8, <1>9, <1>10, <1>11, <1>12, <1>13, <1>14, <1>15, <1>16, <1>17
        DEF Next, Timer, GoOnWithCall
-----------------------------------------------------------------------------
LEMMA ThrottleStart == Init => TypeOK /\ DebtInv /\ TimerInv
<1> SUFFICES ASSUME Init
             PROVE  TypeOK /\ DebtInv /\ TimerInv
  OBVIOUS
<1>1. /\ \A h \in Host : throttle[h] = NoEntry
      /\ throttle \in [Host -> {NoEntry}] /\ timer = [at |-> "none", exit |-> FALSE]
      /\ setter = [s \in Setter |-> "idle"] /\ sender = [u \in Sender |-> "idle"]
      /\ lock = Nobody /\ calls = 0 /\ aborts = 0 /\ late = 0 /\ astray = FALSE
  BY DEF Init
<1>2. IntMax \in Nat /\ MaxCalls \in Nat /\ MaxAborts \in Nat /\ MaxLate \in Nat /\ MaxBlock \in Nat
  BY ThrottleAssumption
<1>3. NoEntry \in Entry
  BY <1>2 DEF NoEntry, Entry
<1>4. TypeOK
  <2>1. throttle \in [Host -> Entry]
    BY <1>1, <1>3
  <2>2. timer \in Timers /\ setter \in [Setter -> SetterAt] /\ sender \in [Sender -> SenderAt]
    BY <1>1 DEF Timers, SetterAt, SenderAt
  <2>3. calls \in 0 .. MaxCalls /\ aborts \in 0 .. MaxAborts /\ late \in 0 .. MaxLate
    BY <1>1, <1>2
  <2> QED BY <1>1, <2>1, <2>2, <2>3 DEF TypeOK, Entry, Timers, SetterAt, SenderAt
<1>5. DebtInv
  <2> SUFFICES ASSUME NEW h \in Host
               PROVE  HostInDebt(h)
    BY DEF DebtInv, HostInDebt, Owed
  <2>1. Owed(h) \in Nat
    <3>1. Cardinality(Waiters(h)) + aborts \in Nat
      BY <1>1, WaitersSize
    <3> DEFINE c == Cardinality(Waiters(h)) + aborts
    <3> HIDE DEF c
    <3>2. MaxBlock * c \in Nat
      BY <1>2, <3>1, DebtGrows DEF c
    <3> QED BY <3>2 DEF Owed, c
  <2> QED BY <1>1, <2>1 DEF HostInDebt, NoEntry
<1>6. TimerInv
  BY <1>1 DEF TimerInv, HeldMap, AskedToEnd, InTurn, Empty, NoEntry
<1> QED BY <1>4, <1>5, <1>6

\* Requests that wait are requests of the host.
LEMMA DebtWithinBound ==
  ASSUME TypeOK, DebtInv
  PROVE  DebtBounded
<1> SUFFICES ASSUME late = 0, NEW h \in Host
             PROVE  throttle[h].cur >=
                      -MaxBlock * (Cardinality({u \in Sender : HostOf[u] = h}) + aborts)
  BY DEF DebtBounded
<1> DEFINE c == Cardinality(Waiters(h))
           d == Cardinality({u \in Sender : HostOf[u] = h})
<1>1. c \in Nat /\ d \in Nat /\ c <= d
  <2>1. IsFiniteSet(Sender) /\ {u \in Sender : HostOf[u] = h} \subseteq Sender
    BY ThrottleAssumption
  <2>2. IsFiniteSet({u \in Sender : HostOf[u] = h}) /\ d \in Nat
    BY <2>1, FS_Subset, FS_CardinalityType
  <2>3. Waiters(h) \subseteq {u \in Sender : HostOf[u] = h}
    BY DEF Waiters
  <2> QED BY <2>2, <2>3, WaitersSize, FS_Subset
<1>2. throttle[h].cur + MaxBlock * (c + aborts) >= 0 /\ throttle[h].cur \in Int
  BY EntryTyped DEF DebtInv
<1> HIDE DEF c, d
<1>3. c + aborts \in Nat /\ d + aborts \in Nat /\ c + aborts <= d + aborts /\ MaxBlock \in Nat
  BY <1>1, CountersTyped
<1>4. /\ MaxBlock * (c + aborts) \in Nat /\ MaxBlock * (d + aborts) \in Nat
      /\ MaxBlock * (c + aborts) <= MaxBlock * (d + aborts)
  BY <1>3, DebtGrows
<1>5. throttle[h].cur >= -(MaxBlock * (d + aborts))
  BY <1>2, <1>4
<1>6. (-MaxBlock) * (d + aborts) = -(MaxBlock * (d + aborts))
  BY <1>3
<1> QED BY <1>5, <1>6 DEF d

LEMMA TimerWithMap ==
  ASSUME TimerInv
  PROVE  TimerFollowsMap
  BY DEF TimerInv, AskedToEnd, InTurn, TimerFollowsMap

\* The map, the timer thread, its setters and the requests stay within their types, whatever
\* the clock does and however many threads set limits (ECSConnection.cpp:3245).
THEOREM ThrottleTypes == Spec => []TypeOK
<1>1. Init => TypeOK
  BY ThrottleStart
<1>2. TypeOK /\ [Next]_vars => TypeOK'
  BY ThrottleTyped
<1> QED BY <1>1, <1>2, PTL DEF Spec

\* Whoever sets limits, the requests of a host owe at most a block each as long as the timer
\* is on time, if the debts and twice a rate fit into an int (ECSConnection.cpp:319).
THEOREM DebtStaysBounded ==
  ASSUME SharesFit
  PROVE  Spec => []DebtBounded
<1>1. Init => TypeOK /\ DebtInv
  BY ThrottleStart
<1>2. TypeOK /\ DebtInv /\ [Next]_vars => (TypeOK /\ DebtInv)'
  BY ThrottleTyped, DebtStep
<1>3. TypeOK /\ DebtInv => DebtBounded
  BY DebtWithinBound
<1> QED BY <1>1, <1>2, <1>3, PTL DEF Spec

\* However many threads set limits, whatever the shares are: a timer ends only for a call that
\* waits for it, and between calls that were made one after the other and could start it, it
\* runs exactly while a host has a limit (ECSConnection.cpp:3266, 3283).
THEOREM TimerKeepsPace == Spec => []TimerFollowsMap
<1>1. Init => TypeOK /\ TimerInv
  BY ThrottleStart
<1>2. TypeOK /\ TimerInv /\ [Next]_vars => (TypeOK /\ TimerInv)'
  BY ThrottleTyped, TimerStep
<1>3. TimerInv => TimerFollowsMap
  BY TimerWithMap
<1> QED BY <1>1, <1>2, <1>3, PTL DEF Spec

\* Shares, debts and the timer agree with the limits that are set.
THEOREM ThrottleSound ==
  ASSUME SharesFit
  PROVE  Spec => []ThrottleInv
<1>1. TypeOK /\ DebtBounded /\ TimerFollowsMap <=> ThrottleInv
  BY DEF ThrottleInv
<1> QED BY <1>1, ThrottleTypes, DebtStaysBounded, TimerKeepsPace, PTL
-----------------------------------------------------------------------------
(***************************************************************************)
(* The sessions.  The inductive invariant is the conjunction of what the   *)
(* run checks, and that the keys of the map are keys given out before.     *)
(***************************************************************************)
MapKnown == inUse \subseteq map /\ map \subseteq used

SessionInv == SessionTypeOK /\ MapKnown /\ LeaseIsSound /\ NoneLost /\ NoneObsolete

\* The empty pool is correct.
LEMMA SessionsStart == SessionInit => SessionInv
<1> SUFFICES ASSUME SessionInit PROVE SessionInv
  OBVIOUS
<1> USE SessionAssumption
<1>1. SessionTypeOK
  BY DEF SessionInit, SessionTypeOK, Closed
<1>2. QED
  BY <1>1 DEF SessionInit, SessionInv, MapKnown, LeaseIsSound, NoneLost, NoneObsolete

\* A request takes a session of the pool.
LEMMA AllocKeeps ==
  ASSUME SessionInv, NEW u \in User, AllocSession(u)
  PROVE  SessionInv'
<1> USE SessionAssumption
<1>1. PICK p \in Place, k \in Key : Claim(u, p, k) \/ Create(u, p, k)
  BY DEF AllocSession
<1>2. step[u] = "idle" /\ lease[u] = NoKey /\ UNCHANGED <<changer, settings, since>>
  BY DEF AllocSession, SessionInv, LeaseIsSound
<1>3. step' = [step EXCEPT ![u] = "open"] /\ lease' = [lease EXCEPT ![u] = k]
  BY <1>1 DEF AllocSession, SetStep, Claim, Create
<1>4. \A v \in User : lease[v] # k
  BY <1>1 DEF SessionInv, MapKnown, LeaseIsSound, Claim, Create, Free
<1>5. inUse' = inUse \cup {k} /\ map' = map \cup {k}
  BY <1>1 DEF Claim, Create, Free
<1>6. SessionTypeOK'
  BY <1>1, <1>2, <1>3, <1>5 DEF SessionInv, SessionTypeOK, Claim, Create, Closed
<1>7. LeaseIsSound'
  BY <1>2, <1>3, <1>4, <1>5 DEF SessionInv, SessionTypeOK, LeaseIsSound
<1>8. NoneLost'
  BY <1>2, <1>3, <1>5 DEF SessionInv, SessionTypeOK, NoneLost
<1>9. NoneObsolete' /\ MapKnown'
  <2>1. CASE Claim(u, p, k)
    BY <1>2, <1>5, <2>1 DEF SessionInv, NoneObsolete, MapKnown, Claim, Free, Closed
  <2>2. CASE Create(u, p, k)
    BY <1>2, <1>5, <2>2 DEF SessionInv, SessionTypeOK, NoneObsolete, MapKnown, Create, Closed
  <2>3. QED
    BY <1>1, <2>1, <2>2
<1>10. QED
  BY <1>6, <1>7, <1>8, <1>9 DEF SessionInv

\* Its request opens the session, and ends.
LEMMA RequestKeeps ==
  ASSUME SessionInv, NEW u \in User, InitSession(u) \/ RequestFails(u) \/ RequestDone(u)
  PROVE  SessionInv'
<1> USE SessionAssumption
<1>1. lease[u] \in map \cap inUse \cap Key /\ lease' = lease
  BY DEF SessionInv, SessionTypeOK, LeaseIsSound, InitSession, RequestFails, RequestDone,
         poolVars
<1>2. UNCHANGED <<map, inUse, used, settings, since, changer>>
  BY DEF InitSession, RequestFails, RequestDone, poolVars
<1>3. PICK s \in {"send", "release"} : step' = [step EXCEPT ![u] = s]
  BY DEF InitSession, RequestFails, RequestDone, SetStep
<1>4. step[u] # "idle" /\ MapKnown'
  BY <1>2 DEF InitSession, RequestFails, RequestDone, SessionInv, MapKnown
<1>5. LeaseIsSound' /\ NoneLost'
  BY <1>1, <1>2, <1>3, <1>4 DEF SessionInv, SessionTypeOK, LeaseIsSound, NoneLost
<1>6. CASE InitSession(u)
  <2>1. opened' = [opened EXCEPT ![lease[u]] =
                     IF opened[lease[u]] = Closed THEN settings ELSE opened[lease[u]]]
        /\ UNCHANGED <<place, killed>>
    BY <1>6 DEF InitSession
  <2>2. SessionTypeOK'
    BY <1>1, <1>2, <1>3, <2>1 DEF SessionInv, SessionTypeOK, Closed
  <2>3. NoneObsolete'
    BY <1>1, <1>2, <2>1 DEF SessionInv, SessionTypeOK, NoneObsolete, Closed
  <2>4. QED
    BY <1>4, <1>5, <2>2, <2>3 DEF SessionInv
<1>7. CASE RequestFails(u)
  <2>1. killed' = killed \cup {lease[u]} /\ UNCHANGED <<place, opened>>
    BY <1>7 DEF RequestFails
  <2>2. SessionTypeOK' /\ NoneObsolete'
    BY <1>1, <1>2, <1>3, <2>1 DEF SessionInv, SessionTypeOK, NoneObsolete, Closed
  <2>3. QED
    BY <1>4, <1>5, <2>2 DEF SessionInv
<1>8. CASE RequestDone(u)
  <2>1. UNCHANGED <<place, opened, killed>>
    BY <1>8 DEF RequestDone, poolVars
  <2>2. SessionTypeOK' /\ NoneObsolete'
    BY <1>1, <1>2, <1>3, <2>1 DEF SessionInv, SessionTypeOK, NoneObsolete, Closed
  <2>3. QED
    BY <1>4, <1>5, <2>2 DEF SessionInv
<1>9. QED
  BY <1>6, <1>7, <1>8

\* It gives the session back.
LEMMA ReleaseKeeps ==
  ASSUME SessionInv, NEW u \in User, ReleaseSession(u)
  PROVE  SessionInv'
<1> USE SessionAssumption
<1> DEFINE k == lease[u]
<1>1. /\ map' = map \ (killed \cap {k}) /\ killed' = killed \ {k}
      /\ inUse' = inUse \ {k}
      /\ lease' = [lease EXCEPT ![u] = NoKey] /\ step' = [step EXCEPT ![u] = "idle"]
      /\ UNCHANGED <<place, opened, used, settings, since, changer>>
  BY DEF ReleaseSession, SetStep
<1>2. k \in map \cap inUse \cap Key /\ \A v \in User : lease[v] = k => v = u
  BY DEF ReleaseSession, SessionInv, SessionTypeOK, LeaseIsSound
<1>3. SessionTypeOK'
  BY <1>1 DEF SessionInv, SessionTypeOK
<1>4. MapKnown' /\ NoneObsolete'
  BY <1>1, <1>2 DEF SessionInv, MapKnown, NoneObsolete
<1>5. LeaseIsSound' /\ NoneLost'
  <2>1. ASSUME NEW v \in User, v # u
        PROVE  lease'[v] = lease[v] /\ step'[v] = step[v] /\ lease[v] # k
    BY <1>1, <1>2, <2>1 DEF SessionInv, SessionTypeOK
  <2>2. lease'[u] = NoKey /\ step'[u] = "idle"
    BY <1>1 DEF SessionInv, SessionTypeOK
  <2>3. LeaseIsSound'
    BY <1>1, <2>1, <2>2 DEF SessionInv, SessionTypeOK, LeaseIsSound
  <2>4. NoneLost'
    BY <1>1, <2>1 DEF SessionInv, SessionTypeOK, NoneLost
  <2>5. QED
    BY <2>3, <2>4
<1>6. QED
  BY <1>3, <1>4, <1>5 DEF SessionInv

\* The settings change and the pool is cleaned.
LEMMA CleaningKeeps ==
  ASSUME SessionInv,
         \/ SetHost \/ Change \/ KillAfterChange \/ SetUserAgent
         \/ \E ks \in SUBSET map : GarbageCollect(ks)
  PROVE  SessionInv'
<1> USE SessionAssumption
<1>1. UNCHANGED <<place, inUse, opened, used, lease, step>>
  BY DEF SetHost, Change, KillAfterChange, SetUserAgent, KillHostSessions,
         GarbageCollect, poolVars
<1>2. inUse \subseteq map' /\ map' \subseteq map
  BY DEF SetHost, Change, KillAfterChange, SetUserAgent, KillHostSessions,
         GarbageCollect, poolVars, Free, SessionInv, MapKnown
<1>3. MapKnown' /\ LeaseIsSound' /\ NoneLost'
  BY <1>1, <1>2 DEF SessionInv, MapKnown, LeaseIsSound, NoneLost
<1>4. CASE SetHost \/ KillAfterChange
  <2>1. map' = inUse /\ killed' = inUse
    BY <1>4 DEF SetHost, KillAfterChange, KillHostSessions, SessionInv, MapKnown
  <2>2. SessionTypeOK'
    BY <1>1, <1>4, <2>1 DEF SetHost, KillAfterChange, SessionInv, SessionTypeOK
  <2>3. NoneObsolete'
    BY <1>1, <2>1 DEF NoneObsolete
  <2>4. QED
    BY <1>3, <2>2, <2>3 DEF SessionInv
<1>5. CASE Change \/ SetUserAgent
  <2>1. SessionTypeOK'
    BY <1>1, <1>5 DEF Change, SetUserAgent, poolVars, SessionInv, SessionTypeOK
  <2>2. NoneObsolete'
    BY <1>5 DEF Change, SetUserAgent, poolVars, SessionInv, NoneObsolete
  <2>3. QED
    BY <1>3, <2>1, <2>2 DEF SessionInv
<1>6. CASE \E ks \in SUBSET map : GarbageCollect(ks)
  <2>1. UNCHANGED <<killed, settings, since, changer>>
    BY <1>6 DEF GarbageCollect
  <2>2. SessionTypeOK' /\ NoneObsolete'
    BY <1>1, <1>2, <2>1 DEF SessionInv, SessionTypeOK, NoneObsolete, Closed
  <2>3. QED
    BY <1>3, <2>2 DEF SessionInv
<1>7. QED
  BY <1>4, <1>5, <1>6

\* Every step keeps the invariant.
LEMMA SessionStep == SessionInv /\ [SessionNext]_sessionVars => SessionInv'
<1> SUFFICES ASSUME SessionInv, [SessionNext]_sessionVars PROVE SessionInv'
  OBVIOUS
<1>1. CASE \E u \in User : AllocSession(u)
  BY <1>1, AllocKeeps
<1>2. CASE \E u \in User : InitSession(u) \/ RequestFails(u) \/ RequestDone(u)
  BY <1>2, RequestKeeps
<1>3. CASE \E u \in User : ReleaseSession(u)
  BY <1>3, ReleaseKeeps
<1>4. CASE \/ SetHost \/ Change \/ KillAfterChange \/ SetUserAgent
           \/ \E ks \in SUBSET map : GarbageCollect(ks)
  BY <1>4, CleaningKeeps
<1>5. CASE UNCHANGED sessionVars
  BY <1>5 DEF sessionVars, poolVars, SessionInv, SessionTypeOK, MapKnown, LeaseIsSound, NoneLost,
              NoneObsolete
<1>6. QED
  BY <1>1, <1>2, <1>3, <1>4, <1>5 DEF SessionNext, RequestStep

\* The invariant holds throughout.
LEMMA SessionInvHolds == SessionSpec => []SessionInv
  BY SessionsStart, SessionStep, PTL DEF SessionSpec

\* The variables keep their types (ECSConnection.cpp:4492-4605).
THEOREM SessionTypes == SessionSpec => []SessionTypeOK
<1>1. SessionInv => SessionTypeOK
  BY DEF SessionInv
<1>2. QED
  BY <1>1, SessionInvHolds, PTL

\* However many threads send requests, change settings and collect: a session
\* is in the map and belongs to its one thread until that releases it.
THEOREM SessionLeases == SessionSpec => []LeaseIsSound
<1>1. SessionInv => LeaseIsSound
  BY DEF SessionInv
<1>2. QED
  BY <1>1, SessionInvHolds, PTL

\* No session stays marked as in use without a thread that has it.
THEOREM SessionsReturn == SessionSpec => []NoneLost
<1>1. SessionInv => NoneLost
  BY DEF SessionInv
<1>2. QED
  BY <1>1, SessionInvHolds, PTL

\* No session opened before a change that kills sessions is given out once the
\* setter that made it has returned.
THEOREM SessionsFresh == SessionSpec => []NoneObsolete
<1>1. SessionInv => NoneObsolete
  BY DEF SessionInv
<1>2. QED
  BY <1>1, SessionInvHolds, PTL

\* What the run checks of the leases, for any number of threads, keys, places
\* and changes of the settings.
THEOREM SessionLeaseInv == SessionSpec => []LeaseInv
<1>1. SessionInv => LeaseInv
  BY DEF SessionInv, LeaseInv
<1>2. QED
  BY <1>1, SessionInvHolds, PTL
-----------------------------------------------------------------------------
(***************************************************************************)
(* The choice of the node.  RouteInv is inductive as it stands: its types  *)
(* say that a turn that is sent to lies in the request's own copy of the   *)
(* list, which is what TriedOnce looks up.                                 *)
(***************************************************************************)
\* A list has a length.
LEMMA SizeTyped ==
  ASSUME RouteTypeOK, NEW r \in Request
  PROVE  list[r] \in Seq(Address) /\ Size(r) \in Nat
<1>1. list[r] \in Lists \cup {<< >>}
  BY DEF RouteTypeOK
<1>2. list[r] \in Seq(Address)
  <2>1. << >> \in Seq(Address)
    OBVIOUS
  <2>2. Lists \subseteq Seq(Address)
    BY FailoverAssumption
  <2>3. QED
    BY <1>1, <2>1, <2>2
<1>3. QED
  BY <1>2 DEF Size

\* A turn of a list names one of its addresses.
LEMMA CurrentTyped ==
  ASSUME RouteTypeOK, NEW r \in Request, Size(r) > 0,
         NEW n \in Nat
  PROVE  /\ Wrapped(n, Size(r)) \in 0 .. Size(r) - 1
         /\ list[r][Wrapped(n, Size(r)) + 1] \in Address
<1>1. list[r] \in Seq(Address)
  BY SizeTyped
<1>2. Size(r) \in Nat
  BY SizeTyped
<1>3. Wrapped(n, Size(r)) \in 0 .. Size(r) - 1
  BY <1>2 DEF Wrapped
<1>4. Wrapped(n, Size(r)) + 1 \in 1 .. Len(list[r])
  BY <1>2, <1>3 DEF Size
<1>5. QED
  BY <1>1, <1>3, <1>4

\* No request runs at first.
LEMMA InitRoute == RouteInit => RouteInv
<1> SUFFICES ASSUME RouteInit PROVE RouteInv
  OBVIOUS
<1>1. RouteTypeOK
  BY FailoverAssumption DEF RouteInit, RouteTypeOK, Results
<1>2. TriedOnce
  BY DEF RouteInit, TriedOnce
<1>3. QED
  BY <1>1, <1>2 DEF RouteInv

\* The request starts with a copy of the list.
LEMMA BeginRoute ==
  ASSUME RouteInv, NEW r \in Request, BeginRequest(r)
  PROVE  RouteInv'
<1>1. RouteTypeOK'
  BY DEF RouteInv, RouteTypeOK, BeginRequest, MoveTo, shared, env, Results, Size
<1>2. TriedOnce'
  BY DEF RouteInv, RouteTypeOK, TriedOnce, BeginRequest, MoveTo, shared, env, Current, Size
<1>3. QED
  BY <1>1, <1>2 DEF RouteInv

\* It takes the next turn.
LEMMA PickRoute ==
  ASSUME RouteInv, NEW r \in Request, Pick(r)
  PROVE  RouteInv'
<1>1. Size(r) \in Nat
  BY SizeTyped DEF RouteInv
<1>2. LoadBal' \in Nat
  BY <1>1 DEF Pick, Wrapped, RouteInv, RouteTypeOK
<1>3. RouteTypeOK'
  BY <1>2 DEF RouteInv, RouteTypeOK, Pick, MoveTo, Forget, env, Size
<1>4. TriedOnce'
  BY DEF RouteInv, RouteTypeOK, TriedOnce, Pick, MoveTo, env, Current, Size
<1>5. QED
  BY <1>3, <1>4 DEF RouteInv

\* The loop looks at an address: what it takes was not used before.
LEMMA ScanRoute ==
  ASSUME RouteInv, NEW r \in Request, Scan(r)
  PROVE  RouteInv'
<1> DEFINE n == Wrapped(turn[r], Size(r))
           a == list[r][n + 1]
<1>1. Size(r) \in Nat /\ Size(r) > 0
  <2>1. seen[r] \in Nat /\ seen[r] < Size(r)
    BY DEF RouteInv, RouteTypeOK, Scan
  <2>2. QED
    BY <2>1, SizeTyped DEF RouteInv
<1>2. turn[r] \in Nat
  BY DEF RouteInv, RouteTypeOK
<1>3. n \in 0 .. Size(r) - 1
  BY <1>1, <1>2, CurrentTyped DEF RouteInv
<1>4. UNCHANGED <<IPListHost, BadIPMap, old, LoadBal, list, IPUsed, result, up, changes>>
  BY DEF Scan, shared, env
<1>5. CASE Usable(r, a)
  <2>1. /\ turn' = [turn EXCEPT ![r] = n]
        /\ retry' = [retry EXCEPT ![r] = 0]
        /\ round' = [round EXCEPT ![r] = "later"]
        /\ state' = [state EXCEPT ![r] = "send"]
        /\ seen' = seen
    BY <1>5 DEF Scan, MoveTo
  <2>2. RouteTypeOK'
    BY <1>1, <1>3, <1>4, <2>1, FailoverAssumption DEF RouteInv, RouteTypeOK, Size
  <2>3. a \notin IPUsed[r]
    BY <1>5 DEF Usable
  <2>4. Wrapped(n, Size(r)) = n
    BY <1>1, <1>3 DEF Wrapped
  <2>5. TriedOnce'
    BY <1>4, <2>1, <2>3, <2>4 DEF RouteInv, RouteTypeOK, TriedOnce, Current, Size
  <2>6. QED
    BY <2>2, <2>5 DEF RouteInv
<1>6. CASE ~Usable(r, a)
  <2>1. /\ turn' = [turn EXCEPT ![r] = n + 1]
        /\ seen' = [seen EXCEPT ![r] = @ + 1]
        /\ UNCHANGED <<state, retry, round>>
    BY <1>6 DEF Scan
  <2>2. state[r] = "scan"
    BY DEF Scan
  <2>3. RouteTypeOK'
    BY <1>3, <1>4, <2>1, <2>2 DEF RouteInv, RouteTypeOK, Size
  <2>4. TriedOnce'
    BY <1>4, <2>1, <2>2 DEF RouteInv, RouteTypeOK, TriedOnce, Current, Size
  <2>5. QED
    BY <2>3, <2>4 DEF RouteInv
<1>7. QED
  BY <1>5, <1>6

\* It found none.
LEMMA NotFoundRoute ==
  ASSUME RouteInv, NEW r \in Request, NotFound(r)
  PROVE  RouteInv'
<1>1. UNCHANGED <<IPListHost, BadIPMap, old, LoadBal, list, turn, seen, IPUsed, retry,
                  round, up, changes>>
  BY DEF NotFound, shared, env
<1>2. PICK s \in {"test", "idle"} : state' = [state EXCEPT ![r] = s]
  BY DEF NotFound, MoveTo, EndRequest, RouteInv, RouteTypeOK
<1>3. result' \in [Request -> Results]
  BY DEF NotFound, EndRequest, RouteInv, RouteTypeOK, Results
<1>4. RouteTypeOK'
  BY <1>1, <1>2, <1>3 DEF RouteInv, RouteTypeOK, Size
<1>5. TriedOnce'
  BY <1>1, <1>2 DEF RouteInv, RouteTypeOK, TriedOnce, Current, Size
<1>6. QED
  BY <1>4, <1>5 DEF RouteInv

\* All are unmarked, or none.
LEMMA TestRoute ==
  ASSUME RouteInv, NEW r \in Request, TestAllIPBad(r)
  PROVE  RouteInv'
<1>1. BadIPMap' \subseteq Address /\ old' \subseteq BadIPMap'
  BY DEF TestAllIPBad, Unmark, RouteInv, RouteTypeOK
<1>2. RouteTypeOK'
  BY <1>1 DEF RouteInv, RouteTypeOK, TestAllIPBad, MoveTo, env, Size
<1>3. TriedOnce'
  BY DEF RouteInv, RouteTypeOK, TriedOnce, TestAllIPBad, MoveTo, env, Current, Size
<1>4. QED
  BY <1>2, <1>3 DEF RouteInv

\* The request returns, after an attempt that reached the server or will not be
\* repeated, or because it is aborted.
LEMMA EndRoute ==
  ASSUME RouteInv, NEW r \in Request, Succeed(r) \/ Answer(r) \/ Refuse(r) \/ AbortRequest(r)
  PROVE  RouteInv'
<1>1. UNCHANGED <<IPListHost, LoadBal, list, turn, seen, IPUsed, retry, round, up>>
  BY DEF Succeed, Answer, Refuse, AbortRequest, shared, env
<1>2. /\ state' = [state EXCEPT ![r] = "idle"]
      /\ result' \in [Request -> Results]
  BY DEF Succeed, Answer, Refuse, AbortRequest, EndRequest, MoveTo, RouteInv, RouteTypeOK, Results
<1>3. changes' \in 0 .. MaxChanges
  BY FailoverAssumption DEF Succeed, Answer, Refuse, AbortRequest, env, RouteInv, RouteTypeOK
<1>4. BadIPMap' \subseteq Address /\ old' \subseteq BadIPMap'
  BY DEF Succeed, LogBadIPAddr, Answer, Refuse, AbortRequest, shared, RouteInv, RouteTypeOK
<1>5. RouteTypeOK'
  BY <1>1, <1>2, <1>3, <1>4 DEF RouteInv, RouteTypeOK, Size
<1>6. TriedOnce'
  BY <1>1, <1>2 DEF RouteInv, RouteTypeOK, TriedOnce, Current, Size
<1>7. QED
  BY <1>5, <1>6 DEF RouteInv

\* An attempt failed: it is made again, or the address is noted.
LEMMA FailRoute ==
  ASSUME RouteInv, NEW r \in Request, Fail(r)
  PROVE  RouteInv'
<1>1. UNCHANGED <<IPListHost, BadIPMap, old, LoadBal, list, turn, seen, round, result,
                  up, changes>>
  BY DEF Fail, shared, env
<1>2. CASE Retry(r) /\ retry' = [retry EXCEPT ![r] = @ + 1] /\ UNCHANGED <<state, IPUsed>>
  <2>1. retry' \in [Request -> 0 .. MaxRetryCount - 1]
    BY <1>2, FailoverAssumption DEF Retry, RouteInv, RouteTypeOK
  <2>2. RouteTypeOK'
    BY <1>1, <1>2, <2>1 DEF RouteInv, RouteTypeOK, Size
  <2>3. TriedOnce'
    BY <1>1, <1>2 DEF RouteInv, TriedOnce, Current, Size
  <2>4. QED
    BY <2>2, <2>3 DEF RouteInv
<1>3. CASE NextAddress(r) /\ UNCHANGED retry
  <2>1. state[r] = "send" /\ turn[r] \in Nat /\ turn[r] < Size(r) /\ Size(r) \in Nat
    BY SizeTyped DEF Fail, RouteInv, RouteTypeOK
  <2>2. Current(r) \in Address
    BY <2>1, CurrentTyped DEF Current, RouteInv
  <2>3. /\ state' = [state EXCEPT ![r] = "pick"]
        /\ IPUsed' = [IPUsed EXCEPT ![r] = @ \cup {Current(r)}]
    BY <1>3 DEF NextAddress, MoveTo
  <2>4. RouteTypeOK'
    BY <1>1, <1>3, <2>2, <2>3 DEF RouteInv, RouteTypeOK, Size
  <2>5. TriedOnce'
    BY <1>1, <2>3 DEF RouteInv, RouteTypeOK, TriedOnce, Current, Size
  <2>6. QED
    BY <2>4, <2>5 DEF RouteInv
<1>4. QED
  BY <1>2, <1>3 DEF Fail

\* The network, the list of the host and the age of entries change no request.
LEMMA AroundRoute ==
  ASSUME RouteInv,
         \/ \E l \in Lists : SetIPList(l)
         \/ \E s \in SUBSET Address : Network(s)
         \/ \E a \in Address : Age(a)
         \/ UNCHANGED routeVars
  PROVE  RouteInv'
<1>1. UNCHANGED <<BadIPMap, LoadBal, state, list, turn, seen, IPUsed, retry, round, result>>
  BY DEF SetIPList, Network, Age, shared, local, env, routeVars
<1>2. /\ IPListHost' \in Lists /\ old' \subseteq BadIPMap'
      /\ up' \subseteq Address /\ changes' \in 0 .. MaxChanges
  BY FailoverAssumption
     DEF SetIPList, Network, Age, shared, local, env, routeVars, RouteInv, RouteTypeOK
<1>3. RouteTypeOK'
  BY <1>1, <1>2 DEF RouteInv, RouteTypeOK, Size
<1>4. TriedOnce'
  BY <1>1 DEF RouteInv, TriedOnce, Current, Size
<1>5. QED
  BY <1>3, <1>4 DEF RouteInv

\* However requests, nodes and lists change: no request returns to an address that
\* has failed it (ECSConnection.cpp:1221), and its turn stays within its list.
THEOREM TriesOnce == RouteSpec => []RouteInv
<1>1. RouteInv /\ [RouteNext]_routeVars => RouteInv'
  <2> SUFFICES ASSUME RouteInv, [RouteNext]_routeVars PROVE RouteInv'
    OBVIOUS
  <2>1. ASSUME NEW r \in Request, Send(r) \/ AbortRequest(r) PROVE RouteInv'
    BY <2>1, BeginRoute, PickRoute, ScanRoute, NotFoundRoute, TestRoute, EndRoute,
       FailRoute DEF Send
  <2>2. QED
    BY <2>1, AroundRoute DEF RouteNext
<1>2. QED
  BY <1>1, InitRoute, PTL DEF RouteSpec

\* Only a request that has reached another address marks one as bad
\* (ECSConnection.cpp:1048).
LEMMA BlameStep == RouteInv /\ [RouteNext]_routeVars => Blames \/ UNCHANGED routeVars
<1> SUFFICES ASSUME RouteInv, RouteNext, NEW a \in Address, a \notin BadIPMap, a \in BadIPMap'
             PROVE  \E r \in Request : /\ result'[r] = "ok" /\ state[r] = "send"
                                       /\ a \in IPUsed[r] /\ a # Current(r)
  BY DEF Blames
<1>1. PICK r \in Request : Succeed(r)
  <2>1. ASSUME NEW r \in Request, Send(r) \/ AbortRequest(r) PROVE Succeed(r)
    BY <2>1 DEF Send, BeginRequest, Pick, Forget, Scan, NotFound, TestAllIPBad, Unmark, Answer,
                Fail, Refuse, AbortRequest, shared
  <2>2. QED
    BY <2>1 DEF RouteNext, SetIPList, Network, Age, shared
<1>2. a \in IPUsed[r] /\ state[r] = "send" /\ result'[r] = "ok"
  BY <1>1 DEF Succeed, LogBadIPAddr, EndRequest, RouteInv, RouteTypeOK
<1>3. a # Current(r)
  BY <1>2 DEF RouteInv, TriedOnce
<1>4. QED
  BY <1>2, <1>3

\* The request that marks an address has reached another one of its list.
THEOREM BlamesOthers == RouteSpec => BlamesOnlyOthers
<1>1. RouteInv /\ [RouteNext]_routeVars => [Blames]_routeVars
  BY BlameStep
<1>2. QED
  BY <1>1, TriesOnce, PTL DEF RouteSpec, BlamesOnlyOthers
=============================================================================
