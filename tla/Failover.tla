------------------------------- MODULE Failover ------------------------------
(***************************************************************************)
(* SendRequest of ECSUtil/ECSConnection.cpp and the choice of the node it  *)
(* talks to.  A host has a list of addresses; requests of all connections  *)
(* share the map of bad addresses and the turn of the load balancer, both  *)
(* under csBadIPMap.  A request works on its own copy of the list and asks *)
(* for each address in turn, taking the lock anew each time.               *)
(***************************************************************************)
EXTENDS Naturals, Sequences, FiniteSets, SequencesExt

CONSTANTS Request,        \* threads, each sends one request at a time
          Address,
          Lists,          \* the lists the application sets with SetIPList
          MaxRetryCount,  \* dwMaxRetryCount
          MaxChanges      \* bound: changes of the network and of the list

ASSUME FailoverAssumption ==
  /\ Lists \subseteq Seq(Address) /\ Lists # {}
  /\ MaxRetryCount \in Nat \ {0} /\ MaxChanges \in Nat

VARIABLES IPListHost,
          BadIPMap,   \* the addresses in the map
          old,        \* those of them that are older than dwBadIPAddrAge
          LoadBal,    \* LoadBalMap of the host
          state,      \* of each request, what SendRequest does next
          list,       \* State.IPListLocal
          turn,       \* State.iIPList
          seen,       \* how many addresses the loop of GetNextECSIP has seen
          IPUsed,
          retry,      \* i of the loop of SendRequest
          round,      \* bFirst, and whether TestAllIPBad was called
          result,     \* how the request ended
          up,         \* the addresses that answer
          changes

shared == <<IPListHost, BadIPMap, old, LoadBal>>
local == <<list, turn, seen, IPUsed, retry, round, result>>
env == <<up, changes>>
routeVars == <<shared, state, local, env>>

Results == {"none", "ok", "answered", "refused", "exhausted", "no_address", "aborted"}
-----------------------------------------------------------------------------
RouteInit ==
  /\ IPListHost \in Lists /\ BadIPMap = {} /\ old = {} /\ LoadBal = 0
  /\ state = [r \in Request |-> "idle"]
  /\ list = [r \in Request |-> << >>]
  /\ turn = [r \in Request |-> 0]
  /\ seen = [r \in Request |-> 0]
  /\ IPUsed = [r \in Request |-> {}]
  /\ retry = [r \in Request |-> 0]
  /\ round = [r \in Request |-> "first"]
  /\ result = [r \in Request |-> "none"]
  /\ up \in SUBSET Address /\ changes = 0

MoveTo(r, s) == state' = [state EXCEPT ![r] = s]
Size(r) == Len(list[r])
Wrapped(n, size) == IF n >= size THEN 0 ELSE n

\* GetCurrentServerIP.
Current(r) == list[r][Wrapped(turn[r], Size(r)) + 1]

\* The request ends, SendRequest returns.
EndRequest(r, res) ==
  /\ result' = [result EXCEPT ![r] = res]
  /\ MoveTo(r, "idle")

\* SendRequest copies the list of the host.
BeginRequest(r) ==
  /\ state[r] = "idle"
  /\ list' = [list EXCEPT ![r] = IPListHost]
  /\ IPUsed' = [IPUsed EXCEPT ![r] = {}]
  /\ round' = [round EXCEPT ![r] = "first"]
  /\ result' = [result EXCEPT ![r] = "none"]
  /\ MoveTo(r, "pick")
  /\ UNCHANGED <<shared, turn, seen, retry, env>>

\* Mutant: entries stay in the map for ever.
ForgetNone == UNCHANGED <<BadIPMap, old>>

\* GetNextECSIP erases the entries that are too old ...
Forget == BadIPMap' = BadIPMap \ old /\ old' = {}

\* ... and takes the next turn of the host.
Pick(r) ==
  /\ state[r] = "pick" /\ list[r] # << >>
  /\ Forget
  /\ LoadBal' = Wrapped(LoadBal + 1, Size(r))
  /\ turn' = [turn EXCEPT ![r] = LoadBal']
  /\ seen' = [seen EXCEPT ![r] = 0]
  /\ MoveTo(r, "scan")
  /\ UNCHANGED <<IPListHost, list, IPUsed, retry, round, result, env>>

\* Mutant: the addresses the request has used are not looked up.
UsableAgain(r, a) == a \notin BadIPMap

\* An address is taken when it is neither in the map nor used before.
Usable(r, a) == a \notin BadIPMap /\ a \notin IPUsed[r]

\* The loop looks at one address; each time it takes the lock.
Scan(r) ==
  /\ state[r] = "scan" /\ seen[r] < Size(r)
  /\ LET n == Wrapped(turn[r], Size(r))
         a == list[r][n + 1]
     IN  IF Usable(r, a)
         THEN /\ turn' = [turn EXCEPT ![r] = n]
              /\ retry' = [retry EXCEPT ![r] = 0]
              /\ round' = [round EXCEPT ![r] = "later"]
              /\ MoveTo(r, "send")
              /\ UNCHANGED seen
         ELSE /\ turn' = [turn EXCEPT ![r] = n + 1]
              /\ seen' = [seen EXCEPT ![r] = @ + 1]
              /\ UNCHANGED <<state, retry, round>>
  /\ UNCHANGED <<shared, list, IPUsed, result, env>>

\* GetNextECSIP has found no address.
NoneLeft(r) ==
  \/ state[r] = "pick" /\ list[r] = << >>
  \/ state[r] = "scan" /\ seen[r] >= Size(r)

\* The first time TestAllIPBad follows; the second time there is no address;
\* after an attempt the error of the last attempt is returned.
NotFound(r) ==
  /\ NoneLeft(r)
  /\ CASE round[r] = "first"  -> MoveTo(r, "test") /\ UNCHANGED result
       [] round[r] = "tested" -> EndRequest(r, "no_address")
       [] round[r] = "later"  -> EndRequest(r, "exhausted")
  /\ UNCHANGED <<shared, list, turn, seen, IPUsed, retry, round, env>>

\* TestAllIPBad unmarks all addresses of the host if all are marked.
Unmark(r) ==
  IF ToSet(list[r]) \subseteq BadIPMap
  THEN BadIPMap' = {} /\ old' = {}
  ELSE UNCHANGED <<BadIPMap, old>>

TestAllIPBad(r) ==
  /\ state[r] = "test"
  /\ Unmark(r)
  /\ round' = [round EXCEPT ![r] = "tested"]
  /\ MoveTo(r, "pick")
  /\ UNCHANGED <<IPListHost, LoadBal, list, turn, seen, IPUsed, retry, result, env>>

\* Mutant: the address that answered is marked with the others.
LogBadIPAddrAll(r) ==
  /\ BadIPMap' = BadIPMap \cup IPUsed[r] \cup {Current(r)}
  /\ old' = old \ (IPUsed[r] \cup {Current(r)})

\* An address that is in the map already becomes a new entry again.
LogBadIPAddr(r) ==
  /\ BadIPMap' = BadIPMap \cup IPUsed[r]
  /\ old' = old \ IPUsed[r]

\* The request succeeded: the addresses that failed before are marked.
Succeed(r) ==
  /\ state[r] = "send" /\ Current(r) \in up
  /\ LogBadIPAddr(r)
  /\ EndRequest(r, "ok")
  /\ UNCHANGED <<IPListHost, LoadBal, list, turn, seen, IPUsed, retry, round, env>>

\* The server answered with an error: it is returned and nothing is marked.
Answer(r) ==
  /\ state[r] = "send" /\ Current(r) \in up
  /\ EndRequest(r, "answered")
  /\ UNCHANGED <<shared, list, turn, seen, IPUsed, retry, round, env>>

\* Mutant: the address is not noted.
NextAddressUnnoted(r) ==
  /\ MoveTo(r, "pick")
  /\ UNCHANGED IPUsed

\* The attempts on this address have failed.
NextAddress(r) ==
  /\ IPUsed' = [IPUsed EXCEPT ![r] = @ \cup {Current(r)}]
  /\ MoveTo(r, "pick")

\* dwMaxRetryCount attempts are made on an address.
Retry(r) == retry[r] + 1 < MaxRetryCount

\* An attempt did not reach the server.  It is made again unless it was the
\* last one, or timed out and no limit was left that could be adjusted.
Fail(r) ==
  /\ state[r] = "send" /\ Current(r) \notin up
  /\ \/ /\ Retry(r)
        /\ retry' = [retry EXCEPT ![r] = @ + 1]
        /\ UNCHANGED <<state, IPUsed>>
     \/ NextAddress(r) /\ UNCHANGED retry
  /\ UNCHANGED <<shared, list, turn, seen, round, result, env>>

\* An attempt that is never made again: of a stream, a failure of the
\* certificate, a time-out while the connection is tested.
Refuse(r) ==
  /\ state[r] = "send" /\ Current(r) \notin up
  /\ EndRequest(r, "refused")
  /\ UNCHANGED <<shared, list, turn, seen, IPUsed, retry, round, env>>

\* TestAbort: ERROR_OPERATION_ABORTED is returned at once.
AbortRequest(r) ==
  /\ state[r] = "send" /\ changes < MaxChanges
  /\ changes' = changes + 1
  /\ EndRequest(r, "aborted")
  /\ UNCHANGED <<shared, list, turn, seen, IPUsed, retry, round, up>>

\* SetIPList.  iIPList is that of the caller's own state, not of a request.
SetIPList(l) ==
  /\ changes < MaxChanges /\ changes' = changes + 1
  /\ IPListHost # l /\ IPListHost' = l
  /\ UNCHANGED <<BadIPMap, old, LoadBal, state, local, up>>

\* Nodes go down and come back.
Network(s) ==
  /\ changes < MaxChanges /\ changes' = changes + 1
  /\ up # s /\ up' = s
  /\ UNCHANGED <<shared, state, local>>

\* dwBadIPAddrAge has passed since the entry was made.
Age(a) ==
  /\ a \in BadIPMap \ old
  /\ old' = old \cup {a}
  /\ UNCHANGED <<IPListHost, BadIPMap, LoadBal, state, local, env>>

Send(r) == BeginRequest(r) \/ Pick(r) \/ Scan(r) \/ NotFound(r) \/ TestAllIPBad(r)
             \/ Succeed(r) \/ Answer(r) \/ Fail(r) \/ Refuse(r)

RouteNext ==
  \/ \E r \in Request : Send(r) \/ AbortRequest(r)
  \/ \E l \in Lists : SetIPList(l)
  \/ \E s \in SUBSET Address : Network(s)
  \/ \E a \in Address : Age(a)

RouteSpec == RouteInit /\ [][RouteNext]_routeVars

\* A thread that sends a request goes on, the application sends requests, and
\* time passes.
FairRouteSpec ==
  /\ RouteSpec
  /\ \A r \in Request : WF_routeVars(Send(r))
  /\ \A a \in Address : WF_routeVars(Age(a))
-----------------------------------------------------------------------------
RouteTypeOK ==
  /\ IPListHost \in Lists
  /\ BadIPMap \subseteq Address /\ old \subseteq BadIPMap
  /\ LoadBal \in Nat
  /\ state \in [Request -> {"idle", "pick", "scan", "test", "send"}]
  /\ list \in [Request -> Lists \cup {<< >>}]
  /\ turn \in [Request -> Nat] /\ seen \in [Request -> Nat]
  /\ \A r \in Request : state[r] = "send" => turn[r] < Size(r)
  /\ IPUsed \in [Request -> SUBSET Address]
  /\ retry \in [Request -> 0 .. MaxRetryCount - 1]
  /\ round \in [Request -> {"first", "tested", "later"}]
  /\ result \in [Request -> Results]
  /\ up \subseteq Address /\ changes \in 0 .. MaxChanges

\* A request never returns to an address that failed it, although the map and
\* the turn change under it: "ASSERT(Ret.second)" (ECSConnection.cpp:1221).
TriedOnce == \A r \in Request : state[r] = "send" => Current(r) \notin IPUsed[r]

\* An address is marked bad only by a request that reached another address of
\* the same list ("an IP is only marked bad if another IP was successful",
\* :1048).
Blames ==
  \A a \in Address : a \notin BadIPMap /\ a \in BadIPMap' =>
    \E r \in Request : /\ result'[r] = "ok" /\ state[r] = "send"
                       /\ a \in IPUsed[r] /\ a # Current(r)
BlamesOnlyOthers == [][Blames]_routeVars

\* Every request returns, whatever the others mark and unmark meanwhile.
RequestsReturn == \A r \in Request : state[r] # "idle" ~> state[r] = "idle"

\* Service resumes: once an address of the list answers for good, requests
\* reach it again and again, whatever was marked bad before.
Reachable == \E a \in Address : a \in up /\ a \in ToSet(IPListHost)
Reached == \E r \in Request : result[r] \in {"ok", "answered"}
ServiceResumes == <>[]Reachable => []<>Reached

\* Turns stay within a request's own list, and no address is tried again.
RouteInv == RouteTypeOK /\ TriedOnce
=============================================================================
