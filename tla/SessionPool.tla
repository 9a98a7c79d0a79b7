----------------------------- MODULE SessionPool -----------------------------
(***************************************************************************)
(* The WinHTTP sessions of ECSUtil/ECSConnection.cpp: SessionMap keeps the *)
(* handles of finished requests for later ones.  A request has a session   *)
(* from AllocSession to ReleaseSession.  Most setters of the connection    *)
(* make every session obsolete (KillHostSessions); some that change what a *)
(* session is opened with do not.  The functions below hold csSessionMap.  *)
(***************************************************************************)
EXTENDS Naturals, FiniteSets

CONSTANTS User,        \* threads that send requests
          Place,       \* pairs of a host and an address
          Key,         \* values of SESSION_MAP_KEY::lKey, none used twice
          NoKey,
          MaxSettings  \* bound: changes of the settings

ASSUME SessionAssumption ==
  NoKey \notin Key /\ Place # {} /\ MaxSettings \in Nat

VARIABLES map,       \* keys that are in SessionMap
          place,     \* and the place of each
          inUse,     \* bInUse
          killed,    \* bKillWhenDone
          opened,    \* the settings hSession and hConnect were opened with
          used,      \* keys given out, lSessionKeyValue
          lease,     \* CECSConnectionSession::Key of each thread
          step,      \* what its request does
          settings,  \* how often a setting was changed
          since,     \* the settings after the last change that kills sessions
          changer    \* the thread that changes one

poolVars == <<map, place, inUse, killed, opened, used, lease>>
sessionVars == <<poolVars, step, settings, since, changer>>

Closed == MaxSettings + 1   \* no handles
-----------------------------------------------------------------------------
SessionInit ==
  /\ map = {} /\ inUse = {} /\ killed = {} /\ used = {}
  /\ place = [k \in Key |-> CHOOSE p \in Place : TRUE]
  /\ opened = [k \in Key |-> Closed]
  /\ lease = [u \in User |-> NoKey]
  /\ step = [u \in User |-> "idle"]
  /\ settings = 0 /\ since = 0 /\ changer = "idle"

Free == map \ inUse
SetStep(u, s) == step' = [step EXCEPT ![u] = s]

\* Mutant: a session that is in use is claimed as well.
ClaimAny(u, p, k) ==
  /\ k \in map /\ place[k] = p
  /\ inUse' = inUse \cup {k}
  /\ lease' = [lease EXCEPT ![u] = k]
  /\ UNCHANGED <<map, place, killed, opened, used>>

\* AllocSession: a free session of the place is claimed ...
Claim(u, p, k) ==
  /\ k \in Free /\ place[k] = p
  /\ inUse' = inUse \cup {k}
  /\ lease' = [lease EXCEPT ![u] = k]
  /\ UNCHANGED <<map, place, killed, opened, used>>

\* ... or, when there is none, one is made.
Create(u, p, k) ==
  /\ \A j \in Free : place[j] # p
  /\ k \notin used
  /\ used' = used \cup {k}
  /\ map' = map \cup {k}
  /\ place' = [place EXCEPT ![k] = p]
  /\ opened' = [opened EXCEPT ![k] = Closed]
  /\ inUse' = inUse \cup {k}
  /\ lease' = [lease EXCEPT ![u] = k]
  /\ UNCHANGED killed

AllocSession(u) ==
  /\ step[u] = "idle"
  /\ \E p \in Place, k \in Key : Claim(u, p, k) \/ Create(u, p, k)
  /\ SetStep(u, "open")
  /\ UNCHANGED <<settings, since, changer>>

\* InitSession: handles a session has are kept; others are opened with what
\* the settings are now (hSession first, so the older of the two).
InitSession(u) ==
  /\ step[u] = "open"
  /\ opened' = [opened EXCEPT ![lease[u]] = IF @ = Closed THEN settings ELSE @]
  /\ SetStep(u, "send")
  /\ UNCHANGED <<map, place, inUse, killed, used, lease, settings, since, changer>>

\* The request fails, or opening the handles: the session is not to be used
\* again.
RequestFails(u) ==
  /\ step[u] \in {"open", "send"}
  /\ killed' = killed \cup {lease[u]}
  /\ SetStep(u, "release")
  /\ UNCHANGED <<map, place, inUse, opened, used, lease, settings, since, changer>>

RequestDone(u) ==
  /\ step[u] = "send"
  /\ SetStep(u, "release")
  /\ UNCHANGED <<poolVars, settings, since, changer>>

ReleaseSession(u) ==
  /\ step[u] = "release"
  /\ map' = map \ (killed \cap {lease[u]})
  /\ killed' = killed \ {lease[u]}
  /\ inUse' = inUse \ {lease[u]}
  /\ lease' = [lease EXCEPT ![u] = NoKey]
  /\ SetStep(u, "idle")
  /\ UNCHANGED <<place, opened, used, settings, since, changer>>
-----------------------------------------------------------------------------
\* Mutant: the sessions of requests that run are not marked.
KillFree == /\ map' = map \cap inUse
            /\ UNCHANGED <<place, inUse, killed, opened, used, lease, step>>

\* The sessions of every host: free ones go, the others with their request.
KillHostSessions ==
  /\ map' = map \cap inUse
  /\ killed' = map \cap inUse
  /\ UNCHANGED <<place, inUse, opened, used, lease, step>>

\* SetHost kills before the change too.
SetHost == /\ changer = "idle" /\ settings < MaxSettings
           /\ KillHostSessions
           /\ changer' = "host"
           /\ UNCHANGED <<settings, since>>

\* SetSecret, SetUser, SetIPList, SetSSL, SetPort and SetProxy: the change,
\* then KillHostSessions.
Change == /\ changer \in {"idle", "host"} /\ settings < MaxSettings
          /\ settings' = settings + 1 /\ since' = settings'
          /\ changer' = "changed"
          /\ UNCHANGED <<poolVars, step>>

KillAfterChange == /\ changer = "changed"
                   /\ KillHostSessions
                   /\ changer' = "idle"
                   /\ UNCHANGED <<settings, since>>

\* SetUserAgent, SetHttpsProtocol and SetGlobalHttpsProtocol change what a
\* session is opened with, too, and kill none.
SetUserAgent == /\ settings < MaxSettings
                /\ settings' = settings + 1
                /\ UNCHANGED <<poolVars, step, since, changer>>

\* Sessions that were free for two minutes go; time is not modelled.
GarbageCollect(ks) ==
  /\ ks # {} /\ ks \subseteq Free
  /\ map' = map \ ks
  /\ UNCHANGED <<place, inUse, killed, opened, used, lease, step, settings, since, changer>>

RequestStep(u) ==
  \/ InitSession(u) \/ RequestFails(u) \/ RequestDone(u)
  \/ ReleaseSession(u)

SessionNext ==
  \/ \E u \in User : AllocSession(u) \/ RequestStep(u)
  \/ SetHost \/ Change \/ KillAfterChange \/ SetUserAgent
  \/ \E ks \in SUBSET map : GarbageCollect(ks)

SessionSpec == SessionInit /\ [][SessionNext]_sessionVars
-----------------------------------------------------------------------------
SessionTypeOK ==
  /\ map \in SUBSET Key /\ inUse \in SUBSET Key /\ killed \in SUBSET Key
  /\ used \in SUBSET Key
  /\ place \in [Key -> Place]
  /\ opened \in [Key -> 0 .. Closed]
  /\ lease \in [User -> Key \cup {NoKey}]
  /\ step \in [User -> {"idle", "open", "send", "release"}]
  /\ settings \in 0 .. MaxSettings /\ since \in 0 .. settings
  /\ changer \in {"idle", "host", "changed"}

\* A thread's session is in the map, marked as in use, until it releases it:
\* pValue never points to a record that garbage collection or a change of
\* settings erased, and no other thread has it (ECSConnection.cpp:4492).
LeaseIsSound ==
  \A u \in User :
    /\ lease[u] = NoKey <=> step[u] = "idle"
    /\ lease[u] # NoKey =>
         /\ lease[u] \in map \cap inUse
         /\ \A v \in User : lease[v] = lease[u] => v = u

\* What is marked as in use is in use, so no session is lost to the pool.
NoneLost == \A k \in inUse : \E u \in User : lease[u] = k

\* Once a setter that calls KillHostSessions has returned, no session is given
\* out that was opened before its change, whatever was claimed, opened or put
\* back meanwhile (ECSConnection.cpp:2051, 4564).  A change of the user agent
\* or of the protocols promises no such thing (:2070).
NoneObsolete ==
  /\ killed \subseteq inUse
  /\ changer # "changed" =>
       \A k \in map \ killed : opened[k] \in since .. Closed

\* Leases and marks correspond: no session is shared, freed while it is lent,
\* or lost to the pool.
LeaseInv == SessionTypeOK /\ LeaseIsSound /\ NoneLost
=============================================================================
