--------------------------- MODULE MultiPartProof ---------------------------
(***************************************************************************)
(* Proofs about MultiPart, for files of any length, any number of threads, *)
(* and any sizes of parts and queues.                                      *)
(***************************************************************************)
EXTENDS MultiPart, SequenceTheorems, FiniteSetTheorems, TLAPS

-----------------------------------------------------------------------------
(* The inductive invariant *)

(* The calling thread feeds the pool.                                      *)
Busy == {"fill", "collect", "wait", "complete"}

PlanInv == /\ PlanCoversFile
           /\ pc = "plan" => plan = << >>

(* What the server holds of the upload, and what success says of the parts.*)
UploadInv ==
  /\ pc \in {"plan", "initiate"} => upload = "none"
  /\ pc \in Busy => upload = "started"
  /\ pc = "abort" => upload \in {"started", "completed"}
  /\ NoKnownUploadLeft
  /\ result = "ok" => pc \in {"leave", "destroyed", "done"}
  /\ pc = "complete" \/ result = "ok" => \A k \in Listed : part[k].complete

(* The attempts before the current one have failed, those after it are     *)
(* still to come, and a part that is complete is whole at the server.      *)
PartsInv ==
  \A k \in Parts :
    /\ k \notin Listed \/ pc \in {"plan", "initiate"} =>
         /\ part[k] = NewPart /\ queue[k] = << >>
         /\ \A r \in 0 .. MaxRetries : phase[<<k, r>>] = "none"
    /\ \A r \in 0 .. MaxRetries : /\ r > part[k].retry => phase[<<k, r>>] = "none"
                                  /\ r < part[k].retry => phase[<<k, r>>] = "error"
    /\ part[k].inProcess => phase[Current(k)] # "none"
    /\ part[k].complete => part[k].inProcess /\ phase[Current(k)] = "ok"
    /\ phase[Current(k)] = "ok" => stored[k] = Blocks(k)
    /\ pc \in Busy /\ ~part[k].inProcess
         => phase[Current(k)] = "none" /\ part[k].cursor = 0
    /\ pc \in Busy /\ part[k].inProcess /\ ~part[k].complete => Current(k) \in pending

(* Where an attempt is says what its worker does.                          *)
AttemptInv ==
  \A a \in Attempt :
    /\ phase[a] = "none" => a \notin pending
    /\ a \in waiting => phase[a] = "given"
    /\ a \in working => phase[a] \notin {"none", "given"}
    /\ phase[a] \in {"none", "given"} => sent[a] = << >>
    /\ phase[a] = "dropped" => pc \in {"destroyed", "done"}
    /\ pc \in Busy => /\ a \in waiting => a \in pending
                      /\ a \in Unfinished => a \in waiting \cup working

\* The elements of s are the numbers that follow n, in order.
Follows(s, n) == \A i \in 1 .. Len(s) : s[i] = n + i

(* Of a part that begins at base, s was sent and q is queued, which makes c *)
(* blocks, its first ones.                                                 *)
Fed(s, q, base, size, c) ==
  /\ c = Len(s) + Len(q) /\ c <= size
  /\ Follows(s, base) /\ Follows(q, base + Len(s))

Feeding(k) ==
  Fed(sent[Current(k)], queue[k], plan[k].base, plan[k].len, part[k].cursor)

(* A request that was asked for credentials has nothing left to send.      *)
Starved(k) == /\ sent[Current(k)] = << >> /\ queue[k] = << >>
              /\ part[k].cursor = plan[k].len

Stream(k) ==
  /\ Len(queue[k]) <= MaxQueueSize
  /\ Current(k) \in waiting => Feeding(k)
  /\ phase[Current(k)] = "send"
       => (Feeding(k) /\ Len(sent[Current(k)]) < plan[k].len) \/ Starved(k)
  /\ phase[Current(k)] = "answer"
       => /\ sent[Current(k)] = Blocks(k) /\ queue[k] = << >>
          /\ part[k].cursor = plan[k].len

StreamInv == \A k \in Parts : Stream(k)

PoolSize == /\ IsFiniteSet(waiting) /\ IsFiniteSet(working)
            /\ Cardinality(working) <= MaxThreads
            /\ InPool <= AtOnce

AnyPending == pc \in {"collect", "wait"} => pending # {}

SizeInv == PoolSize /\ FewEvents /\ AnyPending

\* As long as an attempt may still report, the wait is over one of them.
WatchInv == pc = "wait" /\ Unfinished # {} => watched # {}

Inv == TypeOK /\ PlanInv /\ UploadInv /\ PartsInv /\ AttemptInv /\ StreamInv /\ SizeInv
-----------------------------------------------------------------------------
(* Numbers and sequences *)

Piece == [base : Nat, len : Nat]

\* What the constants are, one by one.
LEMMA Numbers ==
  /\ Longest \in Nat /\ MaxRetries \in Nat
  /\ PartSize \in Nat \ {0} /\ MinPartSize \in Nat \ {0}
  /\ MaxParts \in Nat /\ MaxParts > 1
  /\ MaxThreads \in Nat \ {0} /\ MaxQueueSize \in Nat \ {0} /\ Ahead \in Nat \ {0}
BY MultiPartAssumption

LEMMA Lengths == \A t \in Totals : t \in Nat /\ t <= Longest
BY MultiPartAssumption

LEMMA AttemptParts ==
  /\ \A a \in Attempt : a[1] \in Parts /\ a[2] \in 0 .. MaxRetries /\ a = <<a[1], a[2]>>
  /\ \A k \in Parts, r \in 0 .. MaxRetries : <<k, r>> \in Attempt
                                             /\ <<k, r>>[1] = k /\ <<k, r>>[2] = r
BY DEF Attempt

LEMMA AttemptsFinite == IsFiniteSet(Attempt)
<1>1. IsFiniteSet(Parts)
  BY Numbers, FS_Interval DEF Parts
<1>2. IsFiniteSet(0 .. MaxRetries)
  BY Numbers, FS_Interval
<1> QED BY <1>1, <1>2, FS_Product DEF Attempt

\* Quotient and remainder.
LEMMA Division ==
  ASSUME NEW n \in Nat, NEW m \in Nat \ {0}
  PROVE  n \div m \in Nat /\ n % m \in 0 .. m - 1 /\ n = m * (n \div m) + (n % m)
OBVIOUS

\* A product is no smaller than a factor.
LEMMA Product ==
  ASSUME NEW m \in Nat \ {0}, NEW n \in Nat
  PROVE  m * n \in Nat /\ m * n >= n /\ m * (n + 1) = m * n + m
OBVIOUS

\* A quotient rounded up: so many pieces of length m have room for t, one
\* less have not.
LEMMA RoundedUp ==
  ASSUME NEW t \in Nat \ {0}, NEW m \in Nat \ {0}, NEW n, n = (t + m - 1) \div m
  PROVE  /\ n \in Nat \ {0} /\ n <= t
         /\ (n - 1) * m < t /\ t - (n - 1) * m <= m
<1>1. t + m - 1 \in Nat
  OBVIOUS
<1>2. PICK r \in 0 .. m - 1 : n \in Nat /\ t + m - 1 = m * n + r
  BY <1>1, Division
<1>3. n # 0
  <2>1. n = 0 => m * n = 0
    OBVIOUS
  <2> QED BY <1>2, <2>1
<1>4. n - 1 \in Nat /\ m * (n - 1) \in Nat /\ m * n = m * (n - 1) + m
  BY <1>2, <1>3, Product
<1>5. m * (n - 1) = t - 1 - r
  BY <1>2, <1>4
<1>6. m * (n - 1) >= n - 1
  BY <1>4, Product
<1>7. (n - 1) * m = m * (n - 1)
  BY <1>4
<1> QED BY <1>2, <1>3, <1>4, <1>5, <1>6, <1>7

LEMMA PartLengthType ==
  ASSUME NEW t \in Nat
  PROVE  PartLength(t) \in Nat
<1>1. t \div (MaxParts - 1) \in Nat
  BY Numbers, Division
<1> QED BY <1>1, Numbers DEF PartLength

\* The plan of a file: its pieces follow each other to its end.
LEMMA PlanFits ==
  ASSUME NEW t \in Nat, t <= Longest, Plan(t) # << >>
  PROVE  /\ Plan(t) \in Seq(Piece) /\ DOMAIN Plan(t) \subseteq Parts
         /\ Len(Plan(t)) \in DOMAIN Plan(t)
         /\ \A k \in DOMAIN Plan(t) :
              /\ Plan(t)[k].len > 0
              /\ Plan(t)[k].base = IF k = 1 THEN 0
                                   ELSE Plan(t)[k - 1].base + Plan(t)[k - 1].len
         /\ Plan(t)[Len(Plan(t))].base + Plan(t)[Len(Plan(t))].len = t
<1> DEFINE m == PartLength(t)
           n == (t + m - 1) \div m
           L(k) == IF k < n THEN m ELSE t - (n - 1) * m
           B(k) == (k - 1) * m
           P == [k \in 1 .. n |-> [base |-> B(k), len |-> L(k)]]
<1>1. /\ ~(t < PartSize \/ m < MinPartSize \/ n <= 1)
      /\ Plan(t) = P
  BY DEF Plan
<1>a. m \in Nat
  BY PartLengthType
<1>2. m \in Nat \ {0} /\ t \in Nat \ {0}
  <2> HIDE DEF m, n, P
  <2> QED BY <1>1, <1>a, Numbers
<1>3. n \in Nat \ {0} /\ n <= t /\ (n - 1) * m < t /\ t - (n - 1) * m <= m
  BY <1>2, RoundedUp
<1>4. (n - 1) * m \in Nat
  BY <1>2, <1>3, Product
<1> HIDE DEF m, n
<1>5. \A k \in 1 .. n : B(k) \in Nat /\ L(k) \in Nat /\ L(k) > 0
  <2> TAKE k \in 1 .. n
  <2>1. k - 1 \in Nat
    BY <1>3
  <2>2. (k - 1) * m \in Nat
    BY <2>1, <1>2
  <2> QED BY <2>2, <1>2, <1>3, <1>4
<1>6. \A k \in 1 .. n : k # 1 => /\ k - 1 \in 1 .. n
                                 /\ B(k) = B(k - 1) + L(k - 1)
  <2> SUFFICES ASSUME NEW k \in 1 .. n, k # 1
               PROVE  k - 1 \in 1 .. n /\ B(k) = B(k - 1) + L(k - 1)
    OBVIOUS
  <2>1. k - 2 \in Nat /\ k - 1 \in 1 .. n /\ k - 1 < n /\ k - 1 = (k - 2) + 1
    BY <1>3
  <2>2. m * ((k - 2) + 1) = m * (k - 2) + m
    BY <2>1, <1>2, Product
  <2>3. (k - 1) * m = (k - 2) * m + m
    BY <2>1, <2>2, <1>2
  <2>4. (k - 1) - 1 = k - 2
    BY <2>1
  <2> QED BY <2>1, <2>3, <2>4
<1>7. B(n) + L(n) = t
  BY <1>2, <1>3, <1>4
<1> HIDE DEF B, L
<1>8. B(1) = 0
  BY <1>2 DEF B
<1>9. /\ DOMAIN P = 1 .. n
      /\ \A k \in 1 .. n : P[k] \in Piece /\ P[k].base = B(k) /\ P[k].len = L(k)
  BY <1>5 DEF Piece
<1>10. P \in [1 .. n -> Piece]
  BY <1>9
<1> HIDE DEF P
<1>11. P \in Seq(Piece) /\ Len(P) = n
  BY <1>3, <1>10
<1>12. 1 .. n \subseteq Parts
  BY <1>3, Numbers DEF Parts
<1>13. n \in 1 .. n /\ 1 \in 1 .. n
  BY <1>3
<1>14. \A k \in DOMAIN P :
         /\ P[k].len > 0
         /\ P[k].base = IF k = 1 THEN 0 ELSE P[k - 1].base + P[k - 1].len
  BY <1>5, <1>6, <1>8, <1>9
<1>15. P[Len(P)].base + P[Len(P)].len = t
  BY <1>7, <1>9, <1>11, <1>13
<1>16. Len(P) \in DOMAIN P /\ DOMAIN P \subseteq Parts
  BY <1>9, <1>11, <1>12, <1>13
<1> QED BY <1>1, <1>11, <1>14, <1>15, <1>16

\* The invariant says of each listed part that it is a piece that is not empty.
LEMMA PieceOf ==
  ASSUME TypeOK, PlanInv, NEW k \in Listed
  PROVE  /\ plan[k] \in Piece /\ plan[k].base \in Nat /\ plan[k].len \in Nat \ {0}
         /\ k \in Parts
<1>0. plan \in Seq(Piece) /\ Listed \subseteq Parts
  BY DEF TypeOK, Piece
<1>1. plan \in Seq(Piece) /\ k \in Parts /\ Listed = 1 .. Len(plan)
  BY <1>0, LenProperties DEF Listed
<1>2. plan[k] \in Piece
  BY <1>1, ElementOfSeq
<1>3. plan # << >>
  BY DEF Listed
<1>4. plan[k].len > 0
  BY <1>3 DEF PlanInv, PlanCoversFile
<1> QED BY <1>1, <1>2, <1>4 DEF Piece

LEMMA BlocksOf ==
  ASSUME TypeOK, PlanInv, NEW k \in Listed
  PROVE  /\ Blocks(k) \in Seq(Nat) /\ Len(Blocks(k)) = plan[k].len
         /\ \A i \in 1 .. plan[k].len : Blocks(k)[i] = plan[k].base + i
<1>1. plan[k].base \in Nat /\ plan[k].len \in Nat
  BY PieceOf
<1> QED BY <1>1 DEF Blocks

\* What is read next of a part, as far as it has data and there is room.
LEMMA UnreadOf ==
  ASSUME TypeOK, PlanInv, NEW k \in Listed, NEW n \in Nat,
         part[k].cursor <= plan[k].len
  PROVE  /\ Unread(k, n) \in Seq(Nat) /\ Len(Unread(k, n)) \in Nat
         /\ Len(Unread(k, n)) <= n
         /\ part[k].cursor + Len(Unread(k, n)) <= plan[k].len
         /\ \A b \in 1 .. Len(Unread(k, n)) :
              Unread(k, n)[b] = plan[k].base + part[k].cursor + b
<1>1. plan[k].base \in Nat /\ plan[k].len \in Nat /\ part[k].cursor \in Nat
  BY PieceOf DEF TypeOK
<1> DEFINE c == part[k].cursor
           m == Least(n, plan[k].len - c)
<1>2. m \in Nat /\ m <= n /\ c + m <= plan[k].len
  BY <1>1 DEF Least
<1>3. Unread(k, n) = [b \in 1 .. m |-> plan[k].base + c + b]
  BY DEF Unread
<1> HIDE DEF c, m
<1>4. plan[k].base + c \in Nat
  BY <1>1 DEF c
<1>5. Unread(k, n) \in [1 .. m -> Nat]
  BY <1>2, <1>3, <1>4
<1>6. Unread(k, n) \in Seq(Nat) /\ Len(Unread(k, n)) = m
  BY <1>2, <1>5
<1> QED BY <1>2, <1>3, <1>6 DEF c
-----------------------------------------------------------------------------
(* What the invariant says of one part, or one attempt *)

PartType == [inProcess : BOOLEAN, complete : BOOLEAN, retry : 0 .. MaxRetries,
             cursor : Nat]

LEMMA PartFields ==
  ASSUME TypeOK, NEW k \in Parts
  PROVE  /\ part[k] \in PartType
         /\ part[k].inProcess \in BOOLEAN /\ part[k].complete \in BOOLEAN
         /\ part[k].retry \in 0 .. MaxRetries /\ part[k].retry \in Nat
         /\ part[k].cursor \in Nat
         /\ queue[k] \in Seq(Nat) /\ Len(queue[k]) \in Nat
         /\ Current(k) \in Attempt /\ Current(k)[1] = k
         /\ Current(k)[2] = part[k].retry
         /\ sent[Current(k)] \in Seq(Nat) /\ Len(sent[Current(k)]) \in Nat
<1>1. part[k] \in PartType /\ queue[k] \in Seq(Nat)
  BY DEF TypeOK, PartType
<1>2. /\ part[k].inProcess \in BOOLEAN /\ part[k].complete \in BOOLEAN
      /\ part[k].retry \in 0 .. MaxRetries /\ part[k].cursor \in Nat
  BY <1>1 DEF PartType
<1>3. Current(k) \in Attempt /\ Current(k)[1] = k /\ Current(k)[2] = part[k].retry
  BY <1>2, AttemptParts DEF Current
<1>4. sent[Current(k)] \in Seq(Nat)
  BY <1>3 DEF TypeOK
<1> QED BY <1>1, <1>2, <1>3, <1>4, Numbers, LenProperties

\* Before the upload has begun nothing has.
LEMMA NothingYet ==
  ASSUME Inv, pc \in {"plan", "initiate"}
  PROVE  /\ \A k \in Parts : part[k] = NewPart /\ queue[k] = << >>
         /\ \A a \in Attempt : /\ phase[a] = "none" /\ sent[a] = << >>
                               /\ a \notin pending \cup waiting \cup working
<1>1. \A k \in Parts : /\ part[k] = NewPart /\ queue[k] = << >>
                       /\ \A r \in 0 .. MaxRetries : phase[<<k, r>>] = "none"
  BY DEF Inv, PartsInv
<1>2. \A a \in Attempt : phase[a] = "none"
  BY <1>1, AttemptParts
<1> QED BY <1>1, <1>2 DEF Inv, AttemptInv

\* An attempt that has begun and has not failed is the current one of its part.
LEMMA Running ==
  ASSUME Inv, NEW a \in Attempt, phase[a] \notin {"none", "error"}
  PROVE  /\ a[1] \in Parts /\ a[1] \in Listed /\ a = Current(a[1])
         /\ pc \notin {"plan", "initiate"}
         /\ part[a[1]].complete => phase[a] = "ok"
<1> DEFINE k == a[1]
           r == a[2]
<1>1. k \in Parts /\ r \in 0 .. MaxRetries /\ a = <<k, r>> /\ r \in Nat
  BY AttemptParts, Numbers
<1>2. part[k].retry \in Nat
  BY <1>1, PartFields DEF Inv
<1>3. /\ k \notin Listed \/ pc \in {"plan", "initiate"} => phase[<<k, r>>] = "none"
      /\ r > part[k].retry => phase[<<k, r>>] = "none"
      /\ r < part[k].retry => phase[<<k, r>>] = "error"
      /\ part[k].complete => phase[Current(k)] = "ok"
  BY <1>1 DEF Inv, PartsInv
<1>4. r = part[k].retry
  BY <1>1, <1>2, <1>3
<1> QED BY <1>1, <1>3, <1>4 DEF Current

\* The attempts in the pool, taken together, are no more than it holds.
LEMMA InPoolSize ==
  ASSUME TypeOK, PoolSize
  PROVE  /\ InPool \in Nat /\ Cardinality(waiting) \in Nat /\ Cardinality(working) \in Nat
         /\ IsFiniteSet(waiting \cup working)
         /\ Cardinality(waiting \cup working) <= InPool
         /\ AtOnce \in Nat /\ AtOnce > MaxThreads
<1>1. IsFiniteSet(waiting) /\ IsFiniteSet(working)
  BY DEF PoolSize
<1>2. Cardinality(waiting) \in Nat /\ Cardinality(working) \in Nat
  BY <1>1, FS_CardinalityType
<1>3. IsFiniteSet(waiting \cap working) /\ Cardinality(waiting \cap working) \in Nat
  BY <1>1, FS_Intersection, FS_CardinalityType
<1>4. /\ IsFiniteSet(waiting \cup working)
      /\ Cardinality(waiting \cup working)
           = Cardinality(waiting) + Cardinality(working) - Cardinality(waiting \cap working)
  BY <1>1, FS_Union
<1> QED BY <1>2, <1>3, <1>4, Numbers DEF InPool, AtOnce

\* While the pool is fed, the attempts still to finish are in it.
LEMMA FewWhileBusy ==
  ASSUME TypeOK, AttemptInv, PoolSize, pc \in Busy
  PROVE  /\ FewEvents
         /\ IsFiniteSet(Unfinished) /\ Cardinality(Unfinished) \in Nat
         /\ Cardinality(Unfinished) <= InPool
<1>1. Unfinished \subseteq waiting \cup working
  <2> SUFFICES ASSUME NEW a \in Unfinished PROVE a \in waiting \cup working
    OBVIOUS
  <2>1. a \in Attempt
    BY DEF Unfinished, TypeOK
  <2> QED BY <2>1 DEF AttemptInv
<1>2. /\ IsFiniteSet(Unfinished)
      /\ Cardinality(Unfinished) <= Cardinality(waiting \cup working)
  BY <1>1, InPoolSize, FS_Subset
<1>3. Cardinality(Unfinished) \in Nat /\ Cardinality(waiting \cup working) \in Nat
  BY <1>2, InPoolSize, FS_CardinalityType
<1>4. InPool <= AtOnce
  BY DEF PoolSize
<1> QED BY <1>2, <1>3, <1>4, InPoolSize DEF FewEvents

\* No attempt to finish is new.
LEMMA FewStay ==
  ASSUME TypeOK, FewEvents, Unfinished' \subseteq Unfinished
  PROVE  FewEvents'
<1>1. Unfinished \subseteq Attempt
  BY DEF Unfinished, TypeOK
<1>2. IsFiniteSet(Unfinished)
  BY <1>1, AttemptsFinite, FS_Subset
<1>3. /\ IsFiniteSet(Unfinished') /\ Cardinality(Unfinished') <= Cardinality(Unfinished)
  BY <1>2, FS_Subset
<1>4. Cardinality(Unfinished) \in Nat /\ Cardinality(Unfinished') \in Nat
  BY <1>2, <1>3, FS_CardinalityType
<1> QED BY <1>3, <1>4, Numbers DEF FewEvents, AtOnce

\* One attempt more is not too many while the pool has room.
LEMMA FewMore ==
  ASSUME TypeOK, AttemptInv, PoolSize, pc \in Busy, InPool < AtOnce,
         NEW x, Unfinished' \subseteq Unfinished \cup {x}
  PROVE  FewEvents'
<1>1. /\ IsFiniteSet(Unfinished) /\ Cardinality(Unfinished) \in Nat
      /\ Cardinality(Unfinished) <= InPool
  BY FewWhileBusy
<1>2. /\ IsFiniteSet(Unfinished \cup {x})
      /\ Cardinality(Unfinished \cup {x}) \in {Cardinality(Unfinished),
                                               Cardinality(Unfinished) + 1}
  BY <1>1, FS_AddElement
<1>3. /\ IsFiniteSet(Unfinished')
      /\ Cardinality(Unfinished') <= Cardinality(Unfinished \cup {x})
  BY <1>2, FS_Subset
<1>4. Cardinality(Unfinished') \in Nat
  BY <1>3, FS_CardinalityType
<1>5. Cardinality(Unfinished') <= AtOnce
  BY <1>1, <1>2, <1>3, <1>4, InPoolSize
<1> QED BY <1>5 DEF FewEvents, AtOnce

-----------------------------------------------------------------------------
(* The initial states *)

LEMMA InitInv ==
  ASSUME Init
  PROVE  Inv
<1>1. NewPart \in PartType /\ part = [k \in Parts |-> NewPart]
  BY Numbers DEF NewPart, PartType, Init
<1>2. /\ plan = << >> /\ Listed = {} /\ pc = "plan" /\ upload = "none"
      /\ result = "none" /\ pending = {} /\ waiting = {} /\ working = {}
      /\ done = {} /\ open = TRUE /\ abort = FALSE
  BY DEF Init, Pool!Init, Listed
<1>3. /\ \A k \in Parts : queue[k] = << >> /\ stored[k] = << >>
      /\ \A a \in Attempt : phase[a] = "none" /\ sent[a] = << >>
  BY DEF Init
<1>4. TypeOK
  <2>1. << >> \in Seq(Nat) /\ << >> \in Seq([base : Nat, len : Nat])
    OBVIOUS
  <2> QED BY <1>1, <1>2, <2>1 DEF TypeOK, Init, PartType
<1>5. PlanInv
  BY <1>2 DEF PlanInv, PlanCoversFile
<1>6. UploadInv
  BY <1>2 DEF UploadInv, Busy, NoKnownUploadLeft
<1>7. PartsInv
  <2> SUFFICES ASSUME NEW k \in Parts
               PROVE  /\ part[k] = NewPart /\ queue[k] = << >>
                      /\ \A r \in 0 .. MaxRetries : phase[<<k, r>>] = "none"
                      /\ phase[Current(k)] = "none"
                      /\ ~part[k].inProcess /\ ~part[k].complete /\ part[k].retry = 0
    BY <1>2, Numbers DEF PartsInv, Busy
  <2>1. part[k] = NewPart /\ queue[k] = << >>
    BY <1>1, <1>3
  <2>2. \A r \in 0 .. MaxRetries : phase[<<k, r>>] = "none"
    BY <1>3, AttemptParts
  <2>3. phase[Current(k)] = "none"
    BY <1>3, <1>4, PartFields
  <2> QED BY <2>1, <2>2, <2>3 DEF NewPart
<1>8. AttemptInv
  BY <1>2, <1>3 DEF AttemptInv, Busy
<1>9. StreamInv
  <2> SUFFICES ASSUME NEW k \in Parts
               PROVE  Len(queue[k]) <= MaxQueueSize /\ phase[Current(k)] = "none"
    BY <1>2 DEF StreamInv, Stream
  <2> QED BY <1>3, <1>4, PartFields, Numbers
<1>10. SizeInv
  <2>1. Unfinished = {}
    BY <1>2 DEF Unfinished
  <2>2. IsFiniteSet({}) /\ Cardinality({}) = 0
    BY FS_EmptySet
  <2> QED BY <1>2, <2>1, <2>2, Numbers
          DEF SizeInv, PoolSize, InPool, FewEvents, AnyPending, AtOnce
<1> QED BY <1>4, <1>5, <1>6, <1>7, <1>8, <1>9, <1>10 DEF Inv

-----------------------------------------------------------------------------
(* Steps of the calling thread that feed nothing *)

\* The parts, the attempts and the pool stay what they are.
LEMMA Quiet ==
  ASSUME Inv,
         UNCHANGED <<total, plan, part, queue, pending, waiting, working, phase,
                     sent, stored>>,
         \/ pc' = pc
         \/ /\ pc' \notin {"plan", "initiate"}
            /\ pc' \in Busy => pc \in Busy \cup {"initiate"}
            /\ pc \in {"destroyed", "done"} => pc' \in {"destroyed", "done"}
  PROVE  PlanInv' /\ PartsInv' /\ AttemptInv' /\ StreamInv' /\ PoolSize' /\ FewEvents'
<1>1. PlanInv'
  BY DEF Inv, PlanInv, PlanCoversFile, Listed, LastBlock
<1>2. StreamInv'
  BY DEF Inv, StreamInv, Stream, Feeding, Starved, Blocks, Current
<1>3. PoolSize' /\ FewEvents'
  BY DEF Inv, SizeInv, PoolSize, FewEvents, InPool, Unfinished, Finished
<1>4. PartsInv'
  <2> SUFFICES ASSUME NEW k \in Parts
               PROVE  (/\ k \notin Listed \/ pc \in {"plan", "initiate"} =>
                            /\ part[k] = NewPart /\ queue[k] = << >>
                            /\ \A r \in 0 .. MaxRetries : phase[<<k, r>>] = "none"
                       /\ pc \in Busy /\ ~part[k].inProcess
                            => phase[Current(k)] = "none" /\ part[k].cursor = 0
                       /\ pc \in Busy /\ part[k].inProcess /\ ~part[k].complete
                            => Current(k) \in pending)'
    BY DEF Inv, PartsInv, Current, Blocks, Listed
  <2>1. CASE pc' = pc
    BY <2>1 DEF Inv, PartsInv, Current, Blocks, Listed
  <2>2. CASE pc' # pc /\ pc = "initiate"
    <3>1. part[k] = NewPart /\ queue[k] = << >> /\ phase[Current(k)] = "none"
      BY <2>2, NothingYet, PartFields DEF Inv
    <3>2. \A r \in 0 .. MaxRetries : phase[<<k, r>>] = "none"
      BY <2>2, NothingYet, AttemptParts
    <3> QED BY <3>1, <3>2 DEF Current, Listed, NewPart
  <2>3. CASE pc' # pc /\ pc # "initiate"
    BY <2>3 DEF Inv, PartsInv, Current, Listed, Busy
  <2> QED BY <2>1, <2>2, <2>3
<1>5. AttemptInv'
  <2> SUFFICES ASSUME NEW a \in Attempt
               PROVE  (/\ phase[a] = "dropped" => pc \in {"destroyed", "done"}
                       /\ pc \in Busy => /\ a \in waiting => a \in pending
                                         /\ a \in Unfinished => a \in waiting \cup working)'
    BY DEF Inv, AttemptInv, Unfinished, Finished
  <2>1. CASE pc = "initiate"
    BY <2>1, NothingYet DEF Unfinished
  <2>2. CASE pc # "initiate"
    BY <2>2 DEF Inv, AttemptInv, Unfinished, Finished
  <2> QED BY <2>1, <2>2
<1> QED BY <1>1, <1>2, <1>3, <1>4, <1>5

\* An exception leaves the upload to be aborted, if there is one.
LEMMA ThrowUpload ==
  ASSUME Inv, pc \in {"initiate", "fill", "wait"}, Throw, UNCHANGED <<plan, part>>,
         upload' = upload \/ (pc = "initiate" /\ upload' \in {"none", "lost"})
  PROVE  /\ UploadInv' /\ result' = "failed" /\ pc' \in {"abort", "leave"}
<1>1. /\ pc = "initiate" => upload = "none"
      /\ pc \in {"fill", "wait"} => upload = "started"
  BY DEF Inv, UploadInv, Busy
<1>2. /\ result' = "failed"
      /\ pc' = IF upload = "started" THEN "abort" ELSE "leave"
  BY DEF Throw
<1> QED BY <1>1, <1>2 DEF UploadInv, Busy, NoKnownUploadLeft

LEMMA InitiateInv ==
  ASSUME Inv, Initiate
  PROVE  Inv'
<1>1. /\ pc = "initiate" /\ pc' \in {"fill", "abort", "leave"}
      /\ UNCHANGED <<total, plan, part, queue, pending, watched, waiting, working, done, open,
                     phase, sent, stored, abort>>
  BY DEF Initiate, Throw, workVars, poolVars
<1>2. PlanInv' /\ PartsInv' /\ AttemptInv' /\ StreamInv' /\ PoolSize' /\ FewEvents'
  BY <1>1, Quiet DEF Busy
<1>3. CASE upload' = "started" /\ pc' = "fill" /\ UNCHANGED result
  <2>1. TypeOK'
    BY <1>1, <1>3 DEF Inv, TypeOK, Listed
  <2>2. UploadInv'
    BY <1>1, <1>3 DEF Inv, UploadInv, Busy, NoKnownUploadLeft
  <2> QED BY <1>2, <1>3, <2>1, <2>2 DEF Inv, SizeInv, AnyPending
<1>4. CASE upload' \in {"none", "lost"} /\ Throw
  <2>1. UploadInv' /\ result' = "failed" /\ pc' \in {"abort", "leave"}
    BY <1>1, <1>4, ThrowUpload
  <2>2. TypeOK'
    BY <1>1, <1>4, <2>1 DEF Inv, TypeOK, Listed
  <2> QED BY <1>2, <2>1, <2>2 DEF Inv, SizeInv, AnyPending
<1> QED BY <1>3, <1>4 DEF Initiate

LEMMA PassFailsInv ==
  ASSUME Inv, PassFails
  PROVE  Inv'
<1>1. /\ pc = "wait" /\ Throw
      /\ UNCHANGED <<total, plan, part, queue, pending, watched, waiting, working, done, open,
                     phase, sent, stored, abort, upload>>
  BY DEF PassFails, workVars, poolVars
<1>2. UploadInv' /\ result' = "failed" /\ pc' \in {"abort", "leave"}
  BY <1>1, ThrowUpload
<1>3. PlanInv' /\ PartsInv' /\ AttemptInv' /\ StreamInv' /\ PoolSize' /\ FewEvents'
  BY <1>1, <1>2, Quiet DEF Busy
<1>4. TypeOK'
  BY <1>1, <1>2 DEF Inv, TypeOK, Listed
<1> QED BY <1>2, <1>3, <1>4 DEF Inv, SizeInv, AnyPending

\* When the pool is full some attempt in it is not with a thread yet, and when
\* every part is given one of them is not complete yet: either is pending.
LEMMA FilledInv ==
  ASSUME Inv, Filled
  PROVE  Inv'
<1>1. /\ pc = "fill" /\ pc' \in {"complete", "collect"}
      /\ pc' = IF \A k \in Listed : part[k].complete THEN "complete" ELSE "collect"
      /\ ToSend = {} \/ InPool >= AtOnce
      /\ UNCHANGED <<total, plan, part, queue, pending, watched, waiting, working, done, open,
                     phase, sent, stored, abort, upload, result>>
  BY DEF Filled, workVars, poolVars
<1>2. PlanInv' /\ PartsInv' /\ AttemptInv' /\ StreamInv' /\ PoolSize' /\ FewEvents'
  BY <1>1, Quiet DEF Busy
<1>3. TypeOK'
  BY <1>1 DEF Inv, TypeOK, Listed
<1>4. UploadInv'
  BY <1>1 DEF Inv, UploadInv, Busy, NoKnownUploadLeft, Listed
<1>5. AnyPending'
  <2> SUFFICES ASSUME pc' = "collect"
               PROVE  pending # {}
    BY <1>1 DEF AnyPending
  <2>1. CASE InPool >= AtOnce
    <3>1. Cardinality(waiting) > 0
      BY <2>1, InPoolSize, Numbers DEF Inv, SizeInv, PoolSize, InPool
    <3>2. waiting # {}
      BY <3>1, FS_EmptySet
    <3>3. PICK a \in Attempt : a \in waiting
      BY <3>2 DEF Inv, TypeOK
    <3> QED BY <1>1, <3>3 DEF Inv, AttemptInv, Busy
  <2>2. CASE ToSend = {}
    <3>1. PICK k \in Listed : ~part[k].complete
      BY <1>1
    <3>2. k \in Parts /\ part[k].inProcess
      BY <2>2, <3>1 DEF ToSend, Inv, TypeOK
    <3> QED BY <1>1, <3>1, <3>2 DEF Inv, PartsInv, Busy
  <2> QED BY <1>1, <2>1, <2>2
<1> QED BY <1>2, <1>3, <1>4, <1>5 DEF Inv, SizeInv

LEMMA CollectInv ==
  ASSUME Inv, Collect
  PROVE  Inv'
<1>1. /\ pc = "collect" /\ pc' = "wait" /\ watched' \in SUBSET Unfinished
      /\ UNCHANGED <<total, plan, part, queue, pending, waiting, working, done, open,
                     phase, sent, stored, abort, upload, result>>
  BY DEF Collect, workVars, poolVars
<1>2. PlanInv' /\ PartsInv' /\ AttemptInv' /\ StreamInv' /\ PoolSize' /\ FewEvents'
  BY <1>1, Quiet DEF Busy
<1>3. TypeOK'
  BY <1>1 DEF Inv, TypeOK, Listed, Unfinished
<1>4. UploadInv'
  BY <1>1 DEF Inv, UploadInv, Busy, NoKnownUploadLeft, Listed
<1> QED BY <1>1, <1>2, <1>3, <1>4 DEF Inv, SizeInv, AnyPending

LEMMA CompleteInv ==
  ASSUME Inv, Complete
  PROVE  Inv'
<1>1. /\ pc = "complete"
      /\ \/ upload' = "completed" /\ result' = "ok" /\ pc' = "leave"
         \/ upload' \in {"completed", "started"} /\ result' = "failed" /\ pc' = "abort"
      /\ UNCHANGED <<total, plan, part, queue, pending, watched, waiting, working, done, open,
                     phase, sent, stored, abort>>
  BY DEF Complete, workVars, poolVars
<1>2. PlanInv' /\ PartsInv' /\ AttemptInv' /\ StreamInv' /\ PoolSize' /\ FewEvents'
  BY <1>1, Quiet DEF Busy
<1>3. TypeOK'
  BY <1>1 DEF Inv, TypeOK, Listed
<1>4. UploadInv'
  BY <1>1 DEF Inv, UploadInv, Busy, NoKnownUploadLeft, Listed
<1> QED BY <1>1, <1>2, <1>3, <1>4 DEF Inv, SizeInv, AnyPending

LEMMA LeaveInv ==
  ASSUME Inv, AbortUpload \/ DestroyPending \/ Terminate \/ AskAbort
  PROVE  Inv'
<1>1. /\ \/ pc = "abort" /\ pc' = "leave" /\ upload' = "abort asked"
         \/ pc = "leave" /\ pc' = "destroyed" /\ UNCHANGED upload
         \/ pc = "destroyed" /\ pc' = "done" /\ UNCHANGED upload
         \/ UNCHANGED <<pc, upload>>
      /\ open' \in {open, FALSE} /\ abort' \in {abort, TRUE}
      /\ UNCHANGED <<total, plan, part, queue, pending, watched, waiting, working, done,
                     phase, sent, stored, result>>
  BY DEF AbortUpload, DestroyPending, Terminate, AskAbort, Pool!Close, workVars,
         poolVars, mainVars
<1>2. PlanInv' /\ PartsInv' /\ AttemptInv' /\ StreamInv' /\ PoolSize' /\ FewEvents'
  BY <1>1, Quiet DEF Busy
<1>3. TypeOK'
  BY <1>1, ZenonT(60) DEF Inv, TypeOK, Listed
<1>4. UploadInv'
  BY <1>1 DEF Inv, UploadInv, Busy, NoKnownUploadLeft, Listed
<1>5. AnyPending'
  BY <1>1 DEF Inv, SizeInv, AnyPending
<1> QED BY <1>2, <1>3, <1>4, <1>5 DEF Inv, SizeInv

\* The plan is made before anything is begun.
LEMMA MakePlanInv ==
  ASSUME Inv, MakePlan
  PROVE  Inv'
<1>1. /\ pc = "plan" /\ plan' = Plan(total)
      /\ \/ plan' = << >> /\ pc' = "leave" /\ result' = "declined"
         \/ plan' # << >> /\ pc' = "initiate" /\ UNCHANGED result
      /\ UNCHANGED <<total, part, queue, pending, watched, waiting, working, done, open,
                     phase, sent, stored, abort, upload>>
  BY DEF MakePlan, workVars, poolVars
<1>2. total \in Nat /\ total <= Longest
  BY Lengths DEF Inv, TypeOK
<1>3. /\ plan' \in Seq([base : Nat, len : Nat]) /\ Listed' \subseteq Parts
      /\ PlanCoversFile'
  <2>1. CASE plan' = << >>
    <3>1. << >> \in Seq([base : Nat, len : Nat]) /\ DOMAIN << >> = {}
      OBVIOUS
    <3> QED BY <2>1, <3>1 DEF PlanCoversFile, Listed
  <2>2. CASE plan' # << >>
    <3> QED BY <1>1, <1>2, <2>2, PlanFits DEF Piece, Listed, PlanCoversFile, LastBlock
  <2> QED BY <2>1, <2>2
<1>4. TypeOK'
  BY <1>1, <1>3 DEF Inv, TypeOK
<1>5. PlanInv'
  BY <1>1, <1>3 DEF PlanInv
<1>6. UploadInv'
  BY <1>1 DEF Inv, UploadInv, Busy, NoKnownUploadLeft
<1>7. /\ \A k \in Parts : part[k] = NewPart /\ queue[k] = << >>
      /\ \A a \in Attempt : /\ phase[a] = "none" /\ sent[a] = << >>
                            /\ a \notin pending \cup waiting \cup working
  BY <1>1, NothingYet
<1>8. PartsInv'
  <2> SUFFICES ASSUME NEW k \in Parts
               PROVE  /\ part[k] = NewPart /\ queue[k] = << >>
                      /\ \A r \in 0 .. MaxRetries : phase[<<k, r>>] = "none"
                      /\ phase[Current(k)] = "none"
                      /\ ~part[k].inProcess /\ ~part[k].complete /\ part[k].retry = 0
    BY <1>1, Numbers DEF PartsInv, Busy, Current
  <2> QED BY <1>7, AttemptParts, PartFields DEF Inv, NewPart
<1>9. AttemptInv'
  BY <1>1, <1>7 DEF AttemptInv, Busy
<1>10. StreamInv'
  <2> SUFFICES ASSUME NEW k \in Parts
               PROVE  /\ Len(queue[k]) <= MaxQueueSize /\ phase[Current(k)] = "none"
                      /\ Current(k) \notin waiting
    BY <1>1 DEF StreamInv, Stream, Current
  <2>1. Current(k) \in Attempt
    BY PartFields DEF Inv
  <2>2. Len(queue[k]) <= MaxQueueSize
    BY DEF Inv, StreamInv, Stream
  <2> QED BY <1>7, <2>1, <2>2
<1>11. SizeInv'
  BY <1>1 DEF Inv, SizeInv, PoolSize, InPool, FewEvents, Unfinished, Finished,
              AnyPending
<1> QED BY <1>4, <1>5, <1>6, <1>8, <1>9, <1>10, <1>11 DEF Inv

-----------------------------------------------------------------------------
(* Steps of the workers *)

\* A request that runs goes on or ends.
LEMMA RequestStep ==
  ASSUME Inv, NEW a \in Attempt, NEW p \in {"send", "answer", "ok", "error"},
         phase[a] \in {"send", "answer"}, phase' = [phase EXCEPT ![a] = p],
         UNCHANGED <<total, pc, plan, part, pending, watched, upload, result, waiting, working,
                     done, open, abort>>,
         \A b \in Attempt : b # a => sent'[b] = sent[b],
         \A k \in Parts : k # a[1] => queue'[k] = queue[k] /\ stored'[k] = stored[k],
         p = "ok" => stored'[a[1]] = Blocks(a[1])
  PROVE  /\ PlanInv' /\ UploadInv' /\ PartsInv' /\ AttemptInv' /\ SizeInv'
         /\ \A k \in Parts : k # a[1] => Stream(k)'
<1> USE DEF Inv
<1>1. /\ a[1] \in Parts /\ a[1] \in Listed /\ a = Current(a[1])
      /\ pc \notin {"plan", "initiate"} /\ ~part[a[1]].complete
  BY Running
<1>2. \A b \in Attempt : phase'[b] = IF b = a THEN p ELSE phase[b]
  BY DEF TypeOK
<1>3. \A k \in Parts : /\ Current(k) \in Attempt /\ Current(k)' = Current(k)
                       /\ k # a[1] => Current(k) # a
  BY <1>1, PartFields DEF Current
<1>4. PlanInv' /\ UploadInv'
  BY DEF PlanInv, PlanCoversFile, Listed, LastBlock, UploadInv, NoKnownUploadLeft
<1>5. PartsInv'
  <2> SUFFICES ASSUME NEW k \in Parts
               PROVE  (/\ k \notin Listed \/ pc \in {"plan", "initiate"} =>
                            /\ part[k] = NewPart /\ queue[k] = << >>
                            /\ \A r \in 0 .. MaxRetries : phase[<<k, r>>] = "none"
                       /\ \A r \in 0 .. MaxRetries :
                            /\ r > part[k].retry => phase[<<k, r>>] = "none"
                            /\ r < part[k].retry => phase[<<k, r>>] = "error"
                       /\ part[k].inProcess => phase[Current(k)] # "none"
                       /\ part[k].complete => part[k].inProcess /\ phase[Current(k)] = "ok"
                       /\ phase[Current(k)] = "ok" => stored[k] = Blocks(k)
                       /\ pc \in Busy /\ ~part[k].inProcess
                            => phase[Current(k)] = "none" /\ part[k].cursor = 0
                       /\ pc \in Busy /\ part[k].inProcess /\ ~part[k].complete
                            => Current(k) \in pending)'
    BY DEF PartsInv
  <2>1. CASE k # a[1]
    <3>1. \A r \in 0 .. MaxRetries : <<k, r>> \in Attempt /\ <<k, r>> # a
      BY <2>1, AttemptParts
    <3>2. \A r \in 0 .. MaxRetries : phase'[<<k, r>>] = phase[<<k, r>>]
      BY <1>2, <3>1
    <3>3. phase'[Current(k)'] = phase[Current(k)] /\ Blocks(k)' = Blocks(k)
      BY <2>1, <1>2, <1>3 DEF Blocks
    <3> QED BY <2>1, <3>2, <3>3, <1>3 DEF PartsInv, Listed
  <2>2. CASE k = a[1]
    <3>1. /\ Current(k)' = a /\ phase'[a] = p /\ Blocks(k)' = Blocks(k)
          /\ k \in Listed' /\ part[k].retry \in Nat /\ part'[k] = part[k]
      BY <2>2, <1>1, <1>2, <1>3, PartFields DEF Listed, Blocks
    <3>2. \A r \in 0 .. MaxRetries : /\ <<k, r>> \in Attempt
                                     /\ r # part[k].retry => <<k, r>> # a
      BY <2>2, <1>1, AttemptParts DEF Current
    <3>3. \A r \in 0 .. MaxRetries :
            /\ r > part[k].retry => phase'[<<k, r>>] = "none"
            /\ r < part[k].retry => phase'[<<k, r>>] = "error"
      <4> TAKE r \in 0 .. MaxRetries
      <4>1. r \in Nat
        BY Numbers
      <4>2. /\ r > part[k].retry => phase[<<k, r>>] = "none"
            /\ r < part[k].retry => phase[<<k, r>>] = "error"
        BY DEF PartsInv
      <4> QED BY <4>1, <4>2, <3>1, <3>2, <1>2
    <3>4. pc \in Busy => part[k].inProcess /\ a \in pending
      BY <2>2, <1>1 DEF PartsInv
    <3> QED BY <2>2, <3>1, <3>3, <3>4, <1>1
  <2> QED BY <2>1, <2>2
<1>6. Unfinished' \subseteq Unfinished
  BY <1>2 DEF Unfinished, Finished, TypeOK
<1>7. AttemptInv'
  BY <1>2, <1>6 DEF AttemptInv
<1>8. SizeInv'
  BY <1>6, FewStay DEF SizeInv, PoolSize, InPool, AnyPending
<1>9. \A k \in Parts : k # a[1] => Stream(k)'
  <2> SUFFICES ASSUME NEW k \in Parts, k # a[1]
               PROVE  Stream(k)'
    OBVIOUS
  <2>1. /\ queue'[k] = queue[k] /\ Current(k)' = Current(k)
        /\ sent'[Current(k)] = sent[Current(k)] /\ phase'[Current(k)] = phase[Current(k)]
    BY <1>2, <1>3
  <2>2. Stream(k) /\ Blocks(k)' = Blocks(k)
    BY DEF StreamInv, Blocks
  <2>3. Feeding(k)' = Feeding(k)
    BY <2>1 DEF Feeding
  <2>4. Starved(k)' = Starved(k)
    BY <2>1 DEF Starved
  <2> QED BY <2>1, <2>2, <2>3, <2>4 DEF Stream
<1> QED BY <1>4, <1>5, <1>7, <1>8, <1>9

LEMMA RequestFailsInv ==
  ASSUME Inv, NEW a \in Attempt, RequestFails(a)
  PROVE  Inv'
<1> USE DEF Inv
<1>1. /\ phase[a] \in {"send", "answer"} /\ phase' = [phase EXCEPT ![a] = "error"]
      /\ sent' = [sent EXCEPT ![a] = << >>]
      /\ UNCHANGED <<total, pc, plan, part, queue, pending, watched, upload, result, waiting,
                     working, done, open, abort, stored>>
  BY DEF RequestFails, Set, mainVars, poolVars
<1>2. /\ PlanInv' /\ UploadInv' /\ PartsInv' /\ AttemptInv' /\ SizeInv'
      /\ \A k \in Parts : k # a[1] => Stream(k)'
  <2>1. \A b \in Attempt : b # a => sent'[b] = sent[b]
    BY <1>1 DEF TypeOK
  <2>2. "error" \in {"send", "answer", "ok", "error"} /\ "error" # "ok"
    OBVIOUS
  <2> QED BY <1>1, <2>1, <2>2, RequestStep
<1>3. TypeOK'
  <2>1. << >> \in Seq(Nat)
    OBVIOUS
  <2> QED BY <1>1, <2>1 DEF TypeOK, Listed
<1>4. Stream(a[1])'
  <2>1. a[1] \in Parts /\ a = Current(a[1]) /\ Current(a[1])' = a
    BY <1>1, Running DEF Current
  <2>2. phase'[a] = "error" /\ a \notin waiting
    BY <1>1 DEF TypeOK, AttemptInv
  <2> QED BY <1>1, <2>1, <2>2 DEF StreamInv, Stream
<1> QED BY <1>2, <1>3, <1>4 DEF StreamInv

LEMMA ChallengedInv ==
  ASSUME Inv, NEW a \in Attempt, Challenged(a)
  PROVE  Inv'
<1> USE DEF Inv
<1>1. /\ phase[a] = "answer" /\ phase' = [phase EXCEPT ![a] = "send"]
      /\ sent' = [sent EXCEPT ![a] = << >>]
      /\ UNCHANGED <<total, pc, plan, part, queue, pending, watched, upload, result, waiting,
                     working, done, open, abort, stored>>
  BY DEF Challenged, Set, mainVars, poolVars
<1>2. /\ PlanInv' /\ UploadInv' /\ PartsInv' /\ AttemptInv' /\ SizeInv'
      /\ \A k \in Parts : k # a[1] => Stream(k)'
  <2>1. \A b \in Attempt : b # a => sent'[b] = sent[b]
    BY <1>1 DEF TypeOK
  <2>2. "send" \in {"send", "answer", "ok", "error"} /\ "send" # "ok"
    OBVIOUS
  <2> QED BY <1>1, <2>1, <2>2, RequestStep
<1>3. TypeOK'
  <2>1. << >> \in Seq(Nat)
    OBVIOUS
  <2> QED BY <1>1, <2>1 DEF TypeOK, Listed
<1>4. Stream(a[1])'
  <2>1. a[1] \in Parts /\ a = Current(a[1]) /\ Current(a[1])' = a
    BY <1>1, Running DEF Current
  <2>2. phase'[a] = "send" /\ a \notin waiting /\ sent'[a] = << >>
    BY <1>1 DEF TypeOK, AttemptInv
  <2>3. queue[a[1]] = << >> /\ part[a[1]].cursor = plan[a[1]].len
    BY <1>1, <2>1 DEF StreamInv, Stream
  <2> QED BY <1>1, <2>1, <2>2, <2>3 DEF StreamInv, Stream, Starved
<1> QED BY <1>2, <1>3, <1>4 DEF StreamInv

LEMMA StoredInv ==
  ASSUME Inv, NEW a \in Attempt, Stored(a)
  PROVE  Inv'
<1> USE DEF Inv
<1>1. /\ phase[a] = "answer"
      /\ sent' = [sent EXCEPT ![a] = << >>]
      /\ stored' = [stored EXCEPT ![a[1]] = sent[a]]
      /\ UNCHANGED <<total, pc, plan, part, queue, pending, watched, upload, result, waiting,
                     working, done, open, abort>>
  BY DEF Stored, Set, mainVars, poolVars
<1>2. PICK p \in {"ok", "error"} : phase' = [phase EXCEPT ![a] = p]
  BY DEF Stored, Set
<1>3. a[1] \in Parts /\ a = Current(a[1]) /\ Current(a[1])' = a
  BY <1>1, Running DEF Current
<1>4. /\ PlanInv' /\ UploadInv' /\ PartsInv' /\ AttemptInv' /\ SizeInv'
      /\ \A k \in Parts : k # a[1] => Stream(k)'
  <2>1. \A b \in Attempt : b # a => sent'[b] = sent[b]
    BY <1>1 DEF TypeOK
  <2>2. \A k \in Parts : k # a[1] => queue'[k] = queue[k] /\ stored'[k] = stored[k]
    BY <1>1 DEF TypeOK
  <2>3. stored'[a[1]] = Blocks(a[1])
    BY <1>1, <1>3 DEF TypeOK, StreamInv, Stream
  <2>4. p \in {"send", "answer", "ok", "error"}
    OBVIOUS
  <2> QED BY <1>1, <1>2, <2>1, <2>2, <2>3, <2>4, RequestStep
<1>5. TypeOK'
  <2>1. << >> \in Seq(Nat)
    OBVIOUS
  <2> QED BY <1>1, <1>2, <1>3, <2>1, ZenonT(60) DEF TypeOK, Listed
<1>6. Stream(a[1])'
  <2>1. phase'[a] \in {"ok", "error"} /\ a \notin waiting
    BY <1>1, <1>2 DEF TypeOK, AttemptInv
  <2> QED BY <1>1, <1>3, <2>1 DEF StreamInv, Stream
<1> QED BY <1>4, <1>5, <1>6 DEF StreamInv

\* The block at the head of the queue follows those sent before, and when it
\* is the last of the part the queue is empty behind it.
LEMMA SendNext ==
  ASSUME NEW s \in Seq(Nat), NEW q \in Seq(Nat), q # << >>,
         NEW base \in Nat, NEW size \in Nat, NEW c \in Nat,
         Fed(s, q, base, size, c)
  PROVE  /\ Append(s, Head(q)) \in Seq(Nat) /\ Tail(q) \in Seq(Nat)
         /\ Fed(Append(s, Head(q)), Tail(q), base, size, c)
         /\ Len(Tail(q)) < Len(q)
         /\ Head(q) = base + size
              => Len(Append(s, Head(q))) = size /\ Tail(q) = << >> /\ c = size
         /\ Head(q) # base + size => Len(Append(s, Head(q))) < size
<1> DEFINE b == Head(q)
           r == Tail(q)
           t == Append(s, Head(q))
<1>0. c = Len(s) + Len(q) /\ c <= size /\ Follows(s, base) /\ Follows(q, base + Len(s))
  BY DEF Fed
<1>1. Len(s) \in Nat /\ Len(q) \in Nat /\ Len(q) > 0
  BY EmptySeq
<1>2. /\ b \in Nat /\ b = q[1] /\ r \in Seq(Nat) /\ Len(r) = Len(q) - 1
      /\ \A i \in 1 .. Len(r) : r[i] = q[i + 1]
  BY HeadTailProperties
<1>3. /\ t \in Seq(Nat) /\ Len(t) = Len(s) + 1
      /\ \A i \in 1 .. Len(s) : t[i] = s[i]
      /\ t[Len(s) + 1] = b
  BY <1>2, AppendProperties
<1>4. b = base + Len(s) + 1
  <2>1. 1 \in 1 .. Len(q)
    BY <1>1
  <2> QED BY <1>0, <1>2, <2>1 DEF Follows
<1> HIDE DEF b, r, t
<1>5. Follows(t, base)
  <2> SUFFICES ASSUME NEW i \in 1 .. Len(t) PROVE t[i] = base + i
    BY DEF Follows
  <2>1. i \in 1 .. Len(s) \/ i = Len(s) + 1
    BY <1>1, <1>3
  <2>2. CASE i \in 1 .. Len(s)
    BY <2>2, <1>0, <1>3 DEF Follows
  <2>3. CASE i = Len(s) + 1
    BY <2>3, <1>1, <1>3, <1>4
  <2> QED BY <2>1, <2>2, <2>3
<1>6. Follows(r, base + Len(t))
  <2> SUFFICES ASSUME NEW j \in 1 .. Len(r) PROVE r[j] = (base + Len(t)) + j
    BY DEF Follows
  <2>1. j + 1 \in 1 .. Len(q) /\ j \in Nat
    BY <1>1, <1>2
  <2>2. q[j + 1] = (base + Len(s)) + (j + 1)
    BY <2>1, <1>0 DEF Follows
  <2>3. r[j] = q[j + 1]
    BY <1>2
  <2> QED BY <2>1, <2>2, <2>3, <1>1, <1>3
<1>7. c = Len(t) + Len(r) /\ Len(r) < Len(q) /\ Len(r) \in Nat
  <2>1. Len(t) = Len(s) + 1 /\ Len(r) = Len(q) - 1
    BY <1>2, <1>3
  <2>2. Len(r) \in Nat
    BY <1>1, <2>1
  <2>3. Len(t) + Len(r) = Len(s) + Len(q)
    BY <1>1, <2>1
  <2> QED BY <1>0, <1>1, <2>1, <2>2, <2>3
<1>8. b = base + size => Len(t) = size /\ Len(r) = 0 /\ c = size
  BY <1>0, <1>1, <1>3, <1>4, <1>7
<1>9. Len(r) = 0 => r = << >>
  BY <1>2, EmptySeq
<1>10. b # base + size => Len(t) < size
  <2>1. Len(t) \in Nat /\ Len(t) <= size /\ b = base + Len(t)
    BY <1>0, <1>1, <1>3, <1>4, <1>7
  <2> QED BY <2>1, SMTT(30)
<1>11. Fed(t, r, base, size, c)
  BY <1>0, <1>5, <1>6, <1>7 DEF Fed
<1> QED BY <1>2, <1>3, <1>7, <1>8, <1>9, <1>10, <1>11 DEF b, r, t

\* The block sent is the one that follows those sent before.
LEMMA SendBlockInv ==
  ASSUME Inv, NEW a \in Attempt, SendBlock(a)
  PROVE  Inv'
<1> USE DEF Inv
<1> DEFINE k == a[1]
           q == queue[a[1]]
           s == sent[a]
           t == Append(s, Head(q))
           p == IF Head(q) = LastBlock(a[1]) THEN "answer" ELSE "send"
<1>1. /\ phase[a] = "send" /\ q # << >>
      /\ sent' = [sent EXCEPT ![a] = t]
      /\ phase' = [phase EXCEPT ![a] = p]
      /\ queue' = [queue EXCEPT ![k] = Tail(q)]
      /\ UNCHANGED <<total, pc, plan, part, pending, watched, upload, result, waiting,
                     working, done, open, abort, stored>>
  BY DEF SendBlock, mainVars, poolVars
<1>2. k \in Parts /\ k \in Listed /\ a = Current(k) /\ Current(k)' = a
  BY <1>1, Running DEF Current
<1>3. /\ PlanInv' /\ UploadInv' /\ PartsInv' /\ AttemptInv' /\ SizeInv'
      /\ \A j \in Parts : j # a[1] => Stream(j)'
  <2>1. \A c \in Attempt : c # a => sent'[c] = sent[c]
    BY <1>1 DEF TypeOK
  <2>2. \A j \in Parts : j # a[1] => queue'[j] = queue[j] /\ stored'[j] = stored[j]
    BY <1>1 DEF TypeOK
  <2>3. p \in {"send", "answer", "ok", "error"} /\ p # "ok"
    OBVIOUS
  <2> QED BY <1>1, <2>1, <2>2, <2>3, RequestStep
<1>4. /\ s \in Seq(Nat) /\ q \in Seq(Nat) /\ Len(q) \in Nat
      /\ part[k].cursor \in Nat
  BY <1>1, <1>2, PartFields
<1>5. plan[k].base \in Nat /\ plan[k].len \in Nat
  BY <1>2, PieceOf
<1>6. Feeding(k) /\ Len(s) < plan[k].len
  BY <1>1, <1>2 DEF StreamInv, Stream, Starved
<1>7. Fed(s, q, plan[k].base, plan[k].len, part[k].cursor)
  BY <1>2, <1>6 DEF Feeding
<1>8. /\ t \in Seq(Nat) /\ Tail(q) \in Seq(Nat)
      /\ Fed(t, Tail(q), plan[k].base, plan[k].len, part[k].cursor)
      /\ Len(Tail(q)) < Len(q)
      /\ Head(q) = plan[k].base + plan[k].len
           => Len(t) = plan[k].len /\ Tail(q) = << >> /\ part[k].cursor = plan[k].len
      /\ Head(q) # plan[k].base + plan[k].len => Len(t) < plan[k].len
  <2> DEFINE base == plan[k].base
             size == plan[k].len
             c == part[k].cursor
  <2>1. /\ s \in Seq(Nat) /\ q \in Seq(Nat) /\ q # << >>
        /\ base \in Nat /\ size \in Nat /\ c \in Nat
        /\ Fed(s, q, base, size, c)
    BY <1>1, <1>4, <1>5, <1>7
  <2> HIDE DEF base, size, c, s, q
  <2>2. /\ t \in Seq(Nat) /\ Tail(q) \in Seq(Nat)
        /\ Fed(t, Tail(q), base, size, c)
        /\ Len(Tail(q)) < Len(q)
        /\ Head(q) = base + size => Len(t) = size /\ Tail(q) = << >> /\ c = size
        /\ Head(q) # base + size => Len(t) < size
    BY <2>1, SendNext
  <2> QED BY <2>2 DEF base, size, c
<1>9. sent'[a] = t /\ queue'[k] = Tail(q) /\ phase'[a] = p
  BY <1>1, <1>2 DEF TypeOK
<1>10. TypeOK'
  BY <1>1, <1>2, <1>8 DEF TypeOK, Listed
<1>11. a \notin waiting
  BY <1>1 DEF AttemptInv
<1>12. Len(Tail(q)) <= MaxQueueSize
  <2>1. Len(q) <= MaxQueueSize
    BY <1>2 DEF StreamInv, Stream
  <2>2. Len(Tail(q)) \in Nat
    BY <1>8, LenProperties
  <2> QED BY <2>1, <2>2, <1>4, <1>8, Numbers
<1>13. p = IF Head(q) = plan[k].base + plan[k].len THEN "answer" ELSE "send"
  BY DEF LastBlock
<1> HIDE DEF t, q, s, p, k
<1>14. CASE p = "answer"
  <2>1. Len(t) = plan[k].len /\ Tail(q) = << >> /\ part[k].cursor = plan[k].len
    BY <1>8, <1>13, <1>14
  <2>2. t = Blocks(k)
    <3>1. /\ Blocks(k) \in Seq(Nat) /\ Len(Blocks(k)) = plan[k].len
          /\ \A i \in 1 .. plan[k].len : Blocks(k)[i] = plan[k].base + i
      BY <1>2, BlocksOf
    <3>2. \A i \in 1 .. Len(t) : t[i] = Blocks(k)[i]
      BY <2>1, <3>1, <1>8 DEF Fed, Follows
    <3>3. Len(t) = Len(Blocks(k)) /\ t \in Seq(Nat)
      BY <2>1, <3>1, <1>8
    <3> QED BY <3>1, <3>2, <3>3, SeqEqual
  <2>3. Blocks(k)' = Blocks(k)
    BY <1>1 DEF Blocks
  <2> QED BY <2>1, <2>2, <2>3, <1>1, <1>2, <1>3, <1>9, <1>10, <1>11, <1>12, <1>14
          DEF Stream, StreamInv, k
<1>15. CASE p = "send"
  <2>1. Len(t) < plan[k].len
    BY <1>8, <1>13, <1>15
  <2>2. Feeding(k)'
    BY <1>1, <1>2, <1>8, <1>9 DEF Feeding
  <2> QED BY <2>1, <2>2, <1>1, <1>2, <1>3, <1>9, <1>10, <1>11, <1>12, <1>15
          DEF Stream, StreamInv, k
<1> QED BY <1>13, <1>14, <1>15

\* A thread of the pool takes an attempt, as it was given.
LEMMA TakeInv ==
  ASSUME Inv, NEW a \in Attempt, Take(a)
  PROVE  Inv'
<1> USE DEF Inv
<1> DEFINE p == IF pc = "destroyed" THEN "dropped" ELSE "send"
<1>1. /\ Cardinality(working) < MaxThreads /\ a \in waiting
      /\ waiting' = waiting \ {a} /\ working' = working \cup {a}
      /\ phase' = [phase EXCEPT ![a] = p]
      /\ UNCHANGED <<total, pc, plan, part, queue, pending, watched, upload, result, done, open,
                     abort, sent, stored>>
  BY DEF Take, Pool!Take, mainVars
<1>2. phase[a] = "given" /\ a \notin working /\ sent[a] = << >>
  BY <1>1 DEF AttemptInv
<1>3. /\ a[1] \in Parts /\ a[1] \in Listed /\ a = Current(a[1])
      /\ pc \notin {"plan", "initiate"} /\ ~part[a[1]].complete
  BY <1>2, Running
<1>4. \A b \in Attempt : phase'[b] = IF b = a THEN p ELSE phase[b]
  BY <1>1 DEF TypeOK
<1>5. p \in {"send", "dropped"} /\ (p = "dropped" <=> pc = "destroyed")
  OBVIOUS
<1> HIDE DEF p
<1>6. TypeOK'
  BY <1>1, <1>5 DEF TypeOK, Listed
<1>7. PlanInv' /\ UploadInv'
  BY <1>1 DEF PlanInv, PlanCoversFile, Listed, LastBlock, UploadInv, NoKnownUploadLeft
<1>8. PartsInv'
  <2> SUFFICES ASSUME NEW k \in Parts
               PROVE  (/\ k \notin Listed \/ pc \in {"plan", "initiate"} =>
                            \A r \in 0 .. MaxRetries : phase[<<k, r>>] = "none"
                       /\ \A r \in 0 .. MaxRetries :
                            /\ r > part[k].retry => phase[<<k, r>>] = "none"
                            /\ r < part[k].retry => phase[<<k, r>>] = "error"
                       /\ part[k].inProcess => phase[Current(k)] # "none"
                       /\ part[k].complete => phase[Current(k)] = "ok"
                       /\ phase[Current(k)] = "ok" => stored[k] = Blocks(k)
                       /\ pc \in Busy /\ ~part[k].inProcess => phase[Current(k)] = "none")'
    BY <1>1 DEF PartsInv, Current, Listed
  <2>1. CASE k # a[1]
    <3>1. \A r \in 0 .. MaxRetries : phase'[<<k, r>>] = phase[<<k, r>>]
      BY <2>1, <1>4, AttemptParts
    <3>2. /\ phase'[Current(k)'] = phase[Current(k)] /\ Current(k)' = Current(k)
          /\ Blocks(k)' = Blocks(k)
      BY <2>1, <1>1, <1>4, PartFields DEF Blocks, Current
    <3> QED BY <2>1, <3>1, <3>2, <1>1 DEF PartsInv, Listed
  <2>2. CASE k = a[1]
    <3>1. /\ Current(k)' = a /\ phase'[a] = p /\ k \in Listed'
          /\ part[k].retry \in Nat /\ part'[k] = part[k]
      BY <2>2, <1>1, <1>3, <1>4, PartFields DEF Listed, Current
    <3>2. \A r \in 0 .. MaxRetries : r # part[k].retry => phase'[<<k, r>>] = phase[<<k, r>>]
      BY <2>2, <1>3, <1>4, AttemptParts DEF Current
    <3>3. \A r \in 0 .. MaxRetries :
            /\ r > part[k].retry => phase'[<<k, r>>] = "none"
            /\ r < part[k].retry => phase'[<<k, r>>] = "error"
      <4> TAKE r \in 0 .. MaxRetries
      <4>1. r \in Nat
        BY Numbers
      <4>2. /\ r > part[k].retry => phase[<<k, r>>] = "none"
            /\ r < part[k].retry => phase[<<k, r>>] = "error"
        BY DEF PartsInv
      <4> QED BY <4>1, <4>2, <3>1, <3>2
    <3>4. pc \in Busy => part[k].inProcess
      BY <2>2, <1>2, <1>3 DEF PartsInv
    <3> QED BY <2>2, <3>1, <3>3, <3>4, <1>1, <1>3, <1>5
  <2> QED BY <2>1, <2>2
<1>9. Unfinished' = Unfinished
  BY <1>1, <1>2, <1>4, <1>5 DEF Unfinished, Finished, TypeOK
<1>10. AttemptInv'
  BY <1>1, <1>2, <1>4, <1>5, <1>9 DEF AttemptInv, Busy
<1>11. StreamInv'
  <2> SUFFICES ASSUME NEW k \in Parts
               PROVE  Stream(k)'
    BY DEF StreamInv
  <2>1. /\ Stream(k) /\ Current(k)' = Current(k) /\ Blocks(k)' = Blocks(k)
        /\ Current(k) \in Attempt
    BY <1>1, PartFields DEF StreamInv, Current, Blocks
  <2>2. Feeding(k)' = Feeding(k) /\ Starved(k)' = Starved(k)
    BY <1>1, <2>1 DEF Feeding, Starved
  <2>3. CASE Current(k) # a
    BY <2>1, <2>2, <2>3, <1>1, <1>4 DEF Stream
  <2>4. CASE Current(k) = a
    <3>1. k = a[1] /\ Feeding(k)
      BY <2>1, <2>4, <1>1, PartFields DEF Stream
    <3>2. Len(sent[a]) < plan[k].len
      BY <3>1, <1>2, <1>3, PieceOf, EmptySeq
    <3> QED BY <2>1, <2>2, <2>4, <3>1, <3>2, <1>1, <1>4, <1>5 DEF Stream
  <2> QED BY <2>3, <2>4
<1>12. PoolSize'
  <2>1. IsFiniteSet(waiting) /\ IsFiniteSet(working)
    BY DEF SizeInv, PoolSize
  <2>2. IsFiniteSet(waiting') /\ Cardinality(waiting') = Cardinality(waiting) - 1
    BY <1>1, <2>1, FS_RemoveElement
  <2>3. IsFiniteSet(working') /\ Cardinality(working') = Cardinality(working) + 1
    BY <1>1, <1>2, <2>1, FS_AddElement
  <2>4. /\ Cardinality(waiting) \in Nat /\ Cardinality(working) \in Nat
        /\ Cardinality(waiting) + Cardinality(working) <= AtOnce
    BY InPoolSize DEF SizeInv, PoolSize, InPool
  <2>5. Cardinality(working') <= MaxThreads
    BY <1>1, <2>3, <2>4, Numbers
  <2>6. InPool' <= AtOnce
    BY <2>2, <2>3, <2>4 DEF InPool
  <2> QED BY <2>2, <2>3, <2>5, <2>6 DEF PoolSize, AtOnce
<1>13. FewEvents' /\ AnyPending'
  BY <1>1, <1>9, FewStay DEF SizeInv, AnyPending
<1> QED BY <1>6, <1>7, <1>8, <1>10, <1>11, <1>12, <1>13 DEF SizeInv

LEMMA ReturnInv ==
  ASSUME Inv, NEW a \in Attempt, Return(a)
  PROVE  Inv'
<1> USE DEF Inv
<1>1. /\ Finished(a) \/ phase[a] = "dropped"
      /\ a \in working /\ working' = working \ {a} /\ done' = done \cup {a}
      /\ UNCHANGED <<total, pc, plan, part, queue, pending, watched, upload, result, waiting, open,
                     abort, phase, sent, stored>>
  BY DEF Return, Pool!Finish, mainVars, workVars
<1>2. TypeOK'
  BY <1>1 DEF TypeOK, Listed
<1>3. PlanInv' /\ UploadInv' /\ PartsInv' /\ StreamInv'
  <2>1. PlanInv' /\ UploadInv'
    BY <1>1 DEF PlanInv, PlanCoversFile, Listed, LastBlock, UploadInv, NoKnownUploadLeft
  <2>2. PartsInv'
    BY <1>1 DEF PartsInv, Current, Blocks, Listed
  <2>3. StreamInv'
    BY <1>1 DEF StreamInv, Stream, Feeding, Starved, Blocks, Current
  <2> QED BY <2>1, <2>2, <2>3
<1>4. Unfinished' = Unfinished
  BY <1>1 DEF Unfinished, Finished
<1>5. AttemptInv'
  BY <1>1, <1>4 DEF AttemptInv, Busy, Unfinished
<1>6. PoolSize'
  <2>1. IsFiniteSet(waiting) /\ IsFiniteSet(working)
    BY DEF SizeInv, PoolSize
  <2>2. IsFiniteSet(working') /\ Cardinality(working') = Cardinality(working) - 1
    BY <1>1, <2>1, FS_RemoveElement
  <2>3. /\ Cardinality(waiting) \in Nat /\ Cardinality(working) \in Nat
        /\ Cardinality(waiting) + Cardinality(working) <= AtOnce
        /\ Cardinality(working) <= MaxThreads /\ AtOnce \in Nat
    BY InPoolSize DEF SizeInv, PoolSize, InPool
  <2>4. Cardinality(working') <= MaxThreads /\ InPool' <= AtOnce
    BY <1>1, <2>2, <2>3, Numbers DEF InPool
  <2> QED BY <1>1, <2>1, <2>2, <2>4 DEF PoolSize, AtOnce
<1>7. FewEvents' /\ AnyPending'
  BY <1>1, <1>4, FewStay DEF SizeInv, AnyPending
<1> QED BY <1>2, <1>3, <1>5, <1>6, <1>7 DEF SizeInv

-----------------------------------------------------------------------------
(* The parts are given to the pool *)

\* The attempt a part is given with has not begun.
LEMMA NextAttempt ==
  ASSUME Inv, pc = "fill", NEW k \in ToSend
  PROVE  /\ k \in Parts /\ k \in Listed /\ ~part[k].complete /\ ~part[k].inProcess
         /\ Current(k) \in Attempt /\ phase[Current(k)] = "none"
         /\ sent[Current(k)] = << >> /\ part[k].cursor = 0
         /\ Current(k) \notin pending \cup waiting \cup working
<1>1. k \in Parts /\ k \in Listed /\ ~part[k].complete /\ ~part[k].inProcess
  BY DEF ToSend, Inv, TypeOK
<1>2. Current(k) \in Attempt
  BY <1>1, PartFields DEF Inv
<1>3. phase[Current(k)] = "none" /\ part[k].cursor = 0
  BY <1>1 DEF Inv, PartsInv, Busy
<1> QED BY <1>1, <1>2, <1>3 DEF Inv, AttemptInv

\* What the attempts of the parts are after one of them is given.
LEMMA GivenPhases ==
  ASSUME Inv, pc = "fill", NEW k \in ToSend,
         phase' = [phase EXCEPT ![Current(k)] = "given"]
  PROVE  /\ \A b \in Attempt : phase'[b] = IF b = Current(k) THEN "given" ELSE phase[b]
         /\ \A j \in Parts : /\ Current(j) \in Attempt
                             /\ j # k => Current(j) # Current(k)
         /\ \A j \in Parts, r \in 0 .. MaxRetries :
              /\ <<j, r>> \in Attempt
              /\ j # k => phase'[<<j, r>>] = phase[<<j, r>>]
              /\ r > part[j].retry => phase'[<<j, r>>] = "none"
              /\ r < part[j].retry => phase'[<<j, r>>] = "error"
<1>1. \A b \in Attempt : phase'[b] = IF b = Current(k) THEN "given" ELSE phase[b]
  BY DEF Inv, TypeOK
<1>2. k \in Parts
  BY NextAttempt
<1>3. \A j \in Parts : Current(j) \in Attempt /\ Current(j)[1] = j /\ part[j].retry \in Nat
                       /\ Current(j)[2] = part[j].retry
  BY PartFields DEF Inv
<1>4. ASSUME NEW j \in Parts, NEW r \in 0 .. MaxRetries
      PROVE  /\ <<j, r>> \in Attempt
             /\ j # k => phase'[<<j, r>>] = phase[<<j, r>>]
             /\ r > part[j].retry => phase'[<<j, r>>] = "none"
             /\ r < part[j].retry => phase'[<<j, r>>] = "error"
  <2>1. <<j, r>> \in Attempt /\ <<j, r>>[1] = j /\ <<j, r>>[2] = r /\ r \in Nat
    BY AttemptParts, Numbers
  <2>2. /\ r > part[j].retry => phase[<<j, r>>] = "none"
        /\ r < part[j].retry => phase[<<j, r>>] = "error"
    BY DEF Inv, PartsInv
  <2>3. j # k \/ r # part[j].retry => <<j, r>> # Current(k)
    BY <2>1, <1>2, <1>3
  <2>4. j # k \/ r # part[j].retry => phase'[<<j, r>>] = phase[<<j, r>>]
    BY <2>1, <2>3, <1>1
  <2> QED BY <2>1, <2>2, <2>4, <1>3
<1> QED BY <1>1, <1>2, <1>3, <1>4

LEMMA SubmitFailsInv ==
  ASSUME Inv, SubmitFails
  PROVE  Inv'
<1> USE DEF Inv
<1>1. /\ pc = "fill" /\ Throw /\ InPool < AtOnce
      /\ UNCHANGED <<total, plan, part, queue, watched, upload, sent, stored, waiting, working,
                     done, open, abort>>
  BY DEF SubmitFails, poolVars
<1>2. UploadInv' /\ result' = "failed" /\ pc' \in {"abort", "leave"}
  BY <1>1, ThrowUpload
<1>3. AnyPending'
  BY <1>2 DEF AnyPending
<1>4. CASE UNCHANGED <<pending, phase>>
  <2>1. PlanInv' /\ PartsInv' /\ AttemptInv' /\ StreamInv' /\ PoolSize' /\ FewEvents'
    BY <1>1, <1>2, <1>4, Quiet DEF Busy
  <2>2. TypeOK'
    BY <1>1, <1>2, <1>4 DEF TypeOK, Listed
  <2> QED BY <1>2, <1>3, <2>1, <2>2 DEF SizeInv
<1>5. ASSUME NEW k \in ToSend, pending' = pending \cup {Current(k)},
             phase' = [phase EXCEPT ![Current(k)] = "given"]
      PROVE  Inv'
  <2>1. /\ k \in Parts /\ k \in Listed /\ ~part[k].complete /\ ~part[k].inProcess
        /\ Current(k) \in Attempt /\ phase[Current(k)] = "none"
        /\ sent[Current(k)] = << >>
        /\ Current(k) \notin pending \cup waiting \cup working
    BY <1>1, NextAttempt
  <2>2. /\ \A b \in Attempt : phase'[b] = IF b = Current(k) THEN "given" ELSE phase[b]
        /\ \A j \in Parts : /\ Current(j) \in Attempt
                            /\ j # k => Current(j) # Current(k)
        /\ \A j \in Parts, r \in 0 .. MaxRetries :
             /\ <<j, r>> \in Attempt
             /\ j # k => phase'[<<j, r>>] = phase[<<j, r>>]
             /\ r > part[j].retry => phase'[<<j, r>>] = "none"
             /\ r < part[j].retry => phase'[<<j, r>>] = "error"
    BY <1>1, <1>5, GivenPhases
  <2>3. TypeOK'
    BY <1>1, <1>2, <1>5, <2>1 DEF TypeOK, Listed
  <2>4. PlanInv'
    BY <1>1, <1>2 DEF PlanInv, PlanCoversFile, Listed, LastBlock
  <2>5. \A j \in Parts : Current(j)' = Current(j) /\ Blocks(j)' = Blocks(j)
    BY <1>1 DEF Current, Blocks
  <2>6. PartsInv'
    <3> SUFFICES ASSUME NEW j \in Parts
                 PROVE  (/\ j \notin Listed =>
                              /\ part[j] = NewPart /\ queue[j] = << >>
                              /\ \A r \in 0 .. MaxRetries : phase[<<j, r>>] = "none"
                         /\ part[j].inProcess => phase[Current(j)] # "none"
                         /\ part[j].complete => part[j].inProcess /\ phase[Current(j)] = "ok"
                         /\ phase[Current(j)] = "ok" => stored[j] = Blocks(j))'
      BY <1>1, <1>2, <2>2 DEF PartsInv, Busy
    <3>1. CASE j = k
      BY <3>1, <1>1, <2>1, <2>2, <2>5 DEF Listed
    <3>2. CASE j # k
      <4>1. phase'[Current(j)'] = phase[Current(j)]
        BY <3>2, <2>2, <2>5
      <4> QED BY <3>2, <4>1, <1>1, <2>2, <2>5 DEF PartsInv, Listed
    <3> QED BY <3>1, <3>2
  <2>7. Unfinished' \subseteq Unfinished \cup {Current(k)}
    BY <1>5, <2>2 DEF Unfinished, Finished, TypeOK
  <2>8. AttemptInv'
    BY <1>1, <1>2, <1>5, <2>1, <2>2 DEF AttemptInv, Busy
  <2>9. StreamInv'
    <3> SUFFICES ASSUME NEW j \in Parts
                 PROVE  Stream(j)'
      BY DEF StreamInv
    <3>1. Stream(j) /\ Feeding(j)' = Feeding(j) /\ Starved(j)' = Starved(j)
      BY <1>1, <2>5 DEF StreamInv, Feeding, Starved
    <3> QED BY <3>1, <1>1, <2>1, <2>2, <2>5 DEF Stream
  <2>10. PoolSize'
    BY <1>1 DEF SizeInv, PoolSize, InPool
  <2>11. FewEvents'
    BY <1>1, <2>7, FewMore DEF SizeInv, Busy
  <2> QED BY <1>2, <1>3, <2>3, <2>4, <2>6, <2>8, <2>9, <2>10, <2>11 DEF SizeInv
<1> QED BY <1>4, <1>5 DEF SubmitFails

LEMMA SubmitInv ==
  ASSUME Inv, NEW k \in Parts, Submit(k)
  PROVE  Inv'
<1> USE DEF Inv
<1> DEFINE a == Current(k)
           data == Unread(k, MaxQueueSize)
<1>1. /\ pc = "fill" /\ InPool < AtOnce /\ k \in ToSend
      /\ queue' = [queue EXCEPT ![k] = data]
      /\ part' = [part EXCEPT ![k].inProcess = TRUE, ![k].cursor = @ + Len(data)]
      /\ pending' = pending \cup {a} /\ waiting' = waiting \cup {a}
      /\ phase' = [phase EXCEPT ![a] = "given"]
      /\ UNCHANGED <<total, pc, plan, watched, upload, result, sent, stored, working, done, open,
                     abort>>
  BY DEF Submit, GivePart, IsNext, Pool!Give
<1>2. /\ k \in Parts /\ k \in Listed /\ ~part[k].complete /\ ~part[k].inProcess
      /\ a \in Attempt /\ phase[a] = "none"
      /\ sent[a] = << >> /\ part[k].cursor = 0
      /\ a \notin pending \cup waiting \cup working
  BY <1>1, NextAttempt
<1>3. /\ \A b \in Attempt : phase'[b] = IF b = a THEN "given" ELSE phase[b]
      /\ \A j \in Parts : Current(j) \in Attempt /\ (j # k => Current(j) # a)
      /\ \A j \in Parts, r \in 0 .. MaxRetries :
           /\ <<j, r>> \in Attempt
           /\ j # k => phase'[<<j, r>>] = phase[<<j, r>>]
           /\ r > part[j].retry => phase'[<<j, r>>] = "none"
           /\ r < part[j].retry => phase'[<<j, r>>] = "error"
  BY <1>1, GivenPhases
<1>4. /\ data \in Seq(Nat) /\ Len(data) \in Nat
      /\ Len(data) <= MaxQueueSize
      /\ 0 + Len(data) <= plan[k].len
      /\ \A b \in 1 .. Len(data) : data[b] = plan[k].base + 0 + b
  <2>1. plan[k].len \in Nat /\ MaxQueueSize \in Nat
    BY <1>2, PieceOf, Numbers
  <2>2. part[k].cursor <= plan[k].len
    BY <1>2, <2>1
  <2> QED BY <1>2, <2>1, <2>2, UnreadOf
<1> HIDE DEF data
<1>5. /\ part[k] \in PartType
      /\ part'[k] = [part[k] EXCEPT !.inProcess = TRUE, !.cursor = part[k].cursor + Len(data)]
      /\ \A j \in Parts : j # k => part'[j] = part[j] /\ queue'[j] = queue[j]
      /\ queue'[k] = data
  BY <1>1, PartFields DEF TypeOK
<1>6. /\ part'[k] \in PartType /\ part'[k].inProcess = TRUE
      /\ part'[k].complete = part[k].complete /\ part'[k].retry = part[k].retry
      /\ part'[k].cursor = 0 + Len(data)
  <2>1. part[k].cursor + Len(data) = 0 + Len(data) /\ 0 + Len(data) \in Nat
    BY <1>2, <1>4
  <2>2. part'[k] = [part[k] EXCEPT !.inProcess = TRUE, !.cursor = 0 + Len(data)]
    BY <1>5, <2>1
  <2> QED BY <1>5, <2>1, <2>2 DEF PartType
<1>7. \A j \in Parts : /\ Current(j)' = Current(j) /\ Blocks(j)' = Blocks(j)
                       /\ part'[j].retry = part[j].retry
                       /\ part'[j].complete = part[j].complete
  BY <1>1, <1>5, <1>6 DEF Current, Blocks
<1>8. TypeOK'
  <2>1. part' \in [Parts -> PartType]
    BY <1>1, <1>5, <1>6 DEF TypeOK, PartType
  <2> QED BY <1>1, <1>2, <1>4, <2>1 DEF TypeOK, Listed, PartType
<1>9. PlanInv'
  BY <1>1 DEF PlanInv, PlanCoversFile, Listed, LastBlock
<1>10. UploadInv'
  BY <1>1, <1>7 DEF UploadInv, NoKnownUploadLeft, Busy
<1>11. PartsInv'
  <2>a. \A j \in Parts, r \in 0 .. MaxRetries :
          /\ r > part'[j].retry => phase'[<<j, r>>] = "none"
          /\ r < part'[j].retry => phase'[<<j, r>>] = "error"
    BY <1>3, <1>7
  <2> SUFFICES ASSUME NEW j \in Parts
               PROVE  (/\ j \notin Listed =>
                            /\ part[j] = NewPart /\ queue[j] = << >>
                            /\ \A r \in 0 .. MaxRetries : phase[<<j, r>>] = "none"
                       /\ part[j].inProcess => phase[Current(j)] # "none"
                       /\ part[j].complete => part[j].inProcess /\ phase[Current(j)] = "ok"
                       /\ phase[Current(j)] = "ok" => stored[j] = Blocks(j)
                       /\ ~part[j].inProcess
                            => phase[Current(j)] = "none" /\ part[j].cursor = 0
                       /\ part[j].inProcess /\ ~part[j].complete => Current(j) \in pending)'
    BY <1>1, <2>a DEF PartsInv
  <2>1. CASE j = k
    BY <2>1, <1>1, <1>2, <1>3, <1>6, <1>7 DEF Listed
  <2>2. CASE j # k
    <3>1. phase'[Current(j)'] = phase[Current(j)]
      BY <2>2, <1>3, <1>7
    <3>2. \A r \in 0 .. MaxRetries : phase'[<<j, r>>] = phase[<<j, r>>]
      BY <2>2, <1>3
    <3>3. /\ part'[j] = part[j] /\ queue'[j] = queue[j] /\ Current(j)' = Current(j)
          /\ Blocks(j)' = Blocks(j) /\ stored'[j] = stored[j] /\ pc \in Busy
          /\ (j \in Listed)' <=> j \in Listed
      BY <2>2, <1>1, <1>5, <1>7 DEF Busy, Listed
    <3>4. /\ j \notin Listed =>
               /\ part[j] = NewPart /\ queue[j] = << >>
               /\ \A r \in 0 .. MaxRetries : phase[<<j, r>>] = "none"
          /\ part[j].inProcess => phase[Current(j)] # "none"
          /\ part[j].complete => part[j].inProcess /\ phase[Current(j)] = "ok"
          /\ phase[Current(j)] = "ok" => stored[j] = Blocks(j)
          /\ ~part[j].inProcess => phase[Current(j)] = "none" /\ part[j].cursor = 0
          /\ part[j].inProcess /\ ~part[j].complete => Current(j) \in pending
      BY <3>3 DEF PartsInv
    <3>5. pending \subseteq pending'
      BY <1>1
    <3> QED BY <3>1, <3>2, <3>3, <3>4, <3>5
  <2> QED BY <2>1, <2>2
<1>12. Unfinished' \subseteq Unfinished \cup {a}
  BY <1>1, <1>3 DEF Unfinished, Finished, TypeOK
<1>13. AttemptInv'
  BY <1>1, <1>2, <1>3, <1>12 DEF AttemptInv, Busy
<1>14. Fed(<< >>, data, plan[k].base, plan[k].len, 0 + Len(data))
  <2>1. plan[k].base \in Nat /\ plan[k].base + 0 = plan[k].base
    BY <1>2, PieceOf
  <2>2. Len(<< >>) = 0 /\ Follows(<< >>, plan[k].base)
    BY DEF Follows
  <2>3. Follows(data, plan[k].base + 0)
    BY <1>4 DEF Follows
  <2> QED BY <1>4, <2>1, <2>2, <2>3 DEF Fed
<1>15. StreamInv'
  <2> SUFFICES ASSUME NEW j \in Parts
               PROVE  Stream(j)'
    BY DEF StreamInv
  <2>1. CASE j = k
    <3>1. Feeding(j)'
      BY <2>1, <1>1, <1>2, <1>5, <1>6, <1>7, <1>14 DEF Feeding
    <3> QED BY <2>1, <3>1, <1>2, <1>3, <1>4, <1>5, <1>7 DEF Stream
  <2>2. CASE j # k
    <3>1. Stream(j) /\ Feeding(j)' = Feeding(j) /\ Starved(j)' = Starved(j)
      BY <2>2, <1>1, <1>5, <1>7 DEF StreamInv, Feeding, Starved
    <3>2. /\ phase'[Current(j)] = phase[Current(j)]
          /\ Current(j) \in waiting' <=> Current(j) \in waiting
      BY <2>2, <1>1, <1>3
    <3> QED BY <2>2, <3>1, <3>2, <1>1, <1>5, <1>7 DEF Stream
  <2> QED BY <2>1, <2>2
<1>16. PoolSize'
  <2>1. IsFiniteSet(waiting) /\ IsFiniteSet(working)
    BY DEF SizeInv, PoolSize
  <2>2. IsFiniteSet(waiting') /\ Cardinality(waiting') = Cardinality(waiting) + 1
    BY <1>1, <1>2, <2>1, FS_AddElement
  <2>3. /\ Cardinality(waiting) \in Nat /\ Cardinality(working) \in Nat
        /\ Cardinality(waiting) + Cardinality(working) < AtOnce /\ AtOnce \in Nat
        /\ Cardinality(working) <= MaxThreads
    BY <1>1, InPoolSize DEF SizeInv, PoolSize, InPool
  <2>4. InPool' <= AtOnce
    BY <1>1, <2>2, <2>3 DEF InPool
  <2> QED BY <1>1, <2>1, <2>2, <2>3, <2>4 DEF PoolSize, AtOnce
<1>17. FewEvents'
  BY <1>1, <1>12, FewMore DEF SizeInv, Busy
<1>18. AnyPending'
  BY <1>1 DEF AnyPending
<1> QED BY <1>8, <1>9, <1>10, <1>11, <1>13, <1>15, <1>16, <1>17, <1>18 DEF SizeInv

-----------------------------------------------------------------------------
(* A pass over the pending attempts *)

\* What the pass finds of part k: an attempt that failed, one that succeeded,
\* or one that wants more data.
FoundError(k) == Current(k) \in pending /\ phase[Current(k)] = "error"
FoundOk(k) == Current(k) \in pending /\ phase[Current(k)] = "ok"
FoundOpen(k) == Current(k) \in pending /\ ~Finished(Current(k))
More(k) == Unread(k, Room(k))

\* An attempt that wants data has a stream it fits behind.
LEMMA MoreFits ==
  ASSUME Inv, pc = "wait", NEW k \in Listed, FoundOpen(k)
  PROVE  /\ More(k) \in Seq(Nat) /\ Len(More(k)) \in Nat
         /\ Len(queue[k]) + Len(More(k)) <= MaxQueueSize
         /\ part[k].cursor + Len(More(k)) \in Nat
         /\ part[k].cursor + Len(More(k)) <= plan[k].len
         /\ queue[k] \o More(k) \in Seq(Nat)
         /\ Len(queue[k] \o More(k)) = Len(queue[k]) + Len(More(k))
         /\ part[k].cursor = plan[k].len => More(k) = << >>
         /\ \A s \in Seq(Nat) :
              Fed(s, queue[k], plan[k].base, plan[k].len, part[k].cursor)
                => Fed(s, queue[k] \o More(k), plan[k].base, plan[k].len,
                       part[k].cursor + Len(More(k)))
<1> USE DEF Inv
<1> DEFINE a == Current(k)
           q == queue[k]
           m == More(k)
           c == part[k].cursor
           base == plan[k].base
           size == plan[k].len
<1>1. /\ k \in Parts /\ a \in Attempt /\ q \in Seq(Nat) /\ Len(q) \in Nat /\ c \in Nat
      /\ sent[a] \in Seq(Nat) /\ Len(sent[a]) \in Nat
      /\ base \in Nat /\ size \in Nat
  BY PieceOf, PartFields
<1>2. phase[a] \in {"given", "send", "answer"}
  BY <1>1 DEF FoundOpen, Finished, AttemptInv, TypeOK
<1>3. phase[a] = "given" => a \in waiting
  BY <1>1 DEF FoundOpen, AttemptInv, Busy, Unfinished
<1>4. Stream(k)
  BY <1>1 DEF StreamInv
<1>5. c <= size
  <2>1. CASE phase[a] = "given"
    BY <2>1, <1>3, <1>4 DEF Stream, Feeding, Fed
  <2>2. CASE phase[a] = "send"
    <3>1. Feeding(k) \/ Starved(k)
      BY <2>2, <1>4 DEF Stream
    <3>2. Feeding(k) => c <= size
      BY DEF Feeding, Fed
    <3>3. Starved(k) => c = size
      BY DEF Starved
    <3>4. size <= size
      BY <1>1
    <3> QED BY <3>1, <3>2, <3>3, <3>4
  <2>3. CASE phase[a] = "answer"
    BY <2>3, <1>1, <1>4 DEF Stream
  <2> QED BY <1>2, <2>1, <2>2, <2>3
<1>6. Room(k) \in Nat /\ Room(k) = MaxQueueSize - Len(q)
  BY <1>1, <1>4, Numbers DEF Stream, Room
<1>7. /\ m \in Seq(Nat) /\ Len(m) \in Nat /\ Len(m) <= Room(k) /\ c + Len(m) <= size
      /\ \A b \in 1 .. Len(m) : m[b] = base + c + b
  BY <1>5, <1>6, UnreadOf DEF More
<1> HIDE DEF a, q, m, c, base, size
<1>8. /\ q \o m \in Seq(Nat) /\ Len(q \o m) = Len(q) + Len(m)
      /\ \A i \in 1 .. Len(q) + Len(m) :
           (q \o m)[i] = IF i <= Len(q) THEN q[i] ELSE m[i - Len(q)]
  BY <1>1, <1>7, ConcatProperties
<1>9. c = size => m = << >>
  <2>1. c = size => Len(m) = 0
    BY <1>1, <1>7
  <2> QED BY <2>1, <1>7, EmptySeq
<1>10. ASSUME NEW s \in Seq(Nat), Fed(s, q, base, size, c)
       PROVE  Fed(s, q \o m, base, size, c + Len(m))
  <2>1. c = Len(s) + Len(q) /\ Follows(s, base) /\ Follows(q, base + Len(s))
    BY <1>10 DEF Fed
  <2>2. Len(s) \in Nat
    BY LenProperties
  <2>3. Follows(q \o m, base + Len(s))
    <3> SUFFICES ASSUME NEW i \in 1 .. Len(q) + Len(m)
                 PROVE  (q \o m)[i] = (base + Len(s)) + i
      BY <1>8 DEF Follows
    <3>1. CASE i <= Len(q)
      <4>1. i \in 1 .. Len(q)
        BY <3>1, <1>1, <1>7
      <4> QED BY <4>1, <3>1, <2>1, <1>8 DEF Follows
    <3>2. CASE i > Len(q)
      <4>1. i - Len(q) \in 1 .. Len(m) /\ ~(i <= Len(q)) /\ i \in Nat
        BY <3>2, <1>1, <1>7
      <4>2. (q \o m)[i] = m[i - Len(q)]
        BY <4>1, <1>8
      <4>3. m[i - Len(q)] = base + c + (i - Len(q))
        BY <4>1, <1>7
      <4>4. base + c + (i - Len(q)) = (base + Len(s)) + i
        BY <4>1, <2>1, <2>2, <1>1
      <4> QED BY <4>2, <4>3, <4>4
    <3> QED BY <3>1, <3>2, <1>1, <1>7
  <2>4. c + Len(m) = Len(s) + Len(q \o m)
    BY <2>1, <2>2, <1>1, <1>7, <1>8
  <2> QED BY <2>1, <2>3, <2>4, <1>7 DEF Fed
<1>11. Len(q) + Len(m) <= MaxQueueSize /\ c + Len(m) \in Nat
  BY <1>1, <1>6, <1>7, Numbers
<1> QED BY <1>7, <1>8, <1>9, <1>10, <1>11 DEF q, m, c, base, size

\* A part after the pass, field by field.
LEMMA PassPart ==
  ASSUME Inv, Pass, NEW k \in Listed
  PROVE  /\ part'[k] \in PartType /\ queue'[k] \in Seq(Nat)
         /\ part'[k].inProcess <=> part[k].inProcess /\ ~FoundError(k)
         /\ part'[k].complete <=> part[k].complete \/ FoundOk(k)
         /\ part'[k].retry = IF FoundError(k) THEN part[k].retry + 1 ELSE part[k].retry
         /\ part'[k].cursor = IF FoundError(k) THEN 0
                              ELSE IF FoundOpen(k) THEN part[k].cursor + Len(More(k))
                              ELSE part[k].cursor
         /\ queue'[k] = IF FoundError(k) THEN << >>
                        ELSE IF FoundOpen(k) THEN queue[k] \o More(k) ELSE queue[k]
<1> USE DEF Inv
<1>1. /\ pc = "wait" /\ ~OutOfRetries
      /\ k \in Parts /\ part'[k] = AfterAttempt(k) /\ queue'[k] = QueueAfter(k)
  BY PieceOf DEF Pass
<1>2. /\ part[k] \in PartType /\ queue[k] \in Seq(Nat) /\ part[k].retry \in 0 .. MaxRetries
      /\ part[k].inProcess \in BOOLEAN /\ part[k].complete \in BOOLEAN
      /\ Current(k) \in Attempt /\ Current(k)[2] = part[k].retry
  BY <1>1, PartFields
<1>3. CASE FoundError(k)
  <2>1. /\ part'[k] = [part[k] EXCEPT !.inProcess = FALSE, !.retry = part[k].retry + 1,
                                      !.cursor = 0]
        /\ queue'[k] = << >> /\ ~FoundOk(k) /\ ~FoundOpen(k)
    BY <1>1, <1>3 DEF FoundError, FoundOk, FoundOpen, Finished, AfterAttempt, QueueAfter,
                      Current
  <2>2. ~(part[k].retry >= MaxRetries)
    BY <1>1, <1>2, <1>3 DEF FoundError, OutOfRetries
  <2>3. part[k].retry + 1 \in 0 .. MaxRetries /\ 0 \in Nat
    BY <1>2, <2>2, Numbers
  <2>4. << >> \in Seq(Nat)
    OBVIOUS
  <2>5. /\ part'[k] \in PartType /\ part'[k].inProcess = FALSE
        /\ part'[k].complete = part[k].complete
        /\ part'[k].retry = part[k].retry + 1 /\ part'[k].cursor = 0
    BY <1>2, <2>1, <2>3 DEF PartType
  <2> QED BY <1>2, <1>3, <2>1, <2>4, <2>5
<1>4. CASE FoundOk(k)
  <2>1. /\ part'[k] = [part[k] EXCEPT !.complete = TRUE]
        /\ queue'[k] = queue[k] /\ ~FoundError(k) /\ ~FoundOpen(k)
    BY <1>1, <1>4 DEF FoundError, FoundOk, FoundOpen, Finished, AfterAttempt, QueueAfter,
                      Current
  <2>2. /\ part'[k] \in PartType /\ part'[k].inProcess = part[k].inProcess
        /\ part'[k].complete = TRUE
        /\ part'[k].retry = part[k].retry /\ part'[k].cursor = part[k].cursor
    BY <1>2, <2>1 DEF PartType
  <2> QED BY <1>2, <1>4, <2>1, <2>2
<1>5. CASE FoundOpen(k)
  <2>1. /\ part'[k] = [part[k] EXCEPT !.cursor = part[k].cursor + Len(More(k))]
        /\ queue'[k] = queue[k] \o More(k) /\ ~FoundError(k) /\ ~FoundOk(k)
    BY <1>1, <1>5 DEF FoundError, FoundOk, FoundOpen, Finished, AfterAttempt, QueueAfter,
                      Current, More
  <2>2. part[k].cursor + Len(More(k)) \in Nat /\ queue[k] \o More(k) \in Seq(Nat)
    BY <1>1, <1>5, MoreFits
  <2>3. /\ part'[k] \in PartType /\ part'[k].inProcess = part[k].inProcess
        /\ part'[k].complete = part[k].complete
        /\ part'[k].retry = part[k].retry
        /\ part'[k].cursor = part[k].cursor + Len(More(k))
    BY <1>2, <2>1, <2>2 DEF PartType
  <2> QED BY <1>2, <1>5, <2>1, <2>2, <2>3
<1>6. CASE Current(k) \notin pending
  <2>1. /\ part'[k] = part[k] /\ queue'[k] = queue[k]
        /\ ~FoundError(k) /\ ~FoundOk(k) /\ ~FoundOpen(k)
    BY <1>1, <1>6 DEF FoundError, FoundOk, FoundOpen, AfterAttempt, QueueAfter, Current
  <2> QED BY <1>2, <2>1
<1>7. FoundError(k) \/ FoundOk(k) \/ FoundOpen(k) \/ Current(k) \notin pending
  BY DEF FoundError, FoundOk, FoundOpen, Finished
<1> QED BY <1>3, <1>4, <1>5, <1>6, <1>7

\* A part that failed begins again with its next attempt; one that wants data
\* gets what fits behind what it has.
LEMMA PassInv ==
  ASSUME Inv, Pass
  PROVE  Inv'
<1> USE DEF Inv
<1>1. /\ pc = "wait" /\ pending' = Unfinished
      /\ pc' = IF Unfinished = pending THEN "wait" ELSE "fill"
      /\ watched' \in {watched, {}}
      /\ UNCHANGED <<total, plan, upload, result, phase, sent, stored, waiting, working,
                     done, open, abort>>
      /\ part' = [k \in Parts |-> IF k \in Listed THEN AfterAttempt(k) ELSE part[k]]
      /\ queue' = [k \in Parts |-> IF k \in Listed THEN QueueAfter(k) ELSE queue[k]]
  BY DEF Pass, workVars, poolVars
<1>2. \A k \in Parts : k \notin Listed => part'[k] = part[k] /\ queue'[k] = queue[k]
  BY <1>1
<1>3. Unfinished' = Unfinished /\ Unfinished \subseteq pending /\ pending \subseteq Attempt
  BY <1>1 DEF Unfinished, Finished, TypeOK
<1>4. TypeOK'
  <2>1. \A k \in Parts : part'[k] \in PartType /\ queue'[k] \in Seq(Nat)
    BY <1>2, PassPart, PartFields
  <2>2. part' \in [Parts -> PartType] /\ queue' \in [Parts -> Seq(Nat)]
    BY <1>1, <2>1
  <2> QED BY <1>1, <1>3, <2>2 DEF TypeOK, Listed, PartType
<1>5. PlanInv'
  BY <1>1 DEF PlanInv, PlanCoversFile, Listed, LastBlock
<1>6. UploadInv'
  BY <1>1 DEF UploadInv, NoKnownUploadLeft, Busy
<1>7. pc \in Busy /\ pc' \in Busy
  BY <1>1 DEF Busy
<1>8. PartsInv'
  <2> SUFFICES ASSUME NEW k \in Parts
               PROVE  (/\ k \notin Listed =>
                            /\ part[k] = NewPart /\ queue[k] = << >>
                            /\ \A r \in 0 .. MaxRetries : phase[<<k, r>>] = "none"
                       /\ \A r \in 0 .. MaxRetries :
                            /\ r > part[k].retry => phase[<<k, r>>] = "none"
                            /\ r < part[k].retry => phase[<<k, r>>] = "error"
                       /\ part[k].inProcess => phase[Current(k)] # "none"
                       /\ part[k].complete => part[k].inProcess /\ phase[Current(k)] = "ok"
                       /\ phase[Current(k)] = "ok" => stored[k] = Blocks(k)
                       /\ ~part[k].inProcess
                            => phase[Current(k)] = "none" /\ part[k].cursor = 0
                       /\ part[k].inProcess /\ ~part[k].complete => Current(k) \in pending)'
    BY <1>1, <1>7 DEF PartsInv
  <2>1. /\ k \notin Listed =>
             /\ part[k] = NewPart /\ queue[k] = << >>
             /\ \A r \in 0 .. MaxRetries : phase[<<k, r>>] = "none"
        /\ \A r \in 0 .. MaxRetries :
             /\ r > part[k].retry => phase[<<k, r>>] = "none"
             /\ r < part[k].retry => phase[<<k, r>>] = "error"
        /\ part[k].inProcess => phase[Current(k)] # "none"
        /\ part[k].complete => part[k].inProcess /\ phase[Current(k)] = "ok"
        /\ phase[Current(k)] = "ok" => stored[k] = Blocks(k)
        /\ ~part[k].inProcess => phase[Current(k)] = "none" /\ part[k].cursor = 0
        /\ part[k].inProcess /\ ~part[k].complete => Current(k) \in pending
    BY <1>7 DEF PartsInv
  <2>2. Blocks(k)' = Blocks(k) /\ ((k \in Listed)' <=> k \in Listed)
    BY <1>1 DEF Blocks, Listed
  <2>3. CASE k \notin Listed
    <3>1. part'[k] = part[k] /\ queue'[k] = queue[k] /\ Current(k)' = Current(k)
      BY <1>2, <2>3 DEF Current
    <3>2. ~part[k].inProcess
      BY <2>1, <2>3 DEF NewPart
    <3> QED BY <1>1, <2>1, <2>2, <3>1, <3>2
  <2>4. CASE k \in Listed /\ FoundError(k)
    <3>1. /\ part'[k].inProcess = FALSE /\ part'[k].retry = part[k].retry + 1
          /\ part'[k].cursor = 0 /\ part'[k].complete = FALSE
          /\ part'[k].retry \in 0 .. MaxRetries /\ part[k].retry \in Nat
      <4>1. ~FoundOk(k) /\ ~part[k].complete
        BY <2>1, <2>4 DEF FoundError, FoundOk
      <4>2. part'[k] \in PartType
        BY <2>4, PassPart
      <4> QED BY <4>1, <4>2, <2>4, PassPart, PartFields DEF PartType
    <3>2. \A r \in 0 .. MaxRetries : r < part[k].retry + 1 =>
             r < part[k].retry \/ (r = part[k].retry /\ <<k, r>> = Current(k))
      BY <3>1, Numbers DEF Current
    <3>3. \A r \in 0 .. MaxRetries :
             /\ r > part'[k].retry => phase'[<<k, r>>] = "none"
             /\ r < part'[k].retry => phase'[<<k, r>>] = "error"
      <4> TAKE r \in 0 .. MaxRetries
      <4>1. r \in Nat /\ (r > part[k].retry + 1 => r > part[k].retry)
        BY <3>1, Numbers
      <4>2. phase[Current(k)] = "error"
        BY <2>4 DEF FoundError
      <4> QED BY <4>1, <4>2, <3>1, <3>2, <2>1, <1>1
    <3>4. phase'[Current(k)'] = "none"
      <4>1. Current(k)' = <<k, part[k].retry + 1>> /\ part[k].retry + 1 \in 0 .. MaxRetries
            /\ part[k].retry + 1 > part[k].retry
        BY <3>1 DEF Current
      <4> QED BY <4>1, <2>1, <1>1
    <3> QED BY <2>2, <2>4, <3>1, <3>3, <3>4
  <2>5. CASE k \in Listed /\ ~FoundError(k)
    <3>1. /\ part'[k].inProcess <=> part[k].inProcess
          /\ part'[k].complete <=> part[k].complete \/ FoundOk(k)
          /\ part'[k].retry = part[k].retry
      BY <2>5, PassPart
    <3>2. Current(k)' = Current(k) /\ phase' = phase /\ stored' = stored
      BY <1>1, <3>1 DEF Current
    <3>3. FoundOk(k) => part[k].inProcess /\ phase[Current(k)] = "ok"
      BY <2>1 DEF FoundOk
    <3>4. ~part[k].inProcess => part'[k].cursor = 0
      <4>1. Current(k) \in Attempt
        BY PartFields
      <4>2. ~part[k].inProcess => ~FoundOpen(k)
        BY <4>1, <2>1 DEF FoundOpen, AttemptInv
      <4> QED BY <4>2, <2>1, <2>5, PassPart
    <3>5. part'[k].inProcess /\ ~part'[k].complete => Current(k) \in pending'
      BY <1>1, <2>1, <2>5, <3>1 DEF FoundError, FoundOk, Unfinished, Finished
    <3> QED BY <2>1, <2>2, <2>5, <3>1, <3>2, <3>3, <3>4, <3>5
  <2> QED BY <2>3, <2>4, <2>5
<1>9. AttemptInv'
  BY <1>1, <1>3, <1>7 DEF AttemptInv, Busy, Unfinished, Finished
<1>10. StreamInv'
  <2> SUFFICES ASSUME NEW k \in Parts
               PROVE  Stream(k)'
    BY DEF StreamInv
  <2>1. Stream(k) /\ Current(k) \in Attempt /\ Blocks(k)' = Blocks(k)
    BY <1>1, PartFields DEF StreamInv, Blocks
  <2>2. CASE (k \in Listed => ~FoundError(k) /\ ~FoundOpen(k))
    <3>1. /\ part'[k].cursor = part[k].cursor /\ queue'[k] = queue[k]
          /\ part'[k].retry = part[k].retry
      BY <1>2, <2>2, PassPart
    <3>2. Current(k)' = Current(k)
      BY <3>1 DEF Current
    <3>3. Feeding(k)' = Feeding(k) /\ Starved(k)' = Starved(k)
      BY <1>1, <3>1, <3>2 DEF Feeding, Starved
    <3> QED BY <1>1, <2>1, <3>1, <3>2, <3>3 DEF Stream
  <2>3. CASE k \in Listed /\ FoundError(k)
    <3>1. queue'[k] = << >> /\ Len(<< >>) <= MaxQueueSize
      BY <2>3, PassPart, Numbers
    <3>2. Current(k)' = <<k, part[k].retry + 1>> /\ Current(k)' \in Attempt
      <4>1. /\ part'[k].retry = part[k].retry + 1 /\ part'[k] \in PartType
        BY <2>3, PassPart
      <4>2. part'[k].retry \in 0 .. MaxRetries
        BY <4>1 DEF PartType
      <4> QED BY <4>1, <4>2, AttemptParts DEF Current
    <3>3. phase'[Current(k)'] = "none"
      <4>1. /\ part[k].retry \in Nat /\ part[k].retry + 1 \in 0 .. MaxRetries
            /\ part[k].retry + 1 > part[k].retry
        BY <3>2, PartFields, AttemptParts
      <4> QED BY <1>1, <3>2, <4>1 DEF PartsInv
    <3>4. Current(k)' \notin waiting'
      BY <1>1, <3>2, <3>3 DEF AttemptInv
    <3> QED BY <3>1, <3>3, <3>4 DEF Stream
  <2>4. CASE k \in Listed /\ FoundOpen(k)
    <3> DEFINE c == part[k].cursor + Len(More(k))
               q == queue[k] \o More(k)
    <3>1. ~FoundError(k)
      BY <2>4 DEF FoundError, FoundOpen, Finished
    <3>2. /\ part'[k].cursor = c /\ queue'[k] = q /\ part'[k].retry = part[k].retry
      BY <2>4, <3>1, PassPart
    <3>3. Current(k)' = Current(k)
      BY <3>2 DEF Current
    <3>4. /\ Len(q) <= MaxQueueSize
          /\ part[k].cursor = plan[k].len => More(k) = << >>
          /\ \A s \in Seq(Nat) :
               Fed(s, queue[k], plan[k].base, plan[k].len, part[k].cursor)
                 => Fed(s, q, plan[k].base, plan[k].len, c)
      BY <1>1, <2>4, MoreFits
    <3>5. sent[Current(k)] \in Seq(Nat)
      BY PartFields
    <3>6. Feeding(k) => Feeding(k)'
      BY <1>1, <3>2, <3>3, <3>4, <3>5 DEF Feeding
    <3>7. part[k].cursor = plan[k].len => c = plan[k].len /\ q = queue[k]
      <4>1. << >> \in Seq(Nat) /\ queue[k] \o << >> = queue[k]
        BY PartFields, ConcatEmptySeq
      <4>2. plan[k].len \in Nat /\ plan[k].len + Len(<< >>) = plan[k].len
        BY <2>4, PieceOf
      <4> QED BY <3>4, <4>1, <4>2
    <3>8. Starved(k) => Starved(k)'
      BY <1>1, <3>2, <3>3, <3>7 DEF Starved
    <3> QED BY <1>1, <2>1, <3>2, <3>3, <3>4, <3>6, <3>7, <3>8 DEF Stream
  <2> QED BY <2>2, <2>3, <2>4
<1>11. PoolSize' /\ FewEvents'
  BY <1>1, <1>3, FewStay DEF SizeInv, PoolSize, InPool
<1>12. AnyPending'
  BY <1>1 DEF SizeInv, AnyPending
<1> QED BY <1>4, <1>5, <1>6, <1>8, <1>9, <1>10, <1>11, <1>12 DEF SizeInv

-----------------------------------------------------------------------------
(* The theorems *)

LEMMA InvNext ==
  ASSUME Inv, [Next]_vars
  PROVE  Inv'
<1>1. CASE Main
  <2>1. \A k \in Parts : Submit(k) => Inv'
    BY SubmitInv
  <2> QED BY <1>1, <2>1, MakePlanInv, InitiateInv, SubmitFailsInv, FilledInv, CollectInv, PassInv,
             PassFailsInv, CompleteInv, LeaveInv DEF Main
<1>2. CASE AskAbort
  BY <1>2, LeaveInv
<1>3. ASSUME NEW a \in Attempt, Take(a) \/ Work(a)
      PROVE  Inv'
  BY <1>3, TakeInv, SendBlockInv, StoredInv, ChallengedInv, RequestFailsInv, ReturnInv
     DEF Work
<1>4. CASE UNCHANGED vars
  <2>1. UNCHANGED <<total, pc, plan, part, queue, pending, watched, waiting, working, done, open,
                    phase, sent, stored, upload, abort, result>>
    BY <1>4 DEF vars, mainVars, workVars, poolVars
  <2>2. PlanInv' /\ PartsInv' /\ AttemptInv' /\ StreamInv' /\ PoolSize' /\ FewEvents'
    BY <2>1, Quiet
  <2>3. TypeOK'
    BY <2>1, ZenonT(60) DEF Inv, TypeOK, Listed
  <2>4. UploadInv' /\ AnyPending'
    BY <2>1 DEF Inv, UploadInv, NoKnownUploadLeft, Listed, SizeInv, AnyPending
  <2> QED BY <2>2, <2>3, <2>4 DEF Inv, SizeInv
<1> QED BY <1>1, <1>2, <1>3, <1>4 DEF Next

\* The events are collected of what has not finished; an attempt that finishes
\* stays so, and while the calling thread waits none begins.
LEMMA WatchNext ==
  ASSUME Inv, WatchInv, [Next]_vars
  PROVE  WatchInv'
<1> SUFFICES ASSUME pc' = "wait", Unfinished' # {}
             PROVE  watched' # {}
  BY DEF WatchInv
<1>1. CASE Collect
  <2>1. PICK as \in SUBSET Unfinished :
          /\ Cardinality(as) = Least(Cardinality(Unfinished), EventSlots)
          /\ watched' = as
    BY <1>1 DEF Collect
  <2>2. Unfinished' = Unfinished
    BY <1>1 DEF Collect, workVars, Unfinished, Finished
  <2>3. IsFiniteSet(Unfinished)
    <3>1. Unfinished \subseteq Attempt
      BY DEF Unfinished, Inv, TypeOK
    <3> QED BY <3>1, AttemptsFinite, FS_Subset
  <2>4. Cardinality(Unfinished) \in Nat /\ Cardinality(Unfinished) # 0
    BY <2>2, <2>3, FS_CardinalityType, FS_EmptySet
  <2>5. EventSlots \in Nat \ {0}
    BY MultiPartAssumption
  <2>6. Cardinality(as) # 0
    BY <2>1, <2>4, <2>5 DEF Least
  <2>7. as # {}
    BY <2>6, FS_EmptySet
  <2> QED BY <2>1, <2>7
<1>2. CASE Pass
  <2>1. pc = "wait" /\ Unfinished = pending /\ watched' = watched /\ pending' = Unfinished
    BY <1>2 DEF Pass
  <2>2. Unfinished' \subseteq Unfinished
    BY <1>2, <2>1 DEF Pass, workVars, Unfinished, Finished
  <2> QED BY <2>1, <2>2 DEF WatchInv
<1>3. ASSUME NEW a \in Attempt, Take(a) \/ Work(a)
      PROVE  watched' # {}
  <2>1. UNCHANGED <<pc, pending, watched>>
    BY <1>3 DEF Take, Work, SendBlock, Stored, Challenged, RequestFails, Return, Set,
                mainVars
  <2>2. phase[a] \notin {"ok", "error"} \/ phase' = phase
    <3>1. CASE Take(a)
      <4>1. a \in waiting
        BY <3>1 DEF Take, Pool!Take
      <4> QED BY <4>1 DEF Inv, AttemptInv
    <3>2. CASE Work(a)
      BY <3>2 DEF Work, SendBlock, Stored, Challenged, RequestFails, Return, workVars
    <3> QED BY <1>3, <3>1, <3>2
  <2>3. \A b \in Attempt : b # a => phase'[b] = phase[b]
    <3>1. \/ phase' = phase
          \/ \E p : phase' = [phase EXCEPT ![a] = p]
      BY <1>3 DEF Take, Work, SendBlock, Stored, Challenged, RequestFails, Return, Set,
                  workVars
    <3> QED BY <3>1 DEF Inv, TypeOK
  <2>4. \A b \in pending : Finished(b) => Finished(b)'
    <3> SUFFICES ASSUME NEW b \in pending, Finished(b)
                 PROVE  Finished(b)'
      OBVIOUS
    <3>1. b \in Attempt
      BY DEF Inv, TypeOK
    <3> QED BY <2>2, <2>3, <3>1 DEF Finished
  <2>5. Unfinished' \subseteq Unfinished
    BY <2>1, <2>4 DEF Unfinished
  <2> QED BY <2>1, <2>5 DEF WatchInv
<1>4. CASE UNCHANGED vars \/ AskAbort
  <2>1. UNCHANGED <<pc, pending, watched, phase>>
    BY <1>4 DEF vars, mainVars, workVars, AskAbort
  <2> QED BY <2>1 DEF WatchInv, Unfinished, Finished
<1>5. CASE MakePlan \/ Initiate \/ SubmitFails \/ Filled \/ PassFails \/ Complete
           \/ AbortUpload \/ DestroyPending \/ Terminate \/ \E k \in Parts : Submit(k)
  <2>1. pc' # "wait"
    BY <1>5 DEF MakePlan, Initiate, SubmitFails, Filled, PassFails, Complete, AbortUpload,
                DestroyPending, Terminate, Submit, GivePart, Throw
  <2> QED BY <2>1
<1> QED BY <1>1, <1>2, <1>3, <1>4, <1>5 DEF Next, Main

\* The invariant holds throughout.
LEMMA Invariance == Spec => [](Inv /\ WatchInv)
<1>1. Inv /\ WatchInv /\ [Next]_vars => Inv' /\ WatchInv'
  BY InvNext, WatchNext
<1>2. Init => WatchInv
  BY DEF Init, WatchInv
<1> QED BY <1>1, <1>2, InitInv, PTL DEF Spec

\* The plan covers the file, each part once and none empty; the queues, the
\* events and the pool stay within their limits; the calling thread waits for
\* attempts that are pending, over an event of one as long as one may report
\* (FileSupport.cpp:474-536, 575, 621-640, 694).
THEOREM PartsInStep == Spec => []PartInv
<1>1. Inv /\ WatchInv => PartInv
  <2> SUFFICES ASSUME Inv, WatchInv PROVE PartInv
    OBVIOUS
  <2>1. QueueBounded
    BY DEF Inv, StreamInv, Stream, QueueBounded
  <2>2. SomethingToWaitFor
    BY DEF Inv, SizeInv, AnyPending, WatchInv, SomethingToWaitFor
  <2> QED BY <2>1, <2>2 DEF Inv, PlanInv, SizeInv, PartInv
<1> QED BY <1>1, Invariance, PTL

\* When the upload returns true the server has every block of every part, in
\* order and once, and no request of it runs any more (FileSupport.cpp:648-731).
THEOREM WholeOnSuccess == Spec => []SuccessIsWhole
<1>1. Inv => SuccessIsWhole
  <2> SUFFICES ASSUME Inv, result = "ok"
               PROVE  /\ \A k \in Listed : stored[k] = Blocks(k)
                      /\ \A a \in working : Finished(a)
                      /\ waiting = {}
    BY DEF SuccessIsWhole
  <2>1. \A k \in Listed : k \in Parts /\ part[k].complete
    BY DEF Inv, UploadInv, TypeOK
  <2>2. \A k \in Listed : stored[k] = Blocks(k)
    BY <2>1 DEF Inv, PartsInv
  <2>3. \A a \in Attempt : phase[a] \in {"none", "error", "ok"}
    <3> SUFFICES ASSUME NEW a \in Attempt, phase[a] \notin {"none", "error"}
                 PROVE  phase[a] = "ok"
      OBVIOUS
    <3> QED BY <2>1, Running
  <2>4. \A a \in working : Finished(a)
    BY <2>3 DEF Inv, AttemptInv, TypeOK, Finished
  <2>5. waiting = {}
    BY <2>3 DEF Inv, AttemptInv, TypeOK
  <2> QED BY <2>2, <2>4, <2>5
<1> QED BY <1>1, Invariance, PTL

\* The function does not return with an upload begun at the server, and answered
\* for, that is neither complete nor asked to be aborted (FileSupport.cpp:739-759).
THEOREM UploadEnded == Spec => []NoKnownUploadLeft
<1>1. Inv => NoKnownUploadLeft
  BY DEF Inv, UploadInv
<1> QED BY <1>1, Invariance, PTL
=============================================================================
