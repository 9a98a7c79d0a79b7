----------------------------- MODULE MCPoolLocks -----------------------------
(***************************************************************************)
(* Three threads with any three calls of the pool, which thread makes      *)
(* which does not matter; the list of threads is locked before the queue   *)
(* of messages.                                                            *)
(***************************************************************************)
EXTENDS PoolLocks

MCRank == [l \in {Pool, MsgQueue} |-> IF l = Pool THEN 0 ELSE 1]
MCCalls == {c \in [1 .. 3 -> DOMAIN Script] : c[1] <= c[2] /\ c[2] <= c[3]}
=============================================================================
