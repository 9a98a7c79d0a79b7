---------------------------- MODULE MCThreadPool -----------------------------
(***************************************************************************)
(* A pool of one to two threads whose limit may be lowered to one; two     *)
(* messages, one of a higher priority, and a delayed one that must run     *)
(* alone.                                                                  *)
(***************************************************************************)
EXTENDS ThreadPool

CONSTANTS low, high, late

MCPriority == [m \in {low, high, late} |-> IF m = high THEN 1 ELSE 0]
MCGroup == [m \in {low, high, late} |-> IF m = late THEN ALONE_BASE ELSE 0]
=============================================================================
