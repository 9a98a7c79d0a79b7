------------------------------ MODULE MCFailover ------------------------------
(***************************************************************************)
(* Two requests, two nodes and two lists: both nodes, or only one.          *)
(***************************************************************************)
EXTENDS Failover

CONSTANTS r1, r2, a1, a2

MCRequest == {r1, r2}
MCAddress == {a1, a2}
MCLists == {<<a1, a2>>, <<a2>>}
=============================================================================
